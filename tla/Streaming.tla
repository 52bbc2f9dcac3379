------------------------------- MODULE Streaming --------------------------------
(***************************************************************************)
(* Operations that hand a chunk to an external process: stream_cube with    *)
(* files or pipes, stream_apply_pixel_cube and stream_reduce_time_cube.     *)
(* The threads of a chunk processor run them side by side, and a process    *)
(* learns the names of its files from environment variables, which belong   *)
(* to the whole program.  Each operation guards them by a static mutex of   *)
(* its own; the pipe variant uses none.                                     *)
(*                                                                         *)
(* A call is one read_chunk.  The process stands for any program: its       *)
(* output is named by the input it read.                                    *)
(***************************************************************************)
EXTENDS CubeOperations

CONSTANTS Threads,
          Open,    \* a read_chunk that has not ended
          Failed   \* one that threw

VARIABLES pc,      \* per thread
          call,    \* per thread: operator and chunk of the current read_chunk
          env,     \* GDALCUBES_STREAMING_CHUNK_ID, _FILE_IN and _FILE_OUT
          files,   \* the streaming directory: contents by name
          child,   \* per thread: the environment its process was started with
          result   \* per call: what read_chunk returned

svars == <<pc, call, env, files, child, result>>

\* Operators and chunks of this behaviour.
Calls ==
    IF op.kind # "stream" THEN {}
    ELSE {k \in [o : op.operators, id : op.ids] :
            k.id \in IF k.o = "reduce" THEN ChunkIds(TimeShape(cube).n, TimeShape(cube).s)
                     ELSE ChunkIds(cube.n, cube.s)}

-------------------------------------------------------------------------------
\* Input of a process.

\* stream_reduce_time_cube: all slices of a place, chunk k from slice k * chunk_size on.
Gathered(c, id) ==
    LET v    == chunk_size(TimeShape(c).n, TimeShape(c).s, id)
        x(t) == ChunkOf(c, Column(c, id)[t \div c.s.t + 1])
    IN  Chunk([b |-> c.nb, t |-> c.n.t, y |-> v.y, x |-> v.x],
              LAMBDA b, t, p : IF t % c.s.t >= x(t).size.t THEN NaN
                               ELSE Value(x(t), b, t % c.s.t, p))

\* stream_cube and stream_apply_pixel_cube: the chunk.  The latter announces the size the
\* chunk should have, even if there are no data.
Input(k) ==
    IF k.o = "reduce" THEN Gathered(cube, k.id) ELSE ChunkOf(cube, k.id)

-------------------------------------------------------------------------------
\* Static mutexes: a thread is between lock and unlock.
InCritical(t) == pc[t] \in {"SetId", "SetIn", "SetOut", "Spawn"}

MutexHeld(o) == \E t \in Threads : InCritical(t) /\ call[t].o = o

Go(t, from, to) == pc[t] = from /\ pc' = [pc EXCEPT ![t] = to]

Begun == {call[t] : t \in {u \in Threads : pc[u] # "Idle"}}

\* stream_cube returns an empty chunk as it is.
ReturnEmpty(k) ==
    /\ k.o \in {"stream", "pipe"}
    /\ Volume(Input(k).size) = 0
    /\ result' = [result EXCEPT ![k] = EmptyChunk]
    /\ UNCHANGED <<pc, files>>

\* The new file for the input may not open.
InputFails(k) ==
    /\ k.o # "pipe"
    /\ result' = [result EXCEPT ![k] = Failed]
    /\ UNCHANGED <<pc, files>>

\* The input is read and written to a new file; a pipe needs none.
WriteInput(t, k) ==
    /\ k.o \in {"stream", "pipe"} => Volume(Input(k).size) # 0
    /\ Go(t, "Idle", IF k.o = "pipe" THEN "SetId" ELSE "Lock")
    /\ files' = IF k.o = "pipe" THEN files ELSE [files EXCEPT ![<<k, "in">>] = {Input(k)}]
    /\ UNCHANGED result

Begin(t) ==
    \E k \in Calls \ Begun :
        /\ pc[t] = "Idle"
        /\ result[k] = Open
        /\ call' = [call EXCEPT ![t] = k]
        /\ ReturnEmpty(k) \/ InputFails(k) \/ WriteInput(t, k)
        /\ UNCHANGED <<env, child>>

\* Mutant: the mutex is missing.
NoLock(t) == Go(t, "Lock", "SetId") /\ UNCHANGED <<call, env, files, child, result>>

Lock(t) ==
    /\ Go(t, "Lock", "SetId")
    /\ ~MutexHeld(call[t].o)
    /\ UNCHANGED <<call, env, files, child, result>>

SetId(t) ==
    /\ Go(t, "SetId", IF call[t].o = "pipe" THEN "Spawn" ELSE "SetIn")
    /\ env' = [env EXCEPT !.id = {call[t].id}]
    /\ UNCHANGED <<call, files, child, result>>

SetIn(t) ==
    /\ Go(t, "SetIn", "SetOut")
    /\ env' = [env EXCEPT !.in = {<<call[t], "in">>}]
    /\ UNCHANGED <<call, files, child, result>>

SetOut(t) ==
    /\ Go(t, "SetOut", "Spawn")
    /\ env' = [env EXCEPT !.out = {<<call[t], "out">>}]
    /\ UNCHANGED <<call, files, child, result>>

\* The process gets a copy of the environment; then the mutex is released.
Spawn(t) ==
    /\ Go(t, "Spawn", "Child")
    /\ child' = [child EXCEPT ![t] = env]
    /\ UNCHANGED <<call, env, files, result>>

\* The process of a pipe gets its input from the thread.  Others read and write the files
\* they were told; a process fails without its input file, or for reasons of its own.
ChildEnds(t) ==
    \E ok \in BOOLEAN :
        LET in  == IF call[t].o = "pipe" THEN {Input(call[t])}
                   ELSE UNION {files[f] : f \in child[t].in}
        IN  /\ Go(t, "Child", IF ok THEN "Collect" ELSE "Abandon")
            /\ ok => in # {}
            /\ files' = [f \in DOMAIN files |->
                            IF ok /\ call[t].o # "pipe" /\ f \in child[t].out THEN in ELSE files[f]]
            /\ UNCHANGED <<call, env, child, result>>

\* A bad exit status: both files are removed and the thread throws.
Abandon(t) ==
    /\ Go(t, "Abandon", "Idle")
    /\ files' = IF call[t].o = "pipe" THEN files
                ELSE [files EXCEPT ![<<call[t], "in">>] = {}, ![<<call[t], "out">>] = {}]
    /\ result' = [result EXCEPT ![call[t]] = Failed]
    /\ UNCHANGED <<call, env, child>>

\* A good one: the output is read, and both files are removed.  No output file throws.
Collect(t) ==
    LET out == IF call[t].o = "pipe" THEN {Input(call[t])} ELSE files[<<call[t], "out">>]
    IN  /\ Go(t, "Collect", "Idle")
        /\ files' = IF call[t].o = "pipe" THEN files
                    ELSE [files EXCEPT ![<<call[t], "in">>] = {}, ![<<call[t], "out">>] = {}]
        /\ result' = [result EXCEPT ![call[t]] =
                        IF out = {} THEN Failed ELSE CHOOSE x \in out : TRUE]
        /\ UNCHANGED <<call, env, child>>

-------------------------------------------------------------------------------
Init ==
    /\ OperationsInit
    /\ pc = [t \in Threads |-> "Idle"]
    /\ call = [t \in Threads |-> Nothing]
    /\ env = [id |-> {}, in |-> {}, out |-> {}]
    /\ files = [f \in Calls \X {"in", "out"} |-> {}]
    /\ child = [t \in Threads |-> env]
    /\ result = [k \in Calls |-> Open]

Stream ==
    /\ \E t \in Threads :
        \/ Begin(t) \/ Lock(t) \/ SetId(t) \/ SetIn(t) \/ SetOut(t)
        \/ Spawn(t) \/ ChildEnds(t) \/ Abandon(t) \/ Collect(t)
    /\ UNCHANGED vars

Next == Stream \/ (OperationsNext /\ UNCHANGED svars)

Spec == Init /\ [][Next]_<<vars, svars>>

-------------------------------------------------------------------------------
\* A process finds its own chunk in its environment, and what read_chunk returns comes
\* from the process that was given this chunk, or for stream_reduce_time_cube all slices of
\* the place in their order, with gaps where chunks are empty.  This needs a program in
\* which only one of the operators streams: their mutexes are different ones, and
\* pipes have none.
OwnOutput ==
    op.kind = "stream" =>
        /\ \A t \in Threads :
            pc[t] = "Child" /\ Cardinality(op.operators) = 1 /\ op.operators # {"pipe"} =>
                child[t].id = {call[t].id}
        /\ Cardinality(op.operators \ {"pipe"}) <= 1 =>
            \A k \in Calls : result[k] \notin {Open, Failed} =>
                IF k.o # "reduce" THEN result[k] = ChunkOf(cube, k.id)
                ELSE LET x == result[k]
                     IN  \A b \in 0..(cube.nb - 1), t \in 0..(cube.n.t - 1),
                            p \in 0..(x.size.y * x.size.x - 1) :
                            Value(x, b, t, p) = cube.data[b][[ElementCell(TimeShape(cube).n,
                                TimeShape(cube).s, k.id, Place(x, 0, p)) EXCEPT !.t = t]]

===============================================================================
