---------------------------------- MODULE Swarm ---------------------------------
(***************************************************************************)
(* gdalcubes_swarm::apply: the files of the working directory and the cube  *)
(* are sent to every server, chunk i is started on server i modulo their    *)
(* number, and threads download the chunks and call f for each.  Thread it  *)
(* fetches the chunks of server it only: its loop over the servers advances *)
(* by the number of servers instead of threads.                             *)
(*                                                                         *)
(* A server is what its clients see: files it never replaces, cubes by id,  *)
(* chunks it has read.  It may fail at any time, and another client sends   *)
(* files and cubes as well.                                                 *)
(***************************************************************************)
EXTENDS Integers

CONSTANTS NChunks,    \* cube::count_chunks()
          NServers,   \* size of _server_uris
          NThreads,   \* threads of the default chunk processor, or 1
          NFiles,     \* files in the working directory
          Ids,        \* ids of cubes, 2^16 in the code
          MaxCubes,   \* bound on cubes registered at a server
          Shared,     \* servers another client uses
          Unreliable  \* servers that may fail

ASSUME SwarmAssumption ==
    /\ {NChunks, NServers, NThreads, NFiles, Ids} \subseteq Nat \ {0}
    /\ MaxCubes \in Nat
    /\ Shared \cup Unreliable \subseteq 0..(NServers - 1)

Chunks  == 0..(NChunks - 1)
Servers == 0..(NServers - 1)
Threads == 0..(NThreads - 1)
Files   == 0..(NFiles - 1)

VARIABLES
    up,         \* servers that answer
    disk,       \* files of a server: "absent", "same", "twin" (as long as ours) or "other"
    cubestore,  \* cubes of a server by id: "none", "own" or "foreign"
    cur_id,     \* ids a server has given out
    posting,    \* the id of the other client's cube between its two steps, or -1
    done,       \* our chunks that a server has read
    caller,     \* where apply is
    is, n,      \* its loop counters: the server; the file, chunk or thread
    cube_ids,   \* _cube_ids
    pc, k,      \* where each thread is, and its chunk
    dat,        \* what it has downloaded
    applied,    \* chunks f was called for
    result      \* what f was given

servers == <<up, disk, cubestore, cur_id, posting, done>>
client  == <<caller, is, n, cube_ids, pc, k, dat, applied, result>>
vars    == <<servers, client>>

ServerOf(c) == c % NServers

Goto(l) == caller' = l

\* An exception leaves apply; one in a thread ends the process.
Throw == Goto("raised") /\ UNCHANGED <<is, n, cube_ids, pc, k, dat, applied, result>>

-------------------------------------------------------------------------------
\* Servers.

Fail(s) ==
    /\ s \in up
    /\ up' = up \ {s}
    /\ UNCHANGED <<disk, cubestore, cur_id, posting, done, client>>

\* Ids wrap around at the end of their type.
Id(s) == cur_id[s] % Ids

\* Registered cubes stay: insert does nothing if the id is in use.
Insert(s, id, c) == [cubestore EXCEPT ![s][id] = IF @ = "none" THEN c ELSE @]

\* Another client uploads a file of the same name.
OtherFile(s, f) ==
    /\ s \in up /\ disk[s][f] = "absent"
    /\ \E d \in {"twin", "other"} : disk' = [disk EXCEPT ![s][f] = d]
    /\ UNCHANGED <<up, cubestore, cur_id, posting, done, client>>

\* Another client posts a cube: the id is taken under one mutex, the cube is stored under another.
OtherCubeId(s) ==
    /\ s \in up /\ posting[s] = -1 /\ cur_id[s] < MaxCubes
    /\ posting' = [posting EXCEPT ![s] = Id(s)]
    /\ cur_id' = [cur_id EXCEPT ![s] = @ + 1]
    /\ UNCHANGED <<up, disk, cubestore, done, client>>

OtherCube(s) ==
    /\ s \in up /\ posting[s] # -1
    /\ cubestore' = Insert(s, posting[s], "foreign")
    /\ posting' = [posting EXCEPT ![s] = -1]
    /\ UNCHANGED <<up, disk, cur_id, done, client>>

\* A worker of the server reads a chunk that was started (before the chunk the caller is at).
Read(s, c) ==
    /\ s \in up /\ s = ServerOf(c) /\ c \notin done
    /\ \/ caller = "start" /\ c < n
       \/ caller \in {"spawn", "join", "returned"}
    /\ done' = done \cup {c}
    /\ UNCHANGED <<up, disk, cubestore, cur_id, posting, client>>

ServerStep(s) ==
    \/ s \in Unreliable /\ Fail(s)
    \/ s \in Shared /\ (OtherCubeId(s) \/ OtherCube(s) \/ \E f \in Files : OtherFile(s, f))
    \/ \E c \in Chunks : Read(s, c)

-------------------------------------------------------------------------------
\* post_file, for each file and server.

NextFile ==
    /\ is' = (is + 1) % NServers
    /\ n' = IF is + 1 < NServers THEN n ELSE (n + 1) % NFiles
    /\ Goto(IF is + 1 < NServers \/ n + 1 < NFiles THEN "head" ELSE "cube")
    /\ UNCHANGED <<cube_ids, pc, k, dat, applied, result>>

\* A file of the same length is the same file.
Head ==
    /\ caller = "head"
    /\ IF is \notin up THEN Throw
       ELSE IF disk[is][n] \in {"same", "twin"} THEN NextFile
       ELSE Goto("upload") /\ UNCHANGED <<is, n, cube_ids, pc, k, dat, applied, result>>
    /\ UNCHANGED servers

\* The server keeps a file it has, and its answer is ignored.  An upload that is cut off leaves
\* a shorter file.
Upload ==
    /\ caller = "upload"
    /\ \/ /\ is \in up
          /\ disk' = IF disk[is][n] = "absent" THEN [disk EXCEPT ![is][n] = "same"] ELSE disk
          /\ NextFile
       \/ /\ disk' = IF disk[is][n] = "absent" THEN [disk EXCEPT ![is][n] = "other"] ELSE disk
          /\ Throw
       \/ is \notin up /\ Throw /\ UNCHANGED disk
    /\ UNCHANGED <<up, cubestore, cur_id, posting, done>>

-------------------------------------------------------------------------------
\* push_cube

\* Mutant: the id is read and not yet counted.
PostCubeUncounted ==
    /\ caller = "cube" /\ is \in up
    /\ cube_ids' = [cube_ids EXCEPT ![is] = Id(is)]
    /\ Goto("insert")
    /\ UNCHANGED <<servers, is, n, pc, k, dat, applied, result>>

PostCube ==
    /\ caller = "cube"
    /\ IF is \notin up THEN Throw /\ UNCHANGED cur_id
       ELSE /\ cube_ids' = [cube_ids EXCEPT ![is] = Id(is)]
            /\ cur_id' = [cur_id EXCEPT ![is] = @ + 1]
            /\ Goto("insert")
            /\ UNCHANGED <<is, n, pc, k, dat, applied, result>>
    /\ UNCHANGED <<up, disk, cubestore, posting, done>>

StoreCube ==
    /\ caller = "insert"
    /\ IF is \notin up THEN Throw /\ UNCHANGED cubestore
       ELSE /\ cubestore' = Insert(is, cube_ids[is], "own")
            /\ is' = (is + 1) % NServers
            /\ n' = 0
            /\ Goto(IF is + 1 < NServers THEN "cube" ELSE "start")
            /\ UNCHANGED <<cube_ids, pc, k, dat, applied, result>>
    /\ UNCHANGED <<up, disk, cur_id, posting, done>>

-------------------------------------------------------------------------------
\* apply

PostStart ==
    /\ caller = "start" /\ n < NChunks
    /\ IF ServerOf(n) \notin up THEN Throw
       ELSE n' = n + 1 /\ UNCHANGED <<caller, is, cube_ids, pc, k, dat, applied, result>>
    /\ UNCHANGED servers

Started ==
    /\ caller = "start" /\ n = NChunks
    /\ Goto("spawn") /\ n' = 0
    /\ UNCHANGED <<servers, is, cube_ids, pc, k, dat, applied, result>>

Spawn ==
    /\ caller = "spawn" /\ n < NThreads
    /\ pc' = [pc EXCEPT ![n] = IF n < NServers THEN "loop" ELSE "exit"]
    /\ k' = [k EXCEPT ![n] = n]
    /\ n' = n + 1
    /\ UNCHANGED <<servers, caller, is, cube_ids, dat, applied, result>>

Spawned ==
    /\ caller = "spawn" /\ n = NThreads
    /\ Goto("join") /\ n' = 0
    /\ UNCHANGED <<servers, is, cube_ids, pc, k, dat, applied, result>>

Join ==
    /\ caller = "join" /\ n < NThreads
    /\ pc[n] = "exit"
    /\ n' = n + 1
    /\ UNCHANGED <<servers, caller, is, cube_ids, pc, k, dat, applied, result>>

Joined ==
    /\ caller = "join" /\ n = NThreads
    /\ Goto("returned")
    /\ UNCHANGED <<servers, is, n, cube_ids, pc, k, dat, applied, result>>

Caller ==
    Head \/ Upload \/ PostCube \/ StoreCube \/ PostStart \/ Started \/ Spawn \/ Spawned \/ Join \/ Joined

-------------------------------------------------------------------------------
\* Threads.

\* What a server reads of our cube.
Content(s) ==
    IF cubestore[s][cube_ids[s]] # "own" THEN "foreign"
    ELSE IF \A f \in Files : disk[s][f] = "same" THEN "right" ELSE "stale"

\* A download waits for a chunk that is being read, or is answered 404 while it is queued; the
\* client takes the answer for a chunk either way.
Download(t) ==
    /\ caller \in {"spawn", "join"}
    /\ pc[t] = "loop" /\ k[t] < NChunks
    /\ IF t \notin up THEN Throw
       ELSE /\ \/ k[t] \in done /\ dat' = [dat EXCEPT ![t] = Content(t)]
               \/ k[t] \notin done /\ dat' = [dat EXCEPT ![t] = "error"]
            /\ pc' = [pc EXCEPT ![t] = "got"]
            /\ UNCHANGED <<caller, is, n, cube_ids, k, applied, result>>
    /\ UNCHANGED servers

\* Mutant: the next chunk is that of another server.
ApplyNeighbour(t) ==
    /\ caller \in {"spawn", "join"}
    /\ pc[t] = "got"
    /\ applied' = applied \cup {k[t]}
    /\ result' = [result EXCEPT ![k[t]] = dat[t]]
    /\ k' = [k EXCEPT ![t] = @ + 1]
    /\ pc' = [pc EXCEPT ![t] = "loop"]
    /\ UNCHANGED <<servers, caller, is, n, cube_ids, dat>>

Apply(t) ==
    /\ caller \in {"spawn", "join"}
    /\ pc[t] = "got"
    /\ applied' = applied \cup {k[t]}
    /\ result' = [result EXCEPT ![k[t]] = dat[t]]
    /\ k' = [k EXCEPT ![t] = @ + NServers]
    /\ pc' = [pc EXCEPT ![t] = "loop"]
    /\ UNCHANGED <<servers, caller, is, n, cube_ids, dat>>

\* f throws.
ApplyThrows(t) ==
    /\ caller \in {"spawn", "join"}
    /\ pc[t] = "got"
    /\ Throw /\ UNCHANGED servers

Exit(t) ==
    /\ caller \in {"spawn", "join"}
    /\ pc[t] = "loop" /\ k[t] >= NChunks
    /\ pc' = [pc EXCEPT ![t] = "exit"]
    /\ UNCHANGED <<servers, caller, is, n, cube_ids, k, dat, applied, result>>

Thread(t) == Download(t) \/ Apply(t) \/ ApplyThrows(t) \/ Exit(t)

Init ==
    /\ up = Servers
    /\ disk \in [Servers -> [Files -> {"absent", "same", "twin", "other"}]]
    /\ cubestore = [s \in Servers |-> [id \in 0..(Ids - 1) |-> "none"]]
    /\ cur_id = [s \in Servers |-> 0]
    /\ posting = [s \in Servers |-> -1]
    /\ done = {}
    /\ caller = "head" /\ is = 0 /\ n = 0
    /\ cube_ids = [s \in Servers |-> 0]
    /\ pc = [t \in Threads |-> "none"]
    /\ k = [t \in Threads |-> 0]
    /\ dat = [t \in Threads |-> "none"]
    /\ applied = {}
    /\ result = [c \in Chunks |-> "none"]

Next ==
    \/ Caller
    \/ \E t \in Threads : Thread(t)
    \/ \E s \in Servers : ServerStep(s)

Spec == Init /\ [][Next]_vars

-------------------------------------------------------------------------------
\* Properties.

\* What f is given is our chunk, or an error that the server answered in its place.  It is a chunk
\* of files that differ from ours only if the server had such a file before we could upload it,
\* and a chunk of another cube only after the ids of cubes have wrapped around; once the files are
\* sent, every server has one of each name.
OwnChunks ==
    /\ caller \notin {"head", "upload", "raised"} => \A s \in Servers, f \in Files : disk[s][f] # "absent"
    /\ \A c \in applied :
        /\ result[c] \in {"right", "stale", "foreign", "error"}
        /\ result[c] = "stale" => \E f \in Files : disk[ServerOf(c)][f] \in {"twin", "other"}
        /\ result[c] = "foreign" => cur_id[ServerOf(c)] > Ids

\* The chunks that some thread fetches: with as many threads as servers, all of them.
Fetched == {c \in Chunks : ServerOf(c) < NThreads}

\* apply implements the loop over these chunks: f is called once for each of them before it
\* returns, or an exception leaves apply or ends the process.
Loop == INSTANCE ForEachChunk
            WITH Chunks <- Fetched,
                 ended  <- IF caller \in {"returned", "raised"} THEN caller ELSE "no",
                 failed <- IF caller = "raised" THEN {CHOOSE c \in Fetched \ applied : TRUE} ELSE {}
LoopSpec == Loop!ApplySpec

=================================================================================
