---------------------------- MODULE ChunkProcessor ----------------------------
(***************************************************************************)
(* chunk_processor_multithread::apply: thread it reads the chunks it,       *)
(* it + _nthreads, it + 2 * _nthreads, ... and calls f for each, while the  *)
(* caller creates the threads one after the other and joins them in order.  *)
(* What f does under the mutex it is given is one critical section (f may   *)
(* have several in a row, as the exports do for the bands); an exception of *)
(* read_chunk or of f before it skips the chunk.                            *)
(***************************************************************************)
EXTENDS Naturals

CONSTANTS NChunks,   \* cube::count_chunks()
          NThreads   \* chunk_processor_multithread::_nthreads

ASSUME ProcessorAssumption ==
    /\ NChunks \in Nat
    /\ NThreads \in Nat \ {0}   \* the only caller makes one for more than one thread

Chunks  == 0..(NChunks - 1)
Threads == 0..(NThreads - 1)

VARIABLES
    outcome,  \* whether reading the chunk or f throws, for each chunk
    caller,   \* "spawn", "join" or "returned"
    it,       \* the caller's loop counter
    pc,       \* where each thread is
    i,        \* the loop counter of each thread
    applied,  \* chunks f was completed for
    failed,   \* chunks that were skipped
    written   \* how often f entered its critical section, for each chunk

vars == <<outcome, caller, it, pc, i, applied, failed, written>>

Goto(t, l) == pc' = [pc EXCEPT ![t] = l]

\* The thread that holds the mutex given to f.
MutexHeld == \E t \in Threads : pc[t] = "locked"

-------------------------------------------------------------------------------
\* The caller.

\* Mutant: one thread too many is created.
SpawnOneTooMany ==
    /\ caller = "spawn" /\ it <= NThreads
    /\ Goto(it, "loop")
    /\ i' = [i EXCEPT ![it] = it]
    /\ it' = it + 1
    /\ UNCHANGED <<outcome, caller, applied, failed, written>>

Spawn ==
    /\ caller = "spawn" /\ it < NThreads
    /\ Goto(it, "loop")
    /\ i' = [i EXCEPT ![it] = it]
    /\ it' = it + 1
    /\ UNCHANGED <<outcome, caller, applied, failed, written>>

Spawned ==
    /\ caller = "spawn" /\ it = NThreads
    /\ caller' = "join" /\ it' = 0
    /\ UNCHANGED <<outcome, pc, i, applied, failed, written>>

\* Mutant: the caller does not wait for the thread to end.
JoinNoWait ==
    /\ caller = "join" /\ it < NThreads
    /\ it' = it + 1
    /\ UNCHANGED <<outcome, caller, pc, i, applied, failed, written>>

Join ==
    /\ caller = "join" /\ it < NThreads
    /\ pc[it] = "exit"
    /\ it' = it + 1
    /\ UNCHANGED <<outcome, caller, pc, i, applied, failed, written>>

Joined ==
    /\ caller = "join" /\ it = NThreads
    /\ caller' = "returned"
    /\ UNCHANGED <<outcome, it, pc, i, applied, failed, written>>

-------------------------------------------------------------------------------
\* The threads.

\* Mutant: the loop ends one chunk early.
TestStopsEarly(t) ==
    /\ pc[t] = "loop"
    /\ Goto(t, IF i[t] + 1 < NChunks THEN "read" ELSE "exit")
    /\ UNCHANGED <<outcome, caller, it, i, applied, failed, written>>

Test(t) ==
    /\ pc[t] = "loop"
    /\ Goto(t, IF i[t] < NChunks THEN "read" ELSE "exit")
    /\ UNCHANGED <<outcome, caller, it, i, applied, failed, written>>

\* Mutant: the stride is one.
AdvanceByOne(t) == i' = [i EXCEPT ![t] = i[t] + 1]

\* i += _nthreads
Advance(t) == i' = [i EXCEPT ![t] = i[t] + NThreads]

\* read_chunk and f run without the mutex until f locks it; either may throw
\* up to there.
ReadOK(t) ==
    /\ pc[t] = "read" /\ outcome[i[t]] = "ok"
    /\ Goto(t, "lock")
    /\ UNCHANGED <<outcome, caller, it, i, applied, failed, written>>

\* Mutant: the chunk is tried again.
ReadThrowsRetries(t) ==
    /\ pc[t] = "read" /\ outcome[i[t]] = "throws"
    /\ failed' = failed \cup {i[t]}
    /\ Goto(t, "loop")
    /\ UNCHANGED <<outcome, caller, it, i, applied, written>>

ReadThrows(t) ==
    /\ pc[t] = "read" /\ outcome[i[t]] = "throws"
    /\ failed' = failed \cup {i[t]}
    /\ Advance(t)
    /\ Goto(t, "loop")
    /\ UNCHANGED <<outcome, caller, it, applied, written>>

Lock(t) ==
    /\ pc[t] = "lock" /\ ~MutexHeld
    /\ Goto(t, "locked")
    /\ UNCHANGED <<outcome, caller, it, i, applied, failed, written>>

Unlock(t) ==
    /\ pc[t] = "locked"
    /\ written' = [written EXCEPT ![i[t]] = @ + 1]
    /\ applied' = applied \cup {i[t]}
    /\ Advance(t)
    /\ Goto(t, "loop")
    /\ UNCHANGED <<outcome, caller, it, failed>>

Step(t) == Test(t) \/ ReadOK(t) \/ ReadThrows(t) \/ Lock(t) \/ Unlock(t)
Caller  == Spawn \/ Spawned \/ Join \/ Joined

Init ==
    /\ outcome \in [Chunks -> {"ok", "throws"}]
    /\ caller = "spawn" /\ it = 0
    /\ pc = [t \in Threads |-> "none"]
    /\ i = [t \in Threads |-> 0]
    /\ applied = {} /\ failed = {}
    /\ written = [c \in Chunks |-> 0]

Next == Caller \/ \E t \in Threads : Step(t)
Spec == Init /\ [][Next]_vars

\* The scheduler runs every thread; a thread that waits for the mutex gets it,
\* as there are only finitely many calls of f to wait for.
FairSpec == Spec /\ WF_vars(Caller) /\ \A t \in Threads : WF_vars(Step(t))

-------------------------------------------------------------------------------
\* Properties.

TypeOK ==
    /\ outcome \in [Chunks -> {"ok", "throws"}]
    /\ caller \in {"spawn", "join", "returned"}
    /\ it \in 0..NThreads
    /\ pc \in [Threads -> {"none", "loop", "read", "lock", "locked", "exit"}]
    /\ i \in [Threads -> Nat]
    /\ applied \in SUBSET Chunks
    /\ failed \in SUBSET Chunks
    /\ written \in [Chunks -> Nat]

\* No chunk is processed twice, by any two threads or twice by one.
AtMostOnce == \A c \in Chunks : written[c] <= 1 /\ (c \in failed => written[c] = 0)

\* When apply returns, every chunk was processed or its failure was seen, and
\* no thread is still running.
ReturnedComplete ==
    caller = "returned" =>
        /\ \A c \in Chunks : IF outcome[c] = "ok" THEN written[c] = 1 ELSE c \in failed
        /\ \A t \in Threads : pc[t] = "exit"

\* apply returns.
Returns == <>(caller = "returned")

\* The threads implement the loop over all chunks.
Loop == INSTANCE ForEachChunk
            WITH ended <- IF caller = "returned" THEN "returned" ELSE "no"
LoopSpec == Loop!ApplySpec
===============================================================================
