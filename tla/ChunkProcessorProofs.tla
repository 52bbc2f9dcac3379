------------------------- MODULE ChunkProcessorProofs --------------------------
(***************************************************************************)
(* Proofs about ChunkProcessor, for every number of chunks and threads.     *)
(* Everything rests on one arithmetical fact: the chunks t, t + NThreads,   *)
(* t + 2 * NThreads, ... of different threads are different, and every      *)
(* chunk is one of them.                                                    *)
(***************************************************************************)
EXTENDS MCChunkProcessor, TLAPS

\* Thread t comes to chunk c.
Reads(t, c) == \E k \in Nat : c = t + k * NThreads

LEMMA ReadsFirst == ASSUME NEW t \in Threads PROVE Reads(t, t)
<1>1. t = t + 0 * NThreads
  BY ProcessorAssumption, SMT DEF Threads
<1> QED BY <1>1 DEF Reads

LEMMA ReadsNext ==
    ASSUME NEW t \in Threads, NEW c \in Nat, Reads(t, c)
    PROVE  Reads(t, c + NThreads)
<1>1. PICK k \in Nat : c = t + k * NThreads
  BY DEF Reads
<1>2. c + NThreads = t + (k + 1) * NThreads
  BY <1>1, ProcessorAssumption, SMT DEF Threads
<1>3. k + 1 \in Nat
  OBVIOUS
<1> QED BY <1>2, <1>3 DEF Reads

LEMMA Multiples ==
    ASSUME NEW j \in Nat, NEW k \in Nat, j < k
    PROVE  j * NThreads + NThreads <= k * NThreads
<1>1. PICK d \in Nat : k = j + 1 + d
  <2>1. k - j - 1 \in Nat /\ k = j + 1 + (k - j - 1)
    OBVIOUS
  <2> QED BY <2>1
<1>2. k * NThreads = j * NThreads + NThreads + d * NThreads
  BY <1>1, ProcessorAssumption, SMT
<1>3. d * NThreads \in Nat /\ j * NThreads \in Nat /\ NThreads \in Nat
  BY ProcessorAssumption, SMT
<1> QED BY <1>2, <1>3

\* A thread leaves NThreads - 1 chunks out.
LEMMA ReadsGap ==
    ASSUME NEW t \in Threads, NEW a \in Nat, NEW c \in Nat,
           Reads(t, a), Reads(t, c), a < c
    PROVE  a + NThreads <= c
<1>1. PICK j \in Nat : a = t + j * NThreads
  BY DEF Reads
<1>2. PICK k \in Nat : c = t + k * NThreads
  BY DEF Reads
<1>3. j * NThreads \in Nat /\ k * NThreads \in Nat /\ t \in Nat /\ NThreads \in Nat
  BY ProcessorAssumption, SMT DEF Threads
<1>4. j < k
  <2>1. ASSUME j >= k PROVE FALSE
    <3>1. k * NThreads <= j * NThreads
      <4>1. CASE j = k
        BY <4>1, <1>3
      <4>2. CASE k < j
        BY <4>2, <1>3, Multiples
      <4> QED BY <2>1, <4>1, <4>2
    <3> QED BY <3>1, <1>1, <1>2, <1>3
  <2> QED BY <2>1
<1>5. j * NThreads + NThreads <= k * NThreads
  BY <1>4, Multiples
<1> QED BY <1>1, <1>2, <1>3, <1>5

\* No chunk belongs to two threads.
LEMMA ReadsUnique ==
    ASSUME NEW s \in Threads, NEW t \in Threads, NEW c \in Nat,
           Reads(s, c), Reads(t, c)
    PROVE  s = t
<1>1. PICK j \in Nat : c = s + j * NThreads
  BY DEF Reads
<1>2. PICK k \in Nat : c = t + k * NThreads
  BY DEF Reads
<1>3. /\ j * NThreads \in Nat /\ k * NThreads \in Nat
      /\ s \in Nat /\ t \in Nat /\ s < NThreads /\ t < NThreads /\ NThreads \in Nat
  BY ProcessorAssumption, SMT DEF Threads
<1>4. CASE j = k
  BY <1>1, <1>2, <1>3, <1>4
<1>5. CASE j < k
  <2>1. j * NThreads + NThreads <= k * NThreads
    BY <1>5, Multiples
  <2> QED BY <2>1, <1>1, <1>2, <1>3
<1>6. CASE k < j
  <2>1. k * NThreads + NThreads <= j * NThreads
    BY <1>6, Multiples
  <2> QED BY <2>1, <1>1, <1>2, <1>3
<1> QED BY <1>4, <1>5, <1>6

\* Every chunk belongs to a thread.
LEMMA ReadsAll ==
    ASSUME NEW c \in Nat
    PROVE  \E t \in Threads : Reads(t, c)
<1> DEFINE t == c % NThreads
           k == c \div NThreads
<1>1. k \in Nat /\ t \in 0..(NThreads - 1) /\ c = t + k * NThreads
  BY ProcessorAssumption, Z3T(30)
<1>2. t \in Threads
  BY <1>1 DEF Threads
<1>3. Reads(t, c)
  BY <1>1 DEF Reads
<1> QED BY <1>2, <1>3

-------------------------------------------------------------------------------
\* The invariant: where a thread is, and what is known of the chunks it comes to
\* and of those it has been at.

Untouched(c) == c \notin applied \cup failed /\ written[c] = 0

Processed(c) ==
    /\ c \in applied <=> outcome[c] = "ok"
    /\ c \in failed <=> outcome[c] = "throws"
    /\ written[c] = IF outcome[c] = "ok" THEN 1 ELSE 0

Position ==
    \A t \in Threads :
        /\ pc[t] # "none" => Reads(t, i[t])
        /\ pc[t] \in {"read", "lock", "locked"} => i[t] \in Chunks
        /\ pc[t] \in {"lock", "locked"} => outcome[i[t]] = "ok"
        /\ pc[t] = "exit" => i[t] >= NChunks

Ahead ==
    \A t \in Threads, c \in Chunks :
        Reads(t, c) /\ (pc[t] = "none" \/ i[t] <= c) => Untouched(c)

Behind ==
    \A t \in Threads, c \in Chunks :
        Reads(t, c) /\ pc[t] # "none" /\ c < i[t] => Processed(c)

CallerWaits ==
    /\ caller = "spawn" => \A t \in Threads : pc[t] = "none" <=> it <= t
    /\ caller # "spawn" => \A t \in Threads : pc[t] # "none"
    /\ caller = "join" => \A t \in Threads : t < it => pc[t] = "exit"
    /\ caller = "returned" => \A t \in Threads : pc[t] = "exit"

IInv == TypeOK /\ Position /\ Ahead /\ Behind /\ CallerWaits

ThreadPC == {"none", "loop", "read", "lock", "locked", "exit"}

LEMMA InitIInv == Init => IInv
<1> SUFFICES ASSUME Init PROVE IInv
  OBVIOUS
<1>1. TypeOK
  BY ProcessorAssumption DEF Init, TypeOK, Chunks, Threads
<1>2. Position /\ Behind
  BY DEF Init, Position, Behind
<1>3. Ahead
  BY DEF Init, Ahead, Untouched
<1>4. CallerWaits
  BY ProcessorAssumption DEF Init, CallerWaits, Threads
<1> QED BY <1>1, <1>2, <1>3, <1>4 DEF IInv

\* A thread that is at its next place, with the same chunk.
LEMMA MoveKeeps ==
    ASSUME IInv, NEW t \in Threads, Test(t) \/ ReadOK(t) \/ Lock(t)
    PROVE  IInv'
<1> USE DEF IInv
<1>1. TypeOK'
  BY DEF TypeOK, Test, ReadOK, Lock, Goto
<1>2. /\ UNCHANGED <<outcome, caller, it, i, applied, failed, written>>
      /\ \A s \in Threads : s # t => pc'[s] = pc[s]
      /\ pc[t] \notin {"none", "exit"} /\ pc'[t] # "none"
  BY DEF TypeOK, Test, ReadOK, Lock, Goto
<1>3. Position'
  <2>1. i[t] \in Nat /\ NChunks \in Nat
    BY ProcessorAssumption DEF TypeOK
  <2> QED BY <1>2, <2>1 DEF TypeOK, Position, Reads, Chunks, Test, ReadOK, Lock, Goto
<1>4. Ahead' /\ Behind'
  BY <1>2 DEF Ahead, Behind, Untouched, Processed, Reads
<1>5. CallerWaits'
  BY <1>2 DEF CallerWaits
<1> QED BY <1>1, <1>3, <1>4, <1>5

\* A thread that is through with its chunk.
LEMMA FinishKeeps ==
    ASSUME IInv, TypeOK', NEW t \in Threads, NEW chunk \in Chunks, chunk = i[t],
           pc[t] \in {"read", "lock", "locked"}, Goto(t, "loop"), Advance(t),
           UNCHANGED <<outcome, caller, it>>,
           Processed(chunk)',
           \A c \in Chunks : c # chunk =>
               /\ Untouched(c) => Untouched(c)'
               /\ Processed(c) => Processed(c)'
    PROVE  IInv'
<1> USE DEF IInv
<1>1. /\ \A s \in Threads : s # t => pc'[s] = pc[s] /\ i'[s] = i[s]
      /\ pc'[t] = "loop" /\ i'[t] = i[t] + NThreads
      /\ i[t] \in Chunks /\ i[t] \in Nat /\ Reads(t, i[t])
  BY DEF TypeOK, Goto, Advance, Position
<1>2. Reads(t, i[t] + NThreads)
  BY <1>1, ReadsNext
<1>3. Position'
  BY <1>1, <1>2 DEF Position, Reads
<1>4. ASSUME NEW s \in Threads, NEW c \in Chunks, Reads(s, c)
      PROVE  /\ pc'[s] = "none" \/ i'[s] <= c => Untouched(c)'
             /\ pc'[s] # "none" /\ c < i'[s] => Processed(c)'
  <2>1. c \in Nat /\ i[s] \in Nat /\ NThreads \in Nat /\ NThreads > 0
    BY ProcessorAssumption DEF Chunks, TypeOK
  <2>2. CASE c = chunk
    <3>1. s = t
      BY <1>1, <1>4, <2>1, <2>2, ReadsUnique
    <3>2. c < i'[s]
      BY <1>1, <2>1, <2>2, <3>1
    <3> QED BY <1>1, <2>1, <2>2, <3>1, <3>2
  <2>3. CASE c # chunk /\ s = t
    <3>1. i[t] < c => i[t] + NThreads <= c
      BY <1>1, <1>4, <2>1, <2>3, ReadsGap
    <3> QED BY <1>1, <1>4, <2>1, <2>3, <3>1 DEF Ahead, Behind
  <2>4. CASE c # chunk /\ s # t
    BY <1>1, <1>4, <2>4 DEF Ahead, Behind
  <2> QED BY <2>2, <2>3, <2>4
<1>5. Ahead' /\ Behind'
  BY <1>4 DEF Ahead, Behind, Reads
<1>6. CallerWaits'
  BY <1>1 DEF CallerWaits
<1> QED BY <1>3, <1>5, <1>6

LEMMA ReadThrowsKeeps ==
    ASSUME IInv, NEW t \in Threads, ReadThrows(t)
    PROVE  IInv'
<1> USE DEF IInv, ReadThrows
<1>1. PICK c \in Chunks : c = i[t] /\ c \in Nat /\ Untouched(c)
  BY DEF TypeOK, Position, Ahead
<1>2. TypeOK'
  <2>1. i[t] \in Nat /\ i[t] + NThreads \in Nat
    BY ProcessorAssumption DEF TypeOK
  <2>2. i' \in [Threads -> Nat] /\ pc' \in [Threads -> ThreadPC]
    BY <2>1 DEF TypeOK, Goto, Advance, ThreadPC
  <2>3. failed' \in SUBSET Chunks
    BY <1>1 DEF TypeOK
  <2> QED BY <2>2, <2>3 DEF TypeOK, ThreadPC
<1>3. Processed(c)'
  BY <1>1 DEF Untouched, Processed
<1>4. \A d \in Chunks : d # c =>
          /\ Untouched(d) => Untouched(d)'
          /\ Processed(d) => Processed(d)'
  BY <1>1 DEF Untouched, Processed
<1> QED BY <1>1, <1>2, <1>3, <1>4, FinishKeeps

LEMMA UnlockKeeps ==
    ASSUME IInv, NEW t \in Threads, Unlock(t)
    PROVE  IInv'
<1> USE DEF IInv, Unlock
<1>1. PICK c \in Chunks : c = i[t] /\ c \in Nat /\ Untouched(c) /\ outcome[c] = "ok"
  BY DEF TypeOK, Position, Ahead
<1>2. TypeOK'
  <2>1. i[t] \in Nat /\ i[t] + NThreads \in Nat
    BY ProcessorAssumption DEF TypeOK
  <2>2. i' \in [Threads -> Nat] /\ pc' \in [Threads -> ThreadPC]
    BY <2>1 DEF TypeOK, Goto, Advance, ThreadPC
  <2>3. applied' \in SUBSET Chunks /\ written' \in [Chunks -> Nat]
    <3>1. applied' = applied \cup {c} /\ written' = [written EXCEPT ![c] = written[c] + 1]
      BY <1>1
    <3>2. written[c] = 0 /\ 0 + 1 \in Nat
      BY <1>1 DEF Untouched
    <3>3. applied' \in SUBSET Chunks
      BY <1>1, <3>1 DEF TypeOK
    <3>4. written' \in [Chunks -> Nat]
      BY <1>1, <3>1, <3>2 DEF TypeOK
    <3> QED BY <3>3, <3>4
  <2> QED BY <2>2, <2>3 DEF TypeOK, ThreadPC
<1>3. Processed(c)'
  BY <1>1 DEF Untouched, Processed, TypeOK
<1>4. \A d \in Chunks : d # c =>
          /\ Untouched(d) => Untouched(d)'
          /\ Processed(d) => Processed(d)'
  BY <1>1 DEF Untouched, Processed, TypeOK
<1> QED BY <1>1, <1>2, <1>3, <1>4, FinishKeeps

LEMMA SpawnKeeps ==
    ASSUME IInv, Spawn
    PROVE  IInv'
<1> USE DEF IInv, Spawn
<1>1. it \in Threads /\ it \in Nat /\ NThreads \in Nat
  BY ProcessorAssumption DEF TypeOK, Threads
<1>2. /\ \A s \in Threads : s # it => pc'[s] = pc[s] /\ i'[s] = i[s]
      /\ pc[it] = "none" /\ pc'[it] = "loop" /\ i'[it] = it
  BY <1>1 DEF TypeOK, Goto, CallerWaits
<1>3. TypeOK'
  BY <1>1 DEF TypeOK, Goto
<1>4. Position'
  <2>1. Reads(it, it)
    BY <1>1, ReadsFirst
  <2> QED BY <1>1, <1>2, <2>1 DEF Position, Reads
<1>5. Ahead'
  BY <1>1, <1>2 DEF Ahead, Untouched, Reads
<1>6. Behind'
  <2> SUFFICES ASSUME NEW t \in Threads, NEW c \in Chunks, Reads(t, c),
                      pc'[t] # "none", c < i'[t]
               PROVE  Processed(c)'
    BY DEF Behind, Reads
  <2>1. CASE t = it
    <3>1. PICK k \in Nat : c = it + k * NThreads
      BY <2>1 DEF Reads
    <3>2. k * NThreads \in Nat
      BY ProcessorAssumption, SMT
    <3> QED BY <1>1, <1>2, <2>1, <3>1, <3>2
  <2>2. CASE t # it
    BY <1>1, <1>2, <2>2 DEF Behind, Processed
  <2> QED BY <2>1, <2>2
<1>7. CallerWaits'
  BY <1>1, <1>2, ProcessorAssumption DEF CallerWaits, Threads
<1> QED BY <1>3, <1>4, <1>5, <1>6, <1>7

LEMMA CallerKeeps ==
    ASSUME IInv, Spawned \/ Join \/ Joined
    PROVE  IInv'
<1> USE DEF IInv
<1>1. UNCHANGED <<outcome, pc, i, applied, failed, written>>
  BY DEF Spawned, Join, Joined
<1>2. TypeOK'
  BY ProcessorAssumption DEF TypeOK, Spawned, Join, Joined
<1>3. Position' /\ Ahead' /\ Behind'
  BY <1>1 DEF Position, Ahead, Behind, Reads, Untouched, Processed
<1>4. CallerWaits'
  BY ProcessorAssumption DEF CallerWaits, TypeOK, Threads, Spawned, Join, Joined
<1> QED BY <1>2, <1>3, <1>4

LEMMA NextIInv == IInv /\ [Next]_vars => IInv'
<1> SUFFICES ASSUME IInv, [Next]_vars PROVE IInv'
  OBVIOUS
<1>1. CASE Spawn
  BY <1>1, SpawnKeeps
<1>2. CASE Spawned \/ Join \/ Joined
  BY <1>2, CallerKeeps
<1>3. ASSUME NEW t \in Threads, Test(t) \/ ReadOK(t) \/ Lock(t)
      PROVE  IInv'
  BY <1>3, MoveKeeps
<1>4. ASSUME NEW t \in Threads, ReadThrows(t)
      PROVE  IInv'
  BY <1>4, ReadThrowsKeeps
<1>5. ASSUME NEW t \in Threads, Unlock(t)
      PROVE  IInv'
  BY <1>5, UnlockKeeps
<1>6. CASE UNCHANGED vars
  BY <1>6 DEF vars, IInv, TypeOK, Position, Ahead, Behind, CallerWaits,
              Reads, Untouched, Processed
<1> QED BY <1>1, <1>2, <1>3, <1>4, <1>5, <1>6 DEF Next, Caller, Step

-------------------------------------------------------------------------------
\* The threads of apply keep the invariant, for any number of threads and chunks
\* and whatever chunks fail.
THEOREM Invariance == Spec => []IInv
  BY InitIInv, NextIInv, PTL DEF Spec

\* The state of the processor is well-formed.
THEOREM TypeCorrect == Spec => []TypeOK
<1>1. IInv => TypeOK
  BY DEF IInv
<1> QED BY <1>1, Invariance, PTL

LEMMA ChunkState ==
    ASSUME IInv, NEW c \in Chunks
    PROVE  Untouched(c) \/ Processed(c)
<1>1. c \in Nat
  BY DEF Chunks
<1>2. PICK t \in Threads : Reads(t, c)
  BY <1>1, ReadsAll
<1>3. i[t] \in Nat
  BY <1>2 DEF IInv, TypeOK
<1> QED BY <1>1, <1>2, <1>3 DEF IInv, Ahead, Behind

\* No chunk is processed twice.
THEOREM NoChunkTwice == Spec => []AtMostOnce
<1>1. IInv => AtMostOnce
  BY ChunkState DEF AtMostOnce, Untouched, Processed
<1> QED BY <1>1, Invariance, PTL

LEMMA AllProcessed ==
    ASSUME IInv, \A t \in Threads : pc[t] = "exit", NEW c \in Chunks
    PROVE  Processed(c)
<1>1. c \in Nat /\ c < NChunks
  BY ProcessorAssumption DEF Chunks
<1>2. PICK t \in Threads : Reads(t, c)
  BY <1>1, ReadsAll
<1>3. i[t] \in Nat /\ i[t] >= NChunks /\ pc[t] # "none"
  BY <1>2 DEF IInv, TypeOK, Position
<1>4. c < i[t]
  BY <1>1, <1>3, ProcessorAssumption
<1> QED BY <1>2, <1>3, <1>4 DEF IInv, Behind

\* apply does not return before every chunk was processed or has failed.
THEOREM NoneLeftOut == Spec => []ReturnedComplete
<1>1. ASSUME IInv, caller = "returned" PROVE \A t \in Threads : pc[t] = "exit"
  BY <1>1 DEF IInv, CallerWaits
<1>2. IInv => ReturnedComplete
  <2> SUFFICES ASSUME IInv, caller = "returned", NEW c \in Chunks
               PROVE  IF outcome[c] = "ok" THEN written[c] = 1 ELSE c \in failed
    BY <1>1 DEF ReturnedComplete
  <2>1. Processed(c)
    BY <1>1, AllProcessed
  <2>2. outcome[c] \in {"ok", "throws"}
    BY DEF IInv, TypeOK
  <2> QED BY <2>1, <2>2 DEF Processed
<1> QED BY <1>2, Invariance, PTL

\* The threads implement the loop over all chunks: each chunk is applied or
\* given up once, and apply returns when there is none left.
THEOREM Implements == Spec => LoopSpec
<1> USE DEF Loop!applyVars
<1>1. Init => Loop!ApplyInit
  BY DEF Init, Loop!ApplyInit
<1>2. ASSUME IInv, IInv', [Next]_vars PROVE [Loop!ApplyNext]_(Loop!applyVars)
  <2>1. ASSUME NEW t \in Threads, Unlock(t) PROVE Loop!ApplyNext
    <3>1. i[t] \in Chunks /\ Untouched(i[t]) /\ caller # "returned"
      <4>1. i[t] \in Chunks /\ Reads(t, i[t]) /\ i[t] \in Nat
        BY <1>2, <2>1 DEF IInv, Position, TypeOK, Unlock
      <4>2. caller # "returned"
        BY <1>2, <2>1 DEF IInv, CallerWaits, Unlock
      <4> QED BY <1>2, <4>1, <4>2 DEF IInv, Ahead
    <3>2. Loop!Apply(i[t])
      BY <2>1, <3>1 DEF Unlock, Untouched, Loop!Apply
    <3> QED BY <3>1, <3>2 DEF Loop!ApplyNext
  <2>2. ASSUME NEW t \in Threads, ReadThrows(t) PROVE Loop!ApplyNext
    <3>1. i[t] \in Chunks /\ Untouched(i[t]) /\ caller # "returned"
      <4>1. i[t] \in Chunks /\ Reads(t, i[t]) /\ i[t] \in Nat
        BY <1>2, <2>2 DEF IInv, Position, TypeOK, ReadThrows
      <4>2. caller # "returned"
        BY <1>2, <2>2 DEF IInv, CallerWaits, ReadThrows
      <4> QED BY <1>2, <4>1, <4>2 DEF IInv, Ahead
    <3>2. Loop!Apply(i[t])
      BY <2>2, <3>1 DEF ReadThrows, Untouched, Loop!Apply
    <3> QED BY <3>1, <3>2 DEF Loop!ApplyNext
  <2>3. CASE Joined
    <3>1. \A c \in Chunks : Processed(c) /\ outcome[c] \in {"ok", "throws"}
      <4>1. \A t \in Threads : pc'[t] = "exit"
        BY <1>2, <2>3 DEF Joined, IInv, CallerWaits
      <4>2. \A t \in Threads : pc[t] = "exit"
        BY <2>3, <4>1 DEF Joined
      <4> QED BY <1>2, <4>2, AllProcessed DEF IInv, TypeOK
    <3>2. applied \cup failed = Chunks
      BY <1>2, <3>1 DEF Processed, IInv, TypeOK
    <3>3. Loop!Return
      BY <2>3, <3>2 DEF Joined, Loop!Return
    <3> QED BY <3>3 DEF Loop!ApplyNext
  <2>4. ASSUME \/ Spawn \/ Spawned \/ Join \/ UNCHANGED vars
               \/ \E t \in Threads : Test(t) \/ ReadOK(t) \/ Lock(t)
        PROVE  UNCHANGED Loop!applyVars
    BY <2>4 DEF Spawn, Spawned, Join, vars, Test, ReadOK, Lock
  <2> QED BY <1>2, <2>1, <2>2, <2>3, <2>4 DEF Next, Caller, Step
<1> QED BY <1>1, <1>2, Invariance, PTL DEF Spec, LoopSpec, Loop!ApplySpec

-------------------------------------------------------------------------------
\* The single-threaded processor, after the other one has returned.

\* It has been through the chunks below its counter, none of which throws.
SInv ==
    /\ si \in 0..NChunks /\ sapplied = {c \in Chunks : c < si}
    /\ \A c \in Chunks : c < si => outcome[c] = "ok"
    /\ sended # "no" => caller = "returned"
    /\ \/ sended = "no" /\ sfailed = {}
       \/ sended = "returned" /\ sfailed = {} /\ si = NChunks
       \/ sended = "raised" /\ sfailed = {si} /\ si \in Chunks /\ outcome[si] = "throws"

LEMMA BothInits == BothInit => Init /\ SInv
<1> SUFFICES ASSUME BothInit PROVE Init /\ SInv
  OBVIOUS
<1>1. Init /\ si = 0 /\ sended = "no" /\ sapplied = {} /\ sfailed = {}
  BY DEF BothInit, Single!Init
<1>2. \A c \in Chunks : c \in Nat
  BY DEF Chunks
<1> QED BY <1>1, <1>2, ProcessorAssumption DEF SInv

LEMMA BothSteps == [BothNext]_<<vars, svars>> => [Next]_vars
BY DEF BothNext

LEMMA SingleKeeps ==
    ASSUME IInv, SInv, [BothNext]_<<vars, svars>>
    PROVE  SInv'
<1>1. NChunks \in Nat /\ outcome \in [Chunks -> {"ok", "throws"}]
  BY ProcessorAssumption DEF IInv, TypeOK
<1>2. CASE Next /\ UNCHANGED svars
  <2>1. outcome' = outcome /\ (caller = "returned" => caller' = "returned")
    BY <1>2 DEF Next, Caller, Step, Spawn, Spawned, Join, Joined, Test, ReadOK, ReadThrows,
              Lock, Unlock
  <2> QED BY <1>2, <2>1 DEF SInv, svars
<1>3. CASE caller = "returned" /\ Single!Next /\ UNCHANGED vars
  <2>1. outcome' = outcome /\ caller' = "returned"
    BY <1>3 DEF vars
  <2>2. CASE Single!ApplyNext
    <3>1. /\ sended = "no" /\ si < NChunks /\ outcome[si] = "ok" /\ si' = si + 1
          /\ sapplied' = sapplied \cup {si} /\ sended' = sended /\ sfailed' = sfailed
      BY <2>2 DEF Single!ApplyNext
    <3>2. si \in Nat /\ si \in Chunks
      BY <1>1, <3>1 DEF SInv, Chunks
    <3>3. \A c \in Chunks : c \in Nat /\ (c < si + 1 <=> c < si \/ c = si)
      BY <3>2 DEF Chunks
    <3>4. sapplied' = {c \in Chunks : c < si'}
      BY <3>1, <3>2, <3>3 DEF SInv
    <3> QED BY <1>1, <2>1, <3>1, <3>2, <3>3, <3>4 DEF SInv
  <2>3. CASE Single!Throw
    <3>1. si \in Chunks
      BY <1>1, <2>3 DEF SInv, Chunks, Single!Throw
    <3> QED BY <2>1, <2>3, <3>1 DEF SInv, Single!Throw
  <2>4. CASE Single!Return
    BY <2>1, <2>4 DEF SInv, Single!Return
  <2> QED BY <1>3, <2>2, <2>3, <2>4 DEF Single!Next
<1>4. CASE UNCHANGED <<vars, svars>>
  BY <1>4 DEF vars, svars, SInv
<1> QED BY <1>2, <1>3, <1>4 DEF BothNext

LEMMA BothInvariant == BothSpec => [](IInv /\ SInv)
<1>1. BothInit => IInv /\ SInv
  BY BothInits, InitIInv
<1>2. IInv /\ SInv /\ [BothNext]_<<vars, svars>> => IInv' /\ SInv'
  BY BothSteps, NextIInv, SingleKeeps
<1> QED BY <1>1, <1>2, PTL DEF BothSpec

\* If nothing throws, both processors apply f to the same chunks; otherwise what the
\* single-threaded one does before it raises is part of what the other has done.
THEOREM ProcessorsAgree == BothSpec => []SameChunks
<1>1. ASSUME IInv, SInv PROVE SameChunks
  <2>1. ASSUME sended # "no", NEW c \in Chunks
        PROVE  Processed(c) /\ outcome[c] \in {"ok", "throws"}
    <3>1. \A t \in Threads : pc[t] = "exit"
      BY <1>1, <2>1 DEF IInv, SInv, CallerWaits
    <3>2. Processed(c)
      BY <1>1, <3>1, AllProcessed
    <3> QED BY <1>1, <3>2 DEF IInv, TypeOK
  <2>2. applied \in SUBSET Chunks /\ failed \in SUBSET Chunks
    BY <1>1 DEF IInv, TypeOK
  <2>3. CASE sended = "returned"
    <3>1. \A c \in Chunks : c < si
      BY <1>1, <2>3, ProcessorAssumption DEF SInv, Chunks
    <3>2. \A c \in Chunks : c \in applied /\ c \notin failed /\ c \in sapplied
      BY <1>1, <2>1, <2>3, <3>1 DEF SInv, Processed
    <3>3. sapplied \in SUBSET Chunks
      BY <1>1 DEF SInv
    <3> QED BY <2>2, <2>3, <3>2, <3>3 DEF SameChunks
  <2>4. CASE sended = "raised"
    <3>1. \A c \in sapplied : c \in Chunks /\ outcome[c] = "ok"
      BY <1>1 DEF SInv
    <3>2. \A c \in sfailed : c \in Chunks /\ outcome[c] = "throws"
      BY <1>1, <2>4 DEF SInv
    <3> QED BY <2>1, <2>4, <3>1, <3>2 DEF SameChunks, Processed
  <2> QED BY <1>1, <2>3, <2>4 DEF SInv, SameChunks
<1> QED BY <1>1, BothInvariant, PTL

\* The single-threaded processor implements the loop over all chunks.
THEOREM SingleImplements == BothSpec => SingleLoopSpec
<1> USE DEF Single!Loop!applyVars
<1>1. BothInit => Single!Loop!ApplyInit
  BY DEF BothInit, Single!Init, Single!Loop!ApplyInit
<1>2. ASSUME SInv, [BothNext]_<<vars, svars>>
      PROVE  [Single!Loop!ApplyNext]_(Single!Loop!applyVars)
  <2> USE DEF Single!Chunks, Chunks
  <2>1. CASE Single!ApplyNext
    <3>1. si \in Chunks /\ ~ (si < si)
      BY <1>2, <2>1, ProcessorAssumption DEF SInv, Single!ApplyNext
    <3>2. si \notin sapplied \cup sfailed
      BY <1>2, <2>1, <3>1 DEF SInv, Single!ApplyNext
    <3>3. Single!Loop!Apply(si)
      BY <2>1, <3>2 DEF Single!ApplyNext, Single!Loop!Apply
    <3> QED BY <3>1, <3>3 DEF Single!Loop!ApplyNext
  <2>2. CASE Single!Throw
    <3>1. si \in Chunks /\ ~ (si < si)
      BY <1>2, <2>2, ProcessorAssumption DEF SInv, Single!Throw
    <3>2. si \notin sapplied \cup sfailed
      BY <1>2, <2>2, <3>1 DEF SInv, Single!Throw
    <3>3. Single!Loop!Raise(si)
      BY <2>2, <3>2 DEF Single!Throw, Single!Loop!Raise
    <3> QED BY <3>1, <3>3 DEF Single!Loop!ApplyNext
  <2>3. CASE Single!Return
    <3>1. sapplied \cup sfailed = Chunks
      BY <1>2, <2>3, ProcessorAssumption DEF SInv, Single!Return
    <3> QED BY <2>3, <3>1 DEF Single!Return, Single!Loop!Return, Single!Loop!ApplyNext
  <2>4. CASE UNCHANGED svars
    BY <2>4 DEF svars
  <2> QED BY <1>2, <2>1, <2>2, <2>3, <2>4 DEF BothNext, Single!Next
<1> QED BY <1>1, <1>2, BothInvariant, PTL DEF BothSpec, SingleLoopSpec, Single!LoopSpec, Single!Loop!ApplySpec
===============================================================================
