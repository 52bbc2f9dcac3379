------------------------------ MODULE SwarmProofs -------------------------------
(***************************************************************************)
(* Proofs about Swarm, for any number of chunks, servers and threads and    *)
(* whatever fails.  Thread t is at chunk k[t] of server t; of the chunks of *)
(* this server it has called f for those before k[t].                       *)
(***************************************************************************)
EXTENDS Swarm, TLAPS

LEMMA DivMod ==
    ASSUME NEW a \in Nat
    PROVE  /\ a \div NServers \in Nat
           /\ ServerOf(a) \in Servers
           /\ a = (a \div NServers) * NServers + ServerOf(a)
<1>1. /\ a \div NServers \in Nat
      /\ a % NServers \in 0..(NServers - 1)
      /\ a = (a \div NServers) * NServers + (a % NServers)
  <2>1. NServers \in Nat /\ NServers > 0
    BY SwarmAssumption
  <2> QED BY <2>1, Z3T(30)
<1> QED BY <1>1 DEF ServerOf, Servers

LEMMA Multiples ==
    ASSUME NEW i \in Nat, NEW j \in Nat, i < j
    PROVE  i * NServers + NServers <= j * NServers
<1>1. PICK d \in Nat : j = i + 1 + d
  <2>1. j - i - 1 \in Nat /\ j = i + 1 + (j - i - 1)
    OBVIOUS
  <2> QED BY <2>1
<1>2. j * NServers = i * NServers + NServers + d * NServers
  BY <1>1, SwarmAssumption, SMT
<1>3. d * NServers \in Nat /\ i * NServers \in Nat /\ NServers \in Nat
  BY SwarmAssumption, SMT
<1> QED BY <1>2, <1>3

\* The remainder is the only one.
LEMMA OneServer ==
    ASSUME NEW j \in Nat, NEW s \in Servers, NEW a \in Nat, a = j * NServers + s
    PROVE  ServerOf(a) = s
<1> DEFINE i == a \div NServers
           r == ServerOf(a)
<1>1. i \in Nat /\ r \in Servers /\ a = i * NServers + r
  BY DivMod
<1>2. /\ i * NServers \in Nat /\ j * NServers \in Nat
      /\ r \in Nat /\ s \in Nat /\ r < NServers /\ s < NServers /\ NServers \in Nat
  BY <1>1, SwarmAssumption, SMT DEF Servers
<1> HIDE DEF i, r
<1>3. ASSUME i = j PROVE r = s
  BY <1>1, <1>2, <1>3
<1>4. ASSUME i < j PROVE r = s
  <2>1. i * NServers + NServers <= j * NServers
    BY <1>1, <1>4, Multiples
  <2> QED BY <2>1, <1>1, <1>2
<1>5. ASSUME j < i PROVE r = s
  <2>1. j * NServers + NServers <= i * NServers
    BY <1>1, <1>5, Multiples
  <2> QED BY <2>1, <1>1, <1>2
<1>6. r = s
  BY <1>1, <1>3, <1>4, <1>5
<1> QED BY <1>6 DEF r

\* The loop of a thread stays with its server.
LEMMA NextOfServer ==
    ASSUME NEW a \in Nat
    PROVE  ServerOf(a + NServers) = ServerOf(a)
<1> DEFINE j == a \div NServers
<1>1. j \in Nat /\ ServerOf(a) \in Servers /\ a = j * NServers + ServerOf(a)
  BY DivMod
<1>2. ServerOf(a) \in Nat /\ j * NServers \in Nat /\ NServers \in Nat
  BY <1>1, SwarmAssumption, SMT DEF Servers
<1> HIDE DEF j
<1>3. (j + 1) * NServers = j * NServers + NServers
  BY <1>1, SwarmAssumption, SMT
<1>4. a + NServers = (j + 1) * NServers + ServerOf(a)
  BY <1>1, <1>2, <1>3
<1>5. j + 1 \in Nat /\ a + NServers \in Nat
  BY <1>1, <1>2
<1> QED BY <1>1, <1>4, <1>5, OneServer

\* It leaves out no chunk of its server.
LEMMA GapOfServer ==
    ASSUME NEW a \in Nat, NEW c \in Nat, ServerOf(a) = ServerOf(c), a < c
    PROVE  a + NServers <= c
<1> DEFINE i == a \div NServers
           j == c \div NServers
           s == ServerOf(a)
<1>1. i \in Nat /\ j \in Nat /\ s \in Servers /\ a = i * NServers + s /\ c = j * NServers + s
  BY DivMod
<1>2. i * NServers \in Nat /\ j * NServers \in Nat /\ s \in Nat /\ NServers \in Nat
  BY <1>1, SwarmAssumption, SMT DEF Servers
<1> HIDE DEF i, j, s
<1>3. i < j
  <2>1. ASSUME i >= j PROVE FALSE
    <3>1. j * NServers <= i * NServers
      <4>1. CASE i = j
        BY <4>1, <1>2
      <4>2. CASE j < i
        BY <1>1, <1>2, <4>2, Multiples
      <4> QED BY <1>1, <2>1, <4>1, <4>2
    <3> QED BY <3>1, <1>1, <1>2
  <2> QED BY <1>1, <2>1
<1>4. i * NServers + NServers <= j * NServers
  BY <1>1, <1>3, Multiples
<1> QED BY <1>1, <1>2, <1>4

\* It begins with the first one.
LEMMA FirstOfServer ==
    ASSUME NEW s \in Servers
    PROVE  s \in Nat /\ ServerOf(s) = s /\ \A c \in Nat : ServerOf(c) = s => s <= c
<1>1. s \in Nat /\ NServers \in Nat /\ NServers > 0 /\ s < NServers
  BY SwarmAssumption DEF Servers
<1>2. s = 0 * NServers + s
  BY <1>1, SMT
<1>3. ServerOf(s) = s
  BY <1>1, <1>2, OneServer
<1>4. ASSUME NEW c \in Nat, ServerOf(c) = s PROVE s <= c
  <2> DEFINE j == c \div NServers
  <2>1. j \in Nat /\ c = j * NServers + s
    BY <1>4, DivMod
  <2> HIDE DEF j
  <2>2. j * NServers \in Nat
    BY <2>1, <1>1, SMT
  <2> QED BY <1>1, <2>1, <2>2
<1> QED BY <1>1, <1>3, <1>4

-------------------------------------------------------------------------------
\* The invariant.

Types ==
    /\ pc \in [Threads -> {"none", "loop", "got", "exit"}]
    /\ k \in [Threads -> Nat]
    /\ applied \in SUBSET Fetched
    /\ caller \in {"spawn", "join"} => n \in 0..NThreads

Position ==
    \A t \in Threads :
        /\ pc[t] \in {"loop", "got"} => t \in Servers /\ ServerOf(k[t]) = t
        /\ pc[t] = "got" => k[t] \in Chunks
        /\ pc[t] = "exit" /\ t \in Servers => k[t] >= NChunks

Behind(c) == pc[ServerOf(c)] # "none" /\ c < k[ServerOf(c)]
Progress  == \A c \in Fetched : c \in applied <=> Behind(c)

CallerWaits ==
    /\ caller \in {"head", "upload", "cube", "insert", "start"} => \A t \in Threads : pc[t] = "none"
    /\ caller = "spawn" => \A t \in Threads : pc[t] = "none" <=> n <= t
    /\ caller = "join" => \A t \in Threads : pc[t] # "none" /\ (t < n => pc[t] = "exit")
    /\ caller = "returned" => \A t \in Threads : pc[t] = "exit"

IInv == Types /\ Position /\ Progress /\ CallerWaits

progress == <<pc, k, applied>>

LEMMA ServerOfFetched ==
    ASSUME NEW c \in Fetched
    PROVE  c \in Nat /\ c < NChunks /\ ServerOf(c) \in Threads /\ ServerOf(c) \in Servers
<1>1. c \in Nat /\ c < NChunks /\ ServerOf(c) < NThreads
  BY SwarmAssumption DEF Fetched, Chunks
<1>2. ServerOf(c) \in Servers
  BY <1>1, DivMod
<1> QED BY <1>1, <1>2, SwarmAssumption DEF Threads, Servers

LEMMA InitIInv == Init => IInv
<1> SUFFICES ASSUME Init PROVE IInv
  OBVIOUS
<1>1. Types
  BY DEF Init, Types
<1>2. Position /\ CallerWaits
  BY DEF Init, Position, CallerWaits
<1>3. Progress
  BY ServerOfFetched DEF Init, Progress, Behind
<1> QED BY <1>1, <1>2, <1>3 DEF IInv

\* A step that leaves the threads where they are.
LEMMA RestKeeps ==
    ASSUME IInv, UNCHANGED progress, CallerWaits',
           caller' \in {"spawn", "join"} => n' \in 0..NThreads
    PROVE  IInv'
<1>1. Types'
  BY DEF IInv, Types, progress
<1>2. Position'
  BY DEF IInv, Position, progress
<1>3. Progress'
  BY DEF IInv, Progress, Behind, progress
<1> QED BY <1>1, <1>2, <1>3 DEF IInv

LEMMA ThrowKeeps ==
    ASSUME IInv, Throw
    PROVE  IInv'
<1>1. UNCHANGED progress /\ CallerWaits'
  BY DEF Throw, Goto, progress, CallerWaits
<1> QED BY <1>1, RestKeeps DEF Throw, Goto

LEMMA SetUpKeeps ==
    ASSUME IInv, Head \/ Upload \/ PostCube \/ StoreCube \/ PostStart
    PROVE  IInv'
<1>1. CASE Throw
  BY <1>1, ThrowKeeps
<1>2. CASE ~Throw
  <2>1. caller \in {"head", "upload", "cube", "insert", "start"}
    BY DEF Head, Upload, PostCube, StoreCube, PostStart
  <2>2. caller' \in {"head", "upload", "cube", "insert", "start"}
    BY <1>2, <2>1 DEF Head, Upload, PostCube, StoreCube, PostStart, NextFile, Goto
  <2>3. UNCHANGED progress
    BY <1>2 DEF Head, Upload, PostCube, StoreCube, PostStart, NextFile, progress
  <2>4. CallerWaits'
    BY <2>1, <2>2, <2>3 DEF IInv, CallerWaits, progress
  <2> QED BY <2>2, <2>3, <2>4, RestKeeps
<1> QED BY <1>1, <1>2

LEMMA JoinKeeps ==
    ASSUME IInv, Started \/ Spawned \/ Join \/ Joined
    PROVE  IInv'
<1>1. UNCHANGED progress /\ NThreads \in Nat /\ \A t \in Threads : t \in Nat /\ t < NThreads
  BY SwarmAssumption DEF Started, Spawned, Join, Joined, progress, Threads
<1>2. caller' \in {"spawn", "join"} => n' \in 0..NThreads
  BY <1>1 DEF IInv, Types, Started, Spawned, Join, Joined, Goto
<1>3. CASE Started
  <2>1. CallerWaits'
    BY <1>1, <1>3 DEF IInv, CallerWaits, Started, Goto, progress
  <2> QED BY <1>1, <1>2, <2>1, RestKeeps
<1>4. CASE Spawned
  <2>1. CallerWaits'
    BY <1>1, <1>4 DEF IInv, CallerWaits, Spawned, Goto, progress
  <2> QED BY <1>1, <1>2, <2>1, RestKeeps
<1>5. CASE Join
  <2>1. n \in Nat /\ pc[n] = "exit"
    BY <1>5 DEF IInv, Types, Join
  <2>2. \A t \in Threads : t < n + 1 => t < n \/ t = n
    BY <1>1, <2>1
  <2>3. CallerWaits'
    BY <1>1, <1>5, <2>1, <2>2 DEF IInv, CallerWaits, Join, progress
  <2> QED BY <1>1, <1>2, <2>3, RestKeeps
<1>6. CASE Joined
  <2>1. CallerWaits'
    BY <1>1, <1>6 DEF IInv, CallerWaits, Joined, Goto, progress
  <2> QED BY <1>1, <1>2, <2>1, RestKeeps
<1> QED BY <1>3, <1>4, <1>5, <1>6

LEMMA SpawnKeeps ==
    ASSUME IInv, Spawn
    PROVE  IInv'
<1> USE DEF IInv, Spawn
<1>1. n \in Nat /\ n \in Threads /\ NThreads \in Nat /\ caller' = "spawn" /\ n' = n + 1
  BY SwarmAssumption DEF Types, Threads
<1>2. /\ \A t \in Threads : t # n => pc'[t] = pc[t] /\ k'[t] = k[t]
      /\ pc[n] = "none" /\ k'[n] = n
      /\ pc'[n] = IF n < NServers THEN "loop" ELSE "exit"
  BY <1>1 DEF Types, CallerWaits
<1>3. Types'
  BY <1>1 DEF Types
<1>4. n < NServers => n \in Servers
  BY <1>1, SwarmAssumption DEF Servers
<1>5. n \in Servers => n < NServers
  BY SwarmAssumption DEF Servers
<1>6. Position'
  <2>1. n < NServers => ServerOf(n) = n
    BY <1>4, FirstOfServer
  <2> QED BY <1>1, <1>2, <1>4, <1>5, <2>1 DEF Position, ServerOf
<1>7. Progress'
  <2> SUFFICES ASSUME NEW c \in Fetched PROVE c \in applied' <=> Behind(c)'
    BY DEF Progress, Fetched, Chunks, ServerOf
  <2>1. c \in Nat /\ ServerOf(c) \in Threads /\ ServerOf(c) \in Servers
    BY ServerOfFetched
  <2>2. CASE ServerOf(c) = n
    <3>1. n <= c
      BY <2>1, <2>2, FirstOfServer
    <3> QED BY <1>1, <1>2, <2>1, <2>2, <3>1 DEF Progress, Behind, ServerOf
  <2>3. CASE ServerOf(c) # n
    BY <1>2, <2>1, <2>3 DEF Progress, Behind, ServerOf
  <2> QED BY <2>2, <2>3
<1>8. CallerWaits'
  <2>1. \A t \in Threads : t \in Nat
    BY DEF Threads
  <2> QED BY <1>1, <1>2, <2>1 DEF CallerWaits
<1> QED BY <1>3, <1>6, <1>7, <1>8

\* A thread that stays at its chunk.
LEMMA StayKeeps ==
    ASSUME IInv, NEW t \in Threads, Download(t) \/ Exit(t), ~Throw
    PROVE  IInv'
<1> USE DEF IInv
<1>1. /\ UNCHANGED <<caller, n, k, applied>>
      /\ pc[t] = "loop" /\ pc' = [pc EXCEPT ![t] = IF k[t] < NChunks THEN "got" ELSE "exit"]
      /\ k[t] \in Nat /\ NChunks \in Nat
  BY SwarmAssumption DEF Types, Download, Exit
<1>2. /\ \A u \in Threads : u # t => pc'[u] = pc[u]
      /\ pc'[t] = IF k[t] < NChunks THEN "got" ELSE "exit"
  BY <1>1 DEF Types
<1>3. Types'
  BY <1>1 DEF Types
<1>4. Position'
  BY <1>1, <1>2 DEF Position, Chunks, ServerOf
<1>5. Progress'
  BY <1>1, <1>2, ServerOfFetched DEF Progress, Behind, ServerOf, Fetched, Chunks
<1>6. CallerWaits'
  BY <1>1, <1>2 DEF CallerWaits
<1> QED BY <1>3, <1>4, <1>5, <1>6

\* The chunk a thread is at is fetched by no other, and f was not called for it.
LEMMA CurrentChunk ==
    ASSUME IInv, NEW t \in Threads, pc[t] \in {"loop", "got"}, k[t] < NChunks
    PROVE  k[t] \in Nat /\ k[t] \in Fetched \ applied /\ ServerOf(k[t]) = t
<1>1. k[t] \in Nat /\ ServerOf(k[t]) = t /\ t < NThreads
  BY SwarmAssumption DEF IInv, Types, Position, Threads
<1>2. k[t] \in Fetched
  BY <1>1, SwarmAssumption DEF Fetched, Chunks
<1>3. ~Behind(k[t])
  BY <1>1 DEF Behind
<1> QED BY <1>1, <1>2, <1>3 DEF IInv, Progress

LEMMA ApplyKeeps ==
    ASSUME IInv, NEW t \in Threads, Apply(t)
    PROVE  IInv'
<1> USE DEF IInv, Apply
<1>1. /\ k[t] \in Nat /\ k[t] \in Fetched \ applied /\ ServerOf(k[t]) = t
      /\ t \in Servers /\ NServers \in Nat /\ NServers > 0
  <2>1. k[t] < NChunks /\ t \in Servers
    BY SwarmAssumption DEF Types, Position, Chunks
  <2> QED BY <2>1, CurrentChunk, SwarmAssumption
<1>2. /\ \A u \in Threads : u # t => pc'[u] = pc[u] /\ k'[u] = k[u]
      /\ pc'[t] = "loop" /\ k'[t] = k[t] + NServers
  BY DEF Types
<1>3. Types'
  <2>1. applied' \in SUBSET Fetched
    BY <1>1 DEF Types
  <2>2. k' \in [Threads -> Nat] /\ pc' \in [Threads -> {"none", "loop", "got", "exit"}]
    BY <1>1 DEF Types
  <2> QED BY <2>1, <2>2 DEF Types, Fetched, Chunks, ServerOf
<1>4. Position'
  <2>1. ServerOf(k[t] + NServers) = t
    BY <1>1, NextOfServer
  <2> QED BY <1>1, <1>2, <2>1 DEF Position, ServerOf
<1>5. Progress'
  <2> SUFFICES ASSUME NEW c \in Fetched PROVE c \in applied' <=> Behind(c)'
    BY DEF Progress, Fetched, Chunks, ServerOf
  <2>1. c \in Nat /\ ServerOf(c) \in Threads
    BY ServerOfFetched
  <2>2. CASE ServerOf(c) = t
    <3>1. k[t] < c => k[t] + NServers <= c
      BY <1>1, <2>1, <2>2, GapOfServer
    <3>2. c \in applied <=> c < k[t]
      BY <2>2 DEF Progress, Behind
    <3>3. Behind(c)' <=> c < k[t] + NServers
      BY <1>2, <2>2 DEF Behind, ServerOf
    <3> QED BY <1>1, <2>1, <3>1, <3>2, <3>3
  <2>3. CASE ServerOf(c) # t
    <3>1. c # k[t]
      BY <1>1, <2>3
    <3>2. Behind(c)' <=> Behind(c)
      BY <1>2, <2>1, <2>3 DEF Behind, ServerOf
    <3> QED BY <3>1, <3>2 DEF Progress
  <2> QED BY <2>2, <2>3
<1>6. CallerWaits'
  BY <1>2 DEF CallerWaits
<1> QED BY <1>3, <1>4, <1>5, <1>6

\* Servers and the other client do not touch the client.
LEMMA ServersKeep ==
    ASSUME IInv, NEW s \in Servers, ServerStep(s)
    PROVE  IInv' /\ UNCHANGED client
<1>1. UNCHANGED client
  BY DEF ServerStep, Fail, OtherCubeId, OtherCube, OtherFile, Read
<1>2. UNCHANGED progress /\ CallerWaits' /\ (caller' \in {"spawn", "join"} => n' \in 0..NThreads)
  BY <1>1 DEF client, progress, IInv, CallerWaits, Types
<1> QED BY <1>1, <1>2, RestKeeps

LEMMA NextIInv == IInv /\ [Next]_vars => IInv'
<1> SUFFICES ASSUME IInv, [Next]_vars PROVE IInv'
  OBVIOUS
<1>1. CASE Head \/ Upload \/ PostCube \/ StoreCube \/ PostStart
  BY <1>1, SetUpKeeps
<1>2. CASE Started \/ Spawned \/ Join \/ Joined
  BY <1>2, JoinKeeps
<1>3. CASE Spawn
  BY <1>3, SpawnKeeps
<1>4. ASSUME NEW t \in Threads, Download(t) \/ Exit(t) PROVE IInv'
  BY <1>4, StayKeeps, ThrowKeeps
<1>5. ASSUME NEW t \in Threads, Apply(t) PROVE IInv'
  BY <1>5, ApplyKeeps
<1>6. ASSUME NEW t \in Threads, ApplyThrows(t) PROVE IInv'
  BY <1>6, ThrowKeeps DEF ApplyThrows
<1>7. ASSUME NEW s \in Servers, ServerStep(s) PROVE IInv'
  BY <1>7, ServersKeep
<1>8. CASE UNCHANGED vars
  <2>1. UNCHANGED progress /\ CallerWaits' /\ (caller' \in {"spawn", "join"} => n' \in 0..NThreads)
    BY <1>8 DEF vars, client, progress, IInv, CallerWaits, Types
  <2> QED BY <2>1, RestKeeps
<1> QED BY <1>1, <1>2, <1>3, <1>4, <1>5, <1>6, <1>7, <1>8 DEF Next, Caller, Thread

\* Each thread has called f exactly for the chunks of its server that it has passed, whatever
\* servers, the other client and exceptions do.
THEOREM Invariance == Spec => []IInv
  BY InitIInv, NextIInv, PTL DEF Spec

-------------------------------------------------------------------------------
\* The refinement.

LEMMA AllApplied ==
    ASSUME IInv, \A t \in Threads : pc[t] = "exit"
    PROVE  applied = Fetched
<1>1. ASSUME NEW c \in Fetched PROVE c \in applied
  <2>1. c \in Nat /\ c < NChunks /\ ServerOf(c) \in Threads /\ ServerOf(c) \in Servers
    BY ServerOfFetched
  <2>2. k[ServerOf(c)] \in Nat /\ k[ServerOf(c)] >= NChunks
    BY <2>1 DEF IInv, Types, Position
  <2>3. Behind(c)
    BY <2>1, <2>2, SwarmAssumption DEF Behind
  <2> QED BY <2>3 DEF IInv, Progress
<1> QED BY <1>1 DEF IInv, Types

\* An exception leaves the loop while there is a chunk to fetch.
LEMMA ThrowRaises ==
    ASSUME Throw, caller \notin {"returned", "raised"}, NEW c \in Fetched, c \notin applied
    PROVE  Loop!ApplyNext
<1> DEFINE d == CHOOSE e \in Fetched \ applied : TRUE
<1>1. d \in Fetched /\ d \notin applied
  OBVIOUS
<1>2. UNCHANGED applied /\ caller' = "raised"
  BY DEF Throw, Goto
<1>3. (CHOOSE e \in Fetched \ applied : TRUE)' = d
  BY <1>2 DEF Fetched, Chunks, ServerOf
<1> HIDE DEF d
<1>4. Loop!Raise(d)
  BY <1>1, <1>2, <1>3 DEF Loop!Raise
<1> QED BY <1>1, <1>4 DEF Loop!ApplyNext

LEMMA SetUpRaises ==
    ASSUME IInv, Throw, caller \in {"head", "upload", "cube", "insert", "start"}
    PROVE  Loop!ApplyNext
<1>1. 0 \in Servers /\ 0 \in Chunks /\ 0 < NThreads
  BY SwarmAssumption DEF Servers, Chunks
<1>2. 0 \in Fetched
  BY <1>1, FirstOfServer DEF Fetched
<1>3. 0 \notin applied
  <2>1. pc[ServerOf(0)] = "none"
    BY <1>2, ServerOfFetched DEF IInv, CallerWaits
  <2> QED BY <1>2, <2>1 DEF IInv, Progress, Behind
<1> QED BY <1>2, <1>3, ThrowRaises

\* apply implements the loop over the chunks of the servers that have a thread: f is called once
\* for each of them before apply returns, or an exception ends it.
THEOREM Implements == Spec => LoopSpec
<1> USE DEF Loop!applyVars
<1>1. Init => Loop!ApplyInit
  BY DEF Init, Loop!ApplyInit
<1>2. ASSUME IInv, [Next]_vars PROVE [Loop!ApplyNext]_(Loop!applyVars)
  <2>1. CASE Throw /\ caller \in {"head", "upload", "cube", "insert", "start"}
    BY <1>2, <2>1, SetUpRaises
  <2>2. CASE ~Throw /\ (Head \/ Upload \/ PostCube \/ StoreCube \/ PostStart)
    BY <2>2 DEF Head, Upload, PostCube, StoreCube, PostStart, NextFile, Goto
  <2>3. CASE Started \/ Spawned \/ Join \/ Spawn
    BY <2>3 DEF Started, Spawned, Join, Spawn, Goto
  <2>4. CASE Joined
    <3>1. \A t \in Threads : pc[t] = "exit"
      <4>1. \A t \in Threads : t < n
        BY <2>4, SwarmAssumption DEF Joined, Threads
      <4> QED BY <1>2, <2>4, <4>1 DEF IInv, CallerWaits, Joined
    <3>2. applied = Fetched
      BY <1>2, <3>1, AllApplied
    <3>3. Loop!Return
      BY <2>4, <3>2 DEF Joined, Goto, Loop!Return
    <3> QED BY <3>3 DEF Loop!ApplyNext
  <2>5. ASSUME NEW t \in Threads, Download(t) \/ Exit(t) \/ ApplyThrows(t)
        PROVE  [Loop!ApplyNext]_(Loop!applyVars)
    <3>1. CASE ~Throw
      BY <2>5, <3>1 DEF Download, Exit, ApplyThrows
    <3>2. CASE Throw
      <4>1. pc[t] \in {"loop", "got"} /\ k[t] < NChunks /\ caller \in {"spawn", "join"}
        BY <1>2, <2>5, <3>2, SwarmAssumption
           DEF Download, Exit, ApplyThrows, Throw, Goto, IInv, Position, Chunks
      <4>2. k[t] \in Fetched /\ k[t] \notin applied
        BY <1>2, <4>1, CurrentChunk
      <4> QED BY <3>2, <4>1, <4>2, ThrowRaises
    <3> QED BY <3>1, <3>2
  <2>6. ASSUME NEW t \in Threads, Apply(t) PROVE Loop!ApplyNext
    <3>1. k[t] < NChunks
      BY <1>2, <2>6, SwarmAssumption DEF Apply, IInv, Position, Chunks
    <3>2. k[t] \in Fetched /\ k[t] \notin applied
      BY <1>2, <2>6, <3>1, CurrentChunk DEF Apply
    <3>3. Loop!Apply(k[t])
      BY <2>6, <3>2 DEF Apply, Loop!Apply
    <3> QED BY <3>2, <3>3 DEF Loop!ApplyNext
  <2>7. ASSUME NEW s \in Servers, ServerStep(s) PROVE UNCHANGED Loop!applyVars
    <3>1. UNCHANGED <<caller, applied>>
      BY <1>2, <2>7, ServersKeep DEF client
    <3> QED BY <3>1 DEF Fetched, Chunks, ServerOf
  <2>8. CASE UNCHANGED vars
    BY <2>8 DEF vars, client
  <2>9. Head \/ Upload \/ PostCube \/ StoreCube \/ PostStart
            => caller \in {"head", "upload", "cube", "insert", "start"}
    BY DEF Head, Upload, PostCube, StoreCube, PostStart
  <2> QED BY <1>2, <2>1, <2>2, <2>3, <2>4, <2>5, <2>6, <2>7, <2>8, <2>9 DEF Next, Caller, Thread
<1> QED BY <1>1, <1>2, Invariance, PTL DEF Spec, LoopSpec, Loop!ApplySpec

-------------------------------------------------------------------------------
(***************************************************************************)
(* OwnChunks: what f is given is explained by what the servers hold, which  *)
(* other clients add to and nobody takes away from.                         *)
(***************************************************************************)

FileStates == {"absent", "same", "twin", "other"}
CubeStates == {"none", "own", "foreign"}
Answers    == {"right", "stale", "foreign", "error"}
IdRange    == 0..(Ids - 1)

-------------------------------------------------------------------------------
\* The invariant.

Stores ==
    /\ disk \in [Servers -> [Files -> FileStates]]
    /\ cubestore \in [Servers -> [IdRange -> CubeStates]]
    /\ cur_id \in [Servers -> Nat]
    /\ posting \in [Servers -> IdRange \cup {-1}]

ClientTypes ==
    /\ is \in Servers /\ n \in Nat
    /\ cube_ids \in [Servers -> IdRange]
    /\ dat \in [Threads -> Answers \cup {"none"}]
    /\ result \in [Chunks -> Answers \cup {"none"}]

\* Files are sent one after the other to all servers.
Passed(s, f) == f < n \/ (f = n /\ s < is)
Sent ==
    /\ caller \in {"head", "upload"} =>
           n \in Files /\ \A s \in Servers, f \in Files : Passed(s, f) => disk[s][f] # "absent"
    /\ caller \notin {"head", "upload", "raised"} =>
           \A s \in Servers, f \in Files : disk[s][f] # "absent"

\* Only ids that were given out are in use.
Counted ==
    \A s \in Servers :
        /\ posting[s] < cur_id[s]
        /\ \A id \in IdRange : cubestore[s][id] # "none" => id < cur_id[s]

\* Until ids wrap around, nobody else has the id that was given out last.
Reserved ==
    caller = "insert" =>
        /\ cube_ids[is] < cur_id[is]
        /\ cur_id[is] <= Ids =>
               cubestore[is][cube_ids[is]] = "none" /\ posting[is] # cube_ids[is]

HasOurs(s) == cur_id[s] > Ids \/ cubestore[s][cube_ids[s]] = "own"
Pushed ==
    /\ caller \in {"cube", "insert"} => \A s \in Servers : s < is => HasOurs(s)
    /\ caller \in {"start", "spawn", "join", "returned"} => \A s \in Servers : HasOurs(s)

\* d is an answer that what server s holds explains.
Explained(d, s) ==
    /\ d \in Answers
    /\ d = "stale" => \E f \in Files : disk[s][f] \in {"twin", "other"}
    /\ d = "foreign" => cur_id[s] > Ids

Given ==
    /\ \A t \in Threads : pc[t] = "got" => Explained(dat[t], t)
    /\ \A c \in applied : Explained(result[c], ServerOf(c))

ROwn == Stores /\ ClientTypes /\ Sent /\ Counted /\ Reserved /\ Pushed /\ Given

-------------------------------------------------------------------------------
LEMMA Numbers ==
    /\ NServers \in Nat /\ NServers > 0 /\ NFiles \in Nat /\ NFiles > 0 /\ Ids \in Nat /\ Ids > 0
    /\ \A s \in Servers : s \in Nat /\ s < NServers
    /\ \A f \in Files : f \in Nat /\ f < NFiles
    /\ \A t \in Threads : t \in Nat
BY SwarmAssumption DEF Servers, Files, Threads

\* Counters that wrap around.
LEMMA Wrap ==
    ASSUME NEW a \in Nat, NEW m \in Nat, m > 0, a < m
    PROVE  (a + 1) % m = IF a + 1 < m THEN a + 1 ELSE 0
<1>1. CASE a + 1 < m
  BY <1>1, Z3T(30)
<1>2. CASE a + 1 = m
  BY <1>2, Z3T(30)
<1> QED BY <1>1, <1>2

LEMMA IdGiven ==
    ASSUME Stores, NEW s \in Servers
    PROVE  /\ Id(s) \in IdRange /\ Id(s) <= cur_id[s]
           /\ cur_id[s] < Ids => Id(s) = cur_id[s]
<1>1. Ids \in Nat /\ Ids > 0 /\ cur_id[s] \in Nat
  BY Numbers DEF Stores
<1>2. \A a, m \in Nat : m > 0 => a % m \in 0..(m - 1) /\ a % m <= a /\ (a < m => a % m = a)
  BY Z3T(30)
<1> QED BY <1>1, <1>2 DEF Id, IdRange

\* What explains an answer goes on doing so.
LEMMA GivenStays ==
    ASSUME Given, UNCHANGED <<pc, dat, applied, result>>,
           \A s \in Servers : cur_id[s] > Ids => cur_id'[s] > Ids,
           \A s \in Servers, f \in Files :
               disk[s][f] \in {"twin", "other"} => disk'[s][f] \in {"twin", "other"},
           IInv
    PROVE  Given'
<1>1. ASSUME NEW s \in Servers, NEW d, Explained(d, s) PROVE Explained(d, s)'
  BY <1>1 DEF Explained, Files
<1>2. \A t \in Threads : pc[t] = "got" => t \in Servers
  BY DEF IInv, Position
<1>3. \A c \in applied : ServerOf(c) \in Servers
  BY ServerOfFetched DEF IInv, Types
<1> QED BY <1>1, <1>2, <1>3 DEF Given, Threads, ServerOf

LEMMA InitROwn == Init => ROwn
<1> SUFFICES ASSUME Init PROVE ROwn
  OBVIOUS
<1>1. Stores /\ ClientTypes
  BY Numbers DEF Init, Stores, ClientTypes, FileStates, CubeStates, IdRange, Servers
<1>2. Sent
  <2>1. \A s \in Servers, f \in Files : ~Passed(s, f)
    BY Numbers DEF Init, Passed
  <2>2. 0 \in Files
    BY Numbers DEF Files
  <2> QED BY <2>1, <2>2 DEF Init, Sent
<1>3. Counted
  BY DEF Init, Counted, IdRange
<1>4. Reserved /\ Pushed /\ Given
  BY DEF Init, Reserved, Pushed, Given
<1> QED BY <1>1, <1>2, <1>3, <1>4 DEF ROwn

-------------------------------------------------------------------------------
\* Steps of servers and other clients.

LEMMA FailKeeps ==
    ASSUME ROwn, IInv, UNCHANGED <<disk, cubestore, cur_id, posting, client>>
    PROVE  ROwn'
<1>1. (Stores /\ ClientTypes)'
  BY DEF ROwn, Stores, ClientTypes, client
<1>2. (Sent /\ Counted /\ Reserved)'
  BY DEF ROwn, Sent, Passed, Counted, Reserved, client
<1>3. Pushed'
  BY DEF ROwn, Pushed, HasOurs, client
<1>4. Given'
  BY GivenStays DEF ROwn, client
<1> QED BY <1>1, <1>2, <1>3, <1>4 DEF ROwn

LEMMA OtherFileKeeps ==
    ASSUME ROwn, IInv, NEW s \in Servers, NEW f \in Files, OtherFile(s, f)
    PROVE  ROwn'
<1> USE DEF ROwn
<1>1. PICK d \in {"twin", "other"} : disk' = [disk EXCEPT ![s][f] = d]
  BY DEF OtherFile
<1>2. /\ UNCHANGED <<cubestore, cur_id, posting, caller, is, n, cube_ids, pc, k, dat, applied, result>>
      /\ disk[s][f] = "absent"
  BY DEF OtherFile, client
<1>3. (Stores /\ ClientTypes)'
  <2>1. disk' \in [Servers -> [Files -> FileStates]]
    BY <1>1 DEF Stores, FileStates
  <2> QED BY <1>2, <2>1 DEF Stores, ClientTypes
<1>4. \A r \in Servers, g \in Files : disk'[r][g] = disk[r][g] \/ (disk[r][g] = "absent" /\ disk'[r][g] = d)
  BY <1>1, <1>2 DEF Stores
<1>5. (Sent /\ Counted /\ Reserved)'
  BY <1>2, <1>4 DEF Sent, Passed, Counted, Reserved
<1>6. Pushed'
  BY <1>2 DEF Pushed, HasOurs
<1>7. Given'
  BY <1>2, <1>4, GivenStays
<1> QED BY <1>3, <1>5, <1>6, <1>7

LEMMA OtherCubeIdKeeps ==
    ASSUME ROwn, IInv, NEW s \in Servers, OtherCubeId(s)
    PROVE  ROwn'
<1> USE DEF ROwn
<1>1. /\ posting' = [posting EXCEPT ![s] = Id(s)]
      /\ cur_id' = [cur_id EXCEPT ![s] = @ + 1]
      /\ UNCHANGED <<disk, cubestore, caller, is, n, cube_ids, pc, k, dat, applied, result>>
  BY DEF OtherCubeId, client
<1>2. /\ Id(s) \in IdRange /\ Id(s) <= cur_id[s]
      /\ cur_id[s] < Ids => Id(s) = cur_id[s]
  BY IdGiven
<1>3. /\ \A r \in Servers : r # s => cur_id'[r] = cur_id[r] /\ posting'[r] = posting[r]
      /\ cur_id'[s] = cur_id[s] + 1 /\ posting'[s] = Id(s)
      /\ \A r \in Servers : cur_id[r] \in Nat /\ cur_id[r] <= cur_id'[r] /\ cur_id'[r] \in Nat
  BY <1>1 DEF Stores
<1>4. (Stores /\ ClientTypes)'
  BY <1>1, <1>2 DEF Stores, ClientTypes
<1>5. Sent'
  BY <1>1 DEF Sent, Passed
<1>6. Counted'
  <2>1. \A id \in IdRange : id \in Int
    BY DEF IdRange
  <2> QED BY <1>1, <1>2, <1>3, <2>1, Numbers DEF Counted
<1>7. Reserved'
  <2>1. cube_ids[is] \in IdRange /\ is \in Servers /\ Ids \in Nat /\ \A id \in IdRange : id \in Int
    BY Numbers DEF ClientTypes, IdRange
  <2> QED BY <1>1, <1>2, <1>3, <2>1 DEF Reserved
<1>8. \A r \in Servers : cur_id[r] > Ids => cur_id'[r] > Ids
  BY <1>3, Numbers
<1>9. Pushed'
  BY <1>1, <1>8 DEF Pushed, HasOurs
<1>10. Given'
  BY <1>1, <1>8, GivenStays
<1> QED BY <1>4, <1>5, <1>6, <1>7, <1>9, <1>10

\* What is stored under an id stays.
LEMMA Inserted ==
    ASSUME Stores, NEW s \in Servers, NEW id \in IdRange, NEW c \in CubeStates,
           cubestore' = Insert(s, id, c)
    PROVE  /\ cubestore' \in [Servers -> [IdRange -> CubeStates]]
           /\ \A r \in Servers, i \in IdRange :
                  cubestore'[r][i] = IF r = s /\ i = id /\ cubestore[r][i] = "none" THEN c ELSE cubestore[r][i]
BY DEF Stores, Insert

LEMMA OtherCubeKeeps ==
    ASSUME ROwn, IInv, NEW s \in Servers, OtherCube(s)
    PROVE  ROwn'
<1> USE DEF ROwn
<1>1. /\ cubestore' = Insert(s, posting[s], "foreign")
      /\ posting' = [posting EXCEPT ![s] = -1]
      /\ posting[s] # -1
      /\ UNCHANGED <<disk, cur_id, caller, is, n, cube_ids, pc, k, dat, applied, result>>
  BY DEF OtherCube, client
<1>2. posting[s] \in IdRange /\ "foreign" \in CubeStates
  BY <1>1 DEF Stores, CubeStates
<1>3. /\ cubestore' \in [Servers -> [IdRange -> CubeStates]]
      /\ \A r \in Servers, i \in IdRange :
             cubestore'[r][i] = IF r = s /\ i = posting[s] /\ cubestore[r][i] = "none" THEN "foreign"
                                ELSE cubestore[r][i]
  BY <1>1, <1>2, Inserted
<1>4. /\ \A r \in Servers : r # s => posting'[r] = posting[r]
      /\ posting'[s] = -1
      /\ \A r \in Servers : cube_ids[r] \in IdRange /\ cur_id[r] \in Nat
  BY <1>1 DEF Stores, ClientTypes
<1>5. (Stores /\ ClientTypes)'
  BY <1>1, <1>3 DEF Stores, ClientTypes
<1>6. Sent'
  BY <1>1 DEF Sent, Passed
<1>7. Counted'
  BY <1>1, <1>3, <1>4 DEF Counted
<1>8. Reserved'
  <2>1. cube_ids[is] \in IdRange /\ is \in Servers /\ cube_ids[is] # -1
    BY DEF ClientTypes, IdRange
  <2> QED BY <1>1, <1>3, <1>4, <2>1 DEF Reserved
<1>9. Pushed'
  BY <1>1, <1>3, <1>4 DEF Pushed, HasOurs
<1>10. Given'
  BY <1>1, GivenStays
<1> QED BY <1>5, <1>6, <1>7, <1>8, <1>9, <1>10

LEMMA OthersKeep ==
    ASSUME ROwn, IInv, NEW s \in Servers, ServerStep(s)
    PROVE  ROwn'
<1>1. CASE Fail(s)
  BY <1>1, FailKeeps DEF Fail
<1>2. ASSUME NEW c \in Chunks, Read(s, c) PROVE ROwn'
  BY <1>2, FailKeeps DEF Read
<1>3. ASSUME NEW f \in Files, OtherFile(s, f) PROVE ROwn'
  BY <1>3, OtherFileKeeps
<1> QED BY <1>1, <1>2, <1>3, OtherCubeIdKeeps, OtherCubeKeeps DEF ServerStep

-------------------------------------------------------------------------------
\* Steps of apply.

LEMMA ThrowKeepsAll ==
    ASSUME ROwn, IInv, Throw, UNCHANGED <<cubestore, cur_id, posting>>,
           disk' \in [Servers -> [Files -> FileStates]],
           \A s \in Servers, f \in Files :
               disk[s][f] \in {"twin", "other"} => disk'[s][f] \in {"twin", "other"}
    PROVE  ROwn'
<1> USE DEF ROwn
<1>1. caller' = "raised" /\ UNCHANGED <<is, n, cube_ids, pc, k, dat, applied, result>>
  BY DEF Throw, Goto
<1>2. (Stores /\ ClientTypes)'
  BY <1>1 DEF Stores, ClientTypes
<1>3. (Sent /\ Counted /\ Reserved /\ Pushed)'
  BY <1>1 DEF Sent, Counted, Reserved, Pushed
<1>4. Given'
  BY <1>1, GivenStays
<1> QED BY <1>2, <1>3, <1>4

\* The file that was looked at is on the server.
LEMMA NextFileKeeps ==
    ASSUME ROwn, IInv, caller \in {"head", "upload"}, NextFile,
           UNCHANGED <<cubestore, cur_id, posting>>,
           disk' \in [Servers -> [Files -> FileStates]],
           \A s \in Servers, f \in Files : disk[s][f] # "absent" => disk'[s][f] = disk[s][f],
           disk'[is][n] # "absent"
    PROVE  ROwn'
<1> USE DEF ROwn
<1>1. /\ is' = (is + 1) % NServers
      /\ n' = IF is + 1 < NServers THEN n ELSE (n + 1) % NFiles
      /\ caller' = IF is + 1 < NServers \/ n + 1 < NFiles THEN "head" ELSE "cube"
      /\ UNCHANGED <<cube_ids, pc, k, dat, applied, result>>
  BY DEF NextFile, Goto
<1>2. /\ is \in Nat /\ is < NServers /\ n \in Nat /\ n < NFiles
      /\ is \in Servers /\ n \in Files
  BY Numbers DEF ClientTypes, Sent
<1>3. /\ is' = IF is + 1 < NServers THEN is + 1 ELSE 0
      /\ (n + 1) % NFiles = IF n + 1 < NFiles THEN n + 1 ELSE 0
  BY <1>1, <1>2, Numbers, Wrap
<1>4. is' \in Servers /\ n' \in Files
  BY <1>1, <1>2, <1>3, Numbers DEF Servers, Files
<1>5. (Stores /\ ClientTypes)'
  BY <1>1, <1>4, Numbers DEF Stores, ClientTypes
<1>6. \A s \in Servers, f \in Files : Passed(s, f) \/ (s = is /\ f = n) => disk'[s][f] # "absent"
  BY <1>2 DEF Sent
<1>7. Sent'
  <2>1. CASE is + 1 < NServers
    <3>1. \A s \in Servers, f \in Files : Passed(s, f)' => Passed(s, f) \/ (s = is /\ f = n)
      BY <1>1, <1>2, <1>3, <2>1, Numbers DEF Passed
    <3> QED BY <1>1, <1>4, <1>6, <2>1, <3>1 DEF Sent, Servers, Files
  <2>2. CASE ~(is + 1 < NServers) /\ n + 1 < NFiles
    <3>1. \A s \in Servers, f \in Files : Passed(s, f)' => Passed(s, f) \/ (s = is /\ f = n)
      <4> SUFFICES ASSUME NEW s \in Servers, NEW f \in Files, Passed(s, f)'
                   PROVE  Passed(s, f) \/ (s = is /\ f = n)
        BY DEF Passed, Servers, Files
      <4>1. s \in Nat /\ s <= is /\ f \in Nat
        BY <1>2, <2>2, Numbers
      <4>2. f < n + 1
        BY <1>1, <1>3, <2>2, <4>1 DEF Passed
      <4> QED BY <1>2, <4>1, <4>2 DEF Passed
    <3> QED BY <1>1, <1>4, <1>6, <2>2, <3>1 DEF Sent, Servers, Files
  <2>3. CASE ~(is + 1 < NServers) /\ ~(n + 1 < NFiles)
    <3>1. \A s \in Servers, f \in Files : Passed(s, f) \/ (s = is /\ f = n)
      BY <1>2, <2>3, Numbers DEF Passed
    <3> QED BY <1>1, <1>6, <2>3, <3>1 DEF Sent, Servers, Files
  <2> QED BY <2>1, <2>2, <2>3
<1>8. (Counted /\ Reserved)'
  BY <1>1 DEF Counted, Reserved
<1>9. Pushed'
  <2>1. caller' = "cube" => is' = 0
    BY <1>1, <1>3
  <2>2. \A s \in Servers : ~(s < 0)
    BY Numbers
  <2> QED BY <1>1, <2>1, <2>2 DEF Pushed, Servers
<1>10. Given'
  BY <1>1, GivenStays
<1> QED BY <1>5, <1>7, <1>8, <1>9, <1>10

LEMMA HeadKeeps ==
    ASSUME ROwn, IInv, Head
    PROVE  ROwn'
<1>1. UNCHANGED <<disk, cubestore, cur_id, posting>> /\ caller = "head"
  BY DEF Head, servers
<1>2. disk' \in [Servers -> [Files -> FileStates]] /\ is \in Servers /\ n \in Files
  BY <1>1 DEF ROwn, Stores, ClientTypes, Sent
<1>3. CASE Throw
  BY <1>1, <1>2, <1>3, ThrowKeepsAll
<1>4. CASE disk[is][n] \in {"same", "twin"} /\ NextFile
  BY <1>1, <1>2, <1>4, NextFileKeeps
<1>5. CASE caller' = "upload" /\ UNCHANGED <<is, n, cube_ids, pc, k, dat, applied, result>>
  <2>1. (Stores /\ ClientTypes)'
    BY <1>1, <1>5 DEF ROwn, Stores, ClientTypes
  <2>2. (Sent /\ Counted /\ Reserved /\ Pushed)'
    BY <1>1, <1>5 DEF ROwn, Sent, Passed, Counted, Reserved, Pushed
  <2>3. Given'
    BY <1>1, <1>5, GivenStays DEF ROwn
  <2> QED BY <2>1, <2>2, <2>3 DEF ROwn
<1> QED BY <1>3, <1>4, <1>5 DEF Head, Goto

LEMMA UploadKeeps ==
    ASSUME ROwn, IInv, Upload
    PROVE  ROwn'
<1>1. /\ UNCHANGED <<cubestore, cur_id, posting>> /\ caller = "upload"
      /\ is \in Servers /\ n \in Files
  BY DEF Upload, ROwn, ClientTypes, Sent
<1>2. PICK d \in {"same", "other"} :
        /\ disk' = (IF disk[is][n] = "absent" THEN [disk EXCEPT ![is][n] = d] ELSE disk) \/ UNCHANGED disk
        /\ \/ Throw
           \/ /\ NextFile
              /\ disk' = IF disk[is][n] = "absent" THEN [disk EXCEPT ![is][n] = d] ELSE disk
  <2>1. ASSUME disk' = (IF disk[is][n] = "absent" THEN [disk EXCEPT ![is][n] = "same"] ELSE disk), NextFile
        PROVE  \E d \in {"same", "other"} :
                 /\ disk' = (IF disk[is][n] = "absent" THEN [disk EXCEPT ![is][n] = d] ELSE disk)
                 /\ NextFile
    BY <2>1
  <2> QED BY <2>1 DEF Upload
<1>3. /\ disk' \in [Servers -> [Files -> FileStates]]
      /\ \A s \in Servers, f \in Files : disk[s][f] # "absent" => disk'[s][f] = disk[s][f]
  <2>1. disk \in [Servers -> [Files -> FileStates]] /\ d \in FileStates
    BY <1>2 DEF ROwn, Stores, FileStates
  <2>2. CASE UNCHANGED disk
    BY <2>1, <2>2
  <2>3. CASE disk[is][n] = "absent" /\ disk' = [disk EXCEPT ![is][n] = d]
    BY <1>1, <2>1, <2>3
  <2> QED BY <1>2, <2>2, <2>3
<1>4. CASE Throw
  BY <1>1, <1>3, <1>4, ThrowKeepsAll
<1>5. CASE NextFile /\ disk' = IF disk[is][n] = "absent" THEN [disk EXCEPT ![is][n] = d] ELSE disk
  <2>1. disk'[is][n] # "absent"
    BY <1>1, <1>5 DEF ROwn, Stores
  <2> QED BY <1>1, <1>3, <1>5, <2>1, NextFileKeeps
<1> QED BY <1>2, <1>4, <1>5

LEMMA PostCubeKeeps ==
    ASSUME ROwn, IInv, PostCube
    PROVE  ROwn'
<1>1. UNCHANGED <<disk, cubestore, posting>> /\ caller = "cube" /\ is \in Servers
  BY DEF PostCube, ROwn, ClientTypes
<1>2. CASE Throw /\ UNCHANGED cur_id
  BY <1>1, <1>2, ThrowKeepsAll DEF ROwn, Stores
<1>3. CASE /\ cube_ids' = [cube_ids EXCEPT ![is] = Id(is)]
           /\ cur_id' = [cur_id EXCEPT ![is] = @ + 1]
           /\ caller' = "insert"
           /\ UNCHANGED <<is, n, pc, k, dat, applied, result>>
  <2> USE DEF ROwn
  <2>1. /\ Id(is) \in IdRange /\ Id(is) <= cur_id[is] /\ Id(is) \in Int
        /\ cur_id[is] < Ids => Id(is) = cur_id[is]
    BY <1>1, IdGiven DEF IdRange
  <2>2. /\ \A s \in Servers : s # is => cur_id'[s] = cur_id[s] /\ cube_ids'[s] = cube_ids[s]
        /\ cur_id'[is] = cur_id[is] + 1 /\ cube_ids'[is] = Id(is)
        /\ \A s \in Servers : cur_id[s] \in Nat /\ cur_id'[s] \in Nat /\ cur_id[s] <= cur_id'[s]
    BY <1>1, <1>3 DEF Stores, ClientTypes
  <2>3. (Stores /\ ClientTypes)'
    BY <1>1, <1>3, <2>1 DEF Stores, ClientTypes
  <2>4. Sent'
    BY <1>1, <1>3 DEF Sent
  <2>5. \A id \in IdRange : id \in Int
    BY DEF IdRange
  <2>6. \A s \in Servers : posting[s] \in Int
    BY <2>5 DEF Stores
  <2>7. Counted'
    BY <1>1, <2>2, <2>5, <2>6 DEF Counted
  <2>8. Reserved'
    <3>1. cur_id[is] < Ids => cubestore[is][Id(is)] = "none" /\ posting[is] # Id(is)
      BY <1>1, <2>1, <2>2 DEF Counted
    <3> QED BY <1>1, <1>3, <2>1, <2>2, <3>1, Numbers DEF Reserved
  <2>9. Pushed'
    <3>1. \A s \in Servers : s < is => s # is
      BY <1>1, Numbers
    <3> QED BY <1>1, <1>3, <2>2, <3>1 DEF Pushed, HasOurs
  <2>10. Given'
    <3>1. \A s \in Servers : cur_id[s] > Ids => cur_id'[s] > Ids
      BY <2>2, Numbers
    <3> QED BY <1>1, <1>3, <3>1, GivenStays
  <2> QED BY <2>3, <2>4, <2>7, <2>8, <2>9, <2>10
<1> QED BY <1>2, <1>3 DEF PostCube, Goto

LEMMA StoreCubeKeeps ==
    ASSUME ROwn, IInv, StoreCube
    PROVE  ROwn'
<1>1. UNCHANGED <<disk, cur_id, posting>> /\ caller = "insert" /\ is \in Servers
  BY DEF StoreCube, ROwn, ClientTypes
<1>2. CASE Throw /\ UNCHANGED cubestore
  BY <1>1, <1>2, ThrowKeepsAll DEF ROwn, Stores
<1>3. CASE /\ cubestore' = Insert(is, cube_ids[is], "own")
           /\ is' = (is + 1) % NServers
           /\ n' = 0
           /\ caller' = IF is + 1 < NServers THEN "cube" ELSE "start"
           /\ UNCHANGED <<cube_ids, pc, k, dat, applied, result>>
  <2> USE DEF ROwn
  <2>1. is' = IF is + 1 < NServers THEN is + 1 ELSE 0
    BY <1>1, <1>3, Numbers, Wrap
  <2>2. is \in Nat /\ is < NServers /\ is' \in Servers
    BY <1>1, <2>1, Numbers DEF Servers
  <2>3. cube_ids[is] \in IdRange /\ "own" \in CubeStates
    BY <1>1 DEF ClientTypes, CubeStates
  <2>4. /\ cubestore' \in [Servers -> [IdRange -> CubeStates]]
        /\ \A s \in Servers, id \in IdRange :
               cubestore'[s][id] = IF s = is /\ id = cube_ids[is] /\ cubestore[s][id] = "none" THEN "own"
                                   ELSE cubestore[s][id]
    BY <1>1, <1>3, <2>3, Inserted
  <2>5. (Stores /\ ClientTypes)'
    BY <1>1, <1>3, <2>2, <2>4 DEF Stores, ClientTypes
  <2>6. Sent'
    BY <1>1, <1>3 DEF Sent
  <2>7. Counted'
    BY <1>1, <2>4 DEF Counted, Reserved
  <2>8. Reserved'
    BY <1>3 DEF Reserved
  <2>9. Pushed'
    <3>1. \A s \in Servers : s = is => HasOurs(s)'
      <4>1. cubestore'[is][cube_ids[is]] = "own" \/ cur_id[is] > Ids
        BY <1>1, <2>3, <2>4, Numbers DEF Reserved, Stores
      <4> QED BY <1>1, <1>3, <4>1 DEF HasOurs
    <3>2. \A s \in Servers : s < is => HasOurs(s)'
      BY <1>1, <1>3, <2>4 DEF Pushed, HasOurs, ClientTypes
    <3>3. \A s \in Servers : s < is + 1 => s < is \/ s = is
      BY <2>2, Numbers
    <3>4. \A s \in Servers : s < NServers
      BY Numbers
    <3>5. CASE is + 1 < NServers
      BY <1>3, <2>1, <3>1, <3>2, <3>3, <3>5 DEF Pushed, HasOurs, Servers
    <3>6. CASE ~(is + 1 < NServers)
      <4>1. \A s \in Servers : s < is + 1
        BY <2>2, <3>6, Numbers
      <4> QED BY <1>3, <3>1, <3>2, <3>3, <3>6, <4>1 DEF Pushed, HasOurs, Servers
    <3> QED BY <3>5, <3>6
  <2>10. Given'
    BY <1>1, <1>3, GivenStays
  <2> QED BY <2>5, <2>6, <2>7, <2>8, <2>9, <2>10
<1> QED BY <1>2, <1>3 DEF StoreCube, Goto

\* Steps that only move the caller or create threads, after cubes were stored.
LEMMA MoveKeeps ==
    ASSUME ROwn, IInv, PostStart \/ Started \/ Spawn \/ Spawned \/ Join \/ Joined
    PROVE  ROwn'
<1>1. UNCHANGED <<disk, cubestore, cur_id, posting>>
  BY DEF PostStart, Started, Spawn, Spawned, Join, Joined, servers
<1>2. CASE Throw
  BY <1>1, <1>2, ThrowKeepsAll DEF ROwn, Stores
<1>3. CASE ~Throw
  <2> USE DEF ROwn
  <2>1. /\ UNCHANGED <<is, cube_ids, dat, applied, result>>
        /\ caller \in {"start", "spawn", "join"}
        /\ caller' \in {"start", "spawn", "join", "returned"}
        /\ n' \in {0, n, n + 1}
    BY <1>3 DEF PostStart, Started, Spawn, Spawned, Join, Joined, Goto
  <2>2. (Stores /\ ClientTypes)'
    BY <1>1, <2>1 DEF Stores, ClientTypes
  <2>3. (Sent /\ Counted /\ Reserved /\ Pushed)'
    BY <1>1, <2>1 DEF Sent, Counted, Reserved, Pushed, HasOurs
  <2>4. Given'
    <3>1. CASE UNCHANGED pc
      BY <1>1, <2>1, <3>1, GivenStays
    <3>2. CASE Spawn
      <4>1. \A t \in Threads : pc'[t] = "got" => pc[t] = "got"
        BY <3>2 DEF Spawn, IInv, Types
      <4> QED BY <1>1, <2>1, <4>1 DEF Given, Explained, ServerOf
    <3> QED BY <1>3, <3>1, <3>2 DEF PostStart, Started, Spawned, Join, Joined
  <2> QED BY <2>2, <2>3, <2>4
<1> QED BY <1>2, <1>3

-------------------------------------------------------------------------------
\* Steps of threads.

\* What a server reads is our cube unless it holds other files or ids have wrapped around.
LEMMA ContentExplained ==
    ASSUME ROwn, caller \in {"spawn", "join"}, NEW s \in Servers
    PROVE  Explained(Content(s), s)
<1> USE DEF ROwn
<1>1. (\A f \in Files : disk[s][f] # "absent") /\ HasOurs(s)
  BY DEF Sent, Pushed
<1>2. \A f \in Files : disk[s][f] # "same" => disk[s][f] \in {"twin", "other"}
  BY <1>1 DEF Stores, FileStates
<1>3. CASE cubestore[s][cube_ids[s]] # "own"
  BY <1>1, <1>3 DEF Content, Explained, Answers, HasOurs
<1>4. CASE cubestore[s][cube_ids[s]] = "own" /\ \E f \in Files : disk[s][f] # "same"
  BY <1>2, <1>4 DEF Content, Explained, Answers
<1>5. CASE cubestore[s][cube_ids[s]] = "own" /\ ~ \E f \in Files : disk[s][f] # "same"
  BY <1>5 DEF Content, Explained, Answers
<1> QED BY <1>3, <1>4, <1>5

LEMMA ThreadKeeps ==
    ASSUME ROwn, IInv, NEW t \in Threads, Thread(t)
    PROVE  ROwn'
<1> USE DEF ROwn
<1>1. UNCHANGED <<disk, cubestore, cur_id, posting>> /\ caller \in {"spawn", "join"}
  BY DEF Thread, Download, Apply, ApplyThrows, Exit, servers
<1>2. CASE Throw
  BY <1>1, <1>2, ThrowKeepsAll DEF Stores
<1>3. CASE Exit(t)
  <2>1. UNCHANGED <<caller, is, n, cube_ids, dat, applied, result>>
    BY <1>3 DEF Exit
  <2>2. \A u \in Threads : pc'[u] = "got" => pc[u] = "got"
    BY <1>3 DEF Exit, IInv, Types
  <2>3. (Stores /\ ClientTypes /\ Sent /\ Counted /\ Reserved /\ Pushed)'
    BY <1>1, <2>1 DEF Stores, ClientTypes, Sent, Counted, Reserved, Pushed, HasOurs
  <2>4. Given'
    BY <1>1, <2>1, <2>2 DEF Given, Explained, ServerOf
  <2> QED BY <2>3, <2>4
<1>4. CASE Apply(t)
  <2>1. /\ UNCHANGED <<caller, is, n, cube_ids, dat>> /\ pc[t] = "got"
        /\ applied' = applied \cup {k[t]} /\ result' = [result EXCEPT ![k[t]] = dat[t]]
    BY <1>4 DEF Apply
  <2>2. k[t] \in Chunks /\ ServerOf(k[t]) = t
    BY <2>1 DEF IInv, Position
  <2>3. Explained(dat[t], t) /\ dat[t] \in Answers
    BY <2>1 DEF Given, Explained
  <2>4. /\ result' \in [Chunks -> Answers \cup {"none"}]
        /\ result'[k[t]] = dat[t]
        /\ \A c \in Chunks : c # k[t] => result'[c] = result[c]
    BY <2>1, <2>2, <2>3 DEF ClientTypes
  <2>5. (Stores /\ ClientTypes /\ Sent /\ Counted /\ Reserved /\ Pushed)'
    BY <1>1, <2>1, <2>4 DEF Stores, ClientTypes, Sent, Counted, Reserved, Pushed, HasOurs
  <2>6. \A u \in Threads : pc'[u] = "got" => pc[u] = "got"
    BY <1>4 DEF Apply, IInv, Types
  <2>7. \A c \in applied : c \in Chunks
    BY DEF IInv, Types, Fetched
  <2>8. \A c \in applied' : Explained(result'[c], ServerOf(c))
    BY <2>1, <2>2, <2>3, <2>4, <2>7 DEF Given
  <2>9. Given'
    BY <1>1, <2>1, <2>6, <2>8 DEF Given, Explained, ServerOf
  <2> QED BY <2>5, <2>9
<1>5. CASE Download(t) /\ ~Throw
  <2>1. /\ UNCHANGED <<caller, is, n, cube_ids, k, applied, result>> /\ pc[t] = "loop"
        /\ \E d \in {Content(t), "error"} : dat' = [dat EXCEPT ![t] = d]
    BY <1>5 DEF Download
  <2>2. t \in Servers
    BY <2>1 DEF IInv, Position
  <2>3. PICK d \in {Content(t), "error"} : dat' = [dat EXCEPT ![t] = d]
    BY <2>1
  <2>4. Explained(d, t)
    <3>1. Explained("error", t)
      BY DEF Explained, Answers
    <3> QED BY <1>1, <2>2, <2>3, <3>1, ContentExplained
  <2>5. /\ dat' \in [Threads -> Answers \cup {"none"}]
        /\ dat'[t] = d /\ \A u \in Threads : u # t => dat'[u] = dat[u]
    BY <2>3, <2>4 DEF ClientTypes, Explained
  <2>6. (Stores /\ ClientTypes /\ Sent /\ Counted /\ Reserved /\ Pushed)'
    BY <1>1, <2>1, <2>5 DEF Stores, ClientTypes, Sent, Counted, Reserved, Pushed, HasOurs
  <2>7. \A u \in Threads : u # t => pc'[u] = pc[u]
    BY <1>5 DEF Download, IInv, Types
  <2>8. Given'
    BY <1>1, <2>1, <2>4, <2>5, <2>7 DEF Given, Explained, ServerOf
  <2> QED BY <2>6, <2>8
<1> QED BY <1>2, <1>3, <1>4, <1>5 DEF Thread, ApplyThrows

-------------------------------------------------------------------------------
LEMMA NextROwn == ROwn /\ IInv /\ [Next]_vars => ROwn'
<1> SUFFICES ASSUME ROwn, IInv, [Next]_vars PROVE ROwn'
  OBVIOUS
<1>1. CASE Head \/ Upload \/ PostCube \/ StoreCube
  BY <1>1, HeadKeeps, UploadKeeps, PostCubeKeeps, StoreCubeKeeps
<1>2. CASE PostStart \/ Started \/ Spawn \/ Spawned \/ Join \/ Joined
  BY <1>2, MoveKeeps
<1>3. ASSUME NEW t \in Threads, Thread(t) PROVE ROwn'
  BY <1>3, ThreadKeeps
<1>4. ASSUME NEW s \in Servers, ServerStep(s) PROVE ROwn'
  BY <1>4, OthersKeep
<1>5. CASE UNCHANGED vars
  BY <1>5, FailKeeps DEF vars, servers
<1> QED BY <1>1, <1>2, <1>3, <1>4, <1>5 DEF Next, Caller

\* Whatever servers fail and whatever other clients send: what f is given is our chunk or an error
\* unless the server held other files or the ids of its cubes have wrapped around.
THEOREM ResultsExplained == Spec => []OwnChunks
<1>1. ROwn => OwnChunks
  BY DEF ROwn, Sent, Given, Explained, Answers, OwnChunks
<1> QED BY <1>1, InitROwn, NextROwn, Invariance, PTL DEF Spec

=================================================================================
