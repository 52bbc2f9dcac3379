--------------------------- MODULE ChunkServerProofs --------------------------
(***************************************************************************)
(* Proofs about ChunkServer, for any requests, keys and number of workers.  *)
(*                                                                          *)
(* The invariant is the conjunction of what each lock protects (Exclusive), *)
(* of what a program counter says about the key a thread works on           *)
(* (KeyAtWork, Started), and of the four safety properties.                 *)
(***************************************************************************)
EXTENDS ChunkServer, TLAPS

InRequests  == {"pushing", "head", "lockexec", "take"}
InExecuting == {"take", "erasing"}
AtWork  == {"push", "pushing", "read", "add", "adding", "erase", "erasing", "notify"}
Held    == {"push", "pushing", "read", "add", "adding"}
Reading == {"read", "add", "adding", "erase", "erasing"}

\* The mutexes of the workers and of the thread list exclude.
Exclusive ==
    /\ \A v, w \in Workers : wpc[v] \in InRequests /\ wpc[w] \in InRequests => v = w
    /\ \A g, h \in Handlers :
          hpc[g] \in {"s_size", "s_spawn"} /\ hpc[h] \in {"s_size", "s_spawn"} => g = h

\* Threads are created in the order of the slots, and there is a slot left
\* for the thread about to be created.
Created ==
    /\ \A w \in Workers : w > size => wpc[w] = "none"
    /\ \A h \in Handlers : hpc[h] = "s_spawn" => size < MaxWorkers

KeyAtWork == \A w \in Workers : wpc[w] \in AtWork => wkey[w] \in Keys

FrontInv == \A w \in Workers : wpc[w] \in {"lockexec", "take"} => queue # <<>>

Known == cache \cup Pending

\* What a handler of a start request knows, and that only these handlers
\* answer a start request.
Started ==
    \A h \in Handlers :
        /\ hpc[h] = "s_notify" => req[h].key \in Known
        /\ req[h].kind = "start" => hpc[h] \in {"arrive", "done", "s_has", "s_queued",
              "s_exec", "s_threads", "s_size", "s_spawn", "s_cond", "s_push", "s_notify"}

IInv ==
    /\ TypeOK
    /\ Exclusive
    /\ Created
    /\ KeyAtWork
    /\ FrontInv
    /\ QueuedBacked
    /\ ExecutingBacked
    /\ CachedBeforeAnnounced
    /\ Started
    /\ AcceptedNotLost

-------------------------------------------------------------------------------
\* Lists as sets of keys.

\* push_back adds one key to those in the list.
LEMMA RangeAppend ==
    ASSUME NEW S, NEW s \in Seq(S), NEW e \in S
    PROVE  Range(Append(s, e)) = Range(s) \cup {e}
<1>1. PICK n \in Nat : n = Len(s) /\ DOMAIN s = 1..n
  OBVIOUS
<1>2. PICK a : a = Append(s, e)
  OBVIOUS
<1>3. DOMAIN a = 1..(n + 1) /\ a[n + 1] = e /\ \A i \in 1..n : a[i] = s[i]
  BY <1>1, <1>2
<1>4. \A i \in 1..(n + 1) : i \in 1..n \/ i = n + 1
  BY <1>1
<1>5. n + 1 \in 1..(n + 1) /\ \A i \in 1..n : i \in 1..(n + 1)
  BY <1>1
<1>6. Range(a) = {a[i] : i \in 1..(n + 1)} /\ Range(s) = {s[i] : i \in 1..n}
  BY <1>1, <1>3 DEF Range
<1>7. Range(a) \subseteq Range(s) \cup {e}
  BY <1>3, <1>4, <1>6
<1>8. Range(s) \cup {e} \subseteq Range(a)
  BY <1>3, <1>5, <1>6
<1> QED BY <1>2, <1>7, <1>8

\* pop_front removes nothing but an occurrence of the front.
LEMMA RangeTail ==
    ASSUME NEW S, NEW s \in Seq(S), s # <<>>
    PROVE  /\ Head(s) \in S
           /\ Tail(s) \in Seq(S)
           /\ Range(s) = Range(Tail(s)) \cup {Head(s)}
  <1>1. Head(s) \in S /\ Tail(s) \in Seq(S)
    OBVIOUS
  <1>2. Range(Tail(s)) \cup {Head(s)} \subseteq Range(s)
    BY DEF Range
  <1>3. ASSUME NEW i \in 1..Len(s)
        PROVE  s[i] \in Range(Tail(s)) \cup {Head(s)}
    <2>1. CASE i = 1
      BY <2>1
    <2>2. CASE i # 1
      <3>1. i - 1 \in 1..Len(Tail(s)) /\ Tail(s)[i - 1] = s[i]
        BY <2>2
      <3>2. QED  BY <3>1 DEF Range
    <2>3. QED  BY <2>1, <2>2
  <1>4. QED  BY <1>1, <1>2, <1>3 DEF Range

-------------------------------------------------------------------------------
\* A handler step that changes nothing but the handler's own place and replies
\* keeps the invariant, if the place it moves to is one it may move to and an
\* OK to a start request is given for a known chunk.
LEMMA HandlerMove ==
    ASSUME IInv, NEW h \in Handlers, NEW l \in HandlerPC, NEW rs \in Seq(Replies),
           hpc' = [hpc EXCEPT ![h] = l],
           hreply' = [hreply EXCEPT ![h] = rs],
           UNCHANGED <<req, workerVars, storeVars>>,
           l \in {"s_size", "s_spawn"} => hpc[h] \in {"s_size", "s_spawn"} \/ ~ThreadsHeld,
           l = "s_spawn" => size < MaxWorkers,
           l # "s_notify",
           req[h].kind = "start" =>
             /\ l \in {"arrive", "done", "s_has", "s_queued", "s_exec", "s_threads",
                       "s_size", "s_spawn", "s_cond", "s_push", "s_notify"}
             /\ rs = <<"ok">> => req[h].key \in Known
    PROVE  IInv' /\ Known' = Known
  <1>1. Known' = Known
    BY DEF workerVars, storeVars, Known, Pending, Carried
  <1>2. TypeOK'
    BY DEF IInv, TypeOK, workerVars, storeVars
  <1>3. Exclusive'
    BY DEF IInv, TypeOK, Exclusive, ThreadsHeld, workerVars
  <1>4. Created'
    BY DEF IInv, TypeOK, Created, workerVars
  <1>5. Started'
    BY <1>1 DEF IInv, TypeOK, Started
  <1>6. AcceptedNotLost'
    BY <1>1 DEF IInv, TypeOK, AcceptedNotLost, Known
  <1>7. (KeyAtWork /\ FrontInv /\ QueuedBacked /\ ExecutingBacked /\ CachedBeforeAnnounced)'
    BY DEF IInv, KeyAtWork, FrontInv, QueuedBacked, ExecutingBacked,
           CachedBeforeAnnounced, workerVars, storeVars
  <1>8. QED  BY <1>1, <1>2, <1>3, <1>4, <1>5, <1>6, <1>7 DEF IInv

\* A key that a handler finds in one of the searched containers is known.
LEMMA FoundIsKnown ==
    ASSUME IInv, NEW k \in Keys, k \in cache \/ k \in queued \/ k \in executing
    PROVE  k \in Known
  <1>1. CASE k \in cache
    BY <1>1 DEF Known
  <1>2. CASE k \in queued
    BY <1>2 DEF IInv, QueuedBacked, Known, Pending
  <1>3. CASE k \in executing
    <2>1. PICK w \in Workers : wkey[w] = k /\ wpc[w] \in Reading
      BY <1>3 DEF IInv, ExecutingBacked, Reading
    <2>2. CASE wpc[w] \in {"erase", "erasing"}
      BY <2>1, <2>2 DEF IInv, CachedBeforeAnnounced, Known
    <2>3. CASE wpc[w] \in Held
      BY <2>1, <2>3 DEF Known, Pending, Carried, Held
    <2>4. QED  BY <2>1, <2>2, <2>3 DEF Reading, Held
  <1>4. QED  BY <1>1, <1>2, <1>3

\* The steps of a handler that only search, lock, or reply.
QuietHandlerStep(h) ==
    \/ Arrive(h)
    \/ StartHas(h) \/ StartQueued(h) \/ StartExec(h)
    \/ StartLockThreads(h) \/ StartSize(h) \/ StartLockCond(h)
    \/ DownloadHas(h) \/ DownloadQueued(h) \/ DownloadExec(h)
    \/ DownloadLoop(h) \/ DownloadGet(h) \/ DownloadSpurious(h)
    \/ StatusStep(h)

LEMMA HandlerQuietSteps ==
    ASSUME IInv, NEW h \in Handlers,
           QuietHandlerStep(h)
    PROVE  IInv' /\ Known' = Known
  <1> DEFINE place == hpc'[h]
             sent  == hreply'[h]
  <1>1. TypeOK /\ Started /\ Created
    BY DEF IInv
  <1>2. req[h].key \in Keys /\ req[h].kind \in Kinds /\ hreply[h] \in Seq(Replies)
    BY <1>1 DEF TypeOK
  <1>3. \A k \in Keys : k \in cache \/ k \in queued \/ k \in executing => k \in Known
    BY FoundIsKnown
  <1>4. \A s \in Seq(Replies), r \in Replies : Append(s, r) = <<"ok">> => r = "ok"
    <2> TAKE s \in Seq(Replies), r \in Replies
    <2>1. Len(Append(s, r)) = Len(s) + 1 /\ Append(s, r)[Len(s) + 1] = r
      OBVIOUS
    <2>2. QED  BY <2>1
  <1>5. AcceptedNotLost
    BY DEF IInv
  <1> DEFINE Moves ==
        /\ place \in HandlerPC
        /\ sent \in Seq(Replies)
        /\ hpc' = [hpc EXCEPT ![h] = place]
        /\ hreply' = [hreply EXCEPT ![h] = sent]
        /\ UNCHANGED <<req, workerVars, storeVars>>
        /\ place \in {"s_size", "s_spawn"} => hpc[h] \in {"s_size", "s_spawn"} \/ ~ThreadsHeld
        /\ place = "s_spawn" => size < MaxWorkers
        /\ place # "s_notify"
        /\ req[h].kind = "start" =>
             /\ place \in {"arrive", "done", "s_has", "s_queued", "s_exec", "s_threads",
                           "s_size", "s_spawn", "s_cond", "s_push", "s_notify"}
             /\ sent = <<"ok">> => req[h].key \in Known
  <1>6. sent = hreply[h] /\ req[h].kind = "start" => (sent = <<"ok">> => req[h].key \in Known)
    BY <1>5 DEF AcceptedNotLost, Known
  <1>7. ASSUME NEW r \in Replies, Reply(h, r)
        PROVE  /\ sent \in Seq(Replies)
               /\ sent = <<"ok">> => r = "ok"
               /\ hreply' = [hreply EXCEPT ![h] = sent]
    <2>1. sent = Append(hreply[h], r)
      BY <1>1, <1>7 DEF Reply, TypeOK
    <2>2. sent \in Seq(Replies)
      BY <1>2, <2>1
    <2>3. sent = <<"ok">> => r = "ok"
      BY <1>2, <1>4, <2>1
    <2>4. hreply' = [hreply EXCEPT ![h] = sent]
      BY <1>7, <2>1 DEF Reply
    <2>5. QED  BY <2>2, <2>3, <2>4
  <1>8. ASSUME NEW l \in HandlerPC, Goto(h, l)
        PROVE  place = l /\ hpc' = [hpc EXCEPT ![h] = place]
    BY <1>1, <1>8 DEF Goto, TypeOK
  <1>9. ASSUME UNCHANGED hreply
        PROVE  /\ sent \in Seq(Replies)
               /\ req[h].kind = "start" /\ sent = <<"ok">> => req[h].key \in Known
               /\ hreply' = [hreply EXCEPT ![h] = sent]
    BY <1>1, <1>2, <1>6, <1>9 DEF TypeOK
  <1> HIDE DEF place, sent
  <1>10. ASSUME Arrive(h)
         PROVE  Moves
    <2>1. \/ UNCHANGED hreply
          \/ Reply(h, "notfound")
      BY <1>10 DEF Arrive
    <2>2. PICK l \in HandlerPC :
             /\ Goto(h, l)
             /\ req[h].kind = "start" => l \in {"s_has", "done"}
             /\ l \in {"s_has", "d_has", "q_has", "done"}
      BY <1>2, <1>10 DEF Arrive, First, Kinds, HandlerPC
    <2>3. UNCHANGED <<req, workerVars, storeVars>>
      BY <1>10 DEF Arrive
    <2>4. QED  BY <1>7, <1>8, <1>9, <2>1, <2>2, <2>3 DEF Replies
  <1>11. ASSUME NEW here \in HandlerPC, NEW S, NEW f, NEW a \in Replies, NEW l \in HandlerPC,
                SearchReply(h, here, S, f, a, l),
                l \in {"s_queued", "s_exec", "s_threads", "q_exec", "q_queued"},
                req[h].kind = "start" =>
                  /\ l \in {"s_queued", "s_exec", "s_threads"}
                  /\ S \subseteq Known
         PROVE  Moves
    <2>1. UNCHANGED <<req, workerVars, storeVars>>
      BY <1>11 DEF SearchReply
    <2>2. CASE req[h].key \in S /\ Reply(h, a) /\ Goto(h, "done")
      BY <1>7, <1>8, <1>11, <2>1, <2>2 DEF HandlerPC
    <2>3. CASE Goto(h, l) /\ UNCHANGED hreply
      BY <1>8, <1>9, <1>11, <2>1, <2>3
    <2>4. QED  BY <1>11, <2>2, <2>3 DEF SearchReply, Finish
  <1>12. ASSUME NEW here \in HandlerPC, NEW S, NEW f, NEW a \in Replies, NEW b \in Replies,
                SearchLast(h, here, S, f, a, b),
                req[h].kind # "start"
         PROVE  Moves
    <2>1. UNCHANGED <<req, workerVars, storeVars>>
      BY <1>12 DEF SearchLast
    <2>2. PICK r \in Replies : Reply(h, r) /\ Goto(h, "done")
      BY <1>12 DEF SearchLast, Finish
    <2>3. QED  BY <1>7, <1>8, <1>12, <2>1, <2>2 DEF HandlerPC
  <1>13. ASSUME NEW here \in HandlerPC, NEW S, NEW f, NEW a \in HandlerPC, NEW b \in HandlerPC,
                Search(h, here, S, f, a, b),
                {a, b} \subseteq {"d_loop", "d_queued", "d_exec", "d_get", "d_wait"},
                req[h].kind # "start"
         PROVE  Moves
    <2>1. UNCHANGED <<req, hreply, workerVars, storeVars>>
      BY <1>13 DEF Search
    <2>2. PICK l \in {a, b} : Goto(h, l)
      BY <1>13 DEF Search
    <2>3. QED  BY <1>8, <1>9, <1>13, <2>1, <2>2
  <1>14. cache \subseteq Known /\ queued \subseteq Known /\ executing \subseteq Known
    BY <1>1, <1>3 DEF TypeOK
  <1>15. ASSUME hpc[h] \notin {"arrive", "done", "s_has", "s_queued", "s_exec", "s_threads",
                      "s_size", "s_spawn", "s_cond", "s_push", "s_notify"}
         PROVE  req[h].kind # "start"
    BY <1>1, <1>15 DEF Started
  <1>16. ASSUME StartHas(h) \/ StartQueued(h) \/ StartExec(h)
         PROVE  Moves
    <2>1. {"s_has", "s_queued", "s_exec", "s_threads"} \subseteq HandlerPC /\ "ok" \in Replies
      BY DEF HandlerPC, Replies
    <2>2. CASE StartHas(h)
      BY <1>11, <1>14, <2>1, <2>2 DEF StartHas
    <2>3. CASE StartQueued(h)
      BY <1>11, <1>14, <2>1, <2>3 DEF StartQueued
    <2>4. CASE StartExec(h)
      BY <1>11, <1>14, <2>1, <2>4 DEF StartExec
    <2>5. QED  BY <1>16, <2>2, <2>3, <2>4
  <1>17. ASSUME StartLockThreads(h) \/ StartSize(h) \/ StartLockCond(h)
         PROVE  Moves
    <2>1. UNCHANGED <<req, hreply, workerVars, storeVars>>
      BY <1>17 DEF StartLockThreads, StartSize, StartLockCond
    <2>2. PICK l \in {"s_size", "s_spawn", "s_cond", "s_push"} :
             /\ Goto(h, l)
             /\ l \in {"s_size", "s_spawn"} => hpc[h] \in {"s_size", "s_spawn"} \/ ~ThreadsHeld
             /\ l = "s_spawn" => size < MaxWorkers
      BY <1>17 DEF StartLockThreads, StartSize, StartLockCond
    <2>3. QED  BY <1>8, <1>9, <2>1, <2>2 DEF HandlerPC
  <1>18. ASSUME DownloadHas(h) \/ DownloadQueued(h) \/ DownloadLoop(h)
         PROVE  Moves
    <2>1. req[h].kind # "start"
      BY <1>15, <1>18 DEF DownloadHas, DownloadQueued, DownloadLoop, Search
    <2>2. {"d_has", "d_queued", "d_loop", "d_exec", "d_get", "d_wait"} \subseteq HandlerPC
      BY DEF HandlerPC
    <2>3. CASE DownloadHas(h)
      BY <1>13, <2>1, <2>2, <2>3 DEF DownloadHas
    <2>4. CASE DownloadQueued(h)
      BY <1>13, <2>1, <2>2, <2>4 DEF DownloadQueued
    <2>5. CASE DownloadLoop(h)
      BY <1>13, <2>1, <2>2, <2>5 DEF DownloadLoop
    <2>6. QED  BY <1>18, <2>3, <2>4, <2>5
  <1>19. ASSUME DownloadExec(h) \/ DownloadSpurious(h)
         PROVE  Moves
    <2>1. req[h].kind # "start"
      BY <1>15, <1>19 DEF DownloadExec, DownloadSpurious
    <2>2. UNCHANGED <<req, workerVars, storeVars>>
      BY <1>19 DEF DownloadExec, DownloadSpurious
    <2>3. \/ Goto(h, "d_loop") /\ UNCHANGED hreply
          \/ Goto(h, "done") /\ Reply(h, "notfound")
      BY <1>19 DEF DownloadExec, DownloadSpurious, Finish
    <2>4. CASE Goto(h, "d_loop") /\ UNCHANGED hreply
      BY <1>8, <1>9, <2>1, <2>2, <2>4 DEF HandlerPC
    <2>5. CASE Goto(h, "done") /\ Reply(h, "notfound")
      <3>1. "notfound" \in Replies /\ "done" \in HandlerPC
        BY DEF Replies, HandlerPC
      <3>2. place = "done" /\ hpc' = [hpc EXCEPT ![h] = place]
        BY <1>8, <2>5, <3>1
      <3>3. sent \in Seq(Replies) /\ hreply' = [hreply EXCEPT ![h] = sent]
        BY <1>7, <2>5, <3>1
      <3>4. QED  BY <2>1, <2>2, <3>1, <3>2, <3>3
    <2>6. QED  BY <2>3, <2>4, <2>5
  <1>20. ASSUME DownloadGet(h) \/ StatusQueued(h)
         PROVE  Moves
    <2>1. req[h].kind # "start"
      BY <1>15, <1>20 DEF DownloadGet, StatusQueued, SearchLast
    <2>2. QED  BY <1>12, <1>20, <2>1 DEF DownloadGet, StatusQueued, HandlerPC, Replies
  <1>21. ASSUME StatusHas(h) \/ StatusExec(h)
         PROVE  Moves
    <2>1. req[h].kind # "start"
      BY <1>15, <1>21 DEF StatusHas, StatusExec, SearchReply
    <2>2. QED  BY <1>11, <1>21, <2>1 DEF StatusHas, StatusExec, HandlerPC, Replies
  <1>22. Moves
    BY <1>10, <1>16, <1>17, <1>18, <1>19, <1>20, <1>21 DEF QuietHandlerStep, StatusStep
  <1>23. QED
    BY <1>22, HandlerMove

-------------------------------------------------------------------------------
\* The steps of a handler that change what the workers see.

\* A step that keeps the replies and every handler's knowledge keeps what was
\* promised to the start requests.
LEMMA AcceptedKept ==
    ASSUME AcceptedNotLost, Known \subseteq Known', UNCHANGED <<req, hreply>>
    PROVE  AcceptedNotLost'
  BY DEF AcceptedNotLost, Known

LEMMA StartSpawnKeeps ==
    ASSUME IInv, NEW h \in Handlers, StartSpawn(h)
    PROVE  IInv' /\ Known \subseteq Known'
  <1> DEFINE n == size + 1
  <1>1. TypeOK /\ Created /\ hpc[h] = "s_spawn" /\ req[h].key \in Keys
    BY DEF IInv, StartSpawn, TypeOK
  <1>2. n \in Workers /\ wpc[n] = "none" /\ size \in Nat
    BY <1>1, ServerAssumption DEF TypeOK, Created, Workers
  <1>3. /\ wpc'[n] = "push" /\ wkey'[n] = req[h].key
        /\ \A w \in Workers \ {n} : wpc'[w] = wpc[w] /\ wkey'[w] = wkey[w]
        /\ size' = n
    BY <1>1, <1>2 DEF StartSpawn, TypeOK
  <1>4. /\ hpc' = [hpc EXCEPT ![h] = "done"]
        /\ hreply' = [hreply EXCEPT ![h] = Append(@, "ok")]
        /\ UNCHANGED <<req, queue, queued, executing, cache, chunkCond>>
    BY DEF StartSpawn, Finish, Reply, Goto, storeVars
  <1>5. TypeOK'
    <2>1. hreply' \in [Handlers -> Seq(Replies)]
      BY <1>1, <1>4 DEF TypeOK, Replies
    <2>2. wpc' \in [Workers -> WorkerPC] /\ wkey' \in [Workers -> Keys \cup {NoKey}]
      BY <1>1, <1>2 DEF StartSpawn, TypeOK, WorkerPC
    <2>3. size' \in 0..MaxWorkers
      BY <1>2, <1>3 DEF Workers
    <2>4. QED  BY <1>1, <1>4, <2>1, <2>2, <2>3 DEF TypeOK, HandlerPC
  <1>6. Known \subseteq Known' /\ req[h].key \in Known'
    <2>1. \A k \in Keys : Carried(k) => Carried(k)'
      BY <1>2, <1>3 DEF Carried
    <2>2. Carried(req[h].key)'
      BY <1>2, <1>3, <1>4 DEF Carried
    <2>3. QED  BY <1>1, <1>4, <2>1, <2>2 DEF Known, Pending
  <1>7. Exclusive'
    BY <1>1, <1>2, <1>3, <1>4 DEF IInv, Exclusive, InRequests, TypeOK
  <1>8. Created'
    <2>1. \A w \in Workers : w > size' => wpc'[w] = "none"
      BY <1>1, <1>2, <1>3 DEF Created, Workers
    <2>2. \A g \in Handlers : hpc'[g] # "s_spawn"
      BY <1>1, <1>4 DEF IInv, Exclusive, TypeOK
    <2>3. QED  BY <2>1, <2>2 DEF Created
  <1>9. (KeyAtWork /\ FrontInv /\ CachedBeforeAnnounced)'
    BY <1>1, <1>2, <1>3, <1>4
       DEF IInv, KeyAtWork, FrontInv, CachedBeforeAnnounced, AtWork
  <1>10. (QueuedBacked /\ ExecutingBacked)'
    BY <1>2, <1>3, <1>4 DEF IInv, QueuedBacked, ExecutingBacked
  <1>11. Started'
    BY <1>1, <1>4, <1>6 DEF IInv, Started, TypeOK
  <1>12. AcceptedNotLost'
    BY <1>1, <1>4, <1>6 DEF IInv, AcceptedNotLost, Known, TypeOK
  <1>13. QED
    BY <1>5, <1>6, <1>7, <1>8, <1>9, <1>10, <1>11, <1>12 DEF IInv

LEMMA StartPushKeeps ==
    ASSUME IInv, NEW h \in Handlers, StartPush(h)
    PROVE  IInv' /\ Known \subseteq Known'
  <1>1. TypeOK /\ req[h].key \in Keys /\ queue \in Seq(Keys)
    BY DEF IInv, TypeOK
  <1>2. /\ hpc[h] = "s_push" /\ hpc' = [hpc EXCEPT ![h] = "s_notify"]
        /\ queue' = Append(queue, req[h].key)
        /\ UNCHANGED <<req, hreply, size, wpc, wkey, queued, executing, cache, chunkCond>>
    BY DEF StartPush, Goto, workerVars
  <1>3. Range(queue') = Range(queue) \cup {req[h].key}
    BY <1>1, <1>2, RangeAppend
  <1>4. Known \subseteq Known' /\ req[h].key \in Known'
    BY <1>1, <1>2, <1>3 DEF Known, Pending, Carried
  <1>5. TypeOK'
    BY <1>1, <1>2 DEF TypeOK, HandlerPC
  <1>6. Exclusive' /\ Created'
    BY <1>1, <1>2 DEF IInv, Exclusive, Created, TypeOK
  <1>7. (KeyAtWork /\ ExecutingBacked /\ CachedBeforeAnnounced)'
    BY <1>2 DEF IInv, KeyAtWork, ExecutingBacked, CachedBeforeAnnounced
  <1>8. FrontInv'
    BY <1>1, <1>2 DEF FrontInv
  <1>9. QueuedBacked'
    BY <1>2, <1>3 DEF IInv, QueuedBacked
  <1>10. Started'
    BY <1>1, <1>2, <1>4 DEF IInv, Started, TypeOK
  <1>11. AcceptedNotLost'
    BY <1>2, <1>4, AcceptedKept DEF IInv
  <1>12. QED
    BY <1>4, <1>5, <1>6, <1>7, <1>8, <1>9, <1>10, <1>11 DEF IInv

LEMMA StartNotifyKeeps ==
    ASSUME IInv, NEW h \in Handlers, StartNotify(h)
    PROVE  IInv' /\ Known \subseteq Known'
  <1>1. TypeOK /\ req[h].key \in Known /\ hpc[h] = "s_notify"
    BY DEF IInv, Started, StartNotify
  <1>2. /\ hpc' = [hpc EXCEPT ![h] = "done"]
        /\ hreply' = [hreply EXCEPT ![h] = Append(@, "ok")]
        /\ UNCHANGED <<req, size, wkey, queue, queued, executing, cache, chunkCond>>
    BY DEF StartNotify, Finish, Reply, Goto, storeVars
  <1>3. \A w \in Workers : wpc'[w] = wpc[w] \/ (wpc[w] = "waiting" /\ wpc'[w] = "woken")
    BY DEF StartNotify
  <1>4. TypeOK'
    <2>1. hreply' \in [Handlers -> Seq(Replies)]
      BY <1>1, <1>2 DEF TypeOK, Replies
    <2>2. wpc' \in [Workers -> WorkerPC]
      BY <1>1 DEF StartNotify, TypeOK, WorkerPC
    <2>3. QED  BY <1>1, <1>2, <2>1, <2>2 DEF TypeOK, HandlerPC
  <1>5. Known' = Known
    <2>1. \A k \in Keys : Carried(k)' <=> Carried(k)
      BY <1>2, <1>3 DEF Carried
    <2>2. QED  BY <1>2, <2>1 DEF Known, Pending
  <1>6. Exclusive' /\ Created'
    BY <1>1, <1>2, <1>3 DEF IInv, Exclusive, Created, TypeOK, InRequests
  <1>7. (KeyAtWork /\ FrontInv /\ CachedBeforeAnnounced)'
    BY <1>2, <1>3 DEF IInv, KeyAtWork, FrontInv, CachedBeforeAnnounced, AtWork
  <1>8. (QueuedBacked /\ ExecutingBacked)'
    BY <1>2, <1>3 DEF IInv, QueuedBacked, ExecutingBacked
  <1>9. Started'
    BY <1>1, <1>2, <1>5 DEF IInv, Started, TypeOK
  <1>10. AcceptedNotLost'
    BY <1>1, <1>2, <1>5 DEF IInv, AcceptedNotLost, Known, TypeOK
  <1>11. QED
    BY <1>4, <1>5, <1>6, <1>7, <1>8, <1>9, <1>10 DEF IInv

LEMMA DownloadWaitKeeps ==
    ASSUME IInv, NEW h \in Handlers, DownloadWait(h)
    PROVE  IInv' /\ Known \subseteq Known'
  <1>1. TypeOK /\ req[h].key \in Keys
    BY DEF IInv, TypeOK
  <1>2. /\ hpc[h] = "d_wait" /\ hpc' = [hpc EXCEPT ![h] = "d_waiting"]
        /\ chunkCond' = chunkCond \cup {req[h].key}
        /\ UNCHANGED <<req, hreply, size, wpc, wkey, queue, queued, executing, cache>>
    BY DEF DownloadWait, Goto, workerVars
  <1>3. Known' = Known
    BY <1>2 DEF Known, Pending, Carried
  <1>4. TypeOK'
    BY <1>1, <1>2 DEF TypeOK, HandlerPC
  <1>5. Exclusive' /\ Created'
    BY <1>1, <1>2 DEF IInv, Exclusive, Created, TypeOK
  <1>6. (KeyAtWork /\ FrontInv /\ QueuedBacked /\ ExecutingBacked /\ CachedBeforeAnnounced)'
    BY <1>2 DEF IInv, KeyAtWork, FrontInv, QueuedBacked, ExecutingBacked, CachedBeforeAnnounced
  <1>7. Started'
    BY <1>1, <1>2, <1>3 DEF IInv, Started, TypeOK
  <1>8. AcceptedNotLost'
    BY <1>2, <1>3, AcceptedKept DEF IInv
  <1>9. QED
    BY <1>3, <1>4, <1>5, <1>6, <1>7, <1>8 DEF IInv

-------------------------------------------------------------------------------
\* The steps of a worker.

\* A worker that only moves on, with the same key, keeps the invariant if the
\* move respects the mutex of the list, and claims nothing new about its key.
LEMMA WorkerMove ==
    ASSUME IInv, NEW w \in Workers, NEW l \in WorkerPC,
           wpc' = [wpc EXCEPT ![w] = l],
           UNCHANGED <<req, hreply, size, wkey, storeVars>>,
           \A h \in Handlers : hpc'[h] = hpc[h] \/ (hpc[h] = "d_waiting" /\ hpc'[h] = "d_loop"),
           hpc' \in [Handlers -> HandlerPC],
           wpc[w] # "none",
           l \in InRequests => wpc[w] \in InRequests \/ ~RequestsHeld,
           l \in {"lockexec", "take"} => queue # <<>>,
           l \in AtWork => wpc[w] \in AtWork,
           wpc[w] \in Held => l \in Held \/ wkey[w] \in cache,
           wpc[w] \in Reading => l \in Reading,
           l \in {"erase", "erasing", "notify"} => wkey[w] \in cache
    PROVE  IInv' /\ Known \subseteq Known'
  <1>1. TypeOK
    BY DEF IInv
  <1>2. /\ wpc'[w] = l
        /\ \A v \in Workers \ {w} : wpc'[v] = wpc[v]
        /\ UNCHANGED <<queue, queued, executing, cache, chunkCond>>
    BY <1>1 DEF TypeOK, storeVars
  <1>3. Known \subseteq Known'
    <2>1. \A k \in Keys : Carried(k) => Carried(k)' \/ k \in cache
      BY <1>2 DEF Carried, Held
    <2>2. QED  BY <1>2, <2>1 DEF Known, Pending
  <1>4. TypeOK'
    BY <1>1, <1>2 DEF TypeOK
  <1>5. Exclusive'
    BY <1>1, <1>2 DEF IInv, Exclusive, TypeOK, InRequests, RequestsHeld
  <1>6. Created'
    BY <1>1, <1>2 DEF IInv, Created, TypeOK
  <1>7. (KeyAtWork /\ FrontInv /\ CachedBeforeAnnounced)'
    BY <1>2 DEF IInv, KeyAtWork, FrontInv, CachedBeforeAnnounced
  <1>8. QueuedBacked'
    BY <1>2 DEF IInv, QueuedBacked
  <1>9. ExecutingBacked'
    BY <1>2 DEF IInv, ExecutingBacked, Reading
  <1>10. Started'
    <2>1. ASSUME NEW h \in Handlers
          PROVE  /\ hpc'[h] = "s_notify" => req[h].key \in Known'
                 /\ req[h].kind = "start" => hpc'[h] = hpc[h]
      BY <1>3, <2>1 DEF IInv, Started
    <2>2. QED  BY <2>1 DEF IInv, Started
  <1>11. AcceptedNotLost'
    BY <1>3, AcceptedKept DEF IInv
  <1>12. QED
    BY <1>3, <1>4, <1>5, <1>6, <1>7, <1>8, <1>9, <1>10, <1>11 DEF IInv

\* The steps of a worker that lock, test, read, wait or wake up.
LEMMA WorkerQuietSteps ==
    ASSUME IInv, NEW w \in Workers,
           \/ WorkerLockPush(w) \/ WorkerLock(w) \/ WorkerHead(w)
           \/ WorkerLockExec(w) \/ WorkerRead(w) \/ WorkerAdd(w)
           \/ WorkerLockErase(w) \/ WorkerWait(w) \/ WorkerWoken(w) \/ WorkerSpurious(w)
    PROVE  IInv' /\ Known \subseteq Known'
  <1>1. TypeOK /\ FrontInv /\ CachedBeforeAnnounced
    BY DEF IInv
  <1>2. /\ UNCHANGED <<req, hreply, size, wkey, storeVars>>
        /\ UNCHANGED hpc
    BY DEF WorkerLockPush, WorkerLock, WorkerHead, WorkerLockExec, WorkerRead, WorkerAdd,
           WorkerLockErase, WorkerWait, WorkerWoken, WorkerSpurious, handlerVars
  <1>3. PICK l \in WorkerPC :
          /\ wpc' = [wpc EXCEPT ![w] = l]
          /\ wpc[w] # "none"
          /\ l \in InRequests => wpc[w] \in InRequests \/ ~RequestsHeld
          /\ l \in {"lockexec", "take"} => queue # <<>>
          /\ l \in AtWork => wpc[w] \in AtWork
          /\ wpc[w] \in Held => l \in Held \/ wkey[w] \in cache
          /\ wpc[w] \in Reading => l \in Reading
          /\ l \in {"erase", "erasing", "notify"} => wkey[w] \in cache
    <2>1. CASE WorkerLockPush(w) \/ WorkerLock(w) \/ WorkerHead(w) \/ WorkerLockExec(w)
      BY <1>1, <2>1
         DEF WorkerLockPush, WorkerLock, WorkerHead, WorkerLockExec, Move, WorkerPC,
             InRequests, AtWork, Held, Reading, FrontInv
    <2>2. CASE WorkerRead(w) \/ WorkerAdd(w) \/ WorkerLockErase(w)
      BY <1>1, <2>2
         DEF WorkerRead, WorkerAdd, WorkerLockErase, Move, WorkerPC, InRequests, AtWork,
             Held, Reading, CachedBeforeAnnounced
    <2>3. CASE WorkerWait(w) \/ WorkerWoken(w) \/ WorkerSpurious(w)
      BY <2>3
         DEF WorkerWait, WorkerWoken, WorkerSpurious, Move, WorkerPC, InRequests, AtWork,
             Held, Reading
    <2>4. QED  BY <2>1, <2>2, <2>3
  <1>4. hpc' \in [Handlers -> HandlerPC]
    BY <1>1, <1>2 DEF TypeOK
  <1>5. QED
    BY <1>2, <1>3, <1>4, WorkerMove

LEMMA WorkerPushKeeps ==
    ASSUME IInv, NEW w \in Workers, WorkerPush(w)
    PROVE  IInv' /\ Known \subseteq Known'
  <1>1. TypeOK /\ wpc[w] = "pushing" /\ wkey[w] \in Keys
    BY DEF IInv, WorkerPush, Move, KeyAtWork, AtWork
  <1>2. /\ wpc'[w] = "lock" /\ wkey'[w] = NoKey
        /\ \A v \in Workers \ {w} : wpc'[v] = wpc[v] /\ wkey'[v] = wkey[v]
        /\ queue' = Append(queue, wkey[w])
        /\ queued' = queued \cup {wkey[w]}
        /\ UNCHANGED <<req, hpc, hreply, size, executing, cache, chunkCond>>
    BY <1>1 DEF WorkerPush, Move, TypeOK, handlerVars
  <1>3. Range(queue') = Range(queue) \cup {wkey[w]}
    BY <1>1, <1>2, RangeAppend DEF TypeOK
  <1>4. Known \subseteq Known'
    <2>1. \A k \in Keys : Carried(k) => Carried(k)' \/ k = wkey[w]
      BY <1>2 DEF Carried
    <2>2. QED  BY <1>1, <1>2, <1>3, <2>1 DEF Known, Pending
  <1>5. TypeOK'
    BY <1>1, <1>2 DEF TypeOK, WorkerPush, Move, WorkerPC
  <1>6. Exclusive' /\ Created'
    BY <1>1, <1>2 DEF IInv, Exclusive, Created, TypeOK, InRequests
  <1>7. (KeyAtWork /\ CachedBeforeAnnounced)'
    BY <1>2 DEF IInv, KeyAtWork, CachedBeforeAnnounced, AtWork
  <1>8. FrontInv'
    BY <1>1, <1>2 DEF FrontInv, TypeOK
  <1>9. QueuedBacked'
    BY <1>2, <1>3 DEF IInv, QueuedBacked
  <1>10. ExecutingBacked'
    BY <1>1, <1>2 DEF IInv, ExecutingBacked
  <1>11. Started'
    BY <1>2, <1>4 DEF IInv, Started
  <1>12. AcceptedNotLost'
    BY <1>2, <1>4, AcceptedKept DEF IInv
  <1>13. QED
    BY <1>4, <1>5, <1>6, <1>7, <1>8, <1>9, <1>10, <1>11, <1>12 DEF IInv

LEMMA WorkerTakeKeeps ==
    ASSUME IInv, NEW w \in Workers, WorkerTake(w)
    PROVE  IInv' /\ Known \subseteq Known'
  <1> DEFINE front == Head(queue)
  <1>1. TypeOK /\ wpc[w] = "take" /\ queue # <<>> /\ queue \in Seq(Keys)
    BY DEF IInv, WorkerTake, Move, FrontInv, TypeOK
  <1>2. /\ front \in Keys
        /\ Tail(queue) \in Seq(Keys)
        /\ Range(queue) = Range(Tail(queue)) \cup {front}
    BY <1>1, RangeTail
  <1>3. /\ wpc'[w] = "read" /\ wkey'[w] = front
        /\ \A v \in Workers \ {w} : wpc'[v] = wpc[v] /\ wkey'[v] = wkey[v]
        /\ queue' = Tail(queue)
        /\ queued' = queued \ {front}
        /\ executing' = executing \cup {front}
        /\ UNCHANGED <<req, hpc, hreply, size, cache, chunkCond>>
    BY <1>1 DEF WorkerTake, Move, TypeOK, handlerVars
  <1> HIDE DEF front
  <1>4. Known \subseteq Known'
    <2>1. \A k \in Keys : Carried(k) => Carried(k)'
      BY <1>1, <1>3 DEF Carried
    <2>2. \A k \in Keys : k = front => Carried(k)'
      BY <1>3 DEF Carried
    <2>3. QED  BY <1>1, <1>2, <1>3, <2>1, <2>2 DEF Known, Pending
  <1>5. TypeOK'
    BY <1>1, <1>2, <1>3 DEF TypeOK, WorkerTake, Move, WorkerPC, front
  <1>6. Exclusive' /\ Created'
    BY <1>1, <1>3 DEF IInv, Exclusive, Created, TypeOK, InRequests
  <1>7. (KeyAtWork /\ CachedBeforeAnnounced)'
    BY <1>2, <1>3 DEF IInv, KeyAtWork, CachedBeforeAnnounced
  <1>8. FrontInv'
    BY <1>1, <1>3 DEF IInv, FrontInv, Exclusive, InRequests
  <1>9. QueuedBacked'
    BY <1>2, <1>3 DEF IInv, QueuedBacked
  <1>10. ExecutingBacked'
    BY <1>1, <1>3 DEF IInv, ExecutingBacked
  <1>11. Started'
    BY <1>3, <1>4 DEF IInv, Started
  <1>12. AcceptedNotLost'
    BY <1>3, <1>4, AcceptedKept DEF IInv
  <1>13. QED
    BY <1>4, <1>5, <1>6, <1>7, <1>8, <1>9, <1>10, <1>11, <1>12 DEF IInv

LEMMA WorkerAddedKeeps ==
    ASSUME IInv, NEW w \in Workers, WorkerAdded(w)
    PROVE  IInv' /\ Known \subseteq Known'
  <1>1. TypeOK /\ wpc[w] = "adding" /\ wkey[w] \in Keys
    BY DEF IInv, WorkerAdded, Move, KeyAtWork, AtWork
  <1>2. /\ wpc'[w] = "erase" /\ \A v \in Workers \ {w} : wpc'[v] = wpc[v]
        /\ cache' = cache \cup {wkey[w]}
        /\ UNCHANGED <<req, hpc, hreply, size, wkey, queue, queued, executing, chunkCond>>
    BY <1>1 DEF WorkerAdded, Move, TypeOK, handlerVars
  <1>3. Known \subseteq Known'
    <2>1. \A k \in Keys : Carried(k) => Carried(k)' \/ k = wkey[w]
      BY <1>2 DEF Carried
    <2>2. QED  BY <1>1, <1>2, <2>1 DEF Known, Pending
  <1>4. TypeOK'
    BY <1>1, <1>2 DEF TypeOK, WorkerAdded, Move, WorkerPC
  <1>5. Exclusive' /\ Created'
    BY <1>1, <1>2 DEF IInv, Exclusive, Created, TypeOK, InRequests
  <1>6. (KeyAtWork /\ CachedBeforeAnnounced)'
    BY <1>1, <1>2 DEF IInv, KeyAtWork, CachedBeforeAnnounced
  <1>7. (FrontInv /\ QueuedBacked)'
    BY <1>2 DEF IInv, FrontInv, QueuedBacked
  <1>8. ExecutingBacked'
    BY <1>1, <1>2 DEF IInv, ExecutingBacked
  <1>9. Started'
    BY <1>2, <1>3 DEF IInv, Started
  <1>10. AcceptedNotLost'
    BY <1>2, <1>3, AcceptedKept DEF IInv
  <1>11. QED
    BY <1>3, <1>4, <1>5, <1>6, <1>7, <1>8, <1>9, <1>10 DEF IInv

LEMMA WorkerEraseKeeps ==
    ASSUME IInv, NEW w \in Workers, WorkerErase(w)
    PROVE  IInv' /\ Known \subseteq Known'
  <1>1. TypeOK /\ wpc[w] = "erasing" /\ wkey[w] \in cache
    BY DEF IInv, WorkerErase, Move, CachedBeforeAnnounced
  <1>2. /\ wpc'[w] = "notify" /\ \A v \in Workers \ {w} : wpc'[v] = wpc[v]
        /\ executing' = executing \ {wkey[w]}
        /\ UNCHANGED <<req, hpc, hreply, size, wkey, queue, queued, cache, chunkCond>>
    BY <1>1 DEF WorkerErase, Move, TypeOK, handlerVars
  <1>3. Known' = Known
    <2>1. \A k \in Keys : Carried(k) <=> Carried(k)'
      BY <1>1, <1>2 DEF Carried
    <2>2. QED  BY <1>2, <2>1 DEF Known, Pending
  <1>4. TypeOK'
    BY <1>1, <1>2 DEF TypeOK, WorkerErase, Move, WorkerPC
  <1>5. Exclusive' /\ Created'
    BY <1>1, <1>2 DEF IInv, Exclusive, Created, TypeOK, InRequests
  <1>6. (KeyAtWork /\ CachedBeforeAnnounced)'
    BY <1>1, <1>2 DEF IInv, KeyAtWork, CachedBeforeAnnounced, AtWork
  <1>7. (FrontInv /\ QueuedBacked)'
    BY <1>2 DEF IInv, FrontInv, QueuedBacked
  <1>8. ExecutingBacked'
    BY <1>1, <1>2 DEF IInv, ExecutingBacked
  <1>9. Started'
    BY <1>2, <1>3 DEF IInv, Started
  <1>10. AcceptedNotLost'
    BY <1>2, <1>3, AcceptedKept DEF IInv
  <1>11. QED
    BY <1>3, <1>4, <1>5, <1>6, <1>7, <1>8, <1>9, <1>10 DEF IInv

LEMMA WorkerNotifyKeeps ==
    ASSUME IInv, NEW w \in Workers, WorkerNotify(w)
    PROVE  IInv' /\ Known \subseteq Known'
  <1>1. TypeOK /\ wpc[w] = "notify"
    BY DEF IInv, WorkerNotify, Move
  <1>2. /\ wpc'[w] = "lock" /\ wkey'[w] = NoKey
        /\ \A v \in Workers \ {w} : wpc'[v] = wpc[v] /\ wkey'[v] = wkey[v]
        /\ UNCHANGED <<req, hreply, size, queue, queued, executing, cache, chunkCond>>
    BY <1>1 DEF WorkerNotify, Move, TypeOK, storeVars
  <1>3. /\ hpc' \in [Handlers -> HandlerPC]
        /\ \A h \in Handlers : hpc'[h] = hpc[h] \/ (hpc[h] = "d_waiting" /\ hpc'[h] = "d_loop")
    BY <1>1 DEF WorkerNotify, Notified, TypeOK, HandlerPC
  <1>4. Known' = Known
    <2>1. \A k \in Keys : Carried(k) <=> Carried(k)'
      BY <1>1, <1>2 DEF Carried
    <2>2. QED  BY <1>2, <2>1 DEF Known, Pending
  <1>5. TypeOK'
    BY <1>1, <1>2, <1>3 DEF TypeOK, WorkerNotify, Move, WorkerPC
  <1>6. Exclusive' /\ Created'
    BY <1>1, <1>2, <1>3 DEF IInv, Exclusive, Created, TypeOK, InRequests
  <1>7. (KeyAtWork /\ CachedBeforeAnnounced)'
    BY <1>1, <1>2 DEF IInv, KeyAtWork, CachedBeforeAnnounced, AtWork
  <1>8. (FrontInv /\ QueuedBacked)'
    BY <1>2 DEF IInv, FrontInv, QueuedBacked
  <1>9. ExecutingBacked'
    BY <1>1, <1>2 DEF IInv, ExecutingBacked
  <1>10. Started'
    <2>1. ASSUME NEW h \in Handlers
          PROVE  /\ hpc'[h] = "s_notify" => req[h].key \in Known'
                 /\ req[h].kind = "start" => hpc'[h] = hpc[h]
      BY <1>3, <1>4, <2>1 DEF IInv, Started
    <2>2. QED  BY <1>2, <2>1 DEF IInv, Started
  <1>11. AcceptedNotLost'
    BY <1>2, <1>4, AcceptedKept DEF IInv
  <1>12. QED
    BY <1>4, <1>5, <1>6, <1>7, <1>8, <1>9, <1>10, <1>11 DEF IInv

-------------------------------------------------------------------------------
\* The invariant holds initially and is kept by every step, and no step makes
\* the server forget a chunk.

LEMMA InitIInv == Init => IInv
  BY ServerAssumption
     DEF Init, IInv, TypeOK, Exclusive, Created, KeyAtWork, FrontInv, QueuedBacked,
         ExecutingBacked, CachedBeforeAnnounced, Started, AcceptedNotLost, InRequests,
         AtWork, HandlerPC, WorkerPC, Workers

LEMMA NextIInv == IInv /\ [Next]_vars => IInv' /\ Known \subseteq Known'
  <1> SUFFICES ASSUME IInv, [Next]_vars
               PROVE  IInv' /\ Known \subseteq Known'
    OBVIOUS
  <1>1. ASSUME NEW h \in Handlers, HandlerStep(h) \/ DownloadSpurious(h)
        PROVE  IInv' /\ Known \subseteq Known'
    <2>1. CASE QuietHandlerStep(h)
      BY <2>1, HandlerQuietSteps
    <2>2. CASE StartSpawn(h)
      BY <2>2, StartSpawnKeeps
    <2>3. CASE StartPush(h)
      BY <2>3, StartPushKeeps
    <2>4. CASE StartNotify(h)
      BY <2>4, StartNotifyKeeps
    <2>5. CASE DownloadWait(h)
      BY <2>5, DownloadWaitKeeps
    <2>6. QED
      BY <1>1, <2>1, <2>2, <2>3, <2>4, <2>5 
         DEF HandlerStep, StartStep, DownloadStep, QuietHandlerStep
  <1>2. ASSUME NEW w \in Workers, WorkerStep(w) \/ WorkerSpurious(w)
        PROVE  IInv' /\ Known \subseteq Known'
    <2>1. CASE \/ WorkerLockPush(w) \/ WorkerLock(w) \/ WorkerHead(w)
               \/ WorkerLockExec(w) \/ WorkerRead(w) \/ WorkerAdd(w)
               \/ WorkerLockErase(w) \/ WorkerWait(w) \/ WorkerWoken(w) \/ WorkerSpurious(w)
      BY <2>1, WorkerQuietSteps
    <2>2. CASE WorkerPush(w)
      BY <2>2, WorkerPushKeeps
    <2>3. CASE WorkerTake(w)
      BY <2>3, WorkerTakeKeeps
    <2>4. CASE WorkerAdded(w)
      BY <2>4, WorkerAddedKeeps
    <2>5. CASE WorkerErase(w)
      BY <2>5, WorkerEraseKeeps
    <2>6. CASE WorkerNotify(w)
      BY <2>6, WorkerNotifyKeeps
    <2>7. QED
      BY <1>2, <2>1, <2>2, <2>3, <2>4, <2>5, <2>6 DEF WorkerStep
  <1>3. CASE UNCHANGED vars
    BY <1>3
       DEF vars, handlerVars, workerVars, storeVars, IInv, TypeOK, Exclusive, Created,
           KeyAtWork, FrontInv, QueuedBacked, ExecutingBacked, CachedBeforeAnnounced,
           Started, AcceptedNotLost, Known, Pending, Carried
  <1>4. QED
    BY <1>1, <1>2, <1>3 DEF Next

\* The server keeps the invariant, whatever requests arrive.
THEOREM Invariance == Spec => []IInv
  BY InitIInv, NextIInv, PTL DEF Spec

\* The state of the server is well-formed; in particular no more worker threads
\* are created than configured.
THEOREM TypeCorrect == Spec => []TypeOK
  <1>1. IInv => TypeOK
    BY DEF IInv
  <1>2. QED  BY <1>1, Invariance, PTL

\* A chunk whose start request was answered with OK is never lost.
THEOREM AcceptedStarts == Spec => []AcceptedNotLost
  <1>1. IInv => AcceptedNotLost
    BY DEF IInv
  <1>2. QED  BY <1>1, Invariance, PTL

\* What the handlers find in the set of requests is in the list that workers take from.
THEOREM QueueBacksSet == Spec => []QueuedBacked
  <1>1. IInv => QueuedBacked
    BY DEF IInv
  <1>2. QED  BY <1>1, Invariance, PTL

\* What they find in the set of chunks that are read is being read by a worker.
THEOREM WorkerBacksSet == Spec => []ExecutingBacked
  <1>1. IInv => ExecutingBacked
    BY DEF IInv
  <1>2. QED  BY <1>1, Invariance, PTL

\* A chunk that a worker has taken off the set, or announces, is in the cache.
THEOREM AnnouncedIsCached == Spec => []CachedBeforeAnnounced
  <1>1. IInv => CachedBeforeAnnounced
    BY DEF IInv
  <1>2. QED  BY <1>1, Invariance, PTL

\* front() and pop_front() never meet an empty list.
THEOREM FrontAlwaysExists == Spec => []FrontExists
  <1>1. IInv => FrontExists
    BY DEF IInv, FrontInv, FrontExists
  <1>2. QED  BY <1>1, Invariance, PTL

-------------------------------------------------------------------------------
\* The server implements ChunkService.  A key is pending as long as it is in the list or
\* a worker carries it, so only these steps of a thread are steps of the service.

\* Pending, when one worker goes on and the list stays as it is.
LEMMA PendingOf ==
    ASSUME IInv, NEW w \in Workers, queue' = queue, wkey' = wkey,
           NEW here, NEW there, Move(w, here, there)
    PROVE  /\ (here \in Held <=> there \in Held) => Pending' = Pending
           /\ here \in Held /\ there \notin Held => Pending' \in {Pending, Pending \ {wkey[w]}}
  <1>1. wpc[w] = here /\ wpc'[w] = there /\ \A v \in Workers : v # w => wpc'[v] = wpc[v]
    BY DEF Move, IInv, TypeOK
  <1>2. \A k \in Keys : k # wkey[w] => (Carried(k)' <=> Carried(k))
    BY <1>1 DEF Carried
  <1>3. (here \in Held <=> there \in Held) => \A k \in Keys : Carried(k)' <=> Carried(k)
    BY <1>1 DEF Carried, Held
  <1>4. here \in Held => Carried(wkey[w])
    BY <1>1 DEF Carried, Held
  <1>5. CASE here \in Held <=> there \in Held
    BY <1>3, <1>5 DEF Pending
  <1>6. CASE here \in Held /\ there \notin Held
    <2>1. Pending \ {wkey[w]} = Pending' \ {wkey[w]}
      BY <1>2 DEF Pending
    <2>2. wkey[w] \in Keys => wkey[w] \in Pending
      BY <1>4, <1>6 DEF Pending
    <2>3. Pending' \subseteq Keys /\ Pending \subseteq Keys
      BY DEF Pending
    <2> QED BY <1>6, <2>1, <2>2, <2>3
  <1>7. QED  BY <1>5, <1>6

ServiceKept == Pending' = Pending /\ cache' = cache

\* No step of a handler but those that accept a key concerns the service.
LEMMA HandlerServes ==
    ASSUME IInv, NEW h \in Handlers, HandlerStep(h) \/ DownloadSpurious(h)
    PROVE  ServiceKept \/ Service!Request(req[h].key)
  <1>1. req[h].key \in Keys /\ wpc \in [Workers -> WorkerPC] /\ wkey \in [Workers -> Keys \cup {NoKey}]
    BY DEF IInv, TypeOK
  <1>2. CASE QuietHandlerStep(h)
    <2>1. queue' = queue /\ wpc' = wpc /\ wkey' = wkey /\ cache' = cache
      BY <1>2
         DEF QuietHandlerStep, Arrive, StartHas, StartQueued, StartExec, StartLockThreads,
             StartSize, StartLockCond, DownloadHas, DownloadQueued, DownloadExec, DownloadLoop,
             DownloadGet, DownloadSpurious, StatusStep, StatusHas, StatusExec, StatusQueued,
             Search, SearchReply, SearchLast, workerVars, storeVars
    <2>2. QED  BY <2>1 DEF ServiceKept, Pending, Carried
  <1>3. CASE DownloadWait(h)
    BY <1>3 DEF DownloadWait, ServiceKept, Pending, Carried, workerVars
  <1>4. CASE StartSpawn(h)
    <2>0. size + 1 \in Workers /\ wpc[size + 1] = "none"
      BY <1>4, ServerAssumption DEF StartSpawn, IInv, TypeOK, Created, Workers
    <2>1. /\ size + 1 \in Workers /\ wpc[size + 1] = "none"
          /\ wpc'[size + 1] = "push" /\ wkey'[size + 1] = req[h].key
          /\ \A v \in Workers : v # size + 1 => wpc'[v] = wpc[v] /\ wkey'[v] = wkey[v]
      BY <1>1, <1>4, <2>0 DEF StartSpawn
    <2>2. cache' = cache /\ queue' = queue
      BY <1>4 DEF StartSpawn, storeVars
    <2>3. \A k \in Keys : Carried(k)' <=> Carried(k) \/ k = req[h].key
      BY <2>1 DEF Carried
    <2>4. Pending' = Pending \cup {req[h].key}
      BY <1>1, <2>2, <2>3 DEF Pending
    <2>5. QED  BY <2>2, <2>4 DEF Service!Request
  <1>5. CASE StartPush(h)
    <2>1. wpc' = wpc /\ wkey' = wkey /\ cache' = cache
      BY <1>5 DEF StartPush, workerVars
    <2>2. Range(queue') = Range(queue) \cup {req[h].key}
      BY <1>1, <1>5, RangeAppend DEF StartPush, IInv, TypeOK
    <2>3. Pending' = Pending \cup {req[h].key}
      BY <1>1, <2>1, <2>2 DEF Pending, Carried
    <2>4. QED  BY <2>1, <2>3 DEF Service!Request
  <1>6. CASE StartNotify(h)
    <2>1. queue' = queue /\ wkey' = wkey /\ cache' = cache
      BY <1>6 DEF StartNotify, storeVars
    <2>2. \A w \in Workers : wpc'[w] \in Held <=> wpc[w] \in Held
      BY <1>6 DEF StartNotify, Held
    <2>3. QED  BY <2>1, <2>2 DEF ServiceKept, Pending, Carried, Held
  <1>7. QED
    BY <1>2, <1>3, <1>4, <1>5, <1>6
       DEF HandlerStep, StartStep, DownloadStep, QuietHandlerStep

\* Nor a step of a worker but those that give a key to the cache or find it there.
LEMMA WorkerServes ==
    ASSUME IInv, NEW w \in Workers, WorkerStep(w) \/ WorkerSpurious(w)
    PROVE  ServiceKept \/ Service!Finish(wkey[w])
  <1>1. /\ wpc \in [Workers -> WorkerPC] /\ wkey \in [Workers -> Keys \cup {NoKey}]
        /\ queue \in Seq(Keys) /\ NoKey \notin Keys
        /\ wpc[w] \in AtWork => wkey[w] \in Keys
    BY ServerAssumption DEF IInv, TypeOK, KeyAtWork
  <1>2. CASE \/ WorkerLockPush(w) \/ WorkerLock(w) \/ WorkerHead(w) \/ WorkerLockExec(w)
             \/ WorkerRead(w) \/ WorkerLockErase(w) \/ WorkerErase(w) \/ WorkerWait(w)
             \/ WorkerWoken(w) \/ WorkerSpurious(w)
    <2>1. queue' = queue /\ wkey' = wkey /\ cache' = cache
      BY <1>2
         DEF WorkerLockPush, WorkerLock, WorkerHead, WorkerLockExec, WorkerRead,
             WorkerLockErase, WorkerErase, WorkerWait, WorkerWoken, WorkerSpurious, storeVars
    <2>2. \A v \in Workers : wpc'[v] \in Held <=> wpc[v] \in Held
      BY <1>1, <1>2
         DEF WorkerLockPush, WorkerLock, WorkerHead, WorkerLockExec, WorkerRead,
             WorkerLockErase, WorkerErase, WorkerWait, WorkerWoken, WorkerSpurious, Move, Held
    <2>3. QED  BY <2>1, <2>2 DEF ServiceKept, Pending, Carried, Held
  <1>3. CASE WorkerPush(w)
    <2>1. /\ wpc[w] = "pushing" /\ wpc'[w] = "lock" /\ wkey'[w] = NoKey /\ cache' = cache
          /\ \A v \in Workers : v # w => wpc'[v] = wpc[v] /\ wkey'[v] = wkey[v]
          /\ queue' = Append(queue, wkey[w]) /\ wkey[w] \in Keys
      BY <1>1, <1>3 DEF WorkerPush, Move, AtWork
    <2>2. Range(queue') = Range(queue) \cup {wkey[w]}
      BY <1>1, <2>1, RangeAppend
    <2>3. \A k \in Keys : k # wkey[w] => (Carried(k)' <=> Carried(k))
      BY <1>1, <2>1 DEF Carried
    <2>4. Carried(wkey[w])
      BY <2>1 DEF Carried
    <2>5. Pending' = Pending
      BY <2>1, <2>2, <2>3, <2>4 DEF Pending
    <2>6. QED  BY <2>1, <2>5 DEF ServiceKept
  <1>4. CASE WorkerTake(w)
    <2>1. /\ wpc[w] = "take" /\ wpc'[w] = "read" /\ wkey'[w] = Head(queue) /\ cache' = cache
          /\ \A v \in Workers : v # w => wpc'[v] = wpc[v] /\ wkey'[v] = wkey[v]
          /\ queue' = Tail(queue) /\ queue # <<>>
      BY <1>1, <1>4 DEF WorkerTake, Move, IInv, FrontInv
    <2>2. Range(queue) = Range(queue') \cup {Head(queue)} /\ Head(queue) \in Keys
      BY <1>1, <2>1, RangeTail
    <2>3. \A k \in Keys : Carried(k)' <=> Carried(k) \/ k = Head(queue)
      BY <2>1 DEF Carried
    <2>4. Pending' = Pending
      BY <2>2, <2>3 DEF Pending
    <2>5. QED  BY <2>1, <2>4 DEF ServiceKept
  <1>5. CASE WorkerAdd(w)
    <2>1. queue' = queue /\ wkey' = wkey /\ cache' = cache /\ wkey[w] \in Keys
      BY <1>1, <1>5 DEF WorkerAdd, Move, AtWork, storeVars
    <2>2. CASE wkey[w] \in cache /\ Move(w, "add", "erase")
      <3>1. Pending' \in {Pending, Pending \ {wkey[w]}}
        BY <2>1, <2>2, PendingOf DEF Held
      <3>2. wkey[w] \in Pending
        BY <2>1, <2>2 DEF Pending, Carried, Move
      <3>3. QED  BY <2>1, <2>2, <3>1, <3>2 DEF Service!Finish
    <2>3. CASE Move(w, "add", "adding")
      <3>1. Pending' = Pending
        BY <2>1, <2>3, PendingOf DEF Held
      <3>2. QED  BY <2>1, <3>1 DEF ServiceKept
    <2>4. QED  BY <1>5, <2>2, <2>3 DEF WorkerAdd
  <1>6. CASE WorkerAdded(w)
    <2>1. /\ queue' = queue /\ wkey' = wkey /\ cache' = cache \cup {wkey[w]} /\ wkey[w] \in Keys
          /\ Move(w, "adding", "erase")
      BY <1>1, <1>6 DEF WorkerAdded, Move, AtWork
    <2>2. Pending' \in {Pending, Pending \ {wkey[w]}}
      BY <2>1, PendingOf DEF Held
    <2>3. wkey[w] \in Pending
      BY <2>1 DEF Pending, Carried, Move
    <2>4. QED  BY <2>1, <2>2, <2>3 DEF Service!Finish
  <1>7. CASE WorkerNotify(w)
    <2>1. /\ queue' = queue /\ cache' = cache /\ wpc[w] = "notify" /\ wpc'[w] = "lock"
          /\ \A v \in Workers : v # w => wpc'[v] = wpc[v] /\ wkey'[v] = wkey[v]
      BY <1>1, <1>7 DEF WorkerNotify, Move, storeVars
    <2>2. \A k \in Keys : Carried(k)' <=> Carried(k)
      BY <2>1 DEF Carried
    <2>3. QED  BY <2>1, <2>2 DEF ServiceKept, Pending
  <1>8. QED
    BY <1>2, <1>3, <1>4, <1>5, <1>6, <1>7 DEF WorkerStep

\* The server, with its threads, list, sets and condition variables, implements the
\* service: nothing is read that was not asked for, and nothing asked for or read is lost.
THEOREM Implements == Spec => ServicePromise
  <1>1. Init => Service!ServiceInit
    <2>1. SUFFICES ASSUME Init PROVE Pending = {} /\ cache = {}
      BY DEF Service!ServiceInit
    <2>2. Range(queue) = {} /\ \A k \in Keys : ~Carried(k)
      BY <2>1 DEF Init, Range, Carried
    <2>3. QED  BY <2>1, <2>2 DEF Init, Pending
  <1>2. IInv /\ [Next]_vars => [Service!ServiceNext]_(Service!serviceVars)
    <2>1. SUFFICES ASSUME IInv, [Next]_vars
                  PROVE  Service!ServiceNext \/ ServiceKept
      BY DEF Service!serviceVars, ServiceKept
    <2>2. CASE UNCHANGED vars
      BY <2>2 DEF vars, workerVars, storeVars, ServiceKept, Pending, Carried
    <2>3. ASSUME NEW h \in Handlers, HandlerStep(h) \/ DownloadSpurious(h)
          PROVE  Service!ServiceNext \/ ServiceKept
      <3>1. req[h].key \in Keys
        BY <2>1 DEF IInv, TypeOK
      <3>2. QED  BY <2>1, <2>3, <3>1, HandlerServes DEF Service!ServiceNext
    <2>4. ASSUME NEW w \in Workers, WorkerStep(w) \/ WorkerSpurious(w)
          PROVE  Service!ServiceNext \/ ServiceKept
      <3>1. Service!Finish(wkey[w]) => wkey[w] \in Keys
        BY DEF Service!Finish, Pending
      <3>2. QED  BY <2>1, <2>4, <3>1, WorkerServes DEF Service!ServiceNext
    <2>5. QED  BY <2>1, <2>2, <2>3, <2>4 DEF Next
  <1>3. QED  BY <1>1, <1>2, Invariance, PTL DEF Spec, ServicePromise, Service!ServiceSpec
===============================================================================
