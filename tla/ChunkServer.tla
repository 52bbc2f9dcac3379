------------------------------ MODULE ChunkServer -----------------------------
(***************************************************************************)
(* gdalcubes_server: the request handlers that start, download and query    *)
(* chunk reads, and the worker threads that execute them.                   *)
(*                                                                          *)
(* A handler is one HTTP request; the listener runs handlers concurrently.  *)
(* A worker is one element of _worker_threads.  Program counters name the   *)
(* point a thread has reached, and a mutex is held exactly by the thread    *)
(* whose program counter is inside its critical section.  The three         *)
(* containers _chunk_read_requests_set, _chunk_read_executing and the cache *)
(* map are searched by handlers without a lock: a search that runs while a  *)
(* worker restructures the container may miss a key that is there.          *)
(*                                                                          *)
(* read_chunk returns a chunk, and the cache has room for every chunk: what *)
(* happens when it has not is the subject of ChunkCache.                    *)
(***************************************************************************)
EXTENDS Naturals, Sequences, Functions

CONSTANTS Handlers,   \* HTTP requests that arrive, one handler execution each
          Keys,       \* the <<cube_id, chunk_id>> pairs requests may name
          Valid,      \* the keys of stored cubes with chunk_id < count_chunks()
          NoKey,      \* no chunk
          MaxWorkers  \* config::get_server_worker_threads_max()

ASSUME ServerAssumption ==
    /\ Valid \subseteq Keys
    /\ NoKey \notin Keys
    /\ MaxWorkers \in Nat

VARIABLES
    req,       \* the request each handler executes
    hpc,       \* where each handler is
    hreply,    \* the replies each handler has sent
    size,      \* _worker_threads.size()
    wpc,       \* where each worker is
    wkey,      \* the chunk a worker was created for or is reading
    queue,     \* _chunk_read_requests
    queued,    \* _chunk_read_requests_set
    executing, \* _chunk_read_executing
    cache,     \* the keys server_chunk_cache::has() finds
    chunkCond  \* the keys of _chunk_cond

handlerVars == <<req, hpc, hreply>>
workerVars  == <<size, wpc, wkey>>
storeVars   == <<queue, queued, executing, cache, chunkCond>>
vars == <<handlerVars, workerVars, storeVars>>

Workers == 1..MaxWorkers
Kinds   == {"start", "download", "status"}
Replies == {"ok", "notfound", "error",
            "finished", "running", "queued", "notrequested"}

HandlerPC == {"arrive", "done",
              "s_has", "s_queued", "s_exec", "s_threads", "s_size", "s_spawn",
              "s_cond", "s_push", "s_notify",
              "d_has", "d_queued", "d_exec", "d_loop", "d_wait", "d_waiting",
              "d_get",
              "q_has", "q_exec", "q_queued"}
WorkerPC  == {"none", "push", "pushing", "lock", "head", "lockexec", "take",
              "read", "add", "adding", "erase", "erasing", "notify",
              "idle", "waiting", "woken"}

-------------------------------------------------------------------------------
\* Mutexes: who is inside the critical section.

RequestsHeld  == \E w \in Workers : wpc[w] \in {"pushing", "head", "lockexec", "take"}
ExecutingHeld == \E w \in Workers : wpc[w] \in {"take", "erasing"}
CacheHeld     == \E w \in Workers : wpc[w] = "adding"
ThreadsHeld   == \E h \in Handlers : hpc[h] \in {"s_size", "s_spawn"}
WorkerCondHeld == \E h \in Handlers : hpc[h] \in {"s_push", "s_notify"}

\* When an unlocked search of the container can race with its modification.
QueuedInFlux    == \E w \in Workers : wpc[w] \in {"pushing", "take"}
ExecutingInFlux == ExecutingHeld
CacheInFlux     == CacheHeld
ChunkCondInFlux == \E h \in Handlers : hpc[h] = "d_wait" /\ req[h].key \notin chunkCond

Misses(k, S, inFlux) == k \notin S \/ inFlux

-------------------------------------------------------------------------------
\* Handlers.

Goto(h, l)  == hpc' = [hpc EXCEPT ![h] = l]
Reply(h, r) == hreply' = [hreply EXCEPT ![h] = Append(@, r)]
Finish(h, r) == Reply(h, r) /\ Goto(h, "done")

\* One unlocked search, which finds the key and goes on at one place or
\* misses it and goes on at another.
Search(h, here, S, inFlux, hit, miss) ==
    /\ hpc[h] = here
    /\ \/ req[h].key \in S /\ Goto(h, hit)
       \/ Misses(req[h].key, S, inFlux) /\ Goto(h, miss)
    /\ UNCHANGED <<req, hreply, workerVars, storeVars>>

\* The same, where finding the key is answered at once.
SearchReply(h, here, S, inFlux, answer, miss) ==
    /\ hpc[h] = here
    /\ \/ req[h].key \in S /\ Finish(h, answer)
       \/ Misses(req[h].key, S, inFlux) /\ Goto(h, miss) /\ UNCHANGED hreply
    /\ UNCHANGED <<req, workerVars, storeVars>>

\* The last search of a chain: both outcomes are answered.
SearchLast(h, here, S, inFlux, answer, otherwise) ==
    /\ hpc[h] = here
    /\ \/ req[h].key \in S /\ Finish(h, answer)
       \/ Misses(req[h].key, S, inFlux) /\ Finish(h, otherwise)
    /\ UNCHANGED <<req, workerVars, storeVars>>

First == [start |-> "s_has", download |-> "d_has", status |-> "q_has"]

\* The cube and the chunk id are checked; a status request goes on after
\* having replied that the chunk does not exist.
Arrive(h) ==
    /\ hpc[h] = "arrive"
    /\ \/ /\ req[h].key \in Valid
          /\ Goto(h, First[req[h].kind])
          /\ UNCHANGED hreply
       \/ /\ req[h].key \notin Valid
          /\ Reply(h, "notfound")
          /\ Goto(h, IF req[h].kind = "status" THEN "q_has" ELSE "done")
    /\ UNCHANGED <<req, workerVars, storeVars>>

\* POST /cube/{cube_id}/{chunk_id}/start

StartHas(h)    == SearchReply(h, "s_has", cache, CacheInFlux, "ok", "s_queued")
StartQueued(h) == SearchReply(h, "s_queued", queued, QueuedInFlux, "ok", "s_exec")
StartExec(h)   == SearchReply(h, "s_exec", executing, ExecutingInFlux, "ok", "s_threads")

\* Mutant: the thread list is tested without its mutex.
StartLockThreadsUnguarded(h) ==
    /\ hpc[h] = "s_threads"
    /\ Goto(h, "s_size")
    /\ UNCHANGED <<req, hreply, workerVars, storeVars>>

\* _mutex_worker_threads.lock()
StartLockThreads(h) ==
    /\ hpc[h] = "s_threads"
    /\ ~ThreadsHeld
    /\ Goto(h, "s_size")
    /\ UNCHANGED <<req, hreply, workerVars, storeVars>>

StartSize(h) ==
    /\ hpc[h] = "s_size"
    /\ Goto(h, IF size < MaxWorkers THEN "s_spawn" ELSE "s_cond")
    /\ UNCHANGED <<req, hreply, workerVars, storeVars>>

\* Mutant: the new thread starts with the loop and never pushes its own key.
StartSpawnNoPush(h) ==
    /\ hpc[h] = "s_spawn"
    /\ size' = size + 1
    /\ wpc' = [wpc EXCEPT ![size + 1] = "lock"]
    /\ Finish(h, "ok")
    /\ UNCHANGED <<req, wkey, storeVars>>

\* The new thread captures the key and pushes it itself.
StartSpawn(h) ==
    /\ hpc[h] = "s_spawn"
    /\ size' = size + 1
    /\ wpc' = [wpc EXCEPT ![size + 1] = "push"]
    /\ wkey' = [wkey EXCEPT ![size + 1] = req[h].key]
    /\ Finish(h, "ok")
    /\ UNCHANGED <<req, storeVars>>

\* lock_guard on _mutex_worker_cond
StartLockCond(h) ==
    /\ hpc[h] = "s_cond"
    /\ ~WorkerCondHeld
    /\ Goto(h, "s_push")
    /\ UNCHANGED <<req, hreply, workerVars, storeVars>>

\* The key is appended to the list; the set is not told.
StartPush(h) ==
    /\ hpc[h] = "s_push"
    /\ ~RequestsHeld
    /\ queue' = Append(queue, req[h].key)
    /\ Goto(h, "s_notify")
    /\ UNCHANGED <<req, hreply, workerVars, queued, executing, cache, chunkCond>>

\* notify_all wakes the workers that wait now; the guard ends with the block.
StartNotify(h) ==
    /\ hpc[h] = "s_notify"
    /\ wpc' = [w \in Workers |-> IF wpc[w] = "waiting" THEN "woken" ELSE wpc[w]]
    /\ Finish(h, "ok")
    /\ UNCHANGED <<req, size, wkey, storeVars>>

\* GET /cube/{cube_id}/{chunk_id}/download

DownloadHas(h)    == Search(h, "d_has", cache, CacheInFlux, "d_loop", "d_queued")
DownloadQueued(h) == Search(h, "d_queued", queued, QueuedInFlux, "d_loop", "d_exec")

DownloadExec(h) ==
    /\ hpc[h] = "d_exec"
    /\ \/ req[h].key \in executing /\ Goto(h, "d_loop") /\ UNCHANGED hreply
       \/ Misses(req[h].key, executing, ExecutingInFlux) /\ Finish(h, "notfound")
    /\ UNCHANGED <<req, workerVars, storeVars>>

DownloadLoop(h) == Search(h, "d_loop", cache, CacheInFlux, "d_get", "d_wait")

\* _chunk_cond[key] creates the condition variable and the handler waits on it.
DownloadWait(h) ==
    /\ hpc[h] = "d_wait"
    /\ chunkCond' = chunkCond \cup {req[h].key}
    /\ Goto(h, "d_waiting")
    /\ UNCHANGED <<req, hreply, workerVars, queue, queued, executing, cache>>

\* wait() without a predicate may return although nobody notified.
DownloadSpurious(h) ==
    /\ hpc[h] = "d_waiting"
    /\ Goto(h, "d_loop")
    /\ UNCHANGED <<req, hreply, workerVars, storeVars>>

\* server_chunk_cache::get searches again and throws when it finds nothing.
DownloadGet(h) == SearchLast(h, "d_get", cache, CacheInFlux, "ok", "error")

\* GET /cube/{cube_id}/{chunk_id}/status

StatusHas(h)    == SearchReply(h, "q_has", cache, CacheInFlux, "finished", "q_exec")
StatusExec(h)   == SearchReply(h, "q_exec", executing, ExecutingInFlux, "running", "q_queued")
StatusQueued(h) == SearchLast(h, "q_queued", queued, QueuedInFlux, "queued", "notrequested")

StartStep(h) ==
    \/ StartHas(h) \/ StartQueued(h) \/ StartExec(h) \/ StartLockThreads(h)
    \/ StartSize(h) \/ StartSpawn(h) \/ StartLockCond(h) \/ StartPush(h)
    \/ StartNotify(h)
DownloadStep(h) ==
    \/ DownloadHas(h) \/ DownloadQueued(h) \/ DownloadExec(h) \/ DownloadLoop(h)
    \/ DownloadWait(h) \/ DownloadGet(h)
StatusStep(h) == StatusHas(h) \/ StatusExec(h) \/ StatusQueued(h)
HandlerStep(h) == Arrive(h) \/ StartStep(h) \/ DownloadStep(h) \/ StatusStep(h)

-------------------------------------------------------------------------------
\* Workers.

Move(w, here, there) ==
    /\ wpc[w] = here
    /\ wpc' = [wpc EXCEPT ![w] = there]

\* _mutex_chunk_read_requests.lock() of a thread that was just created
WorkerLockPush(w) ==
    /\ ~RequestsHeld
    /\ Move(w, "push", "pushing")
    /\ UNCHANGED <<handlerVars, size, wkey, storeVars>>

\* Mutant: only the set is told of the key.
WorkerPushSetOnly(w) ==
    /\ Move(w, "pushing", "lock")
    /\ queued' = queued \cup {wkey[w]}
    /\ wkey' = [wkey EXCEPT ![w] = NoKey]
    /\ UNCHANGED <<handlerVars, size, queue, executing, cache, chunkCond>>

WorkerPush(w) ==
    /\ Move(w, "pushing", "lock")
    /\ queue' = Append(queue, wkey[w])
    /\ queued' = queued \cup {wkey[w]}
    /\ wkey' = [wkey EXCEPT ![w] = NoKey]
    /\ UNCHANGED <<handlerVars, size, executing, cache, chunkCond>>

\* Mutant: the list is examined without its mutex.
WorkerLockUnguarded(w) ==
    /\ Move(w, "lock", "head")
    /\ UNCHANGED <<handlerVars, size, wkey, storeVars>>

WorkerLock(w) ==
    /\ ~RequestsHeld
    /\ Move(w, "lock", "head")
    /\ UNCHANGED <<handlerVars, size, wkey, storeVars>>

\* while (!_chunk_read_requests.empty())
WorkerHead(w) ==
    /\ Move(w, "head", IF queue = <<>> THEN "idle" ELSE "lockexec")
    /\ UNCHANGED <<handlerVars, size, wkey, storeVars>>

WorkerLockExec(w) ==
    /\ ~ExecutingHeld
    /\ Move(w, "lockexec", "take")
    /\ UNCHANGED <<handlerVars, size, wkey, storeVars>>

\* Mutant: the key stays in the set of requests.
WorkerTakeKeepsQueued(w) ==
    /\ Move(w, "take", "read")
    /\ wkey' = [wkey EXCEPT ![w] = Head(queue)]
    /\ executing' = executing \cup {Head(queue)}
    /\ queue' = Tail(queue)
    /\ UNCHANGED <<handlerVars, size, queued, cache, chunkCond>>

\* The front of the list moves from the requests to the executing set.
WorkerTake(w) ==
    /\ Move(w, "take", "read")
    /\ wkey' = [wkey EXCEPT ![w] = Head(queue)]
    /\ executing' = executing \cup {Head(queue)}
    /\ queued' = queued \ {Head(queue)}
    /\ queue' = Tail(queue)
    /\ UNCHANGED <<handlerVars, size, cache, chunkCond>>

\* Mutant: the chunk leaves the executing set before it is added.
WorkerReadErasesFirst(w) ==
    /\ Move(w, "read", "erase")
    /\ UNCHANGED <<handlerVars, size, wkey, storeVars>>

\* read_chunk() runs without any lock.
WorkerRead(w) ==
    /\ Move(w, "read", "add")
    /\ UNCHANGED <<handlerVars, size, wkey, storeVars>>

\* add() does nothing for a key it finds, and locks the cache otherwise.
WorkerAdd(w) ==
    /\ \/ wkey[w] \in cache /\ Move(w, "add", "erase")
       \/ /\ Misses(wkey[w], cache, CacheInFlux)
          /\ ~CacheHeld
          /\ Move(w, "add", "adding")
    /\ UNCHANGED <<handlerVars, size, wkey, storeVars>>

WorkerAdded(w) ==
    /\ Move(w, "adding", "erase")
    /\ cache' = cache \cup {wkey[w]}
    /\ UNCHANGED <<handlerVars, size, wkey, queue, queued, executing, chunkCond>>

WorkerLockErase(w) ==
    /\ ~ExecutingHeld
    /\ Move(w, "erase", "erasing")
    /\ UNCHANGED <<handlerVars, size, wkey, storeVars>>

\* Mutant: the key stays in the executing set.
WorkerEraseForgets(w) ==
    /\ Move(w, "erasing", "notify")
    /\ UNCHANGED <<handlerVars, size, wkey, storeVars>>

WorkerErase(w) ==
    /\ Move(w, "erasing", "notify")
    /\ executing' = executing \ {wkey[w]}
    /\ UNCHANGED <<handlerVars, size, wkey, queue, queued, cache, chunkCond>>

\* Mutant: notify_one() instead of notify_all().
NotifiedOne(k) ==
    LET waiting == {h \in Handlers : hpc[h] = "d_waiting" /\ req[h].key = k}
    IN  IF waiting = {} THEN UNCHANGED hpc
        ELSE \E h \in waiting : Goto(h, "d_loop")

\* The waiting downloads of this chunk are notified, if the condition
\* variable is found.
Notified(k) ==
    hpc' = [h \in Handlers |-> IF hpc[h] = "d_waiting" /\ req[h].key = k
                               THEN "d_loop" ELSE hpc[h]]

\* Mutant: the worker waits after every chunk.
WorkerNotifyThenWait(w) ==
    /\ Move(w, "notify", "idle")
    /\ \/ wkey[w] \in chunkCond /\ Notified(wkey[w])
       \/ Misses(wkey[w], chunkCond, ChunkCondInFlux) /\ UNCHANGED hpc
    /\ wkey' = [wkey EXCEPT ![w] = NoKey]
    /\ UNCHANGED <<req, hreply, size, storeVars>>

WorkerNotify(w) ==
    /\ Move(w, "notify", "lock")
    /\ \/ wkey[w] \in chunkCond /\ Notified(wkey[w])
       \/ Misses(wkey[w], chunkCond, ChunkCondInFlux) /\ UNCHANGED hpc
    /\ wkey' = [wkey EXCEPT ![w] = NoKey]
    /\ UNCHANGED <<req, hreply, size, storeVars>>

\* The requests mutex is free again; the condition mutex is taken and wait()
\* releases it.
WorkerWait(w) ==
    /\ ~WorkerCondHeld
    /\ Move(w, "idle", "waiting")
    /\ UNCHANGED <<handlerVars, size, wkey, storeVars>>

WorkerSpurious(w) ==
    /\ Move(w, "waiting", "woken")
    /\ UNCHANGED <<handlerVars, size, wkey, storeVars>>

\* wait() takes the condition mutex back, and the end of the loop body frees it.
WorkerWoken(w) ==
    /\ ~WorkerCondHeld
    /\ Move(w, "woken", "lock")
    /\ UNCHANGED <<handlerVars, size, wkey, storeVars>>

WorkerStep(w) ==
    \/ WorkerLockPush(w) \/ WorkerPush(w) \/ WorkerLock(w) \/ WorkerHead(w)
    \/ WorkerLockExec(w) \/ WorkerTake(w) \/ WorkerRead(w) \/ WorkerAdd(w)
    \/ WorkerAdded(w) \/ WorkerLockErase(w) \/ WorkerErase(w) \/ WorkerNotify(w)
    \/ WorkerWait(w) \/ WorkerWoken(w)

-------------------------------------------------------------------------------
Init ==
    /\ req \in [Handlers -> [kind : Kinds, key : Keys]]
    /\ hpc = [h \in Handlers |-> "arrive"]
    /\ hreply = [h \in Handlers |-> <<>>]
    /\ size = 0
    /\ wpc = [w \in Workers |-> "none"]
    /\ wkey = [w \in Workers |-> NoKey]
    /\ queue = <<>>
    /\ queued = {} /\ executing = {} /\ cache = {} /\ chunkCond = {}

Next ==
    \/ \E h \in Handlers : HandlerStep(h) \/ DownloadSpurious(h)
    \/ \E w \in Workers : WorkerStep(w) \/ WorkerSpurious(w)

Spec == Init /\ [][Next]_vars

\* Every thread is scheduled, and a mutex that is released again and again is
\* granted in the end.  Nobody promises a spurious wakeup.
Fairness ==
    /\ \A h \in Handlers : WF_vars(HandlerStep(h))
    /\ \A h \in Handlers : SF_vars(StartLockThreads(h) \/ StartLockCond(h) \/ StartPush(h))
    /\ \A w \in Workers : WF_vars(WorkerStep(w))
    /\ \A w \in Workers : SF_vars(\/ WorkerLockPush(w) \/ WorkerLock(w)
                                  \/ WorkerLockExec(w) \/ WorkerAdd(w)
                                  \/ WorkerLockErase(w))

FairSpec == Spec /\ Fairness

-------------------------------------------------------------------------------
\* Properties.

TypeOK ==
    /\ req \in [Handlers -> [kind : Kinds, key : Keys]]
    /\ hpc \in [Handlers -> HandlerPC]
    /\ hreply \in [Handlers -> Seq(Replies)]
    /\ size \in 0..MaxWorkers
    /\ wpc \in [Workers -> WorkerPC]
    /\ wkey \in [Workers -> Keys \cup {NoKey}]
    /\ queue \in Seq(Keys)
    /\ queued \in SUBSET Keys
    /\ executing \in SUBSET Keys
    /\ cache \in SUBSET Keys
    /\ chunkCond \in SUBSET Keys

\* A worker holds the key on its way into the list or into the cache.
Carried(k) ==
    \E w \in Workers :
        wkey[w] = k /\ wpc[w] \in {"push", "pushing", "read", "add", "adding"}

Pending == {k \in Keys : k \in Range(queue) \/ Carried(k)}

\* A chunk whose start request was answered with OK is read, or will be: it is
\* in the cache, in the list, or held by a worker.  This covers the requests
\* that were answered with OK because somebody else's request was found.
AcceptedNotLost ==
    \A h \in Handlers :
        req[h].kind = "start" /\ hreply[h] = <<"ok">> => req[h].key \in cache \cup Pending

\* The set that handlers search never names a chunk that is not in the list:
\* a stale entry would make every later start request a no-op.
QueuedBacked == queued \subseteq Range(queue)

\* A chunk is in the executing set only while some worker reads it: a stale
\* entry would let a download wait for a chunk that nobody reads.
ExecutingBacked ==
    \A k \in executing :
        \E w \in Workers :
            wkey[w] = k /\ wpc[w] \in {"read", "add", "adding", "erase", "erasing"}

\* The list is tested for emptiness under one lock, and front() and
\* pop_front() run after a second lock was taken: they never meet an empty list.
FrontExists == \A w \in Workers : wpc[w] = "take" => queue # <<>>

\* A worker announces a chunk (and leaves the executing set) only after the
\* cache can answer a download with it.
CachedBeforeAnnounced ==
    \A w \in Workers : wpc[w] \in {"erase", "erasing", "notify"} => wkey[w] \in cache

\* "if already in queue, executing, or finished, do not compute again"
NeverRecomputed ==
    \A w \in Workers :
        wpc[w] = "read" =>
            /\ wkey[w] \notin cache
            /\ \A v \in Workers \ {w} : wpc[v] = "read" => wkey[v] # wkey[w]

\* "if not in queue, executing, or finished, return 404": a download takes the
\* branch to 404 with its chunk in the list only if its search raced with a
\* modification of the set.
ListedChunkFound ==
    [][\A h \in Handlers :
          /\ hpc[h] = "d_queued" /\ hpc'[h] = "d_exec"
          /\ req[h].key \in Range(queue)
          => QueuedInFlux]_vars

\* "notify waiting download requests": a download that waits for its chunk
\* stops waiting.
WaitingDownloadNotified ==
    \A h \in Handlers : hpc[h] = "d_waiting" ~> hpc[h] # "d_waiting"

\* As long as one worker is past the point where it waits, every chunk that
\* was accepted gets read, although no further request may ever arrive: in
\* particular the chunk a new thread was created for.
Awake(w) == wpc[w] \notin {"none", "idle", "waiting"}
AwakeWorkerDrains ==
    \A k \in Keys : k \in Pending /\ (\E w \in Workers : Awake(w)) ~> k \in cache

\* An unlocked search on the way from the announcement to the answer coincides
\* with an insertion: the worker searches _chunk_cond while another download
\* enters its chunk there, or the download searches the cache while another
\* worker adds a chunk.
SearchDisturbed(h) ==
    \/ hpc[h] = "d_waiting" /\ ChunkCondInFlux
    \/ hpc[h] \in {"d_loop", "d_get"} /\ CacheInFlux

\* A download that already waits when a worker gets to announce its chunk gets
\* the chunk, whoever else waits for it and whatever wakes them, unless one of
\* the unlocked searches is disturbed: then the download may wait for ever.
AnnouncedDownloadAnswered ==
    \A h \in Handlers :
        (/\ hpc[h] = "d_waiting"
         /\ \E w \in Workers : wpc[w] = "notify" /\ wkey[w] = req[h].key)
            ~> hreply[h] = <<"ok">> \/ SearchDisturbed(h)

\* What the server promises, without its threads.
Service == INSTANCE ChunkService WITH pending <- Pending, finished <- cache
ServicePromise == Service!ServiceSpec
===============================================================================
