------------------------------- MODULE ChunkCache -----------------------------
(***************************************************************************)
(* server_chunk_cache: a map of chunks with a byte count and two priority   *)
(* maps that name the least recently used chunk, used by several threads.   *)
(*                                                                          *)
(* Each thread executes one call of add, get or remove.  has() searches the *)
(* map without the mutex; everything else happens between lock and unlock,  *)
(* except that get reads the map once more after its unlock.  The mutex is  *)
(* a std::mutex: the thread that owns it waits for itself when it locks it  *)
(* again, which add does when it calls remove to make room.                 *)
(*                                                                          *)
(* uses is a history variable: it records the uses of chunks in their order *)
(* and decides nothing, so that a property can say which chunk was used     *)
(* longest ago without asking the priorities.                               *)
(***************************************************************************)
EXTENDS Integers, FiniteSets, Sequences, Functions

CONSTANTS Threads,   \* callers, one call each
          Keys,      \* chunk keys
          Size,      \* Size[k]: total_size_bytes() of the chunk with key k
          Ops,       \* the calls that are made
          MaxBytes,  \* config::get_server_chunkcache_max()
          PrioMax,   \* numeric_limits<uint64_t>::max()
          PrioMod,   \* 2^32: the priority is narrowed to uint32_t on its way out
          NoThread,
          NoKey

ASSUME CacheAssumption ==
    /\ Size \in [Keys -> Nat]
    /\ Ops \subseteq {"add", "get", "remove"}
    /\ MaxBytes \in Nat /\ PrioMax \in Nat /\ PrioMod \in Nat \ {0}
    /\ IsFiniteSet(Keys) /\ Cardinality(Keys) <= PrioMax
    /\ NoThread \notin Threads /\ NoKey \notin Keys

VARIABLES
    op,       \* op[t]: the call of thread t, with its key
    pc,       \* where thread t is
    target,   \* target[t]: the key that remove() was called with
    result,   \* what get returned, or how a call ended
    owner,    \* the owner of _m
    cached,   \* the keys of _cache
    null,     \* those that _cache maps to a null pointer
    forward,  \* _prio_forward
    backward, \* _prio_backward
    bytes,    \* _size_bytes
    prio,     \* _cur_priority
    uses      \* the keys of the calls that used a chunk, in their order

callVars  == <<op, pc, target, result>>
prioVars  == <<forward, backward, prio, uses>>
dataVars  == <<cached, null, bytes>>
vars == <<callVars, owner, dataVars, prioVars>>

Goto(t, l) == pc' = [pc EXCEPT ![t] = l]
Key(t) == op[t].key
Done(t, r) == Goto(t, "done") /\ result' = [result EXCEPT ![t] = r]

\* An unlocked search may miss a key while a thread restructures the map.
Restructuring ==
    \E t \in Threads :
        \/ pc[t] \in {"insert", "erase"}
        \/ pc[t] = "fetch" /\ Key(t) \notin cached
Found(k)  == k \in cached
Missed(k) == k \notin cached \/ Restructuring

Remove(f, x) == Restrict(f, DOMAIN f \ {x})
Store(f, x, y) == [z \in DOMAIN f \cup {x} |-> IF z = x THEN y ELSE f[z]]

Least(S) == CHOOSE x \in S : \A y \in S : x <= y

-------------------------------------------------------------------------------
\* inc_prio(): the next priority.  At the largest one every chunk is numbered
\* again from 0, in the order of the keys (here any order); insert leaves the
\* entries that _prio_backward already has.
Insert(b, f) ==
    [p \in DOMAIN b \cup Range(f) |->
        IF p \in DOMAIN b THEN b[p] ELSE CHOOSE k \in DOMAIN f : f[k] = p]

\* Mutant: the counter is never reset.
inc_prio_unbounded == {<<forward, backward, prio + 1>>}

\* The triples <<_prio_forward, _prio_backward, _cur_priority>> after the call.
inc_prio ==
    LET n == Cardinality(DOMAIN forward) IN
    IF prio < PrioMax THEN {<<forward, backward, prio + 1>>}
    ELSE {<<f, Insert(backward, f), n>> : f \in Bijection(DOMAIN forward, 0..(n - 1))}

-------------------------------------------------------------------------------
\* add(key, value)

AddHas(t) ==
    /\ pc[t] = "call" /\ op[t].kind = "add"
    /\ \/ Found(Key(t)) /\ Done(t, "present")
       \/ Missed(Key(t)) /\ Goto(t, "lock") /\ UNCHANGED result
    /\ UNCHANGED <<op, target, owner, dataVars, prioVars>>

\* Mutant: add() takes no lock of its own.
AddLockUnguarded(t) ==
    /\ pc[t] = "lock"
    /\ owner' = t
    /\ Goto(t, "room")
    /\ UNCHANGED <<op, target, result, dataVars, prioVars>>

AddLock(t) ==
    /\ pc[t] = "lock" /\ owner = NoThread
    /\ owner' = t
    /\ Goto(t, "room")
    /\ UNCHANGED <<op, target, result, dataVars, prioVars>>

\* While there is no room, the entry with the lowest priority is removed.  When
\* there is no entry, the end of the map is read for a key.
AddRoom(t) ==
    /\ pc[t] = "room"
    /\ IF bytes + Size[Key(t)] > MaxBytes
       THEN /\ target' = [target EXCEPT ![t] =
                   IF backward = <<>> THEN NoKey ELSE backward[Least(DOMAIN backward)]]
            /\ Goto(t, "remove")
       ELSE Goto(t, "insert") /\ UNCHANGED target
    /\ UNCHANGED <<op, result, owner, dataVars, prioVars>>

\* The size of the chunk is added before and after the priorities are set.
AddInsert(t) ==
    /\ pc[t] = "insert"
    /\ cached' = cached \cup {Key(t)}
    /\ null' = null \ {Key(t)}
    /\ bytes' = bytes + Size[Key(t)] + Size[Key(t)]
    /\ \E r \in inc_prio :
          /\ forward' = Store(r[1], Key(t), r[3])
          /\ backward' = Store(r[2], r[3], Key(t))
          /\ prio' = r[3]
    /\ uses' = Append(uses, Key(t))
    /\ owner' = NoThread
    /\ Done(t, "added")
    /\ UNCHANGED <<op, target>>

-------------------------------------------------------------------------------
\* remove(key), called by a client or by add

RemoveCall(t) ==
    /\ pc[t] = "call" /\ op[t].kind = "remove"
    /\ target' = [target EXCEPT ![t] = Key(t)]
    /\ Goto(t, "remove")
    /\ UNCHANGED <<op, result, owner, dataVars, prioVars>>

\* _m.lock(): never granted to the thread that owns it.
RemoveLock(t) ==
    /\ pc[t] = "remove" /\ owner = NoThread
    /\ owner' = t
    /\ Goto(t, "erase")
    /\ UNCHANGED <<op, target, result, dataVars, prioVars>>

\* The priority is read from the iterator before it is known to be valid: for
\* a key without one it is some number.  A null chunk has no size; asking for
\* it ends the process, and the model has no step for that.
RemoveErase(t) ==
    /\ pc[t] = "erase"
    /\ target[t] \notin null
    /\ cached' = cached \ {target[t]}
    /\ bytes' = IF target[t] \in cached THEN bytes - Size[target[t]] ELSE bytes
    /\ \E p \in IF target[t] \in DOMAIN forward
                THEN {forward[target[t]] % PrioMod} ELSE DOMAIN backward \cup {PrioMod} :
          backward' = Remove(backward, p)
    /\ forward' = Remove(forward, target[t])
    /\ owner' = NoThread
    /\ Done(t, "removed")
    /\ UNCHANGED <<op, target, null, prio, uses>>

-------------------------------------------------------------------------------
\* get(key)

\* Mutant: get() does not test for the key.
GetHasUnchecked(t) ==
    /\ pc[t] = "call" /\ op[t].kind = "get"
    /\ Goto(t, "touch")
    /\ UNCHANGED <<op, target, result, owner, dataVars, prioVars>>

GetHas(t) ==
    /\ pc[t] = "call" /\ op[t].kind = "get"
    /\ \/ Found(Key(t)) /\ Goto(t, "touch") /\ UNCHANGED result
       \/ Missed(Key(t)) /\ Done(t, "throws")
    /\ UNCHANGED <<op, target, owner, dataVars, prioVars>>

\* Mutant: the new priority is entered in one direction only.
GetTouchForwardOnly(t) ==
    /\ pc[t] = "touch" /\ owner = NoThread
    /\ \E r \in inc_prio :
          /\ forward' = IF Key(t) \in DOMAIN r[1] THEN Store(r[1], Key(t), r[3]) ELSE r[1]
          /\ backward' = r[2]
          /\ prio' = r[3]
    /\ uses' = Append(uses, Key(t))
    /\ Goto(t, "fetch")
    /\ UNCHANGED <<op, target, result, owner, dataVars>>

\* Mutant: a chunk keeps the priority it was added with.
GetTouchKeepsPriority(t) ==
    /\ pc[t] = "touch" /\ owner = NoThread
    /\ \E r \in inc_prio : forward' = r[1] /\ backward' = r[2] /\ prio' = r[3]
    /\ uses' = Append(uses, Key(t))
    /\ Goto(t, "fetch")
    /\ UNCHANGED <<op, target, result, owner, dataVars>>

\* The chunk becomes the most recently used one.
GetTouch(t) ==
    /\ pc[t] = "touch" /\ owner = NoThread
    /\ \E r \in inc_prio :
          IF Key(t) \in DOMAIN r[1]
          THEN LET old == r[1][Key(t)] % PrioMod IN
               /\ forward' = Store(r[1], Key(t), r[3])
               /\ backward' = IF old \in DOMAIN r[2]
                              THEN Store(Remove(r[2], old), r[3], Key(t)) ELSE r[2]
               /\ prio' = r[3]
          ELSE forward' = r[1] /\ backward' = r[2] /\ prio' = r[3]
    /\ uses' = Append(uses, Key(t))
    /\ Goto(t, "fetch")
    /\ UNCHANGED <<op, target, result, owner, dataVars>>

\* _cache[key] after the unlock: an absent key is inserted with a null pointer.
GetFetch(t) ==
    /\ pc[t] = "fetch"
    /\ cached' = cached \cup {Key(t)}
    /\ null' = IF Key(t) \in cached THEN null ELSE null \cup {Key(t)}
    /\ Done(t, IF Key(t) \in null' THEN "null" ELSE "chunk")
    /\ UNCHANGED <<op, target, owner, bytes, prioVars>>

-------------------------------------------------------------------------------
Step(t) ==
    \/ AddHas(t) \/ AddLock(t) \/ AddRoom(t) \/ AddInsert(t)
    \/ RemoveCall(t) \/ RemoveLock(t) \/ RemoveErase(t)
    \/ GetHas(t) \/ GetTouch(t) \/ GetFetch(t)

Init ==
    /\ op \in [Threads -> [kind : Ops, key : Keys]]
    /\ pc = [t \in Threads |-> "call"]
    /\ target = [t \in Threads |-> NoKey]
    /\ result = [t \in Threads |-> "none"]
    /\ owner = NoThread
    /\ cached = {} /\ null = {} /\ bytes = 0
    /\ forward = <<>> /\ backward = <<>> /\ prio = 0 /\ uses = <<>>

Next == \E t \in Threads : Step(t)
Spec == Init /\ [][Next]_vars
FairSpec == Spec /\ \A t \in Threads : WF_vars(Step(t)) /\ SF_vars(AddLock(t) \/ RemoveLock(t))

-------------------------------------------------------------------------------
\* Properties.

TypeOK ==
    /\ op \in [Threads -> [kind : Ops, key : Keys]]
    /\ pc \in [Threads -> {"call", "lock", "room", "insert", "remove", "erase",
                           "touch", "fetch", "done"}]
    /\ target \in [Threads -> Keys \cup {NoKey}]
    /\ result \in [Threads -> {"none", "present", "added", "removed", "throws",
                               "chunk", "null"}]
    /\ owner \in Threads \cup {NoThread}
    /\ cached \in SUBSET Keys
    /\ null \in SUBSET cached
    /\ DOMAIN forward \in SUBSET Keys /\ forward \in [DOMAIN forward -> 0..PrioMax]
    /\ DOMAIN backward \in SUBSET (0..PrioMax) /\ backward \in [DOMAIN backward -> Keys]
    /\ bytes \in Int
    /\ prio \in 0..PrioMax
    /\ uses \in Seq(Keys)

CachedBytes == SumFunctionOnSet(Size, cached \ null)

\* The chunks in the cache never take more memory than configured, whatever
\* threads add, remove and get at the same time.
WithinLimit == CachedBytes <= MaxBytes

\* The server itself never removes a chunk other than to make room.
NoRemoves == \A t \in Threads : op[t].kind # "remove"

\* The counter was neither reset nor is too large for the narrowed type: it
\* takes 2^32 uses in the code to leave this.
Regular == NoRemoves /\ Len(uses) < PrioMod /\ Len(uses) <= PrioMax

\* Every chunk that has a priority is found under this priority, so that it can
\* be chosen for eviction.
ForwardBacked ==
    Regular =>
        \A k \in DOMAIN forward :
            forward[k] \in DOMAIN backward /\ backward[forward[k]] = k

\* Two calls that add the same chunk at once both store it, and leave an entry
\* in _prio_backward that names it by its older priority.
AddedOnce ==
    \A t, u \in Threads :
        result[t] = "added" /\ result[u] = "added" /\ Key(t) = Key(u) => t = u

\* k was used after every use of v.
UsedSince(k, v) ==
    \A i \in DOMAIN uses :
        uses[i] = v => \E j \in DOMAIN uses : i < j /\ uses[j] = k

\* The chunk that add chooses for eviction is in the cache and is the least
\* recently used one there, added or got: every other chunk was used since.
\* Nothing is claimed where no order can be expected: after a chunk was added
\* twice at once, and from a reset or narrowing of the counter on.
VictimIsOldest ==
    Regular /\ AddedOnce =>
        \A t \in Threads :
            pc[t] = "remove" /\ cached # {} =>
                /\ target[t] \in cached
                /\ \A k \in cached \ {target[t]} : UsedSince(k, target[t])

\* A get that does not throw returns a chunk.
GetReturnsChunk == NoRemoves => \A t \in Threads : result[t] # "null"

\* "remove it from the data": an eviction that was started comes to an end.
EvictionEnds ==
    \A t \in Threads : pc[t] = "remove" ~> pc[t] # "remove"
===============================================================================
