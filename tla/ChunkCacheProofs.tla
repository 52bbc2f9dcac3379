---------------------------- MODULE ChunkCacheProofs -----------------------------
(***************************************************************************)
(* Proofs about ChunkCache, for any calls, sizes, limit and widths of the   *)
(* counters.  As long as chunks were used less often than the counter can   *)
(* count, it is the number of uses, and a chunk's priority is the place of  *)
(* its last use among all uses.  The limit needs sums of sizes, which are  *)
(* a recursive function: that it has its equation is proved first.          *)
(***************************************************************************)
EXTENDS ChunkCache, FiniteSetTheorems, TLAPS

-------------------------------------------------------------------------------
\* The invariant.

Places  == {"call", "lock", "room", "insert", "remove", "erase", "touch", "fetch", "done"}
Results == {"none", "present", "added", "removed", "throws", "chunk", "null"}

\* Who is in a critical section owns the mutex; add keeps it when it waits in remove.
Owners ==
    \A t \in Threads :
        /\ pc[t] \in {"room", "insert", "erase"} => owner = t
        /\ NoRemoves => pc[t] # "erase" /\ (pc[t] = "remove" => owner = t)

\* A call ends once.
Unfinished == \A t \in Threads : pc[t] # "done" => result[t] = "none"

\* Nothing is taken out while a get goes from its test to the chunk.
Kept ==
    NoRemoves =>
        /\ null = {}
        /\ \A t \in Threads : pc[t] \in {"touch", "fetch"} => Key(t) \in cached

\* The counter is the number of uses until it is reset.
Counted == Len(uses) <= PrioMax => prio = Len(uses)

Newest == Regular => \A p \in DOMAIN backward : p <= Len(uses)

\* The priority of a chunk is the place of its last use.
Recorded ==
    Regular =>
        \A k \in DOMAIN forward :
            /\ forward[k] \in DOMAIN uses /\ uses[forward[k]] = k
            /\ \A i \in DOMAIN uses : uses[i] = k => i <= forward[k]

\* The chunks are those with a priority, and somebody added each.
Prioritized ==
    NoRemoves =>
        /\ cached = DOMAIN forward
        /\ \A k \in cached : \E t \in Threads : result[t] = "added" /\ Key(t) = k

\* No entry is left of an older priority.
NoneStale ==
    Regular /\ AddedOnce =>
        \A p \in DOMAIN backward :
            backward[p] \in DOMAIN forward /\ forward[backward[p]] = p

CInv ==
    /\ TypeOK /\ Owners /\ Unfinished /\ Kept /\ GetReturnsChunk
    /\ Counted /\ Newest /\ Recorded /\ Prioritized
    /\ ForwardBacked /\ NoneStale /\ VictimIsOldest

-------------------------------------------------------------------------------
LEMMA Constants ==
    /\ PrioMax \in Nat /\ PrioMod \in Nat /\ PrioMod > 0 /\ MaxBytes \in Nat
    /\ NoThread \notin Threads /\ NoKey \notin Keys
    /\ IsFiniteSet(Keys)
    /\ Cardinality(Keys) \in Nat /\ Cardinality(Keys) <= PrioMax
    /\ \A k \in Keys : Size[k] \in Nat
<1>1. IsFiniteSet(Keys) /\ Cardinality(Keys) <= PrioMax
  BY CacheAssumption
<1>2. Cardinality(Keys) \in Nat
  BY <1>1, FS_CardinalityType
<1>3. PrioMod \in Nat /\ PrioMod > 0
  BY CacheAssumption
<1> QED BY <1>1, <1>2, <1>3, CacheAssumption

\* A set of priorities has a least one.
LEMMA LeastExists ==
    ASSUME NEW S \in SUBSET Nat, S # {}
    PROVE  Least(S) \in S /\ \A y \in S : Least(S) <= y
<1>1. IsWellFoundedOn(OpToRel(<, Nat), Nat)
  BY NatLessThanWellFounded
<1>2. PICK x \in S : \A y \in S : ~ (<<y, x>> \in OpToRel(<, Nat))
  BY <1>1, WFMin
<1>3. \A y \in S : x <= y
  <2> SUFFICES ASSUME NEW y \in S, y < x PROVE FALSE
    OBVIOUS
  <2>1. <<y, x>> \in {ss \in Nat \X Nat : ss[1] < ss[2]}
    OBVIOUS
  <2>2. <<y, x>> \in OpToRel(<, Nat)
    BY <2>1 DEF OpToRel
  <2> QED BY <1>2, <2>2
<1> QED BY <1>3 DEF Least

\* What inc_prio returns: the next priority, or everything is numbered again.
LEMMA IncPrio ==
    ASSUME TypeOK, NEW r \in inc_prio
    PROVE  /\ r[1] \in [DOMAIN forward -> 0..PrioMax]
           /\ DOMAIN r[2] \subseteq 0..PrioMax /\ r[2] \in [DOMAIN r[2] -> Keys]
           /\ r[3] \in 0..PrioMax
           /\ \/ prio < PrioMax /\ r[1] = forward /\ r[2] = backward /\ r[3] = prio + 1
              \/ prio = PrioMax /\ r[3] <= Cardinality(Keys)
<1> DEFINE D == DOMAIN forward
           m == Cardinality(D)
<1>1. prio \in Nat /\ prio <= PrioMax /\ D \subseteq Keys
  BY Constants DEF TypeOK
<1>2. m \in Nat /\ m <= Cardinality(Keys) /\ m <= PrioMax
  <2>1. IsFiniteSet(D) /\ m <= Cardinality(Keys)
    BY <1>1, Constants, FS_Subset
  <2>2. m \in Nat
    BY <2>1, FS_CardinalityType
  <2> QED BY <2>1, <2>2, Constants
<1> HIDE DEF m
<1>3. CASE prio < PrioMax
  <2>1. r = <<forward, backward, prio + 1>>
    BY <1>3 DEF inc_prio
  <2> QED BY <1>1, <1>3, <2>1, Constants DEF TypeOK
<1>4. CASE ~(prio < PrioMax)
  <2>1. PICK f \in Bijection(D, 0..(m - 1)) : r = <<f, Insert(backward, f), m>>
    BY <1>4 DEF inc_prio, m
  <2>2. f \in [D -> 0..(m - 1)]
    BY <2>1 DEF Bijection, Injection
  <2>3. Range(f) \subseteq 0..PrioMax /\ f \in [D -> 0..PrioMax]
    BY <1>2, <2>2, Constants DEF Range
  <2>4. DOMAIN Insert(backward, f) \subseteq 0..PrioMax
    BY <2>3 DEF Insert, TypeOK
  <2>5. ASSUME NEW p \in DOMAIN Insert(backward, f) PROVE Insert(backward, f)[p] \in Keys
    <3>1. CASE p \in DOMAIN backward
      BY <3>1 DEF Insert, TypeOK
    <3>2. CASE p \notin DOMAIN backward
      <4>1. \E k \in D : f[k] = p
        BY <2>2, <2>5, <3>2 DEF Insert, Range
      <4>2. (CHOOSE k \in D : f[k] = p) \in D
        BY <4>1
      <4> QED BY <1>1, <2>2, <2>5, <3>2, <4>2 DEF Insert
    <3> QED BY <3>1, <3>2
  <2>6. Insert(backward, f) \in [DOMAIN Insert(backward, f) -> Keys]
    BY <2>5 DEF Insert
  <2> QED BY <1>1, <1>2, <1>4, <2>1, <2>2, <2>3, <2>4, <2>6, Constants
<1> QED BY <1>3, <1>4

-------------------------------------------------------------------------------
LEMMA InitCInv == Init => CInv
<1> SUFFICES ASSUME Init PROVE CInv
  OBVIOUS
<1>1. TypeOK
  <2>1. DOMAIN <<>> = {} /\ \A S : <<>> \in [{} -> S]
    OBVIOUS
  <2> QED BY <2>1, Constants DEF Init, TypeOK
<1>2. Owners /\ Unfinished /\ Kept /\ GetReturnsChunk
  BY DEF Init, Owners, Unfinished, Kept, GetReturnsChunk
<1>3. Counted
  BY DEF Init, Counted
<1>4. Newest /\ Recorded /\ Prioritized /\ ForwardBacked /\ NoneStale /\ VictimIsOldest
  BY DEF Init, Newest, Recorded, Prioritized, ForwardBacked, NoneStale, VictimIsOldest
<1> QED BY <1>1, <1>2, <1>3, <1>4 DEF CInv

\* A step of a call that takes no priority and adds nothing.
LEMMA QuietKeeps ==
    ASSUME CInv, NEW t \in Threads, NEW l \in Places, NEW x \in Results,
           pc' = [pc EXCEPT ![t] = l], result' = [result EXCEPT ![t] = x],
           UNCHANGED <<op, prio, uses>>,
           TypeOK', pc[t] # "done",
           l # "done" => x = "none",
           x \notin {"added", "null"}
    PROVE  /\ Unfinished' /\ Counted' /\ GetReturnsChunk'
           /\ NoRemoves' = NoRemoves /\ Regular' = Regular /\ AddedOnce' = AddedOnce
           /\ \A u \in Threads : (result'[u] = "added" <=> result[u] = "added") /\ Key(u)' = Key(u)
<1>1. /\ pc'[t] = l /\ result'[t] = x /\ result[t] = "none"
      /\ \A u \in Threads : u # t => pc'[u] = pc[u] /\ result'[u] = result[u]
  BY DEF CInv, TypeOK, Unfinished
<1>2. Unfinished'
  BY <1>1 DEF CInv, Unfinished
<1>3. \A u \in Threads : (result'[u] = "added" <=> result[u] = "added") /\ Key(u)' = Key(u)
  BY <1>1 DEF Key
<1>4. AddedOnce' = AddedOnce
  BY <1>3 DEF AddedOnce
<1>5. NoRemoves' = NoRemoves
  BY DEF NoRemoves
<1>6. GetReturnsChunk'
  BY <1>1, <1>5 DEF CInv, GetReturnsChunk
<1> QED BY <1>2, <1>3, <1>4, <1>5, <1>6 DEF CInv, Counted, Regular

\* The ways from one place to another that leave the chunks and priorities alone.
Way(t, l, x) ==
    \/ pc[t] = "call" /\ l = "lock" /\ x = "none" /\ op[t].kind = "add"
    \/ pc[t] = "call" /\ l = "done" /\ x \in {"present", "throws"}
    \/ pc[t] = "call" /\ l = "remove" /\ x = "none" /\ op[t].kind = "remove"
    \/ pc[t] = "call" /\ l = "touch" /\ x = "none" /\ Found(Key(t))
    \/ pc[t] = "lock" /\ l = "room" /\ x = "none" /\ owner = NoThread
    \/ pc[t] = "room" /\ l \in {"insert", "remove"} /\ x = "none"
    \/ pc[t] = "remove" /\ l = "erase" /\ x = "none" /\ owner = NoThread

\* The entry with the least priority names the chunk whose last use is the first.
LEMMA VictimOldest ==
    ASSUME CInv, Regular, AddedOnce, cached # {}, NEW v,
           v = IF backward = <<>> THEN NoKey ELSE backward[Least(DOMAIN backward)]
    PROVE  v \in cached /\ \A k \in cached \ {v} : UsedSince(k, v)
<1>1. /\ cached = DOMAIN forward /\ DOMAIN backward \subseteq Nat
      /\ \A k \in cached : forward[k] \in DOMAIN backward /\ backward[forward[k]] = k
      /\ \A p \in DOMAIN backward : backward[p] \in DOMAIN forward /\ forward[backward[p]] = p
  BY Constants DEF CInv, TypeOK, Regular, Prioritized, ForwardBacked, NoneStale
<1>2. DOMAIN backward # {}
  BY <1>1
<1> DEFINE p == Least(DOMAIN backward)
<1>3. p \in DOMAIN backward /\ \A q \in DOMAIN backward : p <= q
  BY <1>1, <1>2, LeastExists
<1> HIDE DEF p
<1>4. v = backward[p]
  BY <1>2 DEF p
<1>5. v \in cached /\ forward[v] = p
  BY <1>1, <1>3, <1>4
<1>6. ASSUME NEW k \in cached \ {v}, NEW i \in DOMAIN uses, uses[i] = v
      PROVE  \E j \in DOMAIN uses : i < j /\ uses[j] = k
  <2>1. forward[k] \in DOMAIN uses /\ uses[forward[k]] = k /\ i <= p
    BY <1>1, <1>5, <1>6 DEF CInv, Recorded
  <2>2. p <= forward[k] /\ p # forward[k] /\ p \in Nat /\ forward[k] \in Nat
    BY <1>1, <1>3, <1>4
  <2>3. i \in Nat
    BY DEF CInv, TypeOK
  <2> QED BY <2>1, <2>2, <2>3
<1> QED BY <1>5, <1>6 DEF UsedSince

LEMMA WayKeeps ==
    ASSUME CInv, NEW t \in Threads, NEW l \in Places, NEW x \in Results, Way(t, l, x),
           pc' = [pc EXCEPT ![t] = l], result' = [result EXCEPT ![t] = x],
           owner' = IF pc[t] \in {"lock", "remove"} THEN t ELSE owner,
           target' \in [Threads -> Keys \cup {NoKey}],
           \A u \in Threads : u # t \/ pc[t] # "room" => target'[u] = target[u] \/ pc[u] = "call",
           UNCHANGED <<op, dataVars, prioVars>>,
           pc[t] = "room" /\ l = "remove" =>
               target'[t] = IF backward = <<>> THEN NoKey ELSE backward[Least(DOMAIN backward)]
    PROVE  CInv'
<1>1. UNCHANGED <<cached, null, bytes, forward, backward, prio, uses>>
  BY DEF dataVars, prioVars
<1>2. /\ pc'[t] = l /\ result'[t] = x
      /\ \A u \in Threads : u # t => pc'[u] = pc[u] /\ result'[u] = result[u]
  BY DEF CInv, TypeOK
<1>3. TypeOK'
  BY <1>1 DEF CInv, TypeOK, Places, Results
<1>4. /\ Unfinished' /\ Counted' /\ GetReturnsChunk'
      /\ NoRemoves' = NoRemoves /\ Regular' = Regular /\ AddedOnce' = AddedOnce
      /\ \A u \in Threads : (result'[u] = "added" <=> result[u] = "added") /\ Key(u)' = Key(u)
  <2>1. pc[t] # "done" /\ (l # "done" => x = "none") /\ x \notin {"added", "null"}
    BY DEF Way
  <2> QED BY <1>1, <1>3, <2>1, QuietKeeps
<1>5. \A u \in Threads : u # t => owner # u \/ (owner' = u)
  <2>1. NoThread \notin Threads
    BY Constants
  <2> QED BY <2>1 DEF CInv, Owners, Way
<1>6. NoRemoves => op[t].kind # "remove"
  BY DEF NoRemoves
<1>7. Owners'
  <2>1. NoThread \notin Threads
    BY Constants
  <2>2. ASSUME NEW u \in Threads, u # t
        PROVE  /\ pc'[u] \in {"room", "insert", "erase"} => owner' = u
               /\ NoRemoves => pc'[u] # "erase" /\ (pc'[u] = "remove" => owner' = u)
    BY <1>2, <1>5, <2>2 DEF CInv, Owners
  <2>3. l \in {"room", "insert", "erase"} => owner' = t
    BY DEF CInv, Owners, Way
  <2>4. NoRemoves => l # "erase" /\ (l = "remove" => owner' = t)
    BY <1>6, <2>1 DEF CInv, Owners, Way
  <2> QED BY <1>2, <1>4, <2>2, <2>3, <2>4 DEF Owners
<1>8. Kept'
  BY <1>1, <1>2, <1>4 DEF CInv, Kept, Way, Found, Key
<1>9. (Newest /\ Recorded /\ Prioritized /\ ForwardBacked /\ NoneStale)'
  <2>1. (Newest /\ Recorded /\ ForwardBacked /\ NoneStale)'
    BY <1>1, <1>4 DEF CInv, Newest, Recorded, ForwardBacked, NoneStale
  <2>2. Prioritized'
    BY <1>1, <1>4 DEF CInv, Prioritized
  <2> QED BY <2>1, <2>2
<1>10. VictimIsOldest'
  <2> SUFFICES ASSUME Regular, AddedOnce, NEW u \in Threads, pc'[u] = "remove", cached # {}
               PROVE  /\ target'[u] \in cached
                      /\ \A k \in cached \ {target'[u]} : UsedSince(k, target'[u])
    BY <1>1, <1>4 DEF VictimIsOldest, UsedSince
  <2>1. CASE u # t
    BY <1>2, <2>1 DEF CInv, VictimIsOldest
  <2>2. CASE u = t
    <3>1. pc[t] = "room" /\ l = "remove"
      BY <1>2, <1>6, <2>2 DEF Way, Regular
    <3>2. target'[t] = IF backward = <<>> THEN NoKey ELSE backward[Least(DOMAIN backward)]
      BY <3>1
    <3> QED BY <2>2, <3>2, VictimOldest
  <2> QED BY <2>1, <2>2
<1> QED BY <1>3, <1>4, <1>7, <1>8, <1>9, <1>10 DEF CInv

LEMMA WaysKeep ==
    ASSUME CInv, NEW t \in Threads,
           AddHas(t) \/ AddLock(t) \/ AddRoom(t) \/ RemoveCall(t) \/ RemoveLock(t) \/ GetHas(t)
    PROVE  CInv'
<1>1. /\ UNCHANGED <<op, dataVars, prioVars>>
      /\ pc \in [Threads -> Places] /\ result \in [Threads -> Results]
      /\ target \in [Threads -> Keys \cup {NoKey}] /\ Key(t) \in Keys
      /\ pc[t] # "done" => result[t] = "none"
  BY DEF AddHas, AddLock, AddRoom, RemoveCall, RemoveLock, GetHas, CInv, TypeOK, Unfinished,
         Places, Results, Key
<1>2. result[t] = "none" => result = [result EXCEPT ![t] = "none"]
  BY <1>1
<1>3. "none" \in Results /\ "present" \in Results /\ "throws" \in Results
      /\ {"lock", "done", "remove", "touch", "room", "insert", "erase"} \subseteq Places
  BY DEF Results, Places
<1>4. CASE AddHas(t)
  <2>1. PICK l \in {"lock", "done"}, x \in {"none", "present"} :
          /\ Way(t, l, x)
          /\ pc' = [pc EXCEPT ![t] = l] /\ result' = [result EXCEPT ![t] = x]
    BY <1>1, <1>2, <1>4 DEF AddHas, Done, Goto, Way
  <2> QED BY <1>1, <1>3, <1>4, <2>1, WayKeeps DEF AddHas
<1>5. CASE AddLock(t)
  <2>1. Way(t, "room", "none")
    BY <1>5 DEF AddLock, Way
  <2> QED BY <1>1, <1>2, <1>3, <1>5, <2>1, WayKeeps DEF AddLock, Goto
<1>6. CASE AddRoom(t)
  <2>1. PICK l \in {"insert", "remove"} :
          /\ pc' = [pc EXCEPT ![t] = l]
          /\ l = "remove" => target' = [target EXCEPT ![t] =
                 IF backward = <<>> THEN NoKey ELSE backward[Least(DOMAIN backward)]]
          /\ l = "insert" => UNCHANGED target
    BY <1>6 DEF AddRoom, Goto
  <2>2. backward # <<>> => backward[Least(DOMAIN backward)] \in Keys
    <3>1. DOMAIN backward \subseteq Nat /\ backward \in [DOMAIN backward -> Keys]
      BY Constants DEF CInv, TypeOK
    <3>2. ASSUME DOMAIN backward # {} PROVE backward[Least(DOMAIN backward)] \in Keys
      BY <3>1, <3>2, LeastExists
    <3>3. ASSUME backward # <<>> PROVE DOMAIN backward # {}
      BY <3>1, <3>3
    <3> QED BY <3>2, <3>3
  <2>3. target' \in [Threads -> Keys \cup {NoKey}]
    BY <1>1, <2>1, <2>2
  <2>4. Way(t, l, "none") /\ pc[t] = "room"
    BY <1>6, <2>1 DEF AddRoom, Way
  <2>5. \A u \in Threads : u # t => target'[u] = target[u]
    BY <1>1, <2>1
  <2>6. l = "remove" => target'[t] = IF backward = <<>> THEN NoKey ELSE backward[Least(DOMAIN backward)]
    BY <1>1, <2>1
  <2>7. result' = [result EXCEPT ![t] = "none"] /\ owner' = owner
    BY <1>1, <1>2, <1>6 DEF AddRoom
  <2> QED BY <1>1, <1>3, <2>1, <2>3, <2>4, <2>5, <2>6, <2>7, WayKeeps
<1>7. CASE RemoveCall(t)
  <2>1. Way(t, "remove", "none")
    BY <1>7 DEF RemoveCall, Way
  <2> QED BY <1>1, <1>2, <1>3, <1>7, <2>1, WayKeeps DEF RemoveCall, Goto
<1>8. CASE RemoveLock(t)
  <2>1. Way(t, "erase", "none")
    BY <1>8 DEF RemoveLock, Way
  <2> QED BY <1>1, <1>2, <1>3, <1>8, <2>1, WayKeeps DEF RemoveLock, Goto
<1>9. CASE GetHas(t)
  <2>1. PICK l \in {"touch", "done"}, x \in {"none", "throws"} :
          /\ Way(t, l, x)
          /\ pc' = [pc EXCEPT ![t] = l] /\ result' = [result EXCEPT ![t] = x]
    BY <1>1, <1>2, <1>9 DEF GetHas, Done, Goto, Way
  <2> QED BY <1>1, <1>3, <1>9, <2>1, WayKeeps DEF GetHas
<1> QED BY <1>4, <1>5, <1>6, <1>7, <1>8, <1>9

\* A use takes the next priority, which is its place among the uses.
LEMMA UseCounts ==
    ASSUME CInv, NEW k \in Keys, uses' = Append(uses, k),
           NEW r \in inc_prio, prio' = r[3], UNCHANGED op
    PROVE  /\ Len(uses) \in Nat /\ DOMAIN uses = 1..Len(uses)
           /\ Len(uses)' = Len(uses) + 1 /\ DOMAIN uses' = 1..(Len(uses) + 1)
           /\ uses'[Len(uses) + 1] = k /\ \A i \in DOMAIN uses : uses'[i] = uses[i]
           /\ uses' \in Seq(Keys)
           /\ Counted'
           /\ Regular' => /\ Regular /\ NoRemoves /\ Len(uses) + 1 < PrioMod
                          /\ r[1] = forward /\ r[2] = backward /\ r[3] = Len(uses) + 1
<1> DEFINE n == Len(uses)
<1>1. /\ uses \in Seq(Keys) /\ n \in Nat /\ DOMAIN uses = 1..n
      /\ Len(uses)' = n + 1 /\ DOMAIN uses' = 1..(n + 1)
      /\ uses'[n + 1] = k /\ \A i \in DOMAIN uses : uses'[i] = uses[i]
      /\ uses' \in Seq(Keys)
  BY DEF CInv, TypeOK
<1> HIDE DEF n
<1>2. PrioMax \in Nat /\ PrioMod \in Nat
  BY Constants
<1>3. n + 1 <= PrioMax => r[1] = forward /\ r[2] = backward /\ r[3] = n + 1
  <2>1. n <= PrioMax => prio = n
    BY DEF CInv, Counted, n
  <2>2. \/ prio < PrioMax /\ r[1] = forward /\ r[2] = backward /\ r[3] = prio + 1
        \/ prio = PrioMax
    BY IncPrio DEF CInv
  <2> QED BY <1>1, <1>2, <2>1, <2>2
<1>4. Counted'
  BY <1>1, <1>3 DEF Counted
<1>5. Regular' => Regular /\ NoRemoves /\ n + 1 < PrioMod /\ n + 1 <= PrioMax
  <2>1. NoRemoves' = NoRemoves
    BY DEF NoRemoves
  <2> QED BY <1>1, <1>2, <2>1 DEF Regular, n
<1> QED BY <1>1, <1>3, <1>4, <1>5 DEF n

\* The used chunk gets the place of this use, the others keep theirs.
LEMMA UseRecorded ==
    ASSUME CInv, Regular, NEW k \in Keys, uses' = Append(uses, k),
           forward' = Store(forward, k, Len(uses) + 1)
    PROVE  Recorded'
<1> DEFINE n == Len(uses)
<1>1. /\ n \in Nat /\ DOMAIN uses = 1..n /\ DOMAIN uses' = 1..(n + 1)
      /\ uses'[n + 1] = k /\ \A i \in DOMAIN uses : uses'[i] = uses[i]
  BY DEF CInv, TypeOK
<1> HIDE DEF n
<1>2. SUFFICES ASSUME NEW j \in DOMAIN forward'
               PROVE  /\ forward'[j] \in DOMAIN uses' /\ uses'[forward'[j]] = j
                      /\ \A i \in DOMAIN uses' : uses'[i] = j => i <= forward'[j]
  BY DEF Recorded
<1>3. CASE j = k
  <2>1. forward'[j] = n + 1
    BY <1>3 DEF Store, n
  <2> QED BY <1>1, <1>3, <2>1
<1>4. CASE j # k
  <2>1. j \in DOMAIN forward /\ forward'[j] = forward[j]
    BY <1>2, <1>4 DEF Store
  <2>2. /\ forward[j] \in DOMAIN uses /\ uses[forward[j]] = j
        /\ \A i \in DOMAIN uses : uses[i] = j => i <= forward[j]
    BY <2>1 DEF CInv, Recorded
  <2> QED BY <1>1, <1>4, <2>1, <2>2
<1> QED BY <1>3, <1>4

LEMMA AddInsertKeeps ==
    ASSUME CInv, NEW t \in Threads, AddInsert(t)
    PROVE  CInv'
<1> DEFINE key == Key(t)
<1>1. PICK r \in inc_prio :
        /\ forward' = Store(r[1], key, r[3])
        /\ backward' = Store(r[2], r[3], key)
        /\ prio' = r[3]
  BY DEF AddInsert
<1>2. /\ pc[t] = "insert" /\ owner = t /\ owner' = NoThread /\ NoThread \notin Threads
      /\ pc' = [pc EXCEPT ![t] = "done"] /\ result' = [result EXCEPT ![t] = "added"]
      /\ cached' = cached \cup {key} /\ null' = null \ {key}
      /\ bytes' = bytes + Size[key] + Size[key]
      /\ uses' = Append(uses, key)
      /\ UNCHANGED <<op, target>>
  BY Constants DEF AddInsert, Done, Goto, CInv, Owners
<1>3. /\ pc'[t] = "done" /\ result'[t] = "added" /\ result[t] = "none"
      /\ \A u \in Threads : u # t => pc'[u] = pc[u] /\ result'[u] = result[u]
      /\ key \in Keys
  BY <1>2 DEF CInv, TypeOK, Unfinished, Key
<1> HIDE DEF key
<1>4. /\ r[1] \in [DOMAIN forward -> 0..PrioMax] /\ DOMAIN forward \subseteq Keys
      /\ DOMAIN r[2] \subseteq 0..PrioMax /\ r[2] \in [DOMAIN r[2] -> Keys]
      /\ r[3] \in 0..PrioMax
  BY IncPrio DEF CInv, TypeOK
<1>5. TypeOK'
  <2>1. DOMAIN forward' \subseteq Keys /\ forward' \in [DOMAIN forward' -> 0..PrioMax]
    BY <1>1, <1>3, <1>4 DEF Store
  <2>2. DOMAIN backward' \subseteq 0..PrioMax /\ backward' \in [DOMAIN backward' -> Keys]
    BY <1>1, <1>3, <1>4 DEF Store
  <2>3. bytes' \in Int
    BY <1>2, <1>3, Constants DEF CInv, TypeOK
  <2>4. prio' \in 0..PrioMax
    BY <1>1, <1>4
  <2>5. /\ pc' \in [Threads -> Places] /\ result' \in [Threads -> Results]
        /\ cached' \in SUBSET Keys /\ null' \in SUBSET cached'
    BY <1>2, <1>3 DEF CInv, TypeOK, Places, Results
  <2>6. uses' \in Seq(Keys)
    BY <1>2, <1>3 DEF CInv, TypeOK
  <2> QED BY <1>2, <2>1, <2>2, <2>3, <2>4, <2>5, <2>6 DEF CInv, TypeOK, Places, Results
<1>6. NoRemoves' = NoRemoves
  BY <1>2 DEF NoRemoves
<1>7. Owners' /\ Unfinished'
  BY <1>2, <1>3, <1>6 DEF CInv, Owners, Unfinished
<1>8. Kept' /\ GetReturnsChunk'
  BY <1>2, <1>3, <1>6 DEF CInv, Kept, GetReturnsChunk, Key
<1> DEFINE n == Len(uses)
<1>9. /\ n \in Nat /\ Counted' /\ Len(uses)' = n + 1
      /\ Regular' => /\ Regular /\ NoRemoves /\ forward' = Store(forward, key, n + 1)
                     /\ backward' = Store(backward, n + 1, key)
  BY <1>1, <1>2, <1>3, UseCounts
<1> HIDE DEF n
<1>10. Prioritized'
  <2> SUFFICES ASSUME NoRemoves
               PROVE  /\ cached' = DOMAIN forward'
                      /\ \A k \in cached' : \E u \in Threads : result'[u] = "added" /\ Key(u)' = k
    BY <1>6 DEF Prioritized
  <2>1. cached = DOMAIN forward /\ DOMAIN forward = DOMAIN r[1]
    BY <1>4 DEF CInv, Prioritized
  <2>2. cached' = DOMAIN forward'
    BY <1>1, <1>2, <2>1 DEF Store
  <2>3. \A u \in Threads : Key(u)' = Key(u) /\ (result[u] = "added" => result'[u] = "added")
    BY <1>2, <1>3 DEF Key
  <2>4. Key(t)' = key
    BY <2>3 DEF key
  <2>5. ASSUME NEW k \in cached'
        PROVE  \E u \in Threads : result'[u] = "added" /\ Key(u)' = k
    <3>1. CASE k = key
      BY <1>3, <2>4, <3>1
    <3>2. CASE k # key
      <4>1. PICK u \in Threads : result[u] = "added" /\ Key(u) = k
        BY <1>2, <2>5, <3>2 DEF CInv, Prioritized
      <4> QED BY <2>3, <4>1
    <3> QED BY <3>1, <3>2
  <2> QED BY <2>2, <2>5
<1>11. ASSUME Regular'
       PROVE  (Newest /\ Recorded /\ ForwardBacked /\ NoneStale /\ VictimIsOldest)'
  <2>1. /\ Regular /\ NoRemoves
        /\ forward' = Store(forward, key, n + 1) /\ backward' = Store(backward, n + 1, key)
    BY <1>9, <1>11
  <2>2. /\ \A p \in DOMAIN backward : p \in Nat /\ p <= n
        /\ \A k \in DOMAIN forward : forward[k] \in DOMAIN backward /\ backward[forward[k]] = k
    BY <2>1, Constants DEF CInv, Newest, ForwardBacked, TypeOK, n
  <2>3. Newest'
    BY <1>9, <2>1, <2>2 DEF Newest, Store
  <2>4. Recorded'
    BY <1>2, <1>3, <2>1, UseRecorded DEF n
  <2>5. ForwardBacked'
    <3> SUFFICES ASSUME NEW k \in DOMAIN forward'
                 PROVE  forward'[k] \in DOMAIN backward' /\ backward'[forward'[k]] = k
      BY DEF ForwardBacked
    <3>1. CASE k = key
      BY <2>1, <3>1 DEF Store
    <3>2. CASE k # key
      <4>1. k \in DOMAIN forward /\ forward'[k] = forward[k]
        BY <2>1, <3>2 DEF Store
      <4>2. forward[k] \in DOMAIN backward /\ forward[k] # n + 1
        BY <1>9, <2>2, <4>1
      <4> QED BY <2>1, <2>2, <4>1, <4>2 DEF Store
    <3> QED BY <3>1, <3>2
  <2>6. NoneStale'
    <3> SUFFICES ASSUME AddedOnce', NEW p \in DOMAIN backward'
                 PROVE  backward'[p] \in DOMAIN forward' /\ forward'[backward'[p]] = p
      BY DEF NoneStale
    <3>1. \A u \in Threads : /\ result[u] = "added" => result'[u] = "added"
                             /\ Key(u)' = Key(u)
      BY <1>2, <1>3 DEF Key
    <3>2. AddedOnce
      BY <3>1 DEF AddedOnce
    <3>3. key \notin DOMAIN forward
      <4> SUFFICES ASSUME key \in DOMAIN forward PROVE FALSE
        OBVIOUS
      <4>1. PICK u \in Threads : result[u] = "added" /\ Key(u) = key
        BY <2>1 DEF CInv, Prioritized
      <4>2. u # t /\ result'[u] = "added" /\ Key(u)' = Key(t)'
        BY <1>3, <3>1, <4>1 DEF key
      <4> QED BY <1>3, <4>2 DEF AddedOnce
    <3>4. CASE p = n + 1
      BY <2>1, <3>4 DEF Store
    <3>5. CASE p # n + 1
      <4>1. p \in DOMAIN backward /\ backward'[p] = backward[p]
        BY <2>1, <3>5 DEF Store
      <4>2. backward[p] \in DOMAIN forward /\ forward[backward[p]] = p
        BY <2>1, <3>2, <4>1 DEF CInv, NoneStale
      <4> QED BY <2>1, <3>3, <4>1, <4>2 DEF Store
    <3> QED BY <3>4, <3>5
  <2>7. VictimIsOldest'
    <3>1. \A u \in Threads : pc'[u] # "remove"
      BY <1>2, <1>3, <2>1 DEF CInv, Owners
    <3> QED BY <3>1 DEF VictimIsOldest
  <2> QED BY <2>3, <2>4, <2>5, <2>6, <2>7
<1>12. (Newest /\ Recorded /\ ForwardBacked /\ NoneStale /\ VictimIsOldest)'
  BY <1>11 DEF Newest, Recorded, ForwardBacked, NoneStale, VictimIsOldest
<1> QED BY <1>5, <1>7, <1>8, <1>9, <1>10, <1>12 DEF CInv

LEMMA GetTouchKeeps ==
    ASSUME CInv, NEW t \in Threads, GetTouch(t)
    PROVE  CInv'
<1> DEFINE key == Key(t)
<1>1. PICK r \in inc_prio :
          IF key \in DOMAIN r[1]
          THEN LET old == r[1][key] % PrioMod IN
               /\ forward' = Store(r[1], key, r[3])
               /\ backward' = IF old \in DOMAIN r[2]
                              THEN Store(Remove(r[2], old), r[3], key) ELSE r[2]
               /\ prio' = r[3]
          ELSE forward' = r[1] /\ backward' = r[2] /\ prio' = r[3]
  BY DEF GetTouch
<1>2. /\ pc[t] = "touch" /\ owner = NoThread /\ NoThread \notin Threads
      /\ pc' = [pc EXCEPT ![t] = "fetch"]
      /\ uses' = Append(uses, key)
      /\ UNCHANGED <<op, target, result, owner, cached, null, bytes>>
  BY Constants DEF GetTouch, Goto, dataVars
<1>3. /\ pc'[t] = "fetch" /\ result[t] = "none"
      /\ \A u \in Threads : u # t => pc'[u] = pc[u]
      /\ key \in Keys
  BY <1>2 DEF CInv, TypeOK, Unfinished, Key
<1> HIDE DEF key
<1>4. /\ r[1] \in [DOMAIN forward -> 0..PrioMax] /\ DOMAIN forward \subseteq Keys
      /\ DOMAIN r[2] \subseteq 0..PrioMax /\ r[2] \in [DOMAIN r[2] -> Keys]
      /\ r[3] \in 0..PrioMax
  BY IncPrio DEF CInv, TypeOK
<1>5. TypeOK'
  <2>1. DOMAIN forward' \subseteq Keys /\ forward' \in [DOMAIN forward' -> 0..PrioMax]
    BY <1>1, <1>3, <1>4 DEF Store
  <2>2. DOMAIN backward' \subseteq 0..PrioMax /\ backward' \in [DOMAIN backward' -> Keys]
    <3>1. ASSUME NEW old
          PROVE  DOMAIN Remove(r[2], old) \subseteq DOMAIN r[2]
                 /\ Remove(r[2], old) \in [DOMAIN Remove(r[2], old) -> Keys]
      BY <1>4 DEF Remove, Restrict
    <3>2. ASSUME NEW f, DOMAIN f \subseteq 0..PrioMax, f \in [DOMAIN f -> Keys]
          PROVE  DOMAIN Store(f, r[3], key) \subseteq 0..PrioMax
                 /\ Store(f, r[3], key) \in [DOMAIN Store(f, r[3], key) -> Keys]
      BY <1>3, <1>4, <3>2 DEF Store
    <3>3. \/ backward' = r[2]
          \/ \E old : backward' = Store(Remove(r[2], old), r[3], key)
      BY <1>1
    <3> QED BY <1>4, <3>1, <3>2, <3>3
  <2>3. prio' \in 0..PrioMax
    BY <1>1, <1>4
  <2>4. pc' \in [Threads -> Places]
    BY <1>2 DEF CInv, TypeOK, Places
  <2>5. uses' \in Seq(Keys)
    BY <1>2, <1>3 DEF CInv, TypeOK
  <2> QED BY <1>2, <2>1, <2>2, <2>3, <2>4, <2>5 DEF CInv, TypeOK, Places, Results
<1>6. NoRemoves' = NoRemoves
  BY <1>2 DEF NoRemoves
<1>7. Owners' /\ Unfinished'
  BY <1>2, <1>3, <1>6 DEF CInv, Owners, Unfinished
<1>8. Kept' /\ GetReturnsChunk'
  BY <1>2, <1>3, <1>6 DEF CInv, Kept, GetReturnsChunk, Key
<1> DEFINE n == Len(uses)
<1>9. /\ n \in Nat /\ Counted' /\ Len(uses)' = n + 1
      /\ Regular' => /\ Regular /\ NoRemoves /\ n + 1 < PrioMod
                     /\ r[1] = forward /\ r[2] = backward /\ r[3] = n + 1
  <2>1. prio' = r[3]
    BY <1>1
  <2> QED BY <1>2, <1>3, <2>1, UseCounts
<1> HIDE DEF n
<1>10. Prioritized'
  <2>1. DOMAIN forward' = DOMAIN forward
    BY <1>1, <1>4 DEF Store
  <2>2. \A u \in Threads : Key(u)' = Key(u)
    BY <1>2 DEF Key
  <2> QED BY <1>2, <1>6, <2>1, <2>2 DEF CInv, Prioritized
<1>11. ASSUME Regular'
       PROVE  (Newest /\ Recorded /\ ForwardBacked /\ NoneStale /\ VictimIsOldest)'
  <2>1. Regular /\ NoRemoves /\ n + 1 < PrioMod
    BY <1>9, <1>11
  <2>2. /\ \A p \in DOMAIN backward : p \in Nat /\ p <= n
        /\ \A k \in DOMAIN forward : forward[k] \in DOMAIN backward /\ backward[forward[k]] = k
    BY <2>1, Constants DEF CInv, Newest, ForwardBacked, TypeOK, n
  <2>3. key \in DOMAIN forward
    BY <1>2, <2>1 DEF CInv, Kept, Prioritized, key
  <2> DEFINE old == forward[key]
             rest == Remove(backward, old)
  <2>4. old % PrioMod = old /\ old \in DOMAIN backward
    <3>1. old \in Nat /\ old < PrioMod /\ PrioMod \in Nat
      BY <1>9, <2>1, <2>2, <2>3, Constants
    <3>2. \A a, m \in Nat : a < m => a % m = a
      BY Z3T(30)
    <3> QED BY <2>2, <2>3, <3>1, <3>2
  <2>5. forward' = Store(forward, key, n + 1) /\ backward' = Store(rest, n + 1, key)
    BY <1>1, <1>9, <1>11, <2>3, <2>4
  <2>6. DOMAIN rest = DOMAIN backward \ {old} /\ \A p \in DOMAIN rest : rest[p] = backward[p]
    BY DEF Remove, Restrict
  <2> HIDE DEF old, rest
  <2>7. Newest'
    BY <1>9, <2>2, <2>5, <2>6 DEF Newest, Store
  <2>8. Recorded'
    BY <1>2, <1>3, <2>1, <2>5, UseRecorded DEF n
  <2>9. ForwardBacked'
    <3> SUFFICES ASSUME NEW k \in DOMAIN forward'
                 PROVE  forward'[k] \in DOMAIN backward' /\ backward'[forward'[k]] = k
      BY DEF ForwardBacked
    <3>1. CASE k = key
      BY <2>5, <3>1 DEF Store
    <3>2. CASE k # key
      <4>1. k \in DOMAIN forward /\ forward'[k] = forward[k]
        BY <2>5, <3>2 DEF Store
      <4>2. forward[k] # old
        BY <2>2, <2>3, <3>2, <4>1 DEF old
      <4>3. forward[k] \in DOMAIN rest /\ forward[k] # n + 1
        BY <1>9, <2>2, <2>6, <4>1, <4>2
      <4> QED BY <2>2, <2>5, <2>6, <4>1, <4>3 DEF Store
    <3> QED BY <3>1, <3>2
  <2>10. NoneStale'
    <3> SUFFICES ASSUME AddedOnce', NEW p \in DOMAIN backward'
                 PROVE  backward'[p] \in DOMAIN forward' /\ forward'[backward'[p]] = p
      BY DEF NoneStale
    <3>1. AddedOnce
      BY <1>2 DEF AddedOnce, Key
    <3>2. CASE p = n + 1
      BY <2>5, <3>2 DEF Store
    <3>3. CASE p # n + 1
      <4>1. p \in DOMAIN rest /\ backward'[p] = backward[p]
        BY <2>5, <2>6, <3>3 DEF Store
      <4>2. backward[p] \in DOMAIN forward /\ forward[backward[p]] = p
        BY <2>1, <2>6, <3>1, <4>1 DEF CInv, NoneStale
      <4>3. backward[p] # key
        BY <2>6, <4>1, <4>2 DEF old
      <4> QED BY <2>5, <4>1, <4>2, <4>3 DEF Store
    <3> QED BY <3>2, <3>3
  <2>11. VictimIsOldest'
    <3>1. \A u \in Threads : pc'[u] # "remove"
      BY <1>2, <1>3, <2>1 DEF CInv, Owners
    <3> QED BY <3>1 DEF VictimIsOldest
  <2> QED BY <2>7, <2>8, <2>9, <2>10, <2>11
<1>12. (Newest /\ Recorded /\ ForwardBacked /\ NoneStale /\ VictimIsOldest)'
  BY <1>11 DEF Newest, Recorded, ForwardBacked, NoneStale, VictimIsOldest
<1> QED BY <1>5, <1>7, <1>8, <1>9, <1>10, <1>12 DEF CInv

LEMMA GetFetchKeeps ==
    ASSUME CInv, NEW t \in Threads, GetFetch(t)
    PROVE  CInv'
<1> DEFINE x == IF Key(t) \in null' THEN "null" ELSE "chunk"
<1>1. /\ pc[t] = "fetch"
      /\ pc' = [pc EXCEPT ![t] = "done"] /\ result' = [result EXCEPT ![t] = x]
      /\ cached' = cached \cup {Key(t)}
      /\ null' = IF Key(t) \in cached THEN null ELSE null \cup {Key(t)}
      /\ UNCHANGED <<op, target, owner, bytes, forward, backward, prio, uses>>
  BY DEF GetFetch, Done, Goto, prioVars
<1>2. /\ x \in {"null", "chunk"} /\ Key(t) \in Keys
      /\ pc'[t] = "done" /\ result'[t] = x
      /\ \A u \in Threads : u # t => pc'[u] = pc[u] /\ result'[u] = result[u]
  BY <1>1 DEF CInv, TypeOK, Key
<1> HIDE DEF x
<1>3. TypeOK'
  <2>1. /\ pc' \in [Threads -> Places] /\ result' \in [Threads -> Results]
        /\ cached' \in SUBSET Keys /\ null' \in SUBSET cached'
    BY <1>1, <1>2 DEF CInv, TypeOK, Places, Results
  <2> QED BY <1>1, <2>1 DEF CInv, TypeOK, Places, Results
<1>4. NoRemoves' = NoRemoves
  BY <1>1 DEF NoRemoves
<1>5. Owners' /\ Unfinished'
  BY <1>1, <1>2, <1>4 DEF CInv, Owners, Unfinished
<1>6. Kept' /\ GetReturnsChunk'
  <2>1. NoRemoves => null' = {} /\ x = "chunk"
    BY <1>1 DEF CInv, Kept, x
  <2> QED BY <1>1, <1>2, <1>4, <2>1 DEF CInv, Kept, GetReturnsChunk, Key
<1>7. Counted' /\ Regular' = Regular
  BY <1>1, <1>4 DEF CInv, Counted, Regular
<1>8. /\ AddedOnce' => AddedOnce
      /\ NoRemoves => cached' = cached
      /\ \A u \in Threads : Key(u)' = Key(u) /\ (result[u] = "added" => result'[u] = "added")
  <2>1. \A u \in Threads : Key(u)' = Key(u) /\ (result[u] = "added" => result'[u] = "added")
    BY <1>1, <1>2 DEF CInv, Unfinished, Key
  <2>2. NoRemoves => cached' = cached
    BY <1>1 DEF CInv, Kept
  <2> QED BY <2>1, <2>2 DEF AddedOnce
<1>9. (Newest /\ Recorded /\ ForwardBacked /\ NoneStale /\ Prioritized)'
  <2>1. (Newest /\ Recorded /\ ForwardBacked /\ NoneStale)'
    BY <1>1, <1>7, <1>8 DEF CInv, Newest, Recorded, ForwardBacked, NoneStale
  <2>2. Prioritized'
    BY <1>1, <1>4, <1>8 DEF CInv, Prioritized
  <2> QED BY <2>1, <2>2
<1>10. VictimIsOldest'
  <2> SUFFICES ASSUME Regular, AddedOnce, NEW u \in Threads, pc'[u] = "remove", cached' # {}
               PROVE  /\ target[u] \in cached'
                      /\ \A k \in cached' \ {target[u]} : UsedSince(k, target[u])
    BY <1>1, <1>7, <1>8 DEF VictimIsOldest, UsedSince
  <2>1. pc[u] = "remove" /\ cached' = cached
    BY <1>2, <1>8 DEF Regular
  <2> QED BY <2>1 DEF CInv, VictimIsOldest
<1> QED BY <1>3, <1>5, <1>6, <1>7, <1>9, <1>10 DEF CInv

\* Only a client that removes chunks gets here.
LEMMA RemoveEraseKeeps ==
    ASSUME CInv, NEW t \in Threads, RemoveErase(t)
    PROVE  CInv'
<1>1. /\ pc[t] = "erase" /\ target[t] \notin null
      /\ pc' = [pc EXCEPT ![t] = "done"] /\ result' = [result EXCEPT ![t] = "removed"]
      /\ cached' = cached \ {target[t]} /\ owner' = NoThread
      /\ bytes' = IF target[t] \in cached THEN bytes - Size[target[t]] ELSE bytes
      /\ \E p : backward' = Remove(backward, p)
      /\ forward' = Remove(forward, target[t])
      /\ UNCHANGED <<op, target, null, prio, uses>>
  BY DEF RemoveErase, Done, Goto
<1>2. /\ pc'[t] = "done" /\ result'[t] = "removed" /\ result[t] = "none"
      /\ \A u \in Threads : u # t => pc'[u] = pc[u] /\ result'[u] = result[u]
  BY <1>1 DEF CInv, TypeOK, Unfinished
<1>3. TypeOK'
  <2>1. DOMAIN forward' \subseteq Keys /\ forward' \in [DOMAIN forward' -> 0..PrioMax]
    BY <1>1 DEF CInv, TypeOK, Remove, Restrict
  <2>2. DOMAIN backward' \subseteq 0..PrioMax /\ backward' \in [DOMAIN backward' -> Keys]
    BY <1>1 DEF CInv, TypeOK, Remove, Restrict
  <2>3. bytes' \in Int
    <3>1. target[t] \in cached => Size[target[t]] \in Nat
      BY Constants DEF CInv, TypeOK
    <3> QED BY <1>1, <3>1 DEF CInv, TypeOK
  <2>4. /\ pc' \in [Threads -> Places] /\ result' \in [Threads -> Results]
        /\ cached' \in SUBSET Keys /\ null' \in SUBSET cached'
    BY <1>1 DEF CInv, TypeOK, Places, Results
  <2> QED BY <1>1, <2>1, <2>2, <2>3, <2>4 DEF CInv, TypeOK, Places, Results
<1>4. ~NoRemoves /\ ~NoRemoves'
  BY <1>1 DEF CInv, Owners, NoRemoves
<1>5. Owners' /\ Unfinished' /\ Kept' /\ GetReturnsChunk'
  <2>1. NoThread \notin Threads
    BY Constants
  <2> QED BY <1>1, <1>2, <1>4, <2>1 DEF CInv, Owners, Unfinished, Kept, GetReturnsChunk
<1>6. Counted'
  BY <1>1 DEF CInv, Counted
<1>7. (Newest /\ Recorded /\ Prioritized /\ ForwardBacked /\ NoneStale /\ VictimIsOldest)'
  BY <1>4 DEF Newest, Recorded, Prioritized, ForwardBacked, NoneStale, VictimIsOldest, Regular
<1> QED BY <1>3, <1>5, <1>6, <1>7 DEF CInv

LEMMA NextCInv == CInv /\ [Next]_vars => CInv'
<1> SUFFICES ASSUME CInv, [Next]_vars PROVE CInv'
  OBVIOUS
<1>1. ASSUME NEW t \in Threads, Step(t) PROVE CInv'
  BY <1>1, WaysKeep, AddInsertKeeps, RemoveEraseKeeps, GetTouchKeeps, GetFetchKeeps DEF Step
<1>2. CASE UNCHANGED vars
  BY <1>2
     DEF vars, callVars, dataVars, prioVars, CInv, TypeOK, Owners, Unfinished, Kept, GetReturnsChunk,
         Counted, Newest, Recorded, Prioritized, ForwardBacked, NoneStale, VictimIsOldest,
         Regular, AddedOnce, UsedSince, NoRemoves, Key
<1> QED BY <1>1, <1>2 DEF Next

\* The cache keeps the invariant, whatever calls are made.
THEOREM Invariance == Spec => []CInv
BY InitCInv, NextCInv, PTL DEF Spec

\* The state of the cache is well-formed; in particular priorities fit their type.
THEOREM TypeCorrect == Spec => []TypeOK
<1>1. CInv => TypeOK
  BY DEF CInv
<1> QED BY <1>1, Invariance, PTL

\* As long as nobody but the cache removes chunks, a get that does not throw returns a chunk.
THEOREM NoNullChunk == Spec => []GetReturnsChunk
<1>1. CInv => GetReturnsChunk
  BY DEF CInv
<1> QED BY <1>1, Invariance, PTL

\* Every chunk can be chosen for eviction, until the counters wrap around.
THEOREM PrioritiesAgree == Spec => []ForwardBacked
<1>1. CInv => ForwardBacked
  BY DEF CInv
<1> QED BY <1>1, Invariance, PTL

\* The chunk that add chooses for eviction is the one whose last use, by add or by get, is
\* the first, until the counters wrap around or two calls add one chunk at once.
THEOREM OldestChosen == Spec => []VictimIsOldest
<1>1. CInv => VictimIsOldest
  BY DEF CInv
<1> QED BY <1>1, Invariance, PTL


-------------------------------------------------------------------------------
\* The sum of sizes.  SumFunctionOnSet is a recursive function on the subsets of its
\* argument: Sums takes all of Keys, and there is a function that has its equation up to
\* any cardinality, as the smallest one for which there were none shows.

Pick(s) == CHOOSE k \in s : TRUE
Equation(g, s) == IF s = {} THEN 0 ELSE Size[Pick(s)] + g[s \ {Pick(s)}]
Sums(S) == CHOOSE g : g = [s \in SUBSET S |-> Equation(g, s)]

LEMMA SumIsSums ==
    ASSUME NEW S
    PROVE SumFunctionOnSet(Size, S) = Sums(S)[S]
BY DEF SumFunctionOnSet, FoldFunctionOnSet, MapThenFoldSet, Sums, Equation, Pick

\* A set of numbers has a least member.
LEMMA Smallest ==
    ASSUME NEW S \in SUBSET Nat, S # {}
    PROVE  \E n \in S : \A m \in S : n <= m
BY LeastExists

LEMMA OneLess ==
    ASSUME NEW s \in SUBSET Keys, NEW k \in s
    PROVE  /\ s \ {k} \in SUBSET Keys /\ IsFiniteSet(s)
           /\ Cardinality(s) \in Nat /\ Cardinality(s \ {k}) \in Nat
           /\ Cardinality(s \ {k}) = Cardinality(s) - 1
<1>1. IsFiniteSet(s)
  BY Constants, FS_Subset
<1>2. Cardinality(s \ {k}) = Cardinality(s) - 1
  BY <1>1, FS_RemoveElement
<1>3. IsFiniteSet(s \ {k})
  BY <1>1, FS_Subset
<1> QED BY <1>1, <1>2, <1>3, FS_CardinalityType

LEMMA PickIn ==
    ASSUME NEW s, s # {}
    PROVE  Pick(s) \in s
BY DEF Pick

\* A function with the equation up to cardinality n.
UpTo(n, g) ==
    /\ g = [s \in SUBSET Keys |-> g[s]]
    /\ \A s \in SUBSET Keys : Cardinality(s) <= n => g[s] = Equation(g, s)

LEMMA UpToNext ==
    ASSUME NEW n \in Nat, NEW g, UpTo(n, g)
    PROVE  \E h : UpTo(n + 1, h)
<1> DEFINE h == [s \in SUBSET Keys |-> Equation(g, s)]
<1>1. ASSUME NEW s \in SUBSET Keys, Cardinality(s) <= n + 1
      PROVE  h[s] = Equation(h, s)
  <2>1. CASE s = {}
    BY <2>1 DEF Equation
  <2>2. CASE s # {}
    <3> DEFINE k == Pick(s)
               r == s \ {k}
    <3>1. k \in s
      BY <2>2, PickIn
    <3> HIDE DEF k
    <3>2. r \in SUBSET Keys /\ Cardinality(r) <= n
      BY <1>1, <3>1, OneLess
    <3>3. h[r] = Equation(g, r) /\ g[r] = Equation(g, r)
      BY <3>2 DEF UpTo
    <3>4. h[s] = Size[k] + g[r] /\ Equation(h, s) = Size[k] + h[r]
      BY <2>2 DEF Equation, k
    <3> QED BY <3>3, <3>4
  <2> QED BY <2>1, <2>2
<1>2. h = [s \in SUBSET Keys |-> h[s]]
  OBVIOUS
<1> HIDE DEF h
<1>3. UpTo(n + 1, h)
  BY <1>1, <1>2 DEF UpTo
<1> QED BY <1>3

LEMMA UpToAny ==
    ASSUME NEW n \in Nat
    PROVE  \E g : UpTo(n, g)
<1> DEFINE B == {m \in Nat : ~ \E g : UpTo(m, g)}
<1>1. SUFFICES ASSUME B # {} PROVE FALSE
  OBVIOUS
<1>2. PICK m \in B : \A l \in B : m <= l
  <2>1. B \in SUBSET Nat
    OBVIOUS
  <2> HIDE DEF B
  <2> QED BY <1>1, <2>1, Smallest
<1>3. \E g : UpTo(0, g)
  <2> DEFINE g == [s \in SUBSET Keys |-> 0]
  <2>1. ASSUME NEW s \in SUBSET Keys, Cardinality(s) <= 0
        PROVE  g[s] = Equation(g, s)
    <3>1. IsFiniteSet(s)
      BY Constants, FS_Subset
    <3>2. s = {}
      BY <2>1, <3>1, FS_EmptySet, FS_CardinalityType
    <3> QED BY <3>2 DEF Equation
  <2>2. UpTo(0, g)
    BY <2>1 DEF UpTo
  <2> QED BY <2>2
<1>4. m # 0
  BY <1>3
<1>5. m - 1 \in Nat /\ m - 1 \notin B
  BY <1>2, <1>4
<1>6. PICK g : UpTo(m - 1, g)
  BY <1>5
<1>7. \E h : UpTo(m, h)
  <2>1. m - 1 \in Nat /\ (m - 1) + 1 = m
    BY <1>2, <1>5
  <2> QED BY <1>6, <2>1, UpToNext
<1> QED BY <1>2, <1>7

Total == Sums(Keys)

LEMMA TotalIs ==
    /\ Total = [s \in SUBSET Keys |-> Total[s]]
    /\ \A s \in SUBSET Keys : Total[s] = Equation(Total, s)
<1>1. Cardinality(Keys) \in Nat /\ \A s \in SUBSET Keys : Cardinality(s) <= Cardinality(Keys)
  BY Constants, FS_Subset
<1>2. PICK g : UpTo(Cardinality(Keys), g)
  BY <1>1, UpToAny
<1>3. g = [s \in SUBSET Keys |-> Equation(g, s)]
  BY <1>1, <1>2 DEF UpTo
<1>4. Total = [s \in SUBSET Keys |-> Equation(Total, s)]
  BY <1>3 DEF Total, Sums
<1> QED BY <1>4

\* A part of Total has the equation on its own domain, and it is the only function with it.
LEMMA SumIsTotal ==
    ASSUME NEW S \in SUBSET Keys
    PROVE  SumFunctionOnSet(Size, S) = Total[S]
<1> DEFINE g == [s \in SUBSET S |-> Total[s]]
           h == Sums(S)
<1>1. \A s \in SUBSET S : g[s] = Equation(g, s)
  <2> SUFFICES ASSUME NEW s \in SUBSET S PROVE g[s] = Equation(g, s)
    OBVIOUS
  <2>1. g[s] = Equation(Total, s)
    BY TotalIs
  <2>2. s # {} => s \ {Pick(s)} \in SUBSET S
    OBVIOUS
  <2> QED BY <2>1, <2>2 DEF Equation
<1>2. g = [s \in SUBSET S |-> Equation(g, s)]
  BY <1>1
<1> HIDE DEF g
<1>3. h = [s \in SUBSET S |-> Equation(h, s)]
  BY <1>2 DEF Sums
<1>4. \A s \in SUBSET S : h[s] = Total[s]
  <2> DEFINE Wrong == {s \in SUBSET S : h[s] # Total[s]}
             B     == {Cardinality(s) : s \in Wrong}
  <2> SUFFICES ASSUME Wrong # {} PROVE FALSE
    OBVIOUS
  <2>1. B # {} /\ B \in SUBSET Nat
    <3>1. \A s \in Wrong : IsFiniteSet(s)
      BY Constants, FS_Subset
    <3> QED BY <3>1, FS_CardinalityType
  <2>2. PICK w \in Wrong : \A s \in Wrong : Cardinality(w) <= Cardinality(s)
    <3> HIDE DEF Wrong
    <3>1. PICK n \in B : \A m \in B : n <= m
      <4> HIDE DEF B
      <4> QED BY <2>1, Smallest
    <3> QED BY <3>1
  <2>3. w \in SUBSET Keys /\ w \in SUBSET S /\ h[w] # Total[w]
    OBVIOUS
  <2>4. h[w] = Equation(h, w) /\ Total[w] = Equation(Total, w)
    <3> HIDE DEF h, Wrong
    <3> QED BY <1>3, <2>3, TotalIs
  <2>5. w # {}
    BY <2>3, <2>4 DEF Equation
  <2> DEFINE r == w \ {Pick(w)}
  <2>6. Pick(w) \in w
    BY <2>5, PickIn
  <2>7. r \notin Wrong
    BY <2>2, <2>3, <2>6, OneLess
  <2>8. h[r] = Total[r]
    BY <2>3, <2>7
  <2> QED BY <2>3, <2>4, <2>5, <2>8 DEF Equation
<1> QED BY <1>4, SumIsSums

\* The sum is a number, and every member contributes its size to it.
LEMMA TotalRemove ==
    ASSUME NEW s \in SUBSET Keys
    PROVE  /\ Total[s] \in Nat
           /\ \A k \in s : Total[s] = Size[k] + Total[s \ {k}]
<1> DEFINE Right(u) == Total[u] \in Nat /\ \A k \in u : Total[u] = Size[k] + Total[u \ {k}]
           Wrong    == {u \in SUBSET Keys : ~ Right(u)}
           B        == {Cardinality(u) : u \in Wrong}
<1> SUFFICES ASSUME Wrong # {} PROVE FALSE
  OBVIOUS
<1>1. B # {} /\ B \in SUBSET Nat
  <2>1. \A u \in Wrong : IsFiniteSet(u)
    BY Constants, FS_Subset
  <2> QED BY <2>1, FS_CardinalityType
<1>2. PICK w \in Wrong : \A u \in Wrong : Cardinality(w) <= Cardinality(u)
  <2> HIDE DEF Wrong
  <2>1. PICK n \in B : \A m \in B : n <= m
    <3> HIDE DEF B
    <3> QED BY <1>1, Smallest
  <2> QED BY <2>1
<1>3. w \in SUBSET Keys /\ ~ Right(w)
  OBVIOUS
<1>4. \A k \in w : Right(w \ {k})
  <2> SUFFICES ASSUME NEW k \in w PROVE Right(w \ {k})
    OBVIOUS
  <2>1. w \ {k} \in SUBSET Keys /\ ~ (Cardinality(w) <= Cardinality(w \ {k}))
    BY <1>3, OneLess
  <2> QED BY <1>2, <2>1
<1>5. Total[w] = Equation(Total, w)
  BY <1>3, TotalIs
<1>6. w # {}
  BY <1>3, <1>5 DEF Equation
<1> DEFINE x == Pick(w)
<1>7. x \in w /\ x \in Keys /\ Size[x] \in Nat
  BY <1>3, <1>6, PickIn, Constants
<1>8. Total[w] = Size[x] + Total[w \ {x}]
  BY <1>5, <1>6 DEF Equation
<1> HIDE DEF x
<1>9. Total[w] \in Nat
  BY <1>4, <1>7, <1>8
<1>10. ASSUME NEW k \in w PROVE Total[w] = Size[k] + Total[w \ {k}]
  <2>1. CASE k = x
    BY <1>8, <2>1
  <2>2. CASE k # x
    <3>1. k \in w \ {x} /\ x \in w \ {k} /\ (w \ {x}) \ {k} = (w \ {k}) \ {x}
      BY <1>7, <2>2
    <3>2. Total[w \ {x}] = Size[k] + Total[(w \ {x}) \ {k}]
      BY <1>4, <1>7, <3>1
    <3>3. Total[w \ {k}] = Size[x] + Total[(w \ {k}) \ {x}] /\ Total[w \ {k}] \in Nat
      BY <1>4, <3>1
    <3>4. Total[(w \ {x}) \ {k}] \in Int
      <4>1. Right((w \ {x}) \ {k})
        <5>1. (w \ {x}) \ {k} \in SUBSET Keys
          BY <1>3
        <5>2. Cardinality((w \ {x}) \ {k}) < Cardinality(w)
          <6>1. w \ {x} \in SUBSET Keys /\ Cardinality(w \ {x}) \in Nat
                /\ Cardinality(w \ {x}) = Cardinality(w) - 1 /\ Cardinality(w) \in Nat
            BY <1>3, <1>7, OneLess
          <6>2. Cardinality((w \ {x}) \ {k}) = Cardinality(w \ {x}) - 1
            BY <3>1, <6>1, OneLess
          <6> QED BY <6>1, <6>2
        <5>3. ~ (Cardinality(w) <= Cardinality((w \ {x}) \ {k}))
          BY <5>2, <5>1, <1>3, Constants, FS_Subset, FS_CardinalityType
        <5> QED BY <1>2, <5>1, <5>3
      <4> QED BY <4>1
    <3>5. Size[k] \in Nat
      BY <1>3, Constants
    <3> DEFINE both == Total[(w \ {x}) \ {k}]
    <3>6. Total[w] = Size[x] + (Size[k] + both) /\ Total[w \ {k}] = Size[x] + both
      BY <1>8, <3>1, <3>2, <3>3
    <3> HIDE DEF both, Right, Wrong
    <3> QED BY <1>7, <3>4, <3>5, <3>6 DEF both
  <2> QED BY <2>1, <2>2
<1> QED BY <1>3, <1>9, <1>10

\* The bytes of a set of chunks.
LEMMA SumOf ==
    ASSUME NEW S \in SUBSET Keys
    PROVE  /\ SumFunctionOnSet(Size, S) \in Nat
           /\ S = {} => SumFunctionOnSet(Size, S) = 0
           /\ \A k \in S : SumFunctionOnSet(Size, S)
                                = Size[k] + SumFunctionOnSet(Size, S \ {k})
<1>1. Total[{}] = 0
  BY TotalIs DEF Equation
<1>2. \A k \in S : S \ {k} \in SUBSET Keys
  OBVIOUS
<1> QED BY <1>1, <1>2, SumIsTotal, TotalRemove

-------------------------------------------------------------------------------
\* The limit.

\* The count errs on the side of the limit: add counts a chunk twice, and counts again what
\* is there already.  A call that is about to insert has seen the room and has held the
\* mutex since.
Room ==
    /\ CachedBytes <= bytes
    /\ WithinLimit
    /\ \A t \in Threads : pc[t] = "insert" => bytes + Size[Key(t)] <= MaxBytes

LEMMA BytesAre ==
    ASSUME TypeOK
    PROVE  /\ CachedBytes \in Nat /\ bytes \in Int /\ MaxBytes \in Nat
           /\ \A t \in Threads : Key(t) \in Keys /\ Size[Key(t)] \in Nat
           /\ cached \ null \in SUBSET Keys
<1>1. cached \ null \in SUBSET Keys
  BY DEF TypeOK
<1> QED BY <1>1, SumOf, Constants DEF CachedBytes, TypeOK, Key

\* A step that leaves the chunks and their count alone, and brings nobody to an insert
\* without room.
LEMMA IdleKeepsRoom ==
    ASSUME TypeOK, Room, bytes' = bytes, cached' \ null' = cached \ null, op' = op,
           \A t \in Threads : pc'[t] = "insert" =>
                pc[t] = "insert" \/ bytes + Size[Key(t)] <= MaxBytes
    PROVE  Room'
<1>1. CachedBytes' = CachedBytes
  BY DEF CachedBytes
<1>2. \A t \in Threads : Key(t)' = Key(t)
  BY DEF Key
<1> QED BY <1>1, <1>2 DEF Room, WithinLimit

LEMMA InsertKeepsRoom ==
    ASSUME CInv, Room, NEW t \in Threads, AddInsert(t)
    PROVE  Room'
<1> DEFINE k == Key(t)
           S == cached \ null
<1>1. /\ TypeOK /\ pc[t] = "insert" /\ bytes' = bytes + Size[k] + Size[k]
      /\ cached' \ null' = S \cup {k} /\ pc' = [pc EXCEPT ![t] = "done"] /\ op' = op
  BY DEF CInv, AddInsert, Done, Goto, Key
<1>2. k \in Keys /\ Size[k] \in Nat /\ S \in SUBSET Keys /\ CachedBytes \in Nat
      /\ bytes \in Int /\ MaxBytes \in Nat
  BY <1>1, BytesAre
<1>3. CachedBytes <= bytes /\ bytes + Size[k] <= MaxBytes
  BY <1>1 DEF Room
<1>4. CachedBytes' <= CachedBytes + Size[k]
  <2> HIDE DEF k, S
  <2>1. CachedBytes' = SumFunctionOnSet(Size, S \cup {k})
    BY <1>1 DEF CachedBytes
  <2>2. CachedBytes = SumFunctionOnSet(Size, S)
    BY DEF CachedBytes, S
  <2>3. CASE k \in S
    <3>1. S \cup {k} = S
      BY <2>3
    <3>2. CachedBytes' = CachedBytes
      BY <2>1, <2>2, <3>1, Zenon
    <3> QED BY <1>2, <3>2
  <2>4. CASE k \notin S
    <3>1. (S \cup {k}) \ {k} = S /\ k \in S \cup {k} /\ S \cup {k} \in SUBSET Keys
      BY <1>2, <2>4
    <3>2. SumFunctionOnSet(Size, S \cup {k})
            = Size[k] + SumFunctionOnSet(Size, (S \cup {k}) \ {k})
      BY <3>1, SumOf
    <3>3. CachedBytes' = Size[k] + CachedBytes
      BY <2>1, <2>2, <3>1, <3>2, Zenon
    <3> QED BY <1>2, <3>3
  <2> QED BY <2>3, <2>4
<1>5. \A u \in Threads : pc'[u] # "insert"
  <2> SUFFICES ASSUME NEW u \in Threads, pc'[u] = "insert" PROVE FALSE
    OBVIOUS
  <2>1. u # t /\ pc[u] = "insert"
    BY <1>1 DEF TypeOK
  <2>2. owner = u /\ owner = t
    BY <1>1, <2>1 DEF CInv, Owners
  <2> QED BY <2>1, <2>2
<1>6. CachedBytes' \in Nat
  <2>1. S \cup {k} \in SUBSET Keys
    BY <1>2
  <2> QED BY <1>1, <2>1, SumOf DEF CachedBytes
<1> HIDE DEF k
<1>7. CachedBytes' <= bytes' /\ CachedBytes' <= MaxBytes
  BY <1>1, <1>2, <1>3, <1>4, <1>6
<1> QED BY <1>5, <1>7 DEF Room, WithinLimit

LEMMA EraseKeepsRoom ==
    ASSUME CInv, Room, NEW t \in Threads, RemoveErase(t)
    PROVE  Room'
<1> DEFINE k == target[t]
           S == cached \ null
<1>1. /\ TypeOK /\ pc[t] = "erase" /\ pc' = [pc EXCEPT ![t] = "done"] /\ op' = op
      /\ k \notin null /\ null' = null /\ cached' = cached \ {k}
      /\ bytes' = IF k \in cached THEN bytes - Size[k] ELSE bytes
  BY DEF CInv, RemoveErase, Done, Goto
<1>2. S \in SUBSET Keys /\ CachedBytes \in Nat /\ bytes \in Int /\ MaxBytes \in Nat
  BY <1>1, BytesAre
<1>3. CachedBytes <= bytes /\ CachedBytes <= MaxBytes
  BY DEF Room, WithinLimit
<1>4. \A u \in Threads : pc'[u] # "insert"
  <2> SUFFICES ASSUME NEW u \in Threads, pc'[u] = "insert" PROVE FALSE
    OBVIOUS
  <2>1. u # t /\ pc[u] = "insert"
    BY <1>1 DEF TypeOK
  <2>2. owner = u /\ owner = t
    BY <1>1, <2>1 DEF CInv, Owners
  <2> QED BY <2>1, <2>2
<1>5. CachedBytes' <= bytes' /\ CachedBytes' <= MaxBytes
  <2> HIDE DEF k
  <2>1. cached' \ null' = S \ {k} /\ (k \in S <=> k \in cached)
    BY <1>1
  <2> HIDE DEF S
  <2>2. CachedBytes' = SumFunctionOnSet(Size, S \ {k})
    BY <2>1 DEF CachedBytes
  <2>3. CachedBytes = SumFunctionOnSet(Size, S)
    BY DEF CachedBytes, S
  <2>4. CASE k \in S
    <3>1. CachedBytes = Size[k] + CachedBytes' /\ Size[k] \in Nat
      BY <1>2, <2>2, <2>3, <2>4, SumOf, Constants
    <3>2. S \ {k} \in SUBSET Keys
      BY <1>2
    <3>3. CachedBytes' \in Nat
      BY <2>2, <3>2, SumOf
    <3>4. bytes' = bytes - Size[k]
      BY <1>1, <2>1, <2>4
    <3> QED BY <1>2, <1>3, <3>1, <3>3, <3>4
  <2>5. CASE k \notin S
    <3>1. S \ {k} = S
      BY <2>5
    <3>2. CachedBytes' = CachedBytes /\ bytes' = bytes
      BY <1>1, <2>1, <2>2, <2>3, <2>5, <3>1
    <3> QED BY <1>3, <3>2
  <2> QED BY <2>4, <2>5
<1> QED BY <1>4, <1>5 DEF Room, WithinLimit

LEMMA NextKeepsRoom ==
    ASSUME CInv, Room, [Next]_vars
    PROVE  Room'
<1>1. TypeOK
  BY DEF CInv
<1>2. CASE UNCHANGED vars
  BY <1>1, <1>2, IdleKeepsRoom DEF vars, callVars, dataVars
<1>3. ASSUME NEW t \in Threads, Step(t) PROVE Room'
  <2>1. CASE AddRoom(t)
    <3>1. bytes \in Int /\ MaxBytes \in Nat /\ Size[Key(t)] \in Nat
      BY <1>1, BytesAre
    <3>2. \/ pc' = [pc EXCEPT ![t] = "remove"]
          \/ pc' = [pc EXCEPT ![t] = "insert"] /\ ~ (bytes + Size[Key(t)] > MaxBytes)
      BY <2>1 DEF AddRoom, Goto
    <3>3. \A u \in Threads : pc'[u] = "insert" =>
                pc[u] = "insert" \/ bytes + Size[Key(u)] <= MaxBytes
      BY <1>1, <3>1, <3>2 DEF TypeOK
    <3>4. bytes' = bytes /\ cached' = cached /\ null' = null /\ op' = op
      BY <2>1 DEF AddRoom, dataVars
    <3> QED BY <1>1, <3>3, <3>4, IdleKeepsRoom
  <2>2. CASE GetFetch(t)
    <3>1. cached' \ null' = cached \ null
      BY <1>1, <2>2 DEF GetFetch, TypeOK
    <3> QED BY <1>1, <2>2, <3>1, IdleKeepsRoom DEF GetFetch, Done, Goto, TypeOK
  <2>3. CASE GetTouch(t)
    BY <1>1, <2>3, IdleKeepsRoom DEF GetTouch, Goto, TypeOK, dataVars
  <2>4. CASE AddHas(t) \/ GetHas(t)
    BY <1>1, <2>4, IdleKeepsRoom DEF AddHas, GetHas, Done, Goto, TypeOK, dataVars
  <2>5. CASE AddLock(t) \/ RemoveCall(t) \/ RemoveLock(t)
    BY <1>1, <2>5, IdleKeepsRoom DEF AddLock, RemoveCall, RemoveLock, Goto, TypeOK, dataVars
  <2> QED BY <1>3, <2>1, <2>2, <2>3, <2>4, <2>5, InsertKeepsRoom, EraseKeepsRoom DEF Step
<1> QED BY <1>2, <1>3 DEF Next

\* The chunks in the cache never take more memory than configured, whatever threads add,
\* remove and get at the same time, and though add counts every chunk twice.
THEOREM LimitHolds == Spec => []WithinLimit
<1>1. Init => Room
  <2> SUFFICES ASSUME Init PROVE Room
    OBVIOUS
  <2>1. CachedBytes = SumFunctionOnSet(Size, {}) /\ bytes = 0
    BY DEF Init, CachedBytes
  <2>2. CachedBytes = 0
    BY <2>1, SumOf
  <2> QED BY <2>1, <2>2, Constants DEF Init, Room, WithinLimit
<1>2. CInv /\ Room /\ [Next]_vars => Room'
  BY NextKeepsRoom
<1>3. Room => WithinLimit
  BY DEF Room
<1> QED BY <1>1, <1>2, <1>3, Invariance, PTL DEF Spec
=================================================================================
