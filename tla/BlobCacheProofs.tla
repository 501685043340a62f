--------------------------- MODULE BlobCacheProofs ---------------------------
(***************************************************************************)
(* For any number of backends, keys, shards and entries: the bytes behind  *)
(* a pin stay where they are, a key is cached once, and the byte counts    *)
(* are those of the entries. CacheInv is the inductive invariant of the    *)
(* first two. Lookup, pin, release, the checks of insert and the search of *)
(* eviction leave the lists alone; most of them leave all of the shared    *)
(* state alone, and for those QuietStep leaves to show only what the       *)
(* backend itself knows next. The new entry and the eviction of one follow.*)
(***************************************************************************)
EXTENDS BlobCache, FiniteSetTheorems, TLAPS

Places == {"idle", "missed", "hit"} \cup Exclusive

\* A position in an LRU list is in its domain.
LEMMA ListDomain ==
  ASSUME NEW S, NEW l \in Seq(S), NEW i \in 1 .. Len(l) PROVE i \in DOMAIN l
OBVIOUS

\* The part of TypeOK the argument needs.
CacheTypes ==
  /\ live \subseteq Ptrs
  /\ key \in [Ptrs -> Keys \cup {NoKey}] /\ pin \in [Ptrs -> Nat]
  /\ lru \in [Shards -> Seq(Ptrs)]
  /\ pc \in [Backends -> Places]
  /\ arg \in [Backends -> Keys \cup {NoKey}]
  /\ tgt \in [Backends -> Ptrs \cup {NoPtr}]
  /\ cur \in [Backends -> Nat]
  /\ pins \in [Backends -> SUBSET (Ptrs \X Keys)]

\* A step of b leaves the other backends where they are ...
OthersStay(b) ==
  \A c \in Backends \ {b} :
    /\ pc'[c] = pc[c] /\ arg'[c] = arg[c] /\ tgt'[c] = tgt[c]
    /\ cur'[c] = cur[c] /\ pins'[c] = pins[c]

\* ... and goes only where b may have the lock.
LocksRightly(b) ==
  \/ pc'[b] \in {"idle", "missed"}
  \/ pc'[b] = "hit" /\ CanLockShared(b, ShardOf[arg'[b]])
  \/ pc'[b] \in Exclusive /\ CanLockExclusive(b, ShardOf[arg'[b]])

AllLocksOk == \A c \in Backends : LockOk(c)

\* Exclusive holders stay alone: a reader waits for them, a writer for both.
LEMMA LocksExclude ==
  ASSUME CacheTypes, AllLocksOk, NEW b \in Backends, OthersStay(b), LocksRightly(b)
  PROVE  AllLocksOk'
<1>1. SUFFICES ASSUME NEW c \in Backends, pc'[c] \in Exclusive,
                      NEW d \in Backends \ {c}, pc'[d] \in Exclusive \cup {"hit"}
               PROVE  ShardOf[arg'[d]] # ShardOf[arg'[c]]
  BY DEF AllLocksOk, LockOk, CanLockExclusive, Locks
<1>2. CASE c = b
  <2>1. CanLockExclusive(b, ShardOf[arg'[b]])
    BY <1>1, <1>2 DEF LocksRightly, Exclusive
  <2>2. pc[d] = pc'[d] /\ arg[d] = arg'[d]
    BY <1>2 DEF OthersStay
  <2>3. QED
    BY <1>1, <1>2, <2>1, <2>2 DEF CanLockExclusive, Locks
<1>3. CASE c # b
  <2>1. pc[c] = pc'[c] /\ arg[c] = arg'[c]
    BY <1>3 DEF OthersStay
  <2>2. CASE d = b
    <3>1. \/ CanLockShared(b, ShardOf[arg'[b]])
          \/ CanLockExclusive(b, ShardOf[arg'[b]])
      BY <1>1, <2>2 DEF LocksRightly, Exclusive
    <3>2. QED
      BY <1>1, <1>3, <2>1, <2>2, <3>1 DEF CanLockExclusive, CanLockShared, Locks
  <2>3. CASE d # b
    <3>1. pc[d] = pc'[d] /\ arg[d] = arg'[d]
      BY <2>3 DEF OthersStay
    <3>2. CanLockExclusive(c, ShardOf[arg[c]])
      BY <1>1, <2>1 DEF AllLocksOk, LockOk
    <3>3. QED
      BY <1>1, <2>1, <3>1, <3>2 DEF CanLockExclusive, Locks
  <2>4. QED
    BY <2>2, <2>3
<1>4. QED
  BY <1>2, <1>3

\* Whoever pins p is a backend, so there are finitely many.
LEMMA HoldersFinite ==
  ASSUME CacheAssumption, NEW p
  PROVE  IsFiniteSet(Holders(p)) /\ Cardinality(Holders(p)) \in Nat
<1>1. Holders(p) \in SUBSET Backends
  BY DEF Holders
<1>2. IsFiniteSet(Holders(p))
  BY <1>1, FS_Subset DEF CacheAssumption
<1>3. QED
  BY <1>2, FS_CardinalityType

\* One pin more or less changes the number of holders by one at most.
LEMMA OneHolder ==
  ASSUME NEW S, IsFiniteSet(S), NEW x
  PROVE  /\ Cardinality(S) \in Nat
         /\ Cardinality(S \cup {x}) \in Nat /\ Cardinality(S \cup {x}) <= Cardinality(S) + 1
         /\ x \in S => /\ Cardinality(S \ {x}) \in Nat
                       /\ Cardinality(S \ {x}) = Cardinality(S) - 1
<1>1. Cardinality(S) \in Nat
  BY FS_CardinalityType
<1>2. /\ IsFiniteSet(S \cup {x})
      /\ Cardinality(S \cup {x}) = IF x \in S THEN Cardinality(S) ELSE Cardinality(S) + 1
  BY FS_AddElement
<1>3. /\ IsFiniteSet(S \ {x})
      /\ Cardinality(S \ {x}) = IF x \in S THEN Cardinality(S) - 1 ELSE Cardinality(S)
  BY FS_RemoveElement
<1>4. Cardinality(S \cup {x}) \in Nat /\ Cardinality(S \ {x}) \in Nat
  BY <1>2, <1>3, FS_CardinalityType
<1>5. QED
  BY <1>1, <1>2, <1>3, <1>4

\* A step that changes no entry and takes no pin: what b knows afterwards is all
\* there is to show.
QuietStep(b) ==
  /\ UNCHANGED <<live, key, pin, lru>>
  /\ OthersStay(b) /\ LocksRightly(b)
  /\ pins'[b] \subseteq pins[b]
  /\ StepOk(b)'

\* A step that changes no entry, list or count keeps the invariant.
LEMMA QuietKeeps ==
  ASSUME CacheAssumption, CacheTypes, CacheTypes', CacheInv,
         NEW b \in Backends, QuietStep(b)
  PROVE  CacheInv'
<1>1. AllLocksOk'
  BY LocksExclude DEF CacheInv, AllLocksOk, QuietStep
<1>2. \A c \in Backends : pins'[c] \subseteq pins[c]
  BY DEF QuietStep, OthersStay
<1>3. (\A p \in live : key[p] \in Keys)' /\ CachedOnce' /\ ListsLive'
  BY DEF CacheInv, CachedOnce, ListsLive, QuietStep
<1>4. PinnedAlive'
  BY <1>2 DEF CacheInv, PinnedAlive, QuietStep
<1>5. PinsCounted'
  <2>1. SUFFICES ASSUME NEW p \in live PROVE Cardinality(Holders(p)') <= pin[p]
    BY DEF PinsCounted, QuietStep
  <2>2. Holders(p)' \in SUBSET Holders(p)
    BY Zenon, <1>2 DEF Holders
  <2>3. IsFiniteSet(Holders(p)) /\ Cardinality(Holders(p)) \in Nat
    BY HoldersFinite
  <2>4. /\ IsFiniteSet(Holders(p)')
        /\ Cardinality(Holders(p)') <= Cardinality(Holders(p))
    BY <2>2, <2>3, FS_Subset
  <2>5. Cardinality(Holders(p)') \in Nat
    BY <2>4, FS_CardinalityType
  <2>6. Cardinality(Holders(p)) <= pin[p] /\ pin[p] \in Nat
    BY DEF CacheInv, PinsCounted, CacheTypes
  <2>7. QED
    BY <2>3, <2>4, <2>5, <2>6
<1>6. \A c \in Backends : StepOk(c)'
  <2>1. SUFFICES ASSUME NEW c \in Backends \ {b} PROVE StepOk(c)'
    BY DEF QuietStep
  <2>2. /\ pc'[c] = pc[c] /\ arg'[c] = arg[c] /\ tgt'[c] = tgt[c]
        /\ cur'[c] = cur[c] /\ pins'[c] = pins[c]
    BY DEF QuietStep, OthersStay
  <2>3. StepOk(c)
    BY DEF CacheInv
  <2>4. QED
    BY <2>2, <2>3 DEF StepOk, Holding, QuietStep
<1>7. QED
  BY <1>1, <1>3, <1>4, <1>5, <1>6 DEF CacheInv, AllLocksOk
(***************************************************************************)
(* The steps that change no entry.                                         *)
(***************************************************************************)
\* A lookup finds an entry while no insert has the shard.
LEMMA LookupKeeps ==
  ASSUME CacheAssumption, CacheTypes, CacheInv, NEW b \in Backends, NEW k \in Keys, Lookup(b, k)
  PROVE  CacheTypes' /\ CacheInv'
<1>1. CacheTypes'
  BY ZenonT(30) DEF CacheTypes, Lookup, Holding, shared, Places
<1>2. OthersStay(b) /\ UNCHANGED <<live, key, pin, lru>> /\ pins'[b] \subseteq pins[b]
  BY DEF CacheTypes, OthersStay, Lookup, Holding, shared, Places
<1>3. LocksRightly(b)
  BY DEF LocksRightly, Lookup, CacheTypes
<1>4. StepOk(b)'
  BY DEF StepOk, Lookup, Holding, CacheTypes, shared, Exclusive
<1>5. QED
  BY <1>1, <1>2, <1>3, <1>4, QuietKeeps DEF QuietStep

\* A backend that is done gives up its lock and knows nothing any more.
LEMMA DoneKeeps ==
  ASSUME CacheAssumption, CacheTypes, CacheInv, NEW b \in Backends, Done(b),
         UNCHANGED <<live, key, pin, lru>>,
         UNCHANGED pins \/ pins' = [pins EXCEPT ![b] = {}]
  PROVE  CacheTypes' /\ CacheInv'
<1>1. CacheTypes'
  BY Zenon DEF CacheTypes, Done, Places
<1>2. OthersStay(b) /\ pins'[b] \subseteq pins[b] /\ pc'[b] = "idle"
  BY DEF CacheTypes, OthersStay, Done
<1>3. LocksRightly(b) /\ StepOk(b)'
  BY <1>2 DEF LocksRightly, StepOk, Exclusive
<1>4. QED
  BY <1>1, <1>2, <1>3, QuietKeeps DEF QuietStep

\* An error forgets the pins, it never drops one twice.
LEMMA QueryErrorKeeps ==
  ASSUME CacheAssumption, CacheTypes, CacheInv, NEW b \in Backends, QueryError(b)
  PROVE  CacheTypes' /\ CacheInv'
BY Zenon, DoneKeeps DEF QueryError, shared

\* Nothing to insert.
LEMMA NoInsertKeeps ==
  ASSUME CacheAssumption, CacheTypes, CacheInv, NEW b \in Backends, NoInsert(b)
  PROVE  CacheTypes' /\ CacheInv'
BY DoneKeeps DEF NoInsert, shared

\* A step of an insert that keeps its lock.
Proceeds(b) ==
  /\ pc' = [pc EXCEPT ![b] = pc'[b]] /\ pc'[b] \in Exclusive
  /\ tgt' = [tgt EXCEPT ![b] = tgt'[b]] /\ tgt'[b] \in Ptrs \cup {NoPtr}
  /\ cur' = [cur EXCEPT ![b] = cur'[b]] /\ cur'[b] \in Nat
  /\ UNCHANGED <<live, key, pin, lru, arg, pins>>

\* So does a step under the exclusive lock that only moves its backend on.
LEMMA ProceedsKeeps ==
  ASSUME CacheAssumption, CacheTypes, CacheInv, NEW b \in Backends, Proceeds(b),
         CanLockExclusive(b, ShardOf[arg[b]]), StepOk(b)'
  PROVE  CacheTypes' /\ CacheInv'
<1>1. CacheTypes'
  BY Zenon DEF CacheTypes, Proceeds, Places
<1>2. OthersStay(b) /\ pins'[b] \subseteq pins[b]
  BY DEF CacheTypes, OthersStay, Proceeds
<1>3. LocksRightly(b)
  BY DEF LocksRightly, Proceeds
<1>4. QED
  BY <1>1, <1>2, <1>3, QuietKeeps DEF QuietStep, Proceeds

\* Under the exclusive lock the key is absent, or the insert ends.
LEMMA InsertLockKeeps ==
  ASSUME CacheAssumption, CacheTypes, CacheInv, NEW b \in Backends, InsertLock(b)
  PROVE  CacheTypes' /\ CacheInv'
<1>1. CASE Done(b)
  BY <1>1, DoneKeeps DEF InsertLock, shared
<1>2. CASE ~Done(b)
  <2>1. Proceeds(b) /\ pc'[b] = "check"
    BY <1>2 DEF InsertLock, CacheTypes, Proceeds, shared, Exclusive
  <2>2. StepOk(b) /\ Holding(arg[b]) = {} /\ pc[b] = "missed"
    BY <1>2 DEF InsertLock, CacheInv
  <2>3. StepOk(b)'
    BY <2>1, <2>2 DEF StepOk, Holding, Proceeds
  <2>4. QED
    BY <2>1, <2>3, ProceedsKeeps DEF InsertLock
<1>3. QED
  BY <1>1, <1>2

\* Eviction starts at the old end of the list.
LEMMA StartEvictionKeeps ==
  ASSUME CacheAssumption, CacheTypes, CacheInv, NEW b \in Backends,
         pc[b] \in Exclusive, NEW n, StartEviction(b, n), UNCHANGED <<shared, pins>>
  PROVE  CacheTypes' /\ CacheInv'
<1>1. StepOk(b) /\ CanLockExclusive(b, ShardOf[arg[b]])
  BY DEF CacheInv, LockOk
<1>2. arg[b] \in Keys /\ ShardOf[arg[b]] \in Shards
  BY <1>1 DEF StepOk, Exclusive, CacheAssumption
<1>3. Len(lru[ShardOf[arg[b]]]) \in Nat
  BY <1>2 DEF CacheTypes
<1>4. Proceeds(b) /\ pc'[b] = "evict" /\ cur'[b] = Len(lru[ShardOf[arg[b]]])
  BY <1>3 DEF StartEviction, CacheTypes, Proceeds, shared, Exclusive
<1>5. StepOk(b)'
  BY <1>1, <1>3, <1>4 DEF StepOk, Holding, Proceeds, Exclusive
<1>6. QED
  BY <1>1, <1>4, <1>5, ProceedsKeeps

\* The second lookup and the comparison with the soft cap.
LEMMA CheckKeeps ==
  ASSUME CacheAssumption, CacheTypes, CacheInv, NEW b \in Backends, Check(b)
  PROVE  CacheTypes' /\ CacheInv'
<1>1. StepOk(b) /\ CanLockExclusive(b, ShardOf[arg[b]]) /\ pc[b] \in Exclusive
  BY DEF CacheInv, LockOk, Check, Exclusive
<1>2. CASE \E n : StartEviction(b, n)
  BY <1>1, <1>2, StartEvictionKeeps DEF Check
<1>3. CASE ~\E n : StartEviction(b, n)
  <2>1. Proceeds(b) /\ pc'[b] = "alloc"
    BY <1>3 DEF Check, CacheTypes, Proceeds, shared, Exclusive
  <2>2. StepOk(b)'
    BY <1>1, <2>1 DEF StepOk, Holding, Proceeds, Exclusive
  <2>3. QED
    BY <1>1, <2>1, <2>2, ProceedsKeeps
<1>4. QED
  BY <1>2, <1>3

\* An allocation that fails starts an eviction.
LEMMA AllocFailsKeeps ==
  ASSUME CacheAssumption, CacheTypes, CacheInv, NEW b \in Backends, AllocFails(b)
  PROVE  CacheTypes' /\ CacheInv'
BY StartEvictionKeeps DEF AllocFails, Exclusive

\* An unpinned entry found by the scan is the one that will be freed.
LEMMA EvictScanKeeps ==
  ASSUME CacheAssumption, CacheTypes, CacheInv, NEW b \in Backends, EvictScan(b)
  PROVE  CacheTypes' /\ CacheInv'
<1> DEFINE h == ShardOf[arg[b]]
<1>1. StepOk(b) /\ CanLockExclusive(b, h) /\ pc[b] = "evict"
  BY DEF CacheInv, LockOk, EvictScan, Exclusive
<1>2. arg[b] \in Keys /\ h \in Shards /\ lru[h] \in Seq(Ptrs)
  BY <1>1 DEF StepOk, CacheAssumption, CacheTypes
<1>3. cur[b] \in Nat \ {0} /\ cur[b] <= Len(lru[h]) /\ lru[h][cur[b]] \in Ptrs
  BY <1>1, <1>2 DEF StepOk, EvictScan, CacheTypes
<1>4. Proceeds(b)
  BY <1>1, <1>3 DEF EvictScan, CacheTypes, Proceeds, shared, Exclusive
<1>5. /\ cur'[b] \in Nat /\ cur'[b] <= Len(lru[h])
      /\ \/ pc'[b] = "evict"
         \/ /\ pc'[b] = "free" /\ cur'[b] = cur[b] /\ tgt'[b] = lru[h][cur[b]]
            /\ pin[lru[h][cur[b]]] = 0
  BY <1>1, <1>2, <1>3 DEF EvictScan, CacheTypes
<1>6. StepOk(b)'
  BY <1>1, <1>3, <1>4, <1>5 DEF StepOk, Holding, Proceeds, Exclusive
<1>7. QED
  BY <1>1, <1>4, <1>6, ProceedsKeeps

\* The end of an eviction: insert tries again or gives up.
LEMMA EvictDoneKeeps ==
  ASSUME CacheAssumption, CacheTypes, CacheInv, NEW b \in Backends, EvictDone(b)
  PROVE  CacheTypes' /\ CacheInv'
<1>1. StepOk(b) /\ CanLockExclusive(b, ShardOf[arg[b]]) /\ pc[b] = "evict"
  BY DEF CacheInv, LockOk, EvictDone, Exclusive
<1>2. CASE Done(b)
  BY <1>2, DoneKeeps DEF EvictDone, shared
<1>3. CASE ~Done(b)
  <2>1. Proceeds(b) /\ pc'[b] = "check"
    BY <1>3 DEF EvictDone, CacheTypes, Proceeds, shared, Exclusive
  <2>2. StepOk(b)'
    BY <1>1, <2>1 DEF StepOk, Holding, Proceeds, Exclusive
  <2>3. QED
    BY <1>1, <2>1, <2>2, ProceedsKeeps
<1>4. QED
  BY <1>2, <1>3

(***************************************************************************)
(* The steps that count a pin, add an entry or free one.                   *)
(***************************************************************************)
\* A hit counts its pin before the shared lock is given back, so the entry it pins is
\* live, and no eviction of the shard has yet looked at it and found it unpinned.
LEMMA PinKeeps ==
  ASSUME CacheAssumption, CacheTypes, CacheInv, NEW b \in Backends, Pin(b)
  PROVE  CacheTypes' /\ CacheInv'
<1> DEFINE p == tgt[b]
<1>1. StepOk(b) /\ pc[b] = "hit"
  BY DEF CacheInv, Pin
<1>2. p \in live /\ p \in Ptrs /\ key[p] = arg[b] /\ arg[b] \in Keys /\ pin[p] \in Nat
  BY <1>1 DEF StepOk, CacheTypes
<1>3. CacheTypes'
  BY <1>2 DEF CacheTypes, Pin, Done, Places
<1>4. UNCHANGED <<live, key, lru>> /\ OthersStay(b) /\ pc'[b] = "idle"
  BY DEF CacheTypes, OthersStay, Pin, Done
<1>5. /\ pins'[b] = pins[b] \cup {<<p, arg[b]>>}
      /\ \A q \in Ptrs : pin'[q] = IF q = p THEN pin[q] + 1 ELSE pin[q]
  BY <1>2 DEF CacheTypes, Pin
<1>6. AllLocksOk'
  BY <1>4, LocksExclude DEF CacheInv, AllLocksOk, LocksRightly
<1>7. (\A q \in live : key[q] \in Keys)' /\ CachedOnce' /\ ListsLive'
  BY <1>4 DEF CacheInv, CachedOnce, ListsLive
<1>8. PinnedAlive'
  <2>1. SUFFICES ASSUME NEW c \in Backends, NEW q \in pins'[c]
                 PROVE  q[1] \in live /\ key[q[1]] = q[2]
    BY <1>4 DEF PinnedAlive
  <2>2. CASE q \in pins[c]
    BY <2>2 DEF CacheInv, PinnedAlive
  <2>3. CASE q \notin pins[c]
    BY <1>2, <1>4, <1>5, <2>1, <2>3 DEF OthersStay
  <2>4. QED
    BY <2>2, <2>3
<1>9. PinsCounted'
  <2>1. SUFFICES ASSUME NEW q \in live PROVE Cardinality(Holders(q)') <= pin'[q]
    BY <1>4 DEF PinsCounted
  <2>2. IsFiniteSet(Holders(q)) /\ Cardinality(Holders(q)) \in Nat
    BY HoldersFinite
  <2>3. Cardinality(Holders(q)) <= pin[q] /\ q \in Ptrs /\ pin[q] \in Nat
    BY DEF CacheInv, PinsCounted, CacheTypes
  <2>4. CASE q = p
    <3>1. \A c \in Backends : (\E k \in Keys : <<q, k>> \in pins'[c])
                                <=> (c = b \/ \E k \in Keys : <<q, k>> \in pins[c])
      BY Zenon, <1>2, <1>4, <1>5, <2>4 DEF OthersStay
    <3>2. Holders(q)' = Holders(q) \cup {b}
      BY Zenon, <3>1 DEF Holders
    <3>3. /\ Cardinality(Holders(q) \cup {b}) \in Nat
          /\ Cardinality(Holders(q) \cup {b}) <= Cardinality(Holders(q)) + 1
      BY ZenonT(30), <2>2, OneHolder
    <3>4. pin'[q] = pin[q] + 1
      BY <1>5, <2>3, <2>4
    <3>5. QED
      BY <2>2, <2>3, <3>2, <3>3, <3>4
  <2>5. CASE q # p
    <3>1. \A c \in Backends : \A k \in Keys : <<q, k>> \in pins'[c] <=> <<q, k>> \in pins[c]
      BY <1>4, <1>5, <2>5 DEF OthersStay
    <3>2. Holders(q)' = Holders(q)
      BY ZenonT(30), <3>1 DEF Holders
    <3>3. pin'[q] = pin[q]
      BY ZenonT(30), <1>5, <2>3, <2>5
    <3>4. QED
      BY <2>3, <3>2, <3>3
  <2>6. QED
    BY <2>4, <2>5
<1>10. \A c \in Backends : StepOk(c)'
  <2>1. StepOk(b)'
    BY <1>4 DEF StepOk, Exclusive
  <2>2. SUFFICES ASSUME NEW c \in Backends \ {b} PROVE StepOk(c)'
    BY <2>1
  <2>3. /\ pc'[c] = pc[c] /\ arg'[c] = arg[c] /\ tgt'[c] = tgt[c]
        /\ cur'[c] = cur[c] /\ pins'[c] = pins[c]
    BY <1>4 DEF OthersStay
  <2>4. StepOk(c) /\ LockOk(c)
    BY DEF CacheInv
  <2>5. ASSUME pc[c] = "free" PROVE pin'[tgt[c]] = 0
    <3> DEFINE g == ShardOf[arg[c]]
    <3>1. g # ShardOf[arg[b]]
      BY <1>1, <2>4, <2>5 DEF LockOk, Exclusive, CanLockExclusive, Locks
    <3>2. /\ arg[c] \in Keys /\ cur[c] \in Nat \ {0} /\ cur[c] <= Len(lru[g])
          /\ tgt[c] = lru[g][cur[c]] /\ pin[tgt[c]] = 0
      BY <2>4, <2>5 DEF StepOk, CacheTypes
    <3>3. g \in Shards /\ lru[g] \in Seq(Ptrs) /\ cur[c] \in DOMAIN lru[g]
      BY <3>2 DEF CacheAssumption, CacheTypes
    <3>4. tgt[c] \in live /\ ShardOf[key[tgt[c]]] = g
      BY ZenonT(30), <3>2, <3>3 DEF CacheInv, ListsLive
    <3>5. tgt[c] # p /\ tgt[c] \in Ptrs
      BY <1>2, <3>1, <3>4 DEF CacheTypes
    <3>6. QED
      BY <1>5, <3>2, <3>5
  <2>6. QED
    BY ZenonT(30), <1>4, <2>3, <2>4, <2>5 DEF StepOk, Holding
<1>11. QED
  BY <1>3, <1>6, <1>7, <1>8, <1>9, <1>10 DEF CacheInv, AllLocksOk

\* A pin dropped was counted: the count covers its holder, so it does not wrap, and it
\* still covers all the others.
LEMMA ReleaseKeeps ==
  ASSUME CacheAssumption, CacheTypes, CacheInv, NEW b \in Backends, NEW q, Release(b, q)
  PROVE  CacheTypes' /\ CacheInv'
<1> DEFINE p == q[1]
<1>1. q \in pins[b] /\ q \in Ptrs \X Keys /\ q = <<q[1], q[2]>> /\ pc[b] = "idle"
  BY DEF Release, CacheTypes
<1>2. p \in live /\ p \in Ptrs /\ q[2] \in Keys /\ key[p] = q[2]
  BY <1>1 DEF CacheInv, PinnedAlive
<1>3. /\ UNCHANGED <<live, key, lru, pc, arg, tgt, cur>>
      /\ pins'[b] = pins[b] \ {q} /\ \A c \in Backends \ {b} : pins'[c] = pins[c]
      /\ \A x \in Ptrs : pin'[x] = IF x = p THEN pin[x] - 1 ELSE pin[x]
  BY <1>2 DEF Release, CacheTypes
<1>4. IsFiniteSet(Holders(p)) /\ b \in Holders(p)
  BY Zenon, <1>1, <1>2, HoldersFinite DEF Holders
<1>5. Cardinality(Holders(p)) <= pin[p] /\ pin[p] \in Nat
  BY <1>2 DEF CacheInv, PinsCounted, CacheTypes
<1>6. /\ Cardinality(Holders(p)) \in Nat /\ Cardinality(Holders(p) \ {b}) \in Nat
      /\ Cardinality(Holders(p) \ {b}) = Cardinality(Holders(p)) - 1
  BY Zenon, <1>4, OneHolder
<1>7. pin[p] # 0 /\ pin[p] - 1 \in Nat
  BY <1>5, <1>6
<1>8. CacheTypes'
  <2>1. pin' \in [Ptrs -> Nat]
    BY <1>7 DEF Release, CacheTypes
  <2>2. pins' \in [Backends -> SUBSET (Ptrs \X Keys)]
    BY DEF Release, CacheTypes
  <2>3. QED
    BY <1>3, <2>1, <2>2 DEF CacheTypes
<1>9. PinnedAlive' /\ CachedOnce' /\ ListsLive' /\ (\A x \in live : key[x] \in Keys)'
  BY <1>3 DEF CacheInv, PinnedAlive, CachedOnce, ListsLive
<1>10. PinsCounted'
  <2>1. SUFFICES ASSUME NEW x \in live PROVE Cardinality(Holders(x)') <= pin'[x]
    BY <1>3 DEF PinsCounted
  <2>2. Cardinality(Holders(x)) <= pin[x] /\ x \in Ptrs /\ pin[x] \in Nat
    BY DEF CacheInv, PinsCounted, CacheTypes
  <2>3. CASE x = p
    <3>1. \A k \in Keys : <<p, k>> \in pins[b] => <<p, k>> = q
      BY <1>1, <1>2 DEF CacheInv, PinnedAlive
    <3>2. \A c \in Backends : (\E k \in Keys : <<p, k>> \in pins'[c])
                                <=> (c # b /\ \E k \in Keys : <<p, k>> \in pins[c])
      BY Zenon, <1>3, <3>1
    <3>3. Holders(p)' = Holders(p) \ {b}
      BY ZenonT(30), <3>2 DEF Holders
    <3>4. pin'[p] = pin[p] - 1
      BY <1>2, <1>3
    <3>5. QED
      BY <1>5, <1>6, <2>3, <3>3, <3>4
  <2>4. CASE x # p
    <3>1. \A c \in Backends : \A k \in Keys : <<x, k>> \in pins'[c] <=> <<x, k>> \in pins[c]
      BY <1>1, <1>3, <2>4
    <3>2. Holders(x)' = Holders(x)
      BY ZenonT(30), <3>1 DEF Holders
    <3>3. pin'[x] = pin[x]
      BY <1>3, <2>2, <2>4
    <3>4. QED
      BY <2>2, <3>2, <3>3
  <2>5. QED
    BY <2>3, <2>4
<1>11. \A c \in Backends : LockOk(c)' /\ StepOk(c)'
  <2>1. SUFFICES ASSUME NEW c \in Backends PROVE LockOk(c)' /\ StepOk(c)'
    OBVIOUS
  <2>2. LockOk(c) /\ StepOk(c) /\ pins'[c] \subseteq pins[c]
    BY <1>3 DEF CacheInv
  <2>3. LockOk(c)'
    BY <1>3, <2>2 DEF LockOk, CanLockExclusive, Locks
  <2>4. ASSUME pc[c] = "free" PROVE pin'[tgt[c]] = 0
    <3>1. pin[tgt[c]] = 0 /\ tgt[c] # p
      BY ZenonT(30), <1>7, <2>2, <2>4 DEF StepOk
    <3>2. /\ cur[c] \in Nat \ {0} /\ cur[c] <= Len(lru[ShardOf[arg[c]]]) /\ arg[c] \in Keys
          /\ tgt[c] = lru[ShardOf[arg[c]]][cur[c]]
      BY <2>2, <2>4 DEF StepOk, CacheTypes
    <3>3. lru[ShardOf[arg[c]]] \in Seq(Ptrs)
      BY <3>2 DEF CacheAssumption, CacheTypes
    <3>4. tgt[c] \in Ptrs
      BY <3>2, <3>3
    <3>5. QED
      BY ZenonT(30), <1>3, <3>1, <3>4
  <2>5. StepOk(c)'
    BY ZenonT(30), <1>3, <2>2, <2>4 DEF StepOk, Holding
  <2>6. QED
    BY <2>3, <2>5
<1>12. QED
  BY <1>8, <1>9, <1>10, <1>11 DEF CacheInv

(***************************************************************************)
(* The steps that change the lists.                                        *)
(***************************************************************************)
Distinct(s) == \A i, j \in DOMAIN s : s[i] = s[j] => i = j

\* A list with a new head has the head and the old entries, each once.
LEMMA Prepended ==
  ASSUME NEW S, NEW s \in Seq(S), NEW x \in S
  PROVE  /\ <<x>> \o s \in Seq(S)
         /\ \A i \in DOMAIN (<<x>> \o s) :
              (<<x>> \o s)[i] = x \/ \E j \in DOMAIN s : (<<x>> \o s)[i] = s[j]
         /\ Distinct(s) /\ (\A j \in DOMAIN s : s[j] # x) => Distinct(<<x>> \o s)
<1> DEFINE n == <<x>> \o s
<1>1. /\ n \in Seq(S) /\ DOMAIN n = 1 .. Len(s) + 1 /\ DOMAIN s = 1 .. Len(s)
      /\ Len(s) \in Nat /\ \A i \in 1 .. Len(s) + 1 : n[i] = IF i = 1 THEN x ELSE s[i - 1]
  OBVIOUS
<1> HIDE DEF n
<1>2. \A i \in DOMAIN n : i = 1 \/ (i - 1 \in DOMAIN s /\ n[i] = s[i - 1])
  BY <1>1
<1>3. \A i \in DOMAIN n : n[i] = x \/ \E j \in DOMAIN s : n[i] = s[j]
  BY <1>1, <1>2
<1>4. ASSUME Distinct(s), \A j \in DOMAIN s : s[j] # x,
             NEW i \in DOMAIN n, NEW j \in DOMAIN n, n[i] = n[j]
      PROVE  i = j
  <2>1. CASE i = 1 \/ j = 1
    BY <1>1, <1>2, <1>4, <2>1
  <2>2. CASE i # 1 /\ j # 1
    <3>1. i - 1 = j - 1
      BY <1>2, <1>4, <2>2 DEF Distinct
    <3>2. QED
      BY <1>1, <3>1
  <2>3. QED
    BY <2>1, <2>2
<1>5. Distinct(s) /\ (\A j \in DOMAIN s : s[j] # x) => Distinct(n)
  BY <1>4 DEF Distinct
<1>6. QED
  BY <1>1, <1>3, <1>5 DEF n

\* One list after another.
LEMMA JoinedLists ==
  ASSUME NEW S, NEW a \in Seq(S), NEW z \in Seq(S)
  PROVE  /\ a \o z \in Seq(S) /\ Len(a \o z) = Len(a) + Len(z)
         /\ \A i \in 1 .. Len(a) + Len(z) :
              (a \o z)[i] = IF i <= Len(a) THEN a[i] ELSE z[i - Len(a)]
  OBVIOUS

\* A list without its nth entry has the others, each once.
LEMMA RemovedAt ==
  ASSUME NEW S, NEW s \in Seq(S), NEW n \in 1 .. Len(s)
  PROVE  /\ UnlinkFromLru(s, n) \in Seq(S) /\ Len(UnlinkFromLru(s, n)) = Len(s) - 1
         /\ \A i \in DOMAIN UnlinkFromLru(s, n) :
              \E j \in DOMAIN s : j # n /\ UnlinkFromLru(s, n)[i] = s[j]
         /\ Distinct(s) => Distinct(UnlinkFromLru(s, n))
<1> DEFINE a == SubSeq(s, 1, n - 1)
           z == SubSeq(s, n + 1, Len(s))
           r == UnlinkFromLru(s, n)
<1>1. a \in Seq(S) /\ Len(a) = n - 1 /\ \A i \in 1 .. n - 1 : a[i] = s[i]
  OBVIOUS
<1>2. z \in Seq(S) /\ Len(z) = Len(s) - n /\ \A i \in 1 .. Len(s) - n : z[i] = s[n + i]
  OBVIOUS
<1>3. r = a \o z
  BY DEF UnlinkFromLru
<1> HIDE DEF a, z, r
<1>4. /\ r \in Seq(S) /\ Len(r) = Len(a) + Len(z)
      /\ \A i \in 1 .. Len(a) + Len(z) : r[i] = IF i <= Len(a) THEN a[i] ELSE z[i - Len(a)]
  BY ZenonT(30), <1>1, <1>2, <1>3, JoinedLists
<1>5. /\ Len(s) \in Nat /\ Len(r) = Len(s) - 1
      /\ DOMAIN r = 1 .. Len(s) - 1 /\ DOMAIN s = 1 .. Len(s)
  BY <1>1, <1>2, <1>4
<1> DEFINE Old(i) == IF i < n THEN i ELSE i + 1
<1>6. ASSUME NEW i \in DOMAIN r
      PROVE  Old(i) \in DOMAIN s /\ Old(i) # n /\ r[i] = s[Old(i)]
  <2>1. /\ i \in Nat /\ n \in Nat /\ Len(s) \in Nat /\ 1 <= i /\ i <= Len(s) - 1
        /\ 1 <= n /\ n <= Len(s)
    BY <1>5
  <2>2. r[i] = IF i <= n - 1 THEN a[i] ELSE z[i - (n - 1)]
    <3>1. i \in 1 .. (n - 1) + (Len(s) - n)
      BY <2>1
    <3>2. Len(a) = n - 1 /\ Len(z) = Len(s) - n
      BY <1>1, <1>2
    <3>3. \A k \in 1 .. (n - 1) + (Len(s) - n) : r[k] = IF k <= n - 1 THEN a[k] ELSE z[k - (n - 1)]
      BY <1>4, <3>2
    <3>4. QED
      BY <3>1, <3>3
  <2>3. CASE i < n
    <3>1. i \in 1 .. n - 1 /\ i <= n - 1 /\ i \in 1 .. Len(s)
      BY <2>1, <2>3
    <3>2. r[i] = s[i]
      BY <1>1, <2>2, <3>1
    <3>3. QED
      BY <1>5, <2>1, <2>3, <3>1, <3>2
  <2>4. CASE ~(i < n)
    <3>1. /\ i - (n - 1) \in 1 .. Len(s) - n /\ ~(i <= n - 1) /\ n + (i - (n - 1)) = i + 1
          /\ i + 1 \in 1 .. Len(s)
      BY <2>1, <2>4
    <3>2. r[i] = s[n + (i - (n - 1))]
      BY <1>2, <2>2, <3>1
    <3>3. QED
      BY <1>5, <2>1, <2>4, <3>1, <3>2
  <2>5. QED
    BY <2>3, <2>4
<1>7. \A i, j \in DOMAIN r : Old(i) = Old(j) => i = j
  BY <1>5
<1> HIDE DEF Old
<1>8. \A i \in DOMAIN r : \E j \in DOMAIN s : j # n /\ r[i] = s[j]
  BY <1>6
<1>9. ASSUME Distinct(s), NEW i \in DOMAIN r, NEW j \in DOMAIN r, r[i] = r[j]
      PROVE  i = j
  <2>1. Old(i) \in DOMAIN s /\ Old(j) \in DOMAIN s /\ s[Old(i)] = s[Old(j)]
    BY <1>6, <1>9
  <2>2. Old(i) = Old(j)
    BY <1>9, <2>1 DEF Distinct
  <2>3. QED
    BY <1>7, <2>2
<1>10. Distinct(s) => Distinct(r)
  BY <1>9 DEF Distinct
<1>11. QED
  BY ZenonT(30), <1>4, <1>5, <1>8, <1>10 DEF r

\* A new entry takes a free place: nobody has a pin on it, and its key was absent.
LEMMA AllocOkKeeps ==
  ASSUME CacheAssumption, CacheTypes, CacheInv, NEW b \in Backends,
         NEW p \in Ptrs, AllocOk(b, p)
  PROVE  CacheTypes' /\ CacheInv'
<1> DEFINE h == ShardOf[arg[b]]
<1>1. StepOk(b) /\ LockOk(b) /\ pc[b] = "alloc" /\ p \notin live
  BY DEF CacheInv, AllocOk
<1>2. /\ arg[b] \in Keys /\ h \in Shards /\ Holding(arg[b]) = {}
      /\ CanLockExclusive(b, h) /\ lru[h] \in Seq(Ptrs)
  BY <1>1 DEF StepOk, LockOk, Exclusive, CacheAssumption, CacheTypes
<1>3. /\ live' = live \cup {p} /\ OthersStay(b) /\ pc'[b] = "idle" /\ pins' = pins
      /\ key'[p] = arg[b] /\ \A x \in live : key'[x] = key[x]
      /\ pin'[p] = 0 /\ \A x \in live : pin'[x] = pin[x]
      /\ lru'[h] = <<p>> \o lru[h] /\ \A g \in Shards \ {h} : lru'[g] = lru[g]
  BY <1>1, <1>2 DEF AllocOk, Done, CacheTypes, OthersStay
<1>4. /\ <<p>> \o lru[h] \in Seq(Ptrs)
      /\ \A i \in DOMAIN (<<p>> \o lru[h]) :
           \/ (<<p>> \o lru[h])[i] = p
           \/ \E j \in DOMAIN lru[h] : (<<p>> \o lru[h])[i] = lru[h][j]
      /\ Distinct(lru[h]) /\ (\A j \in DOMAIN lru[h] : lru[h][j] # p)
           => Distinct(<<p>> \o lru[h])
  BY ZenonT(30), <1>2, Prepended
<1>5. CacheTypes'
  <2>1. lru' \in [Shards -> Seq(Ptrs)]
    BY <1>2, <1>4 DEF AllocOk, CacheTypes
  <2>2. key' \in [Ptrs -> Keys \cup {NoKey}] /\ pin' \in [Ptrs -> Nat] /\ live' \subseteq Ptrs
    BY <1>2 DEF AllocOk, CacheTypes
  <2>3. QED
    BY ZenonT(30), <1>3, <2>1, <2>2 DEF AllocOk, Done, CacheTypes, Places
<1> HIDE DEF h
<1>6. AllLocksOk'
  BY ZenonT(30), <1>3, LocksExclude DEF CacheInv, AllLocksOk, LocksRightly
<1>7. (\A x \in live : key[x] \in Keys)'
  BY <1>2, <1>3 DEF CacheInv
<1>8. CachedOnce'
  <2>1. \A x \in live : key[x] # arg[b]
    BY <1>2 DEF Holding
  <2>2. QED
    BY <1>3, <2>1 DEF CacheInv, CachedOnce
<1>9. ListsLive'
  <2>1. ListsLive
    BY DEF CacheInv
  <2>2. \A j \in DOMAIN lru[h] : /\ lru[h][j] \in live /\ lru[h][j] # p
                                 /\ ShardOf[key'[lru[h][j]]] = h
    <3>1. ASSUME NEW j \in DOMAIN lru[h]
          PROVE  lru[h][j] \in live /\ ShardOf[key[lru[h][j]]] = h
      BY ZenonT(30), <1>2, <2>1, <3>1 DEF ListsLive
    <3>2. \A x \in live : key'[x] = key[x] /\ x # p
      BY <1>1, <1>3
    <3>3. QED
      BY <3>1, <3>2
  <2>3. Distinct(lru[h])
    BY <1>2, <2>1 DEF ListsLive, Distinct
  <2>4. Distinct(lru'[h])
    BY ZenonT(30), <1>3, <1>4, <2>2, <2>3
  <2>5. ASSUME NEW i \in DOMAIN lru'[h]
        PROVE  lru'[h][i] \in live' /\ ShardOf[key'[lru'[h][i]]] = h
    <3>1. lru'[h][i] = p \/ \E j \in DOMAIN lru[h] : lru'[h][i] = lru[h][j]
      <4>1. lru'[h] = <<p>> \o lru[h]
        BY <1>3
      <4> DEFINE n == <<p>> \o lru[h]
      <4>2. \A k \in DOMAIN n : n[k] = p \/ \E j \in DOMAIN lru[h] : n[k] = lru[h][j]
        BY <1>4
      <4>3. lru'[h] = n /\ i \in DOMAIN lru'[h]
        BY <4>1, <2>5
      <4> HIDE DEF n
      <4>4. QED
        BY ZenonT(30), <4>2, <4>3
    <3>2. p \in live' /\ ShardOf[key'[p]] = h /\ live \subseteq live'
      BY <1>3 DEF h
    <3>3. QED
      BY <2>2, <3>1, <3>2
  <2>6. SUFFICES ASSUME NEW g \in Shards, NEW i \in DOMAIN lru'[g]
                 PROVE  /\ lru'[g][i] \in live' /\ ShardOf[key'[lru'[g][i]]] = g
                        /\ \A j \in DOMAIN lru'[g] : lru'[g][i] = lru'[g][j] => i = j
    BY DEF ListsLive
  <2>7. CASE g # h
    BY <1>3, <2>1, <2>6, <2>7 DEF ListsLive
  <2>8. CASE g = h
    BY ZenonT(30), <2>4, <2>5, <2>6, <2>8 DEF Distinct
  <2>9. QED
    BY <2>7, <2>8
<1>10. PinnedAlive'
  BY <1>3 DEF CacheInv, PinnedAlive
<1>11. PinsCounted'
  <2>1. SUFFICES ASSUME NEW x \in live' PROVE Cardinality(Holders(x)') <= pin'[x]
    BY DEF PinsCounted
  <2>2. Holders(x)' = Holders(x)
    BY <1>3 DEF Holders
  <2>3. CASE x = p
    <3>1. Holders(x) = {}
      BY ZenonT(30), <1>1, <2>3 DEF CacheInv, PinnedAlive, Holders
    <3>2. QED
      BY <1>3, <2>2, <2>3, <3>1, FS_EmptySet
  <2>4. CASE x # p
    BY <1>3, <2>1, <2>2, <2>4 DEF CacheInv, PinsCounted
  <2>5. QED
    BY <2>3, <2>4
<1>12. \A c \in Backends : StepOk(c)'
  <2>1. StepOk(b)'
    BY <1>3 DEF StepOk, Exclusive
  <2>2. SUFFICES ASSUME NEW c \in Backends \ {b} PROVE StepOk(c)'
    BY <2>1
  <2>3. /\ pc'[c] = pc[c] /\ arg'[c] = arg[c] /\ tgt'[c] = tgt[c]
        /\ cur'[c] = cur[c] /\ pins'[c] = pins[c]
    BY <1>3 DEF OthersStay
  <2>4. StepOk(c)
    BY ZenonT(30) DEF CacheInv
  <2>5. CASE pc[c] \notin Exclusive
    BY <1>3, <2>3, <2>4, <2>5 DEF StepOk, Exclusive
  <2>6. CASE pc[c] \in Exclusive
    <3> DEFINE g == ShardOf[arg[c]]
    <3>1. g # h /\ arg[c] \in Keys /\ g \in Shards /\ arg[c] # arg[b]
      BY ZenonT(30), <1>2, <2>4, <2>6
         DEF h, CanLockExclusive, Locks, StepOk, Exclusive, CacheAssumption
    <3>2. lru'[g] = lru[g]
      BY ZenonT(30), <1>3, <3>1
    <3>3. Holding(arg[c])' = {}
      <4>1. \A x \in live : key[x] # arg[c]
        BY ZenonT(30), <2>4, <2>6 DEF StepOk, Holding
      <4>2. \A x \in live' : key'[x] # arg[c]
        BY ZenonT(30), <1>3, <3>1, <4>1
      <4>3. QED
        BY ZenonT(30), <2>3, <4>2 DEF Holding
    <3>4. ASSUME pc[c] = "free" PROVE pin'[tgt[c]] = 0
      <4>1. cur[c] \in DOMAIN lru[g] /\ tgt[c] = lru[g][cur[c]] /\ pin[tgt[c]] = 0
        BY <2>4, <3>1, <3>4 DEF StepOk, CacheTypes
      <4>2. tgt[c] \in live
        <5>1. lru[g][cur[c]] \in live
          BY ZenonT(30), <3>1, <4>1 DEF CacheInv, ListsLive
        <5>2. QED
          BY Zenon, <4>1, <5>1
      <4>3. QED
        BY ZenonT(30), <1>3, <4>1, <4>2
    <3>5. QED
      BY ZenonT(30), <2>3, <2>4, <2>6, <3>2, <3>3, <3>4 DEF StepOk, Exclusive
  <2>7. QED
    BY <2>5, <2>6
<1>13. QED
  BY ZenonT(30), <1>5, <1>6, <1>7, <1>8, <1>9, <1>10, <1>11, <1>12 DEF CacheInv, AllLocksOk

\* The entry that is freed is unpinned still, and no reader of its shard has found it:
\* whoever pinned it since the scan would have needed the lock.
LEMMA EvictFreeKeeps ==
  ASSUME CacheAssumption, CacheTypes, CacheInv, NEW b \in Backends, EvictFree(b)
  PROVE  CacheTypes' /\ CacheInv'
<1> DEFINE h == ShardOf[arg[b]]
           p == tgt[b]
<1>1. StepOk(b) /\ LockOk(b) /\ pc[b] = "free" /\ ListsLive
  BY DEF CacheInv, EvictFree
<1>2. /\ arg[b] \in Keys /\ h \in Shards /\ Holding(arg[b]) = {}
      /\ CanLockExclusive(b, h) /\ lru[h] \in Seq(Ptrs)
  BY <1>1 DEF StepOk, LockOk, Exclusive, CacheAssumption, CacheTypes
<1>3. cur[b] \in 1 .. Len(lru[h]) /\ p = lru[h][cur[b]] /\ pin[p] = 0
  BY <1>1, <1>2 DEF StepOk, CacheTypes
<1>4. p \in live /\ p \in Ptrs /\ ShardOf[key[p]] = h /\ key[p] \in Keys
  <2>1. cur[b] \in DOMAIN lru[h]
    BY Zenon, <1>2, <1>3, ListDomain
  <2>2. p \in live /\ ShardOf[key[p]] = h
    <3>1. lru[h][cur[b]] \in live /\ ShardOf[key[lru[h][cur[b]]]] = h
      BY ZenonT(30), <1>1, <1>2, <2>1 DEF ListsLive
    <3>2. QED
      BY ZenonT(30), <1>3, <3>1
  <2>3. p \in Ptrs /\ key[p] \in Keys
    BY <2>2 DEF CacheInv, CacheTypes
  <2>4. QED
    BY ZenonT(30), <2>2, <2>3
<1>5. /\ live' = live \ {p} /\ OthersStay(b) /\ pc'[b] = "evict" /\ arg' = arg
      /\ pins' = pins /\ pin' = pin /\ cur'[b] = cur[b] - 1
      /\ \A x \in live' : key'[x] = key[x]
      /\ lru'[h] = UnlinkFromLru(lru[h], cur[b]) /\ \A g \in Shards \ {h} : lru'[g] = lru[g]
  BY ZenonT(30), <1>1, <1>2, <1>4 DEF EvictFree, CacheTypes, OthersStay
<1> DEFINE r == UnlinkFromLru(lru[h], cur[b])
<1>6. /\ r \in Seq(Ptrs) /\ Len(r) = Len(lru[h]) - 1
      /\ \A i \in DOMAIN r : \E j \in DOMAIN lru[h] : j # cur[b] /\ r[i] = lru[h][j]
      /\ Distinct(lru[h]) => Distinct(r)
  BY ZenonT(30), <1>2, <1>3, RemovedAt
<1>7. lru'[h] = r
  BY Zenon, <1>5
<1>8. lru' \in [Shards -> Seq(Ptrs)]
  BY ZenonT(30), <1>2, <1>6 DEF EvictFree, CacheTypes
<1> HIDE DEF r, h, p
<1>9. CacheTypes'
  <2>1. cur[b] - 1 \in Nat
    BY <1>2, <1>3
  <2>2. key' \in [Ptrs -> Keys \cup {NoKey}] /\ live' \subseteq Ptrs
    BY ZenonT(30) DEF EvictFree, CacheTypes
  <2>3. pc' \in [Backends -> Places] /\ tgt' \in [Backends -> Ptrs \cup {NoPtr}]
    BY ZenonT(30) DEF EvictFree, CacheTypes, Places, Exclusive
  <2>4. cur' \in [Backends -> Nat]
    BY <2>1 DEF EvictFree, CacheTypes
  <2>5. QED
    BY ZenonT(30), <1>5, <1>8, <2>2, <2>3, <2>4 DEF CacheTypes
<1>10. AllLocksOk'
  <2>1. LocksRightly(b)
    BY <1>2, <1>5 DEF h, LocksRightly, Exclusive
  <2>2. AllLocksOk
    BY ZenonT(30) DEF CacheInv, AllLocksOk
  <2>3. QED
    BY ZenonT(30), <1>5, <2>1, <2>2, LocksExclude
<1>11. (\A x \in live : key[x] \in Keys)' /\ CachedOnce'
  BY <1>5 DEF CacheInv, CachedOnce
<1>12. ListsLive'
  <2>1. Distinct(lru[h])
    BY ZenonT(30), <1>1, <1>2 DEF ListsLive, Distinct
  <2>2. Distinct(lru'[h])
    BY <1>6, <1>7, <2>1
  <2>3. ASSUME NEW i \in DOMAIN lru'[h]
        PROVE  lru'[h][i] \in live' /\ ShardOf[key'[lru'[h][i]]] = h
    <3>1. PICK j \in DOMAIN lru[h] : j # cur[b] /\ lru'[h][i] = lru[h][j]
      BY ZenonT(30), <1>6, <1>7
    <3>2. lru[h][j] # p
      BY <1>2, <1>3, <2>1, <3>1 DEF Distinct
    <3>3. lru[h][j] \in live /\ ShardOf[key[lru[h][j]]] = h
      BY ZenonT(30), <1>1, <1>2 DEF ListsLive
    <3>4. QED
      BY ZenonT(30), <1>5, <3>1, <3>2, <3>3
  <2>4. SUFFICES ASSUME NEW g \in Shards, NEW i \in DOMAIN lru'[g]
                 PROVE  /\ lru'[g][i] \in live' /\ ShardOf[key'[lru'[g][i]]] = g
                        /\ \A j \in DOMAIN lru'[g] : lru'[g][i] = lru'[g][j] => i = j
    BY DEF ListsLive
  <2>5. CASE g # h
    <3>1. lru'[g] = lru[g]
      BY ZenonT(30), <1>5, <2>5
    <3>2. /\ lru[g][i] \in live /\ ShardOf[key[lru[g][i]]] = g
          /\ \A j \in DOMAIN lru[g] : lru[g][i] = lru[g][j] => i = j
      BY ZenonT(30), <1>1, <2>4, <3>1 DEF ListsLive
    <3>3. lru[g][i] # p
      BY <1>4, <2>5, <3>2
    <3>4. QED
      BY ZenonT(30), <1>5, <3>1, <3>2, <3>3
  <2>6. CASE g = h
    BY <2>2, <2>3, <2>4, <2>6 DEF Distinct
  <2>7. QED
    BY ZenonT(30), <2>5, <2>6
<1>13. \A c \in Backends : \A q \in pins[c] : q[1] # p
  <2>1. IsFiniteSet(Holders(p)) /\ Cardinality(Holders(p)) \in Nat
    BY HoldersFinite
  <2>2. Cardinality(Holders(p)) <= pin[p]
    BY ZenonT(30), <1>4 DEF CacheInv, PinsCounted
  <2>3. Cardinality(Holders(p)) = 0
    BY <1>3, <2>1, <2>2
  <2>4. Holders(p) = {}
    BY <2>1, <2>3, FS_EmptySet
  <2>5. SUFFICES ASSUME NEW c \in Backends, NEW q \in pins[c], q[1] = p PROVE FALSE
    BY SMT
  <2>6. q \in Ptrs \X Keys
    BY DEF CacheTypes
  <2>7. q[2] \in Keys /\ <<p, q[2]>> \in pins[c]
    BY <2>5, <2>6
  <2>8. c \in Holders(p)
    BY ZenonT(30), <2>7 DEF Holders
  <2>9. QED
    BY <2>4, <2>8
<1>14. PinnedAlive'
  BY <1>5, <1>13 DEF CacheInv, PinnedAlive
<1>15. PinsCounted'
  BY ZenonT(30), <1>5 DEF CacheInv, PinsCounted, Holders
<1>16. \A c \in Backends : StepOk(c)'
  <2>1. StepOk(b)'
    <3>1. Holding(arg[b])' = {}
      BY ZenonT(30), <1>2, <1>5 DEF Holding
    <3>2. cur'[b] <= Len(lru'[h])
      BY <1>2, <1>3, <1>5, <1>6, <1>7
    <3>3. QED
      BY ZenonT(30), <1>1, <1>2, <1>5, <3>1, <3>2 DEF h, StepOk, Exclusive
  <2>2. SUFFICES ASSUME NEW c \in Backends \ {b} PROVE StepOk(c)'
    BY <2>1
  <2>3. /\ pc'[c] = pc[c] /\ arg'[c] = arg[c] /\ tgt'[c] = tgt[c]
        /\ cur'[c] = cur[c] /\ pins'[c] = pins[c]
    BY Zenon, <1>5 DEF OthersStay
  <2>4. StepOk(c)
    BY ZenonT(30) DEF CacheInv
  <2>5. pc[c] = "hit" => tgt[c] \in live' /\ key'[tgt[c]] = arg[c]
    BY ZenonT(30), <1>2, <1>4, <1>5, <2>4 DEF StepOk, CanLockExclusive, Locks
  <2>6. pc[c] \in Exclusive => Holding(arg[c])' = {}
    BY <1>5, <2>3, <2>4 DEF StepOk, Holding
  <2>7. pc[c] \in Exclusive => lru'[ShardOf[arg[c]]] = lru[ShardOf[arg[c]]]
    <3>1. SUFFICES ASSUME pc[c] \in Exclusive
                   PROVE  lru'[ShardOf[arg[c]]] = lru[ShardOf[arg[c]]]
      BY SMT
    <3>2. arg[c] \in Keys /\ ShardOf[arg[c]] # h
      <4>1. arg[c] \in Keys
        BY <2>4, <3>1 DEF StepOk, Exclusive
      <4>2. ~Locks(c, h, Exclusive \cup {"hit"})
        BY ZenonT(30), <1>2 DEF CanLockExclusive
      <4>3. QED
        BY ZenonT(30), <3>1, <4>1, <4>2 DEF Locks
    <3>3. ShardOf[arg[c]] \in Shards \ {h}
      BY <3>2 DEF CacheAssumption
    <3>4. QED
      BY Zenon, <1>5, <3>3
  <2>8. QED
    BY Zenon, <1>5, <2>3, <2>4, <2>5, <2>6, <2>7 DEF StepOk, Exclusive
<1>17. QED
  BY <1>9, <1>10, <1>11, <1>12, <1>14, <1>15, <1>16 DEF CacheInv, AllLocksOk

(***************************************************************************)
(* The theorems.                                                           *)
(***************************************************************************)
\* An empty cache and idle backends.
LEMMA CacheInit == ASSUME CacheAssumption, Init PROVE CacheTypes /\ CacheInv
<1>1. CacheTypes
  BY DEF Init, CacheTypes, Places
<1>2. \A h \in Shards : DOMAIN lru[h] = {}
  BY DEF Init
<1>3. CacheInv
  BY <1>2 DEF Init, CacheInv, CachedOnce, ListsLive, PinnedAlive, PinsCounted, LockOk,
              StepOk, Exclusive
<1>4. QED
  BY <1>1, <1>3

\* The inductive invariant of blob_cache/storage.rs: locks exclude, lists name live
\* entries, pin counts cover the pins, and each backend in the middle of get_pinned,
\* insert or evict_in_shard is right about what it has seen.
THEOREM CacheInvariant == Spec => [](CacheTypes /\ CacheInv)
<1>1. Init => CacheTypes /\ CacheInv
  BY CacheAssumption, CacheInit
<1>2. CacheTypes /\ CacheInv /\ [Next]_vars => (CacheTypes /\ CacheInv)'
  <2>1. SUFFICES ASSUME CacheTypes, CacheInv, [Next]_vars PROVE CacheTypes' /\ CacheInv'
    OBVIOUS
  <2>2. CASE UNCHANGED vars
    <3>1. UNCHANGED <<live, key, pin, lru, pc, arg, tgt, cur, pins>>
      BY <2>2 DEF vars, shared, local
    <3>2. CacheTypes'
      BY ZenonT(30), <2>1, <3>1 DEF CacheTypes
    <3>3. (\A p \in live : key[p] \in Keys)' /\ CachedOnce' /\ ListsLive' /\ PinnedAlive'
      BY <2>1, <3>1 DEF CacheInv, CachedOnce, ListsLive, PinnedAlive
    <3>4. PinsCounted'
      BY ZenonT(30), <2>1, <3>1 DEF CacheInv, PinsCounted, Holders
    <3>5. ASSUME NEW c \in Backends PROVE LockOk(c)' /\ StepOk(c)'
      <4>1. LockOk(c) /\ StepOk(c)
        BY <2>1 DEF CacheInv
      <4>2. QED
        BY <3>1, <4>1 DEF LockOk, CanLockExclusive, Locks, StepOk, Holding
    <3>6. QED
      BY <3>2, <3>3, <3>4, <3>5 DEF CacheInv
  <2>3. CASE Next
    <3>1. PICK b \in Backends :
            \/ (\E k \in Keys : Lookup(b, k)) \/ Pin(b) \/ (\E q \in pins[b] : Release(b, q))
            \/ QueryError(b) \/ NoInsert(b) \/ InsertLock(b) \/ Check(b)
            \/ (\E p \in Ptrs : AllocOk(b, p)) \/ AllocFails(b)
            \/ EvictScan(b) \/ EvictFree(b) \/ EvictDone(b)
      BY ZenonT(30), <2>3 DEF Next
    <3>2. CASE \E k \in Keys : Lookup(b, k)
      BY <2>1, <3>2, CacheAssumption, LookupKeeps
    <3>3. CASE Pin(b)
      BY <2>1, <3>3, CacheAssumption, PinKeeps
    <3>4. CASE \E q \in pins[b] : Release(b, q)
      BY <2>1, <3>4, CacheAssumption, ReleaseKeeps
    <3>5. CASE QueryError(b) \/ NoInsert(b)
      BY ZenonT(30), <2>1, <3>5, CacheAssumption, QueryErrorKeeps, NoInsertKeeps
    <3>6. CASE InsertLock(b) \/ Check(b) \/ AllocFails(b)
      BY <2>1, <3>6, CacheAssumption, InsertLockKeeps, CheckKeeps, AllocFailsKeeps
    <3>7. CASE \E p \in Ptrs : AllocOk(b, p)
      BY <2>1, <3>7, CacheAssumption, AllocOkKeeps
    <3>8. CASE EvictScan(b) \/ EvictFree(b) \/ EvictDone(b)
      BY <2>1, <3>8, CacheAssumption, EvictScanKeeps, EvictFreeKeeps, EvictDoneKeeps
    <3>9. QED
      BY ZenonT(30), <3>1, <3>2, <3>3, <3>4, <3>5, <3>6, <3>7, <3>8
  <2>4. QED
    BY <2>1, <2>2, <2>3
<1>3. QED
  BY <1>1, <1>2, PTL DEF Spec

\* What BlobCachePin promises its holder: the bytes are neither freed nor reused while
\* the pin is held, for any number of backends, keys, shards and entries.
THEOREM PinsProtect == Spec => []PinnedAlive
<1>1. CacheInv => PinnedAlive
  BY DEF CacheInv
<1>2. QED
  BY <1>1, CacheInvariant, PTL

\* The check under the exclusive lock in insert keeps a key from being cached twice.
THEOREM KeysCachedOnce == Spec => []CachedOnce
<1>1. CacheInv => CachedOnce
  BY DEF CacheInv
<1>2. QED
  BY <1>1, CacheInvariant, PTL


(***************************************************************************)
(* The byte counts. The argument carries that the bytes are finitely many: *)
(* it holds of an empty cache, and each insert adds finitely many.         *)
(***************************************************************************)
\* BytesOf under the keys k.
BytesBy(E, k) == UNION {{p} \X (1..Size[k[p]]) : p \in E}

\* k2 gives the entries E the keys that k gives them.
SameKeys(E, k, k2) == \A x \in E : k2[x] = k[x]

\* Entry p comes to the entries E, or leaves them, with its bytes.
BytesGrow(E, k, k2, p) ==
  /\ IsFiniteSet(BytesBy(E \cup {p}, k2))
  /\ Cardinality(BytesBy(E \cup {p}, k2)) = Cardinality(BytesBy(E, k)) + Size[k2[p]]

BytesShrink(E, k, k2, p) ==
  /\ IsFiniteSet(BytesBy(E \ {p}, k2))
  /\ Cardinality(BytesBy(E \ {p}, k2)) = Cardinality(BytesBy(E, k)) - Size[k[p]]

\* A new entry's bytes are none of the others'.
LEMMA BytesAdded ==
  ASSUME CacheAssumption, NEW E, NEW k, NEW k2, NEW p, p \notin E,
         SameKeys(E, k, k2), k2[p] \in Keys, IsFiniteSet(BytesBy(E, k))
  PROVE  BytesGrow(E, k, k2, p)
<1> DEFINE n == Size[k2[p]]
           new == {p} \X (1..n)
<1>1. n \in Nat /\ n > 0
  BY DEF CacheAssumption
<1>2. IsFiniteSet(1..n) /\ Cardinality(1..n) = n
  <2>1. 1 \in Int /\ n \in Int /\ ~(1 > n)
    BY <1>1
  <2>2. IsFiniteSet(1..n) /\ Cardinality(1..n) = n - 1 + 1
    BY ZenonT(30), <2>1, FS_Interval
  <2> QED
    BY <1>1, <2>2
<1>3. IsFiniteSet({p}) /\ Cardinality({p}) = 1
  BY Zenon, FS_Singleton
<1>4. IsFiniteSet(new) /\ Cardinality(new) = n
  <2>1. /\ IsFiniteSet({p} \X (1..n))
        /\ Cardinality({p} \X (1..n)) = Cardinality({p}) * Cardinality(1..n)
    BY Zenon, <1>2, <1>3, FS_Product
  <2> QED
    BY <1>1, <1>2, <1>3, <2>1
<1>5. BytesBy(E \cup {p}, k2) = BytesBy(E, k) \cup new
  BY DEF BytesBy, SameKeys
<1>6. BytesBy(E, k) \cap new = {}
  BY DEF BytesBy
<1> HIDE DEF new, n
<1>7. /\ IsFiniteSet(BytesBy(E, k) \cup new)
      /\ Cardinality(BytesBy(E, k) \cup new) =
           Cardinality(BytesBy(E, k)) + Cardinality(new) - Cardinality({})
  BY ZenonT(30), <1>4, <1>6, FS_Union
<1>8. Cardinality({}) = 0 /\ Cardinality(BytesBy(E, k)) \in Nat
  BY ZenonT(30), FS_EmptySet, FS_CardinalityType
<1>9. Cardinality(BytesBy(E, k) \cup new) = Cardinality(BytesBy(E, k)) + n
  BY <1>1, <1>4, <1>7, <1>8
<1> QED
  BY Zenon, <1>5, <1>7, <1>9 DEF n, BytesGrow

\* A freed entry's bytes are taken off.
LEMMA BytesRemoved ==
  ASSUME CacheAssumption, NEW E, NEW k, NEW k2, NEW p \in E,
         SameKeys(E \ {p}, k, k2), k[p] \in Keys, IsFiniteSet(BytesBy(E, k))
  PROVE  BytesShrink(E, k, k2, p)
<1>1. BytesBy(E \ {p}, k2) \in SUBSET BytesBy(E, k)
  BY DEF BytesBy, SameKeys
<1>2. IsFiniteSet(BytesBy(E \ {p}, k2))
  BY Zenon, <1>1, FS_Subset
<1>3. p \notin E \ {p} /\ (E \ {p}) \cup {p} = E /\ SameKeys(E \ {p}, k2, k)
  BY ZenonT(30) DEF SameKeys
<1>4. Cardinality(BytesBy((E \ {p}) \cup {p}, k)) =
        Cardinality(BytesBy(E \ {p}, k2)) + Size[k[p]]
  <2>1. BytesGrow(E \ {p}, k2, k, p)
    BY Zenon, <1>2, <1>3, BytesAdded
  <2> QED
    BY Zenon, <2>1 DEF BytesGrow
<1>5. Cardinality(BytesBy(E \ {p}, k2)) \in Nat /\ Size[k[p]] \in Nat
  BY <1>2, FS_CardinalityType DEF CacheAssumption
<1>6. Cardinality(BytesBy(E, k)) = Cardinality(BytesBy(E \ {p}, k2)) + Size[k[p]]
  BY Zenon, <1>3, <1>4
<1> QED
  BY <1>2, <1>5, <1>6 DEF BytesShrink

\* The entries of a shard under the keys k.
EntriesBy(E, k, h) == {p \in E : ShardOf[k[p]] = h}

\* The counts t and n of all entries and u of each shard's are right for the entries E.
CountsRight(E, k, t, n, u) ==
  /\ IsFiniteSet(BytesBy(E, k))
  /\ t = Cardinality(BytesBy(E, k)) /\ n = Cardinality(E)
  /\ DOMAIN u = Shards
  /\ \A h \in Shards : u[h] = Cardinality(BytesBy(EntriesBy(E, k, h), k))

\* Entries with the same keys have the same bytes.
LEMMA BytesSame ==
  ASSUME NEW E, NEW k, NEW k2, SameKeys(E, k, k2)
  PROVE  BytesBy(E, k2) = BytesBy(E, k)
BY DEF BytesBy, SameKeys

\* A shard's bytes are among all bytes.
LEMMA ShardBytesFinite ==
  ASSUME NEW E, NEW k, NEW h, IsFiniteSet(BytesBy(E, k))
  PROVE  IsFiniteSet(BytesBy(EntriesBy(E, k, h), k))
<1>1. BytesBy(EntriesBy(E, k, h), k) \in SUBSET BytesBy(E, k)
  BY ZenonT(30) DEF BytesBy, EntriesBy
<1> QED
  BY ZenonT(30), <1>1, FS_Subset

\* The counts after a new entry.
LEMMA CountsAfterAdd ==
  ASSUME CacheAssumption, NEW E, IsFiniteSet(E), NEW k, NEW k2, NEW p, p \notin E,
         SameKeys(E, k, k2), k2[p] \in Keys,
         NEW t, NEW n, NEW u, CountsRight(E, k, t, n, u)
  PROVE  CountsRight(E \cup {p}, k2, t + Size[k2[p]], n + 1,
                     [u EXCEPT ![ShardOf[k2[p]]] = @ + Size[k2[p]]])
<1> DEFINE h == ShardOf[k2[p]]
           u2 == [u EXCEPT ![h] = @ + Size[k2[p]]]
<1>1. /\ IsFiniteSet(BytesBy(E \cup {p}, k2))
      /\ Cardinality(BytesBy(E \cup {p}, k2)) = t + Size[k2[p]]
  <2>1. IsFiniteSet(BytesBy(E, k)) /\ t = Cardinality(BytesBy(E, k))
    BY ZenonT(30) DEF CountsRight
  <2>2. BytesGrow(E, k, k2, p)
    BY Zenon, <2>1, BytesAdded
  <2> QED
    BY Zenon, <2>1, <2>2 DEF BytesGrow
<1>2. Cardinality(E \cup {p}) = n + 1
  BY Zenon, FS_AddElement DEF CountsRight
<1>3. DOMAIN u2 = Shards
  BY DEF CountsRight
<1>4. ASSUME NEW g \in Shards
      PROVE  u2[g] = Cardinality(BytesBy(EntriesBy(E \cup {p}, k2, g), k2))
  <2>1. CASE g = h
    <3>1. EntriesBy(E \cup {p}, k2, g) = EntriesBy(E, k, g) \cup {p}
      BY <2>1 DEF EntriesBy, SameKeys
    <3>2. p \notin EntriesBy(E, k, g) /\ SameKeys(EntriesBy(E, k, g), k, k2)
      BY DEF EntriesBy, SameKeys
    <3>3. IsFiniteSet(BytesBy(EntriesBy(E, k, g), k))
      BY ZenonT(30), ShardBytesFinite DEF CountsRight
    <3>4. Cardinality(BytesBy(EntriesBy(E, k, g) \cup {p}, k2)) =
            Cardinality(BytesBy(EntriesBy(E, k, g), k)) + Size[k2[p]]
      <4>1. BytesGrow(EntriesBy(E, k, g), k, k2, p)
        BY Zenon, <3>2, <3>3, BytesAdded
      <4> QED
        BY Zenon, <4>1 DEF BytesGrow
    <3> QED
      BY ZenonT(30), <2>1, <3>1, <3>4 DEF CountsRight
  <2>2. CASE g # h
    <3>1. EntriesBy(E \cup {p}, k2, g) = EntriesBy(E, k, g)
      BY ZenonT(30), <2>2 DEF EntriesBy, SameKeys
    <3>2. BytesBy(EntriesBy(E, k, g), k2) = BytesBy(EntriesBy(E, k, g), k)
      <4>1. SameKeys(EntriesBy(E, k, g), k, k2)
        BY ZenonT(30) DEF EntriesBy, SameKeys
      <4> QED
        BY Zenon, <4>1, BytesSame
    <3> QED
      BY ZenonT(30), <2>2, <3>1, <3>2 DEF CountsRight
  <2> QED
    BY <2>1, <2>2
<1> QED
  BY ZenonT(30), <1>1, <1>2, <1>3, <1>4 DEF CountsRight

\* The counts after an entry is freed.
LEMMA CountsAfterRemove ==
  ASSUME CacheAssumption, NEW E, IsFiniteSet(E), NEW k, NEW k2, NEW p \in E,
         SameKeys(E \ {p}, k, k2), k[p] \in Keys,
         NEW t, NEW n, NEW u, CountsRight(E, k, t, n, u)
  PROVE  CountsRight(E \ {p}, k2, t - Size[k[p]], n - 1,
                     [u EXCEPT ![ShardOf[k[p]]] = @ - Size[k[p]]])
<1> DEFINE h == ShardOf[k[p]]
           u2 == [u EXCEPT ![h] = @ - Size[k[p]]]
<1>1. /\ IsFiniteSet(BytesBy(E \ {p}, k2))
      /\ Cardinality(BytesBy(E \ {p}, k2)) = t - Size[k[p]]
  <2>1. IsFiniteSet(BytesBy(E, k)) /\ t = Cardinality(BytesBy(E, k))
    BY ZenonT(30) DEF CountsRight
  <2>2. BytesShrink(E, k, k2, p)
    BY Zenon, <2>1, BytesRemoved
  <2> QED
    BY Zenon, <2>1, <2>2 DEF BytesShrink
<1>2. Cardinality(E \ {p}) = n - 1
  BY Zenon, FS_RemoveElement DEF CountsRight
<1>3. DOMAIN u2 = Shards
  BY DEF CountsRight
<1>4. ASSUME NEW g \in Shards
      PROVE  u2[g] = Cardinality(BytesBy(EntriesBy(E \ {p}, k2, g), k2))
  <2>1. CASE g = h
    <3>1. EntriesBy(E \ {p}, k2, g) = EntriesBy(E, k, g) \ {p}
      BY DEF EntriesBy, SameKeys
    <3>2. p \in EntriesBy(E, k, g) /\ SameKeys(EntriesBy(E, k, g) \ {p}, k, k2)
      BY ZenonT(30), <2>1 DEF EntriesBy, SameKeys
    <3>3. IsFiniteSet(BytesBy(EntriesBy(E, k, g), k))
      BY ZenonT(30), ShardBytesFinite DEF CountsRight
    <3>4. Cardinality(BytesBy(EntriesBy(E, k, g) \ {p}, k2)) =
            Cardinality(BytesBy(EntriesBy(E, k, g), k)) - Size[k[p]]
      <4>1. BytesShrink(EntriesBy(E, k, g), k, k2, p)
        BY Zenon, <3>2, <3>3, BytesRemoved
      <4> QED
        BY Zenon, <4>1 DEF BytesShrink
    <3> QED
      BY ZenonT(30), <2>1, <3>1, <3>4 DEF CountsRight
  <2>2. CASE g # h
    <3>1. EntriesBy(E \ {p}, k2, g) = EntriesBy(E, k, g)
      BY ZenonT(30), <2>2 DEF EntriesBy, SameKeys
    <3>2. BytesBy(EntriesBy(E, k, g), k2) = BytesBy(EntriesBy(E, k, g), k)
      <4>1. SameKeys(EntriesBy(E, k, g), k, k2)
        BY ZenonT(30), <2>2 DEF EntriesBy, SameKeys
      <4> QED
        BY Zenon, <4>1, BytesSame
    <3> QED
      BY ZenonT(30), <2>2, <3>1, <3>2 DEF CountsRight
  <2> QED
    BY <2>1, <2>2
<1> QED
  BY ZenonT(30), <1>1, <1>2, <1>3, <1>4 DEF CountsRight

\* The counts of the cache.
CacheCounts == CountsRight(live, key, total_bytes, n_entries, bytes_used)

\* Only the new entry and the freed one change the counts.
LEMMA NextCacheCounts ==
  ASSUME CacheAssumption, CacheTypes, CacheInv, CacheCounts, [Next]_vars
  PROVE  CacheCounts'
<1>0. IsFiniteSet(live)
  BY FS_Subset DEF CacheAssumption, CacheTypes
<1>1. ASSUME UNCHANGED <<live, key, bytes_used, total_bytes, n_entries>> PROVE CacheCounts'
  BY <1>1 DEF CacheCounts
<1>2. ASSUME NEW b \in Backends, NEW p \in Ptrs, AllocOk(b, p) PROVE CacheCounts'
  <2>1. /\ pc[b] = "alloc" /\ p \notin live /\ live' = live \cup {p}
        /\ key' = [key EXCEPT ![p] = arg[b]]
        /\ bytes_used' = [bytes_used EXCEPT ![ShardOf[arg[b]]] = @ + Size[arg[b]]]
        /\ total_bytes' = total_bytes + Size[arg[b]] /\ n_entries' = n_entries + 1
    BY <1>2 DEF AllocOk
  <2>2. StepOk(b)
    BY DEF CacheInv
  <2>3. arg[b] \in Keys
    BY <2>1, <2>2 DEF StepOk
  <2>4. key'[p] = arg[b] /\ SameKeys(live, key, key')
    BY <2>1 DEF CacheTypes, SameKeys
  <2>5. CountsRight(live \cup {p}, key', total_bytes + Size[key'[p]], n_entries + 1,
                    [bytes_used EXCEPT ![ShardOf[key'[p]]] = @ + Size[key'[p]]])
    BY Zenon, <1>0, <2>1, <2>3, <2>4, CountsAfterAdd DEF CacheCounts
  <2> QED
    BY Zenon, <2>1, <2>4, <2>5 DEF CacheCounts
<1>3. ASSUME NEW b \in Backends, EvictFree(b) PROVE CacheCounts'
  <2> DEFINE p == tgt[b]
             h == ShardOf[arg[b]]
  <2>1. /\ pc[b] = "free" /\ live' = live \ {p} /\ key' = [key EXCEPT ![p] = NoKey]
        /\ bytes_used' = [bytes_used EXCEPT ![h] = @ - Size[key[p]]]
        /\ total_bytes' = total_bytes - Size[key[p]] /\ n_entries' = n_entries - 1
    BY <1>3 DEF EvictFree
  <2>2. StepOk(b) /\ ListsLive
    BY ZenonT(30) DEF CacheInv
  <2>3. /\ h \in Shards /\ lru[h] \in Seq(Ptrs)
        /\ cur[b] \in 1 .. Len(lru[h]) /\ p = lru[h][cur[b]]
    <3>1. arg[b] \in Keys /\ cur[b] <= Len(lru[h]) /\ cur[b] # 0 /\ p = lru[h][cur[b]]
      BY ZenonT(30), <2>1, <2>2 DEF StepOk, Exclusive
    <3>2. h \in Shards /\ lru[h] \in Seq(Ptrs) /\ cur[b] \in Nat
      BY ZenonT(30), <3>1 DEF CacheTypes, CacheAssumption
    <3> QED
      BY <3>1, <3>2
  <2>4. cur[b] \in DOMAIN lru[h]
    BY Zenon, <2>3, ListDomain
  <2>5. lru[h][cur[b]] \in live /\ ShardOf[key[lru[h][cur[b]]]] = h
    BY ZenonT(30), <2>2, <2>3, <2>4 DEF ListsLive
  <2>6. p \in live /\ ShardOf[key[p]] = h
    BY ZenonT(30), <2>3, <2>5
  <2>7. key[p] \in Keys /\ SameKeys(live \ {p}, key, key')
    BY <2>1, <2>6 DEF CacheInv, CacheTypes, SameKeys
  <2> HIDE DEF p, h
  <2>8. CountsRight(live \ {p}, key', total_bytes - Size[key[p]], n_entries - 1,
                    [bytes_used EXCEPT ![ShardOf[key[p]]] = @ - Size[key[p]]])
    <3>1. CountsRight(live, key, total_bytes, n_entries, bytes_used)
      BY Zenon DEF CacheCounts
    <3> QED
      BY ZenonT(30), <1>0, <2>6, <2>7, <3>1, CountsAfterRemove
  <2> QED
    BY ZenonT(30), <2>1, <2>6, <2>8 DEF CacheCounts
<1>4. CASE UNCHANGED vars
  BY <1>1, <1>4 DEF vars, shared
<1>5. CASE Next
  <2>1. PICK b \in Backends :
          \/ (\E k \in Keys : Lookup(b, k)) \/ Pin(b) \/ (\E q \in pins[b] : Release(b, q))
          \/ QueryError(b) \/ NoInsert(b) \/ InsertLock(b) \/ Check(b)
          \/ (\E p \in Ptrs : AllocOk(b, p)) \/ AllocFails(b)
          \/ EvictScan(b) \/ EvictFree(b) \/ EvictDone(b)
    BY ZenonT(30), <1>5 DEF Next
  <2>2. CASE \/ (\E k \in Keys : Lookup(b, k)) \/ Pin(b) \/ (\E q \in pins[b] : Release(b, q))
             \/ QueryError(b) \/ NoInsert(b) \/ InsertLock(b) \/ Check(b) \/ AllocFails(b)
             \/ EvictScan(b) \/ EvictDone(b)
    BY ZenonT(30), <1>1, <2>2 DEF Lookup, Pin, Release, QueryError, NoInsert, InsertLock, Check,
       AllocFails, EvictScan, EvictDone, shared
  <2> QED
    BY Zenon, <1>2, <1>3, <2>1, <2>2
<1> QED
  BY <1>4, <1>5

\* The soft cap of insert is checked against what is really cached: the byte counts of the
\* cache and of each shard are those of the live entries.
THEOREM CountsAreExact == Spec => []AccountingExact
<1>1. Init => CacheCounts
  <2> SUFFICES ASSUME Init PROVE CacheCounts
    OBVIOUS
  <2>1. live = {} /\ total_bytes = 0 /\ n_entries = 0 /\ bytes_used = [h \in Shards |-> 0]
    BY ZenonT(30) DEF Init
  <2>2. BytesBy({}, key) = {} /\ \A h \in Shards : EntriesBy({}, key, h) = {}
    BY DEF BytesBy, EntriesBy
  <2> QED
    BY <2>1, <2>2, FS_EmptySet DEF CacheCounts, CountsRight
<1>2. CacheTypes /\ CacheInv /\ CacheCounts /\ [Next]_vars => CacheCounts'
  BY CacheAssumption, NextCacheCounts
<1>3. CacheCounts => AccountingExact
  BY DEF CacheCounts, CountsRight, AccountingExact, Allocated, BytesOf, BytesBy, EntriesBy
<1> QED
  BY <1>1, <1>2, <1>3, CacheInvariant, PTL DEF Spec
=============================================================================
