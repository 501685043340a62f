------------------------------ MODULE BlobCache ------------------------------
(***************************************************************************)
(* The shared blob cache (blob_cache/storage.rs): detoasted column blobs   *)
(* in shared memory, in shards with one lock each. A lookup pins what it   *)
(* finds; the pin keeps the bytes from being freed until the query drops   *)
(* it, without a lock. An insert evicts unpinned entries of its own shard, *)
(* from the old end of the shard's list, until the new entry fits.         *)
(*                                                                         *)
(* A shard's bucket chains are modelled as the set of its live entries and *)
(* its list as a sequence, newest first; CacheLists has the pointers. The  *)
(* hit, miss, eviction and failure totals are only reported and are left   *)
(* out. PostgreSQL's LWLocks and its DSA allocator are external: a lock is *)
(* held by whoever is in a section that takes it, and an allocation may    *)
(* fail at any time and does fail beyond the area's limit.                 *)
(***************************************************************************)
EXTENDS Integers, Sequences, FiniteSets, Functions

CONSTANTS Backends,
          Keys, NoKey,
          Shards, ShardOf,   \* the shard a key hashes to
          Size,              \* bytes of the key's blob
          Ptrs, NoPtr,       \* DSA addresses of entries
          MaxBytes,          \* blob_cache_mb
          EvictChunk,        \* what is evicted when the entry header does not fit
          MaxLeak            \* bound: pins of an entry of which an error may leak one

ASSUME CacheAssumption ==
  /\ IsFiniteSet(Backends) /\ IsFiniteSet(Ptrs)
  /\ NoPtr \notin Ptrs /\ NoKey \notin Keys
  /\ ShardOf \in [Keys -> Shards]
  /\ Size \in [Keys -> Nat \ {0}]
  /\ MaxBytes \in Nat \ {0} /\ EvictChunk \in Nat \ {0}
  /\ MaxLeak \in Nat

VARIABLES
  live,          \* allocated entries
  key, pin,      \* the entries' key and pin_count
  lru,           \* each shard's list, newest insert first
  bytes_used,    \* per shard
  total_bytes, n_entries,
  pc, arg,       \* a backend's place in get_pinned or insert, and its key
  tgt,           \* the entry a lookup found or an eviction frees
  cur,           \* eviction's place in the list
  want, freed,   \* bytes_needed of evict_in_shard and bytes freed so far
  pins           \* the pins a backend holds, as <<entry, key>>

shared == <<live, key, pin, lru, bytes_used, total_bytes, n_entries>>
local == <<pc, arg, tgt, cur, want, freed, pins>>
vars == <<shared, local>>

Init ==
  /\ live = {}
  /\ key = [p \in Ptrs |-> NoKey] /\ pin = [p \in Ptrs |-> 0]
  /\ lru = [h \in Shards |-> << >>]
  /\ bytes_used = [h \in Shards |-> 0] /\ total_bytes = 0 /\ n_entries = 0
  /\ pc = [b \in Backends |-> "idle"] /\ arg = [b \in Backends |-> NoKey]
  /\ tgt = [b \in Backends |-> NoPtr]
  /\ cur = [b \in Backends |-> 0] /\ want = [b \in Backends |-> 0]
  /\ freed = [b \in Backends |-> 0]
  /\ pins = [b \in Backends |-> {}]

(***************************************************************************)
(* Locks. A lookup is in "hit" while it holds the shard's lock shared; an  *)
(* insert holds it exclusively from InsertLock to the end.                 *)
(***************************************************************************)
Exclusive == {"check", "alloc", "evict", "free"}

Locks(b, h, how) == pc[b] \in how /\ ShardOf[arg[b]] = h

CanLockShared(b, h) == \A c \in Backends \ {b} : ~Locks(c, h, Exclusive)

\* Mutant: an insert does not wait for readers of the shard.
CanLockExclusive_NoReaders(b, h) == \A c \in Backends \ {b} : ~Locks(c, h, Exclusive)

CanLockExclusive(b, h) == \A c \in Backends \ {b} : ~Locks(c, h, Exclusive \cup {"hit"})

Holding(k) == {p \in live : key[p] = k}

Done(b) ==
  /\ pc' = [pc EXCEPT ![b] = "idle"]
  /\ arg' = [arg EXCEPT ![b] = NoKey]
  /\ tgt' = [tgt EXCEPT ![b] = NoPtr]
  /\ cur' = [cur EXCEPT ![b] = 0]
  /\ want' = [want EXCEPT ![b] = 0]
  /\ freed' = [freed EXCEPT ![b] = 0]

(***************************************************************************)
(* get_pinned: find the key's entry under the shared lock, then pin it.    *)
(* A caller that misses detoasts the blob and inserts it. The bound is one *)
(* pin of a key for each backend.                                          *)
(***************************************************************************)
Lookup(b, k) ==
  /\ pc[b] = "idle"
  /\ CanLockShared(b, ShardOf[k])
  /\ \A q \in pins[b] : q[2] # k
  /\ arg' = [arg EXCEPT ![b] = k]
  /\ \/ /\ Holding(k) = {}
        /\ pc' = [pc EXCEPT ![b] = "missed"] /\ UNCHANGED tgt
     \/ \E p \in Holding(k) :
          /\ pc' = [pc EXCEPT ![b] = "hit"]
          /\ tgt' = [tgt EXCEPT ![b] = p]
  /\ UNCHANGED <<shared, cur, want, freed, pins>>

\* Mutant: the hit returns the bytes without counting the pin.
Pin_NotCounted(b) ==
  /\ pc[b] = "hit"
  /\ pins' = [pins EXCEPT ![b] = @ \cup {<<tgt[b], arg[b]>>}]
  /\ Done(b)
  /\ UNCHANGED shared

\* The list is left as it is. last_used, which nothing reads, is not modelled.
Pin(b) ==
  /\ pc[b] = "hit"
  /\ pin' = [pin EXCEPT ![tgt[b]] = @ + 1]
  /\ pins' = [pins EXCEPT ![b] = @ \cup {<<tgt[b], arg[b]>>}]
  /\ Done(b)
  /\ UNCHANGED <<live, key, lru, bytes_used, total_bytes, n_entries>>

\* BlobCachePin::drop, when the scan ends; no lock.
Release(b, q) ==
  /\ pc[b] = "idle" /\ q \in pins[b]
  /\ pin' = [pin EXCEPT ![q[1]] = @ - 1]
  /\ pins' = [pins EXCEPT ![b] = @ \ {q}]
  /\ UNCHANGED <<live, key, lru, bytes_used, total_bytes, n_entries,
                 pc, arg, tgt, cur, want, freed>>

\* An error outside the locked sections (which hold off interrupts). The scan state
\* is a leaked Box: EndCustomScan does not run, the pins are never dropped.
QueryError(b) ==
  /\ pc[b] \in {"idle", "missed"}
  /\ \A q \in pins[b] : pin[q[1]] <= MaxLeak
  /\ pins' = [pins EXCEPT ![b] = {}]
  /\ Done(b)
  /\ UNCHANGED shared

(***************************************************************************)
(* insert.                                                                 *)
(***************************************************************************)
\* There is nothing to insert: the blob is empty, or the bitmap did not encode.
NoInsert(b) ==
  /\ pc[b] = "missed"
  /\ Done(b)
  /\ UNCHANGED <<shared, pins>>

\* Mutant: the key is not looked for again under the exclusive lock.
InsertLock_NoRecheck(b) ==
  /\ pc[b] = "missed"
  /\ CanLockExclusive(b, ShardOf[arg[b]])
  /\ pc' = [pc EXCEPT ![b] = "check"]
  /\ UNCHANGED <<shared, arg, tgt, cur, want, freed, pins>>

\* Another backend may have inserted the key. In a shard without a bucket array
\* its allocation may fail.
InsertLock(b) ==
  /\ pc[b] = "missed"
  /\ CanLockExclusive(b, ShardOf[arg[b]])
  /\ \/ /\ Holding(arg[b]) = {}
        /\ pc' = [pc EXCEPT ![b] = "check"]
        /\ UNCHANGED <<arg, tgt, cur, want, freed>>
     \/ /\ Holding(arg[b]) # {} \/ lru[ShardOf[arg[b]]] = << >>
        /\ Done(b)
  /\ UNCHANGED <<shared, pins>>

\* Eviction starts at the old end of the shard's list, for n bytes.
StartEviction(b, n) ==
  /\ pc' = [pc EXCEPT ![b] = "evict"]
  /\ cur' = [cur EXCEPT ![b] = Len(lru[ShardOf[arg[b]]])]
  /\ want' = [want EXCEPT ![b] = n]
  /\ freed' = [freed EXCEPT ![b] = 0]
  /\ UNCHANGED <<arg, tgt>>

\* The soft cap.
Check(b) ==
  LET over == total_bytes + Size[arg[b]] - MaxBytes
  IN  /\ pc[b] = "check"
      /\ IF over > 0 THEN StartEviction(b, over)
         ELSE pc' = [pc EXCEPT ![b] = "alloc"] /\ UNCHANGED <<arg, tgt, cur, want, freed>>
      /\ UNCHANGED <<shared, pins>>

\* The bytes of the payloads of the entries E, each as its entry and offset.
BytesOf(E) == UNION {{p} \X (1..Size[key[p]]) : p \in E}

\* The bytes the allocator has handed out for payloads.
Allocated == Cardinality(BytesOf(live))

\* Mutant: the shard's byte count is not kept.
AllocOk_NotCounted(b, p) ==
  LET h == ShardOf[arg[b]]
  IN  /\ pc[b] = "alloc" /\ p \in Ptrs \ live
      /\ Allocated + Size[arg[b]] <= MaxBytes
      /\ live' = live \cup {p}
      /\ key' = [key EXCEPT ![p] = arg[b]] /\ pin' = [pin EXCEPT ![p] = 0]
      /\ lru' = [lru EXCEPT ![h] = <<p>> \o @]
      /\ total_bytes' = total_bytes + Size[arg[b]] /\ n_entries' = n_entries + 1
      /\ Done(b)
      /\ UNCHANGED <<bytes_used, pins>>

AllocOk(b, p) ==
  LET h == ShardOf[arg[b]]
  IN  /\ pc[b] = "alloc" /\ p \in Ptrs \ live
      /\ Allocated + Size[arg[b]] <= MaxBytes
      /\ live' = live \cup {p}
      /\ key' = [key EXCEPT ![p] = arg[b]] /\ pin' = [pin EXCEPT ![p] = 0]
      /\ lru' = [lru EXCEPT ![h] = <<p>> \o @]
      /\ bytes_used' = [bytes_used EXCEPT ![h] = @ + Size[arg[b]]]
      /\ total_bytes' = total_bytes + Size[arg[b]] /\ n_entries' = n_entries + 1
      /\ Done(b)
      /\ UNCHANGED pins

\* No room for the entry header, or for the payload: evict and try again.
AllocFails(b) ==
  /\ pc[b] = "alloc"
  /\ \E n \in {EvictChunk, Size[arg[b]]} : StartEviction(b, n)
  /\ UNCHANGED <<shared, pins>>

\* Mutant: pinned entries are evicted too.
EvictScan_Pinned(b) ==
  LET h == ShardOf[arg[b]]
  IN  /\ pc[b] = "evict" /\ freed[b] < want[b] /\ cur[b] # 0
      /\ pc' = [pc EXCEPT ![b] = "free"]
      /\ tgt' = [tgt EXCEPT ![b] = lru[h][cur[b]]] /\ UNCHANGED cur
      /\ UNCHANGED <<shared, arg, want, freed, pins>>

\* evict_in_shard looks at the next entry towards the new end ...
EvictScan(b) ==
  LET h == ShardOf[arg[b]]
  IN  /\ pc[b] = "evict" /\ freed[b] < want[b] /\ cur[b] # 0
      /\ IF pin[lru[h][cur[b]]] = 0
         THEN /\ pc' = [pc EXCEPT ![b] = "free"]
              /\ tgt' = [tgt EXCEPT ![b] = lru[h][cur[b]]] /\ UNCHANGED cur
         ELSE cur' = [cur EXCEPT ![b] = @ - 1] /\ UNCHANGED <<pc, tgt>>
      /\ UNCHANGED <<shared, arg, want, freed, pins>>

\* The list of a shard without its ith entry.
UnlinkFromLru(l, i) == SubSeq(l, 1, i - 1) \o SubSeq(l, i + 1, Len(l))

\* Mutant: the freed entry stays in the list.
EvictFree_NotUnlinked(b) ==
  LET h == ShardOf[arg[b]]
      n == Size[key[tgt[b]]]
  IN  /\ pc[b] = "free"
      /\ live' = live \ {tgt[b]}
      /\ key' = [key EXCEPT ![tgt[b]] = NoKey]
      /\ bytes_used' = [bytes_used EXCEPT ![h] = @ - n]
      /\ total_bytes' = total_bytes - n /\ n_entries' = n_entries - 1
      /\ pc' = [pc EXCEPT ![b] = "evict"] /\ cur' = [cur EXCEPT ![b] = @ - 1]
      /\ tgt' = [tgt EXCEPT ![b] = NoPtr] /\ freed' = [freed EXCEPT ![b] = @ + n]
      /\ UNCHANGED <<pin, lru, arg, want, pins>>

\* ... and, if it was not pinned, unlinks it and frees it.
EvictFree(b) ==
  LET h == ShardOf[arg[b]]
      n == Size[key[tgt[b]]]
  IN  /\ pc[b] = "free"
      /\ live' = live \ {tgt[b]}
      /\ key' = [key EXCEPT ![tgt[b]] = NoKey]
      /\ lru' = [lru EXCEPT ![h] = UnlinkFromLru(@, cur[b])]
      /\ bytes_used' = [bytes_used EXCEPT ![h] = @ - n]
      /\ total_bytes' = total_bytes - n /\ n_entries' = n_entries - 1
      /\ pc' = [pc EXCEPT ![b] = "evict"] /\ cur' = [cur EXCEPT ![b] = @ - 1]
      /\ tgt' = [tgt EXCEPT ![b] = NoPtr] /\ freed' = [freed EXCEPT ![b] = @ + n]
      /\ UNCHANGED <<pin, arg, want, pins>>

\* Mutant: a round that freed nothing is tried again.
EvictDone_Retry(b) ==
  /\ pc[b] = "evict" /\ ~(freed[b] < want[b] /\ cur[b] # 0)
  /\ pc' = [pc EXCEPT ![b] = "check"]
  /\ cur' = [cur EXCEPT ![b] = 0] /\ want' = [want EXCEPT ![b] = 0]
  /\ freed' = [freed EXCEPT ![b] = 0]
  /\ UNCHANGED <<shared, arg, tgt, pins>>

\* The round is over: give up if it freed nothing.
EvictDone(b) ==
  /\ pc[b] = "evict" /\ ~(freed[b] < want[b] /\ cur[b] # 0)
  /\ IF freed[b] = 0 THEN Done(b)
     ELSE /\ pc' = [pc EXCEPT ![b] = "check"]
          /\ cur' = [cur EXCEPT ![b] = 0] /\ want' = [want EXCEPT ![b] = 0]
          /\ freed' = [freed EXCEPT ![b] = 0] /\ UNCHANGED <<arg, tgt>>
  /\ UNCHANGED <<shared, pins>>

(***************************************************************************)
(* Specification.                                                          *)
(***************************************************************************)
LockedStep(b) ==
  \/ Check(b) \/ AllocFails(b) \/ (\E p \in Ptrs : AllocOk(b, p))
  \/ EvictScan(b) \/ EvictFree(b) \/ EvictDone(b)

Next ==
  \E b \in Backends :
    \/ \E k \in Keys : Lookup(b, k)
    \/ Pin(b)
    \/ \E q \in pins[b] : Release(b, q)
    \/ QueryError(b)
    \/ NoInsert(b)
    \/ InsertLock(b)
    \/ Check(b)
    \/ \E p \in Ptrs : AllocOk(b, p)
    \/ AllocFails(b)
    \/ EvictScan(b)
    \/ EvictFree(b)
    \/ EvictDone(b)

Spec == Init /\ [][Next]_vars

\* A backend that holds a shard's lock runs on (LWLocks hold off interrupts), and a
\* waiter, which is queued, gets a lock that is released again and again.
FairSpec ==
  /\ Spec
  /\ \A b \in Backends : WF_vars(Pin(b)) /\ WF_vars(LockedStep(b)) /\ SF_vars(InsertLock(b))

(***************************************************************************)
(* Properties.                                                             *)
(***************************************************************************)
TypeOK ==
  /\ live \subseteq Ptrs
  /\ key \in [Ptrs -> Keys \cup {NoKey}] /\ pin \in [Ptrs -> Nat]
  /\ lru \in [Shards -> Seq(Ptrs)]
  /\ bytes_used \in [Shards -> Nat] /\ total_bytes \in Nat /\ n_entries \in Nat
  /\ pc \in [Backends -> {"idle", "missed", "hit"} \cup Exclusive]
  /\ arg \in [Backends -> Keys \cup {NoKey}]
  /\ tgt \in [Backends -> Ptrs \cup {NoPtr}]
  /\ cur \in [Backends -> Nat] /\ want \in [Backends -> Nat] /\ freed \in [Backends -> Nat]
  /\ pins \in [Backends -> SUBSET (Ptrs \X Keys)]

\* The bytes behind a pin are neither freed nor reused for another blob while the
\* query holds the pin, whatever other backends insert and evict.
PinnedAlive ==
  \A b \in Backends : \A q \in pins[b] : q[1] \in live /\ key[q[1]] = q[2]

\* A key is cached at most once, though two backends may miss it together and both
\* insert it.
CachedOnce == \A p, q \in live : key[p] = key[q] => p = q

\* Each shard's list has exactly the shard's live entries, each once: none is out of
\* reach of eviction for good, none is freed twice.
ListsExact ==
  \A h \in Shards :
    /\ Range(lru[h]) = {p \in live : ShardOf[key[p]] = h}
    /\ Len(lru[h]) = Cardinality(Range(lru[h]))

\* The byte counts are those of the live entries, so the soft cap is checked against
\* what is really cached.
AccountingExact ==
  /\ total_bytes = Allocated /\ n_entries = Cardinality(live)
  /\ \A h \in Shards :
       bytes_used[h] = Cardinality(BytesOf({p \in live : ShardOf[key[p]] = h}))

Holders(p) == {b \in Backends : \E k \in Keys : <<p, k>> \in pins[b]}

\* When no query is running nothing is pinned, so that everything can be evicted.
NoPinsBetweenQueries ==
  (\A b \in Backends : pc[b] = "idle" /\ pins[b] = {}) => \A p \in live : pin[p] = 0

\* Every insert gets its lock and comes to an end, with its blob cached or given up:
\* each round of eviction that is tried again has freed an entry of a locked shard.
InsertReturns == \A b \in Backends : pc[b] = "missed" ~> pc[b] = "idle"

(***************************************************************************)
(* Why a pin is safe: the inductive strengthening of PinnedAlive.          *)
(***************************************************************************)
\* The lists name live entries of their shard, each once.
ListsLive ==
  \A h \in Shards : \A i \in DOMAIN lru[h] :
    /\ lru[h][i] \in live /\ ShardOf[key[lru[h][i]]] = h
    /\ \A j \in DOMAIN lru[h] : lru[h][i] = lru[h][j] => i = j

\* pin_count covers the pins in the hands of queries; an error can only leave it too high.
PinsCounted == \A p \in live : Cardinality(Holders(p)) <= pin[p]

\* Who holds a shard's lock exclusively holds it alone.
LockOk(b) == pc[b] \in Exclusive => CanLockExclusive(b, ShardOf[arg[b]])

\* What a backend knows while it holds the lock.
StepOk(b) ==
  /\ pc[b] # "idle" => arg[b] \in Keys /\ \A q \in pins[b] : q[2] # arg[b]
  /\ pc[b] = "hit" => tgt[b] \in live /\ key[tgt[b]] = arg[b]
  /\ pc[b] \in Exclusive => Holding(arg[b]) = {}
  /\ pc[b] \in {"evict", "free"} => cur[b] <= Len(lru[ShardOf[arg[b]]])
  /\ pc[b] = "free" => /\ cur[b] # 0 /\ tgt[b] = lru[ShardOf[arg[b]]][cur[b]]
                       /\ pin[tgt[b]] = 0

\* The whole: what makes each step of a lookup, an insert and an eviction safe for the
\* pins of every other backend.
CacheInv ==
  /\ \A p \in live : key[p] \in Keys
  /\ CachedOnce /\ ListsLive /\ PinnedAlive /\ PinsCounted
  /\ \A b \in Backends : LockOk(b) /\ StepOk(b)
=============================================================================
