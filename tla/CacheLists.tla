----------------------------- MODULE CacheLists ------------------------------
(***************************************************************************)
(* The links of one shard of the blob cache: the doubly linked LRU list    *)
(* and the singly linked bucket chains, as insert and evict_in_shard       *)
(* change them under the shard's exclusive lock. order and chain are what  *)
(* the links stand for: the sequences BlobCache and its readers rely on.   *)
(***************************************************************************)
EXTENDS Naturals, Sequences, SequencesExt

CONSTANTS Ptrs, NoPtr,        \* entries, and the null dsa_pointer
          Buckets, BucketOf   \* the bucket an entry's key hashes to

ASSUME ListAssumption == NoPtr \notin Ptrs /\ BucketOf \in [Ptrs -> Buckets]

VARIABLES lru_head, lru_tail, lru_prev, lru_next,   \* lru_prev is towards the new end
          bucket_head, bucket_next,
          order, chain
vars == <<lru_head, lru_tail, lru_prev, lru_next, bucket_head, bucket_next, order, chain>>

Null == [p \in Ptrs |-> NoPtr]

Init ==
  /\ lru_head = NoPtr /\ lru_tail = NoPtr /\ lru_prev = Null /\ lru_next = Null
  /\ bucket_head = [i \in Buckets |-> NoPtr] /\ bucket_next = Null
  /\ order = << >> /\ chain = [i \in Buckets |-> << >>]

\* The entries on a walk from p along link; a cycle is cut at its first repetition.
Walk(p, link) ==
  LET RECURSIVE From(_, _)
      From(q, seen) == IF q = NoPtr \/ q \in Range(seen) THEN seen
                       ELSE From(link[q], Append(seen, q))
  IN  From(p, << >>)

\* Mutant: the old head does not learn of its new neighbour.
LruPrepend_OneWay(p) ==
  /\ lru_prev' = [lru_prev EXCEPT ![p] = NoPtr]
  /\ lru_next' = [lru_next EXCEPT ![p] = lru_head]
  /\ lru_tail' = IF lru_head = NoPtr THEN p ELSE lru_tail
  /\ lru_head' = p

LruPrepend(p) ==
  /\ lru_prev' = [q \in Ptrs |-> IF q = p THEN NoPtr
                                 ELSE IF q = lru_head THEN p ELSE lru_prev[q]]
  /\ lru_next' = [lru_next EXCEPT ![p] = lru_head]
  /\ lru_tail' = IF lru_head = NoPtr THEN p ELSE lru_tail
  /\ lru_head' = p

UnlinkFromLru(p) ==
  LET newer == lru_prev[p]
      older == lru_next[p]
  IN  /\ lru_head' = IF newer = NoPtr THEN older ELSE lru_head
      /\ lru_tail' = IF older = NoPtr THEN newer ELSE lru_tail
      /\ lru_next' = [q \in Ptrs |-> IF q = p THEN NoPtr
                                     ELSE IF q = newer THEN older ELSE lru_next[q]]
      /\ lru_prev' = [q \in Ptrs |-> IF q = p THEN NoPtr
                                     ELSE IF q = older THEN newer ELSE lru_prev[q]]

\* Mutant: the head of the chain is never taken for the target.
UnlinkFromBucket_NotHead(p) ==
  LET i == BucketOf[p]
      before == {q \in Range(Walk(bucket_head[i], bucket_next)) : bucket_next[q] = p}
  IN  /\ bucket_next' = [q \in Ptrs |-> IF q \in before THEN bucket_next[p] ELSE bucket_next[q]]
      /\ UNCHANGED bucket_head

\* The target is the head, or some cursor of the chain points to it. Its own
\* bucket_next is left.
UnlinkFromBucket(p) ==
  LET i == BucketOf[p]
      before == {q \in Range(Walk(bucket_head[i], bucket_next)) : bucket_next[q] = p}
  IN  IF bucket_head[i] = p
      THEN bucket_head' = [bucket_head EXCEPT ![i] = bucket_next[p]] /\ UNCHANGED bucket_next
      ELSE /\ bucket_next' = [q \in Ptrs |-> IF q \in before THEN bucket_next[p]
                                             ELSE bucket_next[q]]
           /\ UNCHANGED bucket_head

\* insert links a new entry: bucket chain first, then the list.
Link(p) ==
  /\ p \notin Range(order)
  /\ bucket_next' = [bucket_next EXCEPT ![p] = bucket_head[BucketOf[p]]]
  /\ bucket_head' = [bucket_head EXCEPT ![BucketOf[p]] = p]
  /\ LruPrepend(p)
  /\ order' = <<p>> \o order
  /\ chain' = [chain EXCEPT ![BucketOf[p]] = <<p>> \o @]

\* evict_in_shard takes out any unpinned entry.
Unlink(p) ==
  /\ p \in Range(order)
  /\ UnlinkFromBucket(p)
  /\ UnlinkFromLru(p)
  /\ order' = SelectSeq(order, LAMBDA q : q # p)
  /\ chain' = [chain EXCEPT ![BucketOf[p]] = SelectSeq(@, LAMBDA q : q # p)]

Next == \E p \in Ptrs : Link(p) \/ Unlink(p)

Spec == Init /\ [][Next]_vars

\* From either end the list is walked in full: eviction, which starts at the old end,
\* meets every entry of the shard, oldest insert first, whatever was taken out of its
\* middle before.
ListWalks ==
  /\ Walk(lru_head, lru_next) = order
  /\ Walk(lru_tail, lru_prev) = Reverse(order)

\* A lookup walks its bucket's chain and finds all of the bucket's entries, and no
\* entry that was freed, though an evicted entry keeps its old bucket_next.
ChainWalks == \A i \in Buckets : Walk(bucket_head[i], bucket_next) = chain[i]
=============================================================================
