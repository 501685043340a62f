----------------------------- MODULE CountProofs -----------------------------
(***************************************************************************)
(* The catalog's row_count is the number of live segment rows, and no      *)
(* tombstone outlives its segment, for any number of sessions, rows and    *)
(* segments, when the functions are used as PlainUse says. CountInv is the *)
(* inductive invariant. Its core is that the catalog row lock serializes   *)
(* the writers of segments and tombstones: a session that does not hold it *)
(* has written neither (compress_partition_impl, which builds its segments *)
(* before it updates the row, excepted).                                   *)
(***************************************************************************)
EXTENDS CompressedDmlProofs

(***************************************************************************)
(* How the three changes of a partition's segments change the count.       *)
(***************************************************************************)
\* The live pairs of a partition are finitely many.
LEMMA LiveFinite ==
  ASSUME NEW g \in SegMap, NEW t
  PROVE  Live(g, t) \in SUBSET Tombstone /\ IsFiniteSet(Live(g, t)) /\ Cardinality(Live(g, t)) \in Nat
<1>1. Live(g, t) \in SUBSET Tombstone
  BY DEF Live, Tombstone
<1> QED
  BY <1>1, TombstoneSetFinite

\* Rows taken from a finite set of live pairs.
LEMMA TakenCount ==
  ASSUME NEW L, IsFiniteSet(L), NEW X \in SUBSET L
  PROVE  /\ Cardinality(L) \in Nat /\ Cardinality(X) \in Nat
         /\ Cardinality(L \ X) = FlooredSub(Cardinality(L), Cardinality(X))
<1>1. IsFiniteSet(X) /\ Cardinality(X) <= Cardinality(L)
  BY FS_Subset
<1>2. Cardinality(L) \in Nat /\ Cardinality(X) \in Nat
  BY <1>1, FS_CardinalityType
<1>3. L \cap X = X
  OBVIOUS
<1>4. Cardinality(L \ X) = Cardinality(L) - Cardinality(X)
  BY ZenonT(30), <1>3, FS_Difference
<1> QED
  BY <1>1, <1>2, <1>4 DEF FlooredSub

\* insert_dml_tombstones on live rows.
LEMMA TombstoneCount ==
  ASSUME NEW g \in SegMap, NEW t, NEW new \in SUBSET Live(g, t)
  PROVE  /\ Cardinality(Live(g, t \cup new)) = FlooredSub(Cardinality(Live(g, t)), Cardinality(new))
         /\ \A x \in new : x[2] \in g[x[1]]
<1>1. Live(g, t \cup new) = Live(g, t) \ new
  BY DEF Live
<1>2. \A x \in new : x[2] \in g[x[1]]
  BY DEF Live
<1> QED
  BY ZenonT(30), <1>1, <1>2, LiveFinite, TakenCount

\* Dropping the segments S with their tombstones takes their live rows, and only those, off
\* the count: the saturating subtraction of decompose_claimed_segments never saturates.
LEMMA DropCount ==
  ASSUME NEW g \in SegMap, NEW t \in SUBSET Tombstone, NEW S \in SUBSET SegIds,
         \A x \in t : x[2] \in g[x[1]]
  PROVE  /\ Cardinality(Live(SegsWithout(g, S), TombsWithout(t, S))) =
              FlooredSub(Cardinality(Live(g, t)), Cardinality(LiveIn(g, t, S)))
         /\ \A x \in TombsWithout(t, S) : x[2] \in SegsWithout(g, S)[x[1]]
<1> DEFINE h == SegsWithout(g, S)
           u == TombsWithout(t, S)
           X == LiveIn(g, t, S)
<1>1. Live(h, u) = Live(g, t) \ X
  BY DEF Live, SegsWithout, TombsWithout, LiveIn
<1>2. \A x \in u : x[2] \in h[x[1]]
  BY DEF Tombstone, SegsWithout, TombsWithout
<1>3. X \in SUBSET Live(g, t)
  BY DEF LiveIn
<1> HIDE DEF h, u, X
<1>4. Cardinality(Live(h, u)) = FlooredSub(Cardinality(Live(g, t)), Cardinality(X))
  BY <1>1, <1>3, LiveFinite, TakenCount
<1> QED
  BY <1>2, <1>4 DEF h, u, X

\* The rows R of a compaction, split in segments n and n + 1, make Cardinality(R)
\* live pairs.
LEMMA BatchCount ==
  ASSUME NEW n \in Nat \ {0}, NEW R \in SUBSET Row, NEW A \in SUBSET R,
         n <= MaxSeg, A # R => n + 1 <= MaxSeg, NEW B,
         B = {p \in SegIds \X Row : p[2] \in NewSegments(n, A, R)[p[1]]}
  PROVE  IsFiniteSet(B) /\ Cardinality(B) = Cardinality(R)
<1> DEFINE f == [r \in R |-> IF r \in A THEN <<n, r>> ELSE <<n + 1, r>>]
<1>1. n \in SegIds /\ (A # R => n + 1 \in SegIds) /\ n # n + 1
  BY DataAssumption DEF SegIds
<1>2. \A i \in SegIds : NewSegments(n, A, R)[i] = IF i = n THEN A ELSE IF i = n + 1 THEN R \ A ELSE {}
  BY DEF NewSegments
<1>3. \A r \in R : f[r] \in B
  BY <1>1, <1>2
<1>4. ASSUME NEW p \in B PROVE p[2] \in R /\ f[p[2]] = p
  <2>1. PICK i \in SegIds, r \in Row : p = <<i, r>>
    OBVIOUS
  <2>2. r \in NewSegments(n, A, R)[i]
    BY <2>1
  <2>3. (i = n /\ r \in A) \/ (i = n + 1 /\ r \in R \ A)
    BY <1>2, <2>2
  <2>4. p[2] = r /\ r \in R /\ f[r] = <<i, r>>
    BY <2>1, <2>3
  <2> QED
    BY <2>1, <2>4
<1>5. \A r \in R : f[r][2] = r
  OBVIOUS
<1>6. f \in Bijection(R, B)
  BY ZenonT(30), <1>3, <1>4, <1>5 DEF Bijection, Injection, Surjection, IsInjective
<1>7. ExistsBijection(R, B)
  BY <1>6 DEF ExistsBijection
<1>8. IsFiniteSet(R)
  BY RowSetFinite
<1> QED
  BY <1>7, <1>8, FS_Bijection

\* Writing the rows R as new segments from number n on adds exactly |R| to the count.
LEMMA BatchAdds ==
  ASSUME NEW g \in SegMap, NEW t \in SUBSET Tombstone, NEW n \in Nat \ {0},
         NEW R \in SUBSET Row, NEW A \in SUBSET R,
         n <= MaxSeg, A # R => n + 1 <= MaxSeg,
         \A i \in SegIds : g[i] # {} => i < n,
         \A x \in t : x[2] \in g[x[1]]
  PROVE  /\ Cardinality(Live(SegsWith(g, n, A, R), t)) = Cardinality(Live(g, t)) + Cardinality(R)
         /\ \A x \in t : x[2] \in SegsWith(g, n, A, R)[x[1]]
<1> DEFINE N == NewSegments(n, A, R)
           B == {p \in SegIds \X Row : p[2] \in N[p[1]]}
           h == SegsWith(g, n, A, R)
<1>1. \A i \in SegIds : N[i] # {} => ~(i < n)
  BY DEF NewSegments, SegIds
<1>2. \A i \in SegIds : (g[i] # {} => N[i] = {} /\ h[i] = g[i]) /\ (N[i] # {} => h[i] = N[i])
                        /\ (g[i] = {} => h[i] = N[i])
  BY ZenonT(30), <1>1 DEF SegsWith
<1>3. \A x \in t : x[1] \in SegIds /\ g[x[1]] # {} /\ x[2] \in g[x[1]]
  BY DEF Tombstone
<1>4. IsFiniteSet(B) /\ Cardinality(B) = Cardinality(R)
  BY BatchCount
<1> HIDE DEF N, h
<1>5. \A x \in t : x[2] \in h[x[1]]
  BY <1>2, <1>3
<1>6. \A i \in SegIds : \A r : r \in h[i] <=> r \in g[i] \/ r \in N[i]
  BY <1>2
<1>7. Live(h, t) = Live(g, t) \cup B
  BY <1>2, <1>3, <1>6 DEF Live
<1>8. Live(g, t) \cap B = {}
  BY <1>2 DEF Live
<1>9. IsFiniteSet(Live(g, t)) /\ Cardinality(Live(g, t)) \in Nat
  BY LiveFinite
<1>10. Cardinality(Live(h, t)) = Cardinality(Live(g, t)) + Cardinality(B) - Cardinality({})
  BY <1>4, <1>7, <1>8, <1>9, FS_Union
<1>11. Cardinality(R) \in Nat
  BY RowSetFinite
<1> QED
  BY <1>4, <1>5, <1>9, <1>10, <1>11, FS_EmptySet DEF h

\* decompose_segments_for_dml keeps the count right.
LEMMA DecomposeCounted ==
  ASSUME TypeOK, NEW ws \in WriteSet, NEW c \in CatalogRow,
         NEW v \in Db, v.seg = SegOf(ws), v.tomb = TombOf(ws),
         NEW u \in Db, u.seg = SegOf(ws), u.tomb = TombOf(ws),
         NEW D \in SUBSET SegIds, NEW P \in SUBSET SegIds,
         Counted(c, SegOf(ws), TombOf(ws))
  PROVE  Counted(DecomposeCatalog(c, u, D, P), SegOf(DecomposeWrites(ws, v, D, P)),
                 TombOf(DecomposeWrites(ws, v, D, P)))
<1> DEFINE S == (D \cup P) \cap Segments(v)
           g == SegOf(ws)
           t == TombOf(ws)
           h == SegOf(DecomposeWrites(ws, v, D, P))
           y == TombOf(DecomposeWrites(ws, v, D, P))
           X == LivePairs(v, D \cup P)
           dc == DecomposeCatalog(c, u, D, P)
<1>1. h = SegsWithout(g, S) /\ y = TombsWithout(t, S) /\ X = LiveIn(g, t, S)
  BY DecomposeSegs
<1>2. LivePairs(u, D \cup P) = X
  BY DEF LivePairs
<1>3. dc.is_compressed = c.is_compressed /\ dc.row_count = FlooredSub(c.row_count, Cardinality(X))
  <2> DEFINE hw == HighWater(u, c)
             n == FlooredSub(c.row_count, Cardinality(X))
             l == c.has_loose_rows \/ LiveRows(u, D) # {}
  <2>1. dc = [c EXCEPT !.max_segment_id = hw, !.row_count = n, !.has_loose_rows = l]
    BY ZenonT(30), <1>2 DEF DecomposeCatalog, CatalogRow
  <2> HIDE DEF hw, n, l, dc
  <2>2. dc.is_compressed = c.is_compressed /\ dc.row_count = n
    BY <2>1 DEF CatalogRow
  <2> QED
    BY <2>2 DEF n
<1>4. g \in SegMap /\ t \in SUBSET Tombstone /\ S \in SUBSET SegIds
  BY SegOfType
<1>5. (\A x \in t : x[2] \in g[x[1]]) /\ (c.is_compressed => c.row_count = Cardinality(Live(g, t)))
  BY DEF Counted
<1> HIDE DEF S, g, t, h, y, X, dc
<1>6. /\ Cardinality(Live(h, y)) = FlooredSub(Cardinality(Live(g, t)), Cardinality(X))
      /\ \A x \in y : x[2] \in h[x[1]]
  BY ZenonT(30), <1>1, <1>4, <1>5, DropCount
<1>7. Counted(dc, h, y)
  BY <1>3, <1>5, <1>6 DEF Counted
<1> QED
  BY <1>7 DEF dc, h, y

(***************************************************************************)
(* The statements.                                                         *)
(***************************************************************************)
LEMMA UnownedView ==
  ASSUME TypeOK, NEW ws, NEW l, NoSegmentWrites(ws, l), ws.segNew = NoSegs
  PROVE  SegOf(ws) = seg /\ TombOf(ws) = tomb
<1>1. seg \in SegMap
  BY DEF TypeOK, Committed, Db, SegMap
<1>2. SegOf(ws) = seg
  BY <1>1 DEF NoSegmentWrites, SegOf, SegMap, NoSegs
<1>3. TombOf(ws) = tomb
  BY DEF NoSegmentWrites, TombOf
<1> QED
  BY ZenonT(30), <1>2, <1>3

\* What a statement reads is counted right: the row it owns, or the committed one.
LEMMA OwnCounted ==
  ASSUME TypeOK, CountInv, NEW s \in Sessions, pc[s] # "compress_finish"
  PROVE  Counted(OwnCat(s), SegOf(w[s]), TombOf(w[s]))
<1>1. CASE catOwner = s
  BY <1>1 DEF CountInv, OwnCat
<1>2. CASE catOwner # s
  <2>1. NoSegmentWrites(w[s], lock[s]) /\ w[s].segNew = NoSegs
    BY <1>2 DEF CountInv, Unowned
  <2>2. SegOf(w[s]) = seg /\ TombOf(w[s]) = tomb
    BY <2>1, UnownedView
  <2>3. Counted(cat, seg, tomb) /\ OwnCat(s) = cat
    BY <1>2 DEF CountInv, OwnCat
  <2> QED
    BY <2>2, <2>3
<1> QED
  BY <1>1, <1>2

\* A step of s that commits nothing leaves what the invariant says of others.
LEMMA OthersCounted ==
  ASSUME CountInv, NEW s \in Sessions, NEW t \in Sessions, t # s,
         UNCHANGED committedVars,
         UNCHANGED <<catOwner, pcat>> \/ (catOwner \in {NoSession, s} /\ catOwner' \in {NoSession, s}),
         pc'[t] = pc[t], lock'[t] = lock[t], w'[t] = w[t]
  PROVE  /\ catOwner' # t => Unowned(t)'
         /\ catOwner' = t => Counted(pcat, SegOf(w[t]), TombOf(w[t]))'
<1>1. /\ catOwner # t => Unowned(t)
      /\ catOwner = t => Counted(pcat, SegOf(w[t]), TombOf(w[t]))
  BY DEF CountInv
<1>2. seg' = seg /\ tomb' = tomb
  BY DEF committedVars
<1>3. t # NoSession
  BY SessionAssumption
<1>4. (catOwner' = t) = (catOwner = t) /\ (catOwner = t => pcat' = pcat)
  BY <1>3
<1>5. SegOf(w[t])' = SegOf(w[t]) /\ TombOf(w[t])' = TombOf(w[t])
  BY <1>2 DEF SegOf, TombOf
<1>6. catOwner' # t => Unowned(t)'
  BY <1>1, <1>2, <1>4 DEF Unowned, NoSegmentWrites
<1>7. catOwner' = t => Counted(pcat, SegOf(w[t]), TombOf(w[t]))'
  BY ZenonT(30), <1>1, <1>4, <1>5 DEF Counted
<1> QED
  BY <1>6, <1>7

\* What a statement of s must do for the invariant to hold after it.
KeepsCount(s, ws, touch, c) ==
  /\ touch \in BOOLEAN
  /\ EndStatement(s, ws, touch, c)
  /\ UNCHANGED lock \/ TakeExclusive(s)
  /\ Counted(RowAfter(s, touch, c), SegOf(ws), TombOf(ws))
  /\ ~touch /\ catOwner # s => NoSegmentWrites(ws, lock'[s]) /\ ws.segNew = NoSegs

\* The end of any statement that keeps the count preserves CountInv.
LEMMA StatementCounts ==
  ASSUME TypeOK, CountInv, NEW s \in Sessions, NEW ws, NEW touch, NEW c,
         KeepsCount(s, ws, touch, c)
  PROVE  CountInv'
<1>1. /\ touch \in BOOLEAN /\ EndStatement(s, ws, touch, c)
      /\ UNCHANGED lock \/ TakeExclusive(s)
      /\ Counted(RowAfter(s, touch, c), SegOf(ws), TombOf(ws))
      /\ ~touch /\ catOwner # s => NoSegmentWrites(ws, lock'[s]) /\ ws.segNew = NoSegs
  BY DEF KeepsCount
<1>2. /\ UNCHANGED committedVars
      /\ w'[s] = ws /\ pc'[s] = "open"
      /\ catOwner' = (IF touch THEN s ELSE catOwner) /\ pcat' = (IF touch THEN c ELSE pcat)
      /\ \A t \in Others(s) : pc'[t] = pc[t] /\ w'[t] = w[t] /\ lock'[t] = lock[t]
  BY ZenonT(30), <1>1 DEF TypeOK, EndStatement, TakeExclusive, Others
<1>3. UNCHANGED <<catOwner, pcat>> \/ (catOwner \in {NoSession, s} /\ catOwner' \in {NoSession, s})
  BY <1>1 DEF EndStatement, CanUpdateCatalog
<1>4. cat' = cat /\ seg' = seg /\ tomb' = tomb
  BY ZenonT(30), <1>2 DEF committedVars
<1>5. Counted(cat, seg, tomb)'
  BY ZenonT(30), <1>4 DEF CountInv, Counted, Live
<1>6. \A t \in Sessions : t # s => /\ catOwner' # t => Unowned(t)'
                                   /\ catOwner' = t => Counted(pcat, SegOf(w[t]), TombOf(w[t]))'
  BY ZenonT(30), <1>2, <1>3, OthersCounted DEF Others
<1>7. catOwner' # s => Unowned(s)'
  <2> SUFFICES ASSUME catOwner' # s PROVE Unowned(s)'
    BY ZenonT(30)
  <2>1. ~touch /\ catOwner # s
    BY <1>1, <1>2
  <2>2. NoSegmentWrites(ws, lock'[s]) /\ ws.segNew = NoSegs
    BY ZenonT(30), <1>1, <2>1
  <2> QED
    BY <1>2, <1>4, <2>2 DEF Unowned, NoSegmentWrites
<1>8. catOwner' = s => Counted(pcat, SegOf(w[s]), TombOf(w[s]))'
  <2> SUFFICES ASSUME catOwner' = s PROVE Counted(pcat, SegOf(w[s]), TombOf(w[s]))'
    BY ZenonT(30)
  <2>1. pcat' = RowAfter(s, touch, c)
    BY ZenonT(30), <1>1, <1>2 DEF RowAfter, OwnCat
  <2>2. SegOf(w[s])' = SegOf(ws) /\ TombOf(w[s])' = TombOf(ws)
    BY <1>2, <1>4 DEF SegOf, TombOf
  <2> QED
    BY ZenonT(30), <1>1, <2>1, <2>2 DEF Counted
<1> QED
  BY ZenonT(30), <1>5, <1>6, <1>7, <1>8 DEF CountInv

\* A statement whose catalog row keeps the count and whose writes are the heap's.
LEMMA HeapStatement ==
  ASSUME TypeOK, CountInv, NEW s \in Sessions, NEW ws, NEW touch \in BOOLEAN, NEW c,
         pc[s] # "compress_finish", EndStatement(s, ws, touch, c), UNCHANGED lock,
         SameSegments(ws, w[s]),
         touch => c.is_compressed = OwnCat(s).is_compressed /\ c.row_count = OwnCat(s).row_count
  PROVE  CountInv'
<1>1. Counted(OwnCat(s), SegOf(w[s]), TombOf(w[s]))
  BY OwnCounted
<1>2. SegOf(ws) = SegOf(w[s]) /\ TombOf(ws) = TombOf(w[s])
  BY SameEffect
<1>3. Counted(RowAfter(s, touch, c), SegOf(ws), TombOf(ws))
  BY ZenonT(30), <1>1, <1>2 DEF Counted, RowAfter
<1>4. catOwner # s => NoSegmentWrites(ws, lock'[s]) /\ ws.segNew = NoSegs
  BY ZenonT(30) DEF CountInv, Unowned, NoSegmentWrites, SameSegments
<1>5. KeepsCount(s, ws, touch, c)
  BY ZenonT(30), <1>3, <1>4 DEF KeepsCount
<1> QED
  BY <1>5, StatementCounts

\* INSERT touches the heap and has_loose_rows only.
LEMMA InsertCounts ==
  ASSUME PlainUse, TypeOK, CountInv, NEW s \in Sessions, NEW r \in Row, Insert(s, r)
  PROVE  CountInv'
<1> DEFINE ws == InsertRows(w[s], {r})
           touch == NotesInsert(s) /\ ~CatSeen(s).has_loose_rows
           c == [CatSeen(s) EXCEPT !.has_loose_rows = TRUE]
<1>1. /\ EndStatement(s, ws, touch, c) /\ pc[s] = "insert" /\ UNCHANGED lock
  BY DEF Insert
<1>2. CatSeen(s) = OwnCat(s) /\ OwnCat(s) \in CatalogRow /\ w[s] \in WriteSet
  BY ReadCommittedView, ViewTypes
<1>3. c.is_compressed = OwnCat(s).is_compressed /\ c.row_count = OwnCat(s).row_count
  BY <1>2 DEF CatalogRow
<1>4. SameSegments(ws, w[s])
  BY <1>2, HeapWritesSame
<1>5. touch \in BOOLEAN
  OBVIOUS
<1> HIDE DEF ws, touch, c
<1> QED
  BY ZenonT(30), <1>1, <1>3, <1>4, <1>5, HeapStatement

\* The early returns of compact, compress and decompress.
LEMMA SkipCounts ==
  ASSUME TypeOK, CountInv, NEW s \in Sessions,
         CompactSkip(s) \/ CompressSkip(s) \/ DecompressSkip(s)
  PROVE  CountInv'
<1> DEFINE touch == FALSE
<1>1. /\ pc[s] \in {"compact", "compress", "decompress"}
      /\ EndStatement(s, w[s], touch, pcat) /\ UNCHANGED lock
  BY Zenon DEF CompactSkip, CompressSkip, DecompressSkip, ReturnUnchanged
<1>2. touch \in BOOLEAN /\ ~touch
  OBVIOUS
<1>3. SameSegments(w[s], w[s])
  BY DEF SameSegments
<1> HIDE DEF touch
<1> QED
  BY <1>1, <1>2, <1>3, HeapStatement

\* The executor hook: tombstones on live rows, then the decompose.
LEMMA HookCounts ==
  ASSUME PlainUse, TypeOK, CountInv, NEW s \in Sessions, pc[s] # "compress_finish",
         NEW P \in SUBSET SegIds, NEW T \in SUBSET SegIds, NEW D \in SUBSET SegIds, NEW K
  PROVE  /\ Counted(RowAfter(s, HookTouches(s, P, T, D, K), HookCatalog(s, P, T, D, K)),
                    SegOf(HookWrites(s, P, T, D, K)), TombOf(HookWrites(s, P, T, D, K)))
         /\ ~HookTouches(s, P, T, D, K) => SameSegments(HookWrites(s, P, T, D, K), w[s])
<1> DEFINE ws == HookWrites(s, P, T, D, K)
           c == HookCatalog(s, P, T, D, K)
           touch == HookTouches(s, P, T, D, K)
           nc == RowAfter(s, touch, c)
           new == NewTombstones(View(s), T, K)
           w1 == InsertTombstones(w[s], new)
           c1 == TombstoneCatalog(OwnCat(s), new)
           v1 == Apply(Base(s), w1, CatSeen(s))
           v2 == Apply(Base(s), w1, c1)
           g == SegOf(w[s])
           t == TombOf(w[s])
<1>1. Counted(OwnCat(s), g, t)
  BY ZenonT(30), OwnCounted
<1>2. /\ w[s] \in WriteSet /\ OwnCat(s) \in CatalogRow /\ CatSeen(s) = OwnCat(s)
      /\ Base(s) = Committed /\ Committed \in Db
  BY ZenonT(30), ReadCommittedView, ViewTypes DEF TypeOK
<1>3. g \in SegMap /\ t \in SUBSET Tombstone
  BY <1>2, SegOfType
<1>4. new \in SUBSET Live(g, t) /\ new \in SUBSET Tombstone
  <2>1. View(s).seg = g /\ View(s).tomb = t
    BY ReadCommittedSegs
  <2> HIDE DEF g, t
  <2> QED
    BY <2>1 DEF NewTombstones, Live, Tombstone
<1> HIDE DEF new
<1>5. w1 \in WriteSet
  <2>1. {} \in SUBSET Row
    OBVIOUS
  <2> QED
    BY ZenonT(30), <1>2, <1>4, <2>1, WriteOpsType
<1>6. SegOf(w1) = g /\ TombOf(w1) = t \cup new
  BY <1>2, InsertTombstonesSegs, InsertTombstonesEffect
<1>7. new = {} => SameSegments(w1, w[s])
  BY <1>2 DEF InsertTombstones, WriteSet, SameSegments
<1>8. /\ c1 \in CatalogRow /\ c1.is_compressed = OwnCat(s).is_compressed
      /\ c1.row_count = IF new = {} THEN OwnCat(s).row_count
                        ELSE FlooredSub(OwnCat(s).row_count, Cardinality(new))
      /\ new = {} => c1 = OwnCat(s)
  <2> DEFINE n == FlooredSub(OwnCat(s).row_count, Cardinality(new))
  <2>1. n \in Nat
    BY <1>2, <1>4, TombstoneSetFinite DEF FlooredSub, CatalogRow
  <2>2. c1 = IF new = {} THEN OwnCat(s)
             ELSE [OwnCat(s) EXCEPT !.row_count = n, !.has_tombstones = TRUE]
    BY DEF TombstoneCatalog
  <2> HIDE DEF n, c1
  <2>3. /\ c1 \in CatalogRow /\ c1.is_compressed = OwnCat(s).is_compressed
        /\ c1.row_count = IF new = {} THEN OwnCat(s).row_count ELSE n
        /\ new = {} => c1 = OwnCat(s)
    BY Zenon, <1>2, <2>1, <2>2 DEF CatalogRow
  <2> QED
    BY <2>3 DEF n
<1> HIDE DEF c1
<1>9. Counted(c1, SegOf(w1), TombOf(w1))
  <2>1. CASE new = {}
    BY ZenonT(30), <1>1, <1>6, <1>8, <2>1
  <2>2. CASE new # {}
    <3>1. /\ Cardinality(Live(g, t \cup new)) = FlooredSub(Cardinality(Live(g, t)), Cardinality(new))
          /\ \A x \in new : x[2] \in g[x[1]]
      BY ZenonT(30), <1>3, <1>4, TombstoneCount
    <3> QED
      BY ZenonT(30), <1>1, <1>6, <1>8, <2>2, <3>1 DEF Counted
  <2> QED
    BY <2>1, <2>2
<1>10. /\ v1 \in Db /\ v1.seg = SegOf(w1) /\ v1.tomb = TombOf(w1)
       /\ v2 \in Db /\ v2.seg = SegOf(w1) /\ v2.tomb = TombOf(w1)
  BY ZenonT(30), <1>2, <1>5, <1>8, ApplyType, ApplySegs
<1>11. /\ ws = IF P \cup D = {} THEN w1 ELSE DecomposeWrites(w1, v1, D, P)
       /\ c = IF P \cup D = {} THEN c1 ELSE DecomposeCatalog(c1, v2, D, P)
       /\ touch = (new # {} \/ P \cup D # {})
  BY ZenonT(30), <1>2 DEF HookWrites, HookCatalog, HookTouches, new, c1
<1>12. nc = IF touch THEN c ELSE OwnCat(s)
  BY ZenonT(30) DEF RowAfter
<1> HIDE DEF w1, v1, v2, ws, c, touch, nc
<1>13. CASE P \cup D = {}
  <2>1. ws = w1 /\ nc = c1
    BY Zenon, <1>8, <1>11, <1>12, <1>13
  <2>2. ~touch => SameSegments(ws, w[s])
    BY Zenon, <1>7, <1>11, <1>13, <2>1
  <2> QED
    BY <1>9, <2>1, <2>2 DEF ws, nc, touch, c
<1>14. CASE P \cup D # {}
  <2>1. ws = DecomposeWrites(w1, v1, D, P) /\ nc = DecomposeCatalog(c1, v2, D, P) /\ touch
    BY Zenon, <1>11, <1>12, <1>14
  <2>2. Counted(nc, SegOf(ws), TombOf(ws))
    BY ZenonT(30), <1>5, <1>8, <1>9, <1>10, <2>1, DecomposeCounted
  <2> QED
    BY ZenonT(30), <2>1, <2>2 DEF ws, nc, touch, c
<1> QED
  BY ZenonT(30), <1>13, <1>14

\* A whole DELETE or UPDATE: the hook, then the heap part of the statement.
LEMMA RunDmlCounts ==
  ASSUME PlainUse, TypeOK, CountInv, NEW s \in Sessions,
         NEW P \in SUBSET SegIds, NEW T \in SUBSET SegIds, NEW D \in SUBSET SegIds, NEW K,
         NEW V \in SUBSET Vals, pc[s] \in {"delete", "update"},
         RunDml(s, P, T, D, K, V)
  PROVE  CountInv'
<1> DEFINE ws == HookWrites(s, P, T, D, K)
           old == HeapTargets(s, ws, K)
           w2 == InsertRows(DeleteRows(ws, old), Rewritten(old, V))
           touch == HookTouches(s, P, T, D, K)
           c == HookCatalog(s, P, T, D, K)
           nc == RowAfter(s, touch, c)
<1>1. /\ IF P \cup D = {} THEN UNCHANGED lock ELSE TakeExclusive(s)
      /\ EndStatement(s, w2, touch, c)
  BY DEF RunDml, HookTouches
<1>2. ws \in WriteSet
  BY ZenonT(30), HookWritesType
<1>3. Counted(nc, SegOf(ws), TombOf(ws)) /\ (~touch => SameSegments(ws, w[s]))
  BY ZenonT(30), HookCounts
<1>4. touch \in BOOLEAN /\ (~touch => UNCHANGED lock)
  BY <1>1 DEF HookTouches
<1> HIDE DEF ws, touch, c
<1>5. old \in SUBSET Row
  BY ZenonT(30), <1>2, TargetTypes
<1> HIDE DEF old
<1>6. SameSegments(w2, ws)
  <2>1. {} \in SUBSET Tombstone
    OBVIOUS
  <2>2. DeleteRows(ws, old) \in WriteSet
    BY <1>2, <1>5, <2>1, WriteOpsType
  <2>3. SameSegments(DeleteRows(ws, old), ws) /\ SameSegments(w2, DeleteRows(ws, old))
    BY ZenonT(30), <1>2, <2>2, HeapWritesSame
  <2> HIDE DEF w2
  <2> QED
    BY <2>3 DEF SameSegments
<1> HIDE DEF w2
<1>7. Counted(nc, SegOf(w2), TombOf(w2))
  <2>1. SegOf(w2) = SegOf(ws) /\ TombOf(w2) = TombOf(ws)
    BY ZenonT(30), <1>6, SameEffect
  <2> QED
    BY <1>3, <2>1
<1>8. ~touch /\ catOwner # s => NoSegmentWrites(w2, lock'[s]) /\ w2.segNew = NoSegs
  BY <1>3, <1>4, <1>6 DEF CountInv, Unowned, NoSegmentWrites, SameSegments
<1>9. UNCHANGED lock \/ TakeExclusive(s)
  BY ZenonT(30), <1>1
<1>10. KeepsCount(s, w2, touch, c)
  BY ZenonT(30), <1>1, <1>4, <1>7, <1>8, <1>9 DEF KeepsCount
<1> QED
  BY ZenonT(30), <1>10, StatementCounts

\* DELETE.
LEMMA DeleteCounts ==
  ASSUME PlainUse, TypeOK, CountInv, NEW s \in Sessions, NEW K, NEW C \in SUBSET SegIds,
         NEW P \in SUBSET SegIds, NEW D \in SUBSET SegIds, Delete(s, K, C, P, D)
  PROVE  CountInv'
<1> DEFINE T == C \ (P \cup D)
<1>1. RunDml(s, P, T, D, K, {}) /\ pc[s] = "delete"
  BY DEF Delete
<1>2. T \in SUBSET SegIds /\ {} \in SUBSET Vals
  OBVIOUS
<1> HIDE DEF T
<1> QED
  BY ZenonT(30), <1>1, <1>2, RunDmlCounts

\* UPDATE.
LEMMA UpdateCounts ==
  ASSUME PlainUse, TypeOK, CountInv, NEW s \in Sessions, NEW K, NEW C \in SUBSET SegIds,
         NEW val \in Vals, Update(s, K, C, val)
  PROVE  CountInv'
<1>1. RunDml(s, {}, {}, C, K, {val}) /\ pc[s] = "update"
  BY DEF Update
<1>2. {} \in SUBSET SegIds /\ {val} \in SUBSET Vals
  BY ZenonT(30)
<1> QED
  BY <1>1, <1>2, RunDmlCounts

\* Folding the tombstones of compact_partition_impl.
LEMMA FoldedCounts ==
  ASSUME PlainUse, TypeOK, CountInv, NEW s \in Sessions, pc[s] # "compress_finish"
  PROVE  /\ Counted(FoldedCatalog(s), SegOf(FoldedWrites(s)), TombOf(FoldedWrites(s)))
         /\ FoldedView(s).seg = SegOf(FoldedWrites(s))
         /\ FoldedView(s).tomb = TombOf(FoldedWrites(s))
         /\ FoldedView(s).cat = FoldedCatalog(s)
         /\ View(s).tomb = {} => /\ FoldedWrites(s).segNew = w[s].segNew
                                 /\ FoldedWrites(s).segDel = w[s].segDel
                                 /\ FoldedWrites(s).tIns = {} /\ FoldedWrites(s).tDel = {}
                                 /\ FoldedCatalog(s).row_count = OwnCat(s).row_count
<1> DEFINE v == View(s)
           S == TombstonedSegments(v)
           rw == RewriteWrites(s)
           rc == RewriteCatalog(s)
           fw == FoldedWrites(s)
           fc == FoldedCatalog(s)
<1>1. Counted(OwnCat(s), SegOf(w[s]), TombOf(w[s]))
  BY OwnCounted
<1>2. /\ w[s] \in WriteSet /\ OwnCat(s) \in CatalogRow /\ CatSeen(s) = OwnCat(s)
      /\ Base(s) = Committed /\ v \in Db
  BY ReadCommittedView, ViewTypes
<1>3. rw \in WriteSet /\ rc \in CatalogRow
  BY FoldedTypes, FoldedWritesType
<1>4. S \in SUBSET SegIds /\ {} \in SUBSET SegIds
  BY <1>2 DEF TombstonedSegments, Db, Tombstone
<1>5. v.seg = SegOf(w[s]) /\ v.tomb = TombOf(w[s])
  BY ZenonT(30), ReadCommittedSegs
<1>6. /\ rw = IF v.tomb = {} THEN w[s] ELSE DecomposeWrites(w[s], v, S, {})
      /\ rc = IF v.tomb = {} THEN OwnCat(s) ELSE DecomposeCatalog(OwnCat(s), v, S, {})
  BY ZenonT(30), <1>2 DEF RewriteWrites, RewriteCatalog
<1>7. Apply(Base(s), rw, rc).tomb = TombOf(rw)
  BY <1>2, ApplySegs
<1>8. /\ fw = IF TombOf(rw) = {} THEN TruncateTombstones(rw) ELSE rw
      /\ fc = IF TombOf(rw) = {} THEN [rc EXCEPT !.has_tombstones = FALSE] ELSE rc
  BY <1>7 DEF FoldedWrites, FoldedCatalog
<1>9. FoldedView(s).seg = SegOf(fw) /\ FoldedView(s).tomb = TombOf(fw) /\ FoldedView(s).cat = fc
  BY ZenonT(30), <1>2, ApplySegs, ApplyFields DEF FoldedView
<1> HIDE DEF v, S, rw, rc, fw, fc
<1>10. Counted(rc, SegOf(rw), TombOf(rw))
  <2>1. CASE v.tomb = {}
    BY Zenon, <1>1, <1>6, <2>1
  <2>2. CASE v.tomb # {}
    <3>1. rw = DecomposeWrites(w[s], v, S, {}) /\ rc = DecomposeCatalog(OwnCat(s), v, S, {})
      BY <1>6, <2>2
    <3> QED
      BY ZenonT(30), <1>1, <1>2, <1>4, <1>5, <3>1, DecomposeCounted
  <2> QED
    BY <2>1, <2>2
<1>11. fc.is_compressed = rc.is_compressed /\ fc.row_count = rc.row_count
  BY Zenon, <1>3, <1>8 DEF CatalogRow
<1>12. SegOf(fw) = SegOf(rw) /\ TombOf(fw) = TombOf(rw)
  BY ZenonT(30), <1>3, <1>8, TruncateTombstonesSegs
<1>13. Counted(fc, SegOf(fw), TombOf(fw))
  BY ZenonT(30), <1>10, <1>11, <1>12 DEF Counted
<1>14. v.tomb = {} => /\ fw.segNew = w[s].segNew /\ fw.segDel = w[s].segDel
                      /\ fw.tIns = {} /\ fw.tDel = {} /\ fc.row_count = OwnCat(s).row_count
  <2> SUFFICES ASSUME v.tomb = {}
               PROVE  /\ fw.segNew = w[s].segNew /\ fw.segDel = w[s].segDel
                      /\ fw.tIns = {} /\ fw.tDel = {} /\ fc.row_count = OwnCat(s).row_count
    OBVIOUS
  <2>1. rw = w[s] /\ rc = OwnCat(s) /\ TombOf(rw) = {}
    BY <1>5, <1>6
  <2>2. fw = TruncateTombstones(w[s])
    BY <1>8, <2>1
  <2> QED
    BY ZenonT(30), <1>2, <1>11, <2>1, <2>2, TruncateTombstonesSegs
<1> QED
  BY ZenonT(30), <1>9, <1>13, <1>14 DEF fw, fc, v

\* Compaction: the fold of the tombstones, then the loose rows as new segments.
LEMMA CompactCounts ==
  ASSUME PlainUse, TypeOK, CountInv, NEW s \in Sessions, NEW A \in SUBSET Row,
         CompactNothing(s) \/ CompactLoose(s, A)
  PROVE  CountInv'
<1> DEFINE fw == FoldedWrites(s)
           fc == FoldedCatalog(s)
           v == FoldedView(s)
           th == TruncateHeap(fw)
<1>1. Iso[s] = "RC" /\ pc[s] = "compact" /\ TakeExclusive(s) /\ View(s).cat.is_compressed
  BY Zenon DEF PlainUse, CompactNothing, CompactLoose
<1>2. fw \in WriteSet /\ fc \in CatalogRow /\ v \in Db
  BY ZenonT(30), FoldedTypes, FoldedWritesType
<1>3. /\ Counted(fc, SegOf(fw), TombOf(fw))
      /\ v.seg = SegOf(fw) /\ v.tomb = TombOf(fw) /\ v.cat = fc
      /\ View(s).tomb = {} => /\ fw.segNew = w[s].segNew /\ fw.segDel = w[s].segDel
                              /\ fw.tIns = {} /\ fw.tDel = {}
  BY <1>1, FoldedCounts
<1>4. th \in WriteSet /\ SameSegments(th, fw)
  <2>1. {} \in SUBSET Row /\ {} \in SUBSET Tombstone
    OBVIOUS
  <2> QED
    BY ZenonT(30), <1>2, <2>1, WriteOpsType, HeapWritesSame
<1>5. SegOf(th) = SegOf(fw) /\ TombOf(th) = TombOf(fw)
  BY ZenonT(30), <1>4, SameEffect
<1>6. CatSeen(s) = OwnCat(s) /\ lock'[s] = "AE"
  BY ZenonT(30), <1>1, ReadCommittedView DEF TakeExclusive, TypeOK
<1>7. CASE CompactNothing(s)
  <2> DEFINE c == [fc EXCEPT !.has_loose_rows = FALSE]
             touch == View(s).tomb # {} \/ c # CatSeen(s)
  <2>1. EndStatement(s, th, touch, c)
    BY <1>1, <1>7 DEF CompactNothing
  <2>2. RowAfter(s, touch, c) = c /\ touch \in BOOLEAN
    BY Zenon, <1>6 DEF RowAfter
  <2>3. c.is_compressed = fc.is_compressed /\ c.row_count = fc.row_count
    BY <1>2 DEF CatalogRow
  <2>4. ~touch => View(s).tomb = {}
    OBVIOUS
  <2> HIDE DEF fw, fc, v, th, c, touch
  <2>5. Counted(c, SegOf(th), TombOf(th))
    BY ZenonT(30), <1>3, <1>5, <2>3 DEF Counted
  <2>6. ~touch /\ catOwner # s => NoSegmentWrites(th, lock'[s]) /\ th.segNew = NoSegs
    <3> SUFFICES ASSUME ~touch, catOwner # s
                 PROVE  NoSegmentWrites(th, lock'[s]) /\ th.segNew = NoSegs
      BY ZenonT(30)
    <3>1. NoSegmentWrites(w[s], lock[s]) /\ w[s].segNew = NoSegs
      BY ZenonT(30), <1>1 DEF CountInv, Unowned
    <3>2. tomb = {}
      BY ZenonT(30), <2>4, <3>1, UnownedView, ReadCommittedSegs
    <3>3. /\ fw.segNew = NoSegs /\ fw.segDel = {} /\ fw.tIns = {} /\ fw.tDel = {}
      BY ZenonT(30), <1>3, <2>4, <3>1 DEF NoSegmentWrites
    <3> QED
      BY ZenonT(30), <1>4, <1>6, <3>2, <3>3 DEF NoSegmentWrites, SameSegments
  <2>7. KeepsCount(s, th, touch, c)
    BY ZenonT(30), <1>1, <2>1, <2>2, <2>5, <2>6 DEF KeepsCount
  <2> QED
    BY <2>7, StatementCounts
<1>8. CASE CompactLoose(s, A)
  <2> DEFINE n == HighWater(v, v.cat) + 1
             R == v.heap
             news == NewSegments(n, A, R)
             w2 == AddSegments(th, news)
             c == [BumpCompaction(v.cat, Cardinality(R)) EXCEPT !.has_loose_rows = FALSE]
             touch == TRUE
  <2>1. /\ EndStatement(s, w2, touch, c) /\ A \in SUBSET R
        /\ n + (IF A = R THEN 0 ELSE 1) <= MaxSeg
    BY Zenon, <1>1, <1>8 DEF CompactLoose
  <2>2. R \in SUBSET Row /\ Cardinality(R) \in Nat
    BY <1>2, RowSetFinite DEF Db
  <2>3. news \in SegMap
    BY ZenonT(30), <2>2, NewSegmentsType DEF SegMap
  <2>4. n \in Nat \ {0} /\ \A i \in SegIds : SegOf(fw)[i] # {} => i < n
    <3>1. v.cat \in CatalogRow
      BY ZenonT(30), <1>2, <1>3
    <3>2. HighWater(v, v.cat) \in Nat /\ \A i \in Segments(v) : i <= HighWater(v, v.cat)
      BY <1>2, <3>1, HighWaterIsMax
    <3> HIDE DEF v, fw
    <3>3. \A i \in SegIds : i \in Int /\ (SegOf(fw)[i] # {} => i \in Segments(v))
      BY <1>3 DEF Segments, SegIds
    <3>4. \A i \in SegIds : SegOf(fw)[i] # {} => i <= HighWater(v, v.cat)
      BY Zenon, <3>2, <3>3
    <3> QED
      BY ONLY <3>2, <3>3, <3>4
  <2>5. c.is_compressed = fc.is_compressed /\ c.row_count = fc.row_count + Cardinality(R)
    BY ZenonT(30), <1>2, <1>3, <2>2 DEF CatalogRow, BumpCompaction
  <2>6. n <= MaxSeg /\ (A # R => n + 1 <= MaxSeg)
    BY <2>1, <2>4, DataAssumption
  <2>7. SegOf(fw) \in SegMap /\ TombOf(fw) \in SUBSET Tombstone
    BY ZenonT(30), <1>2, SegOfType
  <2>8. SegOf(w2) = [i \in SegIds |-> IF news[i] # {} THEN news[i] ELSE SegOf(th)[i]]
    BY ZenonT(30), <1>4, <2>3, AddSegmentsSegs
  <2>9. TombOf(w2) = TombOf(th)
    <3>1. w2.tIns = th.tIns /\ w2.tDel = th.tDel /\ w2.tTrunc = th.tTrunc
      BY Zenon, <1>4, AddSegmentsFields
    <3> HIDE DEF w2, th
    <3> QED
      BY <3>1 DEF TombOf
  <2>10. touch \in BOOLEAN /\ RowAfter(s, touch, c) = c
    BY DEF RowAfter
  <2> HIDE DEF fw, fc, v, th, n, R, w2, c, touch
  <2>11. /\ \A x \in TombOf(fw) : x[2] \in SegOf(fw)[x[1]]
         /\ fc.is_compressed => fc.row_count = Cardinality(Live(SegOf(fw), TombOf(fw)))
    BY ZenonT(30), <1>3 DEF Counted
  <2>12. /\ Cardinality(Live(SegOf(w2), TombOf(fw))) =
              Cardinality(Live(SegOf(fw), TombOf(fw))) + Cardinality(R)
         /\ \A x \in TombOf(fw) : x[2] \in SegOf(w2)[x[1]]
    <3>1. SegOf(w2) = SegsWith(SegOf(fw), n, A, R)
      BY ZenonT(30), <1>5, <2>8 DEF SegsWith
    <3>2. A \in SUBSET R /\ R \in SUBSET Row /\ n \in Nat \ {0}
      BY ZenonT(30), <2>1, <2>2, <2>4
    <3>3. \A i \in SegIds : SegOf(fw)[i] # {} => i < n
      BY ZenonT(30), <2>4
    <3>4. /\ Cardinality(Live(SegsWith(SegOf(fw), n, A, R), TombOf(fw))) =
               Cardinality(Live(SegOf(fw), TombOf(fw))) + Cardinality(R)
          /\ \A x \in TombOf(fw) : x[2] \in SegsWith(SegOf(fw), n, A, R)[x[1]]
      <4> HIDE DEF news
      <4>1. \A x \in TombOf(fw) : x[2] \in SegOf(fw)[x[1]]
        BY ZenonT(30), <2>11
      <4> QED
        BY ZenonT(30), <2>6, <2>7, <3>2, <3>3, <4>1, BatchAdds
    <3> QED
      BY ZenonT(30), <3>1, <3>4
  <2>13. Counted(c, SegOf(w2), TombOf(w2))
    BY ZenonT(30), <1>5, <2>5, <2>9, <2>11, <2>12 DEF Counted
  <2>14. touch
    BY ZenonT(30) DEF touch
  <2>15. KeepsCount(s, w2, touch, c)
    BY ZenonT(30), <1>1, <2>1, <2>10, <2>13, <2>14 DEF KeepsCount
  <2> QED
    BY <2>15, StatementCounts
<1> QED
  BY <1>7, <1>8

\* The first step of compress: segments are written, the catalog row not yet.
LEMMA CompressReadCounts ==
  ASSUME PlainUse, TypeOK, FlagInv, CountInv, NEW s \in Sessions, NEW A \in SUBSET Row,
         CompressRead(s, A)
  PROVE  CountInv'
<1> DEFINE news == NewSegments(1, A, View(s).heap)
           w1 == AddSegments(w[s], news)
<1>1. LockDiscipline(s) /\ StepDiscipline(s)
  BY DEF FlagInv
<1>2. pc[s] = "compress" /\ lock[s] = "none"
  BY Zenon, <1>1 DEF CompressRead, StepDiscipline
<1>3. /\ UNCHANGED <<committedVars, catOwner, pcat>>
      /\ pc'[s] = "compress_finish" /\ w'[s] = w1
      /\ \A t \in Others(s) : pc'[t] = pc[t] /\ lock'[t] = lock[t] /\ w'[t] = w[t]
  BY Zenon, <1>2 DEF CompressRead, TypeOK, Others
<1>4. catOwner # s /\ ~w[s].tTrunc
  BY <1>1, <1>2 DEF LockDiscipline
<1>5. Unowned(s)
  BY <1>4 DEF CountInv
<1>6. w[s] \in WriteSet /\ news \in SegMap
  BY ZenonT(30), ViewTypes, NewSegmentsType DEF SegMap, Db
<1>7. w1.tIns = w[s].tIns /\ w1.tDel = w[s].tDel /\ w1.tTrunc = w[s].tTrunc
  BY ZenonT(30), <1>6, AddSegmentsFields
<1>8. w1.segDel \subseteq w[s].segDel
  BY <1>6, AddSegmentsSegs
<1> HIDE DEF w1
<1>9. Unowned(s)' /\ catOwner' # s
  BY ZenonT(30), <1>3, <1>4, <1>5, <1>7, <1>8 DEF Unowned, NoSegmentWrites
<1>10. \A t \in Sessions : t # s => /\ catOwner' # t => Unowned(t)'
                                    /\ catOwner' = t => Counted(pcat, SegOf(w[t]), TombOf(w[t]))'
  BY ZenonT(30), <1>3, OthersCounted DEF Others
<1>11. Counted(cat, seg, tomb)'
  BY <1>3 DEF CountInv, Counted, Live, committedVars
<1> QED
  BY ZenonT(30), <1>9, <1>10, <1>11 DEF CountInv

\* compress_partition_impl counts what it stored.
LEMMA CompressFinishCounts ==
  ASSUME PlainUse, TypeOK, FlagInv, CountInv, NEW s \in Sessions, CompressFinish(s)
  PROVE  CountInv'
<1> DEFINE k == Cardinality(LivePairs(View(s), SegIds))
           c == [CatSeen(s) EXCEPT !.is_compressed = TRUE, !.has_loose_rows = FALSE,
                                   !.has_tombstones = FALSE, !.row_count = k]
           ws == TruncateHeap(w[s])
           touch == TRUE
<1>1. pc[s] = "compress_finish" /\ TakeExclusive(s) /\ EndStatement(s, ws, touch, c)
  BY Zenon DEF CompressFinish
<1>2. LockDiscipline(s) /\ StepDiscipline(s) /\ Covered(cat, heap, tomb)
  BY DEF FlagInv
<1>3. ~cat.is_compressed /\ lock[s] = "AS"
  BY <1>1, <1>2 DEF StepDiscipline
<1>4. TombOf(w[s]) = {}
  <2>1. tomb = {}
    BY ZenonT(30), <1>2, <1>3 DEF Covered
  <2>2. w[s].tIns = {}
    BY ZenonT(30), <1>2, <1>3 DEF LockDiscipline
  <2> QED
    BY <2>1, <2>2 DEF TombOf
<1>5. SegOf(ws) = SegOf(w[s]) /\ TombOf(ws) = {}
  <2>1. SameSegments(ws, w[s])
    BY ViewTypes, HeapWritesSame
  <2> QED
    BY <1>4, <2>1, SameEffect
<1>6. LivePairs(View(s), SegIds) = Live(SegOf(w[s]), TombOf(w[s]))
  BY ReadCommittedSegs DEF LivePairs, Live
<1>7. c.row_count = k
  <2>1. CatSeen(s) \in CatalogRow
    BY ViewTypes
  <2> HIDE DEF k
  <2> QED
    BY <2>1 DEF CatalogRow
<1>8. Counted(c, SegOf(ws), TombOf(ws))
  <2>1. c.row_count = Cardinality(Live(SegOf(ws), TombOf(ws)))
    BY <1>4, <1>5, <1>6, <1>7
  <2> HIDE DEF c, ws
  <2> QED
    BY <1>5, <2>1 DEF Counted
<1>9. touch \in BOOLEAN /\ touch /\ RowAfter(s, touch, c) = c
  BY ZenonT(30) DEF RowAfter
<1> HIDE DEF ws, touch, c
<1>10. KeepsCount(s, ws, touch, c)
  BY ZenonT(30), <1>1, <1>8, <1>9 DEF KeepsCount
<1> QED
  BY <1>10, StatementCounts

\* Decompress: every segment back to the heap, row_count back to 0.
LEMMA DecompressCounts ==
  ASSUME PlainUse, TypeOK, CountInv, NEW s \in Sessions, Decompress(s)
  PROVE  CountInv'
<1> DEFINE c == [CatSeen(s) EXCEPT !.is_compressed = FALSE, !.row_count = 0,
                                   !.max_segment_id = 0]
           wd == DecomposeWrites(w[s], View(s), SegIds, {})
           ws == TruncateTombstones(wd)
           touch == TRUE
<1>1. TakeExclusive(s) /\ EndStatement(s, ws, touch, c)
  BY Zenon DEF Decompress
<1>2. wd \in WriteSet
  <2>1. SegIds \in SUBSET SegIds /\ {} \in SUBSET SegIds
    OBVIOUS
  <2> QED
    BY <2>1, ViewTypes, DecomposeWritesType
<1> HIDE DEF wd
<1>3. TombOf(ws) = {}
  BY <1>2, TruncateTombstonesSegs
<1>4. ~c.is_compressed
  BY ViewTypes DEF CatalogRow
<1>5. touch \in BOOLEAN /\ touch /\ RowAfter(s, touch, c) = c
  BY DEF RowAfter
<1> HIDE DEF ws, touch, c
<1>6. Counted(c, SegOf(ws), TombOf(ws))
  BY <1>3, <1>4 DEF Counted
<1>7. KeepsCount(s, ws, touch, c)
  BY ZenonT(30), <1>1, <1>5, <1>6 DEF KeepsCount
<1> QED
  BY <1>7, StatementCounts

(***************************************************************************)
(* Transactions.                                                           *)
(***************************************************************************)
LEMMA StartCounts ==
  ASSUME TypeOK, CountInv, NEW s \in Sessions, NEW op \in Ops, StartStatement(s, op)
  PROVE  CountInv'
<1>1. /\ UNCHANGED <<committedVars, catOwner, pcat, w>>
      /\ pc'[s] = op /\ pc[s] # "compress_finish"
      /\ \A t \in Others(s) : pc'[t] = pc[t] /\ lock'[t] = lock[t]
      /\ lock[s] = "AE" => lock'[s] = "AE"
  <2>1. /\ UNCHANGED <<committedVars, catOwner, pcat, w>>
        /\ pc[s] \in {"open", "idle"}
        /\ pc' = [pc EXCEPT ![s] = op]
        /\ lock' = [lock EXCEPT ![s] = IF @ = "AE" \/ PlanLock(op) = "none" THEN @ ELSE "RE"]
    BY ZenonT(30) DEF StartStatement
  <2>2. DOMAIN pc = Sessions /\ DOMAIN lock = Sessions
    BY DEF TypeOK
  <2>3. pc'[s] = op /\ (lock[s] = "AE" => lock'[s] = "AE")
    BY ZenonT(30), <2>1, <2>2
  <2>4. \A t \in Others(s) : pc'[t] = pc[t] /\ lock'[t] = lock[t]
    BY ZenonT(30), <2>1, <2>2 DEF Others
  <2>5. pc[s] # "compress_finish"
    BY ZenonT(30), <2>1
  <2> QED
    BY ZenonT(30), <2>1, <2>3, <2>4, <2>5
<1>2. cat' = cat /\ seg' = seg /\ tomb' = tomb
  BY ZenonT(30), <1>1 DEF committedVars
<1>3. Counted(cat, seg, tomb)'
  BY ZenonT(30), <1>2 DEF CountInv, Counted, Live
<1>4. \A t \in Sessions : t # s => /\ catOwner' # t => Unowned(t)'
                                   /\ catOwner' = t => Counted(pcat, SegOf(w[t]), TombOf(w[t]))'
  <2> SUFFICES ASSUME NEW t \in Sessions, t # s
               PROVE  /\ catOwner' # t => Unowned(t)'
                      /\ catOwner' = t => Counted(pcat, SegOf(w[t]), TombOf(w[t]))'
    BY ZenonT(30)
  <2>1. UNCHANGED committedVars /\ UNCHANGED <<catOwner, pcat>> /\ w'[t] = w[t]
    BY ZenonT(30), <1>1
  <2>2. pc'[t] = pc[t] /\ lock'[t] = lock[t]
    BY ZenonT(30), <1>1 DEF Others
  <2> QED
    BY ZenonT(30), <2>1, <2>2, OthersCounted
<1>5. catOwner' # s => Unowned(s)'
  BY ZenonT(30), <1>1, <1>2 DEF CountInv, Unowned, NoSegmentWrites
<1>6. catOwner' = s => Counted(pcat, SegOf(w[s]), TombOf(w[s]))'
  <2>1. SegOf(w[s])' = SegOf(w[s]) /\ TombOf(w[s])' = TombOf(w[s]) /\ pcat' = pcat
    BY ZenonT(30), <1>1, <1>2 DEF SegOf, TombOf
  <2>2. catOwner' = s => Counted(pcat, SegOf(w[s]), TombOf(w[s]))
    BY ZenonT(30), <1>1 DEF CountInv
  <2> QED
    BY ZenonT(30), <2>1, <2>2 DEF Counted
<1> QED
  BY ZenonT(30), <1>3, <1>4, <1>5, <1>6 DEF CountInv

\* A session whose transaction ended holds no catalog row and no writes.
LEMMA EndTxnCounts ==
  ASSUME TypeOK, NEW s \in Sessions, EndTxn(s)
  PROVE  catOwner' # s /\ Unowned(s)'
<1>1. pc'[s] = "idle" /\ w'[s] = NoWrites /\ catOwner' # s
  BY SessionAssumption DEF EndTxn, TypeOK
<1>2. NoWrites.segNew = NoSegs /\ NoWrites.segDel = {}
  BY ZenonT(30) DEF NoWrites
<1>3. /\ w'[s].tIns = {} /\ w'[s].tDel = {} /\ w'[s].segDel = {}
      /\ ~w'[s].tTrunc /\ w'[s].segNew = NoSegs
  BY ZenonT(30), <1>1, <1>2, NoWritesFields
<1>4. NoSegmentWrites(w[s], lock[s])'
  BY ZenonT(30), <1>3 DEF NoSegmentWrites
<1> QED
  BY ZenonT(30), <1>1, <1>3, <1>4 DEF Unowned

\* Rollback.
LEMMA AbortCounts ==
  ASSUME TypeOK, CountInv, NEW s \in Sessions, Abort(s)
  PROVE  CountInv'
<1>1. EndTxn(s) /\ UNCHANGED committedVars
  BY DEF Abort
<1>2. catOwner' # s /\ Unowned(s)'
  BY ZenonT(30), <1>1, EndTxnCounts
<1>3. \A t \in Others(s) : pc'[t] = pc[t] /\ lock'[t] = lock[t] /\ w'[t] = w[t]
  BY ZenonT(30), <1>1 DEF EndTxn, TypeOK, Others
<1>4. UNCHANGED <<catOwner, pcat>> \/ (catOwner \in {NoSession, s} /\ catOwner' \in {NoSession, s})
  BY ZenonT(30), <1>1 DEF EndTxn
<1>5. \A t \in Sessions : t # s => /\ catOwner' # t => Unowned(t)'
                                   /\ catOwner' = t => Counted(pcat, SegOf(w[t]), TombOf(w[t]))'
  BY ZenonT(30), <1>1, <1>3, <1>4, OthersCounted DEF Others
<1>6. Counted(cat, seg, tomb)'
  BY ZenonT(30), <1>1 DEF CountInv, Counted, Live, committedVars
<1> QED
  BY ZenonT(30), <1>2, <1>5, <1>6 DEF CountInv

\* The commit installs segments and tombstones of the owner of the catalog row only.
LEMMA CommitCounts ==
  ASSUME PlainUse, TypeOK, FlagInv, CountInv, NEW s \in Sessions, Commit(s)
  PROVE  CountInv'
<1>1. /\ cat' = OwnCat(s) /\ seg' = SegOf(w[s]) /\ tomb' = TombOf(w[s])
      /\ EndTxn(s) /\ pc[s] = "open"
  BY Zenon DEF Commit, Apply, Committed, OwnCat, SegOf, TombOf
<1>2. Counted(cat, seg, tomb)'
  <2>1. Counted(OwnCat(s), SegOf(w[s]), TombOf(w[s]))
    BY ZenonT(30), <1>1, OwnCounted
  <2> QED
    BY ZenonT(30), <1>1, <2>1 DEF Counted, Live
<1>3. catOwner' # s /\ Unowned(s)'
  BY <1>1, EndTxnCounts
<1>4. ASSUME NEW t \in Sessions, t # s
      PROVE  /\ catOwner' # t => Unowned(t)'
             /\ catOwner' = t => Counted(pcat, SegOf(w[t]), TombOf(w[t]))'
  <2>1. pc'[t] = pc[t] /\ lock'[t] = lock[t] /\ w'[t] = w[t] /\ t # NoSession
    BY ZenonT(30), <1>1, <1>4, SessionAssumption DEF EndTxn, TypeOK
  <2>2. (catOwner' = t) = (catOwner = t) /\ (catOwner = t => pcat' = pcat)
    BY ZenonT(30), <1>1, <1>4, <2>1 DEF EndTxn
  <2>3. CASE catOwner = s
    <3>1. lock[t] # "AE"
      <4>1. LockDiscipline(s) /\ LockDiscipline(t) /\ s \in Others(t)
        BY ZenonT(30), <1>4 DEF FlagInv, Others
      <4> QED
        BY ZenonT(30), <2>3, <4>1 DEF LockDiscipline
    <3>2. Unowned(t) /\ catOwner' # t
      BY ZenonT(30), <1>4, <2>2, <2>3 DEF CountInv
    <3> QED
      BY ZenonT(30), <2>1, <3>1, <3>2 DEF Unowned, NoSegmentWrites
  <2>4. CASE catOwner # s
    <3>1. NoSegmentWrites(w[s], lock[s]) /\ w[s].segNew = NoSegs
      BY ZenonT(30), <1>1, <2>4 DEF CountInv, Unowned
    <3>2. seg' = seg /\ tomb' = tomb
      BY ZenonT(30), <1>1, <3>1, UnownedView
    <3>3. SegOf(w[t])' = SegOf(w[t]) /\ TombOf(w[t])' = TombOf(w[t])
      BY ZenonT(30), <2>1, <3>2 DEF SegOf, TombOf
    <3>4. catOwner' # t => Unowned(t)'
      BY ZenonT(30), <2>1, <2>2, <3>2 DEF CountInv, Unowned, NoSegmentWrites
    <3>5. catOwner' = t => Counted(pcat, SegOf(w[t]), TombOf(w[t]))'
      BY ZenonT(30), <2>2, <3>3 DEF CountInv, Counted
    <3> QED
      BY ZenonT(30), <3>4, <3>5
  <2> QED
    BY ZenonT(30), <2>3, <2>4
<1> QED
  BY ZenonT(30), <1>2, <1>3, <1>4 DEF CountInv

\* CountInv holds initially.
LEMMA InitCounts == Init => CountInv
<1> SUFFICES ASSUME Init PROVE CountInv
  BY ZenonT(30)
<1>1. PICK R \in StartRows :
        \/ cat = NewCatalogRow /\ seg = NoSegs
        \/ /\ R # {} /\ MaxSeg >= 1
           /\ cat = [NewCatalogRow EXCEPT !.is_compressed = TRUE, !.row_count = Cardinality(R)]
           /\ seg = [NoSegs EXCEPT ![1] = R]
  BY ZenonT(30) DEF Init
<1>2. tomb = {}
  BY DEF Init
<1>3. R \in SUBSET Row
  BY SessionAssumption
<1>4. Counted(cat, seg, tomb)
  <2>1. CASE cat = NewCatalogRow /\ seg = NoSegs
    BY ZenonT(30), <1>2, <2>1 DEF Counted, NewCatalogRow
  <2>2. CASE /\ R # {} /\ MaxSeg >= 1
             /\ cat = [NewCatalogRow EXCEPT !.is_compressed = TRUE, !.row_count = Cardinality(R)]
             /\ seg = [NoSegs EXCEPT ![1] = R]
    <3> DEFINE B == {p \in SegIds \X Row : p[2] \in NewSegments(1, R, R)[p[1]]}
    <3>1. Cardinality(B) = Cardinality(R)
      <4>1. 1 \in Nat \ {0} /\ 1 <= MaxSeg /\ R \in SUBSET R
        BY <2>2, DataAssumption
      <4> QED
        BY <1>3, <4>1, BatchCount
    <3>2. \A i \in SegIds : seg[i] = NewSegments(1, R, R)[i]
      BY <2>2 DEF NewSegments, NoSegs
    <3>3. Live(seg, tomb) = B
      BY <1>2, <3>2 DEF Live
    <3>4. cat.row_count = Cardinality(R)
      BY <2>2 DEF NewCatalogRow
    <3> QED
      BY ZenonT(30), <1>2, <3>1, <3>3, <3>4 DEF Counted
  <2> QED
    BY <1>1, <2>1, <2>2
<1>5. ASSUME NEW s \in Sessions PROVE catOwner # s /\ Unowned(s)
  <2>1. catOwner # s /\ w[s] = NoWrites
    BY SessionAssumption DEF Init
  <2>2. NoWrites.segNew = NoSegs /\ NoWrites.segDel = {}
    BY DEF NoWrites
  <2> QED
    BY <2>1, <2>2, NoWritesFields DEF Unowned, NoSegmentWrites
<1> QED
  BY <1>4, <1>5 DEF CountInv

\* Every step preserves CountInv.
LEMMA NextCounts == PlainUse /\ TypeOK /\ FlagInv /\ CountInv /\ [Next]_vars => CountInv'
<1> SUFFICES ASSUME PlainUse, TypeOK, FlagInv, CountInv, [Next]_vars PROVE CountInv'
  BY ZenonT(30)
<1>1. CASE UNCHANGED vars
  <2>1. UNCHANGED <<cat, seg, tomb, catOwner, pcat, pc, lock, w>>
    BY ZenonT(30), <1>1 DEF vars
  <2>2. Counted(cat, seg, tomb)'
    BY <2>1 DEF CountInv, Counted, Live
  <2>3. ASSUME NEW t \in Sessions
        PROVE  /\ catOwner' # t => Unowned(t)'
               /\ catOwner' = t => Counted(pcat, SegOf(w[t]), TombOf(w[t]))'
    <3>1. SegOf(w[t])' = SegOf(w[t]) /\ TombOf(w[t])' = TombOf(w[t])
      BY ZenonT(30), <2>1 DEF SegOf, TombOf
    <3>2. catOwner' # t => Unowned(t)'
      BY ZenonT(30), <2>1 DEF CountInv, Unowned, NoSegmentWrites
    <3>3. catOwner' = t => Counted(pcat, SegOf(w[t]), TombOf(w[t]))'
      BY <2>1, <3>1 DEF CountInv, Counted
    <3> QED
      BY <3>2, <3>3
  <2> QED
    BY <2>2, <2>3 DEF CountInv
<1>2. CASE Next
  <2>1. PICK s \in Sessions :
    \/ BeginRepeatableRead(s)
    \/ \E op \in Ops : StartStatement(s, op)
    \/ \E r \in Row : Insert(s, r)
    \/ \E K \in SUBSET Keys, C, P, D \in SUBSET SegIds : Delete(s, K, C, P, D)
    \/ \E K \in SUBSET Keys, C \in SUBSET SegIds, val \in Vals : Update(s, K, C, val)
    \/ CompactSkip(s) \/ CompressSkip(s) \/ DecompressSkip(s)
    \/ CompactNothing(s)
    \/ \E A \in SUBSET Row : CompactLoose(s, A)
    \/ \E A \in SUBSET Row : CompressRead(s, A)
    \/ CompressFinish(s)
    \/ Decompress(s)
    \/ Commit(s)
    \/ Abort(s)
    BY <1>2 DEF Next
  <2>2. ~BeginRepeatableRead(s)
    BY Zenon DEF BeginRepeatableRead, PlainUse
  <2>3. CASE \E op \in Ops : StartStatement(s, op)
    BY <2>3, StartCounts
  <2>4. CASE \E r \in Row : Insert(s, r)
    BY <2>4, InsertCounts
  <2>5. CASE \E K \in SUBSET Keys, C, P, D \in SUBSET SegIds : Delete(s, K, C, P, D)
    BY <2>5, DeleteCounts
  <2>6. CASE \E K \in SUBSET Keys, C \in SUBSET SegIds, val \in Vals : Update(s, K, C, val)
    BY <2>6, UpdateCounts
  <2>7. CASE CompactSkip(s) \/ CompressSkip(s) \/ DecompressSkip(s)
    BY <2>7, SkipCounts
  <2>8. CASE CompactNothing(s)
    <3>1. {} \in SUBSET Row
      OBVIOUS
    <3> QED
      BY <2>8, <3>1, CompactCounts
  <2>9. CASE \E A \in SUBSET Row : CompactLoose(s, A)
    BY <2>9, CompactCounts
  <2>10. CASE \E A \in SUBSET Row : CompressRead(s, A)
    BY <2>10, CompressReadCounts
  <2>11. CASE CompressFinish(s)
    BY <2>11, CompressFinishCounts
  <2>12. CASE Decompress(s)
    BY ZenonT(30), <2>12, DecompressCounts
  <2>13. CASE Commit(s)
    BY <2>13, CommitCounts
  <2>14. CASE Abort(s)
    BY <2>14, AbortCounts
  <2> QED
    BY ZenonT(30), <2>1, <2>2, <2>3, <2>4, <2>5, <2>6, <2>7, <2>8, <2>9, <2>10, <2>11, <2>12, <2>13, <2>14
<1> QED
  BY <1>1, <1>2

\* CountInv holds in every reachable state when the functions are used as PlainUse says.
THEOREM CountInvariance == PlainUse /\ Spec => []CountInv
<1>1. Init => CountInv
  BY InitCounts
<1>2. PlainUse /\ TypeOK /\ FlagInv /\ CountInv /\ [Next]_vars => CountInv'
  BY NextCounts
<1>3. PlainUse => PlainUse'
  BY DEF PlainUse
<1> QED
  BY <1>1, <1>2, <1>3, TypeCorrect, FlagInvariance, PTL DEF Spec

\* The count(*) that DeltaXCount answers from the catalog is the number of live
\* segment rows in every committed state of a compressed partition.
THEOREM RowCountIsExact == PlainUse /\ Spec => []RowCountExact
<1>1. CountInv => RowCountExact
  <2>1. LivePairs(Committed, SegIds) = Live(seg, tomb)
    <3>1. Committed.seg = seg /\ Committed.tomb = tomb
      BY ZenonT(30) DEF Committed
    <3> QED
      BY ZenonT(30), <3>1 DEF LivePairs, Live
  <2> QED
    BY ZenonT(30), <2>1 DEF CountInv, Counted, RowCountExact
<1> QED
  BY <1>1, CountInvariance, PTL

\* No tombstone outlives its segment: compaction, decompose and whole-segment drops
\* remove it with the segment it points into.
THEOREM TombstonesHaveRows == PlainUse /\ Spec => []NoOrphanTombstones
<1>1. CountInv => NoOrphanTombstones
  BY DEF CountInv, Counted, NoOrphanTombstones
<1> QED
  BY <1>1, CountInvariance, PTL
=============================================================================
