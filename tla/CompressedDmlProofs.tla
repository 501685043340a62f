------------------------ MODULE CompressedDmlProofs -------------------------
(***************************************************************************)
(* Every reachable state of CompressedDml is well typed and, when the      *)
(* functions are used as PlainUse says, its gate flags are exact: for any  *)
(* number of sessions, rows and segment ids.                               *)
(***************************************************************************)
EXTENDS WriteSetProofs, FiniteSetTheorems, WellFoundedInduction

\* A non-empty set of naturals with an upper bound has a greatest element. It is
\* what MAX(_segment_id) and GREATEST return.
LEMMA GreatestExists ==
  ASSUME NEW S \in SUBSET Nat, S # {}, NEW b \in Nat, \A i \in S : i <= b
  PROVE  \E n \in S : \A i \in S : i <= n
<1> DEFINE U == {n \in Nat : \A i \in S : i <= n}
<1>1. U \subseteq Nat /\ U # {}
  OBVIOUS
<1>2. PICK n \in U : \A m \in U : <<m, n>> \notin OpToRel(<, Nat)
  BY Zenon, <1>1, NatLessThanWellFounded, WFMin
<1>3. \A m \in U : ~(m < n)
  BY Zenon, <1>2 DEF OpToRel
<1>4. n \in S
  <2> SUFFICES ASSUME n \notin S PROVE FALSE
    OBVIOUS
  <2>1. PICK i \in S : TRUE
    BY Zenon
  <2>2. n - 1 \in Nat /\ \A j \in S : j <= n - 1
    BY <2>1
  <2> QED
    BY <2>2, <1>3
<1> QED
  BY <1>4

\* The high-water mark of segment ids is one of the ids it is the maximum of, and
\* not below any of them.
LEMMA HighWaterIsMax ==
  ASSUME NEW v \in Db, NEW c \in CatalogRow
  PROVE  /\ HighWater(v, c) \in Nat
         /\ c.max_segment_id <= HighWater(v, c)
         /\ \A i \in Segments(v) : i <= HighWater(v, c)
<1> DEFINE S == Segments(v) \cup {c.max_segment_id}
<1>1. MaxSeg \in Nat /\ c.max_segment_id \in Nat
  BY DataAssumption DEF CatalogRow
<1>2. S \in SUBSET Nat /\ S # {}
  BY <1>1 DEF Segments, SegIds
<1>3. PICK b \in Nat : \A i \in S : i <= b
  <2>1. MaxSeg + c.max_segment_id \in Nat
    BY <1>1
  <2>2. \A i \in S : i <= MaxSeg + c.max_segment_id
    BY <1>1 DEF Segments, SegIds
  <2> QED
    BY <2>1, <2>2
<1>4. \E n \in S : \A i \in S : i <= n
  <2> HIDE DEF S
  <2> QED
    BY Zenon, <1>2, <1>3, GreatestExists
<1>5. HighWater(v, c) \in S /\ \A i \in S : i <= HighWater(v, c)
  BY <1>4 DEF HighWater
<1> QED
  BY <1>2, <1>5

\* The rows are finitely many, so every set of them can be counted.
LEMMA RowSetFinite ==
  ASSUME NEW R \in SUBSET Row
  PROVE  IsFiniteSet(R) /\ Cardinality(R) \in Nat
<1>1. IsFiniteSet(Row)
  BY DataAssumption, FS_Product DEF Row
<1> QED
  BY <1>1, FS_Subset, FS_CardinalityType

\* The same for tombstones.
LEMMA TombstoneSetFinite ==
  ASSUME NEW T \in SUBSET Tombstone
  PROVE  IsFiniteSet(T) /\ Cardinality(T) \in Nat
<1>1. IsFiniteSet(Row) /\ IsFiniteSet(SegIds)
  BY DataAssumption, FS_Product, FS_Interval DEF Row, SegIds
<1>2. IsFiniteSet(Tombstone)
  BY <1>1, FS_Product DEF Tombstone
<1> QED
  BY <1>2, FS_Subset, FS_CardinalityType

\* There are finitely many of them.
LEMMA LivePairsFinite ==
  ASSUME NEW v \in Db, NEW S \in SUBSET SegIds
  PROVE  IsFiniteSet(LivePairs(v, S)) /\ Cardinality(LivePairs(v, S)) \in Nat
BY LivePairsType, TombstoneSetFinite

\* The catalog row decompose leaves.
LEMMA DecomposeType ==
  ASSUME NEW v \in Db, NEW c \in CatalogRow, NEW D \in SUBSET SegIds, NEW P \in SUBSET SegIds
  PROVE  DecomposeCatalog(c, v, D, P) \in CatalogRow
<1>1. HighWater(v, c) \in Nat
  BY HighWaterIsMax
<1>2. Cardinality(LivePairs(v, D \cup P)) \in Nat
  BY LivePairsFinite
<1>3. FlooredSub(c.row_count, Cardinality(LivePairs(v, D \cup P))) \in Nat
  BY <1>2 DEF FlooredSub, CatalogRow
<1> QED
  BY Zenon, <1>1, <1>3 DEF DecomposeCatalog, CatalogRow

\* The invariant at the start.
LEMMA InitTypeOK == Init => TypeOK
<1> SUFFICES ASSUME Init PROVE TypeOK
  OBVIOUS
<1>1. PICK R \in StartRows :
        \/ cat = NewCatalogRow /\ heap = R /\ seg = NoSegs
        \/ /\ R # {} /\ MaxSeg >= 1
           /\ cat = [NewCatalogRow EXCEPT !.is_compressed = TRUE, !.row_count = Cardinality(R)]
           /\ heap = {} /\ seg = [NoSegs EXCEPT ![1] = R]
  BY Zenon DEF Init
<1>2. R \in SUBSET Row
  BY SessionAssumption
<1>3. Cardinality(R) \in Nat
  BY <1>2, RowSetFinite
<1>4. cat \in CatalogRow
  BY Zenon, <1>1, <1>3, InitialTypes DEF CatalogRow
<1>5. heap \in SUBSET Row /\ seg \in [SegIds -> SUBSET Row]
  BY ZenonT(30), <1>1, <1>2, InitialTypes
<1>6. Committed \in Db
  BY <1>4, <1>5 DEF Init, Committed, Db
<1>7. 0 \in 0..MaxStmts
  BY SessionAssumption
<1> QED
  BY <1>6, <1>7, InitialTypes DEF Init, TypeOK

\* The end of a statement keeps the types of what it assigns.
LEMMA EndStatementType ==
  ASSUME TypeOK, NEW s \in Sessions, NEW ws \in WriteSet, NEW touch \in BOOLEAN,
         NEW c \in CatalogRow, EndStatement(s, ws, touch, c)
  PROVE  /\ Committed' \in Db
         /\ catOwner' \in Sessions \cup {NoSession}
         /\ pcat' \in CatalogRow
         /\ pc' \in [Sessions -> Ops \cup {"idle", "open", "compress_finish"}]
         /\ stmts' \in [Sessions -> 0..MaxStmts]
         /\ snap' \in [Sessions -> Db]
         /\ stale' \in [Sessions -> BOOLEAN]
         /\ w' \in [Sessions -> WriteSet]
<1> USE DEF TypeOK, EndStatement
<1>1. Committed' \in Db
  BY DEF Committed, committedVars
<1>2. snap' \in [Sessions -> Db]
  BY InitialTypes
<1>3. catOwner' \in Sessions \cup {NoSession} /\ pcat' \in CatalogRow
  OBVIOUS
<1>4. pc' \in [Sessions -> Ops \cup {"idle", "open", "compress_finish"}]
  OBVIOUS
<1> QED
  BY <1>1, <1>2, <1>3, <1>4

\* The end of a transaction keeps the types of what it assigns.
LEMMA EndTxnType ==
  ASSUME TypeOK, NEW s \in Sessions, EndTxn(s)
  PROVE  /\ catOwner' \in Sessions \cup {NoSession}
         /\ pcat' \in CatalogRow
         /\ pc' \in [Sessions -> Ops \cup {"idle", "open", "compress_finish"}]
         /\ stmts' \in [Sessions -> 0..MaxStmts]
         /\ lock' \in [Sessions -> {"none", "AS", "RE", "AE"}]
         /\ w' \in [Sessions -> WriteSet]
         /\ claimed' \in [Sessions -> SUBSET SegIds]
         /\ memo' \in [Sessions -> BOOLEAN]
         /\ add' \in [Sessions -> SUBSET Row]
         /\ rem' \in [Sessions -> SUBSET Row]
<1>1. 0 \in 0..MaxStmts
  BY SessionAssumption
<1> QED
  BY <1>1, InitialTypes DEF TypeOK, EndTxn

\* The catalog row of the executor hook.
LEMMA HookTypes ==
  ASSUME TypeOK, NEW s \in Sessions, NEW P \in SUBSET SegIds, NEW T \in SUBSET SegIds,
         NEW D \in SUBSET SegIds, NEW K
  PROVE  HookCatalog(s, P, T, D, K) \in CatalogRow
<1> DEFINE new == NewTombstones(View(s), T, K)
           w1 == InsertTombstones(w[s], new)
           c1 == TombstoneCatalog(CatSeen(s), new)
<1>1. new \in SUBSET Tombstone /\ {} \in SUBSET Row
  BY DEF NewTombstones, Tombstone
<1>2. w1 \in WriteSet
  BY Zenon, <1>1, ViewTypes, WriteOpsType
<1>3. Cardinality(new) \in Nat
  BY <1>1, TombstoneSetFinite
<1>4. c1 \in CatalogRow
  <2>1. CatSeen(s) \in CatalogRow
    BY ViewTypes
  <2>2. FlooredSub(CatSeen(s).row_count, Cardinality(new)) \in Nat
    BY <2>1, <1>3 DEF FlooredSub, CatalogRow
  <2> QED
    BY Zenon, <2>1, <2>2 DEF TombstoneCatalog, CatalogRow
<1>5. Apply(Base(s), w1, c1) \in Db
  BY <1>2, <1>4, ViewTypes, ApplyType
<1> HIDE DEF new, w1, c1
<1>6. DecomposeCatalog(c1, Apply(Base(s), w1, c1), D, P) \in CatalogRow
  BY <1>4, <1>5, DecomposeType
<1> QED
  BY <1>4, <1>6 DEF HookCatalog, c1, w1, new

\* A DELETE or UPDATE keeps the types, whatever the hook's split of the segments.
LEMMA RunDmlType ==
  ASSUME TypeOK, NEW s \in Sessions, NEW P \in SUBSET SegIds, NEW T \in SUBSET SegIds,
         NEW D \in SUBSET SegIds, NEW K, NEW V \in SUBSET Vals,
         RunDml(s, P, T, D, K, V)
  PROVE  TypeOK'
<1> DEFINE new == NewTombstones(View(s), T, K)
           ws  == HookWrites(s, P, T, D, K)
           old == HeapTargets(s, ws, K)
           L   == LogicalTargets(s, K)
           w2  == InsertRows(DeleteRows(ws, old), Rewritten(old, V))
           touch == new # {} \/ P \cup D # {}
           c   == HookCatalog(s, P, T, D, K)
<1>1. /\ IF P \cup D = {} THEN UNCHANGED lock ELSE TakeExclusive(s)
      /\ EndStatement(s, w2, touch, c)
      /\ claimed' = [claimed EXCEPT ![s] = @ \cup T]
      /\ rem' = [rem EXCEPT ![s] = @ \cup L]
      /\ add' = [add EXCEPT ![s] = (@ \ L) \cup Rewritten(L, V)]
      /\ UNCHANGED <<memo, bypass>>
  BY DEF RunDml
<1>2. ws \in WriteSet /\ c \in CatalogRow
  BY HookTypes, HookWritesType
<1> HIDE DEF ws, c, new
<1>3. old \in SUBSET Row /\ L \in SUBSET Row
  BY <1>2, TargetTypes
<1> HIDE DEF old, L
<1>4. Rewritten(old, V) \in SUBSET Row /\ Rewritten(L, V) \in SUBSET Row
  BY <1>3, RewrittenType
<1>5. {} \in SUBSET Tombstone
  OBVIOUS
<1>6. w2 \in WriteSet
  <2>1. DeleteRows(ws, old) \in WriteSet
    BY Zenon, <1>2, <1>3, <1>5, WriteOpsType
  <2> QED
    BY <2>1, <1>4, <1>5, WriteOpsType
<1> HIDE DEF w2
<1>7. touch \in BOOLEAN
  OBVIOUS
<1> HIDE DEF touch
<1>8. lock' \in [Sessions -> {"none", "AS", "RE", "AE"}]
  BY <1>1 DEF TypeOK, TakeExclusive
<1>9. /\ claimed' \in [Sessions -> SUBSET SegIds]
      /\ rem' \in [Sessions -> SUBSET Row]
      /\ add' \in [Sessions -> SUBSET Row]
      /\ memo' \in [Sessions -> BOOLEAN]
      /\ bypass' \in [Sessions -> BOOLEAN]
  BY <1>1, <1>3, <1>4 DEF TypeOK
<1>10. /\ Committed' \in Db
       /\ catOwner' \in Sessions \cup {NoSession}
       /\ pcat' \in CatalogRow
       /\ pc' \in [Sessions -> Ops \cup {"idle", "open", "compress_finish"}]
       /\ stmts' \in [Sessions -> 0..MaxStmts]
       /\ snap' \in [Sessions -> Db]
       /\ stale' \in [Sessions -> BOOLEAN]
       /\ w' \in [Sessions -> WriteSet]
  BY <1>1, <1>2, <1>6, <1>7, EndStatementType
<1> QED
  BY <1>8, <1>9, <1>10 DEF TypeOK

\* The catalog row of compaction's fold of the tombstones, and what it then reads.
LEMMA FoldedTypes ==
  ASSUME TypeOK, NEW s \in Sessions
  PROVE  /\ RewriteCatalog(s) \in CatalogRow /\ FoldedCatalog(s) \in CatalogRow
         /\ FoldedView(s) \in Db
<1>1. Base(s) \in Db /\ CatSeen(s) \in CatalogRow /\ View(s) \in Db
  BY ViewTypes
<1>2. TombstonedSegments(View(s)) \in SUBSET SegIds /\ {} \in SUBSET SegIds
  BY <1>1 DEF TombstonedSegments, Db, Tombstone
<1>3. RewriteCatalog(s) \in CatalogRow
  BY <1>1, <1>2, DecomposeType DEF RewriteCatalog
<1>4. FoldedCatalog(s) \in CatalogRow
  BY Zenon, <1>3 DEF FoldedCatalog, CatalogRow
<1> QED
  BY <1>1, <1>3, <1>4, FoldedWritesType, ApplyType DEF FoldedView

\* A new statement keeps the types.
LEMMA StartStatementType ==
  ASSUME TypeOK, NEW s \in Sessions, NEW op \in Ops, StartStatement(s, op)
  PROVE  TypeOK'
<1>1. MaxStmts \in Nat /\ stmts[s] \in 0..MaxStmts
  BY SessionAssumption DEF TypeOK
<1>2. (IF op \in OwnTxn THEN MaxStmts ELSE stmts[s] + 1) \in 0..MaxStmts
  BY <1>1 DEF StartStatement
<1>3. stmts' \in [Sessions -> 0..MaxStmts]
  BY <1>2 DEF StartStatement, TypeOK
<1>4. pc' \in [Sessions -> Ops \cup {"idle", "open", "compress_finish"}]
  BY DEF StartStatement, TypeOK
<1>5. lock' \in [Sessions -> {"none", "AS", "RE", "AE"}]
  BY DEF StartStatement, TypeOK
<1>6. snap' \in [Sessions -> Db]
  BY DEF StartStatement, TypeOK
<1>7. Committed' \in Db
  BY DEF StartStatement, TypeOK, Committed, committedVars
<1> QED
  BY <1>3, <1>4, <1>5, <1>6, <1>7 DEF StartStatement, TypeOK

\* INSERT keeps the types.
LEMMA InsertType ==
  ASSUME TypeOK, NEW s \in Sessions, NEW r \in Row, Insert(s, r)
  PROVE  TypeOK'
<1> DEFINE ws == InsertRows(w[s], {r})
           touch == NotesInsert(s) /\ ~CatSeen(s).has_loose_rows
           c == [CatSeen(s) EXCEPT !.has_loose_rows = TRUE]
<1>1. /\ EndStatement(s, ws, touch, c)
      /\ memo' = [memo EXCEPT ![s] = @ \/ NotesInsert(s)]
      /\ add' = [add EXCEPT ![s] = @ \cup {r}]
      /\ UNCHANGED <<lock, claimed, bypass, rem>>
  BY DEF Insert
<1>2. ws \in WriteSet
  <2>1. {r} \in SUBSET Row /\ {} \in SUBSET Tombstone
    OBVIOUS
  <2> QED
    BY Zenon, <2>1, ViewTypes, WriteOpsType
<1>3. c \in CatalogRow
  BY Zenon, ViewTypes DEF CatalogRow
<1>4. touch \in BOOLEAN
  OBVIOUS
<1> HIDE DEF ws, touch, c
<1>5. /\ Committed' \in Db
      /\ catOwner' \in Sessions \cup {NoSession}
      /\ pcat' \in CatalogRow
      /\ pc' \in [Sessions -> Ops \cup {"idle", "open", "compress_finish"}]
      /\ stmts' \in [Sessions -> 0..MaxStmts]
      /\ snap' \in [Sessions -> Db]
      /\ stale' \in [Sessions -> BOOLEAN]
      /\ w' \in [Sessions -> WriteSet]
  BY ZenonT(30), <1>1, <1>2, <1>3, <1>4, EndStatementType
<1>6. memo' \in [Sessions -> BOOLEAN]
  BY <1>1 DEF TypeOK, NotesInsert
<1>7. add' \in [Sessions -> SUBSET Row]
  BY <1>1 DEF TypeOK
<1>8. UNCHANGED <<lock, claimed, bypass, rem>>
  BY <1>1
<1> QED
  BY <1>5, <1>6, <1>7, <1>8 DEF TypeOK

\* The maintenance functions: one statement, and none of the logical effect.
LEMMA MaintenanceType ==
  ASSUME TypeOK, NEW s \in Sessions, NEW ws \in WriteSet, NEW touch \in BOOLEAN,
         NEW c \in CatalogRow, EndStatement(s, ws, touch, c),
         TakeExclusive(s) \/ UNCHANGED lock,
         bypass' = [bypass EXCEPT ![s] = FALSE] \/ UNCHANGED bypass,
         UNCHANGED <<claimed, memo, add, rem>>
  PROVE  TypeOK'
<1>1. /\ Committed' \in Db
      /\ catOwner' \in Sessions \cup {NoSession}
      /\ pcat' \in CatalogRow
      /\ pc' \in [Sessions -> Ops \cup {"idle", "open", "compress_finish"}]
      /\ stmts' \in [Sessions -> 0..MaxStmts]
      /\ snap' \in [Sessions -> Db]
      /\ stale' \in [Sessions -> BOOLEAN]
      /\ w' \in [Sessions -> WriteSet]
  BY EndStatementType
<1>2. lock' \in [Sessions -> {"none", "AS", "RE", "AE"}]
  BY DEF TypeOK, TakeExclusive
<1>3. bypass' \in [Sessions -> BOOLEAN]
  BY Zenon DEF TypeOK
<1> QED
  BY ZenonT(30), <1>1, <1>2, <1>3 DEF TypeOK

\* A maintenance function with nothing to do keeps the types.
LEMMA SkipType ==
  ASSUME TypeOK, NEW s \in Sessions,
         CompactSkip(s) \/ CompressSkip(s) \/ DecompressSkip(s)
  PROVE  TypeOK'
<1>1. /\ EndStatement(s, w[s], FALSE, pcat) /\ UNCHANGED lock
      /\ UNCHANGED <<claimed, memo, add, rem>>
      /\ bypass' = [bypass EXCEPT ![s] = FALSE] \/ UNCHANGED bypass
  BY Zenon DEF CompactSkip, CompressSkip, DecompressSkip, ReturnUnchanged
<1>2. w[s] \in WriteSet /\ pcat \in CatalogRow
  BY DEF TypeOK
<1> QED
  BY Zenon, <1>1, <1>2, MaintenanceType

\* A compaction keeps the types.
LEMMA CompactType ==
  ASSUME TypeOK, NEW s \in Sessions, NEW A \in SUBSET Row,
         CompactNothing(s) \/ CompactLoose(s, A)
  PROVE  TypeOK'
<1>1. /\ FoldedWrites(s) \in WriteSet /\ FoldedCatalog(s) \in CatalogRow
      /\ FoldedView(s) \in Db
  BY FoldedTypes, FoldedWritesType
<1>2. {} \in SUBSET Tombstone /\ {} \in SUBSET Row
  OBVIOUS
<1>3. CASE CompactNothing(s)
  <2> DEFINE c == [FoldedCatalog(s) EXCEPT !.has_loose_rows = FALSE]
             ws == IF Iso[s] = "RC" THEN TruncateHeap(FoldedWrites(s)) ELSE FoldedWrites(s)
             touch == View(s).tomb # {} \/ c # CatSeen(s)
  <2>1. /\ TakeExclusive(s) /\ EndStatement(s, ws, touch, c)
        /\ UNCHANGED <<claimed, memo, bypass, add, rem>>
    BY <1>3 DEF CompactNothing
  <2>2. ws \in WriteSet
    BY <1>1, <1>2, WriteOpsType
  <2>3. c \in CatalogRow
    BY Zenon, <1>1 DEF CatalogRow
  <2>4. touch \in BOOLEAN
    OBVIOUS
  <2> HIDE DEF c, ws, touch
  <2> QED
    BY <2>1, <2>2, <2>3, <2>4, MaintenanceType
<1>4. CASE CompactLoose(s, A)
  <2> DEFINE v == FoldedView(s)
             n == HighWater(v, v.cat) + 1
             ws == IF Iso[s] = "RC" THEN TruncateHeap(FoldedWrites(s))
                   ELSE DeleteRows(FoldedWrites(s), v.heap)
             w2 == AddSegments(ws, NewSegments(n, A, v.heap))
             c == [BumpCompaction(v.cat, Cardinality(v.heap)) EXCEPT !.has_loose_rows = FALSE]
  <2>1. /\ TakeExclusive(s) /\ EndStatement(s, w2, TRUE, c)
        /\ UNCHANGED <<claimed, memo, bypass, add, rem>>
    BY Zenon, <1>4 DEF CompactLoose
  <2>2. v.heap \in SUBSET Row /\ v.cat \in CatalogRow
    BY <1>1 DEF Db
  <2>3. ws \in WriteSet
    BY ZenonT(30), <1>1, <1>2, <2>2, WriteOpsType
  <2>4. Cardinality(v.heap) \in Nat
    BY <2>2, RowSetFinite
  <2> HIDE DEF v, n, ws
  <2>5. w2 \in WriteSet
    BY Zenon, <2>2, <2>3, NewSegmentsType, AddSegmentsType
  <2>6. c \in CatalogRow
    <3>1. v.cat.row_count + Cardinality(v.heap) \in Nat
      BY <2>2, <2>4 DEF CatalogRow
    <3> QED
      BY Zenon, <2>2, <3>1 DEF CatalogRow, BumpCompaction
  <2> HIDE DEF c, w2
  <2> QED
    BY Zenon, <2>1, <2>5, <2>6, MaintenanceType
<1> QED
  BY <1>3, <1>4

\* The read phase of a compression keeps the types.
LEMMA CompressReadType ==
  ASSUME TypeOK, NEW s \in Sessions, NEW A \in SUBSET Row, CompressRead(s, A)
  PROVE  TypeOK'
<1>1. View(s).heap \in SUBSET Row /\ w[s] \in WriteSet
  BY ViewTypes DEF Db
<1>2. AddSegments(w[s], NewSegments(1, A, View(s).heap)) \in WriteSet
  BY ZenonT(30), <1>1, NewSegmentsType, AddSegmentsType
<1>3. w' \in [Sessions -> WriteSet]
  BY ZenonT(30), <1>2 DEF TypeOK, CompressRead
<1>4. /\ pc' \in [Sessions -> Ops \cup {"idle", "open", "compress_finish"}]
      /\ lock' \in [Sessions -> {"none", "AS", "RE", "AE"}]
  BY ZenonT(30) DEF TypeOK, CompressRead
<1>5. Committed' \in Db
  BY DEF CompressRead, TypeOK, Committed, committedVars
<1> QED
  BY <1>3, <1>4, <1>5 DEF TypeOK, CompressRead

\* The end of a compression keeps the types.
LEMMA CompressFinishType ==
  ASSUME TypeOK, NEW s \in Sessions, CompressFinish(s)
  PROVE  TypeOK'
<1> DEFINE c == [CatSeen(s) EXCEPT !.is_compressed = TRUE, !.has_loose_rows = FALSE,
                                   !.has_tombstones = FALSE,
                                   !.row_count = Cardinality(LivePairs(View(s), SegIds))]
           ws == TruncateHeap(w[s])
<1>1. /\ TakeExclusive(s) /\ EndStatement(s, ws, TRUE, c)
      /\ UNCHANGED <<claimed, memo, bypass, add, rem>>
  BY Zenon DEF CompressFinish
<1>2. View(s) \in Db /\ CatSeen(s) \in CatalogRow /\ w[s] \in WriteSet
  BY ViewTypes
<1>3. Cardinality(LivePairs(View(s), SegIds)) \in Nat
  BY <1>2, LivePairsFinite
<1>4. c \in CatalogRow
  BY Zenon, <1>2, <1>3 DEF CatalogRow
<1>5. ws \in WriteSet
  <2>1. {} \in SUBSET Row /\ {} \in SUBSET Tombstone
    OBVIOUS
  <2> QED
    BY <1>2, <2>1, WriteOpsType
<1> HIDE DEF c, ws
<1> QED
  BY Zenon, <1>1, <1>4, <1>5, MaintenanceType

\* A decompression keeps the types.
LEMMA DecompressType ==
  ASSUME TypeOK, NEW s \in Sessions, Decompress(s)
  PROVE  TypeOK'
<1> DEFINE c == [CatSeen(s) EXCEPT !.is_compressed = FALSE, !.row_count = 0,
                                   !.max_segment_id = 0]
           ws == TruncateTombstones(DecomposeWrites(w[s], View(s), SegIds, {}))
<1>1. /\ TakeExclusive(s) /\ EndStatement(s, ws, TRUE, c)
      /\ bypass' = [bypass EXCEPT ![s] = FALSE]
      /\ UNCHANGED <<claimed, memo, add, rem>>
  BY Zenon DEF Decompress
<1>2. View(s) \in Db /\ CatSeen(s) \in CatalogRow /\ w[s] \in WriteSet
  BY ViewTypes
<1>3. SegIds \in SUBSET SegIds /\ {} \in SUBSET SegIds
  OBVIOUS
<1>4. DecomposeWrites(w[s], View(s), SegIds, {}) \in WriteSet
  BY <1>2, <1>3, DecomposeWritesType
<1>5. ws \in WriteSet
  <2>1. {} \in SUBSET Row /\ {} \in SUBSET Tombstone
    OBVIOUS
  <2> QED
    BY <1>4, <2>1, WriteOpsType
<1>6. c \in CatalogRow
  BY Zenon, <1>2 DEF CatalogRow
<1> HIDE DEF c, ws
<1> QED
  BY Zenon, <1>1, <1>5, <1>6, MaintenanceType

\* A commit keeps the types.
LEMMA CommitType ==
  ASSUME TypeOK, NEW s \in Sessions, Commit(s)
  PROVE  TypeOK'
<1> DEFINE c == IF catOwner = s THEN pcat ELSE cat
           db == Apply(Committed, w[s], c)
<1>1. db \in Db
  <2>1. c \in CatalogRow /\ w[s] \in WriteSet
    BY ZenonT(30), ViewTypes DEF TypeOK
  <2> QED
    BY <2>1, ApplyType DEF TypeOK
<1>2. /\ cat' = db.cat /\ heap' = db.heap /\ seg' = db.seg /\ tomb' = db.tomb
      /\ EndTxn(s) /\ UNCHANGED bypass
      /\ snap' = [t \in Sessions |->
                    IF t = s THEN EmptyDb
                    ELSE IF t \in {u \in Others(s) : pc[u] # "idle"} THEN SnapAfter(t, s)
                    ELSE snap[t]]
      /\ stale' = [t \in Sessions |->
                     IF t = s THEN FALSE
                     ELSE stale[t] \/ (catOwner = s /\ t \in {u \in Others(s) : pc[u] # "idle"})]
  BY ZenonT(30) DEF Commit
<1> HIDE DEF db
<1>3. Committed' \in Db
  BY <1>1, <1>2 DEF Committed, Db
<1>4. \A t \in Sessions : SnapAfter(t, s) \in Db
  BY ZenonT(30) DEF TypeOK, SnapAfter, Db
<1>5. snap' \in [Sessions -> Db]
  BY <1>2, <1>4, InitialTypes DEF TypeOK
<1>6. stale' \in [Sessions -> BOOLEAN]
  BY Zenon, <1>2 DEF TypeOK
<1>7. bypass' \in [Sessions -> BOOLEAN]
  BY ZenonT(30), <1>2 DEF TypeOK
<1> QED
  BY Zenon, <1>2, <1>3, <1>5, <1>6, <1>7, EndTxnType DEF TypeOK

\* A rollback keeps the types.
LEMMA AbortType ==
  ASSUME TypeOK, NEW s \in Sessions, Abort(s)
  PROVE  TypeOK'
<1>1. Committed' \in Db
  BY DEF Abort, TypeOK, Committed, committedVars
<1>2. snap' \in [Sessions -> Db] /\ stale' \in [Sessions -> BOOLEAN]
  BY InitialTypes DEF Abort, TypeOK
<1>3. bypass' \in [Sessions -> BOOLEAN]
  BY Zenon DEF Abort, TypeOK
<1>4. EndTxn(s)
  BY DEF Abort
<1> QED
  BY ZenonT(30), <1>1, <1>2, <1>3, <1>4, EndTxnType DEF TypeOK

\* DELETE keeps the types.
LEMMA DeleteType ==
  ASSUME TypeOK, NEW s \in Sessions, NEW K, NEW C \in SUBSET SegIds, NEW P \in SUBSET SegIds,
         NEW D \in SUBSET SegIds, Delete(s, K, C, P, D)
  PROVE  TypeOK'
<1> DEFINE T == C \ (P \cup D)
<1>1. RunDml(s, P, T, D, K, {})
  BY DEF Delete
<1>2. T \in SUBSET SegIds /\ {} \in SUBSET Vals
  OBVIOUS
<1> HIDE DEF T
<1> QED
  BY <1>1, <1>2, RunDmlType

\* UPDATE keeps the types.
LEMMA UpdateType ==
  ASSUME TypeOK, NEW s \in Sessions, NEW K, NEW C \in SUBSET SegIds, NEW val \in Vals,
         Update(s, K, C, val)
  PROVE  TypeOK'
<1>1. {} \in SUBSET SegIds /\ {val} \in SUBSET Vals
  OBVIOUS
<1> QED
  BY <1>1, RunDmlType DEF Update

\* Every action keeps the types: segment ids and row counts stay naturals, the
\* row_count subtractions of insert_dml_tombstones and bump_partition_decompose
\* included, and no write set leaves the partition's rows and segments.
LEMMA NextTypeOK == TypeOK /\ [Next]_vars => TypeOK'
<1> SUFFICES ASSUME TypeOK, [Next]_vars PROVE TypeOK'
  BY ZenonT(30)
<1>1. CASE UNCHANGED vars
  BY <1>1 DEF TypeOK, vars, Committed
<1>2. CASE Next
  <2>1. PICK s \in Sessions :
    \/ BeginRepeatableRead(s)
    \/ \E op \in Ops : StartStatement(s, op)
    \/ \E r \in Row : Insert(s, r)
    \/ \E K \in SUBSET Keys, C, P, D \in SUBSET SegIds : Delete(s, K, C, P, D)
    \/ \E K \in SUBSET Keys, C \in SUBSET SegIds, val \in Vals : Update(s, K, C, val)
    \/ CompactSkip(s)
    \/ CompactNothing(s)
    \/ \E A \in SUBSET Row : CompactLoose(s, A)
    \/ CompressSkip(s)
    \/ \E A \in SUBSET Row : CompressRead(s, A)
    \/ CompressFinish(s)
    \/ DecompressSkip(s)
    \/ Decompress(s)
    \/ Commit(s)
    \/ Abort(s)
    BY <1>2 DEF Next
  <2>2. CASE BeginRepeatableRead(s)
    BY <2>2 DEF BeginRepeatableRead, TypeOK, Committed, committedVars
  <2>3. CASE \E op \in Ops : StartStatement(s, op)
    BY <2>3, StartStatementType
  <2>4. CASE \E r \in Row : Insert(s, r)
    BY <2>4, InsertType
  <2>5. CASE \E K \in SUBSET Keys, C, P, D \in SUBSET SegIds : Delete(s, K, C, P, D)
    BY <2>5, DeleteType
  <2>6. CASE \E K \in SUBSET Keys, C \in SUBSET SegIds, val \in Vals : Update(s, K, C, val)
    BY <2>6, UpdateType
  <2>7. CASE CompactSkip(s) \/ CompressSkip(s) \/ DecompressSkip(s)
    BY <2>7, SkipType
  <2>8. CASE CompactNothing(s)
    <3>1. {} \in SUBSET Row
      OBVIOUS
    <3> QED
      BY <2>8, <3>1, CompactType
  <2>9. CASE \E A \in SUBSET Row : CompactLoose(s, A)
    BY <2>9, CompactType
  <2>10. CASE \E A \in SUBSET Row : CompressRead(s, A)
    BY <2>10, CompressReadType
  <2>11. CASE CompressFinish(s)
    BY <2>11, CompressFinishType
  <2>12. CASE Decompress(s)
    BY <2>12, DecompressType
  <2>13. CASE Commit(s)
    BY <2>13, CommitType
  <2>14. CASE Abort(s)
    BY <2>14, AbortType
  <2> QED
    BY ZenonT(30), <2>1, <2>2, <2>3, <2>4, <2>5, <2>6, <2>7, <2>8, <2>9, <2>10, <2>11, <2>12, <2>13, <2>14
<1> QED
  BY <1>1, <1>2

\* Type correctness of every reachable state, for any sessions, isolation levels,
\* operations, rows and segment ids.
THEOREM TypeCorrect == Spec => []TypeOK
BY InitTypeOK, NextTypeOK, PTL DEF Spec

(***************************************************************************)
(* The DML gate flags are exact. FlagInv is the inductive invariant: flags *)
(* cover the rows in the committed state and in each session's own view of *)
(* it, and only the holder of the exclusive table lock clears a flag,      *)
(* truncates, or changes is_compressed.                                    *)
(***************************************************************************)

\* Decompose never clears a flag, and raises has_loose_rows when it restores rows.
LEMMA DecomposeFlags ==
  ASSUME NEW c \in CatalogRow, NEW v \in Db, NEW D \in SUBSET SegIds, NEW P \in SUBSET SegIds
  PROVE  /\ DecomposeCatalog(c, v, D, P).is_compressed = c.is_compressed
         /\ DecomposeCatalog(c, v, D, P).has_tombstones = c.has_tombstones
         /\ c.has_loose_rows => DecomposeCatalog(c, v, D, P).has_loose_rows
         /\ LiveRows(v, D) # {} => DecomposeCatalog(c, v, D, P).has_loose_rows
<1> DEFINE L == LiveRows(v, D)
           hw == HighWater(v, c)
           n == FlooredSub(c.row_count, Cardinality(LivePairs(v, D \cup P)))
<1>1. DecomposeCatalog(c, v, D, P) =
        [c EXCEPT !.max_segment_id = hw, !.row_count = n,
                  !.has_loose_rows = c.has_loose_rows \/ L # {}]
  BY DEF DecomposeCatalog, CatalogRow
<1> HIDE DEF L, hw, n
<1>2. /\ DecomposeCatalog(c, v, D, P).is_compressed = c.is_compressed
      /\ DecomposeCatalog(c, v, D, P).has_tombstones = c.has_tombstones
      /\ DecomposeCatalog(c, v, D, P).has_loose_rows = (c.has_loose_rows \/ L # {})
  BY <1>1 DEF CatalogRow
<1> QED
  BY Zenon, <1>2 DEF L

\* A step of s that commits nothing leaves what the invariant says of others.
LEMMA OthersKeep ==
  ASSUME FlagInv, NEW s \in Sessions, NEW t \in Sessions, t # s,
         UNCHANGED committedVars,
         UNCHANGED <<catOwner, pcat>> \/ (catOwner \in {NoSession, s} /\ catOwner' \in {NoSession, s}),
         pc'[t] = pc[t], stmts'[t] = stmts[t], lock'[t] = lock[t], w'[t] = w[t],
         memo'[t] = memo[t], bypass'[t] = bypass[t],
         \A u \in Others(s) : lock'[u] = lock[u],
         lock'[s] = "none" \/ lock[t] # "AE"
  PROVE  /\ LockDiscipline(t)'
         /\ StepDiscipline(t)'
         /\ Covered(OwnCat(t), OwnHeap(t), OwnTomb(t))'
<1>1. /\ LockDiscipline(t) /\ StepDiscipline(t)
      /\ Covered(OwnCat(t), OwnHeap(t), OwnTomb(t))
  BY DEF FlagInv
<1>2. cat' = cat /\ heap' = heap /\ tomb' = tomb
  BY DEF committedVars
<1>3. t # NoSession
  BY SessionAssumption
<1>4. (catOwner' = t) = (catOwner = t) /\ (catOwner = t => pcat' = pcat)
  BY <1>3
<1>5. OwnCat(t)' = OwnCat(t)
  BY <1>2, <1>4 DEF OwnCat
<1>6. OwnHeap(t)' = OwnHeap(t) /\ OwnTomb(t)' = OwnTomb(t)
  BY ZenonT(30), <1>2 DEF OwnHeap, OwnTomb
<1>7. LockDiscipline(t)'
  BY ZenonT(30), <1>1, <1>2, <1>4 DEF LockDiscipline, Others
<1>8. StepDiscipline(t)'
  BY ZenonT(30), <1>1, <1>2, <1>5 DEF StepDiscipline
<1>9. Covered(OwnCat(t), OwnHeap(t), OwnTomb(t))'
  BY <1>1, <1>5, <1>6 DEF Covered
<1> QED
  BY ZenonT(30), <1>7, <1>8, <1>9

\* A statement without the exclusive lock truncates nothing and clears no flag.
SharedOnlyRaises(s, ws, touch, c) ==
  lock'[s] # "AE" =>
    /\ ~ws.trunc /\ ~ws.tTrunc
    /\ touch => /\ c.is_compressed = cat.is_compressed
                /\ cat.has_loose_rows => c.has_loose_rows
                /\ cat.has_tombstones => c.has_tombstones

\* What a statement of s must do for the invariant to hold after it.
KeepsFlags(s, ws, touch, c) ==
  /\ ws \in WriteSet /\ touch \in BOOLEAN /\ pc[s] # "idle"
  /\ EndStatement(s, ws, touch, c)
  /\ UNCHANGED lock \/ TakeExclusive(s)
  /\ lock'[s] \in {"RE", "AE"} \/ (UNCHANGED lock /\ ws = w[s] /\ ~touch)
  /\ SharedOnlyRaises(s, ws, touch, c)
  /\ Covered(RowAfter(s, touch, c), HeapOf(ws), TombOf(ws))
  /\ \A t \in Others(s) : memo'[t] = memo[t] /\ bypass'[t] = bypass[t]
  /\ memo'[s] => RowAfter(s, touch, c).has_loose_rows /\ lock'[s] \in {"RE", "AE"}
  /\ bypass'[s] => bypass[s]

\* A statement whose end has the shape KeepsFlags keeps FlagInv.
LEMMA StatementKeeps ==
  ASSUME TypeOK, FlagInv, NEW s \in Sessions, NEW ws, NEW touch, NEW c,
         KeepsFlags(s, ws, touch, c)
  PROVE  FlagInv'
<1> DEFINE nc == RowAfter(s, touch, c)
<1>a. /\ ws \in WriteSet /\ touch \in BOOLEAN /\ pc[s] # "idle"
      /\ UNCHANGED lock \/ TakeExclusive(s)
      /\ lock'[s] \in {"RE", "AE"} \/ (UNCHANGED lock /\ ws = w[s] /\ ~touch)
      /\ Covered(nc, HeapOf(ws), TombOf(ws))
      /\ memo'[s] => nc.has_loose_rows /\ lock'[s] \in {"RE", "AE"}
      /\ bypass'[s] => bypass[s]
  BY ZenonT(30) DEF KeepsFlags
<1>b. EndStatement(s, ws, touch, c) /\ nc = IF touch THEN c ELSE OwnCat(s)
  BY ZenonT(30) DEF KeepsFlags, RowAfter
<1>c. lock'[s] # "AE" =>
        /\ ~ws.trunc /\ ~ws.tTrunc
        /\ touch => /\ c.is_compressed = cat.is_compressed
                    /\ cat.has_loose_rows => c.has_loose_rows
                    /\ cat.has_tombstones => c.has_tombstones
  BY ZenonT(30) DEF KeepsFlags, SharedOnlyRaises
<1>d. \A t \in Others(s) : memo'[t] = memo[t] /\ bypass'[t] = bypass[t]
  BY ZenonT(30) DEF KeepsFlags
<1> HIDE DEF nc
<1>1. /\ LockDiscipline(s) /\ StepDiscipline(s) /\ Covered(cat, heap, tomb)
  BY ZenonT(30) DEF FlagInv
<1>2. /\ UNCHANGED committedVars
      /\ w'[s] = ws /\ pc'[s] = "open" /\ stmts'[s] = stmts[s]
      /\ \A t \in Others(s) : /\ pc'[t] = pc[t] /\ stmts'[t] = stmts[t]
                              /\ w'[t] = w[t] /\ lock'[t] = lock[t]
  BY ZenonT(30), <1>a, <1>b DEF TypeOK, EndStatement, TakeExclusive, Others
<1>3. UNCHANGED <<catOwner, pcat>> \/ (catOwner \in {NoSession, s} /\ catOwner' \in {NoSession, s})
  BY ZenonT(30), <1>b DEF EndStatement, CanUpdateCatalog
<1>4. \A t \in Others(s) : lock'[s] = "none" \/ lock[t] # "AE"
  <2> SUFFICES ASSUME NEW t \in Others(s), lock[t] = "AE" PROVE lock'[s] = "none"
    BY ZenonT(30)
  <2>1. lock[s] = "none"
    BY DEF FlagInv, LockDiscipline, Others
  <2>2. ~TakeExclusive(s)
    BY ZenonT(30) DEF TakeExclusive, CanLockExclusive
  <2> QED
    BY <1>a, <2>1, <2>2
<1>5. \A t \in Sessions : t # s => /\ LockDiscipline(t)' /\ StepDiscipline(t)'
                                   /\ Covered(OwnCat(t), OwnHeap(t), OwnTomb(t))'
  BY ZenonT(30), <1>2, <1>3, <1>4, <1>d, OthersKeep DEF Others
<1>6. cat' = cat /\ heap' = heap /\ tomb' = tomb
  BY <1>2 DEF committedVars
<1>7. OwnCat(s)' = nc
  BY ZenonT(30), <1>6, <1>b DEF OwnCat, EndStatement
<1>8. OwnHeap(s)' = HeapOf(ws) /\ OwnTomb(s)' = TombOf(ws)
  BY ZenonT(30), <1>2, <1>6 DEF OwnHeap, OwnTomb, HeapOf, TombOf
<1>9. Covered(OwnCat(s), OwnHeap(s), OwnTomb(s))'
  BY ZenonT(30), <1>7, <1>8, <1>a DEF Covered
<1>10. LockDiscipline(s)'
  <2>1. lock'[s] = "AE" => \A t \in Others(s) : lock'[t] = "none"
    BY ZenonT(30), <1>1, <1>2, <1>a DEF LockDiscipline, TakeExclusive, CanLockExclusive
  <2>2. lock'[s] \in {"none", "AS"} => catOwner' # s /\ w'[s].ins = {} /\ w'[s].tIns = {}
    BY ZenonT(30), <1>1, <1>2, <1>a, <1>b DEF LockDiscipline, EndStatement
  <2>3. lock'[s] # "AE" => lock[s] # "AE" /\ UNCHANGED lock
    BY ZenonT(30), <1>a DEF TakeExclusive, TypeOK
  <2>4. lock'[s] # "AE" => ~w'[s].trunc /\ ~w'[s].tTrunc
    BY ZenonT(30), <1>2, <1>c
  <2>5. lock'[s] # "AE" /\ catOwner' = s =>
          /\ pcat'.is_compressed = cat'.is_compressed
          /\ cat'.has_loose_rows => pcat'.has_loose_rows
          /\ cat'.has_tombstones => pcat'.has_tombstones
    BY ZenonT(30), <1>1, <1>6, <1>b, <1>c, <2>3 DEF LockDiscipline, EndStatement
  <2> QED
    BY ZenonT(30), <2>1, <2>2, <2>4, <2>5 DEF LockDiscipline
<1>11. StepDiscipline(s)'
  BY ZenonT(30), <1>1, <1>2, <1>7, <1>a DEF StepDiscipline, Ops
<1>12. Covered(cat, heap, tomb)'
  BY <1>1, <1>6 DEF Covered
<1> QED
  BY ZenonT(30), <1>5, <1>9, <1>10, <1>11, <1>12 DEF FlagInv

\* The partition starts with exact flags.
LEMMA InitFlags == Init => FlagInv
<1> SUFFICES ASSUME Init PROVE FlagInv
  OBVIOUS
<1>1. Covered(cat, heap, tomb)
  BY DEF Init, Covered, NewCatalogRow
<1>2. ASSUME NEW s \in Sessions
      PROVE  LockDiscipline(s) /\ StepDiscipline(s) /\ Covered(OwnCat(s), OwnHeap(s), OwnTomb(s))
  <2>1. catOwner # s
    BY SessionAssumption DEF Init
  <2>2. /\ pc[s] = "idle" /\ lock[s] = "none" /\ stmts[s] = 0 /\ ~memo[s] /\ ~bypass[s]
        /\ w[s] = NoWrites
    BY ZenonT(30) DEF Init
  <2>3. LockDiscipline(s)
    BY ZenonT(30), <2>1, <2>2, NoWritesFields DEF LockDiscipline
  <2>4. StepDiscipline(s)
    BY ZenonT(30), <2>2 DEF StepDiscipline, Ops
  <2>5. OwnCat(s) = cat /\ OwnHeap(s) = heap /\ OwnTomb(s) = tomb
    BY <2>1, <2>2 DEF OwnCat, OwnHeap, OwnTomb, NoWrites
  <2> QED
    BY <1>1, <2>3, <2>4, <2>5
<1> QED
  BY <1>1, <1>2 DEF FlagInv

\* A new statement keeps FlagInv: its lock comes with it.
LEMMA StartStatementFlags ==
  ASSUME PlainUse, TypeOK, FlagInv, NEW s \in Sessions, NEW op \in Ops,
         StartStatement(s, op)
  PROVE  FlagInv'
<1>1. LockDiscipline(s) /\ StepDiscipline(s) /\ Covered(OwnCat(s), OwnHeap(s), OwnTomb(s))
  BY ZenonT(30) DEF FlagInv
<1>2. /\ UNCHANGED <<committedVars, catOwner, pcat, w, memo, bypass>>
      /\ pc'[s] = op
      /\ \A t \in Others(s) : pc'[t] = pc[t] /\ stmts'[t] = stmts[t] /\ lock'[t] = lock[t]
      /\ lock'[s] = IF lock[s] = "AE" \/ PlanLock(op) = "none" THEN lock[s] ELSE "RE"
  BY ZenonT(30) DEF StartStatement, TypeOK, Others
<1>3. \A t \in Others(s) : lock'[s] = "none" \/ lock[t] # "AE"
  <2> SUFFICES ASSUME NEW t \in Others(s), lock[t] = "AE" PROVE lock'[s] = "none"
    BY ZenonT(30)
  <2>1. lock[s] = "none"
    BY DEF FlagInv, LockDiscipline, Others
  <2>2. PlanLock(op) = "none"
    BY ZenonT(30) DEF StartStatement, NoneExclusive, PlanLock
  <2> QED
    BY <1>2, <2>1, <2>2
<1>4. \A t \in Sessions : t # s => /\ LockDiscipline(t)' /\ StepDiscipline(t)'
                                   /\ Covered(OwnCat(t), OwnHeap(t), OwnTomb(t))'
  BY ZenonT(30), <1>2, <1>3, OthersKeep DEF Others
<1>5. cat' = cat /\ heap' = heap /\ tomb' = tomb /\ OwnCat(s)' = OwnCat(s)
  BY ZenonT(30), <1>2 DEF committedVars, OwnCat
<1>6. Covered(OwnCat(s), OwnHeap(s), OwnTomb(s))'
  BY ZenonT(30), <1>1, <1>2, <1>5 DEF Covered, OwnHeap, OwnTomb
<1>7. lock[s] \in {"none", "AS", "RE", "AE"} /\ (lock'[s] = "AE" => lock[s] = "AE")
  BY ZenonT(30), <1>2 DEF TypeOK
<1>8. LockDiscipline(s)'
  <2>1. lock'[s] = "AE" => \A t \in Others(s) : lock'[t] = "none"
    BY ZenonT(30), <1>1, <1>2, <1>7 DEF LockDiscipline
  <2>2. lock'[s] \in {"none", "AS"} => lock[s] \in {"none", "AS"}
    BY ZenonT(30), <1>2
  <2>3. lock'[s] # "AE" => lock[s] # "AE"
    BY ZenonT(30), <1>2
  <2>4. w' = w /\ catOwner' = catOwner /\ pcat' = pcat /\ cat' = cat
    BY ZenonT(30), <1>2, <1>5
  <2>5. lock'[s] \in {"none", "AS"} => catOwner' # s /\ w'[s].ins = {} /\ w'[s].tIns = {}
    BY ZenonT(30), <1>1, <2>2, <2>4 DEF LockDiscipline
  <2>6. lock'[s] # "AE" =>
          /\ ~w'[s].trunc /\ ~w'[s].tTrunc
          /\ catOwner' = s => /\ pcat'.is_compressed = cat'.is_compressed
                              /\ cat'.has_loose_rows => pcat'.has_loose_rows
                              /\ cat'.has_tombstones => pcat'.has_tombstones
    BY ZenonT(30), <1>1, <2>3, <2>4 DEF LockDiscipline
  <2> QED
    BY ZenonT(30), <2>1, <2>5, <2>6 DEF LockDiscipline
<1>9. StepDiscipline(s)'
  <2>1. stmts'[s] # 0
    <3>1. stmts'[s] = IF op \in OwnTxn THEN MaxStmts ELSE stmts[s] + 1
      BY ZenonT(30) DEF StartStatement, TypeOK
    <3>2. stmts[s] \in 0..MaxStmts /\ MaxStmts \in Nat \ {0}
      BY ZenonT(30), SessionAssumption DEF TypeOK
    <3> QED
      BY ONLY <3>1, <3>2
  <2>2. CASE op \in {"insert", "delete", "update"}
    <3>1. lock'[s] \in {"RE", "AE"}
      BY <1>2, <2>2 DEF PlanLock
    <3>2. op \in Calls[s]
      BY ZenonT(30) DEF StartStatement
    <3> QED
      BY ZenonT(30), <1>1, <1>2, <1>5, <2>1, <2>2, <3>1, <3>2 DEF StepDiscipline, Ops
  <2>3. CASE op \in {"compact", "compress", "decompress"}
    <3>1. stmts[s] = 0
      <4>1. stmts[s] < 1
        BY ZenonT(30), <2>3 DEF PlainUse, StartStatement
      <4>2. stmts[s] \in 0..MaxStmts
        BY ZenonT(30) DEF TypeOK
      <4> QED
        BY ONLY <4>1, <4>2
    <3>2. lock[s] = "none" /\ ~memo[s]
      BY ZenonT(30), <1>1, <3>1 DEF StepDiscipline
    <3>3. lock'[s] = "none" /\ ~memo'[s]
      BY <1>2, <2>3, <3>2 DEF PlanLock
    <3>4. op \in Calls[s]
      BY DEF StartStatement
    <3> QED
      BY ZenonT(30), <1>1, <1>2, <1>5, <2>1, <2>3, <3>3, <3>4 DEF StepDiscipline, Ops
  <2> QED
    BY ZenonT(30), <2>2, <2>3 DEF Ops
<1>10. Covered(cat, heap, tomb)'
  BY <1>5 DEF FlagInv, Covered
<1> QED
  BY ZenonT(30), <1>4, <1>6, <1>8, <1>9, <1>10 DEF FlagInv

\* deltax_note_compressed_insert raises the flag in the transaction of the INSERT
\* unless the session already sees it raised.
LEMMA InsertFlags ==
  ASSUME PlainUse, TypeOK, FlagInv, NEW s \in Sessions, NEW r \in Row, Insert(s, r)
  PROVE  FlagInv'
<1> DEFINE ws == InsertRows(w[s], {r})
           touch == NotesInsert(s) /\ ~CatSeen(s).has_loose_rows
           c == [CatSeen(s) EXCEPT !.has_loose_rows = TRUE]
           nc == RowAfter(s, touch, c)
<1>1. /\ EndStatement(s, ws, touch, c) /\ pc[s] = "insert"
      /\ memo' = [memo EXCEPT ![s] = @ \/ NotesInsert(s)]
      /\ UNCHANGED <<lock, bypass>>
  BY DEF Insert
<1>2. LockDiscipline(s) /\ StepDiscipline(s) /\ Covered(OwnCat(s), OwnHeap(s), OwnTomb(s))
  BY ZenonT(30) DEF FlagInv
<1>3. w[s] \in WriteSet /\ OwnCat(s) \in CatalogRow /\ CatSeen(s) = OwnCat(s)
      /\ RelCompressed(s) = OwnCat(s).is_compressed /\ cat \in CatalogRow
  BY ReadCommittedView, ViewTypes
<1>4. ws \in WriteSet
  <2>1. {r} \in SUBSET Row /\ {} \in SUBSET Tombstone
    OBVIOUS
  <2> QED
    BY <1>3, <2>1, WriteOpsType
<1>5. lock[s] \in {"RE", "AE"} /\ ~bypass[s]
  BY <1>1, <1>2 DEF StepDiscipline, PlainUse, Ops
<1>6. /\ c.is_compressed = OwnCat(s).is_compressed /\ c.has_loose_rows
      /\ c.has_tombstones = OwnCat(s).has_tombstones
  BY <1>3 DEF CatalogRow
<1>7. /\ ws.trunc = w[s].trunc /\ ws.tTrunc = w[s].tTrunc /\ TombOf(ws) = OwnTomb(s)
  BY <1>3, OwnView, InsertRowsEffect
<1>8. OwnCat(s).is_compressed => nc.has_loose_rows
  BY ZenonT(30), <1>2, <1>3, <1>5, <1>6 DEF NotesInsert, StepDiscipline, RowAfter
<1>9. NotesInsert(s) => nc.has_loose_rows
  BY <1>3, <1>6 DEF RowAfter
<1>10. /\ nc.is_compressed = OwnCat(s).is_compressed
       /\ nc.has_tombstones = OwnCat(s).has_tombstones
       /\ OwnCat(s).has_loose_rows => nc.has_loose_rows
  BY <1>6 DEF RowAfter
<1>11. touch \in BOOLEAN /\ nc = RowAfter(s, touch, c)
  BY ZenonT(30)
<1> HIDE DEF ws, touch, c, nc
<1>13. Covered(nc, HeapOf(ws), TombOf(ws))
  BY ZenonT(30), <1>2, <1>7, <1>8, <1>10 DEF Covered
<1>14. lock[s] # "AE" =>
         /\ OwnCat(s).is_compressed = cat.is_compressed
         /\ cat.has_loose_rows => OwnCat(s).has_loose_rows
         /\ cat.has_tombstones => OwnCat(s).has_tombstones
  BY ZenonT(30), <1>2 DEF LockDiscipline, OwnCat
<1>15. SharedOnlyRaises(s, ws, touch, c)
  BY ZenonT(30), <1>1, <1>2, <1>6, <1>7, <1>14 DEF LockDiscipline, SharedOnlyRaises
<1>16. /\ \A t \in Others(s) : memo'[t] = memo[t] /\ bypass'[t] = bypass[t]
       /\ memo'[s] => nc.has_loose_rows /\ lock'[s] \in {"RE", "AE"}
       /\ bypass'[s] => bypass[s]
  BY ZenonT(30), <1>1, <1>2, <1>5, <1>9, <1>10 DEF TypeOK, Others, StepDiscipline
<1>17. KeepsFlags(s, ws, touch, c)
  BY ZenonT(30), <1>1, <1>4, <1>5, <1>11, <1>13, <1>15, <1>16 DEF KeepsFlags
<1> QED
  BY <1>17, StatementKeeps

HookKeeps(s, ws, touch, c) ==
  /\ Covered(RowAfter(s, touch, c), HeapOf(ws), TombOf(ws))
  /\ ws.trunc = w[s].trunc /\ ws.tTrunc = w[s].tTrunc
  /\ c.is_compressed = OwnCat(s).is_compressed
  /\ OwnCat(s).has_loose_rows => c.has_loose_rows
  /\ OwnCat(s).has_tombstones => c.has_tombstones

\* deltax_executor_start sets the flags its tombstones and decomposed rows call for.
LEMMA HookFlags ==
  ASSUME PlainUse, TypeOK, FlagInv, NEW s \in Sessions,
         NEW P \in SUBSET SegIds, NEW T \in SUBSET SegIds, NEW D \in SUBSET SegIds, NEW K
  PROVE  (P \cup T \cup D # {} => OwnCat(s).is_compressed) =>
           HookKeeps(s, HookWrites(s, P, T, D, K), HookTouches(s, P, T, D, K),
                     HookCatalog(s, P, T, D, K))
<1> HAVE P \cup T \cup D # {} => OwnCat(s).is_compressed
<1> DEFINE ws == HookWrites(s, P, T, D, K)
           c == HookCatalog(s, P, T, D, K)
           touch == HookTouches(s, P, T, D, K)
           nc == RowAfter(s, touch, c)
<1> DEFINE new == NewTombstones(View(s), T, K)
           w1 == InsertTombstones(w[s], new)
           c1 == TombstoneCatalog(OwnCat(s), new)
           v1 == Apply(Base(s), w1, CatSeen(s))
           v2 == Apply(Base(s), w1, c1)
<1>1. Covered(OwnCat(s), OwnHeap(s), OwnTomb(s))
  BY ZenonT(30) DEF FlagInv
<1>2. w[s] \in WriteSet /\ OwnCat(s) \in CatalogRow /\ CatSeen(s) = OwnCat(s) /\ Base(s) \in Db
  BY ReadCommittedView, ViewTypes
<1>3. new \in SUBSET Tombstone /\ Cardinality(new) \in Nat /\ (T = {} => new = {})
  <2>1. new \in SUBSET Tombstone /\ (T = {} => new = {})
    BY DEF NewTombstones, Tombstone
  <2> QED
    BY ZenonT(30), <2>1, TombstoneSetFinite
<1> HIDE DEF new
<1>4. w1 \in WriteSet
  <2>1. {} \in SUBSET Row
    OBVIOUS
  <2> QED
    BY <1>2, <1>3, <2>1, WriteOpsType
<1>5. /\ HeapOf(w1) = OwnHeap(s) /\ TombOf(w1) = OwnTomb(s) \cup new
      /\ w1.trunc = w[s].trunc /\ w1.tTrunc = w[s].tTrunc
  BY <1>2, OwnView, InsertTombstonesEffect
<1>6. /\ c1 \in CatalogRow
      /\ c1.is_compressed = OwnCat(s).is_compressed
      /\ c1.has_loose_rows = OwnCat(s).has_loose_rows
      /\ OwnCat(s).has_tombstones => c1.has_tombstones
      /\ new # {} => c1.has_tombstones
      /\ new = {} => c1 = OwnCat(s)
  <2> DEFINE n == FlooredSub(OwnCat(s).row_count, Cardinality(new))
  <2>1. n \in Nat
    BY <1>2, <1>3 DEF FlooredSub, CatalogRow
  <2>2. c1 = IF new = {} THEN OwnCat(s)
             ELSE [OwnCat(s) EXCEPT !.row_count = n, !.has_tombstones = TRUE]
    BY DEF TombstoneCatalog
  <2> HIDE DEF n, c1
  <2> QED
    BY Zenon, <1>2, <2>1, <2>2 DEF CatalogRow
<1>7. v1 \in Db /\ v2 \in Db
  BY ZenonT(30), <1>2, <1>4, <1>6, ApplyType
<1>8. LiveRows(v1, D) = LiveRows(v2, D)
  BY ZenonT(30) DEF LiveRows, LivePairs, Apply
<1>9. Covered(c1, HeapOf(w1), TombOf(w1))
  BY ZenonT(30), <1>1, <1>3, <1>5, <1>6 DEF Covered
<1>10. /\ ws = IF P \cup D = {} THEN w1 ELSE DecomposeWrites(w1, v1, D, P)
       /\ c = IF P \cup D = {} THEN c1 ELSE DecomposeCatalog(c1, v2, D, P)
       /\ touch = (new # {} \/ P \cup D # {})
  BY <1>2 DEF HookWrites, HookCatalog, HookTouches, new
<1>a. nc = IF touch THEN c ELSE OwnCat(s)
  BY DEF RowAfter
<1> HIDE DEF w1, c1, v1, v2, ws, c, touch, nc
<1>b. SUFFICES HookKeeps(s, ws, touch, c)
  BY ZenonT(30) DEF ws, touch, c
<1>c. SUFFICES /\ Covered(nc, HeapOf(ws), TombOf(ws))
               /\ ws.trunc = w[s].trunc /\ ws.tTrunc = w[s].tTrunc
               /\ c.is_compressed = OwnCat(s).is_compressed
               /\ OwnCat(s).has_loose_rows => c.has_loose_rows
               /\ OwnCat(s).has_tombstones => c.has_tombstones
  BY ZenonT(30) DEF HookKeeps, nc
<1>11. CASE P \cup D = {}
  BY ZenonT(30), <1>5, <1>6, <1>9, <1>10, <1>11, <1>a
<1>12. CASE P \cup D # {}
  <2>1. /\ HeapOf(ws) = HeapOf(w1) \cup LiveRows(v1, D)
        /\ TombOf(ws) \subseteq TombOf(w1)
        /\ ws.trunc = w1.trunc /\ ws.tTrunc = w1.tTrunc
    <3> DEFINE dw == DecomposeWrites(w1, v1, D, P)
    <3>1. ws = dw
      BY <1>10, <1>12
    <3>2. /\ HeapOf(dw) = HeapOf(w1) \cup LiveRows(v1, D)
          /\ TombOf(dw) \subseteq TombOf(w1)
          /\ dw.trunc = w1.trunc /\ dw.tTrunc = w1.tTrunc
      BY ZenonT(30), <1>4, <1>7, DecomposeFields
    <3> HIDE DEF dw
    <3> QED
      BY <3>1, <3>2
  <2>2. /\ c.is_compressed = c1.is_compressed
        /\ c.has_tombstones = c1.has_tombstones
        /\ c1.has_loose_rows => c.has_loose_rows
        /\ LiveRows(v2, D) # {} => c.has_loose_rows
    <3> DEFINE dc == DecomposeCatalog(c1, v2, D, P)
    <3>1. c = dc
      BY ZenonT(30), <1>10, <1>12
    <3>2. /\ dc.is_compressed = c1.is_compressed
          /\ dc.has_tombstones = c1.has_tombstones
          /\ c1.has_loose_rows => dc.has_loose_rows
          /\ LiveRows(v2, D) # {} => dc.has_loose_rows
      BY ZenonT(30), <1>6, <1>7, DecomposeFlags
    <3> HIDE DEF dc
    <3> QED
      BY <3>1, <3>2
  <2>3. nc = c
    BY ZenonT(30), <1>10, <1>12, <1>a
  <2>4. Covered(c, HeapOf(ws), TombOf(ws))
    BY ZenonT(30), <1>8, <1>9, <2>1, <2>2 DEF Covered
  <2> QED
    BY ZenonT(30), <1>5, <1>6, <2>1, <2>2, <2>3, <2>4
<1> QED
  BY <1>11, <1>12

\* A DELETE or UPDATE keeps FlagInv, whatever the hook's split of the segments.
LEMMA RunDmlFlags ==
  ASSUME PlainUse, TypeOK, FlagInv, NEW s \in Sessions,
         NEW P \in SUBSET SegIds, NEW T \in SUBSET SegIds, NEW D \in SUBSET SegIds, NEW K,
         NEW V \in SUBSET Vals, pc[s] \in {"delete", "update"},
         P \cup T \cup D # {} => OwnCat(s).is_compressed,
         RunDml(s, P, T, D, K, V)
  PROVE  FlagInv'
<1> DEFINE ws == HookWrites(s, P, T, D, K)
           old == HeapTargets(s, ws, K)
           w2 == InsertRows(DeleteRows(ws, old), Rewritten(old, V))
           touch == HookTouches(s, P, T, D, K)
           c == HookCatalog(s, P, T, D, K)
           nc == RowAfter(s, touch, c)
<1>1. /\ IF P \cup D = {} THEN UNCHANGED lock ELSE TakeExclusive(s)
      /\ EndStatement(s, w2, touch, c)
      /\ UNCHANGED <<memo, bypass>>
  BY DEF RunDml, HookTouches
<1>2. LockDiscipline(s) /\ StepDiscipline(s)
  BY DEF FlagInv
<1>3. ws \in WriteSet /\ c \in CatalogRow
  BY HookTypes, HookWritesType
<1>4. /\ Covered(nc, HeapOf(ws), TombOf(ws))
      /\ ws.trunc = w[s].trunc /\ ws.tTrunc = w[s].tTrunc
      /\ c.is_compressed = OwnCat(s).is_compressed
      /\ OwnCat(s).has_loose_rows => c.has_loose_rows
      /\ OwnCat(s).has_tombstones => c.has_tombstones
  <2>1. HookKeeps(s, ws, touch, c)
    BY HookFlags
  <2> QED
    BY Zenon, <2>1 DEF HookKeeps
<1>5. touch \in BOOLEAN
  BY DEF HookTouches
<1>6. nc = IF touch THEN c ELSE OwnCat(s)
  BY ZenonT(30) DEF RowAfter
<1> HIDE DEF ws, touch, c
<1>7. old \in SUBSET Row /\ old \subseteq HeapOf(ws)
  <2>1. old \in SUBSET Row
    BY ZenonT(30), <1>3, TargetTypes
  <2>2. old \subseteq Apply(Committed, ws, cat).heap
    BY ZenonT(30) DEF HeapTargets, Matching
  <2> QED
    BY ZenonT(30), <2>1, <2>2 DEF Apply, Committed, HeapOf
<1> HIDE DEF old
<1>8. Rewritten(old, V) \in SUBSET Row /\ (old = {} => Rewritten(old, V) = {})
  <2>1. Rewritten(old, V) \in SUBSET Row
    BY ZenonT(30), <1>7, RewrittenType
  <2> QED
    BY <2>1 DEF Rewritten
<1>9. DeleteRows(ws, old) \in WriteSet /\ w2 \in WriteSet
  <2>1. {} \in SUBSET Tombstone
    OBVIOUS
  <2>2. DeleteRows(ws, old) \in WriteSet
    BY ZenonT(30), <1>3, <1>7, <2>1, WriteOpsType
  <2> QED
    BY ZenonT(30), <1>8, <2>1, <2>2, WriteOpsType
<1>10. /\ HeapOf(w2) \subseteq HeapOf(ws) \cup Rewritten(old, V)
       /\ TombOf(w2) = TombOf(ws) /\ w2.trunc = ws.trunc /\ w2.tTrunc = ws.tTrunc
  <2> DEFINE w1 == DeleteRows(ws, old)
  <2>1. /\ HeapOf(w1) \subseteq HeapOf(ws) /\ TombOf(w1) = TombOf(ws)
        /\ w1.trunc = ws.trunc /\ w1.tTrunc = ws.tTrunc
    BY ZenonT(30), <1>3, DeleteRowsEffect
  <2>2. w1 \in WriteSet
    BY <1>9
  <2>3. w2 = InsertRows(w1, Rewritten(old, V))
    BY ZenonT(30) DEF w1
  <2> HIDE DEF w1, w2
  <2>4. /\ HeapOf(w2) = HeapOf(w1) \cup Rewritten(old, V) /\ TombOf(w2) = TombOf(w1)
        /\ w2.trunc = w1.trunc /\ w2.tTrunc = w1.tTrunc
    BY SMTT(30), <2>2, <2>3, InsertRowsEffect
  <2> QED
    BY ZenonT(30), <2>1, <2>4
<1> HIDE DEF w2
<1>11. Covered(nc, HeapOf(w2), TombOf(w2))
  BY ZenonT(30), <1>4, <1>7, <1>8, <1>10 DEF Covered
<1>12. lock[s] \in {"RE", "AE"}
  BY ZenonT(30), <1>2 DEF StepDiscipline
<1>13. /\ UNCHANGED lock \/ TakeExclusive(s)
       /\ lock'[s] \in {"RE", "AE"}
       /\ lock'[s] # "AE" => lock[s] # "AE"
  BY <1>1, <1>12 DEF TakeExclusive, TypeOK
<1>14. SharedOnlyRaises(s, w2, touch, c)
  BY Zenon, <1>2, <1>4, <1>10, <1>13 DEF LockDiscipline, OwnCat, SharedOnlyRaises
<1>15. /\ \A t \in Others(s) : memo'[t] = memo[t] /\ bypass'[t] = bypass[t]
       /\ memo'[s] => nc.has_loose_rows /\ lock'[s] \in {"RE", "AE"}
       /\ bypass'[s] => bypass[s]
  BY Zenon, <1>1, <1>2, <1>4, <1>6, <1>13 DEF StepDiscipline
<1>16. pc[s] # "idle"
  OBVIOUS
<1>17. KeepsFlags(s, w2, touch, c)
  BY ZenonT(30), <1>1, <1>5, <1>9, <1>11, <1>13, <1>14, <1>15, <1>16 DEF KeepsFlags
<1> QED
  BY ZenonT(30), <1>17, StatementKeeps

\* DELETE keeps FlagInv.
LEMMA DeleteFlags ==
  ASSUME PlainUse, TypeOK, FlagInv, NEW s \in Sessions, NEW K, NEW C \in SUBSET SegIds,
         NEW P \in SUBSET SegIds, NEW D \in SUBSET SegIds, Delete(s, K, C, P, D)
  PROVE  FlagInv'
<1> DEFINE T == C \ (P \cup D)
<1>1. RunDml(s, P, T, D, K, {}) /\ pc[s] = "delete"
  BY DEF Delete
<1>2. T \in SUBSET SegIds /\ {} \in SUBSET Vals
  OBVIOUS
<1>3. P \cup T \cup D # {} => OwnCat(s).is_compressed
  <2>1. C # {} => RelCompressed(s)
    BY DEF Delete, Intercepted
  <2>2. P \subseteq C /\ D \subseteq C
    BY DEF Delete
  <2> QED
    BY ZenonT(30), <2>1, <2>2, ReadCommittedView
<1> HIDE DEF T
<1> QED
  BY ZenonT(30), <1>1, <1>2, <1>3, RunDmlFlags

\* UPDATE keeps FlagInv.
LEMMA UpdateFlags ==
  ASSUME PlainUse, TypeOK, FlagInv, NEW s \in Sessions, NEW K, NEW C \in SUBSET SegIds,
         NEW val \in Vals, Update(s, K, C, val)
  PROVE  FlagInv'
<1>1. RunDml(s, {}, {}, C, K, {val}) /\ pc[s] = "update"
  BY DEF Update
<1>2. {} \in SUBSET SegIds /\ {val} \in SUBSET Vals
  BY ZenonT(30)
<1>3. {} \cup {} \cup C # {} => OwnCat(s).is_compressed
  BY ZenonT(30), ReadCommittedView DEF Update, Intercepted
<1> QED
  BY <1>1, <1>2, <1>3, RunDmlFlags

\* A maintenance function that ends holding the exclusive lock may write any
\* catalog row that covers what it leaves.
Maintains(s, ws, touch, c) ==
  /\ pc[s] \in {"compact", "decompress", "compress_finish"}
  /\ ws \in WriteSet /\ touch \in BOOLEAN
  /\ EndStatement(s, ws, touch, c) /\ TakeExclusive(s)
  /\ Covered(RowAfter(s, touch, c), HeapOf(ws), TombOf(ws))
  /\ \A t \in Others(s) : bypass'[t] = bypass[t]
  /\ bypass'[s] => bypass[s]
  /\ UNCHANGED memo

\* A maintenance statement whose end has the shape Maintains keeps FlagInv.
LEMMA MaintenanceFlags ==
  ASSUME TypeOK, FlagInv, NEW s \in Sessions, NEW ws, NEW touch, NEW c,
         Maintains(s, ws, touch, c)
  PROVE  FlagInv'
<1>1. StepDiscipline(s)
  BY DEF FlagInv
<1>2. /\ TakeExclusive(s) /\ pc[s] \in {"compact", "decompress", "compress_finish"}
      /\ ~memo'[s] /\ \A t \in Others(s) : memo'[t] = memo[t] /\ bypass'[t] = bypass[t]
  BY ZenonT(30), <1>1 DEF Maintains, StepDiscipline, TypeOK, Others
<1>3. lock'[s] = "AE" /\ pc[s] # "idle"
  BY ZenonT(30), <1>2 DEF TakeExclusive, TypeOK
<1>4. SharedOnlyRaises(s, ws, touch, c)
  BY SMTT(30), <1>3 DEF SharedOnlyRaises
<1>5. KeepsFlags(s, ws, touch, c)
  BY Zenon, <1>2, <1>3, <1>4 DEF KeepsFlags, Maintains
<1> QED
  BY <1>5, StatementKeeps

\* A maintenance function with nothing to do keeps FlagInv.
LEMMA SkipFlags ==
  ASSUME TypeOK, FlagInv, NEW s \in Sessions,
         CompactSkip(s) \/ CompressSkip(s) \/ DecompressSkip(s)
  PROVE  FlagInv'
<1> DEFINE touch == FALSE
           nc == RowAfter(s, touch, pcat)
<1>1. /\ pc[s] \in {"compact", "compress", "decompress"}
      /\ EndStatement(s, w[s], touch, pcat) /\ UNCHANGED <<lock, memo>>
      /\ bypass' = [bypass EXCEPT ![s] = FALSE] \/ UNCHANGED bypass
  BY Zenon DEF CompactSkip, CompressSkip, DecompressSkip, ReturnUnchanged
<1>2. w[s] \in WriteSet /\ touch \in BOOLEAN /\ ~touch
  BY DEF TypeOK
<1>3. LockDiscipline(s) /\ StepDiscipline(s) /\ Covered(OwnCat(s), OwnHeap(s), OwnTomb(s))
  BY ZenonT(30) DEF FlagInv
<1>4. Covered(nc, HeapOf(w[s]), TombOf(w[s]))
  BY <1>3 DEF OwnHeap, OwnTomb, HeapOf, TombOf, RowAfter
<1>5. lock[s] = "none" /\ ~memo[s]
  BY Zenon, <1>1, <1>3 DEF StepDiscipline
<1> HIDE DEF touch
<1>7. /\ \A t \in Others(s) : memo'[t] = memo[t] /\ bypass'[t] = bypass[t]
      /\ memo'[s] => nc.has_loose_rows /\ lock'[s] \in {"RE", "AE"}
      /\ bypass'[s] => bypass[s]
  BY ZenonT(30), <1>1, <1>5 DEF TypeOK, Others
<1>8. SharedOnlyRaises(s, w[s], touch, pcat) /\ pc[s] # "idle"
  BY ZenonT(30), <1>1, <1>2, <1>3, <1>5 DEF LockDiscipline, SharedOnlyRaises
<1>9. KeepsFlags(s, w[s], touch, pcat)
  BY Zenon, <1>1, <1>2, <1>4, <1>7, <1>8 DEF KeepsFlags
<1> QED
  BY <1>9, StatementKeeps

\* Folding the tombstones: none is left uncovered by has_tombstones.
LEMMA FoldedFlags ==
  ASSUME PlainUse, TypeOK, FlagInv, NEW s \in Sessions, OwnCat(s).is_compressed
  PROVE  /\ FoldedView(s).heap = HeapOf(FoldedWrites(s))
         /\ FoldedView(s).cat = FoldedCatalog(s)
         /\ FoldedCatalog(s).is_compressed
         /\ TombOf(FoldedWrites(s)) # {} => FoldedCatalog(s).has_tombstones
<1> DEFINE v == View(s)
           S == TombstonedSegments(v)
           rw == RewriteWrites(s)
           rc == RewriteCatalog(s)
<1>1. Covered(OwnCat(s), OwnHeap(s), OwnTomb(s))
  BY ZenonT(30) DEF FlagInv
<1>2. /\ w[s] \in WriteSet /\ OwnCat(s) \in CatalogRow /\ CatSeen(s) = OwnCat(s)
      /\ Base(s) = Committed /\ v \in Db
  BY ZenonT(30), ReadCommittedView, ViewTypes
<1>3. rw \in WriteSet /\ rc \in CatalogRow /\ FoldedWrites(s) \in WriteSet
  BY FoldedTypes, FoldedWritesType
<1>4. S \in SUBSET SegIds /\ {} \in SUBSET SegIds
  BY <1>2 DEF TombstonedSegments, Db, Tombstone
<1>5. TombOf(w[s]) = OwnTomb(s)
  BY DEF TombOf, OwnTomb
<1> HIDE DEF v, S
<1>6. /\ TombOf(rw) \subseteq OwnTomb(s)
      /\ rc.is_compressed = OwnCat(s).is_compressed
      /\ rc.has_tombstones = OwnCat(s).has_tombstones
  <2>1. /\ rw = IF v.tomb = {} THEN w[s] ELSE DecomposeWrites(w[s], v, S, {})
        /\ rc = IF v.tomb = {} THEN OwnCat(s) ELSE DecomposeCatalog(OwnCat(s), v, S, {})
    BY ZenonT(30), <1>2 DEF RewriteWrites, RewriteCatalog, v, S
  <2> HIDE DEF rw, rc
  <2>2. CASE v.tomb = {}
    BY Zenon, <2>1, <2>2, <1>5
  <2>3. CASE v.tomb # {}
    <3>1. rw = DecomposeWrites(w[s], v, S, {}) /\ rc = DecomposeCatalog(OwnCat(s), v, S, {})
      BY ZenonT(30), <2>1, <2>3
    <3>2. TombOf(DecomposeWrites(w[s], v, S, {})) \subseteq TombOf(w[s])
      BY <1>2, <1>4, DecomposeFields
    <3>3. /\ DecomposeCatalog(OwnCat(s), v, S, {}).is_compressed = OwnCat(s).is_compressed
          /\ DecomposeCatalog(OwnCat(s), v, S, {}).has_tombstones = OwnCat(s).has_tombstones
      BY ZenonT(30), <1>2, <1>4, DecomposeFlags
    <3> QED
      BY ZenonT(30), <1>5, <3>1, <3>2, <3>3
  <2> QED
    BY ZenonT(30), <2>2, <2>3
<1>7. Apply(Base(s), rw, rc).tomb = TombOf(rw)
  BY <1>2, ApplyFields
<1>8. /\ FoldedWrites(s) = IF TombOf(rw) = {} THEN TruncateTombstones(rw) ELSE rw
      /\ FoldedCatalog(s) = IF TombOf(rw) = {} THEN [rc EXCEPT !.has_tombstones = FALSE] ELSE rc
  BY <1>7 DEF FoldedWrites, FoldedCatalog
<1>9. FoldedView(s).heap = HeapOf(FoldedWrites(s)) /\ FoldedView(s).cat = FoldedCatalog(s)
  BY ZenonT(30), <1>2, ApplyFields DEF FoldedView
<1> HIDE DEF rw, rc
<1>10. CASE TombOf(rw) = {}
  <2>1. TombOf(FoldedWrites(s)) = {}
    BY <1>3, <1>8, <1>10, TruncateFields
  <2>2. FoldedCatalog(s).is_compressed
    BY Zenon, <1>3, <1>6, <1>8, <1>10 DEF CatalogRow
  <2> QED
    BY <1>9, <2>1, <2>2
<1>11. CASE TombOf(rw) # {}
  BY Zenon, <1>1, <1>6, <1>8, <1>9, <1>11 DEF Covered
<1> QED
  BY <1>10, <1>11

\* A compaction keeps FlagInv: it clears the flags with what they stood for.
LEMMA CompactFlags ==
  ASSUME PlainUse, TypeOK, FlagInv, NEW s \in Sessions, NEW A \in SUBSET Row,
         CompactNothing(s) \/ CompactLoose(s, A)
  PROVE  FlagInv'
<1>1. OwnCat(s).is_compressed
  BY Zenon, ReadCommittedView DEF CompactNothing, CompactLoose
<1>2. /\ FoldedWrites(s) \in WriteSet /\ FoldedCatalog(s) \in CatalogRow /\ FoldedView(s) \in Db
  BY ZenonT(30), FoldedTypes, FoldedWritesType
<1>3. /\ FoldedView(s).heap = HeapOf(FoldedWrites(s))
      /\ FoldedView(s).cat = FoldedCatalog(s)
      /\ FoldedCatalog(s).is_compressed
      /\ TombOf(FoldedWrites(s)) # {} => FoldedCatalog(s).has_tombstones
  BY <1>1, FoldedFlags
<1>4. Iso[s] = "RC" /\ pc[s] = "compact" /\ TakeExclusive(s) /\ UNCHANGED <<memo, bypass>>
  BY Zenon DEF PlainUse, CompactNothing, CompactLoose
<1> DEFINE th == TruncateHeap(FoldedWrites(s))
<1>5. th \in WriteSet /\ HeapOf(th) = {} /\ TombOf(th) = TombOf(FoldedWrites(s))
  <2>1. {} \in SUBSET Row /\ {} \in SUBSET Tombstone
    OBVIOUS
  <2> QED
    BY <1>2, <2>1, WriteOpsType, TruncateFields
<1> HIDE DEF th
<1>6. CASE CompactNothing(s)
  <2> DEFINE c == [FoldedCatalog(s) EXCEPT !.has_loose_rows = FALSE]
             touch == View(s).tomb # {} \/ c # CatSeen(s)
  <2>1. EndStatement(s, th, touch, c)
    BY <1>4, <1>6 DEF CompactNothing, th
  <2>2. RowAfter(s, touch, c) = c /\ touch \in BOOLEAN
    BY Zenon, ReadCommittedView DEF RowAfter
  <2>3. Covered(c, HeapOf(th), TombOf(th))
    BY <1>2, <1>3, <1>5 DEF Covered, CatalogRow
  <2> HIDE DEF c, touch
  <2>4. Maintains(s, th, touch, c)
    BY Zenon, <1>4, <1>5, <2>1, <2>2, <2>3 DEF Maintains
  <2> QED
    BY <2>4, MaintenanceFlags
<1>7. CASE CompactLoose(s, A)
  <2> DEFINE v == FoldedView(s)
             news == NewSegments(HighWater(v, v.cat) + 1, A, v.heap)
             w2 == AddSegments(th, news)
             c == [BumpCompaction(v.cat, Cardinality(v.heap)) EXCEPT !.has_loose_rows = FALSE]
  <2>1. EndStatement(s, w2, TRUE, c)
    BY Zenon, <1>4, <1>7 DEF CompactLoose, th
  <2>2. news \in [SegIds -> SUBSET Row]
    BY <1>2, NewSegmentsType DEF Db
  <2>3. c.is_compressed /\ (FoldedCatalog(s).has_tombstones => c.has_tombstones)
    BY <1>2, <1>3 DEF CatalogRow, BumpCompaction
  <2> HIDE DEF news
  <2>4. w2 \in WriteSet
    BY ZenonT(30), <1>5, <2>2, AddSegmentsType
  <2>5. HeapOf(w2) = HeapOf(th) /\ TombOf(w2) = TombOf(th)
    BY ZenonT(30), <1>5, AddSegmentsFields DEF HeapOf, TombOf
  <2> HIDE DEF w2, c
  <2>6. Covered(c, HeapOf(w2), TombOf(w2))
    BY ZenonT(30), <1>3, <1>5, <2>3, <2>5 DEF Covered
  <2> DEFINE touch == TRUE
  <2>7. touch \in BOOLEAN /\ RowAfter(s, touch, c) = c /\ EndStatement(s, w2, touch, c)
    BY ZenonT(30), <2>1 DEF RowAfter
  <2> HIDE DEF touch
  <2>8. Maintains(s, w2, touch, c)
    BY ZenonT(30), <1>4, <2>4, <2>6, <2>7 DEF Maintains
  <2> QED
    BY <2>8, MaintenanceFlags
<1> QED
  BY <1>6, <1>7

\* The read phase of a compression keeps FlagInv.
LEMMA CompressReadFlags ==
  ASSUME PlainUse, TypeOK, FlagInv, NEW s \in Sessions, NEW A \in SUBSET Row,
         CompressRead(s, A)
  PROVE  FlagInv'
<1> DEFINE news == NewSegments(1, A, View(s).heap)
           w1 == AddSegments(w[s], news)
<1>1. LockDiscipline(s) /\ StepDiscipline(s) /\ Covered(OwnCat(s), OwnHeap(s), OwnTomb(s))
  BY DEF FlagInv
<1>2. pc[s] = "compress" /\ lock[s] = "none" /\ ~memo[s]
  BY Zenon, <1>1 DEF CompressRead, StepDiscipline
<1>3. /\ UNCHANGED <<committedVars, catOwner, pcat, stmts, memo, bypass>>
      /\ pc'[s] = "compress_finish" /\ lock'[s] = "AS" /\ w'[s] = w1
      /\ \A t \in Others(s) : pc'[t] = pc[t] /\ lock'[t] = lock[t] /\ w'[t] = w[t]
      /\ \A t \in Others(s) : lock[t] # "AE"
  BY Zenon, <1>2 DEF CompressRead, TypeOK, Others, NoneExclusive
<1>4. /\ w1.ins = w[s].ins /\ w1.del = w[s].del /\ w1.trunc = w[s].trunc
      /\ w1.tIns = w[s].tIns /\ w1.tDel = w[s].tDel /\ w1.tTrunc = w[s].tTrunc
  BY ZenonT(30), ViewTypes, AddSegmentsFields
<1> HIDE DEF w1
<1>5. \A t \in Sessions : t # s => /\ LockDiscipline(t)' /\ StepDiscipline(t)'
                                   /\ Covered(OwnCat(t), OwnHeap(t), OwnTomb(t))'
  BY ZenonT(30), <1>3, OthersKeep DEF Others
<1>6. cat' = cat /\ heap' = heap /\ tomb' = tomb /\ OwnCat(s)' = OwnCat(s)
  BY ZenonT(30), <1>3 DEF committedVars, OwnCat
<1>7. Covered(OwnCat(s), OwnHeap(s), OwnTomb(s))'
  BY ZenonT(30), <1>1, <1>3, <1>4, <1>6 DEF Covered, OwnHeap, OwnTomb
<1>8. LockDiscipline(s)'
  BY Zenon, <1>1, <1>2, <1>3, <1>4 DEF LockDiscipline
<1>9. ~cat.is_compressed
  <2>1. catOwner # s
    BY Zenon, <1>1, <1>2 DEF LockDiscipline
  <2>2. ~OwnCat(s).is_compressed
    BY Zenon, ReadCommittedView DEF CompressRead
  <2> QED
    BY SMTT(30), <2>1, <2>2 DEF OwnCat
<1>10. StepDiscipline(s)'
  BY ZenonT(30), <1>1, <1>2, <1>3, <1>6, <1>9 DEF StepDiscipline, Ops
<1>11. Covered(cat, heap, tomb)'
  BY ZenonT(30), <1>6 DEF FlagInv, Covered
<1> QED
  BY ZenonT(30), <1>5, <1>7, <1>8, <1>10, <1>11 DEF FlagInv

\* The end of a compression keeps FlagInv: it clears both flags over an empty heap.
LEMMA CompressFinishFlags ==
  ASSUME PlainUse, TypeOK, FlagInv, NEW s \in Sessions, CompressFinish(s)
  PROVE  FlagInv'
<1> DEFINE c == [CatSeen(s) EXCEPT !.is_compressed = TRUE, !.has_loose_rows = FALSE,
                                   !.has_tombstones = FALSE,
                                   !.row_count = Cardinality(LivePairs(View(s), SegIds))]
           ws == TruncateHeap(w[s])
           touch == TRUE
<1>1. /\ pc[s] = "compress_finish" /\ TakeExclusive(s) /\ EndStatement(s, ws, touch, c)
      /\ UNCHANGED <<memo, bypass>>
  BY Zenon DEF CompressFinish
<1>2. LockDiscipline(s) /\ StepDiscipline(s) /\ Covered(OwnCat(s), OwnHeap(s), OwnTomb(s))
  BY DEF FlagInv
<1>3. ~cat.is_compressed /\ lock[s] = "AS"
  BY ZenonT(30), <1>1, <1>2 DEF StepDiscipline
<1>4. OwnTomb(s) = {}
  <2>1. tomb = {}
    BY ZenonT(30), <1>3 DEF FlagInv, Covered
  <2>2. w[s].tIns = {}
    BY ZenonT(30), <1>2, <1>3 DEF LockDiscipline
  <2> QED
    BY ZenonT(30), <2>1, <2>2 DEF OwnTomb
<1>5. ws \in WriteSet /\ HeapOf(ws) = {} /\ TombOf(ws) = {}
  <2>1. {} \in SUBSET Row /\ {} \in SUBSET Tombstone
    OBVIOUS
  <2>2. ws \in WriteSet
    BY ZenonT(30), <2>1, ViewTypes, WriteOpsType
  <2>3. HeapOf(ws) = {} /\ TombOf(ws) = TombOf(w[s])
    BY ViewTypes, TruncateFields
  <2> QED
    BY <1>4, <2>2, <2>3 DEF TombOf, OwnTomb
<1>6. touch \in BOOLEAN /\ RowAfter(s, touch, c) = c
  BY DEF RowAfter
<1> HIDE DEF ws, touch, c
<1>7. Covered(c, HeapOf(ws), TombOf(ws))
  BY ZenonT(30), <1>5 DEF Covered
<1>8. Maintains(s, ws, touch, c)
  BY ZenonT(30), <1>1, <1>5, <1>6, <1>7 DEF Maintains
<1> QED
  BY <1>8, MaintenanceFlags

\* A decompression keeps FlagInv: the flags it leaves set cover too much, never too little.
LEMMA DecompressFlags ==
  ASSUME PlainUse, TypeOK, FlagInv, NEW s \in Sessions, Decompress(s)
  PROVE  FlagInv'
<1> DEFINE c == [CatSeen(s) EXCEPT !.is_compressed = FALSE, !.row_count = 0,
                                   !.max_segment_id = 0]
           wd == DecomposeWrites(w[s], View(s), SegIds, {})
           ws == TruncateTombstones(wd)
           touch == TRUE
<1>1. /\ pc[s] = "decompress" /\ TakeExclusive(s) /\ EndStatement(s, ws, touch, c)
      /\ bypass' = [bypass EXCEPT ![s] = FALSE] /\ UNCHANGED memo
  BY Zenon DEF Decompress
<1>2. wd \in WriteSet
  <2>1. SegIds \in SUBSET SegIds /\ {} \in SUBSET SegIds
    OBVIOUS
  <2> QED
    BY <2>1, ViewTypes, DecomposeWritesType
<1> HIDE DEF wd
<1>3. ws \in WriteSet /\ TombOf(ws) = {}
  <2>1. {} \in SUBSET Row /\ {} \in SUBSET Tombstone
    OBVIOUS
  <2> QED
    BY <1>2, <2>1, WriteOpsType, TruncateFields
<1>4. ~c.is_compressed
  BY ViewTypes DEF CatalogRow
<1>5. touch \in BOOLEAN /\ RowAfter(s, touch, c) = c
  BY DEF RowAfter
<1> HIDE DEF ws, touch, c
<1>6. Covered(c, HeapOf(ws), TombOf(ws))
  BY <1>3, <1>4 DEF Covered
<1>7. pc[s] \in {"compact", "decompress", "compress_finish"}
  BY <1>1
<1>8. (\A t \in Others(s) : bypass'[t] = bypass[t]) /\ (bypass'[s] => bypass[s])
  BY <1>1 DEF TypeOK, Others
<1>9. TakeExclusive(s) /\ EndStatement(s, ws, touch, c) /\ UNCHANGED memo
  BY <1>1
<1>10. Maintains(s, ws, touch, c)
  BY ZenonT(30), <1>3, <1>5, <1>6, <1>7, <1>8, <1>9 DEF Maintains
<1> QED
  BY <1>10, MaintenanceFlags

\* The end of a transaction, for the session that ends it.
LEMMA EndTxnFlags ==
  ASSUME TypeOK, NEW s \in Sessions, EndTxn(s), bypass'[s] => "decompress" \in Calls[s],
         Covered(cat, heap, tomb)'
  PROVE  /\ LockDiscipline(s)' /\ StepDiscipline(s)'
         /\ Covered(OwnCat(s), OwnHeap(s), OwnTomb(s))'
<1>1. /\ pc'[s] = "idle" /\ stmts'[s] = 0 /\ lock'[s] = "none" /\ w'[s] = NoWrites /\ ~memo'[s]
      /\ catOwner' # s
  BY ZenonT(30), SessionAssumption DEF EndTxn, TypeOK
<1>2. LockDiscipline(s)'
  <2>1. w'[s].ins = {} /\ w'[s].tIns = {} /\ ~w'[s].trunc /\ ~w'[s].tTrunc
    BY ZenonT(30), <1>1, NoWritesFields
  <2> QED
    BY ZenonT(30), <1>1, <2>1 DEF LockDiscipline
<1>3. StepDiscipline(s)'
  BY ZenonT(30), <1>1 DEF StepDiscipline, Ops
<1>4. OwnCat(s)' = cat' /\ OwnHeap(s)' = heap' /\ OwnTomb(s)' = tomb'
  <2>1. /\ w'[s].ins = {} /\ w'[s].del = {} /\ ~w'[s].trunc
        /\ w'[s].tIns = {} /\ w'[s].tDel = {} /\ ~w'[s].tTrunc
    BY ZenonT(30), <1>1, NoWritesFields
  <2> QED
    BY ZenonT(30), <1>1, <2>1 DEF OwnCat, OwnHeap, OwnTomb
<1> QED
  BY ZenonT(30), <1>2, <1>3, <1>4 DEF Covered

\* A rollback keeps FlagInv.
LEMMA AbortFlags ==
  ASSUME PlainUse, TypeOK, FlagInv, NEW s \in Sessions, Abort(s)
  PROVE  FlagInv'
<1>1. EndTxn(s) /\ UNCHANGED committedVars
  BY DEF Abort
<1>2. StepDiscipline(s)
  BY ZenonT(30) DEF FlagInv
<1>3. bypass'[s] => "decompress" \in Calls[s]
  <2>1. bypass'[s] => bypass[s] \/ pc[s] = "decompress"
    BY Zenon DEF Abort, TypeOK
  <2> QED
    BY ZenonT(30), <1>2, <2>1 DEF StepDiscipline, Ops
<1>4. Covered(cat, heap, tomb)'
  BY ZenonT(30), <1>1 DEF FlagInv, Covered, committedVars
<1>5. /\ LockDiscipline(s)' /\ StepDiscipline(s)'
      /\ Covered(OwnCat(s), OwnHeap(s), OwnTomb(s))'
  BY ZenonT(30), <1>1, <1>3, <1>4, EndTxnFlags
<1>6. \A t \in Others(s) : /\ pc'[t] = pc[t] /\ stmts'[t] = stmts[t] /\ lock'[t] = lock[t]
                           /\ w'[t] = w[t] /\ memo'[t] = memo[t] /\ bypass'[t] = bypass[t]
  BY ZenonT(30) DEF Abort, EndTxn, TypeOK, Others
<1>7. lock'[s] = "none"
  BY <1>1 DEF EndTxn, TypeOK
<1>8. UNCHANGED <<catOwner, pcat>> \/ (catOwner \in {NoSession, s} /\ catOwner' \in {NoSession, s})
  BY <1>1 DEF EndTxn
<1>9. \A t \in Sessions : t # s => /\ LockDiscipline(t)' /\ StepDiscipline(t)'
                                   /\ Covered(OwnCat(t), OwnHeap(t), OwnTomb(t))'
  BY ZenonT(30), <1>1, <1>6, <1>7, <1>8, OthersKeep DEF Others
<1> QED
  BY ZenonT(30), <1>4, <1>5, <1>9 DEF FlagInv

\* The commit of s installs its catalog row, heap and tombstones. Others see it at
\* once: those that hold no lock have nothing of their own to cover; those that
\* hold one exclude the exclusive lock, so s has only raised flags.
LEMMA CommitFlags ==
  ASSUME PlainUse, TypeOK, FlagInv, NEW s \in Sessions, Commit(s)
  PROVE  FlagInv'
<1>1. /\ cat' = OwnCat(s) /\ heap' = OwnHeap(s) /\ tomb' = OwnTomb(s)
      /\ EndTxn(s) /\ UNCHANGED bypass
  BY Zenon DEF Commit, Apply, Committed, OwnCat, OwnHeap, OwnTomb
<1>2. /\ LockDiscipline(s) /\ StepDiscipline(s) /\ Covered(cat, heap, tomb)
      /\ Covered(OwnCat(s), OwnHeap(s), OwnTomb(s))
  BY DEF FlagInv
<1>3. Covered(cat, heap, tomb)'
  BY ZenonT(30), <1>1, <1>2 DEF Covered
<1>4. bypass'[s] => "decompress" \in Calls[s]
  BY <1>1, <1>2 DEF StepDiscipline
<1>5. /\ LockDiscipline(s)' /\ StepDiscipline(s)'
      /\ Covered(OwnCat(s), OwnHeap(s), OwnTomb(s))'
  BY Zenon, <1>1, <1>3, <1>4, EndTxnFlags
<1>6. ASSUME NEW t \in Sessions, t # s
      PROVE  /\ LockDiscipline(t)' /\ StepDiscipline(t)'
             /\ Covered(OwnCat(t), OwnHeap(t), OwnTomb(t))'
  <2>1. /\ LockDiscipline(t) /\ StepDiscipline(t)
        /\ Covered(OwnCat(t), OwnHeap(t), OwnTomb(t))
    BY ZenonT(30) DEF FlagInv
  <2>2. /\ pc'[t] = pc[t] /\ stmts'[t] = stmts[t] /\ w'[t] = w[t] /\ memo'[t] = memo[t]
        /\ bypass'[t] = bypass[t] /\ lock'[s] = "none"
        /\ \A u \in Others(s) : lock'[u] = lock[u]
    BY <1>1, <1>6 DEF EndTxn, TypeOK, Others
  <2>3. t # NoSession /\ t \in Others(s) /\ s \in Others(t)
    BY ZenonT(30), <1>6, SessionAssumption DEF Others
  <2>4. (catOwner' = t) = (catOwner = t) /\ (catOwner = t => pcat' = pcat)
    BY <1>1, <1>6, <2>3 DEF EndTxn
  <2>5. catOwner = t => cat' = cat
    BY <1>1, <1>6 DEF OwnCat
  <2>6. lock[s] # "AE" =>
          /\ cat'.is_compressed = cat.is_compressed
          /\ cat.has_loose_rows => cat'.has_loose_rows
          /\ cat.has_tombstones => cat'.has_tombstones
    BY Zenon, <1>1, <1>2 DEF LockDiscipline, OwnCat
  <2>7. lock[t] # "none" => lock[s] # "AE"
    BY ZenonT(30), <1>2, <2>3 DEF LockDiscipline
  <2>8. lock[t] = "AE" => lock[s] = "none"
    BY Zenon, <2>1, <2>3 DEF LockDiscipline
  <2>9. LockDiscipline(t)'
    BY Zenon, <2>1, <2>2, <2>3, <2>4, <2>5 DEF LockDiscipline, Others
  <2>10. StepDiscipline(t)'
    <3>1. pc'[t] = "compress_finish" => ~cat'.is_compressed
      BY ZenonT(30), <2>1, <2>2, <2>6, <2>7 DEF StepDiscipline
    <3>2. memo'[t] => OwnCat(t)'.has_loose_rows
      BY ZenonT(30), <2>1, <2>2, <2>4, <2>6, <2>7 DEF StepDiscipline, OwnCat
    <3> QED
      BY ZenonT(30), <2>1, <2>2, <2>3, <3>1, <3>2 DEF StepDiscipline
  <2>11. Covered(OwnCat(t), OwnHeap(t), OwnTomb(t))'
    <3>1. CASE lock[t] = "none"
      <4>1. /\ w[t].ins = {} /\ w[t].tIns = {} /\ catOwner # t
        BY ZenonT(30), <2>1, <3>1 DEF LockDiscipline
      <4>2. OwnCat(t)' = cat' /\ OwnHeap(t)' \subseteq heap' /\ OwnTomb(t)' \subseteq tomb'
        BY Zenon, <2>2, <2>4, <4>1 DEF OwnCat, OwnHeap, OwnTomb
      <4> QED
        BY ZenonT(30), <1>3, <4>2 DEF Covered
    <3>2. CASE lock[t] = "AE"
      <4>1. w[s].ins = {} /\ w[s].tIns = {} /\ catOwner # s
        BY ZenonT(30), <1>2, <2>8, <3>2 DEF LockDiscipline
      <4>2. cat' = cat /\ heap' \subseteq heap /\ tomb' \subseteq tomb
        BY ZenonT(30), <1>1, <4>1 DEF OwnCat, OwnHeap, OwnTomb
      <4>3. /\ OwnCat(t)' = OwnCat(t) /\ OwnHeap(t)' \subseteq OwnHeap(t)
            /\ OwnTomb(t)' \subseteq OwnTomb(t)
        BY ZenonT(30), <2>2, <2>4, <4>2 DEF OwnCat, OwnHeap, OwnTomb
      <4> QED
        BY ZenonT(30), <2>1, <4>3 DEF Covered
    <3>3. CASE lock[t] # "none" /\ lock[t] # "AE"
      <4>1. /\ OwnCat(t)'.is_compressed = cat.is_compressed
            /\ OwnCat(t).is_compressed = cat.is_compressed
            /\ cat'.is_compressed = cat.is_compressed
        BY Zenon, <2>1, <2>4, <2>6, <2>7, <3>3 DEF OwnCat, LockDiscipline
      <4>2. /\ OwnCat(t).has_loose_rows => OwnCat(t)'.has_loose_rows
            /\ OwnCat(t).has_tombstones => OwnCat(t)'.has_tombstones
            /\ cat'.has_loose_rows => OwnCat(t)'.has_loose_rows
            /\ cat'.has_tombstones => OwnCat(t)'.has_tombstones
        BY Zenon, <2>1, <2>4, <2>5, <2>6, <2>7, <3>3 DEF OwnCat, LockDiscipline
      <4>3. OwnHeap(t)' \subseteq heap' \cup w[t].ins /\ w[t].ins \subseteq OwnHeap(t)
        BY ZenonT(30), <2>2 DEF OwnHeap
      <4>4. OwnTomb(t)' \subseteq tomb' \cup w[t].tIns /\ w[t].tIns \subseteq OwnTomb(t)
        BY <2>2 DEF OwnTomb
      <4>5. OwnCat(t)'.is_compressed /\ OwnHeap(t)' # {} => OwnCat(t)'.has_loose_rows
        BY Zenon, <1>3, <2>1, <4>1, <4>2, <4>3 DEF Covered
      <4>6. OwnTomb(t)' # {} => OwnCat(t)'.is_compressed /\ OwnCat(t)'.has_tombstones
        BY Zenon, <1>3, <2>1, <4>1, <4>2, <4>4 DEF Covered
      <4> QED
        BY <4>5, <4>6 DEF Covered
    <3> QED
      BY ZenonT(30), <3>1, <3>2, <3>3
  <2> QED
    BY ZenonT(30), <2>9, <2>10, <2>11
<1> QED
  BY <1>3, <1>5, <1>6 DEF FlagInv

\* Every step keeps FlagInv.
LEMMA NextFlags == PlainUse /\ TypeOK /\ FlagInv /\ [Next]_vars => FlagInv'
<1> SUFFICES ASSUME PlainUse, TypeOK, FlagInv, [Next]_vars PROVE FlagInv'
  OBVIOUS
<1>1. CASE UNCHANGED vars
  <2>1. UNCHANGED <<cat, heap, tomb, catOwner, pcat, pc, stmts, lock, w, memo, bypass>>
    BY <1>1 DEF vars
  <2>2. Covered(cat, heap, tomb)'
    BY <2>1 DEF FlagInv, Covered
  <2>3. ASSUME NEW t \in Sessions
        PROVE  /\ LockDiscipline(t)' /\ StepDiscipline(t)'
               /\ Covered(OwnCat(t), OwnHeap(t), OwnTomb(t))'
    <3>1. LockDiscipline(t) /\ StepDiscipline(t) /\ Covered(OwnCat(t), OwnHeap(t), OwnTomb(t))
      BY DEF FlagInv
    <3>2. OwnCat(t)' = OwnCat(t) /\ OwnHeap(t)' = OwnHeap(t) /\ OwnTomb(t)' = OwnTomb(t)
      BY ZenonT(30), <2>1 DEF OwnCat, OwnHeap, OwnTomb
    <3>3. LockDiscipline(t)'
      BY <2>1, <3>1 DEF LockDiscipline
    <3>4. StepDiscipline(t)'
      BY ZenonT(30), <2>1, <3>1, <3>2 DEF StepDiscipline
    <3> QED
      BY ZenonT(30), <3>1, <3>2, <3>3, <3>4 DEF Covered
  <2> QED
    BY <2>2, <2>3 DEF FlagInv
<1>2. CASE Next
  <2>1. PICK s \in Sessions :
    \/ BeginRepeatableRead(s)
    \/ \E op \in Ops : StartStatement(s, op)
    \/ \E r \in Row : Insert(s, r)
    \/ \E K \in SUBSET Keys, C, P, D \in SUBSET SegIds : Delete(s, K, C, P, D)
    \/ \E K \in SUBSET Keys, C \in SUBSET SegIds, val \in Vals : Update(s, K, C, val)
    \/ CompactSkip(s) \/ CompressSkip(s) \/ DecompressSkip(s)
    \/ CompactNothing(s)
    \/ \E A \in SUBSET Row : CompactLoose(s, A)
    \/ \E A \in SUBSET Row : CompressRead(s, A)
    \/ CompressFinish(s)
    \/ Decompress(s)
    \/ Commit(s)
    \/ Abort(s)
    BY <1>2 DEF Next
  <2>2. ~BeginRepeatableRead(s)
    BY Zenon DEF BeginRepeatableRead, PlainUse
  <2>3. CASE \E op \in Ops : StartStatement(s, op)
    BY <2>3, StartStatementFlags
  <2>4. CASE \E r \in Row : Insert(s, r)
    BY <2>4, InsertFlags
  <2>5. CASE \E K \in SUBSET Keys, C, P, D \in SUBSET SegIds : Delete(s, K, C, P, D)
    BY <2>5, DeleteFlags
  <2>6. CASE \E K \in SUBSET Keys, C \in SUBSET SegIds, val \in Vals : Update(s, K, C, val)
    BY <2>6, UpdateFlags
  <2>7. CASE CompactSkip(s) \/ CompressSkip(s) \/ DecompressSkip(s)
    BY <2>7, SkipFlags
  <2>8. CASE CompactNothing(s)
    <3>1. {} \in SUBSET Row
      OBVIOUS
    <3> QED
      BY <2>8, <3>1, CompactFlags
  <2>9. CASE \E A \in SUBSET Row : CompactLoose(s, A)
    BY <2>9, CompactFlags
  <2>10. CASE \E A \in SUBSET Row : CompressRead(s, A)
    BY <2>10, CompressReadFlags
  <2>11. CASE CompressFinish(s)
    BY <2>11, CompressFinishFlags
  <2>12. CASE Decompress(s)
    BY ZenonT(30), <2>12, DecompressFlags
  <2>13. CASE Commit(s)
    BY <2>13, CommitFlags
  <2>14. CASE Abort(s)
    BY <2>14, AbortFlags
  <2> QED
    BY ZenonT(30), <2>1, <2>2, <2>3, <2>4, <2>5, <2>6, <2>7, <2>8, <2>9, <2>10, <2>11, <2>12, <2>13, <2>14
<1> QED
  BY <1>1, <1>2

\* FlagInv holds in every reachable state when the functions are used as PlainUse says.
THEOREM FlagInvariance == PlainUse /\ Spec => []FlagInv
<1>1. PlainUse /\ Init => TypeOK /\ FlagInv
  BY InitTypeOK, InitFlags
<1>2. PlainUse /\ TypeOK /\ FlagInv /\ [Next]_vars => TypeOK' /\ FlagInv'
  BY NextTypeOK, NextFlags
<1>3. PlainUse => PlainUse'
  BY DEF PlainUse
<1> QED
  BY <1>1, <1>2, <1>3, PTL DEF Spec

\* The promise of the DML gate flags: in every committed state of a compressed
\* partition, loose rows and tombstones are covered by has_loose_rows and
\* has_tombstones, so a scan that skips the heap or the tombstones loses nothing.
THEOREM FlagsAreExact == PlainUse /\ Spec => []FlagsExact
<1>1. FlagInv => FlagsExact
  BY DEF FlagInv, Covered, FlagsExact, FlagsCover, Committed
<1> QED
  BY <1>1, FlagInvariance, PTL

\* The same for a transaction's own uncommitted rows and tombstones.
THEOREM OwnWritesAreFlagged == PlainUse /\ Spec => []OwnWritesFlagged
<1>1. PlainUse /\ TypeOK /\ FlagInv => OwnWritesFlagged
  <2> SUFFICES ASSUME PlainUse, TypeOK, FlagInv, NEW s \in Sessions
               PROVE  FlagsCover(View(s))
    BY DEF OwnWritesFlagged
  <2>1. Covered(OwnCat(s), OwnHeap(s), OwnTomb(s))
    BY DEF FlagInv
  <2>2. View(s).cat = OwnCat(s) /\ View(s).heap = OwnHeap(s) /\ View(s).tomb = OwnTomb(s)
    BY ReadCommittedView
  <2> QED
    BY <2>1, <2>2 DEF Covered, FlagsCover
<1>2. PlainUse => PlainUse'
  BY DEF PlainUse
<1> QED
  BY <1>1, <1>2, TypeCorrect, FlagInvariance, PTL
=============================================================================
