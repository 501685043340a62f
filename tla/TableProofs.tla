---------------------------- MODULE TableProofs ----------------------------
(***************************************************************************)
(* The partition implements the table of DeltaTable, and stores each row   *)
(* once, for any number of sessions, rows and segments, when the functions *)
(* are used as PlainUse says. The first needs that no writer runs into a   *)
(* compression; the second does not.                                       *)
(***************************************************************************)
EXTENDS TableSteps, CountProofs

\* What the proofs of types, flags and counts say of the fold.
LEMMA FoldIsReady ==
  ASSUME PlainUse, TypeOK, FlagInv, CountInv, NEW s \in Sessions, pc[s] = "compact",
         View(s).cat.is_compressed
  PROVE  FoldReady(s)
<1>1. OwnCat(s).is_compressed
  BY ReadCommittedView
<1>2. FoldedCatalog(s) \in CatalogRow /\ FoldedView(s) \in Db
  BY FoldedTypes
<1>3. /\ FoldedView(s).heap = HeapOf(FoldedWrites(s)) /\ FoldedView(s).cat = FoldedCatalog(s)
      /\ FoldedCatalog(s).is_compressed
  BY <1>1, FoldedFlags
<1>4. /\ Counted(FoldedCatalog(s), SegOf(FoldedWrites(s)), TombOf(FoldedWrites(s)))
      /\ FoldedView(s).seg = SegOf(FoldedWrites(s)) /\ FoldedView(s).tomb = TombOf(FoldedWrites(s))
  BY FoldedCounts
<1>5. /\ HighWater(FoldedView(s), FoldedCatalog(s)) \in Nat
      /\ \A i \in Segments(FoldedView(s)) : i <= HighWater(FoldedView(s), FoldedCatalog(s))
  BY <1>2, HighWaterIsMax
<1> QED
  BY Zenon, <1>2, <1>3, <1>4, <1>5 DEF FoldReady, Counted

\* Every step.
LEMMA NextRows ==
  ASSUME NEW e \in BOOLEAN,
         PlainUse, TypeOK, FlagInv, CountInv, RowInv(e), e => Undisturbed, [Next]_vars
  PROVE  RowInv(e)'
<1>1. CASE UNCHANGED vars
  BY <1>1, StutterRows
<1>2. ASSUME NEW s \in Sessions, BeginRepeatableRead(s) PROVE FALSE
  BY <1>2 DEF BeginRepeatableRead, PlainUse
<1>3. ASSUME NEW s \in Sessions, NEW op \in Ops, StartStatement(s, op) PROVE RowInv(e)'
  BY <1>3, StartRowsKept
<1>4. ASSUME NEW s \in Sessions, NEW r \in Row, Insert(s, r) PROVE RowInv(e)'
  BY <1>4, InsertRowInv
<1>5. ASSUME NEW s \in Sessions, NEW K \in SUBSET Keys, NEW C \in SUBSET SegIds,
             NEW P \in SUBSET SegIds, NEW D \in SUBSET SegIds, Delete(s, K, C, P, D)
      PROVE  RowInv(e)'
  BY <1>5, DeleteRowsKept
<1>6. ASSUME NEW s \in Sessions, NEW K \in SUBSET Keys, NEW C \in SUBSET SegIds, NEW val \in Vals,
             Update(s, K, C, val)
      PROVE  RowInv(e)'
  BY <1>6, UpdateRowsKept
<1>7. ASSUME NEW s \in Sessions, CompactSkip(s) \/ CompressSkip(s) \/ DecompressSkip(s)
      PROVE  RowInv(e)'
  BY <1>7, SkipRows
<1>8. ASSUME NEW s \in Sessions,
             CompactNothing(s) \/ \E A \in SUBSET Row : CompactLoose(s, A)
      PROVE  RowInv(e)'
  <2>1. pc[s] = "compact" /\ View(s).cat.is_compressed
    BY Zenon, <1>8 DEF CompactNothing, CompactLoose
  <2>2. FoldReady(s)
    BY <2>1, FoldIsReady
  <2> QED
    BY <1>8, <2>2, CompactRows
<1>9. ASSUME NEW s \in Sessions, NEW A \in SUBSET Row, CompressRead(s, A) PROVE RowInv(e)'
  BY <1>9, CompressReadRows
<1>10. ASSUME NEW s \in Sessions, CompressFinish(s) PROVE RowInv(e)'
  BY <1>10, CompressFinishRows
<1>11. ASSUME NEW s \in Sessions, Decompress(s) PROVE RowInv(e)'
  BY <1>11, DecompressRows
<1>12. ASSUME NEW s \in Sessions, Commit(s) PROVE RowInv(e)'
  BY <1>12, CommitRows
<1>13. ASSUME NEW s \in Sessions, Abort(s) PROVE RowInv(e)'
  BY <1>13, AbortRows
<1> QED
  BY ZenonT(60), <1>1, <1>2, <1>3, <1>4, <1>5, <1>6, <1>7, <1>8, <1>9, <1>10, <1>11, <1>12,
     <1>13 DEF Next

\* RowInv is kept by every step of a partition used as PlainUse says: unconditionally with
\* e = FALSE, and with e = TRUE as long as no writer runs into a compression.
THEOREM RowInvariance ==
  /\ PlainUse /\ Spec => []RowInv(FALSE)
  /\ PlainUse /\ Spec /\ []Undisturbed => []RowInv(TRUE)
<1>1. Init => RowInv(FALSE) /\ RowInv(TRUE)
  BY InitRows
<1>2. PlainUse /\ TypeOK /\ FlagInv /\ CountInv /\ RowInv(FALSE) /\ [Next]_vars
      => RowInv(FALSE)'
  BY NextRows
<1>3. /\ PlainUse /\ TypeOK /\ FlagInv /\ CountInv /\ RowInv(TRUE)
      /\ Undisturbed /\ [Next]_vars
      => RowInv(TRUE)'
  BY NextRows
<1>4. PlainUse => PlainUse'
  BY DEF PlainUse
<1>5. PlainUse /\ Spec => []RowInv(FALSE)
  BY <1>1, <1>2, <1>4, TypeCorrect, FlagInvariance, CountInvariance, PTL DEF Spec
<1>6. PlainUse /\ Spec /\ []Undisturbed => []RowInv(TRUE)
  BY <1>1, <1>3, <1>4, TypeCorrect, FlagInvariance, CountInvariance, PTL DEF Spec
<1> QED
  BY <1>5, <1>6

\* No committed row is stored twice: not in two segments, not in a segment and the heap,
\* whatever writers, compactions, compressions and decompressions interleave, the
\* compression that loses a concurrent writer's rows included.
THEOREM RowsAreStoredOnce == PlainUse /\ Spec => []StoredOnce
<1>1. RowInv(FALSE) => StoredOnce
  <2>1. LivePairs(Committed, SegIds) = LiveNow /\ Committed.heap = heap
    BY DEF LivePairs, LiveNow, Live, Committed
  <2>2. RowInv(FALSE) => Unique(heap, LiveNow)
    BY DEF RowInv
  <2> QED
    BY <2>1, <2>2 DEF Unique, StoredOnce, KeysOf
<1> QED
  BY <1>1, RowInvariance, PTL

\* The partition implements the plain table of DeltaTable: what is compressed, tombstoned,
\* decomposed and compacted never shows in the committed rows.
THEOREM PartitionIsTable == PlainUse /\ Spec /\ []Undisturbed => ImplementsTable
<1>1. TypeOK /\ Init => Table!Init
  BY InitOfTable
<1>2. PlainUse /\ TypeOK /\ TypeOK' /\ FlagInv /\ RowInv(TRUE) /\ [Next]_vars
      => [Table!Next]_(Table!vars)
  BY StepOfTable
<1>3. PlainUse => PlainUse'
  BY DEF PlainUse
<1> QED
  BY <1>1, <1>2, <1>3, TypeCorrect, FlagInvariance, RowInvariance, PTL
     DEF Spec, ImplementsTable, Table!Spec

\* The same, from what the sessions call: it is enough that nobody writes beside a session
\* that compresses.
THEOREM SoleWriterIsTable == PlainUse /\ SoleWriter /\ Spec => ImplementsTable
<1> DEFINE AsCalled == \A s \in Sessions : CallInv(s)
<1>1. Init => AsCalled
  BY DEF Init, CallInv
<1>2. TypeOK /\ AsCalled /\ [Next]_vars => AsCalled'
  BY NextCalls
<1>3. SoleWriter /\ AsCalled => Undisturbed
  BY CallsUndisturbed
<1>4. SoleWriter => SoleWriter'
  BY DEF SoleWriter
<1> HIDE DEF AsCalled
<1>5. SoleWriter /\ Spec => []Undisturbed
  BY <1>1, <1>2, <1>3, <1>4, TypeCorrect, PTL DEF Spec
<1> QED
  BY <1>5, PartitionIsTable, PTL
=============================================================================
