--------------------------- MODULE WriteSetProofs ---------------------------
(***************************************************************************)
(* What the operators on write sets return, and what a commit of a write   *)
(* set would store: its heap, its tombstones and its segments.             *)
(***************************************************************************)
EXTENDS CompressedDml, TLAPS

\* The live pairs of a set of segments are tombstone positions.
LEMMA LivePairsType ==
  ASSUME NEW v \in Db, NEW S \in SUBSET SegIds
  PROVE  LivePairs(v, S) \in SUBSET Tombstone /\ LiveRows(v, S) \in SUBSET Row
<1>1. LivePairs(v, S) \in SUBSET Tombstone
  BY DEF LivePairs, Tombstone
<1> QED
  BY <1>1 DEF LiveRows, Tombstone

\* A database state with a write set applied is a database state.
LEMMA ApplyType ==
  ASSUME NEW v \in Db, NEW ws \in WriteSet, NEW c \in CatalogRow
  PROVE  Apply(v, ws, c) \in Db
<1>1. /\ v.heap \subseteq Row /\ v.tomb \subseteq Tombstone
      /\ v.seg \in [SegIds -> SUBSET Row]
  BY DEF Db
<1>2. /\ ws.ins \subseteq Row /\ ws.tIns \subseteq Tombstone
      /\ ws.segNew \in [SegIds -> SUBSET Row]
  BY DEF WriteSet
<1> QED
  BY <1>1, <1>2 DEF Apply, Db

\* The fields of the committed state.
LEMMA CommittedFields ==
  /\ Committed.cat = cat /\ Committed.heap = heap
  /\ Committed.seg = seg /\ Committed.tomb = tomb
  BY DEF Committed

\* Each write operator returns a write set and changes only the fields it names.
LEMMA WriteOpsType ==
  ASSUME NEW ws \in WriteSet, NEW R \in SUBSET Row, NEW T \in SUBSET Tombstone
  PROVE  /\ InsertRows(ws, R) \in WriteSet
         /\ DeleteRows(ws, R) \in WriteSet
         /\ TruncateHeap(ws) \in WriteSet
         /\ InsertTombstones(ws, T) \in WriteSet
         /\ TruncateTombstones(ws) \in WriteSet
<1>1. InsertRows(ws, R) \in WriteSet
  BY DEF InsertRows, WriteSet
<1>2. DeleteRows(ws, R) \in WriteSet
  BY Zenon DEF DeleteRows, WriteSet
<1>3. TruncateHeap(ws) \in WriteSet
  BY Zenon DEF TruncateHeap, WriteSet
<1>4. InsertTombstones(ws, T) \in WriteSet
  BY DEF InsertTombstones, WriteSet
<1>5. TruncateTombstones(ws) \in WriteSet
  BY Zenon DEF TruncateTombstones, WriteSet
<1> QED
  BY <1>1, <1>2, <1>3, <1>4, <1>5

\* A write set with new segments is a write set.
LEMMA AddSegmentsType ==
  ASSUME NEW ws \in WriteSet, NEW news \in [SegIds -> SUBSET Row]
  PROVE  AddSegments(ws, news) \in WriteSet
<1>1. ws.segNew \in [SegIds -> SUBSET Row] /\ ws.segDel \subseteq SegIds
  BY DEF WriteSet
<1> QED
  BY Zenon, <1>1 DEF AddSegments, WriteSet

\* A write set with dropped segments is a write set.
LEMMA DeleteSegmentsType ==
  ASSUME NEW ws \in WriteSet, NEW v \in Db, NEW S \in SUBSET SegIds
  PROVE  DeleteSegments(ws, v, S) \in WriteSet
<1>1. ws.segNew \in [SegIds -> SUBSET Row] /\ ws.segDel \subseteq SegIds
  BY DEF WriteSet
<1>2. v.tomb \subseteq Tombstone
  BY DEF Db
<1> QED
  BY Zenon, <1>1, <1>2 DEF DeleteSegments, WriteSet

\* So does decompose.
LEMMA DecomposeWritesType ==
  ASSUME NEW ws \in WriteSet, NEW v \in Db, NEW D \in SUBSET SegIds, NEW P \in SUBSET SegIds
  PROVE  DecomposeWrites(ws, v, D, P) \in WriteSet
<1>1. LiveRows(v, D) \in SUBSET Row /\ {} \in SUBSET Tombstone
  BY LivePairsType
<1>2. InsertRows(ws, LiveRows(v, D)) \in WriteSet
  BY <1>1, WriteOpsType
<1>3. (D \cup P) \cap Segments(v) \in SUBSET SegIds
  OBVIOUS
<1> QED
  BY <1>2, <1>3, DeleteSegmentsType DEF DecomposeWrites

\* What the variables start from.
LEMMA InitialTypes ==
  /\ NewCatalogRow \in CatalogRow
  /\ NoSegs \in [SegIds -> SUBSET Row]
  /\ EmptyDb \in Db
  /\ NoWrites \in WriteSet
<1>1. NewCatalogRow \in CatalogRow
  BY DEF NewCatalogRow, CatalogRow
<1>2. NoSegs \in [SegIds -> SUBSET Row]
  BY DEF NoSegs
<1>3. EmptyDb \in Db
  BY <1>1, <1>2 DEF EmptyDb, Db
<1>4. NoWrites \in WriteSet
  BY <1>2 DEF NoWrites, WriteSet
<1> QED
  BY <1>1, <1>2, <1>3, <1>4

\* What a session reads has the type of a stored state.
LEMMA ViewTypes ==
  ASSUME TypeOK, NEW s \in Sessions
  PROVE  /\ Base(s) \in Db
         /\ CatSeen(s) \in CatalogRow
         /\ View(s) \in Db
         /\ StmtView(s) \in Db
         /\ cat \in CatalogRow
         /\ w[s] \in WriteSet
<1>1. Base(s) \in Db /\ snap[s] \in Db /\ w[s] \in WriteSet
  BY DEF TypeOK, Base
<1>2. cat \in CatalogRow /\ snap[s].cat \in CatalogRow /\ Base(s).cat \in CatalogRow
  BY <1>1 DEF TypeOK, Committed, Db
<1>3. CatSeen(s) \in CatalogRow
  BY <1>2 DEF TypeOK, CatSeen
<1>4. View(s) \in Db
  BY <1>1, <1>3, ApplyType DEF View
<1>5. (IF catOwner = s THEN pcat ELSE snap[s].cat) \in CatalogRow
  BY <1>2 DEF TypeOK
<1>6. StmtView(s) \in Db
  BY <1>1, <1>5, ApplyType DEF StmtView
<1> QED
  BY <1>1, <1>2, <1>3, <1>4, <1>6

\* The rows a query must see are rows.
LEMMA ContentType ==
  ASSUME NEW v \in Db
  PROVE  Content(v) \in SUBSET Row
<1>1. LiveRows(v, SegIds) \in SUBSET Row
  BY LivePairsType
<1> QED
  BY <1>1 DEF Content, Db

\* The writes of the executor hook.
LEMMA HookWritesType ==
  ASSUME TypeOK, NEW s \in Sessions, NEW P \in SUBSET SegIds, NEW T \in SUBSET SegIds,
         NEW D \in SUBSET SegIds, NEW K
  PROVE  /\ NewTombstones(View(s), T, K) \in SUBSET Tombstone
         /\ HookWrites(s, P, T, D, K) \in WriteSet
<1> DEFINE new == NewTombstones(View(s), T, K)
           w1 == InsertTombstones(w[s], new)
<1>1. new \in SUBSET Tombstone /\ {} \in SUBSET Row
  BY DEF NewTombstones, Tombstone
<1>2. w1 \in WriteSet
  BY Zenon, <1>1, ViewTypes, WriteOpsType
<1>3. Apply(Base(s), w1, CatSeen(s)) \in Db
  BY <1>2, ViewTypes, ApplyType
<1> HIDE DEF new, w1
<1>4. DecomposeWrites(w1, Apply(Base(s), w1, CatSeen(s)), D, P) \in WriteSet
  BY <1>2, <1>3, DecomposeWritesType
<1>5. HookWrites(s, P, T, D, K) \in WriteSet
  BY <1>2, <1>4 DEF HookWrites, w1, new
<1> QED
  BY <1>1, <1>5 DEF new

\* The rows a DELETE or UPDATE touches, in the heap and logically, are rows.
LEMMA TargetTypes ==
  ASSUME TypeOK, NEW s \in Sessions, NEW ws \in WriteSet, NEW K
  PROVE  /\ HeapTargets(s, ws, K) \in SUBSET Row
         /\ LogicalTargets(s, K) \in SUBSET Row
<1>1. Apply(Committed, ws, cat) \in Db /\ Apply(Committed, w[s], cat) \in Db
  BY ViewTypes, ApplyType DEF TypeOK
<1>2. HeapTargets(s, ws, K) \in SUBSET Row
  BY <1>1 DEF HeapTargets, Matching, Db
<1>3. Content(Apply(Committed, w[s], cat)) \in SUBSET Row
  BY <1>1, ContentType
<1>4. LogicalTargets(s, K) \in SUBSET Row
  BY <1>3 DEF LogicalTargets, Matching
<1> QED
  BY <1>2, <1>4

\* Rewritten rows are rows.
LEMMA RewrittenType ==
  ASSUME NEW R \in SUBSET Row, NEW V \in SUBSET Vals
  PROVE  Rewritten(R, V) \in SUBSET Row
BY DEF Rewritten, Row

\* The writes of compaction's fold of the tombstones.
LEMMA FoldedWritesType ==
  ASSUME TypeOK, NEW s \in Sessions
  PROVE  RewriteWrites(s) \in WriteSet /\ FoldedWrites(s) \in WriteSet
<1>1. View(s) \in Db /\ w[s] \in WriteSet
  BY ViewTypes
<1>2. TombstonedSegments(View(s)) \in SUBSET SegIds /\ {} \in SUBSET SegIds
  BY <1>1 DEF TombstonedSegments, Db, Tombstone
<1>3. RewriteWrites(s) \in WriteSet
  BY <1>1, <1>2, DecomposeWritesType DEF RewriteWrites
<1>4. {} \in SUBSET Row /\ {} \in SUBSET Tombstone
  OBVIOUS
<1> QED
  BY <1>3, <1>4, WriteOpsType DEF FoldedWrites

\* The segments that CompressRead and CompactLoose add.
LEMMA NewSegmentsType ==
  ASSUME NEW n, NEW R \in SUBSET Row, NEW A \in SUBSET Row
  PROVE  NewSegments(n, A, R) \in [SegIds -> SUBSET Row]
BY DEF NewSegments

\* The heap and the tombstones the committed state would have with the writes ws.
HeapOf(ws) == ((IF ws.trunc THEN {} ELSE heap) \ ws.del) \cup ws.ins

TombOf(ws) == ((IF ws.tTrunc THEN {} ELSE tomb) \ ws.tDel) \cup ws.tIns

\* InsertRows adds to ins and leaves the other fields alone.
LEMMA InsertRowsFields ==
  ASSUME NEW ws \in WriteSet, NEW R
  PROVE  /\ InsertRows(ws, R).ins = ws.ins \cup R
         /\ InsertRows(ws, R).del = ws.del
         /\ InsertRows(ws, R).trunc = ws.trunc
         /\ InsertRows(ws, R).tIns = ws.tIns
         /\ InsertRows(ws, R).tDel = ws.tDel
         /\ InsertRows(ws, R).tTrunc = ws.tTrunc
BY DEF WriteSet, InsertRows

\* What the two heap writes and the tombstone insert leave.
LEMMA InsertRowsEffect ==
  ASSUME NEW ws \in WriteSet, NEW R
  PROVE  /\ HeapOf(InsertRows(ws, R)) = HeapOf(ws) \cup R
         /\ TombOf(InsertRows(ws, R)) = TombOf(ws)
         /\ InsertRows(ws, R).trunc = ws.trunc
         /\ InsertRows(ws, R).tTrunc = ws.tTrunc
<1> DEFINE w1 == InsertRows(ws, R)
<1>1. /\ w1.ins = ws.ins \cup R /\ w1.del = ws.del /\ w1.trunc = ws.trunc
      /\ w1.tIns = ws.tIns /\ w1.tDel = ws.tDel /\ w1.tTrunc = ws.tTrunc
  BY InsertRowsFields
<1> HIDE DEF w1
<1>2. HeapOf(w1) = HeapOf(ws) \cup R /\ TombOf(w1) = TombOf(ws)
  BY <1>1 DEF HeapOf, TombOf
<1> QED
  BY <1>1, <1>2 DEF w1

\* DeleteRows only takes rows off the heap.
LEMMA DeleteRowsEffect ==
  ASSUME NEW ws \in WriteSet, NEW R
  PROVE  /\ HeapOf(DeleteRows(ws, R)) \subseteq HeapOf(ws)
         /\ TombOf(DeleteRows(ws, R)) = TombOf(ws)
         /\ DeleteRows(ws, R).trunc = ws.trunc
         /\ DeleteRows(ws, R).tTrunc = ws.tTrunc
<1> DEFINE w1 == DeleteRows(ws, R)
<1>1. /\ w1.ins = ws.ins \ R /\ w1.del = ws.del \cup R /\ w1.trunc = ws.trunc
      /\ w1.tIns = ws.tIns /\ w1.tDel = ws.tDel /\ w1.tTrunc = ws.tTrunc
  BY DEF WriteSet, DeleteRows
<1> HIDE DEF w1
<1>2. HeapOf(w1) \subseteq HeapOf(ws) /\ TombOf(w1) = TombOf(ws)
  BY <1>1 DEF HeapOf, TombOf
<1> QED
  BY <1>1, <1>2 DEF w1

\* InsertTombstones only adds tombstones.
LEMMA InsertTombstonesEffect ==
  ASSUME NEW ws \in WriteSet, NEW T
  PROVE  /\ HeapOf(InsertTombstones(ws, T)) = HeapOf(ws)
         /\ TombOf(InsertTombstones(ws, T)) = TombOf(ws) \cup T
         /\ InsertTombstones(ws, T).trunc = ws.trunc
         /\ InsertTombstones(ws, T).tTrunc = ws.tTrunc
<1> DEFINE w1 == InsertTombstones(ws, T)
<1>1. /\ w1.ins = ws.ins /\ w1.del = ws.del /\ w1.trunc = ws.trunc
      /\ w1.tIns = ws.tIns \cup T /\ w1.tDel = ws.tDel /\ w1.tTrunc = ws.tTrunc
  BY DEF WriteSet, InsertTombstones
<1> HIDE DEF w1
<1>2. HeapOf(w1) = HeapOf(ws) /\ TombOf(w1) = TombOf(ws) \cup T
  BY <1>1 DEF HeapOf, TombOf
<1> QED
  BY <1>1, <1>2 DEF w1

\* A session's own view is its write set over the committed state.
LEMMA OwnView ==
  ASSUME NEW s \in Sessions
  PROVE  HeapOf(w[s]) = OwnHeap(s) /\ TombOf(w[s]) = OwnTomb(s)
BY DEF HeapOf, TombOf, OwnHeap, OwnTomb

\* What a commit of the write set ws and the catalog row c leaves.
LEMMA ApplyFields ==
  ASSUME NEW ws, NEW c
  PROVE  /\ Apply(Committed, ws, c).cat = c
         /\ Apply(Committed, ws, c).heap = HeapOf(ws)
         /\ Apply(Committed, ws, c).tomb = TombOf(ws)
BY DEF Apply, Committed, HeapOf, TombOf

\* TRUNCATE of the heap or of the tombstone table empties it and only it.
LEMMA TruncateFields ==
  ASSUME NEW ws \in WriteSet
  PROVE  /\ HeapOf(TruncateHeap(ws)) = {}
         /\ TombOf(TruncateHeap(ws)) = TombOf(ws)
         /\ TombOf(TruncateTombstones(ws)) = {}
         /\ HeapOf(TruncateTombstones(ws)) = HeapOf(ws)
BY DEF WriteSet, TruncateHeap, TruncateTombstones, HeapOf, TombOf

\* AddSegments leaves the heap and tombstone fields alone.
LEMMA AddSegmentsFields ==
  ASSUME NEW ws \in WriteSet, NEW news
  PROVE  /\ AddSegments(ws, news).ins = ws.ins
         /\ AddSegments(ws, news).del = ws.del
         /\ AddSegments(ws, news).trunc = ws.trunc
         /\ AddSegments(ws, news).tIns = ws.tIns
         /\ AddSegments(ws, news).tDel = ws.tDel
         /\ AddSegments(ws, news).tTrunc = ws.tTrunc
BY DEF WriteSet, AddSegments

\* Decompose adds the live rows of D to the heap and only removes tombstones.
LEMMA DecomposeFields ==
  ASSUME NEW ws \in WriteSet, NEW v \in Db, NEW D \in SUBSET SegIds, NEW P \in SUBSET SegIds
  PROVE  /\ HeapOf(DecomposeWrites(ws, v, D, P)) = HeapOf(ws) \cup LiveRows(v, D)
         /\ TombOf(DecomposeWrites(ws, v, D, P)) \subseteq TombOf(ws)
         /\ DecomposeWrites(ws, v, D, P).trunc = ws.trunc
         /\ DecomposeWrites(ws, v, D, P).tTrunc = ws.tTrunc
<1> DEFINE L == LiveRows(v, D)
           w1 == InsertRows(ws, L)
           S == (D \cup P) \cap Segments(v)
           gone == {t \in v.tomb : t[1] \in S}
           w2 == DeleteSegments(w1, v, S)
<1>1. L \in SUBSET Row
  BY LivePairsType
<1> HIDE DEF L
<1>2. /\ w1 \in WriteSet
      /\ w1.ins = ws.ins \cup L /\ w1.del = ws.del /\ w1.trunc = ws.trunc
      /\ w1.tIns = ws.tIns /\ w1.tDel = ws.tDel /\ w1.tTrunc = ws.tTrunc
  <2>1. {} \in SUBSET Tombstone
    OBVIOUS
  <2> QED
    BY <1>1, <2>1, WriteOpsType, InsertRowsFields
<1> HIDE DEF w1, S
<1>3. /\ w2.ins = w1.ins /\ w2.del = w1.del /\ w2.trunc = w1.trunc
      /\ w2.tIns = w1.tIns \ gone /\ w2.tDel = w1.tDel \cup gone /\ w2.tTrunc = w1.tTrunc
  BY <1>2 DEF DeleteSegments, WriteSet
<1>4. DecomposeWrites(ws, v, D, P) = w2
  BY DEF DecomposeWrites, w1, L, S
<1> HIDE DEF w2, gone
<1>5. HeapOf(w2) = HeapOf(ws) \cup L
  BY <1>2, <1>3 DEF HeapOf
<1>6. TombOf(w2) \subseteq TombOf(ws)
  BY <1>2, <1>3 DEF TombOf
<1> QED
  BY <1>2, <1>3, <1>4, <1>5, <1>6 DEF L

\* Under READ COMMITTED what an operation reads is the committed state with the
\* session's own writes.
LEMMA ReadCommittedView ==
  ASSUME PlainUse, TypeOK, NEW s \in Sessions
  PROVE  /\ Base(s) = Committed /\ CatSeen(s) = OwnCat(s)
         /\ RelCompressed(s) = OwnCat(s).is_compressed
         /\ View(s).cat = OwnCat(s) /\ View(s).heap = OwnHeap(s) /\ View(s).tomb = OwnTomb(s)
         /\ OwnCat(s) \in CatalogRow
<1>1. Iso[s] # "RR"
  BY DEF PlainUse
<1>2. Base(s) = Committed
  BY <1>1 DEF Base
<1>3. CatSeen(s) = OwnCat(s)
  BY <1>2 DEF CatSeen, OwnCat, Committed
<1>4. RelCompressed(s) = OwnCat(s).is_compressed
  BY DEF RelCompressed, OwnCat
<1>5. View(s).cat = OwnCat(s) /\ View(s).heap = OwnHeap(s) /\ View(s).tomb = OwnTomb(s)
  BY <1>2, <1>3 DEF View, Apply, Committed, OwnHeap, OwnTomb
<1> QED
  BY <1>2, <1>3, <1>4, <1>5, ViewTypes

\* The write set a transaction starts with.
LEMMA NoWritesFields ==
  /\ NoWrites.ins = {} /\ NoWrites.del = {} /\ ~NoWrites.trunc
  /\ NoWrites.tIns = {} /\ NoWrites.tDel = {} /\ ~NoWrites.tTrunc
BY DEF NoWrites

\* The catalog row s sees after a statement that, if touch, wrote c.
RowAfter(s, touch, c) == IF touch THEN c ELSE OwnCat(s)

\* The executor hook: what its writes and its catalog update leave to see.
HookTouches(s, P, T, D, K) == NewTombstones(View(s), T, K) # {} \/ P \cup D # {}

\* The segments the committed state would have with the writes ws.
SegOf(ws) == [i \in SegIds |-> IF i \in ws.segDel THEN {}
                               ELSE IF ws.segNew[i] # {} THEN ws.segNew[i] ELSE seg[i]]

\* The live pairs of the segments g under the tombstones t.
Live(g, t) == {p \in SegIds \X Row : p[2] \in g[p[1]]} \ t

\* row_count is right and every tombstone has its row.
Counted(c, g, t) ==
  /\ \A x \in t : x[2] \in g[x[1]]
  /\ c.is_compressed => c.row_count = Cardinality(Live(g, t))

\* Writes that leave segments and tombstones alone; a TRUNCATE of _tombstones, under
\* the exclusive lock, finds none.
NoSegmentWrites(ws, l) ==
  /\ ws.tIns = {} /\ ws.tDel = {} /\ ws.segDel = {}
  /\ ws.tTrunc => l = "AE" /\ tomb = {}

Unowned(s) ==
  /\ NoSegmentWrites(w[s], lock[s])
  /\ pc[s] # "compress_finish" => w[s].segNew = NoSegs

CountInv ==
  /\ Counted(cat, seg, tomb)
  /\ \A s \in Sessions :
       /\ catOwner # s => Unowned(s)
       /\ catOwner = s => Counted(pcat, SegOf(w[s]), TombOf(w[s]))

\* What a partition stores in segments.
SegMap == [SegIds -> SUBSET Row]

\* decompose_segments_for_dml: the segments S go, with their tombstones.
SegsWithout(g, S) == [i \in SegIds |-> IF i \in S THEN {} ELSE g[i]]

TombsWithout(t, S) == {x \in t : x[1] \notin S}

LiveIn(g, t, S) == {p \in Live(g, t) : p[1] \in S}

\* compact_loose_rows: new segments above the high-water mark.
SegsWith(g, n, A, R) ==
  [i \in SegIds |-> IF NewSegments(n, A, R)[i] # {} THEN NewSegments(n, A, R)[i] ELSE g[i]]

(***************************************************************************)
(* What each write leaves of the segments and the tombstones.              *)
(***************************************************************************)
\* Two write sets that do the same to segments and tombstones.
SameSegments(w1, w2) ==
  /\ w1.segNew = w2.segNew /\ w1.segDel = w2.segDel
  /\ w1.tIns = w2.tIns /\ w1.tDel = w2.tDel /\ w1.tTrunc = w2.tTrunc

\* Writes of the heap touch neither.
LEMMA HeapWritesSame ==
  ASSUME NEW ws \in WriteSet, NEW R
  PROVE  /\ SameSegments(InsertRows(ws, R), ws)
         /\ SameSegments(DeleteRows(ws, R), ws)
         /\ SameSegments(TruncateHeap(ws), ws)
<1>1. SameSegments(InsertRows(ws, R), ws)
  BY DEF SameSegments, WriteSet, InsertRows
<1>2. SameSegments(DeleteRows(ws, R), ws)
  BY DEF SameSegments, WriteSet, DeleteRows
<1>3. SameSegments(TruncateHeap(ws), ws)
  BY DEF SameSegments, WriteSet, TruncateHeap
<1> QED
  BY <1>1, <1>2, <1>3

\* Writes that agree on segments and tombstones have the same effect on both.
LEMMA SameEffect ==
  ASSUME NEW w1, NEW w2, SameSegments(w1, w2)
  PROVE  SegOf(w1) = SegOf(w2) /\ TombOf(w1) = TombOf(w2)
BY DEF SameSegments, SegOf, TombOf

\* A tombstone insert leaves the segments alone.
LEMMA InsertTombstonesSegs ==
  ASSUME NEW ws \in WriteSet, NEW T
  PROVE  SegOf(InsertTombstones(ws, T)) = SegOf(ws)
<1>1. InsertTombstones(ws, T).segNew = ws.segNew /\ InsertTombstones(ws, T).segDel = ws.segDel
  BY DEF InsertTombstones, WriteSet
<1> QED
  BY <1>1 DEF SegOf

\* TRUNCATE of _tombstones leaves the segments alone and no tombstone.
LEMMA TruncateTombstonesSegs ==
  ASSUME NEW ws \in WriteSet
  PROVE  /\ SegOf(TruncateTombstones(ws)) = SegOf(ws)
         /\ TombOf(TruncateTombstones(ws)) = {}
         /\ TruncateTombstones(ws).segNew = ws.segNew
         /\ TruncateTombstones(ws).segDel = ws.segDel
         /\ TruncateTombstones(ws).tIns = {} /\ TruncateTombstones(ws).tDel = {}
<1>1. /\ TruncateTombstones(ws).segNew = ws.segNew /\ TruncateTombstones(ws).segDel = ws.segDel
      /\ TruncateTombstones(ws).tIns = {} /\ TruncateTombstones(ws).tDel = {}
  BY DEF TruncateTombstones, WriteSet
<1>2. SegOf(TruncateTombstones(ws)) = SegOf(ws)
  BY <1>1 DEF SegOf
<1> QED
  BY <1>1, <1>2, TruncateFields

\* What a transaction sees of the segments after it wrote new ones.
LEMMA AddSegmentsSegs ==
  ASSUME NEW ws \in WriteSet, NEW news \in SegMap
  PROVE  /\ SegOf(AddSegments(ws, news)) =
              [i \in SegIds |-> IF news[i] # {} THEN news[i] ELSE SegOf(ws)[i]]
         /\ AddSegments(ws, news).segDel = ws.segDel \ {i \in SegIds : news[i] # {}}
<1> DEFINE nn == [i \in SegIds |-> IF news[i] # {} THEN news[i] ELSE ws.segNew[i]]
           nd == ws.segDel \ {i \in SegIds : news[i] # {}}
           wa == AddSegments(ws, news)
<1>1. wa = [ws EXCEPT !.segNew = nn, !.segDel = nd]
  BY DEF AddSegments
<1> HIDE DEF nn, nd, wa
<1>2. wa.segNew = nn /\ wa.segDel = nd
  BY <1>1 DEF WriteSet
<1>3. SegOf(wa) = [i \in SegIds |-> IF news[i] # {} THEN news[i] ELSE SegOf(ws)[i]]
  <2> SUFFICES ASSUME NEW i \in SegIds
               PROVE  SegOf(wa)[i] = IF news[i] # {} THEN news[i] ELSE SegOf(ws)[i]
    BY DEF SegOf
  <2>1. /\ SegOf(wa)[i] = IF i \in nd THEN {} ELSE IF nn[i] # {} THEN nn[i] ELSE seg[i]
        /\ SegOf(ws)[i] = IF i \in ws.segDel THEN {}
                          ELSE IF ws.segNew[i] # {} THEN ws.segNew[i] ELSE seg[i]
    BY <1>2 DEF SegOf
  <2>2. nn[i] = (IF news[i] # {} THEN news[i] ELSE ws.segNew[i])
        /\ (i \in nd <=> i \in ws.segDel /\ news[i] = {})
    BY DEF nn, nd
  <2> QED
    BY <2>1, <2>2
<1> QED
  BY <1>2, <1>3 DEF wa, nd

\* What a transaction sees of segments and tombstones is well typed.
LEMMA SegOfType ==
  ASSUME TypeOK, NEW ws \in WriteSet
  PROVE  SegOf(ws) \in SegMap /\ TombOf(ws) \in SUBSET Tombstone
<1>1. seg \in SegMap /\ tomb \in SUBSET Tombstone
  BY DEF TypeOK, Committed, Db, SegMap
<1>2. ws.segNew \in SegMap /\ ws.tIns \in SUBSET Tombstone
  BY DEF WriteSet, SegMap
<1>3. SegOf(ws) \in SegMap
  BY <1>1, <1>2 DEF SegOf, SegMap
<1> QED
  BY <1>1, <1>2, <1>3 DEF TombOf

\* SegOf and TombOf are what a commit of the writes stores.
LEMMA ApplySegs ==
  ASSUME NEW ws, NEW c
  PROVE  /\ Apply(Committed, ws, c).seg = SegOf(ws)
         /\ Apply(Committed, ws, c).tomb = TombOf(ws)
BY DEF Apply, Committed, SegOf, TombOf

\* The segments decompose claims, and what is left without them.
LEMMA DecomposeSegs ==
  ASSUME TypeOK, NEW ws \in WriteSet, NEW v \in Db, v.seg = SegOf(ws), v.tomb = TombOf(ws),
         NEW D \in SUBSET SegIds, NEW P \in SUBSET SegIds
  PROVE  LET S == (D \cup P) \cap Segments(v)
         IN  /\ SegOf(DecomposeWrites(ws, v, D, P)) = SegsWithout(SegOf(ws), S)
             /\ TombOf(DecomposeWrites(ws, v, D, P)) = TombsWithout(TombOf(ws), S)
             /\ LivePairs(v, D \cup P) = LiveIn(SegOf(ws), TombOf(ws), S)
<1> DEFINE S == (D \cup P) \cap Segments(v)
           w1 == InsertRows(ws, LiveRows(v, D))
           gone == {t \in v.tomb : t[1] \in S}
           nn == [i \in SegIds |-> IF i \in S THEN {} ELSE w1.segNew[i]]
           nd == w1.segDel \cup S
           w2 == DeleteSegments(w1, v, S)
<1>1. w1 \in WriteSet /\ SameSegments(w1, ws)
  <2>1. LiveRows(v, D) \in SUBSET Row /\ {} \in SUBSET Tombstone
    BY LivePairsType
  <2> QED
    BY <2>1, WriteOpsType, HeapWritesSame
<1>2. DecomposeWrites(ws, v, D, P) = w2
  BY DEF DecomposeWrites
<1> HIDE DEF w1
<1>3. w2 = [w1 EXCEPT !.segNew = nn, !.segDel = nd, !.tIns = w1.tIns \ gone, !.tDel = w1.tDel \cup gone]
  BY DEF DeleteSegments
<1>a. S = (D \cup P) \cap Segments(v)
  OBVIOUS
<1> HIDE DEF w2, gone, nn, nd, S
<1>4. /\ w2.segNew = nn /\ w2.segDel = nd /\ w2.tIns = w1.tIns \ gone
      /\ w2.tDel = w1.tDel \cup gone /\ w2.tTrunc = w1.tTrunc
  BY <1>1, <1>3 DEF WriteSet
<1>5. SegOf(w2) = [i \in SegIds |-> IF i \in S THEN {} ELSE SegOf(ws)[i]]
  <2> SUFFICES ASSUME NEW i \in SegIds
               PROVE  SegOf(w2)[i] = IF i \in S THEN {} ELSE SegOf(ws)[i]
    BY DEF SegOf
  <2>1. /\ SegOf(w2)[i] = IF i \in nd THEN {} ELSE IF nn[i] # {} THEN nn[i] ELSE seg[i]
        /\ SegOf(ws)[i] = IF i \in ws.segDel THEN {}
                          ELSE IF ws.segNew[i] # {} THEN ws.segNew[i] ELSE seg[i]
    BY <1>4 DEF SegOf
  <2>2. nn[i] = (IF i \in S THEN {} ELSE ws.segNew[i]) /\ (i \in nd <=> i \in ws.segDel \/ i \in S)
    BY <1>1 DEF nn, nd, SameSegments
  <2> QED
    BY <2>1, <2>2
<1>6. TombOf(w2) = {x \in TombOf(ws) : x[1] \notin S}
  <2>1. gone = {x \in TombOf(ws) : x[1] \in S}
    BY DEF gone
  <2>2. w1.tIns = ws.tIns /\ w1.tDel = ws.tDel /\ w1.tTrunc = ws.tTrunc
    BY <1>1 DEF SameSegments
  <2> QED
    BY <1>4, <2>1, <2>2 DEF TombOf
<1>7. LivePairs(v, D \cup P) = {p \in Live(SegOf(ws), TombOf(ws)) : p[1] \in S}
  BY <1>a DEF LivePairs, Live, Segments
<1>8. /\ SegOf(w2) = SegsWithout(SegOf(ws), S) /\ TombOf(w2) = TombsWithout(TombOf(ws), S)
      /\ LivePairs(v, D \cup P) = LiveIn(SegOf(ws), TombOf(ws), S)
  BY ZenonT(30), <1>5, <1>6, <1>7 DEF SegsWithout, TombsWithout, LiveIn
<1> QED
  BY <1>2, <1>8 DEF S

\* Under READ COMMITTED a statement sees the committed segments and its own writes.
LEMMA ReadCommittedSegs ==
  ASSUME PlainUse, TypeOK, NEW s \in Sessions
  PROVE  View(s).seg = SegOf(w[s]) /\ View(s).tomb = TombOf(w[s])
BY ZenonT(30), ReadCommittedView, ApplySegs DEF View
=============================================================================
