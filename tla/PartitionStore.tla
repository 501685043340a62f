--------------------------- MODULE PartitionStore ---------------------------
(***************************************************************************)
(* The stored state of one partition of a delta table, and the effect of   *)
(* each physical operation of compress.rs on it.                           *)
(*                                                                         *)
(* A partition is its catalog row (deltax.deltax_partition), the rows in   *)
(* its own heap, and its companion tables: _meta/_blobs, abstracted to the *)
(* set of rows each segment stores, and _tombstones, a set of pairs        *)
(* <<segment id, row>> (the row stands for its offset in the segment).     *)
(* Segment contents never change; a segment is absent when its set is {}.  *)
(*                                                                         *)
(* What a transaction has written and not committed is a write set. The    *)
(* same operator, Apply, gives a transaction's view (its write set over    *)
(* the snapshot it reads with) and the effect of its commit (its write set *)
(* over the committed state).                                              *)
(***************************************************************************)
EXTENDS Integers, FiniteSets

CONSTANTS Keys,    \* what a WHERE clause selects rows by
          Vals,    \* the column an UPDATE assigns
          MaxSeg   \* bound: highest segment id a run may allocate

ASSUME DataAssumption == MaxSeg \in Nat /\ IsFiniteSet(Keys) /\ IsFiniteSet(Vals)

Row == Keys \X Vals
SegIds == 1..MaxSeg
Tombstone == SegIds \X Row

\* The columns of deltax.deltax_partition the DML protocol reads and writes.
\* row_count and max_segment_id are 0 where the catalog has NULL: every reader
\* of them goes through COALESCE(.., 0).
CatalogRow == [is_compressed : BOOLEAN, has_loose_rows : BOOLEAN,
               has_tombstones : BOOLEAN, row_count : Nat, max_segment_id : Nat]

Db == [cat : CatalogRow, heap : SUBSET Row, seg : [SegIds -> SUBSET Row],
       tomb : SUBSET Tombstone]

WriteSet == [trunc : BOOLEAN, ins : SUBSET Row, del : SUBSET Row,
             segNew : [SegIds -> SUBSET Row], segDel : SUBSET SegIds,
             tTrunc : BOOLEAN, tIns : SUBSET Tombstone, tDel : SUBSET Tombstone]

NoSegs == [i \in SegIds |-> {}]

\* A partition just created by partition.rs: uncompressed and empty.
NewCatalogRow == [is_compressed |-> FALSE, has_loose_rows |-> FALSE,
                  has_tombstones |-> FALSE, row_count |-> 0, max_segment_id |-> 0]

NoWrites == [trunc |-> FALSE, ins |-> {}, del |-> {}, segNew |-> NoSegs,
             segDel |-> {}, tTrunc |-> FALSE, tIns |-> {}, tDel |-> {}]

(***************************************************************************)
(* Reading a state.                                                        *)
(***************************************************************************)
KeysOf(R) == {r[1] : r \in R}

Matching(R, K) == {r \in R : r[1] \in K}

\* Ids with a _meta row.
Segments(v) == {i \in SegIds : v.seg[i] # {}}

\* The rows of the segments in S that no tombstone hides, with their segment.
LivePairs(v, S) == {p \in S \X Row : p[2] \in v.seg[p[1]]} \ v.tomb

LiveRows(v, S) == {p[2] : p \in LivePairs(v, S)}

\* The table a query must see: heap rows united with live segment rows.
Content(v) == v.heap \cup LiveRows(v, SegIds)

\* GREATEST(COALESCE(MAX(_segment_id), 0), max_segment_id).
HighWater(v, c) ==
  CHOOSE n \in Segments(v) \cup {c.max_segment_id} :
    \A i \in Segments(v) \cup {c.max_segment_id} : i <= n

\* GREATEST(row_count - n, 0), as in bump_partition_decompose.
FlooredSub(a, n) == IF a >= n THEN a - n ELSE 0

\* Mutant: bump_partition_compaction with the sign of bump_partition_decompose.
BumpCompaction_Subtract(c, n) == [c EXCEPT !.row_count = @ - n]

\* bump_partition_compaction: the rows a batch adds to the segments.
BumpCompaction(c, n) == [c EXCEPT !.row_count = @ + n]

(***************************************************************************)
(* A write set over a base state.                                          *)
(***************************************************************************)
Apply(v, w, c) ==
  [cat  |-> c,
   heap |-> ((IF w.trunc THEN {} ELSE v.heap) \ w.del) \cup w.ins,
   seg  |-> [i \in SegIds |-> IF i \in w.segDel THEN {}
                              ELSE IF w.segNew[i] # {} THEN w.segNew[i] ELSE v.seg[i]],
   tomb |-> ((IF w.tTrunc THEN {} ELSE v.tomb) \ w.tDel) \cup w.tIns]

\* Heap INSERT of the rows R.
InsertRows(w, R) == [w EXCEPT !.ins = @ \cup R]

\* Heap DELETE of the rows R: rows of the base are marked, own rows vanish.
DeleteRows(w, R) == [w EXCEPT !.ins = @ \ R, !.del = @ \cup R]

\* TRUNCATE of the partition's heap: not MVCC, takes unseen rows too.
TruncateHeap(w) == [w EXCEPT !.trunc = TRUE, !.ins = {}, !.del = {}]

\* INSERT INTO _tombstones ... ON CONFLICT DO NOTHING.
InsertTombstones(w, T) == [w EXCEPT !.tIns = @ \cup T]

\* TRUNCATE _tombstones.
TruncateTombstones(w) == [w EXCEPT !.tTrunc = TRUE, !.tIns = {}, !.tDel = {}]

\* INSERT INTO _meta / _blobs of new segments: news[i] is segment i, {} for none.
AddSegments(w, news) ==
  [w EXCEPT !.segNew = [i \in SegIds |-> IF news[i] # {} THEN news[i] ELSE @[i]],
            !.segDel = @ \ {i \in SegIds : news[i] # {}}]

\* Mutant: the tombstones of a deleted segment stay.
DeleteSegments_KeepTombstones(w, v, S) ==
  [w EXCEPT !.segNew = [i \in SegIds |-> IF i \in S THEN {} ELSE @[i]], !.segDel = @ \cup S]

\* DELETE of the segments S and of every sidecar row and tombstone of theirs.
DeleteSegments(w, v, S) ==
  LET gone == {t \in v.tomb : t[1] \in S}
  IN  [w EXCEPT !.segNew = [i \in SegIds |-> IF i \in S THEN {} ELSE @[i]],
                !.segDel = @ \cup S,
                !.tIns = @ \ gone, !.tDel = @ \cup gone]

(***************************************************************************)
(* decompose_segments_for_dml: the segments D become heap rows, the        *)
(* segments P are dropped whole. Only segments that still have a _meta row *)
(* are claimed. Tombstoned rows are neither restored nor counted.          *)
(***************************************************************************)
\* Mutant: restored segments are not deleted.
DecomposeWrites_KeepSegments(w, v, D, P) ==
  DeleteSegments(InsertRows(w, LiveRows(v, D)), v, P \cap Segments(v))

\* Mutant: tombstoned rows are restored with the others.
DecomposeWrites_Resurrect(w, v, D, P) ==
  LET claimed == (D \cup P) \cap Segments(v)
  IN  DeleteSegments(InsertRows(w, UNION {v.seg[i] : i \in D}), v, claimed)

DecomposeWrites(w, v, D, P) ==
  LET claimed == (D \cup P) \cap Segments(v)
  IN  DeleteSegments(InsertRows(w, LiveRows(v, D)), v, claimed)

\* Mutant: the flag is left to the insert trigger, which DML_BYPASS silences.
DecomposeCatalog_NoFlag(c, v, D, P) ==
  [c EXCEPT !.max_segment_id = HighWater(v, c),
            !.row_count = FlooredSub(@, Cardinality(LivePairs(v, D \cup P)))]

DecomposeCatalog(c, v, D, P) ==
  [c EXCEPT !.max_segment_id = HighWater(v, c),
            !.row_count = FlooredSub(@, Cardinality(LivePairs(v, D \cup P))),
            !.has_loose_rows = @ \/ LiveRows(v, D) # {}]
=============================================================================
