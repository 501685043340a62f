--------------------------- MODULE CompressedDml ----------------------------
(***************************************************************************)
(* Transactions on one partition: INSERT, DELETE and UPDATE through the    *)
(* executor hook (scan/hook.rs), the insert trigger (catalog.rs), and the  *)
(* maintenance functions of compress.rs, interleaved between sessions.     *)
(*                                                                         *)
(* A statement is two steps: StartStatement takes the table lock its plan  *)
(* needs and the statement snapshot; the action of the operation does the  *)
(* work. Between the two, other sessions run: a statement waits there for  *)
(* a stronger table lock, a _meta row lock or the catalog row lock, and    *)
(* finds a later committed state when it gets them. Locks are kept to the  *)
(* end of the transaction.                                                 *)
(*                                                                         *)
(* PostgreSQL (external) is modelled by: table locks; one row lock on the  *)
(* partition's catalog row, held by the session whose update of it is not  *)
(* committed; snapshots, taken per statement under READ COMMITTED and once *)
(* under REPEATABLE READ; and TRUNCATE, which empties the table for older  *)
(* snapshots too. A wait is a step that is not enabled. A serialization    *)
(* failure, a deadlock victim, a cancelled statement and a dead backend    *)
(* are all Abort, which is always possible.                                *)
(***************************************************************************)
EXTENDS PartitionStore

CONSTANTS Sessions,
          NoSession,
          Iso,        \* session -> "RC" (read committed) or "RR" (repeatable read)
          Calls,      \* session -> the operations it calls
          OwnTxn,     \* operations that are only called as a transaction of their own
          MaxStmts,   \* bound: statements of a transaction
          StartRows   \* the row sets the partition may start with

Ops == {"insert", "delete", "update", "compact", "compress", "decompress"}

ASSUME SessionAssumption ==
  /\ NoSession \notin Sessions
  /\ Iso \in [Sessions -> {"RC", "RR"}]
  /\ Calls \in [Sessions -> SUBSET Ops]
  /\ OwnTxn \subseteq Ops
  /\ MaxStmts \in Nat \ {0}
  /\ StartRows \subseteq SUBSET Row

\* Keys tell the rows of a partition apart, those it starts with too.
ASSUME StartAssumption == \A R \in StartRows : \A q, r \in R : q[1] = r[1] => q = r

VARIABLES
  cat, heap, seg, tomb,   \* the committed state of the partition
  catOwner, pcat,         \* holder of the catalog row lock, its uncommitted row
  pc,                     \* "idle", "open" (in a transaction) or the running operation
  stmts,                  \* statements started in this transaction
  lock,                   \* table lock held on the partition
  snap, stale,            \* the snapshot; has the catalog row changed since it was taken
  w,                      \* the session's write set
  claimed,                \* segments whose _meta rows it holds FOR UPDATE
  memo,                   \* LOOSE_FLAG_MEMO contains the partition
  bypass,                 \* DML_BYPASS of the backend
  add, rem                \* the logical effect of the transaction's statements

committedVars == <<cat, heap, seg, tomb>>
vars == <<cat, heap, seg, tomb, catOwner, pcat, pc, stmts, lock, snap, stale, w,
          claimed, memo, bypass, add, rem>>

Committed == [cat |-> cat, heap |-> heap, seg |-> seg, tomb |-> tomb]

EmptyDb == [cat |-> NewCatalogRow, heap |-> {}, seg |-> NoSegs, tomb |-> {}]

\* An uncompressed partition, or one as compress_partition_impl leaves it.
Init ==
  /\ \E R \in StartRows :
       \/ /\ cat = NewCatalogRow /\ heap = R /\ seg = NoSegs
       \/ /\ R # {} /\ MaxSeg >= 1
          /\ cat = [NewCatalogRow EXCEPT !.is_compressed = TRUE, !.row_count = Cardinality(R)]
          /\ heap = {} /\ seg = [NoSegs EXCEPT ![1] = R]
  /\ tomb = {}
  /\ catOwner = NoSession /\ pcat = NewCatalogRow
  /\ pc = [s \in Sessions |-> "idle"]
  /\ stmts = [s \in Sessions |-> 0]
  /\ lock = [s \in Sessions |-> "none"]
  /\ snap = [s \in Sessions |-> EmptyDb]
  /\ stale = [s \in Sessions |-> FALSE]
  /\ w = [s \in Sessions |-> NoWrites]
  /\ claimed = [s \in Sessions |-> {}]
  /\ memo = [s \in Sessions |-> FALSE]
  /\ bypass = [s \in Sessions |-> FALSE]
  /\ add = [s \in Sessions |-> {}]
  /\ rem = [s \in Sessions |-> {}]

(***************************************************************************)
(* What a session reads.                                                   *)
(***************************************************************************)
Others(s) == Sessions \ {s}

\* What SPI statements inside an operation read: a fresh snapshot under READ
\* COMMITTED, the transaction's under REPEATABLE READ.
Base(s) == IF Iso[s] = "RR" THEN snap[s] ELSE Committed

CatSeen(s) == IF catOwner = s THEN pcat ELSE Base(s).cat
View(s) == Apply(Base(s), w[s], CatSeen(s))

\* What the executor's own scan reads: the statement snapshot and own writes.
StmtView(s) == Apply(snap[s], w[s], IF catOwner = s THEN pcat ELSE snap[s].cat)

\* The relation itself (trigger, companion tables) is never read by snapshot.
RelCompressed(s) == IF catOwner = s THEN pcat.is_compressed ELSE cat.is_compressed

\* Mutant: an UPDATE of a row that changed since the snapshot succeeds.
CanUpdateCatalog_LostUpdate(s) == catOwner \in {NoSession, s}

CanUpdateCatalog(s) ==
  /\ catOwner \in {NoSession, s}
  /\ Iso[s] = "RR" => ~stale[s]

CanLockExclusive(s) == \A t \in Others(s) : lock[t] = "none"

NoneExclusive(s) == \A t \in Others(s) : lock[t] # "AE"

(***************************************************************************)
(* Transactions and statements.                                            *)
(***************************************************************************)
\* Under REPEATABLE READ an earlier statement, or the planning of the first
\* one, fixes the snapshot before this partition is locked.
BeginRepeatableRead(s) ==
  /\ pc[s] = "idle"
  /\ Iso[s] = "RR"
  /\ pc' = [pc EXCEPT ![s] = "open"]
  /\ snap' = [snap EXCEPT ![s] = Committed]
  /\ UNCHANGED <<committedVars, catOwner, pcat, stmts, lock, stale, w, claimed, memo,
                 bypass, add, rem>>

PlanLock(op) == IF op \in {"insert", "delete", "update"} THEN "RE" ELSE "none"

StartStatement(s, op) ==
  /\ pc[s] = "open" \/ (pc[s] = "idle" /\ Iso[s] = "RC")
  /\ op \in Calls[s]
  /\ stmts[s] < (IF op \in OwnTxn THEN 1 ELSE MaxStmts)
  /\ PlanLock(op) = "RE" => NoneExclusive(s)
  /\ pc' = [pc EXCEPT ![s] = op]
  /\ stmts' = [stmts EXCEPT ![s] = IF op \in OwnTxn THEN MaxStmts ELSE @ + 1]
  /\ lock' = [lock EXCEPT ![s] = IF @ = "AE" \/ PlanLock(op) = "none" THEN @ ELSE "RE"]
  /\ snap' = IF Iso[s] = "RC" THEN [snap EXCEPT ![s] = Committed] ELSE snap
  /\ UNCHANGED <<committedVars, catOwner, pcat, stale, w, claimed, memo, bypass, add, rem>>

\* End of a statement that wrote ws and, if touch, updated the catalog row to c.
EndStatement(s, ws, touch, c) ==
  /\ touch => CanUpdateCatalog(s)
  /\ w' = [w EXCEPT ![s] = ws]
  /\ catOwner' = IF touch THEN s ELSE catOwner
  /\ pcat' = IF touch THEN c ELSE pcat
  /\ pc' = [pc EXCEPT ![s] = "open"]
  /\ snap' = IF Iso[s] = "RC" THEN [snap EXCEPT ![s] = EmptyDb] ELSE snap
  /\ UNCHANGED <<committedVars, stmts, stale>>

\* Mutant: the LOCK TABLE statement is missing.
TakeExclusive_NoWait(s) == lock' = [lock EXCEPT ![s] = "AE"]

TakeExclusive(s) ==
  /\ CanLockExclusive(s)
  /\ lock' = [lock EXCEPT ![s] = "AE"]

\* Transaction end: every lock, snapshot and per-transaction memo is dropped
\* (loose_flag_xact_callback clears LOOSE_FLAG_MEMO on commit and on abort).
EndTxn(s) ==
  /\ pc' = [pc EXCEPT ![s] = "idle"]
  /\ stmts' = [stmts EXCEPT ![s] = 0]
  /\ lock' = [lock EXCEPT ![s] = "none"]
  /\ w' = [w EXCEPT ![s] = NoWrites]
  /\ claimed' = [claimed EXCEPT ![s] = {}]
  /\ memo' = [memo EXCEPT ![s] = FALSE]
  /\ add' = [add EXCEPT ![s] = {}]
  /\ rem' = [rem EXCEPT ![s] = {}]
  /\ catOwner' = IF catOwner = s THEN NoSession ELSE catOwner
  /\ pcat' = IF catOwner = s THEN NewCatalogRow ELSE pcat

\* A committed TRUNCATE or DROP TABLE empties the table for older snapshots.
SnapAfter(t, s) ==
  [snap[t] EXCEPT !.heap = IF w[s].trunc THEN {} ELSE @,
                  !.tomb = IF w[s].tTrunc THEN {} ELSE @]

Commit(s) ==
  LET db == Apply(Committed, w[s], IF catOwner = s THEN pcat ELSE cat)
      open == {t \in Others(s) : pc[t] # "idle"}
  IN  /\ pc[s] = "open"
      /\ cat' = db.cat /\ heap' = db.heap /\ seg' = db.seg /\ tomb' = db.tomb
      /\ snap' = [t \in Sessions |-> IF t = s THEN EmptyDb
                                     ELSE IF t \in open THEN SnapAfter(t, s) ELSE snap[t]]
      /\ stale' = [t \in Sessions |-> IF t = s THEN FALSE
                                      ELSE stale[t] \/ (catOwner = s /\ t \in open)]
      /\ EndTxn(s)
      /\ UNCHANGED bypass

\* An error, a cancel, a deadlock victim, a serialization failure. The error
\* leaves decompress_partition_impl between its two set_dml_bypass calls, so the
\* flag stays set in the backend; it is clear again if the backend is gone.
Abort(s) ==
  /\ pc[s] # "idle"
  /\ snap' = [snap EXCEPT ![s] = EmptyDb]
  /\ stale' = [stale EXCEPT ![s] = FALSE]
  /\ EndTxn(s)
  /\ \E b \in (IF pc[s] = "decompress" THEN BOOLEAN ELSE {bypass[s], FALSE}) :
       bypass' = [bypass EXCEPT ![s] = b]
  /\ UNCHANGED committedVars

(***************************************************************************)
(* INSERT: the trigger's deltax_note_compressed_insert, then the heap row. *)
(***************************************************************************)
\* A key in use nowhere: not stored, not pending, not in a snapshot.
FreshKey(k) ==
  /\ k \notin KeysOf(Content(Committed))
  /\ \A t \in Sessions : k \notin KeysOf(add[t] \cup Content(snap[t]))

\* Mutant: the trigger never reaches the UPDATE.
NotesInsert_Never(s) == FALSE

\* The trigger reaches the catalog UPDATE.
NotesInsert(s) == RelCompressed(s) /\ ~bypass[s] /\ ~memo[s]

Insert(s, r) ==
  LET flips == NotesInsert(s) /\ ~CatSeen(s).has_loose_rows
  IN  /\ pc[s] = "insert"
      /\ FreshKey(r[1])
      /\ EndStatement(s, InsertRows(w[s], {r}), flips,
                      [CatSeen(s) EXCEPT !.has_loose_rows = TRUE])
      /\ memo' = [memo EXCEPT ![s] = @ \/ NotesInsert(s)]
      /\ add' = [add EXCEPT ![s] = @ \cup {r}]
      /\ UNCHANGED <<lock, claimed, bypass, rem>>

(***************************************************************************)
(* DELETE and UPDATE of the rows with a key in K: deltax_executor_start    *)
(* splits the candidate segments into dropped, tombstoned and decomposed   *)
(* ones, then the executor deletes or rewrites the heap rows it sees.      *)
(***************************************************************************)
\* dml_candidate_segments: pruning keeps every segment with a matching row
\* and may keep others.
IsCandidateSet(s, C, K) ==
  /\ C \subseteq Segments(StmtView(s))
  /\ \A i \in Segments(StmtView(s)) : Matching(StmtView(s).seg[i], K) # {} => i \in C

\* P only has segments whose rows all match: c.all_rows_match.
AllRowsMatch(s, P, K) ==
  \A i \in P : Matching(StmtView(s).seg[i], K) = StmtView(s).seg[i]

\* Mutant: a candidate segment's rows are tombstoned without matching them.
NewTombstones_WholeSegment(v, T, K) == {p \in T \X Row : p[2] \in v.seg[p[1]]} \ v.tomb

\* insert_dml_tombstones: the pairs the INSERT ... ON CONFLICT adds.
NewTombstones(v, T, K) ==
  {p \in T \X Row : p[2] \in v.seg[p[1]] /\ p[2][1] \in K} \ v.tomb

\* Mutant: row_count is left to the next compaction.
TombstoneCatalog_NoCount(c, new) == IF new = {} THEN c ELSE [c EXCEPT !.has_tombstones = TRUE]

\* Mutant: the gate flag is not raised.
TombstoneCatalog_NoFlag(c, new) ==
  IF new = {} THEN c ELSE [c EXCEPT !.row_count = FlooredSub(@, Cardinality(new))]

TombstoneCatalog(c, new) ==
  IF new = {} THEN c
  ELSE [c EXCEPT !.row_count = FlooredSub(@, Cardinality(new)), !.has_tombstones = TRUE]

\* claim_segments_for_tombstone waits for other holders of the _meta rows.
\* Under REPEATABLE READ the INSERT fails on a tombstone its snapshot misses.
CanTombstone(s, T, new) ==
  /\ \A t \in Others(s) : claimed[t] \cap T = {}
  /\ Iso[s] = "RR" => new \cap tomb = {}

\* The heap rows the statement finds: those its snapshot shows and its own,
\* in their latest committed version (EvalPlanQual follows an update by key).
HeapTargets(s, ws, K) ==
  LET seen == KeysOf(Matching(Apply(snap[s], ws, cat).heap, K))
  IN  Matching(Apply(Committed, ws, cat).heap, seen)

CanWriteHeapRows(s, ws, K) ==
  LET seen == Matching(Apply(snap[s], ws, cat).heap, K)
  IN  /\ \A t \in Others(s) : w[t].del \cap (seen \cup HeapTargets(s, ws, K)) = {}
      /\ Iso[s] = "RR" => seen \subseteq Apply(Committed, ws, cat).heap

\* The rows the user's statement is about, wherever they are stored.
LogicalTargets(s, K) ==
  LET seen == KeysOf(Matching(Content(StmtView(s)), K))
  IN  Matching(Content(Apply(Committed, w[s], cat)), seen)

\* The hook's part for the split dropped / tombstoned / decomposed = P, T, D.
\* The tombstones come first, then decompose_segments_for_dml.
HookWrites(s, P, T, D, K) ==
  LET v  == View(s)
      w1 == InsertTombstones(w[s], NewTombstones(v, T, K))
  IN  IF P \cup D = {} THEN w1
      ELSE DecomposeWrites(w1, Apply(Base(s), w1, CatSeen(s)), D, P)

HookCatalog(s, P, T, D, K) ==
  LET v  == View(s)
      w1 == InsertTombstones(w[s], NewTombstones(v, T, K))
      c1 == TombstoneCatalog(CatSeen(s), NewTombstones(v, T, K))
  IN  IF P \cup D = {} THEN c1
      ELSE DecomposeCatalog(c1, Apply(Base(s), w1, c1), D, P)

\* The new versions of the rows R: none for a DELETE (V = {}), one for an UPDATE.
Rewritten(R, V) == {<<r[1], v>> : r \in R, v \in V}

\* The statement runs with the split P, T, D.
RunDml(s, P, T, D, K, V) ==
  LET new == NewTombstones(View(s), T, K)
      ws  == HookWrites(s, P, T, D, K)
      old == HeapTargets(s, ws, K)
      L   == LogicalTargets(s, K)
  IN  /\ CanTombstone(s, T, new)
      /\ CanWriteHeapRows(s, ws, K)
      /\ IF P \cup D = {} THEN UNCHANGED lock ELSE TakeExclusive(s)
      /\ EndStatement(s, InsertRows(DeleteRows(ws, old), Rewritten(old, V)),
                      new # {} \/ P \cup D # {}, HookCatalog(s, P, T, D, K))
      /\ claimed' = [claimed EXCEPT ![s] = @ \cup T]
      /\ rem' = [rem EXCEPT ![s] = @ \cup L]
      /\ add' = [add EXCEPT ![s] = (@ \ L) \cup Rewritten(L, V)]
      /\ UNCHANGED <<memo, bypass>>

\* Interception needs a compressed partition and no DML_BYPASS.
Intercepted(s) == RelCompressed(s) /\ ~bypass[s]

\* The split of the candidates: P dropped whole (allow_whole_drop), D decomposed
\* (the DELETE's rows are observed, its predicate is not exact, or exactness was lost
\* while matching rows), the rest tombstoned.
Delete(s, K, C, P, D) ==
  /\ pc[s] = "delete"
  /\ K # {}
  /\ IF Intercepted(s) THEN IsCandidateSet(s, C, K) ELSE C = {}
  /\ P \subseteq C /\ AllRowsMatch(s, P, K)
  /\ D \subseteq C \ P
  /\ RunDml(s, P, C \ (P \cup D), D, K, {})

Update(s, K, C, val) ==
  /\ pc[s] = "update"
  /\ K # {}
  /\ IF Intercepted(s) THEN IsCandidateSet(s, C, K) ELSE C = {}
  /\ RunDml(s, {}, {}, C, K, {val})

(***************************************************************************)
(* compact_partition_impl.                                                 *)
(***************************************************************************)
\* A maintenance function that finds nothing to do returns without writing.
ReturnUnchanged(s) ==
  /\ EndStatement(s, w[s], FALSE, pcat)
  /\ UNCHANGED <<claimed, memo, add, rem>>

\* The unlocked check: not compressed, nothing to compact.
CompactSkip(s) ==
  /\ pc[s] = "compact"
  /\ ~View(s).cat.is_compressed
  /\ ReturnUnchanged(s)
  /\ UNCHANGED <<lock, bypass>>

\* Tombstoned segments are decomposed first ...
TombstonedSegments(v) == {t[1] : t \in v.tomb}

RewriteWrites(s) ==
  LET v == View(s)
  IN  IF v.tomb = {} THEN w[s] ELSE DecomposeWrites(w[s], v, TombstonedSegments(v), {})

RewriteCatalog(s) ==
  LET v == View(s)
  IN  IF v.tomb = {} THEN CatSeen(s)
      ELSE DecomposeCatalog(CatSeen(s), v, TombstonedSegments(v), {})

\* ... then, if none is left in sight, the tombstones table is truncated.
FoldedWrites(s) ==
  IF Apply(Base(s), RewriteWrites(s), RewriteCatalog(s)).tomb = {}
  THEN TruncateTombstones(RewriteWrites(s)) ELSE RewriteWrites(s)

FoldedCatalog(s) ==
  IF Apply(Base(s), RewriteWrites(s), RewriteCatalog(s)).tomb = {}
  THEN [RewriteCatalog(s) EXCEPT !.has_tombstones = FALSE] ELSE RewriteCatalog(s)

FoldedView(s) == Apply(Base(s), FoldedWrites(s), FoldedCatalog(s))

\* No loose row is visible: truncate the dead heap region (READ COMMITTED only)
\* and clear the flag. The catalog row is written only if something changes.
CompactNothing(s) ==
  LET c == [FoldedCatalog(s) EXCEPT !.has_loose_rows = FALSE]
  IN  /\ pc[s] = "compact"
      /\ TakeExclusive(s)
      /\ View(s).cat.is_compressed
      /\ FoldedView(s).heap = {}
      /\ EndStatement(s, IF Iso[s] = "RC" THEN TruncateHeap(FoldedWrites(s)) ELSE FoldedWrites(s),
                      View(s).tomb # {} \/ c # CatSeen(s), c)
      /\ UNCHANGED <<claimed, memo, bypass, add, rem>>

\* Consecutive new segments from id n: A, then what is left of R.
NewSegments(n, A, R) ==
  [i \in SegIds |-> IF i = n THEN A ELSE IF i = n + 1 THEN R \ A ELSE {}]

\* The loose rows become one or two segments after the high-water mark.
CompactLoose(s, A) ==
  LET v == FoldedView(s)
      n == HighWater(v, v.cat) + 1
      ws == IF Iso[s] = "RC" THEN TruncateHeap(FoldedWrites(s))
            ELSE DeleteRows(FoldedWrites(s), v.heap)
  IN  /\ pc[s] = "compact"
      /\ TakeExclusive(s)
      /\ View(s).cat.is_compressed /\ RelCompressed(s)
      /\ A # {} /\ A \subseteq v.heap
      /\ n + (IF A = v.heap THEN 0 ELSE 1) <= MaxSeg
      /\ EndStatement(s, AddSegments(ws, NewSegments(n, A, v.heap)), TRUE,
                      [BumpCompaction(v.cat, Cardinality(v.heap)) EXCEPT
                         !.has_loose_rows = FALSE])
      /\ UNCHANGED <<claimed, memo, bypass, add, rem>>

(***************************************************************************)
(* compress_partition_impl: the rows are read under an ordinary read lock; *)
(* TRUNCATE takes the exclusive lock only once the companions are built.   *)
(***************************************************************************)
\* Already compressed, no rows, or pg_class.reltuples = 0: an estimate that may be
\* out of date, so the call may return early whatever the partition holds.
CompressSkip(s) ==
  /\ pc[s] = "compress"
  /\ ReturnUnchanged(s)
  /\ UNCHANGED <<lock, bypass>>

CompressRead(s, A) ==
  /\ pc[s] = "compress"
  /\ ~View(s).cat.is_compressed
  /\ ~RelCompressed(s)                  \* else CREATE TABLE finds the companions
  /\ \A t \in Others(s) : pc[t] # "compress_finish"
  /\ NoneExclusive(s)
  /\ A # {} /\ A \subseteq View(s).heap
  /\ 1 + (IF A = View(s).heap THEN 0 ELSE 1) <= MaxSeg
  /\ w' = [w EXCEPT ![s] = AddSegments(@, NewSegments(1, A, View(s).heap))]
  /\ pc' = [pc EXCEPT ![s] = "compress_finish"]
  /\ lock' = [lock EXCEPT ![s] = IF @ = "none" THEN "AS" ELSE @]
  /\ UNCHANGED <<committedVars, catOwner, pcat, stmts, snap, stale, claimed, memo, bypass,
                 add, rem>>

\* Mutant: the heap is not truncated.
CompressFinish_KeepHeap(s) ==
  /\ pc[s] = "compress_finish"
  /\ TakeExclusive(s)
  /\ EndStatement(s, w[s], TRUE,
                  [CatSeen(s) EXCEPT !.is_compressed = TRUE, !.has_loose_rows = FALSE,
                                     !.has_tombstones = FALSE,
                                     !.row_count = Cardinality(LivePairs(View(s), SegIds))])
  /\ UNCHANGED <<claimed, memo, bypass, add, rem>>

CompressFinish(s) ==
  /\ pc[s] = "compress_finish"
  /\ TakeExclusive(s)
  /\ EndStatement(s, TruncateHeap(w[s]), TRUE,
                  [CatSeen(s) EXCEPT !.is_compressed = TRUE, !.has_loose_rows = FALSE,
                                     !.has_tombstones = FALSE,
                                     !.row_count = Cardinality(LivePairs(View(s), SegIds))])
  /\ UNCHANGED <<claimed, memo, bypass, add, rem>>

(***************************************************************************)
(* decompress_partition_impl: every live row goes back to the heap, the    *)
(* companions are dropped. The loose and tombstone flags are left as is.   *)
(***************************************************************************)
DecompressSkip(s) ==
  /\ pc[s] = "decompress"
  /\ ~View(s).cat.is_compressed
  /\ ReturnUnchanged(s)
  /\ bypass' = [bypass EXCEPT ![s] = FALSE]
  /\ UNCHANGED lock

\* Mutant: rows are restored after their tombstones were dropped.
Decompress_Resurrect(s) ==
  LET v == View(s)
  IN  /\ pc[s] = "decompress"
      /\ TakeExclusive(s)
      /\ v.cat.is_compressed /\ RelCompressed(s)
      /\ EndStatement(s, DecomposeWrites(TruncateTombstones(w[s]), [v EXCEPT !.tomb = {}],
                                         SegIds, {}), TRUE,
                      [CatSeen(s) EXCEPT !.is_compressed = FALSE, !.row_count = 0,
                                         !.max_segment_id = 0])
      /\ bypass' = [bypass EXCEPT ![s] = FALSE]
      /\ UNCHANGED <<claimed, memo, add, rem>>

Decompress(s) ==
  LET v == View(s)
  IN  /\ pc[s] = "decompress"
      /\ TakeExclusive(s)               \* DROP TRIGGER
      /\ v.cat.is_compressed /\ RelCompressed(s)
      /\ EndStatement(s, TruncateTombstones(DecomposeWrites(w[s], v, SegIds, {})), TRUE,
                      [CatSeen(s) EXCEPT !.is_compressed = FALSE, !.row_count = 0,
                                         !.max_segment_id = 0])
      /\ bypass' = [bypass EXCEPT ![s] = FALSE]
      /\ UNCHANGED <<claimed, memo, add, rem>>

(***************************************************************************)
(* Specification.                                                          *)
(***************************************************************************)
Next ==
  \E s \in Sessions :
    \/ BeginRepeatableRead(s)
    \/ \E op \in Ops : StartStatement(s, op)
    \/ \E r \in Row : Insert(s, r)
    \/ \E K \in SUBSET Keys, C, P, D \in SUBSET SegIds : Delete(s, K, C, P, D)
    \/ \E K \in SUBSET Keys, C \in SUBSET SegIds, val \in Vals : Update(s, K, C, val)
    \/ CompactSkip(s)
    \/ CompactNothing(s)
    \/ \E A \in SUBSET Row : CompactLoose(s, A)
    \/ CompressSkip(s)
    \/ \E A \in SUBSET Row : CompressRead(s, A)
    \/ CompressFinish(s)
    \/ DecompressSkip(s)
    \/ Decompress(s)
    \/ Commit(s)
    \/ Abort(s)

Spec == Init /\ [][Next]_vars

(***************************************************************************)
(* Properties.                                                             *)
(***************************************************************************)
TypeOK ==
  /\ Committed \in Db
  /\ catOwner \in Sessions \cup {NoSession}
  /\ pcat \in CatalogRow
  /\ pc \in [Sessions -> Ops \cup {"idle", "open", "compress_finish"}]
  /\ stmts \in [Sessions -> 0..MaxStmts]
  /\ lock \in [Sessions -> {"none", "AS", "RE", "AE"}]
  /\ snap \in [Sessions -> Db]
  /\ stale \in [Sessions -> BOOLEAN]
  /\ w \in [Sessions -> WriteSet]
  /\ claimed \in [Sessions -> SUBSET SegIds]
  /\ memo \in [Sessions -> BOOLEAN]
  /\ bypass \in [Sessions -> BOOLEAN]
  /\ add \in [Sessions -> SUBSET Row]
  /\ rem \in [Sessions -> SUBSET Row]

\* The flags a state carries tell the truth about it: with loose rows the flag
\* is set, with tombstones the flag is set.
FlagsCover(v) ==
  v.cat.is_compressed => /\ v.heap # {} => v.cat.has_loose_rows
                         /\ v.tomb # {} => v.cat.has_tombstones

\* In every committed state the DML gate flags cover the stored rows: plans that
\* skip the heap or the tombstones because a flag is clear lose nothing.
FlagsExact == FlagsCover(Committed)

\* The same inside every open transaction: a statement that runs after the
\* transaction's own INSERT or DELETE sees the flag it set.
OwnWritesFlagged ==
  \A s \in Sessions : pc[s] \in {"open", "insert", "delete", "update"} => FlagsCover(View(s))

\* DeltaXCount answers count(*) from the catalog: row_count is the number of live
\* segment rows, through tombstones, decompose, compaction and whole-segment drops.
RowCountExact ==
  cat.is_compressed => cat.row_count = Cardinality(LivePairs(Committed, SegIds))

\* No row is stored twice: not in the heap and a segment, nor in two segments.
StoredOnce ==
  /\ \A p, q \in LivePairs(Committed, SegIds) : p[2][1] = q[2][1] => p = q
  /\ \A p \in LivePairs(Committed, SegIds) : p[2][1] \notin KeysOf(heap)
  /\ \A q, r \in heap : q[1] = r[1] => q = r

\* Tombstones are consumed with their segment: none outlives it, to hide rows of
\* a later segment.
NoOrphanTombstones == \A t \in tomb : t[2] \in seg[t[1]]

(***************************************************************************)
(* Why the flags are exact: the inductive strengthening of FlagsExact.     *)
(***************************************************************************)
\* A use of the functions under which the flags stay exact; no document asks for it, and
\* without any one of its conditions they do not. Transactions are READ COMMITTED, each
\* maintenance function is called in a transaction of its own, and not from a session
\* whose DML_BYPASS a failed decompression may have left set.
PlainUse ==
  /\ \A s \in Sessions : Iso[s] = "RC"
  /\ {"compact", "compress", "decompress"} \subseteq OwnTxn
  /\ \A s \in Sessions : "decompress" \in Calls[s] =>
                           Calls[s] \cap {"insert", "delete", "update"} = {}

\* A session's heap, tombstones and catalog row over the committed state.
OwnHeap(s) == ((IF w[s].trunc THEN {} ELSE heap) \ w[s].del) \cup w[s].ins
OwnTomb(s) == ((IF w[s].tTrunc THEN {} ELSE tomb) \ w[s].tDel) \cup w[s].tIns
OwnCat(s) == IF catOwner = s THEN pcat ELSE cat

\* The flags cover the rows; an uncompressed partition has no tombstones.
Covered(c, h, t) ==
  /\ c.is_compressed /\ h # {} => c.has_loose_rows
  /\ t # {} => c.is_compressed /\ c.has_tombstones

\* What a session may have done under the table lock it holds. Only the exclusive
\* lock lets it clear a flag, truncate or change is_compressed.
LockDiscipline(s) ==
  /\ lock[s] = "AE" => \A t \in Others(s) : lock[t] = "none"
  /\ lock[s] \in {"none", "AS"} => catOwner # s /\ w[s].ins = {} /\ w[s].tIns = {}
  /\ lock[s] # "AE" =>
       /\ ~w[s].trunc /\ ~w[s].tTrunc
       /\ catOwner = s => /\ pcat.is_compressed = cat.is_compressed
                          /\ cat.has_loose_rows => pcat.has_loose_rows
                          /\ cat.has_tombstones => pcat.has_tombstones

\* Which lock an operation runs under, and what is true while it runs.
StepDiscipline(s) ==
  /\ stmts[s] = 0 => pc[s] = "idle"
  /\ pc[s] \in {"idle", "compact", "compress", "decompress"} => lock[s] = "none" /\ ~memo[s]
  /\ pc[s] \in {"insert", "delete", "update"} => lock[s] \in {"RE", "AE"}
  /\ pc[s] = "compress_finish" => lock[s] = "AS" /\ ~cat.is_compressed /\ ~memo[s]
  /\ pc[s] \in Ops => pc[s] \in Calls[s]
  /\ bypass[s] => "decompress" \in Calls[s]
  /\ memo[s] => OwnCat(s).has_loose_rows /\ lock[s] \in {"RE", "AE"}

FlagInv ==
  /\ Covered(cat, heap, tomb)
  /\ \A s \in Sessions :
       /\ LockDiscipline(s)
       /\ StepDiscipline(s)
       /\ Covered(OwnCat(s), OwnHeap(s), OwnTomb(s))

Table == INSTANCE DeltaTable WITH content <- Content(Committed)

\* The partition implements the table of DeltaTable: each commit changes the rows a
\* query must see by exactly what its statements did, and no maintenance function,
\* decompose or rollback changes them at all.
ImplementsTable == Table!Spec
=============================================================================
