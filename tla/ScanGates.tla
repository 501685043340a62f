----------------------------- MODULE ScanGates ------------------------------
(***************************************************************************)
(* How a query decides whether to look at the loose rows and at the        *)
(* tombstones of a compressed partition.                                   *)
(*                                                                         *)
(* Every gate of the planner and of the executor reads has_loose_rows and  *)
(* has_tombstones from DML_FLAGS, a map each backend loads once from       *)
(* deltax.deltax_partition and drops when a relcache invalidation arrives. *)
(* Writers commit a new version of the partition and then send the         *)
(* invalidation: PostgreSQL makes a transaction visible before it sends    *)
(* its messages, and releases its locks after both. Their own concurrency  *)
(* is the subject of CompressedDml; here a commit is one step.             *)
(*                                                                         *)
(* A reader runs one statement at a time: it takes a snapshot, plans under *)
(* it (or reuses a cached plan), starts the executor (under READ COMMITTED *)
(* with a snapshot of its own) and scans.                                  *)
(***************************************************************************)
EXTENDS PartitionStore, Sequences

CONSTANTS Readers,         \* backends that query the table
          Levels,          \* the isolation levels they use, "RC" and "RR"
          Flatten,         \* pg_deltax.flatten_partitions
          Asked,           \* the kinds of query the clients send
          FirstDb,         \* the partition at the start
          MaxCommits       \* bound: commits in a run

ASSUME GatesAssumption ==
  /\ Levels \subseteq {"RC", "RR"} /\ Flatten \in BOOLEAN
  /\ Asked \subseteq {"rows", "agg", "minmax", "part", "sorted"}
  /\ FirstDb \in Db /\ MaxCommits \in Nat
  /\ FirstDb.heap # {} => FirstDb.cat.has_loose_rows
  /\ FirstDb.tomb # {} => FirstDb.cat.has_tombstones

VARIABLES hist,     \* the committed versions, newest last
          used,     \* the heap file has blocks: it held a row, committed or not
          sending,  \* a commit whose invalidation is not sent yet, with its lock
          inbox,    \* inbox[r]: an invalidation r has not processed
          flags,    \* flags[r]: DML_FLAGS of backend r
          plan,     \* plan[r]: the cached plan of r's statement
          valid,    \* valid[r]: no invalidation has hit that plan
          iso,      \* iso[r]: the isolation level of r; "RR" keeps one snapshot per transaction
          want,     \* want[r]: the kind of query r runs
          at,       \* at[r]: how far the statement is
          snap,     \* snap[r]: the active snapshot, 0 for none
          held,     \* held[r]: AccessShareLock on the partition
          tail,     \* tail[r]: the scan will read the heap
          out,      \* out[r]: the rows found so far
          quiet,    \* ghost: no commit was unfinished or fell inside the statement
          calm,     \* ghost: none fell inside any statement or REPEATABLE READ transaction
          same      \* ghost: each flag was read from the map of the scan's own snapshot

vars == <<hist, used, sending, inbox, flags, plan, valid, iso, want, at, snap, held, tail,
          out, quiet, calm, same>>
writerVars == <<hist, used, sending, calm>>
planVars == <<iso, plan, valid, want>>
scanVars == <<tail, out, same>>

\* Queries of the whole table. "part" and "sorted" scan the partition by itself: it is named
\* in the query, or a partition beside it holds uncompressed rows.
TableQueries == {"rows", "agg", "minmax"}
Nodes == {"append", "agg", "minmax", "decompress", "sorted"}
Places == {"idle", "revalidate", "gate", "expand", "save", "start", "begin", "scan", "tail",
           "done", "error"}
NotLoaded == [loaded |-> FALSE]
NoPlan == [node |-> "none", flat |-> FALSE]

Latest == Len(hist)
Now == hist[Latest]

\* ensure_dml_flags_loaded: a read-only SPI query, so under the active snapshot v.
LoadedAt(v) ==
  [loaded |-> TRUE, from |-> v, loose |-> hist[v].db.cat.has_loose_rows,
   tombs |-> hist[v].db.cat.has_tombstones]

Lookup(f, v) == IF f.loaded THEN f ELSE LoadedAt(v)

Init ==
  /\ hist = <<[db |-> FirstDb, file |-> 0]>>
  /\ used = (FirstDb.heap # {})
  /\ sending = "no"
  /\ inbox = [r \in Readers |-> FALSE]
  /\ flags = [r \in Readers |-> NotLoaded]
  /\ plan = [r \in Readers |-> NoPlan]
  /\ valid = [r \in Readers |-> FALSE]
  /\ iso \in [Readers -> Levels] /\ want \in [Readers -> Asked]
  /\ at = [r \in Readers |-> "idle"]
  /\ snap = [r \in Readers |-> 0]
  /\ held = [r \in Readers |-> FALSE]
  /\ tail = [r \in Readers |-> FALSE]
  /\ out = [r \in Readers |-> {}]
  /\ quiet = [r \in Readers |-> FALSE] /\ calm = TRUE
  /\ same = [r \in Readers |-> TRUE]

(***************************************************************************)
(* Writers. AccessExclusiveLock is held from before the commit until the   *)
(* invalidation is sent; an insert that finds the flag set sends nothing.  *)
(* TRUNCATE gives the partition a new, empty heap file.                    *)
(***************************************************************************)
InStatement(r) == at[r] \notin {"idle", "done", "error"}

Commit(db, file, sends, exclusive) ==
  /\ sending = "no"
  /\ Latest <= MaxCommits
  /\ exclusive => \A r \in Readers : ~held[r]
  /\ hist' = Append(hist, [db |-> db, file |-> file])
  /\ used' = ((used /\ file = Now.file) \/ db.heap # {})
  /\ sending' = IF ~sends THEN "no" ELSE IF exclusive THEN "exclusive" ELSE "shared"
  /\ quiet' = [r \in Readers |-> FALSE]
  /\ calm' = (calm /\ \A r \in Readers : ~InStatement(r) /\ (iso[r] = "RR" => snap[r] = 0))
  /\ UNCHANGED <<inbox, flags, planVars, at, snap, held, scanVars>>

\* deltax_note_compressed_insert and the heap insert it fires for.
Insert(row) ==
  /\ row \notin Content(Now.db)
  /\ Commit(Apply(Now.db, InsertRows(NoWrites, {row}),
                  [Now.db.cat EXCEPT !.has_loose_rows = TRUE]),
            Now.file, ~Now.db.cat.has_loose_rows, FALSE)

\* An insert whose transaction rolls back: its flag goes, its dead row stays in the heap.
RolledBackInsert ==
  /\ sending # "exclusive"
  /\ used' = TRUE
  /\ UNCHANGED <<hist, sending, calm, inbox, flags, planVars, at, snap, held, scanVars, quiet>>

\* insert_dml_tombstones: a DELETE that hides segment rows.
Tombstoned(T) ==
  /\ T # {} /\ T \subseteq LivePairs(Now.db, SegIds)
  /\ Commit(Apply(Now.db, InsertTombstones(NoWrites, T),
                  [Now.db.cat EXCEPT !.has_tombstones = TRUE]),
            Now.file, TRUE, FALSE)

\* Mutant: decompose leaves cached maps alone.
Decompose_Silent(D, R) ==
  /\ D # {} /\ D \subseteq Segments(Now.db) /\ R \subseteq LiveRows(Now.db, D)
  /\ Commit(Apply(Now.db, DeleteRows(DecomposeWrites(NoWrites, Now.db, D, {}), R),
                  DecomposeCatalog(Now.db.cat, Now.db, D, {})),
            Now.file, FALSE, TRUE)

\* decompose_segments_for_dml, then the DELETE of the rows R that asked for it.
Decompose(D, R) ==
  /\ D # {} /\ D \subseteq Segments(Now.db) /\ R \subseteq LiveRows(Now.db, D)
  /\ Commit(Apply(Now.db, DeleteRows(DecomposeWrites(NoWrites, Now.db, D, {}), R),
                  DecomposeCatalog(Now.db.cat, Now.db, D, {})),
            Now.file, TRUE, TRUE)

\* compact_partition_impl: tombstoned segments are decomposed, then every loose row goes
\* into a new segment. READ COMMITTED truncates the heap, otherwise the rows are deleted.
\* The TRUNCATE of the tombstones table sends an invalidation even if nothing was loose.
Compacted(truncate) ==
  LET db == Now.db
      wr == TruncateTombstones(DecomposeWrites(NoWrites, db, {t[1] : t \in db.tomb}, {}))
      v  == Apply(db, wr, DecomposeCatalog(db.cat, db, {t[1] : t \in db.tomb}, {}))
      n  == HighWater(v, v.cat) + 1
      wh == IF truncate THEN TruncateHeap(wr) ELSE DeleteRows(wr, v.heap)
  IN  Apply(db, IF v.heap = {} THEN wh
                ELSE AddSegments(wh, [i \in SegIds |-> IF i = n THEN v.heap ELSE {}]),
            [BumpCompaction(v.cat, Cardinality(v.heap)) EXCEPT
               !.has_loose_rows = FALSE, !.has_tombstones = FALSE])

Compact(truncate) ==
  /\ Now.db.cat.has_loose_rows \/ Now.db.cat.has_tombstones
  /\ HighWater(Now.db, Now.db.cat) < MaxSeg
  /\ Commit(Compacted(truncate), Now.file + (IF truncate THEN 1 ELSE 0), TRUE, TRUE)

\* CacheInvalidateRelcacheByRelid, delivered to every backend once the writer commits.
SendInvals ==
  /\ sending # "no"
  /\ inbox' = [r \in Readers |-> TRUE]
  /\ sending' = "no"
  /\ UNCHANGED <<hist, used, calm, flags, planVars, at, snap, held, scanVars, quiet>>

(***************************************************************************)
(* Processing invalidations: hook_caches_relcache_callback drops the map,  *)
(* the plan cache marks a plan that depends on the partition. A flattened  *)
(* plan depends on the parent and on the companion tables only.            *)
(***************************************************************************)
FlagsAfter(r) == IF inbox[r] THEN NotLoaded ELSE flags[r]
ValidAfter(r) == valid[r] /\ ~(inbox[r] /\ ~plan[r].flat)

\* Any lock a statement takes on the way processes what is pending. A plan that is still
\* being built is not in the plan cache, and escapes.
AcceptInvals(r) ==
  /\ InStatement(r) /\ inbox[r]
  /\ inbox' = [inbox EXCEPT ![r] = FALSE]
  /\ flags' = [flags EXCEPT ![r] = NotLoaded]
  /\ valid' = [valid EXCEPT ![r] = ValidAfter(r)]
  /\ UNCHANGED <<writerVars, plan, iso, want, at, snap, held, scanVars, quiet>>

\* AccessShareLock on the partition waits for a writer's AccessExclusiveLock.
CanLock == sending # "exclusive"

(***************************************************************************)
(* Planning.                                                               *)
(***************************************************************************)
\* The statement's first snapshot; the lock on the parent processes invalidations.
Enter(r, place) ==
  LET v == IF snap[r] = 0 THEN Latest ELSE snap[r]
  IN  /\ snap' = [snap EXCEPT ![r] = v]
      /\ at' = [at EXCEPT ![r] = place]
      /\ quiet' = [quiet EXCEPT ![r] = sending = "no" /\ v = Latest]
      /\ inbox' = [inbox EXCEPT ![r] = FALSE]
      /\ flags' = [flags EXCEPT ![r] = FlagsAfter(r)]
      /\ tail' = [tail EXCEPT ![r] = FALSE]
      /\ out' = [out EXCEPT ![r] = {}]
      /\ same' = [same EXCEPT ![r] = TRUE]
      /\ UNCHANGED <<writerVars, plan, held>>

\* A statement planned anew, perhaps to retry one that failed.
Query(r, q) ==
  /\ at[r] \in {"idle", "error"}
  /\ want' = [want EXCEPT ![r] = q]
  /\ valid' = [valid EXCEPT ![r] = FALSE]
  /\ Enter(r, "gate")
  /\ UNCHANGED iso

\* A prepared statement; the client may retry it, too.
Execute(r) ==
  /\ at[r] \in {"idle", "error"} /\ plan[r] # NoPlan
  /\ valid' = [valid EXCEPT ![r] = ValidAfter(r)]
  /\ Enter(r, "revalidate")
  /\ UNCHANGED <<iso, want>>

\* The plan cache locks what the plan scans, then replans if an invalidation hit it.
Revalidate(r) ==
  LET usable == ValidAfter(r)
  IN  /\ at[r] = "revalidate"
      /\ ~plan[r].flat => CanLock
      /\ held' = [held EXCEPT ![r] = @ \/ ~plan[r].flat]
      /\ inbox' = [inbox EXCEPT ![r] = FALSE]
      /\ flags' = [flags EXCEPT ![r] = FlagsAfter(r)]
      /\ valid' = [valid EXCEPT ![r] = usable]
      /\ at' = [at EXCEPT ![r] = IF usable THEN "start" ELSE "gate"]
      /\ UNCHANGED <<writerVars, plan, iso, want, snap, scanVars, quiet>>

\* Mutant: the planner does not look for loose rows before it chooses DeltaXAgg.
NodeFor_IgnoreLoose(q, f) ==
  IF q = "agg" /\ ~f.tombs THEN "agg"
  ELSE IF q = "minmax" /\ ~f.tombs THEN "minmax"
  ELSE IF q = "sorted" /\ ~f.loose THEN "sorted"
  ELSE IF q \in TableQueries THEN "append" ELSE "decompress"

\* The gates of the planner hooks. What they refuse runs over DeltaXAppend, or unsorted
\* over DeltaXDecompress for the partition by itself.
NodeFor(q, f) ==
  IF q = "agg" /\ ~f.loose /\ ~f.tombs THEN "agg"
  ELSE IF q = "minmax" /\ ~f.tombs THEN "minmax"
  ELSE IF q = "sorted" /\ ~f.loose THEN "sorted"
  ELSE IF q \in TableQueries THEN "append" ELSE "decompress"

\* flatten_all_compressed_parents, at planner entry and before any partition is locked.
Gate(r) ==
  LET f == Lookup(flags[r], snap[r])
      flat == Flatten /\ want[r] \in TableQueries /\ ~f.loose /\ ~f.tombs
  IN  /\ at[r] = "gate"
      /\ flags' = [flags EXCEPT ![r] = f]
      /\ plan' = IF flat THEN [plan EXCEPT ![r] = [node |-> NodeFor(want[r], f), flat |-> TRUE]]
                 ELSE plan
      /\ at' = [at EXCEPT ![r] = IF flat THEN "save" ELSE "expand"]
      /\ UNCHANGED <<writerVars, inbox, valid, iso, want, snap, held, scanVars, quiet>>

\* Regular expansion: the partition is locked, then the gates read the map again.
Expand(r) ==
  LET f == Lookup(FlagsAfter(r), snap[r])
  IN  /\ at[r] = "expand" /\ CanLock
      /\ held' = [held EXCEPT ![r] = TRUE]
      /\ inbox' = [inbox EXCEPT ![r] = FALSE]
      /\ flags' = [flags EXCEPT ![r] = f]
      /\ plan' = [plan EXCEPT ![r] = [node |-> NodeFor(want[r], f), flat |-> FALSE]]
      /\ at' = [at EXCEPT ![r] = "save"]
      /\ UNCHANGED <<writerVars, valid, iso, want, snap, scanVars, quiet>>

\* The finished plan enters the plan cache.
SavePlan(r) ==
  /\ at[r] = "save"
  /\ valid' = [valid EXCEPT ![r] = TRUE]
  /\ at' = [at EXCEPT ![r] = "start"]
  /\ UNCHANGED <<writerVars, inbox, flags, plan, iso, want, snap, held, scanVars, quiet>>

(***************************************************************************)
(* Execution.                                                              *)
(***************************************************************************)
\* READ COMMITTED runs the plan under a newer snapshot, except in SQL EXECUTE.
Start(r, v) ==
  /\ at[r] = "start"
  /\ v \in IF iso[r] = "RR" THEN {snap[r]} ELSE {snap[r], Latest}
  /\ snap' = [snap EXCEPT ![r] = v]
  /\ at' = [at EXCEPT ![r] = "begin"]
  /\ UNCHANGED <<writerVars, inbox, flags, planVars, held, scanVars, quiet>>

\* One flag lookup of the executor.
Consult(r) ==
  LET f == Lookup(flags[r], snap[r])
  IN  /\ flags' = [flags EXCEPT ![r] = f]
      /\ same' = [same EXCEPT ![r] = @ /\ f.from = snap[r]]

\* The stale-plan guards of begin_agg_scan, begin_minmax_scan and begin_custom_scan.
Refuses(node, f) ==
  \/ node = "agg" /\ (f.loose \/ f.tombs)
  \/ node = "minmax" /\ f.tombs
  \/ node = "sorted" /\ used

\* begin_deltax_append asks the flag whether to read the heap, begin_custom_scan of
\* DeltaXDecompress the size of the heap file. An error ends the transaction.
Begin(r) ==
  LET f == Lookup(flags[r], snap[r])
      node == plan[r].node
      error == Refuses(node, f)
  IN  /\ at[r] = "begin"
      /\ IF node \in {"decompress", "sorted"} THEN UNCHANGED <<flags, same>> ELSE Consult(r)
      /\ tail' = [tail EXCEPT ![r] = \/ node = "append" /\ f.loose
                                     \/ node = "decompress" /\ used]
      /\ at' = [at EXCEPT ![r] = IF error THEN "error" ELSE "scan"]
      /\ snap' = [snap EXCEPT ![r] = IF error THEN 0 ELSE @]
      /\ held' = [held EXCEPT ![r] = @ /\ ~error]
      /\ UNCHANGED <<writerVars, inbox, planVars, out, quiet>>

\* load_segments_heap with attach_tombstones. The metadata answers of DeltaXAgg and
\* DeltaXMinMax count physical rows.
SegmentRows(r, f, physical) ==
  LET db == hist[snap[r]].db
  IN  IF f.tombs /\ ~physical THEN LiveRows(db, SegIds) ELSE UNION {db.seg[i] : i \in SegIds}

Scan(r, physical) ==
  LET f == Lookup(flags[r], snap[r])
  IN  /\ at[r] = "scan"
      /\ physical => plan[r].node \in {"agg", "minmax"}
      /\ Consult(r)
      /\ out' = [out EXCEPT ![r] = SegmentRows(r, f, physical)]
      /\ at' = [at EXCEPT ![r] = "tail"]
      /\ UNCHANGED <<writerVars, inbox, planVars, snap, held, tail, quiet>>

\* The partition's heap as the snapshot sees it: TRUNCATE leaves nothing of it.
HeapRows(r) == IF hist[snap[r]].file = Now.file THEN hist[snap[r]].db.heap ELSE {}

\* Mutant: the heap is read with the latest snapshot, not the executor's.
ScanTail_Latest(r) ==
  LET f == Lookup(flags[r], snap[r])
      open == IF plan[r].node = "minmax" THEN f.loose ELSE tail[r]
  IN  /\ at[r] = "tail"
      /\ open => CanLock
      /\ UNCHANGED <<flags, same>>
      /\ held' = [held EXCEPT ![r] = @ \/ open]
      /\ out' = [out EXCEPT ![r] = @ \cup (IF open THEN Now.db.heap ELSE {})]
      /\ at' = [at EXCEPT ![r] = "done"]
      /\ UNCHANGED <<writerVars, inbox, planVars, snap, tail, quiet>>

\* The heap tail: DeltaXAppend emits it last, for the heaps it chose at the start;
\* for_each_heap_tail_row of DeltaXMinMax looks the flag up here.
ScanTail(r) ==
  LET f == Lookup(flags[r], snap[r])
      open == IF plan[r].node = "minmax" THEN f.loose ELSE tail[r]
  IN  /\ at[r] = "tail"
      /\ open => CanLock
      /\ flags' = IF plan[r].node = "minmax" THEN [flags EXCEPT ![r] = f] ELSE flags
      /\ same' = [same EXCEPT ![r] = /\ @ /\ (plan[r].node = "minmax" => f.from = snap[r])
                                     /\ HeapRows(r) = hist[snap[r]].db.heap]
      /\ held' = [held EXCEPT ![r] = @ \/ open]
      /\ out' = [out EXCEPT ![r] = @ \cup (IF open THEN HeapRows(r) ELSE {})]
      /\ at' = [at EXCEPT ![r] = "done"]
      /\ UNCHANGED <<writerVars, inbox, planVars, snap, tail, quiet>>

\* The end of the statement, and under READ COMMITTED of its snapshot and locks.
Finish(r) ==
  LET txn == iso[r] = "RR"
  IN  /\ at[r] = "done"
      /\ at' = [at EXCEPT ![r] = "idle"]
      /\ snap' = [snap EXCEPT ![r] = IF txn THEN @ ELSE 0]
      /\ held' = [held EXCEPT ![r] = @ /\ txn]
      /\ UNCHANGED <<writerVars, inbox, flags, planVars, scanVars, quiet>>

EndTransaction(r) ==
  /\ at[r] = "idle" /\ snap[r] # 0
  /\ snap' = [snap EXCEPT ![r] = 0]
  /\ held' = [held EXCEPT ![r] = FALSE]
  /\ UNCHANGED <<writerVars, inbox, flags, planVars, at, scanVars, quiet>>

WriterStep ==
  \/ \E row \in Row : Insert(row)
  \/ \E T \in SUBSET Tombstone : Tombstoned(T)
  \/ \E D \in SUBSET SegIds, R \in SUBSET Row : Decompose(D, R)
  \/ \E truncate \in BOOLEAN : Compact(truncate)
  \/ RolledBackInsert

\* What a statement does once the client has sent it.
StatementStep(r) ==
  \/ AcceptInvals(r) \/ Revalidate(r) \/ Gate(r) \/ Expand(r) \/ SavePlan(r)
  \/ \E v \in 1..Latest : Start(r, v)
  \/ Begin(r) \/ \E physical \in BOOLEAN : Scan(r, physical)
  \/ ScanTail(r) \/ Finish(r)

Next ==
  \/ WriterStep \/ SendInvals
  \/ \E r \in Readers : \/ \E q \in Asked : Query(r, q)
                        \/ Execute(r) \/ StatementStep(r) \/ EndTransaction(r)

Spec == Init /\ [][Next]_vars

(***************************************************************************)
(* Properties.                                                             *)
(***************************************************************************)
TypeOK ==
  /\ hist \in Seq([db : Db, file : Nat]) /\ Latest \in 1..(MaxCommits + 1)
  /\ sending \in {"no", "shared", "exclusive"} /\ used \in BOOLEAN
  /\ inbox \in [Readers -> BOOLEAN]
  /\ \A r \in Readers : flags[r] = NotLoaded \/ flags[r] = LoadedAt(flags[r].from)
  /\ plan \in [Readers -> [node : Nodes \cup {"none"}, flat : BOOLEAN]]
  /\ valid \in [Readers -> BOOLEAN] /\ want \in [Readers -> Asked]
  /\ iso \in [Readers -> Levels] /\ calm \in BOOLEAN
  /\ at \in [Readers -> Places] /\ snap \in [Readers -> 0..Latest]
  /\ held \in [Readers -> BOOLEAN] /\ tail \in [Readers -> BOOLEAN]
  /\ out \in [Readers -> SUBSET Row]
  /\ quiet \in [Readers -> BOOLEAN] /\ same \in [Readers -> BOOLEAN]

\* A statement that no commit overlaps, and that starts when every earlier commit has
\* sent its invalidation, returns exactly the rows of the partition: the map in this
\* backend, its cached plan and the gates agree with the catalog (contract of DML_FLAGS).
QuietReadExact ==
  \A r \in Readers : at[r] = "done" /\ quiet[r] => out[r] = Content(Now.db)

\* The same as long as no commit has fallen inside an earlier statement, or inside a
\* REPEATABLE READ transaction, either: the invalidations alone keep the maps and the
\* cached plans right from one statement to the next.
CalmReadExact == calm => QuietReadExact

\* The flags are exact under MVCC: when every flag a scan consults was read under the
\* scan's own snapshot, it returns the rows of that snapshot, whatever commits meanwhile,
\* unless a compaction truncated the heap under it.
MvccExact ==
  \A r \in Readers : at[r] = "done" /\ same[r] => out[r] = Content(hist[snap[r]].db)

\* A reader sees one state of the partition as a whole, before or after each commit.
NeverTorn ==
  \A r \in Readers : at[r] = "done" => \E i \in 1..Latest : out[r] = Content(hist[i].db)

\* A statement is refused only if its plan is stale, so that planning it anew gives
\* another plan: the guards of the executor ask no more than the gates of the planner.
\* Sorted scans are excepted, whose guard asks the heap file.
RefusedIsStale ==
  \A r \in Readers :
    at[r] = "error" /\ calm /\ quiet[r] /\ plan[r].node # "sorted" =>
      plan[r].node # NodeFor(want[r], LoadedAt(Latest))
=============================================================================
