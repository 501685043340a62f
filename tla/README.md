# A TLA+ verification of pg_deltax

pg_deltax is a PostgreSQL extension (Rust, pgrx) that keeps time-partitioned tables
and compresses old partitions into columnar segments. A compressed partition stays
writable. This directory holds TLA+ models of the parts of it where order matters:
concurrent statements, maintenance functions, caches and the bookkeeping between them.

Paths below are relative to the repository (`src/compress.rs` is
`src/src/compress.rs` in `PROJECT.json`, which counts from the directory above).

## 1. The system

| Part | Source | What changes state |
|---|---|---|
| Catalog | `catalog.rs`, `lib.rs` | `deltax_deltatable`, `deltax_partition` rows; DML gate flags; counters |
| Partitions | `partition.rs`, `worker.rs` | create, premake, drain of the default partition, retention drop |
| Compression | `compress.rs` | compress, decompress, compact, decompose-on-write, tombstones |
| DML interception | `scan/hook.rs`, `catalog.rs` (trigger) | ExecutorStart hook, insert trigger, `DML_BYPASS`, memo, gate-flag cache |
| Scan planning and execution | `scan/**` | plan gates, segment pruning, decode, aggregation, parallel scan |
| Blob cache | `blob_cache/**` | shared memory shards: buckets, LRU list, pins, eviction |
| Condition cache | `scan/exec/cond_cache.rs` | per-segment bitmaps of evaluated conditions |
| Background worker | `worker.rs` | launcher, per-database worker, maintenance passes in subtransactions |
| Direct backfill | `copy.rs`, `copyparse.rs`, `copyparquet.rs` | COPY straight into segments with parallel parsers |
| DDL | `ddl.rs` | ALTER TABLE tiers, rename cascades, companion tables |
| Codecs | `compression/**`, `bloom.rs` | pure encoders and decoders |
| Functions | `functions/**`, `timeparse.rs` | `time_bucket`, `first`/`last`, timestamp parsing |
| Statistics | `stats.rs`, `scan/cost.rs` | planner estimates only |

How they interact: the worker and users call the functions of `compress.rs`; user
statements reach them through the executor hook; all of them meet on the partition's
heap, its companion tables and its row in `deltax.deltax_partition`. Readers decide
from the flags on that row, cached per backend, whether to look at the heap and at
the tombstones at all.

## 2. Modules

| Module | Models | Extended by |
|---|---|---|
| `PartitionStore` | the stored state of one partition (catalog row, heap, segments, tombstones) and each physical operation on it | `CompressedDml`, `ScanGates` |
| `CompressedDml` | sessions with transactions, snapshots and locks that run DML and maintenance on a partition | `MCCompressedDml` |
| `DeltaTable` | the abstract specification: a set of rows that changes by what transactions did | (refined by `CompressedDml`) |
| `ScanGates` | readers: cached flags, cached plans, gates of planner and executor | `MCScanGates` |
| `BlobCache` | the shared blob cache: lookup, pin, insert, eviction, errors | `MCBlobCache` |
| `CacheLists` | the doubly linked list and the bucket chains of one shard | `MCCacheLists` |
| `Maintenance` | partitions of time, the worker's passes, drains, retention | `MCMaintenance` |
| `SegmentBuild` | how rows become segments, and what is stored about each | `Pruning`, `Backfill` |
| `Pruning` | conditions on columns, and the tests that leave segments out | `ScanExec`, `AggState` |
| `ScanExec` | a scan of a partition that changes, with its caches and Top-N | `MCScanExec` |
| `AggState` | accumulators, groups, HAVING, the choice of winners | `AggExec` |
| `AggExec` | an aggregate query from its plan to its result | `MCAgg` |
| `Backfill` | COPY into segments, by one thread or many | `MCBackfill` |
| `NumberCodecs`, `TextCodecs` | the encoders and decoders of columns | `ColumnBlob` |
| `ColumnBlob` | a column, its blob and every reader of the blob | `MCColumnBlob` |
| `WriteSetProofs` | lemmas on the operations of `PartitionStore` and what their commit stores | `CompressedDmlProofs`, `TableSteps` |
| `CompressedDmlProofs` | type correctness of `CompressedDml`; the gate flags are exact | |
| `CountProofs` | `row_count` is exact, tombstones have rows | |
| `TableSteps` | where the rows are (`RowInv`), kept by each step; which step of `DeltaTable` it is | `TableProofs` |
| `TableProofs` | rows are stored once; the partition implements `DeltaTable` | |
| `ScanGatesProofs` | queries return the rows of their snapshot, and of now when nothing interferes | |
| `BlobCacheProofs` | pins protect, keys are cached once, counters are exact | |
| `MaintenanceProofs` | the catalog is exact, rows are kept, partitions reach ahead | |

The `MC` modules only give constants their values. Operators with an underscore in
their name (`BumpCompaction_Subtract`) are deliberate faults, used to see that a
property can fail; no specification refers to them.

## 3. The models and the code

### 3.1 PartitionStore

`Db` is one version of a partition: `cat` (the columns `is_compressed`,
`has_loose_rows`, `has_tombstones`, `row_count`, and the segment id high-water mark
of `deltax.deltax_partition`), `heap` (rows in the partition itself: loose rows when it
is compressed), `seg` (segment id to rows: the `_meta` and `_blobs` companions) and
`tomb` (pairs of segment id and row: the `_tombstones` companion). A row is a key and
one column value; which rows share a segment is kept, how they are encoded is not.
A transaction collects its changes in a write set (`NoWrites`, `InsertRows`,
`DeleteSegments`, `TruncateHeap` ...) that `Apply` lays over a version, which is how
a transaction sees its own writes and how COMMIT makes them those of all.

### 3.2 CompressedDml

A statement takes two steps: `StartStatement` (the table lock of the plan, the
snapshot) and the action of its operation. Every wait of the code (a table lock, the
`FOR UPDATE` of `claim_segments_for_tombstone`, the catalog row) is a condition of the
second step, so any other session can act in between and the operation then works on
a later committed state while the statement's own scan keeps its snapshot.

| Action | Code |
|---|---|
| `Insert` | `deltax_note_compressed_insert` with `LOOSE_FLAG_MEMO`, and the heap insert |
| `Delete`, `Update` | `deltax_executor_start`: candidates, then tombstones, whole-segment drop or decompose, then the plan itself |
| `CompactSkip`, `CompactNothing`, `CompactLoose` | the returns of `compact_partition_impl` |
| `CompressSkip`, `CompressRead`, `CompressFinish` | `compress_partition_impl`: rows are read through a cursor, TRUNCATE follows |
| `DecompressSkip`, `Decompress` | `decompress_partition_inner` |
| `Commit`, `Abort` | transaction end with the callbacks of `catalog.rs`; `Abort` stands for every error, and leaves `DML_BYPASS` set where the code does |

The candidate segments of a DELETE or UPDATE are any superset of the segments with
matching rows (`IsCandidateSet`): pruning may keep too much, never too little.

`DeltaTable` says what the partition promises: COMMIT changes the visible rows by
exactly what the transaction's statements added and removed, and nothing else changes
them. `ImplementsTable` is the refinement, with `content` the heap rows and the
segment rows without tombstones.

### 3.3 ScanGates

One partition, writers whose commits are single steps (their concurrency is the subject
of `CompressedDml`) and readers that go through the stages of a statement:

    Query/Execute -> (Revalidate) -> Gate -> Expand -> SavePlan -> Start -> Begin -> Scan -> ScanTail -> Finish

`flags[r]` is `DML_FLAGS` of a backend together with the version it was loaded under,
`inbox[r]` an invalidation message it has not processed, `plan[r]` and `valid[r]` its
cached plan. A commit is visible first, sends its invalidation in a second step
(`SendInvals`) and releases its exclusive lock then, the order PostgreSQL has. `Gate` is
the flattening decision, taken before any partition is locked; `Expand` is regular
expansion, which locks the partition; `NodeFor` has the conditions of the planner hooks
for DeltaXAgg, DeltaXMinMax, sorted DeltaXDecompress and DeltaXAppend; `Refuses` the
stale-plan guards of the executor; `SegmentRows` and `ScanTail` what the nodes read.
`used` says whether the heap file has blocks, which dead rows keep although no flag is
set.

### 3.4 BlobCache and CacheLists

A backend is between calls (`idle`), at a miss, at a hit whose pin is not counted yet, or
at a step of `insert` under the shard's exclusive lock. The steps of `insert` are those
of the code: the second lookup under the lock, the soft-cap check, the two allocations
with eviction and retry, `evict_in_shard` from the old end of the list. An LWLock is held
by whoever is at a place that holds it (`Locks`). A DSA allocation may fail at any time,
and does beyond the limit of the area. `QueryError` ends a query without
`end_custom_scan`: its pins are forgotten and their counts stay.

`CacheLists` keeps the pointers `lru_prev`, `lru_next`, `bucket_next`, the head and the
tail, and does the assignments of `lru_prepend`, `unlink_from_lru` and
`unlink_from_bucket` one after the other; its reference is a sequence.

### 3.5 Maintenance

Times are integers with the epoch at 0; `Second`, `Minute` and `Day` are multiples of the
unit, and an interval is whole seconds (`interval_to_usec`). A table has partitions, each with the bounds
PostgreSQL knows and a row in the catalog, a default partition and rows, told apart by
their time. A session's changes are a draft that holds the table's lock until COMMIT; a
pass goes from table to table in subtransactions, so an error (`WorkFails`, or a step
that fails by itself: an overlap, a row without a partition) drops the draft of one table
and goes on. `ReadDefault` is a step of its own: the code reads the boundaries of the
default partition before it detaches it, and rows may arrive in between.

Division truncates as in Rust and in SQL (`Quot`), which is why `AlignToInterval` and
`DrainBoundary` differ below the epoch. A bound is formatted as local time of the session
and read back (`FormatTs`, `Bound`), to the second; a partition's name is the day of its
local start, or the minute if the interval is below a day. `CreateTable` takes the caller's
premake (`Premakes`), a pass its own (`Premake`, 3 in `worker.rs`).

### 3.6 SegmentBuild, Pruning and ScanExec

`SegmentBuild` has the order of the cursor, the ends of segments, and the metadata of a
segment: extrema, sums and counts, bloom filters, value bitmaps with the list they index,
and what compaction does to it. `Pruning` has the conversion of WHERE conditions to batch
conditions, their evaluation on columns with SQL's nulls, and every test that leaves out a
segment: `segment_by` values and time bounds, extrema by index or by `_colstats`, the
partition's range, bloom filters, bitmaps, dictionaries, and the classification into
all, none or some rows.

`ScanExec` puts them to work on a partition that goes through `Insert`, `Compress`,
`Compact`, `Tombstone` and `Decompose`, as far as the locks of a running scan allow. A
scan begins with a snapshot (`BeginDeltaxAppend`), leader and workers claim segments
(`LoadNextSegment`), the leader emits the heap (`EmitHeapTail`); `Rescan` starts over;
`ExecTopN` is the two-pass Top-N with its thresholds, byte-order candidates and threads. The
blob cache and the condition cache are shared by all scans and keyed by segment id.

### 3.7 AggState and AggExec

A query is planned, the partitions may change, and it is executed. `PlanPath` chooses
between the three custom nodes and PostgreSQL's aggregation; `BeginAggStale`,
`BeginAggCatalog`, `BeginAggMetadata` and `BeginAggScan` are the ways the DeltaXAgg node
begins, in the order the code tries them. In a parallel scan `Process(w)` is one claim and
the work on the segment, so any split of the segments among threads is covered. The
merges are actions of their own: speculative, tied, partitioned and bare LIMIT, for
compact and for mixed keys, the derived order, the full merge, the merge of distinct
counts and the serial path. The counting filter that drops groups too rare to win
(`CountFilter`, `PickFloor`) is there with saturation and keys that share a slot. Where the
catalog has no row count, or 0, the count falls through to the next way of beginning
(`CountsKnown`).

### 3.8 Backfill

A statement reads text through PostgreSQL, text files by itself or in parsed batches, or
Parquet files. In the pipeline, decoders, compressors and the main thread are processes
connected by three bounded channels: the main thread never blocks on a full channel of
segments but drains finished ones instead (`SendWait`, `DrainOne`). Buffers for
metadata, statistics and blobs are flushed at their limits, in the order of the code.
Threads may die (`DecoderPanics`, `CompressorPanics`); a row group may be unreadable.

### 3.9 NumberCodecs, TextCodecs and ColumnBlob

Bit streams are sequences of bits, integers have `Width` bits and wrap as in a release
build; texts are sequences of bytes, with their lengths between them as in the buffers the
readers search. `CompressTypedColumn` gives the set of blobs the code may write: which of
the two dictionary forms is smaller depends on the LZ4 library, so both are in it, and so
are the whole-column LZ4 blobs of older versions. The readers are those of
`datum_utils.rs` and of the threads (`text_col.rs`). Each state is one column: `AppendValue`
adds a row and the properties compare every reader with the values.

## 4. Runs

Every run is expected to pass. What their bounds let happen:

| Run | Checks | Bounds |
|---|---|---|
| `rc_dml` | `TypeOK FlagsExact RowCountExact NoOrphanTombstones ImplementsTable` | two users and the worker, two keys, two segment ids, one statement per transaction: enough for two DELETEs of one segment, a decompose beside a tombstone, a compaction between an insert's snapshot and its lock |
| `lifecycle` | `OwnWritesFlagged FlagInv StoredOnce ImplementsTable` | transactions of two statements; one session writes and compresses, the other compacts and decompresses: the state space closes over repeated cycles |
| `rr_dml` | `ImplementsTable` | a REPEATABLE READ user beside a READ COMMITTED one and the worker, two column values |
| `gates` | `CalmReadExact MvccExact RefusedIsStale` | one reader, READ COMMITTED or REPEATABLE READ, three commits, each kind of query, planned anew or prepared, commits at any point of a statement |
| `cache` | `CacheInv PinnedAlive CachedOnce AccountingExact InsertReturns` | two backends, three keys of two sizes in two shards, three entries, a leaked pin, under fairness: two keys share a shard, the cap is below the total |
| `lists` | `ListWalks ChainWalks` | five entries in two buckets: head, middle and tail of list and chains |
| `maintenance` | `RowsKept CatalogExact FutureCovered DefaultDrained` | the worker and a user, one table, a row before the first partition and one after the last, a clock that crosses the epoch, intervals below a day, a premake of 0 at creation and 1 in passes, one error, under fairness |
| `scan` | `ScanExact TopNExact PruningKeepsMatches ClassificationSound BitmapsExact` | four rows with nulls in segments of two, 16 WHERE clauses, serial, parallel and Top-N scans, two scans and one DELETE: compaction adds to the bitmaps' list, a second scan meets the caches of the first |
| `scan_by` | `ContentsExact CachesCoherent SegmentsOrdered` | the same with a `segment_by` column and texts too varied for bitmaps |
| `agg` | `AggExact TopNGroupsExact BareLimitExact` | some 150 queries over two partitions of up to four rows, an INSERT or DELETE at any point, one or two threads, one or two batches |
| `load` | `LoadExact LoadEnds` | channels of one and two places, two decoders, two compressors, up to six segments in the pipeline: every channel fills up, a thread may die, another session may compress a partition |
| `blobs` | `BlobExact FiltersExact LengthsExact` | numbers of four bits with the extrema and the ends of all buckets, up to nine rows; texts whose bytes are lengths, too, in blocks of two; dictionaries with indices of one and of two bytes |

Backends of `ScanGates` share nothing but the committed state and the messages, so
one reader has the behaviours of many; two segment ids let a compaction add a segment
beside an old one. Two backends suffice for the cache, where conflicts are between pairs;
`PinsProtect` and `KeysCachedOnce` (section 6) hold for any number. Symmetry is used for
keys, which the specifications only compare, and not in a run with a liveness property.
`scan`, `scan_by` and `load` turn the deadlock check off because rows, scans and the
statement come to an end, `blobs` because a column is full at its bound.

What the properties say:

* `FlagsExact`: in each committed state of a compressed partition, loose rows imply
  `has_loose_rows` and tombstones imply `has_tombstones`. All gates rest on it.
* `OwnWritesFlagged`: the same for what an open transaction sees of its own writes.
* `RowCountExact`: `row_count`, from which DeltaXCount answers, is the number of live
  segment rows.
* `StoredOnce`: no key is stored twice. `NoOrphanTombstones`: a tombstone names a row of
  a segment that exists.
* `ImplementsTable`: refinement of `DeltaTable`.
* `CalmReadExact`: a statement that no commit overlaps returns the stored rows, provided
  no commit fell inside an earlier statement or REPEATABLE READ transaction (why this
  proviso: section 5).
* `MvccExact`: a scan whose flags were read under its own snapshot returns the rows of
  that snapshot, unless a TRUNCATE hit the heap under it (the documented exception).
* `RefusedIsStale`: a statement that a stale-plan guard refuses has a plan the planner
  would no longer choose.
* `PinnedAlive`: bytes behind a pin stay. `CachedOnce`: one entry per key. `ListWalks`,
  `ChainWalks`: eviction and lookup meet every live entry and no other.
  `AccountingExact`: the soft cap is compared with what is cached. `InsertReturns`: an
  insert ends, also when everything is pinned.
* `RowsKept`: a row is in one place until retention may drop it. `CatalogExact`: the
  catalog describes the partitions and companions that exist. `FutureCovered`: after
  a pass, and before the first one after the creation, the coming intervals have partitions,
  as many as that call was to make. `DefaultDrained`: rows do not stay in the
  default partition.
* `ScanExact`, `TopNExact`: results are SQL's, each row once, whatever is pruned, cached,
  or claimed by whom. `PruningKeepsMatches`, `ClassificationSound`, `BitmapsExact`: the
  metadata tells the truth after every history of the partition. `ContentsExact`: heap and
  segments hold each row once. `CachesCoherent`: an id in the caches means the segment that
  has it now. `SegmentsOrdered`: the live rows of a segment are in order of time, which Top-N's
  cutoff relies on, and are rows of the table that have the segment's `segment_by` values.
* `AggExact`, `TopNGroupsExact`, `BareLimitExact`: the groups and values are SQL's,
  whichever node, thread and merge produced them.
* `LoadExact`: what is loaded is what was given, with metadata, statistics and blobs that
  belong together. `LoadEnds`: the statement ends.
* `BlobExact`: decoding undoes encoding. `FiltersExact`: filters on encoded texts keep the
  rows the condition keeps. `LengthsExact`: lengths, `<> ''` and selections are right though
  texts, or whole blocks, are not read; it excepts the columns on which `<> ''` fails
  (`LooksIntoNoSelection`, section 5).

### Fairness

* `BlobCache!FairSpec`: a backend inside a section under an LWLock runs on (LWLocks hold
  off interrupts, no step of the section waits), and a queued waiter gets a lock that
  is released again and again (strong fairness of `InsertLock`).
* `Maintenance!FairSpec`: a job whose next step can be taken takes it (`JobReady` is where
  that is; the sessions are backends and the operating system schedules them), and
  sessions start passes again and again, as the worker's timer does.
* `Backfill!Fairness`: the main thread and each thread of the pipeline run while they can.
  The phases outside the pipeline (`Alone`) are the main thread's own, with a step enabled
  in each of their states: the first conjunct is weak fairness of these steps, written so
  that TLC need not decide ENABLED. With `WF_vars(Reader \/ Finish)` in its place the run
  passes as well, in over five minutes.
  `LoadEnds` needs fewer threads to die than the channel of segments has places: see
  section 5.

## 5. Where the code and its documentation differ

The runs state what holds. This section lists what does not, as met while modelling; the
bounds and constants of the runs leave these cases out, and each can be brought back.

**Compressed partitions** (`MCCompressedDml` has the constants)

* Rows committed between compression's read and its TRUNCATE are lost (`compress.rs:1102`),
  where `dev/docs/COMPRESSED_DML.md:241` and the comment at `compress.rs:5700` take the
  TRUNCATE to be safe under READ COMMITTED. `Calls <- InsertVsCompress`,
  `StartRows <- OneRow`: `ImplementsTable` fails.
* Compaction in a REPEATABLE READ transaction truncates tombstones its snapshot does not
  show. `Calls <- DeleteVsCompact`, `Iso <- WorkerRepeatable`: `ImplementsTable` fails.
* `FlagsExact` fails when a REPEATABLE READ transaction compacts (it clears
  `has_loose_rows` over rows its snapshot does not show) or inserts after a compaction it
  does not see (it finds the flag set in its snapshot and does not set it again); when one
  transaction inserts, compacts and inserts again (`LOOSE_FLAG_MEMO` suppresses the second
  update); and when a session inserts after its own decompression failed (`DML_BYPASS`
  stays set, as it does in `ddl.rs:46`).
* No document asks for these uses to be avoided: `dev/docs/COMPRESSED_DML.md:216` speaks of
  REPEATABLE READ as supported, and `compact_partition_impl` has a branch for it
  (`compress.rs:6264`).
* A segment id given out by a compaction that rolls back is given out again
  (`compress.rs:5903`); what the shared caches hold under it is then another segment's
  (`dev/docs/CONDITION_CACHE.md:88` takes ids to be unique).

**Gates**

* Flags of the planning snapshot with segments of the execution snapshot: a reader may see
  neither the state before nor after a decompose (`NeverTorn`).
* A flag map loaded under an older snapshot after the invalidation was consumed stays
  (`hook.rs:230`, against the comment at `hook.rs:77`): `QuietReadExact` fails where
  `CalmReadExact` has its proviso.
* A prepared statement with a flattened plan is refused at each retry.
* `begin_custom_scan` refuses a sorted scan when the heap file has blocks, also when all of
  its rows are dead, where planning anew gives the same plan: `RefusedIsStale` excepts
  sorted scans for this reason.

**Caches**

* A query that ends with an error leaves its pins (`decompress.rs:4535`, against
  `blob_cache/mod.rs:93`): `NoPinsBetweenQueries` fails.
* A hit stores `last_used` and nothing reads it: eviction is by age of insertion.

**Maintenance**

* Below the epoch the drain's boundary is truncated and `align_to_interval`'s is not
  (`worker.rs:482`): such a row has no partition and the table's maintenance keeps failing.
  A row whose time is NULL does the same.
* Partitions of intervals below a minute share names, which go to the minute
  (`partition.rs:58`). The name that is there already is taken for the partition
  (`CREATE TABLE IF NOT EXISTS`, `partition_exists`), the second one is not made, and its rows
  go to the default partition. No function refuses such an interval. With `Minute = 4`,
  `Day = 8` in `maintenance.cfg`, `FutureCovered` fails.
* The passes make 3 partitions ahead (`worker.rs:315`) whatever premake a table was created
  with: `FutureCovered` promises no more than that after a pass.
* Sessions in different time zones give a partition different names and bounds
  (`Offset <- TwoZones`).

**Scans**

* Of two conditions on one text column one is evaluated, and a text `<>` or LIKE on a
  `segment_by` column is not, while PostgreSQL's own test is switched off
  (`batch_qual.rs:446`).
* The parallel text Top-N does not evaluate IN lists on texts, nor numeric conditions on
  `segment_by` columns. Its threads keep max(100 * limit, 10000) candidates by byte order,
  which may cut off winners of another collation (`decompress.rs:2937`). In the runs the
  margin is the number of rows; with `Margin = 3` in `scan.cfg`, `TopNExact` fails.
* A single equality on a NOT NULL date or timestamp column other than the time column takes
  the number of rows from a count that is 0 for such columns (`segments.rs:507`).
* A constant of another type is read as one of the column's type.

**Aggregation**

* The speculative Top-N adds the per-thread ranks also where they are minima or maxima,
  and its bound assumes that a missing group has rank 0 from below: wrong for ascending
  orders and negative sums (`parallel_compact.rs:1994`).
* Winners that are equal among themselves are accepted without the bound
  (`parallel_compact.rs:1885`): the actions `CompactTiedTopN` and `MixedTiedTopN`, which
  `TopNGroupsExact` excepts.
* A LIMIT without ORDER BY takes its keys from the largest map and may return fewer groups
  than there are (`LimitFilled`; `dev/docs/PERF_IMPROVEMENTS.md:1385`).
* The derived order emits its winners unsorted; the serial path and the full merge sort only
  when there are more groups than the limit. HAVING in the partitioned merge reads NULL as 0
  (`HavingHoldsRaw`). `MIN(col + const)` ignores the constant.
* DeltaXMinMax is chosen without a look at HAVING (`hook.rs:3064`; the other shortcuts look,
  `hook.rs:2585`, `hook.rs:2977`), and its node does not evaluate it. `PlanPath` does the
  same; no query of the run has the two together.
* `COUNT(col)` of a date, boolean or `segment_by` column through DeltaXMinMax is 0.

**Backfill**

* Loads do not split segments by `segment_by`. A last line without terminator and with a
  wrong number of fields is skipped in silence. A row group whose least and greatest time
  both fit no partition is skipped as a whole.
* A load into an uncompressed partition that has heap rows leaves `has_loose_rows` false
  (`dev/docs/DIRECT_BACKFILL.md:23`).
* The pipeline does not look at what its threads returned: the rows of a decoder or
  compressor that panics are missing (`LoadExact` requires `panics = 0`), and if all
  compressors are gone, or as many die as the channel holds segments, the main thread waits
  for ever (`LoadEnds`).

**Codecs**

* A text of 65,536 bytes or more has its length taken modulo 2^16 in a thread's column
  (`text_col.rs:298`; `LenMod`).
* `LIKE '%'` on an LZ4 blob does not select empty texts: the search of `datum_utils.rs:691`
  is for the empty needle.
* `<> ''` on a dictionary with NULLs and no empty text indexes an empty vector
  (`datum_utils.rs:939`), where `dictionary.rs:434` gives the empty vector to mean that all
  rows pass: `WithNonEmpty` returns Null for the error, and `LengthsExact` is strict on all
  other columns.
* Differences of integers are plain subtractions: they wrap in a release build, as the
  models do, and panic in a debug build.

## 6. Proofs

| Theorem | Module | States |
|---|---|---|
| `TypeCorrect` | `CompressedDmlProofs` | `Spec => []TypeOK` |
| `FlagInvariance` | `CompressedDmlProofs` | `PlainUse /\ Spec => []FlagInv` |
| `FlagsAreExact` | `CompressedDmlProofs` | `PlainUse /\ Spec => []FlagsExact` |
| `OwnWritesAreFlagged` | `CompressedDmlProofs` | `PlainUse /\ Spec => []OwnWritesFlagged` |
| `CountInvariance` | `CountProofs` | `PlainUse /\ Spec => []CountInv` |
| `RowCountIsExact` | `CountProofs` | `PlainUse /\ Spec => []RowCountExact` |
| `TombstonesHaveRows` | `CountProofs` | `PlainUse /\ Spec => []NoOrphanTombstones` |
| `RowInvariance` | `TableProofs` | `PlainUse`, then `Spec => []RowInv(FALSE)`, and `Spec /\ []Undisturbed => []RowInv(TRUE)` |
| `RowsAreStoredOnce` | `TableProofs` | `PlainUse /\ Spec => []StoredOnce` |
| `PartitionIsTable` | `TableProofs` | `PlainUse /\ Spec /\ []Undisturbed => ImplementsTable` |
| `SoleWriterIsTable` | `TableProofs` | `PlainUse /\ SoleWriter /\ Spec => ImplementsTable` |
| `GatesInvariant` | `ScanGatesProofs` | `Spec => []GatesInv` |
| `ReadsAreExact` | `ScanGatesProofs` | `Spec => []MvccExact` |
| `CalmReads` | `ScanGatesProofs` | `Spec => []CalmReadExact` |
| `RefusalsAreStale` | `ScanGatesProofs` | `Spec => []RefusedIsStale` |
| `CacheInvariant` | `BlobCacheProofs` | `Spec => [](CacheTypes /\ CacheInv)` |
| `PinsProtect` | `BlobCacheProofs` | `Spec => []PinnedAlive` |
| `KeysCachedOnce` | `BlobCacheProofs` | `Spec => []CachedOnce` |
| `CountsAreExact` | `BlobCacheProofs` | `Spec => []AccountingExact` |
| `CatalogIsExact` | `MaintenanceProofs` | `OneFixedZone`, then `Spec => []CatalogExact` |
| `RowsAreKept` | `MaintenanceProofs` | `OneFixedZone`, then `Spec => []RowsKept` |
| `FutureIsCovered` | `MaintenanceProofs` | `OneFixedZone`, `NamesApart`, then `Spec => []FutureCovered` |

They hold for every number of sessions, readers, rows, segments, backends, shards and entries,
of tables, intervals and errors;
the assumptions are the named `ASSUME`s of the modules (finite sets of keys, values,
backends and addresses, constants of the right kind).

**Flags.** `PlainUse` says that transactions are READ COMMITTED, that a
maintenance function is a transaction of its own, and that a session which decompresses
does not also write. This is a restriction of the theorems, not of the program: without any
one of the three the property is false (section 5), and no document asks for them. The
worker's own pass is not of this kind. It drains, compresses and compacts in one transaction
(`worker.rs:290-377`), so on one partition an insert may come before a compress or a compact.
Transactions that insert and compact beside a user's INSERT, DELETE and UPDATE are
model-checked only (`Calls <- PassCalls`, without `"compact"` in `OwnTxn`, in
`lifecycle.cfg`: `FlagsExact`, `RowCountExact`, `OwnWritesFlagged`, `StoredOnce`,
`NoOrphanTombstones` and `ImplementsTable` hold); one that compresses has the race of
section 5.
`FlagsExact` is not inductive: an insert that finds the flag set writes no catalog row, and
a compaction that clears the flag must not meet it. `FlagInv` adds why they cannot meet. Only the exclusive table lock lets a
session clear a flag, truncate or change `is_compressed`, and whoever holds it is alone
(`LockDiscipline`); each operation runs under the lock its code takes, a memo is only kept
while the flag it stands for is set (`StepDiscipline`); and the state each session would
commit is covered by the flags it would commit with it (`Covered`). The proof that a step
preserves it has one lemma per action; `OthersKeep` shows for all of them that the sessions
that do not move keep their part when the committed state changes under a lock they do not
exclude.

**Counts.** `row_count` is kept by adding and subtracting, so it is right only if every
writer starts from a right count. `CountInv` says that the committed count is right, and so
is the one the holder of the catalog row would commit (`Counted` of its own segments and
tombstones); and that a session which does not hold the row has written no segment and no
tombstone (`Unowned`). There are two exceptions: compress between writing its segments and
its catalog row, and a TRUNCATE of `_tombstones` under the exclusive lock that found none.
The catalog row therefore serializes the writers, and a commit cannot overwrite what
another one counted. Lemmas on cardinalities show that the three changes
(tombstones on live rows, segments dropped, segments added) move the count by
what the code adds or subtracts, and that its saturating subtraction never saturates.
For compress the proof uses the lock discipline of `FlagInv`.

**Table.** `PartitionIsTable` is the refinement: with the committed rows (heap and live
segment rows) as the table's content, and `add`, `rem` as the changes of its open
transactions, every step of `CompressedDml` is a step of `DeltaTable` or none. The lemmas
`...IsWrite`, `...IsCommit`, `...IsAbort` and `...IsStutter` say which, per action;
`CommitIsCommit` is the one that needs the most: that the write set, applied to the rows as
they are *now*, gives what the statements did to the rows as *they* saw them. `RowInv` is
why. It goes by the lock a session holds. With none it has written nothing. With ROW EXCLUSIVE
it has written only heap rows and tombstones, its tombstones are on live rows, and no key it
inserted and no row it deleted is another writer's (`RowEffect`, `Apart`): whoever came second
waited and looked again. With ACCESS EXCLUSIVE it is alone: the heap and segments it would
commit hold the committed rows as its statements changed them, wherever it moved them
(`TableEffect`). No key is stored twice in the committed state or in what a session would
commit (`Unique`), which is what `StoredOnce` says.

Compression breaks the pattern: it reads the heap under ACCESS SHARE and truncates it under
ACCESS EXCLUSIVE, and rows a writer commits in between are lost (section 5). So the
refinement is proved under `Undisturbed` (no writer holds its lock between the two), which
`SoleWriterIsTable` derives from the calls the sessions make: nobody writes beside a
session that compresses. `RowInv` has the mode as its parameter. `RowInv(FALSE)` does not
assume `Undisturbed`, and gives `StoredOnce` with the race included: it loses rows, it
stores none twice. `StartAssumption` says that a partition starts without duplicate keys.

**Readers.** The three properties of `ScanGates` speak of the end of a statement; `GatesInv`
says what holds on the way there. Of the committed versions: a version's flags deny none of
its loose rows and tombstones (`VersionOk`; `GatesAssumption` asks it of the first version,
where it is `FlagsAreExact`, and every commit keeps it), and a heap file that held rows stays
used until a TRUNCATE replaces it. Of each reader: its map is the catalog of a version
(`FlagsOk`), and that of the newest one if no invalidation is due or waiting and no commit
fell inside a statement (`FlagsFresh`); under the same condition its snapshot is the newest
version (`SnapOk`, `QuietOk`). The start of the executor then settles what the scan may leave
out (`Settled`): a tail that is not read is empty under the snapshot, or its file is gone; a
node that answers from metadata has no tombstones. `ConsultRight` is the step on which
`MvccExact` and `CalmReadExact` meet: a flag read under the scan's own snapshot, or in a quiet
statement from a fresh map, is the snapshot's flag. A commit changes what is newest for all
readers at once; `CommitReader` shows that ending `quiet` for the statements it falls into,
and `calm` if there are any, is all that is lost.

**Pins.** `PinnedAlive` needs to know that eviction, which frees an entry it found with
`pin_count` 0, cannot race a lookup that has found it and not counted its pin. `CacheInv`
adds that a shard's exclusive lock excludes all others (`LockOk`), that a lookup between
finding and counting holds an entry that is live and has its key, that an evicting backend's
place in the list is a live entry of its shard with no pin (`StepOk`, `ListsLive`), and that
`pin_count` is at least the number of pins held (`PinsCounted`; at least, because errors
leave counts behind). `KeysCachedOnce` follows from the second lookup under the exclusive
lock: from then on no entry of the shard has the key (`Holding(arg[b]) = {}`).

**Counters.** `AccountingExact` counts bytes: the bytes of a set of entries are the pairs of
an entry and one of its byte positions (`BytesOf`), and a counter is right if it is their
number. Since the entries of a shard do not share bytes, an insert adds the `Size` of its
key to the shard's set and to the total, and an eviction takes it away (`BytesAdded`,
`BytesRemoved`); `CacheInv` gives that the entry inserted was not live and the one evicted
is, so that no entry is counted twice or taken off twice.

**Maintenance.** `OneFixedZone` says that all sessions are in one time zone with a fixed
offset; with two zones `CatalogExact` is false (section 5). `CatalogExact` alone is not
inductive. `MaintenanceInv` adds that names tell catalog rows apart, since compression and
retention find partitions and companions by name; that no row is stored that was not
inserted; that a transaction did not begin in the future, since it drops by its own
`now()`; and that the draft a session holds the lock for is as good as the committed table,
also after inserts, which the lock keeps out. Each step of `MaintainOneTable` has a lemma:
it keeps `Good` if it succeeds. With a fixed offset the text of a bound is read back as the
same instant (`BoundIsTime`), so partitions and catalog rows have the same ranges. A row
that retention drops lies below the end of its partition, which the catalog states.

**Partitions to come.** `ensure_future_partitions` takes a partition to be there when its
*name* is registered, so `FutureCovered` rests on names standing for intervals. `FutureInv`
says that every catalog row is one whole interval that starts at a multiple of the interval,
under the name of its start (`Regular`); that the boundaries a drain has read are such
multiples; that the draft of a pass reaches as far ahead of the pass as it should (`Reaches`),
and that the draft of a drain keeps every partition there was. `NameTellsStart` shows that
in one fixed zone two starts with one name are the same if the interval is a minute or more
(`NamesApart`); below a minute they need not be, and the property is false (section 5). What
retention drops ends before the pass began, so it takes nothing from what lies ahead.

Only model-checked: `CacheLists`, whose walks are recursive; `ScanExec`,
`AggExec`, `Backfill` and `ColumnBlob`, whose results are folds over rows; and liveness
(`InsertReturns`, `DefaultDrained`, `LoadEnds`), which is out of the prover's reach.

## 7. What is not modelled

* **DDL** (`ddl.rs`): one statement of one session under an exclusive lock, which decides
  from parse trees and repeats a command on the companion tables as SQL. It has no state of
  its own; schema drift between partitions is left out of `ScanExec` for the same reason.
* **Planner paths, costs, statistics, EXPLAIN, wire formats of plans**: they choose between
  plans of the same result or carry a plan from planner to executor. The gates are in
  `ScanGates` and `PlanPath`.
* **JSON extraction and the recognition of aggregates**: syntactic matching over
  PostgreSQL's parse trees.
* **Partial aggregation in parallel worker processes** (`add_agg_partial_path`,
  `path.rs:1562-1735`, with the branches for it in `callbacks.rs:435-458`, `1246-1276` and
  `1589-1688`): processes claim segments from a shared cursor as the threads of `Process` do
  and send partial states that PostgreSQL's own node combines. `AggExec` has the threads
  inside one process only.
* **Caches that follow the catalog**: `COLSTATS_CACHE` (`segments.rs:33`), a backend's copy of
  `_colstats`, is keyed by segment id and holds what never changes for an id, so it could be
  stale only where ids are used again (section 5). `PARTITION_STATS_CACHE` (`cost.rs:20`) is
  dropped by the invalidation that drops `DML_FLAGS` (`hook.rs:310-322`) and is as fresh or
  stale as the flags are; `RowCount` of `AggExec` takes it to be fresh.
* **A boolean column as a condition by itself** (`batch_qual.rs:474-516`): it becomes an
  equality that PostgreSQL's test repeats, as an IN list does.
* **Release of `LOOSE_FLAG_MEMO` when a subtransaction aborts** (`catalog.rs:1134`):
  `CompressedDml` has no savepoints.
* **SQL functions**: `time_bucket` is a division, `first` and `last` keep an extremum.
* **Data below the level of the properties**: general LIKE patterns, regular expressions,
  parsing of dates and lines, types and time units of Parquet columns, rendering of jsonb and other binary values, conversion of date
  and time offsets, the layout of hash tables. Bloom filters are sets of bits.
* **The worker's launcher, prefetching, automatic compaction of loose rows inside a
  maintenance pass**: the first two change no stored state, the third is the compaction of
  `CompressedDml`.
* **PostgreSQL itself**, which appears only as the locks, snapshots, subtransactions and
  messages the code relies on, and the libraries (LZ4, memchr, Parquet).

What would come next: the segment ids of compactions that roll back, together with the
blob cache; proofs that `CacheLists` implements the lists of `BlobCache`.
