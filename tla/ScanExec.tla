------------------------------ MODULE ScanExec ------------------------------
(***************************************************************************)
(* A DeltaXAppend scan of a compressed partition (scan/exec/decompress.rs): *)
(* the leader lists the segments that survive pruning, leader and workers  *)
(* claim them one by one and emit the rows that pass, the leader adds the  *)
(* loose rows; an ORDER BY ... LIMIT may run as a two-pass Top-N instead.  *)
(* Blobs and selections come from caches shared by all sessions. Between   *)
(* scans, and as far as locks allow during one, the partition changes:     *)
(* rows are inserted, deleted in place or moved back to the heap, and      *)
(* compression and compaction build segments.                              *)
(*                                                                         *)
(* One partition. Rows are told apart by their time, which is unique.      *)
(***************************************************************************)
EXTENDS Pruning

CONSTANTS Inputs,               \* sequences of rows to insert
          Queries,              \* [quals, limit, sort, asc, nullsFirst, multi, mode,
                                \*  threads, byteOrder]
          Collate(_),           \* place of a text in its collation
          Margin,               \* max(100 * limit, 10000): candidates a thread keeps
          MaxChanges,           \* bound on deletes and decompositions
          MaxScans              \* bound on scans and rescans

VARIABLES part,                 \* the partition and its companion tables
          todo,                 \* rows not inserted yet
          table,                \* rows inserted and not deleted, for the properties
          query,
          blobs,                \* blob cache: segment id to columns
          cond,                 \* condition cache: set of [id, bqs, count, sel]
          scan, scans, changes

vars == <<part, todo, table, query, blobs, cond, scan, scans, changes>>

\* The segment_by columns in the order of the option.
ByCols == CHOOSE f \in [1..Cardinality(SegmentBy) -> SegmentBy] : SegmentBy = {f[k] : k \in DOMAIN f}
Empty == [x \in {} |-> x]
NoScan == [pc |-> "idle", snap |-> Null, table |-> {}, handles |-> <<>>, next |-> 1, limit |-> 0,
           topn |-> FALSE, tail |-> FALSE, out |-> {}, emitted |-> 0]

Init ==
  /\ part = [compressed |-> FALSE, loose |-> <<>>, segs |-> {}, valmap |-> Empty,
             bits |-> Empty, minmax |-> Empty, tombs |-> Empty, hwm |-> 0]
  /\ todo \in Inputs /\ table = {} /\ query \in Queries
  /\ blobs = Empty /\ cond = {} /\ scan = NoScan /\ scans = 0 /\ changes = 0

-----------------------------------------------------------------------------
(* Changes to the partition. *)
Insert ==
  /\ todo # <<>>
  /\ part' = [part EXCEPT !.loose = Append(@, Head(todo))]
  /\ todo' = Tail(todo) /\ table' = table \cup {Head(todo)}
  /\ UNCHANGED <<query, blobs, cond, scan, scans, changes>>

\* Compression and compaction truncate the heap and wait for scans to end.
Exclusive == scan.pc # "run"

Compress ==
  LET segs == FlushAll(CursorOrder(ByCols, part.loose), 1)
      valmap == FinalizeValmap(segs)
  IN  /\ Exclusive /\ ~part.compressed /\ part.loose # <<>>
      /\ part' = [compressed |-> TRUE, loose |-> <<>>, segs |-> segs, valmap |-> valmap,
                  bits |-> FinalizeBits(segs, valmap), minmax |-> PartitionMinmax(segs),
                  tombs |-> Empty, hwm |-> Cardinality(segs)]
      /\ UNCHANGED <<todo, table, query, blobs, cond, scan, scans, changes>>

IdsOf(segs) == {s.id : s \in segs}
SegOf(p, id) == CHOOSE s \in p.segs : s.id = id
Restricted(f, S) == [x \in DOMAIN f \cap S |-> f[x]]
HighWater_NoMark(p) == MaxOf(IdsOf(p.segs) \cup {0})
HighWater(p) == MaxOf(IdsOf(p.segs) \cup {p.hwm})

\* Live rows of segments go back to the heap; what was stored about the segments goes.
DecomposeSegments(p, ids) ==
  LET Live(id) == LET s == SegOf(p, id)
                      alive == {i \in 1..s.count : i \notin TombsOf(p, id)}
                  IN  [k \in 1..Cardinality(alive) |-> RowOf(s, SortedSeq(alive)[k])]
      Moved[k \in 0..Cardinality(ids)] ==
        IF k = 0 THEN <<>> ELSE Moved[k - 1] \o Live(SortedSeq(ids)[k])
      left == IdsOf(p.segs) \ ids
  IN  [p EXCEPT !.loose = @ \o Moved[Cardinality(ids)],
                !.segs = {s \in @ : s.id \in left},
                !.bits = [c \in DOMAIN @ |-> Restricted(@[c], left)],
                !.tombs = Restricted(@, left), !.hwm = HighWater(p)]

\* Segments with tombstones are decomposed, then the loose rows become new segments.
Compacted(p) ==
  LET q == DecomposeSegments(p, DOMAIN p.tombs)
      new == FlushAll(CursorOrder(ByCols, q.loose), HighWater(q) + 1)
      valmap == AppendValmap(q.valmap, new)
  IN  IF q.loose = <<>> THEN q
      ELSE [q EXCEPT !.loose = <<>>, !.segs = @ \cup new, !.valmap = valmap,
                     !.bits = AppendBits(valmap, new, @),
                     !.minmax = PartitionMinmax(q.segs \cup new)]
Compact ==
  /\ Exclusive /\ part.compressed /\ (part.loose # <<>> \/ part.tombs # Empty)
  /\ part' = Compacted(part)
  /\ UNCHANGED <<todo, table, query, blobs, cond, scan, scans, changes>>

\* DELETE marks a row of a segment ...
Tombstone(id, i) ==
  /\ changes < MaxChanges /\ i \in 1..SegOf(part, id).count \ TombsOf(part, id)
  /\ part' = [part EXCEPT !.tombs = (id :> (TombsOf(part, id) \cup {i})) @@ @]
  /\ table' = table \ {RowOf(SegOf(part, id), i)}
  /\ changes' = changes + 1
  /\ UNCHANGED <<todo, query, blobs, cond, scan, scans>>

\* ... and UPDATE moves its segment back to the heap first.
Decompose(id) ==
  /\ changes < MaxChanges
  /\ part' = DecomposeSegments(part, {id})
  /\ changes' = changes + 1
  /\ UNCHANGED <<todo, table, query, blobs, cond, scan, scans>>

-----------------------------------------------------------------------------
(* The scan. *)
Bqs == ExtractBatchQuals(query.quals)
Participants == CASE query.mode = "serial" -> {"leader"} [] query.mode = "parallel" -> {"leader", "worker"}
                  [] query.mode = "workers" -> {"worker"}

\* Handles in the order of their first time, those without one last.
SortHandles(S) ==
  LET Sooner(h, g) == \/ NullsLast(h.minTime, g.minTime)
                      \/ h.minTime = g.minTime /\ h.id < g.id
  IN  [k \in 1..Cardinality(S) |->
         CHOOSE h \in S : Cardinality({g \in S : Sooner(g, h)}) = k - 1]

\* Loose rows switch Top-N off, and need a leader that takes part.
BeginDeltaxAppend ==
  LET tail == part.loose # <<>>
      limit == IF tail THEN 0 ELSE query.limit
  IN  /\ scan.pc # "run" /\ part.compressed /\ scans < MaxScans
      /\ scans' = scans + 1
      /\ scan' = IF tail /\ query.mode = "workers" THEN [NoScan EXCEPT !.pc = "error"]
                 ELSE [NoScan EXCEPT !.pc = "run", !.snap = part, !.table = table, !.limit = limit,
                         !.handles = SortHandles(LoadSegments(part, query.quals, limit = 0, {})),
                         !.topn = limit > 0, !.tail = tail]
      /\ UNCHANGED <<part, todo, table, query, blobs, cond, changes>>

RunsExecQual_NoTailCheck(p) == ~AllQualsBatchHandled(query.quals)
\* Does process p evaluate the WHERE clause again, row by row? A worker does not know
\* about loose rows, which it never sees.
RunsExecQual(p) ==
  ~(AllQualsBatchHandled(query.quals) /\ (p = "worker" \/ scan.snap.loose = <<>>))

\* fetch_segment_blobs: from the cache, or the table.
FetchBlobs(id) == IF id \in DOMAIN blobs THEN blobs[id] ELSE SegOf(scan.snap, id).cols
StoredBlobs(id) == (id :> FetchBlobs(id)) @@ blobs

RowFrom(h, cols, i) == [c \in Columns |-> IF c \in SegmentBy THEN h.by[c] ELSE cols[c][i]]

CondLookup(h) == {e \in cond : e.id = h.id /\ e.bqs = Bqs /\ e.count = h.count}
Selection(h, cols) ==
  {i \in 1..h.count : i \notin h.tombs /\ RowSelected(Bqs, h.by, cols, i)}
Cacheable_Tombstones(h) == Bqs # <<>>
\* No conditions, or deleted rows: the cache is not used.
Cacheable(h) == Bqs # <<>> /\ h.tombs = {}
CachedOrEvaluated(h, cols) ==
  IF Cacheable(h) /\ CondLookup(h) # {} THEN (CHOOSE e \in CondLookup(h) : TRUE).sel
                                        ELSE Selection(h, cols)

Emit(s, rows) == [s EXCEPT !.out = @ \cup {r[TimeColumn] : r \in rows},
                           !.emitted = @ + Cardinality(rows)]

PrunedByMetadata(h) == h.count = 0 \/ ~MetadataPass(query.quals, h.by, h.minTime, h.maxTime)

\* Process p claims the next segment and emits the rows of it that pass.
LoadNextSegment(p) ==
  LET h == scan.handles[scan.next]
      claimed == [scan EXCEPT !.next = @ + 1]
      cols == FetchBlobs(h.id)
      sel == CachedOrEvaluated(h, cols)
      rows == {RowFrom(h, cols, i) : i \in sel}
  IN  /\ scan.pc = "run" /\ ~scan.topn /\ scan.next <= Len(scan.handles)
      /\ \/ /\ PrunedByMetadata(h)
            /\ scan' = claimed /\ UNCHANGED <<blobs, cond>>
         \/ /\ ~PrunedByMetadata(h)
            /\ blobs' = StoredBlobs(h.id)
            /\ IF SkippableByDict(Bqs, cols) THEN scan' = claimed /\ UNCHANGED cond
               ELSE /\ scan' = Emit(claimed, {r \in rows :
                                      RunsExecQual(p) => Satisfies(query.quals, r)})
                    /\ cond' = IF Cacheable(h) /\ CondLookup(h) = {}
                               THEN cond \cup {[id |-> h.id, bqs |-> Bqs, count |-> h.count, sel |-> sel]}
                               ELSE cond
      /\ UNCHANGED <<part, todo, table, query, scans, changes>>

\* The leader emits the loose rows when no segment is left to claim.
EmitHeapTail ==
  /\ scan.pc = "run" /\ scan.tail /\ scan.next > Len(scan.handles)
  /\ scan' = [Emit(scan, {r \in Elements(scan.snap.loose) :
                            RunsExecQual("leader") => Satisfies(query.quals, r)})
                EXCEPT !.tail = FALSE]
  /\ UNCHANGED <<part, todo, table, query, blobs, cond, scans, changes>>

EndScan ==
  /\ scan.pc = "run" /\ ~scan.topn /\ ~scan.tail /\ scan.next > Len(scan.handles)
  /\ scan' = [scan EXCEPT !.pc = "done"]
  /\ UNCHANGED <<part, todo, table, query, blobs, cond, scans, changes>>

\* The executor runs the node again, over the same segments (the inner side of a join).
Rescan ==
  /\ scan.pc = "done" /\ scans < MaxScans
  /\ scans' = scans + 1
  /\ scan' = [scan EXCEPT !.pc = "run", !.next = 1, !.out = {}, !.emitted = 0,
                          !.topn = scan.limit > 0, !.tail = scan.snap.loose # <<>>]
  /\ UNCHANGED <<part, todo, table, query, blobs, cond, changes>>

-----------------------------------------------------------------------------
(* Top-N. A candidate is [h, i, key]: handle, row, sort key. *)
\* The order of the sort column: of texts, its collation's, or in threads that of bytes.
SortRank(bytes, v) == IF Text(query.sort) /\ ~query.byteOrder /\ ~bytes THEN Collate(v) ELSE v
Before(bytes, x, y) ==
  CASE x = Null -> y # Null /\ query.nullsFirst
    [] y = Null -> x # Null /\ ~query.nullsFirst
    [] OTHER -> IF query.asc THEN SortRank(bytes, x) < SortRank(bytes, y)
                             ELSE SortRank(bytes, y) < SortRank(bytes, x)
KeyLess(x, y) == Before(FALSE, x, y)
ByteLess(x, y) == Before(TRUE, x, y)

\* n candidates come before key: it is beyond the threshold.
Beaten(bytes, cands, n, key) == Cardinality({c \in cands : IF bytes THEN ByteLess(c.key, key)
                                                              ELSE KeyLess(c.key, key)}) >= n
\* The n best candidates, any of equal ones; all if there are no more.
Best(bytes, cands, n) ==
  IF Cardinality(cands) <= n THEN {cands}
  ELSE {W \in SUBSET cands : /\ Cardinality(W) = n
                             /\ \A c \in W, d \in cands \ W : ~Before(bytes, d.key, c.key)}

SortIsTime == query.sort = TimeColumn
RowsSortedByTime == OrderBy = <<>> \/ OrderBy[1] = TimeColumn

\* Segments in the order that finds the best times first.
TopNOrder(handles) ==
  LET Ahead(k, l) ==
        LET h == handles[k]
            g == handles[l]
        IN  IF ~SortIsTime \/ (query.asc /\ h.minTime = g.minTime)
                           \/ (~query.asc /\ h.maxTime = g.maxTime) THEN k < l
            ELSE IF query.asc THEN h.minTime < g.minTime ELSE h.maxTime > g.maxTime
  IN  [n \in DOMAIN handles |-> handles[CHOOSE k \in DOMAIN handles :
         Cardinality({l \in DOMAIN handles : Ahead(l, k)}) = n - 1]]

\* No row of the segment can be among the best.
Dominated(h, cands) ==
  SortIsTime /\ Beaten(FALSE, cands, query.limit, IF query.asc THEN h.minTime ELSE h.maxTime)

\* Rows before the first one beyond the threshold; rows are in ascending order of time.
Cutoff(cols, cands) ==
  LET n == Len(cols[TimeColumn])
      beyond == {i \in 1..n : Beaten(FALSE, cands, query.limit, cols[TimeColumn][i])}
  IN  IF SortIsTime /\ RowsSortedByTime /\ query.asc THEN MinOf(beyond \cup {n + 1}) - 1 ELSE n
SkippedDesc(key, cands) ==
  SortIsTime /\ RowsSortedByTime /\ ~query.asc /\ Beaten(FALSE, cands, query.limit, key)

\* A text comparison on a segment_by column is evaluated here, the first one only.
SegmentByTextPass(h) ==
  \A c \in SegmentBy \cap TextColumns :
     LET k == FirstOf(Bqs, c, {"=", "<>"}) IN k # Null => Holds(Bqs[k], h.by[c])

\* Rows that pass, from the filter columns alone.
Phase1Selection(h, cols) == IF SegmentByTextPass(h) THEN Selection(h, cols) ELSE {}

KeyOf(h, cols, i) == RowFrom(h, cols, i)[query.sort]
CandidatesOf(h, cols, rows) == {[h |-> h, i |-> i, key |-> KeyOf(h, cols, i)] : i \in rows}

\* exec_topn_two_pass: candidates of one segment, given those of the segments before it.
TopNCandidates(h, cands) ==
  LET cols == FetchBlobs(h.id)
  IN  IF Dominated(h, cands) \/ PrunedByMetadata(h) \/ SkippableByDict(Bqs, cols) THEN {}
      ELSE CandidatesOf(h, cols, {j \in Phase1Selection(h, cols) :
             j <= Cutoff(cols, cands) /\ ~SkippedDesc(KeyOf(h, cols, j), cands)})

\* exec_topn_text: every segment that is not pruned is decompressed ...
Surviving(handles) ==
  SelectSeq(handles, LAMBDA h : ~(PrunedByMetadata(h) \/ SkippableByDict(Bqs, FetchBlobs(h.id))))
TextCandidates(h, cands) ==
  LET cols == FetchBlobs(h.id)
  IN  CandidatesOf(h, cols, {j \in Phase1Selection(h, cols) :
        ~Beaten(FALSE, cands, query.limit, KeyOf(h, cols, j))})

\* ... by the backend itself, or by threads, a run of segments each. A thread evaluates all
\* comparisons of texts but no lists and nothing on segment_by numbers, compares keys by
\* their bytes, and never keeps more than PruneLimit candidates.
PruneLimit_Exact == query.limit
PruneLimit == IF query.byteOrder /\ ~query.multi THEN query.limit ELSE Margin
ThreadSelected(h, cols, i) ==
  /\ i \notin h.tombs
  /\ \A k \in DOMAIN Bqs :
       LET c == Bqs[k].col
       IN  IF Text(c) THEN \/ Bqs[k].op = "in"
                           \/ c \in SegmentBy /\ Bqs[k].op \in {"like", "notlike"}
                           \/ BatchHolds(Bqs[k], IF c \in SegmentBy THEN h.by[c] ELSE cols[c][i])
           ELSE c \in SegmentBy \/ BatchHolds(Bqs[k], cols[c][i])
\* Candidate sets a thread may end with.
ProcessChunk(chunk) ==
  LET Kept(cands, h) ==
        LET cols == FetchBlobs(h.id)
        IN  Best(TRUE, cands \cup CandidatesOf(h, cols, {i \in 1..h.count :
                   ThreadSelected(h, cols, i) /\ ~Beaten(TRUE, cands, PruneLimit, KeyOf(h, cols, i))}),
                 PruneLimit)
      C[k \in 0..Len(chunk)] ==
        IF k = 0 THEN {{}} ELSE UNION {Kept(cands, chunk[k]) : cands \in C[k - 1]}
  IN  C[Len(chunk)]

TextInThreads == Text(query.sort) /\ query.threads > 1 /\ Len(Surviving(scan.handles)) >= 2

\* Candidate sets before the final cut.
Candidates ==
  LET order == IF Text(query.sort) THEN Surviving(scan.handles) ELSE TopNOrder(scan.handles)
      Of(h, cands) == IF Text(query.sort) THEN TextCandidates(h, cands) ELSE TopNCandidates(h, cands)
      C[k \in 0..Len(order)] == IF k = 0 THEN {} ELSE C[k - 1] \cup Of(order[k], C[k - 1])
      size == (Len(order) + query.threads - 1) \div query.threads
      rest == SubSeq(order, size + 1, Len(order))
  IN  IF TextInThreads
      THEN {a \cup b : a \in ProcessChunk(SubSeq(order, 1, size)), b \in ProcessChunk(rest)}
      ELSE {C[Len(order)]}

\* With one sort column exactly limit candidates are kept, any of equal ones; with more,
\* all that are not worse than the last of these.
Winners_MultiCut(cands) == Best(FALSE, cands, query.limit)
Winners(cands) ==
  IF query.multi THEN {{c \in cands : ~Beaten(FALSE, cands, query.limit, c.key)}}
                 ELSE Best(FALSE, cands, query.limit)

\* The other columns are decompressed for the segments of winners only.
WinnerRows(W) == {RowFrom(c.h, FetchBlobs(c.h.id), c.i) : c \in W}

\* More conditions than batch conditions, or no more candidates than wanted: the scan
\* runs as one without limit.
ExecTopN ==
  /\ scan.pc = "run" /\ scan.topn
  /\ \E cands \in Candidates :
       IF Len(query.quals) > Len(Bqs) \/ Cardinality(cands) <= query.limit
       THEN scan' = [scan EXCEPT !.topn = FALSE, !.limit = 0]
       ELSE \E kept \in IF TextInThreads THEN Best(TRUE, cands, PruneLimit) ELSE {cands} :
            \E W \in Winners(kept) :
              scan' = [Emit(scan, WinnerRows(W)) EXCEPT
                         !.topn = FALSE, !.next = Len(scan.handles) + 1]
  /\ UNCHANGED <<part, todo, table, query, blobs, cond, scans, changes>>

ScanSteps ==
  \/ BeginDeltaxAppend
  \/ \E p \in Participants : LoadNextSegment(p)
  \/ EmitHeapTail
  \/ ExecTopN
  \/ EndScan
  \/ Rescan

Next ==
  \/ Insert
  \/ Compress
  \/ Compact
  \/ \E id \in IdsOf(part.segs), i \in 1..SegmentSize : Tombstone(id, i)
  \/ \E id \in IdsOf(part.segs) : Decompose(id)
  \/ ScanSteps

Spec == Init /\ [][Next]_vars
-----------------------------------------------------------------------------
(* Properties. *)
Result == {r \in scan.table : Satisfies(query.quals, r)}
Times(S) == {r[TimeColumn] : r \in S}

\* Heap and segments together hold each row of the table once, whatever sequence of
\* compression, compaction, deletion and decomposition they went through (compress.rs).
ContentsExact ==
  LET Live(g) == 1..g.count \ TombsOf(part, g.id)
      places == {<<0, k>> : k \in DOMAIN part.loose}
                  \cup {<<g.id, i>> : g \in part.segs, i \in 1..SegmentSize}
      RowAt(x) == IF x[1] = 0 THEN part.loose[x[2]] ELSE RowOf(SegOf(part, x[1]), x[2])
      live == {x \in places : x[1] = 0 \/ x[2] \in Live(SegOf(part, x[1]))}
  IN  {RowAt(x) : x \in live} = table /\ Cardinality(live) = Cardinality(table)

\* A scan that has ended returned each row of the table at its start that satisfies the WHERE clause
\* exactly once and no other row, whichever of leader and workers loaded which segment,
\* whatever pruning, dictionaries and caches left out (exec_custom_scan).
ScanExact ==
  scan.pc = "done" /\ scan.limit = 0 =>
    scan.out = Times(Result) /\ scan.emitted = Cardinality(Result)

\* A scan that ran as Top-N returned rows of the result, none twice, and for each row of
\* the result it left out at least limit rows that come before it or beside it; strictly
\* before it if the sort has more columns (exec_topn_two_pass).
TopNExact ==
  scan.pc = "done" /\ scan.limit > 0 =>
    LET given == {r \in Result : r[TimeColumn] \in scan.out}
    IN  /\ scan.out = Times(given) /\ scan.emitted = Cardinality(given)
        /\ \A r \in Result \ given :
             Cardinality({g \in given : IF query.multi
                                        THEN KeyLess(g[query.sort], r[query.sort])
                                        ELSE ~KeyLess(r[query.sort], g[query.sort])}) >= query.limit

\* A segment with a live row that satisfies the WHERE clause survives load_segments_heap,
\* on both of its paths, however often the partition was compacted or decomposed before.
PruningKeepsMatches ==
  \A skip \in BOOLEAN : part.compressed =>
    LET kept == {h.id : h \in LoadSegments(part, query.quals, skip, {})}
    IN  \A s \in part.segs : s.id \notin kept =>
          \A i \in 1..s.count \ TombsOf(part, s.id) : ~Satisfies(query.quals, RowOf(s, i))

\* classify_segment_quals: when all conditions are batch conditions, AllPass and NonePass
\* mean just that; whole-segment DELETE and counting without decompression rely on it.
ClassificationSound ==
  Len(Bqs) = Len(query.quals) /\ Bqs # <<>> =>
    \A s \in part.segs : \A i \in 1..s.count :
      /\ ClassifySegmentQuals(s, Bqs) = "AllPass" => Satisfies(query.quals, RowOf(s, i))
      /\ ClassifySegmentQuals(s, Bqs) = "NonePass" => ~Satisfies(query.quals, RowOf(s, i))

\* What the shared caches hold under the id of a segment is the segment's: its columns, and
\* the rows that pass, for as long as the segment exists (cond_cache.rs, blob_cache).
CachesCoherent ==
  \A s \in part.segs :
    /\ s.id \in DOMAIN blobs => blobs[s.id] = s.cols
    /\ \A e \in cond : e.id = s.id /\ e.count = s.count =>
         e.sel = {i \in 1..s.count : RowSelected(e.bqs, s.by, s.cols, i)}

\* A segment's bitmap stands for its values, also after compaction has extended the list
\* of values (append_valbitmaps_for_compaction).
BitmapsExact ==
  \A c \in DOMAIN part.valmap : \A s \in part.segs : s.id \in DOMAIN part.bits[c] =>
    {part.valmap[c][k] : k \in part.bits[c][s.id]} = Elems(s.cols[c])

\* Every live row of a segment was inserted with the segment_by values of the segment, which
\* are stored once, from its first row; and the rows of a segment are in ascending order of
\* time if that is the first order_by column: what Top-N's cutoff relies on.
SegmentsOrdered ==
  \A s \in part.segs :
    /\ \A i \in 1..s.count \ TombsOf(part, s.id), r \in table :
         r[TimeColumn] = s.cols[TimeColumn][i] => \A c \in SegmentBy : r[c] = s.by[c]
    /\ RowsSortedByTime =>
         \A i, j \in 1..s.count : i < j => s.cols[TimeColumn][i] <= s.cols[TimeColumn][j]
=============================================================================
