------------------------------- MODULE AggExec -------------------------------
(***************************************************************************)
(* One aggregate query over compressed partitions, from the planner hook   *)
(* to its result (scan/hook.rs, scan/exec/agg, count_minmax.rs). The plan  *)
(* may be executed later, after other statements have inserted rows into   *)
(* the partitions' heaps or deleted rows of segments.                      *)
(*                                                                         *)
(* There are three custom nodes: "count", "minmax" and "agg"; "plain" is   *)
(* PostgreSQL's own aggregation over a scan (ScanExec). The agg node       *)
(* answers from metadata or hands segments to workers, which claim them    *)
(* one by one and keep a map of their own, and merges the maps in one of   *)
(* several ways. Sizes that decide about the way (numbers of rows, of      *)
(* estimated groups) are fields of the query: large, batches, workers, k,  *)
(* costly.                                                                 *)
(* An order by the difference of two extrema is asked for only where the   *)
(* mixed scan does it: the others end with an index error.                 *)
(***************************************************************************)
EXTENDS AggState

CONSTANTS Inputs,               \* sequences of partitions, each a sequence of rows
          NewRow,               \* the row an INSERT adds
          Queries,
          MaxWorkers,
          MaxChanges,           \* bound on INSERTs and DELETEs
          Saturate,             \* largest count in the filter
          Slots(_), Sampled(_), \* filter slots of a key; is it sampled?
          MinFloor,             \* smallest floor the mixed scan filters with
          Partition(_),         \* partition of the key space a key is merged in
          ProbeSegments         \* segments probed for the keys of a bare LIMIT

ASSUME ExecAssumption ==
  /\ MaxChanges \in Nat /\ MaxWorkers \in Nat \ {0} /\ ProbeSegments \in Nat
  /\ Saturate \in Nat \ {0, 1} /\ MinFloor \in 3..Saturate

VARIABLES parts,        \* the partitions: segments, tombstones, loose rows
          changes,
          pc, query, path,
          segs,         \* the segments loaded, in order
          kind,         \* the way they are processed
          batch, next,  \* current batch, next segment to claim
          slots, sample, floor,         \* counting filter; floor 0: none
          keep,         \* keys preselected for a bare LIMIT, Null if none
          maps, fill,   \* of batches and workers: map, rows below the floor still accepted
          out, how      \* result rows and how they were merged
vars == <<parts, changes, pc, query, path, segs, kind, batch, next, slots, sample, floor,
          keep, maps, fill, out, how>>
table == <<parts, changes>>
scan == <<segs, kind, batch, next, slots, sample, floor, keep, maps, fill>>

-----------------------------------------------------------------------------
(* The table. *)
Compressed(rows) ==
  LET s == FlushAll(CursorOrder(<<>>, rows), 1)
      valmap == FinalizeValmap(s)
  IN  [segs |-> s, tombs |-> <<>>, loose |-> <<>>, minmax |-> PartitionMinmax(s),
       valmap |-> valmap, bits |-> FinalizeBits(s, valmap)]

HasLoose == \E p \in DOMAIN parts : parts[p].loose # <<>>
HasTombstones == \E p \in DOMAIN parts : DOMAIN parts[p].tombs # {}
LiveCount(seg, tombs) == seg.count - Cardinality(tombs)
SumOver(f) ==
  LET S[X \in SUBSET DOMAIN f] ==
        IF X = {} THEN 0 ELSE LET x == CHOOSE y \in X : TRUE IN f[x] + S[X \ {x}]
  IN  S[DOMAIN f]
\* row_count of the catalog: live rows of segments.
RowCount(part) == SumOver([s \in part.segs |-> LiveCount(s, TombsOf(part, s.id))])

Insert(p) ==
  /\ pc \in {"idle", "planned"} /\ changes < MaxChanges
  /\ parts' = [parts EXCEPT ![p].loose = Append(@, NewRow)]
  /\ changes' = changes + 1
  /\ UNCHANGED <<pc, query, path, scan, out, how>>

Delete(p) ==
  /\ pc \in {"idle", "planned"} /\ changes < MaxChanges
  /\ \E s \in parts[p].segs : \E i \in 1..s.count :
        parts' = [parts EXCEPT ![p].tombs = (s.id :> {i})]
  /\ changes' = changes + 1
  /\ UNCHANGED <<pc, query, path, scan, out, how>>

-----------------------------------------------------------------------------
(* Planning. *)
SingleCountStar(q) ==
  Len(q.aggs) = 1 /\ q.aggs[1].fn = "count*" /\ q.groups = <<>> /\ q.having = <<>>

\* Conditions that segment bounds and values decide: ranges of time, equality of segment_by.
MetaQual(q) ==
  \/ q.col = TimeColumn /\ q.op \in {"<", "<=", ">", ">="}
  \/ q.col \in SegmentBy /\ q.op = "="
ClassifyMetaQuals(quals) == \A k \in DOMAIN quals : MetaQual(quals[k])

\* Aggregates that the statistics of a segment answer; a sum of int8 would be numeric.
MetaAnswerable(a) ==
  CASE a.fn = "count*" -> TRUE
    [] a.fn = "count" -> a.arg = "column"
    [] a.fn = "sum" -> a.arg \in {"column", "add"} /\ Integral(a.col) /\ a.col \notin WideColumns
    [] a.fn \in {"min", "max"} -> a.arg = "column" /\ SupportsMinmax(a.col)
    [] OTHER -> FALSE
AllMeta(q) == \A k \in DOMAIN q.aggs : MetaAnswerable(q.aggs[k])
AllMinmax(q) == \A k \in DOMAIN q.aggs : q.aggs[k].fn \in {"min", "max"}

\* The plan; metaOff is the setting that disables the metadata nodes.
PlanPath(q) ==
  IF SingleCountStar(q) /\ (q.quals = <<>> \/ (~q.metaOff /\ ClassifyMetaQuals(q.quals)))
  THEN "count"
  ELSE IF /\ AllMeta(q) /\ q.groups = <<>> /\ q.having = <<>> /\ ~q.metaOff
          /\ ClassifyMetaQuals(q.quals) /\ ~HasTombstones
  THEN "minmax"
  ELSE IF AllMinmax(q) /\ q.groups = <<>> /\ q.quals = <<>>
  THEN IF HasTombstones \/ \E k \in DOMAIN q.aggs : ~SupportsMinmax(q.aggs[k].col)
       THEN "plain" ELSE "minmax"
  ELSE IF HasLoose \/ HasTombstones \/ \E k \in DOMAIN q.quals : ~Converted(q.quals[k])
  THEN "plain" ELSE "agg"

\* A LIMIT that the node may apply itself: on groups, with no order or the order of one
\* aggregate.
SortableAgg(a) ==
  CASE a.fn \in {"count*", "count", "count distinct", "avg"} -> TRUE
    [] a.fn = "sum" -> a.col \notin WideColumns
    [] OTHER -> Integral(a.col)
TopN(q) ==
  /\ q.limit > 0 /\ q.groups # <<>>
  /\ q.order.kind = "derived" \/ (q.order.kind = "agg" /\ SortableAgg(q.aggs[q.order.agg]))
BareLimit(q) == q.limit > 0 /\ q.groups # <<>> /\ q.order.kind = "none"
Derived(q) == TopN(q) /\ q.order.kind = "derived"

Plan(q) ==
  /\ pc = "idle"
  /\ query' = q /\ path' = PlanPath(q) /\ pc' = "planned"
  /\ UNCHANGED <<table, scan, out, how>>

-----------------------------------------------------------------------------
(* The count and min/max nodes: segments within the bounds of time are     *)
(* answered from metadata, those across a bound by decoding their times,   *)
(* loose rows one by one.                                                  *)
InBounds(quals, t) ==
  /\ TimeMin(quals) # Null => t >= TimeMin(quals)
  /\ TimeMax(quals) # Null => t < TimeMax(quals)
SegFullyInBounds_Closed(quals, seg) ==
  /\ TimeMin(quals) # Null => seg.minTime >= TimeMin(quals)
  /\ TimeMax(quals) # Null => seg.maxTime <= TimeMax(quals)
SegFullyInBounds(quals, seg) == InBounds(quals, seg.minTime) /\ InBounds(quals, seg.maxTime)

TimeSelectionMask(quals, seg, tombs) ==
  {i \in 1..seg.count : InBounds(quals, seg.cols[TimeColumn][i])} \ tombs

Relevant(quals, part) ==
  {s \in part.segs : MetadataPass(quals, s.by, s.minTime, s.maxTime)}
TailRows(quals, part) == SelectSeq(part.loose, LAMBDA r : Satisfies(quals, r))

CountPart(quals, part) ==
  Len(TailRows(quals, part)) +
  SumOver([s \in Relevant(quals, part) |->
             LET tombs == TombsOf(part, s.id)
             IN  IF SegFullyInBounds(quals, s) THEN LiveCount(s, tombs)
                 ELSE Cardinality(TimeSelectionMask(quals, s, tombs))])

Finish(rows, way) == pc' = "done" /\ out' = rows /\ how' = way
OneRow(accs) == <<FinalizeRow(query.aggs, <<>>, accs)>>

\* Without conditions the catalog's row counts are used, if all are known; a count of 0 is
\* taken for unknown.
CountsKnown == \A p \in DOMAIN parts : RowCount(parts[p]) > 0
BeginCountScan(known) ==
  /\ pc = "planned" /\ path = "count"
  /\ LET n == IF known /\ CountsKnown /\ query.quals = <<>>
              THEN SumOver([p \in DOMAIN parts |-> RowCount(parts[p]) + Len(parts[p].loose)])
              ELSE SumOver([p \in DOMAIN parts |-> CountPart(query.quals, parts[p])])
     IN  Finish(<<[key |-> <<>>, vals |-> <<n>>]>>, "count")
  /\ UNCHANGED <<table, query, path, scan>>

\* The statistics of a segment, added to an accumulator.
AccumulateSegmentMetadata(a, acc, seg) ==
  LET s == seg.stats[a.col]
  IN  CASE a.fn = "count*" -> [acc EXCEPT !.n = @ + seg.count]
        [] a.fn = "count" -> [acc EXCEPT !.n = @ + s.nonnull]
        [] a.fn \in {"sum", "avg"} ->
             IF s.sum = Null THEN acc
             ELSE [acc EXCEPT !.n = @ + s.nonnull,
                              !.sum = @ + s.sum + (IF a.arg = "add" THEN a.add * s.nonnull ELSE 0)]
        [] a.fn = "min" -> [acc EXCEPT !.val = Smaller(@, s.min)]
        [] a.fn = "max" -> [acc EXCEPT !.val = Larger(@, s.max)]
AccumulateMetadata(aggs, accs, seg) ==
  [k \in DOMAIN aggs |-> AccumulateSegmentMetadata(aggs[k], accs[k], seg)]

SegRows(seg) == [i \in 1..seg.count |-> RowOf(seg, i)]

MinmaxPart(part, accs) ==
  LET q == query
      S[ss \in SUBSET Relevant(q.quals, part)] ==
        IF ss = {} THEN accs
        ELSE LET s == CHOOSE x \in ss : TRUE
             IN  IF SegFullyInBounds(q.quals, s) THEN AccumulateMetadata(q.aggs, S[ss \ {s}], s)
                 ELSE AccumulateRows(q.aggs, S[ss \ {s}], SegRows(s),
                                     TimeSelectionMask(q.quals, s, {}))
      tail == TailRows(q.quals, part)
  IN  AccumulateRows(q.aggs, S[Relevant(q.quals, part)], tail, DOMAIN tail)

BeginMinmaxScan ==
  /\ pc = "planned" /\ path = "minmax"
  /\ IF HasTombstones THEN Finish(<<>>, "stale")
     ELSE LET S[p \in 0..Len(parts)] ==
                IF p = 0 THEN NewAccs(query.aggs) ELSE MinmaxPart(parts[p], S[p - 1])
          IN  Finish(OneRow(S[Len(parts)]), "minmax")
  /\ UNCHANGED <<table, query, path, scan>>

-----------------------------------------------------------------------------
(* The agg node before it reads segments. *)
Bqs == ExtractBatchQuals(query.quals)
NumericQuals == \A k \in DOMAIN Bqs : ~Text(Bqs[k].col)

\* The segments of all partitions that are not ruled out; stats: columns whose statistics
\* are wanted.
LoadAll(quals, stats) ==
  LET Of(p) == LET ids == {h.id : h \in LoadSegments(parts[p], quals, FALSE, stats)}
               IN  [k \in DOMAIN SortedSeq(ids) |->
                      CHOOSE s \in parts[p].segs : s.id = SortedSeq(ids)[k]]
      S[p \in 0..Len(parts)] == IF p = 0 THEN <<>> ELSE S[p - 1] \o Of(p)
  IN  S[Len(parts)]

\* The plan relied on there being no rows outside segments and no deleted ones.
BeginAggStale ==
  /\ pc = "planned" /\ path = "agg" /\ (HasLoose \/ HasTombstones)
  /\ Finish(<<>>, "stale")
  /\ UNCHANGED <<table, query, path, scan>>

Ungrouped == query.groups = <<>> /\ query.having = <<>>
CatalogShortcut ==
  Ungrouped /\ query.quals = <<>> /\ \A k \in DOMAIN query.aggs : query.aggs[k].fn = "count*"
\* Where the counts are not known the segments are read, as for the other queries.
BeginAggCatalog ==
  /\ pc = "planned" /\ path = "agg" /\ ~HasLoose /\ ~HasTombstones
  /\ CatalogShortcut /\ CountsKnown
  /\ LET n == SumOver([p \in DOMAIN parts |-> RowCount(parts[p])])
     IN  Finish(<<[key |-> <<>>, vals |-> [k \in DOMAIN query.aggs |-> n]]>>, "catalog")
  /\ UNCHANGED <<table, query, path, scan>>

\* Aggregates the metadata of whole segments can answer here.
FastAgg(a) ==
  CASE a.fn = "count*" -> TRUE
    [] a.fn = "sum" -> a.arg \in {"column", "add"} /\ Integral(a.col)
    [] a.fn \in {"avg", "count"} -> a.arg = "column" /\ Integral(a.col)
    [] a.fn \in {"min", "max"} -> query.quals = <<>> /\ a.arg = "column" /\ SupportsMinmax(a.col)
    [] OTHER -> FALSE
\* A condition comparing with zero is counted even where rows differ.
ZeroQual == /\ Len(Bqs) = 1 /\ Bqs[1].op \in {"=", "<>"} /\ Bqs[1].val = 0
            /\ \A k \in DOMAIN query.aggs : query.aggs[k].fn = "count*"
ZeroCount(seg) ==
  LET s == seg.stats[Bqs[1].col]
  IN  IF Bqs[1].op = "<>" THEN s.nonzero ELSE s.nonnull - s.nonzero

FastSegments ==
  LoadAll(query.quals, {query.aggs[k].col : k \in {l \in DOMAIN query.aggs :
                          query.aggs[l].fn \in {"sum", "avg", "count"}}}
                       \cup {Bqs[k].col : k \in DOMAIN Bqs})
\* The accumulators, or Null if some segment must be read.
MetadataFastPath ==
  LET q == query
      verdict(s) == IF q.quals = <<>> THEN "AllPass" ELSE ClassifySegmentQuals(s, Bqs)
      segments == FastSegments
      S[i \in 0..Len(segments)] ==
        IF i = 0 THEN NewAccs(q.aggs)
        ELSE LET s == segments[i] accs == S[i - 1]
             IN  CASE accs = Null -> Null
                   [] accs # Null /\ verdict(s) = "AllPass" -> AccumulateMetadata(q.aggs, accs, s)
                   [] accs # Null /\ verdict(s) = "NonePass" -> accs
                   [] accs # Null /\ verdict(s) = "Ambiguous" ->
                        IF ZeroQual
                        THEN [k \in DOMAIN q.aggs |-> [accs[k] EXCEPT !.n = @ + ZeroCount(s)]]
                        ELSE Null
  IN  IF /\ Ungrouped /\ \A k \in DOMAIN q.aggs : FastAgg(q.aggs[k])
         /\ q.quals = <<>> \/ (AllQualsBatchHandled(q.quals) /\ NumericQuals)
      THEN S[Len(segments)] ELSE Null

BeginAggMetadata ==
  /\ pc = "planned" /\ path = "agg" /\ ~HasLoose /\ ~HasTombstones
  /\ MetadataFastPath # Null
  /\ Finish(OneRow(MetadataFastPath), "metadata")
  /\ UNCHANGED <<table, query, path, scan>>

-----------------------------------------------------------------------------
(* How the segments are processed. *)
NeededColumns ==
  LET a == {query.aggs[k].col : k \in {l \in DOMAIN query.aggs : query.aggs[l].fn # "count*"}}
      g == {query.groups[k].col : k \in DOMAIN query.groups}
      c == {query.groups[k].arg[1].col : k \in {l \in DOMAIN query.groups : query.groups[l].fn = "case"}}
  IN  a \cup g \cup c \cup {Bqs[k].col : k \in DOMAIN Bqs}

ParallelCompactEligible(n) ==
  /\ CanUseCompactKeys(query.groups) /\ CanUseCompactAccs(query.aggs)
  /\ query.workers > 1 /\ n > 1
  /\ \A c \in NeededColumns : ~Text(c)

ParallelCountDistinctEligible(n) ==
  /\ query.groups = <<>> /\ query.quals = <<>> /\ query.workers > 1 /\ n > 1
  /\ \A k \in DOMAIN query.aggs : query.aggs[k].fn = "count distinct"

\* A column read by extract may lack NOT NULL if no loaded segment has a null in it.
MixedNotNull(g, segments) ==
  \/ g.col \in NotNull
  \/ g.fn = "extract" /\ \A i \in DOMAIN segments : segments[i].stats[g.col].nonnull = segments[i].count
TextAgg(a) ==
  a.fn # "count*" /\ (a.arg = "length" \/ (Text(a.col) /\ a.fn \in {"min", "max", "count distinct"}))
CanParallelMixed(segments) ==
  LET texts == {c \in NeededColumns : Text(c)}
      read == {query.groups[k].col : k \in {l \in DOMAIN query.groups : TextKey(query.groups[l])}}
              \cup {Bqs[k].col : k \in DOMAIN Bqs}
              \cup {query.aggs[k].col : k \in {l \in DOMAIN query.aggs : TextAgg(query.aggs[l])}}
  IN  /\ \/ \E k \in DOMAIN query.groups : TextKey(query.groups[k])
         \/ \E k \in DOMAIN query.aggs : TextAgg(query.aggs[k])
         \/ ~NumericQuals
      /\ \A k \in DOMAIN query.groups :
           TextKey(query.groups[k]) \/ MixedNotNull(query.groups[k], segments)
      /\ CanUseCompactAccs(query.aggs) /\ texts \subseteq read

\* A pattern that Rust's engine does not accept is left to PostgreSQL's.
AllRegexpCompiled ==
  \A k \in DOMAIN query.groups : query.groups[k].fn = "regexp" => query.groups[k].arg
KindFor(segments) ==
  LET n == Len(segments)
  IN  IF ParallelCompactEligible(n) THEN "compact"
      ELSE IF ParallelCountDistinctEligible(n) THEN "cd"
      ELSE IF /\ query.groups # <<>> \/ query.quals # <<>>
              /\ query.workers > 1 \/ Derived(query)
              /\ n > 1 /\ AllRegexpCompiled /\ CanParallelMixed(segments)
      THEN "mixed" ELSE "serial"

\* The counting filter is worth a pass of its own: many rows, nearly as many groups.
CountFloorMode(k) ==
  /\ query.large /\ TopN(query) /\ query.order.kind = "agg" /\ ~query.asc
  /\ query.having = <<>> /\ query.quals = <<>> /\ query.aggs[query.order.agg].fn = "count*"
  /\ \/ k = "compact"
     \/ k = "mixed" /\ \A i \in DOMAIN query.groups : query.groups[i].fn \notin {"regexp", "case"}

\* The first keys of the first segments, if there are as many as the LIMIT asks for.
Preselected(segments) ==
  LET rows == LET S[i \in 0..Len(segments)] ==
                    IF i = 0 \/ i > ProbeSegments THEN IF i = 0 THEN <<>> ELSE S[i - 1]
                    ELSE S[i - 1] \o SegRows(segments[i])
              IN  S[Len(segments)]
      KeysOf(n) == {KeyOf(query.groups, rows[i]) : i \in 1..n}
      enough == MinOf({n \in DOMAIN rows : Cardinality(KeysOf(n)) >= query.limit})
  IN  IF /\ BareLimit(query) /\ query.having = <<>> /\ query.quals = <<>>
         /\ \A k \in DOMAIN query.groups : query.groups[k].fn \notin {"regexp", "case"}
         /\ enough # Null
      THEN KeysOf(enough) ELSE Null

-----------------------------------------------------------------------------
(* Processing. *)
Min2(x, y) == IF x < y THEN x ELSE y
CeilDiv(x, y) == (x + y - 1) \div y

\* Batches: the leader reads the columns of the next one while threads work on one.
Batches ==
  IF (kind = "compact" \/ (kind = "mixed" /\ query.quals # <<>>)) /\ floor = 0
  THEN Min2(query.batches, Len(segs)) ELSE 1
BatchSize == CeilDiv(Len(segs), Batches)
LastOf(b) == Min2(b * BatchSize, Len(segs))
Threads ==
  LET n == LastOf(batch) - (batch - 1) * BatchSize
  IN  1..(IF kind = "serial" THEN 1 ELSE Min2(query.workers, n))

Reset == /\ segs' = <<>> /\ kind' = "none" /\ batch' = 1 /\ next' = 1
         /\ slots' = <<>> /\ sample' = <<>> /\ floor' = 0 /\ keep' = Null
         /\ maps' = <<>> /\ fill' = <<>>

BeginAggScan ==
  /\ pc = "planned" /\ path = "agg" /\ ~HasLoose /\ ~HasTombstones
  /\ MetadataFastPath = Null
  /\ segs' = LoadAll(query.quals, {query.groups[k].col : k \in {l \in DOMAIN query.groups :
                                                     query.groups[l].fn = "extract"}})
  /\ kind' = KindFor(segs')
  /\ keep' = IF kind' = "mixed" THEN Preselected(segs') ELSE Null
  /\ pc' = IF CountFloorMode(kind') THEN "count" ELSE "scan"
  /\ UNCHANGED <<table, query, path, batch, next, slots, sample, floor, maps, fill, out, how>>

\* Pass 1: every row counts for its key in two slots that other keys may share, and those
\* of sampled keys are counted exactly.
Bump(s, n) == Min2(s + n, Saturate)
SegKeys(seg) == [i \in 1..seg.count |-> KeyOf(query.groups, RowOf(seg, i))]
Occurrences(keys, S) == Cardinality({i \in DOMAIN keys : keys[i] \in S})
At(f, x) == IF x \in DOMAIN f THEN f[x] ELSE 0
CountFilter ==
  /\ pc = "count" /\ next <= Len(segs)
  /\ LET keys == SegKeys(segs[next])
         all == {keys[i] : i \in DOMAIN keys}
         sampled == {x \in all : Sampled(x)}
     IN  /\ slots' = [s \in DOMAIN slots \cup UNION {Slots(x) : x \in all} |->
                        Bump(At(slots, s), Occurrences(keys, {x \in all : s \in Slots(x)}))]
         /\ sample' = [x \in DOMAIN sample \cup sampled |->
                         At(sample, x) + Occurrences(keys, {x})]
  /\ next' = next + 1
  /\ UNCHANGED <<table, pc, query, path, segs, kind, batch, floor, keep, maps, fill, out, how>>

\* The count of the limit-th most frequent sampled key: as many groups reach it.
KthCount(counts, n) ==
  MaxOf({c \in {counts[x] : x \in DOMAIN counts} :
           Cardinality({x \in DOMAIN counts : counts[x] >= c}) >= n})
PickCountFloor(counts, n) ==
  IF Cardinality(DOMAIN counts) < n THEN 2
  ELSE Min2(MaxOf({2, KthCount(counts, n)}), Saturate)

\* The mixed scan does without the filter if the floor is low.
PickFloor ==
  /\ pc = "count" /\ next > Len(segs)
  /\ floor' = LET f == PickCountFloor(sample, query.limit)
              IN  IF kind = "mixed" /\ f < MinFloor THEN 0 ELSE f
  /\ pc' = "scan" /\ next' = 1
  /\ UNCHANGED <<table, query, path, segs, kind, batch, slots, sample, keep, maps, fill, out, how>>

AboveFloor(key) == \A s \in Slots(key) : slots[s] >= floor
\* Below the lowest floor a few groups are kept all the same, to fill up the LIMIT.
FillerBudget == IF kind = "compact" /\ floor = 2 THEN query.limit ELSE 0

\* The row's part of the key; known for all rows of some segments.
SegmentKey(seg, row) ==
  [k \in DOMAIN query.groups |->
     LET g == query.groups[k]
         constant == IF kind = "compact" THEN Null ELSE ConstantExtractKey(g, seg.stats[g.col])
     IN  IF constant # Null THEN constant ELSE GroupKey(g, row)]

\* Rows that satisfy the conditions. Only the serial scan leaves out conditions on a text
\* column after the first.
SelectedRows(seg) ==
  LET numeric == SelectSeq(Bqs, LAMBDA b : ~Text(b.col))
      verdict == IF numeric = <<>> THEN "AllPass" ELSE ClassifySegmentQuals(seg, numeric)
      Passes(i) == \A k \in DOMAIN Bqs : BatchHolds(Bqs[k], seg.cols[Bqs[k].col][i])
      TextPasses(i) == \A k \in DOMAIN Bqs : Text(Bqs[k].col) => BatchHolds(Bqs[k], seg.cols[Bqs[k].col][i])
  IN  CASE SkippableByDict(Bqs, seg.cols) -> {}
        [] kind = "serial" -> {i \in 1..seg.count : RowSelected(Bqs, seg.by, seg.cols, i)}
        [] verdict = "NonePass" -> {}
        [] verdict = "AllPass" -> {i \in 1..seg.count : TextPasses(i)}
        [] OTHER -> {i \in 1..seg.count : Passes(i)}

\* Add a row to its group in a map; st is [map, fill].
AddRow(st, key, row) ==
  LET old == IF key \in DOMAIN st.map THEN st.map[key] ELSE NewAccs(query.aggs)
      new == AccumulateRows(query.aggs, old, <<row>>, {1})
      below == floor > 0 /\ ~AboveFloor(key)
  IN  IF \/ below /\ st.fill = 0
         \/ keep # Null /\ key \notin keep
      THEN st
      ELSE [map |-> [x \in DOMAIN st.map \cup {key} |-> IF x = key THEN new ELSE st.map[x]],
            fill |-> IF below THEN st.fill - 1 ELSE st.fill]

ProcessSegment(st, seg) ==
  LET sel == SelectedRows(seg)
      S[i \in 0..seg.count] ==
        IF i = 0 THEN st
        ELSE IF i \notin sel THEN S[i - 1]
        ELSE AddRow(S[i - 1], SegmentKey(seg, RowOf(seg, i)), RowOf(seg, i))
  IN  S[seg.count]

WorkerState(w) ==
  [map |-> IF <<batch, w>> \in DOMAIN maps THEN maps[<<batch, w>>] ELSE EmptyMap,
   fill |-> IF w \in DOMAIN fill THEN fill[w] ELSE FillerBudget]
Record(w, st) ==
  /\ maps' = [x \in DOMAIN maps \cup {<<batch, w>>} |-> IF x = <<batch, w>> THEN st.map ELSE maps[x]]
  /\ fill' = [x \in DOMAIN fill \cup {w} |-> IF x = w THEN st.fill ELSE fill[x]]

\* A thread claims the next segment of the batch.
Process(w) ==
  /\ pc = "scan" /\ kind \in {"compact", "mixed", "serial"}
  /\ w \in Threads /\ next <= LastOf(batch)
  /\ next' = next + 1
  /\ Record(w, ProcessSegment(WorkerState(w), segs[next]))
  /\ UNCHANGED <<table, pc, query, path, segs, kind, batch, slots, sample, floor, keep, out, how>>

\* The threads of a batch have been joined.
NextBatch ==
  /\ pc = "scan" /\ next > LastOf(batch) /\ batch < Batches /\ next <= Len(segs)
  /\ batch' = batch + 1
  /\ UNCHANGED <<table, pc, query, path, segs, kind, next, slots, sample, floor, keep, maps, fill, out, how>>

\* A thread that counts distinct values has a fixed share of the segments.
ShareOf(w) == LET size == CeilDiv(Len(segs), Cardinality(Threads))
             IN  ((w - 1) * size + 1)..Min2(w * size, Len(segs))
ProcessCdSegments(w) ==
  /\ pc = "scan" /\ kind = "cd" /\ w \in Threads /\ <<1, w>> \notin DOMAIN maps
  /\ LET S[i \in 0..Len(segs)] ==
           IF i = 0 THEN WorkerState(w)
           ELSE IF i \in ShareOf(w) THEN ProcessSegment(S[i - 1], segs[i]) ELSE S[i - 1]
     IN  Record(w, S[Len(segs)])
  /\ UNCHANGED <<table, pc, query, path, segs, kind, batch, next, slots, sample, floor, keep, out, how>>

-----------------------------------------------------------------------------
(* Merging the maps of the threads. *)
Processed ==
  /\ pc = "scan"
  /\ IF kind = "cd" THEN \A w \in Threads : <<1, w>> \in DOMAIN maps ELSE next > Len(segs)

\* Without GROUP BY there is one group, also when no row was selected.
AllKeys == IF query.groups = <<>> THEN {<<>>} ELSE Keys(maps)
Merged(key) == MergeGroup(query.aggs, maps, key)
MergedRow(key) == FinalizeRow(query.aggs, key, Merged(key))
RowsInOrder(keys) == [i \in DOMAIN keys |-> MergedRow(keys[i])]
AnyOrder(S) == Ranked([x \in S |-> 0], S, TRUE)

\* The sort value of a merged group, of a thread's group.
MergedValue(key) == SortValue(query.aggs, query.order.agg, Merged(key))
PartialValue(m, key) == SortValue(query.aggs, query.order.agg, m[key])
SummedValue(key) ==
  SumOver([x \in {y \in DOMAIN maps : key \in DOMAIN maps[y]} |-> PartialValue(maps[x], key)])

\* Speculation: each thread offers its k best groups. If the last winner among them beats
\* the sum of the threads' last candidates, no other group can. The compact scan does
\* without it where there are too many candidates to look up.
CanSpeculate ==
  /\ TopN(query) /\ query.order.kind = "agg" /\ query.having = <<>>
  /\ query.aggs[query.order.agg].fn \notin {"count distinct", "avg"}
  /\ ~(kind = "compact" /\ query.costly)
TopK(m) ==
  LET val == [x \in DOMAIN m |-> PartialValue(m, x)]
  IN  IF Cardinality(DOMAIN m) <= query.k THEN {[keys |-> DOMAIN m, floor |-> 0]}
      ELSE {[keys |-> T, floor |-> Worst(val, T, query.asc)] : T \in TopSets(val, query.k, query.asc)}
Offers == {f \in [DOMAIN maps -> UNION {TopK(maps[x]) : x \in DOMAIN maps}] :
             \A x \in DOMAIN maps : f[x] \in TopK(maps[x])}
FloorSum_Max(offer) == MaxOf({offer[x].floor : x \in DOMAIN offer})
FloorSum(offer) == SumOver([x \in DOMAIN offer |-> offer[x].floor])
Candidates(offer) == UNION {offer[x].keys : x \in DOMAIN offer}

\* "ok": proven; "tied": the winners are equal, which the code accepts; else "no".
Verdict(T, val, bound) ==
  LET nth == Worst(val, T, query.asc)
  IN  IF Cardinality(T) < query.limit THEN "no"
      ELSE IF Better(query.asc, nth, bound) THEN "ok"
      ELSE IF \A x \in T : val[x] = nth THEN "tied" ELSE "no"
Speculations ==
  UNION {LET val == [x \in Candidates(o) |-> SummedValue(x)]
         IN  {[keys |-> Ranked(val, T, query.asc), verdict |-> Verdict(T, val, FloorSum(o))] :
                T \in TopSets(val, query.limit, query.asc)} : o \in Offers}

\* Each partition of the key space yields its own winners, the best of which win.
PartitionedTopN(passes) ==
  LET val == [x \in {y \in AllKeys : passes[y]} |-> MergedValue(x)]
      Part(n) == [x \in {y \in DOMAIN val : Partition(y) = n} |-> val[x]]
      parted == {Partition(y) : y \in DOMAIN val}
      local == {f \in [parted -> SUBSET DOMAIN val] :
                  \A n \in parted : f[n] \in TopSets(Part(n), query.limit, query.asc)}
  IN  UNION {LET all == UNION {f[n] : n \in parted}
                 best == [x \in all |-> val[x]]
             IN  {Ranked(best, T, query.asc) : T \in TopSets(best, query.limit, query.asc)} :
                f \in local}
PassesRaw == [x \in AllKeys |-> \A k \in DOMAIN query.having :
                HavingHoldsRaw(query.having[k], MergedRow(x).vals)]

\* The keys for a LIMIT without order come from the thread with the most groups.
LargestMaps == {x \in DOMAIN maps : \A y \in DOMAIN maps :
                  Cardinality(DOMAIN maps[y]) <= Cardinality(DOMAIN maps[x])}
BareLimitKeys ==
  UNION {{AnyOrder(T) : T \in TopSets([y \in DOMAIN maps[x] |-> 0], query.limit, TRUE)} : x \in LargestMaps}

\* All groups; those that fail HAVING are dropped.
FullKeys == {x \in AllKeys : PassesHaving(query.having, MergedRow(x).vals)}

Merge(keys, way) ==
  /\ Finish(RowsInOrder(keys), way)
  /\ UNCHANGED <<table, query, path, scan>>

\* The compact scan tries these in order.
CompactSpeculativeTopN ==
  /\ Processed /\ kind = "compact" /\ CanSpeculate
  /\ \E s \in Speculations : s.verdict = "ok" /\ Merge(s.keys, "spec")
CompactTiedTopN ==
  /\ Processed /\ kind = "compact" /\ CanSpeculate
  /\ \E s \in Speculations : s.verdict = "tied" /\ Merge(s.keys, "tied")
CompactBareLimit ==
  /\ Processed /\ kind = "compact" /\ BareLimit(query) /\ query.having = <<>>
  /\ \E keys \in BareLimitKeys : Merge(keys, "bare")
CompactPartitionedTopN ==
  /\ Processed /\ kind = "compact" /\ TopN(query)
  /\ CanSpeculate => \E s \in Speculations : s.verdict = "no"
  /\ \E keys \in PartitionedTopN(PassesRaw) : Merge(keys, "part")
CompactFullMerge ==
  /\ Processed /\ kind = "compact" /\ ~TopN(query) /\ (BareLimit(query) => query.having # <<>>)
  /\ Merge(AnyOrder(FullKeys), "full")

\* So does the mixed one, after the difference of two extrema: its groups come out in no
\* particular order, those without a maximum are left out.
MixedDerivedMinmaxTopN ==
  /\ Processed /\ kind = "mixed" /\ Derived(query)
  /\ LET d == query.order
         val == [x \in {y \in FullKeys : Merged(y)[d.max].val # Null} |-> DerivedValue(d, Merged(x))]
     IN  \E T \in TopSets(val, query.limit, query.asc) : Merge(AnyOrder(T), "derived")
MixedSpeculativeTopN ==
  /\ Processed /\ kind = "mixed" /\ ~Derived(query) /\ CanSpeculate
  /\ \E s \in Speculations : s.verdict = "ok" /\ Merge(s.keys, "spec")
MixedTiedTopN ==
  /\ Processed /\ kind = "mixed" /\ ~Derived(query) /\ CanSpeculate
  /\ \E s \in Speculations : s.verdict = "tied" /\ Merge(s.keys, "tied")
MixedBareLimit ==
  /\ Processed /\ kind = "mixed" /\ BareLimit(query) /\ query.having = <<>>
  /\ \E keys \in BareLimitKeys : Merge(keys, "bare")
MixedPartitionedTopN ==
  /\ Processed /\ kind = "mixed" /\ TopN(query) /\ ~Derived(query)
  /\ CanSpeculate => \E s \in Speculations : s.verdict = "no"
  /\ \E keys \in PartitionedTopN(PassesRaw) : Merge(keys, "part")
MixedFullMerge ==
  /\ Processed /\ kind = "mixed" /\ ~TopN(query) /\ (BareLimit(query) => query.having # <<>>)
  /\ Merge(AnyOrder(FullKeys), "full")

\* Distinct values are counted per partition of their hashes.
CdMerge ==
  /\ Processed /\ kind = "cd" /\ Merge(<<<<>>>>, "cd")

\* One map: ranked if there are more groups than the LIMIT; a LIMIT without order stops
\* after as many groups.
SerialFinish ==
  /\ Processed /\ kind = "serial"
  /\ LET val == [x \in FullKeys |-> MergedValue(x)]
     IN  CASE TopN(query) /\ query.limit < Cardinality(FullKeys) ->
                \E T \in TopSets(val, query.limit, query.asc) : Merge(Ranked(val, T, query.asc), "serial")
           [] BareLimit(query) ->
                \E T \in TopSets([x \in FullKeys |-> 0], query.limit, TRUE) : Merge(AnyOrder(T), "serial")
           [] OTHER -> Merge(AnyOrder(FullKeys), "serial")

End ==
  /\ pc = "done" \/ (pc = "planned" /\ path = "plain")
  /\ pc' = "idle" /\ query' = Null /\ path' = "none" /\ out' = <<>> /\ how' = "none"
  /\ Reset /\ UNCHANGED table

-----------------------------------------------------------------------------
Init ==
  /\ \E input \in Inputs : parts = [p \in DOMAIN input |-> Compressed(input[p])]
  /\ changes = 0 /\ pc = "idle" /\ query = Null /\ path = "none"
  /\ segs = <<>> /\ kind = "none" /\ batch = 1 /\ next = 1
  /\ slots = <<>> /\ sample = <<>> /\ floor = 0 /\ keep = Null
  /\ maps = <<>> /\ fill = <<>> /\ out = <<>> /\ how = "none"

Worker == 1..MaxWorkers
Next ==
  \/ \E p \in DOMAIN parts : Insert(p) \/ Delete(p)
  \/ \E q \in Queries : Plan(q)
  \/ \E known \in BOOLEAN : BeginCountScan(known)
  \/ BeginMinmaxScan \/ BeginAggStale \/ BeginAggCatalog \/ BeginAggMetadata \/ BeginAggScan
  \/ CountFilter \/ PickFloor \/ NextBatch
  \/ \E w \in Worker : Process(w) \/ ProcessCdSegments(w)
  \/ CompactSpeculativeTopN \/ CompactTiedTopN \/ CompactBareLimit \/ CompactPartitionedTopN
  \/ CompactFullMerge
  \/ MixedDerivedMinmaxTopN \/ MixedSpeculativeTopN \/ MixedTiedTopN \/ MixedBareLimit
  \/ MixedPartitionedTopN \/ MixedFullMerge
  \/ CdMerge \/ SerialFinish \/ End

Spec == Init /\ [][Next]_vars

-----------------------------------------------------------------------------
(* What SQL says the result is. *)
LiveRows ==
  LET Stored(p) == {<<p, s.id, i>> : s \in parts[p].segs, i \in 1..SegmentSize}
      Live(r) == \E s \in parts[r[1]].segs :
                   s.id = r[2] /\ r[3] <= s.count /\ r[3] \notin TombsOf(parts[r[1]], s.id)
  IN  UNION {{r \in Stored(p) : Live(r)} \cup {<<p, 0, i>> : i \in DOMAIN parts[p].loose} :
               p \in DOMAIN parts}
RowAt(r) == IF r[2] = 0 THEN parts[r[1]].loose[r[3]]
            ELSE RowOf(CHOOSE s \in parts[r[1]].segs : s.id = r[2], r[3])

SqlValue(a, S) ==
  LET nonnull == {r \in S : RowAt(r)[a.col] # Null}
      Arg(r) == CASE a.arg = "length" -> Chars(RowAt(r)[a.col])
                  [] a.arg = "add" -> RowAt(r)[a.col] + a.add
                  [] OTHER -> RowAt(r)[a.col]
      total == SumOver([r \in nonnull |-> Arg(r)])
      args == {Arg(r) : r \in nonnull}
  IN  CASE a.fn = "count*" -> Cardinality(S)
        [] a.fn = "count" -> Cardinality(nonnull)
        [] a.fn = "count distinct" -> Cardinality(args)
        [] a.fn = "min" -> MinOf(args)
        [] a.fn = "max" -> MaxOf(args)
        [] a.fn = "sum" -> IF nonnull = {} THEN Null ELSE total
        [] a.fn = "avg" -> IF nonnull = {} THEN Null
                           ELSE (total * AvgScale) \div Cardinality(nonnull)
SqlRows ==
  LET rows == {r \in LiveRows : Satisfies(query.quals, RowAt(r))}
      keys == IF query.groups = <<>> THEN {<<>>} ELSE {KeyOf(query.groups, RowAt(r)) : r \in rows}
      Row(x) == LET S == {r \in rows : KeyOf(query.groups, RowAt(r)) = x}
                IN  [key |-> x, vals |-> [k \in DOMAIN query.aggs |-> SqlValue(query.aggs[k], S)]]
  IN  {r \in {Row(x) : x \in keys} : PassesHaving(query.having, r.vals)}

Answered == pc = "done" /\ how # "stale"
Distinct(s) == Cardinality(Elements(s)) = Len(s)

\* A query without a LIMIT the node applies returns every group of SQL's answer, once and
\* with its exact values, whichever node and whichever way of merging produced it, also
\* when rows were inserted or deleted after planning (begin_count_scan, begin_minmax_scan,
\* begin_agg_scan, compact_full_merge, mixed_full_merge, dispatch_serial_path).
AggExact ==
  Answered /\ ~TopN(query) /\ ~BareLimit(query) => Elements(out) = SqlRows /\ Distinct(out)

RankOf(r) ==
  IF query.order.kind = "agg" THEN r.vals[query.order.agg]
  ELSE r.vals[query.order.max] - r.vals[query.order.min]
\* ORDER BY aggregate LIMIT n returns n groups (all, if there are fewer) with their exact
\* values, none of the others ranks before one of them, and they are in order where the
\* plan's order is relied upon: candidates of threads, the count floor and partitions lose
\* no winner (compact_speculative_topn, pick_count_floor, compact_partitioned_topn and the
\* mixed ones). Left out: winners accepted because they are equal among themselves.
TopNGroupsExact ==
  Answered /\ TopN(query) /\ how # "tied" =>
    /\ Elements(out) \subseteq SqlRows /\ Distinct(out)
    /\ Len(out) = Min2(query.limit, Cardinality(SqlRows))
    /\ \A r \in SqlRows \ Elements(out), i \in DOMAIN out :
         ~Better(query.asc, RankOf(r), RankOf(out[i]))
    /\ how \in {"spec", "part"} \/ (how = "serial" /\ Cardinality(SqlRows) > query.limit) =>
         \A i, j \in DOMAIN out : i < j => ~Better(query.asc, RankOf(out[j]), RankOf(out[i]))

\* LIMIT without ORDER BY returns groups with the values they have over all segments, none
\* twice and no more than the LIMIT, though the keys come from a probe of some segments or
\* from one thread's map (try_build_preselected, compact_bare_limit, mixed_bare_limit); a
\* single thread fills the LIMIT.
BareLimitExact ==
  Answered /\ BareLimit(query) /\ path = "agg" /\ query.having = <<>> =>
    /\ Elements(out) \subseteq SqlRows /\ Distinct(out) /\ Len(out) <= query.limit
    /\ how = "serial" => Len(out) = Min2(query.limit, Cardinality(SqlRows))

\* LIMIT n without ORDER BY returns n groups if there are as many.
LimitFilled ==
  Answered /\ BareLimit(query) /\ how = "bare" => Len(out) = Min2(query.limit, Cardinality(SqlRows))
=============================================================================
