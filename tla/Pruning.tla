------------------------------- MODULE Pruning -------------------------------
(***************************************************************************)
(* What a scan may leave out (scan/exec/segments.rs, batch_qual.rs): the   *)
(* conditions of a query that can be evaluated on whole columns, and the   *)
(* tests on metadata, index, bloom filter, value bitmap and dictionary     *)
(* that tell that no row of a segment satisfies them.                      *)
(*                                                                         *)
(* A condition is [col, op, val, left]: column, operator, constant, and    *)
(* whether the column is the left operand. The constant of "in" is a set   *)
(* of values, that of "like" the set of texts the pattern matches. "other" *)
(* is any condition of another form (val: the set of values it accepts).   *)
(* A boolean column as a condition by itself is left out: it becomes an    *)
(* equality that does not count as handled, as a list does.                *)
(***************************************************************************)
EXTENDS SegmentBuild

CONSTANTS NotNull,              \* columns declared NOT NULL
          Half                  \* numbers of a column are in -Half..(Half-1)

ASSUME PruneAssumption == TimeColumn \in NotNull /\ Half \in Nat \ {0}

Comparisons == {"=", "<>", "<", "<=", ">", ">="}

\* x op y for values that are not null.
Compare(op, x, y) ==
  CASE op = "=" -> x = y    [] op = "<>" -> x # y
    [] op = "<" -> x < y    [] op = "<=" -> x <= y
    [] op = ">" -> x > y    [] op = ">=" -> x >= y

Flip(op) == CASE op = "<" -> ">" [] op = "<=" -> ">=" [] op = ">" -> "<"
              [] op = ">=" -> "<=" [] OTHER -> op

\* What SQL makes of the condition: a null is never true.
Holds(q, v) ==
  /\ v # Null
  /\ CASE q.op \in Comparisons -> Compare(IF q.left THEN q.op ELSE Flip(q.op), v, q.val)
       [] q.op \in {"in", "like", "other"} -> v \in q.val
       [] q.op = "notlike" -> v \notin q.val
Satisfies(quals, row) == \A k \in DOMAIN quals : Holds(quals[k], row[quals[k].col])

-----------------------------------------------------------------------------
(* Conditions evaluated on columns. *)
Text(c) == c \in TextColumns

Converted(q) ==
  \/ q.op = "in"
  \/ q.op \in {"like", "notlike"} /\ Text(q.col) /\ q.left
  \/ q.op \in {"=", "<>"} /\ Text(q.col) /\ q.left
  \/ q.op \in Comparisons /\ ~Text(q.col)

\* A comparison of a number is turned round to have the column on the left.
BatchQual(q) ==
  IF q.op \in Comparisons /\ ~q.left THEN [q EXCEPT !.op = Flip(q.op), !.left = TRUE] ELSE q

ExtractBatchQuals(quals) ==
  LET conv == SelectSeq(quals, Converted)
  IN  [k \in DOMAIN conv |-> BatchQual(conv[k])]

\* The count that is compared with the number of conditions leaves out lists.
HandledCount(quals) ==
  Cardinality({k \in DOMAIN quals : Converted(quals[k]) /\ quals[k].op # "in"})
AllQualsBatchHandled(quals) ==
  HandledCount(quals) > 0 /\ HandledCount(quals) = Len(quals)

\* The constant's datum read as a value of the column's own width.
Narrow(v) == ((v + Half) % (2 * Half)) - Half

\* A batch condition on a value, for numbers and for texts.
BatchHolds(bq, v) ==
  IF Text(bq.col) THEN Holds(bq, v)
  ELSE /\ v # Null
       /\ IF bq.op = "in" THEN v \in {Narrow(x) : x \in bq.val}
                          ELSE Compare(bq.op, v, Narrow(bq.val))

\* The one condition on a text column that decompression evaluates: a LIKE, else a
\* comparison, else a list; the first of its kind. None if there is none.
FirstOf(bqs, c, ops) ==
  MinOf({k \in DOMAIN bqs : bqs[k].col = c /\ bqs[k].op \in ops})
TextQual(bqs, c) ==
  LET like == FirstOf(bqs, c, {"like", "notlike"})
      eq == FirstOf(bqs, c, {"=", "<>"})
      list == FirstOf(bqs, c, {"in"})
  IN  IF like # Null THEN like ELSE IF eq # Null THEN eq ELSE list

\* Does row i of a segment pass? cols holds the segment's columns, by its segment_by values.
\* Texts are tested while they are decompressed, numbers afterwards.
TextSelected(bqs, cols, i) ==
  \A c \in Blobs \cap TextColumns :
     LET k == TextQual(bqs, c) IN k # Null => BatchHolds(bqs[k], cols[c][i])
EvaluateBatchQuals(bqs, by, cols, i) ==
  \A k \in {l \in DOMAIN bqs : ~Text(bqs[l].col)} :
     LET c == bqs[k].col
     IN  BatchHolds(bqs[k], IF c \in SegmentBy THEN by[c] ELSE cols[c][i])
RowSelected(bqs, by, cols, i) == TextSelected(bqs, cols, i) /\ EvaluateBatchQuals(bqs, by, cols, i)

-----------------------------------------------------------------------------
(* Bounds on segment_by values and time, from the conditions themselves. *)
SegmentByFilters(quals) ==
  {<<quals[k].col, quals[k].val>> :
     k \in {l \in DOMAIN quals : quals[l].op = "=" /\ quals[l].col \in SegmentBy}}

TimeOp(q) == IF q.left THEN q.op ELSE Flip(q.op)
TimeQuals(quals, ops) ==
  {quals[k] : k \in {l \in DOMAIN quals : quals[l].col = TimeColumn
                                         /\ quals[l].op \in Comparisons
                                         /\ TimeOp(quals[l]) \in ops}}
\* [TimeMin, TimeMax) contains every time that satisfies the conditions; Null: no bound.
TimeMin(quals) ==
  MaxOf({IF TimeOp(q) = ">" THEN q.val + 1 ELSE q.val : q \in TimeQuals(quals, {">", ">="})})
TimeMax_Inclusive(quals) == MinOf({q.val : q \in TimeQuals(quals, {"<", "<="})})
TimeMax(quals) ==
  MinOf({IF TimeOp(q) = "<=" THEN q.val + 1 ELSE q.val : q \in TimeQuals(quals, {"<", "<="})})

MetadataPass(quals, by, min, max) ==
  /\ \A f \in SegmentByFilters(quals) : by[f[1]] = f[2]
  /\ min # Null /\ max # Null =>
       /\ TimeMin(quals) # Null => max >= TimeMin(quals)
       /\ TimeMax(quals) # Null => min < TimeMax(quals)

-----------------------------------------------------------------------------
(* Minima and maxima. *)
MinmaxPass(bq, min, max) ==
  CASE bq.op = "in" -> \E v \in bq.val : min <= v /\ v <= max
    [] bq.op = "=" -> min <= bq.val /\ max >= bq.val
    [] bq.op = "<>" -> ~(min = bq.val /\ max = bq.val)
    [] bq.op \in {"<", "<="} -> Compare(bq.op, min, bq.val)
    [] bq.op \in {">", ">="} -> Compare(bq.op, max, bq.val)

Elements(s) == {s[k] : k \in DOMAIN s}
\* Equalities that the min/max index answers.
IndexedEq(bqs) ==
  {q \in Elements(bqs) : /\ q.op = "=" /\ ~Text(q.col) /\ q.col # TimeColumn
                         /\ q.col \in NotNull /\ SegmentBy = {}}

\* Range of the partition, kept in the catalog.
PartitionPass(part, bqs) ==
  \A q \in IndexedEq(bqs) : q.col \in DOMAIN part.minmax =>
     part.minmax[q.col].min <= q.val /\ q.val <= part.minmax[q.col].max

IndexCovers(seg, q) ==
  LET s == seg.stats[q.col]
  IN  s.min # Null /\ s.min <= q.val /\ s.max >= q.val

\* The conditions tested on _colstats: not on columns answered above or by the meta table.
ColstatsFilters(bqs) ==
  {k \in DOMAIN bqs : /\ bqs[k].op \in Comparisons \cup {"in"} /\ ~Text(bqs[k].col)
                      /\ bqs[k].col \notin SegmentBy \cup {TimeColumn}
                      /\ bqs[k].col \notin {q.col : q \in IndexedEq(bqs)}}
\* Equalities are looked up in the index if no other column is asked for; it has no entry
\* for a segment without values. Otherwise such a segment is kept. stats: the columns the
\* caller needs statistics of.
ColstatsPass(seg, bqs, stats) ==
  LET fs == ColstatsFilters(bqs)
      eqs == {k \in fs : bqs[k].op = "="}
      byIndex == eqs # {} /\ Cardinality({bqs[k].col : k \in fs} \cup stats) = Cardinality(eqs)
      s(k) == seg.stats[bqs[k].col]
  IN  IF byIndex THEN \A k \in eqs : IndexCovers(seg, bqs[k])
      ELSE \A k \in fs : s(k).min # Null => MinmaxPass(bqs[k], s(k).min, s(k).max)

-----------------------------------------------------------------------------
(* Bloom filters and value bitmaps. *)
Wanted(q) == IF q.op = "in" THEN q.val ELSE {q.val}

BloomChecks(bqs) ==
  {q \in Elements(bqs) : q.op \in {"=", "in"} /\ q.col \notin SegmentBy /\ ~Text(q.col)}
BloomPass(seg, bqs) ==
  \A q \in BloomChecks(bqs) :
     q.col \in DOMAIN seg.bloom => \E v \in Wanted(q) : Hash(v) \subseteq seg.bloom[q.col]

ValbitmapChecks(part, bqs) ==
  {q \in Elements(bqs) : q.op = "=" /\ Text(q.col) /\ q.col \in DOMAIN part.valmap}
\* A constant the list does not have rules out only the segments that have a bitmap.
ValbitmapPass_NoRow(part, id, bqs) ==
  \A q \in ValbitmapChecks(part, bqs) :
     /\ id \in DOMAIN part.bits[q.col]
     /\ BitsOf(part.valmap[q.col], {q.val}) \cap part.bits[q.col][id] # {}
ValbitmapPass(part, id, bqs) ==
  \A q \in ValbitmapChecks(part, bqs) :
     id \in DOMAIN part.bits[q.col] =>
       BitsOf(part.valmap[q.col], {q.val}) \cap part.bits[q.col][id] # {}

-----------------------------------------------------------------------------
(* Loading the segments of a partition. A handle is what a scan knows of a *)
(* segment before it reads its columns.                                    *)
TombsOf(part, id) == IF id \in DOMAIN part.tombs THEN part.tombs[id] ELSE {}

\* A single equality that needs nothing else is answered by the index alone; the count of
\* non-null values serves as the number of rows.
IsPointLookup(quals, bqs, stats) ==
  /\ stats = {} /\ SegmentBy = {} /\ TimeMin(quals) = Null /\ TimeMax(quals) = Null
  /\ Len(bqs) = 1 /\ IndexedEq(bqs) # {}
PointHandle(part, seg, q) ==
  [id |-> seg.id, by |-> seg.by, count |-> seg.stats[q.col].nonnull,
   minTime |-> Null, maxTime |-> Null, tombs |-> TombsOf(part, seg.id)]

MetaHandle(part, seg) ==
  [id |-> seg.id, by |-> seg.by, count |-> seg.count,
   minTime |-> seg.minTime, maxTime |-> seg.maxTime, tombs |-> TombsOf(part, seg.id)]

SegmentSurvives(part, seg, quals, bqs, stats) ==
  /\ \A q \in IndexedEq(bqs) : IndexCovers(seg, q)
  /\ MetadataPass(quals, seg.by, seg.minTime, seg.maxTime)
  /\ ColstatsPass(seg, bqs, stats) /\ BloomPass(seg, bqs) /\ ValbitmapPass(part, seg.id, bqs)

LoadSegments(part, quals, skipBlobLoad, stats) ==
  LET bqs == ExtractBatchQuals(quals)
  IN  IF ~PartitionPass(part, bqs) THEN {}
      ELSE IF IsPointLookup(quals, bqs, stats) /\ skipBlobLoad
      THEN {PointHandle(part, s, bqs[1]) :
              s \in {x \in part.segs : IndexCovers(x, bqs[1]) /\ BloomPass(x, bqs)}}
      ELSE {MetaHandle(part, s) : s \in {x \in part.segs : SegmentSurvives(part, x, quals, bqs, stats)}}

-----------------------------------------------------------------------------
(* Tests after loading. *)

\* A text column is stored with a dictionary if its values repeat enough.
UsesDictionary(values) ==
  LET n == Cardinality({i \in DOMAIN values : values[i] # Null})
  IN  Cardinality(Elems(values)) <= MaxOf({n \div 2, 1})

SkippableByDict(bqs, cols) ==
  \E k \in DOMAIN bqs :
     /\ Text(bqs[k].col) /\ bqs[k].col \notin SegmentBy /\ bqs[k].op # "in"
     /\ UsesDictionary(cols[bqs[k].col])
     /\ bqs[k].op = "<>" => Cardinality(Elems(cols[bqs[k].col])) <= 1
     /\ \A v \in Elems(cols[bqs[k].col]) : ~Holds(bqs[k], v)

\* Do all rows satisfy a condition, or none, or is it not known (Null)?
AllRowsPass(bq, min, max) ==
  CASE min = Null \/ max = Null \/ bq.op \notin Comparisons -> Null
    [] bq.op \in {"=", "<>"} ->
         IF min = bq.val /\ max = bq.val THEN bq.op = "="
         ELSE IF max < bq.val \/ min > bq.val THEN bq.op = "<>" ELSE Null
    [] OTHER ->
         IF \A x \in {min, max} : Compare(bq.op, x, bq.val) THEN TRUE
         ELSE IF \A x \in {min, max} : ~Compare(bq.op, x, bq.val) THEN FALSE ELSE Null

\* A condition on zero may be settled by the count of values that are not zero.
NoneByZeroCount(seg, bq) ==
  LET s == seg.stats[bq.col]
  IN  /\ bq.op \in {"=", "<>"} /\ bq.val = 0 /\ SupportsSum(bq.col) /\ s.nonnull = seg.count
      /\ \/ bq.op = "<>" /\ s.nonzero = 0
         \/ bq.op = "=" /\ s.nonzero = s.nonnull

ClassifySegmentQuals_NullsPass(seg, bqs) ==
  LET Verdict(k) == IF bqs[k].col \in SegmentBy THEN Null
                    ELSE AllRowsPass(bqs[k], seg.stats[bqs[k].col].min, seg.stats[bqs[k].col].max)
  IN  IF \A k \in DOMAIN bqs : Verdict(k) = TRUE THEN "AllPass"
      ELSE IF \E k \in DOMAIN bqs : Verdict(k) = FALSE THEN "NonePass" ELSE "Ambiguous"
ClassifySegmentQuals(seg, bqs) ==
  LET HasMinmax(k) == bqs[k].col \notin SegmentBy \cup TextColumns
      Verdict(k) ==
        IF ~HasMinmax(k) THEN Null
        ELSE AllRowsPass(bqs[k], seg.stats[bqs[k].col].min, seg.stats[bqs[k].col].max)
      Settled(k) == Verdict(k) # Null \/ (HasMinmax(k) /\ NoneByZeroCount(seg, bqs[k]))
      \* The conditions are tried in order; the first one not settled ends it.
      stop == MinOf({k \in DOMAIN bqs : Verdict(k) = FALSE \/ ~Settled(k)})
      NoNulls(k) == \/ bqs[k].col = TimeColumn
                    \/ seg.stats[bqs[k].col].nonnull >= seg.count
  IN  CASE stop # Null -> IF Verdict(stop) = FALSE THEN "NonePass" ELSE "Ambiguous"
        [] \E k \in DOMAIN bqs : Verdict(k) = Null -> "NonePass"
        [] \A k \in DOMAIN bqs : NoNulls(k) -> "AllPass"
        [] OTHER -> "Ambiguous"
=============================================================================
