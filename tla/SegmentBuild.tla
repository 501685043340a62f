---------------------------- MODULE SegmentBuild ----------------------------
(***************************************************************************)
(* How rows become segments (compress.rs): the order the cursor returns    *)
(* them in, where a segment ends, and what is stored about a segment       *)
(* beside its columns: minima and maxima, sums and counts, bloom filters   *)
(* and value bitmaps. All of it is there to skip segments or rows later,   *)
(* which is the subject of Pruning.                                        *)
(*                                                                         *)
(* Values are integers or Null; of a text only its identity and its place  *)
(* in the byte order matter, so texts are integers too. A segment keeps    *)
(* its columns as sequences; positions are offsets into them, from 1.      *)
(***************************************************************************)
EXTENDS Integers, Sequences, FiniteSets, TLC

CONSTANTS Null,
          Columns, TimeColumn,
          SegmentBy,            \* columns of the segment_by option
          OrderBy,              \* sequence of columns of the order_by option
          TextColumns,
          DateColumns,          \* dates and timestamps, the time column among them
          Chars(_),             \* length of a text
          SegmentSize,          \* rows of a full segment
          MaxDistinct,          \* VALBITMAP_MAX_DISTINCT
          Hash(_)               \* the bits of a bloom filter a value sets

ASSUME BuildAssumption ==
  /\ TimeColumn \in DateColumns \ TextColumns /\ SegmentBy \subseteq Columns \ {TimeColumn}
  /\ OrderBy \in Seq(Columns) /\ SegmentSize \in Nat \ {0} /\ MaxDistinct \in Nat

Blobs == Columns \ SegmentBy
MinOf(S) == IF S = {} THEN Null ELSE CHOOSE x \in S : \A y \in S : x <= y
MaxOf(S) == IF S = {} THEN Null ELSE CHOOSE x \in S : \A y \in S : y <= x
Elems(f) == {f[i] : i \in DOMAIN f} \ {Null}
\* Min/max and bloom filters exist for numbers, dates and times, sums for numbers and
\* (of their lengths) for texts.
SupportsMinmax(c) == c \notin TextColumns
SupportsSum(c) == c \notin DateColumns

-----------------------------------------------------------------------------
(* Order of rows. *)

\* Option<T> in Rust puts None first, ORDER BY puts NULL last.
NullsFirst(x, y) == y # Null /\ (x = Null \/ x < y)
NullsLast(x, y) == x # Null /\ (y = Null \/ x < y)

Precedes(nullsFirst, cols, r, s) ==
  \E k \in DOMAIN cols : /\ IF nullsFirst THEN NullsFirst(r[cols[k]], s[cols[k]])
                                          ELSE NullsLast(r[cols[k]], s[cols[k]])
                         /\ \A l \in 1..(k - 1) : r[cols[l]] = s[cols[l]]

\* Stable sort of rows by columns.
StableSort(nullsFirst, cols, rows) ==
  LET Rank(i) == Cardinality({j \in DOMAIN rows :
                   \/ Precedes(nullsFirst, cols, rows[j], rows[i])
                   \/ j <= i /\ ~Precedes(nullsFirst, cols, rows[i], rows[j])})
  IN  [k \in DOMAIN rows |-> rows[CHOOSE i \in DOMAIN rows : Rank(i) = k]]

\* A segment's rows are sorted in memory when the query had no ORDER BY.
SortTypedColumns(rows) == StableSort(TRUE, OrderBy, rows)

\* The query that reads the rows to compress orders them only to bring the rows of one
\* segment_by value together; byCols lists SegmentBy in some order.
CursorOrder_ByOnly(byCols, rows) == StableSort(FALSE, byCols, rows)
CursorOrder(byCols, rows) ==
  IF SegmentBy = {} THEN rows ELSE StableSort(FALSE, byCols \o OrderBy, rows)

-----------------------------------------------------------------------------
(* Segments. *)
SameSegment(r, s) == \A c \in SegmentBy : r[c] = s[c]

\* First positions of segments: where the segment_by values change, and after each
\* SegmentSize rows with the same ones.
Starts_NoBoundary(rows) == {i \in DOMAIN rows : (i - 1) % SegmentSize = 0}
Starts(rows) ==
  LET GroupStart(i) ==
        CHOOSE j \in 1..i : /\ \A l \in j..i : SameSegment(rows[l], rows[i])
                            /\ j = 1 \/ ~SameSegment(rows[j - 1], rows[i])
  IN  {i \in DOMAIN rows : (i - GroupStart(i)) % SegmentSize = 0}

\* The rows between a start and the next one, sorted.
Chunk(rows, i) ==
  LET end == MinOf({j \in Starts(rows) : j > i} \cup {Len(rows) + 1}) - 1
      chunk == SubSeq(rows, i, end)
  IN  IF SegmentBy = {} THEN SortTypedColumns(chunk) ELSE chunk

Bloom(values) == UNION {Hash(v) : v \in Elems(values)}
ComputeSegmentBlooms(cols) ==
  [c \in {d \in Blobs : SupportsMinmax(d) /\ Elems(cols[d]) # {}} |-> Bloom(cols[c])]

\* The values of a text column, unless there are too many.
ComputeSegmentValues(cols) ==
  [c \in {d \in Blobs \cap TextColumns : Cardinality(Elems(cols[d])) <= MaxDistinct} |->
     Elems(cols[c])]

\* Sum, non-null and non-zero counts; of a text, its length counts.
ComputeSum(values, c) ==
  LET Val(i) == IF c \in TextColumns THEN Chars(values[i]) ELSE values[i]
      nonnull == {i \in DOMAIN values : values[i] # Null}
      S[i \in 0..Len(values)] ==
        IF i = 0 THEN 0 ELSE S[i - 1] + (IF i \in nonnull THEN Val(i) ELSE 0)
  IN  [sum |-> IF nonnull = {} THEN Null ELSE S[Len(values)],
       nonnull |-> Cardinality(nonnull),
       nonzero |-> Cardinality({i \in nonnull : Val(i) # 0})]

Colstats(values, c) ==
  [min |-> IF SupportsMinmax(c) THEN MinOf(Elems(values)) ELSE Null,
   max |-> IF SupportsMinmax(c) THEN MaxOf(Elems(values)) ELSE Null] @@
  (IF SupportsSum(c) THEN ComputeSum(values, c)
                     ELSE [sum |-> Null, nonnull |-> 0, nonzero |-> 0])

\* The rows of the companion tables for one segment.
FlushSegment(id, rows) ==
  LET cols == [c \in Blobs |-> [i \in DOMAIN rows |-> rows[i][c]]]
      stats == [c \in Blobs |-> Colstats(cols[c], c)]
  IN  [id |-> id, by |-> [c \in SegmentBy |-> rows[1][c]], count |-> Len(rows),
       minTime |-> stats[TimeColumn].min, maxTime |-> stats[TimeColumn].max,
       cols |-> cols, stats |-> stats,
       bloom |-> ComputeSegmentBlooms(cols), values |-> ComputeSegmentValues(cols)]

RowOf(seg, i) ==
  [c \in Columns |-> IF c \in SegmentBy THEN seg.by[c] ELSE seg.cols[c][i]]
RowsOf(seg) == {RowOf(seg, i) : i \in 1..seg.count}

\* The segments for rows, numbered from first on in the order of their starts.
FlushAll(rows, first) ==
  {FlushSegment(first + Cardinality({j \in Starts(rows) : j < i}), Chunk(rows, i)) :
     i \in Starts(rows)}

-----------------------------------------------------------------------------
(* Value bitmaps: valmap[c] lists the values of column c, a segment's bitmap *)
(* has the positions of its values in it.                                    *)
SortedSeq(S) ==
  [k \in 1..Cardinality(S) |-> CHOOSE x \in S : Cardinality({y \in S : y <= x}) = k]

BitsOf(valmap, S) == {k \in DOMAIN valmap : valmap[k] \in S}

FinalizeValmap(segs) ==
  LET Union(c) == UNION {s.values[c] : s \in {x \in segs : c \in DOMAIN x.values}}
      kept == {c \in Blobs \cap TextColumns :
                 /\ \E s \in segs : c \in DOMAIN s.values
                 /\ Cardinality(Union(c)) <= MaxDistinct}
  IN  [c \in kept |-> SortedSeq(Union(c))]

\* bits[c]: segment id to bitmap, for the segments that have one.
FinalizeBits(segs, valmap) ==
  [c \in DOMAIN valmap |->
     LET having == {s \in segs : c \in DOMAIN s.values}
     IN  [id \in {s.id : s \in having} |->
            BitsOf(valmap[c], (CHOOSE s \in having : s.id = id).values[c])]]

\* Compaction keeps a column's bitmaps if every new segment has its values and the list
\* does not grow too long; new values go to the end, where no old bitmap has a bit.
NovelValues(valmap, segs, c) ==
  UNION {s.values[c] : s \in segs} \ {valmap[c][k] : k \in DOMAIN valmap[c]}
AppendValmap_Sorted(valmap, segs) ==
  LET kept == {c \in DOMAIN valmap : \A s \in segs : c \in DOMAIN s.values}
  IN  [c \in kept |-> SortedSeq(NovelValues(valmap, segs, c)
                                \cup {valmap[c][k] : k \in DOMAIN valmap[c]})]
AppendValmap(valmap, segs) ==
  LET kept == {c \in DOMAIN valmap :
                 /\ \A s \in segs : c \in DOMAIN s.values
                 /\ Len(valmap[c]) + Cardinality(NovelValues(valmap, segs, c)) <= MaxDistinct}
  IN  [c \in kept |-> valmap[c] \o SortedSeq(NovelValues(valmap, segs, c))]

AppendBits(valmap, segs, bits) ==
  [c \in DOMAIN valmap |->
     LET new == {s.id : s \in segs}
     IN  [id \in DOMAIN bits[c] \cup new |->
            IF id \in new THEN BitsOf(valmap[c], (CHOOSE s \in segs : s.id = id).values[c])
                          ELSE bits[c][id]]]

\* Range of a column over all segments of the partition; columns without values have none.
PartitionMinmax(segs) ==
  LET Has(c) == \E s \in segs : s.stats[c].min # Null
  IN  [c \in {d \in Blobs : Has(d)} |->
         LET having == {s \in segs : s.stats[c].min # Null}
         IN  [min |-> MinOf({s.stats[c].min : s \in having}),
              max |-> MaxOf({s.stats[c].max : s \in having})]]
=============================================================================
