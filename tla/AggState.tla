------------------------------ MODULE AggState ------------------------------
(***************************************************************************)
(* What an aggregation is made of (scan/exec/agg): the value an aggregate  *)
(* reads from a row, the accumulator it keeps and how two of them merge,   *)
(* the key of a group, HAVING, and how the winners of an ORDER BY ...      *)
(* LIMIT are picked. AggExec puts them to work.                            *)
(*                                                                         *)
(* An aggregate is [fn, col, arg, add]: arg tells whether it reads the     *)
(* column, the length of a text or the column plus add. A group key is     *)
(* [fn, col, arg], see GroupKey. HAVING is a sequence of [agg, op, val].   *)
(* Counts, sums, sets of values and extrema share one record; the code has *)
(* a variant for each. An average is kept as AvgScale times the average.   *)
(***************************************************************************)
EXTENDS Pruning

CONSTANTS WideColumns,          \* columns of type int8
          AvgScale,             \* a multiple of every number of rows of a group
          Rewrite(_)            \* what regexp_replace makes of a text

ASSUME AggAssumption == WideColumns \subseteq Columns \ TextColumns /\ AvgScale \in Nat \ {0}

Integral(c) == c \notin TextColumns \cup DateColumns

-----------------------------------------------------------------------------
(* Accumulators. *)

\* The value of aggregate a in a row. Minimum and maximum ignore the constant of an
\* addition.
AggInput(a, row) ==
  LET v == row[a.col]
  IN  CASE a.fn = "count*" -> 1
        [] a.fn # "count*" /\ v = Null -> Null
        [] a.fn # "count*" /\ v # Null ->
             CASE a.arg = "length" -> Chars(v)
               [] a.arg = "add" /\ a.fn \in {"sum", "avg"} -> v + a.add
               [] OTHER -> v

NewAcc == [n |-> 0, sum |-> 0, val |-> Null, set |-> {}]

Smaller(x, y) == MinOf({x, y} \ {Null})
Larger(x, y) == MaxOf({x, y} \ {Null})

Accumulate(a, acc, v) ==
  CASE v = Null -> acc
    [] v # Null /\ a.fn \in {"count*", "count"} -> [acc EXCEPT !.n = @ + 1]
    [] v # Null /\ a.fn \in {"sum", "avg"} -> [acc EXCEPT !.n = @ + 1, !.sum = @ + v]
    [] v # Null /\ a.fn = "min" -> [acc EXCEPT !.val = Smaller(@, v)]
    [] v # Null /\ a.fn = "max" -> [acc EXCEPT !.val = Larger(@, v)]
    [] v # Null /\ a.fn = "count distinct" -> [acc EXCEPT !.set = @ \cup {v}]

\* The accumulators of two workers, or of two segments, for one group.
MergeAcc(a, x, y) ==
  [n |-> x.n + y.n, sum |-> x.sum + y.sum, set |-> x.set \cup y.set,
   val |-> IF a.fn = "min" THEN Smaller(x.val, y.val) ELSE Larger(x.val, y.val)]

\* An empty sum, average or extremum is null.
FinalizeAcc(a, acc) ==
  CASE a.fn \in {"count*", "count"} -> acc.n
    [] a.fn = "sum" -> IF acc.n = 0 THEN Null ELSE acc.sum
    [] a.fn = "avg" -> IF acc.n = 0 THEN Null ELSE (acc.sum * AvgScale) \div acc.n
    [] a.fn \in {"min", "max"} -> acc.val
    [] a.fn = "count distinct" -> Cardinality(acc.set)

\* Accumulators of fixed size exist for sums of numbers, extrema, and distinct counts of
\* numbers and texts; a length is a number.
CompactAcc(a) ==
  CASE a.fn \in {"sum", "avg"} -> a.arg = "length" \/ Integral(a.col)
    [] a.fn = "count distinct" -> a.col \notin DateColumns
    [] OTHER -> TRUE
CanUseCompactAccs(aggs) == \A k \in DOMAIN aggs : CompactAcc(aggs[k])

\* Fold of the rows rows[i], i \in sel, into the accumulators accs of aggs.
AccumulateRows(aggs, accs, rows, sel) ==
  LET S[i \in 0..Len(rows)] ==
        IF i = 0 THEN accs
        ELSE IF i \notin sel THEN S[i - 1]
        ELSE [k \in DOMAIN aggs |-> Accumulate(aggs[k], S[i - 1][k], AggInput(aggs[k], rows[i]))]
  IN  S[Len(rows)]
NewAccs(aggs) == [k \in DOMAIN aggs |-> NewAcc]

-----------------------------------------------------------------------------
(* Groups. A map takes keys (sequences of key parts) to accumulators. *)

\* extract: arg is <<width, count>>, as for <<an hour, 24>>. case: arg is a condition and a
\* text, CASE WHEN condition THEN column ELSE text.
Bucket(width, v) == v \div width
GroupKey(g, row) ==
  LET v == row[g.col]
  IN  CASE g.fn = "case" -> IF Holds(g.arg[1], row[g.arg[1].col]) THEN v ELSE g.arg[2]
        [] g.fn # "case" /\ v = Null -> Null
        [] g.fn # "case" /\ v # Null ->
             CASE g.fn = "column" -> v
               [] g.fn = "trunc" -> Bucket(g.arg, v) * g.arg
               [] g.fn = "extract" -> Bucket(g.arg[1], v) % g.arg[2]
               [] g.fn = "add" -> v + g.arg
               [] g.fn = "regexp" -> Rewrite(v)
KeyOf(groups, row) == [k \in DOMAIN groups |-> GroupKey(groups[k], row)]

\* The key of every row of a segment whose extrema are in one bucket.
ConstantExtractKey(g, stats) ==
  IF g.fn # "extract" \/ stats.min = Null THEN Null
  ELSE IF Bucket(g.arg[1], stats.min) = Bucket(g.arg[1], stats.max)
  THEN Bucket(g.arg[1], stats.min) % g.arg[2]
  ELSE Null

TextKey(g) == g.fn \in {"regexp", "case"} \/ (g.fn = "column" /\ Text(g.col))

\* Keys of one or two whole numbers or times that are never null.
CanUseCompactKeys(groups) ==
  /\ Len(groups) \in 1..2
  /\ \A k \in DOMAIN groups : ~TextKey(groups[k]) /\ groups[k].col \in NotNull

-----------------------------------------------------------------------------
(* Merging maps. *)
EmptyMap == <<>>
Keys(maps) == UNION {DOMAIN maps[w] : w \in DOMAIN maps}

\* The accumulators of key in all maps.
MergeGroup_First(aggs, maps, key) ==
  LET having == {w \in DOMAIN maps : key \in DOMAIN maps[w]}
  IN  IF having = {} THEN NewAccs(aggs) ELSE maps[CHOOSE w \in having : TRUE][key]
MergeGroup(aggs, maps, key) ==
  LET having == {w \in DOMAIN maps : key \in DOMAIN maps[w]}
      S[ws \in SUBSET having] ==
        IF ws = {} THEN NewAccs(aggs)
        ELSE LET w == CHOOSE x \in ws : TRUE
             IN  [k \in DOMAIN aggs |-> MergeAcc(aggs[k], S[ws \ {w}][k], maps[w][key][k])]
  IN  S[having]

FinalizeRow(aggs, key, accs) ==
  [key |-> key, vals |-> [k \in DOMAIN aggs |-> FinalizeAcc(aggs[k], accs[k])]]

\* A null satisfies no condition.
HavingHolds(h, vals) == vals[h.agg] # Null /\ Compare(h.op, vals[h.agg], h.val)
\* The partitioned merge reads a null as zero.
HavingHoldsRaw(h, vals) ==
  Compare(h.op, IF vals[h.agg] = Null THEN 0 ELSE vals[h.agg], h.val)
PassesHaving(having, vals) == \A k \in DOMAIN having : HavingHolds(having[k], vals)

-----------------------------------------------------------------------------
(* Sorting. *)

\* What a merged group is ranked by; a null counts as zero.
SortValue(aggs, sort, accs) ==
  LET v == FinalizeAcc(aggs[sort], accs[sort]) IN IF v = Null THEN 0 ELSE v
Better(asc, x, y) == IF asc THEN x < y ELSE x > y

\* A group with both extrema is ranked by their difference.
DerivedValue(d, accs) == accs[d.max].val - accs[d.min].val

\* val: elements to ranks. The sets of n elements (all, if there are no more) with none
\* better left out; a tie is broken either way.
TopSets(val, n, asc) ==
  LET S == DOMAIN val
  IN  IF Cardinality(S) <= n THEN {S}
      ELSE {T \in SUBSET S : /\ Cardinality(T) = n
                             /\ \A x \in T, y \in S \ T : ~Better(asc, val[y], val[x])}
Worst(val, T, asc) == val[CHOOSE x \in T : \A y \in T : ~Better(asc, val[x], val[y])]

\* T as a sequence, the best first.
Ranked(val, T, asc) ==
  CHOOSE s \in [1..Cardinality(T) -> T] :
     /\ \A x \in T : \E i \in DOMAIN s : s[i] = x
     /\ \A i, j \in DOMAIN s : i < j => ~Better(asc, val[s[j]], val[s[i]])
=============================================================================
