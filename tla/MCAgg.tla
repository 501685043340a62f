------------------------------- MODULE MCAgg -------------------------------
(* Instances of AggExec for TLC. *)
EXTENDS AggExec

MCOrder == <<"t">>
MCHash(v) == {v % 3}
MCChars(v) == v
MCRewrite(v) == v % 2
\* Keys share slots of the filter; those with an odd last part are not sampled.
MCSlots(x) == {<<1, x[Len(x)] = 0>>, <<2, x[1]>>}
MCSampled(x) == x[Len(x)] # 3
MCPartition(x) == IF x[1] = Null THEN 0 ELSE x[1] % 2

\* t time, g text, n number, b nullable number.
R(t, g, n, b) == ("t" :> t @@ "g" :> g @@ "n" :> n @@ "b" :> b)
MCInputs ==
  { << <<R(0, 1, 0, Null), R(1, 2, 1, 0), R(2, 1, 1, 3), R(3, Null, 2, 0)>>,
       <<R(4, 1, 1, 2), R(5, 2, 0, Null), R(6, 3, 1, Null), R(7, 1, 2, 0)>> >>,
    << <<R(1, 3, 3, 1), R(0, 2, 1, 1), R(2, 2, 1, 0)>>, <<R(5, 2, 3, -2)>> >> }
MCNewRow == R(3, 2, 1, 1)

Q(c, op, v) == [col |-> c, op |-> op, val |-> v, left |-> TRUE]
A(fn, c) == [fn |-> fn, col |-> c, arg |-> "column", add |-> 0]
Star == A("count*", "t")
Plus(fn, c, k) == [A(fn, c) EXCEPT !.arg = "add", !.add = k]
Length(fn, c) == [A(fn, c) EXCEPT !.arg = "length"]
G(fn, c, arg) == [fn |-> fn, col |-> c, arg |-> arg]
Key(c) == G("column", c, Null)
NoOrder == [kind |-> "none"]
ByAgg(k) == [kind |-> "agg", agg |-> k]
ByDifference(x, n) == [kind |-> "derived", max |-> x, min |-> n]
H(k, op, v) == [agg |-> k, op |-> op, val |-> v]

Query(quals, groups, aggs) ==
  [quals |-> quals, groups |-> groups, aggs |-> aggs, having |-> <<>>, order |-> NoOrder,
   asc |-> FALSE, limit |-> 0, workers |-> 1, batches |-> 1, k |-> 9, metaOff |-> FALSE,
   large |-> FALSE, costly |-> FALSE]
On(q, workers, batches) == [q EXCEPT !.workers = workers, !.batches = batches]
Top(q, order, asc, limit, k) ==
  [q EXCEPT !.order = order, !.asc = asc, !.limit = limit, !.k = k]

Time == { <<>>, <<Q("t", ">=", 2)>>, <<Q("t", "<", 5), Q("t", ">", 2)>>, <<Q("t", "=", 3)>>,
          <<Q("t", "<=", 4)>> }
Other == { <<Q("n", "=", 0)>>, <<Q("b", "=", 0)>>, <<Q("b", "<>", 0)>>, <<Q("n", ">=", 1)>>,
           <<Q("g", "=", 1)>>, <<Q("g", "like", {1, 3}), Q("t", "<", 6)>> }
Scalar ==
  {Query(quals, <<>>, aggs) : quals \in Time \cup Other,
     aggs \in { <<Star>>, <<Star, Star>>, <<Star, Plus("sum", "n", 2), A("avg", "b")>>,
                <<A("count", "b"), A("sum", "b"), A("min", "b"), A("max", "t")>> }}
    \cup {Query(quals, <<>>, <<A("min", "t"), A("max", "n")>>) : quals \in Time}
    \cup {On(Query(quals, <<>>, aggs), 2, 1) : quals \in { <<>>, <<Q("g", "<>", 2)>> },
            aggs \in { <<A("count distinct", "g"), A("count distinct", "b")>>,
                       <<A("min", "g"), Length("sum", "g")>> }}
    \cup {[Query(quals, <<>>, aggs) EXCEPT !.metaOff = TRUE] : quals \in Time, aggs \in { <<Star>>, <<Star, Star>> }}
Compact ==
  LET byN == Query(<<>>, <<Key("n")>>, <<Star, A("sum", "b"), A("min", "b"), A("count distinct", "b")>>)
      two == Query(<<Q("b", ">=", 0)>>, <<G("trunc", "t", 4), G("extract", "t", <<2, 2>>)>>,
                   <<A("avg", "n"), Star>>)
  IN  {On(q, w, b) : q \in {byN, two}, w \in 1..2, b \in 1..2}
        \cup {[On(byN, 2, 1) EXCEPT !.having = <<H(1, ">", 1), H(2, ">=", 0)>>]}
Mixed ==
  {On(Query(quals, groups, <<Star, A("max", "t"), A("sum", "n"), A("count distinct", "g")>>), w, b) :
     quals \in { <<>>, <<Q("g", "<>", 2), Q("n", "<", 2)>> },
     groups \in { <<Key("g")>>, <<Key("g"), G("extract", "t", <<2, 3>>)>>,
                  <<G("regexp", "g", TRUE)>>, <<G("regexp", "g", FALSE)>>,
                  <<G("case", "g", <<Q("n", "=", 1), 7>>)>> },
     w \in 1..2, b \in 1..2}
Serial ==
  {Query(<<>>, <<Key("b")>>, <<Star, A("sum", "n")>>),
   Query(<<Q("g", "=", 2)>>, <<G("add", "b", 1), Key("g")>>, <<Star>>)}
Limits ==
  LET byN == On(Query(<<>>, <<Key("n")>>, <<Star, A("sum", "n"), A("avg", "n")>>), 2, 1)
      byG == On(Query(<<>>, <<Key("g"), Key("n")>>, <<Star, A("max", "t"), A("min", "t"), A("sum", "n")>>), 2, 1)
      serial == On(byG, 1, 1)
  IN  {Top(q, ByAgg(1), FALSE, limit, k) : q \in {byN, byG, serial, On(byN, 2, 2)}, limit \in 1..2, k \in {1, 9}}
        \cup {Top(byN, ByAgg(3), asc, 2, 9) : asc \in BOOLEAN}
        \cup {Top(byG, ByAgg(4), TRUE, 2, 9)}
        \cup {[Top(q, ByAgg(1), FALSE, 2, 9) EXCEPT !.having = <<H(1, "<", 3)>>] : q \in {byN, byG}}
        \cup {[Top(q, ByAgg(1), FALSE, limit, 1) EXCEPT !.large = TRUE] : q \in {byN, byG}, limit \in 1..2}
        \cup {[Top(byN, ByAgg(1), FALSE, 2, 1) EXCEPT !.costly = TRUE]}
        \cup {Top(byG, ByDifference(2, 3), asc, 2, 9) : asc \in BOOLEAN}
        \cup {Top(q, NoOrder, TRUE, limit, 9) : q \in {byN, byG, serial}, limit \in 1..3}
MCQueries == Scalar \cup Compact \cup Mixed \cup Serial \cup Limits
=============================================================================
