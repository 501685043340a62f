----------------------------- MODULE MCScanExec -----------------------------
(* Instances of ScanExec for TLC. *)
EXTENDS ScanExec

MCOrder == <<"t">>
MCHash(v) == {v % 3}
MCChars(v) == v
\* A collation that differs from the order of bytes.
MCCollate(v) == (v + 1) % 3

R(t, g, a, s, d) == ("t" :> t @@ "g" :> g @@ "a" :> a @@ "s" :> s @@ "d" :> d)
\* Rows out of time order, with nulls, repeated and distinct texts.
MCInputs ==
  {<<R(3, 1, 0, 2, 1), R(1, 2, 2, 2, 2), R(2, 1, Null, Null, 1), R(4, Null, 1, 1, 2)>>}
MCInputsBy ==
  {<<R(2, 1, 0, 2, 1), R(1, 1, 0, 1, 1), R(4, 2, -1, 3, 3), R(3, 2, 1, Null, 1)>>}

Q(c, op, v) == [col |-> c, op |-> op, val |-> v, left |-> TRUE]
Right(q) == [q EXCEPT !.left = FALSE]
Plain(quals, mode) == [quals |-> quals, limit |-> 0, sort |-> "t", asc |-> TRUE,
                       nullsFirst |-> FALSE, multi |-> FALSE, mode |-> mode,
                       threads |-> 1, byteOrder |-> TRUE]
TopN(quals, limit, sort, asc, multi) ==
  [quals |-> quals, limit |-> limit, sort |-> sort, asc |-> asc, nullsFirst |-> ~asc,
   multi |-> multi, mode |-> "serial", threads |-> 1, byteOrder |-> TRUE]
TextTopN(quals, asc, multi, threads, byteOrder) ==
  [TopN(quals, 2, "s", asc, multi) EXCEPT !.threads = threads, !.byteOrder = byteOrder]

MCQuals ==
  { <<>>, <<Q("t", ">", 1), Q("t", "<=", 3)>>, <<Right(Q("t", "<", 2))>>,
    <<Q("a", "=", 0)>>, <<Q("a", "<>", 0)>>, <<Right(Q("a", ">=", 1))>>,
    <<Q("a", "in", {1, 2}), Q("t", ">=", 2)>>, <<Q("d", "=", 2), Q("t", "<", 4)>>,
    <<Q("s", "=", 1)>>, <<Q("s", "<>", 1)>>, <<Q("s", "like", {2, 3})>>,
    <<Q("s", "notlike", {1}), Q("a", "<", 2)>>, <<Q("s", "in", {1, 3})>>,
    <<Q("g", "=", 1), Q("a", "<=", 1)>>, <<Q("a", "other", {0, 1}), Q("s", "=", 2)>>,
    <<Q("a", "=", 1), Q("d", "=", 2)>> }
MCQueries ==
  {Plain(quals, "serial") : quals \in MCQuals}
    \cup {Plain(quals, m) : quals \in {<<>>, <<Q("a", "<>", 0)>>, <<Q("s", "=", 1)>>},
                            m \in {"parallel", "workers"}}
    \cup {TopN(quals, 2, so, asc, multi) :
            quals \in {<<>>, <<Q("s", "in", {1, 2})>>},
            so \in {"t", "a"}, asc \in BOOLEAN, multi \in BOOLEAN}
    \cup {TextTopN(<<>>, asc, multi, 2, bytes) :
            asc \in BOOLEAN, multi \in BOOLEAN, bytes \in BOOLEAN}
    \cup {TextTopN(<<Q("s", "<>", 2), Q("a", ">=", -1)>>, TRUE, FALSE, th, FALSE) : th \in 1..2}
=============================================================================
