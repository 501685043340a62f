---------------------------- MODULE MCColumnBlob ----------------------------
EXTENDS ColumnBlob

\* Four-bit numbers: the extrema, the ends of the buckets and their neighbours.
MCBuckets == <<2, 3>>
Numbers == {-8, -3, -1, 0, 1, 7}

\* Texts over the bytes 1, 2 and 3, where 3 continues a character. 1 and 2 are also lengths,
\* so that a search may hit across texts.
Texts == {<<>>, <<1>>, <<1, 1>>, <<2, 3, 1>>}
Numerics == {<<0, 10, 5>>, <<11, 0, 10, 7>>, <<3>>, <<0, 10, 9>>, <<12>>}

Kinds == {"float", "time", "int4", "int8", "bool", "numeric", "text"}
MCDomain == [k \in Kinds |->
  CASE k = "float" -> 0..15
    [] k \in {"time", "int4", "int8"} -> Numbers
    [] k = "bool" -> BOOLEAN
    [] k = "numeric" -> Numerics
    [] k = "text" -> Texts]
MCMaxRows == [k \in Kinds |->
  CASE k = "float" -> 3 [] k \in {"time", "text"} -> 5 [] k = "bool" -> 9 [] OTHER -> 4]

Filter(op, args, negate) == [op |-> op, args |-> args, negate |-> negate]
MCFilters ==
  {Filter(op, <<t>>, n) : op \in {"eq", "contains"}, t \in {<<1>>, <<1, 1>>}, n \in BOOLEAN}
    \cup {Filter("eq", <<<<>>>>, n) : n \in BOOLEAN}
    \cup {Filter("starts", <<<<1>>>>, FALSE), Filter("ends", <<<<3, 1>>>>, TRUE), Filter("in", <<<<1>>, <<>>>>, FALSE)}
=============================================================================
