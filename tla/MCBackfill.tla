----------------------------- MODULE MCBackfill -----------------------------
(* Instances of Backfill for TLC. *)
EXTENDS Backfill

MCOrder == <<"t">>
MCHash(v) == {v % 3}
MCChars(v) == v
MCRanges == <<[from |-> 0, to |-> 4], [from |-> 4, to |-> 8], [from |-> 10, to |-> 12]>>

R(t, s) == ("t" :> t @@ "s" :> s)
Row(t, s) == [kind |-> "row", row |-> R(t, s)]
Bad == [kind |-> "bad", row |-> Null]
EndMark == [kind |-> "end", row |-> Null]
F(lines, open, header) == [lines |-> lines, open |-> open, header |-> header]
Job(mode, files) == [mode |-> mode, files |-> files, broken |-> {}, deaths |-> 0]

\* Out of order, across partitions, with duplicates, an end marker, wrong lines, a time
\* without a partition.
Texts ==
  { <<F(<<Row(5, 1), Row(1, 2), Row(1, 2), Row(4, 1), Row(0, Null)>>, TRUE, FALSE)>>,
    <<F(<<Bad, Row(1, 1), Row(6, 2), Row(2, 2), EndMark, Bad>>, FALSE, TRUE),
      F(<<Row(7, 1), Row(10, 1), Row(3, 3)>>, FALSE, FALSE)>>,
    <<F(<<Row(1, 1), Bad>>, FALSE, FALSE)>>, <<F(<<Row(1, 1), Row(9, 1)>>, FALSE, FALSE)>>,
    <<F(<<EndMark, Row(1, 1)>>, FALSE, TRUE)>>, <<F(<<Row(1, 1)>>, TRUE, TRUE)>> }
Groups ==
  << << <<R(1, 1), R(5, 2), R(0, 2)>>, <<R(2, 1), R(3, 1)>> >>,
     << <<R(6, 1), R(9, 3), R(2, Null), R(2, Null), R(7, 2)>> >>, << <<R(11, 1)>> >> >>
\* Segments enough to fill the channels and the threads.
Many ==
  << << <<R(1, 1), R(0, 2), R(2, 1), R(3, 1), R(3, 2), R(1, 1), R(2, 2), R(1, 1), R(0, 1)>>,
        <<R(11, 1), R(9, 3)>> >> >>
Few == << << <<R(1, 1), R(5, 2), R(0, 2)>> >>, << <<R(2, 1)>> >> >>
MCJobs ==
  {Job(m, t) : m \in {"sequential", "parallel"}, t \in Texts}
    \cup {Job("legacy", t) : t \in {x \in Texts : Len(x) = 1}}
    \cup {Job("parquet", Groups), Job("pipeline", Many),
          [Job("parquet", SubSeq(Groups, 1, 2)) EXCEPT !.broken = {2}],
          [Job("pipeline", Few) EXCEPT !.broken = {2}],
          [Job("pipeline", Few) EXCEPT !.deaths = 1]}
=============================================================================
