-------------------------- MODULE MCCompressedDml ---------------------------
(***************************************************************************)
(* Instances of CompressedDml for TLC.                                     *)
(***************************************************************************)
EXTENDS CompressedDml, TLC

CONSTANTS u1, u2, wk, k1, k2, k3

\* Users run DML; the worker compacts, each compaction in its own transaction.
RcCalls == (u1 :> {"insert", "delete", "update"}) @@ (u2 :> {"insert", "delete"}) @@
           (wk :> {"compact"})
RcIso == [s \in {u1, u2, wk} |-> "RC"]

\* The whole life of a partition: the session that writes also compresses, another
\* one compacts and decompresses.
LifeCalls == (u1 :> {"insert", "delete", "update", "compress"}) @@
             (wk :> {"compact", "decompress"})
LifeIso == [s \in {u1, wk} |-> "RC"]

\* One user session beside one maintenance session.
DeleteVsCompact == (u1 :> {"delete"}) @@ (wk :> {"compact"})
InsertVsCompress == (u1 :> {"insert"}) @@ (wk :> {"compress"})
WorkerRepeatable == (u1 :> "RC") @@ (wk :> "RR")

\* A REPEATABLE READ user beside a READ COMMITTED one and the worker.
RrCalls == (u1 :> {"delete", "update"}) @@ (u2 :> {"delete", "update"}) @@ (wk :> {"compact"})
RrIso == (u1 :> "RR") @@ (u2 :> "RC") @@ (wk :> "RC")

\* A pass of the worker: a drain inserts, a compaction follows in the same transaction.
PassCalls == (u1 :> {"insert", "delete", "update"}) @@ (wk :> {"insert", "compact"})

KeySymmetry == Permutations({k1, k2})

OneRow == {{<<k1, 0>>}}
RcStart == {{}, {<<k1, 0>>, <<k2, 0>>}}
=============================================================================
