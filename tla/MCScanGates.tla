---------------------------- MODULE MCScanGates -----------------------------
(***************************************************************************)
(* Instances of ScanGates for TLC.                                         *)
(***************************************************************************)
EXTENDS ScanGates

CONSTANTS k1, k2

\* One segment with one row: nothing loose, nothing hidden.
Compressed ==
  [cat  |-> [NewCatalogRow EXCEPT !.is_compressed = TRUE, !.row_count = 1],
   heap |-> {}, seg |-> [i \in SegIds |-> IF i = 1 THEN {<<k1, 0>>} ELSE {}], tomb |-> {}]
=============================================================================
