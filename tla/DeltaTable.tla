----------------------------- MODULE DeltaTable -----------------------------
(***************************************************************************)
(* What a partition promises its users: a set of rows that changes only    *)
(* when a transaction commits, by exactly the rows its statements added    *)
(* and removed. Compression, compaction, decompose-on-write and            *)
(* decompression do not appear: they are steps that change nothing.        *)
(***************************************************************************)
CONSTANTS Sessions, Row

VARIABLES content,   \* the committed rows
          add, rem   \* per session: rows its open transaction added, removed

vars == <<content, add, rem>>

Init ==
  /\ content \in SUBSET Row
  /\ add = [s \in Sessions |-> {}]
  /\ rem = [s \in Sessions |-> {}]

\* A statement of s removes rows it can see and adds others; what an earlier
\* statement added stays unless it is removed.
Write(s) ==
  /\ rem[s] \subseteq rem'[s]
  /\ rem'[s] \subseteq rem[s] \cup content \cup add[s]
  /\ add[s] \ rem'[s] \subseteq add'[s]
  /\ add'[s] \subseteq Row
  /\ rem' = [rem EXCEPT ![s] = rem'[s]]
  /\ add' = [add EXCEPT ![s] = add'[s]]
  /\ UNCHANGED content

Forget(s) ==
  /\ add' = [add EXCEPT ![s] = {}]
  /\ rem' = [rem EXCEPT ![s] = {}]

Commit(s) ==
  /\ content' = (content \ rem[s]) \cup add[s]
  /\ Forget(s)

Abort(s) ==
  /\ Forget(s)
  /\ UNCHANGED content

Next ==
  \E s \in Sessions :
    \/ Write(s)
    \/ Commit(s)
    \/ Abort(s)

Spec == Init /\ [][Next]_vars
=============================================================================
