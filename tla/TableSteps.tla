----------------------------- MODULE TableSteps -----------------------------
(***************************************************************************)
(* Where the rows of a partition are, for the committed state and for each *)
(* transaction's uncommitted one: RowInv, that every step keeps it, and    *)
(* that each step of a partition is a step of the table of DeltaTable: the *)
(* lemmas ...IsWrite, ...IsCommit, ...IsAbort and ...IsStutter say which.  *)
(* TableProofs joins them.                                                 *)
(*                                                                         *)
(* A session's lock says what it can have done: without a lock nothing,    *)
(* with ROW EXCLUSIVE heap writes and tombstones whose keys are its own,   *)
(* with ACCESS EXCLUSIVE anything, alone. The exception is a compression,  *)
(* which reads under ACCESS SHARE and truncates under ACCESS EXCLUSIVE: a  *)
(* writer that commits in between loses its rows. RowInv(FALSE) allows for *)
(* that, RowInv(TRUE) excludes it and needs Undisturbed.                   *)
(***************************************************************************)
EXTENDS WriteSetProofs

RowsOf(L) == {p[2] : p \in L}

\* No key is stored twice by the heap h and the live pairs L.
Unique(h, L) ==
  /\ \A p, q \in L : p[2][1] = q[2][1] => p = q
  /\ \A p \in L, r \in h : p[2][1] # r[1]
  /\ \A q, r \in h : q[1] = r[1] => q = r

\* Part of the rows is as unique as the whole.
LEMMA UniquePart ==
  ASSUME NEW h, NEW L, Unique(h, L), NEW h1 \in SUBSET h, NEW L1 \in SUBSET L
  PROVE  Unique(h1, L1)
BY DEF Unique

\* A new key.
LEMMA UniqueFresh ==
  ASSUME NEW h, NEW L, Unique(h, L), NEW r, r[1] \notin KeysOf(h \cup RowsOf(L))
  PROVE  Unique(h \cup {r}, L)
<1>1. \A q \in h : q[1] # r[1]
  BY DEF KeysOf
<1>2. \A p \in L : p[2][1] # r[1]
  BY DEF KeysOf, RowsOf
<1> QED
  BY <1>1, <1>2 DEF Unique

\* Pairs whose segment is decomposed: their rows move to the heap.
LEMMA UniqueMove ==
  ASSUME NEW h, NEW L, Unique(h, L), NEW M \in SUBSET L
  PROVE  /\ Unique(h \cup RowsOf(M), L \ M)
         /\ (h \cup RowsOf(M)) \cup RowsOf(L \ M) = h \cup RowsOf(L)
<1>1. \A p \in L \ M, r \in RowsOf(M) : p[2][1] # r[1]
  BY DEF Unique, RowsOf
<1>2. \A q, r \in RowsOf(M) : q[1] = r[1] => q = r
  BY DEF Unique, RowsOf
<1>3. \A q \in RowsOf(M), r \in h : q[1] # r[1]
  BY DEF Unique, RowsOf
<1>4. Unique(h \cup RowsOf(M), L \ M)
  BY <1>1, <1>2, <1>3 DEF Unique
<1>5. RowsOf(M) \cup RowsOf(L \ M) = RowsOf(L)
  BY DEF RowsOf
<1> QED
  BY <1>4, <1>5

\* A new version of a row has the row's key.
LEMMA RewrittenKeys ==
  ASSUME NEW O, NEW V
  PROVE  \A q \in Rewritten(O, V) : \E o \in O : o[1] = q[1]
BY DEF Rewritten

\* A DELETE leaves no new version.
LEMMA RewrittenNone ==
  ASSUME NEW O, NEW V, V = {}
  PROVE  Rewritten(O, V) = {}
BY DEF Rewritten

\* An update rewrites rows under their keys.
LEMMA UniqueRewrite ==
  ASSUME NEW h, NEW L, Unique(h, L), NEW O \in SUBSET h, NEW V, \A u, v \in V : u = v
  PROVE  Unique((h \ O) \cup Rewritten(O, V), L)
<1>1. \A q \in Rewritten(O, V) : \E r \in O : r[1] = q[1]
  BY Zenon, RewrittenKeys
<1>2. \A q, r \in Rewritten(O, V) : q[1] = r[1] => q = r
  <2> SUFFICES ASSUME NEW q \in Rewritten(O, V), NEW r \in Rewritten(O, V), q[1] = r[1]
               PROVE  q = r
    OBVIOUS
  <2>1. PICK a \in O, u \in V : q = <<a[1], u>>
    BY DEF Rewritten
  <2>2. PICK b \in O, v \in V : r = <<b[1], v>>
    BY DEF Rewritten
  <2> QED
    BY <2>1, <2>2
<1>3. \A q \in h \ O, r \in Rewritten(O, V) : q[1] # r[1]
  BY <1>1 DEF Unique
<1>4. \A p \in L, r \in Rewritten(O, V) : p[2][1] # r[1]
  BY <1>1 DEF Unique
<1> QED
  BY <1>2, <1>3, <1>4 DEF Unique

\* No row lies in two of the pairs.
OncePerRow(B) == \A p, q \in B : p[2] = q[2] => p = q

\* Heap rows that become the pairs B of new segments.
LEMMA UniqueBatch ==
  ASSUME NEW h, NEW L, Unique(h, L), NEW B, RowsOf(B) = h,
         OncePerRow(B)
  PROVE  /\ Unique({}, L \cup B)
         /\ RowsOf(L \cup B) = h \cup RowsOf(L)
<1>1. \A p \in B : p[2] \in h
  BY DEF RowsOf
<1>2. \A p, q \in B : p[2][1] = q[2][1] => p = q
  BY <1>1 DEF Unique, OncePerRow
<1>3. \A p \in L, q \in B : p[2][1] # q[2][1]
  BY <1>1 DEF Unique
<1>4. Unique({}, L \cup B)
  BY <1>2, <1>3 DEF Unique
<1>5. RowsOf(L \cup B) = h \cup RowsOf(L)
  BY DEF RowsOf
<1> QED
  BY <1>4, <1>5

Disjoint(A, B) == A \cap B = {}

\* What a DELETE or UPDATE leaves of the heap h and the live pairs L: the pairs N are
\* tombstoned, P dropped with their segments, M moved to the heap; then the rows O of the
\* heap are rewritten. Logically, the rows O, N and P were rewritten.
DmlLeaves(h, L, N, P, M, O, W) ==
  (((h \cup RowsOf(M)) \ O) \cup W) \cup RowsOf(L \ (N \cup P \cup M)) =
    ((h \cup RowsOf(L)) \ (O \cup RowsOf(N \cup P))) \cup W

\* The rows stored are then the rows there were, with the rewritten ones replaced.
LEMMA DmlContent ==
  ASSUME NEW h, NEW L, Unique(h, L), NEW N \in SUBSET L, NEW P \in SUBSET L, NEW M \in SUBSET L,
         Disjoint(M, N \cup P), NEW O \in SUBSET (h \cup RowsOf(M)), NEW W
  PROVE  DmlLeaves(h, L, N, P, M, O, W)
<1> DEFINE X == L \ (N \cup P \cup M)
<1>1. RowsOf(L) = RowsOf(M) \cup RowsOf(N \cup P) \cup RowsOf(X)
  BY DEF RowsOf
<1>2. RowsOf(X) \cap (h \cup RowsOf(M) \cup RowsOf(N \cup P)) = {}
  BY DEF RowsOf, Unique
<1>3. (h \cup RowsOf(M)) \cap RowsOf(N \cup P) = {}
  BY DEF RowsOf, Unique, Disjoint
<1>4. (((h \cup RowsOf(M)) \ O) \cup W) \cup RowsOf(X) =
        ((h \cup RowsOf(L)) \ (O \cup RowsOf(N \cup P))) \cup W
  <2> HIDE DEF X
  <2> QED
    BY <1>1, <1>2, <1>3
<1> QED
  BY ZenonT(30), <1>4 DEF DmlLeaves

(***************************************************************************)
(* Live pairs and rows under a write set.                                  *)
(***************************************************************************)
LiveOf(ws) == Live(SegOf(ws), TombOf(ws))
StoredBy(ws) == HeapOf(ws) \cup RowsOf(LiveOf(ws))

\* The live pairs L that lie in the segments S.
PairsIn(L, S) == {p \in L : p[1] \in S}

\* The write set w2 is ws with the heap rows O rewritten to W.
RewriteDoes(w2, ws, O, W) ==
  /\ HeapOf(w2) = (HeapOf(ws) \ O) \cup W
  /\ LiveOf(w2) = LiveOf(ws)
  /\ w2.ins = (ws.ins \ O) \cup W
  /\ w2.del = ws.del \cup O
  /\ SameSegments(w2, ws)
  /\ w2.trunc = ws.trunc

\* Heap writes.
LEMMA RewriteRowsEffect ==
  ASSUME NEW ws \in WriteSet, NEW O \in SUBSET Row, NEW W \in SUBSET Row
  PROVE  RewriteDoes(InsertRows(DeleteRows(ws, O), W), ws, O, W)
<1> DEFINE d == DeleteRows(ws, O)
<1>1. d \in WriteSet
  <2>1. {} \in SUBSET Tombstone
    OBVIOUS
  <2> QED
    BY <2>1, WriteOpsType
<1>2. d.ins = ws.ins \ O /\ d.del = ws.del \cup O /\ d.trunc = ws.trunc
  BY DEF DeleteRows, WriteSet
<1>3. SameSegments(d, ws)
  BY HeapWritesSame
<1> HIDE DEF d
<1> DEFINE e == InsertRows(d, W)
<1>4. e.ins = d.ins \cup W /\ e.del = d.del /\ e.trunc = d.trunc
  BY <1>1, InsertRowsFields
<1>5. SameSegments(e, d)
  BY <1>1, HeapWritesSame
<1>6. SameSegments(e, ws)
  BY <1>3, <1>5 DEF SameSegments
<1> HIDE DEF e
<1>7. HeapOf(e) = (HeapOf(ws) \ O) \cup W
  BY <1>2, <1>4 DEF HeapOf
<1>8. LiveOf(e) = LiveOf(ws)
  BY <1>6, SameEffect DEF LiveOf
<1> QED
  BY <1>2, <1>4, <1>6, <1>7, <1>8 DEF e, d, RewriteDoes

\* Heap inserts leave the live pairs alone.
LEMMA InsertRowsLive ==
  ASSUME NEW ws \in WriteSet, NEW R
  PROVE  /\ HeapOf(InsertRows(ws, R)) = HeapOf(ws) \cup R
         /\ LiveOf(InsertRows(ws, R)) = LiveOf(ws)
<1>1. SameSegments(InsertRows(ws, R), ws)
  BY HeapWritesSame
<1>2. LiveOf(InsertRows(ws, R)) = LiveOf(ws)
  BY <1>1, SameEffect DEF LiveOf
<1> QED
  BY <1>2, InsertRowsEffect

\* Tombstones take exactly their pairs out of the live ones.
LEMMA TombstonesLive ==
  ASSUME NEW ws \in WriteSet, NEW N
  PROVE  /\ HeapOf(InsertTombstones(ws, N)) = HeapOf(ws)
         /\ LiveOf(InsertTombstones(ws, N)) = LiveOf(ws) \ N
<1>1. TombOf(InsertTombstones(ws, N)) = TombOf(ws) \cup N
  BY InsertTombstonesEffect
<1>2. SegOf(InsertTombstones(ws, N)) = SegOf(ws)
  BY InsertTombstonesSegs
<1>3. LiveOf(InsertTombstones(ws, N)) = LiveOf(ws) \ N
  BY <1>1, <1>2 DEF LiveOf, Live
<1> QED
  BY <1>3, InsertTombstonesEffect

\* The live pairs without the segments S and their tombstones.
LEMMA LiveWithout ==
  ASSUME NEW g \in SegMap, NEW t \in SUBSET Tombstone, NEW S \in SUBSET SegIds
  PROVE  Live(SegsWithout(g, S), TombsWithout(t, S)) = Live(g, t) \ PairsIn(Live(g, t), S)
<1>1. ASSUME NEW p \in SegIds \X Row
      PROVE  p \in Live(SegsWithout(g, S), TombsWithout(t, S)) <=>
               p \in Live(g, t) \ PairsIn(Live(g, t), S)
  <2>1. PICK i \in SegIds, r \in Row : p = <<i, r>>
    OBVIOUS
  <2>2. SegsWithout(g, S)[i] = IF i \in S THEN {} ELSE g[i]
    BY DEF SegsWithout
  <2>3. p \in Live(SegsWithout(g, S), TombsWithout(t, S)) <=>
          r \in SegsWithout(g, S)[i] /\ p \notin TombsWithout(t, S)
    BY <2>1 DEF Live
  <2>4. p \in Live(g, t) \ PairsIn(Live(g, t), S) <=> r \in g[i] /\ p \notin t /\ i \notin S
    BY <2>1 DEF Live, PairsIn
  <2>5. p \in TombsWithout(t, S) <=> p \in t /\ i \notin S
    BY <2>1 DEF TombsWithout
  <2> QED
    BY <2>2, <2>3, <2>4, <2>5
<1>2. /\ Live(SegsWithout(g, S), TombsWithout(t, S)) \subseteq SegIds \X Row
      /\ Live(g, t) \subseteq SegIds \X Row
  BY DEF Live
<1> QED
  BY <1>1, <1>2

\* The write set d is ws with the live rows of the segments D moved to the heap and the
\* segments of D and P gone.
DecomposeDoes(d, ws, D, P) ==
  /\ HeapOf(d) = HeapOf(ws) \cup RowsOf(PairsIn(LiveOf(ws), D))
  /\ LiveOf(d) = LiveOf(ws) \ PairsIn(LiveOf(ws), D \cup P)

\* Decomposing the segments D and dropping the segments P.
LEMMA DecomposeLive ==
  ASSUME TypeOK, NEW ws \in WriteSet, NEW v \in Db, v.seg = SegOf(ws), v.tomb = TombOf(ws),
         NEW D \in SUBSET SegIds, NEW P \in SUBSET SegIds
  PROVE  DecomposeDoes(DecomposeWrites(ws, v, D, P), ws, D, P)
<1> DEFINE S == (D \cup P) \cap Segments(v)
           L == LiveOf(ws)
<1>1. SegOf(ws) \in SegMap /\ TombOf(ws) \in SUBSET Tombstone
  BY SegOfType
<1>2. S \in SUBSET SegIds
  BY DEF Segments
<1>3. LiveOf(DecomposeWrites(ws, v, D, P)) = L \ PairsIn(L, S)
  <2>1. /\ SegOf(DecomposeWrites(ws, v, D, P)) = SegsWithout(SegOf(ws), S)
        /\ TombOf(DecomposeWrites(ws, v, D, P)) = TombsWithout(TombOf(ws), S)
    BY ZenonT(30), DecomposeSegs
  <2> HIDE DEF S
  <2> QED
    BY <1>1, <1>2, <2>1, LiveWithout DEF LiveOf
<1>4. \A p \in L : p[1] \in Segments(v) /\ p \in SegIds \X Row
  BY <1>1 DEF LiveOf, Live, Segments, SegMap
<1>5. PairsIn(L, S) = PairsIn(L, D \cup P)
  BY <1>4 DEF PairsIn
<1>6. LivePairs(v, D) = PairsIn(L, D)
  BY <1>4 DEF LivePairs, PairsIn, LiveOf, Live
<1>7. LiveRows(v, D) = RowsOf(PairsIn(L, D))
  BY <1>6 DEF LiveRows, RowsOf
<1> QED
  BY <1>3, <1>5, <1>7, DecomposeFields DEF DecomposeDoes

\* Decomposing segments moves their rows.
LEMMA DecomposeMoves ==
  ASSUME TypeOK, NEW ws \in WriteSet, NEW v \in Db, v.seg = SegOf(ws), v.tomb = TombOf(ws),
         NEW D \in SUBSET SegIds, NEW P \in SUBSET SegIds
  PROVE  PairsIn(LiveOf(ws), P) = {} /\ Unique(HeapOf(ws), LiveOf(ws)) =>
         /\ Unique(HeapOf(DecomposeWrites(ws, v, D, P)), LiveOf(DecomposeWrites(ws, v, D, P)))
         /\ StoredBy(DecomposeWrites(ws, v, D, P)) = StoredBy(ws)
<1> DEFINE d == DecomposeWrites(ws, v, D, P)
           M == PairsIn(LiveOf(ws), D)
<1>1. /\ HeapOf(d) = HeapOf(ws) \cup RowsOf(M)
      /\ LiveOf(d) = LiveOf(ws) \ PairsIn(LiveOf(ws), D \cup P)
  <2>1. DecomposeDoes(DecomposeWrites(ws, v, D, P), ws, D, P)
    BY Zenon, DecomposeLive
  <2> QED
    BY ZenonT(30), <2>1 DEF DecomposeDoes
<1> HAVE PairsIn(LiveOf(ws), P) = {} /\ Unique(HeapOf(ws), LiveOf(ws))
<1>2. PairsIn(LiveOf(ws), D \cup P) = M
  BY DEF PairsIn
<1>3. LiveOf(d) = LiveOf(ws) \ M
  BY <1>1, <1>2
<1>4. M \in SUBSET LiveOf(ws)
  BY DEF PairsIn
<1> HIDE DEF d, M
<1>5. /\ Unique(HeapOf(ws) \cup RowsOf(M), LiveOf(ws) \ M)
      /\ (HeapOf(ws) \cup RowsOf(M)) \cup RowsOf(LiveOf(ws) \ M) =
           HeapOf(ws) \cup RowsOf(LiveOf(ws))
  BY Zenon, <1>4, UniqueMove
<1>6. Unique(HeapOf(d), LiveOf(d)) /\ StoredBy(d) = StoredBy(ws)
  BY ZenonT(30), <1>1, <1>3, <1>5 DEF StoredBy
<1> QED
  BY <1>6 DEF d

\* TRUNCATE of the heap leaves the live pairs alone; TRUNCATE of the tombstones does too
\* when there are none, or no segment they could point into.
LEMMA TruncateLive ==
  ASSUME NEW ws \in WriteSet
  PROVE  /\ HeapOf(TruncateHeap(ws)) = {}
         /\ LiveOf(TruncateHeap(ws)) = LiveOf(ws)
         /\ HeapOf(TruncateTombstones(ws)) = HeapOf(ws)
         /\ TombOf(ws) = {} \/ SegOf(ws) = NoSegs => LiveOf(TruncateTombstones(ws)) = LiveOf(ws)
<1>1. LiveOf(TruncateHeap(ws)) = LiveOf(ws)
  BY HeapWritesSame, SameEffect DEF LiveOf
<1>2. SegOf(TruncateTombstones(ws)) = SegOf(ws) /\ TombOf(TruncateTombstones(ws)) = {}
  BY TruncateTombstonesSegs
<1>3. ASSUME SegOf(ws) = NoSegs
      PROVE  LiveOf(TruncateTombstones(ws)) = {} /\ LiveOf(ws) = {}
  BY <1>2, <1>3 DEF LiveOf, Live, NoSegs
<1> QED
  BY ZenonT(30), <1>1, <1>2, <1>3, TruncateFields DEF LiveOf

\* The pairs of a batch of new segments.
BatchPairs(n, A, R) == {p \in SegIds \X Row : p[2] \in NewSegments(n, A, R)[p[1]]}

\* New segments above all others make their rows live, each once.
LEMMA BatchLive ==
  ASSUME NEW g \in SegMap, NEW t \in SUBSET Tombstone, NEW n \in Nat \ {0},
         NEW R \in SUBSET Row, NEW A \in SUBSET R,
         n <= MaxSeg, A # R => n + 1 <= MaxSeg,
         \A i \in SegIds : g[i] # {} => i < n,
         \A x \in t : x[2] \in g[x[1]]
  PROVE  /\ Live(SegsWith(g, n, A, R), t) = Live(g, t) \cup BatchPairs(n, A, R)
         /\ RowsOf(BatchPairs(n, A, R)) = R
         /\ OncePerRow(BatchPairs(n, A, R))
<1> DEFINE N == NewSegments(n, A, R)
           B == BatchPairs(n, A, R)
           h == SegsWith(g, n, A, R)
<1>1. \A i \in SegIds : N[i] = IF i = n THEN A ELSE IF i = n + 1 THEN R \ A ELSE {}
  BY DEF NewSegments
<1>2. \A i \in SegIds : N[i] # {} => ~(i < n)
  BY <1>1 DEF SegIds
<1>3. \A i \in SegIds : (g[i] # {} => N[i] = {} /\ h[i] = g[i]) /\ (N[i] # {} => h[i] = N[i])
                        /\ (g[i] = {} => h[i] = N[i])
  BY ZenonT(30), <1>2 DEF SegsWith
<1>4. \A x \in t : x[1] \in SegIds /\ g[x[1]] # {} /\ x[2] \in g[x[1]]
  BY DEF Tombstone
<1>5. \A p \in B : p \in SegIds \X Row /\ p[2] \in N[p[1]]
  BY DEF BatchPairs
<1>6. \A p \in SegIds \X Row : p[2] \in N[p[1]] => p \in B
  BY DEF BatchPairs
<1>7. n \in SegIds /\ (A # R => n + 1 \in SegIds) /\ n # n + 1
  BY DataAssumption DEF SegIds
<1> HIDE DEF N, h, B
<1>8. \A i \in SegIds : \A r : r \in h[i] <=> r \in g[i] \/ r \in N[i]
  BY <1>3
<1>9. Live(h, t) = Live(g, t) \cup B
  BY <1>3, <1>4, <1>5, <1>6, <1>8 DEF Live
<1>10. \A p \in B : (p[1] = n /\ p[2] \in A) \/ (p[1] = n + 1 /\ p[2] \in R \ A)
  BY <1>1, <1>5
<1>11. \A p, q \in B : p[2] = q[2] => p = q
  BY <1>5, <1>10
<1>12. RowsOf(B) = R
  <2>1. RowsOf(B) \subseteq R
    BY <1>10 DEF RowsOf
  <2>2. ASSUME NEW r \in R PROVE r \in RowsOf(B)
    <3>1. CASE r \in A
      <4>1. <<n, r>> \in B
        BY <1>1, <1>6, <1>7, <3>1
      <4> QED
        BY <4>1 DEF RowsOf
    <3>2. CASE r \notin A
      <4>1. <<n + 1, r>> \in B
        BY <1>1, <1>6, <1>7, <3>2
      <4> QED
        BY <4>1 DEF RowsOf
    <3> QED
      BY <3>1, <3>2
  <2> QED
    BY <2>1, <2>2
<1> QED
  BY <1>9, <1>11, <1>12 DEF h, B, OncePerRow

(***************************************************************************)
(* The invariant.                                                          *)
(***************************************************************************)
\* Between the read of compress_partition_impl and its TRUNCATE no writer has the table.
Undisturbed == \A s, t \in Sessions : s # t /\ pc[s] = "compress_finish" => lock[t] # "RE"

LiveNow == Live(seg, tomb)
Stored == heap \cup RowsOf(LiveNow)

\* Without a table lock a session has done nothing.
DoneNothing(s) == w[s] = NoWrites /\ add[s] = {} /\ rem[s] = {}

\* Compression has read the rows R of the heap, each key once. In exact mode, the heap is
\* still as it was.
HasRead(s, e) ==
  /\ pc[s] = "compress_finish" /\ stmts[s] = MaxStmts /\ add[s] = {} /\ rem[s] = {}
  /\ \E R \in SUBSET Row, A \in SUBSET Row :
       /\ A \subseteq R /\ 1 <= MaxSeg /\ (A # R => 2 <= MaxSeg)
       /\ w[s] = AddSegments(NoWrites, NewSegments(1, A, R))
       /\ \A q, r \in R : q[1] = r[1] => q = r
       /\ e => R = heap

\* A writer beside other writers: what it did to the rows of the table is what it did to
\* heap rows and tombstones, and its keys are its own.
RowEffect(s) ==
  /\ w[s].segNew = NoSegs /\ w[s].segDel = {} /\ w[s].tDel = {}
  /\ ~w[s].trunc /\ ~w[s].tTrunc
  /\ add[s] = w[s].ins /\ rem[s] = w[s].del \cup RowsOf(w[s].tIns)
  /\ w[s].tIns \subseteq LiveNow
  /\ \A q, r \in w[s].ins : q[1] = r[1] => q = r
  /\ \A q \in w[s].ins, r \in heap : q[1] = r[1] => r \in w[s].del
  /\ \A q \in w[s].ins \cup w[s].del, p \in LiveNow : q[1] # p[2][1]

\* Two writers: no key inserted by both, no row deleted by both.
Apart(s, t) ==
  /\ \A q \in w[s].ins, r \in w[t].ins : q[1] # r[1]
  /\ w[s].del \cap w[t].del = {}

\* The transaction is not that of a finished compression.
MayWrite(s) == pc[s] \in {"insert", "delete", "update"} \/ stmts[s] < MaxStmts

\* What the session would commit: each key once, and the rows its statements left.
TableEffect(s, e) ==
  /\ Unique(HeapOf(w[s]), LiveOf(w[s]))
  /\ e \/ MayWrite(s) => StoredBy(w[s]) = (Stored \ rem[s]) \cup add[s]
  /\ ~OwnCat(s).is_compressed => SegOf(w[s]) = NoSegs

\* The statement snapshot has the segments of now, and keys live in them did not move to
\* the heap since.
SnapLive(s) == Live(snap[s].seg, snap[s].tomb)

SnapHolds(s) ==
  /\ snap[s].seg = seg /\ snap[s].tomb \subseteq tomb
  /\ lock[s] = "AE" => snap[s].tomb = tomb /\ snap[s].heap = heap
  /\ \A p \in SnapLive(s), r \in heap : p[2][1] # r[1]

SnapApart(s, t) == \A q \in w[t].ins, p \in SnapLive(s) : q[1] # p[2][1]

SessionRows(s, e) ==
  /\ lock[s] = "none" => DoneNothing(s)
  /\ lock[s] = "AS" => HasRead(s, e)
  /\ lock[s] = "RE" => RowEffect(s)
  /\ lock[s] = "AE" => TableEffect(s, e)
  /\ pc[s] = "compress" => stmts[s] = MaxStmts
  /\ pc[s] \in {"insert", "delete", "update"} => SnapHolds(s)

PairRows(s, t) ==
  /\ s # t /\ lock[s] = "RE" /\ lock[t] = "RE" => Apart(s, t)
  /\ pc[s] \in {"insert", "delete", "update"} /\ lock[t] = "RE" => SnapApart(s, t)

RowInv(e) ==
  /\ Unique(heap, LiveNow)
  /\ ~cat.is_compressed => seg = NoSegs
  /\ \A s \in Sessions : SessionRows(s, e)
  /\ \A s, t \in Sessions : PairRows(s, t)

\* A writer's own state: segments of now, its tombstones added.
LEMMA RowEffectViews ==
  ASSUME TypeOK, NEW s \in Sessions, RowEffect(s)
  PROVE  /\ HeapOf(w[s]) = (heap \ w[s].del) \cup w[s].ins
         /\ SegOf(w[s]) = seg
         /\ TombOf(w[s]) = tomb \cup w[s].tIns
         /\ LiveOf(w[s]) = LiveNow \ w[s].tIns
<1>1. HeapOf(w[s]) = (heap \ w[s].del) \cup w[s].ins
  BY DEF RowEffect, HeapOf
<1>2. TombOf(w[s]) = tomb \cup w[s].tIns
  BY DEF RowEffect, TombOf
<1>3. SegOf(w[s]) = seg
  <2>1. seg \in [SegIds -> SUBSET Row]
    BY DEF TypeOK, Committed, Db
  <2>2. w[s].segDel = {} /\ \A i \in SegIds : w[s].segNew[i] = {}
    BY DEF RowEffect, NoSegs
  <2> QED
    BY <2>1, <2>2 DEF SegOf
<1> QED
  BY <1>1, <1>2, <1>3 DEF LiveOf, Live, LiveNow

\* A writer's uncommitted state holds each key once, and its rows are the committed ones
\* changed by what its statements did.
LEMMA RowEffectOnTable ==
  ASSUME TypeOK, NEW s \in Sessions, RowEffect(s), Unique(heap, LiveNow)
  PROVE  /\ Unique(HeapOf(w[s]), LiveOf(w[s]))
         /\ StoredBy(w[s]) = (Stored \ rem[s]) \cup add[s]
<1> DEFINE I == w[s].ins
           X == w[s].del
           T == w[s].tIns
           L == LiveNow
<1>1. HeapOf(w[s]) = (heap \ X) \cup I /\ LiveOf(w[s]) = L \ T
  BY RowEffectViews
<1>2. /\ add[s] = I /\ rem[s] = X \cup RowsOf(T) /\ T \subseteq L
      /\ \A q, r \in I : q[1] = r[1] => q = r
      /\ \A q \in I, r \in heap : q[1] = r[1] => r \in X
      /\ \A q \in I \cup X, p \in L : q[1] # p[2][1]
  BY DEF RowEffect
<1> HIDE DEF I, X, T, L
<1>3. Unique(heap, L)
  BY DEF L
<1>4. Unique((heap \ X) \cup I, L \ T)
  BY <1>2, <1>3 DEF Unique
<1>5. RowsOf(L) = RowsOf(L \ T) \cup RowsOf(T)
  BY <1>2 DEF RowsOf
<1>6. RowsOf(L \ T) \cap (X \cup RowsOf(T)) = {}
  BY <1>2, <1>3 DEF RowsOf, Unique
<1>7. heap \cap RowsOf(T) = {}
  BY <1>2, <1>3 DEF RowsOf, Unique
<1>8. ((heap \ X) \cup I) \cup RowsOf(L \ T) = ((heap \cup RowsOf(L)) \ (X \cup RowsOf(T))) \cup I
  BY <1>5, <1>6, <1>7
<1>9. Stored = heap \cup RowsOf(L)
  BY DEF Stored, L
<1> QED
  BY Zenon, <1>1, <1>2, <1>4, <1>8, <1>9 DEF StoredBy

\* A transaction that wrote nothing sees the committed state.
LEMMA NoWritesViews ==
  ASSUME TypeOK, NEW ws, ws = NoWrites
  PROVE  /\ HeapOf(ws) = heap /\ SegOf(ws) = seg /\ TombOf(ws) = tomb
         /\ LiveOf(ws) = LiveNow /\ StoredBy(ws) = Stored
<1>1. /\ ws.ins = {} /\ ws.del = {} /\ ~ws.trunc /\ ws.tIns = {} /\ ws.tDel = {} /\ ~ws.tTrunc
  BY NoWritesFields
<1>2. ws.segDel = {} /\ \A i \in SegIds : ws.segNew[i] = {}
  BY DEF NoWrites, NoSegs
<1>3. seg \in [SegIds -> SUBSET Row]
  BY DEF TypeOK, Committed, Db
<1>4. HeapOf(ws) = heap /\ TombOf(ws) = tomb
  BY <1>1 DEF HeapOf, TombOf
<1>5. SegOf(ws) = seg
  BY <1>2, <1>3 DEF SegOf
<1> QED
  BY <1>4, <1>5 DEF LiveOf, LiveNow, StoredBy, Stored

\* What any session would commit, unless it is inside compress_partition_impl.
LEMMA OwnTableEffect ==
  ASSUME NEW e \in BOOLEAN,
         TypeOK, FlagInv, RowInv(e), NEW s \in Sessions, pc[s] # "compress_finish"
  PROVE  TableEffect(s, e)
<1>1. SessionRows(s, e) /\ LockDiscipline(s) /\ Unique(heap, LiveNow)
  BY DEF RowInv, FlagInv
<1>2. ~cat.is_compressed => seg = NoSegs
  BY DEF RowInv
<1>3. lock[s] \in {"none", "AS", "RE", "AE"}
  BY DEF TypeOK
<1>4. CASE lock[s] = "none"
  <2>1. w[s] = NoWrites /\ add[s] = {} /\ rem[s] = {} /\ catOwner # s
    BY ZenonT(30), <1>1, <1>4 DEF SessionRows, DoneNothing, LockDiscipline
  <2>2. /\ HeapOf(w[s]) = heap /\ SegOf(w[s]) = seg
        /\ LiveOf(w[s]) = LiveNow /\ StoredBy(w[s]) = Stored
    BY <2>1, NoWritesViews
  <2> QED
    BY ZenonT(30), <1>1, <1>2, <2>1, <2>2 DEF TableEffect, OwnCat
<1>5. CASE lock[s] = "AS"
  BY <1>1, <1>5 DEF SessionRows, HasRead
<1>6. CASE lock[s] = "RE"
  <2>1. RowEffect(s)
    BY ZenonT(30), <1>1, <1>6 DEF SessionRows
  <2>2. catOwner = s => pcat.is_compressed = cat.is_compressed
    BY <1>1, <1>6 DEF LockDiscipline
  <2>3. SegOf(w[s]) = seg
    BY <2>1, RowEffectViews
  <2> QED
    BY ZenonT(30), <1>1, <1>2, <2>1, <2>2, <2>3, RowEffectOnTable DEF TableEffect, OwnCat
<1>7. CASE lock[s] = "AE"
  BY ZenonT(30), <1>1, <1>7 DEF SessionRows
<1> QED
  BY <1>3, <1>4, <1>5, <1>6, <1>7

(***************************************************************************)
(* Steps that commit nothing.                                              *)
(***************************************************************************)
\* Only the session s moves, nothing is committed.
OnlyMoves(s) ==
  /\ UNCHANGED committedVars
  /\ UNCHANGED <<catOwner, pcat>> \/ (catOwner \in {NoSession, s} /\ catOwner' \in {NoSession, s})
  /\ \A t \in Others(s) : /\ w'[t] = w[t] /\ add'[t] = add[t] /\ rem'[t] = rem[t]
                          /\ lock'[t] = lock[t] /\ pc'[t] = pc[t] /\ snap'[t] = snap[t]
                          /\ stmts'[t] = stmts[t]

\* A session that keeps what it has, over the same committed state.
Kept(t) ==
  /\ UNCHANGED committedVars /\ OwnCat(t)' = OwnCat(t)
  /\ w'[t] = w[t] /\ add'[t] = add[t] /\ rem'[t] = rem[t]
  /\ lock'[t] = lock[t] /\ pc'[t] = pc[t] /\ snap'[t] = snap[t] /\ stmts'[t] = stmts[t]

\* A session untouched by a step keeps its part of the invariant.
LEMMA KeptRows ==
  ASSUME NEW e \in BOOLEAN, NEW t \in Sessions, SessionRows(t, e), Kept(t)
  PROVE  SessionRows(t, e)'
<1>1. /\ w'[t] = w[t] /\ add'[t] = add[t] /\ rem'[t] = rem[t]
      /\ lock'[t] = lock[t] /\ pc'[t] = pc[t] /\ snap'[t] = snap[t] /\ stmts'[t] = stmts[t]
  BY ZenonT(30) DEF Kept
<1>2. cat' = cat /\ heap' = heap /\ seg' = seg /\ tomb' = tomb
  BY DEF Kept, committedVars
<1>3. OwnCat(t)' = OwnCat(t)
  BY ZenonT(30) DEF Kept
<1>4. /\ HeapOf(w[t])' = HeapOf(w[t]) /\ SegOf(w[t])' = SegOf(w[t])
      /\ TombOf(w[t])' = TombOf(w[t]) /\ LiveNow' = LiveNow
  BY <1>1, <1>2 DEF HeapOf, SegOf, TombOf, LiveNow, Live
<1>5. /\ LiveOf(w[t])' = LiveOf(w[t]) /\ StoredBy(w[t])' = StoredBy(w[t]) /\ Stored' = Stored
  BY ZenonT(30), <1>2, <1>4 DEF LiveOf, StoredBy, Stored, RowsOf, Live
<1>6. lock'[t] = "none" => DoneNothing(t)'
  BY <1>1 DEF SessionRows, DoneNothing
<1>7. lock'[t] = "AS" => HasRead(t, e)'
  BY ZenonT(30), <1>1, <1>2 DEF SessionRows, HasRead
<1>8. lock'[t] = "RE" => RowEffect(t)'
  BY <1>1, <1>2, <1>4 DEF SessionRows, RowEffect, RowsOf
<1>9. lock'[t] = "AE" => TableEffect(t, e)'
  BY ZenonT(30), <1>1, <1>3, <1>4, <1>5 DEF SessionRows, TableEffect, MayWrite, Unique
<1>10. SnapLive(t)' = SnapLive(t)
  BY ZenonT(30), <1>1 DEF SnapLive, Live
<1>11. pc'[t] \in {"insert", "delete", "update"} => SnapHolds(t)'
  BY <1>1, <1>2, <1>10 DEF SessionRows, SnapHolds
<1> QED
  BY <1>1, <1>6, <1>7, <1>8, <1>9, <1>11 DEF SessionRows

\* The other sessions, beside a step that commits nothing.
LEMMA OthersRows ==
  ASSUME NEW e \in BOOLEAN, RowInv(e), NEW s \in Sessions, OnlyMoves(s), NEW t \in Others(s)
  PROVE  SessionRows(t, e)'
<1>1. t \in Sessions /\ t # s /\ t # NoSession /\ SessionRows(t, e)
  BY ZenonT(30), SessionAssumption DEF Others, RowInv
<1>2. cat' = cat
  BY DEF OnlyMoves, committedVars
<1>3. OwnCat(t)' = OwnCat(t)
  BY <1>1, <1>2 DEF OnlyMoves, OwnCat
<1>4. Kept(t)
  BY ZenonT(30), <1>3 DEF OnlyMoves, Kept
<1> QED
  BY <1>1, <1>4, KeptRows

\* The invariant after a step that commits nothing: the session that moved has to be in
\* order, and apart from the others.
LEMMA StepRows ==
  ASSUME NEW e \in BOOLEAN,
         TypeOK, RowInv(e), NEW s \in Sessions, OnlyMoves(s), SessionRows(s, e)',
         lock'[s] = "RE" => /\ \A t \in Others(s) : lock[t] = "RE" => Apart(s, t)'
                            /\ \A t \in Others(s) : pc[t] \in {"insert", "delete", "update"} =>
                                                      SnapApart(t, s)',
         pc'[s] \in {"insert", "delete", "update"} =>
           \A t \in Sessions : lock'[t] = "RE" => SnapApart(s, t)'
  PROVE  RowInv(e)'
<1>1. cat' = cat /\ heap' = heap /\ seg' = seg /\ tomb' = tomb
  BY DEF OnlyMoves, committedVars
<1>2. Unique(heap, LiveNow)' /\ (~cat.is_compressed => seg = NoSegs)'
  BY <1>1 DEF RowInv, LiveNow, Live, Unique
<1>3. \A t \in Sessions : SessionRows(t, e)'
  BY OthersRows DEF Others
<1>4. \A t \in Others(s) : /\ w'[t] = w[t] /\ lock'[t] = lock[t] /\ pc'[t] = pc[t]
                           /\ snap'[t] = snap[t]
  BY DEF OnlyMoves
<1>5. ASSUME NEW t \in Sessions, NEW u \in Sessions PROVE PairRows(t, u)'
  <2>1. PairRows(t, u) /\ PairRows(u, t)
    BY ZenonT(30) DEF RowInv
  <2>2. CASE t # s /\ u # s
    <3>1. t \in Others(s) /\ u \in Others(s)
      BY ZenonT(30), <2>2 DEF Others
    <3>2. /\ w'[t] = w[t] /\ lock'[t] = lock[t] /\ pc'[t] = pc[t] /\ snap'[t] = snap[t]
          /\ w'[u] = w[u] /\ lock'[u] = lock[u] /\ pc'[u] = pc[u] /\ snap'[u] = snap[u]
      BY ZenonT(30), <1>4, <3>1
    <3>3. SnapLive(t)' = SnapLive(t)
      BY ZenonT(30), <3>2 DEF SnapLive, Live
    <3> QED
      BY <2>1, <3>2, <3>3 DEF PairRows, Apart, SnapApart
  <2>3. CASE t # s /\ u = s
    <3>1. t \in Others(s) /\ lock'[t] = lock[t] /\ pc'[t] = pc[t]
      BY <1>4, <2>3 DEF Others
    <3>2. lock'[s] = "RE" /\ lock'[t] = "RE" => Apart(s, t)'
      BY Zenon, <3>1
    <3>3. Apart(s, t)' => Apart(t, s)'
      BY ZenonT(30) DEF Apart
    <3> QED
      BY <2>3, <3>1, <3>2, <3>3 DEF PairRows
  <2>4. CASE t = s
    <3>1. lock'[s] = "RE" /\ lock'[u] = "RE" /\ u # s => Apart(s, u)'
      BY ZenonT(30), <1>4 DEF Others
    <3> QED
      BY <2>4, <3>1 DEF PairRows
  <2> QED
    BY ZenonT(30), <2>2, <2>3, <2>4
<1> QED
  BY ZenonT(30), <1>2, <1>3, <1>5 DEF RowInv

\* The end of a statement of s, seen from the other sessions.
LEMMA StatementMoves ==
  ASSUME TypeOK, NEW s \in Sessions, NEW ws, NEW touch \in BOOLEAN, NEW c,
         EndStatement(s, ws, touch, c), TakeExclusive(s) \/ UNCHANGED lock,
         \A t \in Others(s) : add'[t] = add[t] /\ rem'[t] = rem[t]
  PROVE  /\ OnlyMoves(s)
         /\ w'[s] = ws /\ pc'[s] = "open" /\ OwnCat(s)' = RowAfter(s, touch, c)
         /\ stmts' = stmts /\ (TakeExclusive(s) => lock'[s] = "AE")
<1>1. /\ UNCHANGED <<committedVars, stmts>>
      /\ w' = [w EXCEPT ![s] = ws] /\ pc' = [pc EXCEPT ![s] = "open"]
      /\ catOwner' = IF touch THEN s ELSE catOwner
      /\ pcat' = IF touch THEN c ELSE pcat
      /\ touch => catOwner \in {NoSession, s}
      /\ snap' = IF Iso[s] = "RC" THEN [snap EXCEPT ![s] = EmptyDb] ELSE snap
  BY ZenonT(30) DEF EndStatement, CanUpdateCatalog
<1>2. /\ DOMAIN w = Sessions /\ DOMAIN pc = Sessions /\ DOMAIN snap = Sessions
      /\ DOMAIN lock = Sessions
  BY DEF TypeOK
<1>3. w'[s] = ws /\ pc'[s] = "open"
  BY <1>1, <1>2
<1>4. \A t \in Others(s) : w'[t] = w[t] /\ pc'[t] = pc[t] /\ snap'[t] = snap[t]
  BY <1>1, <1>2 DEF Others
<1>5. \A t \in Others(s) : lock'[t] = lock[t]
  BY <1>2 DEF Others, TakeExclusive
<1>6. OwnCat(s)' = RowAfter(s, touch, c)
  BY ZenonT(30), <1>1 DEF OwnCat, RowAfter, committedVars
<1>7. UNCHANGED <<catOwner, pcat>> \/ (catOwner \in {NoSession, s} /\ catOwner' \in {NoSession, s})
  BY <1>1
<1>8. TakeExclusive(s) => lock'[s] = "AE"
  BY ZenonT(30), <1>2 DEF TakeExclusive
<1> QED
  BY ZenonT(30), <1>1, <1>3, <1>4, <1>5, <1>6, <1>7, <1>8 DEF OnlyMoves

\* A statement that ends with the exclusive lock has to leave the right rows.
LEMMA ExclusiveRows ==
  ASSUME NEW e \in BOOLEAN,
         TypeOK, RowInv(e), NEW s \in Sessions, NEW ws, NEW touch \in BOOLEAN, NEW c,
         EndStatement(s, ws, touch, c), TakeExclusive(s) \/ UNCHANGED lock, lock'[s] = "AE",
         \A t \in Others(s) : add'[t] = add[t] /\ rem'[t] = rem[t],
         Unique(HeapOf(ws), LiveOf(ws)),
         e \/ MayWrite(s)' => StoredBy(ws) = (Stored \ rem'[s]) \cup add'[s],
         ~RowAfter(s, touch, c).is_compressed => SegOf(ws) = NoSegs
  PROVE  RowInv(e)'
<1>1. /\ OnlyMoves(s)
      /\ w'[s] = ws /\ pc'[s] = "open" /\ OwnCat(s)' = RowAfter(s, touch, c)
  BY ZenonT(30), StatementMoves
<1>2. heap' = heap /\ seg' = seg /\ tomb' = tomb
  BY <1>1 DEF OnlyMoves, committedVars
<1>3. /\ HeapOf(w[s])' = HeapOf(ws) /\ SegOf(w[s])' = SegOf(ws) /\ TombOf(w[s])' = TombOf(ws)
      /\ LiveNow' = LiveNow
  BY ZenonT(30), <1>1, <1>2 DEF HeapOf, SegOf, TombOf, LiveNow, Live
<1>4. LiveOf(w[s])' = LiveOf(ws) /\ Stored' = Stored
  BY Zenon, <1>2, <1>3 DEF LiveOf, Live, Stored, RowsOf
<1>5. StoredBy(w[s])' = StoredBy(ws)
  BY Zenon, <1>3, <1>4 DEF StoredBy, RowsOf
<1>6. TableEffect(s, e)'
  BY ZenonT(30), <1>1, <1>3, <1>4, <1>5 DEF TableEffect
<1>7. SessionRows(s, e)'
  BY Zenon, <1>1, <1>6 DEF SessionRows
<1> QED
  BY ZenonT(30), <1>1, <1>7, StepRows

\* A new statement keeps RowInv: its snapshot is the committed state of this moment.
LEMMA StartRowsKept ==
  ASSUME NEW e \in BOOLEAN,
         PlainUse, TypeOK, FlagInv, RowInv(e), NEW s \in Sessions, NEW op \in Ops,
         StartStatement(s, op)
  PROVE  RowInv(e)'
<1> DEFINE Dml == {"insert", "delete", "update"}
<1>1. /\ pc[s] \in {"open", "idle"} /\ pc' = [pc EXCEPT ![s] = op]
      /\ stmts[s] < (IF op \in OwnTxn THEN 1 ELSE MaxStmts)
      /\ stmts' = [stmts EXCEPT ![s] = IF op \in OwnTxn THEN MaxStmts ELSE @ + 1]
      /\ lock' = [lock EXCEPT ![s] = IF @ = "AE" \/ PlanLock(op) = "none" THEN @ ELSE "RE"]
      /\ UNCHANGED <<committedVars, catOwner, pcat, w, add, rem>>
      /\ snap' = [snap EXCEPT ![s] = Committed]
  BY DEF StartStatement, PlainUse
<1>2. /\ DOMAIN pc = Sessions /\ DOMAIN snap = Sessions /\ DOMAIN lock = Sessions
      /\ DOMAIN stmts = Sessions /\ stmts[s] \in Nat
      /\ lock[s] \in {"none", "AS", "RE", "AE"}
  BY DEF TypeOK
<1>3. pc'[s] = op /\ snap'[s] = Committed
  BY <1>1, <1>2
<1>4. lock'[s] = IF lock[s] = "AE" \/ PlanLock(op) = "none" THEN lock[s] ELSE "RE"
  BY <1>1, <1>2
<1>5. OnlyMoves(s)
  BY <1>1, <1>2 DEF OnlyMoves, Others
<1>6. SessionRows(s, e) /\ lock[s] # "AS"
  BY <1>1 DEF RowInv, SessionRows, HasRead
<1>7. /\ cat' = cat /\ heap' = heap /\ seg' = seg /\ tomb' = tomb
      /\ w' = w /\ add' = add /\ rem' = rem /\ OwnCat(s)' = OwnCat(s)
  BY ZenonT(30), <1>1 DEF committedVars, OwnCat
<1>8. /\ HeapOf(w[s])' = HeapOf(w[s]) /\ SegOf(w[s])' = SegOf(w[s])
      /\ TombOf(w[s])' = TombOf(w[s]) /\ LiveNow' = LiveNow
  BY ZenonT(30), <1>7 DEF HeapOf, SegOf, TombOf, LiveNow, Live
<1>9. /\ LiveOf(w[s])' = LiveOf(w[s]) /\ StoredBy(w[s])' = StoredBy(w[s]) /\ Stored' = Stored
  BY <1>7, <1>8 DEF LiveOf, StoredBy, Stored, RowsOf, Live
<1>10. lock'[s] = "RE" => RowEffect(s)'
  <2>1. ASSUME lock[s] = "none" PROVE RowEffect(s)
    <3>1. w[s] = NoWrites /\ add[s] = {} /\ rem[s] = {}
      BY ZenonT(30), <1>6, <2>1 DEF SessionRows, DoneNothing
    <3>2. NoWrites.segNew = NoSegs /\ NoWrites.segDel = {}
      BY ZenonT(30) DEF NoWrites
    <3> QED
      BY ZenonT(30), <3>1, <3>2, NoWritesFields DEF RowEffect, RowsOf
  <2>2. lock[s] # "AE" => RowEffect(s)
    BY <1>2, <1>6, <2>1 DEF SessionRows
  <2>3. RowEffect(s) => RowEffect(s)'
    BY ZenonT(30), <1>7, <1>8 DEF RowEffect, RowsOf
  <2> QED
    BY ZenonT(30), <1>4, <2>2, <2>3
<1>11. lock'[s] = "AE" => TableEffect(s, e)'
  <2>1. MayWrite(s)
    BY <1>1, <1>2, SessionAssumption DEF MayWrite
  <2> QED
    <3>1. lock'[s] = "AE" => lock[s] = "AE"
      BY ZenonT(30), <1>4
    <3>2. lock[s] = "AE" => TableEffect(s, e)
      BY ZenonT(30), <1>6 DEF SessionRows
    <3>3. ASSUME TableEffect(s, e) PROVE TableEffect(s, e)'
      <4>1. Unique(HeapOf(w[s]), LiveOf(w[s]))'
        BY ZenonT(30), <1>8, <1>9, <3>3 DEF TableEffect
      <4>2. StoredBy(w[s])' = (Stored \ rem[s])' \cup add'[s]
        BY ZenonT(30), <1>7, <1>9, <2>1, <3>3 DEF TableEffect
      <4>3. ~OwnCat(s)'.is_compressed => SegOf(w[s])' = NoSegs
        BY ZenonT(30), <1>7, <1>8, <3>3 DEF TableEffect
      <4> QED
        BY ZenonT(30), <4>1, <4>2, <4>3 DEF TableEffect
    <3> QED
      BY ZenonT(30), <3>1, <3>2, <3>3
<1>12. SnapLive(s)' = LiveNow
  BY ZenonT(30), <1>3, <1>7, CommittedFields DEF SnapLive, LiveNow, Live
<1>13. SnapHolds(s)'
  <2>1. snap'[s].seg = seg /\ snap'[s].tomb = tomb /\ snap'[s].heap = heap
    BY ZenonT(30), <1>3, CommittedFields
  <2>2. \A p \in LiveNow, r \in heap : p[2][1] # r[1]
    BY ZenonT(30) DEF RowInv, Unique
  <2> QED
    BY Zenon, <1>7, <1>12, <2>1, <2>2 DEF SnapHolds
<1>14. lock'[s] = "none" => DoneNothing(s)'
  BY ZenonT(30), <1>4, <1>6, <1>7 DEF SessionRows, DoneNothing
<1>15. SessionRows(s, e)'
  <2>1. pc'[s] = "compress" => stmts'[s] = MaxStmts
    BY <1>1, <1>2, <1>3 DEF PlainUse
  <2> QED
    BY Zenon, <1>4, <1>6, <1>10, <1>11, <1>13, <1>14, <2>1 DEF SessionRows
<1>16. ASSUME NEW t \in Sessions, lock'[t] = "RE" PROVE SnapApart(s, t)'
  <2>1. RowEffect(t)'
    BY Zenon, <1>5, <1>10, <1>16, OthersRows DEF Others, SessionRows
  <2> QED
    BY Zenon, <1>8, <1>12, <2>1 DEF SnapApart, RowEffect
<1>17. ASSUME lock'[s] = "RE", NEW t \in Others(s)
       PROVE  /\ lock[t] = "RE" => Apart(s, t)'
              /\ pc[t] \in Dml => SnapApart(t, s)'
  <2>1. t \in Sessions /\ t # s /\ snap'[t] = snap[t]
    BY ZenonT(30), <1>5 DEF Others, OnlyMoves
  <2>2. CASE lock[s] = "RE"
    <3>1. PairRows(s, t) /\ PairRows(t, s) /\ SnapLive(t)' = SnapLive(t)
      BY <2>1 DEF RowInv, SnapLive, Live
    <3> QED
      BY ZenonT(30), <1>7, <2>1, <2>2, <3>1 DEF PairRows, Apart, SnapApart
  <2>3. CASE lock[s] = "none"
    <3>1. w[s].ins = {} /\ w[s].del = {}
      BY ZenonT(30), <1>6, <2>3, NoWritesFields DEF SessionRows, DoneNothing
    <3> QED
      BY ZenonT(30), <1>7, <3>1 DEF Apart, SnapApart
  <2> QED
    BY ZenonT(30), <1>2, <1>4, <1>6, <1>17, <2>2, <2>3
<1> QED
  BY ZenonT(30), <1>5, <1>15, <1>16, <1>17, StepRows

\* A maintenance function with nothing to do keeps RowInv.
LEMMA SkipRows ==
  ASSUME NEW e \in BOOLEAN, TypeOK, FlagInv, RowInv(e), NEW s \in Sessions,
         CompactSkip(s) \/ CompressSkip(s) \/ DecompressSkip(s)
  PROVE  RowInv(e)'
<1>1. /\ pc[s] \in {"compact", "compress", "decompress"}
      /\ EndStatement(s, w[s], FALSE, pcat) /\ UNCHANGED <<lock, add, rem>>
  BY Zenon DEF CompactSkip, CompressSkip, DecompressSkip, ReturnUnchanged
<1>2. OnlyMoves(s) /\ w'[s] = w[s] /\ pc'[s] = "open"
  BY ZenonT(30), <1>1, StatementMoves
<1>3. lock[s] = "none"
  BY ZenonT(30), <1>1 DEF FlagInv, StepDiscipline
<1>4. DoneNothing(s)
  BY ZenonT(30), <1>3 DEF RowInv, SessionRows
<1>5. SessionRows(s, e)'
  BY ZenonT(30), <1>1, <1>2, <1>3, <1>4 DEF SessionRows, DoneNothing
<1> QED
  BY Zenon, <1>1, <1>2, <1>3, <1>5, StepRows
\* The rows of the committed partition are the rows the table promises.
LEMMA ContentIsStored ==
  /\ Content(Committed) = Stored
  /\ \A t \in Sessions : Content(snap[t]) = snap[t].heap \cup RowsOf(SnapLive(t))
<1>1. LivePairs(Committed, SegIds) = LiveNow
  BY ZenonT(30) DEF LivePairs, LiveNow, Live, Committed
<1>2. LiveRows(Committed, SegIds) = RowsOf(LiveNow)
  BY <1>1 DEF LiveRows, RowsOf
<1>3. \A t \in Sessions : LivePairs(snap[t], SegIds) = SnapLive(t)
  BY DEF LivePairs, SnapLive, Live
<1>4. \A t \in Sessions : LiveRows(snap[t], SegIds) = RowsOf(SnapLive(t))
  BY <1>3 DEF LiveRows, RowsOf
<1>5. Committed.heap = heap
  BY DEF Committed
<1> QED
  BY ZenonT(30), <1>2, <1>4, <1>5 DEF Content, Stored

\* INSERT keeps RowInv: its key is stored, pending and snapshotted nowhere.
LEMMA InsertRowInv ==
  ASSUME NEW e \in BOOLEAN,
         PlainUse, TypeOK, FlagInv, RowInv(e), NEW s \in Sessions,
         NEW r \in Row, Insert(s, r)
  PROVE  RowInv(e)'
<1> DEFINE flips == NotesInsert(s) /\ ~CatSeen(s).has_loose_rows
           c == [CatSeen(s) EXCEPT !.has_loose_rows = TRUE]
           ws == InsertRows(w[s], {r})
           k == r[1]
<1>1. /\ pc[s] = "insert" /\ FreshKey(k) /\ EndStatement(s, ws, flips, c)
      /\ add' = [add EXCEPT ![s] = @ \cup {r}] /\ UNCHANGED <<lock, rem>>
  BY DEF Insert
<1>2. flips \in BOOLEAN
  OBVIOUS
<1>3. /\ w[s] \in WriteSet /\ DOMAIN add = Sessions /\ CatSeen(s) = OwnCat(s)
      /\ OwnCat(s) \in CatalogRow
  BY ViewTypes, ReadCommittedView DEF TypeOK
<1>4. add'[s] = add[s] \cup {r} /\ \A t \in Others(s) : add'[t] = add[t] /\ rem'[t] = rem[t]
  BY <1>1, <1>3 DEF Others
<1>5. RowAfter(s, flips, c).is_compressed = OwnCat(s).is_compressed
  BY <1>3 DEF RowAfter, CatalogRow
<1>6. /\ ws.ins = w[s].ins \cup {r} /\ ws.del = w[s].del /\ ws.trunc = w[s].trunc
      /\ SameSegments(ws, w[s])
      /\ HeapOf(ws) = HeapOf(w[s]) \cup {r} /\ LiveOf(ws) = LiveOf(w[s])
  BY Zenon, <1>3, InsertRowsFields, HeapWritesSame, InsertRowsLive
<1>7. k \notin KeysOf(Stored) /\ \A t \in Sessions : k \notin KeysOf(add[t] \cup Content(snap[t]))
  BY <1>1, ContentIsStored DEF FreshKey
<1>8. /\ \A p \in LiveNow : p[2][1] # k
      /\ \A q \in heap : q[1] # k
  BY <1>7 DEF Stored, RowsOf, KeysOf
<1>9. \A t \in Sessions : \A q \in add[t] : q[1] # k
  BY ZenonT(30), <1>7 DEF KeysOf
<1>10. \A t \in Sessions : \A p \in SnapLive(t) : p[2][1] # k
  BY <1>7, ContentIsStored DEF RowsOf, KeysOf
<1>11. lock[s] \in {"RE", "AE"} /\ SessionRows(s, e)
  BY <1>1 DEF FlagInv, StepDiscipline, RowInv
<1> HIDE DEF flips, c, ws, k
<1>12. /\ OnlyMoves(s) /\ w'[s] = ws /\ pc'[s] = "open"
  BY ZenonT(30), <1>1, <1>2, <1>4, StatementMoves
<1>13. CASE lock[s] = "AE"
  <2>1. TableEffect(s, e)
    BY <1>11, <1>13 DEF SessionRows
  <2>2. StoredBy(w[s]) = (Stored \ rem[s]) \cup add[s]
    BY ZenonT(30), <1>1, <2>1 DEF TableEffect, MayWrite
  <2>3. k \notin KeysOf(HeapOf(w[s]) \cup RowsOf(LiveOf(w[s])))
    BY ZenonT(30), <1>7, <1>9, <2>2 DEF StoredBy, KeysOf
  <2>4. Unique(HeapOf(ws), LiveOf(ws))
    <3>1. Unique(HeapOf(w[s]), LiveOf(w[s])) /\ r[1] \notin KeysOf(HeapOf(w[s]) \cup RowsOf(LiveOf(w[s])))
      BY ZenonT(30), <2>1, <2>3 DEF TableEffect, k
    <3>2. Unique(HeapOf(w[s]) \cup {r}, LiveOf(w[s]))
      BY ZenonT(30), <3>1, UniqueFresh
    <3> QED
      BY ZenonT(30), <1>6, <3>2
  <2>5. StoredBy(ws) = (Stored \ rem'[s]) \cup add'[s]
    BY ZenonT(30), <1>1, <1>4, <1>6, <2>2 DEF StoredBy
  <2>6. SegOf(ws) = SegOf(w[s])
    BY ZenonT(30), <1>6, SameEffect
  <2>7. ~RowAfter(s, flips, c).is_compressed => SegOf(ws) = NoSegs
    BY ZenonT(30), <1>5, <2>1, <2>6 DEF TableEffect
  <2> QED
    BY ZenonT(30), <1>1, <1>2, <1>4, <1>13, <2>4, <2>5, <2>7, ExclusiveRows
<1>14. CASE lock[s] = "RE"
  <2>1. RowEffect(s)
    BY ZenonT(30), <1>11, <1>14 DEF SessionRows
  <2>2. heap' = heap /\ LiveNow' = LiveNow /\ lock' = lock
    BY ZenonT(30), <1>1, <1>12 DEF OnlyMoves, committedVars, LiveNow, Live
  <2>3. \A q \in w'[s].ins : q \in w[s].ins \/ (q = r /\ r[1] = k)
    BY <1>6, <1>12 DEF k
  <2>4. /\ w'[s].segNew = NoSegs /\ w'[s].segDel = {} /\ w'[s].tDel = {}
        /\ ~w'[s].trunc /\ ~w'[s].tTrunc
        /\ w'[s].del = w[s].del /\ w'[s].tIns = w[s].tIns
    BY Zenon, <1>6, <1>12, <2>1 DEF RowEffect, SameSegments
  <2>5. /\ add'[s] = w'[s].ins /\ rem'[s] = w'[s].del \cup RowsOf(w'[s].tIns)
    BY ZenonT(30), <1>1, <1>4, <1>6, <1>12, <2>1, <2>4 DEF RowEffect
  <2>6. \A a, b \in w'[s].ins : a[1] = b[1] => a = b
    BY ZenonT(30), <1>9, <2>1, <2>3 DEF RowEffect
  <2>7. \A q \in w'[s].ins, x \in heap : q[1] = x[1] => x \in w'[s].del
    BY ZenonT(30), <1>8, <2>1, <2>3, <2>4 DEF RowEffect
  <2>8. \A q \in w'[s].ins \cup w'[s].del, p \in LiveNow : q[1] # p[2][1]
    BY ZenonT(30), <1>8, <2>1, <2>3, <2>4 DEF RowEffect
  <2>9. RowEffect(s)'
    BY ZenonT(30), <2>1, <2>2, <2>4, <2>5, <2>6, <2>7, <2>8 DEF RowEffect, RowsOf
  <2>10. SessionRows(s, e)'
    BY ZenonT(30), <1>12, <1>14, <2>2, <2>9 DEF SessionRows
  <2>11. ASSUME NEW t \in Others(s)
         PROVE  /\ lock[t] = "RE" => Apart(s, t)'
                /\ pc[t] \in {"insert", "delete", "update"} => SnapApart(t, s)'
    <3>1. t \in Sessions /\ t # s /\ w'[t] = w[t] /\ snap'[t] = snap[t]
      BY ZenonT(30), <1>12 DEF OnlyMoves, Others
    <3>2. PairRows(s, t) /\ PairRows(t, s) /\ SessionRows(t, e)
      BY ZenonT(30), <3>1 DEF RowInv
    <3>3. ASSUME lock[t] = "RE" PROVE Apart(s, t)'
      <4>1. Apart(s, t) /\ w[t].ins = add[t]
        BY ZenonT(30), <1>14, <3>1, <3>2, <3>3 DEF PairRows, SessionRows, RowEffect
      <4> QED
        BY ZenonT(30), <1>9, <2>3, <2>4, <3>1, <4>1 DEF Apart
    <3>4. SnapLive(t)' = SnapLive(t)
      BY <3>1 DEF SnapLive, Live
    <3>5. ASSUME pc[t] \in {"insert", "delete", "update"} PROVE SnapApart(t, s)'
      <4>1. SnapApart(t, s)
        BY ZenonT(30), <1>14, <3>2, <3>5 DEF PairRows
      <4> QED
        BY ZenonT(30), <1>10, <2>3, <3>1, <3>4, <4>1 DEF SnapApart
    <3> QED
      BY <3>3, <3>5
  <2> QED
    BY ZenonT(30), <1>12, <2>10, <2>11, StepRows
<1> QED
  BY <1>11, <1>13, <1>14

(***************************************************************************)
(* The maintenance functions move rows and change none.                    *)
(***************************************************************************)
\* They run in a transaction of their own, in which nothing was done before.
LEMMA MaintenanceStarts ==
  ASSUME NEW e \in BOOLEAN, PlainUse, TypeOK, FlagInv, RowInv(e), NEW s \in Sessions,
         pc[s] \in {"compact", "compress", "decompress"}
  PROVE  /\ lock[s] = "none" /\ w[s] = NoWrites /\ add[s] = {} /\ rem[s] = {}
         /\ HeapOf(w[s]) = heap /\ SegOf(w[s]) = seg /\ TombOf(w[s]) = tomb
         /\ LiveOf(w[s]) = LiveNow /\ StoredBy(w[s]) = Stored /\ Unique(heap, LiveNow)
         /\ View(s).heap = heap /\ View(s).seg = seg /\ View(s).tomb = tomb
         /\ View(s).cat = cat /\ OwnCat(s) = cat /\ w[s] \in WriteSet /\ View(s) \in Db
<1>1. lock[s] = "none" /\ catOwner # s
  BY ZenonT(30) DEF FlagInv, StepDiscipline, LockDiscipline
<1>2. w[s] = NoWrites /\ add[s] = {} /\ rem[s] = {} /\ Unique(heap, LiveNow)
  BY ZenonT(30), <1>1 DEF RowInv, SessionRows, DoneNothing
<1>3. /\ HeapOf(w[s]) = heap /\ SegOf(w[s]) = seg /\ TombOf(w[s]) = tomb
      /\ LiveOf(w[s]) = LiveNow /\ StoredBy(w[s]) = Stored
  BY <1>2, NoWritesViews
<1>4. OwnCat(s) = cat
  BY ZenonT(30), <1>1 DEF OwnCat
<1>5. /\ View(s).heap = heap /\ View(s).seg = seg /\ View(s).tomb = tomb /\ View(s).cat = cat
  BY <1>3, <1>4, ReadCommittedView, ReadCommittedSegs, OwnView
<1>6. w[s] \in WriteSet /\ View(s) \in Db
  BY ViewTypes
<1> QED
  BY ZenonT(30), <1>1, <1>2, <1>3, <1>4, <1>5, <1>6

\* compact_partition's fold of tombstoned segments into the heap loses and doubles no row.
LEMMA FoldedRows ==
  ASSUME NEW e \in BOOLEAN,
         PlainUse, TypeOK, FlagInv, RowInv(e), NEW s \in Sessions, pc[s] = "compact"
  PROVE  /\ Unique(HeapOf(FoldedWrites(s)), LiveOf(FoldedWrites(s)))
         /\ StoredBy(FoldedWrites(s)) = Stored
<1> DEFINE v == View(s)
           S == TombstonedSegments(v)
           P == {}
           rw == RewriteWrites(s)
           fw == FoldedWrites(s)
<1>1. /\ w[s] \in WriteSet /\ v \in Db /\ v.seg = SegOf(w[s]) /\ v.tomb = TombOf(w[s])
      /\ Unique(HeapOf(w[s]), LiveOf(w[s])) /\ StoredBy(w[s]) = Stored
  BY ZenonT(30), MaintenanceStarts
<1>2. S \in SUBSET SegIds /\ P \in SUBSET SegIds /\ PairsIn(LiveOf(w[s]), P) = {}
  <2>1. v.tomb \in SUBSET Tombstone
    BY <1>1 DEF Db
  <2> QED
    BY ZenonT(30), <2>1 DEF TombstonedSegments, Tombstone, PairsIn
<1>3. rw = IF v.tomb = {} THEN w[s] ELSE DecomposeWrites(w[s], v, S, P)
  BY DEF RewriteWrites
<1>4. rw \in WriteSet
  BY ZenonT(30), FoldedWritesType
<1>5. fw = IF TombOf(rw) = {} THEN TruncateTombstones(rw) ELSE rw
  BY ZenonT(30), ReadCommittedView, ApplyFields DEF FoldedWrites
<1> HIDE DEF v, S, P, rw, fw
<1>6. /\ Unique(HeapOf(DecomposeWrites(w[s], v, S, P)), LiveOf(DecomposeWrites(w[s], v, S, P)))
      /\ StoredBy(DecomposeWrites(w[s], v, S, P)) = StoredBy(w[s])
  BY ZenonT(30), <1>1, <1>2, DecomposeMoves
<1>7. Unique(HeapOf(rw), LiveOf(rw)) /\ StoredBy(rw) = Stored
  BY ZenonT(30), <1>1, <1>3, <1>6
<1>8. TombOf(rw) = {} => /\ HeapOf(TruncateTombstones(rw)) = HeapOf(rw)
                         /\ LiveOf(TruncateTombstones(rw)) = LiveOf(rw)
  BY <1>4, TruncateLive
<1>9. Unique(HeapOf(fw), LiveOf(fw)) /\ StoredBy(fw) = Stored
  BY ZenonT(30), <1>5, <1>7, <1>8 DEF StoredBy
<1> QED
  BY <1>9 DEF fw

\* A maintenance function that ends with the exclusive lock.
LEMMA MovedRows ==
  ASSUME NEW e \in BOOLEAN,
         TypeOK, RowInv(e), NEW s \in Sessions, NEW ws, NEW touch \in BOOLEAN, NEW c,
         EndStatement(s, ws, touch, c), TakeExclusive(s), UNCHANGED <<add, rem>>,
         add[s] = {}, rem[s] = {},
         Unique(HeapOf(ws), LiveOf(ws)), StoredBy(ws) = Stored,
         ~RowAfter(s, touch, c).is_compressed => SegOf(ws) = NoSegs
  PROVE  RowInv(e)'
<1>1. lock'[s] = "AE"
  BY ZenonT(30) DEF TakeExclusive, TypeOK
<1>2. StoredBy(ws) = (Stored \ rem'[s]) \cup add'[s]
  BY ZenonT(30)
<1>3. \A t \in Others(s) : add'[t] = add[t] /\ rem'[t] = rem[t]
  BY ZenonT(30)
<1> QED
  BY ZenonT(30), <1>1, <1>2, <1>3, ExclusiveRows

\* What the catalog row and the segments look like after the fold of the tombstones.
FoldReady(s) ==
  LET v == FoldedView(s)
      c == FoldedCatalog(s)
      ws == FoldedWrites(s)
  IN  /\ c \in CatalogRow /\ c.is_compressed /\ v \in Db
      /\ v.cat = c /\ v.heap = HeapOf(ws) /\ v.seg = SegOf(ws) /\ v.tomb = TombOf(ws)
      /\ \A x \in TombOf(ws) : x[2] \in SegOf(ws)[x[1]]
      /\ HighWater(v, c) \in Nat /\ \A i \in Segments(v) : i <= HighWater(v, c)

\* Compaction: the live rows of tombstoned segments move to the heap, and the loose rows
\* to new segments above the high-water mark.
LEMMA CompactRows ==
  ASSUME NEW e \in BOOLEAN,
         PlainUse, TypeOK, FlagInv, RowInv(e), NEW s \in Sessions, FoldReady(s),
         NEW A \in SUBSET Row, CompactNothing(s) \/ CompactLoose(s, A)
  PROVE  RowInv(e)'
<1> DEFINE fw == FoldedWrites(s)
           fc == FoldedCatalog(s)
           v == FoldedView(s)
           th == TruncateHeap(fw)
<1>1. /\ Iso[s] = "RC" /\ pc[s] = "compact" /\ TakeExclusive(s) /\ View(s).cat.is_compressed
      /\ UNCHANGED <<add, rem>>
  BY Zenon DEF PlainUse, CompactNothing, CompactLoose
<1>2. fw \in WriteSet /\ fc \in CatalogRow /\ v \in Db
  BY ZenonT(30), FoldedWritesType DEF FoldReady
<1>3. /\ \A x \in TombOf(fw) : x[2] \in SegOf(fw)[x[1]]
      /\ v.seg = SegOf(fw) /\ v.tomb = TombOf(fw) /\ v.cat = fc
  BY ZenonT(30) DEF FoldReady
<1>4. OwnCat(s).is_compressed /\ add[s] = {} /\ rem[s] = {}
  BY ZenonT(30), <1>1, MaintenanceStarts
<1>5. v.heap = HeapOf(fw) /\ fc.is_compressed
  BY ZenonT(30) DEF FoldReady
<1>6. Unique(HeapOf(fw), LiveOf(fw)) /\ StoredBy(fw) = Stored
  BY ZenonT(30), <1>1, FoldedRows
<1>7. th \in WriteSet /\ SameSegments(th, fw)
  <2>1. {} \in SUBSET Row /\ {} \in SUBSET Tombstone
    OBVIOUS
  <2> QED
    BY <1>2, <2>1, WriteOpsType, HeapWritesSame
<1>8. /\ SegOf(th) = SegOf(fw) /\ TombOf(th) = TombOf(fw)
      /\ HeapOf(th) = {} /\ LiveOf(th) = LiveOf(fw)
  BY ZenonT(30), <1>2, <1>7, SameEffect, TruncateLive
<1>9. CASE CompactNothing(s)
  <2> DEFINE c == [fc EXCEPT !.has_loose_rows = FALSE]
             touch == View(s).tomb # {} \/ c # CatSeen(s)
  <2>1. EndStatement(s, th, touch, c) /\ v.heap = {}
    BY <1>1, <1>9 DEF CompactNothing
  <2>2. touch \in BOOLEAN
    OBVIOUS
  <2>3. c.is_compressed
    BY <1>2, <1>5 DEF CatalogRow
  <2> HIDE DEF fw, fc, v, th, c, touch
  <2>4. RowAfter(s, touch, c).is_compressed
    BY ZenonT(30), <1>4, <2>3 DEF RowAfter
  <2>5. HeapOf(th) = HeapOf(fw)
    BY ZenonT(30), <1>5, <1>8, <2>1
  <2>6. Unique(HeapOf(th), LiveOf(th)) /\ StoredBy(th) = Stored
    BY <1>6, <1>8, <2>5 DEF StoredBy
  <2> QED
    BY ZenonT(30), <1>1, <1>4, <2>1, <2>2, <2>4, <2>6, MovedRows
<1>10. CASE CompactLoose(s, A)
  <2> DEFINE n == HighWater(v, v.cat) + 1
             R == v.heap
             news == NewSegments(n, A, R)
             w2 == AddSegments(th, news)
             c == [BumpCompaction(v.cat, Cardinality(R)) EXCEPT !.has_loose_rows = FALSE]
             touch == TRUE
             B == BatchPairs(n, A, R)
  <2>1. /\ EndStatement(s, w2, touch, c) /\ A \in SUBSET R
        /\ n + (IF A = R THEN 0 ELSE 1) <= MaxSeg
    BY Zenon, <1>1, <1>10 DEF CompactLoose
  <2>2. R \in SUBSET Row
    BY <1>2 DEF Db
  <2>3. news \in SegMap
    BY ZenonT(30), <2>2, NewSegmentsType DEF SegMap
  <2>4. n \in Nat \ {0} /\ \A i \in SegIds : SegOf(fw)[i] # {} => i < n
    <3>1. HighWater(v, v.cat) \in Nat /\ \A i \in Segments(v) : i <= HighWater(v, v.cat)
      BY Zenon, <1>3 DEF FoldReady
    <3> HIDE DEF v, fw
    <3> QED
      BY SMTT(30), <1>3, <3>1 DEF Segments, SegIds
  <2>5. c.is_compressed
    BY <1>2, <1>3, <1>5 DEF CatalogRow, BumpCompaction
  <2>6. n <= MaxSeg /\ (A # R => n + 1 <= MaxSeg)
    BY <2>1, <2>4, DataAssumption
  <2>7. SegOf(fw) \in SegMap /\ TombOf(fw) \in SUBSET Tombstone
    BY ZenonT(30), <1>2, SegOfType
  <2>8. SegOf(w2) = [i \in SegIds |-> IF news[i] # {} THEN news[i] ELSE SegOf(th)[i]]
    BY ZenonT(30), <1>7, <2>3, AddSegmentsSegs
  <2>9. TombOf(w2) = TombOf(th) /\ HeapOf(w2) = HeapOf(th)
    <3>1. /\ w2.tIns = th.tIns /\ w2.tDel = th.tDel /\ w2.tTrunc = th.tTrunc
          /\ w2.ins = th.ins /\ w2.del = th.del /\ w2.trunc = th.trunc
      BY Zenon, <1>7, AddSegmentsFields
    <3> HIDE DEF w2, th
    <3> QED
      BY <3>1 DEF TombOf, HeapOf
  <2>10. touch \in BOOLEAN /\ RowAfter(s, touch, c) = c
    BY DEF RowAfter
  <2>11. SegOf(w2) = SegsWith(SegOf(fw), n, A, R)
    BY ZenonT(30), <1>8, <2>8 DEF SegsWith
  <2> HIDE DEF fw, fc, v, th, n, R, w2, c, touch, news, B
  <2>12. \A x \in TombOf(fw) : x[2] \in SegOf(fw)[x[1]]
    BY ZenonT(30), <1>3
  <2>13. /\ Live(SegsWith(SegOf(fw), n, A, R), TombOf(fw)) = Live(SegOf(fw), TombOf(fw)) \cup B
         /\ RowsOf(B) = R
         /\ OncePerRow(B)
    <3>1. \A i \in SegIds : SegOf(fw)[i] # {} => i < n
      BY ZenonT(30), <2>4
    <3>2. A \in SUBSET R /\ n \in Nat \ {0}
      BY ZenonT(30), <2>1, <2>4
    <3> QED
      BY ZenonT(30), <2>2, <2>6, <2>7, <2>12, <3>1, <3>2, BatchLive DEF B
  <2>14. LiveOf(w2) = LiveOf(fw) \cup B /\ HeapOf(w2) = {}
    BY ZenonT(30), <1>8, <2>9, <2>11, <2>13 DEF LiveOf
  <2>15. /\ Unique({}, LiveOf(fw) \cup B)
         /\ RowsOf(LiveOf(fw) \cup B) = HeapOf(fw) \cup RowsOf(LiveOf(fw))
    <3>1. RowsOf(B) = HeapOf(fw)
      BY ZenonT(30), <1>5, <2>13 DEF R
    <3> QED
      BY ZenonT(30), <1>6, <2>13, <3>1, UniqueBatch
  <2>16. Unique(HeapOf(w2), LiveOf(w2)) /\ StoredBy(w2) = Stored
    BY <1>6, <2>14, <2>15 DEF StoredBy
  <2>17. RowAfter(s, touch, c).is_compressed
    BY ZenonT(30), <2>5, <2>10
  <2> QED
    BY ZenonT(30), <1>1, <1>4, <2>1, <2>10, <2>16, <2>17, MovedRows
<1> QED
  BY <1>9, <1>10

\* The first step of compression.
LEMMA CompressReadRows ==
  ASSUME NEW e \in BOOLEAN,
         PlainUse, TypeOK, FlagInv, RowInv(e), NEW s \in Sessions, NEW A \in SUBSET Row,
         CompressRead(s, A)
  PROVE  RowInv(e)'
<1>1. /\ pc[s] = "compress" /\ A \subseteq View(s).heap
      /\ 1 + (IF A = View(s).heap THEN 0 ELSE 1) <= MaxSeg
      /\ w' = [w EXCEPT ![s] = AddSegments(@, NewSegments(1, A, View(s).heap))]
      /\ pc' = [pc EXCEPT ![s] = "compress_finish"]
      /\ lock' = [lock EXCEPT ![s] = IF @ = "none" THEN "AS" ELSE @]
      /\ UNCHANGED <<committedVars, catOwner, pcat, stmts, snap, add, rem>>
  BY ZenonT(30) DEF CompressRead
<1>2. lock[s] = "none" /\ w[s] = NoWrites /\ add[s] = {} /\ rem[s] = {} /\ View(s).heap = heap
  BY ZenonT(30), <1>1, MaintenanceStarts
<1>3. DOMAIN w = Sessions /\ DOMAIN pc = Sessions /\ DOMAIN lock = Sessions
  BY ZenonT(30) DEF TypeOK
<1>4. /\ w'[s] = AddSegments(NoWrites, NewSegments(1, A, heap))
      /\ pc'[s] = "compress_finish" /\ lock'[s] = "AS"
  BY ZenonT(30), <1>1, <1>2, <1>3
<1>5. OnlyMoves(s)
  BY ZenonT(30), <1>1, <1>3 DEF OnlyMoves, Others
<1>6. heap' = heap /\ A \in SUBSET heap /\ 1 <= MaxSeg /\ (A # heap => 2 <= MaxSeg)
  BY <1>1, <1>2, DataAssumption DEF committedVars
<1>7. heap \in SUBSET Row /\ stmts[s] = MaxStmts /\ \A q, r \in heap : q[1] = r[1] => q = r
  BY ZenonT(30), <1>1 DEF TypeOK, Committed, Db, RowInv, SessionRows, Unique
<1>8. HasRead(s, e)'
  BY ZenonT(30), <1>1, <1>2, <1>4, <1>6, <1>7 DEF HasRead
<1>9. SessionRows(s, e)'
  BY ZenonT(30), <1>4, <1>8 DEF SessionRows
<1> QED
  BY ZenonT(30), <1>4, <1>5, <1>9, StepRows

\* Its second step.
LEMMA CompressFinishRows ==
  ASSUME NEW e \in BOOLEAN,
         PlainUse, TypeOK, FlagInv, RowInv(e), NEW s \in Sessions, CompressFinish(s)
  PROVE  RowInv(e)'
<1> DEFINE c == [CatSeen(s) EXCEPT !.is_compressed = TRUE, !.has_loose_rows = FALSE,
                                   !.has_tombstones = FALSE,
                                   !.row_count = Cardinality(LivePairs(View(s), SegIds))]
           ws == TruncateHeap(w[s])
           touch == TRUE
           one == 1
<1>1. /\ pc[s] = "compress_finish" /\ TakeExclusive(s) /\ EndStatement(s, ws, touch, c)
      /\ UNCHANGED <<add, rem>>
  BY Zenon DEF CompressFinish
<1>2. lock[s] = "AS" /\ ~cat.is_compressed
  BY ZenonT(30), <1>1 DEF FlagInv, StepDiscipline
<1>3. HasRead(s, e) /\ seg = NoSegs /\ tomb = {} /\ Unique(heap, LiveNow)
  BY ZenonT(30), <1>2 DEF RowInv, SessionRows, FlagInv, Covered
<1>4. PICK R \in SUBSET Row, A \in SUBSET Row :
        /\ A \subseteq R /\ 1 <= MaxSeg /\ (A # R => 2 <= MaxSeg)
        /\ w[s] = AddSegments(NoWrites, NewSegments(one, A, R))
        /\ \A q, r \in R : q[1] = r[1] => q = r
        /\ e => R = heap
  BY ZenonT(30), <1>3 DEF HasRead
<1>5. c.is_compressed /\ touch \in BOOLEAN
  BY ViewTypes DEF CatalogRow
<1>6. RowAfter(s, touch, c).is_compressed
  BY <1>5 DEF RowAfter
<1> DEFINE news == NewSegments(one, A, R)
           B == BatchPairs(one, A, R)
<1>7. A \in SUBSET R /\ news \in SegMap /\ NoWrites \in WriteSet /\ w[s] \in WriteSet
  BY ZenonT(30), <1>4, NewSegmentsType, InitialTypes DEF TypeOK, SegMap
<1>8. SegOf(w[s]) = [i \in SegIds |-> IF news[i] # {} THEN news[i] ELSE SegOf(NoWrites)[i]]
  BY <1>4, <1>7, AddSegmentsSegs
<1>9. SegOf(NoWrites) = NoSegs
  BY <1>3, NoWritesViews
<1>10. SegOf(w[s]) = SegsWith(NoSegs, one, A, R)
  BY ZenonT(30), <1>8, <1>9 DEF SegsWith
<1>11. TombOf(w[s]) = {}
  <2>1. w[s].tIns = {} /\ w[s].tDel = {} /\ ~w[s].tTrunc
    BY <1>4, <1>7, AddSegmentsFields, NoWritesFields
  <2> QED
    BY ZenonT(30), <1>3, <2>1 DEF TombOf
<1>12. /\ Live(SegsWith(NoSegs, one, A, R), {}) = Live(NoSegs, {}) \cup B
       /\ RowsOf(B) = R
       /\ OncePerRow(B)
  <2> DEFINE t == {}
  <2>1. /\ NoSegs \in SegMap /\ t \in SUBSET Tombstone /\ one \in Nat \ {0}
        /\ \A i \in SegIds : NoSegs[i] # {} => i < one
        /\ \A x \in t : x[2] \in NoSegs[x[1]]
    BY DEF NoSegs, SegMap
  <2>2. one <= MaxSeg /\ (A # R => one + 1 <= MaxSeg)
    BY <1>4
  <2> HIDE DEF t, one
  <2>3. /\ Live(SegsWith(NoSegs, one, A, R), t) = Live(NoSegs, t) \cup B
        /\ RowsOf(B) = R
        /\ OncePerRow(B)
    BY Zenon, <1>7, <2>1, <2>2, BatchLive
  <2> QED
    BY <2>3 DEF t
<1>13. LiveNow = Live(NoSegs, {})
  BY <1>3 DEF LiveNow
<1>14. HeapOf(ws) = {} /\ LiveOf(ws) = LiveOf(w[s])
  BY <1>7, TruncateLive
<1> HIDE DEF c, ws, touch, one, news, B
<1>15. LiveOf(ws) = LiveNow \cup B
  BY ZenonT(30), <1>10, <1>11, <1>12, <1>13, <1>14 DEF LiveOf
<1>16. Unique(R, LiveNow)
  BY <1>4, <1>13 DEF Unique, Live, NoSegs
<1>17. Unique({}, LiveNow \cup B) /\ RowsOf(LiveNow \cup B) = R \cup RowsOf(LiveNow)
  BY <1>12, <1>16, UniqueBatch
<1>18. Unique(HeapOf(ws), LiveOf(ws)) /\ StoredBy(ws) = R \cup RowsOf(LiveNow)
  BY ZenonT(30), <1>14, <1>15, <1>17 DEF StoredBy
<1>19. /\ add'[s] = {} /\ rem'[s] = {} /\ stmts[s] = MaxStmts
       /\ \A t \in Others(s) : add'[t] = add[t] /\ rem'[t] = rem[t]
  BY ZenonT(30), <1>1, <1>3 DEF HasRead
<1>20. ~MayWrite(s)' /\ lock'[s] = "AE"
  <2>1. pc'[s] = "open" /\ stmts'[s] = MaxStmts /\ lock'[s] = "AE"
    BY ZenonT(30), <1>1, <1>5, <1>19, StatementMoves
  <2> QED
    BY <2>1, SessionAssumption DEF MayWrite
<1>21. e \/ MayWrite(s)' => StoredBy(ws) = (Stored \ rem'[s]) \cup add'[s]
  BY ZenonT(30), <1>4, <1>18, <1>19, <1>20 DEF Stored
<1> QED
  BY ZenonT(30), <1>1, <1>5, <1>6, <1>18, <1>19, <1>20, <1>21, ExclusiveRows

\* A decompression keeps RowInv: every live row goes back to the heap, once.
LEMMA DecompressRows ==
  ASSUME NEW e \in BOOLEAN,
         PlainUse, TypeOK, FlagInv, RowInv(e), NEW s \in Sessions, Decompress(s)
  PROVE  RowInv(e)'
<1> DEFINE v == View(s)
           P == {}
           D == SegIds
           d == DecomposeWrites(w[s], v, D, P)
           ws == TruncateTombstones(d)
           c == [CatSeen(s) EXCEPT !.is_compressed = FALSE, !.row_count = 0, !.max_segment_id = 0]
           touch == TRUE
<1>1. /\ pc[s] = "decompress" /\ TakeExclusive(s) /\ EndStatement(s, ws, touch, c)
      /\ UNCHANGED <<add, rem>>
  BY Zenon DEF Decompress
<1>2. /\ add[s] = {} /\ rem[s] = {} /\ w[s] \in WriteSet /\ v \in Db
      /\ v.seg = SegOf(w[s]) /\ v.tomb = TombOf(w[s]) /\ v.seg = seg
      /\ Unique(HeapOf(w[s]), LiveOf(w[s])) /\ StoredBy(w[s]) = Stored
  BY <1>1, MaintenanceStarts
<1>3. /\ P \in SUBSET SegIds /\ PairsIn(LiveOf(w[s]), P) = {}
      /\ D \in SUBSET SegIds /\ touch \in BOOLEAN
  BY ZenonT(30) DEF PairsIn
<1>4. d \in WriteSet
  BY ZenonT(30), <1>2, <1>3, DecomposeWritesType
<1> HIDE DEF P, D, v, touch, c
<1>5. Unique(HeapOf(d), LiveOf(d)) /\ StoredBy(d) = Stored
  BY Zenon, <1>2, <1>3, DecomposeMoves
<1>6. SegOf(d) = NoSegs
  <2>1. SegOf(d) = SegsWithout(SegOf(w[s]), (D \cup P) \cap Segments(v))
    BY ZenonT(30), <1>2, <1>3, DecomposeSegs
  <2>2. \A i \in SegIds : i \notin (D \cup P) \cap Segments(v) => SegOf(w[s])[i] = {}
    BY ZenonT(30), <1>2 DEF Segments, D
  <2> QED
    BY <2>1, <2>2 DEF SegsWithout, NoSegs
<1>7. LiveOf(d) = {}
  BY ZenonT(30), <1>6 DEF LiveOf, Live, NoSegs
<1> HIDE DEF d
<1>8. /\ HeapOf(ws) = HeapOf(d) /\ LiveOf(ws) = LiveOf(d) /\ SegOf(ws) = NoSegs
  BY ZenonT(30), <1>4, <1>6, <1>7, TruncateLive, TruncateTombstonesSegs
<1> HIDE DEF ws
<1>9. Unique(HeapOf(ws), LiveOf(ws)) /\ StoredBy(ws) = Stored
  BY ZenonT(30), <1>5, <1>8 DEF StoredBy
<1> QED
  BY ZenonT(30), <1>1, <1>2, <1>3, <1>8, <1>9, MovedRows

\* A rollback keeps RowInv.
LEMMA AbortRows ==
  ASSUME NEW e \in BOOLEAN, TypeOK, RowInv(e), NEW s \in Sessions, Abort(s)
  PROVE  RowInv(e)'
<1>1. EndTxn(s) /\ UNCHANGED committedVars /\ snap' = [snap EXCEPT ![s] = EmptyDb]
  BY DEF Abort
<1>2. /\ DOMAIN w = Sessions /\ DOMAIN pc = Sessions /\ DOMAIN snap = Sessions
      /\ DOMAIN lock = Sessions /\ DOMAIN add = Sessions /\ DOMAIN rem = Sessions
      /\ DOMAIN stmts = Sessions
  BY DEF TypeOK
<1>3. /\ w'[s] = NoWrites /\ add'[s] = {} /\ rem'[s] = {}
      /\ pc'[s] = "idle" /\ lock'[s] = "none"
  BY <1>1, <1>2 DEF EndTxn
<1>4. \A t \in Others(s) : /\ w'[t] = w[t] /\ add'[t] = add[t] /\ rem'[t] = rem[t]
                           /\ lock'[t] = lock[t] /\ pc'[t] = pc[t] /\ snap'[t] = snap[t]
                           /\ stmts'[t] = stmts[t]
  BY <1>1, <1>2 DEF EndTxn, Others
<1>5. UNCHANGED <<catOwner, pcat>> \/ (catOwner \in {NoSession, s} /\ catOwner' \in {NoSession, s})
  BY ZenonT(30), <1>1 DEF EndTxn
<1>6. OnlyMoves(s)
  BY ZenonT(30), <1>1, <1>4, <1>5 DEF OnlyMoves
<1>7. SessionRows(s, e)'
  BY ZenonT(30), <1>3 DEF SessionRows, DoneNothing
<1> QED
  BY ZenonT(30), <1>3, <1>6, <1>7, StepRows


(***************************************************************************)
(* Commit.                                                                 *)
(***************************************************************************)
\* A session without a table lock counts as a writer that wrote nothing.
LEMMA IdleRowEffect ==
  ASSUME NEW s \in Sessions, DoneNothing(s)
  PROVE  RowEffect(s) /\ w[s].ins = {} /\ w[s].del = {} /\ w[s].tIns = {}
<1>1. w[s] = NoWrites /\ add[s] = {} /\ rem[s] = {}
  BY DEF DoneNothing
<1>2. NoWrites.segNew = NoSegs /\ NoWrites.segDel = {}
  BY ZenonT(30) DEF NoWrites
<1> QED
  BY ZenonT(30), <1>1, <1>2, NoWritesFields DEF RowEffect, RowsOf

\* The state after the commit of s.
LEMMA CommitState ==
  ASSUME TypeOK, NEW s \in Sessions, Commit(s)
  PROVE  /\ pc[s] = "open"
         /\ cat' = OwnCat(s) /\ heap' = HeapOf(w[s]) /\ seg' = SegOf(w[s]) /\ tomb' = TombOf(w[s])
         /\ LiveNow' = LiveOf(w[s]) /\ Stored' = StoredBy(w[s])
         /\ w'[s] = NoWrites /\ add'[s] = {} /\ rem'[s] = {}
         /\ pc'[s] = "idle" /\ lock'[s] = "none"
         /\ \A t \in Others(s) : /\ w'[t] = w[t] /\ add'[t] = add[t] /\ rem'[t] = rem[t]
                                 /\ lock'[t] = lock[t] /\ pc'[t] = pc[t] /\ stmts'[t] = stmts[t]
                                 /\ snap'[t] \in {snap[t], SnapAfter(t, s)}
<1> DEFINE db == Apply(Committed, w[s], OwnCat(s))
<1>1. /\ pc[s] = "open" /\ EndTxn(s)
      /\ cat' = db.cat /\ heap' = db.heap /\ seg' = db.seg /\ tomb' = db.tomb
  BY DEF Commit, OwnCat
<1>2. db.cat = OwnCat(s) /\ db.heap = HeapOf(w[s]) /\ db.tomb = TombOf(w[s]) /\ db.seg = SegOf(w[s])
  BY ApplyFields, ApplySegs
<1> HIDE DEF db
<1>3. LiveNow' = LiveOf(w[s])
  BY ZenonT(30), <1>1, <1>2 DEF LiveNow, LiveOf, Live
<1>4. Stored' = StoredBy(w[s])
  BY <1>1, <1>2, <1>3 DEF Stored, StoredBy, RowsOf
<1>5. /\ DOMAIN w = Sessions /\ DOMAIN pc = Sessions /\ DOMAIN lock = Sessions
      /\ DOMAIN add = Sessions /\ DOMAIN rem = Sessions /\ DOMAIN stmts = Sessions
  BY DEF TypeOK
<1>6. /\ w'[s] = NoWrites /\ add'[s] = {} /\ rem'[s] = {}
      /\ pc'[s] = "idle" /\ lock'[s] = "none"
  BY <1>1, <1>5 DEF EndTxn
<1>7. \A t \in Others(s) : /\ w'[t] = w[t] /\ add'[t] = add[t] /\ rem'[t] = rem[t]
                           /\ lock'[t] = lock[t] /\ pc'[t] = pc[t] /\ stmts'[t] = stmts[t]
  BY ZenonT(30), <1>1, <1>5 DEF EndTxn, Others
<1>8. \A t \in Others(s) : snap'[t] \in {snap[t], SnapAfter(t, s)}
  BY ZenonT(30) DEF Commit, Others
<1> QED
  BY ZenonT(30), <1>1, <1>2, <1>3, <1>4, <1>6, <1>7, <1>8

\* Beside a commit that truncates nothing, snapshots stay.
LEMMA SnapStays ==
  ASSUME TypeOK, NEW s \in Sessions, NEW t \in Sessions, ~w[s].trunc, ~w[s].tTrunc,
         snap'[t] \in {snap[t], SnapAfter(t, s)}
  PROVE  /\ snap'[t].seg = snap[t].seg /\ snap'[t].tomb = snap[t].tomb
         /\ SnapLive(t)' = SnapLive(t)
<1>1. snap[t] \in Db
  BY DEF TypeOK
<1>2. SnapAfter(t, s).seg = snap[t].seg /\ SnapAfter(t, s).tomb = snap[t].tomb
  BY <1>1 DEF SnapAfter, Db
<1>3. snap'[t].seg = snap[t].seg /\ snap'[t].tomb = snap[t].tomb
  BY <1>2
<1> QED
  BY <1>3 DEF SnapLive, Live

\* What another session keeps beside the commit of a writer, or of a session that did nothing.
LEMMA BesideCommit ==
  ASSUME NEW e \in BOOLEAN,
         PlainUse, TypeOK, FlagInv, CountInv, RowInv(e), e => Undisturbed,
         NEW s \in Sessions, Commit(s), lock[s] \in {"none", "RE"}, NEW t \in Others(s)
  PROVE  SessionRows(t, e)' /\ SnapLive(t)' = SnapLive(t)
<1>1. /\ pc[s] = "open"
      /\ cat' = OwnCat(s) /\ heap' = HeapOf(w[s]) /\ seg' = SegOf(w[s]) /\ tomb' = TombOf(w[s])
      /\ LiveNow' = LiveOf(w[s])
      /\ w'[t] = w[t] /\ add'[t] = add[t] /\ rem'[t] = rem[t]
      /\ lock'[t] = lock[t] /\ pc'[t] = pc[t] /\ stmts'[t] = stmts[t]
      /\ snap'[t] \in {snap[t], SnapAfter(t, s)}
  BY CommitState
<1>2. t \in Sessions /\ t # s /\ lock[t] \in {"none", "AS", "RE", "AE"}
  BY DEF Others, TypeOK
<1>3. SessionRows(s, e) /\ SessionRows(t, e) /\ PairRows(s, t) /\ PairRows(t, s)
  BY ZenonT(30), <1>2 DEF RowInv
<1>4. RowEffect(s)
  BY ZenonT(30), <1>3, IdleRowEffect DEF SessionRows
<1>5. /\ heap' = (heap \ w[s].del) \cup w[s].ins /\ seg' = seg
      /\ tomb' = tomb \cup w[s].tIns /\ LiveNow' = LiveNow \ w[s].tIns
  BY <1>1, <1>4, RowEffectViews
<1>6. /\ snap'[t].seg = snap[t].seg /\ snap'[t].tomb = snap[t].tomb
      /\ SnapLive(t)' = SnapLive(t)
  BY Zenon, <1>1, <1>2, <1>4, SnapStays DEF RowEffect
<1>7. lock[s] = "none" => w[s].ins = {} /\ w[s].del = {}
  BY ZenonT(30), <1>3, IdleRowEffect DEF SessionRows
<1>8. lock'[t] = "none" => DoneNothing(t)'
  BY ZenonT(30), <1>1, <1>3 DEF SessionRows, DoneNothing
<1>9. lock'[t] = "AS" => HasRead(t, e)'
  <2> SUFFICES ASSUME lock[t] = "AS" PROVE HasRead(t, e)'
    BY Zenon, <1>1
  <2>1. HasRead(t, e) /\ pc[t] = "compress_finish"
    BY ZenonT(30), <1>3 DEF SessionRows, HasRead
  <2>2. e => lock[s] = "none"
    BY <1>2, <2>1 DEF Undisturbed
  <2>3. e => heap' = heap
    BY ZenonT(30), <1>5, <1>7, <2>2
  <2> QED
    BY ZenonT(30), <1>1, <2>1, <2>3 DEF HasRead
<1>10. lock'[t] = "AE" => TableEffect(t, e)'
  <2> SUFFICES ASSUME lock[t] = "AE" PROVE TableEffect(t, e)'
    BY Zenon, <1>1
  <2>1. TableEffect(t, e) /\ lock[s] = "none"
    BY Zenon, <1>2, <1>3 DEF SessionRows, FlagInv, LockDiscipline, Others
  <2>2. DoneNothing(s) /\ catOwner # s
    BY ZenonT(30), <1>3, <2>1 DEF SessionRows, FlagInv, LockDiscipline
  <2>3. heap' = heap /\ seg' = seg /\ tomb' = tomb /\ cat' = cat
    BY Zenon, <1>1, <2>2, NoWritesViews DEF DoneNothing, OwnCat
  <2>4. catOwner' = catOwner /\ pcat' = pcat
    BY Zenon, <2>2 DEF Commit, EndTxn
  <2>5. OwnCat(t)' = OwnCat(t)
    BY <2>3, <2>4 DEF OwnCat
  <2>6. /\ HeapOf(w[t])' = HeapOf(w[t]) /\ SegOf(w[t])' = SegOf(w[t])
        /\ TombOf(w[t])' = TombOf(w[t]) /\ LiveNow' = LiveNow
    BY ZenonT(30), <1>1, <2>3 DEF HeapOf, SegOf, TombOf, LiveNow, Live
  <2>7. /\ LiveOf(w[t])' = LiveOf(w[t]) /\ StoredBy(w[t])' = StoredBy(w[t]) /\ Stored' = Stored
    BY <2>3, <2>6 DEF LiveOf, StoredBy, Stored, RowsOf, Live
  <2>8. MayWrite(t)' = MayWrite(t) /\ rem'[t] = rem[t] /\ add'[t] = add[t]
    BY ZenonT(30), <1>1 DEF MayWrite
  <2> QED
    BY ZenonT(30), <2>1, <2>5, <2>6, <2>7, <2>8 DEF TableEffect
<1>11. lock'[t] = "RE" => RowEffect(t)'
  <2> SUFFICES ASSUME lock[t] = "RE" PROVE RowEffect(t)'
    BY ZenonT(30), <1>1
  <2>1. RowEffect(t)
    BY ZenonT(30), <1>3 DEF SessionRows
  <2>2. \A q \in w[s].ins, r \in w[t].ins : q[1] # r[1]
    BY ZenonT(30), <1>2, <1>3, <1>7 DEF PairRows, Apart
  <2>3. w[s].tIns = {} \/ w[t].tIns = {}
    BY ZenonT(30), <1>2 DEF CountInv, Unowned, NoSegmentWrites
  <2>4. w[t].tIns \subseteq LiveNow'
    BY ZenonT(30), <1>5, <2>1, <2>3 DEF RowEffect
  <2>5. \A q \in w[t].ins, r \in heap' : q[1] = r[1] => r \in w[t].del
    BY ZenonT(30), <1>5, <2>1, <2>2 DEF RowEffect
  <2>6. \A q \in w[t].ins \cup w[t].del, p \in LiveNow' : q[1] # p[2][1]
    BY <1>5, <2>1 DEF RowEffect
  <2> QED
    BY Zenon, <1>1, <2>1, <2>4, <2>5, <2>6 DEF RowEffect, RowsOf
<1>12. pc'[t] \in {"insert", "delete", "update"} => SnapHolds(t)'
  <2> SUFFICES ASSUME pc[t] \in {"insert", "delete", "update"} PROVE SnapHolds(t)'
    BY ZenonT(30), <1>1
  <2>1. SnapHolds(t) /\ (lock[s] = "RE" => SnapApart(t, s))
    BY ZenonT(30), <1>3 DEF SessionRows, PairRows
  <2>2. \A p \in SnapLive(t)', r \in heap' : p[2][1] # r[1]
    BY <1>5, <1>6, <1>7, <2>1 DEF SnapHolds, SnapApart
  <2>3. lock[t] = "AE" => /\ w[s].ins = {} /\ w[s].del = {} /\ w[s].tIns = {}
                          /\ ~w[s].trunc
    <3> SUFFICES ASSUME lock[t] = "AE" PROVE DoneNothing(s)
      BY Zenon, IdleRowEffect DEF RowEffect
    <3> QED
      BY Zenon, <1>2, <1>3 DEF SessionRows, FlagInv, LockDiscipline, Others
  <2>4. lock[t] = "AE" => snap'[t].heap = snap[t].heap
    <3>1. snap[t] \in Db
      BY <1>2 DEF TypeOK
    <3>2. ~w[s].trunc => SnapAfter(t, s).heap = snap[t].heap
      BY <3>1 DEF SnapAfter, Db
    <3> QED
      BY ZenonT(30), <1>1, <2>3, <3>2
  <2>5. snap'[t].seg = seg' /\ snap'[t].tomb \subseteq tomb'
    BY Zenon, <1>5, <1>6, <2>1 DEF SnapHolds
  <2>6. lock'[t] = "AE" => snap'[t].tomb = tomb' /\ snap'[t].heap = heap'
    BY Zenon, <1>1, <1>5, <1>6, <2>1, <2>3, <2>4 DEF SnapHolds
  <2> QED
    BY ZenonT(30), <2>2, <2>5, <2>6 DEF SnapHolds
<1> QED
  BY ZenonT(30), <1>1, <1>3, <1>6, <1>8, <1>9, <1>10, <1>11, <1>12 DEF SessionRows

\* A commit keeps RowInv: a maintenance function commits alone, a writer beside others whose
\* writes are apart from its own.
LEMMA CommitRows ==
  ASSUME NEW e \in BOOLEAN,
         PlainUse, TypeOK, FlagInv, CountInv, RowInv(e), e => Undisturbed,
         NEW s \in Sessions, Commit(s)
  PROVE  RowInv(e)'
<1>1. /\ pc[s] = "open"
      /\ cat' = OwnCat(s) /\ heap' = HeapOf(w[s]) /\ seg' = SegOf(w[s])
      /\ LiveNow' = LiveOf(w[s])
      /\ w'[s] = NoWrites /\ add'[s] = {} /\ rem'[s] = {}
      /\ pc'[s] = "idle" /\ lock'[s] = "none"
      /\ \A t \in Others(s) : /\ w'[t] = w[t] /\ add'[t] = add[t] /\ rem'[t] = rem[t]
                              /\ lock'[t] = lock[t] /\ pc'[t] = pc[t] /\ stmts'[t] = stmts[t]
  BY ZenonT(30), CommitState
<1>2. TableEffect(s, e)
  BY Zenon, <1>1, OwnTableEffect
<1>3. Unique(heap, LiveNow)' /\ (~cat.is_compressed => seg = NoSegs)'
  BY Zenon, <1>1, <1>2 DEF TableEffect, Unique
<1>4. SessionRows(s, e)'
  BY Zenon, <1>1 DEF SessionRows, DoneNothing
<1>5. lock[s] \in {"none", "RE", "AE"}
  BY Zenon, <1>1 DEF TypeOK, RowInv, SessionRows, HasRead
<1>6. ASSUME lock[s] = "AE", NEW t \in Others(s)
      PROVE  lock'[t] = "none" /\ pc'[t] \notin {"insert", "delete", "update"} /\ SessionRows(t, e)'
  <2>1. t \in Sessions /\ lock[t] = "none" /\ lock'[t] = "none" /\ pc'[t] = pc[t]
    BY ZenonT(30), <1>1, <1>6 DEF FlagInv, LockDiscipline, Others
  <2>2. DoneNothing(t) /\ pc[t] \notin {"insert", "delete", "update"}
    BY ZenonT(30), <2>1 DEF RowInv, SessionRows, FlagInv, StepDiscipline
  <2>3. DoneNothing(t)'
    BY <1>1, <2>2 DEF DoneNothing
  <2>4. pc'[t] = "compress" => stmts'[t] = MaxStmts
    BY Zenon, <1>1, <2>1 DEF RowInv, SessionRows
  <2> QED
    BY Zenon, <2>1, <2>2, <2>3, <2>4 DEF SessionRows
<1>7. \A t \in Others(s) : SessionRows(t, e)'
  BY <1>5, <1>6, BesideCommit
<1>8. \A t \in Sessions : SessionRows(t, e)'
  BY <1>4, <1>7 DEF Others
<1>9. ASSUME NEW t \in Sessions, NEW u \in Sessions PROVE PairRows(t, u)'
  <2>1. CASE t = s \/ u = s
    BY ZenonT(30), <1>1, <2>1 DEF PairRows
  <2>2. CASE t # s /\ u # s /\ lock[s] = "AE"
    BY <1>6, <2>2 DEF PairRows, Others
  <2>3. CASE t # s /\ u # s /\ lock[s] # "AE"
    <3>1. t \in Others(s) /\ u \in Others(s)
      BY <2>3 DEF Others
    <3>2. SnapLive(t)' = SnapLive(t)
      BY ZenonT(30), <1>5, <2>3, <3>1, BesideCommit
    <3>3. /\ w'[t] = w[t] /\ lock'[t] = lock[t] /\ pc'[t] = pc[t]
          /\ w'[u] = w[u] /\ lock'[u] = lock[u] /\ PairRows(t, u)
      BY ZenonT(30), <1>1, <3>1 DEF RowInv
    <3> QED
      BY Zenon, <3>2, <3>3 DEF PairRows, Apart, SnapApart
  <2> QED
    BY ZenonT(30), <2>1, <2>2, <2>3
<1> QED
  BY ZenonT(30), <1>3, <1>8, <1>9 DEF RowInv

(***************************************************************************)
(* DELETE and UPDATE.                                                      *)
(***************************************************************************)
\* The rows a statement is about (on the left) are the heap rows it finds once the hook has
\* run, and the rows the hook tombstoned or dropped. OH and OL: the session's heap rows and
\* live pairs; SH and SL: what its statement snapshot shows of them.
SplitOf(OH, OL, SL, K, N, P, M) ==
  /\ OL \subseteq SL /\ N \subseteq OL /\ P \subseteq OL /\ M \subseteq OL
  /\ \A p \in SL, r \in OH : p[2][1] # r[1]
  /\ \A p \in OL : p[2][1] \in K => p \in N \cup P \cup M
  /\ \A p \in N \cup P : p[2][1] \in K

TargetsAgree(OH, OL, SH, SL, K, N, P, M) ==
  Matching(OH \cup RowsOf(OL), KeysOf(Matching(SH \cup RowsOf(SL), K))) =
    Matching(OH \cup RowsOf(M), KeysOf(Matching(SH \cup RowsOf(M), K))) \cup RowsOf(N \cup P)

\* The rows the statement removes from the heap and the live pairs are those the table loses.
LEMMA TargetsSplit ==
  ASSUME NEW OH, NEW OL, NEW SH, NEW SL, NEW K, NEW N, NEW P, NEW M,
         SplitOf(OH, OL, SL, K, N, P, M)
  PROVE  TargetsAgree(OH, OL, SH, SL, K, N, P, M)
<1> DEFINE sl == KeysOf(Matching(SH \cup RowsOf(SL), K))
           sh == KeysOf(Matching(SH \cup RowsOf(M), K))
           X == Matching(OH \cup RowsOf(OL), sl)
           Y == Matching(OH \cup RowsOf(M), sh)
<1>1. \A k : k \in sl <=> k \in K /\ ((\E r \in SH : r[1] = k) \/ (\E p \in SL : p[2][1] = k))
  BY DEF KeysOf, Matching, RowsOf
<1>2. \A k : k \in sh <=> k \in K /\ ((\E r \in SH : r[1] = k) \/ (\E p \in M : p[2][1] = k))
  BY DEF KeysOf, Matching, RowsOf
<1>3. \A x : x \in X <=> x[1] \in sl /\ (x \in OH \/ \E p \in OL : p[2] = x)
  BY ZenonT(30) DEF Matching, RowsOf
<1>4. \A x : x \in Y <=> x[1] \in sh /\ (x \in OH \/ \E p \in M : p[2] = x)
  BY DEF Matching, RowsOf
<1>5. \A x : x \in RowsOf(N \cup P) <=> \E p \in N \cup P : p[2] = x
  BY DEF RowsOf
<1> HIDE DEF sl, sh, X, Y
<1> USE DEF SplitOf
<1>6. ASSUME NEW x \in X PROVE x \in Y \cup RowsOf(N \cup P)
  <2>1. x[1] \in K /\ ((\E r \in SH : r[1] = x[1]) \/ (\E p \in SL : p[2][1] = x[1]))
    BY <1>1, <1>3
  <2>2. CASE x \in OH
    <3>1. \E r \in SH : r[1] = x[1]
      BY <2>1, <2>2
    <3> QED
      BY ZenonT(30), <1>2, <1>4, <2>1, <2>2, <3>1
  <2>3. ASSUME NEW p \in OL, p[2] = x PROVE x \in Y \cup RowsOf(N \cup P)
    <3>1. p \in N \cup P \cup M
      BY ZenonT(30), <2>1, <2>3
    <3>2. CASE p \in M
      BY ZenonT(30), <1>2, <1>4, <2>1, <2>3, <3>2
    <3> QED
      BY Zenon, <1>5, <2>3, <3>1, <3>2
  <2> QED
    BY Zenon, <1>3, <2>2, <2>3
<1>7. ASSUME NEW x \in Y PROVE x \in X
  BY <1>1, <1>2, <1>3, <1>4, <1>7
<1>8. ASSUME NEW x \in RowsOf(N \cup P) PROVE x \in X
  BY Zenon, <1>1, <1>3, <1>5, <1>8
<1>9. X = Y \cup RowsOf(N \cup P)
  BY Zenon, <1>6, <1>7, <1>8
<1> QED
  BY Zenon, <1>9 DEF X, Y, sl, sh, TargetsAgree

\* What the statement's own scan sees: the segments of the session, with no more
\* tombstones, and none of the keys in the session's heap.
StmtLive(s) == LivePairs(StmtView(s), SegIds)

\* What the snapshot of a DELETE or UPDATE still says of the present: the segments are those
\* of now, and a pair that was live then is in no heap now.
LEMMA StmtFacts ==
  ASSUME NEW e \in BOOLEAN,
         TypeOK, FlagInv, RowInv(e), NEW s \in Sessions, pc[s] \in {"delete", "update"}
  PROVE  /\ StmtView(s).seg = SegOf(w[s])
         /\ LiveOf(w[s]) \subseteq StmtLive(s)
         /\ StmtLive(s) \subseteq SegIds \X Row
         /\ \A p \in StmtLive(s) : p[2] \in SegOf(w[s])[p[1]]
         /\ \A p \in StmtLive(s), r \in HeapOf(w[s]) : p[2][1] # r[1]
<1> DEFINE v == StmtView(s)
<1>1. /\ v.seg = [i \in SegIds |-> IF i \in w[s].segDel THEN {}
                                   ELSE IF w[s].segNew[i] # {} THEN w[s].segNew[i]
                                   ELSE snap[s].seg[i]]
      /\ v.tomb = ((IF w[s].tTrunc THEN {} ELSE snap[s].tomb) \ w[s].tDel) \cup w[s].tIns
  BY Zenon DEF StmtView, Apply
<1>2. lock[s] \in {"RE", "AE"}
  BY Zenon DEF FlagInv, StepDiscipline
<1>3. SnapHolds(s) /\ SessionRows(s, e) /\ PairRows(s, s)
  BY Zenon DEF RowInv, SessionRows
<1>4. v.seg = SegOf(w[s])
  BY ZenonT(30), <1>1, <1>3 DEF SnapHolds, SegOf
<1>5. v.tomb \subseteq TombOf(w[s])
  BY ZenonT(30), <1>1, <1>3 DEF SnapHolds, TombOf
<1>6. StmtLive(s) = Live(SegOf(w[s]), v.tomb)
  BY <1>4 DEF StmtLive, LivePairs, Live
<1> HIDE DEF v
<1>7. LiveOf(w[s]) \subseteq StmtLive(s)
  BY ZenonT(30), <1>5, <1>6 DEF LiveOf, Live
<1>8. ASSUME lock[s] = "RE"
      PROVE  \A p \in StmtLive(s), r \in HeapOf(w[s]) : p[2][1] # r[1]
  <2>1. RowEffect(s) /\ SnapApart(s, s)
    BY <1>3, <1>8 DEF SessionRows, PairRows
  <2>2. HeapOf(w[s]) = (heap \ w[s].del) \cup w[s].ins /\ SegOf(w[s]) = seg
    BY ZenonT(30), <2>1, RowEffectViews
  <2>3. snap[s].tomb \subseteq v.tomb
    BY ZenonT(30), <1>1, <2>1 DEF RowEffect, v
  <2>4. StmtLive(s) \subseteq SnapLive(s)
    BY ZenonT(30), <1>3, <1>6, <2>2, <2>3 DEF SnapHolds, SnapLive, Live
  <2> QED
    BY ZenonT(30), <1>3, <2>1, <2>2, <2>4 DEF SnapHolds, SnapApart
<1>9. ASSUME lock[s] = "AE"
      PROVE  \A p \in StmtLive(s), r \in HeapOf(w[s]) : p[2][1] # r[1]
  <2>1. TableEffect(s, e) /\ snap[s].tomb = tomb
    BY ZenonT(30), <1>3, <1>9 DEF SessionRows, SnapHolds
  <2>2. v.tomb = TombOf(w[s])
    BY <1>1, <2>1 DEF TombOf, v
  <2>3. StmtLive(s) = LiveOf(w[s])
    BY Zenon, <1>6, <2>2 DEF LiveOf
  <2> QED
    BY <2>1, <2>3 DEF TableEffect, Unique
<1>10. StmtLive(s) \subseteq SegIds \X Row /\ \A p \in StmtLive(s) : p[2] \in SegOf(w[s])[p[1]]
  BY ZenonT(30), <1>6 DEF Live
<1>11. \A p \in StmtLive(s), r \in HeapOf(w[s]) : p[2][1] # r[1]
  BY <1>2, <1>8, <1>9
<1> QED
  BY <1>4, <1>7, <1>10, <1>11 DEF v

\* The live pairs the hook tombstones, drops and moves to the heap.
Hidden(s, T, K) == {p \in LiveOf(w[s]) : p[1] \in T /\ p[2][1] \in K}
Dropped(s, P) == PairsIn(LiveOf(w[s]), P)
Moved(s, D) == PairsIn(LiveOf(w[s]), D)

HookDoes(s, P, T, D, K) ==
  LET ws == HookWrites(s, P, T, D, K)
      N == Hidden(s, T, K)
  IN  /\ NewTombstones(View(s), T, K) = N
      /\ HeapOf(ws) = HeapOf(w[s]) \cup RowsOf(Moved(s, D))
      /\ LiveOf(ws) = LiveOf(w[s]) \ (N \cup Dropped(s, P) \cup Moved(s, D))
      /\ ws.ins = w[s].ins \cup RowsOf(Moved(s, D))
      /\ ws.del = w[s].del /\ ws.trunc = w[s].trunc
      /\ P \cup D = {} => ws = InsertTombstones(w[s], N)

\* What the write set of deltax_executor_start holds, for any split of the segments.
LEMMA HookEffect ==
  ASSUME PlainUse, TypeOK, NEW s \in Sessions, NEW P \in SUBSET SegIds,
         NEW T \in SUBSET SegIds, NEW D \in SUBSET SegIds, NEW K, Disjoint(T, D)
  PROVE  HookDoes(s, P, T, D, K)
<1> DEFINE ws == HookWrites(s, P, T, D, K)
           N == Hidden(s, T, K)
           OL == LiveOf(w[s])
           w1 == InsertTombstones(w[s], N)
           v1 == Apply(Base(s), w1, CatSeen(s))
<1>1. w[s] \in WriteSet /\ CatSeen(s) \in CatalogRow /\ Base(s) = Committed /\ Base(s) \in Db
  BY ZenonT(30), ViewTypes, ReadCommittedView
<1>2. NewTombstones(View(s), T, K) = N
  <2>1. View(s).seg = SegOf(w[s]) /\ View(s).tomb = TombOf(w[s])
    BY ZenonT(30), ReadCommittedSegs
  <2> QED
    BY <2>1 DEF NewTombstones, Hidden, LiveOf, Live
<1>3. ws = IF P \cup D = {} THEN w1 ELSE DecomposeWrites(w1, v1, D, P)
  BY <1>2 DEF HookWrites
<1>4. N \in SUBSET Tombstone /\ w1 \in WriteSet
  <2>1. N \in SUBSET Tombstone
    <3>1. NewTombstones(View(s), T, K) \in SUBSET Tombstone
      BY HookWritesType
    <3> QED
      BY <1>2, <3>1
  <2>2. {} \in SUBSET Row
    OBVIOUS
  <2> QED
    BY Zenon, <1>1, <2>1, <2>2, WriteOpsType
<1>5. v1 \in Db /\ v1.seg = SegOf(w1) /\ v1.tomb = TombOf(w1)
  BY ZenonT(30), <1>1, <1>4, ApplyType, ApplySegs
<1>6. /\ HeapOf(w1) = HeapOf(w[s]) /\ LiveOf(w1) = OL \ N
      /\ w1.ins = w[s].ins /\ w1.del = w[s].del /\ w1.trunc = w[s].trunc
  <2>1. w1.ins = w[s].ins /\ w1.del = w[s].del /\ w1.trunc = w[s].trunc
    BY ZenonT(30), <1>1 DEF InsertTombstones, WriteSet
  <2> QED
    BY <1>1, <2>1, TombstonesLive
<1> HIDE DEF ws, N, OL, w1, v1
<1>7. PairsIn(OL \ N, D) = Moved(s, D)
  BY DEF PairsIn, Moved, N, Hidden, OL, Disjoint
<1>8. (OL \ N) \ PairsIn(OL \ N, D \cup P) = OL \ (N \cup Dropped(s, P) \cup Moved(s, D))
  BY DEF PairsIn, Moved, Dropped, OL
<1>9. CASE P \cup D = {}
  <2>1. ws = w1
    BY ZenonT(30), <1>3, <1>9
  <2>2. Moved(s, D) = {} /\ Dropped(s, P) = {} /\ RowsOf(Moved(s, D)) = {}
    BY <1>9 DEF Moved, Dropped, PairsIn, RowsOf
  <2>3. /\ HeapOf(ws) = HeapOf(w[s]) \cup RowsOf(Moved(s, D))
        /\ LiveOf(ws) = OL \ (N \cup Dropped(s, P) \cup Moved(s, D))
        /\ ws.ins = w[s].ins \cup RowsOf(Moved(s, D))
        /\ ws.del = w[s].del /\ ws.trunc = w[s].trunc
    BY ZenonT(30), <1>6, <2>1, <2>2
  <2> QED
    BY Zenon, <1>2, <2>1, <2>3 DEF ws, w1, N, OL, HookDoes
<1>10. CASE P \cup D # {}
  <2> DEFINE d == DecomposeWrites(w1, v1, D, P)
  <2>1. /\ HeapOf(d) = HeapOf(w1) \cup RowsOf(PairsIn(LiveOf(w1), D))
        /\ LiveOf(d) = LiveOf(w1) \ PairsIn(LiveOf(w1), D \cup P)
    <3>1. DecomposeDoes(d, w1, D, P)
      BY ZenonT(30), <1>4, <1>5, DecomposeLive
    <3> QED
      BY ZenonT(30), <3>1 DEF DecomposeDoes
  <2>2. LiveRows(v1, D) = RowsOf(PairsIn(LiveOf(w1), D))
    <3>1. LivePairs(v1, D) = PairsIn(LiveOf(w1), D)
      BY <1>5 DEF LivePairs, PairsIn, LiveOf, Live
    <3> QED
      BY ZenonT(30), <3>1 DEF LiveRows, RowsOf
  <2>3. LiveRows(v1, D) \in SUBSET Row
    BY ZenonT(30), <1>5, LivePairsType
  <2> DEFINE e == InsertRows(w1, LiveRows(v1, D))
             S == (D \cup P) \cap Segments(v1)
  <2>4. e.ins = w1.ins \cup LiveRows(v1, D) /\ e.del = w1.del /\ e.trunc = w1.trunc
    BY <1>4, InsertRowsFields
  <2>5. e \in WriteSet
    <3>1. {} \in SUBSET Tombstone
      OBVIOUS
    <3> QED
      BY <1>4, <2>3, <3>1, WriteOpsType
  <2>6. d = DeleteSegments(e, v1, S)
    BY DEF DecomposeWrites
  <2> HIDE DEF e, S, d
  <2>7. d.ins = e.ins /\ d.del = e.del /\ d.trunc = e.trunc
    BY <2>5, <2>6 DEF DeleteSegments, WriteSet
  <2>8. ws = d
    BY ZenonT(30), <1>3, <1>10 DEF d
  <2>9. /\ HeapOf(ws) = HeapOf(w[s]) \cup RowsOf(Moved(s, D))
        /\ LiveOf(ws) = OL \ (N \cup Dropped(s, P) \cup Moved(s, D))
        /\ ws.ins = w[s].ins \cup RowsOf(Moved(s, D))
        /\ ws.del = w[s].del /\ ws.trunc = w[s].trunc
    BY ZenonT(30), <1>6, <1>7, <1>8, <2>1, <2>2, <2>4, <2>7, <2>8
  <2> QED
    BY ZenonT(30), <1>2, <1>10, <2>9 DEF ws, N, OL, HookDoes
<1> QED
  BY ZenonT(30), <1>9, <1>10

\* The split of the candidates that the hook works with: every matching live row the
\* statement sees lies in one of the three parts, and what is dropped matches.
IsSplit(s, P, T, D, K) ==
  /\ Disjoint(T, D) /\ Disjoint(P, D)
  /\ \A p \in StmtLive(s) : p[2][1] \in K => p[1] \in P \cup T \cup D
  /\ \A p \in StmtLive(s) : p[1] \in P => p[2][1] \in K

\* What the statement does to rows is what the user asked for.
LEMMA DmlTargets ==
  ASSUME NEW e \in BOOLEAN, PlainUse, TypeOK, FlagInv, RowInv(e), NEW s \in Sessions,
         pc[s] \in {"delete", "update"}, NEW P \in SUBSET SegIds, NEW T \in SUBSET SegIds,
         NEW D \in SUBSET SegIds, NEW K, IsSplit(s, P, T, D, K)
  PROVE  LET old == HeapTargets(s, HookWrites(s, P, T, D, K), K)
         IN  /\ LogicalTargets(s, K) = old \cup RowsOf(Hidden(s, T, K) \cup Dropped(s, P))
             /\ old \subseteq HeapOf(w[s]) \cup RowsOf(Moved(s, D))
<1> DEFINE ws == HookWrites(s, P, T, D, K)
           N == Hidden(s, T, K)
           PP == Dropped(s, P)
           M == Moved(s, D)
           OH == HeapOf(w[s])
           OL == LiveOf(w[s])
           SH == StmtView(s).heap
           SL == StmtLive(s)
<1>1. /\ OL \subseteq SL /\ \A p \in SL, r \in OH : p[2][1] # r[1]
  BY ZenonT(30), StmtFacts
<1>2. N \in SUBSET OL /\ PP \in SUBSET OL /\ M \in SUBSET OL
  BY ZenonT(30) DEF Hidden, Dropped, Moved, PairsIn
<1>3. \A p \in OL : p[2][1] \in K => p \in N \cup PP \cup M
  BY <1>1 DEF IsSplit, Hidden, Dropped, Moved, PairsIn
<1>4. \A p \in N \cup PP : p[2][1] \in K
  BY ZenonT(30), <1>1 DEF IsSplit, Hidden, Dropped, PairsIn
<1>5. /\ HeapOf(ws) = OH \cup RowsOf(M) /\ ws.ins = w[s].ins \cup RowsOf(M)
      /\ ws.del = w[s].del /\ ws.trunc = w[s].trunc
  <2>1. Disjoint(T, D)
    BY DEF IsSplit
  <2>2. HookDoes(s, P, T, D, K)
    BY <2>1, HookEffect
  <2> QED
    BY ZenonT(30), <2>2 DEF HookDoes
<1>6. Content(StmtView(s)) = SH \cup RowsOf(SL)
  BY ZenonT(30) DEF Content, LiveRows, StmtLive, RowsOf
<1>7. Content(Apply(Committed, w[s], cat)) = OH \cup RowsOf(OL)
  <2>1. /\ Apply(Committed, w[s], cat).heap = OH /\ Apply(Committed, w[s], cat).seg = SegOf(w[s])
        /\ Apply(Committed, w[s], cat).tomb = TombOf(w[s])
    BY ZenonT(30), ApplyFields, ApplySegs
  <2>2. LivePairs(Apply(Committed, w[s], cat), SegIds) = OL
    BY ZenonT(30), <2>1 DEF LivePairs, LiveOf, Live
  <2> QED
    BY ZenonT(30), <2>1, <2>2 DEF Content, LiveRows, RowsOf
<1>8. LogicalTargets(s, K) = Matching(OH \cup RowsOf(OL), KeysOf(Matching(SH \cup RowsOf(SL), K)))
  BY ZenonT(30), <1>6, <1>7 DEF LogicalTargets
<1>9. SH = ((IF w[s].trunc THEN {} ELSE snap[s].heap) \ w[s].del) \cup w[s].ins
  BY ZenonT(30) DEF StmtView, Apply
<1>10. Apply(snap[s], ws, cat).heap = ((IF ws.trunc THEN {} ELSE snap[s].heap) \ ws.del) \cup ws.ins
  BY ZenonT(30) DEF Apply
<1>11. Apply(Committed, ws, cat).heap = HeapOf(ws)
  BY ApplyFields
<1> HIDE DEF ws, N, PP, M, OH, OL, SH, SL
<1>12. Apply(snap[s], ws, cat).heap = SH \cup RowsOf(M)
  BY ZenonT(30), <1>5, <1>9, <1>10
<1>13. HeapTargets(s, ws, K) = Matching(OH \cup RowsOf(M), KeysOf(Matching(SH \cup RowsOf(M), K)))
  BY ZenonT(30), <1>5, <1>11, <1>12 DEF HeapTargets
<1>14. Matching(OH \cup RowsOf(OL), KeysOf(Matching(SH \cup RowsOf(SL), K))) =
         Matching(OH \cup RowsOf(M), KeysOf(Matching(SH \cup RowsOf(M), K))) \cup RowsOf(N \cup PP)
  <2>1. SplitOf(OH, OL, SL, K, N, PP, M)
    BY ZenonT(30), <1>1, <1>2, <1>3, <1>4 DEF SplitOf
  <2>2. TargetsAgree(OH, OL, SH, SL, K, N, PP, M)
    BY <2>1, TargetsSplit
  <2> QED
    BY Zenon, <2>2 DEF TargetsAgree
<1>15. LogicalTargets(s, K) = HeapTargets(s, ws, K) \cup RowsOf(N \cup PP)
  BY Zenon, <1>8, <1>13, <1>14
<1>16. HeapTargets(s, ws, K) \subseteq OH \cup RowsOf(M)
  BY <1>13 DEF Matching
<1> QED
  BY ZenonT(30), <1>15, <1>16 DEF ws, N, PP, M, OH

\* The statement with the exclusive lock, from the heap h and live pairs L to h1 and L1.
DmlMoves(h, L, N, P, M, O, V, h1, L1) ==
  /\ Unique(h, L) /\ N \subseteq L /\ P \subseteq L /\ M \subseteq L
  /\ Disjoint(M, N \cup P) /\ O \subseteq h \cup RowsOf(M)
  /\ \A u, v \in V : u = v
  /\ h1 = ((h \cup RowsOf(M)) \ O) \cup Rewritten(O, V)
  /\ L1 = L \ (N \cup P \cup M)

DmlEnds(h, L, N, P, O, V, h1, L1) ==
  /\ Unique(h1, L1)
  /\ h1 \cup RowsOf(L1) = ((h \cup RowsOf(L)) \ (O \cup RowsOf(N \cup P))) \cup Rewritten(O, V)

\* Moved so, each key stays stored once and the rows are rewritten as the table's are.
LEMMA DmlOnTable ==
  ASSUME NEW h, NEW L, NEW N, NEW P, NEW M, NEW O, NEW V, NEW h1, NEW L1,
         DmlMoves(h, L, N, P, M, O, V, h1, L1)
  PROVE  DmlEnds(h, L, N, P, O, V, h1, L1)
<1> USE DEF DmlMoves
<1>1. Unique(h \cup RowsOf(M), L \ M)
  BY UniqueMove
<1>2. Unique(h1, L \ M)
  BY <1>1, UniqueRewrite
<1>3. L1 \in SUBSET (L \ M) /\ h1 \in SUBSET h1
  OBVIOUS
<1>4. Unique(h1, L1)
  BY <1>2, <1>3, UniquePart
<1> DEFINE W == Rewritten(O, V)
<1> HIDE DEF W
<1>5. DmlLeaves(h, L, N, P, M, O, W)
  BY ZenonT(30), DmlContent
<1>6. h1 \cup RowsOf(L1) = ((h \cup RowsOf(L)) \ (O \cup RowsOf(N \cup P))) \cup Rewritten(O, V)
  BY ZenonT(30), <1>5 DEF W, DmlLeaves
<1> QED
  BY <1>4, <1>6 DEF DmlEnds

\* A writer's inserted rows I and deleted rows X, by key.
OwnKeys(I, X) ==
  /\ \A q, r \in I : q[1] = r[1] => q = r
  /\ \A q \in I, r \in heap : q[1] = r[1] => r \in X
  /\ \A q \in I \cup X, p \in LiveNow : q[1] # p[2][1]

\* The hook does not touch is_compressed.
LEMMA HookCompressed ==
  ASSUME PlainUse, TypeOK, NEW s \in Sessions,
         NEW P \in SUBSET SegIds, NEW T \in SUBSET SegIds, NEW D \in SUBSET SegIds, NEW K
  PROVE  HookCatalog(s, P, T, D, K).is_compressed = OwnCat(s).is_compressed
<1> DEFINE new == NewTombstones(View(s), T, K)
           c1 == TombstoneCatalog(OwnCat(s), new)
           n == FlooredSub(OwnCat(s).row_count, Cardinality(new))
<1>1. OwnCat(s) \in CatalogRow /\ CatSeen(s) = OwnCat(s)
  BY ReadCommittedView
<1>2. c1 = IF new = {} THEN OwnCat(s)
           ELSE [OwnCat(s) EXCEPT !.row_count = n, !.has_tombstones = TRUE]
  BY ZenonT(30) DEF TombstoneCatalog
<1>3. HookCatalog(s, P, T, D, K)
        = IF P \cup D = {} THEN c1
          ELSE DecomposeCatalog(c1, Apply(Base(s), InsertTombstones(w[s], new), c1), D, P)
  BY <1>1 DEF HookCatalog
<1> HIDE DEF new, n, c1
<1>4. "is_compressed" \in DOMAIN c1 /\ c1.is_compressed = OwnCat(s).is_compressed
  BY Zenon, <1>1, <1>2 DEF CatalogRow
<1>5. ASSUME NEW v PROVE DecomposeCatalog(c1, v, D, P).is_compressed = c1.is_compressed
  BY Zenon, <1>4 DEF DecomposeCatalog
<1> QED
  BY Zenon, <1>3, <1>4, <1>5

\* Rewriting heap rows of its own view keeps a writer's keys in order.
LEMMA RewriteKeys ==
  ASSUME TypeOK, NEW s \in Sessions, RowEffect(s), Unique(heap, LiveNow),
         NEW O, O \subseteq HeapOf(w[s]), NEW V, \A u, v \in V : u = v
  PROVE  OwnKeys((w[s].ins \ O) \cup Rewritten(O, V), w[s].del \cup O)
<1> DEFINE I == w[s].ins
           X == w[s].del
           W == Rewritten(O, V)
           h == HeapOf(w[s])
<1>1. OwnKeys(I, X)
  BY ZenonT(30) DEF RowEffect, OwnKeys
<1>2. h = (heap \ X) \cup I
  BY ZenonT(30), RowEffectViews
<1>3. Unique(h, LiveOf(w[s]))
  BY ZenonT(30), RowEffectOnTable
<1>4. Unique((h \ O) \cup W, LiveOf(w[s]))
  <2>1. O \in SUBSET h
    BY Zenon
  <2> HIDE DEF h
  <2> QED
    BY <1>3, <2>1, UniqueRewrite DEF W
<1>5. \A q \in W : \E o \in O : o[1] = q[1]
  BY ZenonT(30), RewrittenKeys
<1> HIDE DEF I, X, W, h
<1>6. \A q, r \in (h \ O) \cup W : q[1] = r[1] => q = r
  BY ZenonT(30), <1>4 DEF Unique
<1>7. \A q, r \in h : q[1] = r[1] => q = r
  BY <1>3 DEF Unique
<1>8. \A q, r \in (I \ O) \cup W : q[1] = r[1] => q = r
  BY <1>2, <1>6
<1>9. ASSUME NEW q \in (I \ O) \cup W, NEW r \in heap, q[1] = r[1] PROVE r \in X \cup O
  <2>1. CASE q \in I
    BY ZenonT(30), <1>1, <1>9, <2>1 DEF OwnKeys
  <2>2. CASE q \in W
    <3>1. PICK o \in O : o[1] = q[1]
      BY <1>5, <2>2
    <3>2. o \in h
      BY ZenonT(30) DEF h
    <3> QED
      BY ZenonT(30), <1>2, <1>7, <1>9, <3>1, <3>2
  <2> QED
    BY ZenonT(30), <2>1, <2>2
<1>10. \A o \in h, p \in LiveNow : o[1] # p[2][1]
  BY ZenonT(30), <1>1, <1>2 DEF OwnKeys, Unique
<1>11. \A q \in I \cup X, p \in LiveNow : q[1] # p[2][1]
  BY <1>1 DEF OwnKeys
<1>12. \A o \in O : o \in h
  BY DEF h
<1>13. \A q \in ((I \ O) \cup W) \cup (X \cup O), p \in LiveNow : q[1] # p[2][1]
  <2>1. \A o \in O, p \in LiveNow : o[1] # p[2][1]
    BY ZenonT(30), <1>10, <1>12
  <2>2. ASSUME NEW q \in W, NEW p \in LiveNow PROVE q[1] # p[2][1]
    <3>1. PICK o \in O : o[1] = q[1]
      BY ZenonT(30), <1>5
    <3>2. o[1] # p[2][1]
      BY ZenonT(30), <2>1
    <3> QED
      BY ZenonT(30), <3>1, <3>2
  <2> QED
    BY ZenonT(30), <1>11, <2>1, <2>2
<1>14. OwnKeys((I \ O) \cup W, X \cup O)
  BY <1>8, <1>9, <1>13 DEF OwnKeys
<1> QED
  BY ZenonT(30), <1>14 DEF I, X, W

\* The state after a DELETE (V empty) or an UPDATE (V the new value) with the split P, T, D.
DmlAfter(s, P, T, D, K, V, O) ==
  /\ O \subseteq HeapOf(w[s]) \cup RowsOf(Moved(s, D)) /\ O \in SUBSET Row
  /\ HeapOf(w'[s]) = ((HeapOf(w[s]) \cup RowsOf(Moved(s, D))) \ O) \cup Rewritten(O, V)
  /\ LiveOf(w'[s]) = LiveOf(w[s]) \ (Hidden(s, T, K) \cup Dropped(s, P) \cup Moved(s, D))
  /\ rem'[s] = rem[s] \cup O \cup RowsOf(Hidden(s, T, K) \cup Dropped(s, P))
  /\ add'[s] = (add[s] \ (O \cup RowsOf(Hidden(s, T, K) \cup Dropped(s, P)))) \cup Rewritten(O, V)
  /\ \A t \in Others(s) : w[t].del \cap O = {}

\* The statement, its arguments and the split.
DmlRuns(s, P, T, D, K, V) ==
  /\ pc[s] \in {"delete", "update"} /\ RunDml(s, P, T, D, K, V) /\ IsSplit(s, P, T, D, K)
  /\ P \in SUBSET SegIds /\ T \in SUBSET SegIds /\ D \in SUBSET SegIds /\ V \in SUBSET Vals
  /\ V = {} \/ P \cup T = {}
  /\ P \cup T \cup D # {} => OwnCat(s).is_compressed

\* The hook wrote ws; then the heap rows O were deleted and rewritten.
DmlWrote(s, P, T, D, K, V, O, ws, c) ==
  LET w2 == InsertRows(DeleteRows(ws, O), Rewritten(O, V))
      touch == HookTouches(s, P, T, D, K)
  IN  /\ DmlAfter(s, P, T, D, K, V, O)
      /\ IF P \cup D = {} THEN UNCHANGED lock ELSE TakeExclusive(s)
      /\ EndStatement(s, w2, touch, c) /\ w'[s] = w2
      /\ \A t \in Others(s) : add'[t] = add[t] /\ rem'[t] = rem[t]
      /\ ws \in WriteSet /\ Rewritten(O, V) \in SUBSET Row
      /\ P \cup D = {} => ws = InsertTombstones(w[s], Hidden(s, T, K))
      /\ RowAfter(s, touch, c).is_compressed = OwnCat(s).is_compressed

\* What the statement writes, in terms of rows.
LEMMA DmlWrites ==
  ASSUME NEW e \in BOOLEAN, PlainUse, TypeOK, FlagInv, RowInv(e), NEW s \in Sessions,
         NEW P, NEW T, NEW D, NEW K, NEW V, DmlRuns(s, P, T, D, K, V)
  PROVE  \E O, ws, c : DmlWrote(s, P, T, D, K, V, O, ws, c)
<1> DEFINE ws == HookWrites(s, P, T, D, K)
           O == HeapTargets(s, ws, K)
           L == LogicalTargets(s, K)
           W == Rewritten(O, V)
           w2 == InsertRows(DeleteRows(ws, O), W)
           touch == HookTouches(s, P, T, D, K)
           c == HookCatalog(s, P, T, D, K)
           N == Hidden(s, T, K)
           PP == Dropped(s, P)
           M == Moved(s, D)
<1>1. /\ pc[s] \in {"delete", "update"} /\ RunDml(s, P, T, D, K, V) /\ IsSplit(s, P, T, D, K)
      /\ P \in SUBSET SegIds /\ T \in SUBSET SegIds /\ D \in SUBSET SegIds /\ V \in SUBSET Vals
      /\ V = {} \/ P \cup T = {}
      /\ P \cup T \cup D # {} => OwnCat(s).is_compressed
  BY ZenonT(30) DEF DmlRuns
<1>2. /\ CanWriteHeapRows(s, ws, K)
      /\ IF P \cup D = {} THEN UNCHANGED lock ELSE TakeExclusive(s)
      /\ EndStatement(s, w2, touch, c)
      /\ rem' = [rem EXCEPT ![s] = @ \cup L]
      /\ add' = [add EXCEPT ![s] = (@ \ L) \cup Rewritten(L, V)]
  BY ZenonT(30), <1>1 DEF RunDml, HookTouches
<1>3. /\ DOMAIN add = Sessions /\ DOMAIN rem = Sessions /\ DOMAIN w = Sessions
  BY DEF TypeOK
<1>4. /\ rem'[s] = rem[s] \cup L /\ add'[s] = (add[s] \ L) \cup Rewritten(L, V)
      /\ \A t \in Others(s) : add'[t] = add[t] /\ rem'[t] = rem[t]
  BY ZenonT(30), <1>2, <1>3 DEF Others
<1>5. w'[s] = w2
  BY <1>2, <1>3 DEF EndStatement
<1>6. /\ L = O \cup RowsOf(N \cup PP) /\ O \subseteq HeapOf(w[s]) \cup RowsOf(M)
  BY Zenon, <1>1, DmlTargets
<1>7. HookDoes(s, P, T, D, K)
  <2>1. Disjoint(T, D)
    BY ZenonT(30), <1>1 DEF IsSplit
  <2> QED
    BY ZenonT(30), <1>1, <2>1, HookEffect
<1>8. ws \in WriteSet
  BY <1>1, HookWritesType
<1>9. RowAfter(s, touch, c).is_compressed = OwnCat(s).is_compressed
  <2>1. c.is_compressed = OwnCat(s).is_compressed
    BY ZenonT(30), <1>1, HookCompressed
  <2> QED
    BY Zenon, <2>1 DEF RowAfter
<1>10. \A t \in Others(s) : w[t].del \cap O = {}
  BY ZenonT(30), <1>2 DEF CanWriteHeapRows
<1>11. /\ HeapOf(ws) = HeapOf(w[s]) \cup RowsOf(M)
       /\ LiveOf(ws) = LiveOf(w[s]) \ (N \cup PP \cup M)
       /\ P \cup D = {} => ws = InsertTombstones(w[s], N)
  BY Zenon, <1>7 DEF HookDoes
<1> HIDE DEF ws, L, touch, c
<1>12. O \in SUBSET Row
  BY <1>8, TargetTypes
<1> HIDE DEF O
<1>13. W \in SUBSET Row
  BY ZenonT(30), <1>1, <1>12, RewrittenType
<1>14. HeapOf(w2) = (HeapOf(ws) \ O) \cup W /\ LiveOf(w2) = LiveOf(ws)
  <2>1. RewriteDoes(w2, ws, O, W)
    BY ZenonT(30), <1>8, <1>12, <1>13, RewriteRowsEffect
  <2> QED
    BY ZenonT(30), <2>1 DEF RewriteDoes
<1>15. Rewritten(L, V) = W
  <2>1. CASE V = {}
    BY ZenonT(30), <2>1, RewrittenNone
  <2>2. CASE P \cup T = {}
    <3>1. N \cup PP = {}
      BY ZenonT(30), <2>2 DEF Hidden, Dropped, PairsIn
    <3>2. RowsOf(N \cup PP) = {}
      BY ZenonT(30), <3>1 DEF RowsOf
    <3> QED
      BY <1>6, <3>2
  <2> QED
    BY ZenonT(30), <1>1, <2>1, <2>2
<1> HIDE DEF W, w2, N, PP, M
<1>16. /\ HeapOf(w'[s]) = ((HeapOf(w[s]) \cup RowsOf(M)) \ O) \cup W
       /\ LiveOf(w'[s]) = LiveOf(w[s]) \ (N \cup PP \cup M)
  BY <1>5, <1>11, <1>14
<1>17. /\ rem'[s] = rem[s] \cup O \cup RowsOf(N \cup PP)
       /\ add'[s] = (add[s] \ (O \cup RowsOf(N \cup PP))) \cup W
  BY ZenonT(30), <1>4, <1>6, <1>15
<1>18. DmlAfter(s, P, T, D, K, V, O)
  BY ZenonT(30), <1>6, <1>10, <1>12, <1>16, <1>17 DEF DmlAfter, N, PP, M, W
<1>19. \A t \in Others(s) : add'[t] = add[t] /\ rem'[t] = rem[t]
  BY ZenonT(30), <1>4
<1>20. /\ EndStatement(s, InsertRows(DeleteRows(ws, O), Rewritten(O, V)),
                       HookTouches(s, P, T, D, K), c)
       /\ w'[s] = InsertRows(DeleteRows(ws, O), Rewritten(O, V))
       /\ Rewritten(O, V) \in SUBSET Row
       /\ P \cup D = {} => ws = InsertTombstones(w[s], Hidden(s, T, K))
       /\ RowAfter(s, HookTouches(s, P, T, D, K), c).is_compressed = OwnCat(s).is_compressed
  BY Zenon, <1>2, <1>5, <1>9, <1>11, <1>13 DEF w2, W, touch, N
<1> QED
  BY Zenon, <1>2, <1>8, <1>18, <1>19, <1>20 DEF DmlWrote

\* A DELETE or UPDATE leaves every row stored once, and changes the rows by what it
\* removed and added.
LEMMA DmlRowInv ==
  ASSUME NEW e \in BOOLEAN, PlainUse, TypeOK, FlagInv, RowInv(e), NEW s \in Sessions,
         NEW P, NEW T, NEW D, NEW K, NEW V, \A u, v \in V : u = v, DmlRuns(s, P, T, D, K, V)
  PROVE  RowInv(e)'
<1> DEFINE N == Hidden(s, T, K)
           PP == Dropped(s, P)
           M == Moved(s, D)
           h == HeapOf(w[s])
           L == LiveOf(w[s])
           touch == HookTouches(s, P, T, D, K)
<1>0. PICK O, ws, c : DmlWrote(s, P, T, D, K, V, O, ws, c)
  BY Zenon, DmlWrites
<1>1. /\ DmlAfter(s, P, T, D, K, V, O)
      /\ IF P \cup D = {} THEN UNCHANGED lock ELSE TakeExclusive(s)
      /\ EndStatement(s, InsertRows(DeleteRows(ws, O), Rewritten(O, V)), touch, c)
      /\ w'[s] = InsertRows(DeleteRows(ws, O), Rewritten(O, V))
      /\ \A t \in Others(s) : add'[t] = add[t] /\ rem'[t] = rem[t]
      /\ ws \in WriteSet /\ Rewritten(O, V) \in SUBSET Row
      /\ P \cup D = {} => ws = InsertTombstones(w[s], N)
      /\ RowAfter(s, touch, c).is_compressed = OwnCat(s).is_compressed
  BY Zenon, <1>0 DEF DmlWrote
<1> DEFINE W == Rewritten(O, V)
           w2 == InsertRows(DeleteRows(ws, O), W)
<1>2. /\ EndStatement(s, w2, touch, c) /\ w'[s] = w2 /\ touch \in BOOLEAN
      /\ UNCHANGED lock \/ TakeExclusive(s)
      /\ P \cup D # {} => TakeExclusive(s)
      /\ W \in SUBSET Row
  BY Zenon, <1>1 DEF HookTouches
<1>3. /\ O \subseteq h \cup RowsOf(M) /\ O \in SUBSET Row
      /\ HeapOf(w2) = ((h \cup RowsOf(M)) \ O) \cup W
      /\ LiveOf(w2) = L \ (N \cup PP \cup M)
      /\ rem'[s] = rem[s] \cup O \cup RowsOf(N \cup PP)
      /\ add'[s] = (add[s] \ (O \cup RowsOf(N \cup PP))) \cup W
      /\ \A t \in Others(s) : w[t].del \cap O = {}
  BY Zenon, <1>1, <1>2 DEF DmlAfter
<1>4. /\ pc[s] \in {"delete", "update"} /\ IsSplit(s, P, T, D, K)
      /\ P \cup T \cup D # {} => OwnCat(s).is_compressed
  BY DEF DmlRuns
<1>5. TableEffect(s, e)
  BY ZenonT(30), <1>4, OwnTableEffect
<1>6. /\ N \subseteq L /\ PP \subseteq L /\ M \subseteq L /\ Disjoint(M, N \cup PP)
  BY ZenonT(30), <1>4 DEF Hidden, Dropped, Moved, PairsIn, IsSplit, Disjoint
<1>7. /\ SameSegments(w2, ws) /\ w2.trunc = ws.trunc
      /\ w2.ins = (ws.ins \ O) \cup W /\ w2.del = ws.del \cup O
  <2>1. RewriteDoes(w2, ws, O, W)
    BY ZenonT(30), <1>1, <1>2, <1>3, RewriteRowsEffect
  <2> QED
    BY ZenonT(30), <2>1 DEF RewriteDoes
<1>8. lock[s] \in {"RE", "AE"} /\ SessionRows(s, e) /\ Unique(heap, LiveNow) /\ w[s] \in WriteSet
  BY Zenon, <1>4, ViewTypes DEF FlagInv, StepDiscipline, RowInv
<1>9. P \cup D = {} => ws = InsertTombstones(w[s], N)
  BY Zenon, <1>1
<1>10. RowAfter(s, touch, c).is_compressed = OwnCat(s).is_compressed
  BY ZenonT(30), <1>1
<1>11. T = {} => N = {}
  BY DEF Hidden
<1>12. DOMAIN lock = Sessions
  BY DEF TypeOK
<1>13. \A t \in Others(s) : add'[t] = add[t] /\ rem'[t] = rem[t]
  BY ZenonT(30), <1>1
<1> HIDE DEF N, PP, M, h, L, touch, W, w2
<1>14. CASE lock'[s] = "AE"
  <2>1. Unique(h, L) /\ h \cup RowsOf(L) = (Stored \ rem[s]) \cup add[s]
    BY ZenonT(30), <1>4, <1>5 DEF TableEffect, MayWrite, StoredBy, h, L
  <2>2. DmlMoves(h, L, N, PP, M, O, V, HeapOf(w2), LiveOf(w2))
    BY ZenonT(30), <1>3, <1>6, <2>1 DEF DmlMoves, W
  <2>3. DmlEnds(h, L, N, PP, O, V, HeapOf(w2), LiveOf(w2))
    BY ZenonT(30), <2>2, DmlOnTable
  <2>4. Unique(HeapOf(w2), LiveOf(w2))
    BY <2>3 DEF DmlEnds
  <2>5. StoredBy(w2) = ((h \cup RowsOf(L)) \ (O \cup RowsOf(N \cup PP))) \cup W
    BY ZenonT(30), <2>3 DEF DmlEnds, StoredBy, W
  <2>6. StoredBy(w2) = (Stored \ rem'[s]) \cup add'[s]
    BY ZenonT(30), <1>3, <2>1, <2>5
  <2>7. ~RowAfter(s, touch, c).is_compressed => SegOf(w2) = NoSegs
    <3> SUFFICES ASSUME ~OwnCat(s).is_compressed PROVE SegOf(w2) = NoSegs
      BY ZenonT(30), <1>10
    <3>1. P \cup D = {} /\ T = {}
      BY <1>4
    <3>2. SegOf(ws) = SegOf(w[s])
      BY ZenonT(30), <1>8, <1>9, <3>1, InsertTombstonesSegs
    <3>3. SegOf(w2) = SegOf(ws)
      BY ZenonT(30), <1>7, SameEffect
    <3> QED
      BY ZenonT(30), <1>5, <3>2, <3>3 DEF TableEffect
  <2> QED
    BY ZenonT(30), <1>2, <1>13, <1>14, <2>4, <2>6, <2>7, ExclusiveRows
<1>15. CASE lock'[s] # "AE"
  <2>1. P \cup D = {} /\ lock' = lock /\ lock[s] = "RE"
    BY ZenonT(30), <1>2, <1>8, <1>12, <1>15 DEF TakeExclusive
  <2>2. RowEffect(s)
    BY ZenonT(30), <1>8, <2>1 DEF SessionRows
  <2>3. M = {} /\ PP = {} /\ RowsOf(M) = {} /\ N \cup PP = N
    BY ZenonT(30), <2>1 DEF M, PP, Moved, Dropped, PairsIn, RowsOf
  <2>4. O \subseteq h /\ rem'[s] = rem[s] \cup O \cup RowsOf(N)
        /\ add'[s] = (add[s] \ (O \cup RowsOf(N))) \cup W
    BY ZenonT(30), <1>3, <2>3
  <2>5. /\ h = (heap \ w[s].del) \cup w[s].ins /\ L = LiveNow \ w[s].tIns
    BY ZenonT(30), <2>2, RowEffectViews DEF h, L
  <2>6. /\ ws.ins = w[s].ins /\ ws.del = w[s].del /\ ws.trunc = w[s].trunc
        /\ ws.tIns = w[s].tIns \cup N /\ ws.tDel = w[s].tDel /\ ws.tTrunc = w[s].tTrunc
        /\ ws.segNew = w[s].segNew /\ ws.segDel = w[s].segDel
    BY <1>8, <1>9, <2>1 DEF InsertTombstones, WriteSet
  <2>7. /\ w2.ins = (w[s].ins \ O) \cup W /\ w2.del = w[s].del \cup O /\ ~w2.trunc
        /\ w2.tIns = w[s].tIns \cup N /\ w2.tDel = {} /\ ~w2.tTrunc
        /\ w2.segNew = NoSegs /\ w2.segDel = {}
    BY Zenon, <1>7, <2>2, <2>6 DEF SameSegments, RowEffect
  <2>8. OwnKeys((w[s].ins \ O) \cup W, w[s].del \cup O)
    BY ZenonT(30), <1>8, <2>2, <2>4, RewriteKeys DEF W, h
  <2>9. add'[s] = w2.ins
    <3>1. \A q \in w[s].ins : q \notin RowsOf(N)
      BY ZenonT(30), <1>6, <2>2, <2>5 DEF RowEffect, RowsOf
    <3>2. add[s] = w[s].ins
      BY ZenonT(30), <2>2 DEF RowEffect
    <3> QED
      BY ZenonT(30), <2>4, <2>7, <3>1, <3>2
  <2>10. rem'[s] = w2.del \cup RowsOf(w2.tIns)
    <3>1. RowsOf(w[s].tIns \cup N) = RowsOf(w[s].tIns) \cup RowsOf(N)
      BY ZenonT(30) DEF RowsOf
    <3> QED
      BY Zenon, <2>2, <2>4, <2>7, <3>1 DEF RowEffect
  <2>11. w2.tIns \subseteq LiveNow
    BY ZenonT(30), <1>6, <2>2, <2>5, <2>7 DEF RowEffect
  <2>12. OnlyMoves(s) /\ w'[s] = w2 /\ pc'[s] = "open"
    BY ZenonT(30), <1>2, <1>13, StatementMoves
  <2>13. heap' = heap /\ LiveNow' = LiveNow
    BY ZenonT(30), <2>12 DEF OnlyMoves, committedVars, LiveNow, Live
  <2>14. RowEffect(s)'
    <3>1. OwnKeys(w2.ins, w2.del)
      BY ZenonT(30), <2>7, <2>8
    <3> QED
      BY ZenonT(30), <2>7, <2>9, <2>10, <2>11, <2>12, <2>13, <3>1 DEF RowEffect, OwnKeys, RowsOf
  <2>15. SessionRows(s, e)'
    BY ZenonT(30), <2>1, <2>12, <2>14 DEF SessionRows
  <2>16. \A q \in w2.ins : q \in w[s].ins \/ \E o \in O : o[1] = q[1]
    BY <2>7 DEF W, Rewritten
  <2>17. \A o \in O : o \in heap \/ o \in w[s].ins
    BY ZenonT(30), <2>4, <2>5
  <2> HIDE DEF w2
  <2>18. ASSUME NEW t \in Others(s)
         PROVE  /\ lock[t] = "RE" => Apart(s, t)'
                /\ pc[t] \in {"insert", "delete", "update"} => SnapApart(t, s)'
    <3>1. t \in Sessions /\ t # s /\ w'[t] = w[t] /\ snap'[t] = snap[t]
      BY ZenonT(30), <2>12 DEF OnlyMoves, Others
    <3>2. PairRows(s, t) /\ PairRows(t, s) /\ SessionRows(t, e)
      BY ZenonT(30), <3>1 DEF RowInv
    <3>3. ASSUME lock[t] = "RE" PROVE Apart(s, t)'
      <4>1. Apart(s, t) /\ RowEffect(t) /\ w[t].del \cap O = {}
        BY ZenonT(30), <1>3, <2>1, <3>1, <3>2, <3>3 DEF PairRows, SessionRows
      <4>2. \A q \in w2.ins, r \in w[t].ins : q[1] # r[1]
        <5>1. /\ \A q \in w[s].ins, r \in w[t].ins : q[1] # r[1]
              /\ \A o \in O, r \in w[t].ins : o \in heap => o[1] # r[1]
          BY ZenonT(30), <4>1 DEF Apart, RowEffect
        <5>2. \A o \in O, r \in w[t].ins : o[1] # r[1]
          BY ZenonT(30), <2>17, <5>1
        <5>3. ASSUME NEW q \in w2.ins, NEW r \in w[t].ins, NEW o \in O, o[1] = q[1]
              PROVE  q[1] # r[1]
          <6>1. o[1] # r[1]
            BY Zenon, <5>2
          <6> QED
            BY Zenon, <5>3, <6>1
        <5> QED
          BY ZenonT(30), <2>16, <5>1, <5>3
      <4>3. w2.del \cap w[t].del = {}
        BY <2>7, <4>1 DEF Apart
      <4> QED
        BY ZenonT(30), <2>12, <3>1, <4>2, <4>3 DEF Apart
    <3>4. SnapLive(t)' = SnapLive(t)
      BY ZenonT(30), <3>1 DEF SnapLive, Live
    <3>5. ASSUME pc[t] \in {"insert", "delete", "update"} PROVE SnapApart(t, s)'
      <4>1. SnapApart(t, s) /\ SnapHolds(t)
        BY ZenonT(30), <2>1, <3>2, <3>5 DEF PairRows, SessionRows
      <4>2. \A q \in w2.ins, p \in SnapLive(t) : q[1] # p[2][1]
        <5>1. /\ \A q \in w[s].ins, p \in SnapLive(t) : q[1] # p[2][1]
              /\ \A o \in O, p \in SnapLive(t) : o \in heap => o[1] # p[2][1]
          BY ZenonT(30), <4>1 DEF SnapApart, SnapHolds
        <5>2. \A o \in O, p \in SnapLive(t) : o[1] # p[2][1]
          BY ZenonT(30), <2>17, <5>1
        <5>3. ASSUME NEW q \in w2.ins, NEW p \in SnapLive(t), NEW o \in O, o[1] = q[1]
              PROVE  q[1] # p[2][1]
          <6>1. o[1] # p[2][1]
            BY Zenon, <5>2
          <6> QED
            BY Zenon, <5>3, <6>1
        <5> QED
          BY ZenonT(30), <2>16, <5>1, <5>3
      <4> QED
        BY ZenonT(30), <2>12, <3>4, <4>2 DEF SnapApart
    <3> QED
      BY ZenonT(30), <3>3, <3>5
  <2> QED
    BY ZenonT(30), <2>12, <2>15, <2>18, StepRows
<1> QED
  BY <1>14, <1>15

\* The candidate segments hold every matching live row the statement sees. A partition
\* that is not intercepted has no segments.
LEMMA CandidatesHold ==
  ASSUME NEW e \in BOOLEAN, PlainUse, TypeOK, FlagInv, RowInv(e), NEW s \in Sessions,
         pc[s] \in {"delete", "update"}, NEW C, NEW K,
         IF Intercepted(s) THEN IsCandidateSet(s, C, K) ELSE C = {}
  PROVE  /\ \A p \in StmtLive(s) : p[2][1] \in K => p[1] \in C
         /\ C # {} => OwnCat(s).is_compressed
<1>1. StepDiscipline(s) /\ TableEffect(s, e)
  BY ZenonT(30), OwnTableEffect DEF FlagInv
<1>2. ~bypass[s]
  BY <1>1 DEF StepDiscipline, PlainUse, Ops
<1>3. RelCompressed(s) = OwnCat(s).is_compressed
  BY ReadCommittedView
<1>4. CASE ~Intercepted(s)
  <2>1. SegOf(w[s]) = NoSegs
    BY ZenonT(30), <1>1, <1>2, <1>3, <1>4 DEF Intercepted, TableEffect
  <2>2. \A p \in StmtLive(s) : p[1] \in SegIds /\ p[2] \in NoSegs[p[1]]
    BY ZenonT(30), <2>1, StmtFacts
  <2>3. StmtLive(s) = {}
    BY ZenonT(30), <2>2 DEF NoSegs
  <2> QED
    BY ZenonT(30), <1>4, <2>3
<1>5. CASE Intercepted(s)
  <2>1. IsCandidateSet(s, C, K)
    BY <1>5
  <2>2. ASSUME NEW p \in StmtLive(s), p[2][1] \in K PROVE p[1] \in C
    <3>1. p[1] \in SegIds /\ p[2] \in StmtView(s).seg[p[1]]
      BY DEF StmtLive, LivePairs
    <3>2. p[2] \in Matching(StmtView(s).seg[p[1]], K)
      BY ZenonT(30), <2>2, <3>1 DEF Matching
    <3>3. p[1] \in Segments(StmtView(s))
      BY ZenonT(30), <3>1 DEF Segments
    <3> QED
      BY ZenonT(30), <2>1, <3>2, <3>3 DEF IsCandidateSet
  <2>3. OwnCat(s).is_compressed
    BY ZenonT(30), <1>3, <1>5 DEF Intercepted
  <2> QED
    BY <2>2, <2>3
<1> QED
  BY ZenonT(30), <1>4, <1>5

\* DELETE.
LEMMA DeleteRowsKept ==
  ASSUME NEW e \in BOOLEAN,
         PlainUse, TypeOK, FlagInv, RowInv(e), NEW s \in Sessions, NEW K,
         NEW C \in SUBSET SegIds, NEW P \in SUBSET SegIds, NEW D \in SUBSET SegIds,
         Delete(s, K, C, P, D)
  PROVE  RowInv(e)'
<1> DEFINE T == C \ (P \cup D)
           V == {}
<1>1. /\ pc[s] \in {"delete", "update"} /\ RunDml(s, P, T, D, K, V)
      /\ IF Intercepted(s) THEN IsCandidateSet(s, C, K) ELSE C = {}
      /\ P \subseteq C /\ AllRowsMatch(s, P, K) /\ D \subseteq C \ P
  BY ZenonT(30) DEF Delete
<1>2. /\ \A p \in StmtLive(s) : p[2][1] \in K => p[1] \in C
      /\ C # {} => OwnCat(s).is_compressed
  BY ZenonT(30), <1>1, CandidatesHold
<1>3. \A p \in StmtLive(s) : p[1] \in P => p[2][1] \in K
  BY ZenonT(30), <1>1 DEF AllRowsMatch, StmtLive, LivePairs, Matching
<1>4. IsSplit(s, P, T, D, K)
  BY ZenonT(30), <1>1, <1>2, <1>3 DEF IsSplit, Disjoint
<1>5. T \in SUBSET SegIds /\ V \in SUBSET Vals /\ (\A u, v \in V : u = v)
      /\ (P \cup T \cup D # {} => OwnCat(s).is_compressed)
  BY ZenonT(30), <1>1, <1>2
<1>6. DmlRuns(s, P, T, D, K, V)
  BY ZenonT(30), <1>1, <1>4, <1>5 DEF DmlRuns
<1> HIDE DEF T, V
<1> QED
  BY <1>5, <1>6, DmlRowInv

\* UPDATE.
LEMMA UpdateRowsKept ==
  ASSUME NEW e \in BOOLEAN,
         PlainUse, TypeOK, FlagInv, RowInv(e), NEW s \in Sessions, NEW K,
         NEW C \in SUBSET SegIds, NEW val \in Vals, Update(s, K, C, val)
  PROVE  RowInv(e)'
<1> DEFINE P == {}
           V == {val}
<1>1. /\ pc[s] \in {"delete", "update"} /\ RunDml(s, P, P, C, K, V)
      /\ IF Intercepted(s) THEN IsCandidateSet(s, C, K) ELSE C = {}
  BY ZenonT(30) DEF Update
<1>2. /\ \A p \in StmtLive(s) : p[2][1] \in K => p[1] \in C
      /\ C # {} => OwnCat(s).is_compressed
  BY ZenonT(30), <1>1, CandidatesHold
<1>3. IsSplit(s, P, P, C, K)
  BY ZenonT(30), <1>2 DEF IsSplit, Disjoint
<1>4. P \in SUBSET SegIds /\ V \in SUBSET Vals /\ (\A u, v \in V : u = v)
      /\ (P \cup P \cup C # {} => OwnCat(s).is_compressed) /\ P \cup P = {}
  BY ZenonT(30), <1>2
<1>5. DmlRuns(s, P, P, C, K, V)
  BY ZenonT(30), <1>1, <1>3, <1>4 DEF DmlRuns
<1> HIDE DEF P, V
<1> QED
  BY <1>4, <1>5, DmlRowInv

(***************************************************************************)
(* The invariant holds.                                                    *)
(***************************************************************************)
LEMMA InitRows ==
  ASSUME NEW e \in BOOLEAN, Init
  PROVE  RowInv(e)
<1>1. /\ tomb = {} /\ pc = [s \in Sessions |-> "idle"] /\ lock = [s \in Sessions |-> "none"]
      /\ w = [s \in Sessions |-> NoWrites]
      /\ add = [s \in Sessions |-> {}] /\ rem = [s \in Sessions |-> {}]
  BY DEF Init
<1>2. PICK R \in StartRows :
        \/ cat = NewCatalogRow /\ heap = R /\ seg = NoSegs
        \/ /\ R # {} /\ MaxSeg >= 1
           /\ cat = [NewCatalogRow EXCEPT !.is_compressed = TRUE, !.row_count = Cardinality(R)]
           /\ heap = {} /\ seg = [NoSegs EXCEPT ![1] = R]
  BY Zenon DEF Init
<1>3. \A q, r \in R : q[1] = r[1] => q = r
  BY StartAssumption
<1>4. Unique(heap, LiveNow) /\ (~cat.is_compressed => seg = NoSegs)
  <2>1. CASE cat = NewCatalogRow /\ heap = R /\ seg = NoSegs
    <3>1. LiveNow = {}
      BY <2>1 DEF LiveNow, Live, NoSegs
    <3> QED
      BY <1>3, <2>1, <3>1 DEF Unique
  <2>2. CASE /\ cat = [NewCatalogRow EXCEPT !.is_compressed = TRUE, !.row_count = Cardinality(R)]
             /\ heap = {} /\ seg = [NoSegs EXCEPT ![1] = R]
    <3>1. cat.is_compressed
      BY <2>2 DEF NewCatalogRow
    <3>2. \A i \in SegIds : i # 1 => seg[i] = {}
      BY <2>2 DEF NoSegs
    <3>3. 1 \in SegIds => seg[1] = R
      BY ZenonT(30), <2>2 DEF NoSegs
    <3>4. \A p \in LiveNow : p \in SegIds \X Row /\ p[1] = 1 /\ p[2] \in R
      BY ZenonT(30), <3>2, <3>3 DEF LiveNow, Live
    <3>5. \A p, q \in LiveNow : p[2][1] = q[2][1] => p = q
      BY <1>3, <3>4
    <3> QED
      BY <2>2, <3>1, <3>5 DEF Unique
  <2> QED
    BY ZenonT(30), <1>2, <2>1, <2>2
<1>5. \A s \in Sessions : pc[s] = "idle" /\ lock[s] = "none" /\ DoneNothing(s)
  BY ZenonT(30), <1>1 DEF DoneNothing
<1>6. \A s \in Sessions : SessionRows(s, e)
  BY ZenonT(30), <1>5 DEF SessionRows
<1>7. \A s, t \in Sessions : PairRows(s, t)
  BY <1>5 DEF PairRows
<1> QED
  BY <1>4, <1>6, <1>7 DEF RowInv

\* Nothing moves.
LEMMA StutterRows ==
  ASSUME NEW e \in BOOLEAN, RowInv(e), UNCHANGED vars
  PROVE  RowInv(e)'
<1>1. /\ cat' = cat /\ heap' = heap /\ seg' = seg /\ tomb' = tomb /\ pc' = pc /\ lock' = lock
      /\ w' = w /\ add' = add /\ rem' = rem /\ snap' = snap /\ catOwner' = catOwner /\ pcat' = pcat
      /\ stmts' = stmts
  BY ZenonT(30) DEF vars
<1>2. \A t \in Sessions : Kept(t)
  BY <1>1 DEF Kept, OwnCat, committedVars
<1>3. \A t \in Sessions : SessionRows(t, e)'
  BY ZenonT(30), <1>2, KeptRows DEF RowInv
<1>4. LiveNow' = LiveNow /\ \A t \in Sessions : SnapLive(t)' = SnapLive(t)
  BY ZenonT(30), <1>1 DEF LiveNow, SnapLive, Live
<1>5. \A s, t \in Sessions : PairRows(s, t)'
  <2>1. ASSUME NEW s \in Sessions, NEW t \in Sessions PROVE PairRows(s, t)'
    <3>1. PairRows(s, t)
      BY Zenon DEF RowInv
    <3> QED
      BY ZenonT(30), <1>1, <1>4, <3>1 DEF PairRows, Apart, SnapApart
  <2> QED
    BY Zenon, <2>1
<1>6. Unique(heap, LiveNow)' /\ (~cat.is_compressed => seg = NoSegs)'
  BY ZenonT(30), <1>1, <1>4 DEF RowInv, Unique
<1> QED
  BY ZenonT(30), <1>3, <1>5, <1>6 DEF RowInv

(***************************************************************************)
(* The steps of the table of DeltaTable.                                   *)
(***************************************************************************)
\* A statement that commits nothing and touches only its own effect is a Write of the
\* table when it removed rows it could see and kept what it had added.
LEMMA IsWrite ==
  ASSUME TypeOK, TypeOK', NEW s \in Sessions, UNCHANGED committedVars,
         \A t \in Others(s) : add'[t] = add[t] /\ rem'[t] = rem[t],
         rem[s] \subseteq rem'[s], rem'[s] \subseteq rem[s] \cup Stored \cup add[s],
         add[s] \ rem'[s] \subseteq add'[s]
  PROVE  Table!Write(s)
<1>1. /\ add \in [Sessions -> SUBSET Row] /\ rem \in [Sessions -> SUBSET Row]
      /\ add' \in [Sessions -> SUBSET Row] /\ rem' \in [Sessions -> SUBSET Row]
  BY ZenonT(30) DEF TypeOK
<1>2. Content(Committed) = Stored
  BY ZenonT(30), ContentIsStored
<1>3. Content(Committed)' = Content(Committed)
  BY DEF Content, LiveRows, LivePairs, Committed, committedVars
<1>4. rem' = [rem EXCEPT ![s] = rem'[s]] /\ add' = [add EXCEPT ![s] = add'[s]]
  BY <1>1 DEF Others
<1>5. add'[s] \subseteq Row
  BY ZenonT(30), <1>1
<1> QED
  BY ZenonT(30), <1>2, <1>3, <1>4, <1>5 DEF Table!Write

\* What a DELETE or UPDATE hits, the session could see.
LEMMA TargetsSeen ==
  ASSUME NEW e \in BOOLEAN,
         TypeOK, FlagInv, RowInv(e), NEW s \in Sessions, pc[s] \in {"delete", "update"}, NEW K
  PROVE  LogicalTargets(s, K) \subseteq Stored \cup add[s]
<1>1. StoredBy(w[s]) = (Stored \ rem[s]) \cup add[s]
  <2>1. TableEffect(s, e)
    BY ZenonT(30), OwnTableEffect
  <2> QED
    BY <2>1 DEF TableEffect, MayWrite
<1>2. Content(Apply(Committed, w[s], cat)) = StoredBy(w[s])
  <2> DEFINE v == Apply(Committed, w[s], cat)
  <2>1. v.heap = HeapOf(w[s]) /\ v.seg = SegOf(w[s]) /\ v.tomb = TombOf(w[s])
    BY ZenonT(30), ApplySegs, ApplyFields
  <2> HIDE DEF v
  <2>2. LivePairs(v, SegIds) = LiveOf(w[s])
    BY <2>1 DEF LivePairs, LiveOf, Live
  <2> QED
    BY ZenonT(30), <2>1, <2>2 DEF Content, LiveRows, StoredBy, RowsOf, v
<1> QED
  BY ZenonT(30), <1>1, <1>2 DEF LogicalTargets, Matching

\* A DELETE or an UPDATE.
LEMMA DmlIsWrite ==
  ASSUME NEW e \in BOOLEAN,
         TypeOK, TypeOK', FlagInv, RowInv(e), NEW s \in Sessions, pc[s] \in {"delete", "update"},
         NEW P, NEW T, NEW D, NEW K, NEW V, RunDml(s, P, T, D, K, V)
  PROVE  Table!Write(s)
<1> DEFINE L == LogicalTargets(s, K)
<1>1. /\ rem' = [rem EXCEPT ![s] = @ \cup L]
      /\ add' = [add EXCEPT ![s] = (@ \ L) \cup Rewritten(L, V)]
      /\ UNCHANGED committedVars
  BY Zenon DEF RunDml, EndStatement
<1>2. L \subseteq Stored \cup add[s]
  BY ZenonT(30), TargetsSeen
<1>3. DOMAIN add = Sessions /\ DOMAIN rem = Sessions
  BY DEF TypeOK
<1> HIDE DEF L
<1>4. /\ rem'[s] = rem[s] \cup L /\ add'[s] = (add[s] \ L) \cup Rewritten(L, V)
      /\ \A t \in Others(s) : add'[t] = add[t] /\ rem'[t] = rem[t]
  BY ZenonT(30), <1>1, <1>3 DEF Others
<1>5. /\ rem[s] \subseteq rem'[s] /\ rem'[s] \subseteq rem[s] \cup Stored \cup add[s]
      /\ add[s] \ rem'[s] \subseteq add'[s]
  BY ZenonT(30), <1>2, <1>4
<1> QED
  BY Zenon, <1>1, <1>4, <1>5, IsWrite

\* An INSERT.
LEMMA InsertIsWrite ==
  ASSUME TypeOK, TypeOK', NEW s \in Sessions, NEW r, Insert(s, r)
  PROVE  Table!Write(s)
<1>1. /\ add' = [add EXCEPT ![s] = @ \cup {r}] /\ rem' = rem
      /\ UNCHANGED committedVars
  BY ZenonT(30) DEF Insert, EndStatement
<1>2. DOMAIN add = Sessions
  BY DEF TypeOK
<1>3. /\ rem'[s] = rem[s] /\ add'[s] = add[s] \cup {r}
      /\ \A t \in Others(s) : add'[t] = add[t] /\ rem'[t] = rem[t]
  BY ZenonT(30), <1>1, <1>2 DEF Others
<1>4. /\ rem[s] \subseteq rem'[s] /\ rem'[s] \subseteq rem[s] \cup Stored \cup add[s]
      /\ add[s] \ rem'[s] \subseteq add'[s]
  BY ZenonT(30), <1>3
<1> QED
  BY ZenonT(30), <1>1, <1>3, <1>4, IsWrite

\* The end of a transaction.
LEMMA EndForgets ==
  ASSUME NEW s \in Sessions, EndTxn(s)
  PROVE  Table!Forget(s)
BY DEF EndTxn, Table!Forget

\* A commit stores what the statements of the transaction did, and nothing else.
LEMMA CommitIsCommit ==
  ASSUME TypeOK, FlagInv, RowInv(TRUE), NEW s \in Sessions, Commit(s)
  PROVE  Table!Commit(s)
<1>1. pc[s] = "open" /\ Stored' = StoredBy(w[s])
  BY ZenonT(30), CommitState
<1>2. StoredBy(w[s]) = (Stored \ rem[s]) \cup add[s]
  <2>1. TableEffect(s, TRUE)
    BY ZenonT(30), <1>1, OwnTableEffect
  <2> QED
    BY ZenonT(30), <2>1 DEF TableEffect
<1>3. Content(Committed) = Stored /\ Content(Committed)' = Stored'
  <2>1. Content(Committed) = Stored
    BY ZenonT(30), ContentIsStored
  <2>2. LivePairs(Committed, SegIds)' = LiveNow'
    BY ZenonT(30) DEF LivePairs, LiveNow, Live, Committed
  <2>3. LiveRows(Committed, SegIds)' = RowsOf(LiveNow)'
    BY ZenonT(30), <2>2 DEF LiveRows, RowsOf
  <2> QED
    BY ZenonT(30), <2>1, <2>3 DEF Content, Stored, Committed
<1>4. Table!Forget(s)
  BY ZenonT(30), EndForgets DEF Commit
<1> QED
  BY ZenonT(30), <1>1, <1>2, <1>3, <1>4 DEF Table!Commit

\* A rollback.
LEMMA AbortIsAbort ==
  ASSUME NEW s \in Sessions, Abort(s)
  PROVE  Table!Abort(s)
<1>1. EndTxn(s) /\ UNCHANGED committedVars
  BY ZenonT(30) DEF Abort
<1>2. Content(Committed)' = Content(Committed)
  BY <1>1 DEF Content, LiveRows, LivePairs, Committed, committedVars
<1> QED
  BY <1>1, <1>2, EndForgets DEF Table!Abort

\* Statement starts and the maintenance functions are no step of the table.
LEMMA MaintenanceIsStutter ==
  ASSUME UNCHANGED <<committedVars, add, rem>>
  PROVE  UNCHANGED Table!vars
<1>1. Content(Committed)' = Content(Committed)
  BY DEF Content, LiveRows, LivePairs, Committed, committedVars
<1> QED
  BY ZenonT(30), <1>1 DEF Table!vars

\* Every step of the partition is a step of the table, or none.
LEMMA StepOfTable ==
  ASSUME PlainUse, TypeOK, TypeOK', FlagInv, RowInv(TRUE), [Next]_vars
  PROVE  [Table!Next]_(Table!vars)
<1>1. CASE UNCHANGED vars
  BY <1>1, MaintenanceIsStutter DEF vars, committedVars
<1>2. ASSUME NEW s \in Sessions,
             \/ BeginRepeatableRead(s) \/ \E op \in Ops : StartStatement(s, op)
             \/ CompactSkip(s) \/ CompactNothing(s) \/ \E A \in SUBSET Row : CompactLoose(s, A)
             \/ CompressSkip(s) \/ \E A \in SUBSET Row : CompressRead(s, A) \/ CompressFinish(s)
             \/ DecompressSkip(s) \/ Decompress(s)
      PROVE  UNCHANGED Table!vars
  <2>1. UNCHANGED <<committedVars, add, rem>>
    BY Zenon, <1>2 DEF BeginRepeatableRead, StartStatement, CompactSkip, CompactNothing,
       CompactLoose, CompressSkip, CompressRead, CompressFinish, DecompressSkip, Decompress,
       ReturnUnchanged,
       EndStatement
  <2> QED
    BY ZenonT(30), <2>1, MaintenanceIsStutter
<1>3. ASSUME NEW s \in Sessions, NEW r \in Row, Insert(s, r) PROVE Table!Write(s)
  BY <1>3, InsertIsWrite
<1>4. ASSUME NEW s \in Sessions, NEW K \in SUBSET Keys, NEW C \in SUBSET SegIds,
             NEW P \in SUBSET SegIds, NEW D \in SUBSET SegIds, Delete(s, K, C, P, D)
      PROVE  Table!Write(s)
  <2>1. pc[s] \in {"delete", "update"} /\ RunDml(s, P, C \ (P \cup D), D, K, {})
    BY <1>4 DEF Delete
  <2> QED
    BY Zenon, <2>1, DmlIsWrite
<1>5. ASSUME NEW s \in Sessions, NEW K \in SUBSET Keys, NEW C \in SUBSET SegIds, NEW val \in Vals,
             Update(s, K, C, val)
      PROVE  Table!Write(s)
  <2>1. pc[s] \in {"delete", "update"} /\ RunDml(s, {}, {}, C, K, {val})
    BY <1>5 DEF Update
  <2> QED
    BY Zenon, <2>1, DmlIsWrite
<1>6. ASSUME NEW s \in Sessions, Commit(s) PROVE Table!Commit(s)
  BY <1>6, CommitIsCommit
<1>7. ASSUME NEW s \in Sessions, Abort(s) PROVE Table!Abort(s)
  BY <1>7, AbortIsAbort
<1>8. ASSUME Next PROVE Table!Next \/ UNCHANGED Table!vars
  BY ZenonT(60), <1>2, <1>3, <1>4, <1>5, <1>6, <1>7, <1>8 DEF Next, Table!Next
<1> QED
  BY ZenonT(30), <1>1, <1>8

\* The partition starts as the table does.
LEMMA InitOfTable ==
  ASSUME TypeOK, Init
  PROVE  Table!Init
<1>1. Committed \in Db
  BY DEF TypeOK
<1>2. Content(Committed) \in SUBSET Row
  BY ZenonT(30), <1>1, ContentType
<1> QED
  BY ZenonT(30), <1>2 DEF Init, Table!Init

(***************************************************************************)
(* When no session writes beside one that calls compress, nothing disturbs *)
(* a compression between its read and its TRUNCATE.                        *)
(***************************************************************************)
Dml == {"insert", "delete", "update"}

SoleWriter ==
  \A s, t \in Sessions : s # t /\ "compress" \in Calls[s] => Calls[t] \cap Dml = {}

\* Locks and places a session's calls allow.
CallInv(s) ==
  /\ lock[s] = "RE" => Calls[s] \cap Dml # {}
  /\ pc[s] \in {"compress", "compress_finish"} => "compress" \in Calls[s]

\* With such calls no writer holds its lock while a compression is between its two phases.
LEMMA CallsUndisturbed ==
  ASSUME SoleWriter, \A s \in Sessions : CallInv(s)
  PROVE  Undisturbed
BY DEF SoleWriter, CallInv, Undisturbed

\* A session at most stops writing and gives its lock up, or takes the exclusive one.
CallsKept(s) == pc'[s] \in {"idle", "open"} /\ lock'[s] \in {lock[s], "none", "AE"}

\* Every step keeps CallInv.
LEMMA NextCalls ==
  ASSUME TypeOK, \A s \in Sessions : CallInv(s), [Next]_vars
  PROVE  \A s \in Sessions : CallInv(s)'
<1>0. DOMAIN pc = Sessions /\ DOMAIN lock = Sessions
  BY ZenonT(30) DEF TypeOK
<1>1. CASE UNCHANGED vars
  BY ZenonT(30), <1>1 DEF vars, CallInv
<1>2. ASSUME NEW s \in Sessions, CallInv(s)',
             \A t \in Others(s) : pc'[t] = pc[t] /\ lock'[t] = lock[t]
      PROVE  \A t \in Sessions : CallInv(t)'
  BY ZenonT(30), <1>2 DEF CallInv, Others
<1>3. ASSUME NEW s \in Sessions, CallsKept(s) PROVE CallInv(s)'
  BY <1>3 DEF CallInv, CallsKept
<1>4. ASSUME NEW s \in Sessions, NEW op \in Ops, StartStatement(s, op)
      PROVE  \A t \in Sessions : CallInv(t)'
  <2>1. /\ pc' = [pc EXCEPT ![s] = op] /\ op \in Calls[s]
        /\ lock' = [lock EXCEPT ![s] = IF @ = "AE" \/ PlanLock(op) = "none" THEN @ ELSE "RE"]
    BY <1>4 DEF StartStatement
  <2>2. PlanLock(op) # "none" => op \in Dml
    BY DEF PlanLock, Dml
  <2>3. op # "compress_finish"
    BY DEF Ops
  <2>4. CallInv(s)'
    BY ZenonT(30), <1>0, <2>1, <2>2, <2>3 DEF CallInv
  <2> QED
    BY ZenonT(30), <1>0, <1>2, <2>1, <2>4 DEF Others
<1>5. ASSUME NEW s \in Sessions, NEW A \in SUBSET Row, CompressRead(s, A)
      PROVE  \A t \in Sessions : CallInv(t)'
  <2>1. /\ pc[s] = "compress" /\ pc' = [pc EXCEPT ![s] = "compress_finish"]
        /\ lock' = [lock EXCEPT ![s] = IF @ = "none" THEN "AS" ELSE @]
    BY ZenonT(30), <1>5 DEF CompressRead
  <2>2. CallInv(s)'
    BY ZenonT(30), <1>0, <2>1 DEF CallInv
  <2> QED
    BY ZenonT(30), <1>0, <1>2, <2>1, <2>2 DEF Others
<1>6. ASSUME NEW s \in Sessions,
             \/ BeginRepeatableRead(s) \/ \E r \in Row : Insert(s, r)
             \/ \E K \in SUBSET Keys, C, P, D \in SUBSET SegIds : Delete(s, K, C, P, D)
             \/ \E K \in SUBSET Keys, C \in SUBSET SegIds, val \in Vals : Update(s, K, C, val)
             \/ CompactSkip(s) \/ CompactNothing(s) \/ \E A \in SUBSET Row : CompactLoose(s, A)
             \/ CompressSkip(s) \/ CompressFinish(s)
             \/ DecompressSkip(s) \/ Decompress(s) \/ Commit(s) \/ Abort(s)
      PROVE  \A t \in Sessions : CallInv(t)'
  <2>1. ASSUME \/ BeginRepeatableRead(s) \/ \E r \in Row : Insert(s, r)
               \/ CompactSkip(s) \/ CompressSkip(s) \/ DecompressSkip(s)
        PROVE  pc' = [pc EXCEPT ![s] = "open"] /\ lock' = lock
    BY Zenon, <2>1 DEF BeginRepeatableRead, Insert, CompactSkip, CompressSkip, DecompressSkip,
       ReturnUnchanged, EndStatement
  <2>2. ASSUME \/ CompactNothing(s) \/ \E A \in SUBSET Row : CompactLoose(s, A)
               \/ CompressFinish(s) \/ Decompress(s)
        PROVE  pc' = [pc EXCEPT ![s] = "open"] /\ lock' = [lock EXCEPT ![s] = "AE"]
    BY Zenon, <2>2 DEF CompactNothing, CompactLoose, CompressFinish, Decompress, EndStatement,
       TakeExclusive
  <2>3. ASSUME NEW K, NEW P, NEW T, NEW D, NEW V, RunDml(s, P, T, D, K, V)
        PROVE  /\ pc' = [pc EXCEPT ![s] = "open"]
               /\ lock' = lock \/ lock' = [lock EXCEPT ![s] = "AE"]
    BY Zenon, <2>3 DEF RunDml, EndStatement, TakeExclusive
  <2>4. ASSUME \/ \E K \in SUBSET Keys, C, P, D \in SUBSET SegIds : Delete(s, K, C, P, D)
               \/ \E K \in SUBSET Keys, C \in SUBSET SegIds, val \in Vals : Update(s, K, C, val)
        PROVE  /\ pc' = [pc EXCEPT ![s] = "open"]
               /\ lock' = lock \/ lock' = [lock EXCEPT ![s] = "AE"]
    BY Zenon, <2>3, <2>4 DEF Delete, Update
  <2>5. ASSUME Commit(s) \/ Abort(s)
        PROVE  pc' = [pc EXCEPT ![s] = "idle"] /\ lock' = [lock EXCEPT ![s] = "none"]
    BY Zenon, <2>5 DEF Commit, Abort, EndTxn
  <2>6. /\ pc' = [pc EXCEPT ![s] = "idle"] \/ pc' = [pc EXCEPT ![s] = "open"]
        /\ \/ lock' = lock \/ lock' = [lock EXCEPT ![s] = "AE"]
           \/ lock' = [lock EXCEPT ![s] = "none"]
    BY Zenon, <1>6, <2>1, <2>2, <2>4, <2>5
  <2>7. CallsKept(s) /\ \A t \in Others(s) : pc'[t] = pc[t] /\ lock'[t] = lock[t]
    BY <1>0, <2>6 DEF CallsKept, Others
  <2> QED
    BY ZenonT(30), <1>2, <1>3, <2>7
<1>7. CASE Next
  BY ZenonT(60), <1>4, <1>5, <1>6, <1>7 DEF Next
<1> QED
  BY <1>1, <1>7
=============================================================================
