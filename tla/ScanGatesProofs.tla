-------------------------- MODULE ScanGatesProofs ---------------------------
(***************************************************************************)
(* What a query returns, for any number of readers, commits and rows: the  *)
(* rows of its snapshot if it read its flags under that snapshot, and the  *)
(* rows of the partition if the invalidations had time to arrive.          *)
(* ReaderOk is what a reader may rely on at each point of a statement; the *)
(* versions in hist are what CompressedDml leaves behind: their flags deny *)
(* no loose row and no tombstone.                                          *)
(***************************************************************************)
EXTENDS ScanGates, TLAPS

\* What the gates need of a version of the partition.
VersionOk(db) ==
  /\ db.heap \in SUBSET Row /\ db.seg \in [SegIds -> SUBSET Row]
  /\ db.tomb \in SUBSET Tombstone
  /\ {"has_loose_rows", "has_tombstones"} \subseteq DOMAIN db.cat
  /\ db.cat.has_loose_rows \in BOOLEAN /\ db.cat.has_tombstones \in BOOLEAN
  /\ db.heap # {} => db.cat.has_loose_rows
  /\ db.tomb # {} => db.cat.has_tombstones

\* The versions, and the heap file: once it held a row it stays used until TRUNCATE
\* gives the partition another one.
VersionsOk ==
  \A i \in 1..Latest :
    /\ VersionOk(hist[i].db)
    /\ hist[i].file \in Nat /\ hist[i].file <= Now.file
    /\ hist[i].file = Now.file /\ hist[i].db.heap # {} => used

IsList(h) == \E S : h \in Seq(S)

HistoryOk == IsList(hist) /\ Latest \in Nat \ {0} /\ used \in BOOLEAN /\ VersionsOk

ReaderTypes ==
  /\ inbox \in [Readers -> BOOLEAN] /\ DOMAIN flags = Readers
  /\ plan \in [Readers -> [node : Nodes \cup {"none"}, flat : BOOLEAN]]
  /\ valid \in [Readers -> BOOLEAN] /\ DOMAIN want = Readers /\ DOMAIN iso = Readers
  /\ at \in [Readers -> Places] /\ snap \in [Readers -> Nat]
  /\ held \in [Readers -> BOOLEAN] /\ tail \in [Readers -> BOOLEAN] /\ DOMAIN out = Readers
  /\ quiet \in [Readers -> BOOLEAN] /\ same \in [Readers -> BOOLEAN] /\ calm \in BOOLEAN

\* The map is what the catalog was under the snapshot it was loaded with ...
FlagsOk(f) == f = NotLoaded \/ (f.from \in 1..Latest /\ f = LoadedAt(f.from))

\* ... and says of the version db what its catalog row says.
Says(f, db) == f.loose = db.cat.has_loose_rows /\ f.tombs = db.cat.has_tombstones

FlagsFresh(r) ==
  calm /\ sending = "no" /\ ~inbox[r] /\ flags[r].loaded => Says(flags[r], Now.db)

Between == {"idle", "error"}

\* Snapshots: an old one needs a commit inside a statement or a REPEATABLE READ transaction.
SnapOk(r) ==
  /\ snap[r] \in 0..Latest
  /\ at[r] \notin Between => snap[r] # 0
  /\ at[r] = "error" \/ (at[r] = "idle" /\ iso[r] # "RR") => snap[r] = 0
  /\ calm /\ (InStatement(r) \/ iso[r] = "RR") /\ snap[r] # 0 => snap[r] = Latest

\* A quiet statement runs on the latest version, with nothing on its way to it.
QuietOk(r) ==
  quiet[r] => sending = "no" /\ ~inbox[r] /\ (at[r] \notin Between => snap[r] = Latest)

PlanOk(r) ==
  /\ plan[r] = NoPlan \/ plan[r].node \in Nodes
  /\ at[r] \in {"revalidate", "save", "start", "begin", "scan", "tail", "done"} =>
       plan[r].node \in Nodes

Base(r) == hist[snap[r]]

\* The flags of r, as far as it has consulted them, are those of its snapshot.
Right(r) == same[r] \/ (calm /\ quiet[r])

\* What the executor's start has settled about the snapshot's rows.
Settled(node, base, reads) ==
  /\ node = "append" => reads \/ base.db.heap = {}
  /\ node = "agg" => base.db.heap = {} /\ base.db.tomb = {}
  /\ node = "minmax" => base.db.tomb = {}
  /\ node \in {"decompress", "sorted"} =>
       reads \/ base.db.heap = {} \/ base.file # Now.file

ScanOk(r) ==
  Right(r) =>
    /\ at[r] \in {"scan", "tail"} => Settled(plan[r].node, Base(r), tail[r])
    /\ at[r] = "tail" => out[r] = LiveRows(Base(r).db, SegIds)
    /\ at[r] = "done" => out[r] = Content(Base(r).db)

\* A quiet statement is refused for what the catalog says now.
RefusedOk(r) ==
  at[r] = "error" /\ calm /\ quiet[r] =>
    \/ plan[r].node = "sorted"
    \/ plan[r].node = "agg" /\ (Now.db.cat.has_loose_rows \/ Now.db.cat.has_tombstones)
    \/ plan[r].node = "minmax" /\ Now.db.cat.has_tombstones

ReaderOk(r) ==
  /\ FlagsOk(flags[r]) /\ FlagsFresh(r) /\ SnapOk(r) /\ QuietOk(r) /\ PlanOk(r)
  /\ ScanOk(r) /\ RefusedOk(r)

GatesInv == HistoryOk /\ ReaderTypes /\ \A r \in Readers : ReaderOk(r)

(***************************************************************************)
(* The three properties follow.                                            *)
(***************************************************************************)
\* What the invariant says of a statement's result and of a refusal.
LEMMA InvImplies ==
  ASSUME GatesInv
  PROVE  MvccExact /\ CalmReadExact /\ RefusedIsStale
<1>1. MvccExact
  BY DEF GatesInv, ReaderOk, ScanOk, Right, Base, MvccExact
<1>2. CalmReadExact
  <2> SUFFICES ASSUME calm, NEW r \in Readers, at[r] = "done", quiet[r]
               PROVE  out[r] = Content(Now.db)
    BY DEF CalmReadExact, QuietReadExact
  <2>1. QuietOk(r) /\ ScanOk(r)
    BY DEF GatesInv, ReaderOk
  <2>2. snap[r] = Latest
    BY <2>1 DEF QuietOk, Between
  <2> QED
    BY <2>1, <2>2 DEF ScanOk, Right, Base, Now
<1>3. RefusedIsStale
  <2> SUFFICES ASSUME calm, NEW r \in Readers, at[r] = "error", quiet[r],
                      plan[r].node # "sorted"
               PROVE  plan[r].node # NodeFor(want[r], LoadedAt(Latest))
    BY DEF RefusedIsStale
  <2>1. RefusedOk(r)
    BY DEF GatesInv, ReaderOk
  <2>2. /\ LoadedAt(Latest).loose = Now.db.cat.has_loose_rows
        /\ LoadedAt(Latest).tombs = Now.db.cat.has_tombstones
    BY DEF LoadedAt, Now
  <2> QED
    BY <2>1, <2>2 DEF RefusedOk, NodeFor
<1> QED
  BY <1>1, <1>2, <1>3

\* The first version is the one there is.
LEMMA GatesInit ==
  ASSUME GatesAssumption, Init
  PROVE  GatesInv
<1>1. Latest = 1 /\ hist[1] = [db |-> FirstDb, file |-> 0] /\ Now = [db |-> FirstDb, file |-> 0]
      /\ hist \in Seq({[db |-> FirstDb, file |-> 0]})
  BY DEF Init, Latest, Now
<1>2. VersionOk(FirstDb)
  BY DEF GatesAssumption, VersionOk, Db, CatalogRow
<1>3. HistoryOk
  <2>1. IsList(hist)
    BY <1>1 DEF IsList
  <2>2. used = (FirstDb.heap # {})
    BY DEF Init
  <2>3. /\ \A i \in 1..Latest : i = 1
        /\ hist[1].db = FirstDb /\ hist[1].file = 0 /\ Now.file = 0
    BY <1>1
  <2>4. VersionsOk
    <3> SUFFICES ASSUME NEW i \in 1..Latest
                 PROVE  /\ VersionOk(hist[i].db)
                        /\ hist[i].file \in Nat /\ hist[i].file <= Now.file
                        /\ hist[i].file = Now.file /\ hist[i].db.heap # {} => used
      BY Zenon DEF VersionsOk
    <3>1. hist[i].db = FirstDb /\ hist[i].file = 0
      BY Zenon, <2>3
    <3>2. VersionOk(hist[i].db)
      BY Zenon, <1>2, <3>1
    <3>3. hist[i].file \in Nat /\ hist[i].file <= Now.file
      BY <2>3, <3>1
    <3>4. hist[i].db.heap # {} => used
      BY Zenon, <2>2, <3>1
    <3> QED
      BY Zenon, <3>2, <3>3, <3>4
  <2>5. Latest \in Nat \ {0} /\ used \in BOOLEAN
    BY <1>1, <2>2
  <2> QED
    BY Zenon, <2>1, <2>4, <2>5 DEF HistoryOk
<1>4. ReaderTypes
  BY DEF Init, ReaderTypes, Nodes, Places, NoPlan
<1>5. ASSUME NEW r \in Readers PROVE ReaderOk(r)
  <2>1. /\ flags[r] = NotLoaded /\ at[r] = "idle" /\ snap[r] = 0 /\ ~quiet[r]
        /\ plan[r] = NoPlan
    BY DEF Init
  <2>2. FlagsOk(flags[r]) /\ FlagsFresh(r)
    BY <2>1 DEF FlagsOk, FlagsFresh, NotLoaded
  <2>3. SnapOk(r) /\ QuietOk(r)
    BY <1>1, <2>1 DEF SnapOk, QuietOk, Between, InStatement
  <2>4. PlanOk(r) /\ ScanOk(r) /\ RefusedOk(r)
    BY <2>1 DEF PlanOk, ScanOk, RefusedOk
  <2> QED
    BY <2>2, <2>3, <2>4 DEF ReaderOk
<1> QED
  BY <1>3, <1>4, <1>5 DEF GatesInv

(***************************************************************************)
(* What writers leave.                                                     *)
(***************************************************************************)
\* The parts of the version x that a write set makes of v.
Makes(v, ws, c, x) ==
  /\ x.cat = c
  /\ ws.trunc = FALSE => x.heap = (v.heap \ ws.del) \cup ws.ins
  /\ ws.trunc = TRUE => x.heap = ({} \ ws.del) \cup ws.ins
  /\ ws.tTrunc = FALSE => x.tomb = (v.tomb \ ws.tDel) \cup ws.tIns
  /\ ws.tTrunc = TRUE => x.tomb = ({} \ ws.tDel) \cup ws.tIns

\* Apply makes it.
LEMMA AppliedParts ==
  ASSUME NEW v, NEW ws, NEW c
  PROVE  Makes(v, ws, c, Apply(v, ws, c))
BY DEF Makes, Apply

\* Segments hold rows.
LEMMA AppliedSegs ==
  ASSUME NEW v, NEW ws, NEW c, v.seg \in [SegIds -> SUBSET Row],
         ws.segNew \in [SegIds -> SUBSET Row]
  PROVE  Apply(v, ws, c).seg \in [SegIds -> SUBSET Row]
BY DEF Apply

\* A transaction that has written nothing.
LEMMA NothingWritten ==
  /\ NoWrites.trunc = FALSE /\ NoWrites.ins = {} /\ NoWrites.del = {} /\ NoWrites.segNew = NoSegs
  /\ NoWrites.segDel = {} /\ NoWrites.tTrunc = FALSE /\ NoWrites.tIns = {}
  /\ NoWrites.tDel = {} /\ NoWrites \in WriteSet
  /\ NoSegs \in [SegIds -> SUBSET Row]
<1>1. NoSegs \in [SegIds -> SUBSET Row]
  BY DEF NoSegs
<1> QED
  BY <1>1 DEF NoWrites, WriteSet

\* Live rows are rows.
LEMMA LiveAreRows ==
  ASSUME NEW v, NEW S
  PROVE  LiveRows(v, S) \in SUBSET Row
BY DEF LiveRows, LivePairs

\* An insert sets the flag that it needs.
LEMMA InsertVersion ==
  ASSUME NEW db, VersionOk(db), NEW row \in Row
  PROVE  VersionOk(Apply(db, InsertRows(NoWrites, {row}),
                         [db.cat EXCEPT !.has_loose_rows = TRUE]))
<1> DEFINE w == InsertRows(NoWrites, {row})
           c == [db.cat EXCEPT !.has_loose_rows = TRUE]
           v == Apply(db, w, c)
<1>1. /\ w.trunc = FALSE /\ w.ins = {row} /\ w.del = {} /\ w.segNew = NoSegs /\ w.segDel = {}
      /\ w.tTrunc = FALSE /\ w.tIns = {} /\ w.tDel = {}
  BY NothingWritten DEF InsertRows, WriteSet
<1>2. /\ c.has_loose_rows = TRUE /\ c.has_tombstones = db.cat.has_tombstones
      /\ DOMAIN c = DOMAIN db.cat
  BY DEF VersionOk
<1> HIDE DEF w, c
<1>3. /\ v.cat = c /\ v.heap = (db.heap \ w.del) \cup w.ins
      /\ v.tomb = (db.tomb \ w.tDel) \cup w.tIns
  <2>1. Makes(db, w, c, v)
    BY Zenon, AppliedParts
  <2> HIDE DEF v
  <2> QED
    BY Zenon, <1>1, <2>1 DEF Makes
<1>4. v.seg \in [SegIds -> SUBSET Row]
  BY Zenon, <1>1, NothingWritten, AppliedSegs DEF VersionOk
<1> HIDE DEF v
<1>5. VersionOk(v)
  BY ZenonT(30), <1>1, <1>2, <1>3, <1>4 DEF VersionOk
<1> QED
  BY Zenon, <1>5 DEF v, w, c

\* A DELETE with tombstones sets theirs.
LEMMA TombstonedVersion ==
  ASSUME NEW db, VersionOk(db), NEW T \in SUBSET Tombstone
  PROVE  VersionOk(Apply(db, InsertTombstones(NoWrites, T),
                         [db.cat EXCEPT !.has_tombstones = TRUE]))
<1> DEFINE w == InsertTombstones(NoWrites, T)
           c == [db.cat EXCEPT !.has_tombstones = TRUE]
           v == Apply(db, w, c)
<1>1. /\ w.trunc = FALSE /\ w.ins = {} /\ w.del = {} /\ w.segNew = NoSegs /\ w.segDel = {}
      /\ w.tTrunc = FALSE /\ w.tIns = T /\ w.tDel = {}
  BY NothingWritten DEF InsertTombstones, WriteSet
<1>2. /\ c.has_tombstones = TRUE /\ c.has_loose_rows = db.cat.has_loose_rows
      /\ DOMAIN c = DOMAIN db.cat
  BY DEF VersionOk
<1> HIDE DEF w, c
<1>3. /\ v.cat = c /\ v.heap = (db.heap \ w.del) \cup w.ins
      /\ v.tomb = (db.tomb \ w.tDel) \cup w.tIns
  <2>1. Makes(db, w, c, v)
    BY Zenon, AppliedParts
  <2> HIDE DEF v
  <2> QED
    BY Zenon, <1>1, <2>1 DEF Makes
<1>4. v.seg \in [SegIds -> SUBSET Row]
  BY Zenon, <1>1, NothingWritten, AppliedSegs DEF VersionOk
<1> HIDE DEF v
<1>5. VersionOk(v)
  BY ZenonT(30), <1>1, <1>2, <1>3, <1>4 DEF VersionOk
<1> QED
  BY Zenon, <1>5 DEF v, w, c

\* What decompose writes: live rows to the heap, segments and their tombstones away.
Decomposes(d, db, D) ==
  /\ d \in WriteSet
  /\ d.trunc = FALSE /\ d.ins = LiveRows(db, D) /\ d.del = {} /\ d.tTrunc = FALSE
  /\ d.tIns = {} /\ d.segNew = NoSegs

\* DecomposeWrites does that.
LEMMA DecomposeParts ==
  ASSUME NEW db, VersionOk(db), NEW D \in SUBSET SegIds
  PROVE  Decomposes(DecomposeWrites(NoWrites, db, D, {}), db, D)
<1> DEFINE L == LiveRows(db, D)
           w1 == InsertRows(NoWrites, L)
           S == (D \cup {}) \cap Segments(db)
           d == DeleteSegments(w1, db, S)
<1>1. S \in SUBSET SegIds /\ d = DecomposeWrites(NoWrites, db, D, {})
  BY Zenon DEF DecomposeWrites
<1>2. /\ w1.trunc = FALSE /\ w1.ins = L /\ w1.del = {} /\ w1.segNew = NoSegs /\ w1.segDel = {}
      /\ w1.tTrunc = FALSE /\ w1.tIns = {} /\ w1.tDel = {} /\ w1 \in WriteSet
  <2>1. L \in SUBSET Row
    BY LiveAreRows
  <2> HIDE DEF L
  <2> QED
    BY <2>1, NothingWritten DEF InsertRows, WriteSet
<1> HIDE DEF L, w1, S
<1>3. /\ d.trunc = FALSE /\ d.ins = L /\ d.del = {} /\ d.tTrunc = FALSE
  BY <1>2 DEF DeleteSegments, WriteSet
<1>4. d.tIns = {}
  BY <1>2 DEF DeleteSegments, WriteSet
<1>5. d.segNew = NoSegs
  BY <1>2 DEF DeleteSegments, WriteSet, NoSegs
<1>6. d \in WriteSet
  <2>1. {t \in db.tomb : t[1] \in S} \in SUBSET Tombstone
    BY DEF VersionOk
  <2>2. [i \in SegIds |-> IF i \in S THEN {} ELSE w1.segNew[i]] \in [SegIds -> SUBSET Row]
    BY <1>2 DEF WriteSet
  <2> QED
    BY Zenon, <1>1, <1>2, <2>1, <2>2 DEF DeleteSegments, WriteSet
<1> HIDE DEF d
<1> QED
  BY Zenon, <1>1, <1>3, <1>4, <1>5, <1>6 DEF L, Decomposes

\* The catalog row after a decompose.
LEMMA DecomposedCatalog ==
  ASSUME NEW db, VersionOk(db), NEW D
  PROVE  LET c == DecomposeCatalog(db.cat, db, D, {})
         IN  /\ c.has_loose_rows = (db.cat.has_loose_rows \/ LiveRows(db, D) # {})
             /\ c.has_tombstones = db.cat.has_tombstones
             /\ DOMAIN c = DOMAIN db.cat
BY DEF VersionOk, DecomposeCatalog

\* Heap deletes.
LEMMA DeletedParts ==
  ASSUME NEW ws \in WriteSet, NEW R
  PROVE  LET x == DeleteRows(ws, R)
         IN  /\ x.ins = ws.ins \ R /\ x.del = ws.del \cup R /\ x.trunc = ws.trunc
             /\ x.segNew = ws.segNew /\ x.segDel = ws.segDel
             /\ x.tTrunc = ws.tTrunc /\ x.tIns = ws.tIns /\ x.tDel = ws.tDel
             /\ R \in SUBSET Row => x \in WriteSet
BY ZenonT(30) DEF DeleteRows, WriteSet

\* Decompose raises the flag for the rows it puts in the heap.
LEMMA DecomposeVersion ==
  ASSUME NEW db, VersionOk(db), NEW D \in SUBSET SegIds, NEW R
  PROVE  VersionOk(Apply(db, DeleteRows(DecomposeWrites(NoWrites, db, D, {}), R),
                         DecomposeCatalog(db.cat, db, D, {})))
<1> DEFINE d == DecomposeWrites(NoWrites, db, D, {})
           w == DeleteRows(d, R)
           c == DecomposeCatalog(db.cat, db, D, {})
           v == Apply(db, w, c)
           L == LiveRows(db, D)
<1>1. Decomposes(d, db, D) /\ L \in SUBSET Row
  BY Zenon, DecomposeParts, LiveAreRows
<1>2. /\ c.has_loose_rows = (db.cat.has_loose_rows \/ L # {})
      /\ c.has_tombstones = db.cat.has_tombstones /\ DOMAIN c = DOMAIN db.cat
  BY Zenon, DecomposedCatalog
<1> HIDE DEF d, c, L
<1>3. /\ w.trunc = FALSE /\ w.ins = L \ R /\ w.del = {} \cup R /\ w.segNew = NoSegs
      /\ w.tTrunc = FALSE /\ w.tIns = {}
  <2>1. /\ d \in WriteSet /\ d.trunc = FALSE /\ d.ins = L /\ d.del = {} /\ d.tTrunc = FALSE
        /\ d.tIns = {} /\ d.segNew = NoSegs
    BY Zenon, <1>1 DEF Decomposes, L
  <2> QED
    BY <2>1 DEF DeleteRows, WriteSet
<1> HIDE DEF w
<1>4. /\ v.cat = c /\ v.heap = (db.heap \ w.del) \cup w.ins
      /\ v.tomb = (db.tomb \ w.tDel) \cup w.tIns
  <2>1. Makes(db, w, c, v)
    BY Zenon, AppliedParts
  <2> HIDE DEF v
  <2> QED
    BY Zenon, <1>3, <2>1 DEF Makes
<1>5. v.seg \in [SegIds -> SUBSET Row]
  BY Zenon, <1>3, NothingWritten, AppliedSegs DEF VersionOk
<1> HIDE DEF v
<1>6. VersionOk(v)
  BY ZenonT(30), <1>1, <1>2, <1>3, <1>4, <1>5 DEF VersionOk
<1> QED
  BY Zenon, <1>6 DEF v, w, c, d

\* Compaction leaves nothing in the heap and no tombstone, so it may lower both flags.
LEMMA CompactVersion ==
  ASSUME VersionOk(Now.db), NEW truncate \in BOOLEAN
  PROVE  VersionOk(Compacted(truncate))
<1> DEFINE db == Now.db
           T == {t[1] : t \in db.tomb}
           d == DecomposeWrites(NoWrites, db, T, {})
           wr == TruncateTombstones(d)
           vc == DecomposeCatalog(db.cat, db, T, {})
           v == Apply(db, wr, vc)
           n == HighWater(v, v.cat) + 1
           news == [i \in SegIds |-> IF i = n THEN v.heap ELSE {}]
           wh == IF truncate THEN TruncateHeap(wr) ELSE DeleteRows(wr, v.heap)
           wa == IF v.heap = {} THEN wh ELSE AddSegments(wh, news)
           c == [BumpCompaction(v.cat, Cardinality(v.heap)) EXCEPT
                   !.has_loose_rows = FALSE, !.has_tombstones = FALSE]
           x == Apply(db, wa, c)
<1>1. Compacted(truncate) = x
  BY Zenon DEF Compacted
<1>2. T \in SUBSET SegIds
  BY DEF VersionOk, Tombstone
<1>3. Decomposes(d, db, T) /\ LiveRows(db, T) \in SUBSET Row
  BY Zenon, <1>2, DecomposeParts, LiveAreRows
<1>4. DOMAIN vc = DOMAIN db.cat
  BY Zenon, DecomposedCatalog
<1> HIDE DEF db, T, d, vc
<1>5. /\ wr.trunc = FALSE /\ wr.ins = LiveRows(db, T) /\ wr.del = {} /\ wr.segNew = NoSegs
      /\ wr.tTrunc = TRUE /\ wr.tIns = {} /\ wr.tDel = {} /\ wr \in WriteSet
  BY ZenonT(30), <1>3 DEF Decomposes, TruncateTombstones, WriteSet
<1> HIDE DEF wr
<1>6. v.cat = vc /\ v.heap = (db.heap \ wr.del) \cup wr.ins
  <2>1. Makes(db, wr, vc, v)
    BY Zenon, AppliedParts
  <2> HIDE DEF v
  <2> QED
    BY Zenon, <1>5, <2>1 DEF Makes
<1>7. v.heap \in SUBSET Row
  BY <1>3, <1>5, <1>6 DEF VersionOk, db
<1> HIDE DEF v, n
<1>8. news \in [SegIds -> SUBSET Row]
  BY <1>7
<1>9. /\ wh \in WriteSet /\ wh.segNew = NoSegs /\ wh.tTrunc = TRUE /\ wh.tIns = {}
      /\ wh.tDel = {} /\ wh.ins = {}
      /\ wh.trunc = TRUE \/ (wh.trunc = FALSE /\ wh.del = {} \cup v.heap)
  <2>1. CASE truncate
    <3> DEFINE y == TruncateHeap(wr)
    <3>1. /\ y \in WriteSet /\ y.segNew = NoSegs /\ y.tTrunc = TRUE /\ y.tIns = {}
          /\ y.tDel = {} /\ y.ins = {} /\ y.trunc = TRUE
      BY ZenonT(30), <1>5 DEF TruncateHeap, WriteSet
    <3> QED
      BY Zenon, <2>1, <3>1
  <2>2. CASE ~truncate
    <3> DEFINE y == DeleteRows(wr, v.heap)
    <3>1. /\ y \in WriteSet /\ y.segNew = NoSegs /\ y.tTrunc = TRUE /\ y.tIns = {}
          /\ y.tDel = {} /\ y.ins = wr.ins \ v.heap /\ y.trunc = FALSE
          /\ y.del = wr.del \cup v.heap
      BY ZenonT(30), <1>5, <1>7, DeletedParts
    <3>2. wr.ins \ v.heap = {}
      BY <1>6
    <3> QED
      BY Zenon, <1>5, <2>2, <3>1, <3>2
  <2> QED
    BY Zenon, <2>1, <2>2
<1> HIDE DEF wh, news
<1>10. /\ wa.segNew \in [SegIds -> SUBSET Row] /\ wa.tTrunc = wh.tTrunc /\ wa.tIns = wh.tIns
       /\ wa.tDel = wh.tDel /\ wa.ins = wh.ins /\ wa.trunc = wh.trunc /\ wa.del = wh.del
  <2>1. CASE v.heap = {}
    BY Zenon, <1>9, <2>1, NothingWritten
  <2>2. CASE v.heap # {}
    <3> DEFINE y == AddSegments(wh, news)
    <3>1. /\ y.tTrunc = wh.tTrunc /\ y.tIns = wh.tIns
          /\ y.tDel = wh.tDel /\ y.ins = wh.ins /\ y.trunc = wh.trunc /\ y.del = wh.del
      BY <1>9 DEF AddSegments, WriteSet
    <3>2. y.segNew \in [SegIds -> SUBSET Row]
      BY <1>8, <1>9 DEF AddSegments, WriteSet
    <3> QED
      BY Zenon, <2>2, <3>1, <3>2
  <2> QED
    BY Zenon, <2>1, <2>2
<1>11. /\ c.has_loose_rows = FALSE /\ c.has_tombstones = FALSE /\ DOMAIN c = DOMAIN db.cat
  BY <1>4, <1>6 DEF VersionOk, BumpCompaction, db
<1> HIDE DEF wa, c
<1>12. Makes(db, wa, c, x)
  BY Zenon, AppliedParts
<1>13. x.seg \in [SegIds -> SUBSET Row]
  <2>1. db.seg \in [SegIds -> SUBSET Row]
    BY DEF VersionOk, db
  <2> QED
    BY Zenon, <1>10, <2>1, AppliedSegs
<1> HIDE DEF x
<1>14. x.cat = c /\ x.tomb = ({} \ wa.tDel) \cup wa.tIns
  BY Zenon, <1>9, <1>10, <1>12 DEF Makes
<1>15. x.heap = {}
  <2>1. CASE wa.trunc = TRUE
    <3>1. x.heap = ({} \ wa.del) \cup wa.ins
      BY Zenon, <1>12, <2>1 DEF Makes
    <3> QED
      BY <1>9, <1>10, <3>1
  <2>2. CASE wa.trunc = FALSE
    <3>1. x.heap = (db.heap \ wa.del) \cup wa.ins
      BY Zenon, <1>12, <2>2 DEF Makes
    <3>2. wa.del = {} \cup v.heap /\ wa.ins = {}
      BY Zenon, <1>9, <1>10, <2>2
    <3> QED
      BY <1>5, <1>6, <3>1, <3>2
  <2> QED
    BY Zenon, <1>9, <1>10, <2>1, <2>2
<1>16. VersionOk(x)
  BY ZenonT(30), <1>9, <1>10, <1>11, <1>13, <1>14, <1>15 DEF VersionOk, db
<1> QED
  BY Zenon, <1>1, <1>16

\* What ReaderOk says of r is the same before and after a step.
Still(r) ==
  /\ hist' = hist /\ sending' = sending /\ calm' = calm /\ iso' = iso
  /\ inbox'[r] = inbox[r] /\ flags'[r] = flags[r] /\ plan'[r] = plan[r]
  /\ at'[r] = at[r] /\ snap'[r] = snap[r] /\ tail'[r] = tail[r]
  /\ out'[r] = out[r] /\ quiet'[r] = quiet[r] /\ same'[r] = same[r]

\* So it stays true.
LEMMA StillOk ==
  ASSUME NEW r \in Readers, ReaderOk(r), Still(r)
  PROVE  ReaderOk(r)'
<1>1. /\ FlagsOk(flags[r]) /\ FlagsFresh(r) /\ SnapOk(r) /\ QuietOk(r) /\ PlanOk(r)
      /\ ScanOk(r) /\ RefusedOk(r)
  BY Zenon DEF ReaderOk
<1>2. /\ hist' = hist /\ sending' = sending /\ calm' = calm /\ iso' = iso
      /\ inbox'[r] = inbox[r] /\ flags'[r] = flags[r] /\ plan'[r] = plan[r]
      /\ at'[r] = at[r] /\ snap'[r] = snap[r] /\ tail'[r] = tail[r]
      /\ out'[r] = out[r] /\ quiet'[r] = quiet[r] /\ same'[r] = same[r]
  BY Zenon DEF Still
<1>3. Latest' = Latest /\ Now' = Now /\ Base(r)' = Base(r)
  BY Zenon, <1>2 DEF Latest, Now, Base
<1>4. FlagsOk(flags[r])' /\ FlagsFresh(r)'
  BY Zenon, <1>1, <1>2, <1>3 DEF FlagsOk, FlagsFresh, Says, LoadedAt
<1>5. SnapOk(r)' /\ QuietOk(r)' /\ PlanOk(r)'
  BY Zenon, <1>1, <1>2, <1>3 DEF SnapOk, QuietOk, PlanOk, InStatement
<1>6. ScanOk(r)' /\ RefusedOk(r)'
  BY Zenon, <1>1, <1>2, <1>3 DEF ScanOk, RefusedOk, Right, Settled
<1> QED
  BY Zenon, <1>4, <1>5, <1>6 DEF ReaderOk

(***************************************************************************)
(* Writers.                                                                *)
(***************************************************************************)
\* The two flags of a version are those of another.
SameFlags(db, old) ==
  /\ db.cat.has_loose_rows = old.cat.has_loose_rows
  /\ db.cat.has_tombstones = old.cat.has_tombstones

\* A commit adds a version and leaves the others alone.
LEMMA CommitAdds ==
  ASSUME HistoryOk, NEW db, NEW file \in Nat, NEW sends, NEW exclusive,
         Commit(db, file, sends, exclusive)
  PROVE  /\ IsList(hist') /\ Latest' = Latest + 1 /\ Latest \in Nat \ {0}
         /\ \A i \in 1..Latest : hist'[i] = hist[i]
         /\ hist'[Latest + 1] = [db |-> db, file |-> file]
         /\ Now' = [db |-> db, file |-> file]
<1> DEFINE e == [db |-> db, file |-> file]
<1>1. hist' = Append(hist, e)
  BY DEF Commit
<1>2. PICK S : hist \in Seq(S)
  BY DEF HistoryOk, IsList
<1> HIDE DEF e
<1>3. hist \in Seq(S \cup {e}) /\ e \in S \cup {e}
  BY <1>2
<1>4. /\ hist' \in Seq(S \cup {e}) /\ Len(hist') = Len(hist) + 1 /\ Len(hist) \in Nat
      /\ \A i \in 1..Len(hist) : hist'[i] = hist[i]
      /\ hist'[Len(hist) + 1] = e
  BY <1>1, <1>3
<1>5. IsList(hist')
  BY Zenon, <1>4 DEF IsList
<1>6. Now' = e /\ Latest' = Latest + 1
  BY <1>4 DEF Now, Latest
<1> QED
  BY <1>4, <1>5, <1>6 DEF e, Latest, HistoryOk

\* The versions stay in order: a file that comes back is the newest one.
LEMMA CommitHistory ==
  ASSUME HistoryOk, NEW db, NEW file \in Nat, NEW sends, NEW exclusive,
         Commit(db, file, sends, exclusive), VersionOk(db), Now.file <= file
  PROVE  HistoryOk'
<1>1. /\ IsList(hist') /\ Latest' = Latest + 1 /\ Latest \in Nat \ {0}
      /\ \A i \in 1..Latest : hist'[i] = hist[i]
      /\ hist'[Latest + 1] = [db |-> db, file |-> file]
      /\ Now' = [db |-> db, file |-> file]
  BY Zenon, CommitAdds
<1>2. used' = ((used /\ file = Now.file) \/ db.heap # {})
  BY DEF Commit
<1>3. used' \in BOOLEAN
  BY <1>2
<1>4. Now'.file = file /\ Now.file \in Nat
  BY <1>1 DEF HistoryOk, VersionsOk, Now
<1>5. ASSUME NEW i \in 1..Latest'
      PROVE  /\ VersionOk(hist'[i].db)
             /\ hist'[i].file \in Nat /\ hist'[i].file <= file
             /\ hist'[i].file = file /\ hist'[i].db.heap # {} => used'
  <2>1. CASE i = Latest + 1
    <3>1. hist'[i].db = db /\ hist'[i].file = file
      BY <1>1, <2>1
    <3>2. db.heap # {} => used'
      BY Zenon, <1>2
    <3>3. file <= file
      OBVIOUS
    <3> QED
      BY Zenon, <3>1, <3>2, <3>3
  <2>2. CASE i # Latest + 1
    <3>1. i \in 1..Latest /\ hist'[i] = hist[i]
      BY <1>1, <2>2
    <3>2. /\ VersionOk(hist[i].db) /\ hist[i].file \in Nat /\ hist[i].file <= Now.file
          /\ hist[i].file = Now.file /\ hist[i].db.heap # {} => used
      BY Zenon, <3>1 DEF HistoryOk, VersionsOk
    <3>3. hist[i].file <= file /\ (hist[i].file = file => hist[i].file = Now.file /\ file = Now.file)
      BY <1>4, <3>2
    <3> QED
      BY Zenon, <1>2, <3>1, <3>2, <3>3
  <2> QED
    BY Zenon, <2>1, <2>2
<1>6. VersionsOk'
  BY Zenon, <1>4, <1>5 DEF VersionsOk, VersionOk
<1> QED
  BY <1>1, <1>3, <1>6 DEF HistoryOk, IsList

\* A commit leaves a reader's flags and its snapshot what they were. A statement it falls
\* into is not quiet, and a map that it outdates has an invalidation coming.
LEMMA CommitReader ==
  ASSUME GatesInv, NEW db, NEW file \in Nat, NEW sends \in BOOLEAN, NEW exclusive,
         Commit(db, file, sends, exclusive), Now.file <= file,
         ~sends => SameFlags(db, Now.db), NEW r \in Readers
  PROVE  ReaderOk(r)'
<1>1. /\ IsList(hist') /\ Latest' = Latest + 1 /\ Latest \in Nat \ {0}
      /\ \A i \in 1..Latest : hist'[i] = hist[i]
      /\ hist'[Latest + 1] = [db |-> db, file |-> file]
      /\ Now' = [db |-> db, file |-> file]
  BY Zenon, CommitAdds DEF GatesInv
<1>2. /\ sending = "no" /\ sending' = (IF ~sends THEN "no" ELSE IF exclusive THEN "exclusive" ELSE "shared")
      /\ quiet'[r] = FALSE
      /\ calm' = (calm /\ \A x \in Readers : ~InStatement(x) /\ (iso[x] = "RR" => snap[x] = 0))
      /\ inbox' = inbox /\ flags' = flags /\ plan' = plan /\ iso' = iso /\ at' = at
      /\ snap' = snap /\ tail' = tail /\ out' = out /\ same' = same
  BY DEF Commit, planVars, scanVars
<1>3. /\ FlagsOk(flags[r]) /\ FlagsFresh(r) /\ SnapOk(r) /\ QuietOk(r) /\ PlanOk(r)
      /\ ScanOk(r) /\ RefusedOk(r)
  BY Zenon DEF GatesInv, ReaderOk
<1>4. FlagsOk(flags[r])'
  <2>1. \A v \in 1..Latest : LoadedAt(v)' = LoadedAt(v)
    BY ZenonT(30), <1>1 DEF LoadedAt
  <2>2. \A v : v \in 1..Latest => v \in 1..Latest'
    BY <1>1
  <2>3. CASE flags[r] = NotLoaded
    BY Zenon, <1>2, <2>3 DEF FlagsOk
  <2>4. CASE flags[r].from \in 1..Latest /\ flags[r] = LoadedAt(flags[r].from)
    <3>1. LoadedAt(flags[r].from)' = LoadedAt(flags[r].from)
      BY Zenon, <1>1, <1>2, <2>4 DEF LoadedAt
    <3> QED
      BY Zenon, <1>2, <2>2, <2>4, <3>1 DEF FlagsOk
  <2> QED
    BY Zenon, <1>3, <2>3, <2>4 DEF FlagsOk
<1>5. FlagsFresh(r)'
  <2> SUFFICES ASSUME calm', sending' = "no", ~inbox[r], flags[r].loaded
               PROVE  Says(flags[r], Now'.db)
    BY Zenon, <1>2 DEF FlagsFresh, Says
  <2>1. ~sends
    BY <1>2
  <2>2. Now'.db = db
    BY <1>1
  <2>3. Says(flags[r], Now.db)
    BY Zenon, <1>2, <1>3 DEF FlagsFresh
  <2> QED
    BY <2>1, <2>2, <2>3 DEF Says, SameFlags
<1>6. SnapOk(r)'
  <2>1. snap[r] \in 0..Latest'
    BY <1>1, <1>3 DEF SnapOk
  <2>2. calm' => ~InStatement(r) /\ (iso[r] = "RR" => snap[r] = 0)
    BY Zenon, <1>2
  <2> QED
    BY Zenon, <1>2, <1>3, <2>1, <2>2 DEF SnapOk, InStatement
<1>7. QuietOk(r)'
  BY <1>2 DEF QuietOk
<1>8. PlanOk(r)'
  BY Zenon, <1>2, <1>3 DEF PlanOk
<1>9. ScanOk(r)'
  <2> SUFFICES ASSUME Right(r)'
               PROVE  /\ at[r] \in {"scan", "tail"} => Settled(plan[r].node, Base(r), tail[r])'
                      /\ at[r] = "tail" => out[r] = LiveRows(Base(r)'.db, SegIds)
                      /\ at[r] = "done" => out[r] = Content(Base(r)'.db)
    BY Zenon, <1>2 DEF ScanOk, Settled
  <2>1. Right(r)
    BY Zenon, <1>2 DEF Right
  <2>2. at[r] \in {"scan", "tail", "done"} => snap[r] \in 1..Latest /\ Base(r)' = Base(r)
    BY <1>1, <1>2, <1>3 DEF SnapOk, Between, Base
  <2>3. at[r] \in {"scan", "tail"} => Settled(plan[r].node, Base(r), tail[r])
    BY Zenon, <1>3, <2>1 DEF ScanOk
  <2>4. ASSUME at[r] \in {"scan", "tail"}
        PROVE  Base(r).file # Now.file => Base(r).file # Now'.file
    <3>1. Base(r).file \in Nat /\ Base(r).file <= Now.file /\ Now.file \in Nat
      BY <1>1, <2>2, <2>4 DEF GatesInv, HistoryOk, VersionsOk, Base, Now
    <3>2. Now'.file = file
      BY <1>1
    <3> QED
      BY <3>1, <3>2
  <2>5. at[r] \in {"scan", "tail"} => Settled(plan[r].node, Base(r), tail[r])'
    BY Zenon, <1>2, <2>2, <2>3, <2>4 DEF Settled
  <2> QED
    BY Zenon, <1>3, <2>1, <2>2, <2>5 DEF ScanOk
<1>10. RefusedOk(r)'
  BY Zenon, <1>2 DEF RefusedOk
<1> QED
  BY Zenon, <1>4, <1>5, <1>6, <1>7, <1>8, <1>9, <1>10 DEF ReaderOk

\* So a commit keeps the invariant.
LEMMA CommitKeeps ==
  ASSUME GatesInv, NEW db, NEW file \in Nat, NEW sends \in BOOLEAN, NEW exclusive,
         Commit(db, file, sends, exclusive), VersionOk(db), Now.file <= file,
         ~sends => SameFlags(db, Now.db)
  PROVE  GatesInv'
<1>1. HistoryOk'
  BY Zenon, CommitHistory DEF GatesInv
<1>2. ReaderTypes'
  BY DEF GatesInv, ReaderTypes, Commit, planVars, scanVars
<1>3. ASSUME NEW r \in Readers
      PROVE  ReaderOk(r)'
  BY Zenon, CommitReader
<1> QED
  BY Zenon, <1>1, <1>2, <1>3 DEF GatesInv

\* The invariant holds of the newest version.
LEMMA NowOk ==
  ASSUME GatesInv
  PROVE  VersionOk(Now.db) /\ Now.file \in Nat /\ Latest \in 1..Latest
BY DEF GatesInv, HistoryOk, VersionsOk, Now

\* Every writer's commit is one of those.
LEMMA WriterKeeps ==
  ASSUME GatesInv, WriterStep
  PROVE  GatesInv'
<1>1. VersionOk(Now.db) /\ Now.file \in Nat
  BY Zenon, NowOk
<1>2. Now.file <= Now.file
  BY <1>1
<1>3. ASSUME NEW row \in Row, Insert(row)
      PROVE  GatesInv'
  <2> DEFINE db == Apply(Now.db, InsertRows(NoWrites, {row}),
                         [Now.db.cat EXCEPT !.has_loose_rows = TRUE])
             sends == ~Now.db.cat.has_loose_rows
  <2>1. VersionOk(db) /\ Commit(db, Now.file, sends, FALSE) /\ sends \in BOOLEAN
    BY Zenon, <1>1, <1>3, InsertVersion DEF Insert
  <2>2. ~sends => SameFlags(db, Now.db)
    <3>1. db.cat = [Now.db.cat EXCEPT !.has_loose_rows = TRUE]
      BY DEF Apply
    <3>2. /\ db.cat.has_loose_rows = TRUE
          /\ db.cat.has_tombstones = Now.db.cat.has_tombstones
          /\ Now.db.cat.has_loose_rows \in BOOLEAN
      <4> HIDE DEF db
      <4> QED
        BY <1>1, <3>1 DEF VersionOk
    <3> QED
      BY Zenon, <3>2 DEF SameFlags
  <2> HIDE DEF db, sends
  <2> QED
    BY Zenon, <1>1, <1>2, <2>1, <2>2, CommitKeeps
<1>4. ASSUME NEW T \in SUBSET Tombstone, Tombstoned(T)
      PROVE  GatesInv'
  <2> DEFINE db == Apply(Now.db, InsertTombstones(NoWrites, T),
                         [Now.db.cat EXCEPT !.has_tombstones = TRUE])
  <2>1. VersionOk(db) /\ Commit(db, Now.file, TRUE, FALSE)
    BY Zenon, <1>1, <1>4, TombstonedVersion DEF Tombstoned
  <2> HIDE DEF db
  <2> QED
    BY Zenon, <1>1, <1>2, <2>1, CommitKeeps
<1>5. ASSUME NEW D \in SUBSET SegIds, NEW R \in SUBSET Row, Decompose(D, R)
      PROVE  GatesInv'
  <2> DEFINE db == Apply(Now.db, DeleteRows(DecomposeWrites(NoWrites, Now.db, D, {}), R),
                         DecomposeCatalog(Now.db.cat, Now.db, D, {}))
  <2>1. VersionOk(db) /\ Commit(db, Now.file, TRUE, TRUE)
    BY Zenon, <1>1, <1>5, DecomposeVersion DEF Decompose
  <2> HIDE DEF db
  <2> QED
    BY Zenon, <1>1, <1>2, <2>1, CommitKeeps
<1>6. ASSUME NEW truncate \in BOOLEAN, Compact(truncate)
      PROVE  GatesInv'
  <2> DEFINE db == Compacted(truncate)
             file == Now.file + (IF truncate THEN 1 ELSE 0)
  <2>1. VersionOk(db) /\ Commit(db, file, TRUE, TRUE)
    BY Zenon, <1>1, <1>6, CompactVersion DEF Compact
  <2>2. file \in Nat /\ Now.file <= file
    BY <1>1
  <2> HIDE DEF db, file
  <2> QED
    BY Zenon, <2>1, <2>2, CommitKeeps
<1>7. CASE RolledBackInsert
  <2>1. HistoryOk'
    BY Zenon, <1>7 DEF GatesInv, HistoryOk, VersionsOk, RolledBackInsert, Latest, Now, VersionOk
  <2>2. ReaderTypes'
    BY Zenon, <1>7 DEF GatesInv, ReaderTypes, RolledBackInsert, planVars, scanVars
  <2>3. ASSUME NEW r \in Readers
        PROVE  ReaderOk(r)'
    <3>1. Still(r)
      BY Zenon, <1>7 DEF RolledBackInsert, planVars, scanVars, Still
    <3> QED
      BY Zenon, <3>1, StillOk DEF GatesInv
  <2> QED
    BY Zenon, <2>1, <2>2, <2>3 DEF GatesInv
<1> QED
  BY Zenon, <1>3, <1>4, <1>5, <1>6, <1>7 DEF WriterStep

\* The invalidation reaches every inbox: there is no quiet statement while it is due.
LEMMA SendKeeps ==
  ASSUME GatesInv, SendInvals
  PROVE  GatesInv'
<1>1. HistoryOk'
  BY Zenon DEF GatesInv, HistoryOk, VersionsOk, SendInvals, Latest, Now, VersionOk
<1>2. ReaderTypes'
  BY DEF GatesInv, ReaderTypes, SendInvals, planVars, scanVars
<1>3. ASSUME NEW r \in Readers
      PROVE  ReaderOk(r)'
  <2>1. ReaderOk(r)
    BY Zenon DEF GatesInv
  <2>2. Base(r)' = Base(r) /\ Latest' = Latest /\ Now' = Now
    BY Zenon DEF SendInvals, Base, Latest, Now
  <2>3. /\ sending # "no" /\ quiet' = quiet /\ calm' = calm
        /\ inbox'[r] /\ flags' = flags /\ plan' = plan /\ iso' = iso /\ at' = at
        /\ snap' = snap /\ tail' = tail /\ out' = out /\ same' = same /\ hist' = hist
    BY DEF SendInvals, planVars, scanVars
  <2> QED
    BY ZenonT(30), <2>1, <2>2, <2>3
    DEF ReaderOk, FlagsOk, FlagsFresh, Says, SnapOk, QuietOk, PlanOk, ScanOk, RefusedOk,
        Right, Settled, LoadedAt, InStatement
<1> QED
  BY Zenon, <1>1, <1>2, <1>3 DEF GatesInv

(***************************************************************************)
(* Readers: a step of r is r's own.                                        *)
(***************************************************************************)
\* What ReaderOk asks of the others does not change.
Alone(r) ==
  /\ hist' = hist /\ used' = used /\ sending' = sending /\ calm' = calm /\ iso' = iso
  /\ \A x \in Readers : x # r => Still(x)

\* What a step of r may do to its map: drop it, keep it, or load it.
FlagsMove(r) ==
  \/ flags'[r] = NotLoaded
  \/ flags'[r] = flags[r] /\ (inbox[r] => inbox'[r])
  \/ InStatement(r) /\ flags'[r] = LoadedAt(snap[r])

\* So a step keeps the invariant if it leaves r as ReaderOk says.
LEMMA OthersStay ==
  ASSUME GatesInv, NEW r \in Readers, Alone(r), ReaderTypes', ReaderOk(r)'
  PROVE  GatesInv'
<1>1. Latest' = Latest /\ Now' = Now
  BY Zenon DEF Alone, Latest, Now
<1>2. HistoryOk'
  BY Zenon, <1>1 DEF GatesInv, HistoryOk, VersionsOk, VersionOk, Alone
<1>3. ASSUME NEW x \in Readers, x # r
      PROVE  ReaderOk(x)'
  BY Zenon, <1>3, StillOk DEF GatesInv, Alone
<1> QED
  BY Zenon, <1>2, <1>3 DEF GatesInv

\* The snapshot of a statement is a version, and the newest while things are calm.
LEMMA SnapIsVersion ==
  ASSUME GatesInv, NEW r \in Readers, at[r] \notin Between
  PROVE  /\ snap[r] \in 1..Latest /\ VersionOk(Base(r).db)
         /\ calm /\ InStatement(r) => snap[r] = Latest
         /\ Base(r).file = Now.file /\ Base(r).db.heap # {} => used
         /\ snap[r] = Latest => Base(r) = Now
<1>1. snap[r] \in 1..Latest
  BY DEF GatesInv, ReaderOk, SnapOk, HistoryOk
<1>2. calm /\ InStatement(r) => snap[r] = Latest
  BY <1>1 DEF GatesInv, ReaderOk, SnapOk
<1>3. VersionOk(Base(r).db) /\ (Base(r).file = Now.file /\ Base(r).db.heap # {} => used)
  BY Zenon, <1>1 DEF GatesInv, HistoryOk, VersionsOk, Base
<1> QED
  BY Zenon, <1>1, <1>2, <1>3 DEF Base, Now

\* The map stays what its snapshot said, and stays fresh.
LEMMA FlagsKept ==
  ASSUME GatesInv, NEW r \in Readers, Alone(r), FlagsMove(r)
  PROVE  FlagsOk(flags[r])' /\ FlagsFresh(r)'
<1>1. Latest' = Latest /\ Now' = Now
  BY Zenon DEF Alone, Latest, Now
<1>2. hist' = hist /\ calm' = calm /\ sending' = sending
  BY Zenon DEF Alone
<1>3. FlagsOk(flags[r]) /\ FlagsFresh(r)
  BY Zenon DEF GatesInv, ReaderOk
<1>4. CASE flags'[r] = NotLoaded
  <2>1. ~NotLoaded.loaded
    BY DEF NotLoaded
  <2> QED
    BY Zenon, <1>4, <2>1 DEF FlagsOk, FlagsFresh
<1>5. CASE flags'[r] = flags[r] /\ (inbox[r] => inbox'[r])
  BY Zenon, <1>1, <1>2, <1>3, <1>5 DEF FlagsOk, FlagsFresh, LoadedAt, Says
<1>6. CASE InStatement(r) /\ flags'[r] = LoadedAt(snap[r])
  <2>1. snap[r] \in 1..Latest /\ (calm => snap[r] = Latest)
    BY Zenon, <1>6, SnapIsVersion DEF InStatement, Between
  <2> DEFINE f == flags'[r]
  <2>2. /\ f.from = snap[r] /\ f.loose = hist[snap[r]].db.cat.has_loose_rows
        /\ f.tombs = hist[snap[r]].db.cat.has_tombstones
    BY <1>6 DEF LoadedAt
  <2>3. FlagsOk(flags[r])'
    BY Zenon, <1>1, <1>2, <1>6, <2>1, <2>2 DEF FlagsOk, LoadedAt
  <2>4. FlagsFresh(r)'
    BY Zenon, <1>1, <1>2, <2>1, <2>2 DEF FlagsFresh, Says, Now
  <2> QED
    BY <2>3, <2>4
<1> QED
  BY Zenon, <1>4, <1>5, <1>6 DEF FlagsMove

\* Looking a flag up moves the map in one of those ways.
LEMMA LookupMoves ==
  ASSUME GatesInv, NEW r \in Readers, InStatement(r), flags'[r] = Lookup(flags[r], snap[r]),
         inbox' = inbox
  PROVE  FlagsMove(r)
BY Zenon DEF Lookup, FlagsMove

\* A flag read under the scan's snapshot, or in a quiet statement, is the snapshot's.
LEMMA ConsultRight ==
  ASSUME GatesInv, NEW r \in Readers, at[r] \in {"begin", "scan", "tail"},
         \/ Lookup(flags[r], snap[r]).from = snap[r]
         \/ calm /\ quiet[r]
  PROVE  Says(Lookup(flags[r], snap[r]), Base(r).db)
<1>1. at[r] \notin Between /\ InStatement(r)
  BY DEF Between, InStatement
<1>2. snap[r] \in 1..Latest /\ (calm => snap[r] = Latest) /\ (snap[r] = Latest => Base(r) = Now)
  BY Zenon, <1>1, SnapIsVersion
<1>3. Says(LoadedAt(snap[r]), Base(r).db)
  BY DEF Says, LoadedAt, Base
<1>4. CASE ~flags[r].loaded
  BY Zenon, <1>3, <1>4 DEF Lookup
<1>5. CASE flags[r].loaded
  <2>1. Lookup(flags[r], snap[r]) = flags[r]
    BY Zenon, <1>5 DEF Lookup
  <2>2. flags[r] # NotLoaded
    BY <1>5 DEF NotLoaded
  <2>3. flags[r] = LoadedAt(flags[r].from)
    BY Zenon, <2>2 DEF GatesInv, ReaderOk, FlagsOk
  <2>4. CASE flags[r].from = snap[r]
    BY Zenon, <1>3, <2>1, <2>3, <2>4
  <2>5. CASE calm /\ quiet[r]
    <3>1. sending = "no" /\ ~inbox[r]
      BY Zenon, <2>5 DEF GatesInv, ReaderOk, QuietOk
    <3>2. Says(flags[r], Now.db)
      BY Zenon, <1>5, <2>5, <3>1 DEF GatesInv, ReaderOk, FlagsFresh
    <3> QED
      BY Zenon, <1>2, <2>1, <2>5, <3>2
  <2> QED
    BY Zenon, <2>1, <2>4, <2>5
<1> QED
  BY Zenon, <1>4, <1>5

\* Before the executor starts, and between statements, nothing is owed about rows.
LEMMA BeforeScan ==
  ASSUME GatesInv, NEW r \in Readers, Alone(r), ReaderTypes', FlagsMove(r),
         at'[r] \in {"idle", "revalidate", "gate", "expand", "save", "start", "begin"},
         SnapOk(r)', QuietOk(r)', PlanOk(r)'
  PROVE  GatesInv'
<1>1. FlagsOk(flags[r])' /\ FlagsFresh(r)'
  BY Zenon, FlagsKept
<1>2. ScanOk(r)' /\ RefusedOk(r)'
  BY DEF ScanOk, RefusedOk
<1>3. ReaderOk(r)'
  BY Zenon, <1>1, <1>2 DEF ReaderOk
<1> QED
  BY Zenon, <1>3, OthersStay

\* The planner always finds a node.
LEMMA NodeForIsNode ==
  ASSUME NEW q, NEW f
  PROVE  NodeFor(q, f) \in Nodes
BY DEF NodeFor, Nodes

\* What is known of a reader.
LEMMA ReaderFacts ==
  ASSUME GatesInv, NEW r \in Readers
  PROVE  /\ FlagsOk(flags[r]) /\ FlagsFresh(r) /\ SnapOk(r) /\ QuietOk(r) /\ PlanOk(r)
         /\ ScanOk(r) /\ RefusedOk(r) /\ ReaderTypes
         /\ Latest \in Nat /\ snap[r] \in Nat /\ at[r] \in Places
         /\ inbox[r] \in BOOLEAN /\ quiet[r] \in BOOLEAN
BY DEF GatesInv, ReaderOk, ReaderTypes, HistoryOk

\* Processing an invalidation drops the map and nothing else.
LEMMA AcceptKeeps ==
  ASSUME GatesInv, NEW r \in Readers, AcceptInvals(r)
  PROVE  GatesInv'
<1>1. /\ SnapOk(r) /\ QuietOk(r) /\ PlanOk(r) /\ ScanOk(r) /\ RefusedOk(r) /\ ReaderTypes
  BY Zenon, ReaderFacts
<1>2. Alone(r)
  BY <1>1 DEF AcceptInvals, Alone, Still, ReaderTypes, writerVars, scanVars
<1>3. ReaderTypes'
  BY <1>1 DEF AcceptInvals, ReaderTypes, writerVars, scanVars, ValidAfter
<1>4. /\ ~inbox'[r] /\ flags'[r] = NotLoaded /\ plan' = plan /\ at' = at /\ snap' = snap
      /\ tail' = tail /\ out' = out /\ quiet' = quiet /\ same' = same /\ iso' = iso
      /\ hist' = hist /\ calm' = calm /\ sending' = sending
  BY <1>1 DEF AcceptInvals, ReaderTypes, writerVars, scanVars
<1>5. FlagsOk(flags[r])' /\ FlagsFresh(r)'
  BY Zenon, <1>2, <1>4, FlagsKept DEF FlagsMove
<1>6. Latest' = Latest /\ Now' = Now /\ Base(r)' = Base(r)
  BY Zenon, <1>4 DEF Latest, Now, Base
<1>7. SnapOk(r)' /\ QuietOk(r)' /\ PlanOk(r)'
  BY Zenon, <1>1, <1>4, <1>6 DEF SnapOk, QuietOk, PlanOk, InStatement
<1>8. ScanOk(r)' /\ RefusedOk(r)'
  BY Zenon, <1>1, <1>4, <1>6 DEF ScanOk, RefusedOk, Right, Settled
<1>9. ReaderOk(r)'
  BY Zenon, <1>5, <1>7, <1>8 DEF ReaderOk
<1> QED
  BY Zenon, <1>2, <1>3, <1>9, OthersStay

\* A statement begins with the newest snapshot, or that of its transaction.
LEMMA EnterKeeps ==
  ASSUME GatesInv, NEW r \in Readers, NEW place \in {"gate", "revalidate"},
         at[r] \in Between, place = "revalidate" => plan[r] # NoPlan,
         Enter(r, place), iso' = iso, DOMAIN want' = Readers, valid' \in [Readers -> BOOLEAN]
  PROVE  GatesInv'
<1>1. /\ FlagsOk(flags[r]) /\ SnapOk(r) /\ QuietOk(r) /\ PlanOk(r) /\ ReaderTypes
      /\ Latest \in Nat /\ snap[r] \in Nat
  BY Zenon, ReaderFacts
<1>2. Alone(r)
  BY <1>1 DEF Enter, Alone, Still, ReaderTypes, writerVars
<1> DEFINE v == IF snap[r] = 0 THEN Latest ELSE snap[r]
<1>3. /\ snap'[r] = v /\ at'[r] = place /\ quiet'[r] = (sending = "no" /\ v = Latest)
      /\ ~inbox'[r] /\ flags'[r] = FlagsAfter(r) /\ plan' = plan
      /\ hist' = hist /\ calm' = calm /\ sending' = sending
  BY <1>1 DEF Enter, ReaderTypes, writerVars
<1>4. v \in Nat /\ v \in 0..Latest /\ v # 0
  BY <1>1 DEF SnapOk, GatesInv, HistoryOk
<1>5. ReaderTypes'
  <2> HIDE DEF v
  <2>1. /\ snap' = [snap EXCEPT ![r] = v] /\ at' = [at EXCEPT ![r] = place]
        /\ quiet' = [quiet EXCEPT ![r] = sending = "no" /\ v = Latest]
        /\ inbox' = [inbox EXCEPT ![r] = FALSE]
        /\ flags' = [flags EXCEPT ![r] = FlagsAfter(r)]
        /\ tail' = [tail EXCEPT ![r] = FALSE]
        /\ out' = [out EXCEPT ![r] = {}]
        /\ same' = [same EXCEPT ![r] = TRUE]
        /\ plan' = plan /\ held' = held /\ calm' = calm
    BY Zenon DEF Enter, v, writerVars
  <2>2. place \in Places
    BY DEF Places
  <2> QED
    BY <1>1, <1>4, <2>1, <2>2 DEF ReaderTypes
<1>6. FlagsMove(r)
  BY Zenon, <1>3 DEF FlagsMove, FlagsAfter
<1>7. Latest' = Latest
  BY <1>3 DEF Latest
<1>8. SnapOk(r)'
  <2>1. calm => v = Latest
    BY <1>1 DEF SnapOk, Between
  <2> HIDE DEF v
  <2> QED
    BY <1>3, <1>4, <1>7, <2>1 DEF SnapOk, Between
<1>9. QuietOk(r)'
  <2> HIDE DEF v
  <2> QED
    BY ZenonT(30), <1>3, <1>7 DEF QuietOk
<1>10. PlanOk(r)'
  BY <1>1, <1>3 DEF PlanOk
<1> QED
  BY Zenon, <1>2, <1>3, <1>5, <1>6, <1>8, <1>9, <1>10, BeforeScan

\* A new statement begins.
LEMMA QueryKeeps ==
  ASSUME GatesInv, NEW r \in Readers, NEW q, Query(r, q)
  PROVE  GatesInv'
<1>1. ReaderTypes
  BY Zenon, ReaderFacts
<1>2. DOMAIN want' = Readers /\ valid' \in [Readers -> BOOLEAN]
  BY <1>1 DEF Query, ReaderTypes
<1>3. at[r] \in Between /\ Enter(r, "gate") /\ iso' = iso
  BY Zenon DEF Query, Between
<1>4. "gate" # "revalidate"
  OBVIOUS
<1> QED
  BY Zenon, <1>2, <1>3, <1>4, EnterKeeps

\* A prepared statement begins.
LEMMA ExecuteKeeps ==
  ASSUME GatesInv, NEW r \in Readers, Execute(r)
  PROVE  GatesInv'
<1>1. ReaderTypes
  BY Zenon, ReaderFacts
<1>2. DOMAIN want' = Readers /\ valid' \in [Readers -> BOOLEAN]
  BY <1>1 DEF Execute, ReaderTypes, ValidAfter
<1>3. at[r] \in Between /\ Enter(r, "revalidate") /\ iso' = iso /\ plan[r] # NoPlan
  BY Zenon DEF Execute, Between
<1> QED
  BY Zenon, <1>2, <1>3, EnterKeeps

\* Planning and the executor's start: the snapshot stays the statement's, or becomes the
\* newest one.
LEMMA PlanningKeeps ==
  ASSUME GatesInv, NEW r \in Readers, Alone(r), ReaderTypes', FlagsMove(r),
         at[r] \in {"revalidate", "gate", "expand", "save", "start"},
         at'[r] \in {"gate", "expand", "save", "start", "begin"},
         quiet'[r] = quiet[r], inbox'[r] => inbox[r],
         snap'[r] \in {snap[r], Latest}, iso[r] = "RR" => snap'[r] = snap[r],
         plan'[r] = plan[r] \/ plan'[r].node \in Nodes,
         at'[r] \in {"save", "start", "begin"} => plan'[r].node \in Nodes
  PROVE  GatesInv'
<1>1. /\ SnapOk(r) /\ QuietOk(r) /\ PlanOk(r) /\ Latest \in Nat
  BY Zenon, ReaderFacts
<1>2. at[r] \notin Between /\ InStatement(r) /\ at'[r] \notin Between
  BY DEF Between, InStatement
<1>3. snap[r] \in 1..Latest /\ (calm => snap[r] = Latest)
  BY Zenon, <1>2, SnapIsVersion
<1>4. Latest' = Latest /\ calm' = calm /\ sending' = sending /\ iso' = iso
  BY Zenon DEF Alone, Latest
<1>5. SnapOk(r)'
  <2>1. snap'[r] \in 0..Latest /\ snap'[r] # 0 /\ (calm => snap'[r] = Latest)
    BY <1>1, <1>3
  <2>2. at'[r] # "error" /\ at'[r] # "idle"
    BY <1>2 DEF Between
  <2> QED
    BY Zenon, <1>4, <2>1, <2>2 DEF SnapOk
<1>6. QuietOk(r)'
  BY ZenonT(30), <1>1, <1>2, <1>4 DEF QuietOk
<1>7. PlanOk(r)'
  BY <1>1 DEF PlanOk
<1> QED
  BY Zenon, <1>5, <1>6, <1>7, BeforeScan

\* The plan cache.
LEMMA RevalidateKeeps ==
  ASSUME GatesInv, NEW r \in Readers, Revalidate(r)
  PROVE  GatesInv'
<1>1. ReaderTypes /\ PlanOk(r)
  BY Zenon, ReaderFacts
<1>2. Alone(r)
  BY <1>1 DEF Revalidate, Alone, Still, ReaderTypes, writerVars, scanVars
<1>3. ReaderTypes'
  BY <1>1 DEF Revalidate, ReaderTypes, writerVars, scanVars, ValidAfter, Places
<1>4. /\ at[r] = "revalidate" /\ at'[r] \in {"start", "gate"} /\ flags'[r] = FlagsAfter(r)
      /\ ~inbox'[r] /\ snap'[r] = snap[r] /\ quiet'[r] = quiet[r] /\ plan'[r] = plan[r]
  BY <1>1 DEF Revalidate, ReaderTypes, scanVars
<1>5. FlagsMove(r)
  BY Zenon, <1>4 DEF FlagsMove, FlagsAfter
<1>6. plan[r].node \in Nodes
  BY <1>1, <1>4 DEF PlanOk
<1>7. at'[r] \in {"gate", "expand", "save", "start", "begin"}
  BY <1>4
<1> QED
  BY Zenon, <1>2, <1>3, <1>4, <1>5, <1>6, <1>7, PlanningKeeps

\* The gate before any lock.
LEMMA GateKeeps ==
  ASSUME GatesInv, NEW r \in Readers, Gate(r)
  PROVE  GatesInv'
<1> DEFINE f == Lookup(flags[r], snap[r])
           flat == Flatten /\ want[r] \in TableQueries /\ ~f.loose /\ ~f.tombs
           node == NodeFor(want[r], f)
<1>1. ReaderTypes /\ node \in Nodes
  BY Zenon, ReaderFacts, NodeForIsNode
<1>2. /\ at[r] = "gate" /\ flags' = [flags EXCEPT ![r] = f]
      /\ plan' = (IF flat THEN [plan EXCEPT ![r] = [node |-> node, flat |-> TRUE]] ELSE plan)
      /\ at' = [at EXCEPT ![r] = IF flat THEN "save" ELSE "expand"]
      /\ UNCHANGED <<writerVars, inbox, valid, iso, want, snap, held, scanVars, quiet>>
  BY Zenon DEF Gate
<1> HIDE DEF f, flat, node
<1>3. Alone(r)
  BY ZenonT(30), <1>1, <1>2 DEF Alone, Still, ReaderTypes, writerVars, scanVars
<1>4. ReaderTypes'
  BY <1>1, <1>2 DEF ReaderTypes, writerVars, scanVars, Places
<1>5. /\ at[r] = "gate" /\ at'[r] \in {"save", "expand"} /\ flags'[r] = f
      /\ inbox' = inbox /\ snap' = snap /\ quiet' = quiet
      /\ plan'[r] = plan[r] \/ plan'[r].node \in Nodes
      /\ at'[r] = "save" => plan'[r].node \in Nodes
  BY <1>1, <1>2 DEF ReaderTypes, scanVars
<1>6. FlagsMove(r)
  BY Zenon, <1>5, LookupMoves DEF f, InStatement
<1>7. /\ at[r] \in {"revalidate", "gate", "expand", "save", "start"}
      /\ at'[r] \in {"gate", "expand", "save", "start", "begin"}
      /\ at'[r] \in {"save", "start", "begin"} => plan'[r].node \in Nodes
  BY <1>5
<1> QED
  BY Zenon, <1>3, <1>4, <1>5, <1>6, <1>7, PlanningKeeps

\* The gates after the lock.
LEMMA ExpandKeeps ==
  ASSUME GatesInv, NEW r \in Readers, Expand(r)
  PROVE  GatesInv'
<1> DEFINE f == Lookup(FlagsAfter(r), snap[r])
           node == NodeFor(want[r], f)
<1>1. ReaderTypes /\ node \in Nodes
  BY Zenon, ReaderFacts, NodeForIsNode
<1>2. /\ at[r] = "expand" /\ held' = [held EXCEPT ![r] = TRUE]
      /\ inbox' = [inbox EXCEPT ![r] = FALSE] /\ flags' = [flags EXCEPT ![r] = f]
      /\ plan' = [plan EXCEPT ![r] = [node |-> node, flat |-> FALSE]]
      /\ at' = [at EXCEPT ![r] = "save"]
      /\ UNCHANGED <<writerVars, valid, iso, want, snap, scanVars, quiet>>
  BY Zenon DEF Expand
<1>3. FlagsMove(r)
  <2>1. flags'[r] = f
    BY <1>1, <1>2 DEF ReaderTypes
  <2>2. InStatement(r)
    BY <1>2 DEF InStatement
  <2>3. ~NotLoaded.loaded
    BY DEF NotLoaded
  <2>4. CASE inbox[r]
    <3>1. f = LoadedAt(snap[r])
      BY Zenon, <2>3, <2>4 DEF Lookup, FlagsAfter
    <3> QED
      BY Zenon, <2>1, <2>2, <3>1 DEF FlagsMove
  <2>5. CASE ~inbox[r]
    <3>1. f = flags[r] \/ f = LoadedAt(snap[r])
      BY Zenon, <2>5 DEF Lookup, FlagsAfter
    <3> QED
      BY Zenon, <2>1, <2>2, <2>5, <3>1 DEF FlagsMove
  <2> QED
    BY Zenon, <2>4, <2>5
<1> HIDE DEF f, node
<1>4. Alone(r)
  BY ZenonT(30), <1>1, <1>2 DEF Alone, Still, ReaderTypes, writerVars, scanVars
<1>5. ReaderTypes'
  BY <1>1, <1>2 DEF ReaderTypes, writerVars, scanVars, Places
<1>6. /\ at'[r] = "save" /\ ~inbox'[r] /\ snap'[r] = snap[r] /\ quiet'[r] = quiet[r]
      /\ plan'[r].node \in Nodes
  BY <1>1, <1>2 DEF ReaderTypes, scanVars
<1> QED
  BY Zenon, <1>2, <1>3, <1>4, <1>5, <1>6, PlanningKeeps

\* The plan is saved.
LEMMA SaveKeeps ==
  ASSUME GatesInv, NEW r \in Readers, SavePlan(r)
  PROVE  GatesInv'
<1>1. ReaderTypes /\ PlanOk(r)
  BY Zenon, ReaderFacts
<1>2. Alone(r)
  BY <1>1 DEF SavePlan, Alone, Still, ReaderTypes, writerVars, scanVars
<1>3. ReaderTypes'
  BY <1>1 DEF SavePlan, ReaderTypes, writerVars, scanVars, Places
<1>4. /\ at[r] = "save" /\ at'[r] = "start" /\ flags' = flags /\ inbox' = inbox
      /\ snap'[r] = snap[r] /\ quiet'[r] = quiet[r] /\ plan'[r] = plan[r]
  BY <1>1 DEF SavePlan, ReaderTypes, scanVars
<1>5. FlagsMove(r)
  BY Zenon, <1>4 DEF FlagsMove
<1>6. plan[r].node \in Nodes
  BY <1>1, <1>4 DEF PlanOk
<1> QED
  BY Zenon, <1>2, <1>3, <1>4, <1>5, <1>6, PlanningKeeps

\* The executor takes its snapshot.
LEMMA StartKeeps ==
  ASSUME GatesInv, NEW r \in Readers, NEW v \in 1..Latest, Start(r, v)
  PROVE  GatesInv'
<1>1. ReaderTypes /\ PlanOk(r)
  BY Zenon, ReaderFacts
<1>2. Alone(r)
  BY ZenonT(30), <1>1 DEF Start, Alone, Still, ReaderTypes, writerVars, scanVars, planVars
<1>3. ReaderTypes'
  BY <1>1 DEF Start, ReaderTypes, writerVars, scanVars, planVars, Places
<1>4. /\ at[r] = "start" /\ at'[r] = "begin" /\ flags' = flags /\ inbox' = inbox
      /\ quiet'[r] = quiet[r] /\ plan'[r] = plan[r]
      /\ snap'[r] \in {snap[r], Latest} /\ (iso[r] = "RR" => snap'[r] = snap[r])
  BY <1>1 DEF Start, ReaderTypes, scanVars, planVars
<1>5. FlagsMove(r)
  BY Zenon, <1>4 DEF FlagsMove
<1>6. plan[r].node \in Nodes
  BY <1>1, <1>4 DEF PlanOk
<1> QED
  BY Zenon, <1>2, <1>3, <1>4, <1>5, <1>6, PlanningKeeps

\* The end of a statement or of a transaction gives the snapshot back.
LEMMA FinishKeeps ==
  ASSUME GatesInv, NEW r \in Readers, Finish(r) \/ EndTransaction(r)
  PROVE  GatesInv'
<1>1. ReaderTypes /\ SnapOk(r) /\ QuietOk(r) /\ PlanOk(r) /\ Latest \in Nat
  BY Zenon, ReaderFacts
<1>2. /\ snap'[r] = 0 \/ (snap'[r] = snap[r] /\ iso[r] = "RR")
      /\ UNCHANGED <<writerVars, inbox, flags, planVars, scanVars, quiet>>
      /\ at' = [at EXCEPT ![r] = "idle"]
      /\ \A x \in Readers : x # r => snap'[x] = snap[x]
      /\ snap' \in [Readers -> Nat] /\ held' \in [Readers -> BOOLEAN]
  <2>1. CASE Finish(r)
    BY ZenonT(30), <1>1, <2>1 DEF Finish, ReaderTypes
  <2>2. CASE EndTransaction(r)
    BY ZenonT(30), <1>1, <2>2 DEF EndTransaction, ReaderTypes
  <2> QED
    BY Zenon, <2>1, <2>2
<1>3. Alone(r)
  BY ZenonT(30), <1>1, <1>2 DEF Alone, Still, ReaderTypes, writerVars, scanVars, planVars
<1>4. ReaderTypes'
  BY <1>1, <1>2 DEF ReaderTypes, writerVars, scanVars, planVars, Places
<1>5. /\ at'[r] = "idle" /\ flags' = flags /\ inbox' = inbox /\ quiet' = quiet
      /\ plan' = plan /\ iso' = iso /\ hist' = hist /\ calm' = calm /\ sending' = sending
  BY <1>1, <1>2 DEF ReaderTypes, writerVars, scanVars, planVars
<1>6. FlagsMove(r)
  BY Zenon, <1>5 DEF FlagsMove
<1>7. Latest' = Latest
  BY Zenon, <1>5 DEF Latest
<1>8. SnapOk(r)'
  BY <1>1, <1>2, <1>5, <1>7 DEF SnapOk, Between, InStatement
<1>9. QuietOk(r)'
  BY ZenonT(30), <1>1, <1>5 DEF QuietOk, Between
<1>10. PlanOk(r)'
  BY <1>1, <1>5 DEF PlanOk
<1> QED
  BY Zenon, <1>3, <1>4, <1>5, <1>6, <1>8, <1>9, <1>10, BeforeScan

(***************************************************************************)
(* The executor.                                                           *)
(***************************************************************************)
\* A flag that says no is right about the snapshot.
LEMMA DeniedIsEmpty ==
  ASSUME NEW f, NEW db, VersionOk(db), Says(f, db)
  PROVE  /\ ~f.loose => db.heap = {}
         /\ ~f.tombs => db.tomb = {}
BY DEF VersionOk, Says

\* The start of the executor settles what the scan may leave out.
LEMMA BeginSettles ==
  ASSUME GatesInv, NEW r \in Readers, Begin(r), at'[r] = "scan", Right(r)'
  PROVE  Settled(plan[r].node, Base(r), tail'[r])
<1> DEFINE f == Lookup(flags[r], snap[r])
           node == plan[r].node
<1>1. ReaderTypes /\ PlanOk(r)
  BY Zenon, ReaderFacts
<1>2. /\ at[r] = "begin"
      /\ IF node \in {"decompress", "sorted"} THEN UNCHANGED <<flags, same>> ELSE Consult(r)
      /\ tail' = [tail EXCEPT ![r] = \/ node = "append" /\ f.loose
                                     \/ node = "decompress" /\ used]
      /\ at' = [at EXCEPT ![r] = IF Refuses(node, f) THEN "error" ELSE "scan"]
      /\ calm' = calm /\ quiet' = quiet
  BY Zenon DEF Begin, writerVars
<1>3. /\ VersionOk(Base(r).db)
      /\ Base(r).file = Now.file /\ Base(r).db.heap # {} => used
  BY Zenon, <1>2, SnapIsVersion DEF Between
<1>4. tail'[r] = ((node = "append" /\ f.loose) \/ (node = "decompress" /\ used))
  BY ZenonT(30), <1>1, <1>2 DEF ReaderTypes
<1>5. ~Refuses(node, f)
  BY <1>1, <1>2 DEF ReaderTypes
<1>6. node \notin {"decompress", "sorted"} => Says(f, Base(r).db)
  <2> SUFFICES ASSUME node \notin {"decompress", "sorted"}
               PROVE  f.from = snap[r] \/ (calm /\ quiet[r])
    BY Zenon, <1>2, ConsultRight
  <2>1. same'[r] => f.from = snap[r]
    BY ZenonT(30), <1>1, <1>2 DEF Consult, ReaderTypes
  <2> QED
    BY Zenon, <1>2, <2>1 DEF Right
<1> HIDE DEF f
<1>7. node = "append" => tail'[r] \/ Base(r).db.heap = {}
  BY Zenon, <1>3, <1>4, <1>6, DeniedIsEmpty
<1>8. node = "agg" => Base(r).db.heap = {} /\ Base(r).db.tomb = {}
  BY Zenon, <1>3, <1>5, <1>6, DeniedIsEmpty DEF Refuses
<1>9. node = "minmax" => Base(r).db.tomb = {}
  BY Zenon, <1>3, <1>5, <1>6, DeniedIsEmpty DEF Refuses
<1>10. node \in {"decompress", "sorted"} =>
         tail'[r] \/ Base(r).db.heap = {} \/ Base(r).file # Now.file
  BY Zenon, <1>3, <1>4, <1>5 DEF Refuses
<1> QED
  BY Zenon, <1>7, <1>8, <1>9, <1>10 DEF Settled

\* A quiet statement that is refused has flags of the newest version.
LEMMA BeginRefuses ==
  ASSUME GatesInv, NEW r \in Readers, Begin(r), at'[r] = "error"
  PROVE  RefusedOk(r)'
<1> DEFINE f == Lookup(flags[r], snap[r])
           node == plan[r].node
<1>1. ReaderTypes
  BY Zenon, ReaderFacts
<1>2. /\ at[r] = "begin"
      /\ at' = [at EXCEPT ![r] = IF Refuses(node, f) THEN "error" ELSE "scan"]
      /\ calm' = calm /\ quiet' = quiet /\ plan' = plan /\ hist' = hist
  BY Zenon DEF Begin, writerVars, planVars
<1>3. Refuses(node, f)
  BY <1>1, <1>2 DEF ReaderTypes
<1>4. Now' = Now
  BY Zenon, <1>2 DEF Now, Latest
<1> SUFFICES ASSUME calm, quiet[r]
             PROVE  \/ node = "sorted"
                    \/ node = "agg" /\ (Now.db.cat.has_loose_rows \/ Now.db.cat.has_tombstones)
                    \/ node = "minmax" /\ Now.db.cat.has_tombstones
  BY Zenon, <1>2, <1>4 DEF RefusedOk
<1>5. Says(f, Base(r).db)
  BY Zenon, <1>2, ConsultRight
<1>6. Base(r) = Now
  BY Zenon, <1>2, SnapIsVersion DEF Between, InStatement
<1> HIDE DEF f
<1> QED
  BY Zenon, <1>3, <1>5, <1>6 DEF Refuses, Says

\* So the start keeps the invariant.
LEMMA BeginKeeps ==
  ASSUME GatesInv, NEW r \in Readers, Begin(r)
  PROVE  GatesInv'
<1> DEFINE f == Lookup(flags[r], snap[r])
           node == plan[r].node
           error == Refuses(node, f)
           reads == \/ node = "append" /\ f.loose
                    \/ node = "decompress" /\ used
<1>1. ReaderTypes /\ SnapOk(r) /\ QuietOk(r) /\ PlanOk(r) /\ Latest \in Nat /\ snap[r] \in Nat
  BY Zenon, ReaderFacts
<1>2. /\ at[r] = "begin"
      /\ IF node \in {"decompress", "sorted"} THEN UNCHANGED <<flags, same>> ELSE Consult(r)
      /\ tail' = [tail EXCEPT ![r] = reads]
      /\ at' = [at EXCEPT ![r] = IF error THEN "error" ELSE "scan"]
      /\ snap' = [snap EXCEPT ![r] = IF error THEN 0 ELSE @]
      /\ held' = [held EXCEPT ![r] = @ /\ ~error]
      /\ UNCHANGED <<writerVars, inbox, planVars, out, quiet>>
  BY ZenonT(30) DEF Begin
<1>3. /\ DOMAIN flags' = Readers /\ same' \in [Readers -> BOOLEAN]
      /\ \A x \in Readers : x # r => flags'[x] = flags[x] /\ same'[x] = same[x]
      /\ flags'[r] = flags[r] \/ flags'[r] = f
  BY ZenonT(30), <1>1, <1>2 DEF Consult, ReaderTypes
<1>4. reads \in BOOLEAN /\ error \in BOOLEAN
  BY Zenon DEF Refuses
<1> HIDE DEF f, node, error, reads
<1>5. Alone(r)
  BY <1>1, <1>2, <1>3 DEF Alone, Still, ReaderTypes, writerVars, planVars
<1>6. ReaderTypes'
  BY ZenonT(30), <1>1, <1>2, <1>3, <1>4 DEF ReaderTypes, writerVars, planVars, Places
<1>7. /\ (at'[r] = "error" /\ snap'[r] = 0) \/ (at'[r] = "scan" /\ snap'[r] = snap[r])
      /\ quiet' = quiet /\ inbox' = inbox /\ plan' = plan /\ iso' = iso /\ hist' = hist
      /\ calm' = calm /\ sending' = sending
  BY <1>1, <1>2 DEF ReaderTypes, writerVars, planVars
<1>8. FlagsOk(flags[r])' /\ FlagsFresh(r)'
  <2>1. FlagsMove(r)
    BY Zenon, <1>2, <1>3, <1>7, LookupMoves DEF FlagsMove, f, InStatement
  <2> QED
    BY Zenon, <1>5, <2>1, FlagsKept
<1>9. Latest' = Latest
  BY Zenon, <1>7 DEF Latest
<1>10. SnapOk(r)'
  <2>1. snap[r] \in 1..Latest /\ (calm => snap[r] = Latest)
    BY ZenonT(30), <1>2, SnapIsVersion DEF Between, InStatement
  <2>2. CASE at'[r] = "error" /\ snap'[r] = 0
    BY <1>1, <1>9, <2>2 DEF SnapOk, Between
  <2>3. CASE at'[r] = "scan" /\ snap'[r] = snap[r]
    <3>1. snap'[r] \in 0..Latest /\ snap'[r] # 0 /\ (calm => snap'[r] = Latest)
      BY <1>1, <2>1, <2>3
    <3>2. at'[r] # "error" /\ at'[r] # "idle"
      BY ZenonT(30), <2>3
    <3> QED
      BY Zenon, <1>7, <1>9, <3>1, <3>2 DEF SnapOk
  <2> QED
    BY Zenon, <1>7, <2>2, <2>3
<1>11. QuietOk(r)'
  BY <1>1, <1>2, <1>7, <1>9 DEF QuietOk, Between
<1>12. PlanOk(r)'
  BY <1>1, <1>2, <1>7 DEF PlanOk
<1>13. ScanOk(r)' /\ RefusedOk(r)'
  <2>1. CASE at'[r] = "error"
    <3>1. ScanOk(r)'
      BY <2>1 DEF ScanOk
    <3> QED
      BY Zenon, <2>1, <3>1, BeginRefuses
  <2>2. CASE at'[r] = "scan" /\ snap'[r] = snap[r]
    <3>1. RefusedOk(r)'
      BY <2>2 DEF RefusedOk
    <3>2. Right(r)' => Settled(plan[r].node, Base(r), tail'[r])
      BY Zenon, <2>2, BeginSettles
    <3>3. Base(r)' = Base(r) /\ Now' = Now
      BY Zenon, <1>7, <2>2 DEF Base, Now, Latest
    <3>4. Right(r)' => Settled(plan[r].node, Base(r), tail[r])'
      BY Zenon, <1>7, <3>2, <3>3 DEF Settled
    <3>5. at'[r] # "tail" /\ at'[r] # "done"
      BY <2>2
    <3>6. ScanOk(r)'
      BY Zenon, <3>4, <3>5 DEF ScanOk
    <3> QED
      BY <3>1, <3>6
  <2> QED
    BY Zenon, <1>7, <2>1, <2>2
<1>14. ReaderOk(r)'
  BY Zenon, <1>8, <1>10, <1>11, <1>12, <1>13 DEF ReaderOk
<1> QED
  BY Zenon, <1>5, <1>6, <1>14, OthersStay

\* Without tombstones every row of a segment is live.
LEMMA AllLive ==
  ASSUME NEW db, VersionOk(db), db.tomb = {}
  PROVE  LiveRows(db, SegIds) = UNION {db.seg[i] : i \in SegIds}
<1>1. ASSUME NEW x \in LiveRows(db, SegIds)
      PROVE  x \in UNION {db.seg[i] : i \in SegIds}
  BY <1>1 DEF LiveRows, LivePairs
<1>2. ASSUME NEW i \in SegIds, NEW x \in db.seg[i]
      PROVE  x \in LiveRows(db, SegIds)
  <2>1. x \in Row
    BY <1>2 DEF VersionOk
  <2>2. <<i, x>> \in LivePairs(db, SegIds)
    BY <1>2, <2>1 DEF LivePairs
  <2>3. <<i, x>>[2] = x
    OBVIOUS
  <2> QED
    BY Zenon, <2>2, <2>3 DEF LiveRows
<1> QED
  BY Zenon, <1>1, <1>2

\* What a step of the scan leaves alone.
ScanFrame(r) ==
  /\ snap' = snap /\ quiet' = quiet /\ inbox' = inbox /\ plan' = plan /\ iso' = iso
  /\ hist' = hist /\ calm' = calm /\ sending' = sending /\ tail' = tail

\* All but the rows is as before.
LEMMA ScanStepKeeps ==
  ASSUME GatesInv, NEW r \in Readers, Alone(r), ReaderTypes', ScanFrame(r),
         at[r] \in {"scan", "tail"}, at'[r] \in {"tail", "done"},
         flags'[r] = flags[r] \/ flags'[r] = Lookup(flags[r], snap[r]), ScanOk(r)'
  PROVE  GatesInv'
<1>1. SnapOk(r) /\ QuietOk(r) /\ PlanOk(r)
  BY Zenon, ReaderFacts
<1>2. at[r] \notin Between /\ InStatement(r) /\ at'[r] \notin Between /\ at'[r] # "error"
      /\ at'[r] # "idle"
  BY DEF Between, InStatement
<1>3. Latest' = Latest
  BY Zenon DEF ScanFrame, Latest
<1>4. FlagsMove(r)
  BY Zenon, <1>2, LookupMoves DEF FlagsMove, ScanFrame
<1>5. FlagsOk(flags[r])' /\ FlagsFresh(r)'
  BY Zenon, <1>4, FlagsKept
<1>6. SnapOk(r)'
  <2>1. snap[r] \in 1..Latest /\ (calm => snap[r] = Latest)
    BY Zenon, <1>2, SnapIsVersion
  <2> QED
    BY <1>1, <1>2, <1>3, <2>1 DEF SnapOk, ScanFrame
<1>7. QuietOk(r)'
  BY ZenonT(30), <1>1, <1>2, <1>3 DEF QuietOk, ScanFrame
<1>8. PlanOk(r)'
  BY <1>1 DEF PlanOk, ScanFrame
<1>9. RefusedOk(r)'
  BY Zenon, <1>2 DEF RefusedOk
<1>10. ReaderOk(r)'
  BY Zenon, <1>5, <1>6, <1>7, <1>8, <1>9 DEF ReaderOk
<1> QED
  BY Zenon, <1>10, OthersStay

\* Reading the segments.
LEMMA ScanKeeps ==
  ASSUME GatesInv, NEW r \in Readers, NEW physical \in BOOLEAN, Scan(r, physical)
  PROVE  GatesInv'
<1> DEFINE f == Lookup(flags[r], snap[r])
           rows == SegmentRows(r, f, physical)
<1>1. ReaderTypes /\ ScanOk(r)
  BY Zenon, ReaderFacts
<1>2. /\ at[r] = "scan" /\ (physical => plan[r].node \in {"agg", "minmax"})
      /\ flags' = [flags EXCEPT ![r] = f]
      /\ same' = [same EXCEPT ![r] = @ /\ f.from = snap[r]]
      /\ out' = [out EXCEPT ![r] = rows] /\ at' = [at EXCEPT ![r] = "tail"]
      /\ UNCHANGED <<writerVars, inbox, planVars, snap, held, tail, quiet>>
  BY ZenonT(30) DEF Scan, Consult
<1> HIDE DEF f, rows
<1>3. Alone(r)
  BY ZenonT(30), <1>1, <1>2 DEF Alone, Still, ReaderTypes, writerVars, planVars
<1>4. ReaderTypes'
  BY <1>1, <1>2 DEF ReaderTypes, writerVars, planVars, Places
<1>5. ScanFrame(r)
  BY Zenon, <1>2 DEF ScanFrame, writerVars, planVars
<1>6. /\ at'[r] = "tail" /\ flags'[r] = f /\ out'[r] = rows
      /\ same'[r] => same[r] /\ f.from = snap[r]
  BY ZenonT(30), <1>1, <1>2 DEF ReaderTypes
<1>7. ASSUME Right(r)'
      PROVE  rows = LiveRows(Base(r).db, SegIds) /\ Settled(plan[r].node, Base(r), tail[r])
  <2>1. Right(r) /\ (f.from = snap[r] \/ (calm /\ quiet[r]))
    BY Zenon, <1>5, <1>6, <1>7 DEF Right, ScanFrame
  <2>2. Says(f, Base(r).db)
    BY Zenon, <1>2, <2>1, ConsultRight DEF f
  <2>3. VersionOk(Base(r).db)
    BY Zenon, <1>2, SnapIsVersion DEF Between
  <2>4. Settled(plan[r].node, Base(r), tail[r])
    BY Zenon, <1>1, <1>2, <2>1 DEF ScanOk
  <2>5. CASE f.tombs /\ ~physical
    BY Zenon, <2>4, <2>5 DEF rows, SegmentRows, Base
  <2>6. CASE ~(f.tombs /\ ~physical)
    <3>1. Base(r).db.tomb = {}
      BY Zenon, <1>2, <2>2, <2>3, <2>4, <2>6, DeniedIsEmpty DEF Settled
    <3>2. rows = UNION {Base(r).db.seg[i] : i \in SegIds}
      BY Zenon, <2>6 DEF rows, SegmentRows, Base
    <3>3. LiveRows(Base(r).db, SegIds) = UNION {Base(r).db.seg[i] : i \in SegIds}
      BY Zenon, <2>3, <3>1, AllLive
    <3> QED
      BY Zenon, <2>4, <3>2, <3>3
  <2> QED
    BY Zenon, <2>5, <2>6
<1>8. ScanOk(r)'
  <2>1. Base(r)' = Base(r) /\ Now' = Now
    BY Zenon, <1>5 DEF ScanFrame, Base, Now, Latest
  <2>2. Right(r)' => Settled(plan[r].node, Base(r), tail[r])'
    BY Zenon, <1>5, <1>7, <2>1 DEF Settled, ScanFrame
  <2>3. Right(r)' => out'[r] = LiveRows(Base(r).db, SegIds)
    BY Zenon, <1>6, <1>7
  <2>4. at'[r] # "done"
    BY <1>6
  <2> QED
    BY Zenon, <2>1, <2>2, <2>3, <2>4 DEF ScanOk
<1> QED
  BY Zenon, <1>2, <1>3, <1>4, <1>5, <1>6, <1>8, ScanStepKeeps DEF f

\* Reading the heap.
LEMMA TailKeeps ==
  ASSUME GatesInv, NEW r \in Readers, ScanTail(r)
  PROVE  GatesInv'
<1> DEFINE f == Lookup(flags[r], snap[r])
           node == plan[r].node
           open == IF node = "minmax" THEN f.loose ELSE tail[r]
           heap == IF open THEN HeapRows(r) ELSE {}
<1>1. ReaderTypes /\ ScanOk(r) /\ QuietOk(r) /\ PlanOk(r)
  BY Zenon, ReaderFacts
<1>2. /\ at[r] = "tail"
      /\ flags' = (IF node = "minmax" THEN [flags EXCEPT ![r] = f] ELSE flags)
      /\ same' = [same EXCEPT ![r] = /\ @ /\ (node = "minmax" => f.from = snap[r])
                                     /\ HeapRows(r) = hist[snap[r]].db.heap]
      /\ held' = [held EXCEPT ![r] = @ \/ open]
      /\ out' = [out EXCEPT ![r] = @ \cup heap] /\ at' = [at EXCEPT ![r] = "done"]
      /\ UNCHANGED <<writerVars, inbox, planVars, snap, tail, quiet>>
  BY ZenonT(30) DEF ScanTail
<1>3. held' \in [Readers -> BOOLEAN]
  <2>1. (held[r] \/ open) \in BOOLEAN
    BY ZenonT(30)
  <2> HIDE DEF open
  <2> QED
    BY <1>1, <1>2, <2>1 DEF ReaderTypes
<1>4. same' \in [Readers -> BOOLEAN]
  <2>1. (same[r] /\ (node = "minmax" => f.from = snap[r]) /\ HeapRows(r) = hist[snap[r]].db.heap)
          \in BOOLEAN
    BY Zenon
  <2> HIDE DEF f, node
  <2> QED
    BY ZenonT(30), <1>1, <1>2, <2>1 DEF ReaderTypes
<1> HIDE DEF f, node, open, heap
<1>5. Alone(r)
  BY ZenonT(30), <1>1, <1>2 DEF Alone, Still, ReaderTypes, writerVars, planVars
<1>6. ReaderTypes'
  BY <1>1, <1>2, <1>3, <1>4 DEF ReaderTypes, writerVars, planVars, Places
<1>7. ScanFrame(r)
  BY ZenonT(30), <1>2 DEF ScanFrame, writerVars, planVars
<1>8. /\ at'[r] = "done" /\ (flags'[r] = flags[r] \/ flags'[r] = f) /\ out'[r] = out[r] \cup heap
      /\ same'[r] => /\ same[r] /\ (node = "minmax" => f.from = snap[r])
                     /\ HeapRows(r) = Base(r).db.heap
  BY ZenonT(30), <1>1, <1>2 DEF ReaderTypes, Base
<1>9. ASSUME Right(r)'
       PROVE  out'[r] = Content(Base(r).db)
  <2> DEFINE db == Base(r).db
  <2>1. Right(r) /\ ((same[r] /\ same'[r]) \/ (calm /\ quiet[r]))
    BY Zenon, <1>7, <1>8, <1>9 DEF Right, ScanFrame
  <2>2. VersionOk(db) /\ (snap[r] = Latest => Base(r) = Now)
    BY Zenon, <1>2, SnapIsVersion DEF Between
  <2>3. HeapRows(r) = db.heap
    <3>1. CASE same'[r]
      BY Zenon, <1>8, <3>1
    <3>2. CASE quiet[r]
      <4>1. Base(r) = Now
        BY Zenon, <1>1, <1>2, <2>2, <3>2 DEF QuietOk, Between
      <4> QED
        BY Zenon, <4>1 DEF HeapRows, Base
    <3> QED
      BY Zenon, <2>1, <3>1, <3>2
  <2>4. out[r] = LiveRows(db, SegIds) /\ Settled(node, Base(r), tail[r])
    BY Zenon, <1>1, <1>2, <2>1 DEF ScanOk, node
  <2>5. node = "minmax" => Says(f, db)
    BY Zenon, <1>2, <1>8, <2>1, ConsultRight DEF f
  <2>6. node \in Nodes
    BY <1>1, <1>2 DEF PlanOk, node
  <2>7. Base(r).file # Now.file => db.heap = {}
    BY Zenon, <2>3 DEF HeapRows, Base
  <2>8. open \/ db.heap = {}
    <3>1. CASE node = "minmax"
      BY Zenon, <2>2, <2>5, <3>1, DeniedIsEmpty DEF open
    <3>2. CASE node # "minmax"
      BY Zenon, <2>4, <2>6, <2>7, <3>2 DEF open, Settled, Nodes
    <3> QED
      BY Zenon, <3>1, <3>2
  <2>9. heap = db.heap
    BY Zenon, <2>3, <2>8 DEF heap
  <2>10. Content(db) = db.heap \cup out[r]
    BY Zenon, <2>4 DEF Content
  <2> HIDE DEF db
  <2> QED
    BY <1>8, <2>9, <2>10 DEF db
<1>10. ScanOk(r)'
  <2>1. Base(r)' = Base(r)
    BY Zenon, <1>7 DEF ScanFrame, Base
  <2>2. at'[r] \notin {"scan", "tail"}
    BY <1>8
  <2> QED
    BY Zenon, <1>9, <2>1, <2>2 DEF ScanOk
<1> QED
  BY Zenon, <1>2, <1>5, <1>6, <1>7, <1>8, <1>10, ScanStepKeeps DEF f

(***************************************************************************)
(* Any sequence of steps.                                                  *)
(***************************************************************************)
\* A step that changes nothing.
LEMMA StutterKeeps ==
  ASSUME GatesInv, UNCHANGED vars
  PROVE  GatesInv'
<1>1. /\ hist' = hist /\ used' = used /\ sending' = sending /\ inbox' = inbox
      /\ flags' = flags /\ plan' = plan /\ valid' = valid /\ iso' = iso /\ want' = want
      /\ at' = at /\ snap' = snap /\ held' = held /\ tail' = tail /\ out' = out
      /\ quiet' = quiet /\ calm' = calm /\ same' = same
  BY DEF vars
<1>2. HistoryOk' /\ ReaderTypes'
  BY Zenon, <1>1
  DEF GatesInv, HistoryOk, VersionsOk, VersionOk, Latest, Now, ReaderTypes
<1>3. ASSUME NEW r \in Readers
      PROVE  ReaderOk(r)'
  BY Zenon, <1>1, StillOk DEF GatesInv, Still
<1> QED
  BY Zenon, <1>2, <1>3 DEF GatesInv

\* Every behaviour of readers and writers keeps GatesInv.
THEOREM GatesInvariant == Spec => []GatesInv
<1>1. Init => GatesInv
  BY Zenon, GatesInit, GatesAssumption
<1>2. GatesInv /\ [Next]_vars => GatesInv'
  <2> SUFFICES ASSUME GatesInv, [Next]_vars
               PROVE  GatesInv'
    OBVIOUS
  <2>1. CASE UNCHANGED vars
    BY Zenon, <2>1, StutterKeeps
  <2>2. CASE WriterStep
    BY Zenon, <2>2, WriterKeeps
  <2>3. CASE SendInvals
    BY Zenon, <2>3, SendKeeps
  <2>4. ASSUME NEW r \in Readers, NEW q \in Asked, Query(r, q)
        PROVE  GatesInv'
    BY Zenon, <2>4, QueryKeeps
  <2>5. ASSUME NEW r \in Readers, Execute(r) \/ EndTransaction(r)
        PROVE  GatesInv'
    BY Zenon, <2>5, ExecuteKeeps, FinishKeeps
  <2>6. ASSUME NEW r \in Readers, StatementStep(r)
        PROVE  GatesInv'
    BY Zenon, <2>6, AcceptKeeps, RevalidateKeeps, GateKeeps, ExpandKeeps, SaveKeeps,
       StartKeeps, BeginKeeps, ScanKeeps, TailKeeps, FinishKeeps DEF StatementStep
  <2> QED
    BY Zenon, <2>1, <2>2, <2>3, <2>4, <2>5, <2>6 DEF Next
<1> QED
  BY <1>1, <1>2, PTL DEF Spec

\* A scan whose flags were read under its own snapshot, and under which no compaction
\* truncated the heap, returns the rows of that snapshot.
THEOREM ReadsAreExact == Spec => []MvccExact
<1>1. GatesInv => MvccExact
  BY Zenon, InvImplies
<1> QED
  BY <1>1, GatesInvariant, PTL

\* As long as no commit falls inside a statement or a REPEATABLE READ transaction, a quiet
\* statement returns the rows of the partition: invalidations keep maps and plans right.
THEOREM CalmReads == Spec => []CalmReadExact
<1>1. GatesInv => CalmReadExact
  BY Zenon, InvImplies
<1> QED
  BY <1>1, GatesInvariant, PTL

\* Such a statement is refused only for a plan that the planner would not make again.
THEOREM RefusalsAreStale == Spec => []RefusedIsStale
<1>1. GatesInv => RefusedIsStale
  BY Zenon, InvImplies
<1> QED
  BY <1>1, GatesInvariant, PTL
=============================================================================
