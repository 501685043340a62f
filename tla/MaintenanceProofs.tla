-------------------------- MODULE MaintenanceProofs --------------------------
(***************************************************************************)
(* Partitions and their catalog agree and no row is lost before retention  *)
(* allows it, for any number of tables, sessions, rows and errors and any  *)
(* interval, if all sessions are in one time zone with a fixed offset. If  *)
(* the interval is a minute or more, the partitions to come are there.     *)
(***************************************************************************)
EXTENDS Maintenance, TLAPS

OneFixedZone == \E k \in Int : \A s \in Sessions, u \in Int : Offset(s, u) = k * Second

\* Where partitions may start.
Starts == {u \in Int : \E m \in Int : u = m * Interval}

\* What CatalogExact says of one table, and that names tell catalog rows apart: retention
\* finds partitions and companions by name.
PartFor(c) == [name |-> c.name, from |-> c.start, to |-> c.end]
Entry == [name : Int, start : Int, end : Int, compressed : BOOLEAN]
Described(db) ==
  /\ \A c \in db.cat : PartFor(c) \in db.parts
  /\ \A p \in db.parts : \E c \in db.cat : p = PartFor(c)
  /\ \A c \in db.cat : c.compressed => c.name \in db.companions
  /\ \A n \in db.companions : \E c \in db.cat : c.compressed /\ c.name = n
  /\ \A c, d \in db.cat : c.name = d.name => c = d

\* What RowsKept says of one table whose rows inserted so far are R, at time n.
Kept(db, R, n) ==
  /\ db.dflt \cap db.placed = {} /\ db.dflt \cup db.placed \subseteq R
  /\ \A r \in R \ (db.dflt \cup db.placed) : r < n - DropAfter
  /\ R # {} => db.made

Good(db, R, n) == db \in Db /\ Described(db) /\ Kept(db, R, n)

\* The draft a session holds the lock for is as good as the committed state: the lock keeps
\* inserts out while the draft is pending.
MaintenanceInv ==
  /\ now \in Int /\ rows \in [Tables -> SUBSET Times]
  /\ tab \in [Tables -> Db] /\ draft \in [Tables -> Db]
  /\ lock \in [Tables -> Sessions \cup {None}]
  /\ began \in [Sessions -> Int] /\ at \in [Sessions -> Tables \cup {None}]
  /\ reads \in [Sessions -> SUBSET Starts]
  /\ Start <= now /\ \A s \in Sessions : began[s] <= now
  /\ \A t \in Tables : /\ Good(tab[t], rows[t], now)
                       /\ lock[t] # None => Good(draft[t], rows[t], now)

-----------------------------------------------------------------------------
(* The bounds and names of partitions. *)

\* align_to_interval rounds down, the drain query's division towards zero; both to a
\* multiple.
LEMMA AlignRoundsDown ==
  ASSUME NEW n \in Int
  PROVE  /\ AlignToInterval(n) \in Int /\ AlignToInterval(n) \in Starts
         /\ AlignToInterval(n) <= n /\ n < AlignToInterval(n) + Interval
         /\ DrainBoundary(n) \in Int /\ DrainBoundary(n) \in Starts
<1> DEFINE d == Quot(n, Interval)
<1>1. Interval \in Nat \ {0}
  BY MaintenanceAssumption
<1>2. d \in Int
  BY <1>1 DEF Quot
<1>3. ASSUME NEW m \in Int PROVE m * Interval \in Int /\ m * Interval \in Starts
  BY <1>1 DEF Starts
<1>4. DrainBoundary(n) = d * Interval
  BY DEF DrainBoundary
<1>5. CASE n >= 0
  <2>1. d = n \div Interval
    BY <1>5 DEF Quot
  <2>2. d * Interval <= n /\ n < d * Interval + Interval
    BY <1>1, <1>5, <2>1
  <2> HIDE DEF d
  <2>3. AlignToInterval(n) = d * Interval
    BY <1>1, <1>2, <2>2 DEF AlignToInterval, d
  <2> QED
    BY <1>2, <1>3, <1>4, <2>2, <2>3
<1>6. CASE n < 0
  <2> DEFINE q == (-n) \div Interval
  <2>1. d = -q
    BY <1>6 DEF Quot
  <2>2. q \in Int /\ q * Interval <= -n /\ -n < q * Interval + Interval
    BY <1>1, <1>6
  <2> HIDE DEF d, q
  <2>3. d * Interval = -(q * Interval)
    BY <1>1, <2>1, <2>2
  <2>4. (d - 1) * Interval = d * Interval - Interval
    BY <1>1, <1>2
  <2>5. d * Interval \in Int /\ q * Interval \in Int
    BY <1>1, <1>2, <2>2
  <2>6. CASE n - d * Interval < 0
    <3>1. AlignToInterval(n) = (d - 1) * Interval
      BY <2>6 DEF AlignToInterval, d
    <3>2. d - 1 \in Int
      BY <1>2
    <3>3. AlignToInterval(n) <= n /\ n < AlignToInterval(n) + Interval
      BY <1>1, <2>2, <2>3, <2>4, <2>5, <2>6, <3>1
    <3> QED
      BY <1>2, <1>3, <1>4, <3>1, <3>2, <3>3
  <2>7. CASE ~(n - d * Interval < 0)
    <3>1. AlignToInterval(n) = d * Interval
      BY <2>7 DEF AlignToInterval, d
    <3>2. AlignToInterval(n) <= n /\ n < AlignToInterval(n) + Interval
      BY <1>1, <2>2, <2>3, <2>5, <2>7, <3>1
    <3> QED
      BY <1>2, <1>3, <1>4, <3>1, <3>2
  <2> QED
    BY <2>6, <2>7
<1> QED
  BY <1>5, <1>6

\* A multiple some intervals later.
LEMMA StartShifted ==
  ASSUME NEW a \in Starts, NEW i \in Int
  PROVE  a + i * Interval \in Int /\ a + i * Interval \in Starts
<1>1. Interval \in Nat \ {0}
  BY MaintenanceAssumption
<1>2. PICK m \in Int : a = m * Interval
  BY DEF Starts
<1>3. m + i \in Int /\ (m + i) * Interval = m * Interval + i * Interval
  BY <1>1
<1> QED
  BY <1>1, <1>2, <1>3 DEF Starts

\* The next start.
LEMMA NextStart ==
  ASSUME NEW a \in Starts
  PROVE  a + Interval \in Int /\ a + Interval \in Starts
<1>1. a + 1 * Interval = a + Interval
  BY MaintenanceAssumption DEF Starts
<1> QED
  BY <1>1, StartShifted

\* Text has whole seconds, and a multiple of the second loses nothing by it.
LEMMA WholeSeconds ==
  ASSUME NEW D \in Nat \ {0}, NEW m \in Int
  PROVE  ((m * D) \div D) * D = m * D
<1> DEFINE q == (m * D) \div D
<1>1. m * D \in Int
  OBVIOUS
<1>2. q \in Int /\ q * D <= m * D /\ m * D < q * D + D
  BY <1>1
<1> HIDE DEF q
<1>3. q = m
  <2>1. (m - q) * D = m * D - q * D /\ q * D \in Int
    BY <1>2
  <2>2. (m - q) * D >= 0 /\ (m - q) * D < D
    BY <1>1, <1>2, <2>1
  <2>3. ASSUME m < q PROVE FALSE
    <3>1. q - m - 1 \in Nat /\ (q - m - 1) * D >= 0
      BY <1>2, <2>3
    <3>2. (q - m - 1) * D = q * D - m * D - D
      BY <1>2
    <3> QED
      BY <1>1, <1>2, <2>1, <3>1, <3>2
  <2>4. ASSUME q < m PROVE FALSE
    <3>1. m - q - 1 \in Nat /\ (m - q - 1) * D >= 0
      BY <1>2, <2>4
    <3>2. (m - q - 1) * D = m * D - q * D - D
      BY <1>2
    <3> QED
      BY <1>1, <1>2, <2>1, <3>1, <3>2
  <2> QED
    BY <1>2, <2>3, <2>4
<1> QED
  BY <1>3 DEF q

\* A bound written as local text is read back as the same instant (format_ts): intervals
\* are whole seconds (interval_to_usec), and so are the offsets of zones.
LEMMA BoundIsTime ==
  ASSUME OneFixedZone, NEW s \in Sessions, NEW u \in Starts
  PROVE  Bound(s, u) = u
<1>1. PICK k \in Int : \A x \in Sessions, v \in Int : Offset(x, v) = k * Second
  BY DEF OneFixedZone
<1>2. PICK c \in 1..Interval : Interval = c * Second
  BY MaintenanceAssumption
<1>3. PICK m \in Int : u = m * Interval
  BY DEF Starts
<1>4. Second \in Nat \ {0} /\ Interval \in Nat \ {0} /\ Day \in Nat \ {0} /\ u \in Int
  BY MaintenanceAssumption DEF Starts
<1>5. Local(s, u) = (m * c + k) * Second /\ m * c + k \in Int
  <2>1. Local(s, u) = u + k * Second
    BY <1>1, <1>4 DEF Local
  <2>2. c \in Int /\ u = m * (c * Second)
    BY <1>2, <1>3, <1>4
  <2>3. m * (c * Second) = (m * c) * Second
    BY <1>4, <2>2
  <2>4. (m * c) * Second + k * Second = (m * c + k) * Second
    BY <1>4, <2>2
  <2> QED
    BY <2>1, <2>2, <2>3, <2>4
<1>6. FormatTs(s, u) = Local(s, u)
  BY <1>4, <1>5, WholeSeconds DEF FormatTs
<1>7. k * Second \in Int
  BY <1>4
<1>8. \A v \in (u - Day)..(u + Day) : Local(s, v) = FormatTs(s, u) <=> v = u
  BY <1>1, <1>4, <1>6, <1>7 DEF Local
<1>9. u \in (u - Day)..(u + Day) /\ \A w \in (u + 1)..(u + Day) : Local(s, w) # FormatTs(s, u)
  BY <1>1, <1>4, <1>6, <1>7 DEF Local
<1> QED
  BY <1>8, <1>9 DEF Bound

\* Names are numbers here (partition_name).
LEMMA NameIsInt ==
  ASSUME OneFixedZone, NEW s \in Sessions, NEW u \in Int
  PROVE  PartitionName(s, u) \in Int
<1>1. PICK k \in Int : Offset(s, u) = k * Second
  BY DEF OneFixedZone
<1>2. Local(s, u) \in Int
  BY <1>1, MaintenanceAssumption DEF Local
<1> QED
  BY <1>2, MaintenanceAssumption DEF PartitionName

-----------------------------------------------------------------------------
(* A table with one component replaced. *)

WithParts(db, x) == [db EXCEPT !.parts = x]
WithCat(db, x) == [db EXCEPT !.cat = x]
WithCompanions(db, x) == [db EXCEPT !.companions = x]
WithPlaced(db, x) == [db EXCEPT !.placed = x]
WithDflt(db, x) == [db EXCEPT !.dflt = x]

\* A step that writes the partitions leaves the rest of the table alone.
LEMMA SetParts ==
  ASSUME NEW db \in Db, NEW x \in SUBSET [name : Int, from : Int, to : Int]
  PROVE  LET d == WithParts(db, x)
         IN  /\ d \in Db /\ d.parts = x
             /\ d.made = db.made /\ d.ok = db.ok /\ d.companions = db.companions
             /\ d.dflt = db.dflt /\ d.placed = db.placed /\ d.cat = db.cat
BY Zenon DEF Db, Entry, WithParts

\* A step that writes the catalog rows leaves the rest of the table alone.
LEMMA SetCat ==
  ASSUME NEW db \in Db, NEW x \in SUBSET Entry
  PROVE  LET d == WithCat(db, x)
         IN  /\ d \in Db /\ d.cat = x
             /\ d.made = db.made /\ d.ok = db.ok /\ d.companions = db.companions
             /\ d.dflt = db.dflt /\ d.placed = db.placed /\ d.parts = db.parts
BY Zenon DEF Db, Entry, WithCat

\* A step that writes the companion tables leaves the rest of the table alone.
LEMMA SetCompanions ==
  ASSUME NEW db \in Db, NEW x \in SUBSET Int
  PROVE  LET d == WithCompanions(db, x)
         IN  /\ d \in Db /\ d.companions = x
             /\ d.made = db.made /\ d.ok = db.ok /\ d.dflt = db.dflt
             /\ d.placed = db.placed /\ d.parts = db.parts /\ d.cat = db.cat
BY Zenon DEF Db, Entry, WithCompanions

\* A step that writes the rows in partitions leaves the rest of the table alone.
LEMMA SetPlaced ==
  ASSUME NEW db \in Db, NEW x \in SUBSET Times
  PROVE  LET d == WithPlaced(db, x)
         IN  /\ d \in Db /\ d.placed = x
             /\ d.made = db.made /\ d.ok = db.ok /\ d.companions = db.companions
             /\ d.dflt = db.dflt /\ d.parts = db.parts /\ d.cat = db.cat
BY Zenon DEF Db, Entry, WithPlaced

\* A step that writes the rows of the default partition leaves the rest of the table alone.
LEMMA SetDflt ==
  ASSUME NEW db \in Db, NEW x \in SUBSET Times
  PROVE  LET d == WithDflt(db, x)
         IN  /\ d \in Db /\ d.dflt = x
             /\ d.made = db.made /\ d.ok = db.ok /\ d.companions = db.companions
             /\ d.placed = db.placed /\ d.parts = db.parts /\ d.cat = db.cat
BY Zenon DEF Db, Entry, WithDflt

-----------------------------------------------------------------------------
(* The steps of maintenance on one table. *)

\* A step that fails says so.
LEMMA FailedFails ==
  ASSUME NEW db \in Db
  PROVE  Failed(db) \in Db /\ ~Failed(db).ok
BY Zenon DEF Db, Failed

\* c is db, with partitions more.
Adds(db, c) ==
  /\ c \in Db
  /\ c.ok => /\ Described(c) /\ c.dflt = db.dflt /\ c.placed = db.placed
             /\ c.made = db.made

\* New partitions are registered with their bounds, each under a name of its own.
LEMMA CreateKeeps ==
  ASSUME OneFixedZone, NEW db \in Db, Described(db), NEW s \in Sessions,
         NEW starts \in SUBSET Starts, NEW attached
  PROVE  Adds(db, CreatePartitions(db, s, starts, attached))
<1> DEFINE N(u) == PartitionName(s, u)
           new == {u \in Named(s, starts) : \A q \in db.parts : q.name # N(u)}
           unknown == {u \in Named(s, starts) : \A e \in db.cat : e.name # N(u)}
           P(u) == [name |-> N(u), from |-> Bound(s, u), to |-> Bound(s, u + Interval)]
           E(u) == [name |-> N(u), start |-> u, end |-> u + Interval, compressed |-> FALSE]
           added == {P(u) : u \in new}
           entries == {E(u) : u \in unknown}
           d == WithCat(WithParts(db, db.parts \cup added), db.cat \cup entries)
           c == CreatePartitions(db, s, starts, attached)
<1>1. c = d \/ c = Failed(db)
  BY Zenon DEF CreatePartitions, WithCat, WithParts
<1>2. \A u \in Named(s, starts) : u \in Starts
  BY DEF Named
<1>3. ASSUME NEW u \in Starts
      PROVE  /\ E(u) \in Entry /\ P(u) \in [name : Int, from : Int, to : Int]
             /\ E(u).name = N(u) /\ ~E(u).compressed /\ P(u) = PartFor(E(u))
  <2>1. u \in Int /\ u + Interval \in Int /\ u + Interval \in Starts /\ N(u) \in Int
    BY NextStart, NameIsInt DEF Starts
  <2>2. Bound(s, u) = u /\ Bound(s, u + Interval) = u + Interval
    BY <2>1, BoundIsTime
  <2> QED
    BY <2>1, <2>2 DEF PartFor, Entry
<1>4. \A u, v \in Named(s, starts) : N(u) = N(v) => u = v
  BY <1>2 DEF Named, Starts
<1>5. \A u \in Named(s, starts) : u \in new <=> u \in unknown
  <2>1. \A e \in db.cat : PartFor(e).name = e.name
    BY DEF PartFor
  <2> HIDE DEF N
  <2> QED
    BY <2>1 DEF Described
<1> HIDE DEF N, P, E
<1>6. added \subseteq [name : Int, from : Int, to : Int] /\ entries \subseteq Entry
  BY <1>2, <1>3
<1>7. d \in Db /\ d.parts = db.parts \cup added /\ d.cat = db.cat \cup entries
      /\ d.companions = db.companions
      /\ d.dflt = db.dflt /\ d.placed = db.placed /\ d.made = db.made
  <2> DEFINE parts == db.parts \cup added
             cat == db.cat \cup entries
  <2>1. parts \in SUBSET [name : Int, from : Int, to : Int] /\ cat \in SUBSET Entry
    BY <1>6 DEF Db, Entry
  <2> HIDE DEF added, entries
  <2> QED
    BY <2>1, SetParts, SetCat
<1>8. \A e \in entries : PartFor(e) \in added /\ ~e.compressed
  BY <1>2, <1>3, <1>5
<1>9. \A p \in added : \E e \in entries : p = PartFor(e)
  BY <1>2, <1>3, <1>5
<1>10. \A e, f \in entries : e.name = f.name => e = f
  BY <1>2, <1>3, <1>4
<1>11. \A e \in db.cat, f \in entries : e.name # f.name
  BY <1>2, <1>3
<1> HIDE DEF d, added, entries, new, unknown
<1>12. Described(d)
  BY <1>7, <1>8, <1>9, <1>10, <1>11 DEF Described
<1> HIDE DEF c
<1>13. /\ c \in Db
       /\ c.ok => /\ Described(c) /\ c.dflt = db.dflt /\ c.placed = db.placed
                  /\ c.made = db.made
  BY <1>1, <1>7, <1>12, FailedFails
<1> QED
  BY <1>13 DEF c, Adds

\* A drain moves all rows of the default partition, or fails.
LEMMA DrainKeeps ==
  ASSUME OneFixedZone, NEW R, NEW n, NEW db, Good(db, R, n), NEW s \in Sessions,
         NEW B \in SUBSET Starts, DrainDefaultPartition(db, s, B).ok
  PROVE  Good(DrainDefaultPartition(db, s, B), R, n)
<1> DEFINE d == CreatePartitions(db, s, B, FALSE)
           e == WithDflt(WithPlaced(d, d.placed \cup db.dflt), {})
<1>1. CASE B = {}
  BY <1>1 DEF DrainDefaultPartition
<1>2. CASE B # {}
  <2>1. db \in Db /\ Described(db) /\ Kept(db, R, n)
    BY DEF Good
  <2>2. DrainDefaultPartition(db, s, B) = e \/ DrainDefaultPartition(db, s, B) = Failed(d)
    BY <1>2, Zenon DEF DrainDefaultPartition, WithDflt, WithPlaced
  <2>3. d \in Db
    BY <2>1, CreateKeeps, Zenon DEF Adds
  <2>4. d.ok => /\ Described(d) /\ d.dflt = db.dflt /\ d.placed = db.placed
                /\ d.made = db.made
    <3>1. Adds(db, d)
      BY Zenon, <2>1, CreateKeeps
    <3> HIDE DEF d
    <3> QED
      BY ZenonT(30), <3>1 DEF Adds
  <2>5. d.ok \/ DrainDefaultPartition(db, s, B) = Failed(d)
    BY <1>2, Zenon DEF DrainDefaultPartition
  <2> HIDE DEF d
  <2>6. d.ok /\ DrainDefaultPartition(db, s, B) = e
    BY <2>2, <2>3, <2>5, FailedFails
  <2>7. /\ e \in Db /\ e.parts = d.parts /\ e.cat = d.cat /\ e.companions = d.companions
        /\ e.placed = d.placed \cup db.dflt /\ e.dflt = {} /\ e.made = d.made
    <3>1. d.placed \cup db.dflt \in SUBSET Times
      BY <2>1, <2>3 DEF Db
    <3> QED
      BY <2>3, <3>1, SetPlaced, SetDflt
  <2> HIDE DEF e
  <2>8. Described(e)
    BY <2>4, <2>6, <2>7 DEF Described
  <2>9. Kept(e, R, n)
    BY <2>1, <2>4, <2>6, <2>7 DEF Kept
  <2> QED
    BY <2>6, <2>7, <2>8, <2>9 DEF Good
<1> QED
  BY <1>1, <1>2

\* Creating the partitions to come touches no row.
LEMMA EnsureKeeps ==
  ASSUME OneFixedZone, NEW R, NEW n, NEW db, Good(db, R, n), NEW s \in Sessions,
         began[s] \in Int, EnsureFuturePartitions(db, s).ok
  PROVE  Good(EnsureFuturePartitions(db, s), R, n)
<1> DEFINE starts == {AlignToInterval(began[s]) + i * Interval : i \in 0..Premake}
           missing == {u \in starts : \A c \in db.cat : c.name # PartitionName(s, u)}
           d == CreatePartitions(db, s, missing, TRUE)
<1>1. missing \in SUBSET Starts
  <2>1. AlignToInterval(began[s]) \in Starts /\ \A i \in 0..Premake : i \in Int
    BY AlignRoundsDown, MaintenanceAssumption
  <2> QED
    BY ZenonT(30), <2>1, StartShifted
<1>2. EnsureFuturePartitions(db, s) = d
  BY DEF EnsureFuturePartitions
<1>3. db \in Db /\ Described(db) /\ Kept(db, R, n)
  BY DEF Good
<1> HIDE DEF missing
<1>4. d \in Db
  BY <1>1, <1>3, CreateKeeps, Zenon DEF Adds
<1>5. d.ok => /\ Described(d) /\ d.dflt = db.dflt /\ d.placed = db.placed
              /\ d.made = db.made
  <2>1. Adds(db, d)
    BY Zenon, <1>1, <1>3, CreateKeeps
  <2> HIDE DEF d
  <2> QED
    BY ZenonT(30), <2>1 DEF Adds
<1> HIDE DEF d
<1>6. Kept(d, R, n)
  BY <1>2, <1>3, <1>5 DEF Kept
<1> QED
  BY <1>2, <1>4, <1>5, <1>6 DEF Good

\* Compression marks the partitions it makes companions for.
LEMMA CompressKeeps ==
  ASSUME NEW R, NEW n, NEW db, Good(db, R, n), NEW s \in Sessions
  PROVE  Good(AutoCompressPartitions(db, s), R, n)
<1> DEFINE eligible == {c \in db.cat : ~c.compressed /\ c.end < began[s] - CompressAfter}
           Marked(c) == [c EXCEPT !.compressed = TRUE]
           cat == (db.cat \ eligible) \cup {Marked(c) : c \in eligible}
           companions == db.companions \cup {c.name : c \in eligible}
           d == AutoCompressPartitions(db, s)
<1>1. d = WithCompanions(WithCat(db, cat), companions)
  BY Zenon DEF AutoCompressPartitions, WithCompanions, WithCat
<1>2. \A c \in Entry : /\ Marked(c) \in Entry /\ Marked(c).name = c.name
                       /\ Marked(c).compressed /\ PartFor(Marked(c)) = PartFor(c)
                       /\ c.name \in Int
  BY Zenon DEF Entry, PartFor
<1>3. db \in Db /\ db.cat \subseteq Entry /\ db.companions \subseteq Int
  BY DEF Good, Db, Entry
<1> HIDE DEF Marked
<1>4. cat \in SUBSET Entry /\ companions \in SUBSET Int
  BY <1>2, <1>3
<1>5. /\ d \in Db /\ d.cat = cat /\ d.companions = companions /\ d.parts = db.parts
      /\ d.placed = db.placed /\ d.dflt = db.dflt /\ d.made = db.made
  <2> HIDE DEF cat, companions, d
  <2> QED
    BY <1>1, <1>3, <1>4, SetCat, SetCompanions
<1>6. \A c \in cat : \E b \in db.cat : /\ c.name = b.name /\ PartFor(c) = PartFor(b)
                                       /\ c = b \/ c = Marked(b)
                                       /\ c = b <=> b \notin eligible
                                       /\ b \in eligible => c.compressed
  BY <1>2, <1>3
<1>7. \A b \in db.cat : \E c \in cat : /\ c.name = b.name /\ PartFor(c) = PartFor(b)
                                       /\ b.compressed => c.compressed
                                       /\ b \in eligible => c.compressed
  BY <1>2, <1>3
<1>8. \A b \in eligible : b \in db.cat /\ b.name \in companions
  OBVIOUS
<1>9. \A m \in companions : m \in db.companions \/ \E b \in eligible : m = b.name
  OBVIOUS
<1>10. db.companions \subseteq companions
  OBVIOUS
<1> HIDE DEF d, cat, companions, eligible
<1>11. Described(d)
  <2>1. Described(db)
    BY DEF Good
  <2>2. \A c \in d.cat : PartFor(c) \in d.parts
    BY <2>1, <1>5, <1>6 DEF Described
  <2>3. \A p \in d.parts : \E c \in d.cat : p = PartFor(c)
    BY <2>1, <1>5, <1>7 DEF Described
  <2>4. \A c \in d.cat : c.compressed => c.name \in d.companions
    BY <2>1, <1>5, <1>6, <1>8, <1>10 DEF Described
  <2>5. \A m \in d.companions : \E c \in d.cat : c.compressed /\ c.name = m
    BY <2>1, <1>5, <1>7, <1>8, <1>9 DEF Described
  <2>6. \A c, e \in d.cat : c.name = e.name => c = e
    BY <2>1, <1>5, <1>6 DEF Described
  <2> QED
    BY <2>2, <2>3, <2>4, <2>5, <2>6 DEF Described
<1>12. Kept(d, R, n)
  BY <1>5 DEF Good, Kept
<1> QED
  BY <1>5, <1>11, <1>12, Zenon DEF Good, d

\* Retention drops partitions whose end, and so whose rows, are old enough.
LEMMA DropKeeps ==
  ASSUME NEW R \in SUBSET Int, NEW n \in Int, NEW db, Good(db, R, n), NEW s \in Sessions,
         began[s] \in Int, began[s] <= n
  PROVE  Good(AutoDropPartitions(db, s), R, n)
<1> DEFINE eligible == {c \in db.cat : c.end < began[s] - DropAfter}
           gone == {p \in db.parts : \E c \in eligible : c.name = p.name}
           cat == db.cat \ eligible
           parts == db.parts \ gone
           companions == db.companions \ {c.name : c \in {e \in eligible : e.compressed}}
           placed == {r \in db.placed : ~\E p \in gone : Covers(p, r)}
           d == AutoDropPartitions(db, s)
<1>1. d = WithPlaced(WithCompanions(WithParts(WithCat(db, cat), parts), companions), placed)
  BY Zenon DEF AutoDropPartitions, WithCompanions, WithCat, WithParts, WithPlaced
<1>2. /\ db \in Db /\ db.cat \subseteq Entry /\ db.companions \subseteq Int
      /\ db.placed \subseteq Times /\ db.parts \subseteq [name : Int, from : Int, to : Int]
  BY DEF Good, Db, Entry
<1>3. /\ cat \in SUBSET Entry /\ parts \in SUBSET [name : Int, from : Int, to : Int]
      /\ companions \in SUBSET Int /\ placed \in SUBSET Times
  BY <1>2
<1>4. /\ d \in Db /\ d.cat = cat /\ d.companions = companions /\ d.parts = parts
      /\ d.placed = placed /\ d.dflt = db.dflt /\ d.made = db.made
  <2> HIDE DEF cat, parts, companions, placed, d
  <2> QED
    BY <1>1, <1>2, <1>3, SetCat, SetParts, SetCompanions, SetPlaced
<1>5. Described(db) /\ Kept(db, R, n)
  BY DEF Good
<1>6. \A c \in Entry : /\ PartFor(c).name = c.name /\ PartFor(c).to = c.end
                       /\ c.end \in Int
  BY DEF Entry, PartFor
<1>7. \A c \in db.cat : c \in eligible <=> PartFor(c) \in gone
  BY <1>2, <1>5, <1>6 DEF Described
<1>8. \A p \in gone : \E c \in eligible : p = PartFor(c)
  BY <1>2, <1>5, <1>6 DEF Described
<1>9. \A m : m \in companions <=> /\ m \in db.companions
                                  /\ ~\E c \in eligible : c.compressed /\ m = c.name
  OBVIOUS
<1>10. \A p \in gone, r \in R : Covers(p, r) => r < n - DropAfter
  <2> TAKE p \in gone, r \in R
  <2> HAVE Covers(p, r)
  <2>1. PICK c \in eligible : p = PartFor(c)
    BY <1>8
  <2>2. r < c.end /\ c.end < began[s] - DropAfter /\ c.end \in Int
    BY <2>1, <1>2, <1>6 DEF Covers
  <2>3. r \in Int /\ DropAfter \in Int
    BY MaintenanceAssumption
  <2> QED
    BY <2>2, <2>3
<1>11. eligible \subseteq db.cat /\ gone \subseteq db.parts
  OBVIOUS
<1> HIDE DEF eligible, gone, companions, d
<1>12. Described(d)
  <2>1. \A c \in d.cat : PartFor(c) \in d.parts
    BY <1>4, <1>5, <1>7 DEF Described
  <2>2. \A p \in d.parts : \E c \in d.cat : p = PartFor(c)
    BY <1>4, <1>5, <1>7 DEF Described
  <2>3. ASSUME NEW c \in d.cat, c.compressed PROVE c.name \in d.companions
    <3>1. c \in db.cat /\ c \notin eligible
      BY <1>4
    <3>2. c.name \in db.companions
      BY <3>1, <2>3, <1>5 DEF Described
    <3>3. \A e \in eligible : e.name # c.name
      BY <3>1, <1>5, <1>11 DEF Described
    <3> QED
      BY <3>2, <3>3, <1>4, <1>9
  <2>4. \A m \in d.companions : \E c \in d.cat : c.compressed /\ c.name = m
    BY <1>4, <1>5, <1>9 DEF Described
  <2>5. \A c, e \in d.cat : c.name = e.name => c = e
    BY <1>4, <1>5 DEF Described
  <2> QED
    BY <2>1, <2>2, <2>3, <2>4, <2>5 DEF Described
<1>13. Kept(d, R, n)
  BY <1>4, <1>5, <1>10 DEF Kept
<1> QED
  BY <1>4, <1>12, <1>13 DEF Good, d

\* All of a table's maintenance, if no step fails.
LEMMA MaintainKeeps ==
  ASSUME OneFixedZone, NEW R \in SUBSET Int, NEW n \in Int, NEW db, Good(db, R, n),
         NEW s \in Sessions, began[s] \in Int, began[s] <= n, NEW t,
         NEW B \in SUBSET Starts, MaintainOneTable(db, s, t, B).ok
  PROVE  Good(MaintainOneTable(db, s, t, B), R, n)
<1> DEFINE drained == DrainDefaultPartition(db, s, B)
           future == IF drained.ok THEN EnsureFuturePartitions(drained, s) ELSE drained
           squeezed == IF future.ok THEN AutoCompressPartitions(future, s) ELSE future
           dropped == IF squeezed.ok /\ policy[s][t] THEN AutoDropPartitions(squeezed, s)
                      ELSE squeezed
<1>1. MaintainOneTable(db, s, t, B) = dropped
  BY DEF MaintainOneTable
<1>2. drained.ok => Good(drained, R, n)
  BY DrainKeeps
<1> HIDE DEF drained
<1>3. future.ok => Good(future, R, n)
  BY <1>2, EnsureKeeps
<1> HIDE DEF future
<1>4. squeezed.ok => Good(squeezed, R, n)
  BY <1>3, CompressKeeps
<1> HIDE DEF squeezed
<1>5. dropped.ok => Good(dropped, R, n)
  BY <1>4, DropKeeps
<1> QED
  BY ZenonT(30), <1>1, <1>5

-----------------------------------------------------------------------------
(* The invariant. *)

\* No table, no row, no partition.
LEMMA InitInv == Init => MaintenanceInv
<1> SUFFICES ASSUME Init PROVE MaintenanceInv
  OBVIOUS
<1>1. NoTable \in Db /\ NoTable.cat = {} /\ NoTable.parts = {} /\ NoTable.companions = {}
      /\ NoTable.dflt = {} /\ NoTable.placed = {}
  BY Zenon DEF NoTable, Db
<1>2. Good(NoTable, {}, Start)
  BY <1>1 DEF Good, Described, Kept
<1>3. Start \in Int /\ Start <= Start
  BY MaintenanceAssumption
<1>4. now = Start /\ \A s \in Sessions : began[s] = Start
  BY DEF Init
<1>5. \A t \in Tables : tab[t] = NoTable /\ rows[t] = {} /\ lock[t] = None
  BY Zenon DEF Init
<1>6. tab \in [Tables -> Db] /\ draft \in [Tables -> Db] /\ rows \in [Tables -> SUBSET Times]
  BY <1>1 DEF Init
<1>7. lock \in [Tables -> Sessions \cup {None}] /\ began \in [Sessions -> Int]
  BY <1>3 DEF Init
<1>8. at \in [Sessions -> Tables \cup {None}] /\ reads \in [Sessions -> SUBSET Starts]
  BY DEF Init
<1>9. \A t \in Tables : Good(tab[t], rows[t], now) /\ lock[t] = None
  BY <1>2, <1>4, <1>5, Zenon
<1>10. \A s \in Sessions : began[s] <= now
  BY <1>3, <1>4
<1> QED
  BY <1>3, <1>4, <1>6, <1>7, <1>8, <1>9, <1>10, Zenon DEF MaintenanceInv

\* Time passes: what was old enough to go stays so.
LEMMA LaterKeeps ==
  ASSUME NEW db, NEW R \in SUBSET Int, NEW n \in Int, Good(db, R, n)
  PROVE  Good(db, R, n + 1)
<1>1. \A r \in R : r < n - DropAfter => r < (n + 1) - DropAfter
  BY MaintenanceAssumption
<1>2. ASSUME Kept(db, R, n) PROVE Kept(db, R, n + 1)
  <2> DEFINE gone == R \ (db.dflt \cup db.placed)
  <2>1. \A r \in gone : r < n - DropAfter
    BY ZenonT(30), <1>2 DEF Kept
  <2>2. \A r \in gone : r < (n + 1) - DropAfter
    <3>1. gone \subseteq R
      OBVIOUS
    <3> HIDE DEF gone
    <3> QED
      BY <1>1, <2>1, <3>1
  <2>3. /\ db.dflt \cap db.placed = {} /\ db.dflt \cup db.placed \subseteq R
        /\ R # {} => db.made
    BY <1>2, Zenon DEF Kept
  <2> QED
    BY <2>2, <2>3, Zenon DEF Kept
<1> QED
  BY <1>2 DEF Good

\* An insert goes to one place, in a table that exists.
LEMMA InsertKeeps ==
  ASSUME NEW db, NEW R \in SUBSET Int, NEW n \in Int, Good(db, R, n), db.made,
         NEW r \in Times, r \notin R
  PROVE  /\ Good([db EXCEPT !.placed = @ \cup {r}], R \cup {r}, n)
         /\ Good([db EXCEPT !.dflt = @ \cup {r}], R \cup {r}, n)
<1> DEFINE p == WithPlaced(db, db.placed \cup {r})
           q == WithDflt(db, db.dflt \cup {r})
           x == db.placed \cup {r}
           y == db.dflt \cup {r}
<1>1. p = [db EXCEPT !.placed = @ \cup {r}] /\ q = [db EXCEPT !.dflt = @ \cup {r}]
  BY Zenon DEF WithPlaced, WithDflt
<1>2. db \in Db /\ x \in SUBSET Times /\ y \in SUBSET Times
  BY DEF Good, Db
<1>3. /\ p \in Db /\ p.parts = db.parts /\ p.cat = db.cat /\ p.companions = db.companions
      /\ p.placed = db.placed \cup {r} /\ p.dflt = db.dflt /\ p.made = db.made
  BY <1>2, SetPlaced, Zenon
<1>4. /\ q \in Db /\ q.parts = db.parts /\ q.cat = db.cat /\ q.companions = db.companions
      /\ q.placed = db.placed /\ q.dflt = db.dflt \cup {r} /\ q.made = db.made
  BY <1>2, SetDflt, Zenon
<1> HIDE DEF p, q, x, y
<1>5. Good(p, R \cup {r}, n)
  BY <1>3 DEF Good, Described, Kept
<1>6. Good(q, R \cup {r}, n)
  BY <1>4 DEF Good, Described, Kept
<1> QED
  BY <1>1, <1>5, <1>6, Zenon

\* The first partitions of a table without rows.
LEMMA CreateTableKeeps ==
  ASSUME OneFixedZone, NEW s \in Sessions, NEW n, now \in Int, NEW premake \in Int,
         CreateInitialPartitions(s, premake).ok
  PROVE  Good(CreateInitialPartitions(s, premake), {}, n)
<1> DEFINE db == [NoTable EXCEPT !.made = TRUE]
           starts == {AlignToInterval(now) + i * Interval : i \in -1..premake}
           d == CreatePartitions(db, s, starts, FALSE)
<1>1. db \in Db /\ db.cat = {} /\ db.parts = {} /\ db.companions = {}
      /\ db.dflt = {} /\ db.placed = {}
  BY Zenon DEF NoTable, Db
<1>2. starts \in SUBSET Starts
  <2>1. AlignToInterval(now) \in Starts /\ \A i \in -1..premake : i \in Int
    BY AlignRoundsDown
  <2> QED
    BY ZenonT(30), <2>1, StartShifted
<1>3. d = CreateInitialPartitions(s, premake)
  BY Zenon DEF CreateInitialPartitions
<1> HIDE DEF db, starts
<1>4. Described(db)
  BY <1>1 DEF Described
<1>5. d \in Db
  BY <1>1, <1>2, <1>4, CreateKeeps, Zenon DEF Adds
<1>6. d.ok => /\ Described(d) /\ d.dflt = db.dflt /\ d.placed = db.placed
              /\ d.made = db.made
  <2>1. Adds(db, d)
    BY Zenon, <1>1, <1>2, <1>4, CreateKeeps
  <2> HIDE DEF d
  <2> QED
    BY ZenonT(30), <2>1 DEF Adds
<1> HIDE DEF d
<1> QED
  BY <1>1, <1>3, <1>5, <1>6 DEF Good, Kept

\* A step of a job that may change a table: the draft is what the step made of the
\* committed table.
LEMMA WorkKeeps ==
  ASSUME OneFixedZone, MaintenanceInv, NEW s \in Sessions, Work(s)
  PROVE  MaintenanceInv'
<1> DEFINE t == at[s]
           db == IF job[s] = "pass" THEN MaintainOneTable(tab[t], s, t, reads[s])
                 ELSE DrainDefaultPartition(tab[t], s, reads[s])
<1>1. t \in Tables
  BY DEF MaintenanceInv, Work
<1>2. /\ Good(tab[t], rows[t], now) /\ began[s] \in Int /\ began[s] <= now
      /\ reads[s] \in SUBSET Starts /\ rows[t] \in SUBSET Int /\ now \in Int
  BY ZenonT(30), <1>1, MaintenanceAssumption DEF MaintenanceInv
<1>3. db.ok => Good(db, rows[t], now)
  <2>1. CASE job[s] = "pass"
    BY <1>2, <2>1, MaintainKeeps
  <2>2. CASE job[s] # "pass"
    BY <1>2, <2>2, DrainKeeps
  <2> QED
    BY <2>1, <2>2
<1>4. \/ db.ok /\ draft' = [draft EXCEPT ![t] = db] /\ lock' = [lock EXCEPT ![t] = s]
      \/ draft' = draft /\ lock' = lock
  BY Zenon DEF Work
<1>5. /\ at' = [at EXCEPT ![s] = None] /\ reads' = [reads EXCEPT ![s] = {}]
      /\ now' = now /\ tab' = tab /\ rows' = rows /\ began' = began
  BY DEF Work, Leave
<1> HIDE DEF db
<1>6. draft' \in [Tables -> Db] /\ lock' \in [Tables -> Sessions \cup {None}]
  BY <1>1, <1>3, <1>4 DEF MaintenanceInv, Good
<1>7. \A x \in Tables : lock'[x] # None => Good(draft'[x], rows[x], now)
  BY <1>1, <1>3, <1>4 DEF MaintenanceInv
<1>8. at' \in [Sessions -> Tables \cup {None}] /\ reads' \in [Sessions -> SUBSET Starts]
  BY <1>5 DEF MaintenanceInv
<1> QED
  BY <1>5, <1>6, <1>7, <1>8 DEF MaintenanceInv

\* The end of a job: its drafts are committed or thrown away, its locks go.
LEMMA EndKeeps ==
  ASSUME MaintenanceInv, NEW s \in Sessions, End(s),
         \A t \in Tables : tab'[t] = tab[t] \/ (t \in Mine(s) /\ tab'[t] = draft[t]),
         tab' \in [Tables -> Db]
  PROVE  MaintenanceInv'
<1>1. now' = now /\ rows' = rows
  BY DEF End
<1>2. /\ lock' \in [Tables -> Sessions \cup {None}]
      /\ \A t \in Tables : lock'[t] # None => lock'[t] = lock[t] /\ draft'[t] = draft[t]
  BY DEF End, MaintenanceInv
<1>3. draft' \in [Tables -> Db]
  <2>1. NoTable \in Db
    BY Zenon DEF NoTable, Db
  <2> QED
    BY <2>1 DEF End, MaintenanceInv
<1>4. /\ began' \in [Sessions -> Int] /\ at' \in [Sessions -> Tables \cup {None}]
      /\ reads' \in [Sessions -> SUBSET Starts] /\ \A x \in Sessions : began'[x] <= now
  BY MaintenanceAssumption DEF End, MaintenanceInv
<1>5. \A t \in Mine(s) : Good(draft[t], rows[t], now)
  BY MaintenanceAssumption DEF Mine, MaintenanceInv
<1>6. \A t \in Tables : Good(tab'[t], rows[t], now)
  BY <1>5 DEF MaintenanceInv
<1>7. \A t \in Tables : lock'[t] # None => Good(draft'[t], rows[t], now)
  BY <1>2 DEF MaintenanceInv
<1> QED
  BY ZenonT(30), <1>1, <1>2, <1>3, <1>4, <1>6, <1>7 DEF MaintenanceInv

\* Every step keeps the invariant.
LEMMA NextInv ==
  ASSUME OneFixedZone, MaintenanceInv, [Next]_vars
  PROVE  MaintenanceInv'
<1> USE MaintenanceAssumption
<1>1. CASE Tick
  <2>1. /\ now' = now + 1 /\ tab' = tab /\ draft' = draft /\ lock' = lock /\ rows' = rows
        /\ began' = began /\ at' = at /\ reads' = reads
    BY <1>1 DEF Tick, jobVars
  <2>2. \A t \in Tables : \A db : Good(db, rows[t], now) => Good(db, rows[t], now + 1)
    BY LaterKeeps DEF MaintenanceInv
  <2>3. /\ now + 1 \in Int /\ Start <= now + 1
        /\ \A s \in Sessions : began[s] <= now + 1
    <3>1. /\ now \in Int /\ Start \in Int /\ Start <= now
          /\ \A s \in Sessions : began[s] \in Int /\ began[s] <= now
      BY DEF MaintenanceInv
    <3> QED
      BY <3>1
  <2> QED
    BY ZenonT(30), <2>1, <2>2, <2>3 DEF MaintenanceInv
<1>2. ASSUME NEW t \in Tables, NEW r \in Times, InsertRow(t, r) PROVE MaintenanceInv'
  <2> DEFINE p == [tab[t] EXCEPT !.placed = @ \cup {r}]
             q == [tab[t] EXCEPT !.dflt = @ \cup {r}]
             R == rows[t] \cup {r}
  <2>1. /\ now' = now /\ draft' = draft /\ lock' = lock
        /\ began' = began /\ at' = at /\ reads' = reads
        /\ rows' = [rows EXCEPT ![t] = R] /\ lock[t] = None
    BY <1>2 DEF InsertRow, jobVars
  <2>2. tab' = [tab EXCEPT ![t] = p] \/ tab' = [tab EXCEPT ![t] = q]
    BY <1>2, Zenon DEF InsertRow
  <2>3. /\ Good(tab[t], rows[t], now) /\ tab[t].made /\ r \notin rows[t]
        /\ rows[t] \in SUBSET Int /\ now \in Int
    BY <1>2 DEF InsertRow, MaintenanceInv
  <2>4. Good(p, R, now) /\ Good(q, R, now)
    BY <2>3, InsertKeeps, Zenon
  <2> HIDE DEF p, q, R
  <2>5. tab' \in [Tables -> Db] /\ Good(tab'[t], R, now)
        /\ \A x \in Tables : x # t => tab'[x] = tab[x]
    <3>1. tab \in [Tables -> Db]
      BY DEF MaintenanceInv
    <3>2. p \in Db /\ q \in Db
      BY ZenonT(30), <2>4 DEF Good
    <3> QED
      BY ZenonT(30), <2>2, <2>4, <3>1, <3>2
  <2>6. rows' \in [Tables -> SUBSET Times] /\ rows'[t] = R
        /\ \A x \in Tables : x # t => rows'[x] = rows[x]
    BY <2>1 DEF MaintenanceInv, R
  <2> QED
    BY <2>1, <2>5, <2>6 DEF MaintenanceInv
<1>3. ASSUME NEW s \in Sessions, NEW t \in Tables, NEW premake \in Premakes,
             CreateTable(s, t, premake)
      PROVE  MaintenanceInv'
  <2> DEFINE db == CreateInitialPartitions(s, premake)
  <2>1. /\ now' = now /\ draft' = draft /\ lock' = lock /\ rows' = rows
        /\ began' = began /\ at' = at /\ reads' = reads
        /\ tab' = [tab EXCEPT ![t] = db] /\ db.ok /\ ~tab[t].made
    BY <1>3 DEF CreateTable, jobVars
  <2>2. rows[t] = {}
    BY <2>1 DEF MaintenanceInv, Good, Kept
  <2>3. Good(db, rows[t], now)
    BY <2>1, <2>2, CreateTableKeeps DEF MaintenanceInv
  <2> HIDE DEF db
  <2> QED
    BY <2>1, <2>3 DEF MaintenanceInv, Good
<1>4. ASSUME NEW s \in Sessions, NEW t \in Tables, StartDrain(s, t) PROVE MaintenanceInv'
  BY <1>4 DEF StartDrain, MaintenanceInv
<1>5. ASSUME NEW s \in Sessions, NEW t \in Tables, NEW on \in BOOLEAN, SetRetention(s, t, on)
      PROVE  MaintenanceInv'
  BY <1>5 DEF SetRetention, MaintenanceInv, jobVars
<1>6. ASSUME NEW s \in Sessions, StartPass(s) PROVE MaintenanceInv'
  BY <1>6 DEF StartPass, MaintenanceInv
<1>7. ASSUME NEW s \in Sessions, NEW t \in Tables, ReadDefault(s, t) PROVE MaintenanceInv'
  <2>1. {DrainBoundary(r) : r \in tab[t].dflt} \in SUBSET Starts
    BY AlignRoundsDown DEF MaintenanceInv, Db
  <2> QED
    BY <1>7, <2>1 DEF ReadDefault, MaintenanceInv
<1>8. ASSUME NEW s \in Sessions, Work(s) PROVE MaintenanceInv'
  BY <1>8, WorkKeeps
<1>9. ASSUME NEW s \in Sessions, Commit(s) PROVE MaintenanceInv'
  <2>1. tab' \in [Tables -> Db] /\ End(s)
    BY <1>9 DEF Commit, MaintenanceInv
  <2>2. \A t \in Tables : tab'[t] = tab[t] \/ (t \in Mine(s) /\ tab'[t] = draft[t])
    BY <1>9 DEF Commit
  <2> QED
    BY <2>1, <2>2, EndKeeps
<1>10. ASSUME NEW s \in Sessions, WorkFails(s) PROVE MaintenanceInv'
  BY <1>10 DEF WorkFails, Leave, MaintenanceInv
<1>11. ASSUME NEW s \in Sessions, RollBack(s) PROVE MaintenanceInv'
  <2>1. tab' = tab /\ End(s) /\ tab' \in [Tables -> Db]
    BY <1>11 DEF RollBack, MaintenanceInv
  <2> QED
    BY <2>1, EndKeeps
<1>12. CASE UNCHANGED vars
  BY <1>12 DEF vars, MaintenanceInv
<1> QED
  BY <1>1, <1>2, <1>3, <1>4, <1>5, <1>6, <1>7, <1>8, <1>9, <1>10, <1>11, <1>12
  DEF Next, JobStep

\* MaintenanceInv holds of every reachable state.
LEMMA InvIsInvariant == ASSUME OneFixedZone PROVE Spec => []MaintenanceInv
<1>1. MaintenanceInv /\ [Next]_vars => MaintenanceInv'
  BY NextInv
<1> QED
  BY InitInv, <1>1, PTL DEF Spec

\* The catalog describes the partitions that exist, whatever passes, drains, inserts,
\* errors and roll-backs meet (register_partition, auto_compress_partitions,
\* auto_drop_partitions).
THEOREM CatalogIsExact == ASSUME OneFixedZone PROVE Spec => []CatalogExact
<1>1. MaintenanceInv => CatalogExact
  <2> SUFFICES ASSUME MaintenanceInv, NEW t \in Tables
               PROVE  /\ tab[t].parts = {PartFor(c) : c \in tab[t].cat}
                      /\ tab[t].companions = {c.name : c \in {d \in tab[t].cat : d.compressed}}
    BY Zenon DEF CatalogExact, PartFor
  <2>1. Described(tab[t])
    BY DEF MaintenanceInv, Good
  <2>2. tab[t].parts = {PartFor(c) : c \in tab[t].cat}
    BY <2>1 DEF Described
  <2>3. tab[t].companions = {c.name : c \in {d \in tab[t].cat : d.compressed}}
    BY <2>1 DEF Described
  <2> QED
    BY <2>2, <2>3
<1> QED
  BY <1>1, InvIsInvariant, PTL

\* No row is lost before retention allows it, or is in two places (drain_default_partition,
\* auto_drop_partitions).
THEOREM RowsAreKept == ASSUME OneFixedZone PROVE Spec => []RowsKept
<1>1. MaintenanceInv => RowsKept
  <2> SUFFICES ASSUME MaintenanceInv, NEW t \in Tables
               PROVE  /\ tab[t].dflt \cap tab[t].placed = {}
                      /\ \A r \in rows[t] \ (tab[t].dflt \cup tab[t].placed) : r < now - DropAfter
    BY Zenon DEF RowsKept
  <2>1. Kept(tab[t], rows[t], now)
    BY DEF MaintenanceInv, Good
  <2> QED
    BY <2>1, Zenon DEF Kept
<1> QED
  BY <1>1, InvIsInvariant, PTL

-----------------------------------------------------------------------------
(* The partitions to come. Starts are an interval apart, and a name has the *)
(* day or the minute of the start, so that a name stands for one start if   *)
(* the interval is a minute or more: a name that is registered already, for *)
(* which nothing is created, is then the name of the same interval. Below a *)
(* minute it may be another's, and the partition is not made.               *)

NamesApart == Interval >= Minute

\* Each catalog row is one whole interval under the name of its start.
Regular(db) ==
  \A c \in db.cat : /\ c.start \in Starts /\ c.end = c.start + Interval
                    /\ \A s \in Sessions : c.name = PartitionName(s, c.start)

\* What FutureCovered says of one table.
Reaches(db, times) == \A u \in times : Covered(db, u)

\* What a pass of session s makes partitions for.
ToCome(s) == Ahead(began[s], Premake)

\* The draft of a pass reaches as far ahead of the pass as the committed table must once it
\* is committed; the draft of a drain, which has no policies to apply, drops nothing.
Pending(t) ==
  /\ tab[t].made /\ draft[t].made /\ draft[t].ok /\ Regular(draft[t]) /\ ~Idle(lock[t])
  /\ IF job[lock[t]] = "pass" THEN Reaches(draft[t], ToCome(lock[t]))
     ELSE tab[t].parts \subseteq draft[t].parts

Settled(t) ==
  /\ tab[t].ok /\ Regular(tab[t])
  /\ Reaches(tab[t], ahead[t])
  /\ lock[t] # None => Pending(t)

\* A job works on tables that exist.
Aims(s) ==
  /\ at[s] # None => tab[at[s]].made /\ ~Idle(s)
  /\ \A t \in todo[s] : t \in Tables /\ tab[t].made /\ ~Idle(s)

FutureInv ==
  /\ ahead \in [Tables -> SUBSET Int] /\ DOMAIN job = Sessions /\ DOMAIN todo = Sessions
  /\ \A s \in Sessions : Aims(s)
  /\ \A t \in Tables : Settled(t)

\* Two starts are an interval apart.
LEMMA StartsApart ==
  ASSUME NEW u \in Starts, NEW v \in Starts, u < v
  PROVE  u + Interval <= v
<1>1. Interval \in Nat \ {0}
  BY MaintenanceAssumption
<1>2. PICK m \in Int : u = m * Interval
  BY DEF Starts
<1>3. PICK n \in Int : v = n * Interval
  BY DEF Starts
<1>4. m < n
  <2> SUFFICES ASSUME n <= m PROVE FALSE
    BY <1>2, <1>3
  <2>1. m - n \in Nat /\ (m - n) * Interval >= 0
    BY <1>1
  <2>2. (m - n) * Interval = m * Interval - n * Interval
    BY <1>1
  <2>3. m * Interval \in Int /\ n * Interval \in Int
    BY <1>1
  <2> QED
    BY <1>2, <1>3, <2>1, <2>2, <2>3
<1>5. n - m - 1 \in Nat /\ (n - m - 1) * Interval >= 0
  BY <1>1, <1>4
<1>6. (n - m - 1) * Interval = n * Interval - m * Interval - Interval
  BY <1>1
<1> QED
  BY <1>1, <1>2, <1>3, <1>5, <1>6

\* Times a day apart are on different days, and so for minutes.
LEMMA UnitsApart ==
  ASSUME NEW a \in Int, NEW b \in Int, NEW D \in Nat \ {0}, a + D <= b
  PROVE  a \div D # b \div D
<1> DEFINE p == a \div D
           q == b \div D
<1>1. p \in Int /\ q \in Int /\ a < D * p + D /\ D * q <= b
  OBVIOUS
<1>2. a >= D * p /\ b < D * q + D
  OBVIOUS
<1> HIDE DEF p, q
<1>3. ASSUME p = q PROVE FALSE
  BY <1>1, <1>2, <1>3
<1> QED
  BY <1>3 DEF p, q

\* A name stands for one start, in every session.
LEMMA NameTellsStart ==
  ASSUME OneFixedZone, NamesApart, NEW s \in Sessions, NEW u \in Starts, NEW v \in Starts,
         PartitionName(s, u) = PartitionName(s, v)
  PROVE  u = v
<1> DEFINE D == IF Interval >= Day THEN Day ELSE Minute
<1>1. PICK k \in Int : \A x \in Sessions, w \in Int : Offset(x, w) = k * Second
  BY DEF OneFixedZone
<1>2. u \in Int /\ v \in Int /\ k * Second \in Int
  BY MaintenanceAssumption DEF Starts
<1>3. PICK z \in Int : Local(s, u) = u + z /\ Local(s, v) = v + z
  BY ZenonT(30), <1>1, <1>2 DEF Local
<1>4. D \in Nat \ {0} /\ Interval \in Nat \ {0} /\ D <= Interval
  BY MaintenanceAssumption DEF NamesApart
<1>5. (u + z) \div D = (v + z) \div D
  BY <1>3 DEF PartitionName
<1> HIDE DEF D
<1>6. ASSUME u < v PROVE FALSE
  <2>1. (u + z) + D <= v + z
    BY <1>2, <1>4, <1>6, StartsApart
  <2> QED
    BY <1>2, <1>4, <1>5, <2>1, UnitsApart
<1>7. ASSUME v < u PROVE FALSE
  <2>1. (v + z) + D <= u + z
    BY <1>2, <1>4, <1>7, StartsApart
  <2> QED
    BY <1>2, <1>4, <1>5, <2>1, UnitsApart
<1> QED
  BY <1>2, <1>6, <1>7

\* The sessions agree on names.
LEMMA SameNames ==
  ASSUME OneFixedZone, NEW s \in Sessions, NEW x \in Sessions, NEW u \in Int
  PROVE  PartitionName(s, u) = PartitionName(x, u)
BY DEF OneFixedZone, PartitionName, Local

\* The intervals from a on leave no gap.
LEMMA SlotOf ==
  ASSUME NEW a \in Int, NEW premake \in Int, NEW v \in a..(a + (premake + 1) * Interval - 1)
  PROVE  \E i \in 0..premake : a + i * Interval <= v /\ v < a + i * Interval + Interval
<1> DEFINE i == (v - a) \div Interval
<1>1. Interval \in Nat \ {0}
  BY MaintenanceAssumption
<1>2. v \in Int /\ v - a \in Nat /\ v - a < (premake + 1) * Interval
  BY <1>1
<1>3. i \in Int /\ i * Interval <= v - a /\ v - a < i * Interval + Interval
  BY <1>1, <1>2
<1> HIDE DEF i
<1>4. i >= 0
  <2> SUFFICES ASSUME i <= -1 PROVE FALSE
    BY <1>3
  <2>1. (-1 - i) * Interval >= 0
    BY <1>1, <1>3
  <2>2. (-1 - i) * Interval = -Interval - i * Interval
    BY <1>1, <1>3
  <2>3. i * Interval \in Int
    BY <1>1, <1>3
  <2> QED
    BY <1>1, <1>2, <1>3, <2>1, <2>2, <2>3
<1>5. i <= premake
  <2> SUFFICES ASSUME i - premake - 1 \in Nat PROVE FALSE
    BY <1>1, <1>3
  <2>1. (i - premake - 1) * Interval >= 0
    BY <1>1
  <2>2. (i - premake - 1) * Interval = i * Interval - (premake + 1) * Interval
    BY <1>1, <1>3
  <2>3. i * Interval \in Int /\ (premake + 1) * Interval \in Int
    BY <1>1, <1>3
  <2> QED
    BY <1>2, <1>3, <2>1, <2>2, <2>3
<1>6. a + i * Interval <= v /\ v < a + i * Interval + Interval
  <2>1. i * Interval \in Int
    BY <1>1, <1>3
  <2> QED
    BY <1>1, <1>2, <1>3, <2>1
<1> QED
  BY <1>1, <1>3, <1>4, <1>5, <1>6

\* The times ahead are times.
LEMMA AheadIsInt == \A n, premake : Ahead(n, premake) \in SUBSET Int
BY DEF Ahead

\* A table without partitions.
LEMMA NoTableRegular == Regular(NoTable) /\ Regular([NoTable EXCEPT !.made = TRUE])
<1>1. NoTable.cat = {} /\ [NoTable EXCEPT !.made = TRUE].cat = {}
  BY Zenon DEF NoTable
<1> QED
  BY <1>1 DEF Regular

\* What a step that creates partitions at the given starts makes of a table.
Creates(s, db, d, starts) ==
  /\ Regular(d) /\ db.cat \subseteq d.cat /\ db.parts \subseteq d.parts
  /\ \A u \in starts : \E e \in d.cat : e.name = PartitionName(s, u)

\* CREATE TABLE IF NOT EXISTS and register_partition leave every start registered, and
\* drop nothing.
LEMMA CreateCreates ==
  ASSUME OneFixedZone, NamesApart, NEW db \in Db, Regular(db), NEW s \in Sessions,
         NEW starts \in SUBSET Starts, NEW attached,
         CreatePartitions(db, s, starts, attached).ok
  PROVE  Creates(s, db, CreatePartitions(db, s, starts, attached), starts)
<1> DEFINE N(u) == PartitionName(s, u)
           new == {u \in Named(s, starts) : \A q \in db.parts : q.name # N(u)}
           unknown == {u \in Named(s, starts) : \A e \in db.cat : e.name # N(u)}
           P(u) == [name |-> N(u), from |-> Bound(s, u), to |-> Bound(s, u + Interval)]
           E(u) == [name |-> N(u), start |-> u, end |-> u + Interval, compressed |-> FALSE]
           parts == db.parts \cup {P(u) : u \in new}
           cat == db.cat \cup {E(u) : u \in unknown}
           c == CreatePartitions(db, s, starts, attached)
<1>1. c = WithCat(WithParts(db, parts), cat) \/ c = Failed(db)
  BY Zenon DEF CreatePartitions, WithCat, WithParts
<1>2. c = WithCat(WithParts(db, parts), cat)
  BY <1>1, FailedFails, Zenon
<1>3. ASSUME NEW u \in starts PROVE u \in Named(s, starts)
  <2>1. \A v \in starts : PartitionName(s, v) = PartitionName(s, u) => v = u /\ u <= v
    BY NameTellsStart DEF Starts
  <2> QED
    BY ZenonT(30), <2>1 DEF Named
<1>4. Named(s, starts) \subseteq starts
  BY ZenonT(30) DEF Named
<1>5. ASSUME NEW u \in Starts
      PROVE  /\ P(u) \in [name : Int, from : Int, to : Int] /\ E(u) \in Entry
             /\ E(u).name = N(u) /\ E(u).start = u /\ E(u).end = u + Interval
  <2>1. u \in Int /\ u + Interval \in Int /\ u + Interval \in Starts /\ N(u) \in Int
    BY NextStart, NameIsInt DEF Starts
  <2>2. Bound(s, u) = u /\ Bound(s, u + Interval) = u + Interval
    BY <2>1, BoundIsTime
  <2> QED
    BY <2>1, <2>2 DEF Entry
<1> HIDE DEF c, P, E, N
<1>6. parts \in SUBSET [name : Int, from : Int, to : Int] /\ cat \in SUBSET Entry
  <2>1. \A u \in new \cup unknown : u \in Starts
    BY Zenon, <1>4
  <2>2. db.parts \subseteq [name : Int, from : Int, to : Int] /\ db.cat \subseteq Entry
    BY ZenonT(30) DEF Db, Entry
  <2> HIDE DEF new, unknown
  <2> QED
    BY <1>5, <2>1, <2>2
<1>7. c.parts = parts /\ c.cat = cat
  <2> HIDE DEF parts, cat
  <2> DEFINE w == WithParts(db, parts)
  <2>1. w \in Db /\ w.parts = parts
    BY ZenonT(30), <1>6, SetParts
  <2>2. c = WithCat(w, cat)
    BY Zenon, <1>2
  <2> HIDE DEF w
  <2>3. c.parts = w.parts /\ c.cat = cat
    BY ZenonT(30), <1>6, <2>1, <2>2, SetCat
  <2> QED
    BY Zenon, <2>1, <2>3
<1>8. \A x \in Sessions, u \in Int : N(u) = PartitionName(x, u)
  BY ZenonT(30), SameNames DEF N
<1>9. Regular(c)
  <2> SUFFICES ASSUME NEW e \in cat
               PROVE  /\ e.start \in Starts /\ e.end = e.start + Interval
                      /\ \A x \in Sessions : e.name = PartitionName(x, e.start)
    BY ZenonT(30), <1>7 DEF Regular
  <2>1. CASE e \in db.cat
    BY <2>1 DEF Regular
  <2>2. CASE e \notin db.cat
    <3>1. PICK u \in unknown : e = E(u)
      BY <2>2
    <3>2. u \in Starts /\ u \in Int
      BY ZenonT(30), <1>4 DEF Starts
    <3>3. E(u).name = N(u) /\ E(u).start = u /\ E(u).end = u + Interval
      BY Zenon, <1>5, <3>2
    <3>4. e.name = N(u) /\ e.start = u /\ e.end = u + Interval
      BY Zenon, <3>1, <3>3
    <3> QED
      BY ZenonT(30), <1>8, <3>2, <3>4
  <2> QED
    BY ZenonT(30), <2>1, <2>2
<1>10. ASSUME NEW u \in starts PROVE \E e \in cat : e.name = N(u)
  <2>1. CASE u \in unknown
    <3>1. E(u) \in cat /\ E(u).name = N(u)
      BY <1>5, <2>1
    <3> QED
      BY <3>1
  <2>2. CASE u \notin unknown
    BY Zenon, <1>3, <2>2
  <2> QED
    BY <2>1, <2>2
<1>11. db.cat \subseteq c.cat /\ db.parts \subseteq c.parts
  BY <1>7
<1>12. \A u \in starts : \E e \in c.cat : e.name = PartitionName(s, u)
  BY ZenonT(30), <1>7, <1>10 DEF N
<1> QED
  BY Zenon, <1>9, <1>11, <1>12 DEF Creates, c

\* A drain creates partitions and moves rows.
LEMMA DrainCreates ==
  ASSUME OneFixedZone, NamesApart, NEW db \in Db, Described(db), Regular(db),
         NEW s \in Sessions,
         NEW B \in SUBSET Starts, DrainDefaultPartition(db, s, B).ok
  PROVE  /\ Regular(DrainDefaultPartition(db, s, B))
         /\ db.parts \subseteq DrainDefaultPartition(db, s, B).parts
         /\ DrainDefaultPartition(db, s, B).made = db.made
<1> DEFINE d == CreatePartitions(db, s, B, FALSE)
           e == WithDflt(WithPlaced(d, d.placed \cup db.dflt), {})
<1>1. CASE B = {}
  BY ZenonT(30), <1>1 DEF DrainDefaultPartition
<1>2. CASE B # {}
  <2>1. \/ DrainDefaultPartition(db, s, B) = e /\ d.ok
        \/ DrainDefaultPartition(db, s, B) = Failed(d)
    BY <1>2, Zenon DEF DrainDefaultPartition, WithDflt, WithPlaced
  <2>2. d \in Db
    BY CreateKeeps, Zenon DEF Adds
  <2>3. d.ok => d.made = db.made
    <3>1. Adds(db, d)
      BY Zenon, CreateKeeps
    <3> HIDE DEF d
    <3> QED
      BY ZenonT(30), <3>1 DEF Adds
  <2>4. d.ok => Creates(s, db, d, B)
    BY Zenon, CreateCreates
  <2> HIDE DEF d
  <2>5. d.ok /\ DrainDefaultPartition(db, s, B) = e
    BY ZenonT(30), <2>1, <2>2, FailedFails
  <2>6. e.parts = d.parts /\ e.cat = d.cat /\ e.made = d.made
    <3>1. d.placed \cup db.dflt \in SUBSET Times
      BY <2>2 DEF Db
    <3> QED
      BY <2>2, <3>1, SetPlaced, SetDflt
  <2> HIDE DEF e
  <2> QED
    BY <2>3, <2>4, <2>5, <2>6 DEF Creates, Regular
<1> QED
  BY <1>1, <1>2

\* A table whose intervals from n's on are registered reaches as far as they do.
LEMMA RegisteredReaches ==
  ASSUME OneFixedZone, NamesApart, NEW d \in Db, Described(d), Regular(d), NEW s \in Sessions,
         NEW n \in Int, NEW premake \in Int,
         \A i \in 0..premake :
           \E e \in d.cat : e.name = PartitionName(s, AlignToInterval(n) + i * Interval)
  PROVE  Reaches(d, Ahead(n, premake))
<1> DEFINE a == AlignToInterval(n)
<1>1. Interval \in Nat \ {0}
  BY MaintenanceAssumption
<1>2. a \in Int /\ a \in Starts /\ a <= n
  BY AlignRoundsDown
<1> HIDE DEF a
<1>3. (premake + 1) * Interval \in Int
  BY <1>1
<1>4. ASSUME NEW u \in n..(a + (premake + 1) * Interval - 1) PROVE Covered(d, u)
  <2>1. u \in a..(a + (premake + 1) * Interval - 1) /\ u \in Int
    BY <1>2, <1>3
  <2>2. PICK i \in 0..premake : a + i * Interval <= u /\ u < a + i * Interval + Interval
    BY <1>2, <2>1, SlotOf
  <2>3. i \in Int /\ a + i * Interval \in Int /\ a + i * Interval \in Starts
    <3>1. i \in Int
      BY <1>1
    <3> QED
      BY ZenonT(30), <1>2, <3>1, StartShifted
  <2>4. PICK e \in d.cat : e.name = PartitionName(s, a + i * Interval)
    BY DEF a
  <2>5. e.start \in Int /\ e.start \in Starts /\ e.end = e.start + Interval
        /\ PartitionName(s, e.start) = PartitionName(s, a + i * Interval)
    BY <2>4 DEF Regular, Db
  <2>6. e.start = a + i * Interval
    BY ZenonT(30), <2>3, <2>5, NameTellsStart
  <2>7. PartFor(e) \in d.parts
    BY DEF Described
  <2>8. Covers(PartFor(e), u)
    BY <2>2, <2>5, <2>6 DEF Covers, PartFor
  <2> QED
    BY <2>7, <2>8 DEF Covered
<1> QED
  BY <1>4 DEF Reaches, Ahead, a

\* ensure_future_partitions.
LEMMA EnsureReaches ==
  ASSUME OneFixedZone, NamesApart, NEW db \in Db, Described(db), Regular(db),
         NEW s \in Sessions,
         began[s] \in Int, EnsureFuturePartitions(db, s).ok
  PROVE  /\ Regular(EnsureFuturePartitions(db, s))
         /\ Reaches(EnsureFuturePartitions(db, s), ToCome(s))
         /\ EnsureFuturePartitions(db, s).made = db.made
<1> DEFINE a == AlignToInterval(began[s])
           starts == {a + i * Interval : i \in 0..Premake}
           missing == {u \in starts : \A c \in db.cat : c.name # PartitionName(s, u)}
           d == CreatePartitions(db, s, missing, TRUE)
<1>1. EnsureFuturePartitions(db, s) = d
  BY DEF EnsureFuturePartitions
<1>2. a \in Int /\ a \in Starts
  BY AlignRoundsDown
<1>3. missing \in SUBSET Starts
  <2>1. \A i \in 0..Premake : i \in Int
    BY MaintenanceAssumption
  <2> HIDE DEF a
  <2> QED
    BY ZenonT(30), <1>2, <2>1, StartShifted
<1>4. ASSUME NEW i \in 0..Premake
      PROVE  \/ a + i * Interval \in missing
             \/ \E c \in db.cat : c.name = PartitionName(s, a + i * Interval)
  OBVIOUS
<1> HIDE DEF missing
<1>5. d \in Db
  BY <1>3, CreateKeeps, Zenon DEF Adds
<1>6. d.ok => Described(d) /\ d.made = db.made
  <2>1. Adds(db, d)
    BY Zenon, <1>3, CreateKeeps
  <2> HIDE DEF d
  <2> QED
    BY ZenonT(30), <2>1 DEF Adds
<1>7. d.ok => Creates(s, db, d, missing)
  BY Zenon, <1>3, CreateCreates
<1> HIDE DEF d
<1>8. Described(d) /\ d.made = db.made /\ Creates(s, db, d, missing)
  BY <1>1, <1>6, <1>7
<1>9. ASSUME NEW i \in 0..Premake
      PROVE  \E e \in d.cat : e.name = PartitionName(s, a + i * Interval)
  BY <1>4, <1>8 DEF Creates
<1>10. Regular(d)
  BY ZenonT(30), <1>8 DEF Creates
<1>11. Reaches(d, ToCome(s))
  <2>1. Premake \in Int
    BY MaintenanceAssumption
  <2> QED
    BY ZenonT(30), <1>5, <1>8, <1>9, <1>10, <2>1, RegisteredReaches DEF ToCome
<1> QED
  BY ZenonT(30), <1>1, <1>8, <1>10, <1>11

\* Compression changes no bounds.
LEMMA CompressReaches ==
  ASSUME NEW db \in Db, Regular(db), NEW s \in Sessions, NEW n, Reaches(db, n)
  PROVE  /\ Regular(AutoCompressPartitions(db, s))
         /\ Reaches(AutoCompressPartitions(db, s), n)
         /\ AutoCompressPartitions(db, s).made = db.made
<1> DEFINE eligible == {c \in db.cat : ~c.compressed /\ c.end < began[s] - CompressAfter}
           Marked(c) == [c EXCEPT !.compressed = TRUE]
           cat == (db.cat \ eligible) \cup {Marked(c) : c \in eligible}
           companions == db.companions \cup {c.name : c \in eligible}
           d == AutoCompressPartitions(db, s)
<1>1. d = WithCompanions(WithCat(db, cat), companions)
  BY Zenon DEF AutoCompressPartitions, WithCompanions, WithCat
<1>2. \A c \in Entry : /\ Marked(c) \in Entry /\ Marked(c).name = c.name /\ c.name \in Int
                       /\ Marked(c).start = c.start /\ Marked(c).end = c.end
  BY Zenon DEF Entry
<1>3. db.cat \subseteq Entry /\ db.companions \subseteq Int
  BY DEF Db, Entry
<1> HIDE DEF Marked
<1>4. cat \in SUBSET Entry /\ companions \in SUBSET Int
  BY ZenonT(30), <1>2, <1>3
<1>5. d.cat = cat /\ d.parts = db.parts /\ d.made = db.made
  <2> HIDE DEF cat, companions, d
  <2> QED
    BY <1>1, <1>4, SetCat, SetCompanions
<1>6. \A c \in cat : \E b \in db.cat : c.name = b.name /\ c.start = b.start /\ c.end = b.end
  BY <1>2, <1>3
<1> HIDE DEF d, cat
<1>7. Regular(d)
  BY <1>5, <1>6 DEF Regular
<1>8. Reaches(d, n)
  BY ZenonT(30), <1>5 DEF Reaches, Covered
<1> QED
  BY <1>5, <1>7, <1>8 DEF d

\* Retention drops nothing that ends after now.
LEMMA DropReaches ==
  ASSUME NEW db \in Db, Described(db), Regular(db), NEW s \in Sessions, began[s] \in Int,
         Reaches(db, ToCome(s))
  PROVE  /\ Regular(AutoDropPartitions(db, s))
         /\ Reaches(AutoDropPartitions(db, s), ToCome(s))
         /\ AutoDropPartitions(db, s).made = db.made
<1> DEFINE eligible == {c \in db.cat : c.end < began[s] - DropAfter}
           gone == {p \in db.parts : \E c \in eligible : c.name = p.name}
           cat == db.cat \ eligible
           parts == db.parts \ gone
           companions == db.companions \ {c.name : c \in {e \in eligible : e.compressed}}
           placed == {r \in db.placed : ~\E p \in gone : Covers(p, r)}
           d == AutoDropPartitions(db, s)
<1>1. d = WithPlaced(WithCompanions(WithParts(WithCat(db, cat), parts), companions), placed)
  BY Zenon DEF AutoDropPartitions, WithCompanions, WithCat, WithParts, WithPlaced
<1>2. /\ cat \in SUBSET Entry /\ parts \in SUBSET [name : Int, from : Int, to : Int]
      /\ companions \in SUBSET Int /\ placed \in SUBSET Times
  BY ZenonT(30) DEF Db, Entry
<1>3. d.cat = cat /\ d.parts = parts /\ d.made = db.made
  <2> HIDE DEF cat, parts, companions, placed, d
  <2> DEFINE d1 == WithCat(db, cat)
             d2 == WithParts(d1, parts)
             d3 == WithCompanions(d2, companions)
  <2>1. d1 \in Db /\ d1.cat = cat /\ d1.made = db.made
    BY ZenonT(30), <1>2, SetCat
  <2>2. d2 \in Db /\ d2.cat = d1.cat /\ d2.parts = parts /\ d2.made = d1.made
    <3> HIDE DEF d1
    <3> QED
      BY ZenonT(30), <1>2, <2>1, SetParts
  <2>3. d3 \in Db /\ d3.cat = d2.cat /\ d3.parts = d2.parts /\ d3.made = d2.made
    <3> HIDE DEF d1, d2
    <3> QED
      BY ZenonT(30), <1>2, <2>2, SetCompanions
  <2>4. d = WithPlaced(d3, placed)
    BY Zenon, <1>1
  <2> HIDE DEF d1, d2, d3
  <2>5. d.cat = d3.cat /\ d.parts = d3.parts /\ d.made = d3.made
    BY ZenonT(30), <1>2, <2>3, <2>4, SetPlaced
  <2> QED
    BY ZenonT(30), <2>1, <2>2, <2>3, <2>5
<1>4. Regular(d)
  BY Zenon, <1>3 DEF Regular
<1>5. ASSUME NEW u \in Int, began[s] <= u, Covered(db, u) PROVE Covered(d, u)
  <2>1. PICK p \in db.parts : Covers(p, u)
    BY <1>5 DEF Covered
  <2>2. PICK c \in db.cat : p = PartFor(c)
    BY DEF Described
  <2>3. c.end \in Int /\ u < c.end /\ p.name = c.name
    BY <2>1, <2>2 DEF Covers, PartFor, Db
  <2>4. c \notin eligible
    <3>1. DropAfter \in Int /\ 0 <= DropAfter /\ began[s] \in Int
      BY MaintenanceAssumption
    <3>2. ~(c.end < began[s] - DropAfter)
      BY ONLY <1>5, <2>3, <3>1
    <3> QED
      BY Zenon, <3>2
  <2>5. \A e \in eligible : e.name # c.name
    BY ZenonT(30), <2>4 DEF Described
  <2>6. p \in parts
    BY <2>3, <2>5
  <2> QED
    BY ZenonT(30), <1>3, <2>1, <2>6 DEF Covered
<1>6. \A u \in ToCome(s) : u \in Int /\ began[s] <= u
  BY AlignRoundsDown, MaintenanceAssumption DEF ToCome, Ahead
<1> HIDE DEF d
<1>7. Reaches(d, ToCome(s))
  BY ZenonT(30), <1>5, <1>6 DEF Reaches
<1> QED
  BY <1>3, <1>4, <1>7 DEF d

\* What a pass makes of a table.
Maintained(s, db, d) == Regular(d) /\ Reaches(d, ToCome(s)) /\ d.made = db.made

\* All of a table's maintenance, if no step fails.
LEMMA MaintainReaches ==
  ASSUME OneFixedZone, NamesApart, NEW R \in SUBSET Int, NEW n \in Int, NEW db,
         Good(db, R, n), Regular(db), NEW s \in Sessions, began[s] \in Int, began[s] <= n, NEW t,
         NEW B \in SUBSET Starts, MaintainOneTable(db, s, t, B).ok
  PROVE  Maintained(s, db, MaintainOneTable(db, s, t, B))
<1> DEFINE drained == DrainDefaultPartition(db, s, B)
           future == IF drained.ok THEN EnsureFuturePartitions(drained, s) ELSE drained
           squeezed == IF future.ok THEN AutoCompressPartitions(future, s) ELSE future
           dropped == IF squeezed.ok /\ policy[s][t] THEN AutoDropPartitions(squeezed, s)
                      ELSE squeezed
<1>1. MaintainOneTable(db, s, t, B) = dropped
  BY Zenon DEF MaintainOneTable
<1>2. drained.ok => Good(drained, R, n) /\ Regular(drained) /\ drained.made = db.made
  BY Zenon, DrainKeeps, DrainCreates DEF Good
<1> HIDE DEF drained
<1>3. future.ok => /\ Good(future, R, n) /\ Regular(future) /\ Reaches(future, ToCome(s))
                   /\ future.made = db.made
  BY <1>2, EnsureKeeps, EnsureReaches DEF Good
<1> HIDE DEF future
<1>4. squeezed.ok => /\ Good(squeezed, R, n) /\ Regular(squeezed)
                     /\ Reaches(squeezed, ToCome(s)) /\ squeezed.made = db.made
  BY ZenonT(30), <1>3, CompressKeeps, CompressReaches DEF Good
<1> HIDE DEF squeezed
<1>5. dropped.ok => /\ Regular(dropped) /\ Reaches(dropped, ToCome(s))
                    /\ dropped.made = db.made
  BY ZenonT(30), <1>4, DropReaches DEF Good
<1> QED
  BY <1>1, <1>5 DEF Maintained

-----------------------------------------------------------------------------
(* FutureInv is kept. *)

\* The first partitions of a table.
LEMMA CreateTableReaches ==
  ASSUME OneFixedZone, NamesApart, NEW s \in Sessions, now \in Int, NEW premake \in Int,
         CreateInitialPartitions(s, premake).ok
  PROVE  /\ Regular(CreateInitialPartitions(s, premake))
         /\ Reaches(CreateInitialPartitions(s, premake), Ahead(now, premake))
         /\ CreateInitialPartitions(s, premake).made
<1> DEFINE db == [NoTable EXCEPT !.made = TRUE]
           a == AlignToInterval(now)
           starts == {a + i * Interval : i \in -1..premake}
           d == CreatePartitions(db, s, starts, FALSE)
<1>1. db \in Db /\ db.cat = {} /\ db.parts = {} /\ db.companions = {} /\ db.made
  BY Zenon DEF NoTable, Db
<1>2. a \in Int /\ a \in Starts
  BY AlignRoundsDown
<1>3. starts \in SUBSET Starts
  <2>1. \A i \in -1..premake : i \in Int
    OBVIOUS
  <2> HIDE DEF a
  <2> QED
    BY Zenon, <1>2, <2>1, StartShifted
<1>4. \A i \in 0..premake : a + i * Interval \in starts
  OBVIOUS
<1>5. d = CreateInitialPartitions(s, premake) /\ Regular(db)
  BY Zenon, NoTableRegular DEF CreateInitialPartitions
<1> HIDE DEF db, starts
<1>6. Described(db)
  BY <1>1 DEF Described
<1>7. d \in Db
  BY <1>1, <1>3, <1>6, CreateKeeps, Zenon DEF Adds
<1>8. d.ok => Described(d) /\ d.made = db.made
  <2>1. Adds(db, d)
    BY Zenon, <1>1, <1>3, <1>6, CreateKeeps
  <2> HIDE DEF d
  <2> QED
    BY ZenonT(30), <2>1 DEF Adds
<1>9. d.ok => Creates(s, db, d, starts)
  BY Zenon, <1>1, <1>3, <1>5, CreateCreates
<1> HIDE DEF d
<1>10. Described(d) /\ d.made /\ Creates(s, db, d, starts)
  BY Zenon, <1>1, <1>5, <1>8, <1>9
<1>11. \A i \in 0..premake : \E e \in d.cat : e.name = PartitionName(s, a + i * Interval)
  BY <1>4, <1>10 DEF Creates
<1>12. Regular(d)
  BY ZenonT(30), <1>10 DEF Creates
<1>13. Reaches(d, Ahead(now, premake))
  BY <1>7, <1>10, <1>11, <1>12, RegisteredReaches
<1> QED
  BY <1>5, <1>10, <1>12, <1>13

\* Nothing is committed or begun.
LEMMA InitFuture == Init => FutureInv
<1> SUFFICES ASSUME Init PROVE FutureInv
  OBVIOUS
<1>1. Start \in Int
  BY MaintenanceAssumption
<1>2. ahead \in [Tables -> SUBSET Int] /\ DOMAIN job = Sessions /\ DOMAIN todo = Sessions
  BY <1>1 DEF Init
<1>3. NoTable.ok /\ ~NoTable.made /\ Regular(NoTable)
  BY NoTableRegular, Zenon DEF NoTable
<1>4. \A t \in Tables : tab[t] = NoTable /\ lock[t] = None
  BY Zenon DEF Init
<1>5. \A s \in Sessions : at[s] = None /\ todo[s] = {}
  BY Zenon DEF Init
<1>8. \A t \in Tables : ahead[t] = {}
  BY Zenon DEF Init
<1>6. \A t \in Tables : Settled(t)
  BY <1>3, <1>4, <1>8, Zenon DEF Settled, Reaches
<1>7. \A s \in Sessions : Aims(s)
  BY <1>5, Zenon DEF Aims
<1> QED
  BY <1>2, <1>6, <1>7 DEF FutureInv

\* The partitions of t stay as they are or are the first ones; nothing else of the jobs changes.
LEMMA TableFuture ==
  ASSUME MaintenanceInv, FutureInv, UNCHANGED <<draft, lock, jobVars>>, NEW t \in Tables,
         NEW db, tab' = [tab EXCEPT ![t] = db], db.ok, db.made, Regular(db),
         ahead' \in [Tables -> SUBSET Int], Reaches(db, ahead'[t]),
         \A x \in Tables : x # t => ahead'[x] = ahead[x],
         lock[t] = None
  PROVE  FutureInv'
<1>1. /\ job' = job /\ began' = began /\ todo' = todo /\ reads' = reads /\ at' = at
      /\ lock' = lock /\ draft' = draft
  BY DEF jobVars
<1>2. /\ tab'[t] = db /\ \A x \in Tables : x # t => tab'[x] = tab[x]
      /\ \A x \in Tables : tab[x].made => tab'[x].made
  BY ZenonT(30) DEF MaintenanceInv
<1>3. ASSUME NEW s \in Sessions PROVE Aims(s)'
  <2>1. Aims(s)
    BY ZenonT(30) DEF FutureInv
  <2>2. at[s] \in Tables \cup {None}
    BY DEF MaintenanceInv
  <2> QED
    BY Zenon, <1>1, <1>2, <2>1, <2>2 DEF Aims, Idle
<1>4. ASSUME NEW x \in Tables PROVE Settled(x)'
  <2>1. Settled(x)
    BY ZenonT(30) DEF FutureInv
  <2>2. CASE x = t
    BY ZenonT(30), <1>1, <1>2, <2>2 DEF Settled
  <2>3. CASE x # t
    <3>1. Pending(x) => Pending(x)'
      BY ZenonT(30), <1>1, <1>2, <2>3 DEF Pending, Idle, ToCome
    <3> QED
      BY ZenonT(30), <1>1, <1>2, <2>1, <2>3, <3>1 DEF Settled
  <2> QED
    BY <2>2, <2>3
<1> QED
  BY ZenonT(30), <1>1, <1>3, <1>4 DEF FutureInv

\* A pass over a table leaves it reaching ahead of the pass.
LEMMA PassMakes ==
  ASSUME OneFixedZone, NamesApart, MaintenanceInv, FutureInv, NEW s \in Sessions,
         NEW t \in Tables, MaintainOneTable(tab[t], s, t, reads[s]).ok
  PROVE  Maintained(s, tab[t], MaintainOneTable(tab[t], s, t, reads[s]))
<1>1. /\ Good(tab[t], rows[t], now) /\ began[s] \in Int /\ began[s] <= now
      /\ reads[s] \in SUBSET Starts /\ rows[t] \in SUBSET Int /\ now \in Int
  BY MaintenanceAssumption DEF MaintenanceInv
<1>2. Regular(tab[t])
  BY Zenon DEF FutureInv, Settled
<1> QED
  BY ZenonT(30), <1>1, <1>2, MaintainReaches

\* The table's work: what it makes of a table reaches ahead of the pass, and a drain leaves
\* every partition in place.
LEMMA WorkMakes ==
  ASSUME OneFixedZone, NamesApart, MaintenanceInv, FutureInv, NEW s \in Sessions,
         at[s] \in Tables, NEW db, db.ok,
         db = IF job[s] = "pass" THEN MaintainOneTable(tab[at[s]], s, at[s], reads[s])
              ELSE DrainDefaultPartition(tab[at[s]], s, reads[s])
  PROVE  /\ Regular(db) /\ db.made = tab[at[s]].made
         /\ IF job[s] = "pass" THEN Reaches(db, ToCome(s)) ELSE tab[at[s]].parts \subseteq db.parts
<1> DEFINE t == at[s]
<1>1. /\ Good(tab[t], rows[t], now) /\ began[s] \in Int /\ began[s] <= now
      /\ reads[s] \in SUBSET Starts /\ rows[t] \in SUBSET Int /\ now \in Int
  BY MaintenanceAssumption DEF MaintenanceInv
<1>2. Regular(tab[t])
  BY Zenon DEF FutureInv, Settled
<1>3. tab[t] \in Db /\ Described(tab[t])
  BY ZenonT(30), <1>1 DEF Good
<1>4. CASE job[s] = "pass"
  <2>1. db = MaintainOneTable(tab[t], s, t, reads[s])
    BY Zenon, <1>4
  <2>2. MaintainOneTable(tab[t], s, t, reads[s]).ok
    BY Zenon, <2>1
  <2> QED
    BY Zenon, <1>4, <2>1, <2>2, PassMakes DEF Maintained
<1>5. CASE job[s] # "pass"
  BY ZenonT(30), <1>2, <1>3, <1>1, <1>5, DrainCreates
<1> QED
  BY ZenonT(30), <1>4, <1>5

\* The table's work keeps FutureInv.
LEMMA WorkFuture ==
  ASSUME OneFixedZone, NamesApart, MaintenanceInv, FutureInv, NEW s \in Sessions, Work(s)
  PROVE  FutureInv'
<1> DEFINE t == at[s]
           db == IF job[s] = "pass" THEN MaintainOneTable(tab[t], s, t, reads[s])
                 ELSE DrainDefaultPartition(tab[t], s, reads[s])
<1>1. t \in Tables /\ lock[t] = None
  BY DEF MaintenanceInv, Work
<1>2. tab[t].made /\ ~Idle(s) /\ tab[t].ok
  BY Zenon, <1>1, MaintenanceAssumption DEF FutureInv, Aims, Settled
<1>3. db.ok => /\ Regular(db) /\ db.made
               /\ IF job[s] = "pass" THEN Reaches(db, ToCome(s))
                  ELSE tab[t].parts \subseteq db.parts
  BY Zenon, <1>1, <1>2, WorkMakes
<1>4. \/ db.ok /\ draft' = [draft EXCEPT ![t] = db] /\ lock' = [lock EXCEPT ![t] = s]
      \/ draft' = draft /\ lock' = lock
  BY Zenon DEF Work
<1>5. \/ ahead' = ahead
      \/ job[s] = "pass" /\ db = tab[t] /\ ahead' = [ahead EXCEPT ![t] = ToCome(s)]
  BY ZenonT(30) DEF Work, ToCome
<1>6. /\ at' = [at EXCEPT ![s] = None] /\ reads' = [reads EXCEPT ![s] = {}]
      /\ todo' = [todo EXCEPT ![s] = @ \ {t}]
      /\ tab' = tab /\ job' = job /\ began' = began
  BY ZenonT(30) DEF Work, Leave
<1> HIDE DEF db
<1>7. /\ ahead' \in [Tables -> SUBSET Int] /\ \A x \in Tables : x # t => ahead'[x] = ahead[x]
      /\ Reaches(tab[t], ahead'[t])
  <2>1. began[s] \in Int /\ ahead \in [Tables -> SUBSET Int] /\ Reaches(tab[t], ahead[t])
    BY ZenonT(30), <1>1, <1>2 DEF MaintenanceInv, FutureInv, Settled
  <2>2. CASE ahead' = ahead
    BY Zenon, <2>1, <2>2
  <2>3. CASE job[s] = "pass" /\ db = tab[t] /\ ahead' = [ahead EXCEPT ![t] = ToCome(s)]
    <3>1. ahead'[t] = ToCome(s) /\ ToCome(s) \in SUBSET Int
      BY ZenonT(30), <1>1, <2>1, <2>3, AheadIsInt DEF ToCome
    <3>2. Reaches(tab[t], ToCome(s))
      BY ZenonT(30), <1>2, <1>3, <2>3
    <3> QED
      BY ZenonT(30), <1>1, <2>1, <2>3, <3>1, <3>2
  <2> QED
    BY Zenon, <1>5, <2>2, <2>3
<1>8. ASSUME NEW x \in Sessions PROVE Aims(x)'
  <2>1. Aims(x)
    BY ZenonT(30) DEF FutureInv
  <2>2. /\ at'[x] = None \/ at'[x] = at[x]
        /\ \A u \in todo'[x] : u \in todo[x]
    BY ZenonT(30), <1>6 DEF MaintenanceInv, FutureInv
  <2> QED
    BY ZenonT(30), <1>6, <2>1, <2>2 DEF Aims, Idle
<1>9. ASSUME NEW x \in Tables PROVE Settled(x)'
  <2>1. Settled(x) /\ s # None
    BY ZenonT(30), MaintenanceAssumption DEF FutureInv
  <2>2. CASE x # t
    <3>1. lock'[x] = lock[x] /\ draft'[x] = draft[x] /\ ahead'[x] = ahead[x]
      BY ZenonT(30), <1>1, <1>4, <1>7, <2>2 DEF MaintenanceInv
    <3>2. Pending(x) => Pending(x)'
      <4>1. /\ tab'[x] = tab[x] /\ job'[lock'[x]] = job[lock[x]]
            /\ began'[lock'[x]] = began[lock[x]]
        BY ZenonT(30), <1>6, <3>1
      <4> QED
        BY ZenonT(30), <3>1, <4>1 DEF Pending, Idle, ToCome
    <3> QED
      BY ZenonT(30), <1>6, <2>1, <3>1, <3>2 DEF Settled
  <2>3. CASE x = t
    <3>1. lock'[t] # None => lock'[t] = s /\ draft'[t] = db /\ db.ok
      <4>1. lock \in [Tables -> Sessions \cup {None}] /\ draft \in [Tables -> Db]
        BY DEF MaintenanceInv
      <4> HIDE DEF t
      <4> QED
        BY <1>1, <1>4, <4>1
    <3>2. lock'[x] # None => /\ lock'[x] = s /\ draft'[x] = db /\ db.ok
                             /\ tab'[x] = tab[t] /\ tab[x] = tab[t]
      BY ZenonT(30), <1>6, <2>3, <3>1
    <3>3. lock'[x] # None => Pending(x)'
      BY ZenonT(30), <1>2, <1>3, <1>6, <3>2 DEF Pending, Idle, ToCome
    <3>4. Reaches(tab'[x], ahead'[x])
      BY ZenonT(30), <1>6, <1>7, <2>3
    <3> QED
      BY <1>6, <2>1, <3>3, <3>4 DEF Settled
  <2> QED
    BY ZenonT(30), <2>2, <2>3
<1> QED
  BY ZenonT(30), <1>6, <1>7, <1>8, <1>9 DEF FutureInv

\* The end of a job: what a pass commits reaches ahead of the pass; what a drain commits has
\* the partitions the table had.
LEMMA EndFuture ==
  ASSUME MaintenanceInv, FutureInv, NEW s \in Sessions, End(s),
         tab' \in [Tables -> Db], ahead' \in [Tables -> SUBSET Int],
         \A t \in Tables :
           \/ tab'[t] = tab[t] /\ ahead'[t] = ahead[t]
           \/ /\ t \in Mine(s) /\ tab'[t] = draft[t]
              /\ ahead'[t] = IF job[s] = "pass" THEN ToCome(s) ELSE ahead[t]
  PROVE  FutureInv'
<1> USE MaintenanceAssumption
<1>1. /\ \A t \in Tables : \/ lock[t] = s /\ lock'[t] = None
                           \/ lock[t] # s /\ lock'[t] = lock[t] /\ draft'[t] = draft[t]
      /\ \A x \in Sessions : x # s => /\ job'[x] = job[x] /\ began'[x] = began[x]
                                      /\ reads'[x] = reads[x] /\ at'[x] = at[x]
                                      /\ todo'[x] = todo[x]
      /\ DOMAIN job' = Sessions /\ DOMAIN todo' = Sessions
  BY ZenonT(30) DEF End, Mine, MaintenanceInv, FutureInv
<1>2. at'[s] = None /\ todo'[s] = {}
  BY ZenonT(30) DEF End, MaintenanceInv, FutureInv
<1>3. ASSUME NEW t \in Tables
      PROVE  /\ tab'[t].ok /\ Regular(tab'[t]) /\ (tab[t].made => tab'[t].made)
             /\ Reaches(tab'[t], ahead'[t])
  <2>1. Settled(t)
    BY ZenonT(30) DEF FutureInv
  <2>2. CASE tab'[t] = tab[t] /\ ahead'[t] = ahead[t]
    BY ZenonT(30), <2>1, <2>2 DEF Settled
  <2>3. CASE /\ t \in Mine(s) /\ tab'[t] = draft[t]
             /\ ahead'[t] = IF job[s] = "pass" THEN ToCome(s) ELSE ahead[t]
    <3>1. lock[t] = s /\ Pending(t) /\ Reaches(tab[t], ahead[t])
      BY ZenonT(30), <2>1, <2>3 DEF Mine, Settled, Pending
    <3>2. CASE job[s] = "pass"
      BY Zenon, <2>3, <3>1, <3>2 DEF Pending
    <3>3. CASE job[s] # "pass"
      <4>1. tab[t].parts \subseteq draft[t].parts
        BY ZenonT(30), <3>1, <3>3 DEF Pending
      <4>2. Reaches(draft[t], ahead[t])
        BY <3>1, <4>1 DEF Reaches, Covered
      <4> QED
        BY ZenonT(30), <2>3, <3>1, <3>3, <4>2 DEF Pending
    <3> QED
      BY ZenonT(30), <3>2, <3>3
  <2> QED
    BY ZenonT(30), <2>2, <2>3
<1>4. ASSUME NEW x \in Sessions PROVE Aims(x)'
  <2>1. Aims(x) /\ at[x] \in Tables \cup {None}
    BY ZenonT(30) DEF FutureInv, MaintenanceInv
  <2>2. CASE x = s
    BY ZenonT(30), <1>2, <2>2 DEF Aims
  <2>3. CASE x # s
    BY ZenonT(30), <1>1, <1>3, <2>1, <2>3 DEF Aims, Idle
  <2> QED
    BY ZenonT(30), <2>2, <2>3
<1>5. ASSUME NEW t \in Tables, lock'[t] # None PROVE Pending(t)'
  <2>1. Settled(t) /\ lock[t] \in Sessions
    BY ZenonT(30), <1>1, <1>5 DEF FutureInv, MaintenanceInv
  <2>2. lock[t] # s /\ lock'[t] = lock[t] /\ draft'[t] = draft[t]
    BY Zenon, <1>1, <1>5
  <2>3. tab'[t] = tab[t]
    BY <2>2 DEF Mine
  <2>4. Pending(t)
    BY ZenonT(30), <1>5, <2>1, <2>2 DEF Settled
  <2>5. job'[lock[t]] = job[lock[t]] /\ began'[lock[t]] = began[lock[t]]
    BY Zenon, <1>1, <2>1, <2>2
  <2> QED
    BY ZenonT(30), <2>2, <2>3, <2>4, <2>5 DEF Pending, Idle, ToCome
<1>6. \A t \in Tables : Settled(t)'
  BY <1>3, <1>5 DEF Settled
<1> QED
  BY ZenonT(30), <1>1, <1>4, <1>6 DEF FutureInv

\* The steps that leave the tables, their drafts and locks, and the time of their maintenance.
LEMMA JobFuture ==
  ASSUME MaintenanceInv, FutureInv, UNCHANGED <<tab, draft, lock, ahead>>, NEW s \in Sessions,
         DOMAIN job' = Sessions, DOMAIN todo' = Sessions, Aims(s)',
         \A x \in Sessions : x # s => /\ job'[x] = job[x] /\ began'[x] = began[x]
                                      /\ reads'[x] = reads[x] /\ at'[x] = at[x]
                                      /\ todo'[x] = todo[x],
         Idle(s) \/ (job'[s] = job[s] /\ began'[s] = began[s])
  PROVE  FutureInv'
<1>1. ASSUME NEW x \in Sessions PROVE Aims(x)'
  <2>1. Aims(x)
    BY DEF FutureInv
  <2>2. CASE x # s
    BY Zenon, <2>1, <2>2 DEF Aims, Idle
  <2> QED
    BY <2>2
<1>2. ASSUME NEW t \in Tables PROVE Settled(t)'
  <2>1. Settled(t) /\ lock[t] \in Sessions \cup {None}
    BY ZenonT(30) DEF FutureInv, MaintenanceInv
  <2>2. lock[t] # None /\ Pending(t) => Pending(t)'
    BY <2>1 DEF Pending, Idle, ToCome
  <2> QED
    BY ZenonT(30), <2>1, <2>2 DEF Settled
<1> QED
  BY ZenonT(30), <1>1, <1>2 DEF FutureInv

\* Every step keeps FutureInv.
LEMMA NextFuture ==
  ASSUME OneFixedZone, NamesApart, MaintenanceInv, FutureInv, [Next]_vars
  PROVE  FutureInv'
<1> USE MaintenanceAssumption
<1>1. CASE Tick
  <2>1. UNCHANGED <<tab, draft, lock, job, began, todo, reads, at, ahead>>
    BY <1>1 DEF Tick, jobVars
  <2> QED
    BY ZenonT(30), <2>1 DEF FutureInv, Aims, Settled, Pending, Idle, ToCome
<1>2. ASSUME NEW t \in Tables, NEW r \in Times, InsertRow(t, r) PROVE FutureInv'
  <2> DEFINE p == [tab[t] EXCEPT !.placed = @ \cup {r}]
             q == [tab[t] EXCEPT !.dflt = @ \cup {r}]
  <2>0. tab[t] \in Db
    BY DEF MaintenanceInv
  <2>1. UNCHANGED <<draft, lock, jobVars>> /\ ahead' = ahead /\ lock[t] = None /\ tab[t].made
    BY <1>2 DEF InsertRow
  <2>2. tab' = [tab EXCEPT ![t] = p] \/ tab' = [tab EXCEPT ![t] = q]
    BY <1>2, Zenon DEF InsertRow
  <2>3. \A e \in {p, q} : /\ e.parts = tab[t].parts /\ e.cat = tab[t].cat
                          /\ e.made = tab[t].made /\ e.ok = tab[t].ok
    BY <2>0, ZenonT(30) DEF Db
  <2> HIDE DEF p, q
  <2>4. PICK e \in {p, q} : tab' = [tab EXCEPT ![t] = e]
    BY ZenonT(30), <2>2
  <2>5. /\ tab[t].ok /\ Regular(tab[t]) /\ Reaches(tab[t], ahead[t])
        /\ ahead \in [Tables -> SUBSET Int]
    BY <2>1 DEF FutureInv, Settled
  <2>6. e.ok /\ e.made /\ Regular(e) /\ Reaches(e, ahead[t])
    BY Zenon, <2>1, <2>3, <2>5 DEF Regular, Reaches, Covered
  <2> QED
    BY Zenon, <2>1, <2>4, <2>5, <2>6, TableFuture
<1>3. ASSUME NEW s \in Sessions, NEW t \in Tables, NEW premake \in Premakes,
             CreateTable(s, t, premake)
      PROVE  FutureInv'
  <2> DEFINE db == CreateInitialPartitions(s, premake)
  <2>1. /\ UNCHANGED <<draft, lock, jobVars>> /\ ahead' = [ahead EXCEPT ![t] = Ahead(now, premake)]
        /\ tab' = [tab EXCEPT ![t] = db] /\ db.ok /\ ~tab[t].made
    BY ZenonT(30), <1>3 DEF CreateTable
  <2>2. now \in Int /\ ahead \in [Tables -> SUBSET Int] /\ lock[t] = None
    BY ZenonT(30), <2>1 DEF MaintenanceInv, FutureInv, Settled, Pending
  <2>3. Regular(db) /\ Reaches(db, Ahead(now, premake)) /\ db.made
    <3>1. premake \in Int
      BY MaintenanceAssumption
    <3> QED
      BY ZenonT(30), <2>1, <2>2, <3>1, CreateTableReaches
  <2> HIDE DEF db
  <2>4. /\ ahead' \in [Tables -> SUBSET Int] /\ ahead'[t] = Ahead(now, premake)
        /\ \A x \in Tables : x # t => ahead'[x] = ahead[x]
    BY ZenonT(30), <2>1, <2>2, AheadIsInt
  <2> QED
    BY Zenon, <2>1, <2>2, <2>3, <2>4, TableFuture
<1>4. ASSUME NEW s \in Sessions, NEW t \in Tables, StartDrain(s, t) PROVE FutureInv'
  <2>1. /\ UNCHANGED <<tab, draft, lock, ahead, reads, at>> /\ Idle(s) /\ tab[t].made
        /\ job' = [job EXCEPT ![s] = "drain"] /\ began' = [began EXCEPT ![s] = now]
        /\ todo' = [todo EXCEPT ![s] = {t}]
    BY ZenonT(30), <1>4 DEF StartDrain
  <2>2. DOMAIN job = Sessions /\ DOMAIN todo = Sessions /\ Aims(s) /\ DOMAIN began = Sessions
    BY ZenonT(30) DEF FutureInv, MaintenanceInv
  <2>3. Aims(s)'
    BY ZenonT(30), <2>1, <2>2 DEF Aims, Idle
  <2> QED
    BY ZenonT(30), <2>1, <2>2, <2>3, JobFuture
<1>5. ASSUME NEW s \in Sessions, NEW t \in Tables, NEW on \in BOOLEAN, SetRetention(s, t, on)
      PROVE  FutureInv'
  <2>1. UNCHANGED <<tab, draft, lock, job, began, todo, reads, at, ahead>>
    BY ZenonT(30), <1>5 DEF SetRetention, jobVars
  <2> QED
    BY ZenonT(30), <2>1 DEF FutureInv, Aims, Settled, Pending, Idle, ToCome
<1>6. ASSUME NEW s \in Sessions, StartPass(s) PROVE FutureInv'
  <2>1. /\ UNCHANGED <<tab, draft, lock, ahead, reads, at>> /\ Idle(s)
        /\ job' = [job EXCEPT ![s] = "pass"] /\ began' = [began EXCEPT ![s] = now]
        /\ todo' = [todo EXCEPT ![s] = {t \in Tables : tab[t].made}]
    BY ZenonT(30), <1>6 DEF StartPass
  <2>2. DOMAIN job = Sessions /\ DOMAIN todo = Sessions /\ Aims(s) /\ DOMAIN began = Sessions
    BY ZenonT(30) DEF FutureInv, MaintenanceInv
  <2>3. Aims(s)'
    BY ZenonT(30), <2>1, <2>2 DEF Aims, Idle
  <2> QED
    BY ZenonT(30), <2>1, <2>2, <2>3, JobFuture
<1>7. ASSUME NEW s \in Sessions, NEW t \in Tables, ReadDefault(s, t) PROVE FutureInv'
  <2>1. /\ UNCHANGED <<tab, draft, lock, ahead, job, began, todo>> /\ t \in todo[s]
        /\ at' = [at EXCEPT ![s] = t]
        /\ reads' = [reads EXCEPT ![s] = {DrainBoundary(r) : r \in tab[t].dflt}]
    BY ZenonT(30), <1>7 DEF ReadDefault
  <2>2. /\ DOMAIN job = Sessions /\ DOMAIN todo = Sessions /\ Aims(s) /\ DOMAIN at = Sessions
        /\ DOMAIN reads = Sessions
    BY DEF FutureInv, MaintenanceInv
  <2>3. Aims(s)'
    BY <2>1, <2>2 DEF Aims, Idle
  <2> QED
    BY ZenonT(30), <2>1, <2>2, <2>3, JobFuture
<1>8. ASSUME NEW s \in Sessions, Work(s) PROVE FutureInv'
  BY ZenonT(30), <1>8, WorkFuture
<1>9. ASSUME NEW s \in Sessions, Commit(s) PROVE FutureInv'
  <2>1. tab' \in [Tables -> Db] /\ End(s)
    BY ZenonT(30), <1>9 DEF Commit, MaintenanceInv
  <2>2. ahead' \in [Tables -> SUBSET Int]
    BY ZenonT(30), <1>9, AheadIsInt DEF Commit, MaintenanceInv, FutureInv
  <2>3. \A t \in Tables :
           \/ tab'[t] = tab[t] /\ ahead'[t] = ahead[t]
           \/ /\ t \in Mine(s) /\ tab'[t] = draft[t]
              /\ ahead'[t] = IF job[s] = "pass" THEN ToCome(s) ELSE ahead[t]
    BY ZenonT(30), <1>9 DEF Commit, ToCome
  <2> QED
    BY ZenonT(30), <2>1, <2>2, <2>3, EndFuture
<1>10. ASSUME NEW s \in Sessions, WorkFails(s) PROVE FutureInv'
  <2>1. /\ UNCHANGED <<tab, draft, lock, ahead, job, began>>
        /\ todo' = [todo EXCEPT ![s] = @ \ {at[s]}]
        /\ at' = [at EXCEPT ![s] = None] /\ reads' = [reads EXCEPT ![s] = {}]
    BY ZenonT(30), <1>10 DEF WorkFails, Leave
  <2>2. /\ DOMAIN job = Sessions /\ DOMAIN todo = Sessions /\ Aims(s) /\ DOMAIN at = Sessions
        /\ DOMAIN reads = Sessions
    BY ZenonT(30) DEF FutureInv, MaintenanceInv
  <2>3. Aims(s)'
    BY <2>1, <2>2 DEF Aims, Idle
  <2> QED
    BY <2>1, <2>2, <2>3, JobFuture
<1>11. ASSUME NEW s \in Sessions, RollBack(s) PROVE FutureInv'
  <2>1. tab' = tab /\ ahead' = ahead /\ End(s)
    BY ZenonT(30), <1>11 DEF RollBack
  <2>2. tab' \in [Tables -> Db] /\ ahead' \in [Tables -> SUBSET Int]
    BY <2>1 DEF MaintenanceInv, FutureInv
  <2> QED
    BY <2>1, <2>2, EndFuture
<1>12. CASE UNCHANGED vars
  BY Zenon, <1>12 DEF vars, FutureInv, Aims, Settled, Pending, Idle, ToCome
<1> QED
  BY ZenonT(30), <1>1, <1>2, <1>3, <1>4, <1>5, <1>6, <1>7, <1>8, <1>9, <1>10, <1>11, <1>12
  DEF Next, JobStep

\* After a committed pass the table's partitions reach Premake intervals ahead of it,
\* whatever drains, other passes, failures and retention do since (ensure_future_partitions),
\* if intervals are a minute or more: partition_name has no seconds.
THEOREM FutureIsCovered == ASSUME OneFixedZone, NamesApart PROVE Spec => []FutureCovered
<1>1. MaintenanceInv /\ FutureInv /\ [Next]_vars => FutureInv'
  BY ZenonT(30), NextFuture
<1>2. FutureInv => FutureCovered
  BY DEF FutureInv, Settled, Reaches, FutureCovered
<1> QED
  BY InitFuture, InvIsInvariant, <1>1, <1>2, PTL DEF Spec
=============================================================================
