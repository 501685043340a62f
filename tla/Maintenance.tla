----------------------------- MODULE Maintenance -----------------------------
(***************************************************************************)
(* Time partitions and the maintenance of them (worker.rs, partition.rs):  *)
(* a table is created with its first partitions; each pass of the          *)
(* background worker, or of a caller of deltax_run_maintenance, drains the *)
(* default partition, creates the partitions to come, compresses old ones  *)
(* and drops expired ones, table by table in subtransactions of one        *)
(* transaction. Users insert and drain in the meantime.                    *)
(*                                                                         *)
(* Times are integers, the Unix epoch is 0. Rows are told apart by their   *)
(* time, a timestamptz. What becomes of rows inside a compressed partition *)
(* is the subject of CompressedDml; here a partition is compressed or not. *)
(*                                                                         *)
(* A session's changes are a draft until it commits. A draft holds the     *)
(* table's lock: DETACH excludes inserts, CREATE ... PARTITION OF excludes *)
(* other DDL and inserts into the default partition. An insert into a      *)
(* partition that exists already may run beside the latter; it commutes    *)
(* with it and is modelled before or after.                                *)
(***************************************************************************)
EXTENDS Integers

CONSTANTS Tables, Sessions, None,
          Second, Minute, Day,
          Interval,               \* length of a partition
          Offset(_, _),           \* Offset(s, u): of session s's TimeZone at u, from UTC
          Premake,                \* partitions a pass creates ahead: 3 in the worker
          Premakes,               \* bound: what callers of deltax_create_table pass for it
          CompressAfter, DropAfter,
          Start, MaxNow,          \* bound: the clock runs from Start to MaxNow
          Times,                  \* bound: times of the rows inserted
          MaxErrors               \* bound: errors raised from outside

ASSUME MaintenanceAssumption ==
  /\ None \notin Sessions \cup Tables
  /\ {Second, Minute, Day, Interval} \subseteq Nat \ {0}
  /\ \E k \in 1..Interval : Interval = k * Second    \* interval_to_usec
  /\ {Premake, CompressAfter, DropAfter, MaxErrors} \subseteq Nat
  /\ {Start, MaxNow} \cup Times \cup Premakes \subseteq Int

VARIABLES now,
          tab,       \* tab[t]: the committed state of table t
          draft,     \* draft[t]: t as lock[t] will commit it
          lock,      \* lock[t]: the session that holds t's lock
          drop,      \* drop[t]: whether t has a retention policy
          job,       \* job[s]: what s runs; a pass holds the advisory lock
          began,     \* began[s]: when s's transaction began, its now()
          policy,    \* policy[s]: drop, as read at the start of the pass
          todo,      \* todo[s]: tables the job has not finished
          reads,     \* reads[s]: boundaries it found in the default partition of at[s]
          at,        \* at[s]: the table it is at, None between tables
          errors,
          rows,      \* ghost: rows[t]: every row inserted
          ahead      \* ghost: ahead[t]: the times that the creation of t, or its last
                     \* committed pass, made partitions for

vars == <<now, tab, draft, lock, drop, job, began, policy, todo, reads, at, errors,
          rows, ahead>>
jobVars == <<job, began, policy, todo, reads, at>>

NoTable == [made |-> FALSE, parts |-> {}, cat |-> {}, companions |-> {},
            dflt |-> {}, placed |-> {}, ok |-> TRUE]

Idle(s) == job[s] = "none"

Init ==
  /\ now = Start
  /\ tab = [t \in Tables |-> NoTable] /\ draft = tab
  /\ lock = [t \in Tables |-> None]
  /\ drop = [t \in Tables |-> FALSE]
  /\ job = [s \in Sessions |-> "none"] /\ began = [s \in Sessions |-> Start]
  /\ policy = [s \in Sessions |-> drop]
  /\ todo = [s \in Sessions |-> {}] /\ reads = [s \in Sessions |-> {}]
  /\ at = [s \in Sessions |-> None]
  /\ errors = 0
  /\ rows = [t \in Tables |-> {}] /\ ahead = [t \in Tables |-> {}]

(***************************************************************************)
(* Time: division in Rust and in SQL truncates; text has the session's     *)
(* local time and no offset, and is read back in the same zone (a text     *)
(* that stands for two instants is read as the later).                     *)
(***************************************************************************)
Quot(a, b) == IF a >= 0 THEN a \div b ELSE -((-a) \div b)

AlignToInterval(ts) ==
  LET d == Quot(ts, Interval)
  IN  IF ts - d * Interval < 0 THEN (d - 1) * Interval ELSE d * Interval

\* The boundary the drain query computes.
DrainBoundary(ts) == Quot(ts, Interval) * Interval

Local(s, u) == u + Offset(s, u)

\* YYYY-MM-DD HH24:MI:SS, the whole seconds.
FormatTs(s, u) == (Local(s, u) \div Second) * Second

\* The literal of a bound, as PostgreSQL reads it; its instant is within a day of u.
Bound(s, u) ==
  CHOOSE v \in (u - Day)..(u + Day) :
    /\ Local(s, v) = FormatTs(s, u)
    /\ \A w \in (v + 1)..(u + Day) : Local(s, w) # FormatTs(s, u)

\* YYYYMMDD, for intervals below a day YYYYMMDD_HH24MI.
PartitionName(s, start) == Local(s, start) \div (IF Interval >= Day THEN Day ELSE Minute)

(***************************************************************************)
(* Partitions.                                                             *)
(***************************************************************************)
Covers(p, u) == p.from <= u /\ u < p.to

Covered(db, u) == \E p \in db.parts : Covers(p, u)

Failed(db) == [db EXCEPT !.ok = FALSE]

\* Of the starts that share a name in session s, the first.
Named(s, starts) ==
  {u \in starts : \A v \in starts : PartitionName(s, v) = PartitionName(s, u) => u <= v}

\* CREATE TABLE IF NOT EXISTS ... PARTITION OF, for each start: an error if the range is
\* empty, overlaps a partition, or has rows in the attached default partition. Then
\* register_partition, with ON CONFLICT (schema_name, table_name) DO NOTHING.
CreatePartitions(db, s, starts, attached) ==
  LET new == {u \in Named(s, starts) : \A q \in db.parts : q.name # PartitionName(s, u)}
      parts == db.parts \cup {[name |-> PartitionName(s, u), from |-> Bound(s, u),
                               to |-> Bound(s, u + Interval)] : u \in new}
      unknown == {u \in Named(s, starts) : \A c \in db.cat : c.name # PartitionName(s, u)}
      entries == {[name |-> PartitionName(s, u), start |-> u, end |-> u + Interval,
                   compressed |-> FALSE] : u \in unknown}
  IN  IF \/ \E p \in parts : p.from >= p.to
         \/ \E p, q \in parts : p # q /\ p.from < q.to /\ q.from < p.to
         \/ attached /\ \E r \in db.dflt, p \in parts : Covers(p, r)
      THEN Failed(db)
      ELSE [db EXCEPT !.parts = parts, !.cat = @ \cup entries]

\* From one interval in the past to premake in the future; then the default partition.
CreateInitialPartitions(s, premake) ==
  CreatePartitions([NoTable EXCEPT !.made = TRUE], s,
                   {AlignToInterval(now) + i * Interval : i \in -1..premake}, FALSE)

\* Mutant: the last partition to come is forgotten.
EnsureFuturePartitions_OffByOne(db, s) ==
  LET starts == {AlignToInterval(began[s]) + i * Interval : i \in 0..(Premake - 1)}
  IN  CreatePartitions(db, s, {u \in starts : \A c \in db.cat : c.name # PartitionName(s, u)},
                       TRUE)

\* A partition is there if its name is registered.
EnsureFuturePartitions(db, s) ==
  LET starts == {AlignToInterval(began[s]) + i * Interval : i \in 0..Premake}
  IN  CreatePartitions(db, s, {u \in starts : \A c \in db.cat : c.name # PartitionName(s, u)},
                       TRUE)

\* Mutant: rows without a partition are not noticed.
DrainDefaultPartition_Unchecked(db, s, B) ==
  LET d == CreatePartitions(db, s, B, FALSE)
  IN  IF B = {} THEN db
      ELSE [d EXCEPT !.placed = @ \cup {r \in db.dflt : Covered(d, r)}, !.dflt = {}]

\* drain_default_partition after its boundaries B are read: DETACH, create what is
\* missing, INSERT ... SELECT (an error for a row without partition), TRUNCATE, ATTACH.
DrainDefaultPartition(db, s, B) ==
  LET d == CreatePartitions(db, s, B, FALSE)
  IN  IF B = {} THEN db
      ELSE IF d.ok /\ \A r \in db.dflt : Covered(d, r)
           THEN [d EXCEPT !.placed = @ \cup db.dflt, !.dflt = {}]
           ELSE Failed(d)

AutoCompressPartitions(db, s) ==
  LET eligible == {c \in db.cat : ~c.compressed /\ c.end < began[s] - CompressAfter}
  IN  [db EXCEPT !.cat = (@ \ eligible) \cup {[c EXCEPT !.compressed = TRUE] : c \in eligible},
                 !.companions = @ \cup {c.name : c \in eligible}]

\* Mutant: the companion tables stay.
AutoDropPartitions_KeepCompanions(db, s) ==
  LET eligible == {c \in db.cat : c.end < began[s] - DropAfter}
      gone == {p \in db.parts : \E c \in eligible : c.name = p.name}
  IN  [db EXCEPT !.cat = @ \ eligible, !.parts = @ \ gone,
                 !.placed = {r \in @ : ~\E p \in gone : Covers(p, r)}]

\* The companions of a compressed partition go with it.
AutoDropPartitions(db, s) ==
  LET eligible == {c \in db.cat : c.end < began[s] - DropAfter}
      gone == {p \in db.parts : \E c \in eligible : c.name = p.name}
  IN  [db EXCEPT !.cat = @ \ eligible, !.parts = @ \ gone,
                 !.companions = @ \ {c.name : c \in {e \in eligible : e.compressed}},
                 !.placed = {r \in @ : ~\E p \in gone : Covers(p, r)}]

\* Mutant: the partitions to come are created before the default partition is drained.
MaintainOneTable_FutureFirst(db, s, t, B) ==
  LET future == EnsureFuturePartitions(db, s)
      drained == IF future.ok THEN DrainDefaultPartition(future, s, B) ELSE future
      squeezed == IF drained.ok THEN AutoCompressPartitions(drained, s) ELSE drained
  IN  IF squeezed.ok /\ policy[s][t] THEN AutoDropPartitions(squeezed, s) ELSE squeezed

\* maintain_one_table. An error in a step ends the others.
MaintainOneTable(db, s, t, B) ==
  LET drained == DrainDefaultPartition(db, s, B)
      future == IF drained.ok THEN EnsureFuturePartitions(drained, s) ELSE drained
      squeezed == IF future.ok THEN AutoCompressPartitions(future, s) ELSE future
  IN  IF squeezed.ok /\ policy[s][t] THEN AutoDropPartitions(squeezed, s) ELSE squeezed

\* From n to the end of the interval that is premake intervals after n's.
Ahead(n, premake) == n..(AlignToInterval(n) + (premake + 1) * Interval - 1)

(***************************************************************************)
(* Users.                                                                  *)
(***************************************************************************)
\* deltax_create_table.
CreateTable(s, t, premake) ==
  /\ Idle(s) /\ ~tab[t].made
  /\ LET db == CreateInitialPartitions(s, premake)
     IN  db.ok /\ tab' = [tab EXCEPT ![t] = db]
  /\ ahead' = [ahead EXCEPT ![t] = Ahead(now, premake)]
  /\ UNCHANGED <<now, draft, lock, drop, jobVars, errors, rows>>

\* An INSERT: into the row's partition, or the default partition.
InsertRow(t, r) ==
  /\ tab[t].made /\ lock[t] = None
  /\ r \notin rows[t]
  /\ rows' = [rows EXCEPT ![t] = @ \cup {r}]
  /\ tab' = IF Covered(tab[t], r) THEN [tab EXCEPT ![t].placed = @ \cup {r}]
            ELSE [tab EXCEPT ![t].dflt = @ \cup {r}]
  /\ UNCHANGED <<now, draft, lock, drop, jobVars, errors, ahead>>

\* deltax_set_retention, deltax_remove_retention.
SetRetention(s, t, on) ==
  /\ Idle(s) /\ tab[t].made /\ drop[t] # on
  /\ drop' = [drop EXCEPT ![t] = on]
  /\ UNCHANGED <<now, tab, draft, lock, jobVars, errors, rows, ahead>>

Tick ==
  /\ now < MaxNow /\ now' = now + 1
  /\ UNCHANGED <<tab, draft, lock, drop, jobVars, errors, rows, ahead>>

(***************************************************************************)
(* Jobs.                                                                   *)
(***************************************************************************)
\* run_maintenance_pass: whoever does not get the advisory lock skips the pass. Tables
\* and policies are read once.
StartPass(s) ==
  /\ Idle(s) /\ \A c \in Sessions : job[c] # "pass"
  /\ \E t \in Tables : tab[t].made
  /\ job' = [job EXCEPT ![s] = "pass"]
  /\ began' = [began EXCEPT ![s] = now]
  /\ policy' = [policy EXCEPT ![s] = drop]
  /\ todo' = [todo EXCEPT ![s] = {t \in Tables : tab[t].made}]
  /\ UNCHANGED <<now, tab, draft, lock, drop, reads, at, errors, rows, ahead>>

\* deltax_drain_default_partition, without the advisory lock.
StartDrain(s, t) ==
  /\ Idle(s) /\ tab[t].made
  /\ job' = [job EXCEPT ![s] = "drain"]
  /\ began' = [began EXCEPT ![s] = now]
  /\ todo' = [todo EXCEPT ![s] = {t}]
  /\ UNCHANGED <<now, tab, draft, lock, drop, policy, reads, at, errors, rows, ahead>>

\* The count and the boundaries of the default partition, under no lock that excludes
\* inserts. The read waits for another session's DETACH or CREATE.
ReadDefault(s, t) ==
  /\ at[s] = None /\ t \in todo[s] /\ lock[t] = None
  /\ at' = [at EXCEPT ![s] = t]
  /\ reads' = [reads EXCEPT ![s] = {DrainBoundary(r) : r \in tab[t].dflt}]
  /\ UNCHANGED <<now, tab, draft, lock, drop, job, began, policy, todo, errors, rows, ahead>>

\* An error ends a drain. In a pass it ends the table's subtransaction, whose changes and
\* locks go; the pass goes on with the next table.
Leave(s) ==
  /\ todo' = [todo EXCEPT ![s] = @ \ {at[s]}]
  /\ at' = [at EXCEPT ![s] = None]
  /\ reads' = [reads EXCEPT ![s] = {}]
  /\ UNCHANGED <<now, tab, drop, job, began, policy, rows>>

\* The rest of the table's work, once its lock is free.
Work(s) ==
  LET t == at[s]
      db == IF job[s] = "pass" THEN MaintainOneTable(tab[t], s, t, reads[s])
            ELSE DrainDefaultPartition(tab[t], s, reads[s])
  IN  /\ t # None /\ lock[t] = None
      /\ IF db.ok /\ db # tab[t]
         THEN draft' = [draft EXCEPT ![t] = db] /\ lock' = [lock EXCEPT ![t] = s]
         ELSE UNCHANGED <<draft, lock>>
      /\ ahead' = IF job[s] = "pass" /\ db = tab[t]
                  THEN [ahead EXCEPT ![t] = Ahead(began[s], Premake)] ELSE ahead
      /\ Leave(s)
      /\ UNCHANGED errors

\* An error from outside: a lock timeout, a full disk, a failed compression.
WorkFails(s) ==
  /\ at[s] # None /\ errors < MaxErrors
  /\ errors' = errors + 1
  /\ Leave(s)
  /\ UNCHANGED <<draft, lock, ahead>>

Mine(s) == {t \in Tables : lock[t] = s}

End(s) ==
  /\ lock' = [t \in Tables |-> IF t \in Mine(s) THEN None ELSE lock[t]]
  /\ draft' = [t \in Tables |-> IF t \in Mine(s) THEN NoTable ELSE draft[t]]
  /\ job' = [job EXCEPT ![s] = "none"]
  /\ todo' = [todo EXCEPT ![s] = {}]
  /\ at' = [at EXCEPT ![s] = None]
  /\ reads' = [reads EXCEPT ![s] = {}]
  /\ began' = [began EXCEPT ![s] = Start]
  /\ policy' = [policy EXCEPT ![s] = [t \in Tables |-> FALSE]]
  /\ UNCHANGED <<now, drop, rows>>

Commit(s) ==
  /\ ~Idle(s) /\ todo[s] = {}
  /\ tab' = [t \in Tables |-> IF t \in Mine(s) THEN draft[t] ELSE tab[t]]
  /\ ahead' = [t \in Tables |-> IF job[s] = "pass" /\ t \in Mine(s)
                               THEN Ahead(began[s], Premake) ELSE ahead[t]]
  /\ End(s)
  /\ UNCHANGED errors

\* The worker is terminated, or the caller's transaction rolls back.
RollBack(s) ==
  /\ ~Idle(s) /\ errors < MaxErrors
  /\ errors' = errors + 1
  /\ End(s)
  /\ UNCHANGED <<tab, ahead>>

JobStep(s) == (\E t \in Tables : ReadDefault(s, t)) \/ Work(s) \/ Commit(s)

Next ==
  \/ Tick
  \/ \E t \in Tables, r \in Times : InsertRow(t, r)
  \/ \E s \in Sessions :
       \/ \E t \in Tables : \/ StartDrain(s, t)
                            \/ \E premake \in Premakes : CreateTable(s, t, premake)
                            \/ \E on \in BOOLEAN : SetRetention(s, t, on)
       \/ StartPass(s) \/ JobStep(s) \/ WorkFails(s) \/ RollBack(s)

Spec == Init /\ [][Next]_vars

\* Where JobStep(s) is enabled.
JobReady(s) ==
  /\ ~Idle(s)
  /\ \/ todo[s] = {}
     \/ at[s] # None /\ lock[at[s]] = None
     \/ at[s] = None /\ \E t \in todo[s] : lock[t] = None

\* Jobs run to their end (weak fairness of JobStep), and the worker wakes up again and
\* again: its chance at the advisory lock comes back whenever another pass has ended.
FairSpec ==
  /\ Spec
  /\ \A s \in Sessions : /\ []<>~JobReady(s) \/ []<><<JobStep(s)>>_vars
                         /\ SF_vars(StartPass(s))

(***************************************************************************)
(* Properties.                                                             *)
(***************************************************************************)
\* What a table may be.
Db == [made : BOOLEAN, ok : BOOLEAN, companions : SUBSET Int, dflt : SUBSET Times,
       placed : SUBSET Times, parts : SUBSET [name : Int, from : Int, to : Int],
       cat : SUBSET [name : Int, start : Int, end : Int, compressed : BOOLEAN]]

\* A row is in one place and stays there until it is older than the retention allows,
\* whatever is drained, fails or rolls back around it.
RowsKept ==
  \A t \in Tables :
    /\ tab[t].dflt \cap tab[t].placed = {}
    /\ \A r \in rows[t] \ (tab[t].dflt \cup tab[t].placed) : r < now - DropAfter

\* The catalog describes the partitions that exist, with their bounds, and companions
\* exist for the compressed ones: retention and compression decide from the catalog.
CatalogExact ==
  \A t \in Tables :
    /\ tab[t].parts = {[name |-> c.name, from |-> c.start, to |-> c.end] : c \in tab[t].cat}
    /\ tab[t].companions = {c.name : c \in {d \in tab[t].cat : d.compressed}}

\* A table has partitions from the time of its last committed pass to Premake intervals
\* ahead of it (ensure_future_partitions); before the first pass, from its creation to as
\* many intervals ahead as the caller asked for (create_initial_partitions).
FutureCovered == \A t \in Tables : \A u \in ahead[t] : Covered(tab[t], u)

\* No row stays in the default partition.
DefaultDrained ==
  \A t \in Tables, r \in Times : r \in tab[t].dflt ~> r \notin tab[t].dflt
=============================================================================
