---------------------------- MODULE StationProofs ----------------------------
(***************************************************************************)
(* Proofs about the server process around its database, for every set of   *)
(* configurations, every fixture and all times that satisfy                *)
(* TimeAssumption.                                                         *)
(*                                                                         *)
(* Every step of the station is a step of the database or leaves it alone, *)
(* so what DatabaseProofs shows of the file holds here.                    *)
(***************************************************************************)
EXTENDS Station, FiniteSetTheorems, TLAPS

DBProof == INSTANCE DatabaseProofs WITH MaxSweep <- Len(Sweep)

(* The rows of the fixture, up to the nth, that the prefill inserts. *)
Online(n) == {i \in 1 .. n : ~Sweep[i]}

(* Where the lifespan is, what it has of the database and what runs. *)
StageInv ==
    /\ stage = "down" <=> opening \in {"closed", "refused"}
    /\ stage = "starting" => opening \in {"creating", "migrating", "open"}
    /\ stage \in {"serving", "stopping"} => opening = "open"
    /\ stage \in {"down", "starting"} =>
         /\ task = AllOff
         /\ \A log \in Logs : age[log] = NoRow
    /\ \A log \in Logs : task[log] = "spawned" => age[log] = NoRow

(* Only an outdoor logger in fixture mode sweeps, and only a sweep dies. *)
SweepInv ==
    /\ task["wind"] \notin {"prefilling", "dead"}
    /\ task["outdoor"] \in {"prefilling", "dead"} => config.fixture
    /\ task["outdoor"] \notin {"prefilling", "dead"} => sweep = 0

(* What is in the log of the fixture, in the file and after a power        *)
(* failure.                                                                *)
Bounded(f) ==
    /\ "outdoor" \notin f.logged => f.swept = 0
    /\ f.swept <= Cardinality(Online(Len(Sweep)))

SweptInv ==
    /\ Bounded(file) /\ Bounded(durable)
    /\ task["outdoor"] = "prefilling" => file.swept <= Cardinality(Online(sweep))

(* The newest row is that of the last online row dealt with. *)
NewestInv ==
    task["outdoor"] = "prefilling" /\ age["outdoor"] # NoRow =>
        \E j \in 1 .. sweep : /\ ~Sweep[j]
                              /\ \A k \in j + 1 .. sweep : Sweep[k]
                              /\ age["outdoor"] = RowAge(j)

Timely == \A log \in Logs : task[log] = "polling" => timer[log] <= MaxPoll

(* How old the newest row of a log can be at its polls and sleeps, as long *)
(* as at most one of them has failed since.                                *)
Cadence(log) ==
    age[log] # NoRow =>
        /\ task[log] = "sleeping" /\ failures[log] = 0 => age[log] <= timer[log]
        /\ task[log] = "polling" /\ failures[log] = 0 => age[log] <= Interval + timer[log]
        /\ task[log] = "sleeping" /\ failures[log] = 1 =>
             age[log] <= Interval + MaxPoll + timer[log]
        /\ task[log] = "polling" /\ failures[log] = 1 =>
             age[log] <= 2 * Interval + MaxPoll + timer[log]

Cadences == Cadence("wind") /\ (FixtureEndsOnline => Cadence("outdoor"))

SInv ==
    /\ TypeOK /\ StageInv /\ SweepInv /\ SweptInv /\ NewestInv
    /\ Timely /\ Cadences
-----------------------------------------------------------------------------
(* The database in the station *)

LEMMA SweepLength == Len(Sweep) \in Nat
  BY SweepAssumption

LEMMA SameStatements ==
    /\ DB!SCHEMA_SQL = DBProof!SCHEMA_SQL
    /\ \A v : DB!_migrate(v) = DBProof!_migrate(v) /\ DB!stamp(v) = DBProof!stamp(v)
    /\ \A s : DB!Effect(s) = DBProof!Effect(s) /\ (DB!Raises(s) <=> DBProof!Raises(s))
<1> USE DEF DB!create, DBProof!create, DB!add, DBProof!add, DB!stamp, DBProof!stamp,
            DB!WindColumns, DBProof!WindColumns
<1>1. DB!SCHEMA_SQL = DBProof!SCHEMA_SQL
  BY DEF DB!SCHEMA_SQL, DBProof!SCHEMA_SQL
<1>2. ASSUME NEW v PROVE DB!_migrate(v) = DBProof!_migrate(v)
  BY DEF DB!_migrate, DBProof!_migrate, DB!_MIGRATIONS, DBProof!_MIGRATIONS,
         DB!SCHEMA_VERSION, DBProof!SCHEMA_VERSION
<1>3. ASSUME NEW s PROVE DB!Effect(s) = DBProof!Effect(s) /\ (DB!Raises(s) <=> DBProof!Raises(s))
  BY DEF DB!Effect, DBProof!Effect, DB!Raises, DBProof!Raises
<1> QED BY <1>1, <1>2, <1>3

LEMMA DatabaseInit == Init => DBProof!Init
  BY DEF Init, DB!Init, DBProof!Init, DB!Inherited, DBProof!Inherited, DB!Fresh, DBProof!Fresh,
         DB!Outdoor, DBProof!Outdoor, DB!Objects, DBProof!Objects,
         DB!WindColumns, DBProof!WindColumns

LEMMA DatabaseNext == DB!Next => DBProof!Next
<1>1. DB!InitDb => DBProof!InitDb
  <2>1. DB!Connect => DBProof!Connect
    BY SameStatements DEF DB!Connect, DBProof!Connect
  <2>2. DB!Execute => DBProof!Execute
    BY SameStatements DEF DB!Execute, DBProof!Execute
  <2>3. DB!ReadVersion => DBProof!ReadVersion
    BY SameStatements
    DEF DB!ReadVersion, DBProof!ReadVersion, DB!TooNew, DBProof!TooNew,
        DB!SCHEMA_VERSION, DBProof!SCHEMA_VERSION
  <2>4. DB!Opened => DBProof!Opened
    BY DEF DB!Opened, DBProof!Opened
  <2> QED BY <2>1, <2>2, <2>3, <2>4 DEF DB!InitDb, DBProof!InitDb
<1>2. ASSUME NEW log, NEW rows, DB!Insert(log, rows) PROVE DBProof!Insert(log, rows)
  BY <1>2
  DEF DB!Insert, DBProof!Insert, DB!Insertable, DBProof!Insertable,
      DB!WindColumns, DBProof!WindColumns
<1>3. DB!Checkpoint => DBProof!Checkpoint
  BY DEF DB!Checkpoint, DBProof!Checkpoint
<1>4. DB!Close => DBProof!Close
  BY DEF DB!Close, DBProof!Close
<1>5. DB!Crash => DBProof!Crash
  BY DEF DB!Crash, DBProof!Crash
<1>6. DB!PowerFailure => DBProof!PowerFailure
  BY DEF DB!PowerFailure, DBProof!PowerFailure
<1> QED
  BY <1>1, <1>2, <1>3, <1>4, <1>5, <1>6 DEF DB!Next, DBProof!Next, DB!Logs, DBProof!Logs

(* Every step of the station is one of the database, or leaves it alone.   *)
LEMMA StationNext == [Next]_vars => [DBProof!Next]_dbVars
<1> SUFFICES ASSUME [Next]_vars PROVE DB!Next \/ UNCHANGED dbVars
  BY DatabaseNext
<1>1. CASE Boot \/ OpenDatabase
  BY <1>1 DEF Boot, OpenDatabase, DB!Next, DB!InitDb
<1>2. ASSUME NEW log \in Logs, Logger(log) PROVE DB!Next \/ UNCHANGED dbVars
  <2>1. CASE PollAnswered(log)
    BY <2>1 DEF PollAnswered, DB!Next, Logs
  <2>2. CASE StartTask(log) \/ PollFailed(log) \/ Wake(log)
    BY <2>2 DEF StartTask, PollFailed, Wake
  <2> QED BY <1>2, <2>1, <2>2 DEF Logger
<1>3. CASE PrefillRow
  BY <1>3 DEF PrefillRow, DB!Next
<1>4. CASE Shutdown
  BY <1>4 DEF Shutdown, CancelTask, AwaitDead, CloseDatabase, DB!Next
<1>5. CASE Crash \/ PowerFailure \/ Checkpoint
  BY <1>5 DEF Crash, PowerFailure, Checkpoint, DB!Next
<1>6. CASE SpawnTasks \/ PrefillDone \/ Stop \/ Tick
  BY <1>6 DEF SpawnTasks, PrefillDone, Stop, Tick
<1>7. CASE UNCHANGED vars
  BY <1>7 DEF vars
<1> QED BY <1>1, <1>2, <1>3, <1>4, <1>5, <1>6, <1>7 DEF Next

(* What the station needs to know of its database. *)
FileInv == DB!TypeOK /\ DB!ServesCompleteSchema

LEMMA DatabaseHolds == Spec => []FileInv
<1>1. [Next]_vars => [DBProof!Next]_(DBProof!vars)
  BY StationNext DEF dbVars, DBProof!vars
<1>2. DBProof!IInv => FileInv
  BY DEF DBProof!IInv, FileInv, DB!TypeOK, DBProof!TypeOK, DB!ServesCompleteSchema,
         DBProof!ServesCompleteSchema, DB!CompleteSchema, DBProof!CompleteSchema,
         DB!Files, DBProof!Files, DB!Objects, DBProof!Objects, DB!Logs, DBProof!Logs,
         DB!WindColumns, DBProof!WindColumns, DB!SCHEMA_VERSION, DBProof!SCHEMA_VERSION
<1>3. Init /\ [][Next]_vars => DBProof!Spec
  BY <1>1, DatabaseInit, PTL DEF DBProof!Spec
<1>4. DBProof!Spec => []DBProof!IInv
  BY DBProof!Invariance, SweepLength
<1> QED BY <1>2, <1>3, <1>4, PTL DEF Spec
-----------------------------------------------------------------------------
(* Times, rows and counts *)

LEMMA Times ==
    /\ Interval \in Nat /\ MaxPoll \in Nat /\ MaxAge \in Nat
    /\ 2 * MaxPoll < Interval /\ Interval + MaxPoll <= MaxAge
    /\ Old \in Nat /\ 3 * Interval <= Old /\ NoRow \in Nat /\ NoRow = Old + 1
  BY TimeAssumption DEF Old, NoRow

LEMMA RowAges ==
    ASSUME NEW row \in 1 .. Len(Sweep)
    PROVE  /\ RowAge(row) \in 0 .. Old /\ RowAge(row) # NoRow
           /\ row + 1 >= Len(Sweep) => RowAge(row) <= Interval
<1> DEFINE rows == Len(Sweep) - row
           a == rows * Interval
<1>1. rows \in Nat
  BY SweepLength
<1>2. a \in Nat
  <2> HIDE DEF rows
  <2> QED BY <1>1, Times
<1>3. row + 1 >= Len(Sweep) => a <= Interval
  <2> SUFFICES ASSUME row + 1 >= Len(Sweep) PROVE a <= Interval
    OBVIOUS
  <2>1. rows = 0 \/ rows = 1
    BY SweepLength
  <2> HIDE DEF rows
  <2> QED BY <2>1, Times
<1>4. RowAge(row) = IF a > Old THEN Old ELSE a
  BY DEF RowAge
<1> HIDE DEF a
<1> QED BY <1>2, <1>3, <1>4, Times

LEMMA OlderKeeps ==
    ASSUME NEW a \in 0 .. NoRow
    PROVE  /\ Older(a) \in 0 .. NoRow
           /\ a = NoRow => Older(a) = NoRow
           /\ Older(a) # NoRow => a # NoRow /\ Older(a) <= a + 1
  BY Times DEF Older

LEMMA OnlineCounts ==
    ASSUME NEW n \in 0 .. Len(Sweep)
    PROVE  /\ IsFiniteSet(Online(n)) /\ Cardinality(Online(n)) \in Nat
           /\ Cardinality(Online(n)) <= Cardinality(Online(Len(Sweep)))
<1>1. IsFiniteSet(1 .. Len(Sweep))
  BY SweepLength, FS_Interval
<1>2. Online(n) \subseteq Online(Len(Sweep)) /\ Online(Len(Sweep)) \subseteq 1 .. Len(Sweep)
  BY SweepLength DEF Online
<1>3. IsFiniteSet(Online(Len(Sweep))) /\ IsFiniteSet(Online(n))
  BY <1>1, <1>2, FS_Subset
<1> QED BY <1>2, <1>3, FS_Subset, FS_CardinalityType

LEMMA OneMoreOnline ==
    ASSUME NEW n \in 0 .. Len(Sweep), n < Len(Sweep)
    PROVE  Cardinality(Online(n + 1))
             = IF Sweep[n + 1] THEN Cardinality(Online(n)) ELSE Cardinality(Online(n)) + 1
<1>1. CASE Sweep[n + 1]
  <2>1. Online(n + 1) = Online(n)
    BY <1>1 DEF Online
  <2> QED BY <1>1, <2>1
<1>2. CASE ~Sweep[n + 1]
  <2>1. Online(n + 1) = Online(n) \cup {n + 1} /\ n + 1 \notin Online(n)
    BY <1>2 DEF Online
  <2> QED BY <1>2, <2>1, OnlineCounts, FS_AddElement
<1> QED BY <1>1, <1>2

(* init_db leaves the rows of the logs alone. *)
LEMMA SchemaKeepsRows ==
    ASSUME DB!TypeOK, DB!Connect \/ DB!Execute \/ DB!ReadVersion \/ DB!Opened
    PROVE  /\ file'.logged = file.logged /\ file'.swept = file.swept
           /\ durable' = durable
<1>1. CASE DB!Connect \/ DB!ReadVersion \/ DB!Opened
  BY <1>1 DEF DB!Connect, DB!ReadVersion, DB!Opened
<1>2. CASE DB!Execute
  <2>1. durable' = durable /\ (file' = file \/ file' = DB!Effect(Head(script)))
    BY <1>2 DEF DB!Execute
  <2>2. Head(script).op \in {"create", "add", "stamp"}
    <3>1. script # << >>
      BY <1>2 DEF DB!Execute
    <3>2. Head(script) \in [op : {"create"}, name : DB!Objects]
                             \cup [op : {"add"}, name : DB!WindColumns]
                             \cup [op : {"stamp"}, to : 1 .. DB!SCHEMA_VERSION]
      BY <3>1 DEF DB!TypeOK
    <3> QED BY <3>2
  <2>3. /\ DB!Effect(Head(script)).logged = file.logged
        /\ DB!Effect(Head(script)).swept = file.swept
    <3>1. file \in DB!Files
      BY DEF DB!TypeOK
    <3>2. CASE Head(script).op = "stamp"
      BY <3>1, <3>2 DEF DB!Effect, DB!Files
    <3>3. CASE Head(script).op = "add"
      BY <3>1, <3>3 DEF DB!Effect, DB!Files
    <3>4. CASE Head(script).op = "create"
      BY <3>1, <3>4 DEF DB!Effect, DB!Files
    <3> QED BY <2>2, <3>2, <3>3, <3>4
  <2> QED BY <2>1, <2>3
<1> QED BY <1>1, <1>2
-----------------------------------------------------------------------------
(* The inductive invariant *)

LEMMA InitInvariant == Init /\ DB!TypeOK => SInv
<1> SUFFICES ASSUME Init, DB!TypeOK PROVE SInv
  OBVIOUS
<1>1. TypeOK
  BY Times, SweepLength DEF Init, TypeOK, AllOff
<1>2. StageInv /\ SweepInv /\ NewestInv /\ Timely /\ Cadences
  BY DEF Init, DB!Init, StageInv, SweepInv, NewestInv, Timely, Cadences, Cadence, AllOff,
         Logs, DB!Logs
<1>3. SweptInv
  <2>1. file.swept = 0 /\ durable = file
    BY DEF Init, DB!Init, DB!Inherited, DB!Fresh
  <2>2. Cardinality(Online(Len(Sweep))) \in Nat
    BY OnlineCounts, SweepLength
  <2> QED BY <2>1, <2>2 DEF Init, SweptInv, Bounded, AllOff, Logs, DB!Logs
<1> QED BY <1>1, <1>2, <1>3 DEF SInv

LEMMA BootKeeps == SInv /\ DB!TypeOK' /\ Boot => SInv'
<1> SUFFICES ASSUME SInv, DB!TypeOK', Boot PROVE SInv'
  OBVIOUS
<1> USE DEF SInv, Boot, logVars
<1>1. TypeOK'
  BY DEF TypeOK
<1>2. StageInv'
  BY DEF StageInv, DB!Connect
<1>3. SweepInv' /\ Timely' /\ Cadences' /\ NewestInv'
  BY DEF SweepInv, StageInv, AllOff, Logs, DB!Logs, Timely, Cadences, Cadence, NewestInv
<1>4. SweptInv'
  BY DEF SweptInv, Bounded, DB!Connect
<1> QED BY <1>1, <1>2, <1>3, <1>4

LEMMA OpenDatabaseKeeps == SInv /\ DB!TypeOK' /\ OpenDatabase => SInv'
<1> SUFFICES ASSUME SInv, DB!TypeOK', OpenDatabase PROVE SInv'
  OBVIOUS
<1> USE DEF SInv, OpenDatabase, logVars
<1>1. TypeOK'
  BY DEF TypeOK
<1>2. StageInv'
  <2>1. opening' \in {"creating", "migrating", "open", "refused"}
    BY DEF DB!Execute, DB!ReadVersion, DB!Opened
  <2> QED BY <2>1 DEF StageInv
<1>3. SweepInv' /\ Timely' /\ Cadences' /\ NewestInv'
  BY DEF SweepInv, Timely, Cadences, Cadence, NewestInv, StageInv, AllOff, Logs, DB!Logs
<1>4. SweptInv'
  BY SchemaKeepsRows DEF SweptInv, Bounded, TypeOK, StageInv, AllOff, Logs, DB!Logs
<1> QED BY <1>1, <1>2, <1>3, <1>4

LEMMA SpawnTasksKeeps == SInv /\ SpawnTasks => SInv'
<1> SUFFICES ASSUME SInv, SpawnTasks PROVE SInv'
  OBVIOUS
<1> USE DEF SInv, SpawnTasks, dbVars
<1>1. task' \in [Logs -> {"off", "spawned"}]
  OBVIOUS
<1>2. TypeOK'
  BY <1>1 DEF TypeOK, DB!TypeOK
<1>3. StageInv'
  BY DEF StageInv
<1>4. SweepInv' /\ Timely' /\ Cadences' /\ NewestInv'
  <2>1. sweep = 0
    BY DEF SweepInv, StageInv, AllOff, Logs, DB!Logs
  <2> QED
    BY <1>1, <2>1 DEF SweepInv, Timely, Cadences, Cadence, NewestInv, Logs, DB!Logs
<1>5. SweptInv'
  BY <1>1 DEF SweptInv, Bounded, Logs, DB!Logs
<1> QED BY <1>2, <1>3, <1>4, <1>5

(* A task's first step. *)
LEMMA StartTaskKeeps ==
    ASSUME NEW log \in Logs, SInv, DB!TypeOK', StartTask(log)
    PROVE  SInv'
<1> USE DEF SInv
<1>1. /\ task \in [Logs -> {"off", "spawned", "prefilling", "polling", "sleeping", "dead"}]
      /\ timer \in [Logs -> 0 .. Interval]
      /\ task[log] = "spawned" /\ age[log] = NoRow /\ stage \in {"serving", "stopping"}
      /\ UNCHANGED <<dbVars, config, stage, sweep, age, failures>>
  BY DEF TypeOK, StartTask, StageInv, LoopRuns
<1>2. task["outdoor"] # "prefilling" /\ "outdoor" \in Logs /\ "wind" \in Logs
  BY DEF StartTask, LoopRuns, LoopFree, Logs, DB!Logs
<1>3. \/ /\ log = "outdoor" /\ config.fixture /\ "outdoor" \notin file.logged
         /\ \E next \in {"prefilling", "dead"} : task' = [task EXCEPT ![log] = next]
         /\ timer' = timer
      \/ /\ task' = [task EXCEPT ![log] = "polling"]
         /\ timer' = [timer EXCEPT ![log] = 0]
  BY DEF StartTask, BeginPoll, LogIsEmpty
<1>4. TypeOK'
  <2>1. /\ task' \in [Logs -> {"off", "spawned", "prefilling", "polling", "sleeping", "dead"}]
        /\ timer' \in [Logs -> 0 .. Interval]
    BY <1>1, <1>3, Times
  <2> QED BY <1>1, <2>1 DEF TypeOK
<1>5. StageInv'
  BY <1>1, <1>3 DEF StageInv, dbVars
<1>6. SweepInv'
  <2>1. log = "outdoor" => sweep = 0
    BY <1>1 DEF SweepInv
  <2> QED BY <1>1, <1>2, <1>3, <2>1 DEF SweepInv, Logs, DB!Logs
<1>7. SweptInv'
  <2>1. task'["outdoor"] = "prefilling" => file.swept = 0
    BY <1>1, <1>2, <1>3 DEF SweptInv, Bounded
  <2>2. Cardinality(Online(sweep)) \in Nat
    BY OnlineCounts DEF TypeOK
  <2> QED BY <1>1, <2>1, <2>2 DEF SweptInv, Bounded, dbVars
<1>8. NewestInv'
  BY <1>1, <1>2, <1>3 DEF NewestInv
<1>9. Timely'
  BY <1>1, <1>3, Times DEF Timely
<1>10. Cadences'
  BY <1>1, <1>2, <1>3 DEF Cadences, Cadence
<1> QED BY <1>4, <1>5, <1>6, <1>7, <1>8, <1>9, <1>10

(* A poll that ends, answered or not, and a sleep that ends. *)
LEMMA PollKeeps ==
    ASSUME NEW log \in Logs, SInv, DB!TypeOK',
           PollAnswered(log) \/ PollFailed(log) \/ Wake(log)
    PROVE  SInv'
<1> USE DEF SInv
<1>1. /\ task \in [Logs -> {"off", "spawned", "prefilling", "polling", "sleeping", "dead"}]
      /\ timer \in [Logs -> 0 .. Interval] /\ age \in [Logs -> 0 .. NoRow]
      /\ failures \in [Logs -> 0 .. 2]
      /\ stage \in {"serving", "stopping"}
      /\ UNCHANGED <<config, stage, sweep>>
  BY DEF TypeOK, PollAnswered, PollFailed, Wake, LoopRuns
<1>2. task["outdoor"] # "prefilling" /\ "outdoor" \in Logs /\ "wind" \in Logs
  BY DEF PollAnswered, PollFailed, Wake, LoopRuns, LoopFree, Logs, DB!Logs
<1>3. /\ opening' = opening /\ durable' = durable
      /\ file'.swept = file.swept /\ file.logged \subseteq file'.logged
  <2>1. CASE PollAnswered(log)
    <3>1. file \in DB!Files
      BY DEF TypeOK, DB!TypeOK
    <3>2. /\ file' = [file EXCEPT !.logged = @ \cup {log}, !.swept = @ + 0]
          /\ opening' = opening /\ durable' = durable
      BY <2>1 DEF PollAnswered, DB!Insert
    <3>3. file.swept + 0 = file.swept
      BY <3>1, SweepLength DEF DB!Files
    <3> QED BY <3>1, <3>2, <3>3 DEF DB!Files
  <2>2. CASE PollFailed(log) \/ Wake(log)
    BY <2>2 DEF PollFailed, Wake, dbVars
  <2> QED BY <2>1, <2>2
<1>4. \E next \in {"polling", "sleeping"} :
         /\ task[log] \in {"polling", "sleeping"}
         /\ task' = [task EXCEPT ![log] = next]
         /\ timer' = [timer EXCEPT ![log] = 0]
  BY DEF PollAnswered, PollFailed, Wake, BeginPoll, AfterException, Sleep
<1>5. /\ age' \in [Logs -> 0 .. NoRow] /\ failures' \in [Logs -> 0 .. 2]
      /\ \A l \in Logs : l # log => age'[l] = age[l] /\ failures'[l] = failures[l]
  BY <1>1, Times DEF PollAnswered, PollFailed, Wake
<1>6. TypeOK'
  <2>1. /\ task' \in [Logs -> {"off", "spawned", "prefilling", "polling", "sleeping", "dead"}]
        /\ timer' \in [Logs -> 0 .. Interval]
    BY <1>1, <1>4, Times
  <2> QED BY <1>1, <1>5, <2>1 DEF TypeOK
<1>7. StageInv'
  BY <1>1, <1>3, <1>4, <1>5 DEF StageInv
<1>8. SweepInv' /\ NewestInv'
  BY <1>1, <1>2, <1>4 DEF SweepInv, NewestInv
<1>9. SweptInv'
  BY <1>1, <1>2, <1>3, <1>4 DEF SweptInv, Bounded
<1>10. Timely'
  BY <1>1, <1>4, Times DEF Timely
<1>11. Cadence(log) => Cadence(log)'
  <2> SUFFICES ASSUME Cadence(log) PROVE Cadence(log)'
    OBVIOUS
  <2>1. CASE PollAnswered(log)
    <3>1. age'[log] = 0 /\ failures'[log] = 0 /\ task'[log] = "sleeping" /\ timer'[log] = 0
      BY <1>1, <2>1 DEF PollAnswered, Sleep
    <3> QED BY <3>1 DEF Cadence
  <2>2. CASE PollFailed(log)
    <3>1. /\ age'[log] = age[log] /\ failures'[log] = IF failures[log] = 2 THEN 2 ELSE failures[log] + 1
          /\ task'[log] = "sleeping" /\ timer'[log] = 0 /\ task[log] = "polling"
      BY <1>1, <2>2 DEF PollFailed, AfterException, Sleep
    <3>2. /\ timer[log] \in Nat /\ timer[log] <= MaxPoll
          /\ age[log] \in Nat /\ failures[log] \in 0 .. 2
      BY <1>1, <3>1 DEF Timely
    <3> QED BY <3>1, <3>2, Times DEF Cadence
  <2>3. CASE Wake(log)
    <3>1. /\ age'[log] = age[log] /\ failures'[log] = failures[log] /\ task'[log] = "polling"
          /\ timer'[log] = 0 /\ task[log] = "sleeping" /\ timer[log] = Interval
      BY <1>1, <2>3 DEF Wake, BeginPoll
    <3>2. age[log] \in Nat /\ failures[log] \in 0 .. 2
      BY <1>1
    <3> QED BY <3>1, <3>2, Times DEF Cadence
  <2> QED BY <2>1, <2>2, <2>3
<1>12. \A l \in Logs : l # log => (Cadence(l) => Cadence(l)')
  BY <1>1, <1>4, <1>5 DEF Cadence
<1>13. Cadences'
  BY <1>2, <1>11, <1>12 DEF Cadences
<1> QED BY <1>6, <1>7, <1>8, <1>9, <1>10, <1>13
(* A row of the sweep: skipped, written, or its insert raises.             *)
LEMMA PrefillRowKeeps == SInv /\ DB!TypeOK' /\ PrefillRow => SInv'
<1> SUFFICES ASSUME SInv, DB!TypeOK', PrefillRow PROVE SInv'
  OBVIOUS
<1> USE DEF SInv
<1>1. /\ task \in [Logs -> {"off", "spawned", "prefilling", "polling", "sleeping", "dead"}]
      /\ age \in [Logs -> 0 .. NoRow] /\ sweep \in 0 .. Len(Sweep)
      /\ task["outdoor"] = "prefilling" /\ sweep < Len(Sweep) /\ sweep + 1 \in 1 .. Len(Sweep)
      /\ "outdoor" \in Logs /\ "wind" \in Logs /\ Logs = {"outdoor", "wind"}
      /\ UNCHANGED <<config, stage, timer, failures>>
  BY SweepLength DEF PrefillRow, TypeOK, Logs, DB!Logs
<1>2. /\ opening' = opening /\ durable' = durable
      /\ \/ task' = task /\ sweep' = sweep + 1
         \/ task' = [task EXCEPT !["outdoor"] = "dead"] /\ sweep' = sweep
      /\ age' \in [Logs -> 0 .. NoRow] /\ age'["wind"] = age["wind"]
  <2>1. RowAge(sweep + 1) \in 0 .. NoRow
    <3>1. RowAge(sweep + 1) \in 0 .. Old
      BY <1>1, RowAges
    <3> QED BY <3>1, Times
  <2>2. CASE Sweep[sweep + 1] /\ sweep' = sweep + 1 /\ UNCHANGED <<dbVars, task, age>>
    BY <1>1, <2>2 DEF dbVars
  <2>3. CASE /\ DB!Insert("outdoor", 1) /\ sweep' = sweep + 1 /\ UNCHANGED task
             /\ age' = [age EXCEPT !["outdoor"] = RowAge(sweep + 1)]
    BY <1>1, <2>1, <2>3 DEF DB!Insert
  <2>4. CASE task' = [task EXCEPT !["outdoor"] = "dead"] /\ UNCHANGED <<dbVars, sweep, age>>
    BY <1>1, <2>4 DEF dbVars
  <2> QED BY <2>2, <2>3, <2>4 DEF PrefillRow
<1>3. TypeOK'
  <2>1. task' \in [Logs -> {"off", "spawned", "prefilling", "polling", "sleeping", "dead"}]
    BY <1>1, <1>2
  <2>2. sweep' \in 0 .. Len(Sweep)
    BY <1>1, <1>2
  <2> QED BY <1>1, <1>2, <2>1, <2>2 DEF TypeOK
<1>4. StageInv'
  BY <1>1, <1>2 DEF StageInv, AllOff
<1>5. SweepInv'
  BY <1>1, <1>2 DEF SweepInv
<1>6. SweptInv'
  <2>1. /\ file \in DB!Files /\ file.swept \in Nat
    BY SweepLength DEF TypeOK, DB!TypeOK, DB!Files
  <2>2. CASE Sweep[sweep + 1] /\ sweep' = sweep + 1 /\ UNCHANGED <<dbVars, task, age>>
    BY <1>1, <2>2, OneMoreOnline DEF SweptInv, Bounded, dbVars
  <2>3. CASE /\ ~Sweep[sweep + 1] /\ DB!Insert("outdoor", 1)
             /\ sweep' = sweep + 1 /\ UNCHANGED task
    <3>1. /\ file'.swept = file.swept + 1 /\ "outdoor" \in file'.logged /\ durable' = durable
      BY <2>1, <2>3 DEF DB!Insert, DB!Files
    <3>2. /\ file.swept <= Cardinality(Online(sweep))
          /\ Cardinality(Online(sweep)) \in Nat /\ Cardinality(Online(Len(Sweep))) \in Nat
          /\ Cardinality(Online(sweep + 1)) = Cardinality(Online(sweep)) + 1
          /\ Cardinality(Online(sweep + 1)) <= Cardinality(Online(Len(Sweep)))
      BY <1>1, <2>3, SweepLength, OneMoreOnline, OnlineCounts DEF SweptInv
    <3>3. file'.swept <= Cardinality(Online(sweep')) /\ Bounded(file)'
      BY <2>1, <2>3, <3>1, <3>2 DEF Bounded
    <3> QED BY <3>1, <3>3 DEF SweptInv, Bounded
  <2>4. CASE task' = [task EXCEPT !["outdoor"] = "dead"] /\ UNCHANGED <<dbVars, sweep, age>>
    BY <1>1, <2>4 DEF SweptInv, Bounded, dbVars
  <2> QED BY <2>2, <2>3, <2>4 DEF PrefillRow
<1>7. NewestInv'
  <2>1. CASE Sweep[sweep + 1] /\ sweep' = sweep + 1 /\ UNCHANGED <<dbVars, task, age>>
    <3> SUFFICES ASSUME age["outdoor"] # NoRow
                 PROVE  \E j \in 1 .. sweep + 1 :
                          /\ ~Sweep[j] /\ age["outdoor"] = RowAge(j)
                          /\ \A k \in j + 1 .. sweep + 1 : Sweep[k]
      BY <2>1 DEF NewestInv
    <3>1. PICK j \in 1 .. sweep : /\ ~Sweep[j]
                                  /\ \A k \in j + 1 .. sweep : Sweep[k]
                                  /\ age["outdoor"] = RowAge(j)
      BY <1>1 DEF NewestInv
    <3>2. j \in 1 .. sweep + 1 /\ \A k \in j + 1 .. sweep + 1 : Sweep[k]
      <4>1. \A k \in j + 1 .. sweep + 1 : k \in j + 1 .. sweep \/ k = sweep + 1
        BY <1>1
      <4> QED BY <1>1, <2>1, <3>1, <4>1
    <3> QED BY <3>1, <3>2
  <2>2. CASE /\ ~Sweep[sweep + 1] /\ sweep' = sweep + 1
             /\ age' = [age EXCEPT !["outdoor"] = RowAge(sweep + 1)]
    <3>1. age'["outdoor"] = RowAge(sweep')
      BY <1>1, <2>2
    <3>2. sweep' \in 1 .. sweep' /\ \A k \in sweep' + 1 .. sweep' : Sweep[k]
      BY <1>1, <2>2
    <3> QED BY <2>2, <3>1, <3>2 DEF NewestInv
  <2>3. CASE task' = [task EXCEPT !["outdoor"] = "dead"]
    BY <1>1, <2>3 DEF NewestInv
  <2> QED BY <2>1, <2>2, <2>3 DEF PrefillRow
<1>8. Timely' /\ Cadences'
  BY <1>1, <1>2 DEF Timely, Cadences, Cadence
<1> QED BY <1>3, <1>4, <1>5, <1>6, <1>7, <1>8

(* The sweep is over; the newest row is at most Interval old if one of the *)
(* last two rows was online.                                               *)
LEMMA PrefillDoneKeeps == SInv /\ DB!TypeOK' /\ PrefillDone => SInv'
<1> SUFFICES ASSUME SInv, DB!TypeOK', PrefillDone PROVE SInv'
  OBVIOUS
<1> USE DEF SInv
<1>1. /\ task \in [Logs -> {"off", "spawned", "prefilling", "polling", "sleeping", "dead"}]
      /\ timer \in [Logs -> 0 .. Interval]
      /\ task["outdoor"] = "prefilling" /\ sweep = Len(Sweep)
      /\ "outdoor" \in Logs /\ "wind" \in Logs /\ Logs = {"outdoor", "wind"}
      /\ sweep' = 0 /\ UNCHANGED <<dbVars, config, stage, age, failures>>
      /\ task' = [task EXCEPT !["outdoor"] = "polling"]
      /\ timer' = [timer EXCEPT !["outdoor"] = 0]
  BY DEF PrefillDone, BeginPoll, TypeOK, Logs, DB!Logs
<1>2. TypeOK'
  <2>1. /\ task' \in [Logs -> {"off", "spawned", "prefilling", "polling", "sleeping", "dead"}]
        /\ timer' \in [Logs -> 0 .. Interval]
    BY <1>1, Times
  <2> QED BY <1>1, <2>1, SweepLength DEF TypeOK
<1>3. StageInv'
  BY <1>1 DEF StageInv, dbVars, AllOff
<1>4. SweepInv' /\ SweptInv' /\ NewestInv'
  BY <1>1 DEF SweepInv, SweptInv, Bounded, NewestInv, dbVars
<1>5. Timely'
  BY <1>1, Times DEF Timely
<1>6. ASSUME FixtureEndsOnline, age["outdoor"] # NoRow PROVE age["outdoor"] <= Interval
  <2>1. PICK j \in 1 .. Len(Sweep) : /\ ~Sweep[j]
                                     /\ \A k \in j + 1 .. Len(Sweep) : Sweep[k]
                                     /\ age["outdoor"] = RowAge(j)
    BY <1>1, <1>6 DEF NewestInv
  <2>2. PICK i \in 1 .. Len(Sweep) : ~Sweep[i] /\ i + 1 >= Len(Sweep)
    BY <1>6, <2>1 DEF FixtureEndsOnline
  <2>3. ~(i \in j + 1 .. Len(Sweep))
    BY <2>1, <2>2
  <2>4. j + 1 >= Len(Sweep)
    BY <2>2, <2>3, SweepLength
  <2> QED BY <2>1, <2>4, RowAges
<1>7. FixtureEndsOnline => Cadence("outdoor")'
  <2> SUFFICES ASSUME FixtureEndsOnline, age["outdoor"] # NoRow
               PROVE  Cadence("outdoor")'
    BY <1>1 DEF Cadence
  <2>1. age["outdoor"] \in Nat /\ age["outdoor"] <= Interval
    BY <1>1, <1>6, Times DEF TypeOK
  <2> QED BY <1>1, <2>1, Times DEF Cadence
<1>8. Cadence("wind")'
  BY <1>1 DEF Cadences, Cadence
<1>9. Cadences'
  BY <1>7, <1>8 DEF Cadences, FixtureEndsOnline
<1> QED BY <1>2, <1>3, <1>4, <1>5, <1>9

LEMMA StopKeeps == SInv /\ DB!TypeOK' /\ Stop => SInv'
<1> SUFFICES ASSUME SInv, DB!TypeOK', Stop PROVE SInv'
  OBVIOUS
<1> USE DEF SInv, Stop, dbVars, logVars
<1>1. TypeOK' /\ StageInv'
  BY DEF TypeOK, StageInv
<1>2. SweepInv' /\ SweptInv' /\ NewestInv' /\ Timely' /\ Cadences'
  BY DEF SweepInv, SweptInv, Bounded, NewestInv, Timely, Cadences, Cadence
<1> QED BY <1>1, <1>2

LEMMA CancelTaskKeeps ==
    ASSUME NEW log \in Logs, SInv, DB!TypeOK', CancelTask(log)
    PROVE  SInv'
<1> USE DEF SInv
<1>1. /\ task \in [Logs -> {"off", "spawned", "prefilling", "polling", "sleeping", "dead"}]
      /\ timer \in [Logs -> 0 .. Interval]
      /\ task[log] \notin {"prefilling", "dead"} /\ stage = "stopping"
      /\ UNCHANGED <<dbVars, config, stage, sweep, age, failures>>
      /\ task' = [task EXCEPT ![log] = "off"] /\ timer' = [timer EXCEPT ![log] = 0]
      /\ "outdoor" \in Logs /\ "wind" \in Logs
  BY DEF CancelTask, TypeOK, LoopFree, Awaited, Alive, Logs, DB!Logs
<1>2. TypeOK'
  <2>1. /\ task' \in [Logs -> {"off", "spawned", "prefilling", "polling", "sleeping", "dead"}]
        /\ timer' \in [Logs -> 0 .. Interval]
    BY <1>1, Times
  <2> QED BY <1>1, <2>1 DEF TypeOK
<1>3. StageInv'
  BY <1>1 DEF StageInv, dbVars
<1>4. SweepInv' /\ SweptInv' /\ NewestInv'
  BY <1>1 DEF SweepInv, SweptInv, Bounded, NewestInv, dbVars
<1>5. Timely' /\ Cadences'
  BY <1>1 DEF Timely, Cadences, Cadence
<1> QED BY <1>2, <1>3, <1>4, <1>5

(* The process ends: in good order, by a dead task, or killed.             *)
LEMMA EndKeeps ==
    ASSUME SInv, DB!TypeOK', AwaitDead \/ CloseDatabase \/ Crash \/ PowerFailure
    PROVE  SInv'
<1> USE DEF SInv
<1>1. /\ stage' = "down" /\ opening' = "closed" /\ config' = config
      /\ file' \in {file, durable} /\ durable' \in {file, durable}
      /\ age' = [log \in Logs |-> NoRow] /\ failures' = [log \in Logs |-> 0]
  BY DEF AwaitDead, CloseDatabase, Crash, PowerFailure, Forget,
         DB!Crash, DB!Close, DB!PowerFailure
<1>2. task' = AllOff /\ timer' \in [Logs -> 0 .. Interval] /\ sweep' = 0
  <2>1. CASE CloseDatabase
    <3>1. \A log \in Logs : task[log] = "off"
      BY <2>1 DEF CloseDatabase, Awaited, Alive
    <3>2. task = AllOff
      BY <3>1 DEF TypeOK, AllOff
    <3>3. sweep = 0
      BY <3>1 DEF SweepInv, Logs, DB!Logs
    <3> QED BY <2>1, <3>2, <3>3 DEF CloseDatabase, TypeOK
  <2>2. CASE AwaitDead \/ Crash \/ PowerFailure
    BY <2>2, Times DEF AwaitDead, Crash, PowerFailure, Forget
  <2> QED BY <2>1, <2>2
<1>3. TypeOK'
  BY <1>1, <1>2, Times, SweepLength DEF TypeOK, AllOff
<1>4. StageInv' /\ SweepInv'
  BY <1>1, <1>2 DEF StageInv, SweepInv, AllOff, Logs, DB!Logs
<1>5. SweptInv' /\ NewestInv'
  BY <1>1, <1>2 DEF SweptInv, Bounded, NewestInv, AllOff, Logs, DB!Logs
<1>6. Timely' /\ Cadences'
  BY <1>1, <1>2 DEF Timely, Cadences, Cadence, AllOff, Logs, DB!Logs
<1> QED BY <1>3, <1>4, <1>5, <1>6

LEMMA CheckpointKeeps == SInv /\ DB!TypeOK' /\ Checkpoint => SInv'
<1> SUFFICES ASSUME SInv, DB!TypeOK', Checkpoint PROVE SInv'
  OBVIOUS
<1> USE DEF SInv, Checkpoint, logVars
<1>1. file' = file /\ durable' = file /\ opening' = opening
  BY DEF DB!Checkpoint
<1>2. TypeOK' /\ StageInv'
  BY <1>1 DEF TypeOK, StageInv
<1>3. SweptInv'
  BY <1>1 DEF SweptInv, Bounded
<1>4. SweepInv' /\ NewestInv' /\ Timely' /\ Cadences'
  BY DEF SweepInv, NewestInv, Timely, Cadences, Cadence
<1> QED BY <1>2, <1>3, <1>4

LEMMA TickKeeps == SInv /\ DB!TypeOK' /\ Tick => SInv'
<1> SUFFICES ASSUME SInv, DB!TypeOK', Tick PROVE SInv'
  OBVIOUS
<1> USE DEF SInv
<1>1. /\ timer \in [Logs -> 0 .. Interval] /\ age \in [Logs -> 0 .. NoRow]
      /\ failures \in [Logs -> 0 .. 2]
      /\ stage = "serving" /\ UNCHANGED <<dbVars, config, stage, task, sweep, failures>>
      /\ \A log \in Logs : task[log] # "prefilling" /\ task[log] # "spawned"
      /\ "outdoor" \in Logs /\ "wind" \in Logs
      /\ age' = [log \in Logs |-> Older(age[log])]
      /\ timer' = [log \in Logs |-> IF Running(log) THEN timer[log] + 1 ELSE timer[log]]
  BY DEF TypeOK, Tick, Due, Logs, DB!Logs
<1>2. ASSUME NEW log \in Logs
      PROVE  /\ timer'[log] \in 0 .. Interval
             /\ task[log] \in {"polling", "sleeping"} => timer'[log] = timer[log] + 1
             /\ task[log] = "polling" => timer'[log] <= MaxPoll
  <2>1. /\ task[log] = "sleeping" => timer[log] # Interval
        /\ task[log] = "polling" => timer[log] # MaxPoll /\ timer[log] <= MaxPoll
    BY DEF Tick, Due, Timely
  <2>2. timer[log] \in 0 .. Interval
    BY <1>1
  <2>3. timer'[log] = IF task[log] \in {"polling", "sleeping"} THEN timer[log] + 1 ELSE timer[log]
    BY <1>1 DEF Running
  <2> QED BY <2>1, <2>2, <2>3, Times
<1>3. ASSUME NEW log \in Logs
      PROVE  /\ age'[log] \in 0 .. NoRow
             /\ age'[log] # NoRow => age[log] # NoRow /\ age'[log] <= age[log] + 1
             /\ age[log] \in Nat /\ timer[log] \in Nat /\ failures[log] \in 0 .. 2
  <2>1. age[log] \in 0 .. NoRow /\ age'[log] = Older(age[log])
    BY <1>1
  <2> QED BY <1>1, <2>1, OlderKeeps
<1>4. TypeOK'
  <2>1. age' \in [Logs -> 0 .. NoRow] /\ timer' \in [Logs -> 0 .. Interval]
    BY <1>1, <1>2, <1>3
  <2> QED BY <1>1, <2>1 DEF TypeOK
<1>5. StageInv'
  BY <1>1 DEF StageInv, dbVars
<1>6. SweepInv' /\ SweptInv' /\ NewestInv'
  BY <1>1 DEF SweepInv, SweptInv, Bounded, NewestInv, dbVars
<1>7. Timely'
  BY <1>1, <1>2 DEF Timely
<1>8. ASSUME NEW log \in Logs, Cadence(log) PROVE Cadence(log)'
  <2>1. task'[log] = task[log] /\ failures'[log] = failures[log]
    BY <1>1
  <2>2. age'[log] \in Nat
    BY <1>3, Times
  <2> QED BY <1>2, <1>3, <1>8, <2>1, <2>2, Times DEF Cadence
<1>9. Cadences'
  BY <1>1, <1>8 DEF Cadences
<1> QED BY <1>4, <1>5, <1>6, <1>7, <1>9

LEMMA NextKeeps == SInv /\ DB!TypeOK' /\ [Next]_vars => SInv'
<1> SUFFICES ASSUME SInv, DB!TypeOK', [Next]_vars PROVE SInv'
  OBVIOUS
<1>1. CASE Boot \/ OpenDatabase \/ SpawnTasks
  BY <1>1, BootKeeps, OpenDatabaseKeeps, SpawnTasksKeeps
<1>2. ASSUME NEW log \in Logs, Logger(log) PROVE SInv'
  BY <1>2, StartTaskKeeps, PollKeeps DEF Logger
<1>3. CASE PrefillRow \/ PrefillDone
  BY <1>3, PrefillRowKeeps, PrefillDoneKeeps
<1>4. CASE Stop \/ Checkpoint \/ Tick
  BY <1>4, StopKeeps, CheckpointKeeps, TickKeeps
<1>5. ASSUME NEW log \in Logs, CancelTask(log) PROVE SInv'
  BY <1>5, CancelTaskKeeps
<1>6. CASE AwaitDead \/ CloseDatabase \/ Crash \/ PowerFailure
  BY <1>6, EndKeeps
<1>7. CASE UNCHANGED vars
  BY <1>7
  DEF vars, dbVars, logVars, SInv, TypeOK, StageInv, SweepInv, SweptInv, Bounded,
      NewestInv, Timely, Cadences, Cadence
<1> QED BY <1>1, <1>2, <1>3, <1>4, <1>5, <1>6, <1>7 DEF Next, Shutdown

THEOREM Invariance == Spec => []SInv
<1>1. FileInv => DB!TypeOK
  BY DEF FileInv
<1> QED BY <1>1, DatabaseHolds, InitInvariant, NextKeeps, PTL DEF Spec

-----------------------------------------------------------------------------
(* What follows *)

(* The lifespan, the tasks and their times stay what the code makes them   *)
(* (main.py:52-109, logger_task.py:23-97).                                 *)
THEOREM TypeCorrect == Spec => []TypeOK
<1>1. SInv => TypeOK
  BY DEF SInv
<1> QED BY <1>1, Invariance, PTL

(* While lifespan has yielded, every table, index and column is there      *)
(* (main.py:58-101, db.py:117-151).                                        *)
THEOREM ServesOnWholeSchema ==
    Spec => [](stage \in {"serving", "stopping"} => DB!CompleteSchema(file))
<1>1. SInv /\ FileInv => (stage \in {"serving", "stopping"} => DB!CompleteSchema(file))
  BY DEF SInv, StageInv, FileInv, DB!ServesCompleteSchema
<1> QED BY <1>1, Invariance, DatabaseHolds, PTL

(* No row of the fixture is written twice, over any number of restarts     *)
(* (logger_task.py:100-119).                                               *)
THEOREM SweepIsWrittenOnce == Spec => []SweptOnce
<1>1. SInv => SweptOnce
  BY DEF SInv, SweptInv, Bounded, SweptOnce, Online
<1> QED BY <1>1, Invariance, PTL

(* Nothing but the sweep ends a logger task (logger_task.py:38-57).        *)
THEOREM LoggersSurvive == Spec => []OnlySweepKillsLogger
<1>1. SInv => OnlySweepKillsLogger
  BY DEF SInv, SweepInv, OnlySweepKillsLogger, Logs, DB!Logs
<1> QED BY <1>1, Invariance, PTL

(* A logger runs only while the connection it writes to is open            *)
(* (main.py:82-109).                                                       *)
THEOREM LoggersHaveDatabase == Spec => []NoLoggerWithoutDatabase
<1>1. SInv => NoLoggerWithoutDatabase
  <2> SUFFICES ASSUME SInv, opening # "open"
               PROVE  \A log \in Logs : task[log] \in {"off", "dead"}
    BY DEF NoLoggerWithoutDatabase
  <2>1. stage \in {"down", "starting"}
    BY DEF SInv, TypeOK, StageInv
  <2> QED BY <2>1 DEF SInv, StageInv, AllOff
<1> QED BY <1>1, Invariance, PTL

(* Between two rows of a wind station that answers every poll its wind     *)
(* never goes stale (wind.py:67-85, logger_task.py:60-97).                 *)
THEOREM WindStaysFresh == Spec => []CadenceKeepsWindFresh
<1>1. SInv => CadenceKeepsWindFresh
  <2> SUFFICES ASSUME SInv, Logging("wind"), failures["wind"] = 0 PROVE ~WindStale
    BY DEF CadenceKeepsWindFresh
  <2>1. /\ "wind" \in Logs /\ age["wind"] \in Nat /\ timer["wind"] \in 0 .. Interval
        /\ task["wind"] = "polling" => timer["wind"] <= MaxPoll
    BY Times DEF SInv, TypeOK, Timely, Logs, DB!Logs
  <2>2. CASE task["wind"] = "sleeping"
    BY <2>1, <2>2, Times DEF SInv, Cadences, Cadence, Logging, WindStale
  <2>3. CASE task["wind"] = "polling"
    BY <2>1, <2>3, Times DEF SInv, Cadences, Cadence, Logging, WindStale
  <2> QED BY <2>2, <2>3 DEF Logging, Running
<1> QED BY <1>1, Invariance, PTL

(* One poll that fails, however slowly, is no fault to /health, if the     *)
(* fixture does not end in two offline rows (health.py:50-70,              *)
(* logger_task.py:40-57).                                                  *)
THEOREM OneMissIsForgiven ==
    ASSUME FixtureEndsOnline
    PROVE  Spec => []OneMissIsNoAlarm
<1>1. SInv => OneMissIsNoAlarm
  <2> SUFFICES ASSUME SInv, Logging("outdoor"), failures["outdoor"] <= 1 PROVE LoggerOk
    BY DEF OneMissIsNoAlarm
  <2>1. /\ "outdoor" \in Logs /\ age["outdoor"] \in Nat /\ timer["outdoor"] \in 0 .. Interval
        /\ task["outdoor"] = "polling" => timer["outdoor"] <= MaxPoll
        /\ failures["outdoor"] = 0 \/ failures["outdoor"] = 1
    BY Times DEF SInv, TypeOK, Timely, Logs, DB!Logs
  <2>2. CASE task["outdoor"] = "sleeping"
    BY <2>1, <2>2, Times, FixtureEndsOnline
    DEF SInv, Cadences, Cadence, Logging, LoggerOk, AlarmAfter
  <2>3. CASE task["outdoor"] = "polling"
    BY <2>1, <2>3, Times, FixtureEndsOnline
    DEF SInv, Cadences, Cadence, Logging, LoggerOk, AlarmAfter
  <2> QED BY <2>2, <2>3 DEF Logging, Running
<1> QED BY <1>1, Invariance, PTL
=============================================================================
