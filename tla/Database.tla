------------------------------ MODULE Database ------------------------------
(***************************************************************************)
(* The SQLite file of the server: weather_server/db.py.                    *)
(*                                                                         *)
(* init_db runs its statements one at a time on a connection in autocommit *)
(* mode (isolation_level=None), so each is a transaction of its own and    *)
(* the process can be killed between any two of them.  The journal is a    *)
(* WAL with synchronous = NORMAL: a commit survives the process at once,   *)
(* but a power failure may undo the commits since the last checkpoint.     *)
(*                                                                         *)
(* Of the rows, only whether a log has any is kept, and how many were      *)
(* written by the fixture sweep.                                           *)
(***************************************************************************)
EXTENDS Naturals, Sequences, FiniteSets

CONSTANT MaxSweep   \* bound on the rows a fixture sweep writes

ASSUME SweepAssumption == MaxSweep \in Nat

VARIABLES file,     \* what the file holds, as any connection sees it
          durable,  \* what it holds after a power failure
          opening,  \* where init_db is
          script    \* the statements init_db has still to run

vars == <<file, durable, opening, script>>

SCHEMA_VERSION == 3

Logs == {"outdoor", "wind"}   \* outdoor_readings, wind_readings

Objects == {"outdoor_readings", "idx_outdoor", "wind_readings", "idx_wind"}

(* The columns of outdoor_readings that a v1 file lacks. *)
WindColumns == {"wind_speed_ms", "wind_gust_ms", "wind_direction_deg"}

Files == [version : 0 .. 4, objects : SUBSET Objects,
          columns : SUBSET WindColumns,
          logged : SUBSET Logs,        \* the logs that have a row
          swept : 0 .. 2 * MaxSweep]   \* rows from the fixture

-----------------------------------------------------------------------------
(* Statements *)

create(o)  == [op |-> "create", name |-> o]    \* CREATE ... IF NOT EXISTS
add(col)   == [op |-> "add", name |-> col]     \* ALTER TABLE ... ADD COLUMN
StampNext(v) == [op |-> "stamp", to |-> v + 1]   \* a slip: bumped twice
stamp(v)   == [op |-> "stamp", to |-> v]       \* PRAGMA user_version = v

SCHEMA_SQL == << create("outdoor_readings"), create("idx_outdoor"),
                 create("wind_readings"), create("idx_wind") >>

_MIGRATIONS ==
    << << add("wind_speed_ms"), add("wind_gust_ms"), add("wind_direction_deg") >>,
       << create("wind_readings"), create("idx_wind") >> >>

(* A slip: the version is bumped before the step's statements. *)
StampFirst(from) ==
    LET Rest[v \in 1 .. SCHEMA_VERSION] ==
            IF v = SCHEMA_VERSION THEN << >>
            ELSE << stamp(v + 1) >> \o _MIGRATIONS[v] \o Rest[v + 1]
    IN Rest[from]

(* What _migrate runs. *)
_migrate(from) ==
    LET Rest[v \in 1 .. SCHEMA_VERSION] ==
            IF v = SCHEMA_VERSION THEN << >>
            ELSE _MIGRATIONS[v] \o << stamp(v + 1) >> \o Rest[v + 1]
    IN Rest[from]

(* A slip: CREATE without IF NOT EXISTS. *)
ExistsOrDuplicate(s) ==
    \/ s.op = "create" /\ s.name \in file.objects
    \/ s.op = "add" /\ s.name \in file.columns

(* "duplicate column name" *)
Raises(s) == s.op = "add" /\ s.name \in file.columns

(* A table is created with all the columns of its statement. *)
Effect(s) ==
    CASE s.op = "stamp" -> [file EXCEPT !.version = s.to]
      [] s.op = "add"   -> [file EXCEPT !.columns = @ \cup {s.name}]
      [] s.op = "create" ->
           [file EXCEPT !.objects = @ \cup {s.name},
                        !.columns = IF s.name = "outdoor_readings"
                                       /\ s.name \notin file.objects
                                    THEN WindColumns ELSE @]

-----------------------------------------------------------------------------
TypeOK ==
    /\ file \in Files /\ durable \in Files
    /\ opening \in {"closed", "creating", "migrating", "open", "refused"}
    /\ script \in Seq([op : {"create"}, name : Objects]
                        \cup [op : {"add"}, name : WindColumns]
                        \cup [op : {"stamp"}, to : 1 .. SCHEMA_VERSION])

(* No file yet, one left by this or an earlier version of the code, or one *)
(* of a later version.                                                     *)
Fresh == [version |-> 0, objects |-> {}, columns |-> {}, logged |-> {}, swept |-> 0]
Outdoor == {"outdoor_readings", "idx_outdoor"}

Inherited ==
    { [version |-> v, objects |-> IF v < 3 THEN Outdoor ELSE Objects,
       columns |-> IF v = 1 THEN {} ELSE WindColumns, logged |-> l, swept |-> 0]
      : v \in 1 .. 4, l \in {{}, {"outdoor"}} }

Init ==
    /\ file \in Inherited \cup {Fresh}
    /\ durable = file
    /\ opening = "closed"
    /\ script = << >>

(* Connect, set the pragmas, begin executescript(SCHEMA_SQL). *)
Connect ==
    /\ opening \in {"closed", "refused"}
    /\ opening' = "creating"
    /\ script' = SCHEMA_SQL
    /\ UNCHANGED <<file, durable>>

(* The next statement; an exception leaves init_db. *)
Execute ==
    /\ opening \in {"creating", "migrating"}
    /\ script # << >>
    /\ IF Raises(Head(script))
       THEN /\ opening' = "refused"
            /\ script' = << >>
            /\ UNCHANGED <<file, durable>>
       ELSE /\ file' = Effect(Head(script))
            /\ script' = Tail(script)
            /\ UNCHANGED <<opening, durable>>

(* A slip: a newer file is taken for a current one. *)
NeverTooNew(version) == FALSE

TooNew(version) == version > SCHEMA_VERSION

(* The schema is there: what user_version says is done next. *)
ReadVersion ==
    /\ opening = "creating"
    /\ script = << >>
    /\ opening' = IF TooNew(file.version) THEN "refused" ELSE "migrating"
    /\ script' = IF file.version = 0 THEN << stamp(SCHEMA_VERSION) >>
                 ELSE IF file.version < SCHEMA_VERSION
                 THEN _migrate(file.version) ELSE << >>
    /\ UNCHANGED <<file, durable>>

(* init_db returns the connection. *)
Opened ==
    /\ opening = "migrating"
    /\ script = << >>
    /\ opening' = "open"
    /\ UNCHANGED <<file, durable, script>>

(* insert_outdoor_reading, insert_wind_reading: every column is named.     *)
Insertable(log) ==
    /\ opening = "open"
    /\ log = "outdoor" => WindColumns \subseteq file.columns
    /\ log = "wind" => "wind_readings" \in file.objects

Insert(log, rows) ==
    /\ Insertable(log)
    /\ file.swept + rows <= 2 * MaxSweep
    /\ file' = [file EXCEPT !.logged = @ \cup {log}, !.swept = @ + rows]
    /\ UNCHANGED <<durable, opening, script>>

(* The WAL is written back: on its own, and when the connection closes. *)
Checkpoint ==
    /\ opening # "closed"
    /\ durable # file
    /\ durable' = file
    /\ UNCHANGED <<file, opening, script>>

Close ==
    /\ opening = "open"
    /\ opening' = "closed"
    /\ durable' = file
    /\ UNCHANGED <<file, script>>

(* The process dies. *)
Crash ==
    /\ opening # "closed"
    /\ opening' = "closed"
    /\ script' = << >>
    /\ UNCHANGED <<file, durable>>

PowerFailure ==
    /\ opening' = "closed"
    /\ script' = << >>
    /\ file' = durable
    /\ UNCHANGED durable

InitDb == Connect \/ Execute \/ ReadVersion \/ Opened

Next ==
    \/ InitDb
    \/ \E log \in Logs : Insert(log, 0)
    \/ Insert("outdoor", 1)
    \/ Checkpoint
    \/ Close
    \/ Crash
    \/ PowerFailure

Spec == Init /\ [][Next]_vars

-----------------------------------------------------------------------------
(* Properties *)

CompleteSchema(f) ==
    f.version = SCHEMA_VERSION /\ f.objects = Objects /\ f.columns = WindColumns

(* db.py, "ensure schema": whatever file was found, and wherever earlier   *)
(* openings of it were cut short, a connection that is handed out has      *)
(* every table, index and column that the inserts and queries name.        *)
ServesCompleteSchema == opening = "open" => CompleteSchema(file)

(* A v1 file whose ALTERs were interrupted. *)
HalfAltered(f) == f.version = 1 /\ f.columns # {}

(* db.py, "safe to call repeatedly": opening fails only on a file of a     *)
(* later version, and on a v1 file whose columns were added in part.       *)
RefusesOnlyUnfit ==
    opening = "refused" => HalfAltered(file) \/ file.version > SCHEMA_VERSION

(* db.py:103, "so a partial run can resume": a file that can be migrated   *)
(* is never refused, wherever an earlier migration of it was cut short.    *)
PartialRunResumes == opening = "refused" => file.version > SCHEMA_VERSION

(* db.py:142, "never silently downgrade a newer DB": such a file is never  *)
(* served and its version is never touched.                                *)
NewerIsLeftAlone ==
    [][file.version > SCHEMA_VERSION =>
         opening' # "open" /\ file'.version = file.version]_vars
=============================================================================
