------------------------------ MODULE Station -------------------------------
(***************************************************************************)
(* The server process around the database: the lifespan of main.py and the *)
(* logger tasks of logger_task.py, over Database.                          *)
(*                                                                         *)
(* Boot opens the database and spawns a logger task per log; each polls    *)
(* its sensor, writes a row, and sleeps.  Shutdown cancels and awaits the  *)
(* tasks one after the other and closes the connection.  The process may   *)
(* die, and the power may fail, at any moment.                             *)
(*                                                                         *)
(* Time is kept as ages, so nothing bounds the length of a behaviour: how  *)
(* long a poll or a sleep has lasted, how old the newest row is.           *)
(***************************************************************************)
EXTENDS Naturals, Sequences, FiniteSets

CONSTANTS Configs,   \* the weather.toml files the station is booted with
          Sweep,     \* per row of fixtures/outdoor.json: is it "offline"?
          Interval,  \* logger.interval_seconds
          MaxPoll,   \* the longest a poll takes
          MaxAge     \* wind.max_age_s

ASSUME SweepAssumption == Sweep \in Seq(BOOLEAN)

(* The defaults: 60 s, 10 s and 90 s. *)
ASSUME TimeAssumption ==
    /\ Interval \in Nat /\ MaxPoll \in Nat /\ MaxAge \in Nat
    /\ 2 * MaxPoll < Interval /\ Interval + MaxPoll <= MaxAge

VARIABLES file, durable, opening, script,  \* see Database
          config,    \* the configuration in force
          stage,     \* where lifespan is
          task,      \* per log: where its logger task is
          timer,     \* per log: how long its poll or sleep has lasted
          sweep,     \* rows of the fixture sweep already dealt with
          age,       \* per log: age of the newest row this process wrote
          failures   \* per log: consecutive polls that wrote no row

dbVars == <<file, durable, opening, script>>
logVars == <<task, timer, sweep, age, failures>>
vars == <<dbVars, config, stage, logVars>>

DB == INSTANCE Database WITH MaxSweep <- Len(Sweep)

Logs == DB!Logs

(* load_config rejects a wind station without logging. *)
Valid(c) == c.wind_station => c.logging

ASSUME ConfigAssumption ==
    /\ Configs \subseteq [fixture : BOOLEAN, logging : BOOLEAN, wind_station : BOOLEAN]
    /\ \A c \in Configs : Valid(c)

(* An age too large for any threshold to tell apart; NoRow: none written. *)
Old   == 3 * Interval + MaxAge
NoRow == Old + 1

TypeOK ==
    /\ DB!TypeOK
    /\ config \in Configs
    /\ stage \in {"down", "starting", "serving", "stopping"}
    /\ task \in [Logs -> {"off", "spawned", "prefilling", "polling", "sleeping", "dead"}]
    /\ timer \in [Logs -> 0 .. Interval]
    /\ sweep \in 0 .. Len(Sweep)
    /\ age \in [Logs -> 0 .. NoRow]
    /\ failures \in [Logs -> 0 .. 2]

AllOff == [log \in Logs |-> "off"]

Init ==
    /\ DB!Init
    /\ config \in Configs
    /\ stage = "down"
    /\ task = AllOff
    /\ timer = [log \in Logs |-> 0]
    /\ sweep = 0
    /\ age = [log \in Logs |-> NoRow]
    /\ failures = [log \in Logs |-> 0]

(* Nothing of a process survives it. *)
Forget ==
    /\ task' = AllOff
    /\ timer' = [log \in Logs |-> 0]
    /\ sweep' = 0
    /\ age' = [log \in Logs |-> NoRow]
    /\ failures' = [log \in Logs |-> 0]

-----------------------------------------------------------------------------
(* lifespan, up to its yield *)

Boot ==
    /\ stage = "down"
    /\ config' \in Configs
    /\ stage' = "starting"
    /\ DB!Connect
    /\ UNCHANGED logVars

(* init_db; an exception in it ends the process. *)
OpenDatabase ==
    /\ stage = "starting"
    /\ DB!Execute \/ DB!ReadVersion \/ DB!Opened
    /\ stage' = IF opening' = "refused" THEN "down" ELSE stage
    /\ UNCHANGED <<config, logVars>>

Wanted(log) == config.logging /\ (log = "wind" => config.wind_station)

SpawnTasks ==
    /\ stage = "starting"
    /\ opening = "open"
    /\ stage' = "serving"
    /\ task' = [log \in Logs |-> IF Wanted(log) THEN "spawned" ELSE "off"]
    /\ UNCHANGED <<dbVars, config, timer, sweep, age, failures>>

-----------------------------------------------------------------------------
(* outdoor_logger_loop and wind_logger_loop *)

(* The prefill does not await: while it runs, the event loop runs nothing. *)
LoopFree == \A log \in Logs : task[log] # "prefilling"

(* A task that is yet to be cancelled still runs while an earlier one is   *)
(* being awaited by the shutdown.                                          *)
LoopRuns == stage \in {"serving", "stopping"} /\ LoopFree

(* A slip: the time of a poll is counted from the sleep before it. *)
PollOnOldTimer(log) ==
    /\ task' = [task EXCEPT ![log] = "polling"]
    /\ UNCHANGED timer

BeginPoll(log) ==
    /\ task' = [task EXCEPT ![log] = "polling"]
    /\ timer' = [timer EXCEPT ![log] = 0]

(* A slip: the sweep is written whatever the log holds. *)
AlwaysEmpty == TRUE

(* latest_outdoor_timestamp is None. *)
LogIsEmpty == "outdoor" \notin file.logged

(* The first step of a task: in fixture mode an empty outdoor log is first *)
(* prefilled, unless the fixture cannot be read.                           *)
StartTask(log) ==
    /\ LoopRuns
    /\ task[log] = "spawned"
    /\ IF log = "outdoor" /\ config.fixture /\ LogIsEmpty
       THEN /\ \E next \in {"prefilling", "dead"} : task' = [task EXCEPT ![log] = next]
            /\ UNCHANGED timer
       ELSE BeginPoll(log)
    /\ UNCHANGED <<dbVars, config, stage, sweep, age, failures>>

(* The rows are stamped Interval apart, the last one with the present.     *)
RowAge(row) ==
    LET a == (Len(Sweep) - row) * Interval IN IF a > Old THEN Old ELSE a

(* One row of _prefill_from_fixture; its insert may raise, and no handler  *)
(* in the task catches that.                                               *)
PrefillRow ==
    /\ task["outdoor"] = "prefilling"
    /\ sweep < Len(Sweep)
    /\ \/ /\ Sweep[sweep + 1]
          /\ sweep' = sweep + 1
          /\ UNCHANGED <<dbVars, task, age>>
       \/ /\ ~Sweep[sweep + 1]
          /\ DB!Insert("outdoor", 1)
          /\ age' = [age EXCEPT !["outdoor"] = RowAge(sweep + 1)]
          /\ sweep' = sweep + 1
          /\ UNCHANGED task
       \/ /\ ~Sweep[sweep + 1]
          /\ task' = [task EXCEPT !["outdoor"] = "dead"]
          /\ UNCHANGED <<dbVars, sweep, age>>
    /\ UNCHANGED <<config, stage, timer, failures>>

PrefillDone ==
    /\ task["outdoor"] = "prefilling"
    /\ sweep = Len(Sweep)
    /\ BeginPoll("outdoor")
    /\ sweep' = 0
    /\ UNCHANGED <<dbVars, config, stage, age, failures>>

Sleep(log) ==
    /\ task' = [task EXCEPT ![log] = "sleeping"]
    /\ timer' = [timer EXCEPT ![log] = 0]

PollAnswered(log) ==
    /\ LoopRuns
    /\ task[log] = "polling"
    /\ DB!Insert(log, 0)
    /\ age' = [age EXCEPT ![log] = 0]
    /\ failures' = [failures EXCEPT ![log] = 0]
    /\ Sleep(log)
    /\ UNCHANGED <<config, stage, sweep>>

(* A slip: an exception in an iteration ends the task. *)
Die(log) ==
    /\ task' = [task EXCEPT ![log] = "dead"]
    /\ UNCHANGED timer

(* What follows a poll or an insert that raised. *)
AfterException(log) == Sleep(log)

(* None, or an exception in the poll or the insert: no row. *)
PollFailed(log) ==
    /\ LoopRuns
    /\ task[log] = "polling"
    /\ failures' = [failures EXCEPT ![log] = IF @ = 2 THEN 2 ELSE @ + 1]
    /\ AfterException(log)
    /\ UNCHANGED <<dbVars, config, stage, sweep, age>>

Wake(log) ==
    /\ LoopRuns
    /\ task[log] = "sleeping"
    /\ timer[log] = Interval
    /\ BeginPoll(log)
    /\ UNCHANGED <<dbVars, config, stage, sweep, age, failures>>

-----------------------------------------------------------------------------
(* lifespan, after its yield *)

Stop ==
    /\ stage = "serving"
    /\ LoopFree
    /\ stage' = "stopping"
    /\ UNCHANGED <<dbVars, config, logVars>>

Alive(log) == task[log] \notin {"off", "dead"}

(* A slip: the wind logger is not among the tasks. *)
OutdoorOnly(log) == log = "outdoor" /\ Alive(log)

(* The tasks that shutdown waits for. *)
Awaited(log) == Alive(log)

(* cancel() and await, in the order of `tasks`. *)
CancelTask(log) ==
    /\ stage = "stopping"
    /\ LoopFree
    /\ Awaited(log)
    /\ log = "wind" => task["outdoor"] = "off"
    /\ task' = [task EXCEPT ![log] = "off"]
    /\ timer' = [timer EXCEPT ![log] = 0]
    /\ UNCHANGED <<dbVars, config, stage, sweep, age, failures>>

(* A dead task raises again where it is awaited: the rest of the shutdown, *)
(* and with it db_conn.close(), is skipped.                                *)
AwaitDead ==
    /\ stage = "stopping"
    /\ LoopFree
    /\ task["outdoor"] = "dead"
    /\ stage' = "down"
    /\ DB!Crash
    /\ Forget
    /\ UNCHANGED config

CloseDatabase ==
    /\ stage = "stopping"
    /\ LoopFree
    /\ \A log \in Logs : ~Awaited(log) /\ task[log] # "dead"
    /\ stage' = "down"
    /\ DB!Close
    /\ age' = [log \in Logs |-> NoRow]
    /\ failures' = [log \in Logs |-> 0]
    /\ UNCHANGED <<config, task, timer, sweep>>

-----------------------------------------------------------------------------
(* The world *)

Crash ==
    /\ stage # "down"
    /\ stage' = "down"
    /\ DB!Crash
    /\ Forget
    /\ UNCHANGED config

PowerFailure ==
    /\ stage' = "down"
    /\ DB!PowerFailure
    /\ Forget
    /\ UNCHANGED config

Checkpoint ==
    /\ stage # "down"
    /\ DB!Checkpoint
    /\ UNCHANGED <<config, stage, logVars>>

Older(a) == IF a >= Old THEN a ELSE a + 1

(* Time passes while nothing is due: the loop resumes a task in the tick   *)
(* in which its sleep ends, and a poll takes at most MaxPoll.              *)
Due(log) ==
    \/ task[log] \in {"spawned", "prefilling"}
    \/ task[log] = "sleeping" /\ timer[log] = Interval
    \/ task[log] = "polling" /\ timer[log] = MaxPoll

Running(log) == task[log] \in {"polling", "sleeping"}

Tick ==
    /\ stage = "serving"
    /\ \A log \in Logs : ~Due(log)
    /\ timer' = [log \in Logs |-> IF Running(log) THEN timer[log] + 1 ELSE timer[log]]
    /\ age' = [log \in Logs |-> Older(age[log])]
    /\ UNCHANGED <<dbVars, config, stage, task, sweep, failures>>

Logger(log) ==
    \/ StartTask(log)
    \/ PollAnswered(log)
    \/ PollFailed(log)
    \/ Wake(log)

Shutdown == (\E log \in Logs : CancelTask(log)) \/ AwaitDead \/ CloseDatabase

Next ==
    \/ Boot
    \/ OpenDatabase
    \/ SpawnTasks
    \/ \E log \in Logs : Logger(log)
    \/ PrefillRow
    \/ PrefillDone
    \/ Stop
    \/ Shutdown
    \/ Crash
    \/ PowerFailure
    \/ Checkpoint
    \/ Tick

Spec == Init /\ [][Next]_vars

-----------------------------------------------------------------------------
(* What the routes make of the log *)

(* A slip: one slow cycle is reported as a fault. *)
TwoIntervals == 2 * Interval

(* get_health: the logger is ok while its newest row is younger. *)
AlarmAfter == 3 * Interval

LoggerOk == age["outdoor"] < AlarmAfter

(* A slip: the guard is as tight as the cadence. *)
OlderThanInterval == age["wind"] > Interval

(* resolve_wind, for a separate wind station. *)
WindStale == age["wind"] > MaxAge

(* The task has written to its log, and is still at it. *)
Logging(log) == stage = "serving" /\ Running(log) /\ age[log] # NoRow

-----------------------------------------------------------------------------
(* Properties *)

(* Of a fixture that has an online row, one of the last two is.  The sweep *)
(* of any other leaves the newest row older than a poll that fails may     *)
(* find it.                                                                *)
FixtureEndsOnline ==
    \A i \in 1 .. Len(Sweep) : ~Sweep[i] =>
        \E j \in 1 .. Len(Sweep) : ~Sweep[j] /\ j + 1 >= Len(Sweep)

(* logger_task.py, "if the DB is empty": over any number of restarts, with *)
(* the prefill cut short anywhere, no fixture row is written twice.        *)
SweptOnce == file.swept <= Cardinality({i \in 1 .. Len(Sweep) : ~Sweep[i]})

(* health.py:60, "if writes are still happening": a poll that fails, even  *)
(* as slowly as a poll can, never makes /health report a fault if the one  *)
(* after it succeeds (where FixtureEndsOnline).                            *)
OneMissIsNoAlarm ==
    Logging("outdoor") /\ failures["outdoor"] <= 1 => LoggerOk

(* wind.py:13: while a separate wind station answers every poll, the time  *)
(* between two of its rows never makes its wind stale.                     *)
CadenceKeepsWindFresh ==
    Logging("wind") /\ failures["wind"] = 0 => ~WindStale

(* logger_task.py, "logger iteration failed": no failure of a poll or an   *)
(* insert stops a logger; only the fixture sweep, before its loop, can.    *)
OnlySweepKillsLogger ==
    \A log \in Logs : task[log] = "dead" => log = "outdoor" /\ config.fixture

(* main.py, "cancel and await on shutdown": no logger outlives the         *)
(* connection it writes to, however the shutdown ends.                     *)
NoLoggerWithoutDatabase ==
    opening # "open" => \A log \in Logs : task[log] \in {"off", "dead"}

(* docs/design/02-api-design.md:526, "a sensor that's been unplugged is a  *)
(* known state, not a system fault": while the logger task is polling and  *)
(* the database is reachable, /health is ok.                               *)
UnpluggedIsNoFault == Logging("outdoor") => LoggerOk
=============================================================================
