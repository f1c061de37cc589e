--------------------------- MODULE OutdoorFirmware --------------------------
(***************************************************************************)
(* The outdoor unit: sketches/outdoor.ino.                                 *)
(*                                                                         *)
(* Five FreeRTOS tasks share one reading, sensorData, under dataMutex; two *)
(* further mutexes guard the I2C bus and the temperature offset.  A task   *)
(* takes its mutexes one by one, each with a timeout, works, and gives     *)
(* them back in reverse.  The anemometer counts pulses in an interrupt     *)
(* routine, which the wind task reads and clears once per subsample.       *)
(*                                                                         *)
(* Tasks are preemptive and may run on different cores: each access to a   *)
(* shared variable is a step.  portDISABLE_INTERRUPTS holds off only the   *)
(* interrupts of the core that calls it.                                   *)
(***************************************************************************)
EXTENDS Naturals, Sequences, FiniteSets

CONSTANTS SameCore,   \* the wind task runs on the core that takes the interrupt
          Subsamples, \* subsamples in a wind window
          MaxPulses,  \* bound on the pulses of a checked instance
          Nobody

ASSUME CoreAssumption == SameCore \in BOOLEAN
ASSUME WindowAssumption == Subsamples \in Nat \ {0} /\ MaxPulses \in Nat

Tasks   == {"sensor", "wind", "gps", "display", "web"}
Mutexes == {"data", "i2c", "offset"}

ASSUME NobodyAssumption == Nobody \notin Tasks

VARIABLES holder,      \* per mutex: the task that holds it
          pc,          \* per task: where it is in its loop
          sensorData,  \* the shared reading
          json,        \* what handleData has put together so far
          windPulses,  \* the pulse counter
          isr,         \* windPulseISR: "off", or the value it is incrementing
          window,      \* locals of windTask
          arrived,     \* pulses that passed the debounce so far
          counted      \* pulses that went into a window so far

lockVars == <<holder, pc>>
pulseVars == <<windPulses, isr, window, arrived, counted>>
vars == <<lockVars, sensorData, json, pulseVars>>

(* BME280 samples are told apart by a number that alternates; 0: none yet. *)
Samples == 0 .. 2
NextSample(s) == IF s = 1 THEN 2 ELSE 1

Pulses == 0 .. 2 * MaxPulses

(* Temperature stands for the first fields of a sample and pressure for    *)
(* the last; wind speed and gust are kept in pulses.                       *)
Readings == [validData : BOOLEAN, temperature : Samples, pressure : Samples,
             windSpeed : Pulses, windGust : Pulses]

(* Every variable has its type; in particular a wind window (outdoor.ino:  *)
(* 163-165) never outgrows its subsamples and starts anew when published.  *)
TypeOK ==
    /\ holder \in [Mutexes -> Tasks \cup {Nobody}]
    /\ pc \in [Tasks -> {"idle", "taking", "half", "giving", "reading"}]
    /\ sensorData \in Readings
    /\ json \in Readings
    /\ windPulses \in 0 .. MaxPulses
    /\ isr \in [running : BOOLEAN, value : 0 .. MaxPulses]
    /\ window \in [pulses : 0 .. MaxPulses, speedSum : Pulses, peak : Pulses,
                   subsamples : 0 .. Subsamples]
    /\ arrived \in 0 .. MaxPulses
    /\ counted \in Pulses

NoReading == [validData |-> FALSE, temperature |-> 0, pressure |-> 0,
              windSpeed |-> 0, windGust |-> 0]

NoWindow == [pulses |-> 0, speedSum |-> 0, peak |-> 0, subsamples |-> 0]

(* setup() *)
Init ==
    /\ holder = [m \in Mutexes |-> Nobody]
    /\ pc = [t \in Tasks |-> "idle"]
    /\ sensorData = NoReading
    /\ json = NoReading
    /\ windPulses = 0
    /\ isr = [running |-> FALSE, value |-> 0]
    /\ window = NoWindow
    /\ arrived = 0
    /\ counted = 0

-----------------------------------------------------------------------------
(* Taking and giving mutexes *)

(* A slip: the page is drawn before the reading is locked. *)
DisplayFirst(t) ==
    CASE t = "sensor"  -> << "data", "i2c", "offset" >>
      [] t = "display" -> << "i2c", "data" >>
      [] OTHER         -> << "data" >>

(* A slip: the request handler reads without the lock. *)
UnlockedWeb(t) ==
    CASE t = "sensor"  -> << "data", "i2c", "offset" >>
      [] t = "display" -> << "data", "i2c" >>
      [] t = "web"     -> << >>
      [] OTHER         -> << "data" >>

(* "Always acquire mutexes in the same order to prevent deadlocks." *)
Order(t) ==
    CASE t = "sensor"  -> << "data", "i2c", "offset" >>
      [] t = "display" -> << "data", "i2c" >>
      [] OTHER         -> << "data" >>

Held(t) == {m \in Mutexes : holder[m] = t}

HasAll(t) == Cardinality(Held(t)) = Len(Order(t))

(* The task is where its mutexes are all its own and its work begins. *)
Inside(t) == pc[t] = "taking" /\ HasAll(t)

NextMutex(t) == Order(t)[Cardinality(Held(t)) + 1]

(* The mutex taken last is given back first. *)
LastMutex(t) == IF Held(t) = {} THEN Nobody ELSE Order(t)[Cardinality(Held(t))]

Goto(t, where) == pc' = [pc EXCEPT ![t] = where]

(* The period of a task is over; for the web server, a request has come.   *)
Begin(t) ==
    /\ t # "wind"
    /\ pc[t] = "idle"
    /\ Goto(t, "taking")
    /\ UNCHANGED <<holder, sensorData, json, pulseVars>>

Take(t) ==
    /\ pc[t] = "taking"
    /\ ~HasAll(t)
    /\ holder[NextMutex(t)] = Nobody
    /\ holder' = [holder EXCEPT ![NextMutex(t)] = t]
    /\ UNCHANGED <<pc, sensorData, json, pulseVars>>

(* A slip: the peak runs on into the next window. *)
KeepPeak(w) == [w EXCEPT !.speedSum = 0, !.subsamples = 0]

(* A slip: the subsamples run on into the next window. *)
KeepSubsamples(w) == [w EXCEPT !.speedSum = 0, !.peak = 0]

(* What a window starts with, published or not. *)
ResetWindow(w) == [w EXCEPT !.speedSum = 0, !.peak = 0, !.subsamples = 0]

(* A mutex was not free in time: those held are given back.  The sensor    *)
(* and display tasks start over, the wind window is dropped, the request   *)
(* is answered 503.                                                        *)
TimeOut(t) ==
    /\ pc[t] = "taking"
    /\ ~HasAll(t)
    /\ holder[NextMutex(t)] # Nobody
    /\ holder' = [m \in Mutexes |-> IF holder[m] = t THEN Nobody ELSE holder[m]]
    /\ Goto(t, IF t \in {"sensor", "display"} THEN "taking" ELSE "idle")
    /\ window' = IF t = "wind" THEN ResetWindow(window) ELSE window
    /\ UNCHANGED <<sensorData, json, windPulses, isr, arrived, counted>>

Give(t) ==
    /\ pc[t] = "giving"
    /\ holder' = [m \in Mutexes |-> IF m = LastMutex(t) THEN Nobody ELSE holder[m]]
    /\ IF Cardinality(Held(t)) > 1
       THEN UNCHANGED <<pc, json>>
       ELSE /\ Goto(t, "idle")
            /\ json' = IF t = "web" THEN NoReading ELSE json
    /\ UNCHANGED <<sensorData, pulseVars>>

-----------------------------------------------------------------------------
(* What each task does with its mutexes held *)

(* sensorTask: a sample in range goes into the reading; one that is not    *)
(* only makes it invalid.                                                  *)
SensorFails ==
    /\ Inside("sensor")
    /\ sensorData' = [sensorData EXCEPT !.validData = FALSE]
    /\ Goto("sensor", "giving")
    /\ UNCHANGED <<holder, json, pulseVars>>

SensorWrites ==
    /\ Inside("sensor")
    /\ sensorData' = [sensorData EXCEPT !.temperature = NextSample(@)]
    /\ Goto("sensor", "half")
    /\ UNCHANGED <<holder, json, pulseVars>>

SensorFinishes ==
    /\ pc["sensor"] = "half"
    /\ sensorData' = [sensorData EXCEPT !.pressure = sensorData.temperature,
                                        !.validData = TRUE]
    /\ Goto("sensor", "giving")
    /\ UNCHANGED <<holder, json, pulseVars>>

(* windTask publishes its window. *)
WindWrites ==
    /\ Inside("wind")
    /\ sensorData' = [sensorData EXCEPT !.windSpeed = window.speedSum]
    /\ Goto("wind", "half")
    /\ UNCHANGED <<holder, json, pulseVars>>

WindFinishes ==
    /\ pc["wind"] = "half"
    /\ sensorData' = [sensorData EXCEPT !.windGust = window.peak]
    /\ window' = ResetWindow(window)
    /\ Goto("wind", "giving")
    /\ UNCHANGED <<holder, json, windPulses, isr, arrived, counted>>

(* gpsTask writes fields no other task writes, displayTask only reads.     *)
Works(t) ==
    /\ t \in {"gps", "display"}
    /\ Inside(t)
    /\ Goto(t, "giving")
    /\ UNCHANGED <<holder, sensorData, json, pulseVars>>

(* handleData: an error unless the reading is valid, else field by field.  *)
WebReads ==
    /\ Inside("web")
    /\ json' = IF sensorData.validData
               THEN [json EXCEPT !.validData = TRUE,
                                 !.temperature = sensorData.temperature,
                                 !.windSpeed = sensorData.windSpeed]
               ELSE json
    /\ Goto("web", IF sensorData.validData THEN "half" ELSE "giving")
    /\ UNCHANGED <<holder, sensorData, pulseVars>>

WebFinishes ==
    /\ pc["web"] = "half"
    /\ json' = [json EXCEPT !.pressure = sensorData.pressure,
                            !.windGust = sensorData.windGust]
    /\ Goto("web", "giving")
    /\ UNCHANGED <<holder, sensorData, pulseVars>>

-----------------------------------------------------------------------------
(* Pulses *)

(* A slip: the counter is read and cleared with interrupts enabled. *)
NeverMasked == FALSE

(* Between portDISABLE_INTERRUPTS and portENABLE_INTERRUPTS. *)
Masked == SameCore /\ pc["wind"] = "reading"

(* windPulses++ is a load and a store. *)
PulseLoads ==
    /\ arrived < MaxPulses
    /\ ~isr.running
    /\ ~Masked
    /\ isr' = [running |-> TRUE, value |-> windPulses]
    /\ arrived' = arrived + 1
    /\ UNCHANGED <<lockVars, sensorData, json, windPulses, window, counted>>

PulseStores ==
    /\ isr.running
    /\ windPulses' = isr.value + 1
    /\ isr' = [running |-> FALSE, value |-> 0]
    /\ UNCHANGED <<lockVars, sensorData, json, window, arrived, counted>>

(* On its own core the interrupt routine runs to its end before any task.  *)
MayRun == SameCore => ~isr.running

ReadPulses ==
    /\ pc["wind"] = "idle"
    /\ MayRun
    /\ window' = [window EXCEPT !.pulses = windPulses]
    /\ Goto("wind", "reading")
    /\ UNCHANGED <<holder, sensorData, json, windPulses, isr, arrived, counted>>

Greater(a, b) == IF a > b THEN a ELSE b

(* The counter is cleared and the subsample added to the window, which is  *)
(* published when it is full.                                              *)
ClearPulses ==
    /\ pc["wind"] = "reading"
    /\ MayRun
    /\ windPulses' = 0
    /\ counted' = counted + window.pulses
    /\ window' = [pulses |-> 0, speedSum |-> window.speedSum + window.pulses,
                  peak |-> Greater(window.peak, window.pulses),
                  subsamples |-> window.subsamples + 1]
    /\ Goto("wind", IF window'.subsamples >= Subsamples THEN "taking" ELSE "idle")
    /\ UNCHANGED <<holder, sensorData, json, isr, arrived>>

-----------------------------------------------------------------------------
Sensor == SensorFails \/ SensorWrites \/ SensorFinishes
Wind   == ReadPulses \/ ClearPulses \/ WindWrites \/ WindFinishes
Web    == WebReads \/ WebFinishes
Pulse  == PulseLoads \/ PulseStores

Next ==
    \/ \E t \in Tasks : Begin(t) \/ Take(t) \/ TimeOut(t)
                        \/ Give(t) \/ Works(t)
    \/ Sensor
    \/ Wind
    \/ Web
    \/ Pulse

Spec == Init /\ [][Next]_vars

(* The scheduler runs every task that is not blocked.  Nothing is asked of *)
(* timeouts: no property below leans on one to break a wait.               *)
Fairness ==
    /\ \A t \in Tasks : WF_vars(Take(t) \/ Works(t) \/ Give(t))
    /\ WF_vars(Sensor)
    /\ WF_vars(WindWrites \/ WindFinishes)
    /\ WF_vars(Web)

FairSpec == Spec /\ Fairness

-----------------------------------------------------------------------------
(* Properties *)

(* outdoor.ino:226: a reading that is sent is of one BME280 sample, taken, *)
(* and its gust is the peak of a subsample of the window of its mean: it   *)
(* is no more than the window's sum, and no less than its average.         *)
NoTornReading ==
    pc["web"] = "giving" /\ json.validData =>
        /\ json.temperature = json.pressure /\ json.pressure # 0
        /\ json.windGust <= json.windSpeed
        /\ json.windSpeed <= Subsamples * json.windGust

(* outdoor.ino:277, "always acquire mutexes in the same order": the inner  *)
(* mutexes are only ever held by the holder of dataMutex, so no task waits *)
(* for one while it keeps all the others out.                              *)
InnerMutexesAreFree ==
    \A t \in Tasks : pc[t] = "taking" /\ holder["data"] = t =>
        \A m \in {"i2c", "offset"} : holder[m] \in {t, Nobody}

(* outdoor.ino:277, "to prevent deadlocks": whoever holds dataMutex gives  *)
(* it back without the help of a timeout.                                  *)
DataMutexIsGivenBack ==
    \A t \in Tasks : holder["data"] = t ~> holder["data"] # t

(* outdoor.ino:138, "atomically read-and-clear the pulse count": every     *)
(* pulse ends up in exactly one subsample.                                 *)
EveryPulseCountsOnce ==
    pc["wind"] # "reading" /\ ~isr.running => counted + windPulses = arrived
=============================================================================
