------------------------ MODULE OutdoorFirmwareProofs ------------------------
(***************************************************************************)
(* Proofs about the outdoor unit, for any number of subsamples and of      *)
(* pulses.  Who holds what follows from the order in which mutexes are     *)
(* taken; that nobody else is at the reading follows from that; and that   *)
(* no pulse is lost from the interrupt being masked on its own core.       *)
(***************************************************************************)
EXTENDS OutdoorFirmware, FiniteSetTheorems, TLAPS

(* The mutexes a task holds are a beginning of its order; it works with    *)
(* all of them and holds none between its rounds.                          *)
LockInv ==
    /\ holder \in [Mutexes -> Tasks \cup {Nobody}]
    /\ pc \in [Tasks -> {"idle", "taking", "half", "giving", "reading"}]
    /\ holder["offset"] # Nobody => holder["offset"] = "sensor" /\ holder["i2c"] = "sensor"
    /\ holder["i2c"] # Nobody =>
           holder["i2c"] \in {"sensor", "display"} /\ holder["data"] = holder["i2c"]
    /\ \A t \in Tasks :
           /\ pc[t] \in {"idle", "reading"} => holder["data"] # t
           /\ pc[t] \in {"half", "giving"} => holder["data"] = t

(* HasAll, NextMutex and LastMutex, said without counting. *)
HoldsAll(t) ==
    /\ holder["data"] = t
    /\ t \in {"sensor", "display"} => holder["i2c"] = t
    /\ t = "sensor" => holder["offset"] = t

Next3(t) == IF holder["data"] # t THEN "data" ELSE IF holder["i2c"] # t THEN "i2c" ELSE "offset"

Last3(t) == IF holder["offset"] = t THEN "offset" ELSE IF holder["i2c"] = t THEN "i2c" ELSE "data"

USE CoreAssumption, WindowAssumption, NobodyAssumption

-----------------------------------------------------------------------------
(* What the cardinalities and orders of the model come to. *)

LEMMA HeldCount ==
    ASSUME LockInv, NEW t \in Tasks
    PROVE  /\ holder["data"] # t => Held(t) = {} /\ Cardinality(Held(t)) = 0
           /\ holder["data"] = t /\ holder["i2c"] # t => Cardinality(Held(t)) = 1
           /\ holder["i2c"] = t /\ holder["offset"] # t => Cardinality(Held(t)) = 2
           /\ holder["offset"] = t => Cardinality(Held(t)) = 3
           /\ holder["data"] = t => Held(t) # {}
<1>1. t # Nobody
  OBVIOUS
<1>2. Cardinality({}) = 0 /\ IsFiniteSet({})
  BY FS_EmptySet
<1>3. Cardinality({"data"}) = 1 /\ IsFiniteSet({"data"})
  BY FS_Singleton
<1>4. Cardinality({"data", "i2c"}) = 2 /\ IsFiniteSet({"data", "i2c"})
  <2>1. {"data", "i2c"} = {"data"} \cup {"i2c"} /\ "i2c" \notin {"data"}
    OBVIOUS
  <2> QED
    BY <1>3, <2>1, FS_AddElement
<1>5. Cardinality({"data", "i2c", "offset"}) = 3
  <2>1. {"data", "i2c", "offset"} = {"data", "i2c"} \cup {"offset"} /\ "offset" \notin {"data", "i2c"}
    OBVIOUS
  <2> QED
    BY <1>4, <2>1, FS_AddElement
<1>6. CASE holder["data"] # t
  <2>1. holder["i2c"] # t /\ holder["offset"] # t
    BY <1>1, <1>6 DEF LockInv
  <2>2. Held(t) = {}
    BY <1>6, <2>1 DEF Held, Mutexes
  <2> QED
    BY <1>2, <1>6, <2>1, <2>2
<1>7. CASE holder["data"] = t /\ holder["i2c"] # t
  <2>1. holder["offset"] # t
    BY <1>1, <1>7 DEF LockInv
  <2>2. Held(t) = {"data"}
    BY <1>7, <2>1 DEF Held, Mutexes
  <2> QED
    BY <1>3, <1>7, <2>1, <2>2
<1>8. CASE holder["data"] = t /\ holder["i2c"] = t /\ holder["offset"] # t
  <2>1. Held(t) = {"data", "i2c"}
    BY <1>8 DEF Held, Mutexes
  <2> QED
    BY <1>4, <1>8, <2>1
<1>9. CASE holder["data"] = t /\ holder["i2c"] = t /\ holder["offset"] = t
  <2>1. Held(t) = {"data", "i2c", "offset"}
    BY <1>9 DEF Held, Mutexes
  <2> QED
    BY <1>5, <1>9, <2>1
<1> QED
  BY <1>6, <1>7, <1>8, <1>9

LEMMA Orders ==
    ASSUME NEW t \in Tasks
    PROVE  /\ t = "sensor"  => Order(t) = << "data", "i2c", "offset" >>
           /\ t = "display" => Order(t) = << "data", "i2c" >>
           /\ t \notin {"sensor", "display"} => Order(t) = << "data" >>
  BY DEF Order

LEMMA HasAllMeans ==
    ASSUME LockInv, NEW t \in Tasks
    PROVE  HasAll(t) <=> HoldsAll(t)
<1>1. /\ holder["offset"] = t => t = "sensor"
      /\ holder["i2c"] = t => t \in {"sensor", "display"} /\ holder["data"] = t
      /\ holder["offset"] = t => holder["i2c"] = t
  BY DEF LockInv
<1>2. Len(Order(t)) = IF t = "sensor" THEN 3 ELSE IF t = "display" THEN 2 ELSE 1
  BY Orders
<1>3. Cardinality(Held(t)) = IF holder["offset"] = t THEN 3
                             ELSE IF holder["i2c"] = t THEN 2
                             ELSE IF holder["data"] = t THEN 1 ELSE 0
  BY <1>1, HeldCount
<1>4. HasAll(t) => HoldsAll(t)
  BY <1>1, <1>2, <1>3 DEF HasAll, HoldsAll
<1>5. HoldsAll(t) => HasAll(t)
  BY <1>1, <1>2, <1>3 DEF HasAll, HoldsAll
<1> QED
  BY <1>4, <1>5

LEMMA NextMutexMeans ==
    ASSUME LockInv, NEW t \in Tasks, ~HasAll(t)
    PROVE  /\ NextMutex(t) = Next3(t)
           /\ NextMutex(t) = "i2c" => t \in {"sensor", "display"} /\ holder["data"] = t
           /\ NextMutex(t) = "offset" => t = "sensor" /\ holder["i2c"] = t
<1>1. /\ holder["offset"] = t => t = "sensor"
      /\ holder["i2c"] = t => t \in {"sensor", "display"} /\ holder["data"] = t
      /\ holder["offset"] = t => holder["i2c"] = t
  BY DEF LockInv
<1>2. ~HoldsAll(t)
  BY HasAllMeans
<1>3. CASE holder["data"] # t
  <2>1. Cardinality(Held(t)) = 0
    BY <1>3, HeldCount
  <2>2. Order(t)[1] = "data"
    BY Orders
  <2> QED
    BY <1>3, <2>1, <2>2 DEF NextMutex, Next3
<1>4. CASE holder["data"] = t /\ holder["i2c"] # t
  <2>1. Cardinality(Held(t)) = 1
    BY <1>4, HeldCount
  <2>2. t \in {"sensor", "display"}
    BY <1>2, <1>4 DEF HoldsAll
  <2>3. Order(t)[2] = "i2c"
    BY <2>2, Orders
  <2> QED
    BY <1>4, <2>1, <2>2, <2>3 DEF NextMutex, Next3
<1>5. CASE holder["data"] = t /\ holder["i2c"] = t
  <2>1. t = "sensor" /\ holder["offset"] # t
    BY <1>1, <1>2, <1>5 DEF HoldsAll
  <2>2. Cardinality(Held(t)) = 2
    BY <1>5, <2>1, HeldCount
  <2>3. Order(t)[3] = "offset"
    BY <2>1, Orders
  <2> QED
    BY <1>5, <2>1, <2>2, <2>3 DEF NextMutex, Next3
<1> QED
  BY <1>3, <1>4, <1>5

LEMMA LastMutexMeans ==
    ASSUME LockInv, NEW t \in Tasks, holder["data"] = t
    PROVE  /\ LastMutex(t) = Last3(t)
           /\ Cardinality(Held(t)) > 1 <=> holder["i2c"] = t
<1>1. /\ holder["offset"] = t => t = "sensor"
      /\ holder["i2c"] = t => t \in {"sensor", "display"}
      /\ holder["offset"] = t => holder["i2c"] = t
  BY DEF LockInv
<1>2. CASE t = "sensor"
  BY <1>1, <1>2, HeldCount, Orders DEF LastMutex, Last3
<1>3. CASE t = "display"
  BY <1>1, <1>3, HeldCount, Orders DEF LastMutex, Last3
<1>4. CASE t \notin {"sensor", "display"}
  BY <1>1, <1>4, HeldCount, Orders DEF LastMutex, Last3
<1> QED
  BY <1>2, <1>3, <1>4

-----------------------------------------------------------------------------
(* Mutexes *)

LEMMA InsideHolds ==
    ASSUME LockInv, NEW t \in Tasks, Inside(t)
    PROVE  pc[t] = "taking" /\ holder["data"] = t
  BY HasAllMeans DEF Inside, HoldsAll

LEMMA WorkKeepsLocks ==
    ASSUME LockInv, NEW t \in Tasks, holder["data"] = t, holder' = holder,
           NEW s \in {"half", "giving"}, Goto(t, s)
    PROVE  LockInv'
  BY DEF LockInv, Goto

LEMMA TakeKeepsLocks ==
    ASSUME LockInv, NEW t \in Tasks, Take(t)
    PROVE  LockInv'
<1> DEFINE m == NextMutex(t)
<1>1. /\ pc[t] = "taking" /\ pc' = pc
      /\ holder[m] = Nobody /\ holder' = [holder EXCEPT ![m] = t]
      /\ m = Next3(t)
      /\ m = "i2c" => t \in {"sensor", "display"} /\ holder["data"] = t
      /\ m = "offset" => t = "sensor" /\ holder["i2c"] = t
  BY NextMutexMeans DEF Take
<1>2. m \in Mutexes
  BY <1>1 DEF Next3, Mutexes
<1> HIDE DEF m
<1>3. /\ holder' \in [Mutexes -> Tasks \cup {Nobody}]
      /\ \A n \in Mutexes : holder'[n] = IF n = m THEN t ELSE holder[n]
  BY <1>1, <1>2 DEF LockInv
<1>4. CASE m = "data"
  BY <1>1, <1>3, <1>4 DEF LockInv, Mutexes
<1>5. CASE m = "i2c"
  BY <1>1, <1>3, <1>5 DEF LockInv, Mutexes
<1>6. CASE m = "offset"
  BY <1>1, <1>3, <1>6 DEF LockInv, Mutexes
<1> QED
  BY <1>2, <1>4, <1>5, <1>6 DEF Mutexes

LEMMA TimeOutKeepsLocks ==
    ASSUME LockInv, NEW t \in Tasks, TimeOut(t)
    PROVE  LockInv'
<1>1. /\ holder' = [m \in Mutexes |-> IF holder[m] = t THEN Nobody ELSE holder[m]]
      /\ pc' = [pc EXCEPT ![t] = IF t \in {"sensor", "display"} THEN "taking" ELSE "idle"]
  BY DEF TimeOut, Goto
<1>2. /\ holder' \in [Mutexes -> Tasks \cup {Nobody}]
      /\ \A m \in {"data", "i2c", "offset"} :
           holder'[m] = IF holder[m] = t THEN Nobody ELSE holder[m]
  BY <1>1 DEF LockInv, Mutexes
<1>3. /\ pc' \in [Tasks -> {"idle", "taking", "half", "giving", "reading"}]
      /\ pc'[t] \in {"taking", "idle"}
      /\ \A u \in Tasks : u # t => pc'[u] = pc[u]
  BY <1>1 DEF LockInv
<1>4. /\ holder'["offset"] # Nobody => holder'["offset"] = "sensor" /\ holder'["i2c"] = "sensor"
      /\ holder'["i2c"] # Nobody =>
             holder'["i2c"] \in {"sensor", "display"} /\ holder'["data"] = holder'["i2c"]
  BY <1>2 DEF LockInv
<1>5. ASSUME NEW u \in Tasks
      PROVE  /\ pc'[u] \in {"idle", "reading"} => holder'["data"] # u
             /\ pc'[u] \in {"half", "giving"} => holder'["data"] = u
  <2>1. CASE u = t
    BY <1>2, <1>3, <2>1
  <2>2. CASE u # t
    BY <1>2, <1>3, <2>2 DEF LockInv
  <2> QED
    BY <2>1, <2>2
<1> QED
  BY <1>2, <1>3, <1>4, <1>5 DEF LockInv

LEMMA GiveKeepsLocks ==
    ASSUME LockInv, NEW t \in Tasks, Give(t)
    PROVE  LockInv'
<1> DEFINE m == LastMutex(t)
<1>1. pc[t] = "giving" /\ holder["data"] = t
  BY DEF Give, LockInv
<1>2. /\ m = Last3(t) /\ m \in Mutexes
      /\ holder' = [n \in Mutexes |-> IF n = m THEN Nobody ELSE holder[n]]
      /\ IF holder["i2c"] = t THEN pc' = pc ELSE pc' = [pc EXCEPT ![t] = "idle"]
  BY <1>1, LastMutexMeans DEF Give, Goto, Last3, Mutexes
<1> HIDE DEF m
<1>3. /\ holder' \in [Mutexes -> Tasks \cup {Nobody}]
      /\ \A n \in {"data", "i2c", "offset"} :
           holder'[n] = IF n = m THEN Nobody ELSE holder[n]
  BY <1>2 DEF LockInv, Mutexes
<1>4. CASE holder["i2c"] = t
  <2>1. pc' = pc /\ m \in {"i2c", "offset"} /\ (m = "i2c" => holder["offset"] # t)
    BY <1>2, <1>4 DEF Last3
  <2>2. m = "i2c" => holder["offset"] = Nobody
    BY <1>4, <2>1 DEF LockInv
  <2>3. holder'["data"] = holder["data"]
    BY <1>3, <2>1
  <2>4. /\ holder'["offset"] # Nobody => holder'["offset"] = "sensor" /\ holder'["i2c"] = "sensor"
        /\ holder'["i2c"] # Nobody =>
               holder'["i2c"] \in {"sensor", "display"} /\ holder'["data"] = holder'["i2c"]
    BY <1>3, <2>1, <2>2, <2>3 DEF LockInv
  <2> QED
    BY <1>3, <2>1, <2>3, <2>4 DEF LockInv
<1>5. CASE holder["i2c"] # t
  <2>1. holder["i2c"] = Nobody /\ holder["offset"] = Nobody
    BY <1>1, <1>5 DEF LockInv
  <2>2. m = "data" /\ pc' = [pc EXCEPT ![t] = "idle"]
    BY <1>2, <1>5, <2>1 DEF Last3
  <2>3. \A n \in {"data", "i2c", "offset"} : holder'[n] = Nobody
    BY <1>3, <2>1, <2>2
  <2>4. \A u \in Tasks : u # t => pc[u] \notin {"half", "giving"} /\ pc'[u] = pc[u]
    BY <1>1, <2>2 DEF LockInv
  <2>5. pc'[t] = "idle" /\ pc' \in [Tasks -> {"idle", "taking", "half", "giving", "reading"}]
    BY <2>2 DEF LockInv
  <2> QED
    BY <1>3, <2>3, <2>4, <2>5 DEF LockInv
<1> QED
  BY <1>4, <1>5

LEMMA LocksKept ==
    ASSUME LockInv, [Next]_vars
    PROVE  LockInv'
<1>1. ASSUME NEW t \in Tasks, Begin(t) PROVE LockInv'
  <2>1. holder' = holder /\ pc[t] = "idle" /\ pc' = [pc EXCEPT ![t] = "taking"]
    BY <1>1 DEF Begin, Goto
  <2> QED
    BY <2>1 DEF LockInv
<1>2. ASSUME NEW t \in Tasks, Take(t) PROVE LockInv'
  BY <1>2, TakeKeepsLocks
<1>3. ASSUME NEW t \in Tasks, TimeOut(t) PROVE LockInv'
  BY <1>3, TimeOutKeepsLocks
<1>4. ASSUME NEW t \in Tasks, Give(t) PROVE LockInv'
  BY <1>4, GiveKeepsLocks
<1>5. ASSUME NEW t \in Tasks, Works(t) PROVE LockInv'
  BY <1>5, InsideHolds, WorkKeepsLocks DEF Works
<1>6. CASE SensorFails \/ SensorWrites
  BY <1>6, InsideHolds, WorkKeepsLocks DEF SensorFails, SensorWrites, Tasks
<1>7. CASE SensorFinishes
  BY <1>7, WorkKeepsLocks DEF SensorFinishes, Tasks, LockInv
<1>8. CASE WindWrites
  BY <1>8, InsideHolds, WorkKeepsLocks DEF WindWrites, Tasks
<1>9. CASE WindFinishes
  BY <1>9, WorkKeepsLocks DEF WindFinishes, Tasks, LockInv
<1>10. CASE WebReads
  <2>1. holder' = holder /\ holder["data"] = "web"
    BY <1>10, InsideHolds DEF WebReads, Tasks
  <2>2. Goto("web", "half") \/ Goto("web", "giving")
    BY <1>10 DEF WebReads
  <2> QED
    BY <2>1, <2>2, WorkKeepsLocks DEF Tasks
<1>11. CASE WebFinishes
  BY <1>11, WorkKeepsLocks DEF WebFinishes, Tasks, LockInv
<1>12. CASE ReadPulses
  <2>1. holder' = holder /\ pc["wind"] = "idle" /\ pc' = [pc EXCEPT !["wind"] = "reading"]
    BY <1>12 DEF ReadPulses, Goto
  <2> QED
    BY <2>1 DEF LockInv, Tasks
<1>13. CASE ClearPulses
  <2>1. /\ holder' = holder /\ pc["wind"] = "reading"
        /\ \/ pc' = [pc EXCEPT !["wind"] = "taking"]
           \/ pc' = [pc EXCEPT !["wind"] = "idle"]
    BY <1>13 DEF ClearPulses, Goto
  <2> QED
    BY <2>1 DEF LockInv, Tasks
<1>14. CASE Pulse \/ UNCHANGED vars
  <2>1. holder' = holder /\ pc' = pc
    BY <1>14 DEF Pulse, PulseLoads, PulseStores, lockVars, vars
  <2> QED
    BY <2>1 DEF LockInv
<1> QED
  BY <1>1, <1>2, <1>3, <1>4, <1>5, <1>6, <1>7, <1>8, <1>9, <1>10, <1>11, <1>12, <1>13, <1>14
     DEF Next, Sensor, Wind, Web

THEOREM LocksAreOrdered == Spec => []LockInv
<1>1. Init => LockInv
  BY DEF Init, LockInv, Mutexes
<1>2. LockInv /\ [Next]_vars => LockInv'
  BY LocksKept
<1> QED
  BY <1>1, <1>2, PTL DEF Spec

(* Whoever waits for an inner mutex with dataMutex in hand finds it free:  *)
(* only the holder of dataMutex can have it.                               *)
THEOREM InnerMutexesStayFree == Spec => []InnerMutexesAreFree
<1>1. LockInv => InnerMutexesAreFree
  BY DEF LockInv, InnerMutexesAreFree, Mutexes
<1> QED
  BY <1>1, LocksAreOrdered, PTL

-----------------------------------------------------------------------------
(* The shared reading *)

WideReadings == [validData : BOOLEAN, temperature : Samples, pressure : Samples,
                 windSpeed : Nat, windGust : Nat]

DataTypes ==
    /\ sensorData \in WideReadings
    /\ json \in WideReadings
    /\ windPulses \in Nat
    /\ isr \in [running : BOOLEAN, value : Nat]
    /\ window \in [pulses : Nat, speedSum : Nat, peak : Nat, subsamples : Nat]
    /\ counted \in Nat

OneSample(reading) == reading.temperature = reading.pressure /\ reading.pressure # 0

OneWindow(reading) ==
    /\ reading.windGust <= reading.windSpeed
    /\ reading.windSpeed <= Subsamples * reading.windGust

(* Only between its two halves is a sample or a window torn, and then the  *)
(* task that writes it holds dataMutex.                                    *)
SampleInv ==
    /\ pc["sensor"] = "half" => sensorData.temperature # 0
    /\ pc["sensor"] # "half" /\ sensorData.validData => OneSample(sensorData)

WindowInv ==
    /\ window.peak <= window.speedSum
    /\ window.speedSum <= window.subsamples * window.peak
    /\ pc["wind"] \in {"taking", "half"} => window.subsamples = Subsamples
    /\ pc["wind"] \in {"idle", "reading", "giving"} => window.subsamples < Subsamples

PublishedInv ==
    /\ pc["wind"] = "half" => sensorData.windSpeed = window.speedSum
    /\ pc["wind"] # "half" => OneWindow(sensorData)

(* What a request has copied is what the reading still says. *)
WebInv ==
    /\ pc["web"] \in {"idle", "taking"} => ~json.validData
    /\ pc["web"] = "half" => /\ sensorData.validData
                             /\ json.temperature = sensorData.temperature
                             /\ json.windSpeed = sensorData.windSpeed
    /\ pc["web"] = "giving" /\ json.validData => OneSample(json) /\ OneWindow(json)

ReadingInv == LockInv /\ DataTypes /\ SampleInv /\ WindowInv /\ PublishedInv /\ WebInv

(* One subsample more. *)
LEMMA WindowGrows ==
    ASSUME NEW s \in Nat, NEW sum \in Nat, NEW peak \in Nat, NEW p \in Nat,
           peak <= sum, sum <= s * peak
    PROVE  /\ Greater(peak, p) \in Nat
           /\ Greater(peak, p) <= sum + p
           /\ sum + p <= (s + 1) * Greater(peak, p)
<1> DEFINE g == Greater(peak, p)
<1>1. g \in Nat /\ peak <= g /\ p <= g /\ (g = peak \/ g = p)
  BY DEF Greater
<1> HIDE DEF g
<1>2. s * peak <= s * g
  BY <1>1
<1>3. (s + 1) * g = s * g + g
  BY <1>1
<1>4. s * g \in Nat /\ s * peak \in Nat
  BY <1>1
<1> QED
  BY <1>1, <1>2, <1>3, <1>4 DEF g

(* The steps a task takes around its work. *)
Around(t) == Begin(t) \/ Take(t) \/ TimeOut(t) \/ Give(t) \/ Works(t)

LEMMA AroundFacts ==
    ASSUME LockInv, NEW t \in Tasks, Around(t)
    PROVE  /\ sensorData' = sensorData /\ windPulses' = windPulses /\ isr' = isr
           /\ arrived' = arrived /\ counted' = counted
           /\ pc' \in [Tasks -> {"idle", "taking", "half", "giving", "reading"}]
           /\ \A u \in Tasks : u # t => pc'[u] = pc[u]
           /\ pc[t] \notin {"half", "reading"} /\ pc'[t] \notin {"half", "reading"}
           /\ t # "wind" => window' = window
           /\ t = "wind" =>
                \/ pc[t] = "taking" /\ pc'[t] = "taking" /\ window' = window
                \/ pc'[t] = "idle" /\ window' = ResetWindow(window)
                \/ pc[t] = "giving" /\ pc'[t] \in {"giving", "idle"} /\ window' = window
           /\ t # "web" => json' = json
           /\ t = "web" =>
                \/ pc[t] \in {"idle", "taking"} /\ pc'[t] \in {"idle", "taking"} /\ json' = json
                \/ pc[t] = "giving" /\ pc'[t] = "giving" /\ json' = json
                \/ pc'[t] = "idle" /\ json' = NoReading
<1> USE DEF Goto, pulseVars
<1>1. CASE Begin(t)
  BY <1>1 DEF Begin, LockInv
<1>2. CASE Take(t)
  BY <1>2 DEF Take, LockInv
<1>3. CASE TimeOut(t)
  BY <1>3 DEF TimeOut, LockInv
<1>4. CASE Give(t)
  <2>1. /\ sensorData' = sensorData /\ windPulses' = windPulses /\ isr' = isr
        /\ arrived' = arrived /\ counted' = counted /\ window' = window
        /\ pc[t] = "giving"
        /\ \/ pc' = pc /\ json' = json
           \/ pc' = [pc EXCEPT ![t] = "idle"] /\ json' = IF t = "web" THEN NoReading ELSE json
    BY <1>4 DEF Give
  <2> QED
    BY <2>1 DEF LockInv
<1>5. CASE Works(t)
  BY <1>5, InsideHolds DEF Works, LockInv
<1> QED
  BY <1>1, <1>2, <1>3, <1>4, <1>5 DEF Around

LEMMA ResetFits ==
    ASSUME DataTypes, WindowInv
    PROVE  LET w == ResetWindow(window) IN
           /\ w \in [pulses : Nat, speedSum : Nat, peak : Nat, subsamples : Nat]
           /\ w.pulses = window.pulses
           /\ w.speedSum = 0 /\ w.peak = 0 /\ w.subsamples = 0
  BY DEF ResetWindow, DataTypes

LEMMA AroundKeepsReading ==
    ASSUME ReadingInv, NEW t \in Tasks, Around(t)
    PROVE  ReadingInv'
<1>1. LockInv'
  BY LocksKept DEF ReadingInv, Around, Next
<1>2. LockInv /\ {"sensor", "wind", "web"} \subseteq Tasks
  BY DEF ReadingInv, Tasks
<1>3. NoReading \in WideReadings /\ ~NoReading.validData
  BY DEF NoReading, WideReadings, Samples
<1>4. window' = window \/ window' = ResetWindow(window)
  BY <1>2, AroundFacts
<1>5. json' = json \/ json' = NoReading
  BY <1>2, AroundFacts
<1>6. DataTypes'
  BY <1>2, <1>3, <1>4, <1>5, AroundFacts, ResetFits DEF ReadingInv, DataTypes
<1>7. SampleInv'
  <2>1. sensorData' = sensorData
    BY <1>2, AroundFacts
  <2>2. pc["sensor"] = "half" <=> pc'["sensor"] = "half"
    BY <1>2, AroundFacts
  <2> QED
    BY <2>1, <2>2 DEF ReadingInv, SampleInv, OneSample
<1>8. WindowInv'
  <2>1. CASE window' = window /\ pc'["wind"] = pc["wind"]
    BY <2>1 DEF ReadingInv, WindowInv
  <2>2. CASE pc'["wind"] = "idle" /\ window' = ResetWindow(window)
    BY <2>2, ResetFits DEF ReadingInv, WindowInv
  <2>3. CASE pc["wind"] = "giving" /\ pc'["wind"] \in {"giving", "idle"} /\ window' = window
    BY <2>3 DEF ReadingInv, WindowInv
  <2> QED
    BY <1>2, <2>1, <2>2, <2>3, AroundFacts
<1>9. PublishedInv'
  <2>1. sensorData' = sensorData /\ (pc'["wind"] = "half" => window' = window)
    BY <1>2, AroundFacts
  <2>2. pc["wind"] = "half" <=> pc'["wind"] = "half"
    BY <1>2, AroundFacts
  <2> QED
    BY <2>1, <2>2 DEF ReadingInv, PublishedInv, OneWindow
<1>10. WebInv'
  <2>1. sensorData' = sensorData
    BY <1>2, AroundFacts
  <2>2. CASE json' = json /\ pc'["web"] = pc["web"]
    BY <2>1, <2>2 DEF ReadingInv, WebInv, OneSample, OneWindow
  <2>3. CASE pc["web"] \in {"idle", "taking"} /\ pc'["web"] \in {"idle", "taking"} /\ json' = json
    BY <2>3 DEF ReadingInv, WebInv
  <2>4. CASE pc'["web"] = "idle" /\ json' = NoReading
    BY <1>3, <2>4 DEF WebInv
  <2> QED
    BY <1>2, <2>2, <2>3, <2>4, AroundFacts
<1> QED
  BY <1>1, <1>6, <1>7, <1>8, <1>9, <1>10 DEF ReadingInv

(* The sensor task has dataMutex, so no request is halfway through. *)
LEMMA SensorKeepsReading ==
    ASSUME ReadingInv, Sensor
    PROVE  ReadingInv'
<1>1. LockInv'
  BY LocksKept DEF ReadingInv, Next
<1>2. LockInv /\ DataTypes /\ {"sensor", "wind", "web"} \subseteq Tasks
  BY DEF ReadingInv, Tasks
<1>3. holder["data"] = "sensor"
  BY <1>2, InsideHolds DEF Sensor, SensorFails, SensorWrites, SensorFinishes, LockInv
<1>4. pc["web"] # "half" /\ pc["web"] # "giving" /\ pc["wind"] # "half"
  BY <1>2, <1>3 DEF LockInv
<1>5. /\ json' = json /\ window' = window /\ windPulses' = windPulses /\ isr' = isr
      /\ counted' = counted
      /\ \/ pc' = [pc EXCEPT !["sensor"] = "half"]
         \/ pc' = [pc EXCEPT !["sensor"] = "giving"]
  BY DEF Sensor, SensorFails, SensorWrites, SensorFinishes, pulseVars, Goto
<1>6. pc'["web"] = pc["web"] /\ pc'["wind"] = pc["wind"] /\ pc'["sensor"] \in {"half", "giving"}
  BY <1>2, <1>5 DEF LockInv
<1>7. NextSample(sensorData.temperature) \in {1, 2}
  BY DEF NextSample
<1>8. \/ /\ SensorFails
         /\ sensorData' = [sensorData EXCEPT !.validData = FALSE]
         /\ pc["sensor"] = "taking" /\ pc'["sensor"] = "giving"
      \/ /\ sensorData' = [sensorData EXCEPT !.temperature = NextSample(sensorData.temperature)]
         /\ pc'["sensor"] = "half"
      \/ /\ sensorData' = [sensorData EXCEPT !.pressure = sensorData.temperature,
                                             !.validData = TRUE]
         /\ pc["sensor"] = "half" /\ pc'["sensor"] = "giving"
  BY <1>2 DEF Sensor, SensorFails, SensorWrites, SensorFinishes, Goto, Inside, DataTypes,
              WideReadings, LockInv
<1>9. sensorData' \in WideReadings
  <2>1. CASE sensorData' = [sensorData EXCEPT !.validData = FALSE]
    BY <1>2, <2>1 DEF DataTypes, WideReadings
  <2>2. CASE sensorData' = [sensorData EXCEPT !.temperature = NextSample(sensorData.temperature)]
    BY <1>2, <1>7, <2>2 DEF DataTypes, WideReadings, Samples
  <2>3. CASE sensorData' = [sensorData EXCEPT !.pressure = sensorData.temperature,
                                              !.validData = TRUE]
    BY <1>2, <2>3 DEF DataTypes, WideReadings
  <2> QED
    BY <1>8, <2>1, <2>2, <2>3
<1>10. DataTypes'
  BY <1>2, <1>5, <1>9 DEF DataTypes
<1>11. SampleInv'
  <2>1. CASE sensorData' = [sensorData EXCEPT !.validData = FALSE] /\ pc'["sensor"] = "giving"
    BY <1>2, <2>1 DEF SampleInv, DataTypes, WideReadings
  <2>2. CASE /\ sensorData' = [sensorData EXCEPT !.temperature = NextSample(sensorData.temperature)]
             /\ pc'["sensor"] = "half"
    BY <1>2, <1>7, <2>2 DEF SampleInv, DataTypes, WideReadings
  <2>3. CASE /\ sensorData' = [sensorData EXCEPT !.pressure = sensorData.temperature,
                                                 !.validData = TRUE]
             /\ pc["sensor"] = "half" /\ pc'["sensor"] = "giving"
    BY <1>2, <2>3 DEF ReadingInv, SampleInv, OneSample, DataTypes, WideReadings
  <2> QED
    BY <1>8, <2>1, <2>2, <2>3
<1>12. sensorData'.windSpeed = sensorData.windSpeed /\ sensorData'.windGust = sensorData.windGust
  BY <1>2, <1>8 DEF DataTypes, WideReadings
<1>13. WindowInv' /\ PublishedInv'
  BY <1>4, <1>5, <1>6, <1>12 DEF ReadingInv, WindowInv, PublishedInv, OneWindow
<1>14. WebInv'
  BY <1>4, <1>5, <1>6 DEF ReadingInv, WebInv
<1> QED
  BY <1>1, <1>10, <1>11, <1>13, <1>14 DEF ReadingInv

LEMMA PublishingKeepsReading ==
    ASSUME ReadingInv, WindWrites \/ WindFinishes
    PROVE  ReadingInv'
<1>1. LockInv'
  BY LocksKept DEF ReadingInv, Next, Wind
<1>2. LockInv /\ DataTypes /\ {"sensor", "wind", "web"} \subseteq Tasks
  BY DEF ReadingInv, Tasks
<1>3. holder["data"] = "wind"
  BY <1>2, InsideHolds DEF WindWrites, WindFinishes, LockInv
<1>4. pc["web"] # "half" /\ pc["web"] # "giving" /\ pc["sensor"] # "half"
  BY <1>2, <1>3 DEF LockInv
<1>5. CASE WindWrites
  <2>1. /\ sensorData' = [sensorData EXCEPT !.windSpeed = window.speedSum]
        /\ json' = json /\ window' = window /\ windPulses' = windPulses /\ isr' = isr
        /\ counted' = counted /\ pc["wind"] = "taking"
        /\ pc' = [pc EXCEPT !["wind"] = "half"]
    BY <1>5 DEF WindWrites, pulseVars, Goto, Inside
  <2>2. pc'["web"] = pc["web"] /\ pc'["sensor"] = pc["sensor"] /\ pc'["wind"] = "half"
    BY <1>2, <2>1 DEF LockInv
  <2>3. DataTypes'
    BY <1>2, <2>1 DEF DataTypes, WideReadings
  <2>4. SampleInv'
    BY <1>2, <2>1, <2>2 DEF ReadingInv, SampleInv, OneSample, DataTypes, WideReadings
  <2>5. WindowInv'
    BY <2>1, <2>2 DEF ReadingInv, WindowInv
  <2>6. PublishedInv'
    BY <1>2, <2>1, <2>2 DEF PublishedInv, DataTypes, WideReadings
  <2>7. WebInv'
    BY <1>4, <2>1, <2>2 DEF ReadingInv, WebInv
  <2> QED
    BY <1>1, <2>3, <2>4, <2>5, <2>6, <2>7 DEF ReadingInv
<1>6. CASE WindFinishes
  <2>1. /\ sensorData' = [sensorData EXCEPT !.windGust = window.peak]
        /\ json' = json /\ window' = ResetWindow(window) /\ windPulses' = windPulses
        /\ isr' = isr /\ counted' = counted /\ pc["wind"] = "half"
        /\ pc' = [pc EXCEPT !["wind"] = "giving"]
    BY <1>6 DEF WindFinishes, Goto
  <2>2. pc'["web"] = pc["web"] /\ pc'["sensor"] = pc["sensor"] /\ pc'["wind"] = "giving"
    BY <1>2, <2>1 DEF LockInv
  <2>3. DataTypes'
    BY <1>2, <2>1, ResetFits DEF ReadingInv, DataTypes, WideReadings
  <2>4. SampleInv'
    BY <1>2, <2>1, <2>2 DEF ReadingInv, SampleInv, OneSample, DataTypes, WideReadings
  <2>5. WindowInv'
    BY <2>1, <2>2, ResetFits DEF ReadingInv, WindowInv
  <2>6. PublishedInv'
    <3>1. /\ sensorData'.windSpeed = window.speedSum
          /\ sensorData'.windGust = window.peak
      BY <1>2, <2>1 DEF ReadingInv, PublishedInv, DataTypes, WideReadings
    <3>2. /\ window.peak <= window.speedSum
          /\ window.speedSum <= Subsamples * window.peak
      BY <2>1 DEF ReadingInv, WindowInv
    <3> QED
      BY <2>2, <3>1, <3>2 DEF PublishedInv, OneWindow
  <2>7. WebInv'
    BY <1>4, <2>1, <2>2 DEF ReadingInv, WebInv
  <2> QED
    BY <1>1, <2>3, <2>4, <2>5, <2>6, <2>7 DEF ReadingInv
<1> QED
  BY <1>5, <1>6

LEMMA WebKeepsReading ==
    ASSUME ReadingInv, Web
    PROVE  ReadingInv'
<1>1. LockInv'
  BY LocksKept DEF ReadingInv, Next
<1>2. LockInv /\ DataTypes /\ {"sensor", "wind", "web"} \subseteq Tasks
  BY DEF ReadingInv, Tasks
<1>3. holder["data"] = "web"
  BY <1>2, InsideHolds DEF Web, WebReads, WebFinishes, LockInv
<1>4. pc["sensor"] # "half" /\ pc["wind"] # "half"
  BY <1>2, <1>3 DEF LockInv
<1>5. /\ sensorData' = sensorData /\ window' = window /\ windPulses' = windPulses
      /\ isr' = isr /\ counted' = counted
      /\ \/ pc' = [pc EXCEPT !["web"] = "half"]
         \/ pc' = [pc EXCEPT !["web"] = "giving"]
  BY DEF Web, WebReads, WebFinishes, pulseVars, Goto
<1>6. pc'["sensor"] = pc["sensor"] /\ pc'["wind"] = pc["wind"]
  BY <1>2, <1>5 DEF LockInv
<1>7. SampleInv' /\ WindowInv' /\ PublishedInv'
  BY <1>5, <1>6 DEF ReadingInv, SampleInv, OneSample, WindowInv, PublishedInv, OneWindow
<1>8. sensorData \in WideReadings /\ json \in WideReadings
  BY <1>2 DEF DataTypes
<1>9. CASE WebReads /\ sensorData.validData
  <2>1. /\ json' = [json EXCEPT !.validData = TRUE,
                                !.temperature = sensorData.temperature,
                                !.windSpeed = sensorData.windSpeed]
        /\ pc' = [pc EXCEPT !["web"] = "half"]
    BY <1>9 DEF WebReads, Goto
  <2>2. pc'["web"] = "half"
    BY <1>2, <2>1 DEF LockInv
  <2>3. DataTypes'
    BY <1>2, <1>5, <1>8, <2>1 DEF DataTypes, WideReadings
  <2>4. WebInv'
    BY <1>5, <1>8, <1>9, <2>1, <2>2 DEF WebInv, WideReadings
  <2> QED
    BY <1>1, <1>7, <2>3, <2>4 DEF ReadingInv
<1>10. CASE WebReads /\ ~sensorData.validData
  <2>1. /\ json' = json /\ pc["web"] = "taking"
        /\ pc' = [pc EXCEPT !["web"] = "giving"]
    BY <1>10 DEF WebReads, Goto, Inside
  <2>2. pc'["web"] = "giving"
    BY <1>2, <2>1 DEF LockInv
  <2>3. DataTypes'
    BY <1>2, <1>5, <2>1 DEF DataTypes
  <2>4. WebInv'
    BY <2>1, <2>2 DEF ReadingInv, WebInv
  <2> QED
    BY <1>1, <1>7, <2>3, <2>4 DEF ReadingInv
<1>11. CASE WebFinishes
  <2>1. /\ json' = [json EXCEPT !.pressure = sensorData.pressure,
                                !.windGust = sensorData.windGust]
        /\ pc["web"] = "half" /\ pc' = [pc EXCEPT !["web"] = "giving"]
    BY <1>11 DEF WebFinishes, Goto
  <2>2. pc'["web"] = "giving"
    BY <1>2, <2>1 DEF LockInv
  <2>3. DataTypes'
    BY <1>2, <1>5, <1>8, <2>1 DEF DataTypes, WideReadings
  <2>4. /\ sensorData.validData /\ json.temperature = sensorData.temperature
        /\ json.windSpeed = sensorData.windSpeed
    BY <2>1 DEF ReadingInv, WebInv
  <2>5. OneSample(sensorData) /\ OneWindow(sensorData)
    BY <1>4, <2>4 DEF ReadingInv, SampleInv, PublishedInv
  <2>6. /\ json'.temperature = sensorData.temperature /\ json'.pressure = sensorData.pressure
        /\ json'.windSpeed = sensorData.windSpeed /\ json'.windGust = sensorData.windGust
    BY <1>8, <2>1, <2>4 DEF WideReadings
  <2>7. OneSample(json') /\ OneWindow(json')
    BY <2>5, <2>6 DEF OneSample, OneWindow
  <2>8. WebInv'
    BY <2>2, <2>7 DEF WebInv, OneSample, OneWindow
  <2> QED
    BY <1>1, <1>7, <2>3, <2>8 DEF ReadingInv
<1> QED
  BY <1>9, <1>10, <1>11 DEF Web

LEMMA CountingKeepsReading ==
    ASSUME ReadingInv, ReadPulses \/ ClearPulses \/ Pulse
    PROVE  ReadingInv'
<1>1. LockInv'
  BY LocksKept DEF ReadingInv, Next, Wind
<1>2. LockInv /\ DataTypes /\ {"sensor", "wind", "web"} \subseteq Tasks
  BY DEF ReadingInv, Tasks
<1>3. sensorData' = sensorData /\ json' = json
  BY DEF ReadPulses, ClearPulses, Pulse, PulseLoads, PulseStores
<1>4. \/ pc' = pc
      \/ pc["wind"] = "idle" /\ pc' = [pc EXCEPT !["wind"] = "reading"]
      \/ pc["wind"] = "reading" /\ pc' = [pc EXCEPT !["wind"] = "taking"]
      \/ pc["wind"] = "reading" /\ pc' = [pc EXCEPT !["wind"] = "idle"]
  BY DEF ReadPulses, ClearPulses, Pulse, PulseLoads, PulseStores, lockVars, Goto
<1>5. /\ pc'["sensor"] = pc["sensor"] /\ pc'["web"] = pc["web"]
      /\ pc'["wind"] = "half" <=> pc["wind"] = "half"
  BY <1>2, <1>4 DEF LockInv
<1>6. SampleInv' /\ WebInv'
  BY <1>3, <1>5 DEF ReadingInv, SampleInv, OneSample, WebInv, OneWindow
<1>7. CASE ReadPulses
  <2>1. /\ window' = [window EXCEPT !.pulses = windPulses]
        /\ windPulses' = windPulses /\ isr' = isr /\ counted' = counted
        /\ pc["wind"] = "idle" /\ pc' = [pc EXCEPT !["wind"] = "reading"]
    BY <1>7 DEF ReadPulses, Goto
  <2>2. pc'["wind"] = "reading"
    BY <1>2, <2>1 DEF LockInv
  <2>3. /\ window'.speedSum = window.speedSum /\ window'.peak = window.peak
        /\ window'.subsamples = window.subsamples
    BY <1>2, <2>1 DEF DataTypes
  <2>4. DataTypes'
    BY <1>2, <1>3, <2>1 DEF DataTypes
  <2>5. WindowInv' /\ PublishedInv'
    BY <1>3, <2>1, <2>2, <2>3 DEF ReadingInv, WindowInv, PublishedInv, OneWindow
  <2> QED
    BY <1>1, <1>6, <2>4, <2>5 DEF ReadingInv
<1>8. CASE ClearPulses
  <2> DEFINE g == Greater(window.peak, window.pulses)
  <2>1. /\ window' = [pulses |-> 0, speedSum |-> window.speedSum + window.pulses,
                      peak |-> g, subsamples |-> window.subsamples + 1]
        /\ windPulses' = 0 /\ isr' = isr /\ counted' = counted + window.pulses
        /\ pc["wind"] = "reading"
        /\ pc' = [pc EXCEPT !["wind"] = IF window.subsamples + 1 >= Subsamples
                                        THEN "taking" ELSE "idle"]
    BY <1>8 DEF ClearPulses, Goto
  <2>2. /\ window.pulses \in Nat /\ window.speedSum \in Nat /\ window.peak \in Nat
        /\ window.subsamples \in Nat /\ counted \in Nat
    BY <1>2 DEF DataTypes
  <2>3. /\ window.peak <= window.speedSum
        /\ window.speedSum <= window.subsamples * window.peak
        /\ window.subsamples < Subsamples
    BY <2>1 DEF ReadingInv, WindowInv
  <2>4. /\ g \in Nat /\ g <= window.speedSum + window.pulses
        /\ window.speedSum + window.pulses <= (window.subsamples + 1) * g
    BY <2>2, <2>3, WindowGrows
  <2> HIDE DEF g
  <2>5. DataTypes'
    BY <1>2, <1>3, <2>1, <2>2, <2>4 DEF DataTypes
  <2>6. \/ pc'["wind"] = "taking" /\ window.subsamples + 1 >= Subsamples
        \/ pc'["wind"] = "idle" /\ ~(window.subsamples + 1 >= Subsamples)
    BY <1>2, <2>1 DEF LockInv
  <2>7. WindowInv'
    BY <2>1, <2>2, <2>3, <2>4, <2>6 DEF WindowInv
  <2>8. PublishedInv'
    BY <1>3, <2>1, <2>6 DEF ReadingInv, PublishedInv, OneWindow
  <2> QED
    BY <1>1, <1>6, <2>5, <2>7, <2>8 DEF ReadingInv
<1>9. CASE Pulse
  <2>1. window' = window /\ counted' = counted /\ pc' = pc
    BY <1>9 DEF Pulse, PulseLoads, PulseStores, lockVars
  <2>2. windPulses' \in Nat /\ isr' \in [running : BOOLEAN, value : Nat]
    <3>1. windPulses \in Nat /\ isr.value \in Nat
      BY <1>2 DEF DataTypes
    <3>2. CASE PulseLoads
      BY <3>1, <3>2 DEF PulseLoads
    <3>3. CASE PulseStores
      BY <3>1, <3>3 DEF PulseStores
    <3> QED
      BY <1>9, <3>2, <3>3 DEF Pulse
  <2>3. DataTypes'
    BY <1>2, <1>3, <2>1, <2>2 DEF DataTypes
  <2>4. WindowInv' /\ PublishedInv'
    BY <1>3, <2>1 DEF ReadingInv, WindowInv, PublishedInv, OneWindow
  <2> QED
    BY <1>1, <1>6, <2>3, <2>4 DEF ReadingInv
<1> QED
  BY <1>7, <1>8, <1>9

LEMMA ReadingKept ==
    ASSUME ReadingInv, [Next]_vars
    PROVE  ReadingInv'
<1>1. ASSUME NEW t \in Tasks, Around(t) PROVE ReadingInv'
  BY <1>1, AroundKeepsReading
<1>2. CASE Sensor
  BY <1>2, SensorKeepsReading
<1>3. CASE WindWrites \/ WindFinishes
  BY <1>3, PublishingKeepsReading
<1>4. CASE Web
  BY <1>4, WebKeepsReading
<1>5. CASE ReadPulses \/ ClearPulses \/ Pulse
  BY <1>5, CountingKeepsReading
<1>6. CASE UNCHANGED vars
  <2>1. LockInv'
    BY LocksKept DEF ReadingInv
  <2>2. DataTypes' /\ SampleInv' /\ WindowInv'
    BY <1>6 DEF ReadingInv, DataTypes, SampleInv, OneSample, WindowInv, vars, lockVars, pulseVars
  <2>3. PublishedInv' /\ WebInv'
    BY <1>6 DEF ReadingInv, PublishedInv, WebInv, OneSample, OneWindow, vars, lockVars, pulseVars
  <2> QED
    BY <2>1, <2>2, <2>3 DEF ReadingInv
<1> QED
  BY <1>1, <1>2, <1>3, <1>4, <1>5, <1>6 DEF Next, Around, Wind

THEOREM ReadingIsWhole == Spec => []ReadingInv
<1>1. Init => ReadingInv
  <2> SUFFICES ASSUME Init PROVE ReadingInv
    OBVIOUS
  <2>1. LockInv
    BY DEF Init, LockInv, Mutexes
  <2>2. DataTypes
    BY DEF Init, DataTypes, WideReadings, NoReading, NoWindow, Samples
  <2>3. SampleInv /\ WindowInv /\ PublishedInv /\ WebInv
    BY DEF Init, SampleInv, WindowInv, PublishedInv, WebInv, OneSample, OneWindow,
           NoReading, NoWindow, Tasks
  <2> QED
    BY <2>1, <2>2, <2>3 DEF ReadingInv
<1>2. ReadingInv /\ [Next]_vars => ReadingInv'
  BY ReadingKept
<1> QED
  BY <1>1, <1>2, PTL DEF Spec

(* A reading that is sent is of one sample and of one window. *)
THEOREM ReadingsAreNotTorn == Spec => []NoTornReading
<1>1. ReadingInv => NoTornReading
  BY DEF ReadingInv, WebInv, OneSample, OneWindow, NoTornReading
<1> QED
  BY <1>1, ReadingIsWhole, PTL

-----------------------------------------------------------------------------
(* Pulses, when the interrupt is taken on the core that masks it *)

(* The interrupt routine is never in the middle of the read and clear; a   *)
(* pulse is in the counter, in the routine or in a window.                 *)
PulseInv ==
    /\ arrived \in 0 .. MaxPulses
    /\ isr.running => isr.value = windPulses
    /\ ~isr.running => isr.value = 0
    /\ pc["wind"] = "reading" => ~isr.running /\ window.pulses = windPulses
    /\ pc["wind"] # "reading" => window.pulses = 0
    /\ counted + windPulses + (IF isr.running THEN 1 ELSE 0) = arrived
    /\ window.speedSum <= counted
    /\ sensorData.windSpeed <= MaxPulses /\ sensorData.windGust <= MaxPulses
    /\ json.windSpeed <= MaxPulses /\ json.windGust <= MaxPulses

LEMMA PulseKept ==
    ASSUME SameCore, ReadingInv, PulseInv, [Next]_vars
    PROVE  PulseInv'
<1>1. LockInv /\ DataTypes /\ {"sensor", "wind", "web"} \subseteq Tasks
  BY DEF ReadingInv, Tasks
<1>2. /\ windPulses \in Nat /\ isr.value \in Nat /\ counted \in Nat /\ arrived \in Nat
      /\ window.speedSum \in Nat /\ window.pulses \in Nat /\ window.peak \in Nat
      /\ MaxPulses \in Nat /\ arrived <= MaxPulses
  BY <1>1 DEF DataTypes, PulseInv
<1>3. window.speedSum <= MaxPulses /\ window.peak <= MaxPulses
  BY <1>2 DEF ReadingInv, WindowInv, PulseInv
<1>4. ASSUME sensorData' = sensorData, json' = json \/ json' = NoReading
      PROVE  /\ sensorData'.windSpeed <= MaxPulses /\ sensorData'.windGust <= MaxPulses
             /\ json'.windSpeed <= MaxPulses /\ json'.windGust <= MaxPulses
  BY <1>2, <1>4 DEF PulseInv, NoReading
<1>5. ASSUME NEW t \in Tasks, Around(t)
      PROVE  PulseInv'
  <2>1. /\ windPulses' = windPulses /\ isr' = isr /\ arrived' = arrived /\ counted' = counted
        /\ sensorData' = sensorData
    BY <1>1, <1>5, AroundFacts
  <2>2. json' = json \/ json' = NoReading
    BY <1>1, <1>5, AroundFacts
  <2>3. pc["wind"] = "reading" <=> pc'["wind"] = "reading"
    BY <1>1, <1>5, AroundFacts
  <2>4. window' = window \/ window' = ResetWindow(window)
    BY <1>1, <1>5, AroundFacts
  <2>5. window'.pulses = window.pulses /\ window'.speedSum <= counted
    BY <1>1, <1>2, <2>4, ResetFits DEF ReadingInv, PulseInv
  <2> QED
    BY <1>4, <2>1, <2>2, <2>3, <2>5 DEF PulseInv
<1>6. CASE Sensor
  <2>1. /\ windPulses' = windPulses /\ isr' = isr /\ arrived' = arrived /\ counted' = counted
        /\ window' = window /\ json' = json
        /\ \/ pc' = [pc EXCEPT !["sensor"] = "half"]
           \/ pc' = [pc EXCEPT !["sensor"] = "giving"]
    BY <1>6 DEF Sensor, SensorFails, SensorWrites, SensorFinishes, pulseVars, Goto
  <2>2. sensorData'.windSpeed = sensorData.windSpeed /\ sensorData'.windGust = sensorData.windGust
    BY <1>1, <1>6 DEF Sensor, SensorFails, SensorWrites, SensorFinishes, DataTypes, WideReadings
  <2>3. pc'["wind"] = pc["wind"]
    BY <1>1, <2>1 DEF LockInv
  <2> QED
    BY <2>1, <2>2, <2>3 DEF PulseInv
<1>7. CASE Web
  <2>1. /\ windPulses' = windPulses /\ isr' = isr /\ arrived' = arrived /\ counted' = counted
        /\ window' = window /\ sensorData' = sensorData
        /\ \/ pc' = [pc EXCEPT !["web"] = "half"]
           \/ pc' = [pc EXCEPT !["web"] = "giving"]
    BY <1>7 DEF Web, WebReads, WebFinishes, pulseVars, Goto
  <2>2. sensorData \in WideReadings /\ json \in WideReadings
    BY <1>1 DEF DataTypes
  <2>3. /\ json'.windSpeed \in {json.windSpeed, sensorData.windSpeed}
        /\ json'.windGust \in {json.windGust, sensorData.windGust}
    BY <1>7, <2>2 DEF Web, WebReads, WebFinishes, WideReadings
  <2>4. pc'["wind"] = pc["wind"]
    BY <1>1, <2>1 DEF LockInv
  <2> QED
    BY <2>1, <2>3, <2>4 DEF PulseInv
<1>8. CASE WindWrites
  <2>1. /\ sensorData' = [sensorData EXCEPT !.windSpeed = window.speedSum]
        /\ json' = json /\ window' = window /\ windPulses' = windPulses /\ isr' = isr
        /\ arrived' = arrived /\ counted' = counted /\ pc["wind"] = "taking"
        /\ pc' = [pc EXCEPT !["wind"] = "half"]
    BY <1>8 DEF WindWrites, pulseVars, Goto, Inside
  <2>2. /\ sensorData'.windSpeed = window.speedSum
        /\ sensorData'.windGust = sensorData.windGust
    BY <1>1, <2>1 DEF DataTypes, WideReadings
  <2>3. pc'["wind"] = "half"
    BY <1>1, <2>1 DEF LockInv
  <2> QED
    BY <1>3, <2>1, <2>2, <2>3 DEF PulseInv
<1>9. CASE WindFinishes
  <2>1. /\ sensorData' = [sensorData EXCEPT !.windGust = window.peak]
        /\ json' = json /\ window' = ResetWindow(window) /\ windPulses' = windPulses
        /\ isr' = isr /\ arrived' = arrived /\ counted' = counted /\ pc["wind"] = "half"
        /\ pc' = [pc EXCEPT !["wind"] = "giving"]
    BY <1>9 DEF WindFinishes, Goto
  <2>2. /\ sensorData'.windGust = window.peak
        /\ sensorData'.windSpeed = sensorData.windSpeed
    BY <1>1, <2>1 DEF DataTypes, WideReadings
  <2>3. pc'["wind"] = "giving"
    BY <1>1, <2>1 DEF LockInv
  <2>4. window'.pulses = window.pulses /\ window'.speedSum <= counted
    BY <1>1, <1>2, <2>1, ResetFits DEF ReadingInv
  <2> QED
    BY <1>3, <2>1, <2>2, <2>3, <2>4 DEF PulseInv
<1>10. CASE ReadPulses
  <2>1. /\ window' = [window EXCEPT !.pulses = windPulses]
        /\ windPulses' = windPulses /\ isr' = isr /\ arrived' = arrived /\ counted' = counted
        /\ sensorData' = sensorData /\ json' = json /\ ~isr.running
        /\ pc' = [pc EXCEPT !["wind"] = "reading"]
    BY <1>10 DEF ReadPulses, MayRun, Goto
  <2>2. window'.pulses = windPulses /\ window'.speedSum = window.speedSum
    BY <1>1, <2>1 DEF DataTypes
  <2>3. pc'["wind"] = "reading"
    BY <1>1, <2>1 DEF LockInv
  <2> QED
    BY <2>1, <2>2, <2>3 DEF PulseInv
<1>11. CASE ClearPulses
  <2>1. /\ window' = [pulses |-> 0, speedSum |-> window.speedSum + window.pulses,
                      peak |-> Greater(window.peak, window.pulses),
                      subsamples |-> window.subsamples + 1]
        /\ windPulses' = 0 /\ counted' = counted + window.pulses
        /\ isr' = isr /\ arrived' = arrived /\ sensorData' = sensorData /\ json' = json
        /\ pc["wind"] = "reading"
        /\ \/ pc' = [pc EXCEPT !["wind"] = "taking"]
           \/ pc' = [pc EXCEPT !["wind"] = "idle"]
    BY <1>11 DEF ClearPulses, Goto
  <2>2. pc'["wind"] # "reading"
    BY <1>1, <2>1 DEF LockInv
  <2>3. window'.pulses = 0 /\ window'.speedSum = window.speedSum + window.pulses
    BY <2>1
  <2> QED
    BY <1>2, <2>1, <2>2, <2>3 DEF PulseInv
<1>12. CASE PulseLoads
  <2>1. /\ isr' = [running |-> TRUE, value |-> windPulses] /\ arrived' = arrived + 1
        /\ arrived < MaxPulses /\ ~isr.running /\ pc["wind"] # "reading"
        /\ pc' = pc /\ windPulses' = windPulses /\ window' = window /\ counted' = counted
        /\ sensorData' = sensorData /\ json' = json
    BY <1>12 DEF PulseLoads, Masked, lockVars, PulseInv
  <2> QED
    BY <1>2, <2>1 DEF PulseInv
<1>13. CASE PulseStores
  <2>1. /\ isr' = [running |-> FALSE, value |-> 0] /\ windPulses' = isr.value + 1
        /\ isr.running /\ pc' = pc /\ arrived' = arrived /\ window' = window
        /\ counted' = counted /\ sensorData' = sensorData /\ json' = json
    BY <1>13 DEF PulseStores, lockVars
  <2> QED
    BY <1>2, <2>1 DEF PulseInv
<1>14. CASE UNCHANGED vars
  BY <1>14 DEF PulseInv, vars, lockVars, pulseVars
<1> QED
  BY <1>5, <1>6, <1>7, <1>8, <1>9, <1>10, <1>11, <1>12, <1>13, <1>14
     DEF Next, Around, Wind, Pulse

THEOREM PulsesAreAccountedFor == ASSUME SameCore PROVE Spec => []PulseInv
<1>1. Init => PulseInv
  BY DEF Init, PulseInv, NoReading, NoWindow, Tasks
<1>2. ReadingInv /\ PulseInv /\ [Next]_vars => PulseInv'
  BY PulseKept
<1> QED
  BY <1>1, <1>2, ReadingIsWhole, PTL DEF Spec

(* Every pulse ends up in exactly one subsample, where the wind task masks *)
(* the interrupt: the run on two cores shows that it must.                 *)
THEOREM NoPulseIsLost == ASSUME SameCore PROVE Spec => []EveryPulseCountsOnce
<1>1. ReadingInv /\ PulseInv => EveryPulseCountsOnce
  BY DEF ReadingInv, DataTypes, PulseInv, EveryPulseCountsOnce
<1> QED
  BY <1>1, ReadingIsWhole, PulsesAreAccountedFor, PTL

(* Every variable keeps its type; a window never outgrows its subsamples.  *)
THEOREM TypeCorrect == ASSUME SameCore PROVE Spec => []TypeOK
<1>1. ASSUME ReadingInv, PulseInv PROVE TypeOK
  <2>1. /\ sensorData \in WideReadings /\ json \in WideReadings
        /\ windPulses \in Nat /\ counted \in Nat /\ arrived \in 0 .. MaxPulses
        /\ isr \in [running : BOOLEAN, value : Nat]
        /\ window \in [pulses : Nat, speedSum : Nat, peak : Nat, subsamples : Nat]
    BY <1>1 DEF ReadingInv, DataTypes, PulseInv
  <2>2. LockInv
    BY <1>1 DEF ReadingInv
  <2>3. counted <= MaxPulses /\ windPulses <= MaxPulses /\ isr.value <= MaxPulses
    BY <1>1, <2>1 DEF PulseInv
  <2>4. /\ window.pulses <= MaxPulses /\ window.speedSum <= MaxPulses
        /\ window.peak <= MaxPulses
    BY <1>1, <2>1, <2>3 DEF PulseInv, ReadingInv, WindowInv
  <2>5. window.subsamples <= Subsamples
    BY <1>1, <2>1, <2>2 DEF ReadingInv, WindowInv, LockInv, Tasks
  <2>6. sensorData \in Readings /\ json \in Readings
    BY <1>1, <2>1 DEF PulseInv, WideReadings, Readings, Pulses
  <2>7. isr \in [running : BOOLEAN, value : 0 .. MaxPulses]
    BY <2>1, <2>3
  <2>8. window \in [pulses : 0 .. MaxPulses, speedSum : Pulses, peak : Pulses,
                    subsamples : 0 .. Subsamples]
    BY <2>1, <2>4, <2>5 DEF Pulses
  <2>9. windPulses \in 0 .. MaxPulses /\ counted \in Pulses
    BY <2>1, <2>3 DEF Pulses
  <2> QED
    BY <2>1, <2>2, <2>6, <2>7, <2>8, <2>9 DEF TypeOK, LockInv
<1> QED
  BY <1>1, ReadingIsWhole, PulsesAreAccountedFor, PTL
=============================================================================
