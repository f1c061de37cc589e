--------------------------- MODULE PeripheryProofs ---------------------------
(***************************************************************************)
(* Proofs about the dashboard and the tray widget, for every refresh       *)
(* interval and every bound on how long an answer takes; about the         *)
(* handlers, for every reading, airport, log, report and instant; and what *)
(* ExternalFeedProofs shows of the feed by itself carried over: every step *)
(* of Periphery is a step of one part or leaves the others alone.          *)
(*                                                                         *)
(* Dash!PollingInv and Tray!PollingInv are the invariant that Polling      *)
(* proves of the requests of both clients.  A handler keeps no state, so   *)
(* what there is to prove of its answers is about the operators that       *)
(* compute them: each has the lemmas of the component before its theorem.  *)
(***************************************************************************)
EXTENDS Periphery, WellFoundedInduction, TLAPS

-----------------------------------------------------------------------------
(* The handlers: what one is asked is an input of its own, so a property   *)
(* of all its answers holds of every answer given.                         *)

AskedItsOwn ==
    answer # None =>
        \/ answer.to = "reading" /\ answer.in \in Readings
        \/ answer.to = "airport" /\ answer.in \in Fields
        \/ answer.to = "history" /\ answer.in \in Logs
        \/ answer.to = "report" /\ answer.in \in Reports
        \/ answer.to = "sky" /\ answer.in \in Skies

LEMMA AskedItsOwnAlways == Spec => []AskedItsOwn
<1>1. Init => AskedItsOwn
  BY DEF Init, AskedItsOwn
<1>2. AskedItsOwn /\ [Next]_vars => AskedItsOwn'
  <2> SUFFICES ASSUME AskedItsOwn, [Next]_vars PROVE AskedItsOwn'
    OBVIOUS
  <2>1. CASE UNCHANGED answer
    BY <2>1 DEF AskedItsOwn
  <2>2. CASE AskReading BY <2>2 DEF AskReading, Asked, AskedItsOwn
  <2>3. CASE AskAirport BY <2>3 DEF AskAirport, Asked, AskedItsOwn
  <2>4. CASE AskHistory BY <2>4 DEF AskHistory, Asked, AskedItsOwn
  <2>5. CASE FetchReport BY <2>5 DEF FetchReport, Asked, AskedItsOwn
  <2>6. CASE AskSky BY <2>6 DEF AskSky, Asked, AskedItsOwn
  <2>7. CASE Answered BY <2>7 DEF Answered, AskedItsOwn
  <2> QED
    BY <2>1, <2>2, <2>3, <2>4, <2>5, <2>6, <2>7
    DEF Next, vars, FeedSteps, DashboardSteps, TraySteps
<1> QED BY <1>1, <1>2, PTL DEF Spec

-----------------------------------------------------------------------------
(* The readings: how the needs of a table are met *)

LEMMA MetKeys ==
    ASSUME NEW needs, NEW facts, NEW x
    PROVE  x \in ReadingOf!Met(needs, facts) <=> x \in DOMAIN needs /\ needs[x] \subseteq facts
  BY DEF ReadingOf!Met

Keys == {"temperature_c", "humidity_pct", "pressure_pa", "lux", "latitude", "longitude",
         "altitude_m", "satellites", "wind_speed_ms", "wind_gust_ms", "wind_direction_deg",
         "rssi_dbm"}

WindKeys == {"wind_speed_ms", "wind_gust_ms", "wind_direction_deg"}

(* Facts that no entry needs, except those of odd, are of no consequence   *)
(* to the others.                                                          *)
LEMMA MetExcept ==
    ASSUME NEW needs, NEW facts, NEW fewer, NEW odd,
           facts \ WindKeys = fewer \ WindKeys,
           \A x \in DOMAIN needs : x \in odd \/ needs[x] \cap WindKeys = {}
    PROVE  \A x : x \notin odd =>
               (x \in ReadingOf!Met(needs, facts) <=> x \in ReadingOf!Met(needs, fewer))
  BY DEF ReadingOf!Met

LEMMA MetUntouched ==
    ASSUME NEW needs, NEW facts, NEW fewer,
           facts \ WindKeys = fewer \ WindKeys,
           \A x \in DOMAIN needs : needs[x] \cap WindKeys = {}
    PROVE  ReadingOf!Met(needs, facts) = ReadingOf!Met(needs, fewer)
  BY DEF ReadingOf!Met

LEMMA PayloadIsTheWire ==
    ASSUME NEW wire \in SUBSET ReadingOf!Wire
    PROVE  LET payload == ReadingOf!_outdoor_to_payload(wire) IN
           /\ payload \subseteq Keys
           /\ "temperature_c" \in payload <=> "temperatureC" \in wire
           /\ "humidity_pct" \in payload <=> "humidity" \in wire
           /\ "pressure_pa" \in payload <=> "pressure" \in wire
           /\ "latitude" \in payload <=> "latitude" \in wire
           /\ "longitude" \in payload <=> "longitude" \in wire
           /\ "wind_speed_ms" \in payload <=> "windSpeed" \in wire
           /\ "wind_gust_ms" \in payload <=> "windGust" \in wire
  BY DEF ReadingOf!_outdoor_to_payload, ReadingOf!Wire, ReadingOf!PayloadKey, Keys

LEMMA SilencedPayload ==
    ASSUME NEW wire \in SUBSET ReadingOf!Wire
    PROVE  ReadingOf!_outdoor_to_payload(wire \ ReadingOf!WindWire)
               = ReadingOf!_outdoor_to_payload(wire) \ WindKeys
  BY DEF ReadingOf!_outdoor_to_payload, ReadingOf!Wire, ReadingOf!PayloadKey, WindKeys,
         ReadingOf!WindWire

(* Without wind nothing that is shown depends on the keys of the wind but  *)
(* what the raw block holds of it.                                         *)
LEMMA NothingNeedsRawWind ==
    /\ \A x \in DOMAIN ReadingOf!DeriveNeeds : ReadingOf!DeriveNeeds[x] \cap WindKeys = {}
    /\ \A x \in DOMAIN ReadingOf!ThermoNeeds : ReadingOf!ThermoNeeds[x] \cap WindKeys = {}
    /\ \A x \in DOMAIN ReadingOf!SkyNeeds : ReadingOf!SkyNeeds[x] \cap WindKeys = {}
    /\ \A x \in DOMAIN ReadingOf!FusedNeeds : ReadingOf!FusedNeeds[x] \cap WindKeys = {}
    /\ \A x \in DOMAIN ReadingOf!LocationNeeds : ReadingOf!LocationNeeds[x] \cap WindKeys = {}
    /\ \A x \in DOMAIN ReadingOf!InstrumentNeeds :
           ReadingOf!InstrumentNeeds[x] \cap WindKeys = {}
    /\ \A x \in DOMAIN ReadingOf!HeaderNeeds :
           x \in ReadingOf!RawWind \/ ReadingOf!HeaderNeeds[x] \cap WindKeys = {}
    /\ \A x \in DOMAIN ReadingOf!WindNeeds :
           x \in ReadingOf!RawWind \/ ReadingOf!WindNeeds[x] \cap WindKeys = {}
    /\ \A x \in DOMAIN ReadingOf!PopupNeeds : ReadingOf!PopupNeeds[x] \cap WindKeys = {}
  BY DEF ReadingOf!DeriveNeeds, ReadingOf!ThermoNeeds, ReadingOf!SkyNeeds,
         ReadingOf!FusedNeeds, ReadingOf!LocationNeeds, ReadingOf!InstrumentNeeds,
         ReadingOf!HeaderNeeds, ReadingOf!WindNeeds, ReadingOf!PopupNeeds,
         ReadingOf!RawWind, ReadingOf!TH, WindKeys

LEMMA StaleWindIsNone ==
    ASSUME NEW in \in ReadingOf!Inputs, in.stale
    PROVE  /\ ReadingOf!Silenced(in).stale
           /\ ReadingOf!resolve_wind(in) = {} /\ ReadingOf!resolve_wind(ReadingOf!Silenced(in)) = {}
           /\ ReadingOf!Solution(in) = {} /\ ReadingOf!Solution(ReadingOf!Silenced(in)) = {}
<1>1. ReadingOf!Silenced(in).stale
  BY DEF ReadingOf!Inputs, ReadingOf!Silenced
<1>2. /\ ReadingOf!resolve_wind(in) = {}
      /\ ReadingOf!resolve_wind(ReadingOf!Silenced(in)) = {}
  BY <1>1 DEF ReadingOf!resolve_wind
<1> QED BY <1>1, <1>2 DEF ReadingOf!Solution, ReadingOf!_local_wind

LEMMA SilencedReading ==
    ASSUME NEW in \in ReadingOf!Inputs, in.stale
    PROVE  LET r == ReadingOf!_build_reading(in)
               s == ReadingOf!_build_reading(ReadingOf!Silenced(in))
           IN /\ r.derived = s.derived /\ r.location = s.location /\ r.device = s.device
              /\ r.raw \ WindKeys = s.raw \ WindKeys
              /\ ReadingOf!Silenced(in).airport = in.airport
<1> DEFINE out     == ReadingOf!Silenced(in)
           payload == ReadingOf!_outdoor_to_payload(in.wire)
           fewer   == ReadingOf!_outdoor_to_payload(out.wire)
           facts   == ReadingOf!Facts(payload, in)
           less    == ReadingOf!Facts(fewer, out)
           sky     == IF in.cfg.has_light THEN ReadingOf!Met(ReadingOf!SkyNeeds, facts) ELSE {}
<1>1. /\ out.cfg = in.cfg /\ out.humidity = in.humidity /\ out.airport = in.airport
      /\ out.wire \in {in.wire, in.wire \ ReadingOf!WindWire}
  BY DEF ReadingOf!Inputs, ReadingOf!Silenced
<1>2. fewer \in {payload, payload \ WindKeys}
  BY <1>1, SilencedPayload DEF ReadingOf!Inputs
<1> HIDE DEF out, payload, fewer
<1>3. facts \ WindKeys = less \ WindKeys
  BY <1>1, <1>2 DEF ReadingOf!Facts, WindKeys
<1>4. (facts \cup {} \cup sky) \ WindKeys = (less \cup {} \cup sky) \ WindKeys
  BY <1>3
<1> HIDE DEF facts, less
<1>5. /\ ReadingOf!Met(ReadingOf!DeriveNeeds, facts) = ReadingOf!Met(ReadingOf!DeriveNeeds, less)
      /\ ReadingOf!Met(ReadingOf!ThermoNeeds, facts) = ReadingOf!Met(ReadingOf!ThermoNeeds, less)
      /\ ReadingOf!Met(ReadingOf!SkyNeeds, facts) = ReadingOf!Met(ReadingOf!SkyNeeds, less)
      /\ ReadingOf!Met(ReadingOf!LocationNeeds, facts) = ReadingOf!Met(ReadingOf!LocationNeeds, less)
  BY <1>3, NothingNeedsRawWind, MetUntouched, Zenon
<1>6. ReadingOf!Met(ReadingOf!FusedNeeds, facts \cup {} \cup sky)
          = ReadingOf!Met(ReadingOf!FusedNeeds, less \cup {} \cup sky)
  BY <1>4, NothingNeedsRawWind, MetUntouched, Zenon
<1>7. ReadingOf!RawOf(payload, in.cfg) \ WindKeys = ReadingOf!RawOf(fewer, out.cfg) \ WindKeys
  BY <1>1, <1>2 DEF ReadingOf!RawOf, WindKeys
<1>8. payload \cap {"rssi_dbm"} = fewer \cap {"rssi_dbm"}
  BY <1>2 DEF WindKeys
<1>9. /\ ReadingOf!resolve_wind(in) = {} /\ ReadingOf!resolve_wind(out) = {}
  BY StaleWindIsNone DEF out
<1> DEFINE Built(p, f, cfg, thermo, fused, place) ==
             [raw      |-> ReadingOf!RawOf(p, cfg),
              derived  |-> thermo \cup sky \cup fused \cup ({} \cap {"direction"}),
              location |-> IF in.cfg.has_gps THEN place ELSE {},
              device   |-> p \cap {"rssi_dbm"}]
<1>10. ReadingOf!_build_reading(in) =
         Built(payload, facts, in.cfg,
               ReadingOf!Met(ReadingOf!DeriveNeeds, facts)
                   \cup ReadingOf!Met(ReadingOf!ThermoNeeds, facts),
               ReadingOf!Met(ReadingOf!FusedNeeds, facts \cup {} \cup sky),
               ReadingOf!Met(ReadingOf!LocationNeeds, facts))
  BY <1>9, Zenon DEF ReadingOf!_build_reading, payload, facts
<1>11. ReadingOf!_build_reading(out) =
         Built(fewer, less, in.cfg,
               ReadingOf!Met(ReadingOf!DeriveNeeds, less)
                   \cup ReadingOf!Met(ReadingOf!ThermoNeeds, less),
               ReadingOf!Met(ReadingOf!FusedNeeds, less \cup {} \cup sky),
               ReadingOf!Met(ReadingOf!LocationNeeds, less))
  BY <1>1, <1>5, <1>9, Zenon DEF ReadingOf!_build_reading, fewer, less
<1> HIDE DEF sky
<1> QED
  BY <1>1, <1>5, <1>6, <1>7, <1>8, <1>10, <1>11 DEF out

LEMMA StaleWindIsGone ==
    ASSUME NEW in \in ReadingOf!Inputs
    PROVE  ReadingOf!StaleWindDrivesNothing(in)
<1> SUFFICES ASSUME in.stale
             PROVE  LET out == ReadingOf!Silenced(in) IN
                    /\ ReadingOf!Panels(in) \ ReadingOf!RawWind
                           = ReadingOf!Panels(out) \ ReadingOf!RawWind
                    /\ ReadingOf!Popup(in) = ReadingOf!Popup(out)
                    /\ ReadingOf!_build_reading(in).derived
                           = ReadingOf!_build_reading(out).derived
  BY DEF ReadingOf!StaleWindDrivesNothing
<1> DEFINE out == ReadingOf!Silenced(in)
           r   == ReadingOf!_build_reading(in)
           s   == ReadingOf!_build_reading(out)
           All(x)  == x.raw \cup x.derived \cup x.location \cup in.airport \cup {}
           Told(x) == x.raw \cup x.derived \cup x.location \cup x.device
<1>1. /\ r.derived = s.derived /\ r.location = s.location /\ r.device = s.device
      /\ r.raw \ WindKeys = s.raw \ WindKeys
      /\ out.airport = in.airport
  BY SilencedReading
<1>2. /\ ReadingOf!Panels(in) = ReadingOf!Met(ReadingOf!InstrumentNeeds, All(r))
                                \cup ReadingOf!Met(ReadingOf!HeaderNeeds, All(r))
                                \cup ReadingOf!Met(ReadingOf!WindNeeds, All(r))
      /\ ReadingOf!Panels(out) = ReadingOf!Met(ReadingOf!InstrumentNeeds, All(s))
                                 \cup ReadingOf!Met(ReadingOf!HeaderNeeds, All(s))
                                 \cup ReadingOf!Met(ReadingOf!WindNeeds, All(s))
  BY <1>1, StaleWindIsNone, Zenon DEF ReadingOf!Panels
<1>3. /\ ReadingOf!Popup(in) = IF "temperature" \in r.derived
                               THEN ReadingOf!Met(ReadingOf!PopupNeeds, Told(r)) ELSE {"OFFLINE"}
      /\ ReadingOf!Popup(out) = IF "temperature" \in s.derived
                                THEN ReadingOf!Met(ReadingOf!PopupNeeds, Told(s)) ELSE {"OFFLINE"}
  BY Zenon DEF ReadingOf!Popup
<1> HIDE DEF r, s, out
<1>4. All(r) \ WindKeys = All(s) \ WindKeys /\ Told(r) \ WindKeys = Told(s) \ WindKeys
  BY <1>1
<1> HIDE DEF All, Told
<1>5. ReadingOf!Met(ReadingOf!InstrumentNeeds, All(r))
          = ReadingOf!Met(ReadingOf!InstrumentNeeds, All(s))
  BY <1>4, NothingNeedsRawWind, MetUntouched, Zenon
<1>6. ReadingOf!Met(ReadingOf!PopupNeeds, Told(r)) = ReadingOf!Met(ReadingOf!PopupNeeds, Told(s))
  BY <1>4, NothingNeedsRawWind, MetUntouched, Zenon
<1>7. \A x : x \notin ReadingOf!RawWind =>
               (x \in ReadingOf!Met(ReadingOf!HeaderNeeds, All(r))
                    <=> x \in ReadingOf!Met(ReadingOf!HeaderNeeds, All(s)))
  BY <1>4, NothingNeedsRawWind, MetExcept, Zenon
<1>8. \A x : x \notin ReadingOf!RawWind =>
               (x \in ReadingOf!Met(ReadingOf!WindNeeds, All(r))
                    <=> x \in ReadingOf!Met(ReadingOf!WindNeeds, All(s)))
  BY <1>4, NothingNeedsRawWind, MetExcept, Zenon
<1>9. ReadingOf!Panels(in) \ ReadingOf!RawWind = ReadingOf!Panels(out) \ ReadingOf!RawWind
  BY <1>2, <1>5, <1>7, <1>8
<1>10. ReadingOf!Popup(in) = ReadingOf!Popup(out)
  BY <1>1, <1>3, <1>6
<1> QED BY <1>1, <1>9, <1>10 DEF r, s, out

(* A derived value exists only when the sensors it comes from measured.    *)
LEMMA DerivedIsBacked ==
    ASSUME NEW in \in ReadingOf!Inputs
    PROVE  LET derived == ReadingOf!_build_reading(in).derived IN
           /\ "temperature" \in derived => "temperatureC" \in in.wire
           /\ "dewpoint" \in derived => {"temperatureC", "humidity"} \subseteq in.wire
           /\ "density_altitude" \in derived
                  => {"temperatureC", "humidity", "pressure"} \subseteq in.wire
           /\ "pressure_altitude" \in derived => "pressure" \in in.wire
           /\ "altimeter_setting" \in derived => "pressure" \in in.wire
           /\ "pressure_station" \in derived => "pressure" \in in.wire
           /\ "pressure_sealevel" \in derived => {"pressure", "temperatureC"} \subseteq in.wire
           /\ derived \cap (Keys \cup {"elevation", "lat", "lon", "maidenhead"}) = {}
<1> DEFINE payload == ReadingOf!_outdoor_to_payload(in.wire)
           facts   == ReadingOf!Facts(payload, in)
           wind    == ReadingOf!resolve_wind(in)
           sky     == IF in.cfg.has_light THEN ReadingOf!Met(ReadingOf!SkyNeeds, facts) ELSE {}
           fused   == ReadingOf!Met(ReadingOf!FusedNeeds, facts \cup wind \cup sky)
           read    == ReadingOf!Met(ReadingOf!DeriveNeeds, facts)
           thermo  == ReadingOf!Met(ReadingOf!ThermoNeeds, facts)
<1>1. /\ "temperature_c" \in facts => "temperatureC" \in in.wire
      /\ "humidity_pct" \in facts => "humidity" \in in.wire
      /\ "pressure_pa" \in facts => "pressure" \in in.wire
  BY PayloadIsTheWire DEF ReadingOf!Inputs, ReadingOf!Facts
<1>2. ReadingOf!_build_reading(in).derived
          = read \cup thermo \cup sky \cup fused \cup (wind \cap {"direction"})
  BY DEF ReadingOf!_build_reading
<1> HIDE DEF facts, wind
<1>3. /\ sky \subseteq {"solar"}
      /\ fused \subseteq {"beaufort", "wind_chill", "apparent_temperature", "thsw_index", "et0"}
  BY MetKeys DEF ReadingOf!SkyNeeds, ReadingOf!FusedNeeds
<1>4. /\ read \subseteq {"temperature", "dewpoint", "absolute_humidity", "feels_like",
                         "pressure_station", "pressure_sealevel", "altimeter_setting"}
      /\ "temperature" \in read => "temperature_c" \in facts
      /\ "dewpoint" \in read => {"temperature_c", "humidity_pct"} \subseteq facts
      /\ "pressure_station" \in read => "pressure_pa" \in facts
      /\ "pressure_sealevel" \in read => {"pressure_pa", "temperature_c"} \subseteq facts
      /\ "altimeter_setting" \in read => "pressure_pa" \in facts
  BY MetKeys DEF ReadingOf!DeriveNeeds, ReadingOf!TH
<1>5. /\ thermo \subseteq {"saturation_vapor_pressure", "vapor_pressure", "wet_bulb",
                           "vapor_pressure_deficit", "frost_point", "humidex", "cloud_base",
                           "mixing_ratio", "specific_humidity", "air_density",
                           "pressure_altitude", "density_altitude"}
      /\ "density_altitude" \in thermo
             => {"temperature_c", "humidity_pct", "pressure_pa"} \subseteq facts
      /\ "pressure_altitude" \in thermo => "pressure_pa" \in facts
  BY MetKeys DEF ReadingOf!ThermoNeeds, ReadingOf!TH
<1> HIDE DEF sky, fused, read, thermo
<1> QED BY <1>1, <1>2, <1>3, <1>4, <1>5 DEF Keys

LEMMA LocationIsBacked ==
    ASSUME NEW in \in ReadingOf!Inputs
    PROVE  LET location == ReadingOf!_build_reading(in).location IN
           /\ "lat" \in location => "latitude" \in in.wire
           /\ "lon" \in location => "longitude" \in in.wire
           /\ "maidenhead" \in location => {"latitude", "longitude"} \subseteq in.wire
           /\ location \subseteq {"altitude", "satellites", "lat", "lon", "dms", "maidenhead"}
<1> DEFINE facts == ReadingOf!Facts(ReadingOf!_outdoor_to_payload(in.wire), in)
           place == ReadingOf!Met(ReadingOf!LocationNeeds, facts)
<1>1. ReadingOf!_build_reading(in).location \subseteq place
  BY DEF ReadingOf!_build_reading
<1>2. /\ "latitude" \in facts => "latitude" \in in.wire
      /\ "longitude" \in facts => "longitude" \in in.wire
  BY PayloadIsTheWire DEF ReadingOf!Inputs, ReadingOf!Facts
<1> HIDE DEF facts
<1>3. /\ place \subseteq {"altitude", "satellites", "lat", "lon", "dms", "maidenhead"}
      /\ "lat" \in place => "latitude" \in facts
      /\ "lon" \in place => "longitude" \in facts
      /\ "maidenhead" \in place => {"latitude", "longitude"} \subseteq facts
  BY MetKeys DEF ReadingOf!LocationNeeds
<1> HIDE DEF place
<1> QED BY <1>1, <1>2, <1>3

LEMMA RawIsBacked ==
    ASSUME NEW in \in ReadingOf!Inputs
    PROVE  LET r == ReadingOf!_build_reading(in) IN
           /\ "humidity_pct" \in r.raw => "humidity" \in in.wire
           /\ "wind_speed_ms" \in r.raw => "windSpeed" \in in.wire
           /\ "wind_gust_ms" \in r.raw => "windGust" \in in.wire
           /\ r.raw \subseteq Keys \ {"latitude", "longitude"}
           /\ r.device \subseteq {"rssi_dbm"}
<1> DEFINE payload == ReadingOf!_outdoor_to_payload(in.wire)
<1>1. /\ ReadingOf!_build_reading(in).raw = ReadingOf!RawOf(payload, in.cfg)
      /\ ReadingOf!_build_reading(in).device = payload \cap {"rssi_dbm"}
  BY DEF ReadingOf!_build_reading
<1>2. /\ "humidity_pct" \in payload => "humidity" \in in.wire
      /\ "wind_speed_ms" \in payload => "windSpeed" \in in.wire
      /\ "wind_gust_ms" \in payload => "windGust" \in in.wire
  BY PayloadIsTheWire DEF ReadingOf!Inputs
<1> HIDE DEF payload
<1> QED BY <1>1, <1>2 DEF ReadingOf!RawOf, Keys

LEMMA ScreensAreBacked ==
    ASSUME NEW in \in ReadingOf!Inputs
    PROVE  ReadingOf!NothingIsInvented(in)
<1> DEFINE r == ReadingOf!_build_reading(in)
           all == r.raw \cup r.derived \cup r.location \cup in.airport \cup ReadingOf!Solution(in)
           told == r.raw \cup r.derived \cup r.location \cup r.device
           Fact(f, sources) == f \in all \cup told => sources \subseteq in.wire
<1>1. /\ Fact("temperature", {"temperatureC"})
      /\ Fact("dewpoint", {"temperatureC", "humidity"})
      /\ Fact("density_altitude", {"temperatureC", "humidity", "pressure"})
      /\ Fact("pressure_altitude", {"pressure"})
      /\ Fact("altimeter_setting", {"pressure"})
      /\ Fact("pressure_station", {"pressure"})
      /\ Fact("pressure_sealevel", {"pressure", "temperatureC"})
      /\ Fact("humidity_pct", {"humidity"})
      /\ Fact("wind_speed_ms", {"windSpeed"}) /\ Fact("wind_gust_ms", {"windGust"})
      /\ Fact("lat", {"latitude"}) /\ Fact("lon", {"longitude"})
      /\ Fact("maidenhead", {"latitude", "longitude"})
  <2>1. in.airport \subseteq {"ident", "elevation", "variation", "headings"}
    BY DEF ReadingOf!Inputs
  <2>2. ReadingOf!Solution(in) \subseteq {"solution"}
    BY DEF ReadingOf!Solution
  <2> QED BY <2>1, <2>2, DerivedIsBacked, LocationIsBacked, RawIsBacked DEF Keys
<1>2. /\ ReadingOf!Panels(in) = ReadingOf!Met(ReadingOf!InstrumentNeeds, all)
                                \cup ReadingOf!Met(ReadingOf!HeaderNeeds, all)
                                \cup ReadingOf!Met(ReadingOf!WindNeeds, all)
      /\ ReadingOf!Popup(in) \subseteq ReadingOf!Met(ReadingOf!PopupNeeds, told) \cup {"OFFLINE"}
  BY DEF ReadingOf!Panels, ReadingOf!Popup
<1> HIDE DEF all, told
<1> DEFINE Backed(x) == x \in DOMAIN ReadingOf!Origins => ReadingOf!Origins[x] \subseteq in.wire
<1>3. ASSUME NEW x \in ReadingOf!Met(ReadingOf!InstrumentNeeds, all) PROVE Backed(x)
  BY <1>1, MetKeys DEF ReadingOf!InstrumentNeeds, ReadingOf!Origins
<1>4. ASSUME NEW x \in ReadingOf!Met(ReadingOf!HeaderNeeds, all) PROVE Backed(x)
  BY <1>1, MetKeys DEF ReadingOf!HeaderNeeds, ReadingOf!Origins
<1>5. ASSUME NEW x \in ReadingOf!Met(ReadingOf!WindNeeds, all) PROVE Backed(x)
  BY <1>1, MetKeys DEF ReadingOf!WindNeeds, ReadingOf!Origins
<1>6. ASSUME NEW x \in ReadingOf!Met(ReadingOf!PopupNeeds, told) PROVE Backed(x)
  BY <1>1, MetKeys DEF ReadingOf!PopupNeeds, ReadingOf!Origins
<1>7. Backed("OFFLINE")
  BY DEF ReadingOf!Origins
<1> QED BY <1>2, <1>3, <1>4, <1>5, <1>6, <1>7 DEF ReadingOf!NothingIsInvented

(* A wind that has gone stale leaves the screens as if there were none,    *)
(* whatever else was measured and however the sensors are configured       *)
(* (wind.py:54-99).                                                        *)
THEOREM StaleWindIsSilent == Spec => []StaleWindDrivesNothing
<1>1. AskedItsOwn => StaleWindDrivesNothing
  BY StaleWindIsGone, ReadingsAssumption DEF AskedItsOwn, StaleWindDrivesNothing, About
<1> QED BY <1>1, AskedItsOwnAlways, PTL

(* What no sensor measured is on no screen (wire_format.py,                *)
(* readings.py:334-405, app.js:202-350).                                   *)
THEOREM ScreensTellWhatCame == Spec => []NothingIsInvented
<1>1. AskedItsOwn => NothingIsInvented
  BY ScreensAreBacked, ReadingsAssumption DEF AskedItsOwn, NothingIsInvented, About
<1> QED BY <1>1, AskedItsOwnAlways, PTL

-----------------------------------------------------------------------------
(* Every set of naturals that is not empty has a least element. *)
LEMMA LeastNatural ==
    ASSUME NEW S \in SUBSET Nat, S # {}
    PROVE  \E x \in S : \A y \in S : x <= y
<1>1. PICK x \in S : \A y \in S : <<y, x>> \notin OpToRel(<, Nat)
  BY WFMin, NatLessThanWellFounded
<1>2. \A y \in S : ~(y < x)
  BY <1>1 DEF OpToRel
<1> QED BY <1>2

-----------------------------------------------------------------------------
(* The reports *)

LEMMA MinIsLeast ==
    ASSUME NEW S \in SUBSET Nat, S # {}
    PROVE  MetarOf!Min(S) \in S /\ \A y \in S : MetarOf!Min(S) <= y
  BY LeastNatural DEF MetarOf!Min

LEMMA MaxOfTwo ==
    ASSUME NEW a \in Int, NEW b \in Int
    PROVE  MetarOf!Max({a, b}) = IF a >= b THEN a ELSE b
<1>1. \E x \in {a, b} : \A y \in {a, b} : x >= y
  OBVIOUS
<1>2. /\ MetarOf!Max({a, b}) \in {a, b}
      /\ \A y \in {a, b} : MetarOf!Max({a, b}) >= y
  BY <1>1, Zenon DEF MetarOf!Max
<1> QED BY <1>2

LEMMA MinOfTwo ==
    ASSUME NEW a \in Int, NEW b \in Int
    PROVE  MetarOf!Min({a, b}) = IF a <= b THEN a ELSE b
<1>1. \E x \in {a, b} : \A y \in {a, b} : x <= y
  OBVIOUS
<1>2. /\ MetarOf!Min({a, b}) \in {a, b}
      /\ \A y \in {a, b} : MetarOf!Min({a, b}) <= y
  BY <1>1, Zenon DEF MetarOf!Min
<1> QED BY <1>2

LEMMA MaxOfThree ==
    ASSUME NEW a \in Nat, NEW b \in Nat
    PROVE  LET m == MetarOf!Max({a, b, 1})
           IN m \in {a, b, 1} /\ m >= a /\ m >= b /\ m >= 1
<1>1. \E x \in {a, b, 1} : \A y \in {a, b, 1} : x >= y
  OBVIOUS
<1>2. /\ MetarOf!Max({a, b, 1}) \in {a, b, 1}
      /\ \A y \in {a, b, 1} : MetarOf!Max({a, b, 1}) >= y
  BY <1>1, Zenon DEF MetarOf!Max
<1> QED BY <1>2

(* The bases of the layers that make a ceiling. *)
Bases(layers) ==
    {l.base : l \in {x \in layers : x.cover \in MetarOf!CeilingCovers /\ x.base # None}}

LEMMA CeilingIsLowest ==
    ASSUME NEW layers, layers # None, Bases(layers) \subseteq Nat
    PROVE  LET ceiling == MetarOf!_ceiling_ft(layers) IN
           IF Bases(layers) = {} THEN ceiling = None
           ELSE ceiling \in Bases(layers) /\ \A b \in Bases(layers) : ceiling <= b
<1>1. MetarOf!_ceiling_ft(layers)
          = IF Bases(layers) = {} THEN None ELSE MetarOf!Min(Bases(layers))
  BY DEF MetarOf!_ceiling_ft, Bases
<1> QED BY <1>1, MinIsLeast

(* No ceiling counts as one above all others, and so does the visibility.  *)
Higher(a, b) == IF b = None THEN TRUE ELSE a # None /\ a <= b   \* b is no worse than a

LEMMA LowerIsWorse ==
    ASSUME None \notin Nat, NEW a \in Nat \cup {None}, NEW b \in Nat \cup {None}, Higher(a, b)
    PROVE  /\ MetarOf!Rank[MetarOf!_category_from_ceiling(a)] \in 0 .. 3
           /\ MetarOf!Rank[MetarOf!_category_from_visibility(a)] \in 0 .. 3
           /\ MetarOf!Rank[MetarOf!_category_from_ceiling(a)]
                  >= MetarOf!Rank[MetarOf!_category_from_ceiling(b)]
           /\ MetarOf!Rank[MetarOf!_category_from_visibility(a)]
                  >= MetarOf!Rank[MetarOf!_category_from_visibility(b)]
  BY DEF MetarOf!Rank, MetarOf!_category_from_ceiling, MetarOf!_category_from_visibility,
         Higher

LEMMA WorstDecides ==
    ASSUME None \notin Nat, NEW feet \in Nat \cup {None}, NEW quarters \in Nat \cup {None}
    PROVE  MetarOf!Rank[MetarOf!_compute_flight_category(feet, quarters)]
               = LET a == MetarOf!Rank[MetarOf!_category_from_ceiling(feet)]
                     b == MetarOf!Rank[MetarOf!_category_from_visibility(quarters)]
                 IN IF a >= b THEN a ELSE b
<1> DEFINE a == MetarOf!Rank[MetarOf!_category_from_ceiling(feet)]
           b == MetarOf!Rank[MetarOf!_category_from_visibility(quarters)]
           worst == MetarOf!Max({a, b})
<1>1. a \in 0 .. 3 /\ b \in 0 .. 3
  BY LowerIsWorse DEF Higher
<1>2. worst = IF a >= b THEN a ELSE b
  BY <1>1, MaxOfTwo
<1>3. MetarOf!_compute_flight_category(feet, quarters) = MetarOf!Categories[1 + worst]
  BY DEF MetarOf!_compute_flight_category
<1> HIDE DEF a, b, worst
<1>4. worst \in {0, 1, 2, 3}
  BY <1>1, <1>2
<1>5. MetarOf!Rank[MetarOf!Categories[1 + worst]] = worst
  BY <1>4 DEF MetarOf!Rank, MetarOf!Categories
<1> QED BY <1>2, <1>3, <1>5 DEF a, b

Listed(clouds) == IF clouds \in {None, Bad} THEN {} ELSE clouds

CeilingLayers(clouds) ==
    {c \in Listed(clouds) : c.cover \in MetarOf!CeilingCovers /\ c.base \notin {None, Bad}}

(* What a report of clouds says of the ceiling. *)
LEMMA ParsedBases ==
    ASSUME MetarOf!NoListIsAbsent,
           NEW clouds \in SUBSET MetarOf!Layers, clouds \notin {None, Bad}
    PROVE  LET layers == MetarOf!_parse_sky_layers(clouds) IN
           /\ layers # None /\ Bases(layers) \subseteq Nat
           /\ \A b : b \in Bases(layers) <=> \E c \in CeilingLayers(clouds) : b = c.base
<1> DEFINE layers == MetarOf!_parse_sky_layers(clouds)
<1>0. None \notin Nat /\ Bad \notin Nat /\ Bad \notin MetarOf!Covers /\ None # Bad
  BY ReportsAssumption DEF MetarOf!Told
<1>1. layers = {[cover |-> c.cover, base |-> MetarOf!_num(c.base)] :
                   c \in {x \in clouds : x.cover # Bad}}
  BY DEF MetarOf!_parse_sky_layers
<1>2. \A c \in clouds : /\ c.base \in Nat \cup {None, Bad}
                        /\ MetarOf!_num(c.base) \in Nat \cup {None}
  BY DEF MetarOf!Layers, MetarOf!Values, MetarOf!_num
<1>3. layers # None
  <2>1. layers \in SUBSET MetarOf!Layers
    BY <1>1, <1>2 DEF MetarOf!Layers, MetarOf!Values
  <2> QED BY <2>1 DEF MetarOf!NoListIsAbsent
<1>4. CeilingLayers(clouds)
          = {c \in clouds : c.cover \in MetarOf!CeilingCovers /\ c.base \notin {None, Bad}}
  BY DEF CeilingLayers, Listed
<1>5. \A b : b \in Bases(layers) <=> \E c \in CeilingLayers(clouds) : b = c.base
  <2>1. Bad \notin MetarOf!CeilingCovers
    BY <1>0 DEF MetarOf!CeilingCovers, MetarOf!Covers
  <2>2. ASSUME NEW c \in CeilingLayers(clouds) PROVE c.base \in Bases(layers)
    <3>1. [cover |-> c.cover, base |-> c.base] \in layers
      BY <1>1, <1>4, <2>1 DEF MetarOf!_num
    <3> QED BY <1>4, <3>1 DEF Bases
  <2>3. ASSUME NEW b \in Bases(layers) PROVE \E c \in CeilingLayers(clouds) : b = c.base
    <3>1. PICK c \in clouds : /\ c.cover \in MetarOf!CeilingCovers
                              /\ MetarOf!_num(c.base) # None /\ b = MetarOf!_num(c.base)
      BY <1>1 DEF Bases
    <3> QED BY <1>4, <3>1 DEF MetarOf!_num
  <2> QED BY <2>2, <2>3
<1>6. Bases(layers) \subseteq Nat
  BY <1>2, <1>4, <1>5
<1> QED BY <1>3, <1>5, <1>6

LEMMA ParsedCeiling ==
    ASSUME MetarOf!NoListIsAbsent,
           NEW clouds \in {None, Bad} \cup SUBSET MetarOf!Layers
    PROVE  LET ceiling == MetarOf!_ceiling_ft(MetarOf!_parse_sky_layers(clouds)) IN
           IF CeilingLayers(clouds) = {} THEN ceiling = None
           ELSE /\ \E c \in CeilingLayers(clouds) : ceiling = c.base
                /\ \A c \in CeilingLayers(clouds) : c.base \in Nat /\ ceiling <= c.base
<1> DEFINE layers == MetarOf!_parse_sky_layers(clouds)
<1>1. CASE clouds \in {None, Bad}
  <2>1. layers = None
    BY <1>1 DEF MetarOf!_parse_sky_layers
  <2>2. MetarOf!_ceiling_ft(layers) = None
    BY <2>1 DEF MetarOf!_ceiling_ft
  <2> QED BY <1>1, <2>2 DEF CeilingLayers, Listed
<1>2. CASE clouds \notin {None, Bad}
  <2>1. /\ layers # None /\ Bases(layers) \subseteq Nat
        /\ \A b : b \in Bases(layers) <=> \E c \in CeilingLayers(clouds) : b = c.base
    BY <1>2, ParsedBases
  <2> HIDE DEF layers
  <2> QED BY <2>1, CeilingIsLowest DEF layers
<1> QED BY <1>1, <1>2

(* A layer more, or one of them lowered, is no higher a ceiling. *)
LEMMA LowerCeiling ==
    ASSUME MetarOf!NoListIsAbsent,
           NEW clouds \in {None, Bad} \cup SUBSET MetarOf!Layers,
           NEW worse \in {None, Bad} \cup SUBSET MetarOf!Layers,
           \A c \in CeilingLayers(clouds) : \E d \in CeilingLayers(worse) : d.base <= c.base
    PROVE  LET a == MetarOf!_ceiling_ft(MetarOf!_parse_sky_layers(worse))
               b == MetarOf!_ceiling_ft(MetarOf!_parse_sky_layers(clouds))
           IN a \in Nat \cup {None} /\ b \in Nat \cup {None} /\ Higher(a, b)
<1> DEFINE a == MetarOf!_ceiling_ft(MetarOf!_parse_sky_layers(worse))
           b == MetarOf!_ceiling_ft(MetarOf!_parse_sky_layers(clouds))
<1>0. None \notin Nat
  BY ReportsAssumption DEF MetarOf!Told
<1>1. IF CeilingLayers(clouds) = {} THEN b = None
      ELSE /\ \E c \in CeilingLayers(clouds) : b = c.base
           /\ \A c \in CeilingLayers(clouds) : c.base \in Nat /\ b <= c.base
  BY ParsedCeiling
<1>2. IF CeilingLayers(worse) = {} THEN a = None
      ELSE /\ \E c \in CeilingLayers(worse) : a = c.base
           /\ \A c \in CeilingLayers(worse) : c.base \in Nat /\ a <= c.base
  BY ParsedCeiling
<1> HIDE DEF a, b
<1> QED BY <1>0, <1>1, <1>2 DEF Higher, a, b

LEMMA MetarIsNormalized ==
    ASSUME NEW in, in.cfg.provider = "metar", NEW report \in MetarOf!MetarReports
    PROVE  MetarOf!fetch_external(in.cfg, report, in.reference)
               = MetarOf!normalize_metar(report)
<1>1. report # None
  BY ReportsAssumption DEF MetarOf!Told
<1> QED BY <1>1 DEF MetarOf!fetch_external

LEMMA NormalizedCategory ==
    ASSUME NEW report \in MetarOf!MetarReports, report.icaoId \notin {None, Bad},
           report.fltCat \notin DOMAIN MetarOf!Rank
    PROVE  LET obs == MetarOf!normalize_metar(report)
               layers == MetarOf!_parse_sky_layers(report.clouds)
           IN /\ obs.layers = layers /\ obs.ceiling = MetarOf!_ceiling_ft(layers)
              /\ obs.confidence = None
              /\ obs.category = MetarOf!_compute_flight_category(obs.ceiling,
                                   MetarOf!_parse_visibility_sm(report.visib))
  BY DEF MetarOf!normalize_metar, MetarOf!Nothing

LEMMA NormalizedLayers ==
    ASSUME NEW report \in MetarOf!MetarReports, report.icaoId \notin {None, Bad}
    PROVE  LET obs == MetarOf!normalize_metar(report)
               layers == MetarOf!_parse_sky_layers(report.clouds)
           IN obs.layers = layers /\ obs.ceiling = MetarOf!_ceiling_ft(layers)
              /\ obs.confidence = None
  BY DEF MetarOf!normalize_metar, MetarOf!Nothing

(* How the reports compared differ from the one that came. *)
LEMMA WorseReports ==
    ASSUME MetarOf!NoListIsAbsent, NEW report \in MetarOf!MetarReports,
           NEW worse \in MetarOf!Worse(report)
    PROVE  /\ worse \in MetarOf!MetarReports
           /\ worse.icaoId = report.icaoId /\ worse.fltCat = report.fltCat
           /\ \A c \in CeilingLayers(report.clouds) :
                  \E d \in CeilingLayers(worse.clouds) : d.base <= c.base
           /\ Higher(MetarOf!_parse_visibility_sm(worse.visib),
                     MetarOf!_parse_visibility_sm(report.visib))
<1> DEFINE layers == Listed(report.clouds)
<1>0. None \notin Nat /\ Bad \notin Nat /\ None # Bad /\ MetarOf!CeilingCovers \subseteq MetarOf!Covers
  BY ReportsAssumption DEF MetarOf!Told, MetarOf!CeilingCovers, MetarOf!Covers
<1>1. /\ layers \in SUBSET MetarOf!Layers
      /\ \A c \in CeilingLayers(report.clouds) : c \in layers /\ c.base \in Nat
      /\ report.visib \in Nat \cup {None, Bad}
  BY DEF MetarOf!MetarReports, Listed, CeilingLayers, MetarOf!Layers, MetarOf!Values
<1>2. Higher(MetarOf!_parse_visibility_sm(report.visib),
             MetarOf!_parse_visibility_sm(report.visib))
  BY <1>0, <1>1 DEF Higher, MetarOf!_parse_visibility_sm
<1>3. ASSUME NEW list \in SUBSET MetarOf!Layers, worse = [report EXCEPT !.clouds = list]
      PROVE  /\ worse \in MetarOf!MetarReports
             /\ worse.icaoId = report.icaoId /\ worse.fltCat = report.fltCat
             /\ worse.visib = report.visib
             /\ CeilingLayers(worse.clouds)
                    = {c \in list : /\ c.cover \in MetarOf!CeilingCovers
                                    /\ c.base \notin {None, Bad}}
  BY <1>3 DEF MetarOf!MetarReports, MetarOf!NoListIsAbsent, CeilingLayers, Listed
<1>4. CASE \E c \in MetarOf!CeilingCovers, h \in MetarOf!Heights :
              worse = [report EXCEPT !.clouds = layers \cup {[cover |-> c, base |-> h]}]
  <2>1. PICK c \in MetarOf!CeilingCovers, h \in MetarOf!Heights :
              worse = [report EXCEPT !.clouds = layers \cup {[cover |-> c, base |-> h]}]
    BY <1>4
  <2>2. layers \cup {[cover |-> c, base |-> h]} \in SUBSET MetarOf!Layers
    BY <1>0, <1>1 DEF MetarOf!Layers, MetarOf!Values, MetarOf!Heights
  <2>3. \A d \in CeilingLayers(report.clouds) : d \in CeilingLayers(worse.clouds)
    BY <1>3, <2>1, <2>2 DEF CeilingLayers
  <2>4. /\ worse \in MetarOf!MetarReports /\ worse.visib = report.visib
        /\ worse.icaoId = report.icaoId /\ worse.fltCat = report.fltCat
    BY <1>3, <2>1, <2>2
  <2>5. \A d \in CeilingLayers(report.clouds) : d.base <= d.base
    BY <1>1
  <2> QED BY <1>2, <2>3, <2>4, <2>5
<1>5. CASE \E l \in layers, h \in MetarOf!Heights :
              /\ l.base \notin {None, Bad} /\ h < l.base
              /\ worse = [report EXCEPT !.clouds = (layers \ {l}) \cup {[l EXCEPT !.base = h]}]
  <2>1. PICK l \in layers, h \in MetarOf!Heights :
              /\ l.base \notin {None, Bad} /\ h < l.base
              /\ worse = [report EXCEPT !.clouds = (layers \ {l}) \cup {[l EXCEPT !.base = h]}]
    BY <1>5
  <2> DEFINE low == [l EXCEPT !.base = h]
  <2>2. low \in MetarOf!Layers /\ low.cover = l.cover /\ low.base = h /\ h \in Nat
    BY <1>1 DEF MetarOf!Layers, MetarOf!Values, MetarOf!Heights
  <2>3. (layers \ {l}) \cup {low} \in SUBSET MetarOf!Layers
    BY <1>1, <2>2
  <2> HIDE DEF low
  <2>4. CeilingLayers(worse.clouds)
            = {c \in (layers \ {l}) \cup {low} : /\ c.cover \in MetarOf!CeilingCovers
                                                /\ c.base \notin {None, Bad}}
    BY <1>3, <2>1, <2>3 DEF low
  <2>5. ASSUME NEW c \in CeilingLayers(report.clouds)
        PROVE  \E d \in CeilingLayers(worse.clouds) : d.base <= c.base
    <3>1. CASE c = l
      <4>1. low \in CeilingLayers(worse.clouds)
        BY <1>0, <2>2, <2>4, <3>1 DEF CeilingLayers
      <4> QED BY <1>1, <2>1, <2>2, <3>1, <4>1
    <3>2. CASE c # l
      <4>1. c \in CeilingLayers(worse.clouds)
        BY <2>4, <3>2 DEF CeilingLayers
      <4> QED BY <1>1, <4>1
    <3> QED BY <3>1, <3>2
  <2> QED BY <1>2, <1>3, <2>1, <2>3, <2>5 DEF low
<1>6. CASE \E v \in {2, 8, 20, 24} : /\ report.visib \in {None, Bad} \/ v < report.visib
                                     /\ worse = [report EXCEPT !.visib = v]
  <2>1. PICK v \in {2, 8, 20, 24} : /\ report.visib \in {None, Bad} \/ v < report.visib
                                    /\ worse = [report EXCEPT !.visib = v]
    BY <1>6
  <2>2. /\ worse \in MetarOf!MetarReports /\ worse.visib = v
        /\ worse.icaoId = report.icaoId /\ worse.fltCat = report.fltCat
        /\ worse.clouds = report.clouds
    BY <2>1 DEF MetarOf!MetarReports, MetarOf!Values
  <2>3. Higher(MetarOf!_parse_visibility_sm(v), MetarOf!_parse_visibility_sm(report.visib))
    BY <1>0, <1>1, <2>1 DEF Higher, MetarOf!_parse_visibility_sm
  <2> QED BY <1>1, <2>2, <2>3
<1>7. layers = MetarOf!Reported(report)
  BY DEF MetarOf!Reported, Listed
<1>8. \/ worse \in MetarOf!Added(report)
      \/ \E l \in layers : worse \in MetarOf!Lowered(report, l)
      \/ worse \in MetarOf!Dimmed(report)
  BY <1>7 DEF MetarOf!Worse
<1> HIDE DEF layers
<1>9. CASE worse \in MetarOf!Added(report)
  BY <1>4, <1>7, <1>9 DEF MetarOf!Added
<1>10. CASE \E l \in layers : worse \in MetarOf!Lowered(report, l)
  BY <1>5, <1>7, <1>10 DEF MetarOf!Lowered
<1>11. CASE worse \in MetarOf!Dimmed(report)
  BY <1>6, <1>11 DEF MetarOf!Dimmed
<1> QED
  BY <1>8, <1>9, <1>10, <1>11

LEMMA WorseIsNoBetter ==
    ASSUME MetarOf!NoListIsAbsent, NEW in \in Reports
    PROVE  MetarOf!WorseReportNeverImproves(in)
<1> DEFINE obs == MetarOf!fetch_external(in.cfg, in.report, in.reference)
<1>0. None \notin Nat /\ Bad \notin Nat /\ None # Bad /\ None \notin {"low", "normal"}
  BY ReportsAssumption DEF MetarOf!Told
<1>1. in \in MetarOf!Inputs
  BY ReportsAssumption
<1>2. ASSUME in.cfg.provider = "metar", obs # None
      PROVE  LET panel == MetarOf!Panel(obs, in.local)
             IN /\ in.report.fltCat \notin DOMAIN MetarOf!Rank =>
                     \A worse \in MetarOf!Worse(in.report) :
                         MetarOf!Rank[MetarOf!fetch_external(in.cfg, worse, in.reference).category]
                             >= MetarOf!Rank[panel.category]
                /\ panel.ceiling # None => panel.marked # {}
                /\ \A l \in panel.layers, m \in panel.marked :
                      l.cover \in MetarOf!CeilingCovers /\ l.base # None => l.base >= m.base
                /\ obs.confidence = None
  <2>1. in.report \in MetarOf!MetarReports \cup {None}
    BY <1>1, <1>2 DEF MetarOf!Inputs, MetarOf!Configs
  <2>2. in.report # None
    BY <1>2 DEF MetarOf!fetch_external
  <2> DEFINE report == in.report
             layers == MetarOf!_parse_sky_layers(report.clouds)
             ceiling == MetarOf!_ceiling_ft(layers)
             panel == MetarOf!Panel(obs, in.local)
  <2>3. /\ report \in MetarOf!MetarReports /\ obs = MetarOf!normalize_metar(report)
        /\ report.icaoId \notin {None, Bad}
    BY <1>2, <2>1, <2>2, MetarIsNormalized DEF MetarOf!normalize_metar
  <2>4. obs.layers = layers /\ obs.ceiling = ceiling /\ obs.confidence = None
    BY <2>3, NormalizedLayers
  <2>5. report.clouds \in {None, Bad} \cup SUBSET MetarOf!Layers
    BY <2>3 DEF MetarOf!MetarReports
  <2>6. ASSUME report.fltCat \notin DOMAIN MetarOf!Rank, NEW worse \in MetarOf!Worse(report)
        PROVE  MetarOf!Rank[MetarOf!fetch_external(in.cfg, worse, in.reference).category]
                   >= MetarOf!Rank[panel.category]
    <3> DEFINE wceiling == MetarOf!_ceiling_ft(MetarOf!_parse_sky_layers(worse.clouds))
               see  == MetarOf!_parse_visibility_sm(report.visib)
               wsee == MetarOf!_parse_visibility_sm(worse.visib)
    <3>1. /\ worse \in MetarOf!MetarReports
          /\ worse.icaoId = report.icaoId /\ worse.fltCat = report.fltCat
          /\ Higher(wsee, see)
          /\ worse.clouds \in {None, Bad} \cup SUBSET MetarOf!Layers
      BY <2>3, WorseReports DEF MetarOf!MetarReports
    <3>2. wceiling \in Nat \cup {None} /\ ceiling \in Nat \cup {None} /\ Higher(wceiling, ceiling)
      BY <2>3, <2>5, <3>1, WorseReports, LowerCeiling
    <3>3. see \in Nat \cup {None} /\ wsee \in Nat \cup {None}
      BY <2>3, <3>1 DEF MetarOf!MetarReports, MetarOf!Values, MetarOf!_parse_visibility_sm
    <3>4. panel.category = MetarOf!_compute_flight_category(ceiling, see)
      BY <2>3, <2>6, NormalizedCategory DEF MetarOf!Panel
    <3>5. MetarOf!fetch_external(in.cfg, worse, in.reference).category
              = MetarOf!_compute_flight_category(wceiling, wsee)
      BY <1>2, <2>3, <2>6, <3>1, MetarIsNormalized, NormalizedCategory
    <3> DEFINE Feet(x) == MetarOf!Rank[MetarOf!_category_from_ceiling(x)]
               Miles(x) == MetarOf!Rank[MetarOf!_category_from_visibility(x)]
    <3> HIDE DEF panel, wceiling, see, wsee, ceiling
    <3>6. /\ MetarOf!Rank[MetarOf!_compute_flight_category(ceiling, see)]
                 = IF Feet(ceiling) >= Miles(see) THEN Feet(ceiling) ELSE Miles(see)
          /\ MetarOf!Rank[MetarOf!_compute_flight_category(wceiling, wsee)]
                 = IF Feet(wceiling) >= Miles(wsee) THEN Feet(wceiling) ELSE Miles(wsee)
      BY <1>0, <3>2, <3>3, WorstDecides
    <3>7. /\ Feet(wceiling) \in 0 .. 3 /\ Feet(wceiling) >= Feet(ceiling)
          /\ Miles(wsee) \in 0 .. 3 /\ Miles(wsee) >= Miles(see)
      BY <1>0, <3>1, <3>2, <3>3, LowerIsWorse
    <3>8. Feet(ceiling) \in 0 .. 3 /\ Miles(see) \in 0 .. 3
      BY <1>0, <3>2, <3>3, LowerIsWorse DEF Higher
    <3> HIDE DEF Feet, Miles
    <3> QED BY <3>4, <3>5, <3>6, <3>7, <3>8
  <2> DEFINE deck == IF layers = None THEN {} ELSE layers
             marked == {l \in deck : /\ ceiling # None /\ l.base = ceiling
                                     /\ l.cover \in MetarOf!CeilingCovers}
  <2>7. /\ panel.ceiling = ceiling /\ panel.layers = deck /\ panel.marked = marked
    BY <2>4 DEF MetarOf!Panel
  <2>8. /\ ceiling # None => marked # {}
        /\ \A l \in deck, m \in marked :
              l.cover \in MetarOf!CeilingCovers /\ l.base # None => l.base >= m.base
    <3>1. CASE layers = None
      BY <3>1 DEF MetarOf!_ceiling_ft
    <3>2. CASE layers # None
      <4>1. /\ Bases(layers) \subseteq Nat
        BY <2>5, <3>2, ParsedBases DEF MetarOf!_parse_sky_layers
      <4>2. IF Bases(layers) = {} THEN ceiling = None
            ELSE ceiling \in Bases(layers) /\ \A b \in Bases(layers) : ceiling <= b
        BY <3>2, <4>1, CeilingIsLowest
      <4>3. \A l \in layers :
                l.cover \in MetarOf!CeilingCovers /\ l.base # None => l.base \in Bases(layers)
        BY DEF Bases
      <4>4. \A b \in Bases(layers) :
                \E l \in layers : l.cover \in MetarOf!CeilingCovers /\ l.base = b
        BY DEF Bases
      <4> HIDE DEF layers, ceiling
      <4> QED BY <3>2, <4>1, <4>2, <4>3, <4>4
    <3> QED BY <3>1, <3>2
  <2> HIDE DEF panel, marked, deck
  <2> QED BY <2>4, <2>6, <2>7, <2>8 DEF panel
<1>3. ASSUME obs # None, obs.confidence = "low", NEW further \in 0 .. 30,
             obs.speed <= in.reference.speed => further >= in.reference.speed,
             obs.speed > in.reference.speed => further <= in.reference.speed
      PROVE  MetarOf!fetch_external(in.cfg, in.report,
                                    [in.reference EXCEPT !.speed = further]).confidence = "low"
  <2>1. in.cfg.provider # "metar"
    BY <1>0, <1>2, <1>3
  <2>2. /\ in.report \in MetarOf!WindReports \cup {None}
        /\ in.reference \in MetarOf!WindReports \cup {None}
        /\ in.cfg.provider \in {"open-meteo", "nws", "wunderground"}
    BY <1>1, <2>1 DEF MetarOf!Inputs, MetarOf!Configs
  <2> DEFINE bare == CASE in.cfg.provider = "nws" -> MetarOf!_fetch_nws(in.cfg, in.report)
                       [] in.cfg.provider = "wunderground" ->
                              MetarOf!_fetch_wunderground(in.cfg, in.report)
                       [] OTHER -> MetarOf!normalize_open_meteo(in.report)
             kept == bare = None \/ ~in.cfg.cross_check \/ in.cfg.provider \in {"nws", "metar"}
             other == [in.reference EXCEPT !.speed = further]
  <2>3. in.report # None
    BY <1>3 DEF MetarOf!fetch_external
  <2>4. \A reference :
            MetarOf!fetch_external(in.cfg, in.report, reference)
                = IF kept THEN bare ELSE MetarOf!_apply_cross_check(bare, reference)
    BY <2>1, <2>2, <2>3 DEF MetarOf!fetch_external
  <2>5. bare # None
    BY <1>3, <2>4
  <2>6. /\ bare.confidence = None /\ bare.speed = MetarOf!_num(in.report.speed)
        /\ \A c : /\ [bare EXCEPT !.confidence = c].confidence = c
                  /\ [bare EXCEPT !.confidence = c].speed = bare.speed
    <3> USE DEF MetarOf!Wind, MetarOf!Nothing
    <3>1. CASE in.cfg.provider = "nws"
      BY <3>1 DEF MetarOf!_fetch_nws, MetarOf!normalize_nws
    <3>2. CASE in.cfg.provider = "wunderground"
      BY <2>5, <3>2 DEF MetarOf!_fetch_wunderground, MetarOf!normalize_wunderground
    <3>3. CASE in.cfg.provider \notin {"nws", "wunderground"}
      BY <3>3 DEF MetarOf!normalize_open_meteo
    <3> QED BY <3>1, <3>2, <3>3
  <2> HIDE DEF bare
  <2>7. ~kept /\ obs = MetarOf!_apply_cross_check(bare, in.reference)
    BY <1>0, <1>3, <2>4, <2>6
  <2> HIDE DEF kept
  <2>8. /\ in.reference # None /\ obs.speed = bare.speed
        /\ MetarOf!assess_confidence(bare.speed, MetarOf!_num(in.reference.speed)) = "low"
    BY <1>0, <1>3, <2>6, <2>7 DEF MetarOf!_apply_cross_check
  <2>9. /\ in.reference \in MetarOf!WindReports /\ other \in MetarOf!WindReports
        /\ other.speed = further
    BY <2>2, <2>8 DEF MetarOf!WindReports, MetarOf!Values
  <2>10. /\ other # None
         /\ MetarOf!fetch_external(in.cfg, in.report, other).confidence
                = MetarOf!assess_confidence(bare.speed, MetarOf!_num(further))
    <3>1. other # None
      BY <2>9, ReportsAssumption DEF MetarOf!Told
    <3> HIDE DEF other
    <3>2. MetarOf!fetch_external(in.cfg, in.report, other)
              = [bare EXCEPT !.confidence =
                   MetarOf!assess_confidence(bare.speed, MetarOf!_num(further))]
      BY <2>4, <2>7, <2>9, <3>1 DEF MetarOf!_apply_cross_check
    <3> QED BY <2>6, <3>1, <3>2
  <2> DEFINE a == bare.speed
             b == in.reference.speed
  <2>11. /\ a \in Nat /\ b \in Nat
         /\ MetarOf!assess_confidence(a, b) = "low"
         /\ MetarOf!_num(further) = further
    <3>1. a \in Nat \cup {None} /\ b \in Nat \cup {None, Bad}
      <4>1. in.report.speed \in Nat \cup {None, Bad} /\ b \in Nat \cup {None, Bad}
        BY <2>2, <2>3, <2>9 DEF MetarOf!WindReports, MetarOf!Values
      <4> QED BY <2>6, <4>1 DEF MetarOf!_num
    <3>2. a # None /\ MetarOf!_num(b) # None
      BY <2>8 DEF MetarOf!assess_confidence
    <3>3. further # Bad
      BY <1>0
    <3> QED BY <1>0, <2>8, <3>1, <3>2, <3>3 DEF MetarOf!_num
  <2> HIDE DEF a, b
  <2>12. \A c \in Nat :
            /\ MetarOf!assess_confidence(a, c) \in {"low", "normal"}
            /\ MetarOf!assess_confidence(a, c) = "low"
                   <=> LET diff == IF a >= c THEN a - c ELSE c - a
                       IN diff > 5 /\ 2 * diff > a /\ 2 * diff > c
    <3> TAKE c \in Nat
    <3>1. MetarOf!Max({a, c}) - MetarOf!Min({a, c}) = IF a >= c THEN a - c ELSE c - a
      BY <2>11, MaxOfTwo, MinOfTwo
    <3>2. LET m == MetarOf!Max({a, c, 1})
          IN m \in {a, c, 1} /\ m >= a /\ m >= c /\ m >= 1
      BY <2>11, MaxOfThree
    <3>3. None \notin {a, c}
      BY <1>0, <2>11
    <3> QED BY <2>11, <3>1, <3>2, <3>3 DEF MetarOf!assess_confidence
  <2>13. MetarOf!assess_confidence(a, further) = "low"
    BY <1>3, <2>8, <2>11, <2>12 DEF a, b
  <2> QED BY <2>10, <2>11, <2>13 DEF a
<1> HIDE DEF obs
<1>4. obs # None /\ obs.confidence = "low" => in.cfg.provider # "metar"
  BY <1>0, <1>2
<1> QED BY <1>2, <1>3 DEF MetarOf!WorseReportNeverImproves, obs

(* A report that is worse in one respect is in no better a category, of    *)
(* however many layers (providers.py:341-381, 487-497).                    *)
THEOREM WorseWeatherIsNoBetter ==
    MetarOf!NoListIsAbsent => (Spec => []WorseReportNeverImproves)
<1> SUFFICES ASSUME MetarOf!NoListIsAbsent PROVE Spec => []WorseReportNeverImproves
  OBVIOUS
<1>1. AskedItsOwn => WorseReportNeverImproves
  BY WorseIsNoBetter DEF AskedItsOwn, WorseReportNeverImproves, About
<1> QED BY <1>1, AskedItsOwnAlways, PTL

-----------------------------------------------------------------------------
(* The airport: what angles do *)

LEMMA TurnedBack ==
    ASSUME NEW a \in AirportOf!Angles, NEW b \in AirportOf!Angles
    PROVE  /\ AirportOf!Turned(a, b) \in AirportOf!Angles
           /\ AirportOf!Turned(a, -b) \in AirportOf!Angles
           /\ AirportOf!Turned(AirportOf!Turned(a, b), -b) = a
<1> USE DEF AirportOf!Angles, AirportOf!Turned
<1>1. (a + b) % 12 \in {a + b, a + b - 12}
  OBVIOUS
<1>2. (a + -b) % 12 \in {a - b, a - b + 12}
  OBVIOUS
<1> QED BY <1>1, <1>2

(* The angle between two directions is the same in both frames. *)
LEMMA FramesAgree ==
    ASSUME NEW a \in AirportOf!Angles, NEW b \in AirportOf!Angles, NEW v \in AirportOf!Angles
    PROVE  (AirportOf!Turned(a, -v) - AirportOf!Turned(b, -v)) % 12 = (a - b) % 12
<1> USE DEF AirportOf!Angles, AirportOf!Turned
<1>1. (a + -v) % 12 \in {a - v, a - v + 12} /\ (b + -v) % 12 \in {b - v, b - v + 12}
  OBVIOUS
<1> DEFINE x == (a + -v) % 12
           y == (b + -v) % 12
<1>2. x - y \in {a - b - 12, a - b, a - b + 12}
  BY <1>1
<1> HIDE DEF x, y
<1>3. (x - y) % 12 = (a - b) % 12
  BY <1>2
<1> QED BY <1>3 DEF x, y

(* How far the wind is off an end, and to which side. *)
LEMMA OffTheEnd ==
    ASSUME NEW from \in AirportOf!Angles, NEW heading \in AirportOf!Angles
    PROVE  LET off == (from - heading) % 12
               alpha == AirportOf!Alpha(from, heading)
           IN /\ off \in 0 .. 11
              /\ alpha = IF off <= 6 THEN off ELSE off - 12
              /\ AirportOf!Magnitude(alpha) = IF off <= 6 THEN off ELSE 12 - off
<1> DEFINE off == (from - heading) % 12
           shifted == (from - heading + 6) % 12
<1>1. off \in 0 .. 11 /\ shifted = IF off < 6 THEN off + 6 ELSE off - 6
  BY DEF AirportOf!Angles
<1>2. AirportOf!Alpha(from, heading) = IF shifted - 6 = -6 THEN 6 ELSE shifted - 6
  BY DEF AirportOf!Alpha, AirportOf!_norm_180
<1> HIDE DEF off, shifted
<1>3. AirportOf!Alpha(from, heading) = IF off <= 6 THEN off ELSE off - 12
  BY <1>1, <1>2
<1> QED BY <1>1, <1>3 DEF AirportOf!Magnitude, off

LEMMA CosineValues ==
    /\ AirportOf!Cosine[0] = 1000 /\ AirportOf!Cosine[1] = 866 /\ AirportOf!Cosine[2] = 500
    /\ AirportOf!Cosine[3] = 0 /\ AirportOf!Cosine[4] = -500 /\ AirportOf!Cosine[5] = -866
    /\ AirportOf!Cosine[6] = -1000
  BY DEF AirportOf!Cosine

(* The wind along an end. *)
LEMMA HeadwindRange ==
    ASSUME NEW wind \in [from : AirportOf!Angles, kt : Nat], NEW heading \in AirportOf!Angles
    PROVE  LET a == AirportOf!Magnitude(AirportOf!Alpha(wind.from, heading)) IN
           /\ a \in 0 .. 6
           /\ AirportOf!Cosine[a] \in -1000 .. 1000
           /\ AirportOf!HeadwindFor(wind, heading) = wind.kt * AirportOf!Cosine[a]
           /\ AirportOf!HeadwindFor(wind, heading) \in Int
           /\ AirportOf!HeadwindFor(wind, heading) <= 1000 * wind.kt
<1> DEFINE a == AirportOf!Magnitude(AirportOf!Alpha(wind.from, heading))
           c == AirportOf!Cosine[a]
<1>1. a \in 0 .. 6
  BY OffTheEnd
<1> HIDE DEF a
<1>2. c \in {1000, 866, 500, 0, -500, -866, -1000}
  BY <1>1, CosineValues
<1>3. AirportOf!HeadwindFor(wind, heading) = wind.kt * c
  BY DEF AirportOf!HeadwindFor, a
<1> HIDE DEF c
<1>4. wind.kt * c \in Int /\ wind.kt * c <= 1000 * wind.kt
  BY <1>2
<1> QED BY <1>1, <1>2, <1>3, <1>4 DEF a, c

(* At the other end of the runway it blows as strongly the other way.      *)
LEMMA OtherEnd ==
    ASSUME NEW wind \in [from : AirportOf!Angles, kt : Nat], NEW heading \in AirportOf!Angles
    PROVE  AirportOf!HeadwindFor(wind, AirportOf!Turned(heading, 6))
               = -AirportOf!HeadwindFor(wind, heading)
<1> DEFINE other == AirportOf!Turned(heading, 6)
           off == (wind.from - heading) % 12
           opp == (wind.from - other) % 12
           a == AirportOf!Magnitude(AirportOf!Alpha(wind.from, heading))
           b == AirportOf!Magnitude(AirportOf!Alpha(wind.from, other))
<1>1. other \in AirportOf!Angles /\ wind.from \in AirportOf!Angles
  BY TurnedBack DEF AirportOf!Angles
<1>2. off \in 0 .. 11 /\ opp = IF off < 6 THEN off + 6 ELSE off - 6
  <2>1. other \in {heading + 6, heading - 6}
    BY DEF AirportOf!Angles, AirportOf!Turned
  <2> HIDE DEF other
  <2> QED BY <1>1, <2>1 DEF AirportOf!Angles
<1>3. /\ a = IF off <= 6 THEN off ELSE 12 - off
      /\ b = IF opp <= 6 THEN opp ELSE 12 - opp
  BY <1>1, OffTheEnd
<1> HIDE DEF other, off, opp, a, b
<1>4. a \in 0 .. 6 /\ b = 6 - a
  BY <1>2, <1>3
<1>5. AirportOf!Cosine[b] = -AirportOf!Cosine[a] /\ AirportOf!Cosine[a] \in Int
  BY <1>4, CosineValues
<1>6. /\ AirportOf!HeadwindFor(wind, heading) = wind.kt * AirportOf!Cosine[a]
      /\ AirportOf!HeadwindFor(wind, other) = wind.kt * AirportOf!Cosine[b]
  BY DEF AirportOf!HeadwindFor, a, b
<1>7. \A n \in Nat, c \in Int : n * (-c) = -(n * c)
  OBVIOUS
<1> QED BY <1>5, <1>6, <1>7 DEF other

-----------------------------------------------------------------------------
(* The runways as they are resolved *)

Headings == [true : AirportOf!Angles \cup {None}, mag : AirportOf!Angles \cup {None}]

Runways == Seq([le : Headings, he : Headings])

LEMMA ItemOf ==
    ASSUME NEW S, NEW s \in Seq(S), NEW i \in 1 .. Len(s)
    PROVE  s[i] \in S
  OBVIOUS

(* Of some ends one is favoured: the first of those with the most headwind.*)
LEMMA FavoredIsBest ==
    ASSUME NEW runways \in Runways, NEW wind \in [from : AirportOf!Angles, kt : Nat],
           AirportOf!EndsOf(runways) # {}
    PROVE  LET best == AirportOf!Favored(runways, wind)
               Headwind(e) == AirportOf!HeadwindFor(wind, runways[e[1]][e[2]].true)
           IN /\ best \in AirportOf!EndsOf(runways)
              /\ \A e \in AirportOf!EndsOf(runways) :
                    Headwind(e) \in Int /\ Headwind(e) <= Headwind(best)
<1> DEFINE ends == AirportOf!EndsOf(runways)
           H(e) == AirportOf!HeadwindFor(wind, runways[e[1]][e[2]].true)
           Best(e) == \A f \in ends \ {e} :
                         H(e) > H(f) \/ (H(e) = H(f) /\ AirportOf!Before(e, f))
<1>0. \A i \in 1 .. Len(runways) : runways[i] \in [le : Headings, he : Headings]
  BY ItemOf, Zenon DEF Runways
<1>1. \A e \in ends : /\ e = <<e[1], e[2]>> /\ e[1] \in Nat /\ e[2] \in {"le", "he"}
                      /\ runways[e[1]][e[2]].true \in AirportOf!Angles
  <2> TAKE e \in ends
  <2>1. /\ e \in (1 .. Len(runways)) \X {"le", "he"}
        /\ runways[e[1]][e[2]].true # None
    BY DEF AirportOf!EndsOf, AirportOf!Known
  <2>2. e[1] \in 1 .. Len(runways) /\ e[2] \in {"le", "he"} /\ e = <<e[1], e[2]>>
    BY <2>1
  <2>3. runways[e[1]] \in [le : Headings, he : Headings]
    BY <1>0, <2>2, Zenon
  <2>4. runways[e[1]][e[2]] \in Headings
    BY <2>2, <2>3
  <2> QED BY <2>1, <2>2, <2>4 DEF Headings
<1>2. \A e \in ends : H(e) \in Int /\ H(e) <= 1000 * wind.kt
  BY <1>1, HeadwindRange
<1> HIDE DEF H
<1> DEFINE short == {1000 * wind.kt - H(e) : e \in ends}
<1>3. PICK m \in short : \A n \in short : m <= n
  <2>1. short \in SUBSET Nat
    BY <1>2
  <2>2. short # {}
    OBVIOUS
  <2> QED BY <2>1, <2>2, LeastNatural, Zenon
<1> DEFINE most == {e \in ends : 1000 * wind.kt - H(e) = m}
           first == {e[1] : e \in most}
<1>4. PICK i \in first : \A j \in first : i <= j
  <2>1. first \in SUBSET Nat
    BY <1>1
  <2>2. first # {}
    <3>1. PICK e \in ends : m = 1000 * wind.kt - H(e)
      OBVIOUS
    <3>2. e \in most
      BY <3>1
    <3>3. e[1] \in first
      BY <3>2, Zenon
    <3> QED BY <3>3
  <2> HIDE DEF first
  <2> QED BY <2>1, <2>2, LeastNatural
<1>5. ASSUME NEW e \in most, NEW f \in ends
      PROVE  H(f) <= H(e) /\ (H(f) = H(e) => f \in most)
  <2> DEFINE Left(x) == 1000 * wind.kt - H(x)
  <2>1. e \in ends /\ Left(e) = m
    OBVIOUS
  <2>2. Left(f) \in short
    OBVIOUS
  <2>3. m <= Left(f)
    BY <1>3, <2>2
  <2>4. H(e) \in Int /\ H(f) \in Int /\ wind.kt \in Nat
    BY <1>2, <2>1
  <2>5. H(f) <= H(e)
    BY <2>1, <2>3, <2>4
  <2>6. H(f) = H(e) => Left(f) = m
    BY <2>1
  <2> QED BY <2>5, <2>6
<1>6. \A e \in most : i <= e[1] /\ e[1] \in Nat /\ e[2] \in {"le", "he"} /\ e = <<e[1], e[2]>>
  BY <1>1, <1>4
<1>7. i \in Nat /\ \E e \in most : e[1] = i
  BY <1>1, <1>4
<1> HIDE DEF most, ends
<1>8. \E e \in most : Best(e)
  <2>1. ASSUME NEW e \in most, \A f \in most : f = e \/ AirportOf!Before(e, f)
        PROVE  Best(e)
    <3> SUFFICES ASSUME NEW f \in ends \ {e}
                 PROVE  H(e) > H(f) \/ (H(e) = H(f) /\ AirportOf!Before(e, f))
      OBVIOUS
    <3>1. H(f) \in Int /\ H(e) \in Int /\ H(f) <= H(e)
      BY <1>2, <1>5 DEF most
    <3> QED BY <1>5, <2>1, <3>1
  <2>2. CASE <<i, "le">> \in most
    <3>1. \A f \in most : f = <<i, "le">> \/ AirportOf!Before(<<i, "le">>, f)
      BY <1>6, <1>7 DEF AirportOf!Before
    <3> QED BY <2>1, <2>2, <3>1
  <2>3. CASE <<i, "le">> \notin most
    <3>1. <<i, "he">> \in most
      BY <1>6, <1>7, <2>3
    <3>2. \A f \in most : f = <<i, "he">> \/ AirportOf!Before(<<i, "he">>, f)
      BY <1>6, <1>7, <2>3 DEF AirportOf!Before
    <3> QED BY <2>1, <3>1, <3>2
  <2> QED BY <2>2, <2>3
<1> DEFINE best == AirportOf!Favored(runways, wind)
<1>9. best = CHOOSE e \in ends : Best(e)
  BY DEF AirportOf!Favored, H, ends
<1> HIDE DEF best, Best
<1>10. best \in ends /\ Best(best)
  <2>1. \E e \in ends : Best(e)
    BY <1>8 DEF most
  <2> QED BY <1>9, <2>1, Zenon
<1>11. \A e \in ends : H(e) <= H(best)
  <2> TAKE e \in ends
  <2>1. H(e) \in Int /\ H(best) \in Int
    BY <1>2, <1>10
  <2>2. e = best \/ H(best) > H(e) \/ H(best) = H(e)
    BY <1>10 DEF Best
  <2> QED BY <2>1, <2>2
<1> QED BY <1>2, <1>10, <1>11 DEF ends, H, best

(* Part one of what an answer must be right about, whatever the runways.   *)
LEMMA FavoredFaces ==
    ASSUME NEW runways \in Runways, NEW wind \in [from : AirportOf!Angles, kt : Nat] \cup {None},
           NEW limit, NEW solution, solution = AirportOf!runway_solution(runways, wind, limit)
    PROVE  AirportOf!FavoredFacesTheWind(runways, wind, solution)
<1> DEFINE ends == AirportOf!EndsOf(runways)
           best == AirportOf!Favored(runways, wind)
           H(e) == AirportOf!HeadwindFor(wind, runways[e[1]][e[2]].true)
<1> SUFFICES ASSUME solution # None, solution.favored # None
             PROVE  /\ \A e \in ends :
                          solution.ends[e].headwind <= solution.ends[solution.favored].headwind
                    /\ (\E i \in DOMAIN runways :
                           /\ AirportOf!Known(runways[i].le.true)
                           /\ AirportOf!Known(runways[i].he.true)
                           /\ runways[i].he.true = AirportOf!Turned(runways[i].le.true, 6))
                       => ~solution.ends[solution.favored].tailwind
  BY DEF AirportOf!FavoredFacesTheWind
<1>1. wind # None /\ ends # {} /\ wind \in [from : AirportOf!Angles, kt : Nat]
  BY DEF AirportOf!runway_solution
<1>2. /\ solution.favored = best
      /\ solution.ends = [e \in ends |-> AirportOf!Solved(runways, e, wind, limit)]
  BY <1>1 DEF AirportOf!runway_solution
<1>3. /\ best \in ends
      /\ \A e \in ends : H(e) \in Int /\ H(e) <= H(best)
  BY <1>1, FavoredIsBest
<1>4. \A e \in ends : /\ solution.ends[e].headwind = H(e)
                      /\ solution.ends[e].tailwind <=> H(e) < 0
  <2> TAKE e \in ends
  <2>1. solution.ends[e] = AirportOf!Solved(runways, e, wind, limit)
    BY <1>2
  <2> DEFINE solved == AirportOf!Solved(runways, e, wind, limit)
  <2>2. solved.headwind = H(e) /\ solved.tailwind = (H(e) < 0)
    BY DEF AirportOf!Solved, AirportOf!_solve_end
  <2> HIDE DEF solved, H
  <2> QED BY <2>1, <2>2, Zenon DEF solved
<1>5. ASSUME NEW i \in DOMAIN runways, AirportOf!Known(runways[i].le.true),
             AirportOf!Known(runways[i].he.true),
             runways[i].he.true = AirportOf!Turned(runways[i].le.true, 6)
      PROVE  0 <= H(best)
  <2> DEFINE low == <<i, "le">>
             high == <<i, "he">>
  <2>1. i \in 1 .. Len(runways)
    BY DEF Runways
  <2>2. low \in ends /\ high \in ends
    BY <1>5, <2>1 DEF AirportOf!EndsOf
  <2>3. runways[i].le.true \in AirportOf!Angles
    <3>1. runways[i] \in [le : Headings, he : Headings]
      BY <2>1, ItemOf, Zenon DEF Runways
    <3>2. runways[i].le \in Headings
      BY <3>1
    <3> QED BY <1>5, <3>2 DEF Headings, AirportOf!Known
  <2>4. /\ H(low) = AirportOf!HeadwindFor(wind, runways[i].le.true)
        /\ H(high) = AirportOf!HeadwindFor(wind, runways[i].he.true)
    OBVIOUS
  <2>5. H(high) = -H(low)
    BY <1>1, <1>5, <2>3, <2>4, OtherEnd
  <2> HIDE DEF H, low, high, best
  <2> QED BY <1>3, <2>2, <2>5
<1> HIDE DEF H, best, ends
<1>6. H(best) \in Int
  BY <1>3
<1> QED BY <1>2, <1>3, <1>4, <1>5, <1>6

(* A runway whose headings agree, whoever wrote them down: the magnetic    *)
(* heading is the true one less the variation, where both are known.       *)
Consistent(runways, variation) ==
    \A i \in 1 .. Len(runways) : \A side \in {"le", "he"} :
        LET end == runways[i][side]
        IN end.true # None /\ variation # None /\ end.mag # None =>
               end.mag = AirportOf!Turned(end.true, -variation)

LEMMA CompassIsRight ==
    ASSUME NEW airport, airport.runways \in Runways,
           airport.variation \in AirportOf!Angles \cup {None},
           Consistent(airport.runways, airport.variation),
           NEW wind \in [from : AirportOf!Angles, kt : Nat] \cup {None},
           NEW limit, NEW solution,
           solution = AirportOf!runway_solution(airport.runways, wind, limit)
    PROVE  AirportOf!CompassAgrees(airport, wind, solution)
<1> DEFINE Bearing(i) == AirportOf!RunwayBearing(airport.runways[i], airport.variation)
           arrow == AirportOf!WindArrow(wind, airport.variation)
           Drawn(i) == (arrow - Bearing(i)) % 12
           Low(i) == solution.ends[<<i, "le">>]
<1> SUFFICES ASSUME NEW i \in DOMAIN airport.runways,
                    solution # None, Bearing(i) # None, arrow # None,
                    airport.runways[i].le.true # None
             PROVE  /\ Low(i).headwind
                           = wind.kt * AirportOf!Cosine[IF Drawn(i) > 6 THEN 12 - Drawn(i)
                                                        ELSE Drawn(i)]
                    /\ wind.kt > 0 => /\ (Low(i).side = "R") = (Drawn(i) \in 1 .. 5)
                                      /\ (Low(i).side = "L") = (Drawn(i) \in 7 .. 11)
  BY Zenon DEF AirportOf!CompassAgrees, AirportOf!Known
<1> DEFINE le == airport.runways[i].le
           variation == airport.variation
           heading == le.true
           off == (wind.from - heading) % 12
           alpha == AirportOf!Alpha(wind.from, heading)
           a == AirportOf!Magnitude(alpha)
           cross == AirportOf!CrosswindFor(wind, heading)
<1>1. /\ wind \in [from : AirportOf!Angles, kt : Nat] /\ wind # None
      /\ variation # None /\ variation \in AirportOf!Angles
      /\ arrow = AirportOf!Turned(wind.from, -variation)
  BY DEF AirportOf!runway_solution, AirportOf!WindArrow, AirportOf!Known
<1>2. i \in 1 .. Len(airport.runways) /\ le \in Headings /\ heading \in AirportOf!Angles
  <2>1. i \in 1 .. Len(airport.runways)
    BY DEF Runways
  <2>2. airport.runways[i] \in [le : Headings, he : Headings]
    BY <2>1, ItemOf, Zenon DEF Runways
  <2>3. le \in Headings
    BY <2>2
  <2> QED BY <2>1, <2>3 DEF Headings
<1>3. Bearing(i) = AirportOf!Turned(heading, -variation)
  <2>1. airport.runways[i]["le"] = le
    OBVIOUS
  <2>2. le.mag # None => le.mag = AirportOf!Turned(heading, -variation)
    BY <1>1, <1>2, <2>1 DEF Consistent
  <2> QED BY <1>1, <2>2 DEF AirportOf!RunwayBearing, AirportOf!Known
<1>4. Drawn(i) = off
  BY <1>1, <1>2, <1>3, FramesAgree
<1>5. /\ off \in 0 .. 11
      /\ alpha = IF off <= 6 THEN off ELSE off - 12
      /\ a = IF off <= 6 THEN off ELSE 12 - off
  BY <1>1, <1>2, OffTheEnd
<1>6. /\ Low(i).headwind = wind.kt * AirportOf!Cosine[a]
      /\ Low(i).side = IF cross = 0 THEN None ELSE IF alpha > 0 THEN "R" ELSE "L"
  <2> DEFINE ends == AirportOf!EndsOf(airport.runways)
             low == <<i, "le">>
  <2>1. low \in ends
    BY <1>2 DEF AirportOf!EndsOf, AirportOf!Known
  <2>2. solution.ends = [e \in ends |-> AirportOf!Solved(airport.runways, e, wind, limit)]
    BY <1>1 DEF AirportOf!runway_solution
  <2>3. Low(i) = AirportOf!_solve_end(i, "le", heading, wind, limit)
    BY <2>1, <2>2 DEF AirportOf!Solved
  <2> QED BY <2>3 DEF AirportOf!_solve_end, AirportOf!HeadwindFor
<1>7. cross = wind.kt * AirportOf!Cosine[AirportOf!Magnitude(3 - a)]
  BY DEF AirportOf!CrosswindFor
<1> HIDE DEF Drawn, Low, off, alpha, a, cross, heading
<1>8. wind.kt > 0 => (cross = 0 <=> off \in {0, 6})
  <2> DEFINE b == AirportOf!Magnitude(3 - a)
  <2>1. b = IF a <= 3 THEN 3 - a ELSE a - 3
    BY <1>5 DEF AirportOf!Magnitude
  <2> HIDE DEF b
  <2>2. b \in {0, 1, 2, 3} /\ (b = 3 <=> off \in {0, 6})
    BY <1>5, <2>1
  <2> DEFINE c == AirportOf!Cosine[b]
  <2>3. c \in {1000, 866, 500, 0} /\ (c = 0 <=> off \in {0, 6})
    BY <2>2, CosineValues
  <2>4. cross = wind.kt * c /\ wind.kt \in Nat
    BY <1>1, <1>7 DEF b
  <2> HIDE DEF c
  <2> QED BY <2>3, <2>4
<1>9. a = IF off > 6 THEN 12 - off ELSE off
  BY <1>5
<1>10. None \notin {"L", "R"}
  BY FieldsAssumption
<1>11. wind.kt > 0 => /\ (Low(i).side = "R") <=> off \in 1 .. 5
                      /\ (Low(i).side = "L") <=> off \in 7 .. 11
  BY <1>5, <1>6, <1>8, <1>10
<1> QED BY <1>4, <1>6, <1>9, <1>11

(* What becomes of one end. *)
LEMMA EndIsResolved ==
    ASSUME NEW end \in AirportOf!Ends, NEW decl \in AirportOf!Angles \cup {None}
    PROVE  LET resolved == AirportOf!_resolve_end(end, decl) IN
           /\ resolved \in Headings
           /\ resolved.true # None /\ decl # None =>
                  resolved.mag = AirportOf!Turned(resolved.true, -decl)
           /\ end.heading = None /\ end.number # None /\ decl # None =>
                  resolved.mag = end.number
<1>1. /\ end.heading \in AirportOf!Angles \cup {None}
      /\ end.number \in AirportOf!Angles \cup {None}
      /\ None \notin AirportOf!Angles
  BY FieldsAssumption DEF AirportOf!Ends, AirportOf!Angles
<1>2. \A a, b \in AirportOf!Angles :
          /\ AirportOf!Turned(a, b) \in AirportOf!Angles
          /\ AirportOf!Turned(a, -b) \in AirportOf!Angles
          /\ AirportOf!Turned(AirportOf!Turned(a, b), -b) = a
  BY TurnedBack
<1> QED BY <1>1, <1>2 DEF AirportOf!_resolve_end, AirportOf!Known, Headings

LEMMA ConfiguredIsResolved ==
    ASSUME NEW mag \in AirportOf!Angles \cup {None}, NEW decl \in AirportOf!Angles \cup {None}
    PROVE  LET runway == AirportOf!_runway_from_config(mag, decl) IN
           /\ runway \in [le : Headings, he : Headings]
           /\ \A side \in {"le", "he"} :
                  runway[side].true # None /\ decl # None =>
                      runway[side].mag = AirportOf!Turned(runway[side].true, -decl)
<1>1. None \notin AirportOf!Angles /\ 6 \in AirportOf!Angles
  BY FieldsAssumption DEF AirportOf!Angles
<1>2. \A a, b \in AirportOf!Angles :
          /\ AirportOf!Turned(a, b) \in AirportOf!Angles
          /\ AirportOf!Turned(AirportOf!Turned(a, b), -b) = a
  BY TurnedBack
<1> DEFINE End(m) == [true |-> IF m # None /\ decl # None THEN AirportOf!Turned(m, decl) ELSE None,
                      mag |-> m]
           far == IF mag # None THEN AirportOf!Turned(mag, 6) ELSE None
<1>3. AirportOf!_runway_from_config(mag, decl) = [le |-> End(mag), he |-> End(far)]
  BY DEF AirportOf!_runway_from_config, AirportOf!Known
<1>4. mag \in AirportOf!Angles \cup {None} /\ far \in AirportOf!Angles \cup {None}
  BY <1>1, <1>2
<1>5. ASSUME NEW m \in AirportOf!Angles \cup {None}
      PROVE  /\ End(m) \in Headings
             /\ End(m).true # None /\ decl # None =>
                    End(m).mag = AirportOf!Turned(End(m).true, -decl)
  BY <1>1, <1>2 DEF Headings
<1> HIDE DEF End, far
<1> QED BY <1>3, <1>4, <1>5

LEMMA DatasetIsRight ==
    ASSUME NEW record \in AirportOf!Records, NEW source, NEW alt, NEW config
    PROVE  LET airport == AirportOf!_from_dataset(record, source, alt, config) IN
           /\ airport.ident = record.ident /\ airport.source = source
           /\ airport.runways \in Runways
           /\ airport.variation \in AirportOf!Angles \cup {None}
           /\ Consistent(airport.runways, airport.variation)
           /\ AirportOf!NumberIsMagnetic(record, airport)
<1> DEFINE airport == AirportOf!_from_dataset(record, source, alt, config)
           rows == record.runways
           decl == record.decl
           Row(i) == [le |-> AirportOf!_resolve_end(rows[i].le, decl),
                      he |-> AirportOf!_resolve_end(rows[i].he, decl)]
<1>1. rows \in Seq(AirportOf!Rows) /\ decl \in AirportOf!Angles \cup {None}
  BY DEF AirportOf!Records
<1>2. /\ airport.ident = record.ident /\ airport.source = source /\ airport.variation = decl
      /\ airport.runways = [i \in DOMAIN rows |-> Row(i)]
  BY DEF AirportOf!_from_dataset, AirportOf!Mapped, AirportOf!_runway_from_dataset
<1> HIDE DEF airport, rows, decl
<1>3. ASSUME NEW i \in 1 .. Len(rows)
      PROVE  rows[i].le \in AirportOf!Ends /\ rows[i].he \in AirportOf!Ends
  <2>1. rows[i] \in AirportOf!Rows
    BY <1>1, ItemOf, Zenon
  <2> QED BY <2>1 DEF AirportOf!Rows
<1>4. ASSUME NEW i \in 1 .. Len(rows), NEW side \in {"le", "he"}
      PROVE  /\ Row(i)[side] \in Headings
             /\ Row(i)[side].true # None /\ decl # None =>
                    Row(i)[side].mag = AirportOf!Turned(Row(i)[side].true, -decl)
             /\ rows[i][side].heading = None /\ rows[i][side].number # None /\ decl # None =>
                    Row(i)[side].mag = rows[i][side].number
  <2>1. Row(i)[side] = AirportOf!_resolve_end(rows[i][side], decl)
    OBVIOUS
  <2>2. rows[i][side] \in AirportOf!Ends
    BY <1>3
  <2> HIDE DEF Row
  <2> QED BY <1>1, <2>1, <2>2, EndIsResolved
<1>5. \A i : Row(i) = [le |-> Row(i).le, he |-> Row(i).he]
  OBVIOUS
<1> HIDE DEF Row
<1>6. DOMAIN rows = 1 .. Len(rows) /\ Len(rows) \in Nat
  BY <1>1
<1>7. airport.runways \in Runways
  <2>1. \A i \in 1 .. Len(rows) : Row(i) \in [le : Headings, he : Headings]
    BY <1>4, <1>5
  <2> QED BY <1>2, <1>6, <2>1 DEF Runways
<1>8. Consistent(airport.runways, airport.variation)
  <2>1. Len(airport.runways) = Len(rows)
    BY <1>2, <1>6
  <2> QED BY <1>2, <1>4, <1>6, <2>1 DEF Consistent
<1>9. AirportOf!NumberIsMagnetic(record, airport)
  BY <1>2, <1>4, <1>6 DEF AirportOf!NumberIsMagnetic, AirportOf!Known, rows, decl
<1> QED BY <1>1, <1>2, <1>7, <1>8, <1>9 DEF airport

LEMMA ManualIsRight ==
    ASSUME NEW config, config.runways \in Seq(AirportOf!Angles \cup {None}),
           NEW place, NEW alt, NEW decl \in AirportOf!Angles \cup {None}
    PROVE  LET airport == AirportOf!_from_manual(config, place, alt, decl) IN
           /\ config.ident # None => airport.ident = config.ident
           /\ airport.source = "manual"
           /\ airport.runways \in Runways
           /\ airport.variation \in AirportOf!Angles \cup {None}
           /\ Consistent(airport.runways, airport.variation)
<1> DEFINE airport == AirportOf!_from_manual(config, place, alt, decl)
           mags == config.runways
           here == IF place THEN decl ELSE None
           Row(i) == AirportOf!_runway_from_config(mags[i], here)
<1>1. here \in AirportOf!Angles \cup {None}
  OBVIOUS
<1>2. /\ config.ident # None => airport.ident = config.ident
      /\ airport.source = "manual" /\ airport.variation = here
      /\ airport.runways = [i \in DOMAIN mags |-> Row(i)]
  BY DEF AirportOf!_from_manual, AirportOf!Mapped
<1> HIDE DEF airport, mags, here
<1>3. ASSUME NEW i \in 1 .. Len(mags)
      PROVE  /\ Row(i) \in [le : Headings, he : Headings]
             /\ \A side \in {"le", "he"} :
                    Row(i)[side].true # None /\ here # None =>
                        Row(i)[side].mag = AirportOf!Turned(Row(i)[side].true, -here)
  <2>1. mags[i] \in AirportOf!Angles \cup {None}
    BY ItemOf, Zenon DEF mags
  <2> QED BY <1>1, <2>1, ConfiguredIsResolved
<1> HIDE DEF Row
<1>4. DOMAIN mags = 1 .. Len(mags) /\ Len(mags) \in Nat
  BY DEF mags
<1>5. airport.runways \in Runways
  BY <1>2, <1>3, <1>4 DEF Runways
<1>6. Consistent(airport.runways, airport.variation)
  <2>1. Len(airport.runways) = Len(mags)
    BY <1>2, <1>4
  <2> QED BY <1>2, <1>3, <1>4, <2>1 DEF Consistent
<1> QED BY <1>1, <1>2, <1>5, <1>6 DEF airport

LEMMA AirportIsRight ==
    ASSUME NEW in \in Fields
    PROVE  AirportOf!AirportAnswerIsRight(in)
<1> DEFINE answered == AirportOf!build_airport(in)
           info == AirportOf!resolve_airport(in.config, in.named, in.nearest, in.place, in.alt,
                                             in.decl)
           airport == IF answered = None THEN None ELSE answered.info
<1>1. /\ in.config.runways \in Seq(AirportOf!Angles \cup {None})
      /\ in.named \in AirportOf!Records \cup {None} /\ in.nearest \in AirportOf!Records
      /\ in.decl \in AirportOf!Angles \cup {None}
      /\ in.wind \in [from : AirportOf!Angles, kt : Nat] \cup {None}
      /\ in.config.ident # None /\ in.named # None => in.named.ident = in.config.ident
  BY FieldsAssumption DEF AirportOf!Inputs
<1>2. airport # None =>
        /\ airport = info
        /\ answered.solution = AirportOf!runway_solution(airport.runways, in.wind, in.limit)
  BY DEF AirportOf!build_airport
<1>3. ASSUME airport # None
      PROVE  /\ airport.runways \in Runways
             /\ airport.variation \in AirportOf!Angles \cup {None}
             /\ Consistent(airport.runways, airport.variation)
             /\ in.config.ident # None => airport.ident = in.config.ident
             /\ airport.source = "gps_nearest" => in.place
             /\ airport.source = "config_override" =>
                    AirportOf!NumberIsMagnetic(in.named, airport)
             /\ airport.source = "gps_nearest" =>
                    AirportOf!NumberIsMagnetic(in.nearest, airport)
  <2> HIDE DEF airport
  <2>1. CASE in.config.ident # None /\ in.named # None
    <3>1. airport = AirportOf!_from_dataset(in.named, "config_override", in.alt, in.config)
      BY <1>2, <1>3, <2>1 DEF AirportOf!resolve_airport
    <3>2. airport.source = "config_override" /\ in.named \in AirportOf!Records
      BY <1>1, <2>1, <3>1, DatasetIsRight
    <3> QED BY <1>1, <2>1, <3>1, <3>2, DatasetIsRight
  <2>2. CASE in.config.ident = None /\ in.place
    <3>1. airport = AirportOf!_from_dataset(in.nearest, "gps_nearest", in.alt, in.config)
      BY <1>2, <1>3, <2>2 DEF AirportOf!resolve_airport
    <3>2. airport.source = "gps_nearest"
      BY <1>1, <3>1, DatasetIsRight
    <3> QED BY <1>1, <2>2, <3>1, <3>2, DatasetIsRight
  <2>3. CASE ~(in.config.ident # None /\ in.named # None)
             /\ ~(in.config.ident = None /\ in.place)
    <3>1. airport = AirportOf!_from_manual(in.config, in.place, in.alt, in.decl)
      BY <1>2, <1>3, <2>3 DEF AirportOf!resolve_airport
    <3>2. airport.source = "manual"
      BY <1>1, <3>1, ManualIsRight
    <3> QED BY <1>1, <2>3, <3>1, <3>2, ManualIsRight
  <2> QED BY <2>1, <2>2, <2>3
<1> HIDE DEF airport
<1>4. airport # None =>
          /\ AirportOf!FavoredFacesTheWind(airport.runways, in.wind, answered.solution)
          /\ AirportOf!CompassAgrees(airport, in.wind, answered.solution)
  BY <1>1, <1>2, <1>3, FavoredFaces, CompassIsRight
<1>5. AirportOf!FieldIsTheOneMeant(in, airport)
  BY <1>3 DEF AirportOf!FieldIsTheOneMeant
<1> QED BY <1>3, <1>4, <1>5, Zenon DEF AirportOf!AirportAnswerIsRight, airport

(* The answer about the airport is right for every configuration, dataset  *)
(* and wind: the field meant, the end that faces the wind, and a compass   *)
(* that agrees with the components (airport.py:333-369).                   *)
THEOREM AirportsAreRight == Spec => []AirportAnswerIsRight
<1>1. AskedItsOwn => AirportAnswerIsRight
  BY AirportIsRight DEF AskedItsOwn, AirportAnswerIsRight, About
<1> QED BY <1>1, AskedItsOwnAlways, PTL

-----------------------------------------------------------------------------
(* The sky: what its operators return *)

LEMMA SkyMaxOfTwo ==
    ASSUME NEW a \in Int, NEW b \in Int
    PROVE  SkyOf!Max({a, b}) = IF a >= b THEN a ELSE b
<1>1. \E x \in {a, b} : \A y \in {a, b} : x >= y
  OBVIOUS
<1>2. /\ SkyOf!Max({a, b}) \in {a, b}
      /\ \A y \in {a, b} : SkyOf!Max({a, b}) >= y
  BY <1>1, Zenon DEF SkyOf!Max
<1> QED BY <1>2

LEMMA SkyMinOfTwo ==
    ASSUME NEW a \in Int, NEW b \in Int
    PROVE  SkyOf!Min({a, b}) = IF a <= b THEN a ELSE b
<1>1. \E x \in {a, b} : \A y \in {a, b} : x <= y
  OBVIOUS
<1>2. /\ SkyOf!Min({a, b}) \in {a, b}
      /\ \A y \in {a, b} : SkyOf!Min({a, b}) <= y
  BY <1>1, Zenon DEF SkyOf!Min
<1> QED BY <1>2

LEMMA SkyMinIsLeast ==
    ASSUME NEW S \in SUBSET Nat, S # {}
    PROVE  SkyOf!Min(S) \in S /\ \A y \in S : SkyOf!Min(S) <= y
  BY LeastNatural DEF SkyOf!Min

LEMMA ClampStays ==
    ASSUME NEW n \in Int, NEW low \in Int, NEW high \in Int, low <= high
    PROVE  SkyOf!Clamp(n, low, high)
               = IF n < low THEN low ELSE IF n > high THEN high ELSE n
<1>1. SkyOf!Min({n, high}) = IF n <= high THEN n ELSE high
  BY SkyMinOfTwo
<1>2. SkyOf!Min({n, high}) \in Int
  BY <1>1
<1>3. SkyOf!Max({low, SkyOf!Min({n, high})})
          = IF low >= SkyOf!Min({n, high}) THEN low ELSE SkyOf!Min({n, high})
  BY <1>2, SkyMaxOfTwo
<1> QED BY <1>1, <1>3 DEF SkyOf!Clamp

-----------------------------------------------------------------------------
(* The light *)

LEMMA BrighterIsClearer ==
    ASSUME NEW lux \in Nat \cup {None}, NEW altitude \in Int
    PROVE  SkyOf!BrighterIsClearer(lux, altitude)
<1> SUFFICES ASSUME SkyOf!cloud_cover_pct(lux, altitude) # None, NEW brighter \in lux .. 120
             PROVE  SkyOf!cloud_cover_pct(brighter, altitude)
                        <= SkyOf!cloud_cover_pct(lux, altitude)
  BY DEF SkyOf!BrighterIsClearer
<1>1. lux \in Nat /\ lux # None /\ ~(altitude < SkyOf!MinReliableAltitude)
  BY SkiesAssumption DEF SkyOf!cloud_cover_pct
<1>2. brighter \in Int /\ brighter >= lux /\ brighter # None
  BY <1>1, SkiesAssumption
<1>3. /\ SkyOf!cloud_cover_pct(lux, altitude) = SkyOf!Clamp(100 - lux, 0, 100)
      /\ SkyOf!cloud_cover_pct(brighter, altitude) = SkyOf!Clamp(100 - brighter, 0, 100)
  BY <1>1, <1>2 DEF SkyOf!cloud_cover_pct
<1>4. /\ SkyOf!Clamp(100 - lux, 0, 100)
             = IF 100 - lux < 0 THEN 0 ELSE IF 100 - lux > 100 THEN 100 ELSE 100 - lux
      /\ SkyOf!Clamp(100 - brighter, 0, 100)
             = IF 100 - brighter < 0 THEN 0
               ELSE IF 100 - brighter > 100 THEN 100 ELSE 100 - brighter
  BY <1>1, <1>2, ClampStays
<1> QED BY <1>1, <1>2, <1>3, <1>4

-----------------------------------------------------------------------------
(* The moon *)

LEMMA PhaseDistance ==
    ASSUME NEW t \in Int, NEW target \in Int
    PROVE  LET raw == (t - target) % 704 IN
           SkyOf!_phase_distance(t, target) = IF raw <= 352 THEN raw ELSE 704 - raw
<1> DEFINE raw == (t - target) % 704
<1>1. raw \in 0 .. 703
  OBVIOUS
<1>2. SkyOf!_phase_distance(t, target) = SkyOf!Min({raw, 704 - raw})
  BY DEF SkyOf!_phase_distance, SkyOf!Cycle
<1> HIDE DEF raw
<1>3. SkyOf!Min({raw, 704 - raw}) = IF raw <= 704 - raw THEN raw ELSE 704 - raw
  BY <1>1, SkyMinOfTwo
<1> QED BY <1>1, <1>2, <1>3 DEF raw

(* Some turn is found within the scan: the step that follows the phase.    *)
LEMMA PhaseIsFound ==
    ASSUME NEW hour \in Nat, NEW target \in 0 .. 703
    PROVE  SkyOf!Turns(hour, target) # {}
<1> DEFINE left == (target - hour) % 704
           k    == (left + 1) \div 2
           before == (hour + 2 * k - target) % 704
           after  == (hour + 2 * (k + 1) - target) % 704
<1>1. left \in 0 .. 703 /\ k \in 0 .. 352 /\ 2 * k - left \in {0, 1}
  OBVIOUS
<1>2. PICK q \in Int : target - hour = 704 * q + left
  <2>1. target - hour = 704 * ((target - hour) \div 704) + left
    OBVIOUS
  <2> QED BY <2>1
<1>3. \E p \in Int : hour + 2 * k - target = 704 * p + (2 * k - left)
  <2>1. hour + 2 * k - target = 704 * (-q) + (2 * k - left)
    BY <1>1, <1>2
  <2> QED BY <2>1
<1>4. before = 2 * k - left /\ after = 2 * k - left + 2
  BY <1>1, <1>3
<1>5. /\ SkyOf!_phase_distance(hour + 2 * k, target) = 2 * k - left
      /\ SkyOf!_phase_distance(hour + 2 * (k + 1), target) = 2 * k - left + 2
  BY <1>1, <1>4, PhaseDistance
<1>6. k + 1 \in SkyOf!Turns(hour, target)
  <2>1. k + 1 \in 1 .. 419 /\ k + 1 - 1 = k
    BY <1>1
  <2> HIDE DEF k, left
  <2> QED BY <1>1, <1>5, <2>1 DEF SkyOf!Turns, SkyOf!Scan, SkyOf!Cycle
<1> QED BY <1>6

(* What is announced is within 35 hours of the phase. *)
LEMMA PhaseIsNear ==
    ASSUME NEW hour \in Nat, NEW target \in 0 .. 703
    PROVE  LET t == SkyOf!next_moon_phase(hour, target)
           IN t \in Int /\ SkyOf!_phase_distance(t, target) <= 35
<1> DEFINE turns == SkyOf!Turns(hour, target)
           i     == SkyOf!Min(turns)
           lo    == hour + 2 * (i - 2)
           hi    == hour + 2 * i
           D(t)  == SkyOf!_phase_distance(t, target)
           all   == {D(t) : t \in lo .. hi}
           nearest == SkyOf!Min(all)
           best  == {t \in lo .. hi : D(t) = nearest}
<1>1. turns \in SUBSET Nat /\ turns # {}
  <2>1. \A x \in SkyOf!Turns(hour, target) : x \in Nat
    BY DEF SkyOf!Turns, SkyOf!Scan
  <2> QED BY <2>1, PhaseIsFound
<1>2. i \in turns
  BY <1>1, SkyMinIsLeast
<1>3. i \in 1 .. 419 /\ 20 * D(hour + 2 * (i - 1)) < 704
  BY <1>2 DEF SkyOf!Turns, SkyOf!Scan, SkyOf!Cycle
<1>4. SkyOf!next_moon_phase(hour, target) = SkyOf!_refine_min(lo, hi, target)
  BY <1>1 DEF SkyOf!next_moon_phase
<1>5. SkyOf!_refine_min(lo, hi, target) = SkyOf!Min(best)
  BY DEF SkyOf!_refine_min
<1> HIDE DEF turns, i
<1>6. \A t \in Int : D(t) \in Nat
  <2> TAKE t \in Int
  <2>1. (t - target) % 704 \in 0 .. 703
    OBVIOUS
  <2> QED BY <2>1, PhaseDistance
<1>7. hour + 2 * (i - 1) \in lo .. hi /\ lo .. hi \subseteq Int
  BY <1>3
<1> HIDE DEF D, lo, hi
<1>8. all \in SUBSET Nat /\ D(hour + 2 * (i - 1)) \in all
  BY <1>6, <1>7
<1>9. nearest \in all /\ nearest <= D(hour + 2 * (i - 1))
  BY <1>8, SkyMinIsLeast
<1>10. best # {} /\ \A t \in best : t \in Int /\ D(t) = nearest
  BY <1>7, <1>9
<1> HIDE DEF nearest
<1>11. SkyOf!Min(best) \in best
  <2>1. \E x \in best : \A y \in best : x <= y
    <3> DEFINE steps == {t - lo : t \in best}
    <3>1. lo \in Int
      BY <1>3 DEF lo
    <3>2. steps \in SUBSET Nat /\ steps # {}
      BY <1>3, <1>10, <3>1 DEF lo, hi
    <3>3. PICK s \in steps : \A y \in steps : s <= y
      BY <3>2, LeastNatural
    <3>4. PICK x \in best : s = x - lo
      BY <3>3
    <3>5. ASSUME NEW y \in best PROVE x <= y
      <4>1. y - lo \in steps /\ x \in Int /\ y \in Int
        BY <1>10
      <4>2. s <= y - lo
        BY <3>3, <4>1
      <4> QED BY <3>1, <3>4, <4>1, <4>2
    <3> QED BY <3>5
  <2> QED BY <2>1 DEF SkyOf!Min
<1> HIDE DEF best
<1>12. D(SkyOf!Min(best)) <= 35
  <2>1. D(hour + 2 * (i - 1)) \in Nat /\ D(SkyOf!Min(best)) = nearest /\ nearest \in Nat
    BY <1>6, <1>7, <1>8, <1>9, <1>10, <1>11 DEF best
  <2> QED BY <1>3, <1>9, <2>1
<1> QED BY <1>4, <1>5, <1>10, <1>11, <1>12 DEF D

LEMMA NearIsNamed ==
    ASSUME NEW t \in Int
    PROVE  /\ SkyOf!_phase_distance(t, 0) <= 35 => SkyOf!moon_phase_name(t) = "New Moon"
           /\ SkyOf!_phase_distance(t, 352) <= 35 => SkyOf!moon_phase_name(t) = "Full Moon"
<1> DEFINE a == t % 704
           sixteenth == (16 * a) \div 704
           n == ((sixteenth + 1) \div 2) % 8
<1>1. a \in 0 .. 703 /\ (t - 0) % 704 = a
  OBVIOUS
<1>2. (t - 352) % 704 = IF a >= 352 THEN a - 352 ELSE a + 352
  <2>1. PICK q \in Int : t = 704 * q + a
    <3>1. t = 704 * (t \div 704) + a
      OBVIOUS
    <3> QED BY <3>1
  <2> HIDE DEF a
  <2>2. CASE a >= 352
    BY <1>1, <2>1, <2>2
  <2>3. CASE a < 352
    <3>1. t - 352 = 704 * (q - 1) + (a + 352)
      BY <1>1, <2>1
    <3> QED BY <1>1, <2>3, <3>1
  <2> QED BY <1>1, <2>2, <2>3
<1>3. SkyOf!moon_phase_name(t) = SkyOf!PhaseNames[n + 1]
  BY DEF SkyOf!moon_phase_name, SkyOf!Cycle
<1> HIDE DEF a
<1>4. /\ a <= 35 \/ a >= 669 => n = 0
      /\ a >= 317 /\ a <= 387 => n = 4
  BY <1>1
<1>5. /\ SkyOf!_phase_distance(t, 0) <= 35 => a <= 35 \/ a >= 669
      /\ SkyOf!_phase_distance(t, 352) <= 35 => a >= 317 /\ a <= 387
  BY <1>1, <1>2, PhaseDistance
<1> HIDE DEF n
<1>6. SkyOf!PhaseNames[1] = "New Moon" /\ SkyOf!PhaseNames[5] = "Full Moon"
  BY DEF SkyOf!PhaseNames
<1>7. (n = 0 => n + 1 = 1) /\ (n = 4 => n + 1 = 5)
  OBVIOUS
<1>8. (n = 0 => SkyOf!moon_phase_name(t) = "New Moon")
      /\ (n = 4 => SkyOf!moon_phase_name(t) = "Full Moon")
  BY <1>3, <1>6, <1>7, Zenon
<1> QED BY <1>4, <1>5, <1>8, Zenon

LEMMA PhasesAreNamed ==
    ASSUME NEW hour \in Nat
    PROVE  SkyOf!PhasesAreNamed(hour)
<1> DEFINE new  == SkyOf!next_moon_phase(hour, 0)
           full == SkyOf!next_moon_phase(hour, 352)
<1>1. /\ new \in Int /\ SkyOf!_phase_distance(new, 0) <= 35
      /\ full \in Int /\ SkyOf!_phase_distance(full, 352) <= 35
  BY PhaseIsNear
<1>2. SkyOf!upcoming_moon_phases(hour) = [new |-> new, full |-> full]
  BY DEF SkyOf!upcoming_moon_phases, SkyOf!Cycle
<1> HIDE DEF new, full
<1>3. new # None /\ full # None
  BY <1>1, SkiesAssumption
<1>4. /\ SkyOf!moon_phase_name(new) = "New Moon"
      /\ SkyOf!moon_phase_name(full) = "Full Moon"
  BY <1>1, NearIsNamed
<1>5. /\ SkyOf!upcoming_moon_phases(hour).new = new
      /\ SkyOf!upcoming_moon_phases(hour).full = full
  BY <1>2
<1> QED BY <1>3, <1>4, <1>5, Zenon DEF SkyOf!PhasesAreNamed

-----------------------------------------------------------------------------
(* The sun *)

(* The noon of sun_times is the nearest one. *)
LEMMA NoonIsNear ==
    ASSUME NEW now \in Nat, NEW place \in SkyOf!Places
    PROVE  LET noon == SkyOf!NearestNoon(now, place) IN
           /\ noon \in Int /\ now - noon \in -12 .. 11
           /\ \E q \in Int : noon = 24 * q + place.noon
<1>1. place.noon \in 0 .. 23
  BY DEF SkyOf!Places
<1> DEFINE x == now - place.noon + 12
           q == x \div 24
<1>2. x \in Int
  BY <1>1
<1>3. SkyOf!NearestNoon(now, place) = 24 * q + place.noon
  BY DEF SkyOf!NearestNoon
<1> HIDE DEF x
<1>4. q \in Int /\ x - 24 * q \in 0 .. 23
  BY <1>2
<1> HIDE DEF q
<1> DEFINE near == 24 * q + place.noon
<1>5. near \in Int /\ now - near \in -12 .. 11 /\ \E p \in Int : near = 24 * p + place.noon
  BY <1>1, <1>4 DEF x
<1> HIDE DEF near
<1> QED BY <1>3, <1>5 DEF near

(* A number is no multiple of 24 between two multiples that follow.        *)
LEMMA NoneBetween ==
    ASSUME NEW q \in Int, NEW k \in 1 .. 23
    PROVE  (24 * q - k) % 24 # 0
  OBVIOUS

LEMMA ArcIsInside ==
    ASSUME NEW half \in 1 .. 11, NEW gone \in 1 .. 2 * half - 1
    PROVE  (280 * gone) \div (2 * half) \in 1 .. 279
<1>1. CASE half = 1 BY <1>1
<1>2. CASE half = 2 BY <1>2
<1>3. CASE half = 3 BY <1>3
<1>4. CASE half = 4 BY <1>4
<1>5. CASE half = 5 BY <1>5
<1>6. CASE half = 6 BY <1>6
<1>7. CASE half = 7 BY <1>7
<1>8. CASE half = 8 BY <1>8
<1>9. CASE half = 9 BY <1>9
<1>10. CASE half = 10 BY <1>10
<1>11. CASE half = 11 BY <1>11
<1> QED BY <1>1, <1>2, <1>3, <1>4, <1>5, <1>6, <1>7, <1>8, <1>9, <1>10, <1>11

LEMMA SunPointsAhead ==
    ASSUME NEW now \in Nat, NEW place \in SkyOf!Places
    PROVE  SkyOf!SunPointsAhead(now, place)
<1> DEFINE noon == SkyOf!NearestNoon(now, place)
           sun  == SkyOf!_build_sun_block(now, place)
<1>0. None \notin Int
  BY SkiesAssumption
<1>1. /\ noon \in Int /\ now - noon \in -12 .. 11
      /\ \E q \in Int : noon = 24 * q + place.noon
  BY NoonIsNear
<1> HIDE DEF noon
<1>2. CASE place.half = None
  <2>1. SkyOf!sun_times(now, place) = [sunrise |-> None, sunset |-> None, noon |-> noon]
    BY <1>2 DEF SkyOf!sun_times, noon
  <2>2. sun.sunrise = None /\ sun.to_sunset = None /\ sun.to_sunrise = None
    BY <2>1 DEF SkyOf!_build_sun_block
  <2>3. SkyOf!ArcPosition(sun, now) = 140
    BY <2>2 DEF SkyOf!ArcPosition
  <2> HIDE DEF sun
  <2>4. {sun.to_sunset, sun.to_sunrise} = {None}
    BY <2>2
  <2> QED BY <1>2, <2>3, <2>4, Zenon DEF SkyOf!SunPointsAhead, sun
<1>3. CASE place.half # None
  <2> DEFINE half == place.half
  <2>1. half \in 1 .. 11 /\ place.noon \in 0 .. 23
    BY <1>3 DEF SkyOf!Places
  <2>2. SkyOf!sun_times(now, place)
            = [sunrise |-> noon - half, sunset |-> noon + half, noon |-> noon]
    BY <1>3 DEF SkyOf!sun_times, noon
  <2> HIDE DEF half
  <2>3. noon - half \in Int /\ noon + half \in Int /\ None \notin {noon - half, noon + half}
    BY <1>0, <1>1, <2>1
  <2>4. SkyOf!NextSunrise(SkyOf!sun_times(now, place), now)
            = IF noon - half > now THEN noon - half ELSE noon - half + 24
    BY <2>2 DEF SkyOf!NextSunrise
  <2> DEFINE times == SkyOf!sun_times(now, place)
             ahead == (noon + half) - now
             rise  == IF noon - half > now THEN noon - half ELSE noon - half + 24
  <2>5. /\ sun.sunrise = noon - half /\ sun.sunset = noon + half
        /\ sun.is_daytime <=> noon - half < now /\ now < noon + half
        /\ ahead >= 0 => sun.to_sunset = ahead /\ sun.to_sunrise = None
        /\ ~(ahead >= 0) => sun.to_sunset = None /\ sun.to_sunrise = rise - now
    <3>1. /\ times.sunrise = noon - half /\ times.sunset = noon + half
          /\ times.sunrise # None /\ times.sunset # None
      BY <2>2, <2>3
    <3>2. /\ sun.sunrise = times.sunrise /\ sun.sunset = times.sunset
          /\ sun.is_daytime = SkyOf!IsDaytime(now, place)
          /\ sun.to_sunset = IF times.sunset # None /\ times.sunset - now >= 0
                             THEN times.sunset - now ELSE None
          /\ sun.to_sunrise = IF ~(times.sunset # None /\ times.sunset - now >= 0)
                                 /\ times.sunrise # None
                              THEN SkyOf!NextSunrise(times, now) - now ELSE None
      BY DEF SkyOf!_build_sun_block
    <3>3. SkyOf!IsDaytime(now, place) <=> times.sunrise < now /\ now < times.sunset
      BY <1>3 DEF SkyOf!IsDaytime
    <3> HIDE DEF times, sun
    <3>4. SkyOf!NextSunrise(times, now) = rise
      BY <2>4 DEF times
    <3>5. sun.is_daytime <=> noon - half < now /\ now < noon + half
      BY <3>1, <3>2, <3>3, Zenon
    <3>6. /\ times.sunset - now >= 0 => sun.to_sunset = times.sunset - now /\ sun.to_sunrise = None
          /\ ~(times.sunset - now >= 0)
                => sun.to_sunset = None /\ sun.to_sunrise = SkyOf!NextSunrise(times, now) - now
      BY <3>1, <3>2, Zenon
    <3>7. sun.sunrise = noon - half /\ sun.sunset = noon + half
      BY <3>1, <3>2
    <3>8. /\ ahead >= 0 => sun.to_sunset = ahead /\ sun.to_sunrise = None
          /\ ~(ahead >= 0) => sun.to_sunset = None /\ sun.to_sunrise = rise - now
      <4>1. times.sunset - now = ahead
        BY <3>1, Zenon
      <4> HIDE DEF rise, ahead
      <4> QED BY <3>4, <3>6, <4>1, Zenon
    <3> QED BY <3>5, <3>7, <3>8, Zenon
  <2> HIDE DEF times
  <2> HIDE DEF sun
  <2> DEFINE Ahead(count, hour) ==
               /\ count >= 0 /\ SkyOf!Hits(now + count, hour)
               /\ \A k \in 1 .. count - 1 : ~SkyOf!Hits(now + k, hour)
  <2>6. ASSUME NEW count \in 0 .. 24, NEW hour \in Int, NEW q \in Int,
               now + count = 24 * q + hour
        PROVE  Ahead(count, hour)
    <3>1. now + count = 24 * q + hour
      BY <2>6
    <3>2. SkyOf!Hits(now + count, hour)
      <4>1. now + count - hour = 24 * q
        BY <3>1
      <4> QED BY <4>1 DEF SkyOf!Hits
    <3>3. ASSUME NEW k \in 1 .. count - 1 PROVE ~SkyOf!Hits(now + k, hour)
      <4>1. now + k - hour = 24 * q - (count - k) /\ count - k \in 1 .. 23
        BY <3>1
      <4> QED BY <4>1, NoneBetween DEF SkyOf!Hits
    <3> QED BY <3>2, <3>3
  <2> HIDE DEF Ahead
  <2>7. (sun.to_sunset = None) # (sun.to_sunrise = None)
    BY <1>0, <1>1, <2>1, <2>5
  <2> DEFINE set  == place.noon + half
             dawn == place.noon - half
             next == rise - now
  <2>8. ASSUME sun.to_sunset # None PROVE Ahead(sun.to_sunset, set)
    <3>1. sun.to_sunset = ahead /\ ahead \in 0 .. 24 /\ set \in Int
      BY <1>1, <2>1, <2>5, <2>8
    <3>2. PICK q \in Int : now + ahead = 24 * q + set
      BY <1>1, <2>1
    <3> HIDE DEF ahead, set
    <3> QED BY <2>6, <3>1, <3>2, Zenon
  <2>9. ASSUME sun.to_sunrise # None PROVE Ahead(sun.to_sunrise, dawn)
    <3>1. sun.to_sunrise = next /\ next \in 0 .. 24 /\ dawn \in Int
          /\ now + next = noon - half + 24
      BY <1>1, <2>1, <2>5, <2>9
    <3>2. PICK q \in Int : noon = 24 * q + place.noon
      BY <1>1
    <3>3. q + 1 \in Int /\ now + next = 24 * (q + 1) + dawn
      BY <2>1, <3>1, <3>2
    <3> HIDE DEF next, dawn
    <3> QED BY <2>6, <3>1, <3>3, Zenon
  <2>10. ASSUME sun.is_daytime
         PROVE  sun.to_sunset # None /\ SkyOf!ArcPosition(sun, now) \in 1 .. 279
    <3>1. sun.to_sunset # None
      BY <1>0, <1>1, <2>1, <2>5, <2>10
    <3> DEFINE gone == now - (noon - half)
    <3>2. /\ gone \in 1 .. 2 * half - 1 /\ noon + half - (noon - half) = 2 * half
          /\ ~(noon + half <= noon - half)
      BY <1>1, <2>1, <2>5, <2>10
    <3>3. (280 * gone) \div (2 * half) \in 1 .. 279
      BY <2>1, <3>2, ArcIsInside
    <3>4. SkyOf!ArcPosition(sun, now) = SkyOf!Clamp((280 * gone) \div (2 * half), 0, 280)
      <4>1. sun.sunrise # None /\ ~(sun.sunset <= sun.sunrise)
        BY <2>3, <2>5, <3>2
      <4>2. now - sun.sunrise = gone /\ sun.sunset - sun.sunrise = 2 * half
        BY <1>1, <2>1, <2>5
      <4> QED BY <4>1, <4>2, Zenon DEF SkyOf!ArcPosition
    <3> HIDE DEF gone
    <3> DEFINE at == (280 * gone) \div (2 * half)
    <3> HIDE DEF at
    <3>5. at \in 1 .. 279
      BY <3>3 DEF at
    <3>6. SkyOf!Clamp(at, 0, 280) = at
      BY <3>5, ClampStays
    <3> QED BY <3>1, <3>4, <3>5, <3>6 DEF at
  <2>11. ASSUME NEW l \in SkyOf!_sun_timing_lines(sun, now), l.line = "since sunset"
         PROVE  now >= sun.sunset
    <3> DEFINE length == IF sun.day_length = None THEN {}
                         ELSE {[line |-> "day length", hours |-> sun.day_length]}
    <3>1. ASSUME sun.to_sunset # None PROVE FALSE
      <4>1. SkyOf!_sun_timing_lines(sun, now)
                = length \cup {[line |-> "to sunset", hours |-> sun.to_sunset]}
        BY <3>1, Zenon DEF SkyOf!_sun_timing_lines
      <4>2. CASE l \in length
        <5>1. l = [line |-> "day length", hours |-> sun.day_length]
          BY <4>2
        <5> QED BY <2>11, <5>1
      <4>3. CASE l = [line |-> "to sunset", hours |-> sun.to_sunset]
        BY <2>11, <4>3
      <4> HIDE DEF length
      <4> QED BY <4>1, <4>2, <4>3
    <3> QED BY <1>0, <1>1, <2>1, <2>5, <3>1
  <2> QED
    BY <1>3, <2>7, <2>8, <2>9, <2>10, <2>11, Zenon DEF SkyOf!SunPointsAhead, sun, half, Ahead
<1> QED BY <1>2, <1>3

-----------------------------------------------------------------------------
(* The seasons *)

(* The event that has been, and the one to come, at a day of the year.     *)
Been(d) == IF d < 79 THEN 4 ELSE IF d < 172 THEN 1 ELSE IF d < 265 THEN 2
           ELSE IF d < 355 THEN 3 ELSE 4

ToCome(d) == IF d \in 79 .. 354 THEN Been(d) + 1 ELSE 1

DayBefore(d) == IF d < 79 THEN -10 ELSE IF d < 172 THEN 79 ELSE IF d < 265 THEN 172
                ELSE IF d < 355 THEN 265 ELSE 355

DayAfter(d) == IF d < 79 THEN 79 ELSE IF d < 172 THEN 172 ELSE IF d < 265 THEN 265
               ELSE IF d < 355 THEN 355 ELSE 444

(* An event of the three years around one, and every event of them. *)
LEMMA EventsAround ==
    ASSUME NEW year \in Int
    PROVE  LET events == SkyOf!EventDays(year) IN
           /\ \A y \in year - 1 .. year + 1, i \in 1 .. 4 :
                  [day |-> 365 * y + SkyOf!Events[i], event |-> i] \in events
           /\ \A e \in events : \E y \in year - 1 .. year + 1, i \in 1 .. 4 :
                  e.day = 365 * y + SkyOf!Events[i] /\ e.event = i
  BY DEF SkyOf!EventDays, SkyOf!Year

LEMMA EventAround ==
    ASSUME NEW year \in Int, NEW e \in SkyOf!EventDays(year)
    PROVE  \E y \in {year - 1, year, year + 1} :
               \/ e.day = 365 * y + 79 /\ e.event = 1
               \/ e.day = 365 * y + 172 /\ e.event = 2
               \/ e.day = 365 * y + 265 /\ e.event = 3
               \/ e.day = 365 * y + 355 /\ e.event = 4
<1>1. PICK y \in year - 1 .. year + 1, i \in 1 .. 4 :
          e.day = 365 * y + SkyOf!Events[i] /\ e.event = i
  BY EventsAround
<1>2. y \in {year - 1, year, year + 1} /\ i \in {1, 2, 3, 4}
  OBVIOUS
<1>3. /\ SkyOf!Events[1] = 79 /\ SkyOf!Events[2] = 172
      /\ SkyOf!Events[3] = 265 /\ SkyOf!Events[4] = 355
  BY DEF SkyOf!Events
<1> QED BY <1>1, <1>2, <1>3

(* The one before a day and the one after it, and none is between. *)
LEMMA EventsBeforeAndAfter ==
    ASSUME NEW year \in Int, NEW d \in 0 .. 364
    PROVE  LET events == SkyOf!EventDays(year)
               day == 365 * year + d
           IN /\ [day |-> 365 * year + DayBefore(d), event |-> Been(d)] \in events
              /\ [day |-> 365 * year + DayAfter(d), event |-> ToCome(d)] \in events
              /\ DayBefore(d) \in Int /\ DayBefore(d) <= d
              /\ DayAfter(d) \in Int /\ DayAfter(d) > d
              /\ \A e \in events :
                    /\ e.day \in Int
                    /\ e.day > day => e.day >= 365 * year + DayAfter(d)
                    /\ e.day <= day => e.day <= 365 * year + DayBefore(d)
                    /\ e.day = 365 * year + DayBefore(d) => e.event = Been(d)
<1> DEFINE day == 365 * year + d
           events == SkyOf!EventDays(year)
<1>1. /\ SkyOf!Events[1] = 79 /\ SkyOf!Events[2] = 172
      /\ SkyOf!Events[3] = 265 /\ SkyOf!Events[4] = 355
  BY DEF SkyOf!Events
<1> DEFINE In(y) == /\ [day |-> 365 * y + 79, event |-> 1] \in events
                    /\ [day |-> 365 * y + 172, event |-> 2] \in events
                    /\ [day |-> 365 * y + 265, event |-> 3] \in events
                    /\ [day |-> 365 * y + 355, event |-> 4] \in events
<1>2. \A y \in {year - 1, year, year + 1} : In(y)
  <2> TAKE y \in {year - 1, year, year + 1}
  <2>1. y \in year - 1 .. year + 1 /\ {1, 2, 3, 4} = 1 .. 4
    OBVIOUS
  <2>2. \A i \in {1, 2, 3, 4} : [day |-> 365 * y + SkyOf!Events[i], event |-> i] \in events
    BY <2>1, EventsAround
  <2>3. /\ [day |-> 365 * y + SkyOf!Events[1], event |-> 1] \in events
        /\ [day |-> 365 * y + SkyOf!Events[2], event |-> 2] \in events
        /\ [day |-> 365 * y + SkyOf!Events[3], event |-> 3] \in events
        /\ [day |-> 365 * y + SkyOf!Events[4], event |-> 4] \in events
    BY <2>2, Zenon
  <2> QED BY <1>1, <2>3, Zenon DEF In
<1> HIDE DEF events
<1>3. /\ [day |-> 365 * (year - 1) + 355, event |-> 4] \in events
      /\ [day |-> 365 * (year + 1) + 79, event |-> 1] \in events
      /\ [day |-> 365 * year + 79, event |-> 1] \in events
      /\ [day |-> 365 * year + 172, event |-> 2] \in events
      /\ [day |-> 365 * year + 265, event |-> 3] \in events
      /\ [day |-> 365 * year + 355, event |-> 4] \in events
  <2>1. In(year - 1) /\ In(year) /\ In(year + 1)
    <3> HIDE DEF In
    <3> QED BY <1>2, Zenon
  <2> QED BY <2>1, Zenon DEF In
<1>4. /\ [day |-> 365 * year + (-10), event |-> 4] \in events
      /\ [day |-> 365 * year + 444, event |-> 1] \in events
      /\ [day |-> 365 * year + 79, event |-> 1] \in events
      /\ [day |-> 365 * year + 172, event |-> 2] \in events
      /\ [day |-> 365 * year + 265, event |-> 3] \in events
      /\ [day |-> 365 * year + 355, event |-> 4] \in events
  <2>1. 365 * (year - 1) + 355 = 365 * year + (-10) /\ 365 * (year + 1) + 79 = 365 * year + 444
    OBVIOUS
  <2> QED BY <1>3, <2>1
<1>5. \/ DayBefore(d) = -10 /\ Been(d) = 4 /\ DayAfter(d) = 79  /\ ToCome(d) = 1 /\ d < 79
      \/ DayBefore(d) = 79  /\ Been(d) = 1 /\ DayAfter(d) = 172 /\ ToCome(d) = 2 /\ d \in 79 .. 171
      \/ DayBefore(d) = 172 /\ Been(d) = 2 /\ DayAfter(d) = 265 /\ ToCome(d) = 3 /\ d \in 172 .. 264
      \/ DayBefore(d) = 265 /\ Been(d) = 3 /\ DayAfter(d) = 355 /\ ToCome(d) = 4 /\ d \in 265 .. 354
      \/ DayBefore(d) = 355 /\ Been(d) = 4 /\ DayAfter(d) = 444 /\ ToCome(d) = 1 /\ d >= 355
  BY DEF DayBefore, Been, DayAfter, ToCome
<1>6. /\ [day |-> 365 * year + DayBefore(d), event |-> Been(d)] \in events
      /\ [day |-> 365 * year + DayAfter(d), event |-> ToCome(d)] \in events
  BY <1>4, <1>5
<1>7. ASSUME NEW e \in events
      PROVE  /\ e.day \in Int
             /\ e.day > day => e.day >= 365 * year + DayAfter(d)
             /\ e.day <= day => e.day <= 365 * year + DayBefore(d)
             /\ e.day = 365 * year + DayBefore(d) => e.event = Been(d)
  <2>1. PICK y \in {year - 1, year, year + 1} :
               \/ e.day = 365 * y + 79 /\ e.event = 1
               \/ e.day = 365 * y + 172 /\ e.event = 2
               \/ e.day = 365 * y + 265 /\ e.event = 3
               \/ e.day = 365 * y + 355 /\ e.event = 4
    BY EventAround DEF events
  <2> DEFINE at == e.day
             of == e.event
  <2>2. \/ at = 365 * y + 79 /\ of = 1
        \/ at = 365 * y + 172 /\ of = 2
        \/ at = 365 * y + 265 /\ of = 3
        \/ at = 365 * y + 355 /\ of = 4
    BY <2>1
  <2> HIDE DEF at, of
  <2>3. /\ at \in Int
        /\ at > day => at >= 365 * year + DayAfter(d)
        /\ at <= day => at <= 365 * year + DayBefore(d)
        /\ at = 365 * year + DayBefore(d) => of = Been(d)
    BY <1>5, <2>2
  <2> QED BY <2>3 DEF at, of
<1>8. DayBefore(d) \in Int /\ DayBefore(d) <= d /\ DayAfter(d) \in Int /\ DayAfter(d) > d
  BY <1>5
<1> QED BY <1>6, <1>7, <1>8 DEF events

LEMMA SeasonAt ==
    ASSUME NEW year \in Int, NEW d \in 0 .. 364, NEW north \in BOOLEAN
    PROVE  LET info == SkyOf!season_info(365 * year + d, north)
           IN /\ info.days = DayAfter(d) - d
              /\ info.season = SkyOf!SeasonFrom[Been(d)][IF north THEN 1 ELSE 2]
<1> DEFINE day == 365 * year + d
           events == SkyOf!EventDays(year)
           next == CHOOSE e \in events : /\ e.day > day
                                         /\ \A f \in events : f.day > day => e.day <= f.day
           prev == CHOOSE e \in events : /\ e.day <= day
                                         /\ \A f \in events : f.day <= day => f.day <= e.day
           before == 365 * year + DayBefore(d)
           after  == 365 * year + DayAfter(d)
           E == [day |-> before, event |-> Been(d)]
           F == [day |-> after, event |-> ToCome(d)]
<1>1. day \div SkyOf!Year = year
  BY DEF SkyOf!Year
<1>2. /\ SkyOf!season_info(day, north).season
             = SkyOf!SeasonFrom[prev.event][IF north THEN 1 ELSE 2]
      /\ SkyOf!season_info(day, north).days = next.day - day
  BY <1>1 DEF SkyOf!season_info
<1>3. /\ E \in events /\ F \in events
      /\ before \in Int /\ before <= day /\ after \in Int /\ after > day
      /\ after - day = DayAfter(d) - d
      /\ \A e \in events :
            /\ e.day \in Int
            /\ e.day > day => e.day >= after
            /\ e.day <= day => e.day <= before
            /\ e.day = before => e.event = Been(d)
  <2>1. /\ DayBefore(d) \in Int /\ DayBefore(d) <= d
        /\ DayAfter(d) \in Int /\ DayAfter(d) > d
    BY EventsBeforeAndAfter, Zenon
  <2>2. /\ E \in events /\ F \in events
        /\ \A e \in events :
            /\ e.day \in Int
            /\ e.day > day => e.day >= after
            /\ e.day <= day => e.day <= before
            /\ e.day = before => e.event = Been(d)
    <3>1. E \in events /\ F \in events
      BY EventsBeforeAndAfter, Zenon
    <3> QED BY <3>1, EventsBeforeAndAfter
  <2> QED BY <2>1, <2>2
<1>4. E.day = before /\ F.day = after /\ day \in Int
  OBVIOUS
<1> HIDE DEF events, E, F, before, after, day
<1>5. /\ next \in events /\ next.day > day
      /\ \A f \in events : f.day > day => next.day <= f.day
  <2>1. \E e \in events : e.day > day /\ \A f \in events : f.day > day => e.day <= f.day
    BY <1>3, <1>4
  <2> QED BY <2>1, Zenon
<1>6. /\ prev \in events /\ prev.day <= day
      /\ \A f \in events : f.day <= day => f.day <= prev.day
  <2>1. \E e \in events : e.day <= day /\ \A f \in events : f.day <= day => f.day <= e.day
    BY <1>3, <1>4
  <2> QED BY <2>1, Zenon
<1> HIDE DEF next, prev
<1>7. next.day = after
  BY <1>3, <1>4, <1>5
<1>8. prev.event = Been(d)
  BY <1>3, <1>4, <1>6
<1> QED BY <1>2, <1>3, <1>7, <1>8 DEF day

LEMMA SeasonEndsOnTime ==
    ASSUME NEW day \in Nat, NEW north \in BOOLEAN
    PROVE  SkyOf!SeasonEndsOnTime(day, north)
<1> DEFINE year == day \div 365
           d == day % 365
           Name(p) == SkyOf!SeasonFrom[p][IF north THEN 1 ELSE 2]
           Days(x) == SkyOf!season_info(x, north).days
           Season(x) == SkyOf!season_info(x, north).season
<1>1. year \in Int /\ d \in 0 .. 364 /\ day = 365 * year + d
  OBVIOUS
<1>2. ASSUME NEW y \in Int, NEW c \in 0 .. 364, NEW x, x = 365 * y + c
      PROVE  Days(x) = DayAfter(c) - c /\ Season(x) = Name(Been(c))
  <2>1. Days(365 * y + c) = DayAfter(c) - c /\ Season(365 * y + c) = Name(Been(c))
    BY SeasonAt, Zenon
  <2> QED BY <1>2, <2>1, Zenon
<1>3. \A p, q \in 1 .. 4 : Name(p) = Name(q) <=> p = q
  BY DEF SkyOf!SeasonFrom
<1>4. SkyOf!SeasonEndsOnTime(day, north) <=>
        /\ Days(day) > 0
        /\ IF Days(day) = 1 THEN Season(day + 1) # Season(day)
           ELSE Season(day + 1) = Season(day) /\ Days(day + 1) = Days(day) - 1
  BY Zenon DEF SkyOf!SeasonEndsOnTime
<1> HIDE DEF year, d, Name, Days, Season
<1>5. Days(day) = DayAfter(d) - d /\ Season(day) = Name(Been(d))
  BY <1>1, <1>2
<1>6. CASE d < 364
  <2>1. d + 1 \in 0 .. 364 /\ day + 1 = 365 * year + (d + 1)
    BY <1>1, <1>6
  <2>2. Days(day + 1) = DayAfter(d + 1) - (d + 1) /\ Season(day + 1) = Name(Been(d + 1))
    <3> DEFINE next == d + 1
    <3> HIDE DEF next
    <3>1. next \in 0 .. 364 /\ day + 1 = 365 * year + next
      BY <2>1 DEF next
    <3>2. Days(day + 1) = DayAfter(next) - next /\ Season(day + 1) = Name(Been(next))
      BY <1>1, <1>2, <3>1
    <3> QED BY <3>2 DEF next
  <2>3. Been(d) \in 1 .. 4 /\ Been(d + 1) \in 1 .. 4
    BY <1>1 DEF Been
  <2>4. /\ DayAfter(d) - d > 0
        /\ IF DayAfter(d) - d = 1 THEN Been(d + 1) # Been(d)
           ELSE Been(d + 1) = Been(d) /\ DayAfter(d + 1) = DayAfter(d)
    BY <1>1, <1>6 DEF Been, DayAfter
  <2>5. DayAfter(d) \in Int /\ DayAfter(d + 1) \in Int
    BY <1>1 DEF DayAfter
  <2> QED BY <1>1, <1>3, <1>4, <1>5, <2>2, <2>3, <2>4, <2>5
<1>7. CASE d = 364
  <2>1. year + 1 \in Int /\ day + 1 = 365 * (year + 1) + 0
    BY <1>1, <1>7
  <2>2. Days(day + 1) = DayAfter(0) - 0 /\ Season(day + 1) = Name(Been(0))
    BY <1>2, <2>1
  <2>3. DayAfter(364) = 444 /\ DayAfter(0) = 79 /\ Been(364) = 4 /\ Been(0) = 4
    BY DEF Been, DayAfter
  <2> QED BY <1>4, <1>5, <1>7, <2>2, <2>3
<1> QED BY <1>1, <1>6, <1>7

-----------------------------------------------------------------------------
(* The sky blocks together *)

LEMMA SkyIsRight ==
    ASSUME NEW in \in Skies
    PROVE  SkyOf!SkyKeepsTime(in)
<1>1. in \in SkyOf!Inputs
  BY SkiesAssumption
<1>2. CASE in.about = "sun"
  <2>1. in.now \in Nat /\ in.place \in SkyOf!Places
    BY <1>1, <1>2 DEF SkyOf!Inputs
  <2> QED BY <1>2, <2>1, SunPointsAhead DEF SkyOf!SkyKeepsTime
<1>3. CASE in.about = "season"
  <2>1. in.day \in Nat /\ in.north \in BOOLEAN
    BY <1>1, <1>3 DEF SkyOf!Inputs
  <2> QED BY <1>3, <2>1, SeasonEndsOnTime DEF SkyOf!SkyKeepsTime
<1>4. CASE in.about = "light"
  <2>1. in.lux \in Nat \cup {None} /\ in.altitude \in Int
    BY <1>1, <1>4 DEF SkyOf!Inputs
  <2> QED BY <1>4, <2>1, BrighterIsClearer DEF SkyOf!SkyKeepsTime
<1>5. CASE in.about = "moon"
  <2>1. in.hour \in Nat
    BY <1>1, <1>5 DEF SkyOf!Inputs
  <2> QED BY <1>5, <2>1, PhasesAreNamed DEF SkyOf!SkyKeepsTime
<1> QED BY <1>1, <1>2, <1>3, <1>4, <1>5 DEF SkyOf!Inputs

(* At every instant and place the countdowns, the seasons and the phases   *)
(* of the moon agree with what is said of the instants after, and more     *)
(* light is never a cloudier sky (responses.py:271-345,                    *)
(* astronomy.py:406-482).                                                  *)
THEOREM SkyIsConsistent == Spec => []SkyKeepsTime
<1>1. AskedItsOwn => SkyKeepsTime
  BY SkyIsRight DEF AskedItsOwn, SkyKeepsTime, About
<1> QED BY <1>1, AskedItsOwnAlways, PTL

-----------------------------------------------------------------------------
(* The history and the summary: induction over the rows of a log is over   *)
(* the least position at which a claim fails.                              *)

(* A set that has zero, and with each number the next, has them all. *)
LEMMA AllNumbers ==
    ASSUME NEW P, 0 \in P, \A n \in Nat : n \in P => n + 1 \in P
    PROVE  \A n \in Nat : n \in P
<1> SUFFICES ASSUME Nat \ P # {} PROVE FALSE
  OBVIOUS
<1>1. PICK m \in Nat \ P : \A n \in Nat \ P : m <= n
  BY LeastNatural
<1>2. m - 1 \in Nat /\ m - 1 \in P
  BY <1>1
<1> QED BY <1>1, <1>2

(* A selection position by position. *)
LEMMA SelectSteps ==
    ASSUME NEW T, NEW s \in Seq(T), NEW I
    PROVE  \E kept : /\ kept[0] = << >>
                     /\ \A n \in 1 .. Len(s) :
                           kept[n] = IF n \in I THEN Append(kept[n - 1], s[n]) ELSE kept[n - 1]
                     /\ HistoryOf!Select(s, I) = kept[Len(s)]
<1> DEFINE Step(g, n) == IF n = 0 THEN << >>
                         ELSE IF n \in I THEN Append(g[n - 1], s[n]) ELSE g[n - 1]
           Body(g) == [n \in 0 .. Len(s) |-> Step(g, n)]
           P == {m \in Nat : m <= Len(s) => \E g : g = [n \in 0 .. m |-> Step(g, n)]}
<1>1. Len(s) \in Nat
  OBVIOUS
<1>2. 0 \in P
  <2>1. DEFINE g == [n \in 0 .. 0 |-> << >>]
  <2>2. g = [n \in 0 .. 0 |-> Step(g, n)]
    OBVIOUS
  <2> QED BY <2>2
<1>3. ASSUME NEW m \in Nat, m \in P PROVE m + 1 \in P
  <2>0. m + 1 \in Nat
    OBVIOUS
  <2> SUFFICES ASSUME m + 1 <= Len(s) PROVE \E g : g = [n \in 0 .. m + 1 |-> Step(g, n)]
    BY <2>0, Zenon
  <2>1. PICK g : g = [n \in 0 .. m |-> Step(g, n)]
    BY <1>1, <1>3
  <2> DEFINE last == IF m + 1 \in I THEN Append(g[m], s[m + 1]) ELSE g[m]
             h == [n \in 0 .. m + 1 |-> IF n = m + 1 THEN last ELSE g[n]]
  <2>2. \A n \in 0 .. m + 1 : h[n] = Step(h, n)
    <3> TAKE n \in 0 .. m + 1
    <3>1. CASE n = m + 1
      <4>1. h[n - 1] = g[m]
        BY <3>1
      <4> QED BY <3>1, <4>1
    <3>2. CASE n \in 0 .. m
      <4>1. h[n] = g[n] /\ (n # 0 => h[n - 1] = g[n - 1])
        BY <3>2
      <4>2. g[n] = Step(g, n)
        BY <2>1, <3>2
      <4> QED BY <4>1, <4>2
    <3> QED BY <3>1, <3>2
  <2>3. h = [n \in 0 .. m + 1 |-> Step(h, n)]
    BY <2>2
  <2> QED BY <2>3
<1>4. Len(s) \in P
  <2> HIDE DEF P
  <2> QED BY <1>1, <1>2, <1>3, AllNumbers
<1>5. \E g : g = Body(g)
  BY <1>1, <1>4
<1> DEFINE kept == CHOOSE g : g = Body(g)
<1>6. kept = Body(kept)
  <2> HIDE DEF Body
  <2> QED BY <1>5
<1>7. HistoryOf!Select(s, I) = kept[Len(s)]
  BY DEF HistoryOf!Select
<1> HIDE DEF kept
<1>8. \A n \in 0 .. Len(s) : kept[n] = Step(kept, n)
  BY <1>6
<1>9. kept[0] = << >>
  BY <1>1, <1>8
<1>10. \A n \in 1 .. Len(s) : n \in 0 .. Len(s) /\ n # 0
  BY <1>1
<1> QED BY <1>7, <1>8, <1>9, <1>10

(* A total step by step. *)
LEMMA TotalSteps ==
    ASSUME NEW values, Len(values) \in Nat
    PROVE  \E sum : /\ sum[0] = 0
                    /\ \A n \in 1 .. Len(values) : sum[n] = sum[n - 1] + values[n]
                    /\ HistoryOf!Total(values) = sum[Len(values)]
<1> DEFINE Step(g, n) == IF n = 0 THEN 0 ELSE g[n - 1] + values[n]
           Body(g) == [n \in 0 .. Len(values) |-> Step(g, n)]
           P == {m \in Nat : m <= Len(values) => \E g : g = [n \in 0 .. m |-> Step(g, n)]}
<1>2. 0 \in P
  <2>1. DEFINE g == [n \in 0 .. 0 |-> 0]
  <2>2. g = [n \in 0 .. 0 |-> Step(g, n)]
    OBVIOUS
  <2> QED BY <2>2
<1>3. ASSUME NEW m \in Nat, m \in P PROVE m + 1 \in P
  <2>0. m + 1 \in Nat
    OBVIOUS
  <2> SUFFICES ASSUME m + 1 <= Len(values) PROVE \E g : g = [n \in 0 .. m + 1 |-> Step(g, n)]
    BY <2>0, Zenon
  <2>1. PICK g : g = [n \in 0 .. m |-> Step(g, n)]
    BY <1>3
  <2> DEFINE last == g[m] + values[m + 1]
             h == [n \in 0 .. m + 1 |-> IF n = m + 1 THEN last ELSE g[n]]
  <2>2. \A n \in 0 .. m + 1 : h[n] = Step(h, n)
    <3> TAKE n \in 0 .. m + 1
    <3>1. CASE n = m + 1
      <4>1. h[n - 1] = g[m]
        BY <3>1
      <4> QED BY <3>1, <4>1
    <3>2. CASE n \in 0 .. m
      <4>1. h[n] = g[n] /\ (n # 0 => h[n - 1] = g[n - 1])
        BY <3>2
      <4>2. g[n] = Step(g, n)
        BY <2>1, <3>2
      <4> QED BY <4>1, <4>2
    <3> QED BY <3>1, <3>2
  <2>3. h = [n \in 0 .. m + 1 |-> Step(h, n)]
    BY <2>2
  <2> QED BY <2>3
<1>4. Len(values) \in P
  <2> HIDE DEF P
  <2> QED BY <1>2, <1>3, AllNumbers
<1>5. \E g : g = Body(g)
  BY <1>4
<1> DEFINE sum == CHOOSE g : g = Body(g)
<1>6. sum = Body(sum)
  <2> HIDE DEF Body
  <2> QED BY <1>5
<1>7. HistoryOf!Total(values) = sum[Len(values)]
  BY DEF HistoryOf!Total
<1> HIDE DEF sum
<1>8. \A n \in 0 .. Len(values) : sum[n] = Step(sum, n)
  BY <1>6
<1>9. sum[0] = 0
  BY <1>8
<1>10. \A n \in 1 .. Len(values) : n \in 0 .. Len(values) /\ n # 0
  OBVIOUS
<1> QED BY <1>7, <1>8, <1>9, <1>10

(* at: where the items of a selection of the first n items of s were. *)
Selected(sel, s, I, n, at) ==
    /\ at \in [1 .. Len(sel) -> 1 .. n]
    /\ \A k \in 1 .. Len(sel) : at[k] \in I /\ sel[k] = s[at[k]]
    /\ \A j, k \in 1 .. Len(sel) : j < k => at[j] < at[k]
    /\ \A i \in 1 .. n : i \in I => \E k \in 1 .. Len(sel) : at[k] = i

(* A selection holds the items at its positions, each once and in order. *)
LEMMA SelectIs ==
    ASSUME NEW T, NEW s \in Seq(T), NEW I
    PROVE  /\ HistoryOf!Select(s, I) \in Seq(T)
           /\ \E at : Selected(HistoryOf!Select(s, I), s, I, Len(s), at)
<1>1. PICK kept : /\ kept[0] = << >>
                  /\ \A n \in 1 .. Len(s) :
                        kept[n] = IF n \in I THEN Append(kept[n - 1], s[n]) ELSE kept[n - 1]
                  /\ HistoryOf!Select(s, I) = kept[Len(s)]
  BY SelectSteps, Zenon
<1> DEFINE P == {n \in Nat : n <= Len(s) => /\ kept[n] \in Seq(T)
                                            /\ \E at : Selected(kept[n], s, I, n, at)}
<1>3. 0 \in P
  <2>1. kept[0] \in Seq(T) /\ Len(kept[0]) = 0
    BY <1>1
  <2>2. Selected(kept[0], s, I, 0, << >>)
    <3>1. << >> \in [1 .. 0 -> 1 .. 0]
      OBVIOUS
    <3> QED BY <2>1, <3>1 DEF Selected
  <2> QED BY <2>1, <2>2
<1>4. ASSUME NEW n \in Nat, n \in P PROVE n + 1 \in P
  <2>0. n + 1 \in Nat
    OBVIOUS
  <2> SUFFICES ASSUME n + 1 <= Len(s)
               PROVE  kept[n + 1] \in Seq(T) /\ \E at : Selected(kept[n + 1], s, I, n + 1, at)
    BY <2>0, Zenon
  <2>1. n <= Len(s)
    OBVIOUS
  <2>2. kept[n] \in Seq(T)
    BY <1>4, <2>1
  <2>3. PICK at : Selected(kept[n], s, I, n, at)
    BY <1>4, <2>1
  <2>4. n + 1 \in 1 .. Len(s) /\ (n + 1) - 1 = n
    OBVIOUS
  <2> HIDE DEF P
  <2>5. kept[n + 1] = IF n + 1 \in I THEN Append(kept[n], s[n + 1]) ELSE kept[n]
    BY <1>1, <2>4
  <2>6. CASE n + 1 \notin I
    <3>1. kept[n + 1] = kept[n]
      BY <2>5, <2>6
    <3>2. Selected(kept[n], s, I, n + 1, at)
      <4>1. at \in [1 .. Len(kept[n]) -> 1 .. n + 1]
        BY <2>2, <2>3 DEF Selected
      <4>2. \A i \in 1 .. n + 1 : i \in I => i \in 1 .. n
        BY <2>6
      <4> QED BY <4>1, <4>2, <2>3 DEF Selected
    <3> QED BY <2>2, <3>1, <3>2
  <2>7. CASE n + 1 \in I
    <3> DEFINE len == Len(kept[n])
               after == [k \in 1 .. len + 1 |-> IF k = len + 1 THEN n + 1 ELSE at[k]]
    <3>1. kept[n + 1] = Append(kept[n], s[n + 1]) /\ s[n + 1] \in T
      BY <2>4, <2>5, <2>7
    <3>2. /\ kept[n + 1] \in Seq(T) /\ len \in Nat /\ Len(kept[n + 1]) = len + 1
          /\ kept[n + 1][len + 1] = s[n + 1]
          /\ \A k \in 1 .. len : kept[n + 1][k] = kept[n][k]
      BY <2>2, <3>1
    <3>3. /\ at \in [1 .. len -> 1 .. n]
          /\ \A k \in 1 .. len : at[k] \in I /\ kept[n][k] = s[at[k]]
          /\ \A j, k \in 1 .. len : j < k => at[j] < at[k]
          /\ \A i \in 1 .. n : i \in I => \E k \in 1 .. len : at[k] = i
      BY <2>3 DEF Selected
    <3> HIDE DEF len
    <3>4. /\ after \in [1 .. len + 1 -> 1 .. n + 1] /\ after[len + 1] = n + 1
          /\ \A k \in 1 .. len : after[k] = at[k]
      BY <3>2, <3>3
    <3> HIDE DEF after
    <3>5. \A k \in 1 .. len + 1 : k \in 1 .. len \/ k = len + 1
      BY <3>2
    <3>6. \A k \in 1 .. len + 1 : after[k] \in I /\ kept[n + 1][k] = s[after[k]]
      BY <2>7, <3>2, <3>3, <3>4, <3>5
    <3>7. \A j, k \in 1 .. len + 1 : j < k => after[j] < after[k]
      <4> SUFFICES ASSUME NEW j \in 1 .. len + 1, NEW k \in 1 .. len + 1, j < k
                   PROVE  after[j] < after[k]
        OBVIOUS
      <4>1. j \in 1 .. len /\ after[j] = at[j] /\ at[j] \in 1 .. n
        BY <3>2, <3>3, <3>4
      <4>2. CASE k = len + 1
        BY <3>4, <4>1, <4>2
      <4>3. CASE k \in 1 .. len
        BY <3>3, <3>4, <4>1, <4>3
      <4> QED BY <3>5, <4>2, <4>3
    <3>8. \A i \in 1 .. n + 1 : i \in I => \E k \in 1 .. len + 1 : after[k] = i
      <4> SUFFICES ASSUME NEW i \in 1 .. n + 1, i \in I
                   PROVE  \E k \in 1 .. len + 1 : after[k] = i
        OBVIOUS
      <4>1. CASE i = n + 1
        BY <3>2, <3>4, <4>1
      <4>2. CASE i \in 1 .. n
        <5>1. PICK k \in 1 .. len : at[k] = i
          BY <3>3, <4>2
        <5>2. k \in 1 .. len + 1 /\ after[k] = i
          BY <3>2, <3>4, <5>1
        <5> QED BY <5>2
      <4> QED BY <4>1, <4>2
    <3>9. Selected(kept[n + 1], s, I, n + 1, after)
      BY <3>2, <3>4, <3>6, <3>7, <3>8 DEF Selected
    <3> QED BY <3>2, <3>9
  <2> QED BY <2>6, <2>7
<1>5. Len(s) \in P
  <2>1. Len(s) \in Nat
    OBVIOUS
  <2> HIDE DEF P
  <2> QED BY <1>3, <1>4, <2>1, AllNumbers
<1> QED BY <1>1, <1>5

(* The same, for the last item: with the last position selected, it is the *)
(* last of s.                                                              *)
LEMMA SelectLast ==
    ASSUME NEW T, NEW s \in Seq(T), NEW I, s # << >>, Len(s) \in I, NEW sel, sel = HistoryOf!Select(s, I)
    PROVE  sel # << >> /\ sel[Len(sel)] = s[Len(s)]
<1>1. sel \in Seq(T) /\ Len(s) \in 1 .. Len(s)
  BY SelectIs
<1>2. PICK at : Selected(sel, s, I, Len(s), at)
  BY SelectIs
<1>3. PICK k \in 1 .. Len(sel) : at[k] = Len(s)
  BY <1>1, <1>2 DEF Selected
<1>4. k = Len(sel)
  <2>1. Len(sel) \in 1 .. Len(sel) /\ Len(sel) \in Nat
    BY <1>1
  <2>2. at[Len(sel)] <= Len(s) /\ (k < Len(sel) => at[k] < at[Len(sel)]) /\ at[Len(sel)] \in Int
    BY <1>2, <2>1 DEF Selected
  <2> QED BY <1>1, <1>3, <2>1, <2>2
<1> QED BY <1>1, <1>2, <1>3, <1>4 DEF Selected

-----------------------------------------------------------------------------
(* Totals, means and extremes *)

(* What bounds each of n values on average bounds the quotient. *)
LEMMA DivBounds ==
    ASSUME NEW total \in Int, NEW n \in Nat \ {0}, NEW low \in Int, NEW high \in Int,
           n * low <= total, total <= n * high
    PROVE  total \div n \in Int /\ low <= total \div n /\ total \div n <= high
<1> DEFINE q == total \div n
           r == total % n
<1>1. q \in Int /\ r \in 0 .. n - 1 /\ total = n * q + r
  OBVIOUS
<1> HIDE DEF q, r
<1>2. q < low => n * q + n <= n * low
  <2> SUFFICES ASSUME q < low PROVE n * q + n <= n * low
    OBVIOUS
  <2>1. n * (q + 1) <= n * low
    BY <1>1
  <2> QED BY <1>1, <2>1
<1>3. q > high => n * q >= n * high + n
  <2> SUFFICES ASSUME q > high PROVE n * q >= n * high + n
    OBVIOUS
  <2>1. n * (high + 1) <= n * q
    BY <1>1
  <2> QED BY <1>1, <2>1
<1>4. low <= q /\ q <= high
  <2>1. n * low \in Int /\ n * high \in Int /\ n * q \in Int
    BY <1>1
  <2> QED BY <1>1, <1>2, <1>3, <2>1
<1> QED BY <1>1, <1>4 DEF q

(* A total of n values lies between n times the least and n times the      *)
(* greatest.                                                               *)
LEMMA TotalBounds ==
    ASSUME NEW values \in Seq(Int), NEW low \in Int, NEW high \in Int,
           \A k \in 1 .. Len(values) : low <= values[k] /\ values[k] <= high
    PROVE  /\ HistoryOf!Total(values) \in Int
           /\ Len(values) * low <= HistoryOf!Total(values)
           /\ HistoryOf!Total(values) <= Len(values) * high
<1>1. Len(values) \in Nat
  OBVIOUS
<1>2. PICK sum : /\ sum[0] = 0
                 /\ \A n \in 1 .. Len(values) : sum[n] = sum[n - 1] + values[n]
                 /\ HistoryOf!Total(values) = sum[Len(values)]
  BY <1>1, TotalSteps, Zenon
<1> DEFINE P == {n \in Nat : n <= Len(values) =>
                    sum[n] \in Int /\ n * low <= sum[n] /\ sum[n] <= n * high}
<1>3. 0 \in P
  BY <1>2
<1>4. ASSUME NEW n \in Nat, n \in P PROVE n + 1 \in P
  <2>1. n + 1 \in Nat
    OBVIOUS
  <2> SUFFICES ASSUME n + 1 <= Len(values)
               PROVE  /\ sum[n + 1] \in Int /\ (n + 1) * low <= sum[n + 1]
                      /\ sum[n + 1] <= (n + 1) * high
    BY <2>1, Zenon
  <2>2. sum[n] \in Int /\ n * low <= sum[n] /\ sum[n] <= n * high
    BY <1>1, <1>4
  <2>3. n + 1 \in 1 .. Len(values) /\ (n + 1) - 1 = n
    BY <1>1
  <2>4. sum[n + 1] = sum[n] + values[n + 1] /\ values[n + 1] \in Int
    BY <1>2, <2>3
  <2>5. low <= values[n + 1] /\ values[n + 1] <= high
    BY <2>3
  <2>6. (n + 1) * low = n * low + low /\ (n + 1) * high = n * high + high
    OBVIOUS
  <2>7. n * low \in Int /\ n * high \in Int
    OBVIOUS
  <2> QED BY <2>2, <2>4, <2>5, <2>6, <2>7
<1>5. Len(values) \in P
  <2> HIDE DEF P
  <2> QED BY <1>1, <1>3, <1>4, AllNumbers
<1> QED BY <1>1, <1>2, <1>5

(* Of the values of a sequence one is the least and one the greatest. *)
LEMMA ExtremesExist ==
    ASSUME NEW values \in Seq(Int), values # << >>
    PROVE  /\ \E k \in 1 .. Len(values) : \A j \in 1 .. Len(values) : values[k] <= values[j]
           /\ \E k \in 1 .. Len(values) : \A j \in 1 .. Len(values) : values[j] <= values[k]
<1>1. Len(values) \in Nat \ {0}
  OBVIOUS
<1>2. \A k \in 1 .. Len(values) : values[k] \in Int
  OBVIOUS
<1> DEFINE Low(n, k) == k \in 1 .. n /\ \A j \in 1 .. n : values[k] <= values[j]
           High(n, k) == k \in 1 .. n /\ \A j \in 1 .. n : values[j] <= values[k]
           P == {n \in Nat : n + 1 <= Len(values) => /\ \E k : Low(n + 1, k)
                                                     /\ \E k : High(n + 1, k)}
<1>3. 0 \in P
  <2>1. Low(0 + 1, 1) /\ High(0 + 1, 1)
    BY <1>1, <1>2
  <2> QED BY <2>1
<1>4. ASSUME NEW n \in Nat, n \in P PROVE n + 1 \in P
  <2>1. n + 1 \in Nat
    OBVIOUS
  <2> DEFINE m == n + 1
  <2> SUFFICES ASSUME m + 1 <= Len(values)
               PROVE  (\E k : Low(m + 1, k)) /\ (\E k : High(m + 1, k))
    BY <2>1, Zenon
  <2>2. PICK a, b : Low(m, a) /\ High(m, b)
    BY <1>1, <1>4
  <2>3. m \in Nat /\ \A j \in 1 .. m + 1 : j \in 1 .. m \/ j = m + 1
    OBVIOUS
  <2>4. \A j \in 1 .. m + 1 : values[j] \in Int
    BY <1>1, <1>2
  <2>5. a \in 1 .. m + 1 /\ b \in 1 .. m + 1 /\ m + 1 \in 1 .. m + 1
    BY <2>2
  <2>6. \A j \in 1 .. m : values[a] <= values[j] /\ values[j] <= values[b]
    BY <2>2
  <2> HIDE DEF m
  <2>7. \E k : Low(m + 1, k)
    <3>1. CASE values[a] <= values[m + 1]
      <4>1. Low(m + 1, a)
        BY <2>3, <2>4, <2>5, <2>6, <3>1
      <4> QED BY <4>1
    <3>2. CASE ~(values[a] <= values[m + 1])
      <4>1. Low(m + 1, m + 1)
        BY <2>3, <2>4, <2>5, <2>6, <3>2
      <4> QED BY <4>1
    <3> QED BY <3>1, <3>2
  <2>8. \E k : High(m + 1, k)
    <3>1. CASE values[m + 1] <= values[b]
      <4>1. High(m + 1, b)
        BY <2>3, <2>4, <2>5, <2>6, <3>1
      <4> QED BY <4>1
    <3>2. CASE ~(values[m + 1] <= values[b])
      <4>1. High(m + 1, m + 1)
        BY <2>3, <2>4, <2>5, <2>6, <3>2
      <4> QED BY <4>1
    <3> QED BY <3>1, <3>2
  <2> QED BY <2>7, <2>8
<1>5. \A n \in Nat : n \in P
  <2> HIDE DEF P
  <2> QED BY <1>3, <1>4, AllNumbers
<1>6. Len(values) - 1 \in P /\ (Len(values) - 1) + 1 = Len(values)
  <2> HIDE DEF P
  <2> QED BY <1>1, <1>5
<1> QED BY <1>1, <1>6

(* The roll-up of a column that has values: its least, its greatest and,   *)
(* between them, its mean.                                                 *)
LEMMA StatIs ==
    ASSUME NEW values \in Seq(Int), values # << >>
    PROVE  LET of == HistoryOf!stat(values) IN
           /\ of.min \in Int /\ of.max \in Int /\ of.avg = HistoryOf!Mean(values)
           /\ \A k \in 1 .. Len(values) : of.min <= values[k] /\ values[k] <= of.max
           /\ of.avg \in Int /\ of.min <= of.avg /\ of.avg <= of.max
           /\ \E k \in 1 .. Len(values) : of.min = values[k]
           /\ \E k \in 1 .. Len(values) : of.max = values[k]
<1> DEFINE of == HistoryOf!stat(values)
           all == HistoryOf!Range(values)
<1>1. Len(values) \in Nat \ {0} /\ DOMAIN values = 1 .. Len(values)
  OBVIOUS
<1>2. all = {values[k] : k \in 1 .. Len(values)}
  BY <1>1 DEF HistoryOf!Range
<1>3. of = [min |-> HistoryOf!Min(all), max |-> HistoryOf!Max(all), avg |-> HistoryOf!Mean(values)]
  BY DEF HistoryOf!stat
<1> HIDE DEF all, of
<1>4. of.min = HistoryOf!Min(all) /\ of.max = HistoryOf!Max(all) /\ of.avg = HistoryOf!Mean(values)
  BY <1>3
<1>5. \E x \in all : \A y \in all : x <= y
  <2>1. PICK k \in 1 .. Len(values) : \A j \in 1 .. Len(values) : values[k] <= values[j]
    BY ExtremesExist, Zenon
  <2> QED BY <1>2, <2>1
<1>6. \E x \in all : \A y \in all : y <= x
  <2>1. PICK k \in 1 .. Len(values) : \A j \in 1 .. Len(values) : values[j] <= values[k]
    BY ExtremesExist, Zenon
  <2> QED BY <1>2, <2>1
<1>7. of.min \in all /\ \A y \in all : of.min <= y
  BY <1>4, <1>5, Zenon DEF HistoryOf!Min
<1>8. of.max \in all /\ \A y \in all : y <= of.max
  BY <1>4, <1>6, SMT DEF HistoryOf!Max
<1>9. \A k \in 1 .. Len(values) : values[k] \in all /\ values[k] \in Int
  BY <1>2
<1>10. /\ of.min \in Int /\ of.max \in Int
       /\ \A k \in 1 .. Len(values) : of.min <= values[k] /\ values[k] <= of.max
       /\ \E k \in 1 .. Len(values) : of.min = values[k]
       /\ \E k \in 1 .. Len(values) : of.max = values[k]
  BY <1>2, <1>7, <1>8, <1>9
<1>11. of.avg \in Int /\ of.min <= of.avg /\ of.avg <= of.max
  <2>1. of.avg = HistoryOf!Total(values) \div Len(values)
    BY <1>4 DEF HistoryOf!Mean
  <2>2. /\ HistoryOf!Total(values) \in Int /\ Len(values) * of.min <= HistoryOf!Total(values)
        /\ HistoryOf!Total(values) <= Len(values) * of.max
    BY <1>10, TotalBounds
  <2> QED BY <1>1, <1>10, <2>1, <2>2, DivBounds
<1> QED BY <1>4, <1>10, <1>11 DEF of

-----------------------------------------------------------------------------
(* Selected rows and their values *)

(* A selection has the items at the positions, and no others. *)
LEMMA SelectItems ==
    ASSUME NEW T, NEW s \in Seq(T), NEW I
    PROVE  LET sel == HistoryOf!Select(s, I) IN
           /\ sel \in Seq(T)
           /\ \A k \in 1 .. Len(sel) : \E i \in 1 .. Len(s) : i \in I /\ sel[k] = s[i]
           /\ \A i \in 1 .. Len(s) : i \in I => \E k \in 1 .. Len(sel) : sel[k] = s[i]
<1> DEFINE sel == HistoryOf!Select(s, I)
<1>1. sel \in Seq(T)
  BY SelectIs
<1>2. PICK at : Selected(sel, s, I, Len(s), at)
  BY SelectIs
<1> HIDE DEF sel
<1>3. \A k \in 1 .. Len(sel) : at[k] \in 1 .. Len(s) /\ at[k] \in I /\ sel[k] = s[at[k]]
  BY <1>2 DEF Selected
<1>4. \A i \in 1 .. Len(s) : i \in I => \E k \in 1 .. Len(sel) : at[k] = i
  BY <1>2 DEF Selected
<1>5. \A i \in 1 .. Len(s) : i \in I => \E k \in 1 .. Len(sel) : sel[k] = s[i]
  <2> SUFFICES ASSUME NEW i \in 1 .. Len(s), i \in I PROVE \E k \in 1 .. Len(sel) : sel[k] = s[i]
    OBVIOUS
  <2>1. PICK k \in 1 .. Len(sel) : at[k] = i
    BY <1>4
  <2> QED BY <1>3, <2>1
<1>6. \A k \in 1 .. Len(sel) : \E i \in 1 .. Len(s) : i \in I /\ sel[k] = s[i]
  BY <1>3, Zenon
<1> QED BY <1>1, <1>5, <1>6, Zenon DEF sel

(* The same, of one item. *)
LEMMA SelectHas ==
    ASSUME NEW T, NEW s \in Seq(T), NEW I, NEW i \in 1 .. Len(s), i \in I
    PROVE  LET sel == HistoryOf!Select(s, I) IN \E k \in 1 .. Len(sel) : sel[k] = s[i]
  BY SelectItems

(* A sequence whose items are in a smaller set is one over that set. *)
LEMMA ItemsIn ==
    ASSUME NEW T, NEW S, NEW s \in Seq(T), \A k \in 1 .. Len(s) : s[k] \in S
    PROVE  s \in Seq(S)
  OBVIOUS

(* What a row of the log holds. *)
LEMMA RowFields ==
    ASSUME NEW row \in HistoryOf!Rows
    PROVE  row.timestamp \in Int /\ row.value \in Int \cup {None} /\ row.uptime \in Nat \cup {None}
  BY DEF HistoryOf!Rows

(* A selection of rows in the order of time is in that order. *)
LEMMA SelectOrdered ==
    ASSUME NEW rows \in Seq(HistoryOf!Rows), HistoryOf!Ordered(rows), NEW I,
           NEW sel, sel = HistoryOf!Select(rows, I)
    PROVE  sel \in Seq(HistoryOf!Rows) /\ HistoryOf!Ordered(sel)
<1>1. sel \in Seq(HistoryOf!Rows)
  BY SelectIs
<1>2. PICK at : Selected(sel, rows, I, Len(rows), at)
  BY SelectIs
<1>3. ASSUME NEW i \in 1 .. Len(sel), NEW j \in 1 .. Len(sel), i < j
      PROVE  sel[i].timestamp <= sel[j].timestamp
  <2>1. /\ at[i] \in 1 .. Len(rows) /\ at[j] \in 1 .. Len(rows) /\ at[i] < at[j]
        /\ sel[i] = rows[at[i]] /\ sel[j] = rows[at[j]]
    BY <1>2, <1>3 DEF Selected
  <2>2. DOMAIN rows = 1 .. Len(rows)
    OBVIOUS
  <2> QED BY <2>1, <2>2 DEF HistoryOf!Ordered
<1>4. DOMAIN sel = 1 .. Len(sel)
  BY <1>1
<1> QED BY <1>1, <1>3, <1>4 DEF HistoryOf!Ordered

(* The values of some rows are those of the rows that were measured. *)
LEMMA ValuesAre ==
    ASSUME None \notin Int, NEW rows \in Seq(HistoryOf!Rows)
    PROVE  LET vals == HistoryOf!Values(rows) IN
           /\ vals \in Seq(Int)
           /\ \A k \in 1 .. Len(vals) : \E i \in 1 .. Len(rows) :
                  rows[i].value # None /\ vals[k] = rows[i].value
           /\ \A i \in 1 .. Len(rows) : rows[i].value # None =>
                  \E k \in 1 .. Len(vals) : vals[k] = rows[i].value
<1> DEFINE vals == HistoryOf!Values(rows)
           T == Int \cup {None}
           col == [i \in DOMAIN rows |-> rows[i].value]
           I == HistoryOf!Measured(rows)
<1>1. Len(rows) \in Nat /\ DOMAIN rows = 1 .. Len(rows)
  OBVIOUS
<1>2. \A i \in 1 .. Len(rows) : rows[i].value \in T
  BY RowFields, ItemOf
<1>3. col \in Seq(T) /\ Len(col) = Len(rows) /\ \A i \in 1 .. Len(rows) : col[i] = rows[i].value
  BY <1>1, <1>2
<1>4. \A i \in 1 .. Len(rows) : i \in I <=> rows[i].value # None
  BY <1>1 DEF HistoryOf!Measured
<1>5. vals = HistoryOf!Select(col, I)
  BY DEF HistoryOf!Values
<1> HIDE DEF col, I, T, vals
<1>6. /\ vals \in Seq(T)
      /\ \A k \in 1 .. Len(vals) : \E i \in 1 .. Len(col) : i \in I /\ vals[k] = col[i]
      /\ \A i \in 1 .. Len(col) : i \in I => \E k \in 1 .. Len(vals) : vals[k] = col[i]
  <2>1. col \in Seq(T)
    BY <1>3
  <2> DEFINE sel == HistoryOf!Select(col, I)
  <2>2. /\ sel \in Seq(T)
        /\ \A k \in 1 .. Len(sel) : \E i \in 1 .. Len(col) : i \in I /\ sel[k] = col[i]
        /\ \A i \in 1 .. Len(col) : i \in I => \E k \in 1 .. Len(sel) : sel[k] = col[i]
    BY <2>1, SelectItems
  <2>3. vals = sel
    BY <1>5
  <2> HIDE DEF sel
  <2> QED BY <2>2, <2>3
<1>7. \A k \in 1 .. Len(vals) : \E i \in 1 .. Len(rows) :
          rows[i].value # None /\ vals[k] = rows[i].value
  BY <1>3, <1>4, <1>6
<1>8. \A k \in 1 .. Len(vals) : vals[k] \in Int
  BY <1>2, <1>7 DEF T
<1>9. vals \in Seq(Int)
  BY <1>6, <1>8, ItemsIn
<1>10. \A i \in 1 .. Len(rows) : rows[i].value # None =>
           \E k \in 1 .. Len(vals) : vals[k] = rows[i].value
  BY <1>3, <1>4, <1>6
<1> QED BY <1>7, <1>9, <1>10 DEF vals

(* The roll-up of rows, of which at least one was measured. *)
LEMMA MeasuredStat ==
    ASSUME None \notin Int, NEW rows \in Seq(HistoryOf!Rows),
           NEW i \in 1 .. Len(rows), rows[i].value # None
    PROVE  LET of == HistoryOf!stat(HistoryOf!Values(rows)) IN
           /\ of.min \in Int /\ of.max \in Int /\ rows[i].value \in Int
           /\ of.min <= rows[i].value /\ rows[i].value <= of.max
<1> DEFINE vals == HistoryOf!Values(rows)
           of == HistoryOf!stat(vals)
<1>1. /\ vals \in Seq(Int)
      /\ \E k \in 1 .. Len(vals) : vals[k] = rows[i].value
  BY ValuesAre
<1> HIDE DEF vals
<1>2. vals # << >>
  BY <1>1
<1>3. /\ of.min \in Int /\ of.max \in Int
      /\ \A k \in 1 .. Len(vals) : of.min <= vals[k] /\ vals[k] <= of.max
  BY <1>1, <1>2, StatIs
<1> HIDE DEF of
<1>4. of.min <= rows[i].value /\ rows[i].value <= of.max /\ rows[i].value \in Int
  BY <1>1, <1>3
<1> QED BY <1>3, <1>4 DEF of, vals

-----------------------------------------------------------------------------
(* A row of the answer *)

(* A row, and the logged rows it stands for. *)
Backs(row, covered) ==
    /\ covered \in Seq(HistoryOf!Rows) /\ covered # << >>
    /\ row.timestamp \in Int
    /\ row.uptime = covered[Len(covered)].uptime
    /\ LET vals == HistoryOf!Values(covered) IN
       IF vals = << >> THEN row.value = None
       ELSE /\ row.value \in Int
            /\ HistoryOf!stat(vals).min <= row.value /\ row.value <= HistoryOf!stat(vals).max

(* A row that is asked for some groups has the time and their values. *)
LEMMA BuiltRow ==
    ASSUME None \notin Int, NEW row, row.timestamp \in Int,
           NEW include \in SUBSET {"weather", "device"},
           NEW out, out = HistoryOf!build_history_row(row, include)
    PROVE  /\ out.timestamp = row.timestamp
           /\ "value" \in DOMAIN out <=> "weather" \in include /\ row.value # None
           /\ "value" \in DOMAIN out => out.value = row.value
           /\ "uptime" \in DOMAIN out <=> "device" \in include /\ row.uptime # None
           /\ "uptime" \in DOMAIN out => out.uptime = row.uptime
<1> DEFINE wanted == {"timestamp"} \cup {HistoryOf!HISTORY_GROUPS[g] : g \in include}
           kept == {x \in wanted : row[x] # None}
<1>1. out = [c \in kept |-> row[c]]
  BY DEF HistoryOf!build_history_row
<1>2. /\ HistoryOf!HISTORY_GROUPS["weather"] = "value"
      /\ HistoryOf!HISTORY_GROUPS["device"] = "uptime"
  BY DEF HistoryOf!HISTORY_GROUPS
<1>3. /\ "timestamp" \in wanted
      /\ "value" \in wanted <=> "weather" \in include
      /\ "uptime" \in wanted <=> "device" \in include
  BY <1>2
<1> HIDE DEF wanted
<1>4. /\ "timestamp" \in kept
      /\ "value" \in kept <=> "weather" \in include /\ row.value # None
      /\ "uptime" \in kept <=> "device" \in include /\ row.uptime # None
  BY <1>3
<1> HIDE DEF kept
<1> QED BY <1>1, <1>4

(* Such a row, as it is answered, tells what the rows behind it do. *)
LEMMA RowTells ==
    ASSUME None \notin Int, NEW row, NEW covered, Backs(row, covered),
           NEW include \in SUBSET {"weather", "device"},
           NEW out, out = HistoryOf!build_history_row(row, include)
    PROVE  /\ HistoryOf!Tells(out, covered, include)
           /\ "value" \in DOMAIN out => out.value \in Int /\ HistoryOf!Values(covered) # << >>
<1>1. row.timestamp \in Int /\ covered # << >> /\ row.uptime = covered[Len(covered)].uptime
  BY DEF Backs
<1>2. /\ "value" \in DOMAIN out <=> "weather" \in include /\ row.value # None
      /\ "value" \in DOMAIN out => out.value = row.value
      /\ "uptime" \in DOMAIN out <=> "device" \in include /\ row.uptime # None
      /\ "uptime" \in DOMAIN out => out.uptime = row.uptime
  BY <1>1, BuiltRow, Zenon
<1> DEFINE vals == HistoryOf!Values(covered)
           of == HistoryOf!stat(vals)
<1>3. vals = << >> => row.value = None
  BY DEF Backs
<1>4. vals # << >> => row.value \in Int /\ of.min <= row.value /\ row.value <= of.max
  BY DEF Backs
<1>5. HistoryOf!Last(covered) = covered[Len(covered)]
  BY DEF HistoryOf!Last
<1> HIDE DEF of, vals
<1>6. "value" \in DOMAIN out => of.min <= out.value /\ out.value <= of.max
  BY <1>2, <1>3, <1>4
<1>7. "weather" \in include /\ "value" \notin DOMAIN out => vals = << >>
  BY <1>2, <1>4
<1>8. /\ "uptime" \in DOMAIN out => out.uptime = HistoryOf!Last(covered).uptime
      /\ "device" \in include /\ "uptime" \notin DOMAIN out => HistoryOf!Last(covered).uptime = None
  BY <1>1, <1>2, <1>5
<1>9. "value" \in DOMAIN out => out.value \in Int /\ vals # << >>
  BY <1>2, <1>3, <1>4
<1> QED BY <1>1, <1>6, <1>7, <1>8, <1>9 DEF HistoryOf!Tells, of, vals

-----------------------------------------------------------------------------
(* The buckets: with rows in the order of time their starts are, and each  *)
(* run of rows with one start is closed once, at its last row.             *)

(* Two instants have one start exactly when one is in the bucket of the    *)
(* other, and starts keep the order of time.                               *)
LEMMA StartIs ==
    ASSUME NEW ts \in Int, NEW other \in Int, NEW width \in Nat \ {0}
    PROVE  /\ (ts \div width) * width \in Int
           /\ ts <= other => (ts \div width) * width <= (other \div width) * width
           /\ (other \div width) * width <= ts /\ ts < (other \div width) * width + width
                 <=> (ts \div width) * width = (other \div width) * width
<1> DEFINE p == ts \div width
           q == other \div width
<1>1. p \in Int /\ p * width <= ts /\ ts < p * width + width
  OBVIOUS
<1>2. q \in Int /\ q * width <= other /\ other < q * width + width
  OBVIOUS
<1> HIDE DEF p, q
<1>3. ASSUME NEW a \in Int, NEW b \in Int, a < b PROVE a * width + width <= b * width
  <2>1. (a + 1) * width <= b * width
    BY <1>3
  <2> QED BY <2>1
<1>4. p * width \in Int /\ q * width \in Int
  BY <1>1, <1>2
<1>5. p < q => p * width + width <= q * width
  BY <1>1, <1>2, <1>3
<1>6. q < p => q * width + width <= p * width
  BY <1>1, <1>2, <1>3
<1>7. p = q \/ p < q \/ q < p
  BY <1>1, <1>2
<1>8. p = q => p * width = q * width
  OBVIOUS
<1> DEFINE P == p * width
           Q == q * width
<1> HIDE DEF P, Q
<1>9. /\ P \in Int /\ Q \in Int /\ P <= ts /\ ts < P + width /\ Q <= other /\ other < Q + width
      /\ p < q => P + width <= Q
      /\ q < p => Q + width <= P
      /\ p = q => P = Q
  BY <1>1, <1>2, <1>4, <1>5, <1>6, <1>8 DEF P, Q
<1>10. /\ ts <= other => P <= Q
       /\ Q <= ts /\ ts < Q + width <=> P = Q
  BY <1>7, <1>9
<1> QED BY <1>9, <1>10 DEF P, Q, p, q

(* So it is with the starts of all rows. *)
LEMMA StartsAre ==
    ASSUME NEW rows \in Seq(HistoryOf!Rows), HistoryOf!Ordered(rows), NEW width \in Nat \ {0},
           NEW starts, starts = HistoryOf!Starts(rows, width)
    PROVE  /\ starts \in Seq(Int) /\ Len(starts) = Len(rows)
           /\ \A i, j \in 1 .. Len(rows) :
                 /\ i < j => starts[i] <= starts[j]
                 /\ HistoryOf!In(rows[i], starts[j], width) <=> starts[i] = starts[j]
<1>1. Len(rows) \in Nat /\ DOMAIN rows = 1 .. Len(rows)
  OBVIOUS
<1>2. \A i \in 1 .. Len(rows) : rows[i].timestamp \in Int
  BY RowFields, ItemOf
<1>3. \A i \in 1 .. Len(rows) : starts[i] = (rows[i].timestamp \div width) * width
  BY <1>1 DEF HistoryOf!Starts
<1>4. \A i \in 1 .. Len(rows) : starts[i] \in Int
  BY <1>2, <1>3, StartIs
<1>5. starts \in Seq(Int) /\ Len(starts) = Len(rows)
  <2>1. starts = [i \in 1 .. Len(rows) |-> (rows[i].timestamp \div width) * width]
    BY <1>1 DEF HistoryOf!Starts
  <2>2. starts = [i \in 1 .. Len(rows) |-> starts[i]]
    BY <2>1
  <2> QED BY <1>1, <1>4, <2>2
<1>6. ASSUME NEW i \in 1 .. Len(rows), NEW j \in 1 .. Len(rows)
      PROVE  /\ i < j => starts[i] <= starts[j]
             /\ HistoryOf!In(rows[i], starts[j], width) <=> starts[i] = starts[j]
  <2>1. i < j => rows[i].timestamp <= rows[j].timestamp
    BY <1>1 DEF HistoryOf!Ordered
  <2> DEFINE ts == rows[i].timestamp
             other == rows[j].timestamp
  <2>2. ts \in Int /\ other \in Int
    BY <1>2
  <2>3. starts[i] = (ts \div width) * width /\ starts[j] = (other \div width) * width
    BY <1>3
  <2>4. HistoryOf!In(rows[i], starts[j], width) <=> starts[j] <= ts /\ ts < starts[j] + width
    BY DEF HistoryOf!In
  <2> HIDE DEF ts, other
  <2>5. /\ ts <= other => starts[i] <= starts[j]
        /\ starts[j] <= ts /\ ts < starts[j] + width <=> starts[i] = starts[j]
    <3>1. /\ ts <= other => (ts \div width) * width <= (other \div width) * width
          /\ (other \div width) * width <= ts /\ ts < (other \div width) * width + width
                <=> (ts \div width) * width = (other \div width) * width
      BY <2>2, StartIs
    <3> QED BY <2>3, <3>1, Zenon
  <2> QED BY <2>1, <2>4, <2>5 DEF ts, other
<1> QED BY <1>5, <1>6

(* Every start is closed once, by a bucket of all the rows it has. *)
LEMMA Closers ==
    ASSUME NEW starts \in Seq(Int),
           \A i, j \in 1 .. Len(starts) : i < j => starts[i] <= starts[j]
    PROVE  LET closes == HistoryOf!Closes(starts) IN
           /\ closes \subseteq 1 .. Len(starts)
           /\ \A i \in 1 .. Len(starts) : \E c \in closes : starts[c] = starts[i]
           /\ \A c, d \in closes : c < d => starts[c] < starts[d]
           /\ \A c \in closes :
                 HistoryOf!current_bucket(starts, c) = {k \in 1 .. Len(starts) : starts[k] = starts[c]}
<1> DEFINE closes == HistoryOf!Closes(starts)
           len == Len(starts)
<1>1. len \in Nat /\ DOMAIN starts = 1 .. len /\ \A i \in 1 .. len : starts[i] \in Int
  OBVIOUS
<1>2. closes = {i \in 1 .. len : i = len \/ starts[i + 1] # starts[i]}
  BY <1>1 DEF HistoryOf!Closes
<1>3. \A i, j \in 1 .. len : i < j => starts[i] <= starts[j]
  OBVIOUS
<1> HIDE DEF closes, len
<1>4. closes \subseteq 1 .. len
  BY <1>2
<1>5. ASSUME NEW c \in closes, NEW k \in 1 .. len, c < k PROVE starts[c] < starts[k]
  <2>1. c \in 1 .. len /\ c + 1 \in 1 .. len /\ starts[c + 1] # starts[c]
    BY <1>1, <1>2, <1>5
  <2>2. starts[c] <= starts[c + 1] /\ (c + 1 < k => starts[c + 1] <= starts[k])
    BY <1>1, <1>3, <1>5, <2>1
  <2>3. c + 1 = k \/ c + 1 < k
    BY <1>1, <1>5, <2>1
  <2>4. starts[c] \in Int /\ starts[c + 1] \in Int /\ starts[k] \in Int
    BY <1>1, <2>1
  <2> QED BY <2>1, <2>2, <2>3, <2>4
<1>6. ASSUME NEW i \in 1 .. len PROVE \E c \in closes : starts[c] = starts[i]
  <2> DEFINE D == {n \in Nat : n <= len - i /\ starts[len - n] = starts[i]}
  <2>1. len - i \in D
    BY <1>1
  <2>2. PICK n \in D : \A m \in D : n <= m
    BY <2>1, LeastNatural
  <2>3. n \in Nat /\ n <= len - i /\ len - n \in 1 .. len /\ starts[len - n] = starts[i]
    BY <1>1, <2>2
  <2>4. len - n = len \/ starts[len - n + 1] # starts[len - n]
    <3> SUFFICES ASSUME n # 0, starts[len - n + 1] = starts[i] PROVE FALSE
      BY <1>1, <2>3
    <3>1. n - 1 \in Nat /\ len - (n - 1) = len - n + 1 /\ n - 1 <= len - i
      BY <1>1, <2>3
    <3>2. n - 1 \in D
      BY <3>1
    <3> QED BY <2>2, <2>3, <3>2
  <2>5. len - n \in closes
    BY <1>2, <2>3, <2>4
  <2> QED BY <2>3, <2>5
<1>7. ASSUME NEW c \in closes
      PROVE  HistoryOf!current_bucket(starts, c) = {k \in 1 .. len : starts[k] = starts[c]}
  <2>1. c \in 1 .. len /\ starts[c] \in Int
    BY <1>1, <1>4
  <2>2. ASSUME NEW k \in 1 .. c, \A m \in k .. c : starts[m] = starts[c]
        PROVE  k \in 1 .. len /\ starts[k] = starts[c]
    <3>1. k \in k .. c /\ k \in 1 .. len
      BY <1>1, <2>1, <2>2
    <3> QED BY <2>2, <3>1
  <2>3. ASSUME NEW k \in 1 .. len, starts[k] = starts[c]
        PROVE  k \in 1 .. c /\ \A m \in k .. c : starts[m] = starts[c]
    <3>1. ~(c < k)
      BY <1>1, <1>5, <2>1, <2>3
    <3>2. k \in 1 .. c
      BY <1>1, <2>1, <3>1
    <3>3. ASSUME NEW m \in k .. c PROVE starts[m] = starts[c]
      <4>1. m \in 1 .. len /\ starts[m] \in Int /\ (k < m \/ k = m) /\ (m < c \/ m = c)
        BY <1>1, <2>1
      <4>2. k < m => starts[k] <= starts[m]
        BY <1>3, <4>1
      <4>3. m < c => starts[m] <= starts[c]
        BY <1>3, <2>1, <4>1
      <4> QED BY <2>1, <2>3, <4>1, <4>2, <4>3
    <3> QED BY <3>2, <3>3
  <2> QED BY <2>2, <2>3 DEF HistoryOf!current_bucket
<1>8. \A c, d \in closes : c < d => starts[c] < starts[d]
  BY <1>4, <1>5
<1> QED BY <1>4, <1>6, <1>7, <1>8 DEF closes, len

(* A bucket stands for the rows it was made of. *)
LEMMA AggregateIs ==
    ASSUME None \notin Int, NEW covered \in Seq(HistoryOf!Rows), covered # << >>, NEW start \in Int
    PROVE  LET row == HistoryOf!_aggregate_bucket(covered, start) IN
           row \in HistoryOf!Rows /\ row.timestamp = start /\ Backs(row, covered)
<1> DEFINE row == HistoryOf!_aggregate_bucket(covered, start)
           vals == HistoryOf!Values(covered)
<1>1. row = [timestamp |-> start, value |-> HistoryOf!Mean(vals),
             uptime |-> covered[Len(covered)].uptime]
  BY DEF HistoryOf!_aggregate_bucket, HistoryOf!Last
<1>2. vals \in Seq(Int)
  BY ValuesAre
<1>3. covered[Len(covered)].uptime \in Nat \cup {None}
  <2>1. Len(covered) \in 1 .. Len(covered)
    OBVIOUS
  <2> QED BY <2>1, RowFields, ItemOf
<1> HIDE DEF row, vals
<1>4. CASE vals = << >>
  <2>1. row.value = None
    BY <1>1, <1>4 DEF HistoryOf!Mean
  <2>2. row \in HistoryOf!Rows /\ row.timestamp = start /\ row.uptime = covered[Len(covered)].uptime
    BY <1>1, <1>3, <1>4 DEF HistoryOf!Rows, HistoryOf!Mean
  <2> QED BY <1>4, <2>1, <2>2 DEF Backs, row, vals
<1>5. CASE vals # << >>
  <2> DEFINE of == HistoryOf!stat(vals)
  <2>1. of.avg = HistoryOf!Mean(vals) /\ of.avg \in Int /\ of.min <= of.avg /\ of.avg <= of.max
    BY <1>2, <1>5, StatIs
  <2> HIDE DEF of
  <2>2. row.value = of.avg
    BY <1>1, <2>1
  <2>3. row \in HistoryOf!Rows /\ row.timestamp = start /\ row.uptime = covered[Len(covered)].uptime
    BY <1>1, <1>3, <2>1 DEF HistoryOf!Rows
  <2>4. row.value \in Int /\ of.min <= row.value /\ row.value <= of.max
    BY <2>1, <2>2
  <2> QED BY <1>5, <2>3, <2>4 DEF Backs, row, vals, of
<1> QED BY <1>4, <1>5

(* The buckets of some rows: in order, each row in one of them, and each   *)
(* backed by the rows in it.                                               *)
LEMMA BucketsAre ==
    ASSUME None \notin Int, NEW rows \in Seq(HistoryOf!Rows), HistoryOf!Ordered(rows),
           NEW width \in Nat \ {0}, NEW out, out = HistoryOf!_bucket_rows(rows, width)
    PROVE  /\ out \in Seq(HistoryOf!Rows)
           /\ \A j, k \in 1 .. Len(out) : j < k => out[j].timestamp < out[k].timestamp
           /\ \A i \in 1 .. Len(rows) : \E j \in 1 .. Len(out) : \A k \in 1 .. Len(out) :
                 HistoryOf!In(rows[i], out[k].timestamp, width) <=> k = j
           /\ \A j \in 1 .. Len(out) : Backs(out[j],
                 HistoryOf!Select(rows, {i \in DOMAIN rows :
                                            HistoryOf!In(rows[i], out[j].timestamp, width)}))
<1> DEFINE starts == HistoryOf!Starts(rows, width)
           closes == HistoryOf!Closes(starts)
           Bucket(c) == HistoryOf!Select(rows, HistoryOf!current_bucket(starts, c))
           agg == HistoryOf!Bucketed(rows, starts)
<1>1. Len(rows) \in Nat /\ DOMAIN rows = 1 .. Len(rows)
  OBVIOUS
<1>2. starts \in Seq(Int) /\ Len(starts) = Len(rows)
  BY StartsAre
<1>3. \A i, j \in 1 .. Len(rows) :
          /\ i < j => starts[i] <= starts[j]
          /\ HistoryOf!In(rows[i], starts[j], width) <=> starts[i] = starts[j]
  BY StartsAre
<1>4. out = HistoryOf!Select(agg, closes)
  BY DEF HistoryOf!_bucket_rows
<1> HIDE DEF starts
<1>5. /\ closes \subseteq 1 .. Len(starts)
      /\ \A i \in 1 .. Len(starts) : \E c \in closes : starts[c] = starts[i]
      /\ \A c, d \in closes : c < d => starts[c] < starts[d]
      /\ \A c \in closes :
            HistoryOf!current_bucket(starts, c) = {k \in 1 .. Len(starts) : starts[k] = starts[c]}
  BY <1>2, <1>3, Closers
<1> HIDE DEF closes
<1>6. ASSUME NEW i \in 1 .. Len(rows)
      PROVE  /\ agg[i] \in HistoryOf!Rows /\ agg[i].timestamp = starts[i] /\ starts[i] \in Int
             /\ Backs(agg[i], Bucket(i))
  <2>1. agg[i] = HistoryOf!_aggregate_bucket(Bucket(i), starts[i])
    BY <1>1 DEF HistoryOf!Bucketed
  <2>2. i \in HistoryOf!current_bucket(starts, i)
    BY <1>1 DEF HistoryOf!current_bucket
  <2>3. Bucket(i) \in Seq(HistoryOf!Rows) /\ \E k \in 1 .. Len(Bucket(i)) : Bucket(i)[k] = rows[i]
    BY <2>2, SelectItems
  <2>4. starts[i] \in Int
    BY <1>2
  <2> HIDE DEF Bucket
  <2>5. Bucket(i) # << >>
    BY <2>3
  <2>6. LET row == HistoryOf!_aggregate_bucket(Bucket(i), starts[i]) IN
        row \in HistoryOf!Rows /\ row.timestamp = starts[i] /\ Backs(row, Bucket(i))
    BY <2>3, <2>4, <2>5, AggregateIs
  <2> QED BY <2>1, <2>4, <2>6 DEF Bucket
<1>7. agg \in Seq(HistoryOf!Rows) /\ Len(agg) = Len(rows)
  <2>1. agg = [i \in 1 .. Len(rows) |-> agg[i]]
    BY <1>1 DEF HistoryOf!Bucketed
  <2> HIDE DEF agg
  <2> QED BY <1>1, <1>6, <2>1
<1> HIDE DEF agg
<1>8. out \in Seq(HistoryOf!Rows)
  BY <1>4, <1>7, SelectIs
<1>9. PICK at : Selected(out, agg, closes, Len(agg), at)
  BY <1>4, <1>7, SelectIs
<1>10. \A j \in 1 .. Len(out) :
           /\ at[j] \in 1 .. Len(rows) /\ at[j] \in closes
           /\ out[j] = agg[at[j]] /\ out[j].timestamp = starts[at[j]]
  BY <1>6, <1>7, <1>9 DEF Selected
<1>11. \A j, k \in 1 .. Len(out) : j < k => at[j] < at[k]
  BY <1>9 DEF Selected
<1>12. \A j, k \in 1 .. Len(out) : j < k => out[j].timestamp < out[k].timestamp
  BY <1>5, <1>10, <1>11
<1>13. ASSUME NEW i \in 1 .. Len(rows)
       PROVE  \E j \in 1 .. Len(out) : \A k \in 1 .. Len(out) :
                 HistoryOf!In(rows[i], out[k].timestamp, width) <=> k = j
  <2>1. PICK c \in closes : starts[c] = starts[i]
    BY <1>2, <1>5
  <2>2. c \in 1 .. Len(agg)
    BY <1>2, <1>5, <1>7
  <2>3. PICK j \in 1 .. Len(out) : at[j] = c
    BY <1>9, <2>2 DEF Selected
  <2>4. ASSUME NEW k \in 1 .. Len(out)
        PROVE  HistoryOf!In(rows[i], out[k].timestamp, width) <=> k = j
    <3>1. HistoryOf!In(rows[i], out[k].timestamp, width) <=> starts[i] = out[k].timestamp
      BY <1>3, <1>10
    <3>2. out[j].timestamp = starts[i]
      BY <1>10, <2>1, <2>3
    <3>3. /\ k < j => out[k].timestamp < out[j].timestamp
          /\ j < k => out[j].timestamp < out[k].timestamp
          /\ k < j \/ j < k \/ k = j
          /\ out[k].timestamp \in Int /\ out[j].timestamp \in Int
      <4>1. out[k].timestamp \in Int /\ out[j].timestamp \in Int
        BY <1>6, <1>10
      <4> QED BY <1>12, <4>1
    <3> QED BY <3>1, <3>2, <3>3
  <2> QED BY <2>4
<1>14. ASSUME NEW j \in 1 .. Len(out)
       PROVE  Backs(out[j], HistoryOf!Select(rows, {i \in DOMAIN rows :
                                            HistoryOf!In(rows[i], out[j].timestamp, width)}))
  <2>1. at[j] \in 1 .. Len(rows) /\ at[j] \in closes
    BY <1>10
  <2>2. HistoryOf!current_bucket(starts, at[j])
           = {i \in DOMAIN rows : HistoryOf!In(rows[i], out[j].timestamp, width)}
    <3>1. \A i \in 1 .. Len(rows) : HistoryOf!In(rows[i], out[j].timestamp, width)
                                        <=> starts[i] = starts[at[j]]
      BY <1>3, <1>10
    <3>2. HistoryOf!current_bucket(starts, at[j]) = {k \in 1 .. Len(rows) : starts[k] = starts[at[j]]}
      BY <1>2, <1>5, <2>1
    <3> QED BY <1>1, <3>1, <3>2
  <2>3. Backs(out[j], Bucket(at[j]))
    BY <1>6, <1>10, <2>1
  <2> QED BY <2>2, <2>3
<1> QED BY <1>8, <1>12, <1>13, <1>14

-----------------------------------------------------------------------------
(* The answers *)

(* An error is no answer. *)
LEMMA RefusedIsNotOk ==
    ASSUME NEW query, HistoryOf!Refusal(query) # None
    PROVE  HistoryOf!Error(HistoryOf!Refusal(query)).status # "ok"
  BY DEF HistoryOf!Refusal, HistoryOf!Error

(* The window and its length are numbers. *)
LEMMA WindowIs ==
    ASSUME NEW query \in HistoryOf!Queries, NEW now \in Int
    PROVE  LET window == HistoryOf!_resolve_window(query, now) IN
           window.from \in Int /\ window.to \in Int
<1>1. /\ query.from \in Int \cup {None} /\ query.to \in Int \cup {None} /\ query.hours \in Nat
  BY DEF HistoryOf!Queries
<1> DEFINE span == query.hours * HistoryOf!HOUR
<1>2. span \in Int
  BY <1>1 DEF HistoryOf!HOUR
<1> HIDE DEF span
<1>3. CASE query.from = None /\ query.to = None
  <2>1. HistoryOf!_resolve_window(query, now)
           = [from |-> now - span, to |-> now, hours |-> query.hours]
    BY <1>3, Zenon DEF HistoryOf!_resolve_window, span
  <2> QED BY <1>2, <2>1
<1>4. CASE ~(query.from = None /\ query.to = None)
  <2> DEFINE to == IF query.to # None THEN query.to ELSE now
             from == IF query.from # None THEN query.from ELSE to - span
             hours == HistoryOf!Max({1, (to - from) \div HistoryOf!HOUR})
  <2>1. HistoryOf!_resolve_window(query, now) = [from |-> from, to |-> to, hours |-> hours]
    BY <1>4, Zenon DEF HistoryOf!_resolve_window, span
  <2>2. to \in Int /\ from \in Int
    BY <1>1, <1>2
  <2> HIDE DEF to, from, hours
  <2> QED BY <2>1, <2>2
<1> QED BY <1>3, <1>4

(* A width is that of a query, or none. *)
LEMMA BucketIs ==
    ASSUME NEW query \in HistoryOf!Queries, NEW hours
    PROVE  HistoryOf!_resolve_bucket(query.bucket, hours) \in Nat
<1>1. query.bucket \in {"raw", "auto", "60", "300", "900", "3600"}
  BY DEF HistoryOf!Queries
<1> QED BY <1>1 DEF HistoryOf!_resolve_bucket

(* An answer of /history: its window, its width and its rows. *)
LEMMA HistoryAnswer ==
    ASSUME NEW in \in HistoryOf!Inputs,
           NEW told, told = HistoryOf!get_history(in.query, in.log, in.now), told.status = "ok"
    PROVE  /\ HistoryOf!Refusal(in.query) = None
           /\ in.query.include \in SUBSET {"weather", "device"}
           /\ told.from \in Int /\ told.to \in Int /\ told.bucket \in Nat
           /\ told.rows = LET rows == HistoryOf!_bucket_rows(
                                          HistoryOf!InRange(in.log, told.from, told.to), told.bucket)
                          IN [i \in DOMAIN rows |->
                                 HistoryOf!build_history_row(rows[i], in.query.include)]
<1>1. in.query \in HistoryOf!Queries /\ in.now \in Int
  BY DEF HistoryOf!Inputs
<1> DEFINE window == HistoryOf!_resolve_window(in.query, in.now)
           bucket == HistoryOf!_resolve_bucket(in.query.bucket, window.hours)
           rows == HistoryOf!_bucket_rows(HistoryOf!InRange(in.log, window.from, window.to), bucket)
           built == [i \in DOMAIN rows |-> HistoryOf!build_history_row(rows[i], in.query.include)]
<1>2. window.from \in Int /\ window.to \in Int
  BY <1>1, WindowIs
<1>3. bucket \in Nat
  BY <1>1, BucketIs
<1>4. HistoryOf!Refusal(in.query) = None
  <2> SUFFICES ASSUME HistoryOf!Refusal(in.query) # None PROVE FALSE
    OBVIOUS
  <2>1. told = HistoryOf!Error(HistoryOf!Refusal(in.query))
    BY Zenon DEF HistoryOf!get_history
  <2> QED BY <2>1, RefusedIsNotOk
<1>5. HistoryOf!Error("bad_request").status # "ok"
  BY DEF HistoryOf!Error
<1>6. /\ in.query.include \subseteq DOMAIN HistoryOf!HISTORY_GROUPS
      /\ told = [status |-> "ok", from |-> window.from, to |-> window.to, bucket |-> bucket,
                 rows |-> built]
  BY <1>4, <1>5, Zenon DEF HistoryOf!get_history
<1>7. DOMAIN HistoryOf!HISTORY_GROUPS = {"weather", "device"}
  BY DEF HistoryOf!HISTORY_GROUPS
<1> HIDE DEF window, bucket, built
<1>8. told.from = window.from /\ told.to = window.to /\ told.bucket = bucket /\ told.rows = built
  BY <1>6
<1> QED BY <1>2, <1>3, <1>4, <1>6, <1>7, <1>8 DEF built

(* A row by itself. *)
LEMMA OneRow ==
    ASSUME None \notin Int, NEW row \in HistoryOf!Rows
    PROVE  Backs(row, <<row>>)
<1> DEFINE covered == <<row>>
           vals == HistoryOf!Values(covered)
<1>1. covered \in Seq(HistoryOf!Rows) /\ Len(covered) = 1 /\ covered[1] = row /\ covered # << >>
  OBVIOUS
<1>2. row.timestamp \in Int /\ row.value \in Int \cup {None}
  BY RowFields
<1> HIDE DEF covered
<1>3. /\ vals \in Seq(Int)
      /\ \A k \in 1 .. Len(vals) : \E i \in 1 .. Len(covered) :
             covered[i].value # None /\ vals[k] = covered[i].value
      /\ \A i \in 1 .. Len(covered) : covered[i].value # None =>
             \E k \in 1 .. Len(vals) : vals[k] = covered[i].value
  BY <1>1, ValuesAre
<1>4. CASE row.value = None
  <2>1. Len(vals) = 0
    <3> HIDE DEF vals
    <3> SUFFICES ASSUME Len(vals) # 0 PROVE FALSE
      OBVIOUS
    <3>1. 1 \in 1 .. Len(vals)
      BY <1>3
    <3>2. \A i \in 1 .. Len(covered) : i = 1
      BY <1>1
    <3> QED BY <1>1, <1>3, <1>4, <3>1, <3>2
  <2>2. vals = << >>
    <3> HIDE DEF vals
    <3> QED BY <1>3, <2>1
  <2> QED BY <1>1, <1>2, <1>4, <2>2 DEF Backs, covered
<1>5. CASE row.value # None
  <2>1. 1 \in 1 .. Len(covered) /\ covered[1].value # None
    BY <1>1, <1>5
  <2>2. vals # << >>
    <3> HIDE DEF vals
    <3> QED BY <1>3, <2>1
  <2>3. LET of == HistoryOf!stat(vals) IN
        of.min <= covered[1].value /\ covered[1].value <= of.max
    BY <1>1, <2>1, MeasuredStat
  <2> HIDE DEF vals
  <2> QED BY <1>1, <1>2, <1>5, <2>2, <2>3 DEF Backs, covered, vals
<1> QED BY <1>4, <1>5

(* The rows of a range are rows of the log, in its order. *)
LEMMA RangeIs ==
    ASSUME NEW in \in HistoryOf!Inputs, NEW from, NEW to
    PROVE  LET kept == HistoryOf!InRange(in.log, from, to) IN
           kept \in Seq(HistoryOf!Rows) /\ HistoryOf!Ordered(kept)
<1>1. in.log \in Seq(HistoryOf!Rows) /\ HistoryOf!Ordered(in.log)
  BY DEF HistoryOf!Inputs
<1> DEFINE I == {i \in DOMAIN in.log : from <= in.log[i].timestamp /\ in.log[i].timestamp <= to}
           kept == HistoryOf!InRange(in.log, from, to)
<1>2. kept = HistoryOf!Select(in.log, I)
  BY Zenon DEF HistoryOf!InRange
<1> HIDE DEF I, kept
<1>3. kept \in Seq(HistoryOf!Rows) /\ HistoryOf!Ordered(kept)
  BY <1>1, <1>2, SelectOrdered
<1> QED BY <1>3 DEF kept

(* Each row of the answer, with the rows behind it. *)
AnswerIsTold(told, kept, include) ==
    /\ HistoryOf!RowsAreInTheirBuckets(told, kept, include)
    /\ \A j \in DOMAIN told.rows :
          /\ HistoryOf!Tells(told.rows[j], HistoryOf!Covered(told, kept, j), include)
          /\ "value" \in DOMAIN told.rows[j] =>
                /\ told.rows[j].value \in Int
                /\ HistoryOf!Values(HistoryOf!Covered(told, kept, j)) # << >>
          /\ HistoryOf!Covered(told, kept, j) \in Seq(HistoryOf!Rows)
          /\ \A k \in DOMAIN HistoryOf!Covered(told, kept, j) :
                \E i \in 1 .. Len(kept) : HistoryOf!Covered(told, kept, j)[k] = kept[i]

(* All the rows of an answer do. *)
LEMMA RowsTell ==
    ASSUME None \notin Int, NEW in \in HistoryOf!Inputs,
           NEW told, told = HistoryOf!get_history(in.query, in.log, in.now), told.status = "ok"
    PROVE  AnswerIsTold(told, HistoryOf!InRange(in.log, told.from, told.to), in.query.include)
<1> DEFINE kept == HistoryOf!InRange(in.log, told.from, told.to)
           include == in.query.include
           rows == HistoryOf!_bucket_rows(kept, told.bucket)
           covered(j) == HistoryOf!Covered(told, kept, j)
           Valued(j) == "value" \in DOMAIN told.rows[j] =>
                            /\ told.rows[j].value \in Int
                            /\ HistoryOf!Values(covered(j)) # << >>
<1>1. /\ include \in SUBSET {"weather", "device"}
      /\ told.bucket \in Nat
      /\ told.rows = [i \in DOMAIN rows |-> HistoryOf!build_history_row(rows[i], include)]
  BY HistoryAnswer
<1>2. kept \in Seq(HistoryOf!Rows) /\ HistoryOf!Ordered(kept)
  BY RangeIs
<1> HIDE DEF kept
<1>3. DOMAIN told.rows = DOMAIN rows
      /\ \A j \in DOMAIN rows : told.rows[j] = HistoryOf!build_history_row(rows[j], include)
  BY <1>1
<1>4. ASSUME rows \in Seq(HistoryOf!Rows), \A j \in DOMAIN rows : Backs(rows[j], covered(j))
      PROVE  \A j \in DOMAIN told.rows :
                 /\ told.rows[j].timestamp = rows[j].timestamp
                 /\ HistoryOf!Tells(told.rows[j], covered(j), include)
                 /\ Valued(j)
  <2> SUFFICES ASSUME NEW j \in DOMAIN rows
               PROVE  /\ told.rows[j].timestamp = rows[j].timestamp
                      /\ HistoryOf!Tells(told.rows[j], covered(j), include)
                      /\ Valued(j)
    BY <1>3
  <2>1. Backs(rows[j], covered(j)) /\ told.rows[j] = HistoryOf!build_history_row(rows[j], include)
    BY <1>3, <1>4
  <2> HIDE DEF covered, rows, include
  <2>2. rows[j].timestamp \in Int
    BY <2>1 DEF Backs
  <2>3. told.rows[j].timestamp = rows[j].timestamp
    BY <1>1, <2>1, <2>2, BuiltRow
  <2>4. HistoryOf!Tells(told.rows[j], covered(j), include) /\ Valued(j)
    BY <1>1, <2>1, RowTells
  <2> QED BY <2>3, <2>4
<1>5. CASE told.bucket = 0
  <2>1. rows = kept
    BY <1>5 DEF HistoryOf!_bucket_rows
  <2>2. DOMAIN kept = 1 .. Len(kept) /\ DOMAIN told.rows = 1 .. Len(kept) /\ Len(kept) \in Nat
    BY <1>2, <1>3, <2>1
  <2>3. \A j \in DOMAIN rows : covered(j) = <<rows[j]>>
    BY <1>5, <2>1 DEF HistoryOf!Covered
  <2>4. \A j \in DOMAIN rows : rows[j] \in HistoryOf!Rows /\ Backs(rows[j], <<rows[j]>>)
    <3> SUFFICES ASSUME NEW j \in 1 .. Len(kept)
                 PROVE  kept[j] \in HistoryOf!Rows /\ Backs(kept[j], <<kept[j]>>)
      BY <2>1, <2>2
    <3>1. kept[j] \in HistoryOf!Rows
      BY <1>2, ItemOf
    <3> QED BY <3>1, OneRow
  <2>5. \A j \in DOMAIN told.rows :
            /\ told.rows[j].timestamp = rows[j].timestamp
            /\ HistoryOf!Tells(told.rows[j], covered(j), include)
            /\ Valued(j)
    BY <1>2, <1>4, <2>1, <2>3, <2>4
  <2>6. Len(told.rows) = Len(kept)
    <3>1. told.rows = [i \in 1 .. Len(kept) |-> told.rows[i]]
      BY <1>1, <2>1, <2>2
    <3> QED BY <2>2, <3>1
  <2>7. \A j \in DOMAIN told.rows : /\ covered(j) \in Seq(HistoryOf!Rows)
                                    /\ \A k \in DOMAIN covered(j) :
                                          \E i \in 1 .. Len(kept) : covered(j)[k] = kept[i]
    <3> SUFFICES ASSUME NEW j \in 1 .. Len(kept)
                 PROVE  /\ covered(j) \in Seq(HistoryOf!Rows)
                        /\ \A k \in DOMAIN covered(j) :
                              \E i \in 1 .. Len(kept) : covered(j)[k] = kept[i]
      BY <2>2
    <3>1. covered(j) = <<kept[j]>> /\ kept[j] \in HistoryOf!Rows
      BY <2>1, <2>2, <2>3, <2>4
    <3> HIDE DEF covered
    <3> QED BY <3>1
  <2>8. HistoryOf!RowsAreInTheirBuckets(told, kept, include)
    BY <1>5, <2>1, <2>2, <2>5, <2>6 DEF HistoryOf!RowsAreInTheirBuckets
  <2>9. AnswerIsTold(told, kept, include)
    BY <2>5, <2>7, <2>8 DEF AnswerIsTold
  <2> QED BY <2>9 DEF kept
<1>6. CASE told.bucket # 0
  <2> DEFINE width == told.bucket
             I(j) == {i \in DOMAIN kept : HistoryOf!In(kept[i], rows[j].timestamp, width)}
  <2>1. width \in Nat \ {0}
    BY <1>1, <1>6
  <2>2. /\ rows \in Seq(HistoryOf!Rows)
        /\ \A j, k \in 1 .. Len(rows) : j < k => rows[j].timestamp < rows[k].timestamp
        /\ \A i \in 1 .. Len(kept) : \E j \in 1 .. Len(rows) : \A k \in 1 .. Len(rows) :
              HistoryOf!In(kept[i], rows[k].timestamp, width) <=> k = j
        /\ \A j \in 1 .. Len(rows) : Backs(rows[j], HistoryOf!Select(kept, I(j)))
    BY <1>2, <2>1, BucketsAre
  <2>3. DOMAIN rows = 1 .. Len(rows) /\ DOMAIN kept = 1 .. Len(kept)
    BY <1>2, <2>2
  <2> HIDE DEF rows
  <2>4. \A j \in DOMAIN rows : told.rows[j].timestamp = rows[j].timestamp
    <3> SUFFICES ASSUME NEW j \in DOMAIN rows PROVE told.rows[j].timestamp = rows[j].timestamp
      OBVIOUS
    <3>1. told.rows[j] = HistoryOf!build_history_row(rows[j], include)
      BY <1>3
    <3>2. rows[j].timestamp \in Int
      BY <2>2, <2>3, RowFields, ItemOf
    <3> QED BY <1>1, <3>1, <3>2, BuiltRow
  <2>5. \A j \in DOMAIN rows : covered(j) = HistoryOf!Select(kept, I(j))
    BY <1>6, <2>4 DEF HistoryOf!Covered
  <2>6. \A j \in DOMAIN rows : Backs(rows[j], covered(j))
    BY <2>2, <2>3, <2>5
  <2>7. \A j \in DOMAIN told.rows : HistoryOf!Tells(told.rows[j], covered(j), include) /\ Valued(j)
    BY <1>4, <2>2, <2>6
  <2>8. \A j \in DOMAIN told.rows : /\ covered(j) \in Seq(HistoryOf!Rows)
                                    /\ \A k \in DOMAIN covered(j) :
                                          \E i \in 1 .. Len(kept) : covered(j)[k] = kept[i]
    <3> SUFFICES ASSUME NEW j \in DOMAIN rows
                 PROVE  /\ covered(j) \in Seq(HistoryOf!Rows)
                        /\ \A k \in DOMAIN covered(j) :
                              \E i \in 1 .. Len(kept) : covered(j)[k] = kept[i]
      BY <1>3
    <3> DEFINE J == I(j)
               sel == HistoryOf!Select(kept, J)
    <3>2. covered(j) = sel
      BY <2>5
    <3> HIDE DEF J
    <3>1. sel \in Seq(HistoryOf!Rows)
          /\ \A k \in 1 .. Len(sel) : \E i \in 1 .. Len(kept) : i \in J /\ sel[k] = kept[i]
      BY <1>2, SelectItems
    <3> HIDE DEF sel, covered
    <3>3. DOMAIN sel = 1 .. Len(sel)
      BY <3>1
    <3> QED BY <3>1, <3>2, <3>3
  <2>9. ASSUME NEW i \in DOMAIN kept
        PROVE  \E j \in DOMAIN told.rows :
                  {k \in DOMAIN told.rows :
                      HistoryOf!In(kept[i], told.rows[k].timestamp, told.bucket)} = {j}
    <3>1. PICK j \in 1 .. Len(rows) : \A k \in 1 .. Len(rows) :
              HistoryOf!In(kept[i], rows[k].timestamp, width) <=> k = j
      BY <2>2, <2>3
    <3>2. {k \in DOMAIN told.rows :
              HistoryOf!In(kept[i], told.rows[k].timestamp, told.bucket)} = {j}
      BY <1>3, <2>3, <2>4, <3>1
    <3> QED BY <1>3, <2>3, <3>2
  <2>10. \A j, k \in DOMAIN told.rows :
             j < k => told.rows[j].timestamp < told.rows[k].timestamp
    BY <1>3, <2>2, <2>3, <2>4
  <2>11. HistoryOf!RowsAreInTheirBuckets(told, kept, include)
    BY <1>6, <2>7, <2>9, <2>10, Zenon DEF HistoryOf!RowsAreInTheirBuckets
  <2>12. AnswerIsTold(told, kept, include)
    BY <2>7, <2>8, <2>11 DEF AnswerIsTold
  <2> QED BY <2>12 DEF kept
<1> QED BY <1>5, <1>6

-----------------------------------------------------------------------------
(* The summary *)

(* An answer of /summary: what its parts are computed from. *)
LEMMA SummaryAnswer ==
    ASSUME NEW in \in HistoryOf!Inputs, HistoryOf!Refusal(in.query) = None,
           NEW sum, sum = HistoryOf!get_summary(in.query, in.log, in.now, in.zone)
    PROVE  LET kept  == HistoryOf!InRange(in.log, sum.from, sum.to)
               pairs == HistoryOf!Select(kept, HistoryOf!Measured(kept))
           IN /\ sum.from \in Int /\ sum.to \in Int
              /\ sum.stat = HistoryOf!stat(HistoryOf!Values(kept))
              /\ sum.tendency = HistoryOf!pressure_tendency(pairs)
              /\ sum.slope = HistoryOf!linear_trend(pairs)
              /\ sum.light = HistoryOf!light_integral(pairs)
              /\ sum.degree_days = HistoryOf!_accumulate_daily(pairs, in.zone)
<1>1. in.query \in HistoryOf!Queries /\ in.now \in Int /\ in.zone \in Int
  BY DEF HistoryOf!Inputs
<1> DEFINE window == HistoryOf!_summary_window(in.query.period, in.now, in.zone)
           rows == HistoryOf!InRange(in.log, window.from, window.to)
           pairs == HistoryOf!Select(rows, HistoryOf!Measured(rows))
<1>2. window.from \in Int /\ window.to \in Int
  <2>1. in.query.period \in {"today", "t24h", "t7d", "t30d"}
    BY <1>1 DEF HistoryOf!Queries
  <2>2. HistoryOf!DayOf(in.now, in.zone) * HistoryOf!DAY - in.zone \in Int
    <3>1. HistoryOf!DayOf(in.now, in.zone) \in Int /\ HistoryOf!DAY = 86400
      BY <1>1 DEF HistoryOf!DayOf, HistoryOf!DAY, HistoryOf!HOUR
    <3> QED BY <1>1, <3>1
  <2>3. \A p \in {"t24h", "t7d", "t30d"} : HistoryOf!PeriodSeconds[p] \in Int
    BY DEF HistoryOf!PeriodSeconds, HistoryOf!DAY, HistoryOf!HOUR
  <2>4. in.query.period # "today" => in.now - HistoryOf!PeriodSeconds[in.query.period] \in Int
    BY <1>1, <2>1, <2>3
  <2> QED BY <1>1, <2>2, <2>4 DEF HistoryOf!_summary_window
<1>3. sum = [status |-> "ok", from |-> window.from, to |-> window.to,
             sample_count |-> Len(rows), stat |-> HistoryOf!stat(HistoryOf!Values(rows)),
             tendency |-> HistoryOf!pressure_tendency(pairs),
             slope |-> HistoryOf!linear_trend(pairs),
             light |-> HistoryOf!light_integral(pairs),
             degree_days |-> HistoryOf!_accumulate_daily(pairs, in.zone)]
  BY Zenon DEF HistoryOf!get_summary
<1> HIDE DEF window, rows, pairs
<1>4. /\ sum.from = window.from /\ sum.to = window.to
      /\ sum.stat = HistoryOf!stat(HistoryOf!Values(rows))
      /\ sum.tendency = HistoryOf!pressure_tendency(pairs)
      /\ sum.slope = HistoryOf!linear_trend(pairs)
      /\ sum.light = HistoryOf!light_integral(pairs)
      /\ sum.degree_days = HistoryOf!_accumulate_daily(pairs, in.zone)
  BY <1>3
<1>5. rows = HistoryOf!InRange(in.log, sum.from, sum.to)
  BY <1>4 DEF rows
<1> QED BY <1>2, <1>4, <1>5 DEF pairs

(* The rows of the log in a window. *)
LoggedIn(kept, log, from, to) ==
    /\ \A k \in 1 .. Len(kept) : \E i \in 1 .. Len(log) :
          kept[k] = log[i] /\ from <= kept[k].timestamp /\ kept[k].timestamp <= to
    /\ \A i \in 1 .. Len(log) :
          from <= log[i].timestamp /\ log[i].timestamp <= to =>
              \E k \in 1 .. Len(kept) : kept[k] = log[i]

(* outdoor_readings_in_range returns them. *)
LEMMA InRangeIs ==
    ASSUME NEW in \in HistoryOf!Inputs, NEW from \in Int, NEW to \in Int
    PROVE  LoggedIn(HistoryOf!InRange(in.log, from, to), in.log, from, to)
<1>1. in.log \in Seq(HistoryOf!Rows) /\ DOMAIN in.log = 1 .. Len(in.log)
  BY DEF HistoryOf!Inputs
<1> DEFINE log == in.log
           kept == HistoryOf!InRange(log, from, to)
           I == {i \in DOMAIN log : from <= log[i].timestamp /\ log[i].timestamp <= to}
           sel == HistoryOf!Select(log, I)
<1>2. kept = sel
  BY Zenon DEF HistoryOf!InRange
<1>3. \A i \in 1 .. Len(log) : i \in I <=> from <= log[i].timestamp /\ log[i].timestamp <= to
  BY <1>1
<1>4. log \in Seq(HistoryOf!Rows)
  BY <1>1
<1> HIDE DEF I, log, kept
<1>5. /\ \A k \in 1 .. Len(sel) : \E i \in 1 .. Len(log) : i \in I /\ sel[k] = log[i]
      /\ \A i \in 1 .. Len(log) : i \in I => \E k \in 1 .. Len(sel) : sel[k] = log[i]
  BY <1>4, SelectItems
<1> HIDE DEF sel
<1>6. \A k \in 1 .. Len(kept) : \E i \in 1 .. Len(log) :
          kept[k] = log[i] /\ from <= kept[k].timestamp /\ kept[k].timestamp <= to
  <2> SUFFICES ASSUME NEW k \in 1 .. Len(kept)
               PROVE  \E i \in 1 .. Len(log) :
                         kept[k] = log[i] /\ from <= kept[k].timestamp /\ kept[k].timestamp <= to
    OBVIOUS
  <2>1. PICK i \in 1 .. Len(log) : i \in I /\ kept[k] = log[i]
    BY <1>2, <1>5
  <2> QED BY <1>3, <2>1
<1>7. \A i \in 1 .. Len(log) : from <= log[i].timestamp /\ log[i].timestamp <= to =>
          \E k \in 1 .. Len(kept) : kept[k] = log[i]
  BY <1>2, <1>3, <1>5
<1>8. LoggedIn(kept, log, from, to)
  BY <1>6, <1>7 DEF LoggedIn
<1> QED BY <1>8 DEF kept, log

(* No bucket of a window is outside the extremes of a roll-up over more. *)
LEMMA ExtremesCover ==
    ASSUME None \notin Int, NEW rows \in Seq(HistoryOf!Rows), NEW more \in Seq(HistoryOf!Rows),
           \A i \in 1 .. Len(rows) : \E k \in 1 .. Len(more) : rows[i] = more[k],
           HistoryOf!Values(rows) # << >>
    PROVE  LET few  == HistoryOf!stat(HistoryOf!Values(rows))
               many == HistoryOf!stat(HistoryOf!Values(more))
           IN /\ few.min \in Int /\ few.max \in Int /\ many.min \in Int /\ many.max \in Int
              /\ many.min <= few.min /\ few.max <= many.max
<1> DEFINE vals == HistoryOf!Values(rows)
           few == HistoryOf!stat(vals)
           many == HistoryOf!stat(HistoryOf!Values(more))
<1>1. /\ vals \in Seq(Int)
      /\ \A k \in 1 .. Len(vals) : \E i \in 1 .. Len(rows) :
             rows[i].value # None /\ vals[k] = rows[i].value
  BY ValuesAre
<1>2. vals # << >>
  OBVIOUS
<1> HIDE DEF vals
<1>3. /\ few.min \in Int /\ few.max \in Int
      /\ \E k \in 1 .. Len(vals) : few.min = vals[k]
      /\ \E k \in 1 .. Len(vals) : few.max = vals[k]
  BY <1>1, <1>2, StatIs
<1>4. \A k \in 1 .. Len(vals) : /\ many.min \in Int /\ many.max \in Int
                                /\ many.min <= vals[k] /\ vals[k] <= many.max
  <2> SUFFICES ASSUME NEW k \in 1 .. Len(vals)
               PROVE  /\ many.min \in Int /\ many.max \in Int
                      /\ many.min <= vals[k] /\ vals[k] <= many.max
    OBVIOUS
  <2>1. PICK i \in 1 .. Len(rows) : rows[i].value # None /\ vals[k] = rows[i].value
    BY <1>1
  <2>2. PICK m \in 1 .. Len(more) : rows[i] = more[m]
    OBVIOUS
  <2>3. /\ many.min \in Int /\ many.max \in Int
        /\ many.min <= more[m].value /\ more[m].value <= many.max
    BY <2>1, <2>2, MeasuredStat
  <2> QED BY <2>1, <2>2, <2>3
<1> HIDE DEF few, many
<1>5. /\ few.min \in Int /\ few.max \in Int /\ many.min \in Int /\ many.max \in Int
      /\ many.min <= few.min /\ few.max <= many.max
  BY <1>3, <1>4
<1> QED BY <1>5 DEF few, many, vals

(* So the roll-up covers the history. *)
LEMMA RollUpCovers ==
    ASSUME None \notin Int, NEW in \in HistoryOf!Inputs,
           NEW told, told = HistoryOf!get_history(in.query, in.log, in.now), told.status = "ok",
           NEW sum, sum = HistoryOf!get_summary(in.query, in.log, in.now, in.zone)
    PROVE  HistoryOf!RollUpBoundsHistory(told, sum)
<1> DEFINE kept == HistoryOf!InRange(in.log, told.from, told.to)
           all == HistoryOf!InRange(in.log, sum.from, sum.to)
           covered(j) == HistoryOf!Covered(told, kept, j)
<1>1. HistoryOf!Refusal(in.query) = None /\ told.from \in Int /\ told.to \in Int
  BY HistoryAnswer
<1>2. sum.from \in Int /\ sum.to \in Int /\ sum.stat = HistoryOf!stat(HistoryOf!Values(all))
  BY <1>1, SummaryAnswer
<1> SUFFICES ASSUME sum.from <= told.from, told.to <= sum.to,
                    NEW j \in DOMAIN told.rows, "value" \in DOMAIN told.rows[j]
             PROVE  sum.stat.min <= told.rows[j].value /\ told.rows[j].value <= sum.stat.max
  BY Zenon DEF HistoryOf!RollUpBoundsHistory
<1>3. AnswerIsTold(told, kept, in.query.include)
  BY RowsTell
<1>4. /\ HistoryOf!Tells(told.rows[j], covered(j), in.query.include)
      /\ told.rows[j].value \in Int /\ HistoryOf!Values(covered(j)) # << >>
      /\ covered(j) \in Seq(HistoryOf!Rows)
      /\ \A k \in DOMAIN covered(j) : \E i \in 1 .. Len(kept) : covered(j)[k] = kept[i]
  <2> HIDE DEF kept
  <2> QED BY <1>3 DEF AnswerIsTold
<1>5. kept \in Seq(HistoryOf!Rows) /\ LoggedIn(kept, in.log, told.from, told.to)
  BY <1>1, InRangeIs, RangeIs
<1>6. all \in Seq(HistoryOf!Rows) /\ LoggedIn(all, in.log, sum.from, sum.to)
  BY <1>2, InRangeIs, RangeIs
<1>7. \A i \in 1 .. Len(kept) : kept[i].timestamp \in Int
  BY <1>5, RowFields, ItemOf
<1> HIDE DEF kept, all, covered
<1>8. \A i \in 1 .. Len(kept) : \E k \in 1 .. Len(all) : kept[i] = all[k]
  <2> SUFFICES ASSUME NEW i \in 1 .. Len(kept) PROVE \E k \in 1 .. Len(all) : kept[i] = all[k]
    OBVIOUS
  <2>1. PICK n \in 1 .. Len(in.log) :
            /\ kept[i] = in.log[n]
            /\ told.from <= kept[i].timestamp /\ kept[i].timestamp <= told.to
    BY <1>5 DEF LoggedIn
  <2>2. sum.from <= in.log[n].timestamp /\ in.log[n].timestamp <= sum.to
    BY <1>1, <1>2, <1>7, <2>1
  <2> QED BY <1>6, <2>1, <2>2 DEF LoggedIn
<1>9. \A i \in 1 .. Len(covered(j)) : \E k \in 1 .. Len(all) : covered(j)[i] = all[k]
  <2>1. DOMAIN covered(j) = 1 .. Len(covered(j))
    BY <1>4
  <2> QED BY <1>4, <1>8, <2>1
<1> DEFINE few == HistoryOf!stat(HistoryOf!Values(covered(j)))
           many == HistoryOf!stat(HistoryOf!Values(all))
<1>10. /\ few.min \in Int /\ few.max \in Int /\ many.min \in Int /\ many.max \in Int
       /\ many.min <= few.min /\ few.max <= many.max
  BY <1>4, <1>6, <1>9, ExtremesCover
<1>11. few.min <= told.rows[j].value /\ told.rows[j].value <= few.max
  BY <1>4 DEF HistoryOf!Tells
<1> HIDE DEF few, many
<1>12. many.min <= told.rows[j].value /\ told.rows[j].value <= many.max
  BY <1>4, <1>10, <1>11
<1> QED BY <1>2, <1>12 DEF many

-----------------------------------------------------------------------------
(* The slope of values that rise with time: of the sums T of the times,    *)
(* V of the values and P of their products, after k rows.                  *)

(* The sum over the rows so far of the gap in time times the gap in value  *)
(* to a next row is not negative, whatever row comes between.              *)
LEMMA GapStep ==
    ASSUME NEW k \in Nat, NEW x \in Int, NEW y \in Int, NEW a \in Int, NEW b \in Int,
           NEW T \in Int, NEW V \in Int, NEW P \in Int, a <= x, b <= y,
           (k * (x * y) + P) - (T * y + x * V) >= 0
    PROVE  ((k + 1) * (x * y) + (P + a * b)) - ((T + a) * y + x * (V + b)) >= 0
<1>1. (x - a) * (y - b) >= 0
  <2>1. x - a \in Nat /\ y - b \in Nat
    OBVIOUS
  <2> QED BY <2>1
<1>2. (x - a) * (y - b) = (x * y + a * b) - (a * y + x * b)
  OBVIOUS
<1>3. (k + 1) * (x * y) = k * (x * y) + x * y
  OBVIOUS
<1>4. (T + a) * y = T * y + a * y /\ x * (V + b) = x * V + x * b
  OBVIOUS
<1> DEFINE xy == x * y
           ab == a * b
           ay == a * y
           xb == x * b
           kxy == k * (x * y)
           Ty == T * y
           xV == x * V
<1>5. xy \in Int /\ ab \in Int /\ ay \in Int /\ xb \in Int /\ kxy \in Int /\ Ty \in Int /\ xV \in Int
  OBVIOUS
<1>6. (xy + ab) - (ay + xb) >= 0 /\ (kxy + P) - (Ty + xV) >= 0
  BY <1>1, <1>2
<1> HIDE DEF xy, ab, ay, xb, kxy, Ty, xV
<1>7. ((kxy + xy) + (P + ab)) - ((Ty + ay) + (xV + xb)) >= 0
  BY <1>5, <1>6
<1> QED BY <1>3, <1>4, <1>7 DEF xy, ab, ay, xb, kxy, Ty, xV

(* The slope's numerator grows by that sum. *)
LEMMA SlopeStep ==
    ASSUME NEW k \in Nat, NEW a \in Int, NEW b \in Int,
           NEW T \in Int, NEW V \in Int, NEW P \in Int,
           k * P - T * V >= 0, (k * (a * b) + P) - (T * b + a * V) >= 0
    PROVE  (k + 1) * (P + a * b) - (T + a) * (V + b) >= 0
<1>1. (k + 1) * (P + a * b) = (k * P + k * (a * b)) + (P + a * b)
  OBVIOUS
<1>2. (T + a) * (V + b) = (T * V + T * b) + (a * V + a * b)
  OBVIOUS
<1> DEFINE kP == k * P
           kab == k * (a * b)
           ab == a * b
           TV == T * V
           Tb == T * b
           aV == a * V
<1>3. kP \in Int /\ kab \in Int /\ ab \in Int /\ TV \in Int /\ Tb \in Int /\ aV \in Int
  OBVIOUS
<1>4. kP - TV >= 0 /\ (kab + P) - (Tb + aV) >= 0
  OBVIOUS
<1> HIDE DEF kP, kab, ab, TV, Tb, aV
<1>5. ((kP + kab) + (P + ab)) - ((TV + Tb) + (aV + ab)) >= 0
  BY <1>3, <1>4
<1> QED BY <1>1, <1>2, <1>5 DEF kP, kab, ab, TV, Tb, aV

(* n rows whose times and values rise, and the sums after each. *)
RisingSeries(n, t, v, T, V, P) ==
    /\ \A i \in 1 .. n : t[i] \in Int /\ v[i] \in Int
    /\ \A i, j \in 1 .. n : i < j => t[i] <= t[j] /\ v[i] <= v[j]
    /\ T[0] = 0 /\ V[0] = 0 /\ P[0] = 0
    /\ \A i \in 1 .. n : /\ T[i] = T[i - 1] + t[i]
                         /\ V[i] = V[i - 1] + v[i]
                         /\ P[i] = P[i - 1] + t[i] * v[i]

(* Their slope is not negative. *)
LEMMA RisingSums ==
    ASSUME NEW n \in Nat, NEW t, NEW v, NEW T, NEW V, NEW P, RisingSeries(n, t, v, T, V, P)
    PROVE  T[n] \in Int /\ V[n] \in Int /\ P[n] \in Int /\ n * P[n] - T[n] * V[n] >= 0
<1> DEFINE Whole(k) == T[k] \in Int /\ V[k] \in Int /\ P[k] \in Int
           Gap(k, x, y) == (k * (x * y) + P[k]) - (T[k] * y + x * V[k]) >= 0
           Slope(k) == k * P[k] - T[k] * V[k] >= 0
           A == {k \in Nat : k <= n => Whole(k)}
<1>0. /\ \A i \in 1 .. n : t[i] \in Int /\ v[i] \in Int
      /\ \A i, j \in 1 .. n : i < j => t[i] <= t[j] /\ v[i] <= v[j]
      /\ T[0] = 0 /\ V[0] = 0 /\ P[0] = 0
      /\ \A i \in 1 .. n : /\ T[i] = T[i - 1] + t[i]
                           /\ V[i] = V[i - 1] + v[i]
                           /\ P[i] = P[i - 1] + t[i] * v[i]
  BY DEF RisingSeries
<1>1. ASSUME NEW k \in Nat, k + 1 <= n
      PROVE  /\ k + 1 \in 1 .. n /\ t[k + 1] \in Int /\ v[k + 1] \in Int
             /\ T[k + 1] = T[k] + t[k + 1] /\ V[k + 1] = V[k] + v[k + 1]
             /\ P[k + 1] = P[k] + t[k + 1] * v[k + 1]
  <2>1. k + 1 \in 1 .. n /\ (k + 1) - 1 = k
    BY <1>1
  <2> QED BY <1>0, <2>1
<1>2. \A k \in Nat : k \in A
  <2>1. 0 \in A
    BY <1>0
  <2>2. ASSUME NEW k \in Nat, k \in A PROVE k + 1 \in A
    <3> SUFFICES ASSUME k + 1 <= n PROVE Whole(k + 1)
      OBVIOUS
    <3>1. Whole(k)
      BY <2>2
    <3> QED BY <1>1, <3>1
  <2> HIDE DEF A
  <2> QED BY <2>1, <2>2, AllNumbers
<1>3. \A k \in 0 .. n : Whole(k)
  BY <1>2
<1>4. ASSUME NEW m \in Nat, m <= n, NEW x \in Int, NEW y \in Int,
             \A i \in 1 .. m : t[i] <= x /\ v[i] <= y
      PROVE  Gap(m, x, y)
  <2> DEFINE B == {k \in Nat : k <= m => Gap(k, x, y)}
  <2>1. 0 \in B
    <3>1. 0 * (x * y) = 0 /\ 0 * y = 0 /\ x * 0 = 0
      OBVIOUS
    <3> QED BY <1>0, <3>1
  <2>2. ASSUME NEW k \in Nat, k \in B PROVE k + 1 \in B
    <3> SUFFICES ASSUME k + 1 <= m PROVE Gap(k + 1, x, y)
      OBVIOUS
    <3>1. Gap(k, x, y)
      BY <2>2
    <3>2. k + 1 <= n /\ k \in 0 .. n /\ k + 1 \in 1 .. m
      BY <1>4
    <3>3. Whole(k) /\ t[k + 1] <= x /\ v[k + 1] <= y
      BY <1>3, <1>4, <3>2
    <3>4. t[k + 1] \in Int /\ v[k + 1] \in Int
      BY <1>1, <3>2
    <3>5. ((k + 1) * (x * y) + (P[k] + t[k + 1] * v[k + 1]))
             - ((T[k] + t[k + 1]) * y + x * (V[k] + v[k + 1])) >= 0
      <4> DEFINE a == t[k + 1]
                 b == v[k + 1]
                 Tk == T[k]
                 Vk == V[k]
                 Pk == P[k]
      <4>1. /\ a \in Int /\ b \in Int /\ Tk \in Int /\ Vk \in Int /\ Pk \in Int
            /\ a <= x /\ b <= y /\ (k * (x * y) + Pk) - (Tk * y + x * Vk) >= 0
        BY <3>1, <3>3, <3>4
      <4> HIDE DEF a, b, Tk, Vk, Pk
      <4>2. ((k + 1) * (x * y) + (Pk + a * b)) - ((Tk + a) * y + x * (Vk + b)) >= 0
        BY <4>1, GapStep
      <4> QED BY <4>2 DEF a, b, Tk, Vk, Pk
    <3> QED BY <1>1, <3>2, <3>5, Zenon
  <2>3. m \in B
    <3> HIDE DEF B
    <3> QED BY <2>1, <2>2, AllNumbers
  <2> QED BY <2>3
<1>5. ASSUME NEW k \in Nat, k + 1 <= n PROVE Gap(k, t[k + 1], v[k + 1])
  <2>1. k + 1 \in 1 .. n /\ t[k + 1] \in Int /\ v[k + 1] \in Int
    BY <1>1, <1>5
  <2>2. \A i \in 1 .. k : t[i] <= t[k + 1] /\ v[i] <= v[k + 1]
    BY <1>0, <2>1
  <2>3. k <= n
    BY <1>5
  <2> HIDE DEF Gap
  <2> QED BY <1>4, <2>1, <2>2, <2>3
<1> DEFINE C == {k \in Nat : k <= n => Slope(k)}
<1>6. 0 \in C
  <2>1. 0 * P[0] = 0 /\ T[0] * V[0] = 0
    BY <1>0
  <2> QED BY <2>1
<1>7. ASSUME NEW k \in Nat, k \in C PROVE k + 1 \in C
  <2> SUFFICES ASSUME k + 1 <= n PROVE Slope(k + 1)
    OBVIOUS
  <2> DEFINE a == t[k + 1]
             b == v[k + 1]
             Tk == T[k]
             Vk == V[k]
             Pk == P[k]
  <2>1. Slope(k) /\ Gap(k, a, b) /\ Whole(k)
    BY <1>3, <1>5, <1>7
  <2>2. a \in Int /\ b \in Int /\ T[k + 1] = Tk + a /\ V[k + 1] = Vk + b /\ P[k + 1] = Pk + a * b
    BY <1>1
  <2>3. /\ Tk \in Int /\ Vk \in Int /\ Pk \in Int /\ k * Pk - Tk * Vk >= 0
        /\ (k * (a * b) + Pk) - (Tk * b + a * Vk) >= 0
    BY <2>1
  <2> HIDE DEF a, b, Tk, Vk, Pk
  <2>4. (k + 1) * (Pk + a * b) - (Tk + a) * (Vk + b) >= 0
    BY <2>2, <2>3, SlopeStep
  <2> QED BY <2>2, <2>4, Zenon
<1>8. n \in C
  <2> HIDE DEF C
  <2> QED BY <1>6, <1>7, AllNumbers
<1> QED BY <1>3, <1>8

-----------------------------------------------------------------------------
(* The rows that have a value, in the order of time. *)
Series(pairs) ==
    /\ pairs \in Seq(HistoryOf!Rows)
    /\ \A i \in 1 .. Len(pairs) : pairs[i].timestamp \in Int /\ pairs[i].value \in Int
    /\ \A i, j \in 1 .. Len(pairs) : i < j => pairs[i].timestamp <= pairs[j].timestamp

Rises(pairs) == \A i, j \in DOMAIN pairs : i < j => pairs[i].value <= pairs[j].value

(* Those pairs are rows with a value. *)
Among(pairs, rows) ==
    \A k \in 1 .. Len(pairs) : \E i \in 1 .. Len(rows) : pairs[k] = rows[i] /\ rows[i].value # None

(* The rows measured, in the order of time. *)
LEMMA PairsAre ==
    ASSUME None \notin Int, NEW rows \in Seq(HistoryOf!Rows), HistoryOf!Ordered(rows),
           NEW pairs, pairs = HistoryOf!Select(rows, HistoryOf!Measured(rows))
    PROVE  Series(pairs) /\ Among(pairs, rows)
<1> DEFINE I == HistoryOf!Measured(rows)
           sel == HistoryOf!Select(rows, I)
<1>1. pairs \in Seq(HistoryOf!Rows) /\ HistoryOf!Ordered(pairs)
  BY SelectOrdered
<1>2. \A i \in 1 .. Len(rows) : i \in I <=> rows[i].value # None
  BY DEF HistoryOf!Measured
<1>3. \A k \in 1 .. Len(sel) : \E i \in 1 .. Len(rows) : i \in I /\ sel[k] = rows[i]
  <2> HIDE DEF I
  <2> QED BY SelectItems
<1>4. pairs = sel
  OBVIOUS
<1> HIDE DEF I, sel
<1>5. \A k \in 1 .. Len(pairs) : \E i \in 1 .. Len(rows) :
          pairs[k] = rows[i] /\ rows[i].value # None
  BY <1>2, <1>3, <1>4
<1>6. ASSUME NEW k \in 1 .. Len(pairs) PROVE pairs[k].timestamp \in Int /\ pairs[k].value \in Int
  <2>1. pairs[k].timestamp \in Int /\ pairs[k].value \in Int \cup {None}
    BY <1>1, RowFields, ItemOf
  <2> QED BY <1>5, <2>1
<1>7. DOMAIN pairs = 1 .. Len(pairs)
  BY <1>1
<1> QED BY <1>1, <1>5, <1>6, <1>7 DEF Series, Among, HistoryOf!Ordered

(* The last three hours have a first row: at worst it is the last. *)
LEMMA ReferenceIs ==
    ASSUME NEW pairs, Series(pairs), Len(pairs) >= 2
    PROVE  \E i \in 1 .. Len(pairs) :
              /\ HistoryOf!ReferenceRow(pairs) = pairs[i]
              /\ pairs[i].timestamp >= pairs[Len(pairs)].timestamp - 3 * HistoryOf!HOUR
<1> DEFINE cutoff == pairs[Len(pairs)].timestamp - 3 * HistoryOf!HOUR
           I == {i \in DOMAIN pairs : pairs[i].timestamp >= cutoff}
           sel == HistoryOf!Select(pairs, I)
<1>1. /\ pairs \in Seq(HistoryOf!Rows) /\ Len(pairs) \in Nat /\ Len(pairs) \in 1 .. Len(pairs)
      /\ DOMAIN pairs = 1 .. Len(pairs)
  BY DEF Series
<1>2. pairs[Len(pairs)].timestamp \in Int
  BY <1>1 DEF Series
<1>3. Len(pairs) \in I
  BY <1>1, <1>2 DEF HistoryOf!HOUR
<1>4. HistoryOf!ReferenceRow(pairs) = Head(sel)
  BY DEF HistoryOf!ReferenceRow, HistoryOf!Last
<1>5. \A i \in I : i \in 1 .. Len(pairs) /\ pairs[i].timestamp >= cutoff
  BY <1>1
<1> HIDE DEF I
<1>6. /\ sel \in Seq(HistoryOf!Rows)
      /\ \A k \in 1 .. Len(sel) : \E i \in 1 .. Len(pairs) : i \in I /\ sel[k] = pairs[i]
      /\ sel # << >>
  <2>1. sel \in Seq(HistoryOf!Rows)
    BY <1>1, SelectItems
  <2>2. \A k \in 1 .. Len(sel) : \E i \in 1 .. Len(pairs) : i \in I /\ sel[k] = pairs[i]
    BY <1>1, SelectItems
  <2>3. sel # << >>
    <3>1. pairs # << >>
      BY <1>1
    <3> QED BY <1>1, <1>3, <3>1, SelectLast
  <2> HIDE DEF sel
  <2> QED BY <2>1, <2>2, <2>3
<1> HIDE DEF sel
<1>7. 1 \in 1 .. Len(sel) /\ Head(sel) = sel[1]
  BY <1>6
<1> QED BY <1>4, <1>5, <1>6, <1>7

(* The tendency is that of three hours at most. *)
LEMMA TendencyIs ==
    ASSUME None \notin Int, NEW pairs, Series(pairs), HistoryOf!pressure_tendency(pairs) # None
    PROVE  LET told == HistoryOf!pressure_tendency(pairs) IN
           /\ HistoryOf!Last(pairs).timestamp - told.since <= 3 * HistoryOf!HOUR
           /\ Rises(pairs) => told.trend # "falling"
<1> DEFINE told == HistoryOf!pressure_tendency(pairs)
           last == pairs[Len(pairs)]
           ref == HistoryOf!ReferenceRow(pairs)
           delta == last.value - ref.value
<1>1. ~(Len(pairs) < 2)
  BY DEF HistoryOf!pressure_tendency
<1>2. Len(pairs) \in Nat /\ Len(pairs) >= 2 /\ DOMAIN pairs = 1 .. Len(pairs)
  BY <1>1 DEF Series
<1>3. told = [since |-> ref.timestamp, delta |-> delta,
              trend |-> IF delta > 6 THEN "rising" ELSE IF delta < -6 THEN "falling" ELSE "steady"]
  BY <1>1, Zenon DEF HistoryOf!pressure_tendency, HistoryOf!Last, HistoryOf!Threshold
<1>4. PICK i \in 1 .. Len(pairs) : ref = pairs[i] /\ ref.timestamp >= last.timestamp - 3 * HistoryOf!HOUR
  BY <1>2, ReferenceIs
<1>5. /\ last.timestamp \in Int /\ last.value \in Int /\ ref.timestamp \in Int /\ ref.value \in Int
      /\ Len(pairs) \in 1 .. Len(pairs)
  BY <1>2, <1>4 DEF Series
<1> HIDE DEF ref, told
<1>6. told.since = ref.timestamp
  BY <1>3
<1>7. last.timestamp - told.since <= 3 * HistoryOf!HOUR
  BY <1>4, <1>5, <1>6 DEF HistoryOf!HOUR
<1>8. ASSUME Rises(pairs) PROVE told.trend # "falling"
  <2>1. i = Len(pairs) \/ i < Len(pairs)
    <3>1. Len(pairs) \in Nat
      BY <1>2
    <3> QED BY <3>1
  <2>2. ref.value <= last.value
    <3>1. i \in DOMAIN pairs /\ Len(pairs) \in DOMAIN pairs
      BY <1>2, <1>5
    <3>2. i < Len(pairs) => pairs[i].value <= last.value
      BY <1>8, <3>1 DEF Rises
    <3>3. last.value <= last.value
      BY <1>5
    <3> QED BY <1>4, <2>1, <3>2, <3>3, Zenon
  <2>3. delta \in Int /\ ~(delta < -6)
    BY <1>5, <2>2
  <2> HIDE DEF delta
  <2>4. told.trend = IF delta > 6 THEN "rising" ELSE "steady"
    BY <1>3, <2>3
  <2> QED BY <2>4
<1>9. HistoryOf!Last(pairs) = last
  BY DEF HistoryOf!Last
<1> QED BY <1>7, <1>8, <1>9 DEF told

(* Of values that only rise the slope is not negative. *)
LEMMA SlopeIs ==
    ASSUME None \notin Int, NEW pairs, Series(pairs), Rises(pairs),
           HistoryOf!linear_trend(pairs) # None
    PROVE  HistoryOf!linear_trend(pairs) >= 0
<1> DEFINE n == Len(pairs)
           t == [i \in DOMAIN pairs |-> pairs[i].timestamp - pairs[1].timestamp]
           v == [i \in DOMAIN pairs |-> pairs[i].value]
           tv == [i \in DOMAIN pairs |-> t[i] * v[i]]
<1>1. pairs \in Seq(HistoryOf!Rows) /\ n \in Nat /\ DOMAIN pairs = 1 .. n
  BY DEF Series
<1>2. Len(t) = n /\ Len(v) = n /\ Len(tv) = n
  BY <1>1
<1>3. HistoryOf!linear_trend(pairs)
         = n * HistoryOf!Total(tv) - HistoryOf!Total(t) * HistoryOf!Total(v)
  BY Zenon DEF HistoryOf!linear_trend
<1>4. \A i \in 1 .. n : /\ 1 \in 1 .. n
                        /\ pairs[i].timestamp \in Int /\ pairs[i].value \in Int
                        /\ pairs[1].timestamp \in Int
                        /\ t[i] = pairs[i].timestamp - pairs[1].timestamp
                        /\ v[i] = pairs[i].value /\ tv[i] = t[i] * v[i]
  BY <1>1 DEF Series
<1>5. \A i, j \in 1 .. n : i < j => /\ pairs[i].timestamp <= pairs[j].timestamp
                                    /\ pairs[i].value <= pairs[j].value
  BY <1>1 DEF Series, Rises
<1> HIDE DEF n, t, v, tv
<1>6. PICK T : /\ T[0] = 0 /\ \A i \in 1 .. n : T[i] = T[i - 1] + t[i]
               /\ HistoryOf!Total(t) = T[n]
  BY <1>1, <1>2, TotalSteps, Zenon
<1>7. PICK V : /\ V[0] = 0 /\ \A i \in 1 .. n : V[i] = V[i - 1] + v[i]
               /\ HistoryOf!Total(v) = V[n]
  BY <1>1, <1>2, TotalSteps, Zenon
<1>8. PICK P : /\ P[0] = 0 /\ \A i \in 1 .. n : P[i] = P[i - 1] + tv[i]
               /\ HistoryOf!Total(tv) = P[n]
  BY <1>1, <1>2, TotalSteps, Zenon
<1>9. \A i \in 1 .. n : t[i] \in Int /\ v[i] \in Int
  BY <1>4
<1>10. \A i, j \in 1 .. n : i < j => t[i] <= t[j] /\ v[i] <= v[j]
  BY <1>4, <1>5
<1>11. \A i \in 1 .. n : P[i] = P[i - 1] + t[i] * v[i]
  BY <1>4, <1>8
<1>12. \A i \in 1 .. n : T[i] = T[i - 1] + t[i] /\ V[i] = V[i - 1] + v[i] /\ P[i] = P[i - 1] + t[i] * v[i]
  BY <1>6, <1>7, <1>11, Zenon
<1>13. n * P[n] - T[n] * V[n] >= 0
  <2>1. RisingSeries(n, t, v, T, V, P)
    BY <1>6, <1>7, <1>8, <1>9, <1>10, <1>12, Zenon DEF RisingSeries
  <2> QED BY <1>1, <2>1, RisingSums, Zenon
<1> QED BY <1>3, <1>6, <1>7, <1>8, <1>13, Zenon

-----------------------------------------------------------------------------
(* The light: trapezoids between the least value and the greatest *)

(* One trapezoid more. *)
LEMMA LightStep ==
    ASSUME NEW low \in Int, NEW high \in Int, NEW a \in low .. high, NEW b \in low .. high,
           NEW d \in Int, NEW dt \in Nat, NEW s \in Int,
           low * (2 * d) <= s, s <= high * (2 * d)
    PROVE  /\ low * (2 * (d + dt)) <= s + (a + b) * dt
           /\ s + (a + b) * dt <= high * (2 * (d + dt))
<1>1. /\ low * (2 * (d + dt)) = low * (2 * d) + (2 * low) * dt
      /\ high * (2 * (d + dt)) = high * (2 * d) + (2 * high) * dt
  OBVIOUS
<1>2. ASSUME NEW x \in Int, NEW y \in Int, x <= y PROVE x * dt <= y * dt
  <2>1. y - x \in Nat
    BY <1>2
  <2>2. (y - x) * dt >= 0
    BY <2>1
  <2>3. (y - x) * dt = y * dt - x * dt
    OBVIOUS
  <2>4. x * dt \in Int /\ y * dt \in Int
    OBVIOUS
  <2> HIDE <1>2
  <2> QED BY <2>2, <2>3, <2>4
<1>3. (2 * low) * dt <= (a + b) * dt /\ (a + b) * dt <= (2 * high) * dt
  <2>1. a + b \in Int /\ 2 * low \in Int /\ 2 * high \in Int /\ 2 * low <= a + b /\ a + b <= 2 * high
    OBVIOUS
  <2> QED BY <1>2, <2>1
<1> DEFINE l2 == low * (2 * d)
           h2 == high * (2 * d)
           ld == (2 * low) * dt
           hd == (2 * high) * dt
           ab == (a + b) * dt
<1>4. /\ l2 \in Int /\ h2 \in Int /\ ld \in Int /\ hd \in Int /\ ab \in Int
      /\ l2 <= s /\ s <= h2 /\ ld <= ab /\ ab <= hd
  BY <1>3
<1> HIDE DEF l2, h2, ld, hd, ab
<1>5. l2 + ld <= s + ab /\ s + ab <= h2 + hd
  BY <1>4
<1> QED BY <1>1, <1>5 DEF l2, h2, ld, hd, ab

(* The light of a series. *)
LEMMA LightIs ==
    ASSUME NEW pairs, Series(pairs), NEW low \in Int, NEW high \in Int,
           \A i \in 1 .. Len(pairs) : low <= pairs[i].value /\ pairs[i].value <= high,
           HistoryOf!light_integral(pairs) # None
    PROVE  LET span == 2 * (HistoryOf!Last(pairs).timestamp - Head(pairs).timestamp)
           IN /\ low * span <= HistoryOf!light_integral(pairs)
              /\ HistoryOf!light_integral(pairs) <= high * span
<1> DEFINE n == Len(pairs) - 1
           f == [i \in 1 .. Len(pairs) - 1 |->
                    (pairs[i].value + pairs[i + 1].value)
                        * (pairs[i + 1].timestamp - pairs[i].timestamp)]
<1>1. ~(Len(pairs) < 2) /\ HistoryOf!light_integral(pairs) = HistoryOf!Total(f)
  BY Zenon DEF HistoryOf!light_integral
<1>2. /\ Len(pairs) \in Nat /\ Len(pairs) >= 2 /\ n \in Nat /\ n + 1 = Len(pairs)
      /\ pairs \in Seq(HistoryOf!Rows)
  BY <1>1 DEF Series
<1>3. Len(f) = n /\ \A i \in 1 .. n : f[i] = (pairs[i].value + pairs[i + 1].value)
                                                * (pairs[i + 1].timestamp - pairs[i].timestamp)
  BY <1>2
<1>4. \A i \in 1 .. n + 1 : pairs[i].timestamp \in Int /\ pairs[i].value \in low .. high
  BY <1>2 DEF Series
<1>5. \A i \in 1 .. n : pairs[i].timestamp <= pairs[i + 1].timestamp
  <2> SUFFICES ASSUME NEW i \in 1 .. n PROVE pairs[i].timestamp <= pairs[i + 1].timestamp
    OBVIOUS
  <2>1. i \in 1 .. Len(pairs) /\ i + 1 \in 1 .. Len(pairs) /\ i < i + 1
    BY <1>2
  <2> QED BY <2>1 DEF Series
<1>6. HistoryOf!Last(pairs) = pairs[n + 1] /\ Head(pairs) = pairs[1]
  BY <1>2 DEF HistoryOf!Last
<1> HIDE DEF n, f
<1>7. PICK s : /\ s[0] = 0 /\ \A i \in 1 .. n : s[i] = s[i - 1] + f[i]
               /\ HistoryOf!Total(f) = s[n]
  BY <1>2, <1>3, TotalSteps, Zenon
<1> DEFINE After(k) == pairs[k + 1].timestamp - pairs[1].timestamp
           Within(k) == /\ s[k] \in Int
                        /\ low * (2 * After(k)) <= s[k] /\ s[k] <= high * (2 * After(k))
           A == {k \in Nat : k <= n => Within(k)}
<1>8. 0 \in A
  <2>1. After(0) = 0
    BY <1>2, <1>4
  <2>2. low * (2 * 0) = 0 /\ high * (2 * 0) = 0
    OBVIOUS
  <2> HIDE DEF After
  <2> QED BY <1>7, <2>1, <2>2
<1>9. ASSUME NEW k \in Nat, k \in A PROVE k + 1 \in A
  <2> SUFFICES ASSUME k + 1 <= n PROVE Within(k + 1)
    OBVIOUS
  <2>1. Within(k)
    BY <1>2, <1>9
  <2>2. /\ k + 1 \in 1 .. n /\ (k + 1) - 1 = k
        /\ 1 \in 1 .. n + 1 /\ k + 1 \in 1 .. n + 1 /\ (k + 1) + 1 \in 1 .. n + 1
    BY <1>2
  <2> DEFINE a == pairs[k + 1].value
             b == pairs[(k + 1) + 1].value
             dt == pairs[(k + 1) + 1].timestamp - pairs[k + 1].timestamp
             d == After(k)
             total == s[k]
  <2>3. s[k + 1] = total + (a + b) * dt
    BY <1>3, <1>7, <2>2
  <2>4. a \in low .. high /\ b \in low .. high /\ dt \in Nat /\ d \in Int
    BY <1>4, <1>5, <2>2
  <2>5. After(k + 1) = d + dt
    BY <1>4, <2>2
  <2>6. total \in Int /\ low * (2 * d) <= total /\ total <= high * (2 * d)
    BY <2>1
  <2> HIDE DEF a, b, dt, d, total, After
  <2>7. /\ low * (2 * (d + dt)) <= total + (a + b) * dt
        /\ total + (a + b) * dt <= high * (2 * (d + dt))
    BY <2>4, <2>6, LightStep
  <2>8. total + (a + b) * dt \in Int
    BY <2>4, <2>6
  <2> QED BY <2>3, <2>5, <2>7, <2>8, Zenon
<1>10. n \in A
  <2> HIDE DEF A
  <2> QED BY <1>2, <1>8, <1>9, AllNumbers
<1>11. Within(n)
  BY <1>2, <1>10
<1> QED BY <1>1, <1>6, <1>7, <1>11

-----------------------------------------------------------------------------
(* The degree days *)

(* The totals of at most one value. *)
LEMMA TotalOfNoneOrOne ==
    ASSUME NEW values, Len(values) \in Nat, Len(values) <= 1,
           \A i \in 1 .. Len(values) : values[i] \in Int
    PROVE  HistoryOf!Total(values) = IF Len(values) = 0 THEN 0 ELSE values[1]
<1>1. PICK s : /\ s[0] = 0 /\ \A i \in 1 .. Len(values) : s[i] = s[i - 1] + values[i]
               /\ HistoryOf!Total(values) = s[Len(values)]
  BY TotalSteps, Zenon
<1>2. CASE Len(values) = 0
  BY <1>1, <1>2
<1>3. CASE Len(values) = 1
  <2>1. 1 \in 1 .. Len(values) /\ 1 - 1 = 0
    BY <1>3
  <2>2. s[1] = s[1 - 1] + values[1] /\ values[1] \in Int
    BY <1>1, <2>1
  <2> QED BY <1>1, <1>3, <2>1, <2>2
<1> QED BY <1>2, <1>3

(* The greater of two numbers. *)
LEMMA HistoryMaxOfTwo ==
    ASSUME NEW a \in Int, NEW b \in Int
    PROVE  HistoryOf!Max({a, b}) = IF a <= b THEN b ELSE a
<1> DEFINE m == IF a <= b THEN b ELSE a
<1>1. m \in {a, b} /\ \A y \in {a, b} : m >= y
  OBVIOUS
<1>2. \A x \in {a, b} : (\A y \in {a, b} : x >= y) => x = m
  OBVIOUS
<1> HIDE DEF m
<1>3. HistoryOf!Max({a, b}) = m
  BY <1>1, <1>2 DEF HistoryOf!Max
<1> QED BY <1>3 DEF m

(* A day does not both heat and cool. *)
LEMMA DegreesOfADay ==
    ASSUME NEW low \in Int, NEW high \in Int
    PROVE  LET of == HistoryOf!degree_days(low, high) IN
           of.heating \in Int /\ of.cooling \in Int /\ ~(of.heating > 0 /\ of.cooling > 0)
<1> DEFINE h == 2 * HistoryOf!DegreeBase - (low + high)
           c == (low + high) - 2 * HistoryOf!DegreeBase
<1>1. h \in Int /\ c \in Int /\ h = -c
  BY DEF HistoryOf!DegreeBase
<1> DEFINE of == HistoryOf!degree_days(low, high)
<1>2. of = [heating |-> HistoryOf!Max({0, h}), cooling |-> HistoryOf!Max({0, c})]
  BY Zenon DEF HistoryOf!degree_days
<1> HIDE DEF h, c, of
<1>3. of.heating = HistoryOf!Max({0, h}) /\ of.cooling = HistoryOf!Max({0, c})
  BY <1>2
<1>4. HistoryOf!Max({0, h}) = IF 0 <= h THEN h ELSE 0
  BY <1>1, HistoryMaxOfTwo
<1>5. HistoryOf!Max({0, c}) = IF 0 <= c THEN c ELSE 0
  BY <1>1, HistoryMaxOfTwo
<1>6. of.heating \in Int /\ of.cooling \in Int /\ ~(of.heating > 0 /\ of.cooling > 0)
  BY <1>1, <1>3, <1>4, <1>5
<1> QED BY <1>6 DEF of

(* Degree days of both kinds come from two days or more. *)
LEMMA DegreeDaysAre ==
    ASSUME None \notin Int, NEW pairs, Series(pairs), NEW zone \in Int
    PROVE  LET told == HistoryOf!_accumulate_daily(pairs, zone)
           IN told.heating > 0 /\ told.cooling > 0 => told.days > 1
<1> DEFINE told == HistoryOf!_accumulate_daily(pairs, zone)
<1> SUFFICES ASSUME told.heating > 0, told.cooling > 0 PROVE told.days > 1
  OBVIOUS
<1> DEFINE day == [i \in DOMAIN pairs |-> HistoryOf!DayOf(pairs[i].timestamp, zone)]
           I == {i \in DOMAIN day : \A k \in 1 .. i - 1 : day[k] # day[i]}
           days == HistoryOf!Select(day, I)
           of(d) == HistoryOf!Select(pairs, {i \in DOMAIN day : day[i] = days[d]})
           temps == [d \in DOMAIN days |-> HistoryOf!stat(HistoryOf!Values(of(d)))]
           degrees == [d \in DOMAIN days |-> HistoryOf!degree_days(temps[d].min, temps[d].max)]
           heating == [d \in DOMAIN days |-> degrees[d].heating]
           cooling == [d \in DOMAIN days |-> degrees[d].cooling]
<1>1. told = [heating |-> HistoryOf!Total(heating), cooling |-> HistoryOf!Total(cooling),
              days |-> Len(days)]
  BY Zenon DEF HistoryOf!_accumulate_daily
<1> HIDE DEF told
<1>2. pairs \in Seq(HistoryOf!Rows) /\ DOMAIN pairs = 1 .. Len(pairs) /\ Len(pairs) \in Nat
  BY DEF Series
<1>3. day \in Seq(Int) /\ DOMAIN day = 1 .. Len(pairs) /\ Len(day) = Len(pairs)
  <2>1. \A i \in DOMAIN pairs : HistoryOf!DayOf(pairs[i].timestamp, zone) \in Int
    BY <1>2 DEF Series, HistoryOf!DayOf, HistoryOf!DAY, HistoryOf!HOUR
  <2> QED BY <1>2, <2>1
<1> HIDE DEF day, I
<1>4. /\ days \in Seq(Int)
      /\ \A k \in 1 .. Len(days) : \E i \in 1 .. Len(day) : i \in I /\ days[k] = day[i]
  BY <1>3, SelectItems
<1> HIDE DEF days
<1>5. DOMAIN days = 1 .. Len(days) /\ Len(days) \in Nat
  BY <1>4
<1>6. ASSUME NEW d \in 1 .. Len(days)
      PROVE  temps[d].min \in Int /\ temps[d].max \in Int
  <2>1. PICK i \in 1 .. Len(day) : days[d] = day[i]
    BY <1>4
  <2> DEFINE J == {k \in DOMAIN day : day[k] = days[d]}
             sel == HistoryOf!Select(pairs, J)
  <2>2. i \in J /\ i \in 1 .. Len(pairs)
    BY <1>3, <2>1
  <2> HIDE DEF J
  <2>3. sel \in Seq(HistoryOf!Rows)
    BY <1>2, SelectItems
  <2>4. \E k \in 1 .. Len(sel) : sel[k] = pairs[i]
    BY <1>2, <2>2, SelectHas
  <2>5. temps[d] = HistoryOf!stat(HistoryOf!Values(sel))
    BY <1>5 DEF J
  <2> HIDE DEF sel, temps
  <2>6. PICK k \in 1 .. Len(sel) : sel[k] = pairs[i]
    BY <2>4
  <2>7. sel[k].value # None
    BY <2>2, <2>6 DEF Series
  <2>8. /\ HistoryOf!stat(HistoryOf!Values(sel)).min \in Int
        /\ HistoryOf!stat(HistoryOf!Values(sel)).max \in Int
    BY <2>3, <2>7, MeasuredStat
  <2> QED BY <2>5, <2>8
<1> HIDE DEF temps
<1>7. ASSUME NEW d \in 1 .. Len(days)
      PROVE  /\ heating[d] \in Int /\ cooling[d] \in Int
             /\ ~(heating[d] > 0 /\ cooling[d] > 0)
  <2> DEFINE one == HistoryOf!degree_days(temps[d].min, temps[d].max)
  <2>1. heating[d] = one.heating /\ cooling[d] = one.cooling
    BY <1>5
  <2>2. one.heating \in Int /\ one.cooling \in Int /\ ~(one.heating > 0 /\ one.cooling > 0)
    BY <1>6, DegreesOfADay
  <2> HIDE DEF one, heating, cooling
  <2> QED BY <2>1, <2>2
<1>8. Len(heating) = Len(days) /\ Len(cooling) = Len(days)
  BY <1>5
<1> HIDE DEF heating, cooling
<1> SUFFICES ASSUME Len(days) <= 1 PROVE FALSE
  BY <1>1, <1>5
<1>9. /\ HistoryOf!Total(heating) = IF Len(days) = 0 THEN 0 ELSE heating[1]
      /\ HistoryOf!Total(cooling) = IF Len(days) = 0 THEN 0 ELSE cooling[1]
  BY <1>5, <1>7, <1>8, TotalOfNoneOrOne
<1>10. HistoryOf!Total(heating) > 0 /\ HistoryOf!Total(cooling) > 0
  BY <1>1
<1>11. Len(days) # 0
  BY <1>9, <1>10
<1>12. 1 \in 1 .. Len(days)
  BY <1>5, <1>11
<1> QED BY <1>7, <1>9, <1>10, <1>11, <1>12

-----------------------------------------------------------------------------
(* The answers together *)

(* The light of the rows of a window. *)
LEMMA LightOfAll ==
    ASSUME None \notin Int, NEW rows \in Seq(HistoryOf!Rows),
           NEW pairs, Series(pairs), Among(pairs, rows), HistoryOf!light_integral(pairs) # None
    PROVE  LET of   == HistoryOf!stat(HistoryOf!Values(rows))
               span == 2 * (HistoryOf!Last(pairs).timestamp - Head(pairs).timestamp)
           IN /\ of.min * span <= HistoryOf!light_integral(pairs)
              /\ HistoryOf!light_integral(pairs) <= of.max * span
<1> DEFINE of == HistoryOf!stat(HistoryOf!Values(rows))
<1>1. ASSUME NEW k \in 1 .. Len(pairs)
      PROVE  /\ of.min \in Int /\ of.max \in Int
             /\ of.min <= pairs[k].value /\ pairs[k].value <= of.max
  <2>1. PICK i \in 1 .. Len(rows) : pairs[k] = rows[i] /\ rows[i].value # None
    BY DEF Among
  <2> QED BY <2>1, MeasuredStat
<1>2. ~(Len(pairs) < 2)
  BY Zenon DEF HistoryOf!light_integral
<1>3. 1 \in 1 .. Len(pairs)
  BY <1>2 DEF Series
<1> HIDE DEF of
<1>4. /\ of.min \in Int /\ of.max \in Int
      /\ \A k \in 1 .. Len(pairs) : of.min <= pairs[k].value /\ pairs[k].value <= of.max
  BY <1>1, <1>3
<1>5. LET span == 2 * (HistoryOf!Last(pairs).timestamp - Head(pairs).timestamp)
      IN /\ of.min * span <= HistoryOf!light_integral(pairs)
         /\ HistoryOf!light_integral(pairs) <= of.max * span
  BY <1>4, LightIs
<1> QED BY <1>5 DEF of

(* The roll-up of a window is true of its rows. *)
LEMMA RollUpTells ==
    ASSUME None \notin Int, NEW in \in HistoryOf!Inputs, HistoryOf!Refusal(in.query) = None,
           NEW sum, sum = HistoryOf!get_summary(in.query, in.log, in.now, in.zone),
           NEW kept, kept = HistoryOf!InRange(in.log, sum.from, sum.to),
           NEW pairs, pairs = HistoryOf!Select(kept, HistoryOf!Measured(kept))
    PROVE  HistoryOf!RollUpIsTrue(sum, pairs)
<1>1. /\ sum.stat = HistoryOf!stat(HistoryOf!Values(kept))
      /\ sum.tendency = HistoryOf!pressure_tendency(pairs)
      /\ sum.slope = HistoryOf!linear_trend(pairs)
      /\ sum.light = HistoryOf!light_integral(pairs)
      /\ sum.degree_days = HistoryOf!_accumulate_daily(pairs, in.zone)
  BY SummaryAnswer
<1>2. kept \in Seq(HistoryOf!Rows) /\ HistoryOf!Ordered(kept)
  BY RangeIs
<1>3. Series(pairs) /\ Among(pairs, kept)
  BY <1>2, PairsAre, Zenon
<1>4. in.zone \in Int
  BY DEF HistoryOf!Inputs
<1>5. sum.tendency # None =>
         /\ HistoryOf!Last(pairs).timestamp - sum.tendency.since <= 3 * HistoryOf!HOUR
         /\ Rises(pairs) => sum.tendency.trend # "falling"
  <2> SUFFICES ASSUME HistoryOf!pressure_tendency(pairs) # None
               PROVE  LET of == HistoryOf!pressure_tendency(pairs) IN
                      /\ HistoryOf!Last(pairs).timestamp - of.since <= 3 * HistoryOf!HOUR
                      /\ Rises(pairs) => of.trend # "falling"
    BY <1>1, Zenon
  <2> QED BY <1>3, TendencyIs, Zenon
<1>6. Rises(pairs) /\ sum.slope # None => sum.slope >= 0
  <2> SUFFICES ASSUME Rises(pairs), HistoryOf!linear_trend(pairs) # None
               PROVE  HistoryOf!linear_trend(pairs) >= 0
    BY <1>1, Zenon
  <2> QED BY <1>3, SlopeIs, Zenon
<1>7. sum.degree_days.heating > 0 /\ sum.degree_days.cooling > 0 => sum.degree_days.days > 1
  <2>1. LET of == HistoryOf!_accumulate_daily(pairs, in.zone)
        IN of.heating > 0 /\ of.cooling > 0 => of.days > 1
    BY <1>3, <1>4, DegreeDaysAre, Zenon
  <2> QED BY <1>1, <2>1, Zenon
<1>8. sum.light # None =>
         LET span == 2 * (HistoryOf!Last(pairs).timestamp - Head(pairs).timestamp)
         IN sum.stat.min * span <= sum.light /\ sum.light <= sum.stat.max * span
  <2> SUFFICES ASSUME HistoryOf!light_integral(pairs) # None
               PROVE  LET of   == HistoryOf!stat(HistoryOf!Values(kept))
                          span == 2 * (HistoryOf!Last(pairs).timestamp - Head(pairs).timestamp)
                      IN /\ of.min * span <= HistoryOf!light_integral(pairs)
                         /\ HistoryOf!light_integral(pairs) <= of.max * span
    BY <1>1, Zenon
  <2> QED BY <1>2, <1>3, LightOfAll, Zenon
<1> QED BY <1>5, <1>6, <1>7, <1>8, Zenon DEF HistoryOf!RollUpIsTrue, Rises

(* The answers about one log agree with it. *)
LEMMA HistoryIsRight ==
    ASSUME NEW in \in Logs
    PROVE  HistoryOf!HistoryIsWhatWasLogged(in)
<1> DEFINE told == HistoryOf!get_history(in.query, in.log, in.now)
           sum == HistoryOf!get_summary(in.query, in.log, in.now, in.zone)
           kept == HistoryOf!InRange(in.log, told.from, told.to)
           all == HistoryOf!InRange(in.log, sum.from, sum.to)
           pairs == HistoryOf!Select(all, HistoryOf!Measured(all))
<1> SUFFICES ASSUME told.status = "ok"
             PROVE  /\ HistoryOf!RowsAreInTheirBuckets(told, kept, in.query.include)
                    /\ HistoryOf!RollUpBoundsHistory(told, sum)
                    /\ HistoryOf!RollUpIsTrue(sum, pairs)
  BY Zenon DEF HistoryOf!HistoryIsWhatWasLogged
<1>1. in \in HistoryOf!Inputs /\ None \notin Int
  BY LogsAssumption
<1>2. HistoryOf!RowsAreInTheirBuckets(told, kept, in.query.include)
  BY <1>1, RowsTell DEF AnswerIsTold
<1>3. HistoryOf!RollUpBoundsHistory(told, sum)
  BY <1>1, RollUpCovers
<1>4. HistoryOf!Refusal(in.query) = None
  BY <1>1, HistoryAnswer
<1>5. HistoryOf!RollUpIsTrue(sum, pairs)
  BY <1>1, <1>4, RollUpTells
<1> QED BY <1>2, <1>3, <1>5

(* What is read back is what was logged: no bucketing and no roll-up adds, *)
(* drops or moves a row (routes/history.py:141-194,                         *)
(* routes/summary.py:92-188), whatever the log and the query.               *)
THEOREM HistoryIsTrue == Spec => []HistoryIsWhatWasLogged
<1>1. AskedItsOwn => HistoryIsWhatWasLogged
  BY HistoryIsRight DEF AskedItsOwn, HistoryIsWhatWasLogged, About
<1> QED BY <1>1, AskedItsOwnAlways, PTL

-----------------------------------------------------------------------------
(* The tray widget *)

USE PollingAssumption, HistoryAssumption

(* A callback waits for no time to pass, so it is as young as the answer   *)
(* it carries; when none waits, what is shown came with the last answer.   *)
TrayAgesWithQuiet ==
    /\ \A i \in 1 .. Len(idle) : idle[i].age <= MaxAnswer
    /\ idle # << >> => trayQuiet = 0
    /\ idle = << >> => shown.age <= trayQuiet + MaxAnswer
    /\ shown.age <= Tray!Lag

TrayInv == Tray!TypeOK /\ Tray!PollingInv /\ TrayAgesWithQuiet

LEMMA TrayStarts == Tray!Init => TrayInv
<1> SUFFICES ASSUME Tray!Init PROVE TrayInv
  OBVIOUS
<1>1. Tray!PollingInv /\ trayQuiet = 0
  BY Tray!PollingStarts DEF Tray!Init, Tray!PollingInit
<1>2. shown \in Tray!Callbacks /\ shown.age = 0 /\ idle = << >>
  BY DEF Tray!Init, Tray!Callbacks, Tray!Outdated, Tray!Lag
<1>3. Tray!TypeOK
  BY <1>1, <1>2 DEF Tray!Init, Tray!TypeOK, Tray!PollingInv
<1> QED BY <1>1, <1>2, <1>3 DEF TrayInv, TrayAgesWithQuiet, Tray!Lag

(* The polling goes on beneath every step of the widget. *)
LEMMA TrayPollingKeeps == Tray!PollingInv /\ [Tray!Next]_(Tray!vars) => Tray!PollingInv'
<1> SUFFICES ASSUME Tray!PollingInv, [Tray!Next]_(Tray!vars) PROVE Tray!PollingInv'
  OBVIOUS
<1>1. CASE Tray!TickFires BY <1>1, Tray!AskKeeps DEF Tray!TickFires
<1>2. CASE Tray!ThreadEnds BY <1>2, Tray!EndsKeeps DEF Tray!ThreadEnds
<1>3. CASE Tray!Tick BY <1>3, Tray!TimePassesKeeps DEF Tray!Tick
<1>4. CASE UNCHANGED Tray!pollVars BY <1>4, Tray!PollingRests DEF Tray!pollVars
<1> QED
  BY <1>1, <1>2, <1>3, <1>4
  DEF Tray!Next, Tray!Run, Tray!vars, Tray!ServerChanges, Tray!Render

LEMMA TrayTickKeeps ==
    TrayInv /\ Tray!PollingInv' /\ Tray!Tick => Tray!TypeOK' /\ TrayAgesWithQuiet'
<1> SUFFICES ASSUME TrayInv, Tray!PollingInv', Tray!Tick
             PROVE  Tray!TypeOK' /\ TrayAgesWithQuiet'
  OBVIOUS
<1> USE DEF TrayInv, Tray!TypeOK, Tray!PollingInv, Tray!PollingTypeOK
<1>1. shown' = [shown EXCEPT !.age = Tray!Older(shown.age)] /\ idle = << >> /\ idle' = << >>
  BY DEF Tray!Tick
<1>2. shown.age \in 0 .. Tray!Outdated /\ Tray!Older(shown.age) \in 0 .. Tray!Outdated
  BY Tray!OlderFacts DEF Tray!Callbacks
<1>3. shown' \in Tray!Callbacks /\ shown'.age = Tray!Older(shown.age)
  BY <1>1, <1>2 DEF Tray!Callbacks
<1>4. trayQuiet' = trayQuiet + 1
  <2>1. trayQuiet < Tray!Outdated
    BY Tray!QuietIsBounded DEF Tray!Outdated, Tray!Lag
  <2> QED BY <2>1, Tray!OlderFacts DEF Tray!Tick, Tray!TimePasses
<1>5. shown'.age <= trayQuiet' + MaxAnswer
  BY <1>1, <1>2, <1>3, <1>4, Tray!OlderFacts DEF TrayAgesWithQuiet
<1>6. trayQuiet' <= Interval + MaxAnswer
  BY DEF Tray!SomeAnswerIsDue
<1>7. shown'.age <= Tray!Lag
  BY <1>2, <1>3, <1>5, <1>6 DEF Tray!Lag
<1>8. Tray!TypeOK'
  BY <1>1, <1>3 DEF Tray!Tick
<1> QED BY <1>1, <1>5, <1>7, <1>8 DEF TrayAgesWithQuiet

LEMMA TrayThreadEndsKeeps ==
    TrayInv /\ Tray!PollingInv' /\ Tray!ThreadEnds => Tray!TypeOK' /\ TrayAgesWithQuiet'
<1> SUFFICES ASSUME TrayInv, Tray!PollingInv', Tray!ThreadEnds
             PROVE  Tray!TypeOK' /\ TrayAgesWithQuiet'
  OBVIOUS
<1> USE DEF TrayInv, Tray!TypeOK, Tray!PollingInv, Tray!PollingTypeOK
<1>1. PICK age \in trayOwed : Tray!Ends(age) /\ idle' = idle \o Tray!CallbackOf(age)
  BY DEF Tray!ThreadEnds
<1> DEFINE callback == [of |-> server, age |-> age]
<1>2. callback \in Tray!Callbacks /\ callback.age <= MaxAnswer
  BY <1>1 DEF Tray!Callbacks, Tray!Outdated, Tray!Lag
<1> HIDE DEF callback
<1>3. idle' = Append(idle, callback)
  BY <1>1 DEF Tray!CallbackOf, callback
<1>4. idle' \in Seq(Tray!Callbacks) /\ idle' # << >>
  BY <1>2, <1>3
<1>5. \A i \in 1 .. Len(idle') : idle'[i].age <= MaxAnswer
  BY <1>2, <1>3 DEF TrayAgesWithQuiet
<1>6. trayQuiet' = 0 /\ shown' = shown /\ server' = server
  BY <1>1 DEF Tray!Ends, Tray!ThreadEnds
<1> QED BY <1>4, <1>5, <1>6 DEF TrayAgesWithQuiet

LEMMA TrayRenderKeeps ==
    TrayInv /\ Tray!PollingInv' /\ Tray!Render => Tray!TypeOK' /\ TrayAgesWithQuiet'
<1> SUFFICES ASSUME TrayInv, Tray!PollingInv', Tray!Render
             PROVE  Tray!TypeOK' /\ TrayAgesWithQuiet'
  OBVIOUS
<1> USE DEF TrayInv, Tray!TypeOK, Tray!PollingInv, Tray!PollingTypeOK
<1>1. /\ idle # << >> /\ shown' = Head(idle) /\ idle' = Tail(idle)
      /\ trayQuiet' = trayQuiet /\ trayQuiet = 0 /\ server' = server
  BY DEF Tray!Render, Tray!pollVars, TrayAgesWithQuiet
<1>2. shown' = idle[1] /\ 1 \in 1 .. Len(idle) /\ idle[1] \in Tray!Callbacks
  BY <1>1
<1>3. idle' \in Seq(Tray!Callbacks)
  BY <1>1
<1>4. \A i \in 1 .. Len(idle') : idle'[i] = idle[i + 1] /\ i + 1 \in 1 .. Len(idle)
  BY <1>1
<1>5. shown'.age <= MaxAnswer /\ shown'.age \in 0 .. Tray!Outdated
  BY <1>2 DEF TrayAgesWithQuiet, Tray!Callbacks
<1>6. \A i \in 1 .. Len(idle') : idle'[i].age <= MaxAnswer
  BY <1>4 DEF TrayAgesWithQuiet
<1> QED BY <1>1, <1>2, <1>3, <1>5, <1>6 DEF TrayAgesWithQuiet, Tray!Lag

LEMMA TrayNextKeeps == TrayInv /\ [Tray!Next]_(Tray!vars) => TrayInv'
<1> SUFFICES ASSUME TrayInv, [Tray!Next]_(Tray!vars) PROVE TrayInv'
  OBVIOUS
<1>1. Tray!PollingInv'
  BY TrayPollingKeeps DEF TrayInv
<1>2. CASE UNCHANGED <<Tray!pollVars, idle, shown>> /\ server' \in Tray!Answers
  BY <1>1, <1>2 DEF TrayInv, Tray!TypeOK, Tray!PollingInv, TrayAgesWithQuiet, Tray!pollVars
<1>3. CASE Tray!TickFires
  BY <1>1, <1>3
  DEF TrayInv, Tray!TypeOK, Tray!PollingInv, TrayAgesWithQuiet, Tray!TickFires, Tray!Ask
<1> QED
  BY <1>1, <1>2, <1>3, TrayTickKeeps, TrayThreadEndsKeeps, TrayRenderKeeps
  DEF Tray!Next, Tray!Run, Tray!ServerChanges, Tray!vars, TrayInv, Tray!TypeOK

(* A step of the whole is one of the widget, or leaves it alone. *)
LEMMA TrayNext == [Next]_vars => [Tray!Next]_(Tray!vars)
<1> SUFFICES ASSUME [Next]_vars PROVE [Tray!Next]_(Tray!vars)
  OBVIOUS
<1>1. CASE TraySteps
  BY <1>1 DEF TraySteps
<1>2. CASE UNCHANGED trayVars
  BY <1>2 DEF trayVars, Tray!vars, Tray!pollVars
<1> QED
  BY <1>1, <1>2
  DEF Next, vars, FeedSteps, DashboardSteps, AskReading, AskAirport, AskHistory,
      FetchReport, AskSky, Asked, Answered

LEMMA TrayInvariance == Spec => []TrayInv
<1>1. Init => TrayInv
  BY TrayStarts DEF Init
<1> QED BY <1>1, TrayNext, TrayNextKeeps, PTL DEF Spec

(* The temperature beside the icon is never older than the polling can     *)
(* explain, whatever the order in which the threads end                    *)
(* (weather_tray.py:349-379).                                              *)
THEOREM TrayKeepsUp == Spec => []TrayIsRecent
<1>1. TrayInv => TrayIsRecent
  BY DEF TrayInv, TrayAgesWithQuiet, TrayIsRecent, Tray!TrayIsRecent
<1> QED BY <1>1, TrayInvariance, PTL

-----------------------------------------------------------------------------
(* The dashboard *)

(* While no banner shows, nothing but an answer has ended since the data   *)
(* on the screen came, which was MaxAnswer old at most.                    *)
DashAgesWithQuiet ==
    branding = "loaded" /\ lastCurrent # None /\ banner = "hidden"
        => lastCurrent.age <= quiet + MaxAnswer

DashInv == Dash!TypeOK /\ Dash!PollingInv /\ DashAgesWithQuiet

LEMMA DashRenderedScreen ==
    ASSUME NEW data, data.external \in Dash!Externals, Dash!renderAll(data),
           feedOverride' \in BOOLEAN, units' \in Dash!Units
    PROVE  screen' \in Dash!Screens
  BY DEF Dash!renderAll, Dash!renderExternal, Dash!Effective, Dash!Externals, Dash!Screens

LEMMA DashPlottedChart ==
    ASSUME NEW rows, Dash!plotTrend(rows), units' \in Dash!Units
    PROVE  chart' \in Dash!Charts
  BY DEF Dash!plotTrend, Dash!Charts

LEMMA DashStarts == Dash!Init => DashInv
<1> SUFFICES ASSUME Dash!Init PROVE DashInv
  OBVIOUS
<1>1. Dash!PollingInv
  BY Dash!PollingStarts DEF Dash!Init
<1>2. screen \in Dash!Screens /\ chart \in Dash!Charts
  BY DEF Dash!Init, Dash!Screens, Dash!Charts, Dash!Units
<1>3. historyOwed \in 0 .. MaxHistory
  BY DEF Dash!Init
<1>4. lastCurrent \in {None} /\ lastHistory \in {None} /\ units \in Dash!Units
  BY DEF Dash!Init, Dash!Units
<1>5. Dash!TypeOK
  BY <1>1, <1>2, <1>3, <1>4, Zenon DEF Dash!Init, Dash!TypeOK, Dash!PollingInv
<1> QED BY <1>1, <1>5 DEF DashInv, DashAgesWithQuiet, Dash!Init

(* The polling goes on beneath every step of the dashboard. *)
LEMMA DashPollingKeeps == Dash!PollingInv /\ [Dash!Next]_(Dash!vars) => Dash!PollingInv'
<1> SUFFICES ASSUME Dash!PollingInv, [Dash!Next]_(Dash!vars) PROVE Dash!PollingInv'
  OBVIOUS
<1> USE DEF Dash!pollVars
<1>1. CASE Dash!AskCurrent BY <1>1, Dash!AskKeeps DEF Dash!AskCurrent
<1>2. CASE Dash!CurrentArrives BY <1>2, Dash!EndsKeeps DEF Dash!CurrentArrives
<1>3. CASE Dash!CurrentFails BY <1>3, Dash!EndsKeeps DEF Dash!CurrentFails
<1>4. CASE Dash!Tick BY <1>4, Dash!TimePassesKeeps DEF Dash!Tick
<1>5. CASE UNCHANGED Dash!pollVars BY <1>5, Dash!PollingRests
<1> QED
  BY <1>1, <1>2, <1>3, <1>4, <1>5
  DEF Dash!Next, Dash!vars, Dash!BrandingEnds, Dash!AskHistory, Dash!HistoryArrives,
      Dash!HistoryIsDisabled, Dash!HistoryFails, Dash!toggleFeed, Dash!toggleUnits

LEMMA DashTypesKeep ==
    Dash!TypeOK /\ Dash!PollingInv' /\ [Dash!Next]_(Dash!vars) => Dash!TypeOK'
<1> SUFFICES ASSUME Dash!TypeOK, Dash!PollingInv', [Dash!Next]_(Dash!vars)
             PROVE  Dash!TypeOK'
  OBVIOUS
<1> USE DEF Dash!TypeOK, Dash!PollingInv
<1>1. CASE Dash!AskCurrent
  BY <1>1 DEF Dash!AskCurrent, Dash!toggleVars, Dash!historyVars
<1>2. CASE Dash!CurrentArrives
  <2>1. PICK age \in owed, external \in Dash!Externals :
          lastCurrent' = [age |-> age, external |-> external]
    BY <1>2 DEF Dash!CurrentArrives
  <2>2. age \in 0 .. Dash!Outdated
    <3>1. age \in 0 .. MaxAnswer
      BY DEF Dash!PollingTypeOK
    <3> QED BY <3>1, PollingAssumption DEF Dash!Outdated, Dash!Lag
  <2>3. screen' \in Dash!Screens
    BY <1>2, <2>1, DashRenderedScreen DEF Dash!CurrentArrives, Dash!toggleVars
  <2> QED
    BY <1>2, <2>1, <2>2, <2>3 DEF Dash!CurrentArrives, Dash!toggleVars, Dash!historyVars
<1>3. CASE Dash!CurrentFails
  BY <1>3 DEF Dash!CurrentFails, Dash!ShowError, Dash!toggleVars, Dash!historyVars
<1>4. CASE Dash!BrandingEnds
  BY <1>4 DEF Dash!BrandingEnds, Dash!toggleVars, Dash!historyVars
<1>5. CASE Dash!Tick
  <2>1. lastCurrent' \in [age : 0 .. Dash!Outdated, external : Dash!Externals] \cup {None}
    BY <1>5, Dash!OlderFacts DEF Dash!Tick
  <2> QED BY <1>5, <2>1 DEF Dash!Tick, Dash!toggleVars, Dash!historyVars
<1>6. CASE Dash!AskHistory
  BY <1>6 DEF Dash!AskHistory, Dash!toggleVars
<1>7. CASE Dash!HistoryArrives
  BY <1>7, DashPlottedChart DEF Dash!HistoryArrives, Dash!toggleVars
<1>8. CASE Dash!HistoryIsDisabled
  <2>1. chart' \in Dash!Charts
    BY <1>8 DEF Dash!HistoryIsDisabled, Dash!Charts
  <2>2. historyOwed' \in 0 .. MaxHistory
    BY <1>8 DEF Dash!HistoryIsDisabled
  <2> QED BY <1>8, <2>1, <2>2, Zenon DEF Dash!HistoryIsDisabled, Dash!toggleVars
<1>9. CASE Dash!HistoryFails
  BY <1>9 DEF Dash!HistoryFails, Dash!toggleVars
<1>10. CASE Dash!toggleFeed
  <2>1. screen' \in Dash!Screens
    BY <1>10, DashRenderedScreen DEF Dash!toggleFeed, Dash!RenderAgain, Dash!Screens
  <2> QED BY <1>10, <2>1 DEF Dash!toggleFeed, Dash!historyVars
<1>11. CASE Dash!toggleUnits
  <2>1. units' \in Dash!Units
    BY <1>11 DEF Dash!toggleUnits, Dash!Units
  <2>2. screen' \in Dash!Screens
    BY <1>11, <2>1, DashRenderedScreen DEF Dash!toggleUnits, Dash!RenderAgain
  <2> QED BY <1>11, <2>1, <2>2, DashPlottedChart DEF Dash!toggleUnits
<1>12. CASE UNCHANGED Dash!vars
  BY <1>12 DEF Dash!vars, Dash!toggleVars, Dash!historyVars
<1> QED
  BY <1>1, <1>2, <1>3, <1>4, <1>5, <1>6, <1>7, <1>8, <1>9, <1>10, <1>11, <1>12
  DEF Dash!Next

LEMMA DashAgesKeep == DashInv /\ [Dash!Next]_(Dash!vars) => DashAgesWithQuiet'
<1> SUFFICES ASSUME DashInv, [Dash!Next]_(Dash!vars) PROVE DashAgesWithQuiet'
  OBVIOUS
<1> USE DEF DashInv, Dash!TypeOK, Dash!PollingInv, Dash!PollingTypeOK, DashAgesWithQuiet
<1>1. CASE Dash!AskCurrent
  BY <1>1 DEF Dash!AskCurrent, Dash!Ask
<1>2. CASE Dash!CurrentArrives
  <2>1. PICK age \in owed, external \in Dash!Externals :
          lastCurrent' = [age |-> age, external |-> external] /\ Dash!Ends(age)
    BY <1>2 DEF Dash!CurrentArrives
  <2>2. lastCurrent'.age = age /\ age \in 0 .. MaxAnswer /\ quiet' = 0
    BY <2>1 DEF Dash!Ends
  <2>3. lastCurrent'.age <= quiet' + MaxAnswer
    BY <2>2
  <2> QED BY <2>3
<1>3. CASE Dash!CurrentFails
  BY <1>3 DEF Dash!CurrentFails, Dash!ShowError
<1>4. CASE Dash!BrandingEnds
  BY <1>4 DEF Dash!BrandingEnds, Dash!pollVars
<1>5. CASE Dash!Tick
  <2> SUFFICES ASSUME branding = "loaded", lastCurrent' # None, banner = "hidden"
               PROVE  lastCurrent'.age <= quiet' + MaxAnswer
    BY <1>5 DEF Dash!Tick
  <2>1. /\ lastCurrent # None /\ lastCurrent.age \in 0 .. Dash!Outdated
        /\ lastCurrent'.age = Dash!Older(lastCurrent.age)
    BY <1>5 DEF Dash!Tick
  <2>2. quiet < Dash!Outdated
    BY Dash!QuietIsBounded DEF Dash!Outdated, Dash!Lag
  <2>3. quiet' = quiet + 1
    BY <1>5, <2>2, Dash!OlderFacts DEF Dash!Tick, Dash!TimePasses
  <2> QED BY <2>1, <2>3, Dash!OlderFacts
<1>6. CASE UNCHANGED <<Dash!pollVars, lastCurrent, branding, banner>>
  BY <1>6 DEF Dash!pollVars
<1> QED
  BY <1>1, <1>2, <1>3, <1>4, <1>5, <1>6
  DEF Dash!Next, Dash!vars, Dash!AskHistory, Dash!HistoryArrives, Dash!HistoryIsDisabled,
      Dash!HistoryFails,
      Dash!toggleFeed, Dash!toggleUnits

LEMMA DashNextKeeps == DashInv /\ [Dash!Next]_(Dash!vars) => DashInv'
  BY DashPollingKeeps, DashTypesKeep, DashAgesKeep DEF DashInv

LEMMA DashScreenKeeps ==
    Dash!TypeOK /\ Dash!ScreenMatchesState /\ [Dash!Next]_(Dash!vars)
        => Dash!ScreenMatchesState'
<1> SUFFICES ASSUME Dash!TypeOK, Dash!ScreenMatchesState, [Dash!Next]_(Dash!vars)
             PROVE  Dash!ScreenMatchesState'
  OBVIOUS
<1> USE DEF Dash!ScreenMatchesState, Dash!TypeOK
<1> DEFINE Panels == lastCurrent # None =>
          LET external == IF feedOverride THEN "absent" ELSE lastCurrent.external
          IN /\ screen.label = [absent |-> "OFFLINE", stale |-> "STALE",
                                fresh |-> "ONLINE"][external]
             /\ screen.panel = [absent |-> "offline", stale |-> "stale",
                                fresh |-> "bright"][external]
             /\ screen.units = units
           Trend == /\ lastHistory = "rows" => chart.rows = "rows" /\ chart.units = units
                    /\ lastHistory = "empty" => chart.rows = "empty" /\ chart.note # "hidden"
<1> USE DEF Dash!Externals
<1>1. CASE Dash!CurrentArrives
  BY <1>1
  DEF Dash!CurrentArrives, Dash!renderAll, Dash!renderExternal, Dash!Effective,
      Dash!toggleVars, Dash!historyVars
<1>2. CASE Dash!Tick
  BY <1>2 DEF Dash!Tick, Dash!toggleVars, Dash!historyVars
<1>3. CASE Dash!HistoryArrives
  BY <1>3 DEF Dash!HistoryArrives, Dash!plotTrend, Dash!toggleVars
<1>4. CASE Dash!HistoryIsDisabled
  BY <1>4 DEF Dash!HistoryIsDisabled, Dash!toggleVars, Dash!Charts
<1>5. CASE Dash!toggleFeed
  BY <1>5
  DEF Dash!toggleFeed, Dash!RenderAgain, Dash!renderAll, Dash!renderExternal,
      Dash!Effective, Dash!historyVars
<1>6. CASE Dash!toggleUnits
  <2>1. Panels'
    BY <1>6
    DEF Dash!toggleUnits, Dash!RenderAgain, Dash!renderAll, Dash!renderExternal,
        Dash!Effective
  <2>2. Trend'
    BY <1>6 DEF Dash!toggleUnits, Dash!plotTrend
  <2> QED BY <2>1, <2>2
<1>7. CASE UNCHANGED <<lastCurrent, Dash!toggleVars, screen, lastHistory, chart>>
  BY <1>7 DEF Dash!toggleVars
<1> QED
  BY <1>1, <1>2, <1>3, <1>4, <1>5, <1>6, <1>7
  DEF Dash!Next, Dash!vars, Dash!historyVars, Dash!AskCurrent, Dash!CurrentFails,
      Dash!BrandingEnds, Dash!AskHistory, Dash!HistoryFails

(* A step of the whole is one of the dashboard, or leaves it alone. *)
LEMMA DashNext == [Next]_vars => [Dash!Next]_(Dash!vars)
<1> SUFFICES ASSUME [Next]_vars PROVE [Dash!Next]_(Dash!vars)
  OBVIOUS
<1>1. CASE DashboardSteps
  BY <1>1 DEF DashboardSteps
<1>2. CASE UNCHANGED dashVars
  BY <1>2 DEF dashVars, Dash!vars, Dash!pollVars, Dash!toggleVars, Dash!historyVars
<1> QED
  BY <1>1, <1>2
  DEF Next, vars, FeedSteps, TraySteps, AskReading, AskAirport, AskHistory,
      FetchReport, AskSky, Asked, Answered

LEMMA DashInvariance == Spec => []DashInv
<1>1. Init => DashInv
  BY DashStarts DEF Init
<1> QED BY <1>1, DashNext, DashNextKeeps, PTL DEF Spec

(* Old data is not on the screen without a banner (app.js:160-172).        *)
THEOREM StaleDataShows == Spec => []OldDataIsBannered
<1>1. DashInv => OldDataIsBannered
  BY Dash!QuietIsBounded
  DEF DashInv, Dash!TypeOK, Dash!PollingInv, Dash!PollingTypeOK, DashAgesWithQuiet,
      OldDataIsBannered, Dash!OldDataIsBannered, Dash!Lag
<1> QED BY <1>1, DashInvariance, PTL

(* The screen is the rendering of the last payloads under the toggles of   *)
(* now (app.js:178-192, 612-645).                                          *)
THEOREM ScreenIsCurrent == None \notin {"empty", "rows"} => (Spec => []ScreenMatchesState)
<1> SUFFICES ASSUME None \notin {"empty", "rows"} PROVE Spec => []ScreenMatchesState
  OBVIOUS
<1>1. Init => Dash!ScreenMatchesState
  BY DEF Init, Dash!Init, Dash!ScreenMatchesState
<1>2. DashInv => Dash!TypeOK
  BY DEF DashInv
<1>3. Dash!ScreenMatchesState <=> ScreenMatchesState
  BY DEF ScreenMatchesState
<1> QED BY <1>1, <1>2, <1>3, DashNext, DashScreenKeeps, DashInvariance, PTL DEF Spec

-----------------------------------------------------------------------------
(* The external feed: FeedProof!Next is ExternalFeed's Next as Feed!Next   *)
(* is, and the lemmas tell the prover so, action by action.                *)

FeedProof == INSTANCE ExternalFeedProofs WITH timer <- fetchTimer

LEMMA FeedInit == Init => FeedProof!Init
  BY DEF Init, Feed!Init, FeedProof!Init, Feed!Forgotten, FeedProof!Forgotten

LEMMA FeedNext == Feed!Next => FeedProof!Next
<1> USE DEF Feed!loopVars, FeedProof!loopVars, Feed!Capped, FeedProof!Capped,
            Feed!Missed, FeedProof!Missed, Feed!Asleep, FeedProof!Asleep,
            Feed!Due, FeedProof!Due, Feed!ReferencePosition, FeedProof!ReferencePosition
<1>1. Feed!Boot => FeedProof!Boot
  BY DEF Feed!Boot, FeedProof!Boot
<1>2. Feed!Stop => FeedProof!Stop
  BY DEF Feed!Stop, FeedProof!Stop, Feed!Forgotten, FeedProof!Forgotten
<1>3. Feed!RowLogged => FeedProof!RowLogged
  BY DEF Feed!RowLogged, FeedProof!RowLogged
<1>4. Feed!UpstreamChanges => FeedProof!UpstreamChanges
  BY DEF Feed!UpstreamChanges, FeedProof!UpstreamChanges
<1>5. Feed!Refresh => FeedProof!Refresh
  BY DEF Feed!Refresh, FeedProof!Refresh, Feed!Resolve, FeedProof!Resolve
<1>6. Feed!FetchLands => FeedProof!FetchLands
  BY DEF Feed!FetchLands, FeedProof!FetchLands, Feed!Reporting, FeedProof!Reporting,
         Feed!HomeStation, FeedProof!HomeStation, Feed!Remember, FeedProof!Remember,
         Feed!Slack, FeedProof!Slack, Feed!StaleAfter, FeedProof!StaleAfter,
         Feed!Model, FeedProof!Model
<1>7. Feed!FetchFails => FeedProof!FetchFails
  BY DEF Feed!FetchFails, FeedProof!FetchFails
<1>8. Feed!Tick => FeedProof!Tick
  BY DEF Feed!Tick, FeedProof!Tick, Feed!Old, FeedProof!Old, Feed!LongAgo,
         FeedProof!LongAgo, Feed!StaleAfter, FeedProof!StaleAfter
<1> QED
  BY <1>1, <1>2, <1>3, <1>4, <1>5, <1>6, <1>7, <1>8
  DEF Feed!Next, Feed!Run, FeedProof!Next, FeedProof!Run

LEMMA FeedRefreshes == Spec => FeedProof!Init /\ [][FeedProof!Next]_(FeedProof!vars)
<1>1. [Next]_vars => [FeedProof!Next]_(FeedProof!vars)
  <2> SUFFICES ASSUME [Next]_vars PROVE [FeedProof!Next]_(FeedProof!vars)
    OBVIOUS
  <2>1. CASE FeedSteps
    BY <2>1, FeedNext DEF FeedSteps
  <2>2. CASE UNCHANGED feedVars
    BY <2>2 DEF feedVars, FeedProof!vars, FeedProof!loopVars
  <2> QED
    BY <2>1, <2>2
    DEF Next, vars, DashboardSteps, TraySteps, AskReading, AskAirport, AskHistory,
        FetchReport, AskSky, Asked, Answered
<1> QED BY <1>1, FeedInit, PTL DEF Spec

LEMMA FeedInvariance == Spec => []FeedProof!IInv
<1>1. FeedProof!Init /\ [][FeedProof!Next]_(FeedProof!vars) => []FeedProof!IInv
  BY FeedProof!Invariance, FeedAssumption, FeedsAssumption
  DEF StaleAfter, FeedProof!StaleAfter, Model, FeedProof!Model
<1> QED BY <1>1, FeedRefreshes, PTL

(* The weather of a place the unit has left is not shown as fresh for      *)
(* longer than StaleAfter and one fetch (task.py:67-72).                   *)
THEOREM LeftPlacesGrowStale == Spec => []MovedStationIsMarked
<1>1. FeedProof!IInv => FeedProof!MovedStationIsMarked
  BY FeedProof!LeftIsMarked, FeedAssumption, FeedsAssumption
  DEF StaleAfter, FeedProof!StaleAfter, Model, FeedProof!Model
<1>2. FeedProof!MovedStationIsMarked => MovedStationIsMarked
  BY DEF MovedStationIsMarked, Feed!MovedStationIsMarked, FeedProof!MovedStationIsMarked,
         Feed!Stale, FeedProof!Stale, Feed!AgeSeconds, FeedProof!AgeSeconds,
         Feed!ReferencePosition, FeedProof!ReferencePosition, Feed!LongAgo,
         FeedProof!LongAgo, Feed!StaleAfter, FeedProof!StaleAfter
<1> QED BY <1>1, <1>2, FeedInvariance, PTL

(* One lost refresh leaves a prompt report fresh (responses.py:462-465).   *)
THEOREM OneMayBeLost == Spec => []OneLostRefreshStaysFresh
<1>1. FeedProof!IInv => FeedProof!OneLostRefreshStaysFresh
  BY FeedProof!LostIsFresh, FeedAssumption, FeedsAssumption
  DEF StaleAfter, FeedProof!StaleAfter, Model, FeedProof!Model
<1>2. FeedProof!OneLostRefreshStaysFresh => OneLostRefreshStaysFresh
  BY DEF OneLostRefreshStaysFresh, Feed!OneLostRefreshStaysFresh,
         FeedProof!OneLostRefreshStaysFresh, Feed!Slack, FeedProof!Slack,
         Feed!Stale, FeedProof!Stale, Feed!AgeSeconds, FeedProof!AgeSeconds,
         Feed!StaleAfter, FeedProof!StaleAfter
<1> QED BY <1>1, <1>2, FeedInvariance, PTL

(* The holder implements FeedPromise (store.py:3-8, providers.py:283).     *)
THEOREM PromiseIsKept == FeedProof!NoneIsNoObservation => (Spec => KeepsItsPromise)
<1> SUFFICES ASSUME FeedProof!NoneIsNoObservation PROVE Spec => KeepsItsPromise
  OBVIOUS
<1>1. FeedProof!Init /\ [][FeedProof!Next]_(FeedProof!vars) => FeedProof!KeepsItsPromise
  BY FeedProof!RefreshingIsPromised, FeedAssumption, FeedsAssumption
  DEF StaleAfter, FeedProof!StaleAfter, Model, FeedProof!Model
<1> USE DEF Feed!Promise!vars, FeedProof!Promise!vars, Feed!Block, FeedProof!Block,
            Feed!Stale, FeedProof!Stale, Feed!AgeSeconds, FeedProof!AgeSeconds,
            Feed!StaleAfter, FeedProof!StaleAfter
<1>2. FeedProof!Promise!Init => Feed!Promise!Init
  BY DEF FeedProof!Promise!Init, Feed!Promise!Init
<1>3. [FeedProof!Promise!Next]_(FeedProof!Promise!vars)
          => [Feed!Promise!Next]_(Feed!Promise!vars)
  BY DEF FeedProof!Promise!Next, Feed!Promise!Next, FeedProof!Promise!Start,
         Feed!Promise!Start, FeedProof!Promise!Stop, Feed!Promise!Stop,
         FeedProof!Promise!Refresh, Feed!Promise!Refresh, FeedProof!Promise!Expire,
         Feed!Promise!Expire, FeedProof!Promise!Observations, Feed!Promise!Observations,
         FeedProof!Sources, Feed!Sources, FeedProof!Model, Feed!Model
<1>4. FeedProof!KeepsItsPromise => Feed!KeepsItsPromise
  BY <1>2, <1>3, PTL
  DEF FeedProof!KeepsItsPromise, Feed!KeepsItsPromise, FeedProof!Promise!Spec,
      Feed!Promise!Spec
<1> QED BY <1>1, <1>4, FeedRefreshes, PTL DEF KeepsItsPromise

(* Every variable of the three keeps the type the code gives it. *)
THEOREM TypeCorrect == Spec => []TypeOK
<1>1. FeedProof!IInv => Feed!TypeOK
  BY DEF FeedProof!IInv, FeedProof!TypeOK, Feed!TypeOK,
         FeedProof!Observation, Feed!Observation, FeedProof!Sources, Feed!Sources,
         FeedProof!Model, Feed!Model, FeedProof!Old, Feed!Old,
         FeedProof!LongAgo, Feed!LongAgo, FeedProof!StaleAfter, Feed!StaleAfter
<1>2. DashInv /\ TrayInv => Dash!TypeOK /\ Tray!TypeOK
  BY DEF DashInv, TrayInv
<1>3. Feed!TypeOK /\ Dash!TypeOK /\ Tray!TypeOK => TypeOK
  BY DEF TypeOK
<1> QED BY <1>1, <1>2, <1>3, FeedInvariance, DashInvariance, TrayInvariance, PTL
=============================================================================
