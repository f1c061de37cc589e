------------------------------- MODULE Reading -------------------------------
(***************************************************************************)
(* A reading on its way from the unit's JSON to the screens: which values  *)
(* are there at each stage.  The numbers themselves are left out; what     *)
(* decides whether a value exists is kept as facts about the payload, and  *)
(* each stage is a table of what every value of it needs.                  *)
(***************************************************************************)
EXTENDS Naturals, FiniteSets

(* The entries of a table whose needs are met. *)
Met(needs, facts) == {x \in DOMAIN needs : needs[x] \subseteq facts}

-----------------------------------------------------------------------------
(* wire_format.py: a key whose value is not a finite number is dropped.    *)

PayloadKey ==
    [temperatureC |-> "temperature_c", humidity |-> "humidity_pct",
     pressure |-> "pressure_pa", lux |-> "lux", latitude |-> "latitude",
     longitude |-> "longitude", altitude |-> "altitude_m", satellites |-> "satellites",
     windSpeed |-> "wind_speed_ms", windGust |-> "wind_gust_ms",
     windDirection |-> "wind_direction_deg", rssi |-> "rssi_dbm"]

Wire     == DOMAIN PayloadKey
WindWire == {"windSpeed", "windGust", "windDirection"}

(* A slip: a key that is missing is read as zero. *)
ZeroWhenMissing(wire) == {PayloadKey[w] : w \in Wire}

_outdoor_to_payload(wire) == {PayloadKey[w] : w \in wire}

(* parse_wind_station: an anemometer and its telemetry, nothing else. *)
parse_wind_station(wire) == {PayloadKey[w] : w \in wire \cap (WindWire \cup {"rssi"})}

-----------------------------------------------------------------------------
(* wind.py: in is [wire, station, cfg, source, stale, ...], where source   *)
(* says whose wind is the field's, and stale whether its row is too old.   *)

(* A slip: the threshold is not applied. *)
WindAtAnyAge(in) ==
    LET own == in.source = "outdoor"
        row == IF own THEN _outdoor_to_payload(in.wire) ELSE parse_wind_station(in.station)
    IN IF own /\ ~in.cfg.has_wind THEN {}
       ELSE {w \in {"speed", "direction"} :
               (IF w = "speed" THEN "wind_speed_ms" ELSE "wind_direction_deg") \in row}

resolve_wind(in) ==
    LET own == in.source = "outdoor"
        row == IF own THEN _outdoor_to_payload(in.wire) ELSE parse_wind_station(in.station)
    IN IF in.stale \/ (own /\ ~in.cfg.has_wind) THEN {}
       ELSE {w \in {"speed", "direction"} :
               (IF w = "speed" THEN "wind_speed_ms" ELSE "wind_direction_deg") \in row}

-----------------------------------------------------------------------------
(* readings.py: "damp" is a relative humidity of 0 .. 100, "moist" one of  *)
(* more than 0; "height" an altitude, the unit's own or the configured.    *)

Facts(payload, in) ==
    payload
    \cup (IF "humidity_pct" \in payload /\ in.humidity # "over" THEN {"damp"} ELSE {})
    \cup (IF "humidity_pct" \in payload /\ in.humidity = "moist" THEN {"moist"} ELSE {})
    \cup (IF "altitude_m" \in payload \/ in.cfg.fallback_altitude THEN {"height"} ELSE {})

TH == {"temperature_c", "humidity_pct"}

(* derive_reading *)
DeriveNeeds ==
    [temperature |-> {"temperature_c"},
     dewpoint |-> TH \cup {"moist"}, absolute_humidity |-> TH \cup {"moist"},
     feels_like |-> TH,
     pressure_station |-> {"pressure_pa"},
     pressure_sealevel |-> {"pressure_pa", "height", "temperature_c"},
     altimeter_setting |-> {"pressure_pa", "height"}]

(* _extended_thermo *)
ThermoNeeds ==
    [saturation_vapor_pressure |-> TH,
     vapor_pressure |-> TH \cup {"damp"}, vapor_pressure_deficit |-> TH \cup {"damp"},
     wet_bulb |-> TH \cup {"moist"}, frost_point |-> TH \cup {"moist"},
     humidex |-> TH \cup {"moist"}, cloud_base |-> TH \cup {"moist"},
     mixing_ratio |-> TH \cup {"damp", "pressure_pa"},
     specific_humidity |-> TH \cup {"damp", "pressure_pa"},
     air_density |-> TH \cup {"damp", "pressure_pa"},
     pressure_altitude |-> TH \cup {"pressure_pa"},
     density_altitude |-> TH \cup {"damp", "pressure_pa"}]

(* _build_sky_block; its irradiance is the solar load of the indices. *)
SkyNeeds == [solar |-> {"lux", "latitude", "longitude"}]

(* fused_indices *)
FusedNeeds ==
    [beaufort |-> {"speed"},
     wind_chill |-> TH \cup {"speed"}, apparent_temperature |-> TH \cup {"speed"},
     thsw_index |-> TH \cup {"speed", "solar"},
     et0 |-> TH \cup {"speed", "solar", "damp", "pressure_pa"}]

(* map_raw *)
RawOf(payload, cfg) ==
    (payload \cap {"temperature_c", "humidity_pct", "pressure_pa", "lux"})
    \cup IF cfg.has_wind THEN payload \cap {"wind_speed_ms", "wind_gust_ms"} ELSE {}

(* _build_location_block *)
LocationNeeds ==
    [altitude |-> {"altitude_m"}, satellites |-> {"satellites"},
     lat |-> {"latitude"}, lon |-> {"longitude"},
     dms |-> {"latitude", "longitude"}, maidenhead |-> {"latitude", "longitude"}]

(* _build_reading *)
_build_reading(in) ==
    LET payload == _outdoor_to_payload(in.wire)
        facts   == Facts(payload, in)
        wind    == resolve_wind(in)
        sky     == IF in.cfg.has_light THEN Met(SkyNeeds, facts) ELSE {}
    IN [raw      |-> RawOf(payload, in.cfg),
        derived  |-> Met(DeriveNeeds, facts) \cup Met(ThermoNeeds, facts) \cup sky
                     \cup Met(FusedNeeds, facts \cup wind \cup sky)
                     \cup (wind \cap {"direction"}),
        location |-> IF in.cfg.has_gps THEN Met(LocationNeeds, facts) ELSE {},
        device   |-> payload \cap {"rssi_dbm"}]

(* The wind of the runway solver is the resolver's, with both its parts. *)
_local_wind(in) ==
    IF {"speed", "direction"} \subseteq resolve_wind(in) THEN resolve_wind(in) ELSE {}

Solution(in) ==
    IF _local_wind(in) # {} /\ "headings" \in in.airport THEN {"solution"} ELSE {}

-----------------------------------------------------------------------------
(* app.js: what renderDensityAltitude, renderAltimeter and renderTemp show *)

InstrumentNeeds ==
    [da |-> {"density_altitude"}, pa |-> {"pressure_altitude"},
     isaDev |-> {"temperature", "elevation"}, daAbove |-> {"density_altitude", "elevation"},
     qnh |-> {"altimeter_setting"}, stp |-> {"pressure_station"},
     oat |-> {"temperature"}, dew |-> {"dewpoint"}, spread |-> {"temperature", "dewpoint"},
     rh |-> {"humidity_pct"}]

(* renderHeader *)
HeaderNeeds ==
    [station |-> {"ident"}, elevation |-> {"ident", "elevation"},
     ledAnemometer |-> {"wind_speed_ms"}, ledGps |-> {"lat", "lon"}]

(* renderWindRunway: speed and gust are those of the raw block. *)
WindNeeds ==
    [windDir |-> {"direction"}, windSpeed |-> {"wind_speed_ms"}, windGust |-> {"wind_gust_ms"},
     favored |-> {"solution"}, headwind |-> {"solution"}, crosswind |-> {"solution"},
     magnote |-> {"direction", "variation"}, arrow |-> {"direction", "variation"}]

RawWind == {"windSpeed", "windGust", "ledAnemometer"}

Panels(in) ==
    LET r == _build_reading(in)
        facts == r.raw \cup r.derived \cup r.location \cup in.airport \cup Solution(in)
    IN Met(InstrumentNeeds, facts) \cup Met(HeaderNeeds, facts) \cup Met(WindNeeds, facts)

(* weather_tray.py: the lines format_popup takes from the reading *)
PopupNeeds ==
    [temp |-> {"temperature"}, dewPoint |-> {"dewpoint"}, humidity |-> {"humidity_pct"},
     pressure |-> {"pressure_sealevel"}, altitude |-> {"altitude"}, light |-> {"lux"},
     wifi |-> {"rssi_dbm"}, gps |-> {"lat", "lon"}, dms |-> {"dms"}, grid |-> {"maidenhead"},
     satellites |-> {"satellites"}]

Popup(in) ==
    LET r == _build_reading(in)
        facts == r.raw \cup r.derived \cup r.location \cup r.device
    IN IF "temperature" \in r.derived THEN Met(PopupNeeds, facts) ELSE {"OFFLINE"}

-----------------------------------------------------------------------------
(* The answer to an input: the keys of the two units' JSON, the sensors of *)
(* the configuration, how humid it is, whose wind is the field's and       *)
(* whether it is too old, and what is known of the airport.                *)

Inputs ==
    [wire : SUBSET Wire, station : SUBSET Wire,
     cfg : [has_wind : BOOLEAN, has_gps : BOOLEAN, has_light : BOOLEAN,
            fallback_altitude : BOOLEAN],
     humidity : {"zero", "moist", "over"}, source : {"outdoor", "station"},
     stale : BOOLEAN, airport : SUBSET {"ident", "elevation", "variation", "headings"}]

Silenced(in) ==
    IF in.source = "outdoor" THEN [in EXCEPT !.wire = @ \ WindWire]
    ELSE [in EXCEPT !.station = {}]

(* A wind that has gone stale leaves the screens as if there were no wind  *)
(* at all, but for the unit's own raw readings: no direction, no arrow, no *)
(* favoured runway, no index that wind goes into; and takes nothing else   *)
(* with it (wind.py:15-18).                                                *)
StaleWindDrivesNothing(in) ==
    in.stale =>
        /\ Panels(in) \ RawWind = Panels(Silenced(in)) \ RawWind
        /\ Popup(in) = Popup(Silenced(in))
        /\ _build_reading(in).derived = _build_reading(Silenced(in)).derived

(* Nothing on the screens comes from nowhere: what the unit's JSON lacks,  *)
(* for whatever reason, is missing from every panel and line that goes     *)
(* back to it, through all the stages between.                             *)
Origins ==
    [da |-> {"temperatureC", "humidity", "pressure"}, pa |-> {"pressure"},
     daAbove |-> {"temperatureC", "humidity", "pressure"},
     isaDev |-> {"temperatureC"}, oat |-> {"temperatureC"}, temp |-> {"temperatureC"},
     dew |-> {"temperatureC", "humidity"}, dewPoint |-> {"temperatureC", "humidity"},
     spread |-> {"temperatureC", "humidity"}, rh |-> {"humidity"},
     qnh |-> {"pressure"}, stp |-> {"pressure"},
     pressure |-> {"pressure", "temperatureC"},
     windSpeed |-> {"windSpeed"}, windGust |-> {"windGust"},
     gps |-> {"latitude", "longitude"}, grid |-> {"latitude", "longitude"}]

NothingIsInvented(in) ==
    \A x \in (Panels(in) \cup Popup(in)) \cap DOMAIN Origins : Origins[x] \subseteq in.wire
=============================================================================
