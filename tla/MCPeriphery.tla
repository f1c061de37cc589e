---------------------------- MODULE MCPeriphery ------------------------------
(* Three [external] sections - the METAR provider at the logged position,  *)
(* a model provider with a fallback position, the feed disabled - and what *)
(* the handlers are asked, chosen at the thresholds of the code.           *)
EXTENDS Periphery, Integers, FiniteSets

Place == CHOOSE p \in Positions : TRUE

MCFeeds ==
    { [enabled |-> TRUE,  provider |-> "metar", station_id |-> None,
       override |-> None,  fallback |-> None],
      [enabled |-> TRUE,  provider |-> "model", station_id |-> None,
       override |-> None,  fallback |-> Place],
      [enabled |-> FALSE, provider |-> "model", station_id |-> None,
       override |-> Place, fallback |-> None] }

(* A unit's JSON with all keys, or without one or two of them, or bare. *)
Wires ==
    LET all == ReadingOf!Wire
    IN {all \ {a, b} : a, b \in all} \cup {all, {}, {"temperatureC", "windSpeed", "windDirection"}}

Sensor(wind, gps, light, altitude) ==
    [has_wind |-> wind, has_gps |-> gps, has_light |-> light, fallback_altitude |-> altitude]

MCReadings ==
    [wire : Wires, station : {{"windSpeed", "windDirection", "rssi"}, {"windDirection"}},
     cfg : {Sensor(TRUE, TRUE, TRUE, FALSE), Sensor(FALSE, TRUE, TRUE, TRUE),
            Sensor(TRUE, FALSE, FALSE, TRUE)},
     humidity : {"moist", "zero", "over"}, source : {"outdoor", "station"}, stale : BOOLEAN,
     airport : {{}, {"ident", "variation", "headings"},
                {"ident", "elevation", "variation", "headings"}}]

(* A surveyed runway with a crossing one, one known by its numbers, a      *)
(* heliport, and a field without magnetic variation.                       *)
End(heading, number) == [heading |-> heading, number |-> number]

Field(ident, published, decl, runways) ==
    [ident |-> ident, published |-> published, decl |-> decl, runways |-> runways]

Crossing == << [le |-> End(4, 3), he |-> End(10, 9)], [le |-> End(0, 11), he |-> End(6, 5)] >>
Numbered == << [le |-> End(None, 2), he |-> End(None, 8)] >>
Heliport == << [le |-> End(None, None), he |-> End(None, None)] >>

MCFields ==
    [config : [ident : {"named", None}, field_elevation : BOOLEAN, runways : {<< >>, <<3>>, <<3, None>>}],
     named : {None, Field("named", TRUE, 1, Crossing), Field("named", FALSE, 1, Numbered)},
     nearest : {Field("near", TRUE, 11, Numbered), Field("near", FALSE, None, Crossing),
                Field("near", FALSE, 1, Heliport)},
     place : BOOLEAN, alt : {TRUE}, decl : {1, None},
     wind : {None} \cup [from : 0 .. 11, kt : {0, 10}], limit : {None, 5}]

(* A log of up to three rows around a midnight and the edges of buckets,   *)
(* read three hours after it.                                              *)
Midnight == 24 * 3600

Times == {Midnight - 3601, Midnight - 1, Midnight, Midnight + 299, Midnight + 300,
          Midnight + 10799}

LogsOf(n) ==
    {log \in {[i \in 1 .. n |-> [timestamp |-> ts[i], value |-> vs[i],
                                 uptime |-> IF vs[i] = 6 THEN None ELSE i]] :
                 ts \in [1 .. n -> Times], vs \in [1 .. n -> {None, 0, 6, 24}]} :
        HistoryOf!Ordered(log)}

Query(from, hours, bucket, period) ==
    [logging |-> TRUE, sensor |-> "outdoor", from |-> from, to |-> None, hours |-> hours,
     bucket |-> bucket, include |-> {"weather", "device"}, period |-> period]

Queries ==
    { Query(None, 24, "auto", "t24h"), Query(None, 3, "auto", "today"),
      Query(Midnight, 24, "3600", "today"),
      Query(None, 24, "raw", "t7d"),
      [Query(None, 24, "auto", "t24h") EXCEPT !.include = {"device"}],
      [Query(None, 24, "raw", "t24h") EXCEPT !.include = {"weather"}],
      [Query(None, 24, "raw", "today") EXCEPT !.include = {"weather", "unknown"}],
      [Query(None, 24, "auto", "today") EXCEPT !.logging = FALSE],
      [Query(Midnight + 20000, 24, "auto", "t24h") EXCEPT !.sensor = "wind"],
      Query(Midnight + 20000, 24, "auto", "t24h") }

MCLogs ==
    [query : Queries, log : UNION {LogsOf(n) : n \in 0 .. 3}, now : {Midnight + 10800},
     zone : {0, -3600}]

(* METAR reports with up to two layers, and winds for the cross-check. *)
Decks == [cover : {"SCT", "BKN", "OVX", Bad}, base : {400, 900, 3000, 5000, None}]

Metars ==
    [icaoId : {"KAPA", Bad}, time : {0, Bad},
     clouds : {Bad} \cup {{l, m} : l, m \in Decks} \cup {{}},
     visib : {None, 2, 12, 21}, fltCat : {None, "MVFR"}, altim : {None, 30}]

Winds ==
    [time : {0}, speed : {0, 3, 6, 10, 14, Bad}, gust : {None}, direction : {9}, cloud : {50},
     uv : {1}, precip : {0}, visibility : {10}]

Provider(name, check) == [provider |-> name, station |-> "PWS", key |-> TRUE, cross_check |-> check]

MCReports ==
    [cfg : {Provider("metar", TRUE)}, report : Metars, reference : {None}, local : {None, 29}]
    \cup [cfg : {Provider("open-meteo", TRUE), Provider("wunderground", TRUE),
                 [Provider("nws", TRUE) EXCEPT !.station = None], [Provider("wunderground", TRUE) EXCEPT !.key = FALSE]},
          report : Winds \cup {None}, reference : Winds \cup {None}, local : {None}]

(* Two days by the hour, at places with short and long days and none; a    *)
(* year and a day; the light at the thresholds; the moon by the hour.      *)
MCSkies ==
    [about : {"sun"}, now : 24 .. 71,
     place : [noon : {0, 12, 19}, half : {None, 1, 6, 11}, polar : {"day", "night"}]]
    \cup [about : {"season"}, day : 0 .. 366, north : BOOLEAN]
    \cup [about : {"light"}, lux : {0, 5, 50, 95, 110}, altitude : {-7, -1, 0, 4, 5, 60}]
    \cup [about : {"moon"}, hour : 0 .. 703]
=============================================================================
