-------------------------------- MODULE Metar --------------------------------
(***************************************************************************)
(* What an upstream report becomes: the fields of an Observation, by       *)
(* provider, the ceiling and the flight category, the confidence of the    *)
(* wind, and the part of the external block that the dashboard shows.      *)
(*                                                                         *)
(* A report maps each of its keys to a value, or to Bad where what came is *)
(* of the wrong type; None where nothing came.  Heights are in feet,       *)
(* visibility in quarters of a statute mile, wind in m/s.                  *)
(***************************************************************************)
EXTENDS Integers, Sequences, FiniteSets, FiniteSetsExt

CONSTANTS None, Bad

(* _num, _parse_iso: what cannot be converted is missing. *)
_num(v) == IF v = Bad THEN None ELSE v
_parse_iso(v) == IF v = Bad THEN None ELSE v

-----------------------------------------------------------------------------
(* The sky: a layer is [cover, base] *)

Covers == {"FEW", "SCT", "BKN", "OVC", "OVX"}

CeilingCovers == {"BKN", "OVC", "OVX"}

(* Entries without a cover are skipped, a base that is no number is none.  *)
_parse_sky_layers(clouds) ==
    IF clouds \in {None, Bad} THEN None
    ELSE {[cover |-> c.cover, base |-> _num(c.base)] : c \in {x \in clouds : x.cover # Bad}}

(* A slip: the highest of the layers that make a ceiling. *)
HighestBase(layers) ==
    LET bases == IF layers = None THEN {} ELSE
                 {l.base : l \in {x \in layers : x.cover \in CeilingCovers /\ x.base # None}}
    IN IF bases = {} THEN None ELSE Max(bases)

_ceiling_ft(layers) ==
    LET bases == IF layers = None THEN {} ELSE
                 {l.base : l \in {x \in layers : x.cover \in CeilingCovers /\ x.base # None}}
    IN IF bases = {} THEN None ELSE Min(bases)

(* _parse_visibility_sm: a trailing + is dropped, a fraction is summed.    *)
_parse_visibility_sm(visib) == IF visib = Bad THEN None ELSE visib

Categories == <<"VFR", "MVFR", "IFR", "LIFR">>

Rank == [VFR |-> 0, MVFR |-> 1, IFR |-> 2, LIFR |-> 3]

_category_from_ceiling(feet) ==
    IF feet = None THEN "VFR" ELSE IF feet < 500 THEN "LIFR" ELSE IF feet < 1000 THEN "IFR"
    ELSE IF feet <= 3000 THEN "MVFR" ELSE "VFR"

_category_from_visibility(quarters) ==
    IF quarters = None THEN "VFR" ELSE IF quarters < 4 THEN "LIFR"
    ELSE IF quarters < 12 THEN "IFR" ELSE IF quarters <= 20 THEN "MVFR" ELSE "VFR"

(* The worse of the two *)
_compute_flight_category(feet, quarters) ==
    Categories[1 + Max({Rank[_category_from_ceiling(feet)],
                        Rank[_category_from_visibility(quarters)]})]

-----------------------------------------------------------------------------
(* The providers *)

Nothing == [station |-> None, observed |-> None, speed |-> None, gust |-> None,
            direction |-> None, cloud |-> None, uv |-> None, precip |-> None, visibility |-> None,
            layers |-> None, ceiling |-> None, visibility_sm |-> None, category |-> None,
            altimeter |-> None, confidence |-> None]

Wind(report) == [Nothing EXCEPT !.observed = _parse_iso(report.time), !.speed = _num(report.speed),
                                !.gust = _num(report.gust), !.direction = _num(report.direction)]

normalize_open_meteo(report) ==
    [Wind(report) EXCEPT !.cloud = _num(report.cloud), !.uv = _num(report.uv),
                         !.precip = _num(report.precip), !.visibility = _num(report.visibility)]

normalize_nws(report, station) ==
    [Wind(report) EXCEPT !.station = station, !.visibility = _num(report.visibility)]

normalize_wunderground(report, station) ==
    [Wind(report) EXCEPT !.station = station, !.precip = _num(report.precip)]

(* A report whose station is no name is no observation; the category that  *)
(* came with it is preferred to the computed one.                          *)
normalize_metar(report) ==
    LET layers   == _parse_sky_layers(report.clouds)
        quarters == _parse_visibility_sm(report.visib)
    IN IF report.icaoId \in {None, Bad} THEN None
       ELSE [Nothing EXCEPT
               !.station = report.icaoId, !.observed = _parse_iso(report.time),
               !.layers = layers, !.ceiling = _ceiling_ft(layers), !.visibility_sm = quarters,
               !.category = IF report.fltCat \in DOMAIN Rank THEN report.fltCat
                            ELSE _compute_flight_category(_ceiling_ft(layers), quarters),
               !.altimeter = _num(report.altim)]

(* Without a configured station NWS is asked for the nearest one. *)
_fetch_nws(cfg, report) ==
    normalize_nws(report, IF cfg.station # None THEN cfg.station ELSE "nearest")

_fetch_wunderground(cfg, report) ==
    IF cfg.station = None \/ ~cfg.key THEN None ELSE normalize_wunderground(report, cfg.station)

(* More than 5 m/s, and more than half of the stronger wind. *)
assess_confidence(primary, reference) ==
    IF None \in {primary, reference} THEN "normal"
    ELSE LET diff == Max({primary, reference}) - Min({primary, reference})
         IN IF diff > 5 /\ 2 * diff > Max({primary, reference, 1}) THEN "low" ELSE "normal"

(* _apply_cross_check: reference is what the nearest station reported, None *)
(* when asking it failed.                                                   *)
_apply_cross_check(obs, reference) ==
    IF reference = None THEN obs
    ELSE [obs EXCEPT !.confidence = assess_confidence(obs.speed, _num(reference.speed))]

(* fetch_external: what the request brought, None for any failure.  Only a *)
(* provider that is no station network of its own is cross-checked.        *)
fetch_external(cfg, report, reference) ==
    LET obs == IF report = None THEN None
               ELSE CASE cfg.provider = "metar" -> normalize_metar(report)
                      [] cfg.provider = "nws" -> _fetch_nws(cfg, report)
                      [] cfg.provider = "wunderground" -> _fetch_wunderground(cfg, report)
                      [] OTHER -> normalize_open_meteo(report)
    IN IF obs = None \/ ~cfg.cross_check \/ cfg.provider \in {"nws", "metar"} THEN obs
       ELSE _apply_cross_check(obs, reference)

-----------------------------------------------------------------------------
(* responses.py and app.js *)

(* _aviation_fields: the difference to the station's own altimeter. *)
AltimeterDiff(obs, local) ==
    IF None \in {obs.altimeter, local} THEN None ELSE obs.altimeter - local

(* renderExternal: the figures of the panel, and the layers it points out  *)
(* as the ceiling.                                                         *)
Panel(obs, local) ==
    LET layers == IF obs.layers = None THEN {} ELSE obs.layers
    IN [category |-> obs.category,
        ceiling  |-> obs.ceiling,        \* None reads "Ceiling unlimited"
        layers   |-> layers,
        marked   |-> {l \in layers : /\ obs.ceiling # None /\ l.base = obs.ceiling
                                     /\ l.cover \in CeilingCovers},
        check    |-> AltimeterDiff(obs, local)]

-----------------------------------------------------------------------------
(* The answers to [cfg, report, reference, local]: an input, of a METAR    *)
(* provider or of one that reports a wind                                  *)

Values == Nat \cup {None, Bad}
Names  == STRING \cup {None, Bad}
Layers == [cover : Covers \cup {Bad}, base : Values]

MetarReports == [icaoId : Names, time : Values, clouds : {None, Bad} \cup SUBSET Layers,
                 visib : Values, fltCat : Names, altim : Values]

WindReports == [time : Values, speed : Values, gust : Values, direction : Values,
                cloud : Values, uv : Values, precip : Values, visibility : Values]

Configs(providers) == [provider : providers, station : STRING \cup {None},
                       key : BOOLEAN, cross_check : BOOLEAN]

Inputs ==
    [cfg : Configs({"metar"}), report : MetarReports \cup {None},
     reference : WindReports \cup {None}, local : Nat \cup {None}]
    \cup [cfg : Configs({"open-meteo", "nws", "wunderground"}),
          report : WindReports \cup {None}, reference : WindReports \cup {None},
          local : Nat \cup {None}]

(* What is missing or malformed is told from whatever is not. *)
Told(absent) ==
    absent \notin Nat \cup Covers \cup {"low", "normal"} \cup MetarReports \cup WindReports

NoListIsAbsent == None \notin SUBSET Layers /\ Bad \notin SUBSET Layers

(* The same report with a layer more, a layer lowered or less visibility.  *)
Heights == {400, 900, 3000, 5000}

Reported(report) == IF report.clouds \in {None, Bad} THEN {} ELSE report.clouds

Added(report) ==
    {[report EXCEPT !.clouds = Reported(report) \cup {[cover |-> c, base |-> h]}] :
        c \in CeilingCovers, h \in Heights}

Lowered(report, l) ==
    {[report EXCEPT !.clouds = (Reported(report) \ {l}) \cup {[l EXCEPT !.base = h]}] :
        h \in {x \in Heights : l.base \notin {None, Bad} /\ x < l.base}}

Dimmed(report) ==
    {[report EXCEPT !.visib = v] :
        v \in {x \in {2, 8, 20, 24} : report.visib \in {None, Bad} \/ x < report.visib}}

Worse(report) ==
    Added(report) \cup Dimmed(report)
    \cup (UNION {Lowered(report, l) : l \in Reported(report)})

(* A report that is worse than another in one respect is in no better a    *)
(* category, whichever of its layers make the ceiling and whatever is      *)
(* missing from it; the ceiling the panel states is a layer it shows, and  *)
(* none that makes a ceiling is below it.  And a wind that disagrees with  *)
(* the reference is no more to be relied on for disagreeing more           *)
(* (providers.py:341-381, 487-497).                                        *)
WorseReportNeverImproves(in) ==
    LET obs == fetch_external(in.cfg, in.report, in.reference)
    IN /\ obs # None /\ in.cfg.provider = "metar" =>
            LET panel == Panel(obs, in.local)
            IN /\ in.report.fltCat \notin DOMAIN Rank =>
                    \A worse \in Worse(in.report) :
                        Rank[fetch_external(in.cfg, worse, in.reference).category]
                            >= Rank[panel.category]
               /\ panel.ceiling # None => panel.marked # {}
               /\ \A l \in panel.layers, m \in panel.marked :
                     l.cover \in CeilingCovers /\ l.base # None => l.base >= m.base
       /\ obs # None /\ obs.confidence = "low" =>
            \A further \in 0 .. 30 :
                /\ obs.speed <= in.reference.speed => further >= in.reference.speed
                /\ obs.speed > in.reference.speed => further <= in.reference.speed
                => fetch_external(in.cfg, in.report, [in.reference EXCEPT !.speed = further]).confidence = "low"
=============================================================================
