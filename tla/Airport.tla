------------------------------- MODULE Airport -------------------------------
(***************************************************************************)
(* The airport and its runways: which field is resolved, the headings of   *)
(* its runway ends, the favoured end, and the compass the dashboard draws. *)
(*                                                                         *)
(* Angles are counted in steps of 30 degrees, 0 .. 11, so that the painted *)
(* number of a runway is a magnetic heading; wind components are counted   *)
(* in thousandths of the wind speed.                                       *)
(***************************************************************************)
EXTENDS Integers, Sequences, FiniteSets

CONSTANT None

Angles == 0 .. 11

Turned(a, b) == (a + b) % 12      \* a + b, brought back into 0 .. 11

Known(x) == x # None

-----------------------------------------------------------------------------
(* airport.py: headings *)

(* An end with a surveyed true heading, a painted number, both or neither; *)
(* a heliport's "H1" has no number.                                        *)
Ends == [heading : Angles \cup {None}, number : Angles \cup {None}]

NoHeading == [true |-> None, mag |-> None]

(* A slip: the painted number is taken for a true heading. *)
NumberIsTrue(end, decl) ==
    LET true == IF Known(end.heading) THEN end.heading
                ELSE IF Known(end.number) /\ Known(decl) THEN end.number ELSE None
    IN [true |-> true,
        mag |-> IF Known(true) /\ Known(decl) THEN Turned(true, -decl) ELSE None]

_resolve_end(end, decl) ==
    LET true == IF Known(end.heading) THEN end.heading
                ELSE IF Known(end.number) /\ Known(decl)
                THEN Turned(end.number, decl) ELSE None
    IN [true |-> true,
        mag |-> IF Known(true) /\ Known(decl) THEN Turned(true, -decl) ELSE None]

_runway_from_dataset(row, decl) ==
    [le |-> _resolve_end(row.le, decl), he |-> _resolve_end(row.he, decl)]

(* A configured runway has at most the magnetic heading of its low end. *)
_runway_from_config(le_mag, decl) ==
    LET end(mag) == [true |-> IF Known(mag) /\ Known(decl) THEN Turned(mag, decl) ELSE None,
                     mag |-> mag]
    IN [le |-> end(le_mag), he |-> end(IF Known(le_mag) THEN Turned(le_mag, 6) ELSE None)]

-----------------------------------------------------------------------------
(* airport.py: the field.  place is whether the position of the station is *)
(* known; record is what the dataset holds of the field named or nearest.  *)

_has_manual(config) == config.field_elevation \/ config.runways # << >>

_field_elevation_ft(published, config, alt) ==
    IF published THEN "published"
    ELSE IF config.field_elevation THEN "config"
    ELSE IF alt THEN "gps" ELSE None

Mapped(f(_), seq) == [i \in DOMAIN seq |-> f(seq[i])]

_from_dataset(record, source, alt, config) ==
    LET runway(row) == _runway_from_dataset(row, record.decl)
    IN [ident |-> record.ident, source |-> source,
        elevation |-> _field_elevation_ft(record.published, config, alt),
        variation |-> record.decl,
        runways |-> Mapped(runway, record.runways)]

_from_manual(config, place, alt, decl) ==
    LET here == IF place THEN decl ELSE None
        runway(le_mag) == _runway_from_config(le_mag, here)
    IN [ident |-> IF config.ident # None THEN config.ident ELSE "MANUAL",
        source |-> "manual",
        elevation |-> _field_elevation_ft(FALSE, config, alt),
        variation |-> here,
        runways |-> Mapped(runway, config.runways)]

(* A slip: a name the dataset does not know falls through to the position. *)
FallThrough(config, named, nearest, place, alt, decl) ==
    IF config.ident # None /\ named # None
    THEN _from_dataset(named, "config_override", alt, config)
    ELSE IF place THEN _from_dataset(nearest, "gps_nearest", alt, config)
    ELSE IF _has_manual(config) THEN _from_manual(config, place, alt, decl)
    ELSE None

(* The configured name, else the nearest field, else the manual entry: and *)
(* a name that is not in the dataset (named = None) does not fall through. *)
resolve_airport(config, named, nearest, place, alt, decl) ==
    IF config.ident # None /\ named # None
    THEN _from_dataset(named, "config_override", alt, config)
    ELSE IF config.ident = None /\ place
    THEN _from_dataset(nearest, "gps_nearest", alt, config)
    ELSE IF _has_manual(config) THEN _from_manual(config, place, alt, decl)
    ELSE None

-----------------------------------------------------------------------------
(* runway.py *)

CALM_KT == 1

_norm_180(angle) ==
    LET a == ((angle + 6) % 12) - 6 IN IF a = -6 THEN 6 ELSE a

Cosine == [a \in 0 .. 6 |-> << 1000, 866, 500, 0, -500, -866, -1000 >>[a + 1]]

Magnitude(a) == IF a < 0 THEN -a ELSE a

Alpha(wind, heading) == _norm_180(wind - heading)

HeadwindFor(wind, heading) == wind.kt * Cosine[Magnitude(Alpha(wind.from, heading))]

CrosswindFor(wind, heading) ==
    LET a == Magnitude(Alpha(wind.from, heading))
    IN wind.kt * Cosine[Magnitude(3 - a)]

_solve_end(runway, end, heading, wind, limit) ==
    LET alpha == Alpha(wind.from, heading)
        crosswind == CrosswindFor(wind, heading)
    IN [runway |-> runway, end |-> end,
        headwind |-> HeadwindFor(wind, heading),
        crosswind |-> crosswind,
        side |-> IF crosswind = 0 THEN None ELSE IF alpha > 0 THEN "R" ELSE "L",
        tailwind |-> HeadwindFor(wind, heading) < 0,
        exceeds |-> Known(limit) /\ crosswind > limit * 1000]

(* The ends with a true heading, in the order of the runways, le first. *)
EndsOf(runways) ==
    {e \in (1 .. Len(runways)) \X {"le", "he"} : Known(runways[e[1]][e[2]].true)}

Before(e, f) == e[1] < f[1] \/ (e[1] = f[1] /\ e[2] = "le" /\ f[2] = "he")

Solved(runways, e, wind, limit) == _solve_end(e[1], e[2], runways[e[1]][e[2]].true, wind, limit)

(* A slip: the end with the least headwind. *)
Least(runways, wind) ==
    CHOOSE e \in EndsOf(runways) : \A f \in EndsOf(runways) :
        HeadwindFor(wind, runways[e[1]][e[2]].true)
            <= HeadwindFor(wind, runways[f[1]][f[2]].true)

(* max by headwind, the first of several *)
Favored(runways, wind) ==
    CHOOSE e \in EndsOf(runways) : \A f \in EndsOf(runways) \ {e} :
        LET he == HeadwindFor(wind, runways[e[1]][e[2]].true)
            hf == HeadwindFor(wind, runways[f[1]][f[2]].true)
        IN he > hf \/ (he = hf /\ Before(e, f))

runway_solution(runways, wind, limit) ==
    IF wind = None \/ EndsOf(runways) = {} THEN None
    ELSE [favored |-> IF wind.kt >= CALM_KT THEN Favored(runways, wind) ELSE None,
          ends |-> [e \in EndsOf(runways) |-> Solved(runways, e, wind, limit)]]

-----------------------------------------------------------------------------
(* app.js: compassSvg draws in the magnetic frame *)

RunwayBearing(runway, variation) ==
    IF Known(runway.le.mag) THEN runway.le.mag
    ELSE IF Known(runway.le.true) /\ Known(variation) THEN Turned(runway.le.true, -variation)
    ELSE None

(* A slip: the arrow is drawn where the wind is from in the true frame. *)
TrueArrow(wind, variation) ==
    IF wind # None /\ Known(variation) THEN wind.from ELSE None

WindArrow(wind, variation) ==
    IF wind # None /\ Known(variation) THEN Turned(wind.from, -variation) ELSE None

-----------------------------------------------------------------------------
(* The answer to an input: the configuration, what the dataset holds of    *)
(* the name in it (found under that name) and of the field nearest, what   *)
(* is known of the station, and the wind.                                  *)

Rows    == [le : Ends, he : Ends]
Records == [ident : STRING, published : BOOLEAN, decl : Angles \cup {None}, runways : Seq(Rows)]

Inputs ==
    {in \in [config : [ident : STRING \cup {None}, field_elevation : BOOLEAN,
                      runways : Seq(Angles \cup {None})],
             named : Records \cup {None}, nearest : Records,
             place : BOOLEAN, alt : BOOLEAN, decl : Angles \cup {None},
             wind : [from : Angles, kt : Nat] \cup {None}, limit : Nat \cup {None}] :
        in.config.ident # None /\ in.named # None => in.named.ident = in.config.ident}

(* responses.py: build_airport *)
build_airport(in) ==
    LET info == resolve_airport(in.config, in.named, in.nearest, in.place, in.alt, in.decl)
    IN IF info = None THEN None
       ELSE [info |-> info, solution |-> runway_solution(info.runways, in.wind, in.limit)]

(* The favoured end has no less headwind than any, and faces the wind when *)
(* there is a runway to be flown from both sides (runway.py:105-107).      *)
FavoredFacesTheWind(runways, wind, solution) ==
    solution # None /\ solution.favored # None =>
        /\ \A e \in EndsOf(runways) :
               solution.ends[e].headwind <= solution.ends[solution.favored].headwind
        /\ (\E i \in DOMAIN runways :
               /\ Known(runways[i].le.true) /\ Known(runways[i].he.true)
               /\ runways[i].he.true = Turned(runways[i].le.true, 6))
           => ~solution.ends[solution.favored].tailwind

(* The arrow on the compass is as far from a runway, and on the same side, *)
(* as the components say, although the one is drawn in the magnetic frame  *)
(* and the others are computed in the true one (app.js:373-396).           *)
CompassAgrees(airport, wind, solution) ==
    \A i \in DOMAIN airport.runways :
        LET bearing == RunwayBearing(airport.runways[i], airport.variation)
            arrow == WindArrow(wind, airport.variation)
        IN solution # None /\ Known(bearing) /\ Known(arrow)
               /\ Known(airport.runways[i].le.true) =>
           LET drawn == (arrow - bearing) % 12
               end == solution.ends[<<i, "le">>]
           IN /\ end.headwind = wind.kt * Cosine[IF drawn > 6 THEN 12 - drawn ELSE drawn]
              /\ wind.kt > 0 =>
                 /\ (end.side = "R") = (drawn \in 1 .. 5)
                 /\ (end.side = "L") = (drawn \in 7 .. 11)

(* The field is the one that was named, and only without a name the one    *)
(* nearest (airport.py:350-369).                                           *)
FieldIsTheOneMeant(in, airport) ==
    /\ in.config.ident # None => airport = None \/ airport.ident = in.config.ident
    /\ airport # None /\ airport.source = "gps_nearest" => in.place

(* An end that is known by its painted number alone has that number for its *)
(* magnetic heading, after all the conversions (airport.py:195-208).        *)
NumberIsMagnetic(record, airport) ==
    \A i \in DOMAIN record.runways : \A side \in {"le", "he"} :
        LET end == record.runways[i][side]
        IN end.heading = None /\ Known(end.number) /\ Known(record.decl) =>
               airport.runways[i][side].mag = end.number

AirportAnswerIsRight(in) ==
    LET answer == build_airport(in)
        airport == IF answer = None THEN None ELSE answer.info
        solution == answer.solution
    IN /\ FieldIsTheOneMeant(in, airport)
       /\ airport # None =>
            /\ airport.source = "config_override" => NumberIsMagnetic(in.named, airport)
            /\ airport.source = "gps_nearest" => NumberIsMagnetic(in.nearest, airport)
            /\ FavoredFacesTheWind(airport.runways, in.wind, solution)
            /\ CompassAgrees(airport, in.wind, solution)
=============================================================================
