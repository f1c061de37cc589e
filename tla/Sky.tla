--------------------------------- MODULE Sky ---------------------------------
(***************************************************************************)
(* The sun and the moon as the answers tell them: the events of the day,   *)
(* the countdowns to the next ones, the season, and the phases of the moon *)
(* to come.  Where a body is at an instant is taken as given: the sun has  *)
(* its noon at a fixed hour and is up for half hours on each side of it,   *)
(* the moon's phase runs through a cycle of Cycle hours.                   *)
(***************************************************************************)
EXTENDS Integers, FiniteSets, FiniteSetsExt

CONSTANT None

-----------------------------------------------------------------------------
(* astronomy.py: the sun.  A place is [noon, half, polar]; half = None      *)
(* where the sun neither rises nor sets, and polar says which.             *)

(* _julian_cycle rounds to the day whose noon is nearest. *)
NearestNoon(now, place) == 24 * ((now - place.noon + 12) \div 24) + place.noon

sun_times(now, place) ==
    LET noon == NearestNoon(now, place)
    IN IF place.half = None THEN [sunrise |-> None, sunset |-> None, noon |-> noon]
       ELSE [sunrise |-> noon - place.half, sunset |-> noon + place.half, noon |-> noon]

IsDaytime(now, place) ==
    LET times == sun_times(now, place)
    IN IF place.half = None THEN place.polar = "day"
       ELSE times.sunrise < now /\ now < times.sunset

(* season_info: the days of the year of _solar_events, the spring and      *)
(* autumn of each hemisphere.                                              *)
Events == << 79, 172, 265, 355 >>
Year   == 365

SeasonFrom == << <<"Spring", "Autumn">>, <<"Summer", "Winter">>,
                 <<"Autumn", "Spring">>, <<"Winter", "Summer">> >>

EventDays(year) ==
    {[day |-> Year * y + Events[i], event |-> i] : y \in year - 1 .. year + 1, i \in 1 .. 4}

season_info(day, north) ==
    LET events == EventDays(day \div Year)
        next == CHOOSE e \in events : /\ e.day > day
                                      /\ \A f \in events : f.day > day => e.day <= f.day
        prev == CHOOSE e \in events : /\ e.day <= day
                                      /\ \A f \in events : f.day <= day => f.day <= e.day
    IN [season |-> SeasonFrom[prev.event][IF north THEN 1 ELSE 2],
        next |-> next.event, days |-> next.day - day]

-----------------------------------------------------------------------------
(* responses.py: _build_sun_block *)

(* A slip: a sunrise that is past is counted to all the same. *)
TodaysSunrise(times, now) == times.sunrise

NextSunrise(times, now) ==
    IF times.sunrise > now THEN times.sunrise ELSE times.sunrise + 24

_build_sun_block(now, place) ==
    LET times  == sun_times(now, place)
        before == times.sunset # None /\ times.sunset - now >= 0
    IN [sunrise |-> times.sunrise, sunset |-> times.sunset,
        is_daytime |-> IsDaytime(now, place),
        day_length |-> IF times.sunset = None THEN None ELSE times.sunset - times.sunrise,
        to_sunset  |-> IF before THEN times.sunset - now ELSE None,
        to_sunrise |-> IF ~before /\ times.sunrise # None
                       THEN NextSunrise(times, now) - now ELSE None]

(* weather_tray.py: _sun_timing_lines *)
_sun_timing_lines(sun, now) ==
    (IF sun.day_length = None THEN {} ELSE {[line |-> "day length", hours |-> sun.day_length]})
    \cup IF sun.to_sunset # None THEN {[line |-> "to sunset", hours |-> sun.to_sunset]}
         ELSE (IF sun.sunset = None THEN {}
               ELSE {[line |-> "since sunset",
                      hours |-> IF now >= sun.sunset THEN now - sun.sunset ELSE sun.sunset - now]})
              \cup (IF sun.to_sunrise = None THEN {}
                    ELSE {[line |-> "to sunrise", hours |-> sun.to_sunrise]})

(* app.js: where renderDayNight puts the sun on its arc of 280 pixels. *)
Clamp(n, low, high) == Max({low, Min({n, high})})

ArcPosition(sun, now) ==
    IF sun.sunrise = None THEN 140
    ELSE IF sun.sunset <= sun.sunrise THEN 0
    ELSE Clamp((280 * (now - sun.sunrise)) \div (sun.sunset - sun.sunrise), 0, 280)

-----------------------------------------------------------------------------
(* light.py: altitudes in degrees, illuminance in percent of a clear sky   *)

MinReliableAltitude == 5

cloud_cover_pct(lux, altitude) ==
    IF lux = None \/ altitude < MinReliableAltitude THEN None ELSE Clamp(100 - lux, 0, 100)

sky_condition(altitude, cloud) ==
    CASE altitude < -6 -> "night"
      [] altitude \in -6 .. -1 -> "twilight"
      [] altitude >= 0 /\ (altitude < MinReliableAltitude \/ cloud = None) -> "low sun"
      [] OTHER -> IF cloud < 10 THEN "clear" ELSE IF cloud < 40 THEN "mostly clear"
                  ELSE IF cloud < 70 THEN "partly cloudy"
                  ELSE IF cloud < 90 THEN "mostly cloudy" ELSE "overcast"

-----------------------------------------------------------------------------
(* astronomy.py: the moon *)

Cycle == 704        \* hours, 29.3 days
Scan  == 420        \* the steps of 2 hours in 35 days, the bound of the scan

(* moon_phase_name and moon_phase_icon: an eighth around each phase. *)
PhaseNames == << "New Moon", "Waxing Crescent", "First Quarter", "Waxing Gibbous",
                 "Full Moon", "Waning Gibbous", "Last Quarter", "Waning Crescent" >>

moon_phase_name(hour) ==
    LET sixteenth == (16 * (hour % Cycle)) \div Cycle
    IN PhaseNames[(((sixteenth + 1) \div 2) % 8) + 1]

_phase_distance(hour, target) ==
    LET raw == (hour - target) % Cycle
    IN Min({raw, Cycle - raw})

(* The first instant of lo .. hi that is nearest to the target. *)
_refine_min(lo, hi, target) ==
    LET nearest == Min({_phase_distance(t, target) : t \in lo .. hi})
    IN Min({t \in lo .. hi : _phase_distance(t, target) = nearest})

(* The coarse steps after which the distance has grown again. *)
Turns(hour, target) ==
    {i \in 1 .. Scan - 1 :
        LET dist == _phase_distance(hour + 2 * i, target)
            prev == _phase_distance(hour + 2 * (i - 1), target)
        IN dist > prev /\ 20 * prev < Cycle}

next_moon_phase(hour, target) ==
    IF Turns(hour, target) = {} THEN None
    ELSE LET i == Min(Turns(hour, target))
         IN _refine_min(hour + 2 * (i - 2), hour + 2 * i, target)

upcoming_moon_phases(hour) ==
    [new |-> next_moon_phase(hour, 0), full |-> next_moon_phase(hour, Cycle \div 2)]

-----------------------------------------------------------------------------
(* The answer to an input: an instant, by the hour, and a place; a day and *)
(* a hemisphere; the light; or an instant by itself.                       *)

Places == [noon : 0 .. 23, half : 1 .. 11 \cup {None}, polar : {"day", "night"}]

Inputs ==
    [about : {"sun"}, now : Nat, place : Places]
    \cup [about : {"season"}, day : Nat, north : BOOLEAN]
    \cup [about : {"light"}, lux : Nat \cup {None}, altitude : Int]
    \cup [about : {"moon"}, hour : Nat]

(* What one counts down to is the next event of its kind: it lies ahead,   *)
(* at the right hour, and none is skipped.  There is one countdown, except *)
(* where the sun does not rise or set; the widget never shows how long ago *)
(* a sunset was that is still to come, and the dashboard's sun is on its   *)
(* arc, off the ends, by day.                                              *)
Hits(instant, hour) == (instant - hour) % 24 = 0

SunPointsAhead(now, place) ==
    LET sun == _build_sun_block(now, place)
        Next(count, hour) == /\ count >= 0 /\ Hits(now + count, hour)
                             /\ \A k \in 1 .. count - 1 : ~Hits(now + k, hour)
    IN IF place.half = None
       THEN {sun.to_sunset, sun.to_sunrise} = {None} /\ ArcPosition(sun, now) = 140
       ELSE /\ (sun.to_sunset = None) # (sun.to_sunrise = None)
            /\ sun.to_sunset # None => Next(sun.to_sunset, place.noon + place.half)
            /\ sun.to_sunrise # None => Next(sun.to_sunrise, place.noon - place.half)
            /\ sun.is_daytime => /\ sun.to_sunset # None
                                 /\ ArcPosition(sun, now) \in 1 .. 279
            /\ \A l \in _sun_timing_lines(sun, now) :
                  l.line = "since sunset" => now >= sun.sunset

(* The season lasts until its countdown has run out, and then changes. *)
SeasonEndsOnTime(day, north) ==
    LET today == season_info(day, north)
        tomorrow == season_info(day + 1, north)
    IN /\ today.days > 0
       /\ IF today.days = 1 THEN tomorrow.season # today.season
          ELSE tomorrow.season = today.season /\ tomorrow.days = today.days - 1

(* Under the same sun more light is never a cloudier sky. *)
BrighterIsClearer(lux, altitude) ==
    LET cloud == cloud_cover_pct(lux, altitude)
    IN cloud # None => \A brighter \in lux .. 120 : cloud_cover_pct(brighter, altitude) <= cloud

(* The moon that is announced as new is new, and as full is full. *)
PhasesAreNamed(hour) ==
    LET coming == upcoming_moon_phases(hour)
    IN /\ coming.new # None /\ moon_phase_name(coming.new) = "New Moon"
       /\ coming.full # None /\ moon_phase_name(coming.full) = "Full Moon"

(* What the sky blocks say of one instant agrees with what they say of the *)
(* ones after it (responses.py:271-345, astronomy.py:406-482).             *)
SkyKeepsTime(in) ==
    CASE in.about = "sun"    -> SunPointsAhead(in.now, in.place)
      [] in.about = "season" -> SeasonEndsOnTime(in.day, in.north)
      [] in.about = "light"  -> BrighterIsClearer(in.lux, in.altitude)
      [] in.about = "moon"   -> PhasesAreNamed(in.hour)

(* "Next time after `d` the moon reaches `target` phase"                   *)
(* (astronomy.py:441): the coming new and full moon are not past already.  *)
NextPhaseIsAhead(in) ==
    in.about = "moon" =>
        LET coming == upcoming_moon_phases(in.hour)
        IN coming.new >= in.hour /\ coming.full >= in.hour
=============================================================================
