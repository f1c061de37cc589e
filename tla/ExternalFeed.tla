---------------------------- MODULE ExternalFeed -----------------------------
(***************************************************************************)
(* The background refresh of the internet-sourced conditions: the loop of  *)
(* external/task.py, the holder it fills, the station cache of the METAR   *)
(* provider, and the block that the routes build from the holder.          *)
(*                                                                         *)
(* Time is kept as ages, capped where no threshold tells them apart.       *)
(***************************************************************************)
EXTENDS FeedConstants, FiniteSets

Old      == StaleAfter + 1              \* caps the age of the observation held
LongAgo  == StaleAfter + MaxFetch + 1   \* caps the time since the station moved

VARIABLES up,         \* is the server running?
          feed,       \* the configuration in force
          logged,     \* the position in the newest outdoor row, None without a fix
          phase,      \* where the loop is
          timer,      \* how long its fetch or sleep has lasted
          asked,      \* the position of the outstanding fetch
          cache,      \* _STATION_CACHE
          held,       \* ExternalStore: None or the observation and its ages
          upstream,   \* does every request to the internet succeed, and promptly?
          moved,      \* time since the reference position changed
          misses      \* refreshes without data since the last that had some

loopVars == <<phase, timer, asked, cache, held, misses>>
vars == <<up, feed, logged, upstream, moved, loopVars>>

Sources == Stations \cup {Model}
Capped(n, cap) == IF n > cap THEN cap ELSE n

Observation == [position : Positions, source : Sources, lag : Lags, since : 0 .. Old]

TypeOK ==
    /\ up \in BOOLEAN
    /\ feed \in Feeds
    /\ logged \in Positions \cup {None}
    /\ phase \in {"off", "due", "fetching", "sleeping"}
    /\ timer \in 0 .. RefreshInterval + MaxFetch
    /\ asked \in Positions \cup {None}
    /\ cache \in [Positions -> Stations \cup {None}]
    /\ held \in Observation \cup {None}
    /\ upstream \in {"well", "ailing"}
    /\ moved \in 0 .. LongAgo
    /\ misses \in 0 .. 2

Forgotten == [p \in Positions |-> None]

Init ==
    /\ up = FALSE
    /\ feed \in Feeds
    /\ logged \in Positions \cup {None}
    /\ phase = "off" /\ timer = 0 /\ asked = None
    /\ cache = Forgotten
    /\ held = None
    /\ upstream \in {"well", "ailing"}
    /\ moved = 0
    /\ misses = 0

(* resolve_reference_location: the override, the newest logged row if it   *)
(* has a fix, the configured fallback.                                     *)
ReferencePosition ==
    IF feed.override # None THEN feed.override
    ELSE IF logged # None THEN logged ELSE feed.fallback

-----------------------------------------------------------------------------
(* The server around the loop *)

(* lifespan starts the task, which ends at once when the feed is disabled. *)
Boot ==
    /\ ~up
    /\ up' = TRUE
    /\ feed' \in Feeds
    /\ phase' = IF feed'.enabled THEN "due" ELSE "off"
    /\ moved' = 0
    /\ UNCHANGED <<logged, upstream, timer, asked, cache, held, misses>>

(* The shutdown cancels the task wherever it awaits, and the answer of a   *)
(* fetch left in its thread reaches nobody; a crash does no more.          *)
Stop ==
    /\ up
    /\ up' = FALSE
    /\ phase' = "off" /\ timer' = 0 /\ asked' = None
    /\ cache' = Forgotten
    /\ held' = None
    /\ misses' = 0
    /\ UNCHANGED <<feed, logged, upstream, moved>>

(* The logger writes a row: the unit has moved, or has found or lost its   *)
(* fix.  Without logging this never happens.                               *)
RowLogged ==
    /\ logged' \in (Positions \cup {None}) \ {logged}
    /\ UNCHANGED <<up, feed, upstream, loopVars>>
    /\ moved' = IF ReferencePosition' = ReferencePosition THEN moved ELSE 0

UpstreamChanges ==
    /\ upstream' \in {"well", "ailing"} \ {upstream}
    /\ UNCHANGED <<up, feed, logged, moved, loopVars>>

-----------------------------------------------------------------------------
(* external_fetch_loop *)

Due ==
    \/ phase = "due"
    \/ phase = "sleeping" /\ timer = RefreshInterval

Missed == misses' = Capped(misses + 1, 2)

(* A slip: the position is resolved once, before the loop. *)
ResolvedOnce == IF asked # None THEN asked ELSE ReferencePosition

(* The position at the top of an iteration, kept across the await. *)
Resolve == ReferencePosition

Refresh ==
    /\ Due
    /\ timer' = 0
    /\ asked' = Resolve
    /\ IF asked' = None
       THEN phase' = "sleeping" /\ Missed
       ELSE phase' = "fetching" /\ UNCHANGED misses
    /\ UNCHANGED <<up, feed, logged, upstream, moved, cache, held>>

(* A slip: the discovered station is not remembered. *)
Configured == feed.station_id

(* cfg.station_id or _STATION_CACHE.get(key) *)
HomeStation == IF feed.station_id # None THEN feed.station_id ELSE cache[asked]

(* What a successful fetch may bring: the home station's report, or, while *)
(* none is known, that of whichever station is nearest of those reporting. *)
Reporting ==
    IF feed.provider = "model" THEN {Model}
    ELSE IF HomeStation # None THEN {HomeStation} ELSE Stations

(* _fetch_metar remembers the station it discovered. *)
Remember(source) ==
    IF feed.provider = "metar" /\ feed.station_id = None
    THEN cache' = [cache EXCEPT ![asked] = source]
    ELSE UNCHANGED cache

Asleep == phase' = "sleeping" /\ timer' = 0

(* fetch_external has an observation; store.set. *)
FetchLands ==
    /\ phase = "fetching"
    /\ \E source \in Reporting, lag \in Lags :
        /\ upstream = "well" => lag <= Slack
        /\ held' = [position |-> asked, source |-> source, lag |-> lag, since |-> 0]
        /\ Remember(source)
    /\ Asleep
    /\ misses' = 0
    /\ UNCHANGED <<up, feed, logged, upstream, moved, asked>>

(* A slip: a failed refresh ends the loop. *)
GiveUp ==
    /\ phase = "fetching" /\ upstream = "ailing"
    /\ phase' = "off" /\ timer' = 0 /\ Missed
    /\ UNCHANGED <<up, feed, logged, upstream, moved, asked, cache, held>>

(* fetch_external returns None on any failure: last-known is kept. *)
FetchFails ==
    /\ phase = "fetching" /\ upstream = "ailing"
    /\ Asleep /\ Missed
    /\ UNCHANGED <<up, feed, logged, upstream, moved, asked, cache, held>>

(* Time passes unless the loop is due, or a fetch has reached its timeout. *)
Tick ==
    /\ up /\ ~Due
    /\ phase = "fetching" => timer < MaxFetch
    /\ timer' = IF phase = "off" THEN timer ELSE timer + 1
    /\ held' = IF held = None THEN None
               ELSE [held EXCEPT !.since = Capped(held.since + 1, Old)]
    /\ moved' = Capped(moved + 1, LongAgo)
    /\ UNCHANGED <<up, feed, logged, upstream, phase, asked, cache, misses>>

-----------------------------------------------------------------------------
(* build_external: the age is that of the report if it says when it was    *)
(* made, else that of the fetch (lag 0).                                   *)

AgeSeconds(obs) == obs.lag + obs.since

(* A slip: stale already at the limit. *)
StaleAtLimit(obs) == AgeSeconds(obs) >= StaleAfter

Stale(obs) == AgeSeconds(obs) > StaleAfter

Block ==
    IF held = None THEN None
    ELSE [position |-> held.position, source |-> held.source, stale |-> Stale(held)]

-----------------------------------------------------------------------------
Run == Refresh \/ FetchLands \/ FetchFails \/ Tick

Next == Boot \/ Stop \/ RowLogged \/ UpstreamChanges \/ Run

Spec == Init /\ [][Next]_vars /\ WF_vars(Run)

-----------------------------------------------------------------------------
(* The reference position is read before the await and the answer stored   *)
(* after it, so an observation may belong to a place the unit has left.    *)
(* But it cannot be presented as fresh for longer than StaleAfter and one  *)
(* fetch: refreshes that fail leave it to grow stale, and the next one     *)
(* that succeeds asks for the new place (task.py:67-72).                   *)
MovedStationIsMarked ==
    held # None /\ ~Stale(held) /\ held.position # ReferencePosition
        => moved < LongAgo

(* One refresh without data does not turn a prompt report stale: the       *)
(* threshold leaves room for a whole further round (responses.py:462-465). *)
OneLostRefreshStaysFresh ==
    held # None /\ held.lag <= Slack /\ misses <= 1 => ~Stale(held)

(* The feed implements FeedPromise: last-known is kept while the server    *)
(* runs, and a position keeps its station (store.py:3-8, providers.py:283). *)
Promise == INSTANCE FeedPromise WITH block <- Block, Absent <- None

KeepsItsPromise == Promise!Spec

(* When the upstream stays well and the unit stays put, the block becomes  *)
(* fresh, for the right place, and remains so.                             *)
Settled == /\ up /\ feed.enabled /\ ReferencePosition # None
           /\ upstream = "well" /\ moved = LongAgo

FeedRecovers ==
    <>[]Settled =>
        <>[](held # None /\ ~Stale(held) /\ held.position = ReferencePosition)
=============================================================================
