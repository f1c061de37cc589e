---------------------------- MODULE FeedConstants ----------------------------
(* The constants of ExternalFeed: where the unit can be, who reports, and  *)
(* the times of the refresh loop.                                          *)
EXTENDS Naturals

CONSTANTS Positions,        \* coordinates, rounded as the station cache rounds them
          Stations,         \* METAR stations
          Feeds,            \* the [external] sections a server is started with
          Lags,             \* how old a report may be when it is fetched
          RefreshInterval,  \* external.refresh_interval_seconds
          MaxFetch,         \* the longest one refresh takes, all its requests together
          StaleFloor,       \* the 900 s of external_stale_after
          None

Model == "model"       \* the source of a provider that has no stations to choose from

(* external_stale_after *)
StaleAfter == IF 3 * RefreshInterval > StaleFloor THEN 3 * RefreshInterval ELSE StaleFloor

(* How old a report may be for one lost refresh not to make it stale. *)
Slack == StaleAfter - 2 * (RefreshInterval + MaxFetch)

ASSUME FeedAssumption ==
    /\ RefreshInterval \in Nat \ {0} /\ MaxFetch \in Nat /\ StaleFloor \in Nat
    /\ 2 * (RefreshInterval + MaxFetch) <= StaleAfter
    /\ Lags \subseteq Nat
    /\ None \notin Positions /\ None \notin Stations /\ Model \notin Stations

ASSUME FeedsAssumption ==
    Feeds \subseteq [enabled : BOOLEAN, provider : {"metar", "model"},
                     station_id : Stations \cup {None},
                     override : Positions \cup {None}, fallback : Positions \cup {None}]
=============================================================================
