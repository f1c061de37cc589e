------------------------- MODULE ExternalFeedProofs --------------------------
(***************************************************************************)
(* Proofs about the external feed, for any stations, positions, feeds and  *)
(* refresh times that FeedAssumption allows.                               *)
(***************************************************************************)
EXTENDS ExternalFeed, TLAPS

(* Where the loop is bounds what its timer can show. *)
TimerFits ==
    /\ ~up => phase = "off"
    /\ phase \in {"off", "due"} => timer = 0 /\ held = None
    /\ phase = "fetching" => timer <= MaxFetch /\ asked \in Positions
    /\ phase = "sleeping" => timer <= RefreshInterval

(* A position that was left during the fetch was left within it, and the   *)
(* observation it brings has been held for at least the rest.              *)
LeftSince ==
    /\ phase = "fetching" /\ asked # ReferencePosition => moved <= timer
    /\ held # None /\ held.position # ReferencePosition /\ held.since < Old
          => moved <= held.since + MaxFetch

(* How long the loop has been at it since the observation landed, if at    *)
(* most one refresh was lost.                                              *)
Elapsed == (IF misses = 0 THEN 0 ELSE RefreshInterval + MaxFetch)
           + (IF phase = "fetching" THEN RefreshInterval ELSE 0) + timer

HeldAsLongAsElapsed == held # None /\ misses <= 1 => held.since <= Elapsed

(* The observation came from the one source its position will be asked of. *)
SourceIsKnown ==
    held # None =>
        IF feed.provider = "model" THEN held.source = Model
        ELSE /\ held.source \in Stations
             /\ held.source = IF feed.station_id # None THEN feed.station_id
                              ELSE cache[held.position]

IInv == TypeOK /\ TimerFits /\ LeftSince /\ HeldAsLongAsElapsed /\ SourceIsKnown

-----------------------------------------------------------------------------
LEMMA Times ==
    /\ StaleAfter \in Nat /\ RefreshInterval \in Nat \ {0} /\ MaxFetch \in Nat
    /\ Old \in Nat /\ LongAgo \in Nat /\ Old = StaleAfter + 1
    /\ LongAgo = StaleAfter + MaxFetch + 1
    /\ Slack \in Nat /\ Slack + 2 * (RefreshInterval + MaxFetch) = StaleAfter
  BY FeedAssumption DEF StaleAfter, Old, LongAgo, Slack

LEMMA CappedFacts ==
    ASSUME NEW n \in Nat, NEW cap \in Nat
    PROVE  /\ Capped(n, cap) \in 0 .. cap
           /\ Capped(n, cap) <= n
           /\ n <= cap => Capped(n, cap) = n
  BY DEF Capped

LEMMA ReferenceIsAPosition == TypeOK => ReferencePosition \in Positions \cup {None}
  BY FeedsAssumption DEF TypeOK, ReferencePosition

LEMMA ForgottenIsACache == Forgotten \in [Positions -> Stations \cup {None}]
  BY DEF Forgotten

LEMMA Starts == Init => IInv
<1> SUFFICES ASSUME Init PROVE IInv
  OBVIOUS
<1>1. timer \in 0 .. RefreshInterval + MaxFetch /\ moved \in 0 .. LongAgo /\ misses \in 0 .. 2
  BY Times DEF Init
<1>2. TypeOK
  BY <1>1, ForgottenIsACache, Zenon DEF Init, TypeOK
<1> QED BY <1>2 DEF Init, IInv, TimerFits, LeftSince, HeldAsLongAsElapsed, SourceIsKnown

-----------------------------------------------------------------------------
(* The server around the loop *)

LEMMA BootKeeps == IInv /\ Boot => IInv'
<1> SUFFICES ASSUME IInv, Boot PROVE IInv'
  OBVIOUS
<1>1. held = None /\ timer = 0 /\ phase' \in {"off", "due"} /\ up' = TRUE
  BY DEF IInv, TimerFits, Boot
<1>2. TypeOK'
  BY <1>1, Times DEF IInv, TypeOK, Boot
<1> QED
  BY <1>1, <1>2 DEF IInv, Boot, TimerFits, LeftSince, HeldAsLongAsElapsed, SourceIsKnown

LEMMA StopKeeps == IInv /\ Stop => IInv'
<1> SUFFICES ASSUME IInv, Stop PROVE IInv'
  OBVIOUS
<1>1. timer' \in 0 .. RefreshInterval + MaxFetch /\ misses' \in 0 .. 2
  BY Times DEF Stop
<1>2. TypeOK'
  BY <1>1, ForgottenIsACache, Zenon DEF IInv, TypeOK, Stop
<1> QED
  BY <1>2 DEF IInv, Stop, TimerFits, LeftSince, HeldAsLongAsElapsed, SourceIsKnown

LEMMA RowLoggedKeeps == IInv /\ RowLogged => IInv'
<1> SUFFICES ASSUME IInv, RowLogged PROVE IInv'
  OBVIOUS
<1> USE DEF loopVars
<1>1. /\ UNCHANGED <<up, feed, upstream, phase, timer, asked, cache, held, misses>>
      /\ logged' \in Positions \cup {None}
      /\ moved' = IF ReferencePosition' = ReferencePosition THEN moved ELSE 0
  BY DEF RowLogged
<1>2. TypeOK'
  BY <1>1, Times DEF IInv, TypeOK
<1>3. LeftSince'
  <2>1. CASE ReferencePosition' = ReferencePosition
    BY <1>1, <2>1 DEF IInv, LeftSince
  <2>2. CASE moved' = 0
    BY <1>1, <2>2, <1>2, Times DEF IInv, TypeOK, LeftSince, Observation
  <2> QED BY <1>1, <2>1, <2>2
<1> QED
  BY <1>1, <1>2, <1>3 DEF IInv, TimerFits, HeldAsLongAsElapsed, Elapsed, SourceIsKnown

LEMMA UpstreamKeeps == IInv /\ UpstreamChanges => IInv'
<1> SUFFICES ASSUME IInv, UpstreamChanges PROVE IInv'
  OBVIOUS
<1>1. UNCHANGED <<up, feed, logged, phase, timer, asked, cache, held, moved, misses>>
  BY DEF UpstreamChanges, loopVars
<1>2. TypeOK'
  BY <1>1 DEF IInv, TypeOK, UpstreamChanges
<1> QED
  BY <1>1, <1>2
  DEF IInv, TimerFits, LeftSince, ReferencePosition, HeldAsLongAsElapsed, Elapsed,
      SourceIsKnown

-----------------------------------------------------------------------------
(* The loop *)

LEMMA MissedFacts ==
    ASSUME misses \in 0 .. 2, Missed
    PROVE  /\ misses' \in 0 .. 2
           /\ misses' <= 1 => misses = 0 /\ misses' = 1
  BY DEF Missed, Capped

LEMMA RefreshKeeps == IInv /\ Refresh => IInv'
<1> SUFFICES ASSUME IInv, Refresh PROVE IInv'
  OBVIOUS
<1>1. /\ UNCHANGED <<up, feed, logged, upstream, moved, cache, held>>
      /\ timer' = 0 /\ asked' = ReferencePosition /\ Due
  BY DEF Refresh, Resolve
<1>2. asked' \in Positions \cup {None}
  BY <1>1, ReferenceIsAPosition DEF IInv
<1>3. \/ asked' = None /\ phase' = "sleeping" /\ Missed
      \/ asked' # None /\ phase' = "fetching" /\ misses' = misses
  BY DEF Refresh
<1>4. /\ misses \in 0 .. 2 /\ misses' \in 0 .. 2
      /\ asked' = None /\ misses' <= 1 => misses = 0 /\ misses' = 1
  BY <1>3, MissedFacts DEF IInv, TypeOK
<1>5. TypeOK'
  BY <1>1, <1>2, <1>3, <1>4, Times DEF IInv, TypeOK
<1>6. TimerFits'
  BY <1>1, <1>2, <1>3, Times DEF IInv, TimerFits, Due
<1>7. LeftSince'
  BY <1>1, <1>3 DEF IInv, LeftSince, ReferencePosition
<1>8. HeldAsLongAsElapsed'
  <2> SUFFICES ASSUME held # None, misses' <= 1
               PROVE  held.since <= Elapsed'
    BY <1>1 DEF HeldAsLongAsElapsed
  <2>1. timer = RefreshInterval /\ phase = "sleeping"
    BY <1>1 DEF IInv, TimerFits, Due
  <2>2. misses <= 1 /\ (misses' = misses \/ (misses = 0 /\ misses' = 1))
    BY <1>3, <1>4
  <2>3. held.since <= (IF misses = 0 THEN 0 ELSE RefreshInterval + MaxFetch) + RefreshInterval
    BY <2>1, <2>2, Times DEF IInv, HeldAsLongAsElapsed, Elapsed
  <2>4. held.since \in Nat
    BY Times DEF IInv, TypeOK, Observation
  <2>5. CASE phase' = "fetching" /\ misses' = misses
    BY <1>1, <2>3, <2>4, <2>5, Times DEF Elapsed
  <2>6. CASE phase' = "sleeping" /\ misses = 0 /\ misses' = 1
    BY <1>1, <2>3, <2>4, <2>6, Times DEF Elapsed
  <2> QED BY <1>3, <1>4, <2>5, <2>6
<1>9. SourceIsKnown'
  BY <1>1 DEF IInv, SourceIsKnown
<1> QED BY <1>5, <1>6, <1>7, <1>8, <1>9 DEF IInv

(* What a successful fetch brings. *)
LEMMA Landed ==
    ASSUME IInv, FetchLands
    PROVE  \E source \in Reporting, lag \in Lags :
              /\ held' = [position |-> asked, source |-> source, lag |-> lag, since |-> 0]
              /\ source \in Sources
              /\ cache' \in [Positions -> Stations \cup {None}]
              /\ SourceIsKnown'
<1> USE DEF IInv, TypeOK, TimerFits
<1>1. PICK source \in Reporting, lag \in Lags :
        /\ held' = [position |-> asked, source |-> source, lag |-> lag, since |-> 0]
        /\ Remember(source)
  BY DEF FetchLands
<1>2. asked \in Positions /\ feed' = feed
  BY DEF FetchLands
<1>3. feed.provider \in {"metar", "model"} /\ feed.station_id \in Stations \cup {None}
  BY FeedsAssumption
<1>4. source \in Sources /\ (feed.provider = "metar" => source \in Stations)
  BY <1>2, <1>3, FeedAssumption DEF Reporting, HomeStation, Sources
<1>5. CASE feed.provider = "model"
  BY <1>1, <1>2, <1>4, <1>5 DEF Remember, Reporting, SourceIsKnown
<1>6. CASE feed.provider = "metar" /\ feed.station_id # None
  BY <1>1, <1>2, <1>4, <1>6 DEF Remember, Reporting, HomeStation, SourceIsKnown
<1>7. CASE feed.provider = "metar" /\ feed.station_id = None
  <2>1. cache' = [cache EXCEPT ![asked] = source] /\ source \in Stations
    BY <1>1, <1>4, <1>7 DEF Remember
  <2>2. cache' \in [Positions -> Stations \cup {None}] /\ cache'[asked] = source
    BY <1>2, <2>1
  <2> QED BY <1>1, <1>2, <1>4, <1>7, <2>1, <2>2 DEF SourceIsKnown
<1> QED BY <1>3, <1>5, <1>6, <1>7

LEMMA FetchLandsKeeps == IInv /\ FetchLands => IInv'
<1> SUFFICES ASSUME IInv, FetchLands PROVE IInv'
  OBVIOUS
<1>1. PICK source \in Sources, lag \in Lags :
        held' = [position |-> asked, source |-> source, lag |-> lag, since |-> 0]
  BY Landed
<1>2. /\ UNCHANGED <<up, feed, logged, upstream, moved, asked>>
      /\ phase = "fetching" /\ phase' = "sleeping" /\ timer' = 0 /\ misses' = 0
  BY DEF FetchLands, Asleep
<1>3. asked \in Positions /\ timer \in Nat /\ timer <= MaxFetch /\ moved \in Nat /\ up = TRUE
  BY <1>2, Times DEF IInv, TypeOK, TimerFits
<1>4. held' \in Observation
  BY <1>1, <1>3, Times DEF Observation
<1>5. cache' \in [Positions -> Stations \cup {None}] /\ SourceIsKnown'
  BY Landed
<1>6. TypeOK'
  BY <1>2, <1>4, <1>5, Times DEF IInv, TypeOK
<1>7. TimerFits'
  BY <1>2, <1>3, Times DEF IInv, TimerFits
<1>8. LeftSince'
  BY <1>1, <1>2, <1>3, Times DEF IInv, LeftSince, ReferencePosition
<1>9. HeldAsLongAsElapsed'
  BY <1>1, <1>2, <1>3 DEF HeldAsLongAsElapsed, Elapsed
<1> QED BY <1>5, <1>6, <1>7, <1>8, <1>9 DEF IInv

LEMMA FetchFailsKeeps == IInv /\ FetchFails => IInv'
<1> SUFFICES ASSUME IInv, FetchFails PROVE IInv'
  OBVIOUS
<1>1. /\ UNCHANGED <<up, feed, logged, upstream, moved, asked, cache, held>>
      /\ phase = "fetching" /\ phase' = "sleeping" /\ timer' = 0
      /\ misses' \in 0 .. 2 /\ (misses' <= 1 => misses = 0 /\ misses' = 1)
  BY MissedFacts DEF FetchFails, Asleep, IInv, TypeOK
<1>2. TypeOK'
  BY <1>1, Times DEF IInv, TypeOK
<1>3. TimerFits'
  BY <1>1, Times DEF IInv, TimerFits
<1>4. LeftSince'
  BY <1>1 DEF IInv, LeftSince, ReferencePosition
<1>5. HeldAsLongAsElapsed'
  <2> SUFFICES ASSUME held # None, misses' <= 1
               PROVE  held.since <= Elapsed'
    BY <1>1 DEF HeldAsLongAsElapsed
  <2>1. held.since \in Nat /\ timer \in Nat /\ timer <= MaxFetch
    BY <1>1, Times DEF IInv, TypeOK, Observation, TimerFits
  <2>2. held.since <= RefreshInterval + timer
    BY <1>1, <2>1, Times DEF IInv, HeldAsLongAsElapsed, Elapsed
  <2> QED BY <1>1, <2>1, <2>2, Times DEF Elapsed
<1>6. SourceIsKnown'
  BY <1>1 DEF IInv, SourceIsKnown
<1> QED BY <1>2, <1>3, <1>4, <1>5, <1>6 DEF IInv

LEMMA TickKeeps == IInv /\ Tick => IInv'
<1> SUFFICES ASSUME IInv, Tick PROVE IInv'
  OBVIOUS
<1>0. /\ phase \in {"off", "due", "fetching", "sleeping"}
      /\ timer \in 0 .. RefreshInterval + MaxFetch /\ moved \in 0 .. LongAgo
      /\ misses \in 0 .. 2 /\ held \in Observation \cup {None}
      /\ TimerFits /\ LeftSince /\ HeldAsLongAsElapsed /\ SourceIsKnown
  BY DEF IInv, TypeOK
<1>1. /\ UNCHANGED <<up, feed, logged, upstream, phase, asked, cache, misses>>
      /\ moved' = Capped(moved + 1, LongAgo) /\ moved \in Nat /\ timer \in Nat
      /\ ~Due /\ (phase = "fetching" => timer < MaxFetch)
  BY <1>0, Times DEF Tick
<1>2. moved' \in 0 .. LongAgo /\ moved' <= moved + 1
  BY <1>1, CappedFacts, Times
<1>3. phase \in {"fetching", "sleeping"} \/ (phase = "off" /\ held = None)
  BY <1>0, <1>1 DEF Due, TimerFits
<1>4. timer' = IF phase = "off" THEN timer ELSE timer + 1
  BY DEF Tick
<1>5. held # None =>
        /\ held.since \in 0 .. Old
        /\ held' = [held EXCEPT !.since = Capped(held.since + 1, Old)]
        /\ Capped(held.since + 1, Old) \in 0 .. Old
        /\ Capped(held.since + 1, Old) <= held.since + 1
        /\ held.since < Old => Capped(held.since + 1, Old) = held.since + 1
  <2> SUFFICES ASSUME held # None
               PROVE  /\ held.since \in 0 .. Old
                      /\ held' = [held EXCEPT !.since = Capped(held.since + 1, Old)]
                      /\ Capped(held.since + 1, Old) \in 0 .. Old
                      /\ Capped(held.since + 1, Old) <= held.since + 1
                      /\ held.since < Old => Capped(held.since + 1, Old) = held.since + 1
    OBVIOUS
  <2>1. held.since \in 0 .. Old
    BY <1>0 DEF Observation
  <2>2. held.since + 1 \in Nat /\ (held.since < Old => held.since + 1 <= Old)
    BY <2>1, Times
  <2> QED BY <2>1, <2>2, CappedFacts, Times DEF Tick
<1>6. held # None =>
        /\ held' \in Observation
        /\ held'.position = held.position /\ held'.source = held.source
        /\ held'.lag = held.lag
        /\ held'.since = Capped(held.since + 1, Old)
  BY <1>0, <1>5 DEF Observation
<1>7. held = None => held' = None
  BY DEF Tick
<1>8. timer' \in 0 .. RefreshInterval + MaxFetch /\ TimerFits'
  <2>1. phase = "sleeping" => timer < RefreshInterval
    BY <1>0, <1>1, Times DEF TimerFits, Due
  <2> QED BY <1>0, <1>1, <1>3, <1>4, <1>7, <2>1, Times DEF TimerFits
<1>9. TypeOK'
  BY <1>0, <1>1, <1>2, <1>6, <1>7, <1>8 DEF IInv, TypeOK
<1>10. LeftSince'
  <2>1. ReferencePosition' = ReferencePosition
    BY <1>1 DEF ReferencePosition
  <2>2. phase = "fetching" /\ asked # ReferencePosition => moved' <= timer'
    BY <1>0, <1>1, <1>2, <1>4 DEF LeftSince
  <2>3. held # None /\ held.position # ReferencePosition /\ held'.since < Old
          => moved' <= held'.since + MaxFetch
    <3> SUFFICES ASSUME held # None, held.position # ReferencePosition, held'.since < Old
                 PROVE  moved' <= held'.since + MaxFetch
      OBVIOUS
    <3>1. held.since < Old /\ held.since \in Nat
      BY <1>5, <1>6, Times DEF Capped
    <3>2. moved <= held.since + MaxFetch
      BY <1>0, <3>1 DEF LeftSince
    <3> QED BY <1>1, <1>2, <1>5, <1>6, <3>1, <3>2, Times
  <2> QED BY <1>1, <1>6, <1>7, <2>1, <2>2, <2>3 DEF LeftSince
<1>11. HeldAsLongAsElapsed'
  <2> SUFFICES ASSUME held # None, misses <= 1
               PROVE  held'.since <= Elapsed'
    BY <1>1, <1>7 DEF HeldAsLongAsElapsed
  <2>1. held.since <= Elapsed
    BY <1>0 DEF HeldAsLongAsElapsed
  <2>2. Elapsed' = Elapsed + 1 /\ Elapsed \in Nat
    BY <1>0, <1>1, <1>3, <1>4, Times DEF Elapsed
  <2> QED BY <1>5, <1>6, <2>1, <2>2, Times
<1>12. SourceIsKnown'
  BY <1>0, <1>1, <1>6, <1>7 DEF SourceIsKnown
<1> QED BY <1>8, <1>9, <1>10, <1>11, <1>12 DEF IInv

LEMMA Steps == IInv /\ [Next]_vars => IInv'
<1> SUFFICES ASSUME IInv, [Next]_vars PROVE IInv'
  OBVIOUS
<1>1. CASE UNCHANGED vars
  BY <1>1
  DEF vars, loopVars, IInv, TypeOK, TimerFits, LeftSince, ReferencePosition,
      HeldAsLongAsElapsed, Elapsed, SourceIsKnown
<1> QED
  BY <1>1, BootKeeps, StopKeeps, RowLoggedKeeps, UpstreamKeeps, RefreshKeeps,
     FetchLandsKeeps, FetchFailsKeeps, TickKeeps
  DEF Next, Run

(* Fairness is not needed. *)
LEMMA Invariance == Init /\ [][Next]_vars => []IInv
  BY Starts, Steps, PTL

-----------------------------------------------------------------------------
(* Every variable keeps the type the code gives it. *)
THEOREM TypeCorrect == Spec => []TypeOK
<1>1. IInv => TypeOK
  BY DEF IInv
<1> QED BY <1>1, Invariance, PTL DEF Spec

LEMMA LeftIsMarked == IInv => MovedStationIsMarked
<1> SUFFICES ASSUME IInv, held # None, ~Stale(held), held.position # ReferencePosition
             PROVE  moved < LongAgo
  BY DEF MovedStationIsMarked
<1>1. held.since \in Nat /\ held.lag \in Nat /\ moved \in Nat
  <2>1. held \in Observation /\ moved \in Nat
    BY Times DEF IInv, TypeOK
  <2> QED BY <2>1, FeedAssumption, Times DEF Observation
<1>2. held.since < Old
  BY <1>1, Times DEF Stale, AgeSeconds
<1>3. moved <= held.since + MaxFetch
  BY <1>2 DEF IInv, LeftSince
<1> QED BY <1>1, <1>2, <1>3, Times

LEMMA LostIsFresh == IInv => OneLostRefreshStaysFresh
<1> SUFFICES ASSUME IInv, held # None, held.lag <= Slack, misses <= 1
             PROVE  ~Stale(held)
  BY DEF OneLostRefreshStaysFresh
<1>1. held.since \in Nat /\ held.lag \in Nat /\ timer \in Nat
  <2>1. held \in Observation /\ timer \in Nat
    BY Times DEF IInv, TypeOK
  <2> QED BY <2>1, FeedAssumption, Times DEF Observation
<1>2. held.since <= Elapsed
  BY DEF IInv, HeldAsLongAsElapsed
<1>3. \/ phase = "fetching" /\ timer <= MaxFetch
      \/ phase = "sleeping" /\ timer <= RefreshInterval
  <2>1. phase \in {"off", "due", "fetching", "sleeping"} /\ TimerFits
    BY DEF IInv, TypeOK
  <2> QED BY <2>1 DEF TimerFits
<1>4. Elapsed <= 2 * (RefreshInterval + MaxFetch)
  BY <1>1, <1>3, Times DEF Elapsed
<1>5. Elapsed \in Nat
  BY <1>1, Times DEF Elapsed
<1> QED BY <1>1, <1>2, <1>4, <1>5, Times DEF Stale, AgeSeconds

(* The weather of a place the unit has left is not shown as fresh for      *)
(* longer than StaleAfter and one fetch (task.py:67-72).                   *)
THEOREM LeftPlacesGrowStale == Spec => []MovedStationIsMarked
  BY Invariance, LeftIsMarked, PTL DEF Spec

(* One lost refresh leaves a prompt report fresh (responses.py:462-465).   *)
THEOREM OneMayBeLost == Spec => []OneLostRefreshStaysFresh
  BY Invariance, LostIsFresh, PTL DEF Spec

-----------------------------------------------------------------------------
(* The feed implements FeedPromise *)

(* None stands for no observation, to the store and to a reader.           *)
NoneIsNoObservation == None \notin Observation \cup Promise!Observations

LEMMA BlockIsAnObservation ==
    ASSUME NEW obs \in Observation
    PROVE  [position |-> obs.position, source |-> obs.source, stale |-> Stale(obs)]
             \in Promise!Observations
  BY DEF Observation, Promise!Observations, Stale

(* A position is only ever asked of the source that is known for it. *)
LEMMA LandingIsARefresh == NoneIsNoObservation /\ IInv /\ FetchLands => Promise!Refresh
<1> SUFFICES ASSUME NoneIsNoObservation, IInv, FetchLands PROVE Promise!Refresh
  OBVIOUS
<1>1. PICK source \in Reporting, lag \in Lags :
        /\ held' = [position |-> asked, source |-> source, lag |-> lag, since |-> 0]
        /\ source \in Sources
  BY Landed
<1>2. asked \in Positions /\ up = TRUE /\ up' = up /\ feed \in Feeds
  BY DEF FetchLands, IInv, TypeOK, TimerFits
<1>3. held' \in Observation /\ held' # None
  BY <1>1, <1>2, Times DEF Observation, NoneIsNoObservation
<1>4. Block' = [position |-> asked, source |-> source, stale |-> Stale(held')]
  BY <1>1, <1>3 DEF Block
<1>5. Block' \in Promise!Observations
  BY <1>1, <1>2, <1>4 DEF Promise!Observations, Stale
<1>6. ASSUME Block # None, Block.position = Block'.position
      PROVE  Block.source = Block'.source
  <2>1. held # None /\ held.position = asked /\ Block.source = held.source
    BY <1>4, <1>6 DEF Block
  <2>2. held.source = source
    <3>1. SourceIsKnown /\ feed.provider \in {"metar", "model"}
      BY <1>2, FeedsAssumption DEF IInv
    <3> QED BY <2>1, <3>1, FeedAssumption DEF SourceIsKnown, Reporting, HomeStation
  <2> QED BY <1>4, <2>1, <2>2
<1> QED BY <1>2, <1>5, <1>6 DEF Promise!Refresh

LEMMA SameBlock ==
    ASSUME NEW a \in Promise!Observations, NEW b \in Promise!Observations,
           a.position = b.position, a.source = b.source, a.stale = b.stale
    PROVE  a = b
  BY DEF Promise!Observations

(* Time only turns a block stale. *)
LEMMA TimeOnlyExpires ==
    NoneIsNoObservation /\ IInv /\ IInv' /\ Tick => Promise!Expire \/ UNCHANGED Promise!vars
<1> SUFFICES ASSUME NoneIsNoObservation, IInv, IInv', Tick
             PROVE  Promise!Expire \/ UNCHANGED Promise!vars
  OBVIOUS
<1>1. up' = up
  BY DEF Tick
<1>2. CASE held = None
  BY <1>1, <1>2 DEF Tick, Block, Promise!vars
<1>3. CASE held # None
  <2>1. held \in Observation /\ held' = [held EXCEPT !.since = Capped(held.since + 1, Old)]
    BY <1>3 DEF Tick, IInv, TypeOK
  <2>2. held.since \in 0 .. Old /\ held.lag \in Nat
    BY <2>1, FeedAssumption DEF Observation
  <2>3. Capped(held.since + 1, Old) \in 0 .. Old /\ Capped(held.since + 1, Old) >= held.since
    BY <2>2, Times DEF Capped
  <2>4. held' \in Observation /\ held' # None
    BY <2>1, <2>3 DEF Observation, NoneIsNoObservation
  <2>5. /\ held'.position = held.position /\ held'.source = held.source
        /\ Stale(held) => Stale(held')
    BY <2>1, <2>2, <2>3, Times DEF Observation, Stale, AgeSeconds
  <2>6. Block # None /\ Block \in Promise!Observations
    BY <1>3, <2>1, BlockIsAnObservation DEF Block, NoneIsNoObservation
  <2>7. Block' = [position |-> held.position, source |-> held.source, stale |-> Stale(held')]
    BY <2>4, <2>5 DEF Block
  <2>8. Block = [position |-> held.position, source |-> held.source, stale |-> Stale(held)]
    BY <1>3 DEF Block
  <2>9. Stale(held) \in BOOLEAN /\ Stale(held') \in BOOLEAN
    BY DEF Stale
  <2>10. CASE Stale(held') = Stale(held)
    BY <1>1, <2>7, <2>8, <2>10 DEF Promise!vars
  <2>11. CASE Stale(held') = TRUE
    <3>1. /\ [Block EXCEPT !.stale = TRUE] \in Promise!Observations
          /\ Block' \in Promise!Observations
      BY <2>4, <2>6, <2>7, <2>5, BlockIsAnObservation DEF Promise!Observations
    <3>2. Block' = [Block EXCEPT !.stale = TRUE]
      BY <2>6, <2>7, <2>8, <2>11, <3>1, SameBlock DEF Promise!Observations
    <3> QED BY <1>1, <2>6, <3>2 DEF Promise!Expire
  <2> QED BY <2>5, <2>9, <2>10, <2>11
<1> QED BY <1>2, <1>3

LEMMA StepsArePromised ==
    NoneIsNoObservation /\ IInv /\ IInv' /\ [Next]_vars => [Promise!Next]_(Promise!vars)
<1> SUFFICES ASSUME NoneIsNoObservation, IInv, IInv', [Next]_vars
             PROVE  Promise!Next \/ UNCHANGED Promise!vars
  OBVIOUS
<1>1. CASE Boot
  BY <1>1 DEF Boot, Block, Stale, AgeSeconds, Promise!Next, Promise!Start
<1>2. CASE Stop
  BY <1>2 DEF Stop, Block, Promise!Next, Promise!Stop
<1>3. CASE UNCHANGED <<up, held>>
  BY <1>3 DEF Block, Stale, AgeSeconds, Promise!vars
<1>4. CASE FetchLands
  BY <1>4, LandingIsARefresh DEF Promise!Next
<1>5. CASE Tick
  BY <1>5, TimeOnlyExpires DEF Promise!Next
<1> QED
  BY <1>1, <1>2, <1>3, <1>4, <1>5
  DEF Next, Run, vars, loopVars, RowLogged, UpstreamChanges, Refresh, FetchFails

LEMMA RefreshingIsPromised ==
    NoneIsNoObservation => (Init /\ [][Next]_vars => KeepsItsPromise)
<1> SUFFICES ASSUME NoneIsNoObservation PROVE Init /\ [][Next]_vars => KeepsItsPromise
  OBVIOUS
<1>1. Init => Promise!Init
  BY DEF Init, Block, Promise!Init
<1>2. IInv /\ IInv' /\ [Next]_vars => [Promise!Next]_(Promise!vars)
  BY StepsArePromised
<1> QED BY <1>1, <1>2, Invariance, PTL DEF KeepsItsPromise, Promise!Spec

(* The feed implements FeedPromise: last-known is kept while the server    *)
(* runs, and a position keeps its station (store.py:3-8, providers.py:283). *)
THEOREM PromiseIsKept == NoneIsNoObservation => (Spec => KeepsItsPromise)
<1>1. Spec => Init /\ [][Next]_vars
  BY PTL DEF Spec
<1> QED BY <1>1, RefreshingIsPromised, PTL
=============================================================================
