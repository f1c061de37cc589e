----------------------------- MODULE Periphery -------------------------------
(***************************************************************************)
(* What works around the read path: the task that brings the internet's    *)
(* conditions in, the two clients that show the answers, and the           *)
(* computations of the request handlers, which keep no state between two   *)
(* requests.                                                               *)
(*                                                                         *)
(* They meet only in the content of an answer: the clients are told any    *)
(* external block that FeedPromise allows, and a handler any reading, log  *)
(* or report.  So they take no steps that matter to each other: a          *)
(* behaviour follows one of them (part), while the others rest in an       *)
(* initial state.                                                          *)
(***************************************************************************)
EXTENDS ClientConstants, FeedConstants, Integers, Sequences

CONSTANTS Bad,
          Readings,     \* what _build_reading and the screens are given
          Fields,       \* what the airport and runway handlers are given
          Logs,         \* what /history and /summary are given
          Reports,      \* what a provider of the feed is given
          Skies         \* what the astronomy handler is given

VARIABLES part,
          up, feed, logged, phase, fetchTimer, asked, cache, held, upstream, moved, misses,
          timer, owed, quiet, lastCurrent, feedOverride, units, branding, banner, screen,
          historyOwed, historyTimer, historyDisabled, lastHistory, chart,
          trayTimer, trayOwed, trayQuiet, server, idle, shown,
          answer        \* None, or which handler was asked, and with what

feedVars == <<up, feed, logged, phase, fetchTimer, asked, cache, held, upstream,
              moved, misses>>
dashVars == <<timer, owed, quiet, lastCurrent, feedOverride, units, branding, banner,
              screen, historyOwed, historyTimer, historyDisabled, lastHistory, chart>>
trayVars == <<trayTimer, trayOwed, trayQuiet, server, idle, shown>>
vars == <<part, feedVars, dashVars, trayVars, answer>>

Feed == INSTANCE ExternalFeed WITH timer <- fetchTimer
Dash == INSTANCE Dashboard
Tray == INSTANCE TrayWidget WITH timer <- trayTimer, owed <- trayOwed, quiet <- trayQuiet

ReadingOf == INSTANCE Reading
AirportOf == INSTANCE Airport
HistoryOf == INSTANCE History
MetarOf   == INSTANCE Metar
SkyOf     == INSTANCE Sky

ASSUME ReadingsAssumption == Readings \subseteq ReadingOf!Inputs

ASSUME ReportsAssumption ==
    /\ Reports \subseteq MetarOf!Inputs
    /\ None # Bad /\ MetarOf!Told(None) /\ MetarOf!Told(Bad)

ASSUME FieldsAssumption == Fields \subseteq AirportOf!Inputs /\ None \notin Nat \cup {"L", "R"}

ASSUME LogsAssumption == Logs \subseteq HistoryOf!Inputs /\ None \notin Int

ASSUME SkiesAssumption == Skies \subseteq SkyOf!Inputs /\ None \notin Int

Init ==
    /\ part \in {"feed", "dashboard", "tray", "handler"}
    /\ answer = None
    /\ Feed!Init /\ Dash!Init /\ Tray!Init
    /\ part # "feed" => /\ feed = CHOOSE f \in Feeds : TRUE
                        /\ logged = None /\ upstream = "well"
    /\ part # "tray" => server = "reading"

FeedSteps ==
    /\ part = "feed" /\ Feed!Next
    /\ UNCHANGED <<part, dashVars, trayVars, answer>>

DashboardSteps ==
    /\ part = "dashboard" /\ Dash!Next
    /\ UNCHANGED <<part, feedVars, trayVars, answer>>

TraySteps ==
    /\ part = "tray" /\ Tray!Next
    /\ UNCHANGED <<part, feedVars, dashVars, answer>>

Idle == part = "handler" /\ answer = None

Asked(handler, in) ==
    /\ answer' = [to |-> handler, in |-> in]
    /\ UNCHANGED <<part, feedVars, dashVars, trayVars>>

AskReading == Idle /\ \E in \in Readings : Asked("reading", in)
AskAirport == Idle /\ \E in \in Fields : Asked("airport", in)
AskHistory == Idle /\ \E in \in Logs : Asked("history", in)
FetchReport == Idle /\ \E in \in Reports : Asked("report", in)
AskSky == Idle /\ \E in \in Skies : Asked("sky", in)

(* A handler keeps nothing of a request. *)
Answered ==
    /\ answer # None
    /\ answer' = None
    /\ UNCHANGED <<part, feedVars, dashVars, trayVars>>

Next ==
    \/ FeedSteps \/ DashboardSteps \/ TraySteps
    \/ AskReading \/ AskAirport \/ AskHistory \/ FetchReport \/ AskSky \/ Answered

(* The event loop and the GTK main loop run on, time passes, and a request *)
(* ends by its timeout if not before.                                      *)
FeedRuns == part = "feed" /\ Feed!Run /\ UNCHANGED <<part, dashVars, trayVars, answer>>
TrayRuns == part = "tray" /\ Tray!Run /\ UNCHANGED <<part, feedVars, dashVars, answer>>

Spec == Init /\ [][Next]_vars /\ WF_vars(FeedRuns) /\ WF_vars(TrayRuns)

-----------------------------------------------------------------------------
(* The properties of the parts; each is explained in the part's module. *)

TypeOK == Feed!TypeOK /\ Dash!TypeOK /\ Tray!TypeOK

(* See ExternalFeed: an observation of a place the unit has left does not  *)
(* pass for fresh for long (task.py:67-72).                                *)
MovedStationIsMarked == Feed!MovedStationIsMarked

(* See ExternalFeed: one refresh without data is no reason to call a       *)
(* prompt report stale (responses.py:462-465).                             *)
OneLostRefreshStaysFresh == Feed!OneLostRefreshStaysFresh

(* See ExternalFeed: the holder implements FeedPromise (store.py:17-29).   *)
KeepsItsPromise == Feed!KeepsItsPromise

(* See ExternalFeed: when the upstream is well again, so is the block      *)
(* (task.py:65-83).                                                        *)
FeedRecovers == Feed!FeedRecovers

(* See Dashboard: old data is not on the screen without a banner           *)
(* (app.js:160-172).                                                       *)
OldDataIsBannered == Dash!OldDataIsBannered

(* See Dashboard: the screen is the rendering of the last payloads under   *)
(* the toggles of now (app.js:178-192, 612-645).                           *)
ScreenMatchesState == Dash!ScreenMatchesState

(* See TrayWidget: the temperature beside the icon is recent               *)
(* (weather_tray.py:349-379).                                              *)
TrayIsRecent == Tray!TrayIsRecent

(* See TrayWidget: a lasting outage shows, and so does its end             *)
(* (weather_tray.py:355-369).                                              *)
TrayFollowsServer == part = "tray" => Tray!TrayFollowsServer

About(handler) == answer # None /\ answer.to = handler

(* See Reading: a stale wind is on no screen, but for the unit's own raw   *)
(* figures (wind.py:54-99).                                                *)
StaleWindDrivesNothing ==
    About("reading") => ReadingOf!StaleWindDrivesNothing(answer.in)

(* See Reading: what was not measured is on no screen (wire_format.py,     *)
(* readings.py:334-405, app.js:202-350).                                   *)
NothingIsInvented == About("reading") => ReadingOf!NothingIsInvented(answer.in)

(* See Airport: the field meant, the end that faces the wind, and a        *)
(* compass that agrees with the components (airport.py:333-369).           *)
AirportAnswerIsRight == About("airport") => AirportOf!AirportAnswerIsRight(answer.in)

(* See History: buckets and roll-ups tell what was logged                  *)
(* (history.py:141-194).                                                   *)
HistoryIsWhatWasLogged == About("history") => HistoryOf!HistoryIsWhatWasLogged(answer.in)

(* See Metar: a worse report is in no better a category                    *)
(* (providers.py:341-381).                                                 *)
WorseReportNeverImproves == About("report") => MetarOf!WorseReportNeverImproves(answer.in)

(* See Sky: countdowns, seasons and phases agree from one instant to the   *)
(* next (responses.py:271-345).                                            *)
SkyKeepsTime == About("sky") => SkyOf!SkyKeepsTime(answer.in)

(* See Sky: the phase announced as the next is still to come               *)
(* (astronomy.py:440-454).                                                 *)
NextPhaseIsAhead == About("sky") => SkyOf!NextPhaseIsAhead(answer.in)
=============================================================================
