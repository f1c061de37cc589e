----------------------------- MODULE Dashboard -------------------------------
(***************************************************************************)
(* The dashboard of app.js: what is on the screen, and the payloads it was *)
(* rendered from.  Refreshes of /current overlap and end in any order; so  *)
(* do those of /history; branding is asked for once; the user toggles.     *)
(*                                                                         *)
(* Of a payload it matters when it was asked for and whether its external  *)
(* block is there and fresh; of a history, whether it has rows.            *)
(***************************************************************************)
EXTENDS Polling, FiniteSets

CONSTANT None

Externals == {"absent", "stale", "fresh"}
Units     == {"imperial", "metric"}

VARIABLES lastCurrent,      \* None, or its age and its external block
          feedOverride, units,
          branding,         \* loadBranding: "asked", or the copy it left
          banner,           \* #data-status: "hidden", "loading" or "error"
          screen,           \* label, METAR panel and units as last rendered
          historyOwed, historyTimer, historyDisabled,
          lastHistory,      \* None, or "empty" or "rows"
          chart             \* what the trend shows, in which units; its note

pollVars == <<timer, owed, quiet>>
toggleVars == <<feedOverride, units>>
historyVars == <<historyOwed, historyTimer, historyDisabled, lastHistory, chart>>
vars == <<pollVars, lastCurrent, toggleVars, branding, banner, screen, historyVars>>

Screens == [label : {"ONLINE", "STALE", "OFFLINE"},
            panel : {"untouched", "offline", "stale", "bright"},
            units : Units]

Charts == [rows : {"empty", "rows"}, units : Units,
           note : {"hidden", "no history yet", "disabled"}]

TypeOK ==
    /\ PollingTypeOK
    /\ lastCurrent \in [age : 0 .. Outdated, external : Externals] \cup {None}
    /\ feedOverride \in BOOLEAN /\ units \in Units
    /\ branding \in {"asked", "missing", "loaded"}
    /\ banner \in {"hidden", "loading", "error"}
    /\ screen \in Screens
    /\ historyOwed \in 0 .. MaxHistory
    /\ historyTimer \in BOOLEAN /\ historyDisabled \in BOOLEAN
    /\ lastHistory \in {None, "empty", "rows"}
    /\ chart \in Charts

(* start() over the markup of index.html *)
Init ==
    /\ PollingInit
    /\ lastCurrent = None
    /\ feedOverride = FALSE /\ units = "imperial"
    /\ branding = "asked" /\ banner = "hidden"
    /\ screen = [label |-> "ONLINE", panel |-> "untouched", units |-> "imperial"]
    /\ historyOwed = 1
    /\ historyTimer = TRUE /\ historyDisabled = FALSE
    /\ lastHistory = None
    /\ chart = [rows |-> "empty", units |-> "imperial", note |-> "hidden"]

-----------------------------------------------------------------------------
(* Rendering *)

Effective(data) == IF feedOverride' THEN "absent" ELSE data.external

renderExternal(external) ==
    CASE external = "absent" -> [label |-> "OFFLINE", panel |-> "offline"]
      [] external = "stale"  -> [label |-> "STALE", panel |-> "stale"]
      [] OTHER               -> [label |-> "ONLINE", panel |-> "bright"]

renderAll(data) ==
    screen' = [label |-> renderExternal(Effective(data)).label,
               panel |-> renderExternal(Effective(data)).panel,
               units |-> units']

(* The note is hidden when there are rows and else shown with the text it  *)
(* last had: text is what markup or showHistoryDisabled put there.         *)
plotTrend(rows) ==
    chart' = [rows |-> IF rows = "rows" THEN "rows" ELSE "empty",
              units |-> units',
              note |-> IF rows = "rows" THEN "hidden"
                       ELSE IF historyDisabled THEN "disabled" ELSE "no history yet"]

-----------------------------------------------------------------------------
(* refreshCurrent *)

AskCurrent == Ask /\ UNCHANGED <<lastCurrent, toggleVars, branding, banner, screen, historyVars>>

(* However late it comes, the answer replaces what is shown. *)
CurrentArrives ==
    \E age \in owed, external \in Externals :
        /\ Ends(age)
        /\ lastCurrent' = [age |-> age, external |-> external]
        /\ banner' = "hidden"
        /\ UNCHANGED <<toggleVars, branding, historyVars>>
        /\ renderAll(lastCurrent')

(* A slip: a failed refresh hides the banner like one that succeeded. *)
NoBanner == banner' = "hidden"

(* Only a loaded branding has the copy that reports an error. *)
ShowError == banner' = IF branding = "loaded" THEN "error" ELSE banner

CurrentFails ==
    /\ \E age \in owed : Ends(age)
    /\ ShowError
    /\ UNCHANGED <<lastCurrent, toggleVars, branding, screen, historyVars>>

(* loadBranding, which may end with copy, with empty copy, or not well; it *)
(* may be last to end, and then announces that data is being loaded.       *)
BrandingEnds ==
    /\ branding = "asked"
    /\ \/ branding' = "loaded" /\ banner' = "loading"
       \/ branding' = "missing" /\ UNCHANGED banner
    /\ UNCHANGED <<pollVars, lastCurrent, toggleVars, screen, historyVars>>

Tick ==
    /\ TimePasses
    /\ lastCurrent' = IF lastCurrent = None THEN None
                      ELSE [lastCurrent EXCEPT !.age = Older(lastCurrent.age)]
    /\ UNCHANGED <<toggleVars, branding, banner, screen, historyVars>>

-----------------------------------------------------------------------------
(* refreshHistory *)

AskHistory ==
    /\ historyTimer /\ ~historyDisabled
    /\ historyOwed < MaxHistory
    /\ historyOwed' = historyOwed + 1
    /\ UNCHANGED <<pollVars, lastCurrent, toggleVars, branding, banner, screen,
                   historyTimer, historyDisabled, lastHistory, chart>>

HistoryArrives ==
    /\ historyOwed > 0
    /\ historyOwed' = historyOwed - 1
    /\ lastHistory' \in {"empty", "rows"}
    /\ UNCHANGED <<pollVars, lastCurrent, toggleVars, branding, banner, screen,
                   historyTimer, historyDisabled>>
    /\ plotTrend(lastHistory')

(* A 404: logging is disabled, and the polling of /history stops. *)
HistoryIsDisabled ==
    /\ historyOwed > 0
    /\ historyOwed' = historyOwed - 1
    /\ historyDisabled' = TRUE /\ historyTimer' = FALSE
    /\ lastHistory' = "empty"
    /\ chart' = [chart EXCEPT !.rows = "empty", !.note = "disabled"]
    /\ UNCHANGED <<pollVars, lastCurrent, toggleVars, branding, banner, screen>>

HistoryFails ==
    /\ historyOwed > 0
    /\ historyOwed' = historyOwed - 1
    /\ UNCHANGED <<pollVars, lastCurrent, toggleVars, branding, banner, screen,
                   historyTimer, historyDisabled, lastHistory, chart>>

-----------------------------------------------------------------------------
(* The toggles render lastCurrent again, if there is one. *)

RenderAgain(blank) ==
    IF lastCurrent = None THEN screen' = blank ELSE renderAll(lastCurrent)

toggleFeed ==
    /\ feedOverride' = ~feedOverride
    /\ UNCHANGED <<pollVars, lastCurrent, units, branding, banner, historyVars>>
    /\ RenderAgain([screen EXCEPT !.label = IF feedOverride' THEN "OFFLINE" ELSE "ONLINE"])

(* A slip: the chart keeps the units it was drawn in. *)
TogglePanels ==
    /\ units' = IF units = "metric" THEN "imperial" ELSE "metric"
    /\ UNCHANGED <<pollVars, lastCurrent, feedOverride, branding, banner, historyVars>>
    /\ RenderAgain(screen)

toggleUnits ==
    /\ units' = IF units = "metric" THEN "imperial" ELSE "metric"
    /\ UNCHANGED <<pollVars, lastCurrent, feedOverride, branding, banner,
                   historyOwed, historyTimer, historyDisabled, lastHistory>>
    /\ RenderAgain(screen)
    /\ plotTrend(lastHistory)

-----------------------------------------------------------------------------
Next ==
    \/ AskCurrent \/ CurrentArrives \/ CurrentFails \/ BrandingEnds \/ Tick
    \/ AskHistory \/ HistoryArrives \/ HistoryIsDisabled \/ HistoryFails
    \/ toggleFeed \/ toggleUnits

Spec == Init /\ [][Next]_vars

-----------------------------------------------------------------------------
(* With branding loaded, data older than a refresh can explain is never on *)
(* the screen without a banner, although answers overtake one another, a   *)
(* late success hides the error of a newer request, and the last payload   *)
(* is kept through every failure (app.js:160-172).                         *)
OldDataIsBannered ==
    branding = "loaded" /\ lastCurrent # None /\ banner = "hidden"
        => lastCurrent.age <= Lag

(* Whatever was toggled and whatever came in between, the screen is the    *)
(* rendering of the last payloads under the toggles of now, all of it in   *)
(* the same units (app.js:178-192, 612-645).                               *)
ScreenMatchesState ==
    /\ lastCurrent # None =>
          LET external == IF feedOverride THEN "absent" ELSE lastCurrent.external
          IN /\ screen.label = [absent |-> "OFFLINE", stale |-> "STALE",
                                fresh |-> "ONLINE"][external]
             /\ screen.panel = [absent |-> "offline", stale |-> "stale",
                                fresh |-> "bright"][external]
             /\ screen.units = units
    /\ lastHistory = "rows" => chart.rows = "rows" /\ chart.units = units
    /\ lastHistory = "empty" => chart.rows = "empty" /\ chart.note # "hidden"
=============================================================================
