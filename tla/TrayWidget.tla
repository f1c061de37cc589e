----------------------------- MODULE TrayWidget ------------------------------
(***************************************************************************)
(* The tray widget of weather_tray.py: every tick starts a thread that     *)
(* asks for /current and leaves a callback with the GTK main loop, which   *)
(* runs the callbacks in the order they were left.                         *)
(***************************************************************************)
EXTENDS Polling, Sequences

VARIABLES server,   \* what an answer of now would be: see Answers
          idle,     \* the callbacks left with GLib.idle_add
          shown     \* what the label and the popup were last set from

pollVars == <<timer, owed, quiet>>
vars == <<pollVars, server, idle, shown>>

(* A payload with an outdoor temperature, one without, an error; "start"   *)
(* is the label of __init__.                                               *)
Answers == {"reading", "OUTDOOR SENSOR OFFLINE", "DEVICE OFFLINE"}

Callbacks == [of : Answers \cup {"start"}, age : 0 .. Outdated]

TypeOK ==
    /\ PollingTypeOK
    /\ server \in Answers
    /\ idle \in Seq(Callbacks)
    /\ shown \in Callbacks

Init ==
    /\ PollingInit
    /\ server \in Answers
    /\ idle = << >>
    /\ shown = [of |-> "start", age |-> 0]

ServerChanges ==
    /\ server' \in Answers \ {server}
    /\ UNCHANGED <<pollVars, idle, shown>>

(* _tick *)
TickFires == Ask /\ UNCHANGED <<server, idle, shown>>

(* A slip: an error is only logged. *)
SilentError(age) ==
    IF server = "DEVICE OFFLINE" THEN << >> ELSE <<[of |-> server, age |-> age]>>

(* The callback a thread leaves: _render, or _render_offline and why. *)
CallbackOf(age) == <<[of |-> server, age |-> age]>>

(* _fetch_and_render: each thread ends when its answer comes. *)
ThreadEnds ==
    /\ \E age \in owed : Ends(age) /\ idle' = idle \o CallbackOf(age)
    /\ UNCHANGED <<server, shown>>

(* _render and _render_offline set the label and the popup. *)
Render ==
    /\ idle # << >>
    /\ shown' = Head(idle)
    /\ idle' = Tail(idle)
    /\ UNCHANGED <<pollVars, server>>

(* The main loop runs what is idle before more time passes. *)
Tick ==
    /\ idle = << >>
    /\ TimePasses
    /\ shown' = [shown EXCEPT !.age = Older(shown.age)]
    /\ UNCHANGED <<server, idle>>

Run == TickFires \/ ThreadEnds \/ Render \/ Tick

Next == ServerChanges \/ Run

Spec == Init /\ [][Next]_vars /\ WF_vars(Run)

-----------------------------------------------------------------------------
(* The temperature beside the icon is never older than the polling can     *)
(* explain, whatever the order in which the threads end and whichever of   *)
(* them fail (weather_tray.py:349-379).                                    *)
TrayIsRecent == shown.of = "reading" => shown.age <= Lag

(* An outage that lasts shows, and so does the end of it: the answers that *)
(* are still under way cannot keep the label for good (weather_tray.py:355-369). *)
TrayFollowsServer ==
    /\ <>[](server # "reading") => <>[](shown.of # "reading")
    /\ <>[](server = "reading") => <>[](shown.of = "reading")
=============================================================================
