------------------------------ MODULE Polling --------------------------------
(***************************************************************************)
(* How both clients ask the server: a timer that begins a request every    *)
(* Interval and waits for none of those before it (setInterval of app.js,  *)
(* GLib.timeout_add_seconds of weather_tray.py).  Requests are told apart  *)
(* by their age; they end in any order, each within MaxAnswer.             *)
(***************************************************************************)
EXTENDS ClientConstants, TLAPS

(* The oldest an answer can be while the polling goes well: it was         *)
(* MaxAnswer old when it came, and the next came Interval + MaxAnswer on.  *)
Lag == 2 * MaxAnswer + Interval

Outdated == Lag + 1            \* an age too large to matter how large

Older(age) == IF age < Outdated THEN age + 1 ELSE Outdated

VARIABLES timer,   \* since the last request was begun
          owed,    \* the ages of the requests without an answer
          quiet    \* since a request last ended, or since the start

PollingTypeOK ==
    /\ timer \in 0 .. Interval
    /\ owed \subseteq 0 .. MaxAnswer
    /\ quiet \in 0 .. Outdated

PollingInit == timer = 0 /\ owed = {0} /\ quiet = 0

Ask ==
    /\ timer = Interval
    /\ timer' = 0
    /\ owed' = owed \cup {0}
    /\ UNCHANGED quiet

Ends(age) ==
    /\ owed' = owed \ {age}
    /\ quiet' = 0
    /\ UNCHANGED timer

(* Time waits for the timer and for a request that has reached its limit. *)
TimePasses ==
    /\ timer < Interval /\ MaxAnswer \notin owed
    /\ timer' = timer + 1
    /\ owed' = {age + 1 : age \in owed}
    /\ quiet' = Older(quiet)

-----------------------------------------------------------------------------
(* What both clients rest on: a request ends at least every Interval and   *)
(* MaxAnswer.  Some request was begun within Interval of the last that     *)
(* ended, and is still owed; it cannot be owed for longer than MaxAnswer.  *)

(* Either no request was begun since one last ended, or the first that was *)
(* is still owed.                                                          *)
SomeAnswerIsDue ==
    quiet <= timer \/ \E age \in owed : quiet <= age + Interval

PollingInv == PollingTypeOK /\ SomeAnswerIsDue

(* An age that can still grow grows by one. *)
LEMMA OlderFacts ==
    ASSUME NEW age \in 0 .. Outdated
    PROVE  /\ Older(age) \in 0 .. Outdated
           /\ Older(age) <= age + 1
           /\ age < Outdated => Older(age) = age + 1
  BY PollingAssumption DEF Older, Outdated, Lag

LEMMA PollingStarts == PollingInit => PollingInv
  BY PollingAssumption
  DEF PollingInit, PollingInv, PollingTypeOK, SomeAnswerIsDue, Outdated, Lag

(* However the answers overtake one another, one comes in time             *)
(* (app.js:660-661, weather_tray.py:346-353).                              *)
LEMMA QuietIsBounded == PollingInv => quiet <= Interval + MaxAnswer
  BY PollingAssumption DEF PollingInv, PollingTypeOK, SomeAnswerIsDue

LEMMA AskKeeps == PollingInv /\ Ask => PollingInv'
<1> SUFFICES ASSUME PollingInv, Ask PROVE PollingInv'
  OBVIOUS
<1>1. PollingTypeOK'
  BY PollingAssumption DEF PollingInv, PollingTypeOK, Ask
<1>2. SomeAnswerIsDue'
  <2>1. CASE quiet <= timer
    <3>1. 0 \in owed' /\ quiet' <= 0 + Interval
      BY <2>1, PollingAssumption DEF PollingInv, PollingTypeOK, Ask
    <3> QED BY <3>1 DEF SomeAnswerIsDue
  <2>2. CASE \E age \in owed : quiet <= age + Interval
    BY <2>2 DEF SomeAnswerIsDue, Ask
  <2> QED BY <2>1, <2>2 DEF PollingInv, SomeAnswerIsDue
<1> QED BY <1>1, <1>2 DEF PollingInv

LEMMA EndsKeeps == ASSUME NEW age \in owed PROVE PollingInv /\ Ends(age) => PollingInv'
  BY PollingAssumption
  DEF PollingInv, PollingTypeOK, SomeAnswerIsDue, Ends, Outdated, Lag

LEMMA TimePassesKeeps == PollingInv /\ TimePasses => PollingInv'
<1> SUFFICES ASSUME PollingInv, TimePasses PROVE PollingInv'
  OBVIOUS
<1>1. quiet' \in 0 .. Outdated /\ quiet' <= quiet + 1
  BY OlderFacts DEF PollingInv, PollingTypeOK, TimePasses
<1>2. PollingTypeOK'
  BY <1>1, PollingAssumption DEF PollingInv, PollingTypeOK, TimePasses
<1>3. SomeAnswerIsDue'
  <2>1. CASE quiet <= timer
    BY <1>1, <2>1, PollingAssumption
    DEF PollingInv, PollingTypeOK, TimePasses, SomeAnswerIsDue, Outdated, Lag
  <2>2. CASE \E age \in owed : quiet <= age + Interval
    <3>1. PICK age \in owed : quiet <= age + Interval
      BY <2>2
    <3>2. age + 1 \in owed' /\ quiet' <= (age + 1) + Interval
      BY <1>1, <3>1, PollingAssumption
      DEF PollingInv, PollingTypeOK, TimePasses, Outdated, Lag
    <3> QED BY <3>2 DEF SomeAnswerIsDue
  <2> QED BY <2>1, <2>2 DEF PollingInv, SomeAnswerIsDue
<1> QED BY <1>2, <1>3 DEF PollingInv

LEMMA PollingRests == PollingInv /\ UNCHANGED <<timer, owed, quiet>> => PollingInv'
  BY DEF PollingInv, PollingTypeOK, SomeAnswerIsDue
=============================================================================
