--------------------------- MODULE ClientConstants ---------------------------
(* How often the clients ask, and how long they may have to wait: the      *)
(* constants of Polling, Dashboard and TrayWidget.                         *)
EXTENDS Naturals

CONSTANTS
    Interval,     \* refresh_interval_seconds of the clients
    MaxAnswer,    \* the longest a request takes to end, one way or the other
    MaxHistory    \* bounds the requests for the history under way

ASSUME PollingAssumption == Interval \in Nat \ {0} /\ MaxAnswer \in Nat

ASSUME HistoryAssumption == MaxHistory \in Nat \ {0}
=============================================================================
