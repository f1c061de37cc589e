---------------------------- MODULE FeedPromise ------------------------------
(***************************************************************************)
(* What a reader of the external block is promised, whatever the upstream  *)
(* does: once there is an observation it is kept until the process ends,   *)
(* it only ever goes from fresh to stale by itself, and at one position    *)
(* every observation comes from the same station.                          *)
(***************************************************************************)
CONSTANTS Positions, Sources, Absent

VARIABLES up, block

vars == <<up, block>>

Observations == [position : Positions, source : Sources, stale : BOOLEAN]

Init == up = FALSE /\ block = Absent

Start == ~up /\ up' = TRUE /\ UNCHANGED block

Stop == up /\ up' = FALSE /\ block' = Absent

Refresh ==
    /\ up
    /\ block' \in Observations
    /\ block # Absent /\ block.position = block'.position => block.source = block'.source
    /\ UNCHANGED up

Expire ==
    /\ block # Absent
    /\ block' = [block EXCEPT !.stale = TRUE]
    /\ UNCHANGED up

Next == Start \/ Stop \/ Refresh \/ Expire

Spec == Init /\ [][Next]_vars
=============================================================================
