-------------------------- MODULE MCLiveInstrument --------------------------
(* Two concurrent requests, the outdoor unit and one further sensor. *)
EXTENDS LiveInstrument, TLC

CONSTANTS r1, r2, aux

MCRequests == {r1, r2}
MCOthers   == {aux}
RequestSymmetry == Permutations(MCRequests)
=============================================================================
