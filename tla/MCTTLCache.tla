----------------------------- MODULE MCTTLCache -----------------------------
(* Three calls of get_or_fetch that meet on the key of the outdoor sensor: *)
(* one can hold the lock while two queue, in either order.                 *)
EXTENDS TTLCache

CONSTANTS c1, c2, c3, outdoor, reading

MCCalls == {c1, c2, c3}
MCKeys  == {outdoor}
MCKeyOf == [c \in MCCalls |-> outdoor]
MCPayloads == {reading}
=============================================================================
