---------------------------- MODULE CachePromise ----------------------------
(***************************************************************************)
(* What TTLCache promises its callers, without locks, queues or expiry     *)
(* times.  Per key it keeps the last stored answer and the time its poll   *)
(* was begun.  A call is served an answer whose poll was begun less than   *)
(* TTL ago, or becomes the one call that polls the key; it polls only when *)
(* there is no such answer.                                                *)
(***************************************************************************)
EXTENDS Naturals

CONSTANTS Calls, Keys, KeyOf, Payloads, TTL, None

VARIABLES time,    \* the clock
          last,    \* per key: the last stored answer, or None
          status,  \* per call: "idle", "pending", "polling", "done", "raised"
          begun,   \* per call: when its poll was begun
          result   \* per call: the answer it was given, or None

vars == <<time, last, status, begun, result>>

Init ==
    /\ time = 0
    /\ last = [k \in Keys |-> None]
    /\ status = [c \in Calls |-> "idle"]
    /\ begun = [c \in Calls |-> 0]
    /\ result = [c \in Calls |-> None]

(* An answer is current while its poll was begun less than TTL ago. *)
Current(k) == last[k] # None /\ time < last[k].polled + TTL

Polled(k) == \E c \in Calls : KeyOf[c] = k /\ status[c] = "polling"

Pend(c) ==
    /\ status[c] = "idle"
    /\ ~Current(KeyOf[c])
    /\ status' = [status EXCEPT ![c] = "pending"]
    /\ begun' = [begun EXCEPT ![c] = time]
    /\ UNCHANGED <<time, last, result>>

Serve(c) ==
    /\ status[c] \in {"idle", "pending"}
    /\ Current(KeyOf[c])
    /\ status' = [status EXCEPT ![c] = "done"]
    /\ begun' = [begun EXCEPT ![c] = 0]
    /\ result' = [result EXCEPT ![c] = last[KeyOf[c]]]
    /\ UNCHANGED <<time, last>>

Poll(c) ==
    /\ status[c] \in {"idle", "pending"}
    /\ ~Current(KeyOf[c])
    /\ ~Polled(KeyOf[c])
    /\ status' = [status EXCEPT ![c] = "polling"]
    /\ begun' = [begun EXCEPT ![c] = time]
    /\ UNCHANGED <<time, last, result>>

Deliver(c) ==
    /\ status[c] = "polling"
    /\ \E p \in Payloads :
         LET value == [payload |-> p, polled |-> begun[c]] IN
         /\ last' = [last EXCEPT ![KeyOf[c]] = value]
         /\ result' = [result EXCEPT ![c] = value]
    /\ status' = [status EXCEPT ![c] = "done"]
    /\ begun' = [begun EXCEPT ![c] = 0]
    /\ UNCHANGED time

Fail(c) ==
    /\ status[c] = "polling"
    /\ status' = [status EXCEPT ![c] = "raised"]
    /\ begun' = [begun EXCEPT ![c] = 0]
    /\ UNCHANGED <<time, last, result>>

Release(c) ==
    /\ status[c] \in {"done", "raised"}
    /\ status' = [status EXCEPT ![c] = "idle"]
    /\ result' = [result EXCEPT ![c] = None]
    /\ UNCHANGED <<time, last, begun>>

Forget ==
    /\ \E forgotten \in SUBSET Keys :
         last' = [k \in Keys |-> IF k \in forgotten THEN None ELSE last[k]]
    /\ UNCHANGED <<time, status, begun, result>>

Advance ==
    /\ time' = time + 1
    /\ UNCHANGED <<last, status, begun, result>>

Step(c) ==
    Pend(c) \/ Serve(c) \/ Poll(c) \/ Deliver(c) \/ Fail(c) \/ Release(c)

Next == (\E c \in Calls : Step(c)) \/ Forget \/ Advance

Spec == Init /\ [][Next]_vars
=============================================================================
