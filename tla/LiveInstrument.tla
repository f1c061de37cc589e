--------------------------- MODULE LiveInstrument ---------------------------
(***************************************************************************)
(* The live read path with history logging off (the default): the request  *)
(* handlers of routes/current.py and, for the outdoor unit, those of       *)
(* /airport, /astronomy and /external, over outdoor_source.py, the TTL     *)
(* cache and the freshness guard of derivations/wind.py.                   *)
(*                                                                         *)
(* A handler reads server_time first and only then awaits its polls.       *)
(* get_current awaits the outdoor row, then gathers the other sensors; it  *)
(* records what it learned in app.state.last_seen, which is also what it   *)
(* falls back on when a poll answers None.  The call of get_or_fetch that  *)
(* request r makes for sensor k is the slot <<r, k>> of the cache.         *)
(***************************************************************************)
EXTENDS Naturals, Sequences, FiniteSets

CONSTANTS Requests,   \* concurrent requests
          outdoor,    \* the outdoor unit, which carries the anemometer
          Others,     \* the other display sensors
          TTL,        \* cache.ttl_seconds
          MaxAge,     \* wind.max_age_s
          MaxTime,    \* bound on the clock of a checked instance
          NoEntry, NoCall, NoValue, NoReading

ASSUME SensorAssumption == outdoor \notin Others
ASSUME TimeAssumption == TTL \in Nat /\ MaxAge \in Nat /\ MaxTime \in Nat

Keys  == {outdoor} \cup Others
Calls == Requests \X Keys

(* What SensorSource.poll returns: a payload, or None when unreachable. *)
Payloads == {"reading", "none"}

VARIABLES clock, entries, owner, waiters, pc, now, answer,  \* see TTLCache
          kind,         \* per request: the handler that serves it
          phase,        \* per request: where the handler is
          server_time,  \* per request: its local `server_time`
          reply,        \* per request: the readings it will send
          last_seen,    \* app.state.last_seen
          delivered,    \* newest outdoor reading that any client was sent
          floor         \* per request: `delivered` when it started

cacheVars == <<clock, entries, owner, waiters, pc, now, answer>>
localVars == <<kind, server_time, floor>>
vars == <<cacheVars, kind, phase, server_time, reply, last_seen, delivered,
          floor>>

Cache == INSTANCE TTLCache WITH
             KeyOf <- [c \in Calls |-> c[2]], PromptLoop <- FALSE

(* A payload with the timestamp a handler gave it; `polled` is when the    *)
(* poll that brought it was really begun.                                  *)
Readings == [polled : Nat, stamp : Nat]

ASSUME AbsenceAssumption ==
    /\ NoCall \notin Calls /\ NoEntry \notin Cache!Entries /\ NoValue \notin Cache!Values
    /\ NoReading \notin Readings

(* get_current, get_current_one for another sensor, and every handler that *)
(* only wants the outdoor row.                                             *)
Kinds == {"current", "outdoor"} \cup Others

TypeOK ==
    /\ Cache!TypeOK
    /\ kind \in [Requests -> Kinds]
    /\ phase \in [Requests -> {"idle", "outdoor", "one", "others", "sent", "failed"}]
    /\ server_time \in [Requests -> Nat]
    /\ reply \in [Requests -> [Keys -> Readings \cup {NoReading}]]
    /\ last_seen \in [Keys -> Readings \cup {NoReading}]
    /\ delivered \in Nat
    /\ floor \in [Requests -> Nat]

NoReply == [k \in Keys |-> NoReading]

Init ==
    /\ Cache!Init
    /\ kind = [r \in Requests |-> "current"]
    /\ phase = [r \in Requests |-> "idle"]
    /\ server_time = [r \in Requests |-> 0]
    /\ reply = [r \in Requests |-> NoReply]
    /\ last_seen = [k \in Keys |-> NoReading]
    /\ delivered = 0
    /\ floor = [r \in Requests |-> 0]

-----------------------------------------------------------------------------
(* A slip: what is recorded is stamped when the poll is over. *)
StampOnCompletion(r) == clock

(* A slip: the time is left out. *)
NoStamp(r) == NoReading

(* A reading counts as taken at the server_time of the request. *)
StampOf(r) == server_time[r]

(* What last_seen says of k once request r has the result `value` of its   *)
(* poll: a payload replaces it, None leaves it.                            *)
Noted(r, k, value) ==
    IF value.payload = "none" THEN last_seen[k]
    ELSE [polled |-> value.polled, stamp |-> StampOf(r)]

(* A slip: a quiet sensor is given the time of the request that fell back  *)
(* on its last payload, so that it never ages.                             *)
RestampQuiet(r, k, value) ==
    IF value.payload = "none" /\ last_seen[k] # NoReading
    THEN [last_seen[k] EXCEPT !.stamp = server_time[r]]
    ELSE Noted(r, k, value)

(* The reading shown: the fresh payload, or the last one with its own time. *)
Shown(r, k, value) == Noted(r, k, value)

(* The steps of poll_with_cache on behalf of request r. *)
Poll(r, k) ==
    LET c == <<r, k>> IN
    \/ Cache!ReturnFast(c)
    \/ Cache!MissAndFetch(c)
    \/ Cache!MissAndWait(c)
    \/ Cache!ResumeAndReturn(c)
    \/ Cache!ResumeAndFetch(c)
    \/ Cache!FetchReturns(c)
    \/ Cache!FetchRaises(c)

StartRequest(r) ==
    /\ phase[r] = "idle"
    /\ \E h \in Kinds :
         /\ kind' = [kind EXCEPT ![r] = h]
         /\ phase' = [phase EXCEPT ![r] = IF h \in Others THEN "one" ELSE "outdoor"]
    /\ server_time' = [server_time EXCEPT ![r] = clock]
    /\ floor' = [floor EXCEPT ![r] = delivered]
    /\ UNCHANGED <<cacheVars, reply, last_seen, delivered>>

(* The handler goes on waiting for its poll. *)
KeepWaiting(r, k) ==
    /\ pc'[<<r, k>>] \in {"waiting", "fetching"}
    /\ UNCHANGED <<phase, reply, last_seen>>

(* The result of a poll is recorded and put into the reply. *)
Record(r, k, value) ==
    /\ last_seen' = [last_seen EXCEPT ![k] = Noted(r, k, value)]
    /\ reply' = [reply EXCEPT ![r][k] = Shown(r, k, value)]

(* outdoor_row_for_request and what follows up to the next await. *)
OutdoorRow(r) ==
    LET c == <<r, outdoor>> IN
    /\ phase[r] = "outdoor"
    /\ Poll(r, outdoor)
    /\ \/ KeepWaiting(r, outdoor)
       \/ /\ pc'[c] = "raised"                  \* propagates: HTTP 500
          /\ phase' = [phase EXCEPT ![r] = "failed"]
          /\ UNCHANGED <<reply, last_seen>>
       \/ /\ pc'[c] = "done"
          /\ Record(r, outdoor, answer'[c])
          /\ phase' = [phase EXCEPT ![r] =
                         IF kind[r] = "current" THEN "others" ELSE "sent"]
    /\ UNCHANGED <<localVars, delivered>>

(* get_current_one for a sensor other than the outdoor unit: an exception  *)
(* counts as None.                                                         *)
OneSensor(r) ==
    LET k == kind[r]
        c == <<r, k>>
    IN
    /\ phase[r] = "one"
    /\ Poll(r, k)
    /\ \/ KeepWaiting(r, k)
       \/ /\ pc'[c] = "raised"
          /\ reply' = [reply EXCEPT ![r][k] = last_seen[k]]
          /\ phase' = [phase EXCEPT ![r] = "sent"]
          /\ UNCHANGED last_seen
       \/ /\ pc'[c] = "done"
          /\ Record(r, k, answer'[c])
          /\ phase' = [phase EXCEPT ![r] = "sent"]
    /\ UNCHANGED <<localVars, delivered>>

(* One of the polls that get_current gathers; its result waits for the rest. *)
GatheredPoll(r, k) ==
    /\ phase[r] = "others"
    /\ Poll(r, k)
    /\ UNCHANGED <<localVars, phase, reply, last_seen, delivered>>

(* gather(..., return_exceptions=True) has every result. *)
Gathered(r) == \A k \in Others : pc[<<r, k>>] \in {"done", "raised"}

(* All gathered polls are over: only now are they recorded. *)
RecordOthers(r) ==
    LET Answered(k) == k \in Others /\ pc[<<r, k>>] = "done" IN
    /\ phase[r] = "others"
    /\ Gathered(r)
    /\ last_seen' = [k \in Keys |->
                       IF Answered(k) THEN Noted(r, k, answer[<<r, k>>])
                       ELSE last_seen[k]]
    /\ reply' = [reply EXCEPT ![r] = [k \in Keys |->
                   IF k \in Others THEN last_seen'[k] ELSE @[k]]]
    /\ phase' = [phase EXCEPT ![r] = "sent"]
    /\ UNCHANGED <<cacheVars, localVars, delivered>>

(* The response leaves; the handler's locals and its calls are gone. *)
Respond(r) ==
    /\ phase[r] \in {"sent", "failed"}
    /\ phase' = [phase EXCEPT ![r] = "idle"]
    /\ delivered' = LET sent == reply[r][outdoor] IN
                    IF sent # NoReading /\ sent.polled > delivered
                    THEN sent.polled ELSE delivered
    /\ reply' = [reply EXCEPT ![r] = NoReply]
    /\ kind' = [kind EXCEPT ![r] = "current"]
    /\ server_time' = [server_time EXCEPT ![r] = 0]
    /\ floor' = [floor EXCEPT ![r] = 0]
    /\ pc' = [c \in Calls |-> IF c[1] = r THEN "idle" ELSE pc[c]]
    /\ now' = [c \in Calls |-> IF c[1] = r THEN 0 ELSE now[c]]
    /\ answer' = [c \in Calls |-> IF c[1] = r THEN NoValue ELSE answer[c]]
    /\ UNCHANGED <<clock, entries, owner, waiters, last_seen>>

Tick ==
    /\ Cache!Tick
    /\ UNCHANGED <<kind, phase, server_time, reply, last_seen, delivered, floor>>

Next ==
    \/ \E r \in Requests :
         \/ StartRequest(r)
         \/ OutdoorRow(r)
         \/ OneSensor(r)
         \/ \E k \in Others : GatheredPoll(r, k)
         \/ RecordOthers(r)
         \/ Respond(r)
    \/ Tick

Spec == Init /\ [][Next]_vars

-----------------------------------------------------------------------------
(* A slip: the guard is left out. *)
NeverStale(r) == FALSE

(* resolve_wind: an age of exactly max_age_s is still fresh. *)
WindStale(r) == server_time[r] - reply[r][outdoor].stamp > MaxAge

(* The handler has resolved the field wind and it is not nulled. *)
WindShown(r) ==
    /\ phase[r] \in {"others", "sent"}
    /\ reply[r][outdoor] # NoReading
    /\ ~WindStale(r)

-----------------------------------------------------------------------------
(* Properties *)

(* outdoor_source.py stamps a payload with the server_time of the request  *)
(* that got it, even when the payload came out of the cache or the request *)
(* queued for it: however those interleave, the stamp flatters a reading   *)
(* by less than the TTL of the cache.                                      *)
StampWithinTTL ==
    \A k \in Keys :
        last_seen[k] # NoReading =>
            last_seen[k].stamp < last_seen[k].polled + TTL

(* outdoor_source.py:58, "a sensor that goes quiet ages": a wind that is   *)
(* shown as current was polled less than max_age_s and one TTL before the  *)
(* server_time of the response, through any chain of cache hits, queued    *)
(* requests and fallbacks on last_seen.                                    *)
WindIsBounded ==
    \A r \in Requests :
        WindShown(r) =>
            server_time[r] < reply[r][outdoor].polled + MaxAge + TTL

(* What clients are told of the outdoor unit never goes back in time: a    *)
(* request that starts after a response was sent is answered with a        *)
(* reading at least as new, whoever polled it and in whatever order the    *)
(* handlers wrote last_seen.                                               *)
NoTimeTravel ==
    \A r \in Requests :
        reply[r][outdoor] # NoReading =>
            reply[r][outdoor].polled >= floor[r]

(* config.py:60, "wind older than this is treated as stale [...], never    *)
(* presented as current": a wind that is shown was polled at most          *)
(* max_age_s before the server_time of the response.                       *)
WindWithinMaxAge ==
    \A r \in Requests :
        WindShown(r) => server_time[r] <= reply[r][outdoor].polled + MaxAge
=============================================================================
