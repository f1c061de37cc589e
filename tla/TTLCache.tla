------------------------------ MODULE TTLCache ------------------------------
(***************************************************************************)
(* The TTL cache in front of the sensors: weather_server/cache.py.         *)
(*                                                                         *)
(* get_or_fetch runs on one asyncio event loop, so the code between two    *)
(* awaits that suspend is one step here.  The body under _meta_lock never  *)
(* suspends, hence _get_lock never waits and adds no state: the per-key    *)
(* asyncio.Lock is simply there.  Such a lock is a flag and a FIFO queue;  *)
(* release() clears the flag and schedules the first waiter, and a call    *)
(* that arrives while the queue is non-empty joins it.                     *)
(*                                                                         *)
(* A call of get_or_fetch is a slot in Calls, used again once its answer   *)
(* has been taken.  The clock is time.monotonic() in whole ticks.          *)
(***************************************************************************)
EXTENDS Naturals, Sequences, FiniteSets

CONSTANTS Calls,     \* concurrent calls of get_or_fetch
          Keys,      \* cache keys: the ids of the polled sensors
          KeyOf,     \* the key each call asks for
          Payloads,  \* what a fetch may return (a reading, or None: unreachable)
          TTL,       \* seconds an entry stays fresh
          MaxTime,   \* bound on the clock of a checked instance
          PromptLoop, \* the event loop resumes a call within the tick that readied it
          NoEntry,   \* the key is not in _entries
          NoCall,    \* the lock is free
          NoValue    \* the call has no answer yet, or the fetch raised

ASSUME KeyAssumption == KeyOf \in [Calls -> Keys]
ASSUME TimeAssumption == TTL \in Nat /\ MaxTime \in Nat
ASSUME LoopAssumption == PromptLoop \in BOOLEAN

VARIABLES clock,    \* time.monotonic()
          entries,  \* self._entries
          owner,    \* per key: the call inside `async with lock`
          waiters,  \* per key: the queue of the asyncio.Lock
          pc,       \* per call: where it is in get_or_fetch
          now,      \* per call: its local `now`
          answer    \* per call: what it returned

vars == <<clock, entries, owner, waiters, pc, now, answer>>

(* The answer to a poll, tagged with the time the poll was begun. *)
Values == [payload : Payloads, polled : Nat]

(* _Entry *)
Entries == [value : Values, expires_at : Nat]

ASSUME AbsenceAssumption ==
    NoCall \notin Calls /\ NoEntry \notin Entries /\ NoValue \notin Values

TypeOK ==
    /\ clock \in Nat
    /\ entries \in [Keys -> Entries \cup {NoEntry}]
    /\ owner \in [Keys -> Calls \cup {NoCall}]
    /\ waiters \in [Keys -> Seq(Calls)]
    /\ pc \in [Calls -> {"idle", "waiting", "fetching", "done", "raised"}]
    /\ now \in [Calls -> Nat]
    /\ answer \in [Calls -> Values \cup {NoValue}]

Init ==
    /\ clock = 0
    /\ entries = [k \in Keys |-> NoEntry]
    /\ owner = [k \in Keys |-> NoCall]
    /\ waiters = [k \in Keys |-> << >>]
    /\ pc = [c \in Calls |-> "idle"]
    /\ now = [c \in Calls |-> 0]
    /\ answer = [c \in Calls |-> NoValue]

-----------------------------------------------------------------------------
(* `entry is not None and entry.expires_at > now`, read at this instant. *)
Fresh(k) == entries[k] # NoEntry /\ entries[k].expires_at > clock

(* A slip: the second look, under the lock, is left out. *)
NeverFresh(k) == FALSE

(* The same test once the lock is held: the entry may have been filled by  *)
(* the call that held it before.                                           *)
FreshUnderLock(k) == Fresh(k)

(* A slip: fetches are not serialized. *)
NoLock(k) == TRUE

(* asyncio.Lock.acquire does not suspend. *)
Uncontended(k) == owner[k] = NoCall /\ waiters[k] = << >>

(* A slip: the lifetime is counted from the arrival of the answer. *)
ExpiresAfterFetch(c) == clock + TTL

(* A slip: the entry is stored without a time. *)
NeverExpires(c) == NoEntry

(* The lifetime counts from the `now` read before the fetch. *)
ExpiresAt(c) == now[c] + TTL

(* get_or_fetch ends and its locals are gone. *)
Return(c, value) ==
    /\ pc' = [pc EXCEPT ![c] = "done"]
    /\ now' = [now EXCEPT ![c] = 0]
    /\ answer' = [answer EXCEPT ![c] = value]

(* `await fetcher()` is about to suspend; `now` was read just before. *)
BeginFetch(c) ==
    /\ pc' = [pc EXCEPT ![c] = "fetching"]
    /\ now' = [now EXCEPT ![c] = clock]
    /\ owner' = [owner EXCEPT ![KeyOf[c]] = c]
    /\ UNCHANGED <<clock, entries, answer>>

(* The first look at the entry, before any lock. *)
ReturnFast(c) ==
    /\ pc[c] = "idle"
    /\ Fresh(KeyOf[c])
    /\ Return(c, entries[KeyOf[c]].value)
    /\ UNCHANGED <<clock, entries, owner, waiters>>

(* A miss with the lock free: the second look happens in the same step. *)
MissAndFetch(c) ==
    /\ pc[c] = "idle"
    /\ ~Fresh(KeyOf[c])
    /\ Uncontended(KeyOf[c])
    /\ BeginFetch(c)
    /\ UNCHANGED waiters

(* A miss while another call holds the lock or is queued for it. *)
MissAndWait(c) ==
    /\ pc[c] = "idle"
    /\ ~Fresh(KeyOf[c])
    /\ ~Uncontended(KeyOf[c])
    /\ pc' = [pc EXCEPT ![c] = "waiting"]
    /\ now' = [now EXCEPT ![c] = clock]
    /\ waiters' = [waiters EXCEPT ![KeyOf[c]] = Append(@, c)]
    /\ UNCHANGED <<clock, entries, owner, answer>>

(* The lock was released and c is the waiter the event loop resumes. *)
Resumed(c) ==
    LET k == KeyOf[c] IN
    /\ waiters[k] # << >>
    /\ c = Head(waiters[k])
    /\ owner[k] = NoCall
    /\ waiters' = [waiters EXCEPT ![k] = Tail(@)]

(* The second look, under the lock, finds a fresh entry: it is returned    *)
(* and the lock is released, which leaves it to the next waiter.           *)
ResumeAndReturn(c) ==
    /\ Resumed(c)
    /\ FreshUnderLock(KeyOf[c])
    /\ Return(c, entries[KeyOf[c]].value)
    /\ UNCHANGED <<clock, entries, owner>>

ResumeAndFetch(c) ==
    /\ Resumed(c)
    /\ ~FreshUnderLock(KeyOf[c])
    /\ BeginFetch(c)

(* The fetch returns: the answer is stored and handed out. *)
FetchReturns(c) ==
    LET k == KeyOf[c] IN
    /\ pc[c] = "fetching"
    /\ \E p \in Payloads :
         LET value == [payload |-> p, polled |-> now[c]] IN
         /\ entries' = [entries EXCEPT ![k] =
                           [value |-> value, expires_at |-> ExpiresAt(c)]]
         /\ Return(c, value)
    /\ owner' = [owner EXCEPT ![k] = NoCall]
    /\ UNCHANGED <<clock, waiters>>

(* A slip: the lock is released on success only. *)
RaiseHoldingLock(c) ==
    /\ pc[c] = "fetching"
    /\ pc' = [pc EXCEPT ![c] = "raised"]
    /\ UNCHANGED <<clock, entries, owner, waiters, now, answer>>

(* The fetch raises: nothing is stored, `async with` releases the lock. *)
FetchRaises(c) ==
    /\ pc[c] = "fetching"
    /\ pc' = [pc EXCEPT ![c] = "raised"]
    /\ now' = [now EXCEPT ![c] = 0]
    /\ owner' = [owner EXCEPT ![KeyOf[c]] = NoCall]
    /\ UNCHANGED <<clock, entries, waiters, answer>>

(* The caller takes the answer or the exception; the slot is free again. *)
Leave(c) ==
    /\ pc[c] \in {"done", "raised"}
    /\ pc' = [pc EXCEPT ![c] = "idle"]
    /\ answer' = [answer EXCEPT ![c] = NoValue]
    /\ UNCHANGED <<clock, entries, owner, waiters, now>>

invalidate(k) ==
    /\ entries[k] # NoEntry
    /\ entries' = [entries EXCEPT ![k] = NoEntry]
    /\ UNCHANGED <<clock, owner, waiters, pc, now, answer>>

clear ==
    /\ \E k \in Keys : entries[k] # NoEntry
    /\ entries' = [k \in Keys |-> NoEntry]
    /\ UNCHANGED <<clock, owner, waiters, pc, now, answer>>

Tick ==
    /\ clock < MaxTime
    /\ PromptLoop => \A k \in Keys : owner[k] = NoCall => waiters[k] = << >>
    /\ clock' = clock + 1
    /\ UNCHANGED <<entries, owner, waiters, pc, now, answer>>

Call(c) ==
    \/ ReturnFast(c)
    \/ MissAndFetch(c)
    \/ MissAndWait(c)
    \/ ResumeAndReturn(c)
    \/ ResumeAndFetch(c)
    \/ FetchReturns(c)
    \/ FetchRaises(c)
    \/ Leave(c)

Next ==
    \/ \E c \in Calls : Call(c)
    \/ \E k \in Keys : invalidate(k)
    \/ clear
    \/ Tick

Spec == Init /\ [][Next]_vars

(* The event loop runs what is ready, and a poll ends: the HTTP client     *)
(* gives up after http_timeout_seconds.                                    *)
Fairness ==
    \A c \in Calls :
        /\ WF_vars(ResumeAndReturn(c) \/ ResumeAndFetch(c))
        /\ WF_vars(FetchReturns(c) \/ FetchRaises(c))

FairSpec == Spec /\ Fairness
-----------------------------------------------------------------------------
(* Properties *)

(* cache.py, "serializes concurrent fetches for the same key": no two      *)
(* fetches of a key are ever outstanding together.                         *)
SingleFlight ==
    \A c, d \in Calls :
        pc[c] = "fetching" /\ pc[d] = "fetching" /\ KeyOf[c] = KeyOf[d] => c = d

(* cache.py, "keeping data effectively fresh": an answer that comes out of *)
(* the cache is an answer to a poll begun less than TTL ago, however long  *)
(* that poll took and however long the caller queued for the lock.         *)
AnswersAreCurrent ==
    [][\A c \in Calls :
         pc[c] \in {"idle", "waiting"} /\ pc'[c] = "done" =>
             clock < answer'[c].polled + TTL]_vars

(* cache.py, "deduplicate concurrent requests": what the lock and the two  *)
(* looks at the entry achieve together is that a sensor that answers is    *)
(* not polled again until TTL has passed since that poll was begun, no     *)
(* matter how many calls were queued behind it.                            *)
NoEarlyRepoll ==
    [][\A c \in Calls :
         pc[c] # "fetching" /\ pc'[c] = "fetching" =>
             LET e == entries[KeyOf[c]] IN
             e # NoEntry => e.value.polled + TTL <= clock]_vars

(* A slow poll never overwrites the answer of a later one: the answers of  *)
(* a key are stored in the order their polls were begun.                   *)
PollsLandInOrder ==
    [][\A k \in Keys :
         entries[k] # NoEntry /\ entries'[k] # NoEntry =>
             entries[k].value.polled <= entries'[k].value.polled]_vars

(* A call that queues behind a slow or failing poll still ends: neither an *)
(* exception in the fetcher nor a stream of new calls leaves it waiting.   *)
EveryCallEnds ==
    \A c \in Calls : pc[c] = "waiting" ~> pc[c] \in {"done", "raised"}

(* cache.py:42, "the upstream is hit exactly once during a cache miss":    *)
(* a call still waiting when a poll begun since its arrival has answered   *)
(* does not poll again itself.                                             *)
ExactlyOnePollPerMiss ==
    [][\A c \in Calls :
         pc[c] = "waiting" /\ pc'[c] = "fetching" =>
             LET e == entries[KeyOf[c]] IN
             e # NoEntry => e.value.polled < now[c]]_vars

(* The cache as the promise sees it: a queued call is merely pending, and  *)
(* an entry has no expiry time, only the time its poll was begun.          *)
Status(c) ==
    CASE pc[c] = "waiting"  -> "pending"
      [] pc[c] = "fetching" -> "polling"
      [] OTHER              -> pc[c]

Last(k) == IF entries[k] = NoEntry THEN NoValue ELSE entries[k].value

Promise == INSTANCE CachePromise WITH
    None   <- NoValue,
    time   <- clock,
    last   <- [k \in Keys |-> Last(k)],
    status <- [c \in Calls |-> Status(c)],
    begun  <- now,
    result <- answer

(* The locks, the queue, the two looks at the entry and the expiry times   *)
(* of get_or_fetch implement the promise.                                  *)
ImplementsPromise == Promise!Spec
=============================================================================
