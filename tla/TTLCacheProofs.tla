--------------------------- MODULE TTLCacheProofs ---------------------------
(***************************************************************************)
(* Proofs about TTLCache, for every set of calls and keys, every TTL and   *)
(* every bound on the clock.  IInv is the inductive invariant.             *)
(***************************************************************************)
EXTENDS TTLCache, TLAPS

(* The lock of k is held exactly by the call that is fetching k. *)
LockInv ==
    \A k \in Keys, c \in Calls :
        owner[k] = c <=> pc[c] = "fetching" /\ KeyOf[c] = k

(* The queue of k holds waiting calls of k, each once. *)
QueueInv ==
    \A k \in Keys :
        /\ \A i \in 1 .. Len(waiters[k]) :
             pc[waiters[k][i]] = "waiting" /\ KeyOf[waiters[k][i]] = k
        /\ \A i, j \in 1 .. Len(waiters[k]) :
             waiters[k][i] = waiters[k][j] => i = j

(* An entry lives for TTL from the time its poll was begun. *)
EntryInv ==
    \A k \in Keys :
        entries[k] # NoEntry =>
            /\ entries[k].expires_at = entries[k].value.polled + TTL
            /\ entries[k].value.polled <= clock

(* A fetch in progress was begun after the poll of the stored answer. *)
OrderInv ==
    \A c \in Calls :
        /\ now[c] <= clock
        /\ pc[c] = "fetching" /\ entries[KeyOf[c]] # NoEntry =>
             entries[KeyOf[c]].value.polled <= now[c]

IInv == TypeOK /\ LockInv /\ QueueInv /\ EntryInv /\ OrderInv

LEMMA QueuedAreCalls ==
  ASSUME TypeOK, NEW k \in Keys, NEW i \in 1 .. Len(waiters[k])
  PROVE  waiters[k][i] \in Calls
  BY DEF TypeOK

USE KeyAssumption, TimeAssumption, AbsenceAssumption

LEMMA InitIInv == Init => IInv
  BY DEF Init, IInv, TypeOK, LockInv, QueueInv, EntryInv, OrderInv

(* Each action of a call preserves the invariant. *)
LEMMA ReturnFastIInv ==
  ASSUME IInv, NEW c \in Calls, ReturnFast(c)
  PROVE  IInv'
  <1> USE DEF ReturnFast, Return, Fresh
  <1>1. TypeOK'
    BY DEF IInv, TypeOK, Entries
  <1>2. LockInv'
    BY DEF IInv, TypeOK, LockInv
  <1>3. QueueInv'
    BY QueuedAreCalls DEF IInv, TypeOK, QueueInv
  <1>4. EntryInv'
    BY DEF IInv, EntryInv
  <1>5. OrderInv'
    BY DEF IInv, TypeOK, OrderInv
  <1> QED
    BY <1>1, <1>2, <1>3, <1>4, <1>5 DEF IInv

LEMMA MissAndFetchIInv ==
  ASSUME IInv, NEW c \in Calls, MissAndFetch(c)
  PROVE  IInv'
  <1> USE DEF MissAndFetch, BeginFetch, Uncontended
  <1>1. TypeOK'
    BY DEF IInv, TypeOK
  <1>2. LockInv'
    BY DEF IInv, TypeOK, LockInv
  <1>3. QueueInv'
    BY QueuedAreCalls DEF IInv, TypeOK, QueueInv
  <1>4. EntryInv'
    BY DEF IInv, EntryInv
  <1>5. OrderInv'
    BY DEF IInv, TypeOK, OrderInv, EntryInv, Entries, Values
  <1> QED
    BY <1>1, <1>2, <1>3, <1>4, <1>5 DEF IInv

LEMMA MissAndWaitIInv ==
  ASSUME IInv, NEW c \in Calls, MissAndWait(c)
  PROVE  IInv'
  <1> USE DEF MissAndWait
  <1>1. TypeOK'
    BY DEF IInv, TypeOK
  <1>2. LockInv'
    BY DEF IInv, TypeOK, LockInv
  <1>3. QueueInv'
    BY QueuedAreCalls DEF IInv, TypeOK, QueueInv
  <1>4. EntryInv'
    BY DEF IInv, EntryInv
  <1>5. OrderInv'
    BY DEF IInv, TypeOK, OrderInv
  <1> QED
    BY <1>1, <1>2, <1>3, <1>4, <1>5 DEF IInv
(* Taking the head off a queue leaves its other waiters as they were. *)
LEMMA ResumedQueueInv ==
  ASSUME IInv, NEW c \in Calls, Resumed(c),
         NEW s, pc' = [pc EXCEPT ![c] = s]
  PROVE  QueueInv'
  <1> DEFINE q == waiters[KeyOf[c]]
  <1>1. /\ KeyOf[c] \in Keys
        /\ q \in Seq(Calls)
        /\ Len(q) >= 1
        /\ q[1] = c
        /\ waiters' = [waiters EXCEPT ![KeyOf[c]] = Tail(q)]
    BY DEF Resumed, IInv, TypeOK
  <1>2. /\ Len(Tail(q)) = Len(q) - 1
        /\ \A i \in 1 .. Len(Tail(q)) : Tail(q)[i] = q[i + 1]
    BY <1>1
  <1> SUFFICES ASSUME NEW k \in Keys
               PROVE  /\ \A i \in 1 .. Len(waiters'[k]) :
                           /\ pc'[waiters'[k][i]] = "waiting"
                           /\ KeyOf[waiters'[k][i]] = k
                      /\ \A i, j \in 1 .. Len(waiters'[k]) :
                           waiters'[k][i] = waiters'[k][j] => i = j
    BY DEF QueueInv
  <1>3. CASE k = KeyOf[c]
    <2>1. waiters'[k] = Tail(q)
      BY <1>1, <1>3 DEF IInv, TypeOK
    <2>2. \A i \in 1 .. Len(Tail(q)) : Tail(q)[i] \in Calls /\ Tail(q)[i] # c
      <3> SUFFICES ASSUME NEW i \in 1 .. Len(Tail(q))
                   PROVE  q[i + 1] \in Calls /\ q[i + 1] # q[1]
        BY <1>1, <1>2
      <3>1. i + 1 \in 1 .. Len(q) /\ 1 \in 1 .. Len(q) /\ i + 1 # 1
        BY <1>1, <1>2
      <3>2. q[i + 1] = q[1] => i + 1 = 1
        BY <1>1, <3>1 DEF IInv, QueueInv
      <3> QED
        BY <1>1, <3>1, <3>2
    <2>3. \A i \in 1 .. Len(Tail(q)) :
            pc[Tail(q)[i]] = "waiting" /\ KeyOf[Tail(q)[i]] = k
      BY <1>1, <1>2, <1>3 DEF IInv, QueueInv
    <2>4. \A i, j \in 1 .. Len(Tail(q)) : Tail(q)[i] = Tail(q)[j] => i = j
      BY <1>1, <1>2, <1>3 DEF IInv, QueueInv
    <2> QED
      BY <2>1, <2>2, <2>3, <2>4 DEF IInv, TypeOK
  <1>4. CASE k # KeyOf[c]
    <2>1. waiters'[k] = waiters[k]
      BY <1>1, <1>4 DEF IInv, TypeOK
    <2>2. \A i \in 1 .. Len(waiters[k]) :
            waiters[k][i] \in Calls /\ waiters[k][i] # c
      BY <1>4, QueuedAreCalls DEF IInv, QueueInv
    <2>3. \A i \in 1 .. Len(waiters[k]) :
            pc'[waiters[k][i]] = "waiting" /\ KeyOf[waiters[k][i]] = k
      BY <2>2 DEF IInv, TypeOK, QueueInv
    <2> QED
      BY <2>1, <2>3 DEF IInv, QueueInv
  <1> QED
    BY <1>3, <1>4

(* The call that is resumed was waiting. *)
LEMMA ResumedIsWaiting ==
  ASSUME IInv, NEW c \in Calls, Resumed(c)
  PROVE  pc[c] = "waiting"
  BY DEF Resumed, IInv, TypeOK, QueueInv

LEMMA ResumeAndReturnIInv ==
  ASSUME IInv, NEW c \in Calls, ResumeAndReturn(c)
  PROVE  IInv'
  <1> USE DEF ResumeAndReturn, Resumed, Return, FreshUnderLock, Fresh
  <1>1. TypeOK'
    BY DEF IInv, TypeOK, Entries
  <1>2. LockInv'
    <2>1. pc[c] = "waiting"
      BY ResumedIsWaiting
    <2> QED
      BY <2>1 DEF IInv, TypeOK, LockInv
  <1>3. QueueInv'
    BY ResumedQueueInv
  <1>4. EntryInv'
    BY DEF IInv, EntryInv
  <1>5. OrderInv'
    BY DEF IInv, TypeOK, OrderInv
  <1> QED
    BY <1>1, <1>2, <1>3, <1>4, <1>5 DEF IInv

LEMMA ResumeAndFetchIInv ==
  ASSUME IInv, NEW c \in Calls, ResumeAndFetch(c)
  PROVE  IInv'
  <1> USE DEF ResumeAndFetch, Resumed, BeginFetch
  <1>1. TypeOK'
    BY DEF IInv, TypeOK
  <1>2. LockInv'
    BY DEF IInv, TypeOK, LockInv
  <1>3. QueueInv'
    BY ResumedQueueInv
  <1>4. EntryInv'
    BY DEF IInv, EntryInv
  <1>5. OrderInv'
    BY DEF IInv, TypeOK, OrderInv, EntryInv, Entries, Values
  <1> QED
    BY <1>1, <1>2, <1>3, <1>4, <1>5 DEF IInv

LEMMA FetchReturnsIInv ==
  ASSUME IInv, NEW c \in Calls, FetchReturns(c)
  PROVE  IInv'
  <1> DEFINE k == KeyOf[c]
  <1>1. PICK p \in Payloads :
          LET value == [payload |-> p, polled |-> now[c]] IN
          /\ entries' = [entries EXCEPT ![k] =
                            [value |-> value, expires_at |-> ExpiresAt(c)]]
          /\ Return(c, value)
    BY DEF FetchReturns
  <1>2. /\ pc[c] = "fetching"
        /\ pc' = [pc EXCEPT ![c] = "done"]
        /\ now' = [now EXCEPT ![c] = 0]
        /\ owner' = [owner EXCEPT ![k] = NoCall]
        /\ UNCHANGED <<clock, waiters>>
    BY <1>1 DEF FetchReturns, Return
  <1>3. TypeOK'
    <2>1. [payload |-> p, polled |-> now[c]] \in Values
      BY DEF IInv, TypeOK, Values
    <2>2. [value |-> [payload |-> p, polled |-> now[c]],
           expires_at |-> ExpiresAt(c)] \in Entries
      BY <2>1 DEF IInv, TypeOK, Entries, ExpiresAt
    <2> QED
      BY <1>1, <1>2, <2>1, <2>2 DEF IInv, TypeOK, Return
  <1>4. LockInv'
    BY <1>2 DEF IInv, TypeOK, LockInv
  <1>5. QueueInv'
    BY <1>2, QueuedAreCalls DEF IInv, TypeOK, QueueInv
  <1>6. EntryInv'
    BY <1>1, <1>2 DEF IInv, TypeOK, EntryInv, OrderInv, ExpiresAt
  <1>7. OrderInv'
    BY <1>1, <1>2 DEF IInv, TypeOK, OrderInv, LockInv
  <1> QED
    BY <1>3, <1>4, <1>5, <1>6, <1>7 DEF IInv

LEMMA FetchRaisesIInv ==
  ASSUME IInv, NEW c \in Calls, FetchRaises(c)
  PROVE  IInv'
  <1> USE DEF FetchRaises
  <1>1. TypeOK'
    BY DEF IInv, TypeOK
  <1>2. LockInv'
    BY DEF IInv, TypeOK, LockInv
  <1>3. QueueInv'
    BY QueuedAreCalls DEF IInv, TypeOK, QueueInv
  <1>4. EntryInv'
    BY DEF IInv, EntryInv
  <1>5. OrderInv'
    BY DEF IInv, TypeOK, OrderInv
  <1> QED
    BY <1>1, <1>2, <1>3, <1>4, <1>5 DEF IInv

LEMMA LeaveIInv ==
  ASSUME IInv, NEW c \in Calls, Leave(c)
  PROVE  IInv'
  <1> USE DEF Leave
  <1>1. TypeOK'
    BY DEF IInv, TypeOK
  <1>2. LockInv'
    BY DEF IInv, TypeOK, LockInv
  <1>3. QueueInv'
    BY QueuedAreCalls DEF IInv, TypeOK, QueueInv
  <1>4. EntryInv'
    BY DEF IInv, EntryInv
  <1>5. OrderInv'
    BY DEF IInv, TypeOK, OrderInv
  <1> QED
    BY <1>1, <1>2, <1>3, <1>4, <1>5 DEF IInv

LEMMA CallIInv ==
  ASSUME IInv, NEW c \in Calls, Call(c)
  PROVE  IInv'
  BY ReturnFastIInv, MissAndFetchIInv, MissAndWaitIInv, ResumeAndReturnIInv,
     ResumeAndFetchIInv, FetchReturnsIInv, FetchRaisesIInv, LeaveIInv
     DEF Call

(* So do the steps that no call takes. *)
LEMMA InvalidateIInv ==
  ASSUME IInv, NEW k \in Keys, invalidate(k)
  PROVE  IInv'
  BY DEF invalidate, IInv, TypeOK, LockInv, QueueInv, EntryInv, OrderInv

LEMMA ClearIInv ==
  ASSUME IInv, clear
  PROVE  IInv'
  BY DEF clear, IInv, TypeOK, LockInv, QueueInv, EntryInv, OrderInv

LEMMA TickIInv ==
  ASSUME IInv, Tick
  PROVE  IInv'
  <1> USE DEF Tick
  <1>1. TypeOK' /\ LockInv' /\ QueueInv'
    BY DEF IInv, TypeOK, LockInv, QueueInv
  <1>2. EntryInv'
    BY DEF IInv, TypeOK, EntryInv, Entries, Values
  <1>3. OrderInv'
    BY DEF IInv, TypeOK, OrderInv
  <1> QED
    BY <1>1, <1>2, <1>3 DEF IInv

LEMMA NextIInv ==
  ASSUME IInv, [Next]_vars
  PROVE  IInv'
  <1>1. CASE \E c \in Calls : Call(c)
    BY <1>1, CallIInv
  <1>2. CASE \E k \in Keys : invalidate(k)
    BY <1>2, InvalidateIInv
  <1>3. CASE clear
    BY <1>3, ClearIInv
  <1>4. CASE Tick
    BY <1>4, TickIInv
  <1>5. CASE UNCHANGED vars
    BY <1>5 DEF vars, IInv, TypeOK, LockInv, QueueInv, EntryInv, OrderInv
  <1> QED
    BY <1>1, <1>2, <1>3, <1>4, <1>5 DEF Next

(* The inductive invariant holds in every reachable state. *)
THEOREM Invariance == Spec => []IInv
  BY InitIInv, NextIInv, PTL DEF Spec

-----------------------------------------------------------------------------
(* Every variable keeps its type. *)
THEOREM TypeCorrect == Spec => []TypeOK
  BY Invariance, PTL DEF IInv

(* The per-key lock serializes the fetches of a key. *)
THEOREM FetchesAreSerialized == Spec => []SingleFlight
  <1>1. IInv => SingleFlight
    BY DEF IInv, LockInv, SingleFlight
  <1> QED
    BY <1>1, Invariance, PTL

(* What comes out of the cache was polled less than TTL ago. *)
THEOREM HitsAreCurrent == Spec => AnswersAreCurrent
  <1> DEFINE Current(c) ==
        pc[c] \in {"idle", "waiting"} /\ pc'[c] = "done" =>
            clock < answer'[c].polled + TTL
  <1>1. ASSUME IInv, [Next]_vars, NEW c \in Calls
        PROVE  Current(c)
    <2> SUFFICES ASSUME pc[c] \in {"idle", "waiting"}, pc'[c] = "done"
                 PROVE  clock < answer'[c].polled + TTL
      OBVIOUS
    <2>1. CASE ReturnFast(c) \/ ResumeAndReturn(c)
      BY <1>1, <2>1 DEF ReturnFast, ResumeAndReturn, Return, FreshUnderLock,
         Fresh, IInv, TypeOK, EntryInv, Entries, Values
    <2>2. ReturnFast(c) \/ ResumeAndReturn(c)
      BY <1>1 DEF Next, vars, Call, invalidate, clear, Tick, ReturnFast,
         ResumeAndReturn, MissAndFetch, MissAndWait, ResumeAndFetch, Resumed,
         BeginFetch, FetchReturns, FetchRaises, Leave, Return, IInv, TypeOK
    <2> QED
      BY <2>1, <2>2
  <1>2. IInv /\ [Next]_vars => [\A c \in Calls : Current(c)]_vars
    BY <1>1
  <1> QED
    BY <1>2, Invariance, PTL DEF Spec, AnswersAreCurrent

(* A poll is begun only when the stored answer is TTL old, or there is none. *)
THEOREM PollsAreSpaced == Spec => NoEarlyRepoll
  <1> DEFINE Spaced(c) ==
        pc[c] # "fetching" /\ pc'[c] = "fetching" =>
            LET e == entries[KeyOf[c]] IN
            e # NoEntry => e.value.polled + TTL <= clock
  <1>1. ASSUME IInv, [Next]_vars, NEW c \in Calls
        PROVE  Spaced(c)
    <2> SUFFICES ASSUME pc[c] # "fetching", pc'[c] = "fetching",
                        entries[KeyOf[c]] # NoEntry
                 PROVE  entries[KeyOf[c]].value.polled + TTL <= clock
      OBVIOUS
    <2>1. MissAndFetch(c) \/ ResumeAndFetch(c)
      BY <1>1 DEF Next, vars, Call, invalidate, clear, Tick, ReturnFast,
         ResumeAndReturn, MissAndFetch, MissAndWait, ResumeAndFetch, Resumed,
         BeginFetch, FetchReturns, FetchRaises, Leave, Return, IInv, TypeOK
    <2>2. ~Fresh(KeyOf[c])
      BY <2>1 DEF MissAndFetch, ResumeAndFetch, FreshUnderLock
    <2> QED
      BY <1>1, <2>2 DEF Fresh, IInv, TypeOK, EntryInv, Entries, Values
  <1>2. IInv /\ [Next]_vars => [\A c \in Calls : Spaced(c)]_vars
    BY <1>1
  <1> QED
    BY <1>2, Invariance, PTL DEF Spec, NoEarlyRepoll

(* The stored answers of a key never go back in time. *)
THEOREM AnswersAreOrdered == Spec => PollsLandInOrder
  <1> DEFINE Ordered(k) ==
        entries[k] # NoEntry /\ entries'[k] # NoEntry =>
            entries[k].value.polled <= entries'[k].value.polled
  <1>1. ASSUME IInv, [Next]_vars, NEW k \in Keys
        PROVE  Ordered(k)
    <2> SUFFICES ASSUME entries[k] # NoEntry, entries'[k] # NoEntry
                 PROVE  entries[k].value.polled <= entries'[k].value.polled
      OBVIOUS
    <2>1. entries[k].value.polled \in Nat
      BY <1>1 DEF IInv, TypeOK, Entries, Values
    <2>2. CASE \E c \in Calls : FetchReturns(c)
      <3>1. PICK c \in Calls : FetchReturns(c)
        BY <2>2
      <3>2. PICK p \in Payloads :
              entries' = [entries EXCEPT ![KeyOf[c]] =
                            [value |-> [payload |-> p, polled |-> now[c]],
                             expires_at |-> ExpiresAt(c)]]
        BY <3>1 DEF FetchReturns
      <3>3. CASE k = KeyOf[c]
        <4>1. entries'[k].value.polled = now[c]
          BY <1>1, <3>2, <3>3 DEF IInv, TypeOK
        <4>2. entries[k].value.polled <= now[c]
          BY <1>1, <3>1, <3>3 DEF FetchReturns, IInv, OrderInv
        <4> QED
          BY <4>1, <4>2
      <3>4. CASE k # KeyOf[c]
        BY <1>1, <2>1, <3>2, <3>4 DEF IInv, TypeOK
      <3> QED
        BY <3>3, <3>4
    <2>3. CASE ~ \E c \in Calls : FetchReturns(c)
      <3>1. entries'[k] = entries[k]
        BY <1>1, <2>3 DEF Next, vars, Call, invalidate, clear, Tick, ReturnFast,
           ResumeAndReturn, MissAndFetch, MissAndWait, ResumeAndFetch,
           BeginFetch, FetchRaises, Leave, IInv, TypeOK
      <3> QED
        BY <2>1, <3>1
    <2> QED
      BY <2>2, <2>3
  <1>2. IInv /\ [Next]_vars => [\A k \in Keys : Ordered(k)]_vars
    BY <1>1
  <1> QED
    BY <1>2, Invariance, PTL DEF Spec, PollsLandInOrder

-----------------------------------------------------------------------------
(* Refinement *)

LEMMA InitPromise == Init => Promise!Init
  BY DEF Init, Promise!Init, Status, Last

(* An entry is fresh exactly while the promise has a current answer. *)
LEMMA FreshIsCurrent ==
  ASSUME IInv, NEW k \in Keys
  PROVE  Fresh(k) <=> Promise!Current(k)
  BY DEF Fresh, Promise!Current, Last, IInv, TypeOK, EntryInv, Entries, Values

LEMMA PollingIsFetching ==
  ASSUME NEW c \in Calls
  PROVE  Status(c) = "polling" <=> pc[c] \in {"fetching", "polling"}
  BY DEF Status

(* Nobody polls a key whose lock is free. *)
LEMMA FreeIsUnpolled ==
  ASSUME IInv, NEW k \in Keys, owner[k] = NoCall
  PROVE  ~Promise!Polled(k)
  <1> SUFFICES ASSUME NEW c \in Calls, KeyOf[c] = k, Status(c) = "polling"
               PROVE  FALSE
    BY DEF Promise!Polled
  <1>1. pc[c] = "fetching"
    BY PollingIsFetching DEF IInv, TypeOK
  <1> QED
    BY <1>1 DEF IInv, LockInv

LEMMA CallPromise ==
  ASSUME IInv, IInv', NEW c \in Calls, Call(c)
  PROVE  Promise!Step(c)
  <1> DEFINE k == KeyOf[c]
  <1>1. CASE ReturnFast(c)
    <2>1. Promise!Serve(c)
      BY <1>1, FreshIsCurrent DEF ReturnFast, Return, Promise!Serve, Fresh,
         Status, Last, IInv, TypeOK
    <2> QED
      BY <2>1 DEF Promise!Step
  <1>2. CASE ResumeAndReturn(c)
    <2>1. pc[c] = "waiting"
      BY <1>2, ResumedIsWaiting DEF ResumeAndReturn
    <2>2. Promise!Serve(c)
      BY <1>2, <2>1, FreshIsCurrent DEF ResumeAndReturn, FreshUnderLock, Return,
         Promise!Serve, Fresh, Status, Last, IInv, TypeOK
    <2> QED
      BY <2>2 DEF Promise!Step
  <1>3. CASE MissAndFetch(c)
    <2>1. Promise!Poll(c)
      BY <1>3, FreshIsCurrent, FreeIsUnpolled DEF MissAndFetch, Uncontended,
         BeginFetch, Promise!Poll, Status, Last, IInv, TypeOK
    <2> QED
      BY <2>1 DEF Promise!Step
  <1>4. CASE ResumeAndFetch(c)
    <2>1. pc[c] = "waiting"
      BY <1>4, ResumedIsWaiting DEF ResumeAndFetch
    <2>2. Promise!Poll(c)
      BY <1>4, <2>1, FreshIsCurrent, FreeIsUnpolled DEF ResumeAndFetch, Resumed,
         FreshUnderLock, BeginFetch, Promise!Poll, Status, Last, IInv, TypeOK
    <2> QED
      BY <2>2 DEF Promise!Step
  <1>5. CASE MissAndWait(c)
    <2>1. Promise!Pend(c)
      BY <1>5, FreshIsCurrent DEF MissAndWait, Promise!Pend, Status, Last, IInv, TypeOK
    <2> QED
      BY <2>1 DEF Promise!Step
  <1>6. CASE FetchReturns(c)
    <2>1. PICK p \in Payloads :
            LET value == [payload |-> p, polled |-> now[c]] IN
            /\ entries' = [entries EXCEPT ![k] =
                              [value |-> value, expires_at |-> ExpiresAt(c)]]
            /\ Return(c, value)
      BY <1>6 DEF FetchReturns
    <2> DEFINE value == [payload |-> p, polled |-> now[c]]
               entry == [value |-> value, expires_at |-> ExpiresAt(c)]
    <2>2. entry # NoEntry
      BY DEF IInv, TypeOK, Entries, Values, ExpiresAt
    <2>3. [j \in Keys |-> Last(j)'] =
            [[j \in Keys |-> Last(j)] EXCEPT ![k] = value]
      BY <2>1, <2>2 DEF Last, IInv, TypeOK
    <2>4. [d \in Calls |-> Status(d)'] =
            [[d \in Calls |-> Status(d)] EXCEPT ![c] = "done"]
      BY <2>1 DEF Status, Return, IInv, TypeOK
    <2>5. Status(c) = "polling" /\ UNCHANGED clock
      BY <1>6 DEF FetchReturns, Status
    <2>6. /\ answer' = [answer EXCEPT ![c] = value]
          /\ now' = [now EXCEPT ![c] = 0]
      BY <2>1 DEF Return
    <2>7. Promise!Deliver(c)
      BY <2>3, <2>4, <2>5, <2>6 DEF Promise!Deliver
    <2> QED
      BY <2>7 DEF Promise!Step
  <1>7. CASE FetchRaises(c)
    <2>1. Promise!Fail(c)
      BY <1>7 DEF FetchRaises, Promise!Fail, Status, Last, IInv, TypeOK
    <2> QED
      BY <2>1 DEF Promise!Step
  <1>8. CASE Leave(c)
    <2>1. Promise!Release(c)
      BY <1>8 DEF Leave, Promise!Release, Status, Last, IInv, TypeOK
    <2> QED
      BY <2>1 DEF Promise!Step
  <1> QED
    BY <1>1, <1>2, <1>3, <1>4, <1>5, <1>6, <1>7, <1>8 DEF Call

LEMMA NextPromise ==
  ASSUME IInv, IInv', [Next]_vars
  PROVE  [Promise!Next]_(Promise!vars)
  <1>1. CASE \E c \in Calls : Call(c)
    BY <1>1, CallPromise DEF Promise!Next
  <1>2. CASE \E k \in Keys : invalidate(k)
    <2>1. PICK k \in Keys : invalidate(k)
      BY <1>2
    <2>2. [j \in Keys |-> Last(j)'] =
            [j \in Keys |-> IF j \in {k} THEN NoValue
                            ELSE [i \in Keys |-> Last(i)][j]]
      BY <2>1 DEF invalidate, Last, IInv, TypeOK
    <2>3. [d \in Calls |-> Status(d)'] = [d \in Calls |-> Status(d)]
      BY <2>1 DEF invalidate, Status
    <2>4. Promise!Forget
      BY <2>1, <2>2, <2>3 DEF invalidate, Promise!Forget
    <2> QED
      BY <2>4 DEF Promise!Next
  <1>3. CASE clear
    <2>1. [j \in Keys |-> Last(j)'] =
            [j \in Keys |-> IF j \in Keys THEN NoValue
                            ELSE [i \in Keys |-> Last(i)][j]]
      BY <1>3 DEF clear, Last
    <2>2. [d \in Calls |-> Status(d)'] = [d \in Calls |-> Status(d)]
      BY <1>3 DEF clear, Status
    <2>3. Promise!Forget
      BY <1>3, <2>1, <2>2 DEF clear, Promise!Forget
    <2> QED
      BY <2>3 DEF Promise!Next
  <1>4. CASE Tick
    BY <1>4 DEF Tick, Promise!Advance, Promise!Next, Status, Last
  <1>5. CASE UNCHANGED vars
    BY <1>5 DEF vars, Promise!vars, Status, Last
  <1> QED
    BY <1>1, <1>2, <1>3, <1>4, <1>5 DEF Next

(* get_or_fetch implements the promise of the cache. *)
THEOREM Implementation == Spec => ImplementsPromise
  BY InitPromise, NextPromise, Invariance, PTL
     DEF Spec, ImplementsPromise, Promise!Spec
=============================================================================
