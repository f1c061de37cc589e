------------------------ MODULE LiveInstrumentProofs -------------------------
(***************************************************************************)
(* Proofs about the live read path, for any requests, sensors, TTL and     *)
(* maximum age.  The cache keeps its own invariant, proved in              *)
(* TTLCacheProofs; the rest relates what the handlers hold to the clock    *)
(* and to the entry of the outdoor unit.                                   *)
(***************************************************************************)
EXTENDS LiveInstrument, TLAPS

CacheProof == INSTANCE TTLCacheProofs WITH
                  KeyOf <- [c \in Calls |-> c[2]], PromptLoop <- FALSE

LocalTypes ==
    /\ kind \in [Requests -> Kinds]
    /\ phase \in [Requests -> {"idle", "outdoor", "one", "others", "sent", "failed"}]
    /\ server_time \in [Requests -> Nat]
    /\ reply \in [Requests -> [Keys -> Readings \cup {NoReading}]]
    /\ last_seen \in [Keys -> Readings \cup {NoReading}]
    /\ delivered \in Nat
    /\ floor \in [Requests -> Nat]

(* A handler waits only for the polls of the phase it is in; when it is    *)
(* idle it has none, and no reply.                                         *)
CallsFitPhase ==
    \A r \in Requests :
        /\ phase[r] = "one" => kind[r] \in Others
        /\ phase[r] = "idle" => reply[r] = NoReply
        /\ \A k \in Keys :
             /\ phase[r] = "idle" => pc[<<r, k>>] = "idle"
             /\ pc[<<r, k>>] \in {"waiting", "fetching"} =>
                    \/ phase[r] = "outdoor" /\ k = outdoor
                    \/ phase[r] = "one" /\ k = kind[r]
                    \/ phase[r] = "others" /\ k \in Others

(* A poll is begun after the handler has read server_time; an answer from  *)
(* the cache was fresh after that.                                         *)
AnswersFitServerTime ==
    \A r \in Requests :
        /\ server_time[r] <= clock
        /\ \A k \in Keys :
             /\ pc[<<r, k>>] = "fetching" => server_time[r] <= now[<<r, k>>]
             /\ pc[<<r, k>>] = "done" =>
                    /\ answer[<<r, k>>] \in Cache!Values
                    /\ TTL # 0 => server_time[r] < answer[<<r, k>>].polled + TTL

StampFits(reading) == reading # NoReading => reading.stamp < reading.polled + TTL

StampsFit ==
    TTL # 0 => \A k \in Keys : /\ StampFits(last_seen[k])
                               /\ \A r \in Requests : StampFits(reply[r][k])

(* Of the outdoor unit: what was delivered is no newer than what was last  *)
(* seen, which is no newer than the entry of the cache.                    *)
OutdoorIsOrdered ==
    LET seen == last_seen[outdoor] IN
    /\ seen # NoReading =>
           entries[outdoor] # NoEntry /\ seen.polled <= entries[outdoor].value.polled
    /\ delivered # 0 => seen # NoReading /\ delivered <= seen.polled
    /\ \A r \in Requests :
           /\ floor[r] <= delivered
           /\ reply[r][outdoor] # NoReading =>
                  /\ seen # NoReading
                  /\ floor[r] <= reply[r][outdoor].polled
                  /\ reply[r][outdoor].polled <= seen.polled

IInv == /\ CacheProof!IInv /\ LocalTypes
        /\ CallsFitPhase /\ AnswersFitServerTime /\ StampsFit /\ OutdoorIsOrdered

USE SensorAssumption, TimeAssumption, AbsenceAssumption

-----------------------------------------------------------------------------
(* The cache beneath *)

LEMMA SameValues == CacheProof!Values = Cache!Values /\ CacheProof!Entries = Cache!Entries
  BY DEF CacheProof!Values, Cache!Values, CacheProof!Entries, Cache!Entries

LEMMA KeyOfCall ==
    ASSUME NEW r \in Requests, NEW k \in Keys
    PROVE  <<r, k>> \in Calls /\ [c \in Calls |-> c[2]][<<r, k>>] = k
  BY DEF Calls

LEMMA KeyOfIsTyped == [c \in Calls |-> c[2]] \in [Calls -> Keys]
  BY DEF Calls

LEMMA PollIsACall ==
    ASSUME NEW r \in Requests, NEW k \in Keys, Poll(r, k)
    PROVE  CacheProof!Call(<<r, k>>)
<1> USE DEF Cache!Fresh, CacheProof!Fresh, Cache!Return, CacheProof!Return,
            Cache!BeginFetch, CacheProof!BeginFetch, Cache!Uncontended,
            CacheProof!Uncontended, Cache!Resumed, CacheProof!Resumed,
            Cache!FreshUnderLock, CacheProof!FreshUnderLock,
            Cache!ExpiresAt, CacheProof!ExpiresAt
<1> DEFINE c == <<r, k>>
<1> HIDE DEF c
<1>1. Cache!ReturnFast(c) => CacheProof!ReturnFast(c)
  BY DEF Cache!ReturnFast, CacheProof!ReturnFast
<1>2. Cache!MissAndFetch(c) => CacheProof!MissAndFetch(c)
  BY DEF Cache!MissAndFetch, CacheProof!MissAndFetch
<1>3. Cache!MissAndWait(c) => CacheProof!MissAndWait(c)
  BY DEF Cache!MissAndWait, CacheProof!MissAndWait
<1>4. Cache!ResumeAndReturn(c) => CacheProof!ResumeAndReturn(c)
  BY DEF Cache!ResumeAndReturn, CacheProof!ResumeAndReturn
<1>5. Cache!ResumeAndFetch(c) => CacheProof!ResumeAndFetch(c)
  BY DEF Cache!ResumeAndFetch, CacheProof!ResumeAndFetch
<1>6. Cache!FetchReturns(c) => CacheProof!FetchReturns(c)
  BY DEF Cache!FetchReturns, CacheProof!FetchReturns
<1>7. Cache!FetchRaises(c) => CacheProof!FetchRaises(c)
  BY DEF Cache!FetchRaises, CacheProof!FetchRaises
<1> QED
  BY <1>1, <1>2, <1>3, <1>4, <1>5, <1>6, <1>7 DEF Poll, CacheProof!Call, c

LEMMA CallKeepsCache ==
    ASSUME CacheProof!IInv, NEW c \in Calls, CacheProof!Call(c)
    PROVE  CacheProof!IInv'
  BY CacheProof!CallIInv, KeyOfIsTyped, SameValues

LEMMA CacheStands ==
    ASSUME CacheProof!IInv, UNCHANGED cacheVars
    PROVE  CacheProof!IInv'
  BY CacheProof!NextIInv, KeyOfIsTyped, SameValues DEF cacheVars, CacheProof!vars

-----------------------------------------------------------------------------
(* What a poll does *)

(* The answer a poll ends with is the entry of its sensor: its own fetch,  *)
(* or an entry that is still fresh.                                        *)
Answered(r, k) ==
    LET c == <<r, k>> IN
    /\ pc'[c] = "done"
    /\ entries'[k] # NoEntry
    /\ answer'[c] = entries'[k].value
    /\ \/ pc[c] = "fetching" /\ answer'[c].polled = now[c]
       \/ clock < answer'[c].polled + TTL

PollResult(r, k) ==
    LET c == <<r, k>> IN
    \/ pc'[c] \in {"waiting", "raised"}
    \/ pc'[c] = "fetching" /\ now'[c] = clock
    \/ Answered(r, k)

(* Nothing but the slot of the call and the entry of its sensor changes,   *)
(* and the entry only for that of a later poll.                            *)
OnlyOwnSlot(r, k) ==
    /\ clock' = clock
    /\ \A d \in Calls :
         d # <<r, k>> => pc'[d] = pc[d] /\ now'[d] = now[d] /\ answer'[d] = answer[d]
    /\ \A j \in Keys :
         /\ j # k => entries'[j] = entries[j]
         /\ entries[j] # NoEntry => /\ entries'[j] # NoEntry
                                    /\ entries[j].value.polled <= entries'[j].value.polled

LEMMA PollFacts ==
    ASSUME CacheProof!IInv, NEW r \in Requests, NEW k \in Keys, Poll(r, k)
    PROVE  PollResult(r, k) /\ OnlyOwnSlot(r, k)
<1> DEFINE c == <<r, k>>
<1>1. c \in Calls /\ [d \in Calls |-> d[2]][c] = k
  BY KeyOfCall
<1>2. /\ clock \in Nat
      /\ entries \in [Keys -> Cache!Entries \cup {NoEntry}]
      /\ pc \in [Calls -> {"idle", "waiting", "fetching", "done", "raised"}]
      /\ now \in [Calls -> Nat]
      /\ answer \in [Calls -> Cache!Values \cup {NoValue}]
  BY SameValues DEF CacheProof!IInv, CacheProof!TypeOK
<1>3. \A j \in Keys : entries[j] # NoEntry =>
          /\ entries[j].expires_at = entries[j].value.polled + TTL
          /\ entries[j].value.polled \in Nat
  BY <1>2 DEF CacheProof!IInv, CacheProof!EntryInv, Cache!Entries, Cache!Values
<1>4. pc[c] = "fetching" /\ entries[k] # NoEntry => entries[k].value.polled <= now[c]
  BY <1>1 DEF CacheProof!IInv, CacheProof!OrderInv
<1> HIDE DEF c
<1>5. ASSUME entries' = entries, clock' = clock,
             \A d \in Calls :
               d # c => pc'[d] = pc[d] /\ now'[d] = now[d] /\ answer'[d] = answer[d]
      PROVE  OnlyOwnSlot(r, k)
  BY <1>3, <1>5 DEF OnlyOwnSlot, c
<1>6. CASE Cache!ReturnFast(c) \/ Cache!ResumeAndReturn(c)
  <2>1. /\ pc' = [pc EXCEPT ![c] = "done"] /\ now' = [now EXCEPT ![c] = 0]
        /\ answer' = [answer EXCEPT ![c] = entries[k].value]
        /\ entries' = entries /\ clock' = clock
        /\ entries[k] # NoEntry /\ entries[k].expires_at > clock
    BY <1>1, <1>6 DEF Cache!ReturnFast, Cache!ResumeAndReturn, Cache!Return,
                      Cache!FreshUnderLock, Cache!Fresh
  <2>2. Answered(r, k)
    BY <1>1, <1>2, <1>3, <2>1 DEF Answered, c
  <2> QED
    BY <1>2, <1>5, <2>1, <2>2 DEF PollResult
<1>7. CASE Cache!MissAndFetch(c) \/ Cache!ResumeAndFetch(c)
  <2>1. /\ pc' = [pc EXCEPT ![c] = "fetching"] /\ now' = [now EXCEPT ![c] = clock]
        /\ answer' = answer /\ entries' = entries /\ clock' = clock
    BY <1>7 DEF Cache!MissAndFetch, Cache!ResumeAndFetch, Cache!BeginFetch
  <2>2. pc'[c] = "fetching" /\ now'[c] = clock
    BY <1>1, <1>2, <2>1
  <2> QED
    BY <1>2, <1>5, <2>1, <2>2 DEF PollResult, c
<1>8. CASE Cache!MissAndWait(c)
  <2>1. /\ pc' = [pc EXCEPT ![c] = "waiting"] /\ now' = [now EXCEPT ![c] = clock]
        /\ answer' = answer /\ entries' = entries /\ clock' = clock
    BY <1>8 DEF Cache!MissAndWait
  <2>2. pc'[c] = "waiting"
    BY <1>1, <1>2, <2>1
  <2> QED
    BY <1>2, <1>5, <2>1, <2>2 DEF PollResult, c
<1>9. CASE Cache!FetchRaises(c)
  <2>1. /\ pc' = [pc EXCEPT ![c] = "raised"] /\ now' = [now EXCEPT ![c] = 0]
        /\ answer' = answer /\ entries' = entries /\ clock' = clock
    BY <1>9 DEF Cache!FetchRaises
  <2>2. pc'[c] = "raised"
    BY <1>1, <1>2, <2>1
  <2> QED
    BY <1>2, <1>5, <2>1, <2>2 DEF PollResult, c
<1>10. CASE Cache!FetchReturns(c)
  <2>1. PICK p \in Payloads :
          LET value == [payload |-> p, polled |-> now[c]] IN
          /\ entries' = [entries EXCEPT ![k] =
                            [value |-> value, expires_at |-> Cache!ExpiresAt(c)]]
          /\ Cache!Return(c, value)
    BY <1>1, <1>10 DEF Cache!FetchReturns
  <2>2. /\ pc[c] = "fetching" /\ clock' = clock
        /\ pc' = [pc EXCEPT ![c] = "done"] /\ now' = [now EXCEPT ![c] = 0]
        /\ answer' = [answer EXCEPT ![c] = [payload |-> p, polled |-> now[c]]]
        /\ \A j \in Keys : j # k => entries'[j] = entries[j]
        /\ entries'[k].value = [payload |-> p, polled |-> now[c]]
    BY <1>2, <1>10, <2>1 DEF Cache!FetchReturns, Cache!Return
  <2>3. entries'[k] # NoEntry
    <3>1. Cache!ExpiresAt(c) \in Nat
      BY <1>1, <1>2 DEF Cache!ExpiresAt
    <3>2. [value |-> [payload |-> p, polled |-> now[c]],
           expires_at |-> Cache!ExpiresAt(c)] \in Cache!Entries
      BY <1>1, <1>2, <3>1 DEF Cache!Entries, Cache!Values
    <3> QED
      BY <1>2, <2>1, <3>2
  <2>4. Answered(r, k)
    BY <1>1, <1>2, <2>2, <2>3 DEF Answered, c
  <2>5. \A d \in Calls :
          d # c => pc'[d] = pc[d] /\ now'[d] = now[d] /\ answer'[d] = answer[d]
    BY <1>2, <2>2
  <2>6. entries[k] # NoEntry => entries[k].value.polled <= entries'[k].value.polled
    BY <1>4, <2>2
  <2> QED
    BY <1>3, <2>2, <2>3, <2>4, <2>5, <2>6 DEF PollResult, OnlyOwnSlot, c
<1> QED
  BY <1>6, <1>7, <1>8, <1>9, <1>10 DEF Poll, c

-----------------------------------------------------------------------------
(* Each part of the invariant under a poll *)

LEMMA PollKeepsCache ==
    ASSUME IInv, NEW r \in Requests, NEW k \in Keys, Poll(r, k)
    PROVE  CacheProof!IInv'
<1>1. <<r, k>> \in Calls
  BY KeyOfCall
<1> QED
  BY <1>1, PollIsACall, CallKeepsCache DEF IInv

(* The answer to a poll is younger than server_time by less than one TTL.  *)
LEMMA AnswerFits ==
    ASSUME IInv, NEW r \in Requests, NEW k \in Keys, Poll(r, k),
           pc'[<<r, k>>] = "done"
    PROVE  /\ Answered(r, k)
           /\ answer'[<<r, k>>] \in Cache!Values
           /\ TTL # 0 => server_time[r] < answer'[<<r, k>>].polled + TTL
<1> DEFINE c == <<r, k>>
<1>1. Answered(r, k)
  BY PollFacts DEF IInv, PollResult
<1>2. entries' \in [Keys -> Cache!Entries \cup {NoEntry}]
  BY PollKeepsCache, SameValues DEF CacheProof!IInv, CacheProof!TypeOK
<1>3. answer'[c] \in Cache!Values
  BY <1>1, <1>2 DEF Answered, Cache!Entries
<1>4. server_time[r] \in Nat /\ clock \in Nat /\ server_time[r] <= clock
  BY DEF IInv, LocalTypes, AnswersFitServerTime, CacheProof!IInv, CacheProof!TypeOK
<1>5. CASE pc[c] = "fetching" /\ answer'[c].polled = now[c]
  <2>1. server_time[r] <= now[c]
    BY <1>5 DEF IInv, AnswersFitServerTime
  <2>2. now[c] \in Nat
    BY KeyOfCall DEF IInv, CacheProof!IInv, CacheProof!TypeOK
  <2> QED
    BY <1>1, <1>3, <1>4, <1>5, <2>1, <2>2
<1>6. CASE clock < answer'[c].polled + TTL
  <2>1. answer'[c].polled \in Nat
    BY <1>3 DEF Cache!Values
  <2> QED
    BY <1>1, <1>3, <1>4, <1>6, <2>1
<1> QED
  BY <1>1, <1>5, <1>6 DEF Answered

LEMMA PollKeepsAnswers ==
    ASSUME IInv, NEW r \in Requests, NEW k \in Keys, Poll(r, k),
           server_time' = server_time
    PROVE  AnswersFitServerTime'
<1>1. OnlyOwnSlot(r, k) /\ PollResult(r, k)
  BY PollFacts DEF IInv
<1>2. server_time[r] \in Nat /\ clock \in Nat /\ server_time[r] <= clock
  BY DEF IInv, LocalTypes, AnswersFitServerTime, CacheProof!IInv, CacheProof!TypeOK
<1> SUFFICES ASSUME NEW q \in Requests
             PROVE  /\ server_time[q] <= clock
                    /\ \A j \in Keys :
                         /\ pc'[<<q, j>>] = "fetching" => server_time[q] <= now'[<<q, j>>]
                         /\ pc'[<<q, j>>] = "done" =>
                                /\ answer'[<<q, j>>] \in Cache!Values
                                /\ TTL # 0 => server_time[q] < answer'[<<q, j>>].polled + TTL
  BY <1>1 DEF AnswersFitServerTime, OnlyOwnSlot
<1>3. server_time[q] <= clock
  BY DEF IInv, AnswersFitServerTime
<1>4. ASSUME NEW j \in Keys, <<q, j>> # <<r, k>>
      PROVE  /\ pc'[<<q, j>>] = "fetching" => server_time[q] <= now'[<<q, j>>]
             /\ pc'[<<q, j>>] = "done" =>
                    /\ answer'[<<q, j>>] \in Cache!Values
                    /\ TTL # 0 => server_time[q] < answer'[<<q, j>>].polled + TTL
  <2>1. <<q, j>> \in Calls
    BY KeyOfCall
  <2> QED
    BY <1>1, <1>4, <2>1 DEF OnlyOwnSlot, IInv, AnswersFitServerTime
<1>5. pc'[<<r, k>>] = "fetching" => server_time[r] <= now'[<<r, k>>]
  BY <1>1, <1>2 DEF PollResult, Answered
<1>6. pc'[<<r, k>>] = "done" =>
          /\ answer'[<<r, k>>] \in Cache!Values
          /\ TTL # 0 => server_time[r] < answer'[<<r, k>>].polled + TTL
  BY AnswerFits
<1> QED
  BY <1>3, <1>4, <1>5, <1>6

(* What is recorded for an answer of one's own request. *)
LEMMA NotedFits ==
    ASSUME IInv, NEW r \in Requests, NEW k \in Keys, NEW value \in Cache!Values,
           TTL # 0 => server_time[r] < value.polled + TTL
    PROVE  /\ Noted(r, k, value) \in Readings \cup {NoReading}
           /\ TTL # 0 => StampFits(Noted(r, k, value))
           /\ \/ Noted(r, k, value) = last_seen[k]
              \/ /\ Noted(r, k, value) # NoReading
                 /\ Noted(r, k, value).polled = value.polled
<1>1. last_seen[k] \in Readings \cup {NoReading} /\ server_time[r] \in Nat
  BY DEF IInv, LocalTypes
<1>2. TTL # 0 => StampFits(last_seen[k])
  BY DEF IInv, StampsFit
<1>3. CASE value.payload = "none"
  BY <1>1, <1>2, <1>3 DEF Noted
<1>4. CASE value.payload # "none"
  <2>1. Noted(r, k, value) = [polled |-> value.polled, stamp |-> server_time[r]]
    BY <1>4 DEF Noted, StampOf
  <2>2. value.polled \in Nat
    BY DEF Cache!Values
  <2>3. Noted(r, k, value) \in Readings
    BY <1>1, <2>1, <2>2 DEF Readings
  <2> QED
    BY <2>1, <2>3 DEF StampFits
<1> QED
  BY <1>3, <1>4
(* When a reading of the outdoor unit was polled is a number. *)
LEMMA PolledAreNumbers ==
    ASSUME IInv
    PROVE  /\ entries[outdoor] # NoEntry => entries[outdoor].value.polled \in Nat
           /\ last_seen[outdoor] # NoReading => last_seen[outdoor].polled \in Nat
           /\ delivered \in Nat
           /\ \A q \in Requests :
                /\ floor[q] \in Nat
                /\ reply[q][outdoor] # NoReading => reply[q][outdoor].polled \in Nat
<1>1. outdoor \in Keys
  BY DEF Keys
<1>2. entries[outdoor] \in Cache!Entries \cup {NoEntry}
  BY <1>1, SameValues DEF IInv, CacheProof!IInv, CacheProof!TypeOK
<1> QED
  BY <1>1, <1>2 DEF IInv, LocalTypes, Cache!Entries, Cache!Values, Readings

LEMMA NewEntryIsANumber ==
    ASSUME IInv, NEW r \in Requests, NEW k \in Keys, Poll(r, k), entries'[outdoor] # NoEntry
    PROVE  entries'[outdoor].value.polled \in Nat
<1>1. outdoor \in Keys
  BY DEF Keys
<1>2. entries'[outdoor] \in Cache!Entries \cup {NoEntry}
  BY <1>1, PollKeepsCache, SameValues DEF CacheProof!IInv, CacheProof!TypeOK
<1> QED
  BY <1>2 DEF Cache!Entries, Cache!Values

(* The order survives a poll whose answer is not recorded, and one whose   *)
(* answer is.                                                              *)
LEMMA OutdoorStaysOrdered ==
    ASSUME IInv, NEW r \in Requests, NEW k \in Keys, Poll(r, k),
           last_seen'[outdoor] = last_seen[outdoor], delivered' = delivered,
           floor' = floor,
           \A q \in Requests : reply'[q][outdoor] = reply[q][outdoor]
    PROVE  OutdoorIsOrdered'
<1>1. entries[outdoor] # NoEntry =>
          /\ entries'[outdoor] # NoEntry
          /\ entries[outdoor].value.polled <= entries'[outdoor].value.polled
  BY PollFacts DEF IInv, OnlyOwnSlot, Keys
<1> QED
  BY <1>1, PolledAreNumbers, NewEntryIsANumber DEF IInv, OutdoorIsOrdered

LEMMA RecordedStaysOrdered ==
    ASSUME IInv, NEW r \in Requests, Poll(r, outdoor), Answered(r, outdoor), NEW noted,
           \/ noted = last_seen[outdoor]
           \/ noted # NoReading /\ noted.polled = answer'[<<r, outdoor>>].polled,
           last_seen'[outdoor] = noted, reply'[r][outdoor] = noted,
           delivered' = delivered, floor' = floor,
           \A q \in Requests : q # r => reply'[q][outdoor] = reply[q][outdoor]
    PROVE  OutdoorIsOrdered'
<1> DEFINE seen == last_seen[outdoor]
<1>1. /\ entries'[outdoor] # NoEntry
      /\ answer'[<<r, outdoor>>] = entries'[outdoor].value
      /\ entries'[outdoor].value.polled \in Nat
  BY NewEntryIsANumber DEF Answered, Keys
<1>2. entries[outdoor] # NoEntry =>
          entries[outdoor].value.polled <= entries'[outdoor].value.polled
  BY PollFacts DEF IInv, OnlyOwnSlot, Keys
<1>3. seen # NoReading => seen.polled <= entries'[outdoor].value.polled
  BY <1>1, <1>2, PolledAreNumbers DEF IInv, OutdoorIsOrdered
<1>4. noted # NoReading => noted.polled <= entries'[outdoor].value.polled
  BY <1>1, <1>3
<1>5. seen # NoReading => noted # NoReading /\ seen.polled <= noted.polled
  BY <1>1, <1>3, PolledAreNumbers
<1>6. noted # NoReading => noted.polled \in Nat
  BY <1>1, PolledAreNumbers
<1>7. delivered # 0 => noted # NoReading /\ delivered <= noted.polled
  BY <1>5, <1>6, PolledAreNumbers DEF IInv, OutdoorIsOrdered
<1>8. ASSUME NEW q \in Requests
      PROVE  /\ floor[q] <= delivered
             /\ reply'[q][outdoor] # NoReading =>
                    /\ noted # NoReading
                    /\ floor[q] <= reply'[q][outdoor].polled
                    /\ reply'[q][outdoor].polled <= noted.polled
  <2>1. floor[q] <= delivered
    BY DEF IInv, OutdoorIsOrdered
  <2>2. CASE q = r
    BY <1>6, <1>7, <2>1, <2>2, PolledAreNumbers
  <2>3. CASE q # r
    <3>1. reply[q][outdoor] # NoReading =>
              /\ seen # NoReading
              /\ floor[q] <= reply[q][outdoor].polled
              /\ reply[q][outdoor].polled <= seen.polled
      BY DEF IInv, OutdoorIsOrdered
    <3> QED
      BY <1>5, <1>6, <2>1, <2>3, <3>1, PolledAreNumbers
  <2> QED
    BY <2>2, <2>3
<1> QED
  BY <1>1, <1>4, <1>7, <1>8 DEF OutdoorIsOrdered

-----------------------------------------------------------------------------
(* The invariant holds at first, and every step keeps it *)

LEMMA Starts == Init => IInv
<1> SUFFICES ASSUME Init PROVE IInv
  OBVIOUS
<1>1. CacheProof!Init
  BY DEF Init, Cache!Init, CacheProof!Init
<1>2. CacheProof!IInv
  BY <1>1, CacheProof!InitIInv, KeyOfIsTyped, SameValues
<1>3. LocalTypes
  BY DEF Init, LocalTypes, NoReply, Kinds
<1>4. \A r \in Requests, k \in Keys : pc[<<r, k>>] = "idle"
  BY KeyOfCall DEF Init, Cache!Init
<1>5. CallsFitPhase /\ AnswersFitServerTime
  BY <1>4 DEF Init, Cache!Init, CallsFitPhase, AnswersFitServerTime
<1>6. StampsFit
  BY DEF Init, NoReply, StampsFit, StampFits
<1>7. OutdoorIsOrdered
  BY DEF Init, NoReply, OutdoorIsOrdered, Keys
<1> QED
  BY <1>2, <1>3, <1>5, <1>6, <1>7 DEF IInv

LEMMA StartRequestKeeps ==
    ASSUME IInv, NEW r \in Requests, StartRequest(r)
    PROVE  IInv'
<1> USE DEF StartRequest, cacheVars
<1>1. CacheProof!IInv'
  BY CacheStands DEF IInv
<1>2. LocalTypes'
  <2>1. clock \in Nat
    BY DEF IInv, CacheProof!IInv, CacheProof!TypeOK
  <2> QED
    BY <2>1 DEF IInv, LocalTypes
<1>3. CallsFitPhase'
  <2>1. PICK h \in Kinds :
          /\ kind' = [kind EXCEPT ![r] = h]
          /\ phase' = [phase EXCEPT ![r] = IF h \in Others THEN "one" ELSE "outdoor"]
    OBVIOUS
  <2>2. ASSUME NEW q \in Requests, q # r
        PROVE  phase'[q] = phase[q] /\ kind'[q] = kind[q]
    BY <2>1, <2>2 DEF IInv, LocalTypes
  <2>3. /\ phase'[r] \in {"one", "outdoor"}
        /\ phase'[r] = "one" => kind'[r] \in Others
    BY <2>1 DEF IInv, LocalTypes
  <2>4. \A k \in Keys : pc[<<r, k>>] = "idle"
    BY DEF IInv, CallsFitPhase
  <2> QED
    BY <2>2, <2>3, <2>4 DEF IInv, CallsFitPhase
<1>4. AnswersFitServerTime'
  <2>1. clock \in Nat
    BY DEF IInv, CacheProof!IInv, CacheProof!TypeOK
  <2> QED
    BY <2>1 DEF IInv, LocalTypes, CallsFitPhase, AnswersFitServerTime
<1>5. StampsFit'
  BY DEF IInv, StampsFit, StampFits
<1>6. OutdoorIsOrdered'
  <2>1. reply[r][outdoor] = NoReading
    BY DEF IInv, CallsFitPhase, NoReply, Keys
  <2> QED
    BY <2>1 DEF IInv, LocalTypes, OutdoorIsOrdered
<1> QED
  BY <1>1, <1>2, <1>3, <1>4, <1>5, <1>6 DEF IInv
LEMMA OutdoorRowKeeps ==
    ASSUME IInv, NEW r \in Requests, OutdoorRow(r)
    PROVE  IInv'
<1> DEFINE c == <<r, outdoor>>
           value == answer'[c]
<1>1. /\ outdoor \in Keys /\ c \in Calls /\ phase[r] = "outdoor" /\ Poll(r, outdoor)
      /\ kind' = kind /\ server_time' = server_time /\ floor' = floor
      /\ delivered' = delivered
  BY KeyOfCall DEF OutdoorRow, localVars, Keys
<1>2. CacheProof!IInv'
  BY <1>1, PollKeepsCache
<1>3. AnswersFitServerTime'
  BY <1>1, PollKeepsAnswers
<1>4. OnlyOwnSlot(r, outdoor) /\ PollResult(r, outdoor)
  BY <1>1, PollFacts DEF IInv
<1>5. ASSUME NEW q \in Requests, NEW k \in Keys, <<q, k>> # c
      PROVE  pc'[<<q, k>>] = pc[<<q, k>>]
  BY <1>4, <1>5, KeyOfCall DEF OnlyOwnSlot
<1> HIDE DEF c
<1>6. \/ /\ reply' = reply /\ last_seen' = last_seen
         /\ \/ pc'[c] \in {"waiting", "fetching"} /\ phase' = phase
            \/ pc'[c] = "raised" /\ phase' = [phase EXCEPT ![r] = "failed"]
      \/ /\ pc'[c] = "done"
         /\ Record(r, outdoor, value)
         /\ phase' = [phase EXCEPT ![r] = IF kind[r] = "current" THEN "others" ELSE "sent"]
  BY DEF OutdoorRow, KeepWaiting, c
<1>7. CASE /\ reply' = reply /\ last_seen' = last_seen
           /\ \/ pc'[c] \in {"waiting", "fetching"} /\ phase' = phase
              \/ pc'[c] = "raised" /\ phase' = [phase EXCEPT ![r] = "failed"]
  <2>1. reply' = reply /\ last_seen' = last_seen
    BY <1>7
  <2>2. \/ phase' = phase
        \/ pc'[c] = "raised" /\ phase' = [phase EXCEPT ![r] = "failed"]
    BY <1>7
  <2>3. LocalTypes'
    BY <1>1, <2>1, <2>2 DEF IInv, LocalTypes
  <2>4. CallsFitPhase'
    <3>1. ASSUME NEW q \in Requests, q # r
          PROVE  phase'[q] = phase[q] /\ \A k \in Keys : pc'[<<q, k>>] = pc[<<q, k>>]
      BY <1>5, <2>2, <3>1 DEF IInv, LocalTypes, c
    <3>2. \/ phase'[r] = "outdoor"
          \/ phase'[r] = "failed" /\ pc'[c] = "raised"
      BY <1>1, <2>2 DEF IInv, LocalTypes
    <3>3. \A k \in Keys : k # outdoor => pc'[<<r, k>>] \notin {"waiting", "fetching"}
      BY <1>1, <1>5 DEF IInv, CallsFitPhase, c
    <3>4. \A k \in Keys : /\ phase'[r] \notin {"idle", "one"}
                          /\ pc'[<<r, k>>] \in {"waiting", "fetching"} =>
                                 phase'[r] = "outdoor" /\ k = outdoor
      BY <3>2, <3>3 DEF c
    <3> QED
      BY <1>1, <2>1, <3>1, <3>2, <3>4 DEF IInv, CallsFitPhase
  <2>5. StampsFit'
    BY <2>1 DEF IInv, StampsFit, StampFits
  <2>6. OutdoorIsOrdered'
    BY <1>1, <2>1, OutdoorStaysOrdered
  <2> QED
    BY <1>2, <1>3, <2>3, <2>4, <2>5, <2>6 DEF IInv
<1>8. CASE /\ pc'[c] = "done"
           /\ Record(r, outdoor, value)
           /\ phase' = [phase EXCEPT ![r] = IF kind[r] = "current" THEN "others" ELSE "sent"]
  <2> DEFINE noted == Noted(r, outdoor, value)
  <2>1. /\ Answered(r, outdoor) /\ value \in Cache!Values
        /\ TTL # 0 => server_time[r] < value.polled + TTL
    BY <1>1, <1>8, AnswerFits DEF c
  <2>2. /\ noted \in Readings \cup {NoReading}
        /\ TTL # 0 => StampFits(noted)
        /\ \/ noted = last_seen[outdoor]
           \/ noted # NoReading /\ noted.polled = value.polled
    BY <1>1, <2>1, NotedFits
  <2>3. /\ last_seen' = [last_seen EXCEPT ![outdoor] = noted]
        /\ reply' = [reply EXCEPT ![r][outdoor] = noted]
    BY <1>8 DEF Record, Shown
  <2> HIDE DEF noted
  <2>4. LocalTypes'
    BY <1>1, <1>8, <2>2, <2>3 DEF IInv, LocalTypes
  <2>5. CallsFitPhase'
    <3>1. ASSUME NEW q \in Requests, q # r
          PROVE  phase'[q] = phase[q] /\ reply'[q] = reply[q]
      BY <1>8, <2>3, <3>1 DEF IInv, LocalTypes
    <3>2. phase'[r] \in {"others", "sent"}
      BY <1>8 DEF IInv, LocalTypes
    <3>3. \A k \in Keys : pc'[<<r, k>>] \notin {"waiting", "fetching"}
      BY <1>1, <1>5, <1>8 DEF IInv, CallsFitPhase, c
    <3> QED
      BY <1>1, <1>5, <3>1, <3>2, <3>3 DEF IInv, CallsFitPhase, c
  <2>6. StampsFit'
    BY <1>1, <2>2, <2>3 DEF IInv, LocalTypes, StampsFit, StampFits
  <2>7. OutdoorIsOrdered'
    <3>1. /\ last_seen'[outdoor] = noted /\ reply'[r][outdoor] = noted
          /\ \A q \in Requests : q # r => reply'[q][outdoor] = reply[q][outdoor]
      BY <1>1, <2>3 DEF IInv, LocalTypes
    <3> QED
      BY <1>1, <2>1, <2>2, <3>1, RecordedStaysOrdered DEF c
  <2> QED
    BY <1>2, <1>3, <2>4, <2>5, <2>6, <2>7 DEF IInv
<1> QED
  BY <1>6, <1>7, <1>8

LEMMA OneSensorKeeps ==
    ASSUME IInv, NEW r \in Requests, OneSensor(r)
    PROVE  IInv'
<1> DEFINE k == kind[r]
           c == <<r, k>>
           value == answer'[c]
<1>1. /\ phase[r] = "one" /\ Poll(r, k)
      /\ kind' = kind /\ server_time' = server_time /\ floor' = floor
      /\ delivered' = delivered
  BY DEF OneSensor, localVars
<1>2. k \in Others /\ k \in Keys /\ k # outdoor
  BY <1>1 DEF IInv, CallsFitPhase, Keys
<1> HIDE DEF k
<1>3. CacheProof!IInv'
  BY <1>1, <1>2, PollKeepsCache
<1>4. AnswersFitServerTime'
  BY <1>1, <1>2, PollKeepsAnswers
<1>5. \A q \in Requests, j \in Keys : <<q, j>> # c => pc'[<<q, j>>] = pc[<<q, j>>]
  BY <1>1, <1>2, PollFacts, KeyOfCall DEF IInv, OnlyOwnSlot
<1> HIDE DEF c
<1>6. \/ pc'[c] \in {"waiting", "fetching"} /\ UNCHANGED <<phase, reply, last_seen>>
      \/ /\ pc'[c] \in {"done", "raised"}
         /\ phase' = [phase EXCEPT ![r] = "sent"]
         /\ \E noted \in Readings \cup {NoReading} :
              /\ TTL # 0 => StampFits(noted)
              /\ last_seen' = [last_seen EXCEPT ![k] = noted]
              /\ reply' = [reply EXCEPT ![r][k] = noted]
  <2>1. CASE KeepWaiting(r, k)
    BY <2>1 DEF KeepWaiting, c
  <2>2. CASE /\ pc'[c] = "raised"
             /\ reply' = [reply EXCEPT ![r][k] = last_seen[k]]
             /\ phase' = [phase EXCEPT ![r] = "sent"]
             /\ UNCHANGED last_seen
    <3>1. /\ last_seen[k] \in Readings \cup {NoReading}
          /\ TTL # 0 => StampFits(last_seen[k])
          /\ last_seen' = [last_seen EXCEPT ![k] = last_seen[k]]
      BY <1>2, <2>2 DEF IInv, LocalTypes, StampsFit
    <3> QED
      BY <2>2, <3>1
  <2>3. CASE /\ pc'[c] = "done"
             /\ Record(r, k, value)
             /\ phase' = [phase EXCEPT ![r] = "sent"]
    <3>1. value \in Cache!Values /\ (TTL # 0 => server_time[r] < value.polled + TTL)
      BY <1>1, <1>2, <2>3, AnswerFits DEF c
    <3>2. /\ Noted(r, k, value) \in Readings \cup {NoReading}
          /\ TTL # 0 => StampFits(Noted(r, k, value))
      BY <1>2, <3>1, NotedFits
    <3> QED
      BY <2>3, <3>2 DEF Record, Shown
  <2> QED
    BY <2>1, <2>2, <2>3 DEF OneSensor, c, k
<1>7. LocalTypes'
  <2>1. phase' \in [Requests -> {"idle", "outdoor", "one", "others", "sent", "failed"}]
    BY <1>6 DEF IInv, LocalTypes
  <2>2. last_seen' \in [Keys -> Readings \cup {NoReading}]
    BY <1>2, <1>6 DEF IInv, LocalTypes
  <2>3. reply' \in [Requests -> [Keys -> Readings \cup {NoReading}]]
    BY <1>2, <1>6 DEF IInv, LocalTypes
  <2> QED
    BY <1>1, <2>1, <2>2, <2>3 DEF IInv, LocalTypes
<1>8. CallsFitPhase'
  <2>1. ASSUME NEW q \in Requests, q # r
        PROVE  /\ phase'[q] = phase[q] /\ reply'[q] = reply[q]
               /\ \A j \in Keys : pc'[<<q, j>>] = pc[<<q, j>>]
    BY <1>5, <1>6, <2>1 DEF IInv, LocalTypes, c
  <2>2. \/ phase'[r] = "one"
        \/ phase'[r] = "sent" /\ pc'[c] \in {"done", "raised"}
    BY <1>1, <1>6 DEF IInv, LocalTypes
  <2>3. \A j \in Keys : j # k => pc'[<<r, j>>] \notin {"waiting", "fetching"}
    BY <1>1, <1>5 DEF IInv, CallsFitPhase, c, k
  <2> QED
    BY <1>1, <1>2, <2>1, <2>2, <2>3 DEF IInv, CallsFitPhase, c, k
<1>9. StampsFit'
  <2>1. CASE UNCHANGED <<phase, reply, last_seen>>
    BY <2>1 DEF IInv, StampsFit, StampFits
  <2>2. ASSUME NEW noted \in Readings \cup {NoReading}, TTL # 0 => StampFits(noted),
               last_seen' = [last_seen EXCEPT ![k] = noted],
               reply' = [reply EXCEPT ![r][k] = noted]
        PROVE  StampsFit'
    BY <1>2, <2>2 DEF IInv, LocalTypes, StampsFit, StampFits
  <2> QED
    BY <1>6, <2>1, <2>2
<1>10. OutdoorIsOrdered'
  <2>1. /\ last_seen'[outdoor] = last_seen[outdoor]
        /\ \A q \in Requests : reply'[q][outdoor] = reply[q][outdoor]
    BY <1>2, <1>6 DEF IInv, LocalTypes, Keys
  <2> QED
    BY <1>1, <1>2, <2>1, OutdoorStaysOrdered
<1> QED
  BY <1>3, <1>4, <1>7, <1>8, <1>9, <1>10 DEF IInv

LEMMA GatheredPollKeeps ==
    ASSUME IInv, NEW r \in Requests, NEW k \in Others, GatheredPoll(r, k)
    PROVE  IInv'
<1> DEFINE c == <<r, k>>
<1>1. /\ phase[r] = "others" /\ Poll(r, k) /\ k \in Keys
      /\ kind' = kind /\ server_time' = server_time /\ floor' = floor
      /\ phase' = phase /\ reply' = reply /\ last_seen' = last_seen
      /\ delivered' = delivered
  BY DEF GatheredPoll, localVars, Keys
<1>2. CacheProof!IInv'
  BY <1>1, PollKeepsCache
<1>3. AnswersFitServerTime'
  BY <1>1, PollKeepsAnswers
<1>4. LocalTypes'
  BY <1>1 DEF IInv, LocalTypes
<1>5. CallsFitPhase'
  <2>1. \A q \in Requests, j \in Keys : <<q, j>> # c => pc'[<<q, j>>] = pc[<<q, j>>]
    BY <1>1, PollFacts, KeyOfCall DEF IInv, OnlyOwnSlot
  <2> QED
    BY <1>1, <2>1 DEF IInv, CallsFitPhase
<1>6. StampsFit'
  BY <1>1 DEF IInv, StampsFit, StampFits
<1>7. OutdoorIsOrdered'
  BY <1>1, OutdoorStaysOrdered
<1> QED
  BY <1>2, <1>3, <1>4, <1>5, <1>6, <1>7 DEF IInv

LEMMA RecordOthersKeeps ==
    ASSUME IInv, NEW r \in Requests, RecordOthers(r)
    PROVE  IInv'
<1> DEFINE Result(k) ==
        IF k \in Others /\ pc[<<r, k>>] = "done" THEN Noted(r, k, answer[<<r, k>>])
        ELSE last_seen[k]
<1>1. /\ phase[r] = "others" /\ Gathered(r)
      /\ last_seen' = [k \in Keys |-> Result(k)]
      /\ reply' = [reply EXCEPT ![r] = [k \in Keys |->
                     IF k \in Others THEN last_seen'[k] ELSE reply[r][k]]]
      /\ phase' = [phase EXCEPT ![r] = "sent"]
      /\ UNCHANGED cacheVars
      /\ UNCHANGED <<kind, server_time, floor, delivered>>
  BY DEF RecordOthers, localVars, LocalTypes, IInv
<1>2. ASSUME NEW k \in Keys
      PROVE  /\ Result(k) \in Readings \cup {NoReading}
             /\ TTL # 0 => StampFits(Result(k))
  <2>1. CASE k \in Others /\ pc[<<r, k>>] = "done"
    <3>1. /\ answer[<<r, k>>] \in Cache!Values
          /\ TTL # 0 => server_time[r] < answer[<<r, k>>].polled + TTL
      BY <2>1 DEF IInv, AnswersFitServerTime
    <3> QED
      BY <2>1, <3>1, NotedFits
  <2>2. CASE ~(k \in Others /\ pc[<<r, k>>] = "done")
    BY <2>2 DEF IInv, LocalTypes, StampsFit
  <2> QED
    BY <2>1, <2>2
<1>3. last_seen'[outdoor] = last_seen[outdoor] /\ outdoor \in Keys
  BY <1>1 DEF Keys
<1> HIDE DEF Result
<1>4. CacheProof!IInv'
  BY <1>1, CacheStands DEF IInv
<1>5. last_seen' \in [Keys -> Readings \cup {NoReading}]
  BY <1>1, <1>2
<1>6. LocalTypes'
  BY <1>1, <1>5 DEF IInv, LocalTypes
<1>7. CallsFitPhase'
  BY <1>1 DEF IInv, LocalTypes, CallsFitPhase, Gathered, cacheVars
<1>8. AnswersFitServerTime'
  BY <1>1 DEF IInv, AnswersFitServerTime, cacheVars
<1>9. StampsFit'
  <2>1. ASSUME TTL # 0, NEW k \in Keys PROVE StampFits(last_seen'[k])
    BY <1>1, <1>2, <2>1
  <2>2. ASSUME TTL # 0, NEW k \in Keys, NEW q \in Requests PROVE StampFits(reply'[q][k])
    BY <1>1, <2>1, <2>2 DEF IInv, LocalTypes, StampsFit
  <2> QED
    BY <2>1, <2>2 DEF StampsFit, StampFits
<1>10. OutdoorIsOrdered'
  <2>1. \A q \in Requests : reply'[q][outdoor] = reply[q][outdoor]
    BY <1>1, <1>3 DEF IInv, LocalTypes, Keys
  <2> QED
    BY <1>1, <1>3, <2>1 DEF IInv, OutdoorIsOrdered, cacheVars
<1> QED
  BY <1>4, <1>6, <1>7, <1>8, <1>9, <1>10 DEF IInv

LEMMA RespondKeeps ==
    ASSUME IInv, NEW r \in Requests, Respond(r)
    PROVE  IInv'
<1> DEFINE sent == reply[r][outdoor]
<1>1. /\ phase[r] \in {"sent", "failed"}
      /\ phase' = [phase EXCEPT ![r] = "idle"]
      /\ delivered' = IF sent # NoReading /\ sent.polled > delivered THEN sent.polled
                      ELSE delivered
      /\ reply' = [reply EXCEPT ![r] = NoReply]
      /\ kind' = [kind EXCEPT ![r] = "current"]
      /\ server_time' = [server_time EXCEPT ![r] = 0]
      /\ floor' = [floor EXCEPT ![r] = 0]
      /\ clock' = clock /\ entries' = entries /\ owner' = owner /\ waiters' = waiters
      /\ last_seen' = last_seen
  BY DEF Respond
<1>2. /\ pc' = [c \in Calls |-> IF c[1] = r THEN "idle" ELSE pc[c]]
      /\ now' = [c \in Calls |-> IF c[1] = r THEN 0 ELSE now[c]]
      /\ answer' = [c \in Calls |-> IF c[1] = r THEN NoValue ELSE answer[c]]
  BY DEF Respond
<1>3. \A c \in Calls : c[1] = r => pc[c] \notin {"waiting", "fetching"}
  <2>1. \A k \in Keys : pc[<<r, k>>] \notin {"waiting", "fetching"}
    BY <1>1 DEF IInv, CallsFitPhase
  <2> QED
    BY <2>1 DEF Calls
<1>4. /\ pc' \in [Calls -> {"idle", "waiting", "fetching", "done", "raised"}]
      /\ now' \in [Calls -> Nat]
      /\ answer' \in [Calls -> CacheProof!Values \cup {NoValue}]
  BY <1>2 DEF IInv, CacheProof!IInv, CacheProof!TypeOK
<1>5. \A c \in Calls : /\ pc[c] \in {"waiting", "fetching"} => pc'[c] = pc[c] /\ now'[c] = now[c]
                       /\ pc'[c] = "fetching" => pc[c] = "fetching"
                       /\ now'[c] = now[c] \/ now'[c] = 0
  BY <1>2, <1>3
<1>6. CacheProof!IInv'
  <2>1. CacheProof!TypeOK'
    BY <1>1, <1>4 DEF IInv, CacheProof!IInv, CacheProof!TypeOK
  <2>2. CacheProof!LockInv'
    BY <1>1, <1>5 DEF IInv, CacheProof!IInv, CacheProof!LockInv
  <2>3. CacheProof!QueueInv'
    <3>1. ASSUME NEW k \in Keys, NEW i \in 1 .. Len(waiters[k])
          PROVE  waiters[k][i] \in Calls
      BY <3>1 DEF IInv, CacheProof!IInv, CacheProof!TypeOK
    <3> QED
      BY <1>1, <1>5, <3>1 DEF IInv, CacheProof!IInv, CacheProof!QueueInv
  <2>4. CacheProof!EntryInv'
    BY <1>1 DEF IInv, CacheProof!IInv, CacheProof!EntryInv
  <2>5. CacheProof!OrderInv'
    <3>1. clock \in Nat
      BY DEF IInv, CacheProof!IInv, CacheProof!TypeOK
    <3> QED
      BY <1>1, <1>5, <3>1 DEF IInv, CacheProof!IInv, CacheProof!OrderInv
  <2> QED
    BY <2>1, <2>2, <2>3, <2>4, <2>5 DEF CacheProof!IInv
<1>7. delivered' \in Nat
  BY <1>1, PolledAreNumbers
<1>8. LocalTypes'
  <2>1. NoReply \in [Keys -> Readings \cup {NoReading}]
    BY DEF NoReply
  <2> QED
    BY <1>1, <1>7, <2>1 DEF IInv, LocalTypes, Kinds
<1>9. \A k \in Keys : pc'[<<r, k>>] = "idle"
  BY <1>2, KeyOfCall
<1>10. \A q \in Requests, k \in Keys :
         q # r => pc'[<<q, k>>] = pc[<<q, k>>] /\ now'[<<q, k>>] = now[<<q, k>>]
                                               /\ answer'[<<q, k>>] = answer[<<q, k>>]
  BY <1>2, KeyOfCall
<1>11. CallsFitPhase'
  BY <1>1, <1>9, <1>10 DEF IInv, LocalTypes, CallsFitPhase
<1>12. AnswersFitServerTime'
  <2>1. clock \in Nat
    BY DEF IInv, CacheProof!IInv, CacheProof!TypeOK
  <2> QED
    BY <1>1, <1>9, <1>10, <2>1 DEF IInv, LocalTypes, AnswersFitServerTime
<1>13. StampsFit'
  <2>1. StampFits(NoReading)
    BY DEF StampFits
  <2>2. \A k \in Keys : NoReply[k] = NoReading
    BY DEF NoReply
  <2> QED
    BY <1>1, <2>1, <2>2 DEF IInv, LocalTypes, StampsFit, StampFits
<1>14. OutdoorIsOrdered'
  <2>1. sent # NoReading =>
            last_seen[outdoor] # NoReading /\ sent.polled <= last_seen[outdoor].polled
    BY DEF IInv, OutdoorIsOrdered
  <2>2. delivered' # 0 =>
            last_seen[outdoor] # NoReading /\ delivered' <= last_seen[outdoor].polled
    BY <1>1, <2>1 DEF IInv, OutdoorIsOrdered
  <2>3. delivered <= delivered'
    BY <1>1, PolledAreNumbers
  <2>4. reply'[r][outdoor] = NoReading /\ floor'[r] = 0
    BY <1>1 DEF IInv, LocalTypes, NoReply, Keys
  <2>5. ASSUME NEW q \in Requests, q # r
        PROVE  reply'[q] = reply[q] /\ floor'[q] = floor[q]
    BY <1>1, <2>5 DEF IInv, LocalTypes
  <2>6. \A q \in Requests : floor'[q] <= delivered'
    BY <1>7, <2>3, <2>4, <2>5, PolledAreNumbers DEF IInv, OutdoorIsOrdered
  <2> QED
    BY <1>1, <2>2, <2>4, <2>5, <2>6 DEF IInv, OutdoorIsOrdered
<1> QED
  BY <1>6, <1>8, <1>11, <1>12, <1>13, <1>14 DEF IInv

LEMMA TickKeeps ==
    ASSUME IInv, Tick
    PROVE  IInv'
<1>1. /\ CacheProof!Tick /\ clock' = clock + 1
      /\ entries' = entries /\ pc' = pc /\ now' = now /\ answer' = answer
      /\ kind' = kind /\ phase' = phase /\ server_time' = server_time
      /\ reply' = reply /\ last_seen' = last_seen /\ delivered' = delivered
      /\ floor' = floor
  BY DEF Tick, Cache!Tick, CacheProof!Tick
<1>2. CacheProof!IInv'
  BY <1>1, CacheProof!TickIInv, KeyOfIsTyped, SameValues DEF IInv
<1>3. LocalTypes' /\ CallsFitPhase' /\ StampsFit' /\ OutdoorIsOrdered'
  BY <1>1 DEF IInv, LocalTypes, CallsFitPhase, StampsFit, StampFits, OutdoorIsOrdered
<1>4. AnswersFitServerTime'
  <2>1. clock \in Nat
    BY DEF IInv, CacheProof!IInv, CacheProof!TypeOK
  <2> QED
    BY <1>1, <2>1 DEF IInv, LocalTypes, AnswersFitServerTime
<1> QED
  BY <1>2, <1>3, <1>4 DEF IInv

LEMMA StandsStill ==
    ASSUME IInv, UNCHANGED vars
    PROVE  IInv'
<1>1. UNCHANGED cacheVars
  BY DEF vars
<1>2. CacheProof!IInv'
  BY <1>1, CacheStands DEF IInv
<1>3. LocalTypes' /\ CallsFitPhase' /\ StampsFit'
  BY DEF IInv, LocalTypes, CallsFitPhase, StampsFit, StampFits, vars, cacheVars
<1>4. AnswersFitServerTime' /\ OutdoorIsOrdered'
  BY DEF IInv, AnswersFitServerTime, OutdoorIsOrdered, vars, cacheVars
<1> QED
  BY <1>2, <1>3, <1>4 DEF IInv

THEOREM Invariance == Spec => []IInv
<1>1. IInv /\ [Next]_vars => IInv'
  <2> SUFFICES ASSUME IInv, [Next]_vars PROVE IInv'
    OBVIOUS
  <2>1. ASSUME NEW r \in Requests, StartRequest(r) PROVE IInv'
    BY <2>1, StartRequestKeeps
  <2>2. ASSUME NEW r \in Requests, OutdoorRow(r) PROVE IInv'
    BY <2>2, OutdoorRowKeeps
  <2>3. ASSUME NEW r \in Requests, OneSensor(r) PROVE IInv'
    BY <2>3, OneSensorKeeps
  <2>4. ASSUME NEW r \in Requests, NEW k \in Others, GatheredPoll(r, k) PROVE IInv'
    BY <2>4, GatheredPollKeeps
  <2>5. ASSUME NEW r \in Requests, RecordOthers(r) PROVE IInv'
    BY <2>5, RecordOthersKeeps
  <2>6. ASSUME NEW r \in Requests, Respond(r) PROVE IInv'
    BY <2>6, RespondKeeps
  <2>7. CASE Tick
    BY <2>7, TickKeeps
  <2>8. CASE UNCHANGED vars
    BY <2>8, StandsStill
  <2> QED
    BY <2>1, <2>2, <2>3, <2>4, <2>5, <2>6, <2>7, <2>8 DEF Next
<1> QED
  BY <1>1, Starts, PTL DEF Spec

-----------------------------------------------------------------------------
(* Every variable keeps its type. *)
THEOREM TypeCorrect == Spec => []TypeOK
<1>1. IInv => TypeOK
  BY SameValues DEF IInv, LocalTypes, TypeOK, CacheProof!IInv, CacheProof!TypeOK,
                    Cache!TypeOK
<1> QED
  BY <1>1, Invariance, PTL

(* The stamp of outdoor_source.py flatters a reading by less than the TTL, *)
(* for every positive TTL: ttl_seconds is not validated, and with none an  *)
(* answer polled and stamped in one instant has nothing to be less than.   *)
THEOREM StampsAreWithinTTL == ASSUME TTL # 0 PROVE Spec => []StampWithinTTL
<1>1. IInv => StampWithinTTL
  BY DEF IInv, StampsFit, StampFits, StampWithinTTL
<1> QED
  BY <1>1, Invariance, PTL

(* The wind that is shown was polled less than the maximum age and one TTL *)
(* before the time of the response.                                        *)
THEOREM ShownWindIsBounded == ASSUME TTL # 0 PROVE Spec => []WindIsBounded
<1>1. ASSUME IInv, NEW r \in Requests, WindShown(r)
      PROVE  server_time[r] < reply[r][outdoor].polled + MaxAge + TTL
  <2>1. reply[r][outdoor] # NoReading /\ ~WindStale(r)
    BY <1>1 DEF WindShown
  <2>2. reply[r][outdoor].stamp < reply[r][outdoor].polled + TTL
    BY <1>1, <2>1 DEF IInv, StampsFit, StampFits, Keys
  <2>3. reply[r][outdoor] \in Readings /\ server_time[r] \in Nat
    BY <1>1, <2>1 DEF IInv, LocalTypes, Keys
  <2>4. reply[r][outdoor].stamp \in Nat /\ reply[r][outdoor].polled \in Nat
    BY <2>3 DEF Readings
  <2>5. server_time[r] - reply[r][outdoor].stamp <= MaxAge
    BY <2>1, <2>3, <2>4 DEF WindStale
  <2> QED
    BY <2>2, <2>3, <2>4, <2>5
<1>2. IInv => WindIsBounded
  BY <1>1 DEF WindIsBounded
<1> QED
  BY <1>2, Invariance, PTL

(* What clients are told of the outdoor unit never goes back in time,      *)
(* whoever polled it and whichever handler recorded it last.               *)
THEOREM RepliesKeepOrder == Spec => []NoTimeTravel
<1>1. ASSUME IInv, NEW r \in Requests, reply[r][outdoor] # NoReading
      PROVE  reply[r][outdoor].polled >= floor[r]
  <2>1. floor[r] <= reply[r][outdoor].polled
    BY <1>1 DEF IInv, OutdoorIsOrdered
  <2> QED
    BY <1>1, <2>1, PolledAreNumbers
<1>2. IInv => NoTimeTravel
  BY <1>1 DEF NoTimeTravel
<1> QED
  BY <1>2, Invariance, PTL
=============================================================================
