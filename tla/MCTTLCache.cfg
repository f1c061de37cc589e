SPECIFICATION FairSpec
CONSTANTS
    c1 = c1
    c2 = c2
    c3 = c3
    outdoor = outdoor
    reading = reading
    Calls <- MCCalls
    Keys <- MCKeys
    KeyOf <- MCKeyOf
    Payloads <- MCPayloads
    TTL = 2
    MaxTime = 5
    PromptLoop = FALSE
    NoEntry = NoEntry
    NoCall = NoCall
    NoValue = NoValue
INVARIANTS
    TypeOK
    SingleFlight
PROPERTIES
    AnswersAreCurrent
    NoEarlyRepoll
    PollsLandInOrder
    EveryCallEnds
    ImplementsPromise
