SPECIFICATION Spec
CONSTANTS
    c1 = c1
    c2 = c2
    c3 = c3
    outdoor = outdoor
    reading = reading
    Calls <- MCCalls
    Keys <- MCKeys
    KeyOf <- MCKeyOf
    Payloads <- MCPayloads
    TTL = 2
    MaxTime = 5
    PromptLoop = TRUE
    NoEntry = NoEntry
    NoCall = NoCall
    NoValue = NoValue
PROPERTY ExactlyOnePollPerMiss
