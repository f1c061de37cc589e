SPECIFICATION Spec
CONSTANTS
    r1 = r1
    r2 = r2
    aux = aux
    outdoor = outdoor
    Requests <- MCRequests
    Others <- MCOthers
    TTL = 2
    MaxAge = 1
    MaxTime = 3
    NoEntry = NoEntry
    NoCall = NoCall
    NoValue = NoValue
    NoReading = NoReading
INVARIANT WindWithinMaxAge
