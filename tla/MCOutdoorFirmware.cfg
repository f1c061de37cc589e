SPECIFICATION FairSpec
CONSTANTS
    SameCore = TRUE
    Subsamples = 2
    MaxPulses = 2
    Nobody = Nobody
INVARIANTS
    TypeOK
    NoTornReading
    InnerMutexesAreFree
    EveryPulseCountsOnce
PROPERTY DataMutexIsGivenBack
