SPECIFICATION Spec
CONSTANTS
    SameCore = FALSE
    Subsamples = 2
    MaxPulses = 2
    Nobody = Nobody
INVARIANT EveryPulseCountsOnce
