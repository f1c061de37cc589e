SPECIFICATION Spec
CONSTANT MaxSweep = 1
INVARIANTS
    TypeOK
    ServesCompleteSchema
    RefusesOnlyUnfit
PROPERTY NewerIsLeftAlone
