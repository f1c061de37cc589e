SPECIFICATION Spec
CONSTANTS
    Configs <- MCConfigs
    Sweep <- MCSweep
    Interval = 3
    MaxPoll = 1
    MaxAge = 4
INVARIANTS
    TypeOK
    SweptOnce
    OneMissIsNoAlarm
    CadenceKeepsWindFresh
    OnlySweepKillsLogger
    NoLoggerWithoutDatabase
