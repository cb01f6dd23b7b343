SPECIFICATION FairSpec
CONSTANTS
    c1 = c1
    c2 = c2
    Data <- MCData
    NoData = NoData
    TableSize = 5
    NumData = 3
    Garbage <- MCDirty
    UseAggregator = TRUE
    MaxFds = 5
    MaxBytes = 1
INVARIANTS
    TypeOK
    StreamConserved
    OneSlotPerConnection
    AverageMatchesIntervals
PROPERTIES
    LedgerImplemented
    ScannedIsReported
    ReportsKeepComing
\* A client may never connect or send again, and the process may have ended:
\* where the code only polls and sleeps the model has no step.
CHECK_DEADLOCK FALSE
