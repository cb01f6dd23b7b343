SPECIFICATION FairSpec
CONSTANTS
    Data <- MCData
    NoData = NoData
    TableSize = 2
    NumData = 2
    Sizes <- MCOneSize
    MaxDatagrams = 2
    MaxBytes = 2
INVARIANTS
    TypeOK
    NoByteLostOrDoubled
    AverageMatchesIntervals
PROPERTIES
    ReceivedIsReported
    ReportsKeepComing
    LedgerImplemented
\* The main thread sleeps in a loop that changes nothing; with no throughput
\* thread and no datagram left the model has no step where the code only sleeps.
CHECK_DEADLOCK FALSE
