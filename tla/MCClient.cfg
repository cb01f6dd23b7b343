SPECIFICATION FairSpec
CONSTANTS
    Data <- MCData
    NoData = NoData
    TableSize = 2
    NumData = 2
    CommandLines <- AllLines
    Garbage <- MCGarbage
    FirstRate = 1
    Kilo = 1
    MaxRate = 2
    MaxBytes = 1
PROPERTIES
    InterruptEnds
    RateMovesRight
INVARIANTS
    TypeOK
    StartTogether
    AverageOfBytesSent
\* The process ends.
CHECK_DEADLOCK FALSE
