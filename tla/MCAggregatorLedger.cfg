SPECIFICATION LedgerSpec
CONSTANTS
    Process <- MCProcess
    Reporter <- MCProcess
    Id <- MCIds
    NumClients = 2
    NumMeasurements = 2
    MaxClients = 3
    Tps <- MCTps
    MaxQueue = 1
    MaxReports = 3
INVARIANTS
    TypeOK
    RoundInProgress
    NoReportCountedTwice
    AverageConserved
\* The aggregator exits at its limit, and processes may stop for good.
CHECK_DEADLOCK FALSE
