SPECIFICATION Spec
CONSTANTS
    Data <- MCData
    NoData = NoData
    TableSize = 2
    NumData = 2
    CommandLines <- OnlyTcp
    Garbage <- MCGarbage
    FirstRate = 1
    Kilo = 1
    MaxRate = 2
    MaxBytes = 2
INVARIANTS
    OnlySentIsReported
\* The process ends.
CHECK_DEADLOCK FALSE
