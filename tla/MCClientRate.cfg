SPECIFICATION FairSpec
CONSTANTS
    Data <- MCData
    NoData = NoData
    TableSize = 2
    NumData = 2
    CommandLines <- OnlySlow
    Garbage <- MCGarbage
    FirstRate = 3
    Kilo = 1
    MaxRate = 3
    MaxBytes = 1
PROPERTIES
    RateIsFollowed
\* The process ends.
CHECK_DEADLOCK FALSE
