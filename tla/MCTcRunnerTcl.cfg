SPECIFICATION FairSpec
CONSTANTS
    byName = byName
    byPath = byPath
    Cmd <- MCCmd
    Hits <- MCHits
    Runs = 2
    MaxCalls = 2
    MaxLines = 1
INVARIANTS
    TypeOK
    LeftOnlyIfSpared
    CountsOwnLines
    LogComplete
PROPERTIES
    TcExeEnds
\* The last run ends, and then all programs may.
CHECK_DEADLOCK FALSE
