SPECIFICATION Spec
CONSTANTS
    c1 = c1
    c2 = c2
    Data <- MCData
    NoData = NoData
    TableSize = 6
    NumData = 2
    Garbage <- MCZero
    UseAggregator = TRUE
    MaxFds = 6
    MaxBytes = 1
INVARIANTS
    ConnectionsAreScanned
\* A client may never connect or send again, and the process may have ended:
\* where the code only polls and sleeps the model has no step.
CHECK_DEADLOCK FALSE
