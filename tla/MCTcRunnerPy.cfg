SPECIFICATION FairSpec
CONSTANTS
    a1 = a1
    a2 = a2
    b1 = b1
    hostA = hostA
    hostB = hostB
    Cmd <- MCCmd
    Host <- MCHost
    HostOf <- MCHostOf
INVARIANTS
    TypeOK
    AlwaysAChild
    NothingLeft
PROPERTIES
    StopComesBack
\* The runner ends, and then all its programs may.
CHECK_DEADLOCK FALSE
