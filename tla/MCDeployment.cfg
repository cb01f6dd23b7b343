SPECIFICATION FairSpec
CONSTANTS
    ClientSide <- MCClients
    ServerSide <- MCServers
    MaxClients = 2
    Tps <- MCTps
    MaxQueue = 1
INVARIANTS
    KilledAtTheLimit
PROPERTIES
    FirstFinishes
    RoundsClose
\* Aggregators exit or wait for ever, and processes may stop for good.
CHECK_DEADLOCK FALSE
