SPECIFICATION FairSpec
CONSTANTS
    ClientSide <- ExampleClients
    ServerSide <- ExampleServers
    MaxClients = 2
    Tps <- MCTps
    MaxQueue = 1
PROPERTIES
    BothFinish
\* Aggregators exit or wait for ever, and processes may stop for good.
CHECK_DEADLOCK FALSE
