---------------------------- MODULE MCDeployment ----------------------------
(* Two clients and a server, started by the scripts, and Example 1 of      *)
(* ReadMe.txt with fewer measurements.                                     *)
EXTENDS Deployment, TLC

MCClients == start_clients(2, 5000, 2, 2)
MCServers == start_servers(1, 5000, 1)
MCTps == {0, 1}

ExampleClients ==
    [aggregator |-> <<With("-n", Number(1)), With("-p", Number(10000)), With("-m", Number(2))>>,
     processes |-> 0 :> <<With("-id", Number(0)), Flag("-c"), With("-p", Number(7011)),
                          With("-t", Number(920000)), With("-n", Number(128)),
                          With("-a", Number(10000))>>]
ExampleServers ==
    [aggregator |-> <<With("-n", Number(1)), With("-p", Number(10001)), With("-m", Number(2))>>,
     processes |-> 0 :> <<With("-id", Number(0)), Flag("-s"), With("-p", Number(7011)),
                          With("-t", Number(1)), With("-n", Number(128)),
                          With("-a", Number(10001))>>]

=============================================================================
