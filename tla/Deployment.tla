----------------------------- MODULE Deployment -----------------------------
(***************************************************************************)
(* A host as ReadMe.txt and the two scripts set it up: an aggregator for   *)
(* the clients, one for the servers, each with a port of its own, and      *)
(* conntest processes that were told one of the ports.  What they share is *)
(* the list of processes: the aggregator that comes to its limit first has *)
(* all of them killed by name, those of the other one too.                 *)
(***************************************************************************)
EXTENDS ConntestArgs

CONSTANTS ClientSide,      \* what start_clients.sh or the user has started:
          ServerSide,      \* the command line of an aggregator and those of
                           \* the processes
          MaxClients, Tps, MaxQueue      \* as in Aggregator

Side == {"client", "server"}
Started(side) == IF side = "client" THEN ClientSide ELSE ServerSide

(* A process that was refused its command line is none.                    *)
Process == {p \in {<<side, i>> : side \in Side,
                                 i \in DOMAIN ClientSide.processes
                                       \union DOMAIN ServerSide.processes} :
               /\ p[2] \in DOMAIN Started(p[1]).processes
               /\ ParseConntest(Started(p[1]).processes[p[2]]).state = "started"}

gAppArgs == [p \in Process |-> ParseConntest(Started(p[1]).processes[p[2]])]
Id == [p \in Process |-> gAppArgs[p].processId]

cArgs == ParseAggregator(ClientSide.aggregator)
sArgs == ParseAggregator(ServerSide.aggregator)
ReportTo(port) == {p \in Process : gAppArgs[p].aggregatorPort = port}
cReporter == ReportTo(cArgs.gPort)
sReporter == ReportTo(sArgs.gPort)

ASSUME DeploymentAssumption ==
    /\ cArgs.state = "started" /\ sArgs.state = "started"
    /\ cArgs.gPort # sArgs.gPort

VARIABLES
    running,               \* the conntest processes that run, of both sides
    stopped,               \* history: those that ended by themselves
    cRegistered, cPc, cQueue, cNumRegistered, cDoReport,
    cClientTp, cClientReported, cAvgTput, cReportNum,
    sRegistered, sPc, sQueue, sNumRegistered, sDoReport,
    sClientTp, sClientReported, sAvgTput, sReportNum

cVars == <<cRegistered, cPc, cQueue, cNumRegistered, cDoReport,
           cClientTp, cClientReported, cAvgTput, cReportNum>>
sVars == <<sRegistered, sPc, sQueue, sNumRegistered, sDoReport,
           sClientTp, sClientReported, sAvgTput, sReportNum>>
vars == <<running, stopped, cVars, sVars>>

C == INSTANCE Aggregator WITH
       Reporter <- cReporter,
       NumClients <- cArgs.gNumClients, NumMeasurements <- cArgs.gNumMeasurements,
       registered <- cRegistered, aggPc <- cPc, queue <- cQueue,
       gNumRegistered <- cNumRegistered, gDoReport <- cDoReport,
       gClientTp <- cClientTp, gClientReported <- cClientReported,
       gAvgTput <- cAvgTput, reportNum <- cReportNum

S == INSTANCE Aggregator WITH
       Reporter <- sReporter,
       NumClients <- sArgs.gNumClients, NumMeasurements <- sArgs.gNumMeasurements,
       registered <- sRegistered, aggPc <- sPc, queue <- sQueue,
       gNumRegistered <- sNumRegistered, gDoReport <- sDoReport,
       gClientTp <- sClientTp, gClientReported <- sClientReported,
       gAvgTput <- sAvgTput, reportNum <- sReportNum

Init ==
    /\ C!Init
    /\ S!Init
    /\ stopped = {}

-----------------------------------------------------------------------------
(* The sides run side by side; running is written by both aggregators.     *)
ClientAggregates == C!Aggregate /\ UNCHANGED <<stopped, sVars>>
ServerAggregates == S!Aggregate /\ UNCHANGED <<stopped, cVars>>

ClientSends(p) == (C!Register(p) \/ C!Report(p)) /\ UNCHANGED <<stopped, sVars>>
ServerSends(p) == (S!Register(p) \/ S!Report(p)) /\ UNCHANGED <<stopped, cVars>>

Stops(p) ==
    /\ p \in running
    /\ running' = running \ {p}
    /\ stopped' = stopped \union {p}
    /\ UNCHANGED <<cVars, sVars>>

Next ==
    \/ ClientAggregates
    \/ ServerAggregates
    \/ \E p \in Process : ClientSends(p) \/ ServerSends(p) \/ Stops(p)

Spec == Init /\ [][Next]_vars

(* As for one aggregator: both are scheduled, each process reports once a  *)
(* second, and no process finds the buffer full each time.                 *)
Fairness ==
    /\ WF_vars(ClientAggregates)
    /\ WF_vars(ServerAggregates)
    /\ \A p \in cReporter :
          SF_vars(C!Report(p) /\ Len(cQueue) < MaxQueue /\ UNCHANGED <<stopped, sVars>>)
    /\ \A p \in sReporter :
          SF_vars(S!Report(p) /\ Len(sQueue) < MaxQueue /\ UNCHANGED <<stopped, cVars>>)

FairSpec == Spec /\ Fairness

-----------------------------------------------------------------------------
cDone == cReportNum = cArgs.gNumMeasurements
sDone == sReportNum = sArgs.gNumMeasurements

(* Processes end by themselves or all at once, killed by an aggregator     *)
(* that has printed every measurement it was asked for; the one that was   *)
(* not bound, or is in the middle of its measurements, kills nobody.       *)
KilledAtTheLimit ==
    running = Process \ stopped \/ (running = {} /\ (cDone \/ sDone))

(* What makes it inductive: the one that has had all of them killed has    *)
(* exited, so it stays at its limit and handles no report any more.        *)
LimitInv ==
    \/ running = Process \ stopped
    \/ running = {} /\ ((cDone /\ cPc = "exited") \/ (sDone /\ sPc = "exited"))

(* Once an aggregator has a total that is not zero some aggregator comes   *)
(* to its limit, whichever is faster, unless a process stops by itself.    *)
FirstFinishes == (cAvgTput # 0 \/ sAvgTput # 0) ~> (cDone \/ sDone \/ stopped # {})

(* A round some process has reported for is closed, so -n and the -id of   *)
(* the processes agree, unless they end before.                            *)
RoundsClose ==
    /\ C!NoneReported # cClientReported
           ~> (C!NoneReported = cClientReported \/ running # Process)
    /\ S!NoneReported # sClientReported
           ~> (S!NoneReported = sClientReported \/ running # Process)

(* "When using the aggregator there would only be two prinouts - one for   *)
(* the server aggregator, and one for the client aggregator" (ReadMe.txt:  *)
(* 27): if the first comes to its limit, so does the second.               *)
BothFinish == (cDone \/ sDone) ~> ((cDone /\ sDone) \/ stopped # {})

=============================================================================
