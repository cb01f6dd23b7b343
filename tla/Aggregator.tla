----------------------------- MODULE Aggregator -----------------------------
(***************************************************************************)
(* aggregator.c and the processes that report to it (common.c).  Reports   *)
(* are UDP datagrams, sent without an answer, so what the aggregator sees  *)
(* depends on who started when, on whose turn it was and on the room in    *)
(* its socket buffer.  When every client has reported it closes a round:   *)
(* prints the total and starts over; after NumMeasurements rounds it kills *)
(* all processes named conntest and exits.                                 *)
(***************************************************************************)
EXTENDS Integers, Sequences, Functions

CONSTANTS Process,         \* the conntest processes of the host
          Reporter,        \* those given the port of this aggregator with -a
          Id,              \* the -id of a process
          NumClients,      \* gNumClients, -n of the aggregator, -1 by default
          NumMeasurements, \* gNumMeasurements, -m
          MaxClients,      \* length of gClientTp and gClientReported, 0xFF
          Tps,             \* the throughputs that are reported
          MaxQueue         \* datagrams the socket buffer holds

(* Ids wrap into the one byte a message has for them.                      *)
MsgId(p) == Id[p] % 256

ASSUME AggregatorAssumption ==
    /\ Reporter \subseteq Process
    /\ Id \in [Process -> Int]
    /\ MaxClients \in Nat
    /\ \A p \in Reporter : MsgId(p) < MaxClients
    /\ NumClients \in Int
    /\ NumClients <= MaxClients
    /\ NumMeasurements \in Nat \ {0}
    /\ Tps \subseteq Nat
    /\ MaxQueue \in Nat \ {0}

VARIABLES
    running,               \* the processes that run
    registered,            \* those that have sent their register message
    aggPc,                 \* where the aggregator is
    queue,                 \* its socket buffer
    gNumRegistered, gDoReport, gClientTp, gClientReported, gAvgTput, reportNum

procVars == <<running, registered>>
roundVars == <<gClientTp, gClientReported, gAvgTput, reportNum>>
aggVars == <<aggPc, gNumRegistered, gDoReport, roundVars>>
vars == <<procVars, queue, aggVars>>

ClientSlot == 0..(MaxClients - 1)
Clients == 0..(NumClients - 1)     \* the slots the loop over gNumClients visits
AggPc == {"start", "poll", "exited"}

RegisterMsg == [type : {"register"}, id : Int]
ReportMsg == [type : {"report"}, id : ClientSlot, tp : Tps]

NoTps == [i \in ClientSlot |-> 0]
NoneReported == [i \in ClientSlot |-> FALSE]

Init ==
    /\ running = Process
    /\ registered = {}
    /\ aggPc = "start"
    /\ queue = <<>>
    /\ gNumRegistered = 0
    /\ gDoReport = FALSE
    /\ gClientTp = NoTps
    /\ gClientReported = NoneReported
    /\ gAvgTput = 0
    /\ reportNum = 0

-----------------------------------------------------------------------------
(* The reporting processes.                                                *)

(* A datagram is lost without an open socket or without room in its buffer *)
Send(m) ==
    queue' = IF aggPc = "poll" /\ Len(queue) < MaxQueue THEN Append(queue, m) ELSE queue

Register(p) ==
    /\ p \in Reporter \ registered
    /\ p \in running
    /\ registered' = registered \union {p}
    /\ Send([type |-> "register", id |-> MsgId(p)])
    /\ UNCHANGED <<running, aggVars>>

(* The end of a report_statistics(), in any order with the others.         *)
Report(p) ==
    /\ p \in Reporter
    /\ p \in running
    /\ \E tp \in Tps : Send([type |-> "report", id |-> MsgId(p), tp |-> tp])
    /\ UNCHANGED <<procVars, aggVars>>

Stops(p) ==
    /\ p \in running
    /\ running' = running \ {p}
    /\ UNCHANGED <<registered, queue, aggVars>>

(* pkill conntest of another aggregator of the host: it asks for the name, *)
(* not for those that report to it.                                        *)
KilledByOther ==
    /\ running # {}
    /\ running' = {}
    /\ UNCHANGED <<registered, queue, aggVars>>

-----------------------------------------------------------------------------
(* start_aggregating()                                                     *)

Bind ==
    /\ aggPc = "start"
    /\ aggPc' \in {"poll", "exited"}
    /\ UNCHANGED <<procVars, queue, gNumRegistered, gDoReport, roundVars>>

Received(type) ==
    /\ aggPc = "poll"
    /\ queue # <<>>
    /\ Head(queue).type = type
    /\ queue' = Tail(queue)

HandleRegister ==
    /\ Received("register")
    /\ gNumRegistered' = gNumRegistered + 1
    /\ gDoReport' = (gDoReport \/ gNumRegistered + 1 = NumClients)
    /\ UNCHANGED <<procVars, aggPc, roundVars>>

(* Slip: a client that reports 0 counts as one that has not reported.      *)
ReportedNowIfBusy ==
    [gClientReported EXCEPT ![Head(queue).id] = @ \/ Head(queue).tp > 0]

ReportedNow == [gClientReported EXCEPT ![Head(queue).id] = TRUE]
TpNow == [gClientTp EXCEPT ![Head(queue).id] = Head(queue).tp]
AllReported(reported) == \A i \in Clients : reported[i]
(* Slip: the total is taken before the report is entered.                  *)
TotTpBefore == SumFunctionOnSet(gClientTp, Clients)

TotTp == SumFunctionOnSet(TpNow, Clients)

(* Some client has not reported yet.                                       *)
WaitForOthers ==
    /\ Received("report")
    /\ ~AllReported(ReportedNow)
    /\ gClientReported' = ReportedNow
    /\ gClientTp' = TpNow
    /\ UNCHANGED <<procVars, aggPc, gNumRegistered, gDoReport, gAvgTput, reportNum>>

(* Slips: one of the two memset() calls is missing.                        *)
KeepTps == gClientTp' = TpNow
KeepReported == gClientReported' = ReportedNow
ClearTps == gClientTp' = NoTps
ClearReported == gClientReported' = NoneReported

CloseRound ==
    /\ Received("report")
    /\ AllReported(ReportedNow)
    /\ gAvgTput' = gAvgTput + TotTp
    /\ ClearTps
    /\ ClearReported
    /\ UNCHANGED <<registered, gNumRegistered, gDoReport>>

(* "We skip printing the intial values if they are all zero."              *)
SkipRound ==
    /\ CloseRound
    /\ gAvgTput' = 0
    /\ UNCHANGED <<running, aggPc, reportNum>>

(* Slip: the round just printed is not counted in.                         *)
PastLimit == reportNum = NumMeasurements
AtLimit == reportNum + 1 = NumMeasurements

PrintRound ==
    /\ CloseRound
    /\ gAvgTput' # 0
    /\ reportNum' = reportNum + 1
    /\ ~AtLimit
    /\ UNCHANGED <<running, aggPc>>

(* The last round: system("pkill conntest"), then exit.                    *)
PrintLastRound ==
    /\ CloseRound
    /\ gAvgTput' # 0
    /\ reportNum' = reportNum + 1
    /\ AtLimit
    /\ running' = {}
    /\ aggPc' = "exited"

HandleReport == WaitForOthers \/ SkipRound \/ PrintRound \/ PrintLastRound

Aggregate == Bind \/ HandleRegister \/ HandleReport

Next ==
    \/ Aggregate
    \/ KilledByOther
    \/ \E p \in Process : Register(p) \/ Report(p) \/ Stops(p)

Spec == Init /\ [][Next]_vars

-----------------------------------------------------------------------------
TypeOK ==
    /\ running \subseteq Process
    /\ registered \subseteq Reporter
    /\ aggPc \in AggPc
    /\ queue \in Seq(RegisterMsg \union ReportMsg)
    /\ gNumRegistered \in Nat
    /\ gDoReport \in BOOLEAN
    /\ gClientTp \in [ClientSlot -> Nat]
    /\ gClientReported \in [ClientSlot -> BOOLEAN]
    /\ gAvgTput \in Nat
    /\ reportNum \in 0..NumMeasurements

(* A total is never held back: after a datagram is handled some client is  *)
(* still to report, and what is kept of the others is all of this round.   *)
RoundInProgress ==
    /\ Clients # {} => ~AllReported(gClientReported)
    /\ \A i \in ClientSlot : ~gClientReported[i] => gClientTp[i] = 0

-----------------------------------------------------------------------------
(* What makes TypeOK inductive: no report is handled after the last one    *)
(* that was asked for, so reportNum does not pass its limit.               *)
ExitsAtLimit == reportNum = NumMeasurements => aggPc = "exited"

(* What makes RoundInProgress inductive: the shape of the round and of the *)
(* datagrams.  The sum gAvgTput is not needed for it.                      *)
RoundOK ==
    /\ queue \in Seq(RegisterMsg \union ReportMsg)
    /\ gClientTp \in [ClientSlot -> Nat]
    /\ gClientReported \in [ClientSlot -> BOOLEAN]

Inv == RoundOK /\ RoundInProgress

=============================================================================
