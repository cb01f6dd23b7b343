----------------------------- MODULE TcpServer -----------------------------
(***************************************************************************)
(* conntest -s: server_start() and eternal_loop() of server.c with         *)
(* server_tcp.c.  The main thread accepts connections for ever; each gets  *)
(* an object, a slot of gServers and a receiving thread, while tp_thread   *)
(* already scans the first NumData slots.  Sockets are a resource: nothing *)
(* closes the one of a connection or the one opened for a report.          *)
(* The objects of Data stand for the connections they are allocated for.   *)
(***************************************************************************)
EXTENDS Meter

CONSTANTS Garbage,         \* what malloc() leaves in a counter
          UseAggregator,   \* -a: reports go to an aggregator
          MaxFds,          \* descriptors the process may have open
          MaxBytes         \* bound: bytes a client sends

ASSUME TcpAssumption ==
    /\ Garbage \subseteq Nat
    /\ UseAggregator \in BOOLEAN
    /\ MaxFds \in Nat \ {0}
    /\ MaxFds <= TableSize      \* descriptors run out before slots do
    /\ MaxBytes \in Nat

VARIABLES
    mainPc,                \* where the main thread is
    newData,               \* data, the object tcp_create_receiver() works on
    gAdded,                \* slots handed out by server_add()
    fds,                   \* open descriptors
    garbage,               \* history: numSinceMeasure of an object after malloc
    conn,                  \* how far the client of a connection is
    inbox,                 \* bytes in the stream that are not received yet
    sentBytes              \* bytes the client has sent

mainVars == <<mainPc, newData, gAdded, garbage>>
netVars == <<conn, inbox, sentBytes>>
vars == <<meterVars, mainVars, fds, netVars>>

MainPc == {"socket", "meter", "register", "poll", "add", "spawn", "exited"}
Conn == {"idle", "connected", "closed"}
Running == mainPc # "exited"

Init ==
    /\ MeterInit
    /\ mainPc = "socket"
    /\ newData = NoData
    /\ gAdded = 0
    /\ fds = 0
    /\ garbage = [d \in Data |-> 0]
    /\ conn = [d \in Data |-> "idle"]
    /\ inbox = [d \in Data |-> 0]
    /\ sentBytes = [d \in Data |-> 0]

-----------------------------------------------------------------------------
(* The main thread until it accepts.                                       *)

CreateServer ==
    /\ mainPc = "socket"
    /\ \/ mainPc' = "meter" /\ fds' = fds + 1
       \/ mainPc' = "exited" /\ UNCHANGED fds       \* socket, bind or listen failed
    /\ UNCHANGED <<meterVars, newData, gAdded, garbage, netVars>>

(* pthread_create() fails with a positive number, which `res < 0` misses.  *)
StartMeter ==
    /\ mainPc = "meter"
    /\ tpPc' \in {"sleep", "none"}
    /\ mainPc' = "register"
    /\ UNCHANGED <<slots, counterVars, recvVars, tpSlot, tpTook, numBytes,
                   numBytesSinceStart, taken, emitted, newData, gAdded, garbage,
                   fds, netVars>>

(* Slip: the result of accept() is not checked.                            *)
FdUnchecked == TRUE
FdLeft == fds < MaxFds

(* send_msg_to_aggregator() opens a socket for each message, if it can.    *)
OpenReportSocket ==
    fds' = IF UseAggregator /\ FdLeft THEN fds + 1 ELSE fds

Register ==
    /\ mainPc = "register"
    /\ OpenReportSocket
    /\ mainPc' = "poll"
    /\ UNCHANGED <<meterVars, newData, gAdded, garbage, netVars>>

-----------------------------------------------------------------------------
(* tcp_handle_new_connection(): poll, accept, tcp_create_receiver().       *)

Pending(d) == conn[d] # "idle" /\ pc[d] = "none" /\ \A i \in Slot : slots[i] # d

(* accept(), malloc() without memset, pthread_mutex_init()                 *)
Accept(d) ==
    /\ mainPc = "poll"
    /\ Pending(d)
    /\ FdLeft
    /\ fds' = fds + 1
    /\ newData' = d
    /\ \E g, h \in Garbage :
          /\ garbage' = [garbage EXCEPT ![d] = g]
          /\ numSinceMeasure' = [numSinceMeasure EXCEPT ![d] = g]
          /\ numSinceStart' = [numSinceStart EXCEPT ![d] = h]
    /\ mutex' = [mutex EXCEPT ![d] = "free"]
    /\ mainPc' = "add"
    /\ UNCHANGED <<slots, recvVars, tpVars, gAdded, netVars>>

(* accept() fails, for want of a descriptor or otherwise: -1 ends          *)
(* eternal_loop(), and with it the process.                                *)
AcceptFails(d) ==
    /\ mainPc = "poll"
    /\ Pending(d)
    /\ mainPc' = "exited"
    /\ UNCHANGED <<meterVars, newData, gAdded, garbage, fds, netVars>>

(* Slip: the increment is forgotten.                                       *)
SameSlot == gAdded
NextSlot == gAdded + 1

(* server_add(): gServers[++gAdded] = data                                 *)
ServerAdd ==
    /\ mainPc = "add"
    /\ gAdded' = NextSlot
    /\ slots' = [slots EXCEPT ![NextSlot] = newData]
    /\ mainPc' = "spawn"
    /\ UNCHANGED <<counterVars, recvVars, tpVars, newData, garbage, fds, netVars>>

SpawnReceiver ==
    /\ mainPc = "spawn"
    /\ pc' = [pc EXCEPT ![newData] = "recv"]
    /\ mainPc' = "poll"
    /\ UNCHANGED <<slots, counterVars, res, reg, counted, tpVars, newData, gAdded,
                   garbage, fds, netVars>>

(* Here the result is compared with 0, and a failure ends the process.     *)
SpawnFails ==
    /\ mainPc = "spawn"
    /\ mainPc' = "exited"
    /\ UNCHANGED <<meterVars, newData, gAdded, garbage, fds, netVars>>

Main == \/ CreateServer \/ StartMeter \/ Register
        \/ \E d \in Data : Accept(d) \/ AcceptFails(d)
        \/ ServerAdd \/ SpawnReceiver \/ SpawnFails

-----------------------------------------------------------------------------
(* The receiving threads and the throughput thread, while the process is   *)
(* there.  recvfrom() returns any part of what is waiting, and 0 when all  *)
(* is received and the client has closed; the socket is left open.         *)

Recvfrom(d) ==
    /\ Running
    /\ \E n \in 1..inbox[d] :
          /\ Receive(d, n)
          /\ inbox' = [inbox EXCEPT ![d] = @ - n]
    /\ UNCHANGED <<mainVars, fds, conn, sentBytes>>

RecvfromClosed(d) ==
    /\ Running
    /\ conn[d] = "closed"
    /\ inbox[d] = 0
    /\ ReceiverExits(d)
    /\ UNCHANGED <<mainVars, fds, netVars>>

CountReceived(d) ==
    /\ Running
    /\ RecvStep(d)
    /\ UNCHANGED <<mainVars, fds, netVars>>

Receiver(d) == Recvfrom(d) \/ RecvfromClosed(d) \/ CountReceived(d)

Scan ==
    /\ Running
    /\ TpWake \/ ScanStep
    /\ UNCHANGED <<mainVars, fds, netVars>>

(* Without a descriptor left socket() fails and the report is dropped.     *)
Report ==
    /\ Running
    /\ SendReport
    /\ OpenReportSocket
    /\ UNCHANGED <<mainVars, netVars>>

TpThread == Scan \/ Report

-----------------------------------------------------------------------------
(* The clients.                                                            *)

ClientConnects(d) ==
    /\ Running
    /\ mainPc # "socket"
    /\ conn[d] = "idle"
    /\ conn' = [conn EXCEPT ![d] = "connected"]
    /\ UNCHANGED <<meterVars, mainVars, fds, inbox, sentBytes>>

ClientSends(d) ==
    /\ Running
    /\ conn[d] = "connected"
    /\ sentBytes[d] < MaxBytes
    /\ sentBytes' = [sentBytes EXCEPT ![d] = @ + 1]
    /\ inbox' = [inbox EXCEPT ![d] = @ + 1]
    /\ UNCHANGED <<meterVars, mainVars, fds, conn>>

ClientCloses(d) ==
    /\ Running
    /\ conn[d] = "connected"
    /\ conn' = [conn EXCEPT ![d] = "closed"]
    /\ UNCHANGED <<meterVars, mainVars, fds, inbox, sentBytes>>

Client(d) == ClientConnects(d) \/ ClientSends(d) \/ ClientCloses(d)

Next ==
    \/ Main
    \/ TpThread
    \/ \E d \in Data : Receiver(d) \/ Client(d)

Spec == Init /\ [][Next]_vars

(* As for the UDP server: threads run when they can, and a receiver gets a *)
(* mutex which the throughput thread takes only for a moment per second.   *)
Fairness ==
    /\ WF_vars(Main)
    /\ WF_vars(TpThread)
    /\ \A d \in Data : WF_vars(Receiver(d)) /\ SF_vars(CountReceived(d))

FairSpec == Spec /\ Fairness

-----------------------------------------------------------------------------
TypeOK ==
    /\ MeterTypeOK
    /\ mainPc \in MainPc
    /\ newData \in Data \union {NoData}
    /\ gAdded \in 0..(TableSize - 1)
    /\ fds \in 0..MaxFds
    /\ garbage \in [Data -> Garbage \union {0}]
    /\ conn \in [Data -> Conn]
    /\ inbox \in [Data -> 0..MaxBytes]
    /\ sentBytes \in [Data -> 0..MaxBytes]

(* Between the counters of an object, the reports and the stream of its    *)
(* connection every byte a client has sent is in one place exactly: what   *)
(* the counters and reports hold too much is what malloc() left in them.   *)
InHand(d) == IF pc[d] \in {"lock", "load", "store"} THEN res[d] ELSE 0

StreamConserved == \A d \in Data :
    /\ Surplus(d) = garbage[d]
    /\ counted[d] + InHand(d) + inbox[d] = sentBytes[d]

(* A connection with a receiving thread has one slot and no two slots have *)
(* the same connection, so no scan takes a connection twice or forgets it  *)
(* because a later connection took its slot over.                          *)
OneSlotPerConnection ==
    /\ \A d \in Data : pc[d] # "none" => \E i \in 1..gAdded : slots[i] = d
    /\ \A i, j \in Slot : slots[i] = slots[j] /\ slots[i] # NoData => i = j

(* What the reports hold of the bytes of a connection: the first scan also *)
(* takes what malloc() has left in the counter.                            *)
ReportedBytes ==
    [d \in Data |-> IF taken[d] >= garbage[d] THEN taken[d] - garbage[d] ELSE 0]

(* But for that, report_statistics() and the receivers implement the       *)
(* ledger: accept() resets nothing that was reported, and every scan of a  *)
(* slot moves the reports up to all that is counted.                       *)
Ledger == INSTANCE ByteLedger WITH Conn <- Data, reported <- ReportedBytes
LedgerImplemented == Ledger!LedgerSpec

(* What malloc() left in the two counters of a connection is the same, as  *)
(* it is in memory the process has not used before.                        *)
LeftAlike == \A i \in Slot : slots[i] # NoData =>
    numSinceStart[slots[i]] - counted[slots[i]] = garbage[slots[i]]

(* If so, the sum behind the average is that of all interval figures so    *)
(* far when a scan ends, although the two are added up from two counters,  *)
(* bytes arrive between them and connections come while the scan runs.     *)
AverageMatchesIntervals ==
    LeftAlike /\ tpPc = "scan" /\ tpSlot = NumData =>
        numBytesSinceStart = emitted + numBytes

(* A byte counted for a connection in one of the slots the scan visits is  *)
(* reported on top of what malloc() left in the counter, unless the        *)
(* process ends or has no throughput thread; it does not matter when in a  *)
(* scan the connection came or whether it is closed.                       *)
ScannedIsReported ==
    \A d \in Data : \A n \in 1..MaxBytes :
        (counted[d] = n /\ \E i \in 0..(NumData - 1) : slots[i] = d)
            ~> (\/ taken[d] >= n + garbage[d]
                \/ ~Running
                \/ mainPc = "poll" /\ tpPc = "none")

(* The throughput thread never hangs on the mutex of a connection.         *)
ReportsKeepComing == [](tpPc # "none" => <>(tpPc = "sleep" \/ ~Running))

(* As long as no more clients connect than -n says, the throughput of each *)
(* is part of the report ("testing thoughput over a number of concurrent   *)
(* TCP connections", ReadMe.txt:14).                                       *)
ConnectionsAreScanned ==
    gAdded <= NumData => \A d \in Data : pc[d] # "none" =>
        \E i \in 0..(NumData - 1) : slots[i] = d

-----------------------------------------------------------------------------
(* What makes these invariants inductive.  The main thread starts the      *)
(* throughput thread before it accepts, holds a new object by itself until *)
(* it is added and its receiver created, and has a descriptor for each     *)
(* slot it has handed out.                                                 *)
MainInOrder ==
    /\ mainPc = "socket" => gAdded = 0 /\ fds = 0
    /\ mainPc \in {"socket", "meter"} => tpPc = "none"
    /\ mainPc \in {"add", "spawn"} => newData \in Data /\ pc[newData] = "none"
    /\ mainPc \notin {"socket", "exited"} => gAdded + 1 <= fds
    /\ mainPc = "add" => gAdded + 2 <= fds

(* Slots are used from 1 on, one after the other; an object in no slot is  *)
(* as new, and so is one without a receiver as far as it has counted.      *)
SlotsInOrder ==
    /\ \A i \in Slot : slots[i] # NoData => i \in 1..gAdded
    /\ mainPc = "add" => \A i \in Slot : slots[i] # newData
    /\ mainPc = "spawn" => \E i \in 1..gAdded : slots[i] = newData
    /\ \A d \in Data : pc[d] = "none" => counted[d] = 0
    /\ \A d \in Data : (\A i \in Slot : slots[i] # d) => taken[d] = 0

Inv == /\ TypeOK /\ MeterInv /\ MainInOrder /\ SlotsInOrder
       /\ StreamConserved /\ OneSlotPerConnection

=============================================================================
