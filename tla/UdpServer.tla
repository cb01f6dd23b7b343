----------------------------- MODULE UdpServer -----------------------------
(***************************************************************************)
(* conntest -s -udp: server_start() and eternal_loop() of server.c with    *)
(* udp_create_servers() and udp_recv_thread() of server_udp.c.  The main   *)
(* thread creates one object, socket and receiving thread per port, then   *)
(* the throughput thread, and sleeps for ever.  The receivers already run  *)
(* while the main thread still fills the table report_statistics() reads.  *)
(***************************************************************************)
EXTENDS Meter

CONSTANTS Sizes,           \* lengths of the datagrams that arrive, besides 0
          MaxDatagrams,    \* bound: datagrams that arrive at one port
          MaxBytes         \* bound: bytes that arrive at one port

ASSUME UdpAssumption ==
    /\ Data = 0..(NumData - 1)   \* object i is the one allocated for port i
    /\ Sizes \subseteq Nat \ {0}
    /\ MaxDatagrams \in Nat
    /\ MaxBytes \in Nat

VARIABLES
    mainPc,                \* where the main thread is
    next,                  \* i of the loop of udp_create_servers
    addrLenOk,             \* the uninitialized addrLen of a thread is not negative
    socket,                \* the datagram waiting at a port, or Empty
    arrived                \* datagrams that arrived at a port so far

mainVars == <<mainPc, next, addrLenOk>>
netVars == <<socket, arrived>>
vars == <<meterVars, mainVars, netVars>>

MainPc == {"bind", "spawn", "publish", "meter", "loop"}
Empty == -1

Init ==
    /\ MeterInit
    /\ mainPc = "bind"
    /\ next = 0
    /\ addrLenOk = [d \in Data |-> TRUE]
    /\ socket = [d \in Data |-> Empty]
    /\ arrived = [d \in Data |-> 0]

-----------------------------------------------------------------------------
(* The main thread.                                                        *)

(* Slip: `i <= numPorts`.                                                  *)
OneMorePort == next <= NumData
PortsLeft == next < NumData

(* malloc, memset and server_create_and_bind_socket() of port `next`.      *)
BindPort ==
    /\ mainPc = "bind"
    /\ PortsLeft
    /\ mainPc' = "spawn"
    /\ UNCHANGED <<meterVars, next, addrLenOk, netVars>>

(* socket() or bind() failed: udp_create_servers() returns -1 and          *)
(* server_start() goes on with the ports it has.                           *)
BindFails ==
    /\ mainPc = "bind"
    /\ PortsLeft
    /\ mainPc' = "meter"
    /\ UNCHANGED <<meterVars, next, addrLenOk, netVars>>

(* pthread_create() of udp_recv_thread, whose addrLen holds anything.      *)
SpawnReceiver ==
    /\ mainPc = "spawn"
    /\ \E ok \in BOOLEAN : addrLenOk' = [addrLenOk EXCEPT ![next] = ok]
    /\ pc' = [pc EXCEPT ![next] = "recv"]
    /\ mainPc' = "publish"
    /\ UNCHANGED <<slots, counterVars, res, reg, counted, tpVars, next, netVars>>

(* pthread_create() fails with a positive error number, which `< 0` misses *)
SpawnFails ==
    /\ mainPc = "spawn"
    /\ mainPc' = "publish"
    /\ UNCHANGED <<meterVars, next, addrLenOk, netVars>>

(* Slip: servers[++i], as server_add() has it for TCP.                     *)
SlotAfter == next + 1
SlotOfPort == next

(* servers[i] = data                                                       *)
PublishPort ==
    /\ mainPc = "publish"
    /\ slots' = [slots EXCEPT ![SlotOfPort] = next]
    /\ next' = next + 1
    /\ mainPc' = "bind"
    /\ UNCHANGED <<counterVars, recvVars, tpVars, addrLenOk, netVars>>

AllPortsCreated ==
    /\ mainPc = "bind"
    /\ next = NumData
    /\ mainPc' = "meter"
    /\ UNCHANGED <<meterVars, next, addrLenOk, netVars>>

(* eternal_loop() starts tp_thread and from then on only sleeps.           *)
StartMeter ==
    /\ mainPc = "meter"
    /\ tpPc' = "sleep"
    /\ mainPc' = "loop"
    /\ UNCHANGED <<slots, counterVars, recvVars, tpSlot, tpTook, numBytes,
                   numBytesSinceStart, taken, emitted, next, addrLenOk, netVars>>

(* Here too a failed pthread_create() is a positive number, not `< 0`.     *)
StartMeterFails ==
    /\ mainPc = "meter"
    /\ mainPc' = "loop"
    /\ UNCHANGED <<meterVars, next, addrLenOk, netVars>>

Main == \/ BindPort \/ BindFails \/ SpawnReceiver \/ SpawnFails \/ PublishPort
        \/ AllPortsCreated \/ StartMeter \/ StartMeterFails

-----------------------------------------------------------------------------
(* Datagrams and the receiving threads.                                    *)

IsBound(d) == d < next \/ (d = next /\ mainPc \in {"spawn", "publish"})

DatagramArrives(d) ==
    /\ IsBound(d)
    /\ socket[d] = Empty
    /\ arrived[d] < MaxDatagrams
    /\ \E n \in Sizes \union {0} : socket' = [socket EXCEPT ![d] = n]
    /\ arrived' = [arrived EXCEPT ![d] = @ + 1]
    /\ UNCHANGED <<meterVars, mainVars>>

Recvfrom(d) ==
    /\ addrLenOk[d]
    /\ socket[d] \in Sizes
    /\ Receive(d, socket[d])
    /\ socket' = [socket EXCEPT ![d] = Empty]
    /\ UNCHANGED <<mainVars, arrived>>

(* An empty datagram gives res == 0, which the thread takes for a close.   *)
RecvfromEmpty(d) ==
    /\ addrLenOk[d]
    /\ socket[d] = 0
    /\ ReceiverExits(d)
    /\ socket' = [socket EXCEPT ![d] = Empty]
    /\ UNCHANGED <<mainVars, arrived>>

(* recvfrom() with a negative addrLen drops the datagram and returns -1.   *)
RecvfromFails(d) ==
    /\ ~addrLenOk[d]
    /\ pc[d] = "recv"
    /\ socket[d] # Empty
    /\ socket' = [socket EXCEPT ![d] = Empty]
    /\ UNCHANGED <<meterVars, mainVars, arrived>>

Receiver(d) ==
    \/ Recvfrom(d) \/ RecvfromEmpty(d) \/ RecvfromFails(d)
    \/ RecvStep(d) /\ UNCHANGED <<mainVars, netVars>>

TpThread == (TpWake \/ ScanStep \/ SendReport) /\ UNCHANGED <<mainVars, netVars>>

Next ==
    \/ Main
    \/ TpThread
    \/ \E d \in Data : DatagramArrives(d) \/ Receiver(d)

Spec == Init /\ [][Next]_vars

(* Each thread is scheduled as long as it can run; datagrams may stop.  A  *)
(* receiver waiting for a mutex gets it although the throughput thread     *)
(* takes it in every scan: between scans that thread sleeps for a second.  *)
Fairness ==
    /\ WF_vars(Main)
    /\ WF_vars(TpThread)
    /\ \A d \in Data : /\ WF_vars(Receiver(d))
                        /\ SF_vars(LockCounters(d) /\ UNCHANGED <<mainVars, netVars>>)

FairSpec == Spec /\ Fairness

-----------------------------------------------------------------------------
TypeOK ==
    /\ MeterTypeOK
    /\ mainPc \in MainPc
    /\ next \in 0..NumData
    /\ addrLenOk \in [Data -> BOOLEAN]
    /\ socket \in [Data -> Sizes \union {0, Empty}]
    /\ arrived \in [Data -> 0..MaxDatagrams]

(* Every byte a receiver has counted is either still in numSinceMeasure or *)
(* has been taken into a report, once: no increment is lost between the    *)
(* load and the store of a counter, and none survives the reset.           *)
NoByteLostOrDoubled == \A d \in Data : Surplus(d) = 0

(* The average a report prints is computed from the same bytes as all the  *)
(* interval figures printed so far: when a scan is complete, the sum of    *)
(* numSinceStart is the sum of all intervals including this one.           *)
AverageMatchesIntervals ==
    tpPc = "scan" /\ tpSlot = NumData => numBytesSinceStart = emitted + numBytes

(* report_statistics() and the receivers implement the ledger.             *)
Ledger == INSTANCE ByteLedger WITH Conn <- Data, reported <- taken
LedgerImplemented == Ledger!LedgerSpec

(* A received datagram reaches a report, also when it arrives while the    *)
(* table is being filled or scanned and also when a later port cannot be   *)
(* bound, if there is a throughput thread at all.                          *)
ReceivedIsReported ==
    \A d \in Data : \A n \in 1..MaxBytes :
        (pc[d] = "lock" /\ counted[d] + res[d] = n)
            ~> (taken[d] >= n \/ (mainPc = "loop" /\ tpPc = "none"))

(* The throughput thread never hangs on the mutex of a receiver, not even  *)
(* of one that has exited: it is back in its sleep again and again.        *)
ReportsKeepComing == [](tpPc # "none" => <>(tpPc = "sleep"))

(* The main thread starts the throughput thread last, and a receiver only  *)
(* for the port it is at: there is none yet for a port still to come.      *)
MainInOrder ==
    /\ mainPc \in {"spawn", "publish"} => next < NumData
    /\ mainPc # "loop" => tpPc = "none"
    /\ \A d \in Data : d > next \/ (d = next /\ mainPc \in {"bind", "spawn"})
                         => pc[d] = "none"

(* The inductive invariant: types, mutex discipline, start-up, the ledger. *)
Inv == TypeOK /\ MeterInv /\ MainInOrder /\ NoByteLostOrDoubled

=============================================================================
