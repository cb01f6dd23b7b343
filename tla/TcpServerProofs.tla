-------------------------- MODULE TcpServerProofs --------------------------
(***************************************************************************)
(* Proofs about the TCP server, for any number of connections, bytes and   *)
(* descriptors and whatever malloc() leaves in the counters: each byte is  *)
(* in one place, each connection in one slot, the two figures of a report  *)
(* are of the same bytes and of all those counted before the scan, and the *)
(* server implements the ledger of ByteLedger.                             *)
(***************************************************************************)
EXTENDS TcpServer, MeterProofs

USE MeterAssumption, TcpAssumption
USE DEF Lock, Free, Unlock, ResetCounter, FreshSums, FdLeft, NextSlot

LEMMA InitInv == ASSUME Init PROVE Inv
<1>1. MeterInv /\ \A d \in Data : Surplus(d) = 0
  BY MeterInitInv DEF Init
<1>2. TypeOK
  BY <1>1 DEF MeterInv, TypeOK, Init, MainPc, Conn
<1>3. MainInOrder /\ SlotsInOrder /\ OneSlotPerConnection
  BY DEF Init, MeterInit, MainInOrder, SlotsInOrder, OneSlotPerConnection
<1>4. StreamConserved
  <2>1. ASSUME NEW d \in Data
        PROVE  Surplus(d) = garbage[d] /\ counted[d] + InHand(d) + inbox[d] = sentBytes[d]
    <3>1. /\ garbage[d] = 0 /\ pc[d] = "none" /\ counted[d] = 0
          /\ inbox[d] = 0 /\ sentBytes[d] = 0
      BY DEF Init, MeterInit
    <3>2. InHand(d) = 0
      BY <3>1 DEF InHand
    <3> QED BY <1>1, <3>1, <3>2
  <2> QED BY <2>1 DEF StreamConserved
<1> QED BY <1>1, <1>2, <1>3, <1>4 DEF Inv

-----------------------------------------------------------------------------
(* The steps of the main thread.                                           *)

(* The slot server_add() fills is free, in the table, and nobody's yet: a  *)
(* slot is handed out at the price of a descriptor, and MaxFds is at most  *)
(* TableSize.                                                              *)
LEMMA FreshSlot ==
    ASSUME Inv, mainPc = "add"
    PROVE  /\ gAdded + 1 \in 1..(TableSize - 1)
           /\ gAdded + 1 \in Slot
           /\ slots[gAdded + 1] = NoData
           /\ newData \in Data /\ pc[newData] = "none"
<1>1. gAdded \in Nat /\ fds \in 0..MaxFds /\ gAdded + 2 <= fds
  BY DEF Inv, TypeOK, MainInOrder
<1>2. gAdded + 1 \in 1..(TableSize - 1)
  BY <1>1
<1>3. gAdded + 1 \in Slot /\ gAdded + 1 \notin 1..gAdded
  BY <1>1, <1>2 DEF Slot
<1>4. slots[gAdded + 1] = NoData
  BY <1>3 DEF Inv, SlotsInOrder
<1> QED BY <1>2, <1>3, <1>4 DEF Inv, MainInOrder

(* A connection that is accepted has no thread and no slot yet, so nobody  *)
(* looks at the counters and the mutex that main() overwrites.             *)
LEMMA AcceptKeeps ==
    ASSUME Inv, NEW c \in Data, Accept(c)
    PROVE  MeterInv' /\ \A d \in Data : Surplus(d)' = garbage'[d]
<1> USE DEF Inv, MeterInv
<1>0. /\ pc[c] = "none" /\ counted[c] = 0 /\ taken[c] = 0
      /\ \A i \in Slot : slots[i] # c
  BY DEF Accept, Pending, SlotsInOrder
<1>1. PICK g, h \in Garbage :
          /\ garbage' = [garbage EXCEPT ![c] = g]
          /\ numSinceMeasure' = [numSinceMeasure EXCEPT ![c] = g]
          /\ numSinceStart' = [numSinceStart EXCEPT ![c] = h]
  BY DEF Accept
<1>2. /\ mutex' = [mutex EXCEPT ![c] = "free"]
      /\ UNCHANGED <<slots, recvVars, tpVars>>
  BY DEF Accept
<1>3. MeterTypeOK'
  BY <1>1, <1>2 DEF MeterTypeOK, recvVars, tpVars, Holder
<1>4. tpPc \in InSection => Current # c
  BY <1>0, VisitedSlot DEF MutexOwned, Current
<1>5. MutexOwned' /\ LoadedIsCurrent'
  BY <1>0, <1>1, <1>2, <1>4 DEF MeterTypeOK, MutexOwned, LoadedIsCurrent, Current,
     recvVars, tpVars, InSection
<1>6. ASSUME NEW d \in Data PROVE Surplus(d)' = garbage'[d]
  <2>1. /\ counted' = counted /\ taken' = taken
        /\ garbage \in [Data -> Garbage \union {0}]
        /\ numSinceMeasure \in [Data -> Nat]
    BY <1>2 DEF recvVars, tpVars, TypeOK, MeterTypeOK
  <2>2. Surplus(d) = garbage[d]
    BY DEF StreamConserved
  <2>3. CASE d = c
    <3>1. /\ taken'[c] = 0 /\ counted'[c] = 0
          /\ numSinceMeasure'[c] = g /\ garbage'[c] = g
      BY <1>0, <1>1, <2>1
    <3> QED BY <3>1, <2>3 DEF Surplus
  <2>4. CASE d # c
    <3>1. numSinceMeasure'[d] = numSinceMeasure[d] /\ garbage'[d] = garbage[d]
      BY <1>1, <2>1, <2>4
    <3> QED BY <3>1, <2>1, <2>2 DEF Surplus
  <2> QED BY <2>3, <2>4
<1> QED BY <1>3, <1>5, <1>6

(* The other steps of the main thread keep what the counters hold; a slot  *)
(* is filled that the scan takes for NULL or has not come to.              *)
LEMMA MainKeeps ==
    ASSUME Inv, Main, \A d \in Data : ~Accept(d)
    PROVE  MeterInv' /\ SurplusKept /\ garbage' = garbage
<1> USE DEF Inv, MeterInv
<1>1. CASE \/ CreateServer \/ Register \/ SpawnFails
           \/ \E d \in Data : AcceptFails(d)
  BY <1>1, MeterInvUnchanged DEF CreateServer, Register, SpawnFails, AcceptFails
<1>2. CASE StartMeter
  <2>0. tpPc = "none"
    BY <1>2 DEF MainInOrder, StartMeter
  <2>1. MeterTypeOK'
    BY <1>2 DEF MeterTypeOK, StartMeter, counterVars, recvVars, TpPc
  <2>2. MutexOwned' /\ LoadedIsCurrent'
    BY <1>2, <2>0 DEF MeterTypeOK, MutexOwned, LoadedIsCurrent, StartMeter, Current,
                counterVars, recvVars, InSection
  <2>3. SurplusKept /\ garbage' = garbage
    BY <1>2 DEF SurplusKept, Surplus, StartMeter, counterVars, recvVars
  <2> QED BY <2>1, <2>2, <2>3
<1>3. CASE ServerAdd
  <2>0. /\ gAdded + 1 \in Slot /\ slots[gAdded + 1] = NoData /\ newData \in Data
        /\ slots' = [slots EXCEPT ![gAdded + 1] = newData]
    BY <1>3, FreshSlot DEF ServerAdd
  <2>1. MeterTypeOK'
    BY <1>3, <2>0 DEF MeterTypeOK, ServerAdd, counterVars, recvVars, tpVars
  <2>2. tpPc \in InSection => slots'[tpSlot] = slots[tpSlot]
    BY <2>0 DEF MeterTypeOK, MutexOwned, Current
  <2>3. MutexOwned' /\ LoadedIsCurrent'
    BY <1>3, <2>0, <2>2 DEF MeterTypeOK, MutexOwned, LoadedIsCurrent, ServerAdd,
       Current, counterVars, recvVars, tpVars, InSection
  <2>4. SurplusKept /\ garbage' = garbage
    BY <1>3 DEF SurplusKept, Surplus, ServerAdd, counterVars, recvVars, tpVars
  <2> QED BY <2>1, <2>3, <2>4
<1>4. CASE SpawnReceiver
  <2>0. newData \in Data /\ pc[newData] = "none"
    BY <1>4 DEF MainInOrder, SpawnReceiver
  <2>1. MeterTypeOK'
    BY <1>4 DEF MeterTypeOK, SpawnReceiver, counterVars, tpVars, RecvPc
  <2>2. MutexOwned' /\ LoadedIsCurrent'
    BY <1>4, <2>0 DEF MeterTypeOK, MutexOwned, LoadedIsCurrent, SpawnReceiver, Current,
                counterVars, tpVars
  <2>3. SurplusKept /\ garbage' = garbage
    BY <1>4 DEF SurplusKept, Surplus, SpawnReceiver, counterVars, tpVars
  <2> QED BY <2>1, <2>2, <2>3
<1> QED BY <1>1, <1>2, <1>3, <1>4 DEF Main

-----------------------------------------------------------------------------
(* Every step, of whatever thread or client, keeps the mutex discipline    *)
(* and the first half of StreamConserved.                                  *)
LEMMA NextKeeps ==
    ASSUME Inv, [Next]_vars
    PROVE  MeterInv' /\ \A d \in Data : Surplus(d)' = garbage'[d]
<1> USE DEF Inv
<1>1. CASE \E d \in Data : Accept(d)
  BY <1>1, AcceptKeeps
<1>2. CASE ~\E d \in Data : Accept(d)
  <2>1. MeterInv' /\ SurplusKept /\ garbage' = garbage
    <3>1. CASE Main
      BY <1>2, <3>1, MainKeeps
    <3>2. CASE TpThread
      BY <3>2, TpWakeKeeps, ScanStepKeeps, SendReportKeeps
         DEF TpThread, Scan, Report, mainVars
    <3>3. ASSUME NEW d \in Data, Recvfrom(d)
          PROVE  MeterInv' /\ SurplusKept /\ garbage' = garbage
      <4>1. PICK n \in 1..inbox[d] : Receive(d, n)
        BY <3>3 DEF Recvfrom
      <4>2. n \in Nat \ {0}
        BY DEF TypeOK
      <4> QED BY <3>3, <4>1, <4>2, ReceiveKeeps DEF Recvfrom, mainVars
    <3>4. ASSUME NEW d \in Data, RecvfromClosed(d)
          PROVE  MeterInv' /\ SurplusKept /\ garbage' = garbage
      BY <3>4, ReceiverExitsKeeps DEF RecvfromClosed, mainVars
    <3>5. ASSUME NEW d \in Data, CountReceived(d)
          PROVE  MeterInv' /\ SurplusKept /\ garbage' = garbage
      BY <3>5, RecvStepKeeps DEF CountReceived, mainVars
    <3>6. ASSUME NEW d \in Data, Client(d)
          PROVE  MeterInv' /\ SurplusKept /\ garbage' = garbage
      BY <3>6, MeterInvUnchanged
         DEF Client, ClientConnects, ClientSends, ClientCloses, mainVars
    <3>7. CASE UNCHANGED vars
      BY <3>7, MeterInvUnchanged DEF vars, mainVars
    <3> QED BY <3>1, <3>2, <3>3, <3>4, <3>5, <3>6, <3>7 DEF Next, Receiver
  <2> QED BY <2>1 DEF SurplusKept, StreamConserved
<1> QED BY <1>1, <1>2

-----------------------------------------------------------------------------
(* The rest of the invariant: first what the three kinds of threads that   *)
(* are not main() leave alone of it.                                       *)

LEMMA ReceiverFrame ==
    ASSUME Inv, NEW d \in Data, Receiver(d)
    PROVE  /\ UNCHANGED <<slots, tpVars, mainVars, fds, conn, sentBytes>>
           /\ pc[d] # "none" /\ pc'[d] # "none"
           /\ \A e \in Data \ {d} : /\ pc'[e] = pc[e]
                                    /\ res'[e] = res[e]
                                    /\ counted'[e] = counted[e]
                                    /\ inbox'[e] = inbox[e]
           /\ inbox' \in [Data -> 0..MaxBytes]
<1> USE DEF Inv
<1>1. CASE Recvfrom(d)
  <2>1. PICK n \in 1..inbox[d] :
            Receive(d, n) /\ inbox' = [inbox EXCEPT ![d] = @ - n]
    BY <1>1 DEF Recvfrom
  <2>2. inbox \in [Data -> 0..MaxBytes]
    BY DEF TypeOK
  <2>3. inbox[d] \in 0..MaxBytes /\ n \in Nat /\ inbox[d] - n \in 0..MaxBytes
    BY <2>1, <2>2
  <2>4. inbox' \in [Data -> 0..MaxBytes] /\ \A e \in Data \ {d} : inbox'[e] = inbox[e]
    BY <2>1, <2>2, <2>3
  <2> QED BY <1>1, <2>1, <2>3, <2>4, RecvFrame DEF Recvfrom
<1>2. CASE RecvfromClosed(d) \/ CountReceived(d)
  BY <1>2, RecvFrame DEF RecvfromClosed, CountReceived, netVars, TypeOK
<1> QED BY <1>1, <1>2 DEF Receiver

LEMMA TpThreadFrame ==
    ASSUME Inv, TpThread
    PROVE  /\ UNCHANGED <<slots, recvVars, mainVars, netVars>>
           /\ tpPc # "none"
           /\ fds \in Nat /\ fds' \in fds..MaxFds
           /\ \A e \in Data : (\A i \in Slot : slots[i] # e) => taken'[e] = taken[e]
<1> USE DEF Inv
<1>1. TpWake \/ ScanStep \/ SendReport
  BY DEF TpThread, Scan, Report
<1>2. UNCHANGED <<mainVars, netVars>>
  BY DEF TpThread, Scan, Report
<1>3. fds \in Nat /\ fds' \in fds..MaxFds
  BY DEF TpThread, Scan, Report, OpenReportSocket, TypeOK
<1> QED BY <1>1, <1>2, <1>3, TpFrame

LEMMA ClientFrame ==
    ASSUME Inv, NEW d \in Data, Client(d)
    PROVE  /\ UNCHANGED <<meterVars, mainVars, fds>>
           /\ conn' \in [Data -> Conn]
           /\ inbox' \in [Data -> Nat] /\ sentBytes' \in [Data -> 0..MaxBytes]
           /\ \A e \in Data : sentBytes'[e] - inbox'[e] = sentBytes[e] - inbox[e]
<1> USE DEF Inv, TypeOK
<1>1. CASE ClientConnects(d) \/ ClientCloses(d)
  BY <1>1 DEF ClientConnects, ClientCloses, Conn
<1>2. CASE ClientSends(d)
  BY <1>2 DEF ClientSends
<1> QED BY <1>1, <1>2 DEF Client

-----------------------------------------------------------------------------
LEMMA NextMainInOrder == ASSUME Inv, [Next]_vars PROVE MainInOrder'
<1> USE DEF Inv, TypeOK, MainInOrder
<1>1. CASE Main
  <2>1. CASE CreateServer
    BY <2>1 DEF CreateServer, meterVars, recvVars, tpVars
  <2>2. CASE StartMeter
    BY <2>2 DEF StartMeter, recvVars
  <2>3. CASE Register
    BY <2>3 DEF Register, OpenReportSocket, meterVars, recvVars, tpVars
  <2>4. CASE \E d \in Data : Accept(d)
    BY <2>4 DEF Accept, Pending, recvVars, tpVars
  <2>5. CASE ServerAdd
    BY <2>5 DEF ServerAdd, recvVars, tpVars
  <2>6. CASE SpawnReceiver
    BY <2>6 DEF SpawnReceiver, tpVars
  <2>7. CASE SpawnFails \/ \E d \in Data : AcceptFails(d)
    BY <2>7 DEF SpawnFails, AcceptFails
  <2> QED BY <1>1, <2>1, <2>2, <2>3, <2>4, <2>5, <2>6, <2>7 DEF Main
<1>2. CASE TpThread
  BY <1>2, TpThreadFrame DEF mainVars, recvVars
<1>3. ASSUME NEW d \in Data, Receiver(d) PROVE MainInOrder'
  BY <1>3, ReceiverFrame DEF mainVars, tpVars
<1>4. ASSUME NEW d \in Data, Client(d) PROVE MainInOrder'
  BY <1>4, ClientFrame DEF mainVars, meterVars, recvVars, tpVars
<1>5. CASE UNCHANGED vars
  BY <1>5 DEF vars, mainVars, meterVars, recvVars, tpVars
<1> QED BY <1>1, <1>2, <1>3, <1>4, <1>5 DEF Next

(* Slots are filled one after the other, and no step but main()'s fills    *)
(* one.                                                                    *)
LEMMA NextSlotsInOrder == ASSUME Inv, [Next]_vars PROVE SlotsInOrder'
<1> USE DEF Inv, SlotsInOrder
<1>1. CASE Main
  <2>1. CASE \/ CreateServer \/ StartMeter \/ Register \/ SpawnFails
             \/ \E d \in Data : AcceptFails(d)
    BY <2>1 DEF CreateServer, StartMeter, Register, SpawnFails, AcceptFails, meterVars,
       recvVars, tpVars
  <2>2. ASSUME NEW d \in Data, Accept(d) PROVE SlotsInOrder'
    BY <2>2 DEF Accept, Pending, recvVars, tpVars
  <2>3. CASE ServerAdd
    <3>1. /\ gAdded' = gAdded + 1 /\ gAdded \in Nat
          /\ slots' = [slots EXCEPT ![gAdded + 1] = newData]
          /\ slots \in [Slot -> Data \union {NoData}]
          /\ newData' = newData /\ mainPc' = "spawn"
          /\ UNCHANGED <<pc, counted, taken>>
      BY <2>3 DEF ServerAdd, recvVars, tpVars, TypeOK, MeterInv, MeterTypeOK
    <3>2. /\ gAdded + 1 \in Slot /\ slots[gAdded + 1] = NoData /\ newData \in Data
      BY <2>3, FreshSlot DEF ServerAdd
    <3>3. /\ slots'[gAdded + 1] = newData
          /\ \A i \in Slot \ {gAdded + 1} : slots'[i] = slots[i]
      BY <3>1, <3>2
    <3>4. \A i \in Slot : slots'[i] # NoData => i \in 1..gAdded'
      BY <3>1, <3>3
    <3>5. \E i \in 1..gAdded' : slots'[i] = newData'
      BY <3>1, <3>3
    <3>6. \A d \in Data : (\A i \in Slot : slots'[i] # d) => taken'[d] = 0
      BY <3>1, <3>2, <3>3
    <3> QED BY <3>1, <3>4, <3>5, <3>6
  <2>4. CASE SpawnReceiver
    BY <2>4 DEF SpawnReceiver, tpVars, MeterInv, MeterTypeOK
  <2> QED BY <1>1, <2>1, <2>2, <2>3, <2>4 DEF Main
<1>2. CASE TpThread
  BY <1>2, TpThreadFrame DEF mainVars, recvVars
<1>3. ASSUME NEW d \in Data, Receiver(d) PROVE SlotsInOrder'
  BY <1>3, ReceiverFrame DEF mainVars, tpVars
<1>4. ASSUME NEW d \in Data, Client(d) PROVE SlotsInOrder'
  BY <1>4, ClientFrame DEF mainVars, meterVars, recvVars, tpVars
<1>5. CASE UNCHANGED vars
  BY <1>5 DEF vars, mainVars, meterVars, recvVars, tpVars
<1> QED BY <1>1, <1>2, <1>3, <1>4, <1>5 DEF Next

LEMMA NextOneSlot == ASSUME Inv, [Next]_vars PROVE OneSlotPerConnection'
<1> USE DEF Inv, OneSlotPerConnection
<1>1. CASE Main
  <2>1. CASE \/ CreateServer \/ StartMeter \/ Register \/ SpawnFails
             \/ \E d \in Data : Accept(d) \/ AcceptFails(d)
    BY <2>1 DEF CreateServer, StartMeter, Register, SpawnFails, Accept, AcceptFails,
       meterVars, recvVars
  <2>2. CASE ServerAdd
    <3>1. /\ gAdded' = gAdded + 1 /\ gAdded \in Nat /\ pc' = pc
          /\ slots' = [slots EXCEPT ![gAdded + 1] = newData]
          /\ slots \in [Slot -> Data \union {NoData}]
      BY <2>2 DEF ServerAdd, recvVars, TypeOK, MeterInv, MeterTypeOK
    <3>2. gAdded + 1 \in Slot /\ \A i \in Slot : slots[i] # newData
      BY <2>2, FreshSlot DEF ServerAdd, SlotsInOrder
    <3>3. /\ slots'[gAdded + 1] = newData
          /\ \A i \in Slot \ {gAdded + 1} : slots'[i] = slots[i]
      BY <3>1, <3>2
    <3>4. 1..gAdded \subseteq Slot \ {gAdded + 1} /\ 1..gAdded \subseteq 1..gAdded'
      BY <3>1, <3>2 DEF Slot
    <3>5. \A d \in Data : pc'[d] # "none" => \E i \in 1..gAdded' : slots'[i] = d
      BY <3>1, <3>3, <3>4
    <3>6. \A i, j \in Slot : slots'[i] = slots'[j] /\ slots'[i] # NoData => i = j
      BY <3>2, <3>3
    <3> QED BY <3>5, <3>6
  <2>3. CASE SpawnReceiver
    BY <2>3 DEF SpawnReceiver, SlotsInOrder, MeterInv, MeterTypeOK
  <2> QED BY <1>1, <2>1, <2>2, <2>3 DEF Main
<1>2. CASE TpThread
  BY <1>2, TpThreadFrame DEF mainVars, recvVars
<1>3. ASSUME NEW d \in Data, Receiver(d) PROVE OneSlotPerConnection'
  BY <1>3, ReceiverFrame DEF mainVars
<1>4. ASSUME NEW d \in Data, Client(d) PROVE OneSlotPerConnection'
  BY <1>4, ClientFrame DEF mainVars, meterVars, recvVars
<1>5. CASE UNCHANGED vars
  BY <1>5 DEF vars, mainVars, meterVars, recvVars
<1> QED BY <1>1, <1>2, <1>3, <1>4, <1>5 DEF Next

-----------------------------------------------------------------------------
(* The bytes of a stream: not yet received, in the hand of the receiver,   *)
(* or counted.                                                             *)
AllReceived == \A d \in Data : counted[d] + InHand(d) + inbox[d] = sentBytes[d]

LEMMA ReceiverConserves ==
    ASSUME Inv, NEW d \in Data, Receiver(d)
    PROVE  counted'[d] + InHand(d)' + inbox'[d] = sentBytes'[d]
<1>1. /\ pc \in [Data -> RecvPc] /\ res \in [Data -> Nat] /\ counted \in [Data -> Nat]
      /\ inbox \in [Data -> 0..MaxBytes] /\ sentBytes \in [Data -> 0..MaxBytes]
      /\ counted[d] + InHand(d) + inbox[d] = sentBytes[d]
  BY DEF Inv, TypeOK, MeterTypeOK, StreamConserved
<1>2. CASE Recvfrom(d)
  <2>1. PICK n \in 1..inbox[d] :
            Receive(d, n) /\ inbox' = [inbox EXCEPT ![d] = @ - n]
    BY <1>2 DEF Recvfrom
  <2>2. /\ counted' = counted /\ sentBytes' = sentBytes
        /\ pc[d] = "recv" /\ pc'[d] = "lock" /\ res'[d] = n
    BY <1>1, <1>2, <2>1 DEF Recvfrom, Receive
  <2>3. InHand(d) = 0 /\ InHand(d)' = n
    BY <2>2 DEF InHand
  <2>4. inbox'[d] = inbox[d] - n /\ n \in Nat
    BY <1>1, <2>1
  <2> QED BY <1>1, <2>2, <2>3, <2>4
<1>3. CASE RecvfromClosed(d)
  BY <1>1, <1>3 DEF RecvfromClosed, ReceiverExits, InHand, netVars
<1>4. CASE CountReceived(d)
  <2>1. UNCHANGED <<inbox, sentBytes>>
    BY <1>4 DEF CountReceived, netVars
  <2>2. CASE StoreCounters(d)
    <3>1. /\ pc[d] = "store" /\ pc'[d] = "unlock"
          /\ counted'[d] = counted[d] + res[d]
      BY <1>1, <2>2 DEF StoreCounters
    <3>2. InHand(d) = res[d] /\ InHand(d)' = 0
      BY <3>1 DEF InHand
    <3> QED BY <1>1, <2>1, <3>1, <3>2
  <2>3. CASE LockCounters(d) \/ LoadCounters(d) \/ UnlockCounters(d)
    <3>1. counted' = counted /\ InHand(d)' = InHand(d)
      BY <1>1, <2>3 DEF LockCounters, LoadCounters, UnlockCounters, InHand
    <3> QED BY <1>1, <2>1, <3>1
  <2> QED BY <1>4, <2>2, <2>3 DEF CountReceived, RecvStep
<1> QED BY <1>2, <1>3, <1>4 DEF Receiver

LEMMA NextAllReceived == ASSUME Inv, [Next]_vars PROVE AllReceived'
<1>0. AllReceived
  BY DEF Inv, StreamConserved, AllReceived
<1>1. CASE Main
  <2>1. CASE SpawnReceiver
    <3>1. newData \in Data /\ pc[newData] = "none" /\ pc \in [Data -> RecvPc]
      BY <2>1 DEF Inv, MainInOrder, SpawnReceiver, TypeOK, MeterTypeOK
    <3>2. \A d \in Data : InHand(d)' = InHand(d)
      BY <2>1, <3>1 DEF SpawnReceiver, InHand
    <3> QED BY <1>0, <2>1, <3>2 DEF SpawnReceiver, AllReceived, netVars
  <2>2. CASE ~SpawnReceiver
    <3>1. UNCHANGED <<recvVars, netVars>>
      BY <1>1, <2>2 DEF Main, CreateServer, StartMeter, Register, Accept, AcceptFails,
         ServerAdd, SpawnFails, meterVars
    <3> QED BY <1>0, <3>1 DEF AllReceived, InHand, recvVars, netVars
  <2> QED BY <2>1, <2>2
<1>2. CASE TpThread
  BY <1>0, <1>2, TpThreadFrame DEF AllReceived, InHand, recvVars, netVars
<1>3. ASSUME NEW d \in Data, Receiver(d) PROVE AllReceived'
  <2>1. ASSUME NEW e \in Data \ {d}
        PROVE  counted'[e] + InHand(e)' + inbox'[e] = sentBytes'[e]
    BY <1>0, <1>3, <2>1, ReceiverFrame DEF AllReceived, InHand
  <2> QED BY <1>3, <2>1, ReceiverConserves DEF AllReceived
<1>4. ASSUME NEW d \in Data, Client(d) PROVE AllReceived'
  <2>1. ASSUME NEW e \in Data
        PROVE  counted'[e] + InHand(e)' + inbox'[e] = sentBytes'[e]
    <3>1. /\ counted' = counted /\ InHand(e)' = InHand(e)
          /\ sentBytes'[e] - inbox'[e] = sentBytes[e] - inbox[e]
          /\ inbox'[e] \in Nat /\ sentBytes'[e] \in Nat
      BY <1>4, ClientFrame DEF InHand, meterVars, recvVars
    <3>2. /\ counted[e] \in Nat /\ inbox[e] \in Nat /\ sentBytes[e] \in Nat
          /\ InHand(e) \in Nat
      BY DEF Inv, TypeOK, MeterTypeOK, InHand
    <3>3. counted[e] + InHand(e) + inbox[e] = sentBytes[e]
      BY <1>0 DEF AllReceived
    <3> QED BY <3>1, <3>2, <3>3
  <2> QED BY <2>1 DEF AllReceived
<1>5. CASE UNCHANGED vars
  BY <1>0, <1>5 DEF vars, meterVars, recvVars, netVars, AllReceived, InHand
<1> QED BY <1>1, <1>2, <1>3, <1>4, <1>5 DEF Next

-----------------------------------------------------------------------------
LEMMA NextTypeOK == ASSUME Inv, [Next]_vars PROVE TypeOK'
<1>0. MeterTypeOK'
  BY NextKeeps DEF MeterInv
<1>1. CASE Main
  <2>1. UNCHANGED netVars
    BY <1>1 DEF Main, CreateServer, StartMeter, Register, Accept, AcceptFails,
       ServerAdd, SpawnReceiver, SpawnFails
  <2>2. mainPc' \in MainPc /\ newData' \in Data \union {NoData}
    BY <1>1 DEF Inv, TypeOK, Main, CreateServer, StartMeter, Register, Accept,
       AcceptFails, ServerAdd, SpawnReceiver, SpawnFails, MainPc
  <2>3. gAdded' \in 0..(TableSize - 1)
    BY <1>1, FreshSlot DEF Inv, TypeOK, Main, CreateServer, StartMeter, Register,
       Accept, AcceptFails, ServerAdd, SpawnReceiver, SpawnFails
  <2>4. fds' \in 0..MaxFds
    BY <1>1 DEF Inv, TypeOK, MainInOrder, Main, CreateServer, StartMeter, Register,
       Accept, AcceptFails, ServerAdd, SpawnReceiver, SpawnFails, OpenReportSocket
  <2>5. garbage' \in [Data -> Garbage \union {0}]
    BY <1>1 DEF Inv, TypeOK, Main, CreateServer, StartMeter, Register, Accept,
       AcceptFails, ServerAdd, SpawnReceiver, SpawnFails
  <2> QED BY <1>0, <2>1, <2>2, <2>3, <2>4, <2>5 DEF Inv, TypeOK, netVars
<1>2. CASE TpThread
  BY <1>0, <1>2, TpThreadFrame DEF Inv, TypeOK, mainVars, netVars
<1>3. ASSUME NEW d \in Data, Receiver(d) PROVE TypeOK'
  BY <1>0, <1>3, ReceiverFrame DEF Inv, TypeOK, mainVars
<1>4. ASSUME NEW d \in Data, Client(d) PROVE TypeOK'
  <2>1. ASSUME NEW e \in Data PROVE inbox'[e] \in 0..MaxBytes
    <3>1. counted'[e] + InHand(e)' + inbox'[e] = sentBytes'[e]
      BY NextAllReceived DEF AllReceived
    <3>2. counted'[e] \in Nat /\ InHand(e)' \in Nat
      BY <1>0 DEF MeterTypeOK, InHand
    <3>3. inbox'[e] \in Nat /\ sentBytes'[e] \in 0..MaxBytes
      BY <1>4, ClientFrame
    <3> QED BY <3>1, <3>2, <3>3
  <2>2. inbox' \in [Data -> 0..MaxBytes]
    BY <1>4, <2>1, ClientFrame
  <2> QED BY <1>0, <1>4, <2>2, ClientFrame DEF Inv, TypeOK, mainVars
<1>5. CASE UNCHANGED vars
  BY <1>0, <1>5 DEF Inv, TypeOK, vars, mainVars, netVars
<1> QED BY <1>1, <1>2, <1>3, <1>4, <1>5 DEF Next

LEMMA NextInv == ASSUME Inv, [Next]_vars PROVE Inv'
<1>1. StreamConserved'
  BY NextKeeps, NextAllReceived DEF StreamConserved, AllReceived
<1> QED BY <1>1, NextKeeps, NextTypeOK, NextMainInOrder, NextSlotsInOrder, NextOneSlot
        DEF Inv

-----------------------------------------------------------------------------
(* Every variable of the TCP server keeps its type; no slot outside the    *)
(* table of server.c is handed out while descriptors run out first.        *)
THEOREM Typing == Spec => []TypeOK
<1>1. Inv => TypeOK
  BY DEF Inv
<1> QED BY InitInv, NextInv, <1>1, PTL DEF Spec

(* Every byte of a stream is waiting in the socket, received and about to  *)
(* be counted, in the counter of its connection, or in the reports, once;  *)
(* what is too much in the reports is what malloc() left in the counter.   *)
THEOREM Conservation == Spec => []StreamConserved
<1>1. Inv => StreamConserved
  BY DEF Inv
<1> QED BY InitInv, NextInv, <1>1, PTL DEF Spec

(* server_add() gives each connection a slot of its own for good, although *)
(* it runs while the throughput thread scans and other connections end.    *)
THEOREM OneSlot == Spec => []OneSlotPerConnection
<1>1. Inv => OneSlotPerConnection
  BY DEF Inv
<1> QED BY InitInv, NextInv, <1>1, PTL DEF Spec

-----------------------------------------------------------------------------
(* The two figures of a report.  While connections come, what is left in   *)
(* the counters of those in the table never changes; a new one has nothing *)
(* in the reports yet, so it may get a slot in the middle of a scan.       *)

FiguresInv == LeftAlike => FiguresOK

LEMMA SlotKept ==
    ASSUME Inv, [Next]_vars, NEW i \in Slot, slots[i] # NoData
    PROVE  /\ slots'[i] = slots[i]
           /\ garbage'[slots[i]] = garbage[slots[i]]
           /\ numSinceStart'[slots[i]] - counted'[slots[i]]
                 = numSinceStart[slots[i]] - counted[slots[i]]
<1>0. /\ slots[i] \in Data /\ slots \in [Slot -> Data \union {NoData}]
      /\ numSinceStart \in [Data -> Nat] /\ counted \in [Data -> Nat]
      /\ res \in [Data -> Nat]
  BY DEF Inv, TypeOK, MeterTypeOK
<1>1. CASE Main
  <2>1. ASSUME NEW d \in Data, Accept(d)
        PROVE  /\ UNCHANGED <<slots, counted>>
               /\ numSinceStart'[slots[i]] = numSinceStart[slots[i]]
               /\ garbage'[slots[i]] = garbage[slots[i]]
    <3>1. slots[i] # d
      BY <2>1 DEF Accept, Pending
    <3>2. PICK g, h \in Garbage : /\ garbage' = [garbage EXCEPT ![d] = g]
                                  /\ numSinceStart' = [numSinceStart EXCEPT ![d] = h]
      BY <2>1 DEF Accept
    <3>3. garbage \in [Data -> Garbage \union {0}]
      BY DEF Inv, TypeOK
    <3> QED BY <1>0, <2>1, <3>1, <3>2, <3>3 DEF Accept, recvVars
  <2>2. CASE ServerAdd
    <3>1. slots' = [slots EXCEPT ![gAdded + 1] = newData] /\ slots[gAdded + 1] = NoData
      BY <2>2, FreshSlot DEF ServerAdd
    <3> QED BY <1>0, <2>2, <3>1 DEF ServerAdd, counterVars, recvVars
  <2>3. CASE \/ CreateServer \/ StartMeter \/ Register \/ SpawnReceiver \/ SpawnFails
             \/ \E d \in Data : AcceptFails(d)
    BY <2>3 DEF CreateServer, StartMeter, Register, SpawnReceiver, SpawnFails, AcceptFails,
       meterVars, counterVars, recvVars
  <2> QED BY <1>1, <2>1, <2>2, <2>3 DEF Main
<1>2. CASE TpThread
  <2>1. UNCHANGED <<slots, counted, numSinceStart, garbage>>
    BY <1>2 DEF TpThread, Scan, Report, TpWake, ScanStep, SkipSlot, LockSlot, TakeSlot,
       ResetSlot, UnlockSlot, SendReport, counterVars, recvVars, mainVars
  <2> QED BY <2>1
<1>3. ASSUME NEW d \in Data, Receiver(d)
      PROVE  /\ UNCHANGED <<slots, garbage>>
             /\ numSinceStart'[slots[i]] - counted'[slots[i]]
                   = numSinceStart[slots[i]] - counted[slots[i]]
  <2>1. UNCHANGED <<slots, garbage>>
    BY <1>3, ReceiverFrame DEF mainVars
  <2>2. CASE StoreCounters(d)
    BY <1>0, <2>1, <2>2 DEF StoreCounters
  <2>3. CASE ~StoreCounters(d)
    BY <1>3, <2>1, <2>3 DEF Receiver, Recvfrom, RecvfromClosed, CountReceived, Receive,
       ReceiverExits, RecvStep, LockCounters, LoadCounters, UnlockCounters, counterVars
  <2> QED BY <2>1, <2>2, <2>3
<1>4. ASSUME NEW d \in Data, Client(d)
      PROVE  UNCHANGED <<slots, counted, numSinceStart, garbage>>
  BY <1>4, ClientFrame DEF meterVars, counterVars, recvVars, mainVars
<1>5. CASE UNCHANGED vars
  BY <1>5 DEF vars, meterVars, counterVars, recvVars, mainVars
<1> QED BY <1>1, <1>2, <1>3, <1>4, <1>5 DEF Next

LEMMA WasAlike == ASSUME Inv, [Next]_vars, LeftAlike' PROVE LeftAlike
<1>1. SUFFICES ASSUME NEW i \in Slot, slots[i] # NoData
               PROVE  numSinceStart[slots[i]] - counted[slots[i]] = garbage[slots[i]]
  BY DEF LeftAlike
<1>2. numSinceStart'[slots'[i]] - counted'[slots'[i]] = garbage'[slots'[i]]
  BY <1>1, SlotKept DEF LeftAlike
<1> QED BY <1>1, <1>2, SlotKept

(* Outside the scan, what the reports hold of a slot stays as it is: what  *)
(* accept() allocates has no slot, what server_add() adds has no report.   *)
LEMMA TakenStays ==
    ASSUME Inv, [Next]_vars, ~TpThread
    PROVE  /\ \A i \in Slot : TakenOf(i)' = TakenOf(i)
           /\ UNCHANGED <<tpSlot, tpTook, numBytes, numBytesSinceStart, emitted>>
           /\ tpPc' = tpPc \/ {tpPc, tpPc'} \subseteq {"none", "sleep"}
<1>1. CASE ServerAdd
  <2>1. /\ slots' = [slots EXCEPT ![gAdded + 1] = newData]
        /\ gAdded + 1 \in Slot /\ slots[gAdded + 1] = NoData
        /\ slots \in [Slot -> Data \union {NoData}]
    BY <1>1, FreshSlot DEF ServerAdd, Inv, TypeOK, MeterTypeOK
  <2>2. newData \in Data /\ taken[newData] = 0 /\ UNCHANGED tpVars
    BY <1>1, FreshSlot DEF ServerAdd, Inv, SlotsInOrder
  <2> QED BY <2>1, <2>2 DEF TakenOf, tpVars
<1>2. CASE ~ServerAdd
  <2>1. /\ UNCHANGED <<slots, taken, tpSlot, tpTook, numBytes, numBytesSinceStart, emitted>>
        /\ tpPc' = tpPc \/ {tpPc, tpPc'} \subseteq {"none", "sleep"}
    <3>1. CASE Main
      BY <1>2, <3>1 DEF Main, CreateServer, StartMeter, Register, Accept, AcceptFails,
         SpawnReceiver, SpawnFails, meterVars, tpVars, Inv, MainInOrder
    <3>2. ASSUME NEW d \in Data, Receiver(d) PROVE UNCHANGED <<slots, tpVars>>
      BY <3>2, ReceiverFrame
    <3>3. ASSUME NEW d \in Data, Client(d) PROVE UNCHANGED <<slots, tpVars>>
      BY <3>3, ClientFrame DEF meterVars
    <3>4. CASE UNCHANGED vars
      BY <3>4 DEF vars, meterVars, tpVars
    <3> QED BY <3>1, <3>2, <3>3, <3>4 DEF Next, tpVars
  <2> QED BY <2>1 DEF TakenOf
<1> QED BY <1>1, <1>2

(* Before the reset, what was counted for the average is what the reports  *)
(* hold or get: both counters hold the same too much.                      *)
LEMMA AlikeSameBytes == ASSUME Inv, LeftAlike PROVE SameBytes
<1>1. SUFFICES ASSUME tpPc = "reset"
               PROVE  numSinceStart[Current] = taken[Current] + tpTook
  BY DEF SameBytes
<1>2. /\ Current \in Data /\ tpTook = numSinceMeasure[Current] /\ tpSlot < NumData
  BY <1>1 DEF Inv, MeterInv, MutexOwned, LoadedIsCurrent, InSection
<1>3. tpSlot \in Slot /\ slots[tpSlot] # NoData
  BY <1>2, VisitedSlot DEF Inv, MeterInv, Current
<1>4. numSinceStart[Current] - counted[Current] = garbage[Current]
  BY <1>3 DEF LeftAlike, Current
<1>5. taken[Current] + numSinceMeasure[Current] - counted[Current] = garbage[Current]
  BY <1>2 DEF Inv, StreamConserved, Surplus
<1>6. /\ taken[Current] \in Nat /\ numSinceMeasure[Current] \in Nat
      /\ counted[Current] \in Nat /\ numSinceStart[Current] \in Nat
  BY <1>2 DEF Inv, MeterInv, MeterTypeOK
<1> QED BY <1>2, <1>4, <1>5, <1>6

LEMMA NextFigures == ASSUME Inv, FiguresInv, [Next]_vars PROVE FiguresInv'
<1>1. SUFFICES ASSUME LeftAlike, FiguresOK PROVE FiguresOK'
  BY WasAlike DEF FiguresInv
<1>2. CASE TpThread
  <2>1. VisitedOnce
    BY VisitedSlots DEF VisitedOnce, Inv, OneSlotPerConnection
  <2> QED BY <1>1, <1>2, <2>1, AlikeSameBytes, ScanKeepsFigures
          DEF Inv, TpThread, Scan, Report
<1>3. CASE ~TpThread
  BY <1>1, <1>3, TakenStays, VisitedSlots, FiguresStay
<1> QED BY <1>2, <1>3

(* When report_statistics() has visited the last slot, the bytes it takes  *)
(* for the average are those of all intervals so far, whatever connections *)
(* came or ended meanwhile, if malloc() left the same in both counters of  *)
(* each connection.                                                        *)
THEOREM FiguresAgree == Spec => []AverageMatchesIntervals
<1>1. Init => FiguresInv
  BY MeterInitFigures DEF Init, FiguresInv
<1>2. Inv /\ FiguresInv => AverageMatchesIntervals
  BY VisitedSlots DEF Inv, TypeOK, MeterTypeOK, FiguresInv, FiguresOK, PartialSums, Figures,
                      AverageMatchesIntervals
<1> QED BY InitInv, NextInv, NextFigures, <1>1, <1>2, PTL DEF Spec

-----------------------------------------------------------------------------
(* What a scan takes.  A connection in the table stays in its slot, so the *)
(* scan that begins next comes by it.                                      *)

LEMMA CountsUp ==
    ASSUME Inv, [Next]_vars, NEW d \in Data
    PROVE  counted[d] \in Nat /\ counted'[d] \in Nat /\ counted[d] <= counted'[d]
<1>0. counted \in [Data -> Nat] /\ counted' \in [Data -> Nat] /\ res \in [Data -> Nat]
  BY NextTypeOK DEF Inv, TypeOK, MeterTypeOK
<1>1. ASSUME NEW e \in Data, StoreCounters(e) PROVE counted[d] <= counted'[d]
  BY <1>0, <1>1 DEF StoreCounters
<1>2. ASSUME NEW e \in Data, Receiver(e), ~StoreCounters(e) PROVE counted' = counted
  BY <1>2 DEF Receiver, Recvfrom, RecvfromClosed, CountReceived, Receive, ReceiverExits,
     RecvStep, LockCounters, LoadCounters, UnlockCounters
<1>3. CASE Main
  BY <1>0, <1>3 DEF Main, CreateServer, StartMeter, Register, Accept, AcceptFails, ServerAdd,
     SpawnReceiver, SpawnFails, meterVars, recvVars
<1>4. CASE TpThread
  BY <1>0, <1>4 DEF TpThread, Scan, Report, TpWake, ScanStep, SkipSlot, LockSlot, TakeSlot,
     ResetSlot, UnlockSlot, SendReport, recvVars
<1>5. ASSUME NEW e \in Data, Client(e) PROVE counted' = counted
  BY <1>5, ClientFrame DEF meterVars, recvVars
<1>6. CASE UNCHANGED vars
  BY <1>0, <1>6 DEF vars, meterVars, recvVars
<1> QED BY <1>0, <1>1, <1>2, <1>3, <1>4, <1>5, <1>6 DEF Next

InSlot(d, i, n) == slots[i] = d /\ CountedFor(d, i, n)

LEMMA NextInSlot ==
    ASSUME Inv, Inv', [Next]_vars, NEW d \in Data, NEW i \in Visited, NEW n \in Nat,
           InSlot(d, i, n)
    PROVE  InSlot(d, i, n)'
<1>1. /\ i \in Slot /\ slots[i] = d /\ d # NoData
      /\ slots'[i] = d /\ garbage'[d] = garbage[d]
  BY SlotKept, VisitedSlots DEF InSlot
<1>2. CASE TpThread
  <2>1. TpWake \/ ScanStep \/ SendReport
    BY <1>2 DEF TpThread, Scan, Report
  <2> QED BY <1>1, <2>1, ScanTakesAll DEF Inv, InSlot
<1>3. CASE ~TpThread
  <2>1. Surplus(d)' = Surplus(d)
    BY <1>1 DEF Inv, StreamConserved
  <2>2. TakenOf(i)' = TakenOf(i)
    BY <1>1, <1>3, TakenStays
  <2>3. taken'[d] = taken[d]
    BY <1>1, <2>2 DEF TakenOf
  <2> QED BY <1>1, <1>3, <2>1, <2>3, CountsUp, TakenStays, OthersTakeNothing DEF InSlot
<1> QED BY <1>2, <1>3

(* What is counted of a connection in one of the slots that are scanned is *)
(* in the report of the next scan and in all later ones, on top of what    *)
(* malloc() left in the counter: server_add() gives a slot to nobody else, *)
(* and no connection that comes or goes makes the scan pass one by.        *)
THEOREM ScanReportsAll ==
    ASSUME NEW d \in Data, NEW i \in Visited, NEW n \in Nat
    PROVE  Spec => [](tpPc \in {"none", "sleep"} /\ slots[i] = d /\ n <= counted[d]
                        => [](tpPc = "scan" /\ tpSlot = NumData
                                => n + garbage[d] <= taken[d]))
<1>1. tpPc \in {"none", "sleep"} /\ slots[i] = d /\ n <= counted[d] => InSlot(d, i, n)
  BY DEF InSlot, CountedFor, NotPassed
<1>2. Inv /\ InSlot(d, i, n)
         => (tpPc = "scan" /\ tpSlot = NumData => n + garbage[d] <= taken[d])
  <2> SUFFICES ASSUME Inv, InSlot(d, i, n), tpPc = "scan", tpSlot = NumData
               PROVE  n + garbage[d] <= taken[d]
    OBVIOUS
  <2>1. n + Surplus(d) <= taken[d]
    BY ScanComplete DEF InReport, InSlot
  <2> QED BY <2>1 DEF Inv, StreamConserved
<1>3. Inv /\ Inv' /\ InSlot(d, i, n) /\ [Next]_vars => InSlot(d, i, n)'
  BY NextInSlot
<1> QED BY InitInv, NextInv, <1>1, <1>2, <1>3, PTL DEF Spec

-----------------------------------------------------------------------------
(* Refinement: the store of a counter is the step Count of the ledger, the *)
(* reset of a counter is its step Report, and the other steps stutter.     *)

LEMMA InitLedger == ASSUME Init PROVE Ledger!LedgerInit
BY DEF Init, MeterInit, Ledger!LedgerInit, ReportedBytes

LEMMA GarbageIsNatural == ASSUME TypeOK PROVE \A d \in Data : garbage[d] \in Nat
<1>1. \A d \in Data : garbage[d] \in Garbage \union {0}
  BY DEF TypeOK
<1>2. \A g \in Garbage \union {0} : g \in Nat
  OBVIOUS
<1> QED BY <1>1, <1>2

(* Nothing is reported yet of an object that accept() allocates.           *)
LEMMA AcceptStutters ==
    ASSUME Inv, NEW d \in Data, Accept(d)
    PROVE  UNCHANGED <<counted, taken, ReportedBytes>>
<1>1. UNCHANGED <<counted, taken>> /\ taken[d] = 0
  BY DEF Accept, Pending, Inv, SlotsInOrder, recvVars, tpVars
<1>2. PICK g \in Garbage : garbage' = [garbage EXCEPT ![d] = g]
  BY DEF Accept
<1>3. /\ \A e \in Data : garbage[e] \in Nat
      /\ \A e \in Data : garbage'[e] = IF e = d THEN g ELSE garbage[e]
      /\ g \in Nat
  BY <1>2, GarbageIsNatural DEF Inv, TypeOK
<1>4. ASSUME NEW e \in Data
      PROVE  (IF taken'[e] >= garbage'[e] THEN taken'[e] - garbage'[e] ELSE 0)
                = IF taken[e] >= garbage[e] THEN taken[e] - garbage[e] ELSE 0
  <2>1. garbage[e] \in Nat /\ garbage'[e] \in Nat
    BY <1>3
  <2>2. CASE e = d
    BY <1>1, <2>1, <2>2
  <2>3. CASE e # d
    BY <1>1, <1>3, <2>3
  <2> QED BY <2>2, <2>3
<1> QED BY <1>1, <1>4 DEF ReportedBytes

LEMMA StoreCounts ==
    ASSUME Inv, NEW d \in Data, StoreCounters(d), garbage' = garbage
    PROVE  Ledger!Count(d)
<1>1. /\ counted \in [Data -> Nat]
      /\ res[d] \in Nat /\ res[d] > 0
      /\ counted' = [counted EXCEPT ![d] = @ + res[d]]
      /\ taken' = taken
  BY DEF Inv, MeterInv, MeterTypeOK, LoadedIsCurrent, StoreCounters, tpVars
<1>2. counted[d] \in Nat /\ counted'[d] = counted[d] + res[d]
  BY <1>1
<1>3. counted' \in [Data -> Nat] /\ counted'[d] > counted[d]
  BY <1>1, <1>2
<1>4. \A e \in Data \ {d} : counted'[e] = counted[e]
  BY <1>1
<1>5. UNCHANGED ReportedBytes
  BY <1>1 DEF ReportedBytes
<1> QED BY <1>3, <1>4, <1>5 DEF Ledger!Count

(* With the counter goes all that was counted, and once what was in it.    *)
LEMMA ResetReports ==
    ASSUME Inv, ResetSlot, garbage' = garbage
    PROVE  Current \in Data /\ Ledger!Report(Current)
<1>1. Current \in Data /\ tpTook = numSinceMeasure[Current]
  BY DEF Inv, MeterInv, ResetSlot, MutexOwned, LoadedIsCurrent, InSection
<1>2. /\ counted' = counted /\ taken \in [Data -> Nat]
      /\ taken' = [taken EXCEPT ![Current] = @ + tpTook]
  BY DEF Inv, TypeOK, MeterTypeOK, ResetSlot, recvVars
<1>3. /\ taken[Current] \in Nat /\ tpTook \in Nat /\ counted[Current] \in Nat
      /\ garbage[Current] \in Nat
  BY <1>1, <1>2, GarbageIsNatural DEF Inv, TypeOK, MeterTypeOK
<1>4. taken[Current] + tpTook = counted[Current] + garbage[Current]
  <2>1. taken[Current] + tpTook - counted[Current] = garbage[Current]
    BY <1>1 DEF Inv, StreamConserved, Surplus
  <2> QED BY <1>3, <2>1
<1>5. ReportedBytes' = [ReportedBytes EXCEPT ![Current] = counted[Current]]
  <2>1. ASSUME NEW d \in Data
        PROVE  ReportedBytes'[d] = IF d = Current THEN counted[d] ELSE ReportedBytes[d]
    <3>1. CASE d = Current
      <4>1. taken'[d] = counted[d] + garbage[d]
        BY <1>1, <1>2, <1>4, <3>1
      <4> QED BY <1>3, <3>1, <4>1 DEF ReportedBytes
    <3>2. CASE d # Current
      BY <1>2, <3>2 DEF ReportedBytes
    <3> QED BY <3>1, <3>2
  <2>2. /\ ReportedBytes = [d \in Data |-> ReportedBytes[d]]
        /\ ReportedBytes' = [d \in Data |-> ReportedBytes'[d]]
    BY DEF ReportedBytes
  <2> QED BY <1>1, <2>1, <2>2
<1> QED BY <1>1, <1>2, <1>5 DEF Ledger!Report

LEMMA NextLedger ==
    ASSUME Inv, [Next]_vars PROVE [Ledger!LedgerNext]_(Ledger!ledgerVars)
<1>1. CASE Main
  <2>1. ASSUME NEW d \in Data, Accept(d) PROVE UNCHANGED Ledger!ledgerVars
    BY <2>1, AcceptStutters DEF Ledger!ledgerVars
  <2>2. CASE \/ CreateServer \/ StartMeter \/ Register \/ ServerAdd \/ SpawnReceiver
             \/ SpawnFails \/ \E d \in Data : AcceptFails(d)
    <3>1. UNCHANGED <<counted, taken, garbage>>
      BY <2>2 DEF CreateServer, StartMeter, Register, ServerAdd, SpawnReceiver,
         SpawnFails, AcceptFails, meterVars, recvVars, tpVars
    <3> QED BY <3>1 DEF Ledger!ledgerVars, ReportedBytes
  <2> QED BY <1>1, <2>1, <2>2 DEF Main
<1>2. CASE TpThread
  <2>1. garbage' = garbage
    BY <1>2 DEF TpThread, Scan, Report, mainVars
  <2>2. CASE ResetSlot
    BY <2>1, <2>2, ResetReports DEF Ledger!LedgerNext
  <2>3. CASE TpWake \/ SendReport \/ SkipSlot \/ LockSlot \/ TakeSlot \/ UnlockSlot
    <3>1. UNCHANGED <<counted, taken, garbage>>
      BY <2>1, <2>3
      DEF TpWake, SendReport, SkipSlot, LockSlot, TakeSlot, UnlockSlot, recvVars
    <3> QED BY <3>1 DEF Ledger!ledgerVars, ReportedBytes
  <2> QED BY <1>2, <2>2, <2>3 DEF TpThread, Scan, Report, ScanStep
<1>3. ASSUME NEW d \in Data, Receiver(d)
      PROVE  [Ledger!LedgerNext]_(Ledger!ledgerVars)
  <2>1. garbage' = garbage
    BY <1>3 DEF Receiver, Recvfrom, RecvfromClosed, CountReceived, mainVars
  <2>2. CASE StoreCounters(d)
    BY <2>1, <2>2, StoreCounts DEF Ledger!LedgerNext
  <2>3. CASE \/ Recvfrom(d) \/ RecvfromClosed(d)
             \/ LockCounters(d) \/ LoadCounters(d) \/ UnlockCounters(d)
    <3>1. UNCHANGED <<counted, taken, garbage>>
      BY <2>1, <2>3 DEF Recvfrom, RecvfromClosed, Receive, ReceiverExits,
         LockCounters, LoadCounters, UnlockCounters, tpVars
    <3> QED BY <3>1 DEF Ledger!ledgerVars, ReportedBytes
  <2> QED BY <1>3, <2>2, <2>3 DEF Receiver, CountReceived, RecvStep
<1>4. ASSUME NEW d \in Data, Client(d) PROVE UNCHANGED Ledger!ledgerVars
  <2>1. UNCHANGED <<counted, taken, garbage>>
    BY <1>4 DEF Client, ClientConnects, ClientSends, ClientCloses, meterVars, recvVars,
       tpVars, mainVars
  <2> QED BY <2>1 DEF Ledger!ledgerVars, ReportedBytes
<1>5. CASE UNCHANGED vars
  <2>1. UNCHANGED <<counted, taken, garbage>>
    BY <1>5 DEF vars, meterVars, recvVars, tpVars, mainVars
  <2> QED BY <2>1 DEF Ledger!ledgerVars, ReportedBytes
<1> QED BY <1>1, <1>2, <1>3, <1>4, <1>5 DEF Next

(* The TCP server implements the ledger, once what malloc() left in a      *)
(* counter is taken off: its reports never lag behind a scan, never count  *)
(* a byte twice, and a connection that is accepted starts from nothing.    *)
THEOREM Refinement == Spec => LedgerImplemented
<1>1. Init => Ledger!LedgerInit
  BY InitLedger
<1>2. Inv /\ [Next]_vars => [Ledger!LedgerNext]_(Ledger!ledgerVars)
  BY NextLedger
<1> QED BY InitInv, NextInv, <1>1, <1>2, PTL
        DEF Spec, LedgerImplemented, Ledger!LedgerSpec

=============================================================================
