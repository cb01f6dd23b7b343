-------------------------- MODULE UdpServerProofs --------------------------
(***************************************************************************)
(* Proofs about the UDP server, for any number of ports, any datagrams and *)
(* any number of them: no byte is lost or doubled, the average of a report *)
(* is made of the same bytes as the intervals, a scan reports all that was *)
(* counted before it, and the server implements the ledger of ByteLedger.  *)
(***************************************************************************)
EXTENDS UdpServer, MeterProofs

USE MeterAssumption, UdpAssumption
USE DEF Lock, Free, Unlock, ResetCounter, FreshSums, PortsLeft, SlotOfPort

-----------------------------------------------------------------------------
(* The steps of the main thread, which are not steps of Meter.             *)

LEMMA InitInv == ASSUME Init PROVE Inv
<1>1. MeterInv /\ NoByteLostOrDoubled
  BY MeterInitInv DEF Init, NoByteLostOrDoubled
<1>2. TypeOK
  BY <1>1 DEF MeterInv, TypeOK, Init, MainPc, Empty
<1>3. MainInOrder
  BY DEF Init, MeterInit, MainInOrder
<1> QED BY <1>1, <1>2, <1>3 DEF Inv

(* A receiver is started for a port that has none, so its mutex is free of *)
(* a receiver; a slot is published while no scan runs; so is tp_thread.    *)
LEMMA MainKeeps == ASSUME Inv, Main PROVE MeterInv' /\ SurplusKept
<1> USE DEF Inv, MeterInv
<1>1. CASE BindPort \/ BindFails \/ SpawnFails \/ AllPortsCreated \/ StartMeterFails
  BY <1>1, MeterInvUnchanged DEF BindPort, BindFails, SpawnFails, AllPortsCreated,
                                 StartMeterFails
<1>2. CASE SpawnReceiver
  <2>0. next \in Data /\ pc[next] = "none" /\ tpPc = "none"
    BY <1>2 DEF TypeOK, MainInOrder, SpawnReceiver
  <2>1. MeterTypeOK'
    BY <1>2 DEF MeterTypeOK, SpawnReceiver, counterVars, tpVars, RecvPc
  <2>2. MutexOwned' /\ LoadedIsCurrent'
    BY <1>2, <2>0 DEF MeterTypeOK, MutexOwned, LoadedIsCurrent, SpawnReceiver, Current,
                counterVars, tpVars
  <2>3. SurplusKept
    BY <1>2 DEF SurplusKept, Surplus, SpawnReceiver, counterVars, tpVars
  <2> QED BY <2>1, <2>2, <2>3
<1>3. CASE PublishPort
  <2>0. next \in Data /\ tpPc = "none"
    BY <1>3 DEF TypeOK, MainInOrder, PublishPort
  <2>1. MeterTypeOK'
    BY <1>3, <2>0 DEF MeterTypeOK, PublishPort, counterVars, recvVars, tpVars
  <2>2. MutexOwned' /\ LoadedIsCurrent'
    BY <1>3, <2>0 DEF MeterTypeOK, MutexOwned, LoadedIsCurrent, PublishPort, Current,
                counterVars, recvVars, tpVars, InSection
  <2>3. SurplusKept
    BY <1>3 DEF SurplusKept, Surplus, PublishPort, counterVars, recvVars, tpVars
  <2> QED BY <2>1, <2>2, <2>3
<1>4. CASE StartMeter
  <2>0. tpPc = "none"
    BY <1>4 DEF MainInOrder, StartMeter
  <2>1. MeterTypeOK'
    BY <1>4 DEF MeterTypeOK, StartMeter, counterVars, recvVars, TpPc
  <2>2. MutexOwned' /\ LoadedIsCurrent'
    BY <1>4, <2>0 DEF MeterTypeOK, MutexOwned, LoadedIsCurrent, StartMeter, Current,
                counterVars, recvVars, InSection
  <2>3. SurplusKept
    BY <1>4 DEF SurplusKept, Surplus, StartMeter, counterVars, recvVars
  <2> QED BY <2>1, <2>2, <2>3
<1> QED BY <1>1, <1>2, <1>3, <1>4 DEF Main

(* Every step, of whatever thread, is a step of Meter or leaves it alone.  *)
LEMMA NextKeeps == ASSUME Inv, [Next]_vars PROVE MeterInv' /\ SurplusKept
<1> USE DEF Inv
<1>1. CASE Main
  BY <1>1, MainKeeps
<1>2. CASE TpThread
  BY <1>2, TpWakeKeeps, ScanStepKeeps, SendReportKeeps DEF TpThread
<1>3. ASSUME NEW d \in Data, DatagramArrives(d) PROVE MeterInv' /\ SurplusKept
  BY <1>3, MeterInvUnchanged DEF DatagramArrives
<1>4. ASSUME NEW d \in Data, Recvfrom(d) PROVE MeterInv' /\ SurplusKept
  <2>1. socket[d] \in Nat \ {0} /\ Receive(d, socket[d])
    BY <1>4 DEF Recvfrom
  <2> QED BY <2>1, ReceiveKeeps
<1>5. ASSUME NEW d \in Data, RecvfromEmpty(d) PROVE MeterInv' /\ SurplusKept
  BY <1>5, ReceiverExitsKeeps DEF RecvfromEmpty
<1>6. ASSUME NEW d \in Data, RecvfromFails(d) PROVE MeterInv' /\ SurplusKept
  BY <1>6, MeterInvUnchanged DEF RecvfromFails
<1>7. ASSUME NEW d \in Data, RecvStep(d) PROVE MeterInv' /\ SurplusKept
  BY <1>7, RecvStepKeeps
<1>8. CASE UNCHANGED vars
  BY <1>8, MeterInvUnchanged DEF vars
<1> QED BY <1>1, <1>2, <1>3, <1>4, <1>5, <1>6, <1>7, <1>8 DEF Next, Receiver

-----------------------------------------------------------------------------
(* The rest of the invariant.                                              *)

LEMMA NextTypeOK == ASSUME Inv, [Next]_vars PROVE TypeOK'
<1> USE DEF Inv, TypeOK
<1>0. MeterTypeOK'
  BY NextKeeps DEF MeterInv
<1>1. CASE Main
  BY <1>0, <1>1 DEF Main, BindPort, BindFails, SpawnReceiver, SpawnFails, PublishPort,
     AllPortsCreated, StartMeter, StartMeterFails, MainInOrder, MainPc, netVars
<1>2. CASE TpThread
  BY <1>0, <1>2 DEF TpThread, mainVars, netVars
<1>3. ASSUME NEW d \in Data, DatagramArrives(d) PROVE TypeOK'
  BY <1>0, <1>3 DEF DatagramArrives, mainVars
<1>4. ASSUME NEW d \in Data, Receiver(d) PROVE TypeOK'
  <2>1. UNCHANGED <<mainVars, arrived>>
    BY <1>4 DEF Receiver, Recvfrom, RecvfromEmpty, RecvfromFails, netVars
  <2>2. socket' \in [Data -> Sizes \union {0, Empty}]
    BY <1>4 DEF Receiver, Recvfrom, RecvfromEmpty, RecvfromFails, netVars
  <2> QED BY <1>0, <2>1, <2>2 DEF mainVars
<1>5. CASE UNCHANGED vars
  BY <1>0, <1>5 DEF vars, mainVars, netVars
<1> QED BY <1>1, <1>2, <1>3, <1>4, <1>5 DEF Next

LEMMA NextMainInOrder == ASSUME Inv, [Next]_vars PROVE MainInOrder'
<1> USE DEF Inv, TypeOK, MeterTypeOK, MainInOrder
<1>1. CASE Main
  <2>1. CASE SpawnReceiver
    BY <2>1 DEF SpawnReceiver, tpVars
  <2>2. CASE PublishPort
    BY <2>2 DEF PublishPort, tpVars, recvVars
  <2>3. CASE StartMeter
    BY <2>3 DEF StartMeter, recvVars
  <2>4. CASE BindPort \/ BindFails \/ SpawnFails \/ AllPortsCreated \/ StartMeterFails
    BY <2>4 DEF BindPort, BindFails, SpawnFails, AllPortsCreated, StartMeterFails,
                meterVars, tpVars, recvVars, MainPc
  <2> QED BY <1>1, <2>1, <2>2, <2>3, <2>4 DEF Main
<1>2. CASE TpThread
  <2>1. tpPc # "none" /\ UNCHANGED <<pc, mainVars>>
    BY <1>2 DEF TpThread, TpWake, SendReport, ScanStep, SkipSlot, LockSlot, TakeSlot,
                ResetSlot, UnlockSlot, recvVars
  <2> QED BY <2>1 DEF mainVars
<1>3. ASSUME NEW d \in Data, DatagramArrives(d) PROVE MainInOrder'
  BY <1>3 DEF DatagramArrives, mainVars, meterVars, recvVars, tpVars
<1>4. ASSUME NEW d \in Data, Receiver(d) PROVE MainInOrder'
  <2>1. UNCHANGED <<tpVars, mainVars>>
    BY <1>4 DEF Receiver, Recvfrom, RecvfromEmpty, RecvfromFails, RecvStep, Receive,
         ReceiverExits, LockCounters, LoadCounters, StoreCounters, UnlockCounters,
         meterVars
  <2>2. pc' = pc \/ (pc[d] # "none" /\ \A e \in Data \ {d} : pc'[e] = pc[e])
    BY <1>4 DEF Receiver, Recvfrom, RecvfromEmpty, RecvfromFails, RecvStep, Receive,
         ReceiverExits, LockCounters, LoadCounters, StoreCounters, UnlockCounters,
         meterVars, recvVars
  <2> QED BY <2>1, <2>2 DEF tpVars, mainVars
<1>5. CASE UNCHANGED vars
  BY <1>5 DEF vars, mainVars, meterVars, recvVars, tpVars
<1> QED BY <1>1, <1>2, <1>3, <1>4, <1>5 DEF Next

LEMMA NextInv == ASSUME Inv, [Next]_vars PROVE Inv'
<1>1. NoByteLostOrDoubled'
  BY NextKeeps DEF Inv, NoByteLostOrDoubled, SurplusKept
<1> QED BY <1>1, NextKeeps, NextTypeOK, NextMainInOrder DEF Inv

-----------------------------------------------------------------------------
(* Every variable of the UDP server keeps its type.                        *)
THEOREM Typing == Spec => []TypeOK
<1>1. Inv => TypeOK
  BY DEF Inv
<1> QED BY InitInv, NextInv, <1>1, PTL DEF Spec

(* Every byte a receiver of the UDP server counts is in its counter or in  *)
(* the reports, once, in whatever order the receivers, the main thread and *)
(* the throughput thread run: report_statistics() and the receivers take   *)
(* the mutex of the object around each access to its counters.             *)
THEOREM Conservation == Spec => []NoByteLostOrDoubled
<1>1. Inv => NoByteLostOrDoubled
  BY DEF Inv
<1> QED BY InitInv, NextInv, <1>1, PTL DEF Spec

-----------------------------------------------------------------------------
(* The two figures of a report: what MeterProofs asks of a server.         *)

SinceStartIsCounted == \A d \in Data : numSinceStart[d] = counted[d]

(* servers[i] is NULL or port i, and NULL only if nothing is reported yet. *)
OwnSlots == \A d \in Data : slots[d] \in {d, NoData} /\ (slots[d] = NoData => taken[d] = 0)

FiguresInv == SinceStartIsCounted /\ OwnSlots /\ FiguresOK

LEMMA PortSlot ==
    ASSUME NEW d \in Data PROVE d \in Visited /\ d \in Slot
BY VisitedSlots DEF Visited

LEMMA InitFigures == ASSUME Init PROVE FiguresInv
<1> USE DEF Init, MeterInit
<1>1. SinceStartIsCounted
  BY DEF SinceStartIsCounted
<1>2. OwnSlots
  BY PortSlot DEF OwnSlots
<1> QED BY <1>1, <1>2, MeterInitFigures DEF FiguresInv

(* The receivers keep the two counters in step, and the figures alone.     *)
LEMMA ReceiverKeepsFigures ==
    ASSUME Inv, FiguresInv, NEW d \in Data, Receiver(d) PROVE FiguresInv'
<1>1. UNCHANGED <<slots, tpVars>>
  BY DEF Receiver, Recvfrom, RecvfromEmpty, RecvfromFails, RecvStep, Receive,
         ReceiverExits, LockCounters, LoadCounters, StoreCounters, UnlockCounters,
         meterVars
<1>2. SinceStartIsCounted'
  <2>1. CASE StoreCounters(d)
    BY <2>1 DEF StoreCounters, FiguresInv, SinceStartIsCounted, Inv, MeterInv, MeterTypeOK
  <2>2. CASE ~StoreCounters(d)
    BY <2>2 DEF Receiver, Recvfrom, RecvfromEmpty, RecvfromFails, RecvStep, Receive,
         ReceiverExits, LockCounters, LoadCounters, UnlockCounters,
         meterVars, counterVars, recvVars, FiguresInv, SinceStartIsCounted
  <2> QED BY <2>1, <2>2
<1>3. FiguresOK'
  BY <1>1, FiguresStay DEF FiguresInv, TakenOf, tpVars
<1> QED BY <1>1, <1>2, <1>3 DEF FiguresInv, OwnSlots, tpVars

(* The table is filled while there is no scan.                             *)
LEMMA MainKeepsFigures == ASSUME Inv, FiguresInv, Main PROVE FiguresInv'
<1>1. UNCHANGED <<numSinceStart, counted, taken, emitted, tpSlot, tpTook, numBytes,
                  numBytesSinceStart>>
  BY DEF Main, BindPort, BindFails, SpawnReceiver, SpawnFails, PublishPort,
     AllPortsCreated, StartMeter, StartMeterFails, meterVars, counterVars, recvVars, tpVars
<1>2. SinceStartIsCounted'
  BY <1>1 DEF FiguresInv, SinceStartIsCounted
<1>3. OwnSlots' /\ \A i \in Visited : TakenOf(i)' = TakenOf(i)
  <2>1. CASE PublishPort
    <3>1. slots' = [slots EXCEPT ![next] = next] /\ next \in Data
      BY <2>1 DEF PublishPort, Inv, TypeOK, MainInOrder
    <3>2. slots \in [Slot -> Data \union {NoData}] /\ \A d \in Data : d \in Slot
      BY PortSlot DEF Inv, TypeOK, MeterTypeOK
    <3>3. OwnSlots'
      BY <1>1, <3>1, <3>2 DEF FiguresInv, OwnSlots
    <3>4. ASSUME NEW i \in Visited PROVE TakenOf(i)' = TakenOf(i)
      <4>1. i \in Data /\ slots[i] \in {i, NoData} /\ (slots[i] = NoData => taken[i] = 0)
        BY DEF Visited, FiguresInv, OwnSlots
      <4>2. slots'[i] = IF i = next THEN i ELSE slots[i]
        BY <3>1, <3>2, <4>1
      <4> QED BY <1>1, <4>1, <4>2 DEF TakenOf
    <3> QED BY <3>3, <3>4
  <2>2. CASE ~PublishPort
    <3>1. slots' = slots
      BY <2>2 DEF Main, BindPort, BindFails, SpawnReceiver, SpawnFails,
         AllPortsCreated, StartMeter, StartMeterFails, meterVars
    <3> QED BY <1>1, <3>1 DEF FiguresInv, OwnSlots, TakenOf
  <2> QED BY <2>1, <2>2
<1>4. tpPc = "none" /\ tpPc' \in {"none", "sleep"}
  BY DEF Inv, TypeOK, MainInOrder, Main, BindPort, BindFails, SpawnReceiver, SpawnFails,
     PublishPort, AllPortsCreated, StartMeter, StartMeterFails, meterVars, tpVars
<1>5. FiguresOK'
  BY <1>1, <1>3, <1>4, FiguresStay DEF FiguresInv
<1> QED BY <1>2, <1>3, <1>5 DEF FiguresInv

(* Before the reset of its counter, what was counted at a port is in the   *)
(* reports or in the counter that was taken, and each port is one slot.    *)
LEMMA TpThreadKeepsFigures == ASSUME Inv, FiguresInv, TpThread PROVE FiguresInv'
<1>1. UNCHANGED <<slots, numSinceStart, counted>>
  BY DEF TpThread, TpWake, ScanStep, SkipSlot, LockSlot, TakeSlot, ResetSlot, UnlockSlot,
         SendReport, counterVars, recvVars
<1>2. VisitedOnce
  BY DEF VisitedOnce, Visited, FiguresInv, OwnSlots
<1>3. SameBytes
  <2>1. SUFFICES ASSUME tpPc = "reset"
                 PROVE  numSinceStart[Current] = taken[Current] + tpTook
    BY DEF SameBytes
  <2>2. Current \in Data /\ tpTook = numSinceMeasure[Current]
    BY <2>1 DEF Inv, MeterInv, MutexOwned, LoadedIsCurrent, InSection
  <2>3. taken[Current] + numSinceMeasure[Current] - counted[Current] = 0
    BY <2>2 DEF Inv, NoByteLostOrDoubled, Surplus
  <2>4. numSinceStart[Current] = counted[Current]
    BY <2>2 DEF FiguresInv, SinceStartIsCounted
  <2>5. taken[Current] \in Nat /\ numSinceMeasure[Current] \in Nat /\ counted[Current] \in Nat
    BY <2>2 DEF Inv, MeterInv, MeterTypeOK
  <2> QED BY <2>2, <2>3, <2>4, <2>5
<1>4. FiguresOK'
  BY <1>2, <1>3, ScanKeepsFigures DEF Inv, FiguresInv, TpThread
<1>5. OwnSlots'
  <2>1. CASE ResetSlot
    <3>1. Current \in Data /\ tpSlot \in Data
      BY <2>1 DEF ResetSlot, Inv, TypeOK, MeterInv, MeterTypeOK, MutexOwned, InSection
    <3>2. Current = tpSlot /\ slots[tpSlot] # NoData
      BY <3>1 DEF FiguresInv, OwnSlots, Current
    <3>3. taken' = [taken EXCEPT ![tpSlot] = @ + tpTook] /\ taken \in [Data -> Nat]
      BY <2>1, <3>2 DEF ResetSlot, Inv, TypeOK, MeterTypeOK
    <3> QED BY <1>1, <3>1, <3>2, <3>3 DEF FiguresInv, OwnSlots
  <2>2. CASE ~ResetSlot
    <3>1. taken' = taken
      BY <2>2 DEF TpThread, TpWake, ScanStep, SkipSlot, LockSlot, TakeSlot, UnlockSlot,
                  SendReport
    <3> QED BY <1>1, <3>1 DEF FiguresInv, OwnSlots
  <2> QED BY <2>1, <2>2
<1> QED BY <1>1, <1>4, <1>5 DEF FiguresInv, SinceStartIsCounted

LEMMA NextFigures == ASSUME Inv, FiguresInv, [Next]_vars PROVE FiguresInv'
<1>1. ASSUME UNCHANGED meterVars PROVE FiguresInv'
  <2>1. FiguresOK'
    BY <1>1, FiguresStay DEF meterVars, tpVars, FiguresInv, TakenOf
  <2> QED BY <1>1, <2>1 DEF meterVars, counterVars, recvVars, tpVars, FiguresInv,
                            SinceStartIsCounted, OwnSlots
<1>2. ASSUME NEW d \in Data, DatagramArrives(d) PROVE FiguresInv'
  BY <1>1, <1>2 DEF DatagramArrives
<1>3. CASE UNCHANGED vars
  BY <1>1, <1>3 DEF vars
<1> QED BY <1>2, <1>3, ReceiverKeepsFigures, MainKeepsFigures, TpThreadKeepsFigures DEF Next

(* When report_statistics() has visited the last port, the bytes it takes  *)
(* for the average since the start are those of all intervals so far, this *)
(* one included, whatever arrives meanwhile at ports before or behind it.  *)
THEOREM FiguresAgree == Spec => []AverageMatchesIntervals
<1>1. Inv /\ FiguresInv => AverageMatchesIntervals
  BY VisitedSlots DEF Inv, TypeOK, MeterTypeOK, FiguresInv, FiguresOK, PartialSums, Figures,
                      AverageMatchesIntervals
<1> QED BY InitInv, NextInv, InitFigures, NextFigures, <1>1, PTL DEF Spec

-----------------------------------------------------------------------------
(* Refinement: the store of a counter is the step Count of the ledger, the *)
(* reset of a counter is its step Report, and the other steps stutter.     *)

LEMMA InitLedger == ASSUME Init PROVE Ledger!LedgerInit
BY DEF Init, MeterInit, Ledger!LedgerInit

LEMMA StoreCounts ==
    ASSUME Inv, NEW d \in Data, StoreCounters(d) PROVE Ledger!Count(d)
<1>1. /\ counted \in [Data -> Nat]
      /\ res[d] \in Nat /\ res[d] > 0
      /\ counted' = [counted EXCEPT ![d] = @ + res[d]]
      /\ taken' = taken
  BY DEF Inv, MeterInv, MeterTypeOK, LoadedIsCurrent, StoreCounters, tpVars
<1>2. counted[d] \in Nat /\ counted'[d] = counted[d] + res[d]
  BY <1>1
<1>3. counted' \in [Data -> Nat]
  BY <1>1, <1>2
<1>4. counted'[d] > counted[d]
  BY <1>1, <1>2
<1>5. \A e \in Data \ {d} : counted'[e] = counted[e]
  BY <1>1
<1> QED BY <1>1, <1>3, <1>4, <1>5 DEF Ledger!Count

LEMMA ResetReports ==
    ASSUME Inv, ResetSlot PROVE Current \in Data /\ Ledger!Report(Current)
<1> USE DEF Inv, MeterInv, MeterTypeOK, ResetSlot
<1>1. Current \in Data /\ tpTook = numSinceMeasure[Current]
  BY DEF MutexOwned, LoadedIsCurrent, InSection
<1>2. taken[Current] + tpTook = counted[Current]
  <2>1. taken[Current] + tpTook - counted[Current] = 0
    BY <1>1 DEF NoByteLostOrDoubled, Surplus
  <2>2. taken[Current] \in Nat /\ tpTook \in Nat /\ counted[Current] \in Nat
    BY <1>1
  <2> HIDE DEF Inv, MeterInv, MeterTypeOK, ResetSlot
  <2> QED BY <2>1, <2>2
<1>3. taken' = [taken EXCEPT ![Current] = counted[Current]]
  BY <1>2
<1>4. counted' = counted
  BY DEF recvVars
<1> QED BY <1>1, <1>3, <1>4 DEF Ledger!Report

LEMMA NextLedger ==
    ASSUME Inv, [Next]_vars PROVE [Ledger!LedgerNext]_(Ledger!ledgerVars)
<1> USE DEF Ledger!ledgerVars
<1>1. CASE Main
  BY <1>1 DEF Main, BindPort, BindFails, SpawnReceiver, SpawnFails, PublishPort,
     AllPortsCreated, StartMeter, StartMeterFails, meterVars, recvVars, tpVars
<1>2. CASE TpThread
  <2>1. CASE ResetSlot
    BY <2>1, ResetReports DEF Ledger!LedgerNext
  <2>2. CASE TpWake \/ SendReport \/ SkipSlot \/ LockSlot \/ TakeSlot \/ UnlockSlot
    BY <2>2 DEF TpWake, SendReport, SkipSlot, LockSlot, TakeSlot, UnlockSlot, recvVars
  <2> QED BY <1>2, <2>1, <2>2 DEF TpThread, ScanStep
<1>3. ASSUME NEW d \in Data, DatagramArrives(d) PROVE UNCHANGED Ledger!ledgerVars
  BY <1>3 DEF DatagramArrives, meterVars, recvVars, tpVars
<1>4. ASSUME NEW d \in Data, Receiver(d)
      PROVE  [Ledger!LedgerNext]_(Ledger!ledgerVars)
  <2>1. CASE StoreCounters(d)
    BY <2>1, StoreCounts DEF Ledger!LedgerNext
  <2>2. CASE \/ Recvfrom(d) \/ RecvfromEmpty(d) \/ RecvfromFails(d)
             \/ LockCounters(d) \/ LoadCounters(d) \/ UnlockCounters(d)
    BY <2>2 DEF Recvfrom, RecvfromEmpty, RecvfromFails, Receive, ReceiverExits,
         LockCounters, LoadCounters, UnlockCounters, meterVars, recvVars, tpVars
  <2> QED BY <1>4, <2>1, <2>2 DEF Receiver, RecvStep
<1>5. CASE UNCHANGED vars
  BY <1>5 DEF vars, meterVars, recvVars, tpVars
<1> QED BY <1>1, <1>2, <1>3, <1>4, <1>5 DEF Next

(* The UDP server implements the ledger: what the reports hold of a port   *)
(* only ever moves up to all that is counted of it.                        *)
THEOREM Refinement == Spec => LedgerImplemented
<1>1. Init => Ledger!LedgerInit
  BY InitLedger
<1>2. Inv /\ [Next]_vars => [Ledger!LedgerNext]_(Ledger!ledgerVars)
  BY NextLedger
<1> QED BY InitInv, NextInv, <1>1, <1>2, PTL
        DEF Spec, LedgerImplemented, Ledger!LedgerSpec

-----------------------------------------------------------------------------
(* What a scan takes: the ports main() is past are in the table, and only  *)
(* those, and the one it is about to put there, have a receiver.           *)

PortsPublished ==
    /\ \A d \in Data : d < next => slots[d] = d
    /\ \A d \in Data : d > next \/ (d = next /\ mainPc # "publish") => pc[d] = "none"
    /\ \A d \in Data : pc[d] = "none" => counted[d] = 0

LEMMA InitPublished == ASSUME Init PROVE PortsPublished
BY DEF Init, MeterInit, PortsPublished

LEMMA ReceiverFrame ==
    ASSUME Inv, NEW d \in Data, Receiver(d)
    PROVE  /\ UNCHANGED <<slots, tpVars, mainVars>>
           /\ pc[d] # "none" /\ pc'[d] # "none"
           /\ \A e \in Data \ {d} : pc'[e] = pc[e] /\ counted'[e] = counted[e]
<1>1. CASE RecvfromFails(d)
  BY <1>1 DEF RecvfromFails, meterVars, recvVars
<1>2. CASE ~RecvfromFails(d)
  <2>1. /\ (\E n \in Nat : Receive(d, n)) \/ ReceiverExits(d) \/ RecvStep(d)
        /\ UNCHANGED mainVars
    BY <1>2 DEF Receiver, Recvfrom, RecvfromEmpty
  <2> QED BY <2>1, RecvFrame DEF Inv
<1> QED BY <1>1, <1>2

LEMMA NextPublished == ASSUME Inv, PortsPublished, [Next]_vars PROVE PortsPublished'
<1> USE DEF PortsPublished
<1>1. CASE Main
  <2>0. /\ next \in 0..NumData /\ (mainPc \in {"spawn", "publish"} => next \in Data)
        /\ slots \in [Slot -> Data \union {NoData}] /\ pc \in [Data -> RecvPc]
        /\ Data \subseteq Int /\ Data \subseteq Slot
    BY PortSlot DEF Inv, TypeOK, MeterTypeOK, MainInOrder
  <2>1. CASE SpawnReceiver
    <3>1. /\ pc' = [pc EXCEPT ![next] = "recv"] /\ next \in Data /\ mainPc' = "publish"
          /\ UNCHANGED <<slots, counted, next>>
      BY <2>0, <2>1 DEF SpawnReceiver
    <3>2. \A d \in Data : d # next => pc'[d] = pc[d]
      BY <2>0, <3>1
    <3>3. pc'[next] # "none"
      BY <2>0, <3>1
    <3>4. ASSUME NEW d \in Data, d > next PROVE pc'[d] = "none"
      BY <2>0, <3>1, <3>2, <3>4
    <3> QED BY <2>0, <3>1, <3>2, <3>3, <3>4
  <2>2. CASE PublishPort
    <3>1. /\ slots' = [slots EXCEPT ![next] = next] /\ next' = next + 1
          /\ next \in Data /\ mainPc' = "bind" /\ UNCHANGED <<pc, counted>>
      BY <2>0, <2>2 DEF PublishPort, recvVars
    <3>2. ASSUME NEW d \in Data, d < next' PROVE slots'[d] = d
      BY <2>0, <3>1, <3>2
    <3>3. ASSUME NEW d \in Data, d > next' \/ d = next' PROVE pc'[d] = "none"
      BY <2>0, <3>1, <3>3
    <3> QED BY <3>1, <3>2, <3>3
  <2>3. CASE BindPort \/ BindFails \/ SpawnFails \/ AllPortsCreated \/ StartMeterFails
    <3>1. mainPc # "publish" /\ UNCHANGED <<slots, pc, counted, next>>
      BY <2>3 DEF BindPort, BindFails, SpawnFails, AllPortsCreated, StartMeterFails,
         meterVars, recvVars
    <3> QED BY <3>1
  <2>4. CASE StartMeter
    BY <2>4 DEF StartMeter, recvVars
  <2> QED BY <1>1, <2>1, <2>2, <2>3, <2>4 DEF Main
<1>2. CASE TpThread
  BY <1>2, TpFrame DEF Inv, TpThread, mainVars, recvVars
<1>3. ASSUME NEW d \in Data, Receiver(d) PROVE PortsPublished'
  BY <1>3, ReceiverFrame DEF mainVars
<1>4. ASSUME NEW d \in Data, DatagramArrives(d) PROVE PortsPublished'
  BY <1>4 DEF DatagramArrives, meterVars, recvVars, mainVars
<1>5. CASE UNCHANGED vars
  BY <1>5 DEF vars, meterVars, recvVars, mainVars
<1> QED BY <1>1, <1>2, <1>3, <1>4, <1>5 DEF Next

LEMMA NextCounted ==
    ASSUME Inv, PortsPublished, [Next]_vars, NEW d \in Data, NEW n \in Nat \ {0},
           CountedFor(d, d, n)
    PROVE  CountedFor(d, d, n)'
<1>0. /\ counted[d] \in Nat /\ counted'[d] \in Nat /\ Surplus(d)' = Surplus(d)
  BY NextTypeOK, NextKeeps DEF Inv, TypeOK, MeterTypeOK, SurplusKept
<1>1. CASE TpThread
  <2>1. counted[d] # 0
    BY <1>0 DEF CountedFor
  <2>2. pc[d] # "none" /\ mainPc = "loop"
    BY <1>1, <2>1, TpFrame DEF PortsPublished, Inv, MainInOrder, TpThread
  <2>3. slots[d] = d
    BY <2>2 DEF PortsPublished, Inv, TypeOK
  <2> QED BY <1>1, <2>3, PortSlot, ScanTakesAll DEF Inv, TpThread
<1>2. CASE ~TpThread
  <2>1. /\ UNCHANGED <<tpSlot, taken>>
        /\ tpPc' = tpPc \/ {tpPc, tpPc'} \subseteq {"none", "sleep"}
        /\ counted[d] <= counted'[d]
    <3>1. CASE Main
      BY <1>0, <3>1 DEF Main, BindPort, BindFails, SpawnReceiver, SpawnFails, PublishPort,
         AllPortsCreated, StartMeter, StartMeterFails, meterVars, recvVars, tpVars,
         Inv, MainInOrder
    <3>2. ASSUME NEW e \in Data, Receiver(e)
          PROVE  UNCHANGED tpVars /\ counted[d] <= counted'[d]
      <4>1. CASE StoreCounters(e)
        <5>1. counted' = [counted EXCEPT ![e] = @ + res[e]] /\ res[e] \in Nat
              /\ counted \in [Data -> Nat]
          BY <4>1 DEF StoreCounters, Inv, TypeOK, MeterTypeOK
        <5> QED BY <1>0, <3>2, <5>1, ReceiverFrame
      <4>2. CASE ~StoreCounters(e)
        BY <1>0, <3>2, <4>2 DEF Receiver, Recvfrom, RecvfromEmpty, RecvfromFails, RecvStep,
           Receive, ReceiverExits, LockCounters, LoadCounters, UnlockCounters, meterVars,
           recvVars
      <4> QED BY <4>1, <4>2
    <3>3. ASSUME UNCHANGED meterVars PROVE UNCHANGED tpVars /\ counted' = counted
      BY <3>3 DEF meterVars, recvVars
    <3> QED BY <1>0, <1>2, <3>1, <3>2, <3>3 DEF Next, DatagramArrives, vars, tpVars
  <2> QED BY <1>0, <2>1, OthersTakeNothing
<1> QED BY <1>1, <1>2

(* A receiver of the UDP server that has counted n bytes of port d before  *)
(* a scan finds them in the report the scan ends with, and in all later    *)
(* ones: report_statistics() passes no port, whatever receivers do while   *)
(* it runs, also if udp_create_servers() has come only half way.           *)
THEOREM ScanReportsAll ==
    ASSUME NEW d \in Data, NEW n \in Nat \ {0}
    PROVE  Spec => [](tpPc \in {"none", "sleep"} /\ n <= counted[d]
                        => [](tpPc = "scan" /\ tpSlot = NumData => n <= taken[d]))
<1>1. tpPc \in {"none", "sleep"} /\ n <= counted[d] => CountedFor(d, d, n)
  BY DEF CountedFor, NotPassed
<1>2. Inv /\ CountedFor(d, d, n) => (tpPc = "scan" /\ tpSlot = NumData => n <= taken[d])
  <2> SUFFICES ASSUME Inv, CountedFor(d, d, n), tpPc = "scan", tpSlot = NumData
               PROVE  n <= taken[d]
    OBVIOUS
  <2>1. n + Surplus(d) <= taken[d]
    BY ScanComplete, PortSlot DEF InReport
  <2> QED BY <2>1 DEF Inv, NoByteLostOrDoubled
<1>3. PortsPublished /\ Inv /\ CountedFor(d, d, n) /\ [Next]_vars => CountedFor(d, d, n)'
  BY NextCounted
<1>4. Inv /\ PortsPublished /\ [Next]_vars => PortsPublished'
  BY NextPublished
<1> QED BY InitInv, NextInv, InitPublished, <1>1, <1>2, <1>3, <1>4, PTL DEF Spec

=============================================================================
