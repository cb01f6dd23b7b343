---------------------------- MODULE MeterProofs ----------------------------
(***************************************************************************)
(* The steps of Meter, whatever server they belong to, keep the mutex      *)
(* discipline and move bytes between the counter of an object and the      *)
(* reports without losing or doubling any; and a scan adds up the average  *)
(* and the interval from the same bytes, and takes all that was counted    *)
(* before it.                                                              *)
(***************************************************************************)
EXTENDS Meter, TLAPS

USE DEF Lock, Free, Unlock, ResetCounter, FreshSums

SurplusKept == \A d \in Data : Surplus(d)' = Surplus(d)

(* The initial values: no thread, free mutexes, counters that are zero.    *)
LEMMA MeterInitInv ==
    ASSUME MeterInit PROVE MeterInv /\ \A d \in Data : Surplus(d) = 0
<1> USE MeterAssumption DEF MeterInit
<1>1. MeterTypeOK
  BY DEF MeterTypeOK, Slot, Holder, RecvPc, TpPc
<1>2. MutexOwned /\ LoadedIsCurrent
  BY DEF MutexOwned, LoadedIsCurrent, InSection
<1>3. ASSUME NEW d \in Data PROVE Surplus(d) = 0
  <2>1. taken[d] = 0 /\ numSinceMeasure[d] = 0 /\ counted[d] = 0
    OBVIOUS
  <2> QED BY <2>1 DEF Surplus
<1> QED BY <1>1, <1>2, <1>3 DEF MeterInv

(* A slot the scan visits is a slot of the table.                          *)
LEMMA VisitedSlot ==
    ASSUME MeterTypeOK, tpSlot < NumData
    PROVE  tpSlot \in Slot /\ Current \in Data \union {NoData}
BY MeterAssumption DEF MeterTypeOK, Slot, Current

(* A step of somebody else leaves all of this alone.                       *)
LEMMA MeterInvUnchanged ==
    ASSUME MeterInv, UNCHANGED meterVars PROVE MeterInv' /\ SurplusKept
<1>1. MeterTypeOK'
  BY DEF MeterInv, MeterTypeOK, meterVars, counterVars, recvVars, tpVars
<1>2. MutexOwned' /\ LoadedIsCurrent'
  BY DEF MeterInv, MutexOwned, LoadedIsCurrent, Current, meterVars, counterVars,
         recvVars, tpVars
<1>3. SurplusKept
  BY DEF SurplusKept, Surplus, meterVars, counterVars, recvVars, tpVars
<1> QED BY <1>1, <1>2, <1>3 DEF MeterInv

(* recvfrom() hands n bytes to the receiving thread.                       *)
LEMMA ReceiveKeeps ==
    ASSUME MeterInv, NEW d \in Data, NEW n \in Nat \ {0}, Receive(d, n)
    PROVE  MeterInv' /\ SurplusKept
<1> USE MeterAssumption
<1>1. MeterTypeOK'
  BY DEF MeterInv, MeterTypeOK, Receive, counterVars, tpVars, RecvPc
<1>2. MutexOwned' /\ LoadedIsCurrent'
  BY DEF MeterInv, MeterTypeOK, MutexOwned, LoadedIsCurrent, Receive, Current,
         counterVars, tpVars
<1>3. SurplusKept
  BY DEF SurplusKept, Surplus, Receive, counterVars, tpVars
<1> QED BY <1>1, <1>2, <1>3 DEF MeterInv

(* The thread ends; it holds no mutex then.                                *)
LEMMA ReceiverExitsKeeps ==
    ASSUME MeterInv, NEW d \in Data, ReceiverExits(d)
    PROVE  MeterInv' /\ SurplusKept
<1> USE MeterAssumption
<1>1. MeterTypeOK'
  BY DEF MeterInv, MeterTypeOK, ReceiverExits, counterVars, tpVars, RecvPc
<1>2. MutexOwned' /\ LoadedIsCurrent'
  BY DEF MeterInv, MeterTypeOK, MutexOwned, LoadedIsCurrent, ReceiverExits, Current,
         counterVars, tpVars
<1>3. SurplusKept
  BY DEF SurplusKept, Surplus, ReceiverExits, counterVars, tpVars
<1> QED BY <1>1, <1>2, <1>3 DEF MeterInv

(* Counting what was received, between lock and unlock.                    *)
LEMMA RecvStepKeeps ==
    ASSUME MeterInv, NEW d \in Data, RecvStep(d)
    PROVE  MeterInv' /\ SurplusKept
<1> USE MeterAssumption
<1>1. CASE LockCounters(d)
  <2>1. MeterTypeOK'
    BY <1>1 DEF MeterInv, MeterTypeOK, LockCounters, tpVars, RecvPc, Holder
  <2>2. MutexOwned' /\ LoadedIsCurrent'
    BY <1>1 DEF MeterInv, MeterTypeOK, MutexOwned, LoadedIsCurrent, LockCounters,
                Current, tpVars
  <2>3. SurplusKept
    BY <1>1 DEF SurplusKept, Surplus, LockCounters, tpVars
  <2> QED BY <2>1, <2>2, <2>3 DEF MeterInv
<1>2. CASE LoadCounters(d)
  <2>1. MeterTypeOK'
    BY <1>2 DEF MeterInv, MeterTypeOK, LoadCounters, counterVars, tpVars, RecvPc
  <2>2. MutexOwned' /\ LoadedIsCurrent'
    BY <1>2 DEF MeterInv, MeterTypeOK, MutexOwned, LoadedIsCurrent, LoadCounters,
                Current, counterVars, tpVars
  <2>3. SurplusKept
    BY <1>2 DEF SurplusKept, Surplus, LoadCounters, counterVars, tpVars
  <2> QED BY <2>1, <2>2, <2>3 DEF MeterInv
<1>3. CASE StoreCounters(d)
  <2>1. MeterTypeOK'
    BY <1>3 DEF MeterInv, MeterTypeOK, StoreCounters, tpVars, RecvPc
  <2>2. MutexOwned'
    BY <1>3 DEF MeterInv, MeterTypeOK, MutexOwned, StoreCounters, Current, tpVars
  <2>3. LoadedIsCurrent'
    BY <1>3 DEF MeterInv, MeterTypeOK, MutexOwned, LoadedIsCurrent, StoreCounters,
                Current, tpVars, InSection
  <2>4. SurplusKept
    BY <1>3 DEF MeterInv, MeterTypeOK, LoadedIsCurrent, SurplusKept, Surplus,
                StoreCounters, tpVars
  <2> QED BY <2>1, <2>2, <2>3, <2>4 DEF MeterInv
<1>4. CASE UnlockCounters(d)
  <2>1. MeterTypeOK'
    BY <1>4 DEF MeterInv, MeterTypeOK, UnlockCounters, tpVars, RecvPc, Holder
  <2>2. MutexOwned' /\ LoadedIsCurrent'
    BY <1>4 DEF MeterInv, MeterTypeOK, MutexOwned, LoadedIsCurrent, UnlockCounters,
                Current, tpVars
  <2>3. SurplusKept
    BY <1>4 DEF SurplusKept, Surplus, UnlockCounters, tpVars
  <2> QED BY <2>1, <2>2, <2>3 DEF MeterInv
<1> QED BY <1>1, <1>2, <1>3, <1>4 DEF RecvStep

(* A scan starts: the accumulators of report_statistics() are fresh.       *)
LEMMA TpWakeKeeps == ASSUME MeterInv, TpWake PROVE MeterInv' /\ SurplusKept
<1> USE MeterAssumption
<1>1. MeterTypeOK'
  BY DEF MeterInv, MeterTypeOK, TpWake, counterVars, recvVars, TpPc
<1>2. MutexOwned' /\ LoadedIsCurrent'
  BY DEF MeterInv, MeterTypeOK, MutexOwned, LoadedIsCurrent, TpWake, Current,
         counterVars, recvVars, InSection
<1>3. SurplusKept
  BY DEF SurplusKept, Surplus, TpWake, counterVars, recvVars
<1> QED BY <1>1, <1>2, <1>3 DEF MeterInv

(* It ends: the figures are handed out.                                    *)
LEMMA SendReportKeeps == ASSUME MeterInv, SendReport PROVE MeterInv' /\ SurplusKept
<1> USE MeterAssumption
<1>1. MeterTypeOK'
  BY DEF MeterInv, MeterTypeOK, SendReport, counterVars, recvVars, TpPc
<1>2. MutexOwned' /\ LoadedIsCurrent'
  BY DEF MeterInv, MeterTypeOK, MutexOwned, LoadedIsCurrent, SendReport, Current,
         counterVars, recvVars, InSection
<1>3. SurplusKept
  BY DEF SurplusKept, Surplus, SendReport, counterVars, recvVars
<1> QED BY <1>1, <1>2, <1>3 DEF MeterInv

(* It visits a slot: lock, take, reset, unlock.                            *)
LEMMA ScanStepKeeps == ASSUME MeterInv, ScanStep PROVE MeterInv' /\ SurplusKept
<1> USE MeterAssumption
<1>1. CASE SkipSlot
  <2>1. MeterTypeOK'
    BY <1>1 DEF MeterInv, MeterTypeOK, SkipSlot, counterVars, recvVars
  <2>2. MutexOwned' /\ LoadedIsCurrent'
    BY <1>1 DEF MeterInv, MeterTypeOK, MutexOwned, LoadedIsCurrent, SkipSlot, Current,
                counterVars, recvVars, InSection
  <2>3. SurplusKept
    BY <1>1 DEF SurplusKept, Surplus, SkipSlot, counterVars, recvVars
  <2> QED BY <2>1, <2>2, <2>3 DEF MeterInv
<1>2. CASE LockSlot
  <2>0. Current \in Data
    BY <1>2, VisitedSlot DEF MeterInv, LockSlot
  <2>1. MeterTypeOK'
    BY <1>2 DEF MeterInv, MeterTypeOK, LockSlot, recvVars, Holder, TpPc
  <2>2. MutexOwned' /\ LoadedIsCurrent'
    BY <1>2, <2>0 DEF MeterInv, MeterTypeOK, MutexOwned, LoadedIsCurrent, LockSlot,
                Current, recvVars, InSection
  <2>3. SurplusKept
    BY <1>2 DEF SurplusKept, Surplus, LockSlot, recvVars
  <2> QED BY <2>1, <2>2, <2>3 DEF MeterInv
<1>3. CASE TakeSlot
  <2>0. Current \in Data
    BY <1>3 DEF MeterInv, MutexOwned, TakeSlot, InSection
  <2>1. MeterTypeOK'
    BY <1>3, <2>0 DEF MeterInv, MeterTypeOK, TakeSlot, counterVars, recvVars, TpPc
  <2>2. MutexOwned' /\ LoadedIsCurrent'
    BY <1>3, <2>0 DEF MeterInv, MeterTypeOK, MutexOwned, LoadedIsCurrent, TakeSlot,
                Current, counterVars, recvVars, InSection
  <2>3. SurplusKept
    BY <1>3 DEF SurplusKept, Surplus, TakeSlot, counterVars, recvVars
  <2> QED BY <2>1, <2>2, <2>3 DEF MeterInv
<1>4. CASE ResetSlot
  <2>0. Current \in Data /\ mutex[Current] = "tp" /\ tpTook = numSinceMeasure[Current]
    BY <1>4 DEF MeterInv, MutexOwned, LoadedIsCurrent, ResetSlot, InSection
  <2>1. MeterTypeOK'
    BY <1>4, <2>0 DEF MeterInv, MeterTypeOK, ResetSlot, recvVars, TpPc
  <2>2. MutexOwned'
    BY <1>4, <2>0 DEF MeterInv, MeterTypeOK, MutexOwned, ResetSlot, Current,
                recvVars, InSection
  <2>3. LoadedIsCurrent'
    BY <1>4, <2>0 DEF MeterInv, MeterTypeOK, MutexOwned, LoadedIsCurrent, ResetSlot,
                Current, recvVars
  <2>4. SurplusKept
    BY <1>4, <2>0 DEF MeterInv, MeterTypeOK, SurplusKept, Surplus, ResetSlot, recvVars
  <2> QED BY <2>1, <2>2, <2>3, <2>4 DEF MeterInv
<1>5. CASE UnlockSlot
  <2>0. Current \in Data /\ mutex[Current] = "tp" /\ tpSlot < NumData
    BY <1>5 DEF MeterInv, MutexOwned, UnlockSlot, InSection
  <2>1. MeterTypeOK'
    BY <1>5, <2>0 DEF MeterInv, MeterTypeOK, UnlockSlot, recvVars, TpPc, Holder
  <2>2. MutexOwned' /\ LoadedIsCurrent'
    BY <1>5, <2>0 DEF MeterInv, MeterTypeOK, MutexOwned, LoadedIsCurrent, UnlockSlot,
                Current, recvVars, InSection
  <2>3. SurplusKept
    BY <1>5 DEF SurplusKept, Surplus, UnlockSlot, recvVars
  <2> QED BY <2>1, <2>2, <2>3 DEF MeterInv
<1> QED BY <1>1, <1>2, <1>3, <1>4, <1>5 DEF ScanStep

(* What the steps of a receiving thread leave alone: the slots and the     *)
(* throughput thread, and the threads and counts of other objects.         *)
LEMMA RecvFrame ==
    ASSUME MeterInv, NEW d \in Data,
           (\E n \in Nat : Receive(d, n)) \/ ReceiverExits(d) \/ RecvStep(d)
    PROVE  /\ UNCHANGED <<slots, tpVars>>
           /\ pc[d] # "none" /\ pc'[d] # "none"
           /\ \A e \in Data \ {d} : /\ pc'[e] = pc[e]
                                    /\ res'[e] = res[e]
                                    /\ counted'[e] = counted[e]
BY DEF MeterInv, MeterTypeOK, Receive, ReceiverExits, RecvStep, LockCounters,
       LoadCounters, StoreCounters, UnlockCounters, counterVars, tpVars

(* What the steps of the throughput thread leave alone.                    *)
LEMMA TpFrame ==
    ASSUME MeterInv, TpWake \/ ScanStep \/ SendReport
    PROVE  /\ UNCHANGED <<slots, recvVars>>
           /\ tpPc # "none"
           /\ \A e \in Data : (\A i \in Slot : slots[i] # e) => taken'[e] = taken[e]
<1>1. CASE ResetSlot
  <2>1. tpSlot \in Slot
    BY <1>1, VisitedSlot DEF MeterInv, MutexOwned, ResetSlot, InSection
  <2> QED BY <1>1, <2>1 DEF MeterInv, MeterTypeOK, ResetSlot, Current
<1>2. CASE TpWake \/ SendReport \/ SkipSlot \/ LockSlot \/ TakeSlot \/ UnlockSlot
  BY <1>2 DEF TpWake, SendReport, SkipSlot, LockSlot, TakeSlot, UnlockSlot, recvVars
<1> QED BY <1>1, <1>2 DEF ScanStep

-----------------------------------------------------------------------------
(* The two figures of a report.  Both are sums over the table, and no sum  *)
(* over a set is needed to say so: part[i] is what the reports hold of the *)
(* slots before i, and when they get more of a slot, part grows behind it. *)

Visited == 0..(NumData - 1)
TakenOf(i) == IF slots[i] = NoData THEN 0 ELSE taken[slots[i]]

PartialSums(part) ==
    /\ part \in [0..NumData -> Nat]
    /\ part[0] = 0
    /\ \A i \in Visited : part[i + 1] = part[i] + TakenOf(i)

(* The intervals make up all that was reported, but for the counter that   *)
(* is about to be reset; the average is made up of the slots visited.      *)
Figures(part) ==
    /\ emitted + (IF tpPc \in {"none", "sleep"} THEN 0 ELSE numBytes)
          = part[NumData] + (IF tpPc = "reset" THEN tpTook ELSE 0)
    /\ tpPc \in {"scan", "take", "reset"} => numBytesSinceStart = part[tpSlot]
    /\ tpPc = "unlock" => numBytesSinceStart = part[tpSlot + 1]

FiguresOK == \E part : PartialSums(part) /\ Figures(part)

(* What a server has to see to: no object is visited twice in a scan, and  *)
(* what is added for the average is what the reports will hold of it.      *)
VisitedOnce == \A i, j \in Visited : slots[i] = slots[j] /\ slots[i] # NoData => i = j
SameBytes == tpPc = "reset" => numSinceStart[Current] = taken[Current] + tpTook

LEMMA MeterInitFigures == ASSUME MeterInit PROVE FiguresOK
<1> USE MeterAssumption DEF MeterInit
<1>1. PICK part : part = [i \in 0..NumData |-> 0]
  OBVIOUS
<1>2. PartialSums(part)
  <2>1. ASSUME NEW i \in Visited PROVE part[i + 1] = part[i] + TakenOf(i)
    BY <1>1 DEF Visited, TakenOf, Slot
  <2> QED BY <1>1, <2>1 DEF PartialSums
<1>3. Figures(part)
  BY <1>1 DEF Figures
<1> QED BY <1>2, <1>3 DEF FiguresOK

(* Steps of others: what is reported of each slot stays as it is.          *)
LEMMA FiguresStay ==
    ASSUME FiguresOK, \A i \in Visited : TakenOf(i)' = TakenOf(i),
           UNCHANGED <<tpSlot, tpTook, numBytes, numBytesSinceStart, emitted>>,
           tpPc' = tpPc \/ {tpPc, tpPc'} \subseteq {"none", "sleep"}
    PROVE  FiguresOK'
<1>1. PICK part : PartialSums(part) /\ Figures(part)
  BY DEF FiguresOK
<1>2. PartialSums(part)'
  BY <1>1 DEF PartialSums
<1>3. Figures(part)'
  BY <1>1 DEF Figures
<1> QED BY <1>2, <1>3 DEF FiguresOK

LEMMA VisitedSlots ==
    /\ NumData \in Nat /\ NumData \in 0..NumData
    /\ \A i \in Visited : i \in Slot /\ i \in 0..NumData /\ i + 1 \in 0..NumData
BY MeterAssumption DEF Visited, Slot

(* The reset of a counter: its bytes come into both figures.               *)
LEMMA ResetKeepsFigures ==
    ASSUME MeterInv, FiguresOK, VisitedOnce, SameBytes, ResetSlot
    PROVE  FiguresOK'
<1>1. /\ tpSlot \in Visited /\ tpSlot \in Slot /\ Current \in Data
      /\ tpPc = "reset" /\ tpPc' = "unlock"
      /\ UNCHANGED <<slots, tpSlot, tpTook, numBytes, emitted>>
      /\ numBytesSinceStart' = numBytesSinceStart + taken[Current] + tpTook
      /\ taken' = [taken EXCEPT ![Current] = @ + tpTook]
  <2>1. Current \in Data /\ tpSlot < NumData /\ tpSlot \in 0..NumData
    BY DEF MeterInv, MeterTypeOK, MutexOwned, ResetSlot, InSection
  <2>2. tpSlot \in Visited
    BY <2>1, VisitedSlots DEF Visited
  <2>3. numSinceStart[Current] = taken[Current] + tpTook
    BY DEF SameBytes, ResetSlot
  <2>4. /\ taken[Current] \in Nat /\ tpTook \in Nat /\ numBytesSinceStart \in Nat
    BY <2>1 DEF MeterInv, MeterTypeOK
  <2> QED BY <2>1, <2>2, <2>3, <2>4, VisitedSlots DEF ResetSlot
<1>2. PICK part : PartialSums(part) /\ Figures(part)
  BY DEF FiguresOK
<1>3. /\ part \in [0..NumData -> Nat] /\ part[0] = 0
      /\ \A i \in Visited : part[i + 1] = part[i] + TakenOf(i)
      /\ emitted + numBytes = part[NumData] + tpTook
      /\ numBytesSinceStart = part[tpSlot]
  BY <1>1, <1>2 DEF PartialSums, Figures
<1>4. /\ tpTook \in Nat /\ numBytes \in Nat /\ emitted \in Nat
      /\ taken \in [Data -> Nat] /\ slots \in [Slot -> Data \union {NoData}]
  BY DEF MeterInv, MeterTypeOK
<1>5. PICK more :
          more = [i \in 0..NumData |-> IF i <= tpSlot THEN part[i] ELSE part[i] + tpTook]
  OBVIOUS
<1>6. /\ TakenOf(tpSlot) = taken[Current] /\ taken[Current] \in Nat
      /\ \A i \in Visited :
            TakenOf(i) \in Nat
            /\ TakenOf(i)' = IF i = tpSlot THEN TakenOf(i) + tpTook ELSE TakenOf(i)
  <2>1. Current # NoData
    BY <1>1, MeterAssumption
  <2>2. \A i \in Visited \ {tpSlot} : slots[i] # Current
    BY <1>1, <2>1 DEF VisitedOnce, Current
  <2> QED BY <1>1, <1>4, <2>1, <2>2, VisitedSlots DEF TakenOf, Current
<1>7. PartialSums(more)'
  <2>1. more \in [0..NumData -> Nat] /\ more[0] = 0
    <3>1. tpSlot \in Nat
      BY <1>1, VisitedSlots DEF Visited
    <3>2. \A i \in 0..NumData : part[i] \in Nat /\ part[i] + tpTook \in Nat
      BY <1>3, <1>4
    <3>3. more \in [0..NumData -> Nat]
      BY <1>5, <3>2
    <3>4. 0 \in 0..NumData /\ 0 <= tpSlot
      BY <3>1, VisitedSlots
    <3> QED BY <1>3, <1>5, <3>3, <3>4
  <2>2. ASSUME NEW i \in Visited PROVE more[i + 1] = more[i] + TakenOf(i)'
    <3>1. /\ i \in Nat /\ tpSlot \in Nat /\ part[i] \in Nat
          /\ part[i + 1] = part[i] + TakenOf(i)
      BY <1>1, <1>3, VisitedSlots DEF Visited
    <3>2. /\ more[i] = IF i <= tpSlot THEN part[i] ELSE part[i] + tpTook
          /\ more[i + 1] = IF i + 1 <= tpSlot THEN part[i + 1] ELSE part[i + 1] + tpTook
      BY <1>5, VisitedSlots
    <3>3. TakenOf(i) \in Nat
          /\ TakenOf(i)' = IF i = tpSlot THEN TakenOf(i) + tpTook ELSE TakenOf(i)
      BY <1>6
    <3> HIDE DEF TakenOf
    <3> QED BY <1>4, <3>1, <3>2, <3>3
  <2> QED BY <2>1, <2>2 DEF PartialSums
<1>8. Figures(more)'
  <2>1. tpSlot \in Nat /\ tpSlot < NumData /\ tpSlot + 1 \in 0..NumData
    BY <1>1, VisitedSlots DEF Visited
  <2>2. /\ more[NumData] = part[NumData] + tpTook
        /\ more[tpSlot + 1] = part[tpSlot] + taken[Current] + tpTook
    <3>1. part[tpSlot + 1] = part[tpSlot] + taken[Current]
      BY <1>1, <1>3, <1>6
    <3>2. /\ more[NumData] = part[NumData] + tpTook
          /\ more[tpSlot + 1] = part[tpSlot + 1] + tpTook
      BY <1>5, <2>1, VisitedSlots
    <3> QED BY <3>1, <3>2
  <2>3. emitted' + numBytes' = more[NumData]
    BY <1>1, <1>3, <2>2
  <2>4. numBytesSinceStart' = more[tpSlot' + 1]
    BY <1>1, <1>3, <2>2
  <2>5. part[NumData] \in Nat /\ more[NumData] \in Nat
    BY <1>3, <1>4, <2>2, VisitedSlots
  <2> QED BY <1>1, <2>3, <2>4, <2>5 DEF Figures
<1> QED BY <1>7, <1>8 DEF FiguresOK

(* The scan: the figures of a slot are in the sums when it is left.        *)
LEMMA ScanKeepsFigures ==
    ASSUME MeterInv, FiguresOK, VisitedOnce, SameBytes,
           TpWake \/ ScanStep \/ SendReport
    PROVE  FiguresOK'
<1>1. CASE ResetSlot
  BY <1>1, ResetKeepsFigures
<1>2. CASE ~ResetSlot
  <2>1. PICK part : PartialSums(part) /\ Figures(part)
    BY DEF FiguresOK
  <2>2. UNCHANGED <<slots, taken>>
    BY <1>2 DEF TpWake, ScanStep, SkipSlot, LockSlot, TakeSlot, UnlockSlot, SendReport
  <2>3. PartialSums(part)'
    BY <2>1, <2>2 DEF PartialSums, TakenOf
  <2>4. /\ part \in [0..NumData -> Nat] /\ part[0] = 0
        /\ \A i \in Visited : part[i + 1] = part[i] + TakenOf(i)
    BY <2>1 DEF PartialSums
  <2>5. /\ tpSlot \in 0..NumData /\ numBytes \in Nat /\ numBytesSinceStart \in Nat
        /\ emitted \in Nat /\ tpTook \in Nat /\ NumData \in Nat
        /\ numSinceMeasure \in [Data -> Nat]
    BY VisitedSlots DEF MeterInv, MeterTypeOK
  <2>6. Figures(part)'
    <3> USE <2>1, <2>4, <2>5 DEF Figures
    <3>1. CASE TpWake
      BY <3>1 DEF TpWake
    <3>2. CASE SkipSlot
      <4>1. tpSlot \in Visited /\ TakenOf(tpSlot) = 0
        BY <3>2 DEF SkipSlot, Current, Visited, TakenOf
      <4> QED BY <3>2, <4>1 DEF SkipSlot
    <3>3. CASE LockSlot
      BY <3>3 DEF LockSlot
    <3>4. CASE TakeSlot
      <4>1. Current \in Data
        BY <3>4 DEF MeterInv, MutexOwned, TakeSlot, InSection
      <4> QED BY <3>4, <4>1 DEF TakeSlot
    <3>5. CASE UnlockSlot
      BY <3>5 DEF UnlockSlot
    <3>6. CASE SendReport
      BY <3>6 DEF SendReport
    <3> QED BY <1>2, <3>1, <3>2, <3>3, <3>4, <3>5, <3>6 DEF ScanStep
  <2> QED BY <2>3, <2>6 DEF FiguresOK
<1> QED BY <1>1, <1>2

-----------------------------------------------------------------------------
(* What a scan takes.  Of object d, in slot i, n bytes were counted before *)
(* the scan; until it has passed the slot it still has to take them, and   *)
(* from the reset on the reports hold them, on top of what else they hold. *)

NotPassed(i) ==
    tpPc \in {"none", "sleep"} \/ tpSlot < i \/ (tpSlot = i /\ tpPc # "unlock")
InReport(d, n) == n + Surplus(d) <= taken[d]
CountedFor(d, i, n) == n <= counted[d] /\ (NotPassed(i) \/ InReport(d, n))

(* Steps of other threads: d may count more, and nothing of it is undone.  *)
LEMMA OthersTakeNothing ==
    ASSUME NEW d, NEW i, NEW n \in Nat, CountedFor(d, i, n),
           counted[d] \in Nat, counted'[d] \in Nat, counted[d] <= counted'[d],
           Surplus(d)' = Surplus(d), tpSlot' = tpSlot, taken'[d] = taken[d],
           tpPc' = tpPc \/ {tpPc, tpPc'} \subseteq {"none", "sleep"}
    PROVE  CountedFor(d, i, n)'
<1>1. n <= counted'[d]
  BY DEF CountedFor
<1>2. NotPassed(i) => NotPassed(i)'
  BY DEF NotPassed
<1>3. InReport(d, n) => InReport(d, n)'
  BY DEF InReport
<1> QED BY <1>1, <1>2, <1>3 DEF CountedFor

(* The scan passes no slot without taking what is counted of its object.   *)
LEMMA ScanTakesAll ==
    ASSUME MeterInv, NEW d \in Data, NEW i \in Visited, NEW n \in Nat, slots[i] = d,
           CountedFor(d, i, n), TpWake \/ ScanStep \/ SendReport
    PROVE  CountedFor(d, i, n)'
<1> USE MeterAssumption
<1>1. /\ i \in Nat /\ tpSlot \in Nat /\ n <= counted[d] /\ counted'[d] = counted[d]
      /\ taken[d] \in Nat /\ counted[d] \in Nat /\ numSinceMeasure[d] \in Nat
      /\ tpTook \in Nat /\ d # NoData
  BY VisitedSlots, TpFrame DEF MeterInv, MeterTypeOK, Visited, CountedFor, recvVars
<1>2. Surplus(d)' = Surplus(d) /\ Surplus(d) \in Int
  <2>1. Surplus(d)' = Surplus(d)
    BY TpWakeKeeps, ScanStepKeeps, SendReportKeeps DEF SurplusKept
  <2> QED BY <1>1, <2>1 DEF Surplus
<1>3. CASE TpWake
  BY <1>1, <1>3 DEF TpWake, CountedFor, NotPassed
<1>4. CASE SendReport
  BY <1>1, <1>4 DEF SendReport, CountedFor, NotPassed
<1>5. CASE SkipSlot \/ UnlockSlot
  <2>1. /\ tpSlot' = tpSlot + 1 /\ tpPc' = "scan" /\ taken' = taken
        /\ tpPc \in {"scan", "unlock"} /\ (tpSlot = i => tpPc = "unlock")
    BY <1>1, <1>5 DEF SkipSlot, UnlockSlot, Current
  <2>2. NotPassed(i) => NotPassed(i)'
    BY <1>1, <2>1 DEF NotPassed
  <2>3. InReport(d, n) => InReport(d, n)'
    BY <1>2, <2>1 DEF InReport
  <2> QED BY <1>1, <2>2, <2>3 DEF CountedFor
<1>6. CASE LockSlot \/ TakeSlot
  <2>1. UNCHANGED <<tpSlot, taken>> /\ tpPc' \in {"take", "reset"} /\ tpPc \in {"scan", "take"}
    BY <1>6 DEF LockSlot, TakeSlot
  <2>2. NotPassed(i) => NotPassed(i)'
    BY <2>1 DEF NotPassed
  <2>3. InReport(d, n) => InReport(d, n)'
    BY <1>2, <2>1 DEF InReport
  <2> QED BY <1>1, <2>2, <2>3 DEF CountedFor
<1>7. CASE ResetSlot
  <2>1. /\ Current \in Data /\ taken \in [Data -> Nat] /\ tpSlot' = tpSlot
        /\ taken' = [taken EXCEPT ![Current] = @ + tpTook] /\ tpPc = "reset"
        /\ tpTook = numSinceMeasure[Current]
    BY <1>7 DEF MeterInv, MeterTypeOK, MutexOwned, LoadedIsCurrent, ResetSlot, InSection
  <2>2. CASE Current = d
    <3>1. taken'[d] = taken[d] + numSinceMeasure[d]
      BY <2>1, <2>2
    <3>2. taken[d] + numSinceMeasure[d] = counted[d] + Surplus(d)
      BY <1>1 DEF Surplus
    <3>3. InReport(d, n)'
      BY <1>1, <1>2, <3>1, <3>2 DEF InReport
    <3> QED BY <1>1, <3>3 DEF CountedFor
  <2>3. CASE Current # d
    <3>1. taken'[d] = taken[d] /\ tpSlot # i
      BY <2>1, <2>3 DEF Current
    <3>2. NotPassed(i) => NotPassed(i)'
      BY <1>1, <2>1, <3>1 DEF NotPassed
    <3>3. InReport(d, n) => InReport(d, n)'
      BY <1>2, <3>1 DEF InReport
    <3> QED BY <1>1, <3>2, <3>3 DEF CountedFor
  <2> QED BY <2>2, <2>3
<1> QED BY <1>3, <1>4, <1>5, <1>6, <1>7 DEF ScanStep

(* So at its end the report holds them.                                    *)
LEMMA ScanComplete ==
    ASSUME NEW d, NEW i \in Visited, NEW n, CountedFor(d, i, n), tpPc = "scan", tpSlot = NumData
    PROVE  InReport(d, n)
BY VisitedSlots DEF CountedFor, NotPassed, Visited

=============================================================================
