------------------------------- MODULE Meter -------------------------------
(***************************************************************************)
(* The byte counters of a client_data_t (conntest.h) and the one reader    *)
(* they have, report_statistics() of common.c, which the throughput thread *)
(* of a client or a server runs once a second over a table of pointers.    *)
(* The modules of the UDP server and of the TCP server extend this one,    *)
(* add the variables of their own and compose the steps below.             *)
(*                                                                         *)
(* A step is one access to shared memory: `x += n` on a counter is a load  *)
(* and a store, and so is the pair `numBytes += x; x = 0` of the reader.   *)
(***************************************************************************)
EXTENDS Integers

CONSTANTS Data,            \* the client_data_t objects that can be allocated
          NoData,          \* NULL
          TableSize,       \* slots of the pointer table (0xFFFF in the code)
          NumData          \* numData: report_statistics visits 0..numData-1

ASSUME MeterAssumption ==
    /\ NoData \notin Data
    /\ TableSize \in Nat
    /\ NumData \in 0..TableSize

VARIABLES
    slots,                 \* gServers: slot -> object, or NULL
    numSinceMeasure,       \* client_data_t.numSinceMeasure
    numSinceStart,         \* client_data_t.numSinceStart
    mutex,                 \* client_data_t.mutex: who holds it
    pc,                    \* where the receiving thread of an object is
    res,                   \* its local res, the bytes of the last receive
    reg,                   \* its register, between a load and a store
    tpPc,                  \* where tp_thread is
    tpSlot,                \* i of the loop of report_statistics
    tpTook,                \* the counter value it loaded last
    numBytes,              \* its accumulators
    numBytesSinceStart,
    counted,               \* history: bytes added to the counters, by object
    taken,                 \* history: bytes moved into numBytes, by object
    emitted                \* history: sum of numBytes over finished reports

counterVars == <<numSinceMeasure, numSinceStart, mutex>>
recvVars == <<pc, res, reg, counted>>
tpVars == <<tpPc, tpSlot, tpTook, numBytes, numBytesSinceStart, taken, emitted>>
meterVars == <<slots, counterVars, recvVars, tpVars>>

Slot == 0..(TableSize - 1)
Holder == {"free", "recv", "tp"}
RecvPc == {"none", "recv", "lock", "load", "store", "unlock", "exited"}
TpPc == {"none", "sleep", "scan", "take", "reset", "unlock"}

(* The object report_statistics works on.                                  *)
Current == slots[tpSlot]

MeterInit ==
    /\ slots = [i \in Slot |-> NoData]
    /\ numSinceMeasure = [d \in Data |-> 0]
    /\ numSinceStart = [d \in Data |-> 0]
    /\ mutex = [d \in Data |-> "free"]
    /\ pc = [d \in Data |-> "none"]
    /\ res = [d \in Data |-> 0]
    /\ reg = [d \in Data |-> 0]
    /\ tpPc = "none"
    /\ tpSlot = 0
    /\ tpTook = 0
    /\ numBytes = 0
    /\ numBytesSinceStart = 0
    /\ counted = [d \in Data |-> 0]
    /\ taken = [d \in Data |-> 0]
    /\ emitted = 0

-----------------------------------------------------------------------------
(* pthread_mutex_lock() and pthread_mutex_unlock() of object d.  An        *)
(* operator whose comment starts with "Slip" is a slip somebody could make *)
(* in the one after it; the properties are tried on it.                    *)

(* Slip: the lock is not waited for.                                       *)
NotAwaited(d) == TRUE
Free(d) == mutex[d] = "free"

Lock(d, holder) == Free(d) /\ mutex' = [mutex EXCEPT ![d] = holder]

(* Slip: the unlock is forgotten.                                          *)
KeepLocked(d) == UNCHANGED mutex
Unlock(d) == mutex' = [mutex EXCEPT ![d] = "free"]

-----------------------------------------------------------------------------
(* The receiving thread of object d.  recvfrom() returned n > 0 bytes: the *)
(* thread locks the mutex of the object, adds n to both counters, unlocks. *)

Receive(d, n) ==
    /\ pc[d] = "recv"
    /\ res' = [res EXCEPT ![d] = n]
    /\ pc' = [pc EXCEPT ![d] = "lock"]
    /\ UNCHANGED <<slots, counterVars, reg, counted, tpVars>>

LockCounters(d) ==
    /\ pc[d] = "lock"
    /\ Lock(d, "recv")
    /\ pc' = [pc EXCEPT ![d] = "load"]
    /\ UNCHANGED <<slots, numSinceMeasure, numSinceStart, res, reg, counted, tpVars>>

LoadCounters(d) ==
    /\ pc[d] = "load"
    /\ reg' = [reg EXCEPT ![d] = numSinceMeasure[d]]
    /\ pc' = [pc EXCEPT ![d] = "store"]
    /\ UNCHANGED <<slots, counterVars, res, counted, tpVars>>

StoreCounters(d) ==
    /\ pc[d] = "store"
    /\ numSinceMeasure' = [numSinceMeasure EXCEPT ![d] = reg[d] + res[d]]
    /\ numSinceStart' = [numSinceStart EXCEPT ![d] = @ + res[d]]
    /\ counted' = [counted EXCEPT ![d] = @ + res[d]]
    /\ pc' = [pc EXCEPT ![d] = "unlock"]
    /\ UNCHANGED <<slots, mutex, res, reg, tpVars>>

UnlockCounters(d) ==
    /\ pc[d] = "unlock"
    /\ Unlock(d)
    /\ pc' = [pc EXCEPT ![d] = "recv"]
    /\ UNCHANGED <<slots, numSinceMeasure, numSinceStart, res, reg, counted, tpVars>>

(* recvfrom() returned 0: pthread_exit().                                  *)
ReceiverExits(d) ==
    /\ pc[d] = "recv"
    /\ pc' = [pc EXCEPT ![d] = "exited"]
    /\ UNCHANGED <<slots, counterVars, res, reg, counted, tpVars>>

RecvStep(d) ==
    LockCounters(d) \/ LoadCounters(d) \/ StoreCounters(d) \/ UnlockCounters(d)

-----------------------------------------------------------------------------
(* tp_thread: one second of sleep, then report_statistics() over the first *)
(* NumData slots.  A slot that is NULL is passed over.                     *)

(* Slip: the sum for the average goes on from the last scan.               *)
KeepSum == numBytes' = 0 /\ UNCHANGED numBytesSinceStart
FreshSums == numBytes' = 0 /\ numBytesSinceStart' = 0

TpWake ==
    /\ tpPc = "sleep"
    /\ tpPc' = "scan"
    /\ tpSlot' = 0
    /\ FreshSums
    /\ UNCHANGED <<slots, counterVars, recvVars, tpTook, taken, emitted>>

(* Slip: the scan stops at the first slot that is NULL.                    *)
SkipSlotBreaks ==
    /\ tpPc = "scan"
    /\ tpSlot < NumData
    /\ Current = NoData
    /\ tpSlot' = NumData
    /\ UNCHANGED <<slots, counterVars, recvVars, tpPc, tpTook, numBytes,
                   numBytesSinceStart, taken, emitted>>

SkipSlot ==
    /\ tpPc = "scan"
    /\ tpSlot < NumData
    /\ Current = NoData
    /\ tpSlot' = tpSlot + 1
    /\ UNCHANGED <<slots, counterVars, recvVars, tpPc, tpTook, numBytes,
                   numBytesSinceStart, taken, emitted>>

LockSlot ==
    /\ tpPc = "scan"
    /\ tpSlot < NumData
    /\ Current # NoData
    /\ Lock(Current, "tp")
    /\ tpPc' = "take"
    /\ UNCHANGED <<slots, numSinceMeasure, numSinceStart, recvVars, tpSlot, tpTook,
                   numBytes, numBytesSinceStart, taken, emitted>>

(* numBytes += data[i]->numSinceMeasure                                    *)
TakeSlot ==
    /\ tpPc = "take"
    /\ tpTook' = numSinceMeasure[Current]
    /\ numBytes' = numBytes + numSinceMeasure[Current]
    /\ tpPc' = "reset"
    /\ UNCHANGED <<slots, counterVars, recvVars, tpSlot, numBytesSinceStart,
                   taken, emitted>>

(* Slip: no counter is reset.  Slip: both are.                             *)
ResetNone(d) == UNCHANGED <<numSinceMeasure, numSinceStart>>
ResetBoth(d) ==
    /\ numSinceMeasure' = [numSinceMeasure EXCEPT ![d] = 0]
    /\ numSinceStart' = [numSinceStart EXCEPT ![d] = 0]
ResetCounter(d) ==
    /\ numSinceMeasure' = [numSinceMeasure EXCEPT ![d] = 0]
    /\ UNCHANGED numSinceStart

(* numSinceMeasure = 0; numBytesSinceStart += data[i]->numSinceStart       *)
ResetSlot ==
    /\ tpPc = "reset"
    /\ ResetCounter(Current)
    /\ numBytesSinceStart' = numBytesSinceStart + numSinceStart[Current]
    /\ taken' = [taken EXCEPT ![Current] = @ + tpTook]
    /\ tpPc' = "unlock"
    /\ UNCHANGED <<slots, mutex, recvVars, tpSlot, tpTook, numBytes, emitted>>

UnlockSlot ==
    /\ tpPc = "unlock"
    /\ Unlock(Current)
    /\ tpSlot' = tpSlot + 1
    /\ tpPc' = "scan"
    /\ UNCHANGED <<slots, numSinceMeasure, numSinceStart, recvVars, tpTook, numBytes,
                   numBytesSinceStart, taken, emitted>>

(* Past the last slot the two figures are computed and sent or printed.    *)
SendReport ==
    /\ tpPc = "scan"
    /\ tpSlot = NumData
    /\ emitted' = emitted + numBytes
    /\ tpPc' = "sleep"
    /\ UNCHANGED <<slots, counterVars, recvVars, tpSlot, tpTook, numBytes,
                   numBytesSinceStart, taken>>

ScanStep == SkipSlot \/ LockSlot \/ TakeSlot \/ ResetSlot \/ UnlockSlot

-----------------------------------------------------------------------------
MeterTypeOK ==
    /\ slots \in [Slot -> Data \union {NoData}]
    /\ numSinceMeasure \in [Data -> Nat]
    /\ numSinceStart \in [Data -> Nat]
    /\ mutex \in [Data -> Holder]
    /\ pc \in [Data -> RecvPc]
    /\ res \in [Data -> Nat]
    /\ reg \in [Data -> Nat]
    /\ tpPc \in TpPc
    /\ tpSlot \in 0..NumData
    /\ tpTook \in Nat
    /\ numBytes \in Nat
    /\ numBytesSinceStart \in Nat
    /\ counted \in [Data -> Nat]
    /\ taken \in [Data -> Nat]
    /\ emitted \in Nat

(* What the counters and the reports hold of object d beyond the bytes its *)
(* thread received: 0 if they are right.                                   *)
Surplus(d) == taken[d] + numSinceMeasure[d] - counted[d]

(* The mutex of an object is held by the thread that is in its critical    *)
(* section, and by no other.                                               *)
InSection == {"take", "reset", "unlock"}

MutexOwned ==
    /\ \A d \in Data : mutex[d] = "recv" <=> pc[d] \in {"load", "store", "unlock"}
    /\ \A d \in Data : mutex[d] = "tp" => tpPc \in InSection /\ Current = d
    /\ tpPc \in InSection => /\ tpSlot < NumData
                            /\ Current \in Data
                            /\ mutex[Current] = "tp"

(* What a thread has loaded in its critical section is still the value of  *)
(* the counter when it stores; it only waits to count a positive number.   *)
LoadedIsCurrent ==
    /\ \A d \in Data : pc[d] = "store" => reg[d] = numSinceMeasure[d]
    /\ \A d \in Data : pc[d] \in {"lock", "load", "store"} => res[d] > 0
    /\ tpPc = "reset" => tpTook = numSinceMeasure[Current]

MeterInv == MeterTypeOK /\ MutexOwned /\ LoadedIsCurrent

=============================================================================
