------------------------------- MODULE Client -------------------------------
(***************************************************************************)
(* conntest -c: main() of conntest.c parses the command line, then         *)
(* client_start() of client.c, its sending threads and its throughput      *)
(* thread run.  The senders are held at gMutex until the last one   *)
(* is created; client_exit(), the handler of SIGINT and SIGTERM (the       *)
(* aggregator's pkill), only sets gDoExit.  The scan is the one of Meter,  *)
(* but the senders write the counters without the mutex it takes, so here  *)
(* pc, res and reg are those of a sender and its steps are other ones.     *)
(***************************************************************************)
EXTENDS Meter, ConntestArgs

CONSTANTS CommandLines,    \* what the program may be started with
          Garbage,         \* what malloc() leaves in a counter
          FirstRate,       \* the initial value of gBytesToSend, 100
          Kilo,            \* 1024
          MaxRate,         \* bound: a rate beyond it counts as this one
          MaxBytes         \* bound: bytes one connection takes

AppArgs == [state : {"parsing", "started", "shown", "refused"}, isServer : BOOLEAN, useUdp : BOOLEAN,
            processId : Int, aggregatorPort : Int, numConnections : Int,
            wantedThroughput : Nat, packetSize : Nat, usedPacketSize : Nat,
            serverPort : Nat]

ASSUME ClientAssumption ==
    /\ Data = 0..(NumData - 1)     \* object i is gClients[i]
    /\ NumData >= 1
    /\ CommandLines \subseteq Seq(Option)
    /\ \A l \in CommandLines :
          ParseConntest(l).state = "started" =>
              ~ParseConntest(l).isServer /\ ParseConntest(l).numConnections = NumData
    /\ Garbage \subseteq Nat
    /\ Kilo \in Nat \ {0}
    /\ MaxRate \in Nat
    /\ FirstRate \in 0..MaxRate
    /\ MaxBytes \in Nat

VARIABLES
    mainPc,                \* where the main thread is
    gAppArgs,              \* the parsed command line
    next,                  \* i of the loop of create_client_threads()
    gMutex,                \* who holds it
    gDoExit,
    gBytesToSend,
    bytesToSend,           \* the local copy each sender has of it
    atWake,                \* history: counted, when the scan under way began
    garbage                \* history: the counters of an object at the start

startVars == <<mainPc, next, gMutex>>
rateVars == <<gAppArgs, gBytesToSend, bytesToSend>>
vars == <<meterVars, startVars, gDoExit, rateVars, atWake, garbage>>

MainPc == {"parse", "connect", "threads", "meter", "spawn", "join", "loop", "exited"}
SendPc == {"none", "barrier", "inside", "setup", "check", "send", "count", "load",
           "store", "exited"}
Running == mainPc # "exited"

Init ==
    /\ MeterInit
    /\ mainPc = "parse"
    /\ gAppArgs = NoArgs
    /\ next = 0
    /\ gMutex = "free"
    /\ gDoExit = FALSE
    /\ gBytesToSend = FirstRate
    /\ bytesToSend = [d \in Data |-> 0]
    /\ atWake = [d \in Data |-> 0]
    /\ garbage = [d \in Data |-> 0]

-----------------------------------------------------------------------------
(* The main thread.                                                        *)

(* With a fixed packet size no throughput is aimed for.                    *)
ForClient(a) ==
    IF a.packetSize = 0 THEN a
    ELSE [a EXCEPT !.wantedThroughput = 0,
                   !.usedPacketSize = (a.packetSize - EthHeaderSize) % Word16]

ParseArgs ==
    /\ mainPc = "parse"
    /\ \E l \in CommandLines : gAppArgs' = ForClient(ParseConntest(l))
    /\ mainPc' = IF gAppArgs'.state = "started" THEN "connect" ELSE "exited"
    /\ UNCHANGED <<meterVars, next, gMutex, gDoExit, gBytesToSend, bytesToSend, atWake, garbage>>

(* allocate_clients(), then connect_clients(), which clears each object,   *)
(* or create_client_udp_sockets(), which does not.                         *)
Connect ==
    /\ mainPc = "connect"
    /\ mainPc' = "threads"
    /\ slots' = [i \in Slot |-> IF i < NumData THEN i ELSE NoData]
    /\ garbage' \in [Data -> IF gAppArgs.useUdp THEN Garbage ELSE {0}]
    /\ numSinceMeasure' = garbage'
    /\ numSinceStart' = garbage'
    /\ UNCHANGED <<mutex, recvVars, tpVars, next, gMutex, gDoExit, rateVars, atWake>>

ConnectFails ==
    /\ mainPc = "connect"
    /\ mainPc' = "exited"
    /\ UNCHANGED <<meterVars, next, gMutex, gDoExit, rateVars, atWake, garbage>>

(* Slip: the senders are not held.                                         *)
LetSendersGo == UNCHANGED gMutex
HoldBarrier == gMutex' = "main"

HoldSenders ==
    /\ mainPc = "threads"
    /\ gMutex = "free"
    /\ HoldBarrier
    /\ mainPc' = "meter"
    /\ UNCHANGED <<meterVars, next, gDoExit, rateVars, atWake, garbage>>

(* A failure is a positive number, which `res < 0` misses.                 *)
StartMeter ==
    /\ mainPc = "meter"
    /\ tpPc' \in {"sleep", "none"}
    /\ mainPc' = "spawn"
    /\ UNCHANGED <<slots, counterVars, recvVars, tpSlot, tpTook, numBytes,
                   numBytesSinceStart, taken, emitted, next, gMutex, gDoExit, rateVars,
                   atWake, garbage>>

SpawnSender ==
    /\ mainPc = "spawn"
    /\ next < NumData
    /\ pc' = [pc EXCEPT ![next] = "barrier"]
    /\ next' = next + 1
    /\ UNCHANGED <<slots, counterVars, res, reg, counted, tpVars, mainPc, gMutex,
                   gDoExit, rateVars, atWake, garbage>>

(* One sender cannot be created: gDoExit = 1, goto outro.                  *)
SpawnFails ==
    /\ mainPc = "spawn"
    /\ next < NumData
    /\ gDoExit' = TRUE
    /\ mainPc' = "join"
    /\ UNCHANGED <<meterVars, next, gMutex, rateVars, atWake, garbage>>

(* The outro joins threads that are detached or were never created, which  *)
(* is undefined: it may return at once and the process ends, it may crash, *)
(* and it may never return, which is that this action is not taken.        *)
JoinReturns ==
    /\ mainPc = "join"
    /\ mainPc' = "exited"
    /\ UNCHANGED <<meterVars, next, gMutex, gDoExit, rateVars, atWake, garbage>>

ReleaseSenders ==
    /\ mainPc = "spawn"
    /\ next = NumData
    /\ gMutex' = "free"
    /\ mainPc' = "loop"
    /\ UNCHANGED <<meterVars, next, gDoExit, rateVars, atWake, garbage>>

(* Slip: the main thread waits for the senders as well.                    *)
AllEnded == gDoExit /\ \A d \in Data : pc[d] = "exited"
ExitSeen == gDoExit

(* The main loop sleeps until gDoExit; its return ends the process.        *)
LeaveLoop ==
    /\ mainPc = "loop"
    /\ ExitSeen
    /\ mainPc' = "exited"
    /\ UNCHANGED <<meterVars, next, gMutex, gDoExit, rateVars, atWake, garbage>>

StartUp == ParseArgs \/ Connect \/ ConnectFails \/ HoldSenders \/ StartMeter \/ SpawnSender
           \/ SpawnFails \/ ReleaseSenders
Main == StartUp \/ LeaveLoop

(* The handler is there once the command line is parsed.                   *)
client_exit ==
    /\ mainPc \notin {"parse", "exited"}
    /\ ~gDoExit
    /\ gDoExit' = TRUE
    /\ UNCHANGED <<meterVars, startVars, rateVars, atWake, garbage>>

-----------------------------------------------------------------------------
(* send_thread() of object d.                                              *)

EnterBarrier(d) ==
    /\ pc[d] = "barrier"
    /\ gMutex = "free"
    /\ gMutex' = "sender"
    /\ pc' = [pc EXCEPT ![d] = "inside"]
    /\ UNCHANGED <<res, reg, counted, counterVars, bytesToSend>>

(* With gDoExit set the thread exits and gMutex stays locked.              *)
LeaveBarrier(d) ==
    /\ pc[d] = "inside"
    /\ pc' = [pc EXCEPT ![d] = IF gDoExit THEN "exited" ELSE "setup"]
    /\ gMutex' = IF gDoExit THEN gMutex ELSE "free"
    /\ UNCHANGED <<res, reg, counted, counterVars, bytesToSend>>

(* bytesToSend is chosen once, before the loop.                            *)
ReadRate(d) ==
    /\ pc[d] = "setup"
    /\ bytesToSend' =
          [bytesToSend EXCEPT ![d] = IF gAppArgs.usedPacketSize > 0
                                     THEN gAppArgs.packetSize ELSE gBytesToSend]
    /\ pc' = [pc EXCEPT ![d] = "check"]
    /\ UNCHANGED <<res, reg, counted, counterVars, gMutex>>

CheckExit(d) ==
    /\ pc[d] = "check"
    /\ pc' = [pc EXCEPT ![d] = IF gDoExit THEN "exited" ELSE "send"]
    /\ UNCHANGED <<res, reg, counted, counterVars, gMutex, bytesToSend>>

SendBytes(d) ==
    /\ pc[d] = "send"
    /\ \E n \in 1..bytesToSend[d] :
          /\ counted[d] + n <= MaxBytes
          /\ res' = [res EXCEPT ![d] = n]
    /\ pc' = [pc EXCEPT ![d] = "count"]
    /\ UNCHANGED <<reg, counted, counterVars, gMutex, bytesToSend>>

(* send() fails, or has nothing to send: the loop goes on.                 *)
SendNothing(d) ==
    /\ pc[d] = "send"
    /\ pc' = [pc EXCEPT ![d] = "check"]
    /\ UNCHANGED <<res, reg, counted, counterVars, gMutex, bytesToSend>>

(* numSinceStart += res; no other thread writes this counter.              *)
CountSinceStart(d) ==
    /\ pc[d] = "count"
    /\ numSinceStart' = [numSinceStart EXCEPT ![d] = @ + res[d]]
    /\ counted' = [counted EXCEPT ![d] = @ + res[d]]
    /\ pc' = [pc EXCEPT ![d] = "load"]
    /\ UNCHANGED <<res, reg, numSinceMeasure, mutex, gMutex, bytesToSend>>

(* numSinceMeasure += res, a load and a store, without the mutex.          *)
LoadSinceMeasure(d) ==
    /\ pc[d] = "load"
    /\ reg' = [reg EXCEPT ![d] = numSinceMeasure[d]]
    /\ pc' = [pc EXCEPT ![d] = "store"]
    /\ UNCHANGED <<res, counted, counterVars, gMutex, bytesToSend>>

StoreSinceMeasure(d) ==
    /\ pc[d] = "store"
    /\ numSinceMeasure' = [numSinceMeasure EXCEPT ![d] = reg[d] + res[d]]
    /\ pc' = [pc EXCEPT ![d] = "check"]
    /\ UNCHANGED <<res, reg, counted, numSinceStart, mutex, gMutex, bytesToSend>>

Sender(d) ==
    /\ Running
    /\ \/ EnterBarrier(d) \/ LeaveBarrier(d) \/ ReadRate(d) \/ CheckExit(d)
       \/ SendBytes(d) \/ SendNothing(d)
       \/ CountSinceStart(d) \/ LoadSinceMeasure(d) \/ StoreSinceMeasure(d)
    /\ UNCHANGED <<slots, tpVars, mainPc, next, gDoExit, gAppArgs, gBytesToSend, atWake, garbage>>

-----------------------------------------------------------------------------
(* adjust_traffic(), in whole numbers: the bits of an interval, of which   *)
(* report_statistics() sees the length as one second or two, against Kilo  *)
(* times the throughput aimed for.                                         *)

Aim == gAppArgs.wantedThroughput * Kilo
BitsPerSec(elapsed) == (numBytes * 8) \div elapsed
Excess(elapsed) == BitsPerSec(elapsed) - Aim

(* More than 1 percent off.                                                *)
IsOff(elapsed) == Aim > 0 /\ (100 * Excess(elapsed) > Aim \/ -100 * Excess(elapsed) > Aim)

(* gBytesToSend -/+ (0.25 * diff) / numConnections, a fraction cut towards *)
(* zero.  Slips: the wrong sign; a negative result is kept.                *)
Unit == 4 * Kilo * NumData
FurtherOff(elapsed) == gBytesToSend * Unit + Excess(elapsed)
Corrected(elapsed) == gBytesToSend * Unit - Excess(elapsed)
Unclamped(n) == n \div Unit
CutToRate(n) == IF n <= -Unit THEN 1 ELSE IF n < 0 THEN 0 ELSE n \div Unit

AdjustedRate(elapsed) ==
    IF gAppArgs.packetSize = 0 /\ IsOff(elapsed)
    THEN CutToRate(Corrected(elapsed)) ELSE gBytesToSend

(* The rate is raised without a limit; the bound keeps it where it is.     *)
AtMost(bound, rate) == IF rate <= bound THEN rate ELSE bound

-----------------------------------------------------------------------------
(* tp_thread(): leaves after a sleep that ended with gDoExit set, else     *)
(* scans, reports and adjusts the rate.                                    *)

TpWakes ==
    /\ ~gDoExit
    /\ TpWake
    /\ atWake' = counted
    /\ UNCHANGED <<startVars, gDoExit, rateVars, garbage>>

TpExits ==
    /\ tpPc = "sleep"
    /\ gDoExit
    /\ tpPc' = "none"
    /\ UNCHANGED <<slots, counterVars, recvVars, tpSlot, tpTook, numBytes,
                   numBytesSinceStart, taken, emitted, startVars, gDoExit, rateVars,
                   atWake, garbage>>

TpScans == ScanStep /\ UNCHANGED <<startVars, gDoExit, rateVars, atWake, garbage>>

TpReports ==
    /\ SendReport
    /\ \E elapsed \in {1, 2} : gBytesToSend' = AtMost(MaxRate, AdjustedRate(elapsed))
    /\ atWake' = [d \in Data |-> 0]
    /\ UNCHANGED <<startVars, gDoExit, gAppArgs, bytesToSend, garbage>>

TpThread == Running /\ (TpWakes \/ TpExits \/ TpScans \/ TpReports)

Next ==
    \/ Main
    \/ JoinReturns
    \/ client_exit
    \/ TpThread
    \/ \E d \in Data : Sender(d)

Spec == Init /\ [][Next]_vars

(* Every thread is scheduled, and a sender waiting for gMutex gets it when *)
(* it is free again and again; nothing is assumed of the undefined join.   *)
Fairness ==
    /\ WF_vars(Main)
    /\ WF_vars(TpThread)
    /\ \A d \in Data : SF_vars(Sender(d))

FairSpec == Spec /\ Fairness

-----------------------------------------------------------------------------
TypeOK ==
    /\ slots \in [Slot -> Data \union {NoData}]
    /\ numSinceMeasure \in [Data -> Nat]
    /\ numSinceStart \in [Data -> Nat]
    /\ mutex \in [Data -> {"free", "tp"}]
    /\ pc \in [Data -> SendPc]
    /\ res \in [Data -> Nat]
    /\ reg \in [Data -> Nat]
    /\ tpPc \in TpPc
    /\ tpSlot \in 0..NumData
    /\ tpTook \in Nat
    /\ numBytes \in Nat
    /\ numBytesSinceStart \in Nat
    /\ emitted \in Nat
    /\ counted \in [Data -> 0..MaxBytes]
    /\ taken \in [Data -> Nat]
    /\ mainPc \in MainPc
    /\ next \in 0..NumData
    /\ gMutex \in {"free", "main", "sender"}
    /\ gDoExit \in BOOLEAN
    /\ gAppArgs \in AppArgs
    /\ gBytesToSend \in 0..MaxRate
    /\ bytesToSend \in [Data -> Nat]
    /\ atWake \in [Data -> 0..MaxBytes]
    /\ garbage \in [Data -> Garbage \union {0}]

(* No sender sends before all are created, also when a signal arrives or a *)
(* sender cannot be created: gMutex is held until then.                    *)
StartTogether ==
    (\E d \in Data : pc[d] \notin {"none", "barrier", "exited"})
        => next = NumData /\ mainPc \in {"loop", "exited"}

(* The average is right although the interval figures are not.  A scan of  *)
(* report_statistics() takes time, and the senders go on counting without  *)
(* the mutex it takes; but what it has added up in the end is no less than *)
(* all of them had sent when it began, and no more than they have sent by  *)
(* then, on top of what malloc() left in the counters of a UDP client.     *)
Total(f) ==
    LET upto[i \in 0..NumData] == IF i = 0 THEN 0 ELSE upto[i - 1] + f[i - 1]
    IN  upto[NumData]

Holding(bytes) == [d \in Data |-> garbage[d] + bytes[d]]

AverageOfBytesSent ==
    tpPc = "scan" /\ tpSlot = NumData =>
        /\ Total(Holding(atWake)) <= numBytesSinceStart
        /\ numBytesSinceStart <= Total(Holding(counted))

(* The rate goes up only if less came through than is aimed for, and down  *)
(* only if more did, whether an interval of up to two seconds is taken for *)
(* one or two; but a rate that has come to 0 is set to 1 by the clamp.     *)
RateMovesRight ==
    [][/\ gBytesToSend' > gBytesToSend => 4 * numBytes < Aim \/ gBytesToSend = 0
       /\ gBytesToSend' < gBytesToSend => 8 * numBytes > Aim /\ Aim > 0]_vars

(* SIGINT or SIGTERM ends a client that has started, even if a sender took *)
(* gMutex with it, or one is blocked behind it, or a scan is under way.    *)
InterruptEnds == (gDoExit /\ mainPc # "join") ~> (~Running \/ mainPc = "join")

(* "This thread is used for displaying the current throughput"             *)
(* (client.c:181): it displays no byte more than was sent.                 *)
OnlySentIsReported == \A d \in Data : taken[d] <= counted[d]

(* "Throughput is too high. Try to decrease it" (client.c:224): what       *)
(* adjust_traffic() sets comes to be what the senders send.                *)
RateIsFollowed ==
    \A r \in 0..MaxRate : (gBytesToSend = r /\ mainPc = "loop" /\ pc[0] = "check")
        ~> (bytesToSend[0] = r \/ gBytesToSend # r \/ gDoExit)

-----------------------------------------------------------------------------
(* What makes these inductive.  Until main() lets go of gMutex no sender   *)
(* is past it; a thread has counted nothing before it sends; the scan      *)
(* works on an object; what is sent last still fits; and numSinceStart has *)
(* one writer.                                                             *)
NotStarted == {"none", "barrier", "inside"}

BarrierHolds ==
    /\ mainPc \in {"parse", "connect", "threads", "meter"} => \A d \in Data : pc[d] = "none"
    /\ mainPc \in {"meter", "spawn", "join"} => gMutex = "main"
    /\ mainPc \in {"spawn", "join"} => \A d \in Data : pc[d] \in {"none", "barrier"}
    /\ mainPc = "loop" => next = NumData

NothingCountedYet == \A d \in Data :
    /\ pc[d] \in NotStarted => counted[d] = 0
    /\ pc[d] = "count" => counted[d] + res[d] <= MaxBytes

ScanHasObject == tpPc \in InSection => tpSlot < NumData /\ Current \in Data

SinceStartExact == \A d \in Data : numSinceStart[d] = garbage[d] + counted[d]

Inv == /\ TypeOK /\ BarrierHolds /\ NothingCountedYet /\ ScanHasObject
       /\ StartTogether /\ SinceStartExact

=============================================================================
