-------------------------- MODULE AggregatorLedger --------------------------
(***************************************************************************)
(* The aggregator with history variables: what became of every report it   *)
(* received.  Reports are bounded here, where Aggregator lets processes    *)
(* report for ever.                                                        *)
(***************************************************************************)
EXTENDS Aggregator

CONSTANT MaxReports        \* bound: reports the aggregator handles

ASSUME LedgerAssumption == MaxReports \in Nat

VARIABLES
    got,                   \* reports received from each client slot
    rounds,                \* rounds closed, printed or skipped
    received,              \* sum of the throughputs received from Clients
    overwritten            \* sum of those replaced before their round closed

histVars == <<got, rounds, received, overwritten>>
ledgerVars == <<vars, histVars>>

LedgerInit ==
    /\ Init
    /\ got = [i \in ClientSlot |-> 0]
    /\ rounds = 0
    /\ received = 0
    /\ overwritten = 0

RecordReport ==
    LET m == Head(queue) IN
    /\ got[m.id] < MaxReports
    /\ got' = [got EXCEPT ![m.id] = @ + 1]
    /\ rounds' = IF AllReported(ReportedNow) THEN rounds + 1 ELSE rounds
    /\ IF m.id \in Clients
       THEN /\ received' = received + m.tp
            /\ overwritten' = overwritten + gClientTp[m.id]
       ELSE UNCHANGED <<received, overwritten>>

LedgerNext ==
    \/ HandleReport /\ RecordReport
    \/ /\ \/ Bind
          \/ HandleRegister
          \/ KilledByOther
          \/ \E p \in Process : Register(p) \/ Report(p) \/ Stops(p)
       /\ UNCHANGED histVars

LedgerSpec == LedgerInit /\ [][LedgerNext]_ledgerVars

-----------------------------------------------------------------------------
(* Each total is made of reports of its own: in n rounds, printed or       *)
(* skipped, every client has been heard n times at least, so no report of  *)
(* a slow client stands in for a second one of it.                         *)
NoReportCountedTwice == \A i \in Clients : rounds <= got[i]

(* gAvgTput, which the printed average is computed from, and the reports   *)
(* kept for the running round hold every throughput received exactly once, *)
(* but for those a faster client has replaced by a later one.  A skipped   *)
(* round takes nothing away.                                               *)
AverageConserved ==
    gAvgTput + SumFunctionOnSet(gClientTp, Clients) + overwritten = received

(* A client whose report waits for the round to close has been heard once  *)
(* more than rounds were closed; this makes NoReportCountedTwice inductive.*)
RoundsCovered ==
    /\ got \in [ClientSlot -> Nat]
    /\ rounds \in Nat
    /\ \A i \in Clients :
          IF gClientReported[i] THEN rounds + 1 <= got[i] ELSE rounds <= got[i]

LedgerInv == Inv /\ RoundsCovered

(* What makes AverageConserved inductive: the figures are numbers.         *)
TotalsOK == {gAvgTput, received, overwritten} \subseteq Nat

TotalsInv == Inv /\ TotalsOK /\ AverageConserved

=============================================================================
