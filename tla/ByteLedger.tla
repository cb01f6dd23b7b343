----------------------------- MODULE ByteLedger -----------------------------
(***************************************************************************)
(* What the throughput figures of conntest promise, without threads, locks *)
(* or slots: every connection has a running total of the bytes its thread  *)
(* has counted, and a running total of the bytes report_statistics() has   *)
(* put into a report.  A report moves the second total up to the first, so *)
(* no byte is reported twice and none is reported that was not counted.    *)
(***************************************************************************)
EXTENDS Naturals

CONSTANT Conn              \* the connections (client_data_t objects)

VARIABLES counted,         \* bytes added to the counters of a connection
          reported         \* bytes of it that reached a report

ledgerVars == <<counted, reported>>

LedgerInit ==
    /\ counted = [c \in Conn |-> 0]
    /\ reported = [c \in Conn |-> 0]

(* A thread adds the result of one send or receive.                        *)
Count(c) ==
    /\ counted' \in [Conn -> Nat]
    /\ counted'[c] > counted[c]
    /\ \A d \in Conn \ {c} : counted'[d] = counted[d]
    /\ UNCHANGED reported

(* A report takes all that is counted of one connection.                   *)
Report(c) ==
    /\ reported' = [reported EXCEPT ![c] = counted[c]]
    /\ UNCHANGED counted

LedgerNext == \E c \in Conn : Count(c) \/ Report(c)

LedgerSpec == LedgerInit /\ [][LedgerNext]_ledgerVars

=============================================================================
