---------------------------- MODULE MCTcRunnerPy ----------------------------
(* Three programs, two of them on one host.                                *)
EXTENDS TcRunnerPy, TLC

CONSTANTS a1, a2, b1, hostA, hostB

MCCmd == {a1, a2, b1}
MCHost == {hostA, hostB}
MCHostOf == (a1 :> hostA) @@ (a2 :> hostA) @@ (b1 :> hostB)

=============================================================================
