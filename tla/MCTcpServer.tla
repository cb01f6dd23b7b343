---------------------------- MODULE MCTcpServer ----------------------------
(* Two connections of at most one byte each.                               *)
EXTENDS TcpServer

CONSTANTS c1, c2

MCData == {c1, c2}
MCDirty == {3}
MCZero == {0}

=============================================================================
