---------------------------- MODULE MCUdpServer ----------------------------
(* Two ports; datagrams of one or two bytes, or empty.                     *)
EXTENDS UdpServer

MCData == 0..1
MCSizes == {1, 2}
MCOneSize == {1}

=============================================================================
