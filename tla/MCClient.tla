------------------------------ MODULE MCClient ------------------------------
(* Two connections of one or two bytes each: over TCP and over UDP with a  *)
(* throughput to aim for, with packets of a fixed size, and a command line *)
(* that is refused.  With Slow, the throughput aimed for is so low that    *)
(* what is missing to it is less than a byte for each connection.          *)
EXTENDS Client

MCData == 0..1
MCGarbage == {3}
Two == With("-n", Number(2))
Tcp == <<Flag("-c"), Two, With("-t", Number(8))>>
Udp == <<Flag("-udp"), Two, With("-t", Number(8))>>
Fixed == <<Two, With("-t", Number(8)), With("-z", Number(20))>>
TooSmall == <<Two, With("-z", Number(18))>>

Slow == <<Flag("-c"), Two, With("-t", Number(4))>>

OnlyTcp == {Tcp}
OnlySlow == {Slow}
AllLines == {Tcp, Udp, Fixed, TooSmall}

=============================================================================
