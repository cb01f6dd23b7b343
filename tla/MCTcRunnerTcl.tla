---------------------------- MODULE MCTcRunnerTcl ----------------------------
(* A program pkill finds by name, along with another, and one whose call   *)
(* names a path, which pkill does not find.                                *)
EXTENDS TcRunnerTcl, TLC

CONSTANTS byName, byPath

MCCmd == {byName, byPath}
MCHits == (byName :> {byName, byPath}) @@ (byPath :> {})

=============================================================================
