---------------------------- MODULE MCLoadTester ----------------------------
(* An instance of LoadTester. *)
EXTENDS LoadTester

CONSTANTS w1, w2
MCWorkers == {w1, w2}
=============================================================================
