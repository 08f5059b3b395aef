--------------------------- MODULE MCWorkerProcess ---------------------------
(* An instance of WorkerProcess. *)
EXTENDS WorkerProcess

CONSTANTS c1, c2
MCCalls == {c1, c2}
MCBatches ==
  {<<>>, <<"good">>, <<"good", "good">>, <<"good", "narrow">>, <<"bad">>,
   <<"good", "good", "good">>}
=============================================================================
