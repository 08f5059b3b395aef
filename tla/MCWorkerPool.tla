---------------------------- MODULE MCWorkerPool ----------------------------
(* An instance of WorkerPool: both callers call Infer, one also calls Healthy. *)
EXTENDS WorkerPool

CONSTANTS c1, c2
MCCallers == {c1, c2}

\* bound: the second caller's calls.
MCNext == Next /\ call'[c2].op # "healthy" /\ call'[c2].given # NoDeadline

MCSpec == Init /\ [][MCNext]_vars /\ Fairness
=============================================================================
