-------------------------- MODULE MCServingGateway --------------------------
(* An instance of ServingGateway: one request scores at DenyScore, one below. *)
EXTENDS ServingGateway

CONSTANTS r1, r2
MCRequests == {r1, r2}
MCScores == [r \in MCRequests |-> IF r = r1 THEN 1 ELSE 0]

\* bound: a behaviour has one kind of trouble, one request when serving fails,
\* and the client of the other when one disconnects.
VARIABLE trouble

MCInit == Init /\ trouble \in {"signal", "serve", "disconnect"}

MCNext ==
  /\ Next
  /\ signalled' => trouble = "signal"
  /\ serveError' => trouble = "serve"
  /\ trouble = "serve" => at'[r2] = "new"
  /\ cancelled' # {} => trouble = "disconnect" /\ cancelled' = {r2}
  /\ UNCHANGED trouble

MCSpec == MCInit /\ [][MCNext]_<<vars, trouble>> /\ Fairness
=============================================================================
