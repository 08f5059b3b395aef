------------------------------ MODULE MCShmRing ------------------------------
(* ShmRing on small instances, explored side by side: one thread that goes *)
(* round the ring and reuses a slot, and all the threads with fewer calls. *)
EXTENDS ShmRingInvariant, TLC

CONSTANT SharedRequests    \* bound: the calls of submit() if several threads call it

VARIABLE crew              \* the threads that call submit()

Calls == IF Cardinality(crew) = 1 THEN MaxRequests ELSE SharedRequests

CrewInit == Init /\ crew \in SUBSET Producers \ {{}}

CrewNext ==
  /\ Next
  /\ submitted' <= Calls /\ \A p \in Producers \ crew : pc'[p] = "idle"
  /\ UNCHANGED crew

CrewSpec == CrewInit /\ [][CrewNext]_<<vars, crew>>

\* The threads that were called go on: the crew bounds only the calls.
CrewGatewaySpec == CrewSpec /\ GatewayFairness

\* The threads are interchangeable: no definition tells one from another.
ThreadSymmetry == Permutations(Producers)
=============================================================================
