----------------------------- MODULE MCScheduler -----------------------------
(* Scheduler on small instances, explored side by side: two callers with    *)
(* any deadlines, and all the callers with none.                            *)
EXTENDS Scheduler, TLC

VARIABLE callers   \* the elements of Items that call Submit

MCInit ==
  /\ Init
  /\ callers \in SUBSET Items /\ (Cardinality(callers) = 2 \/ callers = Items)
  /\ \A i \in Items :
       deadline[i] = Unbounded \/ (i \in callers /\ Cardinality(callers) = 2)

MCNext ==
  /\ Next
  /\ \A i \in Items \ callers : pc'[i] = "idle" /\ i \notin cancelled'
  /\ UNCHANGED callers

MCSpec == MCInit /\ [][MCNext]_<<vars, callers>>

MCFairSpec == MCSpec /\ Fairness

\* The calls are interchangeable: no definition tells one from another.
ItemSymmetry == Permutations(Items)
=============================================================================
