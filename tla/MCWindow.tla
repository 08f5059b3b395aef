------------------------------- MODULE MCWindow -------------------------------
(* Window on a small set of events.                                        *)
EXTENDS Window

CONSTANTS EventIds, EventEntities, EventTimes, EventOffsets

\* Valid events, partitioned by entity, of amount 1 or, with id "b", 2; and an
\* event of a partition that is not tracked.
MCInputs ==
  LET Event(i, e, t, o) == [id |-> i, entity |-> e, at |-> t, partition |-> e % 2,
                            offset |-> o, amount |-> IF i = "b" THEN 2 ELSE 1]
  IN  {Event(i, e, t, o) : i \in EventIds, e \in EventEntities, t \in EventTimes,
                           o \in EventOffsets}
        \cup {[Event("a", 1, 1, 0) EXCEPT !.partition = MaxTrackedPartitions]}
=============================================================================
