--------------------------- MODULE RingLifecycle ---------------------------
(***************************************************************************)
(* What the shared-memory ring promises, without its words and threads.    *)
(* A position is claimed by a gateway thread, published (as a request or   *)
(* as a cancellation), taken by the daemon, completed by it, and released  *)
(* by the gateway.  Claims and takes happen in the order of the positions; *)
(* publications, completions and releases do not.                          *)
(***************************************************************************)
EXTENDS Integers

CONSTANTS
  Capacity,      \* slot_count: position q reuses the slot of q - Capacity
  Positions      \* bound: the positions watched are 0 .. Positions - 1

VARIABLE phase

Position == 0 .. Positions - 1
Phases == {"unclaimed", "held", "queued", "staged", "done", "released"}
InUse == {"held", "queued", "staged", "done"}
Consumed == {"staged", "done", "released"}

Init == phase = [q \in Position |-> "unclaimed"]

Advance(q, from, to) == phase[q] = from /\ phase' = [phase EXCEPT ![q] = to]

\* reserve_slot: the next position, once its slot is free again.
Claim(q) ==
  /\ \A r \in 0 .. q - 1 : phase[r] # "unclaimed"
  /\ q >= Capacity => phase[q - Capacity] = "released"
  /\ Advance(q, "unclaimed", "held")

\* publish_success and publish_cancel.
Publish(q) == Advance(q, "held", "queued")

\* try_consume takes the oldest position that it has not taken yet.
Take(q) ==
  /\ \A r \in 0 .. q - 1 : phase[r] \in Consumed
  /\ Advance(q, "queued", "staged")

\* SharedRing::complete.
Complete(q) == Advance(q, "staged", "done")

\* SlotReservation::release and the reclaimer.
Release(q) == Advance(q, "done", "released")

Next == \E q \in Position :
  Claim(q) \/ Publish(q) \/ Take(q) \/ Complete(q) \/ Release(q)

Spec == Init /\ [][Next]_phase
-----------------------------------------------------------------------------
\* Every position has a phase.
TypeOK == phase \in [Position -> Phases]

\* At most Capacity positions are in use at once, and they lie within one lap:
\* while q is in use nobody has claimed q + Capacity or anything beyond it, so a
\* slot never serves two positions (reserve_slot's comparison with p).
WithinOneLap ==
  \A q, r \in Position :
    phase[q] \in InUse /\ r >= q + Capacity => phase[r] = "unclaimed"

\* A reservation that was never published stops the daemon there: nothing behind
\* it is taken, however long ago it was published (try_consume's head-of-line).
NothingOvertakesHole ==
  \A q, r \in Position : phase[q] \in {"held", "queued"} /\ q < r => phase[r] \notin Consumed
=============================================================================
