------------------------- MODULE ShmRingInvariant -------------------------
(***************************************************************************)
(* The inductive invariant of ShmRing, from which its safety invariants    *)
(* and the refinement of RingLifecycle follow.  Everything rests on one    *)
(* observation: two different positions of the same slot are at least      *)
(* Capacity >= 4 apart, so a sequence word q, q + 1 or q + 2 tells which   *)
(* position the slot is serving.                                           *)
(***************************************************************************)
EXTENDS ShmRing

\* The positions the daemon has taken and not completed are the last Taken ones.
Taken == IF dpc \in {"write", "store"} THEN Len(plan) ELSE Len(staged)

\* Where a thread that holds pos[p] is, the word of its slot says how far the
\* position has come; a thread about to claim has seen its slot free.
ThreadWordOf(p) ==
  /\ pc[p] \in Owning => pos[p] < enqueue
  /\ pc[p] \in Unpublished => seq[Slot(pos[p])] = pos[p]
  /\ pc[p] \in Published => seq[Slot(pos[p])] \in {pos[p] + 1, pos[p] + 2}
  /\ pc[p] \in {"respond", "release"} => seq[Slot(pos[p])] = pos[p] + 2
  /\ pc[p] = "cas" /\ enqueue = pos[p] => seq[Slot(pos[p])] = pos[p]
  /\ pc[p] \in {"loadseq", "cas"} => pos[p] <= enqueue
ThreadWord == \A p \in Producers : ThreadWordOf(p)

\* No two holders of one position: threads, and the reclaimer's two vectors.
Distinct ==
  /\ \A p, r \in Producers :
       pc[p] \in Owning /\ pc[r] \in Owning /\ pos[p] = pos[r] => p = r
  /\ \A p \in Producers : pc[p] \in Owning => pos[p] \notin pending \cup outstanding
  /\ pending \cap outstanding = {}
  /\ scan \subseteq outstanding

\* A position that was handed off is published, and perhaps completed.
ReclaimWord ==
  \A q \in pending \cup outstanding :
    q < enqueue /\ seq[Slot(q)] \in {q + 1, q + 2}

\* A slot's word is a position of that slot, at most a lap ahead of the claims,
\* or one or two more than such a position that has been claimed.
SlotWord ==
  \A i \in Slots :
    \/ Slot(seq[i]) = i /\ seq[i] < enqueue + Capacity
    \/ \E d \in {1, 2} :
         d <= seq[i] /\ seq[i] - d < enqueue /\ Slot(seq[i] - d) = i

\* The daemon's cursor, and what it has taken: positions before the batch are
\* completed, those of the batch are published and not completed, later ones are
\* not completed.
CursorWord ==
  /\ dequeue <= enqueue
  /\ Taken <= dequeue
  /\ \A q \in 0 .. dequeue - Taken - 1 : seq[Slot(q)] > q + 1
  /\ \A q \in dequeue - Taken .. dequeue - 1 : seq[Slot(q)] = q + 1
  /\ \A q \in dequeue .. enqueue - 1 : seq[Slot(q)] <= q + 1

\* The batch and process_batch's plan name the slots of those positions in order,
\* and the plan's statuses fit the records.
BatchShape ==
  /\ Len(staged) <= MaxBatch
  /\ dpc = "process" => staged # << >>
  /\ dpc \in {"write", "store"} => plan # << >>
  /\ dpc = "exited" => staged = << >>
  /\ dpc \notin {"write", "store"} =>
       \A k \in 1 .. Len(staged) : staged[k] = Slot(dequeue - Len(staged) + k - 1)
  /\ dpc \in {"write", "store"} =>
       \A k \in 1 .. Len(plan) :
         /\ plan[k].position = dequeue - Len(plan) + k - 1
         /\ plan[k].slot = Slot(plan[k].position)
         /\ plan[k].status = IF slot[plan[k].slot].empty THEN "invalid" ELSE "answered"
  /\ dpc = "store" => slot[plan[1].slot].status = plan[1].status

\* A thread with a request in flight finds its own record in its slot, and the
\* daemon's answer once the position is completed.
InFlight == {"tx_store", "tx_count", "wait", "respond"}
ContentOf(p) ==
  LET record == slot[Slot(pos[p])]
  IN pc[p] \in InFlight =>
       /\ ~record.empty
       /\ record.id = RequestId(p)
       /\ seq[Slot(pos[p])] = pos[p] + 2 => record.status = "answered"
Content == \A p \in Producers : ContentOf(p)

\* The conjunction is inductive: every handler of the gateway, the reclaimer and
\* the daemon preserves it.
IInv ==
  /\ TypeOK /\ ThreadWord /\ Distinct /\ ReclaimWord
  /\ SlotWord /\ CursorWord /\ BatchShape /\ Content
=============================================================================
