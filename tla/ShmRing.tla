------------------------------- MODULE ShmRing -------------------------------
(***************************************************************************)
(* The System V shared-memory ring between the Rust API gateway and the    *)
(* C++ inference daemon.                                                   *)
(*                                                                         *)
(* Producers are the gateway's blocking threads, each running at most one  *)
(* submit() at a time; the daemon is the only consumer; the reclaimer is   *)
(* the gateway's background thread that returns the slots of requests      *)
(* whose deadline passed.  Position q lives in slot q % slot_count, and    *)
(* the slot's sequence word says where in its life the position is:        *)
(*     q             free for, or claimed by, position q                   *)
(*     q + 1         published                                             *)
(*     q + 2         completed by the daemon, response unread              *)
(*     q + Capacity  released, i.e. free for position q + Capacity         *)
(*                                                                         *)
(* One action is one access to a shared word (or to the plain fields the   *)
(* sequence word guards), so every interleaving of the three parties on    *)
(* the shared segment is explored.  Calls that fail before they touch the  *)
(* segment (authentication, validation, a stopped daemon, an early         *)
(* deadline) change nothing and are not steps.                             *)
(***************************************************************************)
EXTENDS Integers, Sequences, FiniteSets

CONSTANTS
  Producers,     \* the gateway's request threads
  Capacity,      \* slot_count
  MaxBatch,      \* max_batch_size of the daemon's batcher
  ReadyModulus,  \* 2^w for the w-bit ready_count word
  MaxRequests,   \* bound: how many times submit() is called in all
  MayStop        \* whether the environment ever asks the daemon to stop

\* validate_layout and checked_size refuse fewer than four slots; poll_once
\* refuses an empty batch.  (Both also demand a power of two, which makes the
\* gateway's mask equal to the daemon's remainder.)
ASSUME RingAssumption ==
  /\ Capacity \in Nat /\ Capacity >= 4
  /\ MaxBatch \in Nat \ {0}
  /\ ReadyModulus \in Nat \ {0}
  /\ MaxRequests \in Nat
  /\ MayStop \in BOOLEAN

VARIABLES
  \* the shared segment
  enqueue, dequeue, ready, shutdown,
  seq,           \* seq[i]: the sequence word of slot i
  slot,          \* slot[i]: the plain fields of slot i
  \* the gateway's threads
  pc, pos,
  submitted,     \* number of submit() calls so far
  pending, outstanding,   \* the two vectors of the reclaimer, as sets
  scan,          \* what the current reclaimer tick has yet to look at
  \* the daemon
  dpc, stop, staged,
  plan,          \* process_batch's positions[] and statuses[], not yet stored
  draining       \* the main loop was left: the current batch is flush()'s

segmentVars == <<enqueue, dequeue, ready, shutdown, seq, slot>>
producerVars == <<pc, pos, submitted>>
reclaimVars == <<pending, outstanding, scan>>
daemonVars == <<dpc, stop, staged, plan, draining>>
vars == <<segmentVars, producerVars, reclaimVars, daemonVars>>

Slots == 0 .. Capacity - 1

\* slot_at / SharedSegment::slot: the slot of a position.
Slot(q) == q % Capacity

\* random_request_id draws an id no other request has; a thread's id is named
\* by the thread and the position its request claims.
NoRequest == << >>
RequestId(p) == <<p, pos[p]>>
RequestIds == {NoRequest} \cup (Producers \X Nat)

\* response_status: the zeroed initial word, the gateway's two sentinels, and
\* the daemon's answers.  200 and 503 are one value: the graph's launch and
\* synchronization decide between them and the ring does not tell them apart.
Statuses == {"zero", "incomplete", "cancelled", "answered", "invalid"}

\* Points at which a thread owns the slot of pos[p]: its SlotReservation is
\* Held, or Published and neither released nor handed off.
Unpublished == {"held", "tx_store", "cx_store"}
Published == {"tx_count", "cx_count", "wait", "respond", "release", "handoff", "push"}
Owning == Unpublished \cup Published
Reserving == {"reserve", "loadseq", "cas"}

\* initialize_segment.
Init ==
  /\ enqueue = 0 /\ dequeue = 0 /\ ready = 0 /\ shutdown = FALSE
  /\ seq = [i \in Slots |-> i]
  /\ slot = [i \in Slots |-> [empty |-> TRUE, id |-> NoRequest, status |-> "zero"]]
  /\ pc = [p \in Producers |-> "idle"]
  /\ pos = [p \in Producers |-> 0]
  /\ submitted = 0
  /\ pending = {} /\ outstanding = {} /\ scan = {}
  /\ dpc = "loop" /\ stop = FALSE /\ staged = << >> /\ plan = << >> /\ draining = FALSE
-----------------------------------------------------------------------------
(* Gateway::submit, one thread.  A test of the clock against the request's *)
(* absolute deadline may come out either way until it first says "passed", *)
(* after which submit() makes no other test.                               *)

Goto(p, label) == pc' = [pc EXCEPT ![p] = label]

\* The daemon has completed position q: wait_or_reclaim, handoff, run_reclaimer.
CompletedAtPublish(q) == seq[Slot(q)] > q                      \* fault: p + 1 will do
Completed(q) == seq[Slot(q)] = q + 2

\* The call, or the loop of reserve_slot, starts over; its position dies.
Forget(p, label) == Goto(p, label) /\ pos' = [pos EXCEPT ![p] = 0]

\* submit() up to the call of reserve_slot.
Submit(p) ==
  /\ pc[p] = "idle" /\ submitted < MaxRequests
  /\ ~shutdown
  /\ submitted' = submitted + 1
  /\ Goto(p, "reserve")
  /\ UNCHANGED <<segmentVars, pos, reclaimVars, daemonVars>>

\* The deadline check before reserve_slot and at the bottom of its loop.
ReserveTimeout(p) ==
  /\ pc[p] = "reserve"
  /\ Forget(p, "idle")                            \* Timeout, Full
  /\ UNCHANGED <<segmentVars, submitted, reclaimVars, daemonVars>>

\* reserve_slot, top of the loop: is_ready, then load enqueue.  (shutdown is
\* never cleared, so its read can be moved next to the read of enqueue.)
ReserveLoad(p) ==
  /\ pc[p] = "reserve"
  /\ \/ shutdown /\ Forget(p, "idle")             \* DaemonStopped
     \/ ~shutdown /\ pos' = [pos EXCEPT ![p] = enqueue] /\ Goto(p, "loadseq")
  /\ UNCHANGED <<segmentVars, submitted, reclaimVars, daemonVars>>

ReserveCompare(p) ==
  /\ pc[p] = "loadseq"
  /\ \/ seq[Slot(pos[p])] = pos[p] /\ Goto(p, "cas") /\ UNCHANGED pos
     \/ seq[Slot(pos[p])] < pos[p] /\ Forget(p, "idle")     \* Full
     \/ seq[Slot(pos[p])] > pos[p] /\ Forget(p, "reserve")
  /\ UNCHANGED <<segmentVars, submitted, reclaimVars, daemonVars>>

\* reserve_slot: compare_exchange_weak, which may also fail spuriously.
CasBlind(p) == TRUE                               \* fault: fetch_add for the exchange
CasMatches(p) == enqueue = pos[p]

ReserveCas(p) ==
  /\ pc[p] = "cas"
  /\ \/ /\ CasMatches(p)
        /\ enqueue' = enqueue + 1
        /\ Goto(p, "held")
        /\ UNCHANGED pos
     \/ /\ Forget(p, "reserve")
        /\ UNCHANGED enqueue
  /\ UNCHANGED <<dequeue, ready, shutdown, seq, slot, submitted, reclaimVars, daemonVars>>

\* serialize_transaction, the deadline check after it, and the plain fields of
\* publish_success: all of it private to the owner of the slot.
WriteRequest(p) ==
  /\ pc[p] = "held"
  /\ slot' = [slot EXCEPT ![Slot(pos[p])] =
       [empty |-> FALSE, id |-> RequestId(p), status |-> "incomplete"]]
  /\ Goto(p, "tx_store")
  /\ UNCHANGED <<enqueue, dequeue, ready, shutdown, seq, pos, submitted, reclaimVars, daemonVars>>

\* Serialization fails or panics, or the deadline has passed: dropping the Held
\* SlotReservation writes the plain fields of a cancellation record.
WriteCancel(p) ==
  /\ pc[p] = "held"
  /\ slot' = [slot EXCEPT ![Slot(pos[p])] =
       [empty |-> TRUE, id |-> RequestId(p), status |-> "cancelled"]]
  /\ Goto(p, "cx_store")
  /\ UNCHANGED <<enqueue, dequeue, ready, shutdown, seq, pos, submitted, reclaimVars, daemonVars>>

\* publish_success / publish_cancel: the release store of position + 1 ...
StoreSequence(p) ==
  /\ pc[p] \in {"tx_store", "cx_store"}
  /\ seq' = [seq EXCEPT ![Slot(pos[p])] = pos[p] + 1]
  /\ Goto(p, IF pc[p] = "tx_store" THEN "tx_count" ELSE "cx_count")
  /\ UNCHANGED <<enqueue, dequeue, ready, shutdown, slot, pos, submitted, reclaimVars, daemonVars>>

\* ... and, after it, the increment of ready_count.  A cancelled reservation
\* goes on to handoff, a published request waits for its response.
CountRequests(p) ==                               \* fault: cancellations go uncounted
  /\ pc[p] \in {"tx_count", "cx_count"}
  /\ ready' = IF pc[p] = "tx_count" THEN (ready + 1) % ReadyModulus ELSE ready
  /\ Goto(p, IF pc[p] = "tx_count" THEN "wait" ELSE "handoff")
  /\ UNCHANGED <<enqueue, dequeue, shutdown, seq, slot, pos, submitted, reclaimVars, daemonVars>>

CountReady(p) ==
  /\ pc[p] \in {"tx_count", "cx_count"}
  /\ ready' = (ready + 1) % ReadyModulus
  /\ Goto(p, IF pc[p] = "tx_count" THEN "wait" ELSE "handoff")
  /\ UNCHANGED <<enqueue, dequeue, shutdown, seq, slot, pos, submitted, reclaimVars, daemonVars>>

\* wait_or_reclaim: the daemon has completed the position ...
SeeResponse(p) ==
  /\ pc[p] = "wait" /\ Completed(pos[p])
  /\ Goto(p, "respond")
  /\ UNCHANGED <<segmentVars, pos, submitted, reclaimVars, daemonVars>>

\* ... or it has not and the deadline has passed.
TimeoutReleases(p) ==                             \* fault: a late slot is released at once
  /\ pc[p] = "wait" /\ ~Completed(pos[p])
  /\ Goto(p, "release")
  /\ UNCHANGED <<segmentVars, pos, submitted, reclaimVars, daemonVars>>
TimeoutAtShutdown(p) ==                           \* fault: the loop forgets its deadline
  /\ pc[p] = "wait" /\ ~Completed(pos[p]) /\ shutdown
  /\ Goto(p, "handoff")
  /\ UNCHANGED <<segmentVars, pos, submitted, reclaimVars, daemonVars>>

WaitTimeout(p) ==
  /\ pc[p] = "wait" /\ ~Completed(pos[p])
  /\ Goto(p, "handoff")
  /\ UNCHANGED <<segmentVars, pos, submitted, reclaimVars, daemonVars>>

\* read_response; whatever it finds, the slot is released next.
ReadResponse(p) ==
  /\ pc[p] = "respond"
  /\ Goto(p, "release")
  /\ UNCHANGED <<segmentVars, pos, submitted, reclaimVars, daemonVars>>

\* SlotReservation::release.
Release(p) ==
  /\ pc[p] = "release"
  /\ seq' = [seq EXCEPT ![Slot(pos[p])] = pos[p] + Capacity]
  /\ Forget(p, "idle")
  /\ UNCHANGED <<enqueue, dequeue, ready, shutdown, slot, submitted, reclaimVars, daemonVars>>

\* SlotReservation::handoff: look at the sequence once more.
HandoffDrops(p) ==                                \* fault: an unfinished slot is forgotten
  /\ pc[p] = "handoff"
  /\ \/ Completed(pos[p]) /\ Goto(p, "release") /\ UNCHANGED pos
     \/ ~Completed(pos[p]) /\ Forget(p, "idle")
  /\ UNCHANGED <<segmentVars, submitted, reclaimVars, daemonVars>>

Handoff(p) ==
  /\ pc[p] = "handoff"
  /\ Goto(p, IF Completed(pos[p]) THEN "release" ELSE "push")
  /\ UNCHANGED <<segmentVars, pos, submitted, reclaimVars, daemonVars>>

\* ReclaimQueue::push, under its mutex; a full queue makes the thread yield
\* and try again.
Push(p) ==
  /\ pc[p] = "push"
  /\ pos[p] \in pending \/ Cardinality(pending) < Capacity
  /\ pending' = pending \cup {pos[p]}
  /\ Forget(p, "idle")
  /\ UNCHANGED <<segmentVars, submitted, outstanding, scan, daemonVars>>
-----------------------------------------------------------------------------
(* run_reclaimer.                                                          *)

\* A tick begins by swapping the two vectors under the mutex.
ReclaimSwap ==
  /\ scan = {}
  /\ outstanding' = pending /\ pending' = outstanding
  /\ scan' = pending
  /\ UNCHANGED <<segmentVars, producerVars, daemonVars>>

\* It then looks at each outstanding position, in the vector's order, which
\* swap_remove and the order of the pushes leave open.
ScanKeeps(q) ==                                   \* fault: no swap_remove
  /\ q \in scan
  /\ scan' = scan \ {q}
  /\ seq' = IF Completed(q) THEN [seq EXCEPT ![Slot(q)] = q + Capacity] ELSE seq
  /\ UNCHANGED <<enqueue, dequeue, ready, shutdown, slot, producerVars, pending,
                 outstanding, daemonVars>>

ReclaimScan(q) ==
  /\ q \in scan
  /\ scan' = scan \ {q}
  /\ \/ /\ Completed(q)
        /\ seq' = [seq EXCEPT ![Slot(q)] = q + Capacity]
        /\ outstanding' = outstanding \ {q}
     \/ /\ ~Completed(q)
        /\ UNCHANGED <<seq, outstanding>>
  /\ UNCHANGED <<enqueue, dequeue, ready, shutdown, slot, producerVars, pending, daemonVars>>
-----------------------------------------------------------------------------
(* The daemon: main's loop, ContinuousBatcher and process_batch.  Whether  *)
(* a staged batch has passed its SLA deadline is open at each poll.        *)

\* SIGINT or SIGTERM.
Signal ==
  /\ MayStop /\ ~stop
  /\ stop' = TRUE
  /\ UNCHANGED <<segmentVars, producerVars, reclaimVars, dpc, staged, plan, draining>>

\* An operator sets the shutdown word of the segment.
RequestShutdown ==
  /\ MayStop /\ ~shutdown
  /\ shutdown' = TRUE
  /\ UNCHANGED <<enqueue, dequeue, ready, seq, slot, producerVars, reclaimVars, daemonVars>>

\* The condition of main's loop.
DaemonPoll ==
  /\ dpc = "loop"
  /\ ~stop /\ ~shutdown
  /\ dpc' = "consume"
  /\ UNCHANGED <<segmentVars, producerVars, reclaimVars, stop, staged, plan, draining>>

\* Leaving the loop: store shutdown, flush() what is staged.
StopUnflushed ==                                  \* fault: no flush()
  /\ dpc = "loop"
  /\ stop \/ shutdown
  /\ shutdown' = TRUE /\ draining' = TRUE
  /\ dpc' = "exited"
  /\ UNCHANGED <<enqueue, dequeue, ready, seq, slot, producerVars, reclaimVars,
                 stop, staged, plan>>

DaemonStop ==
  /\ dpc = "loop"
  /\ stop \/ shutdown
  /\ shutdown' = TRUE /\ draining' = TRUE
  /\ dpc' = IF staged = << >> THEN "exited" ELSE "process"
  /\ UNCHANGED <<enqueue, dequeue, ready, seq, slot, producerVars, reclaimVars,
                 stop, staged, plan>>

\* try_consume compares the slot's sequence with dequeue + 1.
ReadyIfClaimed == seq[Slot(dequeue)] >= dequeue /\ dequeue < enqueue   \* fault: unpublished
NextReady == seq[Slot(dequeue)] = dequeue + 1

\* poll_once and try_consume: take the next published position.  The daemon is
\* the only consumer, so its compare-exchange on dequeue cannot fail.
Consume ==
  /\ dpc = "consume"
  /\ Len(staged) < MaxBatch /\ NextReady
  /\ dequeue' = dequeue + 1
  /\ staged' = Append(staged, Slot(dequeue))
  /\ dpc' = "decrement"
  /\ UNCHANGED <<enqueue, ready, shutdown, seq, slot, producerVars, reclaimVars,
                 stop, plan, draining>>

SubtractOne(n) == (n - 1) % ReadyModulus

DecrementReady ==
  /\ dpc = "decrement"
  /\ ready' = SubtractOne(ready)
  /\ dpc' = "consume"
  /\ UNCHANGED <<enqueue, dequeue, shutdown, seq, slot, producerVars, reclaimVars,
                 stop, staged, plan, draining>>

\* try_consume finds nothing: the next position is not published yet.
NothingReady == seq[Slot(dequeue)] < dequeue + 1

\* poll_once: nothing more to take and the batch is empty or still young.
PollAgain ==
  /\ dpc = "consume"
  /\ Len(staged) < MaxBatch /\ NothingReady
  /\ dpc' = "loop"
  /\ UNCHANGED <<segmentVars, producerVars, reclaimVars, stop, staged, plan, draining>>

\* poll_once: a full batch, or a nonempty one whose deadline has passed.
RunFullBatch ==
  /\ dpc = "consume"
  /\ Len(staged) = MaxBatch
  /\ dpc' = "process"
  /\ UNCHANGED <<segmentVars, producerVars, reclaimVars, stop, staged, plan, draining>>

RunOverdueBatch ==
  /\ dpc = "consume"
  /\ staged # << >> /\ Len(staged) < MaxBatch /\ NothingReady
  /\ dpc' = "process"
  /\ UNCHANGED <<segmentVars, producerVars, reclaimVars, stop, staged, plan, draining>>

\* decode_transaction: a nonempty payload.  The gateway's payload always
\* verifies, and carries the request id that its owner wrote next to it.
Decodes(i) == ~slot[i].empty

\* process_batch up to the stores: a status for each staged slot, and its
\* position read back from the slot's sequence word.
ProcessBatch ==
  /\ dpc = "process"
  /\ plan' = [k \in 1 .. Len(staged) |->
       [slot |-> staged[k], position |-> seq[staged[k]] - 1,
        status |-> IF Decodes(staged[k]) THEN "answered" ELSE "invalid"]]
  /\ dpc' = "write"
  /\ UNCHANGED <<segmentVars, producerVars, reclaimVars, stop, staged, draining>>

\* SharedRing::complete: the response fields ...
CompleteWrite ==
  /\ dpc = "write"
  /\ slot' = [slot EXCEPT ![plan[1].slot].status = plan[1].status]
  /\ dpc' = "store"
  /\ UNCHANGED <<enqueue, dequeue, ready, shutdown, seq, producerVars, reclaimVars,
                 stop, staged, plan, draining>>

\* ... then the release store of position + 2.  After the last one the batcher
\* is empty again, and after flush() the daemon exits.
CompleteStore ==
  /\ dpc = "store"
  /\ seq' = [seq EXCEPT ![plan[1].slot] = plan[1].position + 2]
  /\ plan' = Tail(plan)
  /\ \/ /\ Len(plan) > 1
        /\ dpc' = "write"
        /\ UNCHANGED staged
     \/ /\ Len(plan) = 1
        /\ staged' = << >>
        /\ dpc' = IF draining THEN "exited" ELSE "loop"
  /\ UNCHANGED <<enqueue, dequeue, ready, shutdown, slot, producerVars, reclaimVars,
                 stop, draining>>
-----------------------------------------------------------------------------
Thread(p) ==
  \/ ReserveTimeout(p) \/ ReserveLoad(p) \/ ReserveCompare(p) \/ ReserveCas(p)
  \/ WriteRequest(p) \/ WriteCancel(p) \/ StoreSequence(p) \/ CountReady(p)
  \/ SeeResponse(p) \/ WaitTimeout(p) \/ ReadResponse(p) \/ Release(p)
  \/ Handoff(p) \/ Push(p)

Reclaimer == ReclaimSwap \/ \E q \in scan : ReclaimScan(q)

Daemon ==
  \/ DaemonPoll \/ DaemonStop \/ Consume \/ DecrementReady
  \/ PollAgain \/ RunFullBatch \/ RunOverdueBatch
  \/ ProcessBatch \/ CompleteWrite \/ CompleteStore

Next ==
  \/ \E p \in Producers : Submit(p) \/ Thread(p)
  \/ Reclaimer
  \/ Daemon
  \/ Signal \/ RequestShutdown

Spec == Init /\ [][Next]_vars

\* Every gateway thread is scheduled and the reclaimer keeps ticking.  The
\* clock advances: a thread that goes round the reserve loop for ever finds its
\* deadline passed.  Nothing forces another submit(), a signal or a shutdown.
GatewayFairness ==
  /\ \A p \in Producers : WF_vars(Thread(p)) /\ SF_vars(ReserveTimeout(p))
  /\ WF_vars(ReclaimSwap) /\ WF_vars(\E q \in scan : ReclaimScan(q))

\* The daemon is scheduled, and a batch polled for ever becomes overdue.
DaemonFairness == WF_vars(Daemon) /\ SF_vars(RunOverdueBatch)

\* The gateway alone is known to run: the daemon may hang at any point.
GatewaySpec == Spec /\ GatewayFairness
-----------------------------------------------------------------------------
(* Properties.                                                             *)

Labels == {"idle"} \cup Reserving \cup Owning
DaemonLabels == {"loop", "consume", "decrement", "process", "write", "store", "exited"}
SlotFields == [empty : BOOLEAN, id : RequestIds, status : Statuses]
PlanEntries == [slot : Slots, position : Nat, status : Statuses]

\* Every word and every local stays within its type; in particular no position
\* handed to the reclaimer, staged or planned leaves the range of its kind.
TypeOK ==
  /\ enqueue \in Nat /\ dequeue \in Nat /\ ready \in 0 .. ReadyModulus - 1
  /\ shutdown \in BOOLEAN
  /\ seq \in [Slots -> Nat] /\ slot \in [Slots -> SlotFields]
  /\ pc \in [Producers -> Labels] /\ pos \in [Producers -> Nat]
  /\ submitted \in Nat
  /\ pending \in SUBSET Nat /\ outstanding \in SUBSET Nat /\ scan \in SUBSET Nat
  /\ dpc \in DaemonLabels /\ stop \in BOOLEAN /\ draining \in BOOLEAN
  /\ staged \in Seq(Slots) /\ plan \in Seq(PlanEntries)

\* A slot has at most one owner on the gateway's side: two threads, or a thread
\* and the reclaimer, never hold positions of the same slot, and the reclaimer
\* holds a slot once.  Two owners would overwrite each other's request or release
\* a slot twice (SlotReservation, ReclaimQueue).
OneOwner ==
  LET Held == {<<p, pos[p]>> : p \in {r \in Producers : pc[r] \in Owning}}
  IN /\ \A a, b \in Held : Slot(a[2]) = Slot(b[2]) => a = b
     /\ \A a \in Held, q \in pending \cup outstanding : Slot(a[2]) # Slot(q)
     /\ \A q, r \in pending \cup outstanding : Slot(q) = Slot(r) => q = r
     /\ pending \cap outstanding = {}

\* When a thread reads its response, the slot still carries its own request id
\* and a status the daemon gave to a decoded transaction: read_response's
\* mismatch, incomplete and unknown-status errors cannot happen, and a request
\* that was published is never answered 422 or as a cancellation.
ResponseIsOwn ==
  \A p \in Producers : pc[p] = "respond" =>
    /\ slot[Slot(pos[p])].id = RequestId(p)
    /\ slot[Slot(pos[p])].status = "answered"

\* process_batch recovers each position from its slot's sequence word: the
\* staged slots are the slots of the last positions taken from the ring, in
\* order, and none of their sequence words has moved since (main.cpp positions[]).
StagedPositionsHold ==
  dpc \notin {"write", "store"} =>
    \A k \in DOMAIN staged :
      LET q == dequeue - Len(staged) + k - 1
      IN staged[k] = Slot(q) /\ seq[staged[k]] = q + 1

\* The consumer never meets a sequence word ahead of its cursor, the case in
\* which try_consume would reload dequeue forever, and never passes enqueue.
ConsumerNotOvertaken == dequeue <= enqueue /\ seq[Slot(dequeue)] <= dequeue + 1

\* ready_count is the number of published, unconsumed positions, give or take
\* the increments and the decrement still to be made: it may wrap below zero
\* for a moment, because both counters are updated after the claim they count,
\* but it never drifts.
ReadyCountAccurate ==
  LET queued == {q \in dequeue .. enqueue - 1 : seq[Slot(q)] = q + 1}
      uncounted == {p \in Producers : pc[p] \in {"tx_count", "cx_count"}}
      taken == IF dpc = "decrement" THEN 1 ELSE 0
  IN ready = (Cardinality(queued) - Cardinality(uncounted) + taken) % ReadyModulus

\* The reclaimer's two vectors never hold more than slot_count positions
\* together, so neither grows beyond the capacity it was allocated with and a
\* thread that hands its slot off is never made to spin in ReclaimQueue::push.
ReclaimBounded ==
  /\ Cardinality(pending) + Cardinality(outstanding) <= Capacity
  /\ \A p \in Producers : pc[p] = "push" => Cardinality(pending) < Capacity

\* A daemon that has left its loop cleanly has completed everything it took from
\* the ring: flush() strands no staged request.
NothingStagedAtExit ==
  dpc = "exited" => \A q \in 0 .. dequeue - 1 : seq[Slot(q)] # q + 1

\* The life of position q, read off the segment alone: the slot's sequence word
\* and the two cursors.
Phase(q) ==
  LET n == seq[Slot(q)]
  IN CASE q >= enqueue -> "unclaimed"
       [] q < enqueue /\ n <= q -> "held"
       [] q < enqueue /\ n = q + 1 /\ dequeue <= q -> "queued"
       [] q < enqueue /\ n = q + 1 /\ dequeue > q -> "staged"
       [] q < enqueue /\ n = q + 2 -> "done"
       [] OTHER -> "released"

Lifecycle == INSTANCE RingLifecycle
  WITH Positions <- MaxRequests, phase <- [q \in 0 .. MaxRequests - 1 |-> Phase(q)]

\* The ring implements the life cycle of RingLifecycle: whatever the threads, the
\* reclaimer and the daemon do, and however requests fail or time out, each
\* position is claimed in order once its slot is free, published, taken in order,
\* completed and released, each exactly once.
ImplementsLifecycle == Lifecycle!Spec

\* Every submit() returns, even if the daemon never runs again: each loop of the
\* gateway is cut by the deadline and handing a slot off never blocks.
SubmitReturns == \A p \in Producers : pc[p] # "idle" ~> pc[p] = "idle"

\* As long as the daemon runs and is not told to stop, every claimed position is
\* released in the end, whatever became of its request: serialization failed, it
\* was answered, or it timed out and went to the reclaimer.
ClaimedIsReleased ==
  DaemonFairness =>
    \A q \in 0 .. MaxRequests - 1 :
      enqueue > q ~> (seq[Slot(q)] >= q + Capacity \/ shutdown \/ stop)
=============================================================================
