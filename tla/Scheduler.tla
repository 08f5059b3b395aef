------------------------------ MODULE Scheduler ------------------------------
(***************************************************************************)
(* The gateway's continuous batcher, serving_plane/scheduler.  Concurrent  *)
(* callers of Submit put an item in a bounded channel and wait in a select;*)
(* one goroutine, run, collects items into batches, classifies each item   *)
(* (dispatch), calls the handler and replies.  A caller that gives up and  *)
(* the goroutine that picks the item up race for one compare-and-swap on   *)
(* the item's state.                                                       *)
(*                                                                         *)
(* One element of Items is one call of Submit with its item.  Every read   *)
(* of a channel, compare-and-swap and send is a step of its own, so a      *)
(* caller may act between any two of them.  Time is a coarse clock that    *)
(* may tick between any two steps; a context is done when its deadline has *)
(* come or when it was cancelled.                                          *)
(***************************************************************************)
EXTENDS Integers, Sequences, FiniteSets

CONSTANTS
  Items,       \* the calls of Submit
  MaxQueue,    \* capacity of the queue channel
  MaxBatch,    \* largest batch
  MaxDelay,    \* clock units an item may wait for a batch
  MaxClock,    \* bound: the clock stops here
  Unbounded,   \* the deadline of a context that has none
  Deadlines,   \* the deadlines contexts may have
  MaxCancels   \* bound: contexts cancelled in a behaviour

ASSUME SchedulerAssumption ==
  /\ MaxQueue \in Nat \ {0} /\ MaxBatch \in Nat \ {0} /\ MaxDelay \in Nat \ {0}
  /\ MaxClock \in Nat /\ MaxClock >= MaxDelay
  /\ Unbounded \notin Int
  /\ Deadlines \subseteq Nat \cup {Unbounded}
  /\ MaxCancels \in Nat

VARIABLES
  closed,      \* Close was called: the queue channel is closed
  queue,       \* contents of the queue channel
  pc,          \* where each call of Submit is
  outcome,     \* what each call returned
  state,       \* item.state
  reply,       \* contents of item.reply, a channel of capacity one
  dispatched,  \* items whose dispatched channel is closed
  expiry,      \* item.queueExpiry
  deadline,    \* the deadline of each caller's context
  cancelled,   \* calls whose context was cancelled
  clock,
  run,         \* the run goroutine: where it is and its local variables
  metrics,     \* the counters behind Metrics
  admitted,    \* history: the items in the order they entered the queue
  handled      \* history: the items in the order they reached the handler

callerVars == <<pc, outcome>>
itemVars == <<state, reply, dispatched, expiry>>
contextVars == <<deadline, cancelled, clock>>
historyVars == <<metrics, admitted, handled>>
vars == <<closed, queue, callerVars, itemVars, contextVars, run, historyVars>>

\* What a call of Submit returns.  A value names the item it was computed for.
Value(i) == [kind |-> "value", of |-> i]
Error(k) == [kind |-> k]
ErrorKinds == {"none", "failed", "context", "full", "closed", "delay"}
Results == [kind : {"value"}, of : Items] \cup [kind : ErrorKinds]

Due(d) == d # Unbounded /\ clock >= d

\* ctx.Err() # nil
ContextDone(i) == i \in cancelled \/ Due(deadline[i])

\* Where a call of Submit may be, and the local variables of run and dispatch.
Places == {"idle", "admit", "select", "await", "returned"}
Locals ==
  [at : {"next", "collect", "classify", "refuse", "announce", "handle", "reply", "exit"},
   batch : Seq(Items), active : Seq(Items), results : Seq(Items),
   cursor : 1..(MaxBatch + 1), now : 0..MaxClock, queueOpen : BOOLEAN,
   refusal : {"none", "context", "delay"}]

TypeOK ==
  /\ closed \in BOOLEAN
  /\ queue \in Seq(Items) /\ Len(queue) <= MaxQueue
  /\ pc \in [Items -> Places]
  /\ outcome \in [Items -> Results]
  /\ state \in [Items -> {"queued", "dispatched", "expired"}]
  /\ reply \in [Items -> Seq(Results)] /\ \A i \in Items : Len(reply[i]) <= 1
  /\ dispatched \subseteq Items
  /\ expiry \in [Items -> 0..MaxClock]
  /\ deadline \in [Items -> Deadlines]
  /\ cancelled \subseteq Items
  /\ clock \in 0..MaxClock
  /\ run \in Locals
  /\ Len(run.batch) <= MaxBatch /\ Len(run.active) <= Len(run.batch)
  /\ metrics \in [queueCount : Nat, batchCount : Nat, batchItems : Nat]
  /\ admitted \in Seq(Items) /\ handled \in Seq(Items)

\* run between two batches.  The fields: batch is the batch being collected and
\* dispatched, active the items of it that go to the handler, cursor the index
\* of dispatch's loops, now the time dispatch read, queueOpen the flag of run,
\* refusal the error about to be replied, and results what the handler
\* returned, empty when it failed.
Between(place, open) ==
  [at |-> place, batch |-> <<>>, active |-> <<>>, cursor |-> 1, now |-> 0,
   queueOpen |-> open, refusal |-> "none", results |-> <<>>]

Init ==
  /\ closed = FALSE
  /\ queue = <<>>
  /\ pc = [i \in Items |-> "idle"]
  /\ outcome = [i \in Items |-> Error("none")]
  /\ state = [i \in Items |-> "queued"]
  /\ reply = [i \in Items |-> <<>>]
  /\ dispatched = {}
  /\ expiry = [i \in Items |-> 0]
  /\ deadline \in [Items -> Deadlines]
  /\ cancelled = {}
  /\ clock = 0
  /\ run = Between("next", TRUE)
  /\ metrics = [queueCount |-> 0, batchCount |-> 0, batchItems |-> 0]
  /\ admitted = <<>> /\ handled = <<>>

-----------------------------------------------------------------------------
(* The callers.                                                            *)

Return(i, r) ==
  /\ pc' = [pc EXCEPT ![i] = "returned"]
  /\ outcome' = [outcome EXCEPT ![i] = r]

\* The caller's half of the race for the item.
ExpireIfQueued(i) ==
  IF state[i] = "queued" THEN [state EXCEPT ![i] = "expired"] ELSE state

\* Submit up to the lock: a context that is done returns at once.
Begin(i) ==
  /\ pc[i] = "idle"
  /\ clock + MaxDelay <= MaxClock
  /\ \/ /\ ContextDone(i)
        /\ Return(i, Error("context"))
        /\ UNCHANGED expiry
     \/ /\ ~ContextDone(i)
        /\ expiry' = [expiry EXCEPT ![i] = clock + MaxDelay]
        /\ pc' = [pc EXCEPT ![i] = "admit"]
        /\ UNCHANGED outcome
  /\ UNCHANGED <<closed, queue, state, reply, dispatched, contextVars, run, historyVars>>

\* A send on the queue channel would block.
Full == Len(queue) >= MaxQueue

\* The section under the read lock: closed, full, or in the queue.
Admit(i) ==
  /\ pc[i] = "admit"
  /\ \/ /\ closed
        /\ Return(i, Error("closed"))
        /\ UNCHANGED <<queue, admitted>>
     \/ /\ ~closed /\ Full
        /\ Return(i, Error("full"))
        /\ UNCHANGED <<queue, admitted>>
     \/ /\ ~closed /\ ~Full
        /\ queue' = Append(queue, i)
        /\ admitted' = Append(admitted, i)
        /\ pc' = [pc EXCEPT ![i] = "select"]
        /\ UNCHANGED outcome
  /\ UNCHANGED <<closed, itemVars, contextVars, run, metrics, handled>>

\* A result is there: Submit's select and waitForResult return it.
TakeReply(i) ==
  /\ pc[i] \in {"select", "await"}
  /\ reply[i] # <<>>
  /\ Return(i, Head(reply[i]))
  /\ reply' = [reply EXCEPT ![i] = Tail(@)]
  /\ UNCHANGED <<closed, queue, state, dispatched, expiry, contextVars, run, historyVars>>

\* The dispatched channel is closed: on to waitForResult.
SeeDispatched(i) ==
  /\ pc[i] = "select"
  /\ i \in dispatched
  /\ pc' = [pc EXCEPT ![i] = "await"]
  /\ UNCHANGED <<closed, queue, outcome, itemVars, contextVars, run, historyVars>>

\* A fault: a timer that loses the race returns ErrQueueDelay all the same.
TimerIgnoresRace(i) ==
  /\ pc[i] = "select"
  /\ clock >= expiry[i]
  /\ state' = ExpireIfQueued(i)
  /\ Return(i, Error("delay"))
  /\ UNCHANGED <<closed, queue, reply, dispatched, expiry, contextVars, run, historyVars>>

\* The queue timer fires: the caller withdraws the item, unless dispatch
\* already decided about it.
TimerFires(i) ==
  /\ pc[i] = "select"
  /\ clock >= expiry[i]
  /\ state' = ExpireIfQueued(i)
  /\ \/ state[i] = "queued" /\ Return(i, Error("delay"))
     \/ /\ state[i] # "queued"
        /\ pc' = [pc EXCEPT ![i] = "await"]
        /\ UNCHANGED outcome
  /\ UNCHANGED <<closed, queue, reply, dispatched, expiry, contextVars, run, historyVars>>

\* ctx.Done() in Submit's select: withdraw the item if that is still possible.
GiveUp(i) ==
  /\ pc[i] = "select"
  /\ ContextDone(i)
  /\ state' = ExpireIfQueued(i)
  /\ Return(i, Error("context"))
  /\ UNCHANGED <<closed, queue, reply, dispatched, expiry, contextVars, run, historyVars>>

\* ctx.Done() in waitForResult.
GiveUpAwaiting(i) ==
  /\ pc[i] = "await"
  /\ ContextDone(i)
  /\ Return(i, Error("context"))
  /\ UNCHANGED <<closed, queue, itemVars, contextVars, run, historyVars>>

\* s.done is closed: the inner select returns the result if there is one.
SeeDone(i) ==
  /\ pc[i] = "select"
  /\ run.at = "exit"
  /\ Return(i, IF reply[i] # <<>> THEN Head(reply[i]) ELSE Error("closed"))
  /\ reply' = [reply EXCEPT ![i] = <<>>]
  /\ UNCHANGED <<closed, queue, state, dispatched, expiry, contextVars, run, historyVars>>

\* Every step of a call that has begun.
Submit(i) ==
  \/ Admit(i) \/ TakeReply(i) \/ SeeDispatched(i) \/ TimerFires(i)
  \/ GiveUp(i) \/ GiveUpAwaiting(i) \/ SeeDone(i)

-----------------------------------------------------------------------------
(* The run goroutine.                                                      *)

\* A fault: a closed channel counts as drained with items left in it.
DrainedAtClose == closed

\* A fault: a closed channel is waited on as an empty one is.
DrainedUnnoticed == FALSE

\* A receive from the queue channel reports that it is closed.
Drained == closed /\ queue = <<>>

\* nextQueued: the next item nobody withdrew starts a batch; a closed and
\* drained queue ends the goroutine.
NextQueued ==
  /\ run.at = "next"
  /\ \/ /\ Drained
        /\ run' = [run EXCEPT !.at = "exit"]
        /\ UNCHANGED queue
     \/ /\ ~Drained /\ queue # <<>>
        /\ queue' = Tail(queue)
        /\ run' = IF state[Head(queue)] = "queued"
                    THEN [run EXCEPT !.at = "collect", !.batch = <<Head(queue)>>]
                    ELSE run
  /\ UNCHANGED <<closed, callerVars, itemVars, contextVars, historyVars>>

\* The collect loop ends: dispatch starts, and reads the clock once for the
\* whole batch.
StartDispatch(open) ==
  run' = [run EXCEPT !.at = "classify", !.now = clock, !.queueOpen = open]

\* A fault: an item received goes to the front of the batch.
JoinInFront(i) == <<i>> \o run.batch

\* The item received joins the batch.
Join(i) == Append(run.batch, i)

\* The collect loop.  A full batch ends it; so does the timer, which
\* collectionWait sets a guard interval ahead of the earliest expiry, so that it
\* may go off at any time; so does a closed and drained queue, for good.  An
\* item received joins the batch unless it was withdrawn.
Collect ==
  /\ run.at = "collect"
  /\ \/ StartDispatch(TRUE) /\ UNCHANGED queue
     \/ Len(run.batch) < MaxBatch /\ Drained /\ StartDispatch(FALSE) /\ UNCHANGED queue
     \/ /\ Len(run.batch) < MaxBatch /\ ~Drained /\ queue # <<>>
        /\ queue' = Tail(queue)
        /\ run' = IF state[Head(queue)] = "queued"
                    THEN [run EXCEPT !.batch = Join(Head(queue))] ELSE run
  /\ UNCHANGED <<closed, callerVars, itemVars, contextVars, historyVars>>

\* The error dispatch has for an item before it tries to dispatch it.
Refusal(i) ==
  IF ContextDone(i) THEN "context"
  ELSE IF run.now >= expiry[i] THEN "delay"
  ELSE "none"

\* A fault: dispatch takes the item without a compare-and-swap.
WonBlind(i) == TRUE

\* dispatch's compare-and-swap from queued succeeds: the caller did not
\* withdraw the item.
Won(i) == state[i] = "queued"

\* The compare-and-swap of one item of the batch, from queued to expired when
\* there is an error for it and to dispatched otherwise; lost, the item is
\* skipped.  The read of the context just before belongs to the step: a context
\* done between the two is one done right after it.
Classify ==
  /\ run.at = "classify"
  /\ run.cursor <= Len(run.batch)
  /\ LET i == run.batch[run.cursor] IN
       \/ /\ Won(i) /\ Refusal(i) # "none"
          /\ state' = [state EXCEPT ![i] = "expired"]
          /\ run' = [run EXCEPT !.at = "refuse", !.refusal = Refusal(i)]
       \/ /\ Won(i) /\ Refusal(i) = "none"
          /\ state' = [state EXCEPT ![i] = "dispatched"]
          /\ run' = [run EXCEPT !.at = "announce"]
       \/ /\ ~Won(i)
          /\ run' = [run EXCEPT !.cursor = @ + 1]
          /\ UNCHANGED state
  /\ UNCHANGED <<closed, queue, callerVars, reply, dispatched, expiry, contextVars,
                 historyVars>>

\* A send on a reply channel, which blocks while the channel is full.
Send(i, r) ==
  /\ Len(reply[i]) < 1
  /\ reply' = [reply EXCEPT ![i] = Append(@, r)]

\* A fault: the item is expired and nobody tells the caller.
RefuseSilently ==
  /\ run.at = "refuse"
  /\ run' = [run EXCEPT !.at = "classify", !.cursor = @ + 1]
  /\ UNCHANGED <<closed, queue, callerVars, itemVars, contextVars, historyVars>>

\* The error goes to the item dispatch has just expired.
Refuse ==
  /\ run.at = "refuse"
  /\ Send(run.batch[run.cursor], Error(run.refusal))
  /\ run' = [run EXCEPT !.at = "classify", !.cursor = @ + 1]
  /\ UNCHANGED <<closed, queue, callerVars, state, dispatched, expiry, contextVars,
                 historyVars>>

\* observeQueue.
ObserveQueue == [metrics EXCEPT !.queueCount = @ + 1]

\* close(it.dispatched), observeQueue, and the item joins the handler's batch.
Announce ==
  /\ run.at = "announce"
  /\ LET i == run.batch[run.cursor] IN
       /\ dispatched' = dispatched \cup {i}
       /\ run' = [run EXCEPT !.at = "classify", !.cursor = @ + 1,
                             !.active = Append(@, i)]
  /\ metrics' = ObserveQueue
  /\ UNCHANGED <<closed, queue, callerVars, state, reply, expiry, contextVars,
                 admitted, handled>>

\* dispatch returns to run, and its local variables are gone; run returns too,
\* closing s.done, when it saw the queue closed.
LeaveDispatch ==
  run' = Between(IF run.queueOpen THEN "next" ELSE "exit", run.queueOpen)

\* observeBatch.
ObserveBatch(size) ==
  [metrics EXCEPT !.batchCount = @ + 1, !.batchItems = @ + size]

\* The end of the classification loop: nothing to do, or observeBatch and the
\* call of the handler.
EndClassify ==
  /\ run.at = "classify"
  /\ run.cursor > Len(run.batch)
  /\ \/ /\ run.active = <<>>
        /\ LeaveDispatch
        /\ UNCHANGED <<metrics, handled>>
     \/ /\ run.active # <<>>
        /\ run' = [run EXCEPT !.at = "handle", !.cursor = 1]
        /\ metrics' = ObserveBatch(Len(run.active))
        /\ handled' = handled \o run.active
  /\ UNCHANGED <<closed, queue, callerVars, itemVars, contextVars, admitted>>

\* A fault: the handler runs under the first caller's own deadline.
FirstContext(items) == [metadata |-> items[1], deadline |-> deadline[items[1]]]

\* The context of the handler: the values of the first item's context, detached
\* from its cancellation, and the latest deadline when every item has one.
BatchContext(items) ==
  LET ds == {deadline[items[k]] : k \in 1..Len(items)} IN
    [metadata |-> items[1],
     deadline |-> IF Unbounded \in ds THEN Unbounded
                  ELSE CHOOSE d \in ds : \A e \in ds : e <= d]

\* A fault: more results than items are taken for one result per item.
EnoughResults(r) == Len(r) >= Len(run.active)

\* len(results) = len(active)
OneEach(r) == Len(r) = Len(run.active)

\* The handler returns an error, or results: those of the batch in its order, or
\* one too few or too many, which dispatch turns into an error.
Handle ==
  /\ run.at = "handle"
  /\ \E r \in {run.active, Tail(run.active), <<Head(run.active)>> \o run.active},
        err \in BOOLEAN :
       run' = [run EXCEPT !.at = "reply",
                          !.results = IF ~err /\ OneEach(r) THEN r ELSE <<>>]
  /\ UNCHANGED <<closed, queue, callerVars, itemVars, contextVars, historyVars>>

\* What the k-th item of the handler's batch is told.
ResultFor(k) ==
  IF ContextDone(run.active[k]) THEN Error("context")
  ELSE IF run.results = <<>> THEN Error("failed")
  ELSE Value(run.results[k])

\* One iteration of the reply loop; after the last, back to run.
Reply ==
  /\ run.at = "reply"
  /\ \/ /\ run.cursor <= Len(run.active)
        /\ Send(run.active[run.cursor], ResultFor(run.cursor))
        /\ run' = [run EXCEPT !.cursor = @ + 1]
     \/ run.cursor > Len(run.active) /\ LeaveDispatch /\ UNCHANGED reply
  /\ UNCHANGED <<closed, queue, callerVars, state, dispatched, expiry, contextVars,
                 historyVars>>

Run ==
  \/ NextQueued \/ Collect \/ Classify \/ Refuse
  \/ Announce \/ EndClassify \/ Handle \/ Reply

-----------------------------------------------------------------------------
(* The environment.                                                        *)

\* Close, under the write lock; sync.Once makes a second call a no-op.
Close ==
  /\ ~closed
  /\ closed' = TRUE
  /\ UNCHANGED <<queue, callerVars, itemVars, contextVars, run, historyVars>>

\* The owner of a context cancels it.
Cancel(i) ==
  /\ i \notin cancelled /\ Cardinality(cancelled) < MaxCancels
  /\ pc[i] # "returned"
  /\ cancelled' = cancelled \cup {i}
  /\ UNCHANGED <<closed, queue, callerVars, itemVars, deadline, clock, run, historyVars>>

Tick ==
  /\ clock < MaxClock
  /\ clock' = clock + 1
  /\ UNCHANGED <<closed, queue, callerVars, itemVars, deadline, cancelled, run, historyVars>>

Next ==
  \/ \E i \in Items : Begin(i) \/ Submit(i) \/ Cancel(i)
  \/ Run
  \/ Close
  \/ Tick

Spec == Init /\ [][Next]_vars

\* Goroutines are scheduled, time passes, and the handler returns: the gateway
\* runs it under InferenceTimeout.  No call has to be made, closed or cancelled.
Fairness ==
  /\ \A i \in Items : WF_vars(Submit(i))
  /\ WF_vars(Run)
  /\ WF_vars(Tick)

-----------------------------------------------------------------------------
(* Properties.                                                             *)

Elements(s) == {s[k] : k \in 1..Len(s)}

\* The items dispatch has taken the decision about and not yet answered.
Owed ==
  CASE run.at = "refuse"   -> {run.batch[run.cursor]} \cup Elements(run.active)
    [] run.at = "announce" -> {run.batch[run.cursor]} \cup Elements(run.active)
    [] run.at \in {"classify", "handle"} -> Elements(run.active)
    [] run.at = "reply"    -> {run.active[k] : k \in run.cursor..Len(run.active)}
    [] OTHER           -> {}

\* No item is answered twice.  An item dispatch still has to answer has an
\* empty reply channel and a caller that is still waiting or gave up with its
\* context, so the sends of dispatch (scheduler.go lines 235, 241 and 285-293)
\* never block the goroutine that serves every other caller.
AnsweredOnce ==
  /\ TypeOK
  /\ \A i \in Owed : reply[i] = <<>> /\ outcome[i].kind \in {"none", "context"}

\* A caller that got a value got the one the handler computed for its own item,
\* although items of the collected batch may be missing from the handler's and
\* the handler may return a wrong number of results.
ValueIsOwn ==
  \A i \in Items :
    outcome[i].kind = "value" => outcome[i].of = i /\ i \in Elements(handled)

\* Close drains what was admitted: ErrClosed is never the answer to an item
\* that entered the queue, although Submit's select has a case for it.
AdmittedNotClosed ==
  \A i \in Elements(admitted) : outcome[i].kind # "closed"

\* Items reach the handler in the order they entered the queue, at most once
\* each, across batches and with withdrawn items left out.  A caller told that its
\* item was not served (queue full, closed, or delayed too long in the queue) can
\* retry: the item never reaches the handler, before or after the answer.  This is
\* what Submit's comment says of ErrQueueDelay.
HandledInOrder ==
  /\ \E f \in [1..Len(handled) -> 1..Len(admitted)] :
       /\ \A k \in 1..Len(handled) : handled[k] = admitted[f[k]]
       /\ \A k \in 1..(Len(handled) - 1) : f[k] < f[k + 1]
  /\ \A i \in Items :
       outcome[i].kind \in {"full", "closed", "delay"} =>
         i \notin Elements(handled) /\ i \notin Owed

\* The handler's context ends only when the work is of no use to anyone: by its
\* deadline, every caller of the batch is past its own.  No short request can
\* cancel the others.
BatchOutlivesCallers ==
  run.at = "handle" /\ Due(BatchContext(run.active).deadline) =>
    \A k \in 1..Len(run.active) : ContextDone(run.active[k])

\* The worker call made for a request carries the identity of that request.
\* It does not when the batch holds items of several callers: the handler's
\* context has the values of the first one's.
RequestIdentityPreserved ==
  run.at = "handle" =>
    \A k \in 1..Len(run.active) : BatchContext(run.active).metadata = run.active[k]

\* Every call of Submit returns: whatever happens to the item, some case of its
\* select or of waitForResult becomes ready.
SubmitReturns == \A i \in Items : pc[i] = "admit" ~> pc[i] = "returned"

\* After Close the run goroutine drains the queue and closes s.done.
CloseDrains == closed ~> run.at = "exit"
=============================================================================
