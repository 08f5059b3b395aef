# Verification of Distributed-Fraud-Detection

TLA+ specifications of the fraud-detection system, model-checked with TLC on small
instances. The safety properties that the runs check are also proved, all but one of them,
with TLAPS for every value of the constants.

## The system

| Part | Source | What it does |
|---|---|---|
| API gateway | `api_gateway/src` (Rust) | Accepts transactions over HTTP, puts each one into a slot of a shared-memory ring, waits for the answer until the request's deadline. |
| Inference daemon | `inference_daemon` (C++) | The ring's only consumer: takes published slots, batches them up to a size or an SLA deadline, answers them in place. |
| Serving plane | `serving_plane` (Go) | HTTP gateway, feature store (Redis with a local fallback), a batching scheduler, and a pool of gRPC workers. |
| Stream processor | `stream_processor` (Go) | Kafka consumer with bounded retries and a dead-letter topic, sliding-window aggregation, materialization of features to Redis. |
| Execution engine | `execution_engine` (C++/CUDA) | FP8 / FP16 / CPU microkernels with a fallback chain, a stream-ordered arena. |
| Training plane | `training` (Python) | Model, calibration, export and atomic publication of model bundles. |
| Load tester | `load_tester` (Go) | Open-loop load generator with a worker pool. |

The gateway and the daemon interact only through the shared segment. The serving
plane reads what the stream processor materializes. The modules compose where the parts
do: `StreamProcess` is `Ingestion` and `Window` in one process, `ServingGateway` is the
handler over `Scheduler`. `PROJECT.json` lists every part
with its status, and the hazards of each at the line where they bite.

## What is modelled

### `ShmRing`: the gateway, its reclaimer and the daemon on one segment

The core of the system, and the part where three parties written in two languages
share memory without a lock. Position `q` lives in slot `q % slot_count`; the slot's
sequence word goes from `q` (free or claimed) to `q+1` (published), `q+2` (completed)
and `q+slot_count` (released).

| State | Code |
|---|---|
| `enqueue`, `dequeue`, `ready`, `shutdown` | the header words of the segment |
| `seq`, `slot` | each slot's sequence word and the plain fields it guards |
| `pc`, `pos` | a gateway thread inside `submit()` and the `SlotReservation` it holds |
| `pending`, `outstanding`, `scan` | `ReclaimQueue.pending`, the reclaimer's vector, and what the current tick has yet to look at |
| `dpc`, `staged`, `plan`, `draining`, `stop` | the daemon: main's loop, the batcher's `slots_`, `process_batch`'s `positions[]`/`statuses[]`, flushing, the signal flag |

An action is one access to a shared word. Accesses to plain fields that the sequence
word makes private to one party are merged into one step: the request's fields before
the store of `q+1`, the response's fields before the store of `q+2`, and
`process_batch`'s reads of the slots it has staged. That nobody else moves those slots
meanwhile is not assumed: `OneOwner` and `ResponseIsOwn` check it, and `StagedPositionsKept`
proves it.

| Actions | Code |
|---|---|
| `Submit`, `ReserveTimeout`, `ReserveLoad`, `ReserveCompare`, `ReserveCas` | `submit` and `reserve_slot`, spurious failure of the weak exchange included |
| `WriteRequest`, `WriteCancel`, `StoreSequence`, `CountReady` | serialization, `publish_success`, and the drop path that publishes a cancellation |
| `SeeResponse`, `WaitTimeout`, `ReadResponse`, `Release`, `Handoff`, `Push` | `wait_or_reclaim`, `read_response`, `release`, `handoff`, `ReclaimQueue::push` |
| `ReclaimSwap`, `ReclaimScan` | `run_reclaimer` |
| `DaemonPoll`, `DaemonStop`, `Consume`, `DecrementReady`, `PollAgain`, `RunFullBatch`, `RunOverdueBatch` | `main`'s loop, `poll_once`, `flush`, `try_consume` |
| `ProcessBatch`, `CompleteWrite`, `CompleteStore` | `process_batch`, `complete` |
| `Signal`, `RequestShutdown` | SIGINT/SIGTERM, and an operator's write of the shutdown word |

Abstractions. A clock test may come out either way. Answers 200 and 503 are one status.
A payload is empty or decodes. Memory is sequentially consistent: the code publishes
every plain field with a release store that its reader acquires, and the relaxed
accesses to `enqueue` only feed a compare-exchange. `ready_count` keeps its modulus; the
64-bit positions do not wrap. `compare_exchange` on `dequeue` cannot fail with one
consumer.

### `RingLifecycle`: what the ring promises

One phase per position (unclaimed, held, queued, staged, done, released) and one action
per advance. Claims and takes are in order, and a claim waits for the release of the
position a lap before. `ShmRing` is shown to implement it with the phase read off the
segment alone (`Phase`, `ImplementsLifecycle`).

### `Scheduler`: the serving plane's batcher

Callers of `Submit` and the one goroutine `run` share a bounded channel, an atomic state
word and a reply channel per item. One element of `Items` is one call of `Submit`.

| State | Code |
|---|---|
| `closed`, `queue` | the `closed` flag and the queue channel |
| `pc`, `outcome` | where each call is (before the lock, in the select, in `waitForResult`) and what it returned |
| `state`, `reply`, `dispatched`, `expiry` | the item's fields of these names (`queueExpiry`) |
| `deadline`, `cancelled`, `clock` | the callers' contexts and the time |
| `run` | the goroutine: its place, `batch`, `active`, the loop index, `now`, `queueOpen`, what the handler returned |
| `metrics` | `queueCount`, `batchCount`, `batchItems` |
| `admitted`, `handled` | histories, used by properties only |

| Actions | Code |
|---|---|
| `Begin`, `Admit` | `Submit` up to the lock, and the section under it |
| `TakeReply`, `SeeDispatched`, `TimerFires`, `GiveUp`, `SeeDone`, `GiveUpAwaiting` | the cases of `Submit`'s select and of `waitForResult` |
| `NextQueued`, `Collect` | `nextQueued` and the collect loop of `run` |
| `Classify`, `Refuse`, `Announce`, `EndClassify`, `Handle`, `Reply` | `dispatch` |
| `Close`, `Cancel`, `Tick` | `Close`; the owner of a context; time |

Abstractions. Each channel operation and compare-and-swap of `dispatch` is a step, and
so is each case of a select. The clock is coarse and may tick between any two steps; the
collection timer may go off at any time. The handler returns the results of the batch, a
wrong number of them, or an error. `s.done` is closed exactly when `run` is at `"exit"`.
The histogram buckets are left out.

### `Window`: the sliding-window aggregation

State as in `Window` of `window.go` (`byEntity`, `seen`, `offsets`, `watermark`,
`lastActive`, `eventCount`) and the `sink`. `w.mu` is held for a whole call, so a call is
one step, and the actions are its outcomes: `Ignore` (a replay), `Fail` (an invalid event,
a limit, or the sink's error), `Materialize`, and `Apply` without a sink. The operators
are `prepareLocked` line by line: `Replayed`, `Evicted`, `NewWatermark`, `Expired`,
`Events`, `ProjectedEventCount`, `Refused`; `Commit` is `commitLocked` with the eviction. A
failed `Put` may have taken effect; `unsynced` remembers the entities in doubt.

### `Ingestion`: the consumers

One goroutine in `Consume`: `FetchOk`/`FetchFails`, `Decode`, the handler, `PoisonHalts`,
`WriteDLQ`/`WriteDLQFails`, `CommitOk`/`CommitFails`, `TimerFires`/`BackoffCancelled` for
`waitBackoff`, and `TakeEvent` for `MemoryConsumer`. A failed commit or dead-letter write
may have taken effect. `Cancel`, `Close` and `Start`, a new process at the committed
offsets, belong to the process; the broker's log, offsets and dead-letter topic survive
it. `setup` is what never changes: the source, the poison policy and the log. The module
is run by `StreamProcess`.

### `StreamProcess`: consumer, window and `main`

Instantiates both. The callback is `EnterHandler`, `ApplyAndMaterialize`,
`HandlerSucceeds` or `HandlerFails`, which write readiness and the counters; `main` is the
startup probe, the three cases of its select, and the shutdown in order. `Signal` and
`Crash` come between any two steps. After a restart the window is empty and the sink is
not.

### `WorkerPool`: failover between workers

`next` and `unhealthy` are the pool's fields; `call` is where each concurrent `Infer` or
`Healthy` is. A reading of `unhealthy`, the worker's answer, the `delete` and `markDown` are
separate steps, as the lock covers only each of them. Times are counted in the units that
are left; a worker is up, down or stalled. `tainted` and `blamed` are histories.

### `FeatureStore`: Redis, Memory and Fallback

Each call of `Get` or `Probe` has the time its context leaves (`left`) and the time Redis
is given (`due`, from `reserveFallbackBudget` and `r.timeout`). `RedisAnswers`, `RedisFails`
and `Local` are its steps; writers change both stores, and Redis its mode, in between.
What Redis holds is a vector, nothing, or text that does not parse as one. `store` is
the store configured, which never changes.

### `ServingGateway`: score, and the process

`Arrive`, `Read`, `Features`, `Submit`, `Decide` are `score`; between `Features` and `Decide`
the request is an item of `Scheduler`, whose actions this module takes step by step. `main`
goes from the startup probes through its select and `server.Shutdown` to the deferred
calls or `os.Exit`. Handlers take their own steps before time passes; reading a body
takes any time.

### `WorkerProcess`: client, service and worker process

`Infer` is the client up to the call, `Score`, `Engine`, `Reply` the service and the way back,
`GiveUp` the caller's context. `main` waits for a signal or either server, and stops HTTP
and then gRPC within one budget. An engine may return an error, too few results or an
invalid one, besides what `CPUScorer` returns.

### `LoadTester`: the open-loop pipeline

The goroutine that schedules (`NextOffset`, `TimerFires`, `CtxDone`, `Send`, `CountSent`), the
workers (`Perform`, `Report`, `Leave`), the closer and `Run`'s loop, over an unbuffered and a
bounded channel. Which entity a request is about does not matter to it.

### The other modules

The `MC` modules hold the instances for TLC, `ShmRingInvariant` and `SchedulerInvariant`
the inductive invariants of the ring and of the scheduler. The proofs are in
`ShmRingProofs`, `SchedulerProofs`, `ServingGatewayProofs`, `StreamProcessProofs`,
`WindowProofs`, `FeatureStoreProofs`, `LoadTesterProofs` and, for `WorkerPool` and
`WorkerProcess` together, `WorkerProofs`; all but the first two also define the invariants
they prove. The definitions of `WorkerProcess` that would clash with those of `WorkerPool` have
names of their own (`ProcessInit`, `ProcessNext`, `ProcessSpec`, `ProcessTick`).

Operators marked *fault* are plausible mistakes placed beside the definition they would
replace; each property is known to fail under one of them.

## Runs

Several instances of one question are explored side by side in one run: what tells them
apart (the threads that call, the deadlines, the kind of trouble, the configuration) is
chosen in the initial state and kept. Every run takes at most a few minutes on two
workers.

| Run | Bounds | What it shows |
|---|---|---|
| `ring_safety` | 2 threads with 3 requests, and 1 with 5, on 4 slots | Exclusive ownership, own responses, `ready_count`, the reclaimer's bound, and `IInv`, of which the types, the order of staged positions and the cursor are conjuncts or consequences. Two threads are enough to race on the exchange; three requests make a full batch and a partial one; five reuse a slot while timed-out positions wait for the reclaimer. |
| `ring_liveness` | 2 threads, 2 requests, the daemon may be stopped, gateway fairness | Every `submit()` returns although the daemon may hang; with daemon fairness, every claimed position is released until a stop is requested, whatever its request's fate; what the daemon took is completed before it exits; the ring implements `RingLifecycle`. |
| `scheduler_safety` | 3 calls without deadlines, and 2 with deadlines 1, 2 or none; clock to 2, one cancellation | No item is answered twice, so the goroutine never blocks on a reply; a refused item never reaches the handler; a value is the caller's own; an admitted item is never told the scheduler is closed; the handler sees items in queue order; the handler's context ends only when every caller of the batch is done. Three calls fill the queue or make a full batch and one more; the clock lets an item expire and a later one be fresh. |
| `scheduler_liveness` | 2 calls, fairness | Every `Submit` returns; after `Close` the goroutine drains the queue and ends. |
| `scheduler_identity` | 2 calls | *Violation.* A batch of two callers carries the request identity of the first. |
| `window_state` | 3 ids, 3 entities of which 2 fit, 3 events, times 1 to 3, `Duration` 1 | Indexes, counts and bounds agree with the events; the events are exactly those of the last `Duration`; the sink has what `Snapshot` computes unless a write is in doubt; the watermark is the latest time committed for the entity. Three entities force evictions, three times let an event be current, late or expire another. |
| `stream` | `dlq` with partitions of 2 and 3 records (a late, a duplicate and a malformed one) and one failure, signal or crash; `dlq` and `halt` with 2 or 3 records and two troubles, at most one of them a signal or crash; standard input with 3 events | Committed means handled or dead-lettered; the record in hand is the one at the group's offset; `halt` never gets past a poison record; the sink has exactly the features of the records handled; not ready while a record fails; the counters account for every callback; status 0 unless something failed; a signal or a returned `Consume` ends the process; with `dlq` every record is committed in the end. |
| `gateway` | 2 requests, queue of 1, batch of 2, timeout 2, shutdown 3; a signal, a server failure (with one request) or a disconnect of one client; fairness | Only a request scored below the threshold is allowed; `queue_deadline` means never scored; requests whose bodies were read are answered before the scheduler closes; every request begun is answered; a signal or a failed server ends the process. |
| `pool` | 2 workers, one caller of `Infer` and `Healthy` with deadline 2 or none, one of `Infer` with deadline 2, a cancellation, a change of a worker, fairness | A call with time for every worker fails only if none was up and unmarked throughout; a caller's own end is not held against a worker; a worker that stays up does not stay marked. |
| `store` | Redis, memory, and `Fallback` with and without a local store; 2 callers, deadlines 0, 1, 2, 5, Redis timeout 2, 2 writes | A stalled Redis leaves the local store its time; a returned vector was stored during the call; a Redis that answers within its share is preferred. Deadline 1 has no half, 2 and 5 lie on either side of the timeout. |
| `worker` | 2 calls, with and without a client token, batches up to one too large, budget 2, fairness | Whole, valid, ordered results only; the configured token wins; no call is cut off within the budget; the exit code tells a failure; the process ends although calls and operational requests may not. |
| `load` | 2 workers, 7 requests of which 6 in time, fairness | Each job handed out is recorded once, the counts add up, and `Run` returns. |

The ring has four slots, the smallest number the code accepts, a batch of two, which can be
full, overdue or partly formed, and `ready_count` modulo 8. The scheduler's queue and
batches have two places, and `MaxDelay` is 1.

`ServingGateway` assumes `Timeout < ShutdownTimeout`, as the defaults have it (40 ms and
5 s); with the two equal, `StopDrains` fails.

The runs of the ring, the window and the pool check for deadlock. The others do not: once
every call has returned, or the process has ended, nothing is left to do. Threads and
calls are interchangeable, so `ring_safety` and `scheduler_safety` use symmetry; the runs
with a liveness property do not.

### Fairness

`GatewayFairness`: every gateway thread and the reclaimer keep being scheduled (weak
fairness), and a thread that goes round the reserve loop for ever finds its deadline
passed (strong fairness of `ReserveTimeout`), because `Instant::now()` advances towards a
fixed deadline. `DaemonFairness`: the daemon thread is scheduled, and a batch polled for ever becomes overdue
(strong fairness of `RunOverdueBatch`), because the monotonic clock passes
`oldest_enqueue_ns + sla_deadline_ns`. Nothing forces another call, a signal or a shutdown.

`Fairness` of the scheduler: goroutines that can go on do, time passes, and the handler
returns, which the gateway enforces with `InferenceTimeout`. Nothing forces a call, a
cancellation or `Close`.

The others are of the same kind: goroutines are scheduled and time passes, and no
call is obliged to fail, no signal to come and no client to call.

* `StreamProcess`: `Consume`, the callback and `main` go on, since every call they make has
  a deadline, and an ended process is started again. Failures are bounded by `MaxFaults`,
  so "finitely often" is assumed. That `ApplyAndMaterialize` returns is stated from outside
  the window (`Returns`), since it always has an outcome.
* `WorkerPool`: some caller calls `Infer` again, for without traffic nothing probes a worker.
* `ServingGateway`: bodies arrive (the server's `ReadTimeout`) and the engine returns
  (`InferenceTimeout`).
* `WorkerProcess`: `main` and time only; calls and operational requests may hang.
* `LoadTester`: timers fire and requests end, by the client's `Timeout`.

### Finding

`dispatch` derives the context of a batch from that of its first item (`scheduler.go:262`).
The gateway puts each request's identity into its own context, and `grpc.go:81` says this
"preserves request identity and caller authentication across the gateway-to-worker hop";
for every other request of the batch the worker call carries the first one's
(`RequestIdentityPreserved`).

### Limits of the properties

Some properties are stated for less than a comment suggests, because the code does less.

* `run_reclaimer` swaps its vector with the intake list at the start of every tick
  (`lib.rs:825`), so a position left unfinished is looked at every second tick, not "every
  tick" (`lib.rs:842`). That it is looked at and released in the end is `ClaimedIsReleased`.
* `WindowExact` is about tracked entities. `evictEntityLocked` forgets the watermark
  (`window.go:229`), so a late record of an evicted entity moves its stored window back.
* `SinkReflectsHandled` is about the life of one process. Offsets and ids are in memory; a
  record redelivered after a crash between the sink's write and the commit
  (`ingestion.go:278`) comes to an empty window, and what is stored for its entity becomes
  the features of this record alone.
* `Recovers` and `SteadyWorkerServes` do not say that a marked worker is left alone for its
  interval: a successful probe deletes the mark (`worker.go:309`) even if another call has
  set it anew. Nor that time is divided among viable workers only: `Infer` counts those it
  is going to skip (`worker.go:242`).
* `BlameDeserved` is about `Infer`: `Healthy` and the probe of `available` mark a worker down
  without looking at the caller's context.

## Proofs

Every invariant below was first checked by TLC on the instance of the component's run.
The proofs have the same shape: the invariant holds initially, a lemma per action shows
that the action keeps it, and the theorems follow from it. What is proved holds for every
set of threads, calls, requests, events or records and every value of the constants that satisfies the named assumption of the module.

### The ring

For every set of threads, every `Capacity >= 4`, batch size, modulus and number of
requests (`RingAssumption`):

* `Invariance`: `Spec => []IInv`, and from it `TypeCorrect`, `OwnershipIsExclusive`,
  `ResponsesAreOwn`, `CursorNotOvertaken`, `StagedPositionsKept`, `ExitStrandsNothing`;
* `ReadyCountNeverDrifts` and `ReclaimerBounded`, the two properties that count: the ready
  word against the positions published and not taken, the reclaimer's lists against the
  number of slots;
* `Refinement`: `Spec => ImplementsLifecycle`;
* `LapBound` and `HeadOfLine`: what the life cycle promises, carried over to the ring by
  `Refinement`. While a position is in use nothing a lap ahead of it is claimed, and nothing
  behind a position that the daemon has not taken is taken. In the life cycle both follow
  from `InOrder`: claims and takes each cover a first part of the positions, and a claimed
  position has the one a lap before it released.

None of the safety invariants is inductive. That a thread holds its slot alone follows
from what its sequence word says, and that the word still says so follows from nobody
else advancing it. `IInv` ties them together: `ThreadWord` and `ReclaimWord` say which
values the word of a held position has at each label, `SlotWord` which values a slot's
word can have at all, `CursorWord` what the daemon's cursor implies for the words before
and after it, `BatchShape` that the batch and the plan are the last positions taken in
order, `Content` that a request in flight finds its own record. One arithmetic fact
carries the argument: two positions of one slot are at least `Capacity >= 4` apart
(`SlotGap`), so a word `q`, `q+1` or `q+2` names the position the slot serves. The proof
of `NextIInv` has a lemma per action; `AdvanceOthers` is shared by the three kinds of step that
advance a sequence word. The refinement reuses the same facts: an advance of one word
changes one phase. The ready word is followed step by step with the sets it
counts, of which an action changes one by one element; the reclaimer's positions are
bounded because no two of them are in one slot.

### The scheduler

From `SchedulerAssumption` (positive limits, deadlines natural or absent): `NoSecondAnswer`,
`ValuesAreOwn`, `CloseSparesAdmitted`, `HandlerKeepsOrder` and `BatchOutlives`, which are all
of its safety properties, from `Invariance`: `Spec => []IInv`. The properties speak of
answers and of the handler; whether they go on holding depends on where an item is and
who may still move its state word. `RunInv` says what `run`'s local variables can be at
each of its places. `OrderInv` says that the queue, the batch, the handler's batch and the
items handled keep the order of admission, and come one after the other in it. `WordInv`
says who has decided about an item: nobody while it is queued or not yet come to, its
caller, or `dispatch`. `AnswerInv` says that an answer is sound and that a caller who waits
has exactly one place an answer can come from. The compare-and-swap of `dispatch` and the
one of a caller that gives up meet in `WordInv`: only one of them finds `queued`.

### The gateway

`FailsClosed`, `QueueReasonsAreTrue` and `StopLosesNothing`, from `GatewayAssumption`. The
proof composes: `ServingGatewayProofs` instantiates `SchedulerProofs` with the requests as items and
takes each of its lemmas for the scheduler's steps, so only the handler's and `main`'s
steps are new. `Own` is the gateway's half of the invariant. `Answered` ties a response to
what `Submit` returned. `InTime` says that a request whose body was read is answered by
its deadline, and that the deadlines of those underway when the shutdown began lie before its
end: here `Timeout < ShutdownTimeout` is used. `Closing` says that only `main` closes the scheduler.

### The stream processor

From `StreamAssumption` (Kafka with any log and either policy, or standard input with one
partition and no malformed event), and for any number of attempts, faults and stops:
`NothingIsLost`, `OrderIsKept` and `OperationalStateTells`, from `Invariance`: `Spec => []SInv`.
`PlaceInv` says when a record is in hand and which call a backoff returns to, `OffsetInv` how
the record in hand, the reader's position and the group's offset fit, `SettledInv` that what is
being committed is settled already. The one case that keeps the obvious statement from being
inductive is a commit that took effect and whose answer was lost: the offset has passed the
record and the consumer commits it again.

`StopIsClean` is `Spec /\ []NoRefusal => []CleanExit`. The condition is needed: `CleanExit` blames
a failure on a call or on a malformed record, and an event that decodes and that the window
refuses (an invalid one, one beyond `MaxEvents`, or a total out of range) is a third cause.
In the run's instance none is refused. `BlameInv` traces every error `main` can take for a
failure back to its cause.

These proofs use no property of the window's state but the outcomes of a call.

The last section composes the process with its window. `WindowStaysSound` says that the
three promises of `Window` hold in the process, whatever is redelivered and however often it
crashes and starts again with an empty window and the old sink (`WindowKept`).
`StreamProcessProofs` instantiates `WindowProofs` with the events of the log (`V`), shows that
the definitions of this instance and of the one the process runs (`W`) agree, and takes the
lemmas about the window's steps for the callback; a restart is `NextWindow` of `WindowProofs`.
For this `StreamAssumption` also says that every record of a log decodes to an event of the
right type or is malformed. `OnlyHandledIsHeld` relates the two halves: every event in the
window is that of a record handled, or about to be reported as handled
(`WindowFromHandled`). It needs that a malformed record never reaches the callback
(`Decoded`) and that a commit adds only the event it was given (`FromApplied`).

### The window

From `WindowAssumption` (positive limits, events with natural times) and for any set of
events: `IndexesStayInStep`, `WindowIsExact` and `SinkStaysInStep`, from `WInv`. `EntityInv` says
that the events of an entity are sorted, that its watermark is the latest time that
arrived, and that the events are exactly those that arrived and are not expired; `SinkInv`
says that a sink not in doubt has `Features` of all of them. The argument is about
sequences. The expired events are a prefix, because the events are sorted (`Prefix`). The
new event is inserted after those not later than it, which are again a prefix, so the
result is sorted and holds one event more. That no id occurs twice rests on `seen` being
exactly the ids held, which eviction and expiry must keep. The features are treated as a
function of the events, the positions inside the window and its end: the proof shows that
the sink and `Snapshot` apply it to the same arguments.

### The worker pool

From `PoolAssumption`, for every number of workers and callers, every deadline and every
history of outages and marks: `SteadyWorkersServe` and `BlameIsDeserved`, from `PoolInvariant`.
`Failover` is the part that is hard to see: the workers tried so far were all not up or
marked at some time during the call, and `attemptContext` has kept one unit of time for
each worker still to be tried (`TimeAhead`). It rests on two facts of arithmetic: the share
of an attempt leaves at least one unit for each later one, and the rotation from any start
visits every worker. `Deserved` says that when an attempt's time is over, its context is
done too or its worker was not up.

### The feature store

From `StoreAssumption`, for all callers, keys, stores, deadlines and timeouts: `BudgetIsDivided`
and `ValuesWereStored`, from `StoreInvariant`. `TimeKept` says that a call that had time has
more of it left than Redis may still use, and `Divided` that with two units or more Redis
gets one and the local store is asked only for a call whose Redis was poor meanwhile.
`Observed` ties what a call may still read to its history, which writers extend.

### The load tester

From `LoadAssumption`, for every schedule and number of workers: `RequestsRecorded`, from
`LoadInvariant`. The property is about the end of `Run`; until then `OnePlace` says that a job
handed out is with one worker, in the channel of results or recorded, and in no two of
them, `Shutdown` that channels are closed only when nothing more can be sent on them, and
`Counted` that `Completed` is the number of jobs recorded.

### The worker process

From `WorkerAssumption`: `AnswersAreOwn` and `ShutdownDrains`, from `ProcessInvariant`: `ProcessSpec => []PInv`. `CallInv` follows one
call through both sides (a client waits only while the service has the call, the engine is
given only what was accepted), `StopInv` the shutdown (no call gets in once gRPC is
stopping, none is in service when the process has exited).

### Only model-checked

* Liveness: `SubmitReturns` and `ClaimedIsReleased` of the ring, `SubmitReturns` and
  `CloseDrains` of the scheduler, `ProcessExits`, `AllCommitted`, `NothingHangs`, `Recovers`,
  `StopExits`, `RunReturns`. They need fairness and `ENABLED`, which the prover does not have.
* `SinkReflectsHandled` compares a sum over the window's sequence with one over the set of
  the records handled; what such a fold computes needs induction over data, which the
  prover does not have either. It also depends on the instance, in which no entity is
  evicted. What can be said for every log is `WindowStaysSound` and `OnlyHandledIsHeld`.

## Not modelled yet, and the plan

Planned: the daemon's SLA clock, crashes and restarts around the segment, the arena, the
engine's fallback chain, bundle publication.

`ServingGateway` takes the feature store and the engine as an answer or an error within
their timeouts. Their own modules show that they are; the product of the three is out of
TLC's reach.

A callback can set readiness after the shutdown cleared it. `StreamProcess` has this
interleaving and no property about it, because nothing in the repository says what should
hold.

Left out for good: floating-point kernels, model training and calibration, generated
FlatBuffers and gRPC code, TLS and environment parsing, flags and artifact files of the
load tester, which keep no state that interleaves with anything or whose correctness is
numeric; and the counters and histograms of `/metrics` outside the scheduler and the stream
processor, which only a scrape reads. The load tester's weighted choice of entities is a
pure function its own tests cover.
