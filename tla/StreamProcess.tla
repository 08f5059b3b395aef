---------------------------- MODULE StreamProcess ----------------------------
(***************************************************************************)
(* The stream processor's process, stream_processor/cmd/stream-processor:  *)
(* main, the goroutine that consumes, and the callback that applies each   *)
(* record to the window (Window) for the consumer (Ingestion).  The        *)
(* broker's state and the sink survive the process; the window, readiness  *)
(* and the counters do not.                                                *)
(***************************************************************************)
EXTENDS Integers, Sequences, FiniteSets, FiniteSetsExt, TLC

CONSTANTS
  Setups, MaxAttempts, MaxFaults, MaxStops,
  Duration, MaxEntities, MaxEvents, MaxTotal, MaxTrackedPartitions, MaxUnsynced,
  EventOf      \* the event of each record that decodes

ASSUME StreamAssumption ==
  /\ \A s \in Setups :
       /\ s.source \in {"kafka", "stdin"} /\ s.policy \in {"halt", "dlq"}
       /\ s.source = "stdin" =>
            s.malformed = {} /\ \E p \in DOMAIN s.length : DOMAIN s.length = {p}
       /\ s.length \in [DOMAIN s.length -> Nat] /\ DOMAIN s.length \subseteq Int
       /\ \A p \in DOMAIN s.length : \A o \in 0..(s.length[p] - 1) :
            <<p, o>> \in DOMAIN EventOf \cup s.malformed
  /\ DOMAIN EventOf \subseteq Int \X Nat
  /\ \A r \in DOMAIN EventOf :
       EventOf[r] \in [id : STRING, entity : Nat, at : Nat, amount : Int, partition : Int, offset : Int]
  /\ Duration \in Nat \ {0} /\ MaxEntities \in Nat \ {0} /\ MaxEvents \in Nat \ {0}
  /\ MaxTotal \in Nat /\ MaxTrackedPartitions \in Nat /\ MaxUnsynced \in Nat
  /\ MaxAttempts \in Nat \ {0} /\ MaxFaults \in Nat /\ MaxStops \in Nat

VARIABLES
  setup, committed, position, consumer, ctxDone, closed, dlq, handled, faults, stops,
  byEntity, seen, offsets, watermark, lastActive, eventCount, sink, unsynced, arrived,
  main,        \* main's place, whether the run failed, and whether Consume failed it
  call,        \* the callback in progress: its place or what ApplyAndMaterialize gave
  ready, attempts, events, materialized, failures,   \* operationalState
  restarted    \* history: this is not the first process

I == INSTANCE Ingestion
W == INSTANCE Window WITH Inputs <- {}

ingestion == <<committed, position, consumer, ctxDone, closed, dlq, handled, faults, stops>>
window == <<byEntity, seen, offsets, watermark, lastActive, eventCount, sink, unsynced, arrived>>
state == <<ready, attempts, events, materialized, failures>>
vars == <<ingestion, window, main, call, state, restarted>>

Starting == [at |-> "starting", failed |-> FALSE, consumeFailed |-> FALSE]

Init ==
  /\ I!Init /\ W!Init
  /\ main = Starting /\ call = "none" /\ ready = FALSE
  /\ attempts = 0 /\ events = 0 /\ materialized = 0 /\ failures = 0
  /\ restarted = FALSE

TypeOK ==
  /\ I!TypeOK
  /\ main \in [at : {"starting", "running", "stopping", "cancel", "close", "shutdown", "exited"},
               failed : BOOLEAN, consumeFailed : BOOLEAN]
  /\ call \in {"none", "entered", "unchanged", "changed"} \cup I!Errors
  /\ ready \in BOOLEAN /\ restarted \in BOOLEAN
  /\ attempts \in Nat /\ events \in Nat /\ materialized \in 0..events /\ failures \in Nat

At(place) == main.at = place
Goto(place) == main' = [main EXCEPT !.at = place]
Consuming == main.at \notin {"starting", "exited"}

-----------------------------------------------------------------------------
(* The consuming goroutine and its callback.                               *)

ConsumeStep ==
  /\ Consuming
  /\ I!Consume
  /\ UNCHANGED <<window, main, call, state, restarted>>

CountAttempt == attempts + 1

EnterHandler ==
  /\ Consuming /\ consumer.at = "handler" /\ call = "none"
  /\ attempts' = CountAttempt
  /\ call' = "entered"
  /\ UNCHANGED <<ingestion, window, main, ready, events, materialized, failures, restarted>>

\* Kafka's partition and offset replace the event's own.
Event ==
  IF setup.source = "kafka"
  THEN [EventOf[consumer.msg] EXCEPT !.partition = consumer.msg[1], !.offset = consumer.msg[2]]
  ELSE EventOf[consumer.msg]

ApplyAndMaterialize ==
  /\ Consuming /\ call = "entered"
  /\ \/ /\ W!Ignore(Event)
        /\ call' = "unchanged" /\ UNCHANGED faults
     \/ /\ W!Materialize(Event)
        /\ call' = IF W!NeedsPut(Event) THEN "changed" ELSE "unchanged"
        /\ UNCHANGED faults
     \/ /\ W!Fail(Event)
        /\ IF W!Refused(Event)
           THEN call' = "error" /\ UNCHANGED faults
           ELSE call' = I!Failure /\ I!CallFails
  /\ UNCHANGED <<committed, position, consumer, ctxDone, closed, dlq, handled, stops,
                 main, state, restarted>>

HandlerSucceeds ==
  /\ Consuming /\ call \in {"unchanged", "changed"}
  /\ events' = events + 1
  /\ ready' = TRUE
  /\ materialized' = IF call = "changed" THEN materialized + 1 ELSE materialized
  /\ call' = "none"
  /\ I!HandlerSucceeds
  /\ UNCHANGED <<window, main, attempts, failures, restarted>>

\* A fault: readiness is left as it is.
FailureKeepsReady == UNCHANGED ready

FailureReadiness == ready' = FALSE

HandlerFails ==
  /\ Consuming /\ call \in I!Errors
  /\ FailureReadiness
  /\ failures' = failures + 1
  /\ call' = "none"
  /\ I!HandlerFails(call) /\ UNCHANGED faults
  /\ UNCHANGED <<window, main, attempts, events, materialized, restarted>>

-----------------------------------------------------------------------------
(* main                                                                    *)

\* The sink answers the probe within STREAM_STARTUP_TIMEOUT, or the process exits.
StartupProbe ==
  /\ At("starting")
  /\ \/ Goto("running") /\ ready' = TRUE /\ UNCHANGED faults
     \/ /\ faults < MaxFaults /\ faults' = faults + 1
        /\ main' = [main EXCEPT !.at = "exited", !.failed = TRUE]
        /\ UNCHANGED ready
  /\ UNCHANGED <<committed, position, consumer, ctxDone, closed, dlq, handled, stops, window,
                 call, attempts, events, materialized, failures, restarted>>

\* SIGTERM or SIGINT
Signal == ~At("exited") /\ I!Cancel /\ UNCHANGED <<window, main, call, state, restarted>>

SelectDone ==
  /\ At("running") /\ ctxDone
  /\ Goto("stopping")
  /\ UNCHANGED <<ingestion, window, call, state, restarted>>

\* A fault: a cancelled Consume counts as failed.
AnyError == consumer.result # "nil"

ConsumeError == consumer.result \notin {"nil", "canceled"}

\* A fault: a Consume that failed is counted, and main waits on for a signal.
CountConsumeError ==
  /\ At("running") /\ consumer.at = "returned" /\ ConsumeError /\ ~main.consumeFailed
  /\ main' = [main EXCEPT !.consumeFailed = TRUE]
  /\ failures' = failures + 1
  /\ UNCHANGED <<ingestion, window, call, ready, attempts, events, materialized, restarted>>

SelectConsumeDone ==
  /\ At("running") /\ consumer.at = "returned"
  /\ main' = [at |-> "stopping", failed |-> ConsumeError, consumeFailed |-> ConsumeError]
  /\ failures' = IF ConsumeError THEN failures + 1 ELSE failures
  /\ UNCHANGED <<ingestion, window, call, ready, attempts, events, materialized, restarted>>

\* The operational HTTP server failed.
SelectHttpErr ==
  /\ At("running")
  /\ faults < MaxFaults /\ faults' = faults + 1
  /\ main' = [main EXCEPT !.at = "stopping", !.failed = TRUE]
  /\ UNCHANGED <<committed, position, consumer, ctxDone, closed, dlq, handled, stops, window,
                 call, state, restarted>>

\* ready.Store(false), cancel, consumer.Close, httpServer.Shutdown, exit.
Stopping ==
  /\ At("stopping") /\ Goto("cancel")
  /\ ready' = FALSE
  /\ UNCHANGED <<ingestion, window, call, attempts, events, materialized, failures, restarted>>

CancelContext ==
  /\ At("cancel") /\ Goto("close")
  /\ ctxDone' = TRUE
  /\ UNCHANGED <<committed, position, consumer, closed, dlq, handled, faults, stops, window,
                 call, state, restarted>>

CloseConsumer == At("close") /\ Goto("shutdown") /\ I!Close /\ UNCHANGED <<window, call, state, restarted>>

\* Shutdown gives up after five seconds; main does not wait for the goroutine.
Exit == At("shutdown") /\ Goto("exited") /\ UNCHANGED <<ingestion, window, call, state, restarted>>

-----------------------------------------------------------------------------
(* The next process.                                                       *)

StartProcess ==
  /\ I!Start
  /\ byEntity' = <<>> /\ seen' = {} /\ offsets' = <<>>
  /\ watermark' = <<>> /\ lastActive' = <<>> /\ eventCount' = 0
  /\ arrived' = <<>> /\ UNCHANGED <<sink, unsynced>>
  /\ main' = Starting /\ call' = "none" /\ ready' = FALSE
  /\ attempts' = 0 /\ events' = 0 /\ materialized' = 0 /\ failures' = 0
  /\ restarted' = TRUE

Restart == setup.source = "kafka" /\ At("exited") /\ StartProcess /\ UNCHANGED stops
Crash == setup.source = "kafka" /\ ~At("exited") /\ I!Stop /\ StartProcess

Callback == EnterHandler \/ ApplyAndMaterialize \/ HandlerSucceeds \/ HandlerFails
Main ==
  \/ StartupProbe \/ SelectDone \/ SelectConsumeDone \/ SelectHttpErr
  \/ Stopping \/ CancelContext \/ CloseConsumer \/ Exit

Next ==
  /\ ConsumeStep \/ Callback \/ Main \/ Signal \/ Restart \/ Crash
  /\ UNCHANGED setup

Spec == Init /\ [][Next]_<<vars, setup>>

\* ApplyAndMaterialize, which is never without an outcome, has one; seen from
\* outside the window.
Returns == Consuming /\ call = "entered" /\ call' \in {"unchanged", "changed"} \cup I!Errors

\* The goroutine and main go on (every call has a deadline), and the orchestrator
\* starts a process that ended.  No call is obliged to fail, no signal to come.
Fairness ==
  /\ WF_vars((ConsumeStep \/ EnterHandler \/ HandlerSucceeds \/ HandlerFails) /\ UNCHANGED faults)
  /\ WF_call(Returns /\ UNCHANGED faults)
  /\ WF_vars(Main /\ UNCHANGED faults)
  /\ WF_vars(Restart)

-----------------------------------------------------------------------------
(* Properties.                                                             *)

\* The records the window has taken, and their events for an entity.
Applied == handled \cup (IF call \in {"unchanged", "changed"} THEN {consumer.msg} ELSE {})
AppliedEvents(e) == {EventOf[r] : r \in {q \in Applied : EventOf[q].entity = e}}

\* What should be stored for the events: those of the last Duration, each id once.
Expected(given) ==
  LET end == Max({x.at : x \in given})
      inside == {x \in given : x.at >= end - Duration}
  IN  [count |-> Cardinality(inside), total |-> MapThenSumSet(LAMBDA x : x.amount, inside),
       max |-> Max({x.amount : x \in inside}), end |-> end]

\* End to end, in the life of one process: the sink has for every entity exactly
\* the features of the records handled, whatever was retried, failed at the sink,
\* came late, came twice or was dead-lettered, unless a failed write is in doubt.
\* The window and the sink are well formed throughout.
SinkReflectsHandled ==
  /\ W!TypeOK
  /\ ~restarted =>
       \A e \in {EventOf[r].entity : r \in Applied} \ unsynced :
         e \in DOMAIN sink /\ sink[e] = Expected(AppliedEvents(e))

\* operationalState, as /readyz and /metrics show it, tells the truth.  The process
\* is not ready from a failed callback until one succeeds: while the record is
\* retried, and while it is dead-lettered.  Each attempt counted is processed, failed
\* or in progress, and failures counts in addition a Consume that failed.
StateTells ==
  /\ TypeOK
  /\ consumer.msg \notin setup.malformed /\ consumer.last # "none" => ~ready
  /\ attempts = events + (IF call = "none" THEN 0 ELSE 1)
                  + failures - (IF main.consumeFailed THEN 1 ELSE 0)

\* A process without poison records that is told to stop exits with status 0,
\* wherever the signal meets the consumer, unless a call really failed.
CleanExit == At("exited") /\ main.failed => faults > 0 \/ setup.malformed # {}

\* A signal, or a Consume that returned, ends the process: no process runs on for
\* ever with its context cancelled or its consumer gone.
ProcessExits == []<>(Consuming => ~ctxDone /\ consumer.at # "returned")

\* Nothing is lost, with this callback and under this main: a committed record was
\* handled or is in the dead-letter topic, through retries, crashes and restarts.
\* Therefore "halt" never gets past a poison record, however often the process is
\* restarted, and with standard input everything was handled if Consume returned nil.
CommittedSettled == I!CommittedSettled

\* process and commit keep the order within a partition: the record in hand is the
\* one the group's offset points at, and a restart skips none.
HandlerAtCommitted == I!HandlerAtCommitted

\* With PoisonPolicy "dlq" every record is committed in the end, if calls fail
\* finitely often: neither a poison record nor a stopped process holds it up.
AllCommitted == I!AllCommitted

=============================================================================
