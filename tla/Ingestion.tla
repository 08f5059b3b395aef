------------------------------ MODULE Ingestion ------------------------------
(***************************************************************************)
(* stream_processor/ingestion: the Kafka consumer (fetch, process, commit, *)
(* each with at most MaxAttempts attempts and a backoff between them, and  *)
(* a poison policy), and the in-memory consumer used with standard input.  *)
(* One goroutine runs Consume; StreamProcess runs it, with its handler,    *)
(* the owner of its context, and crashes.  The broker is external: it      *)
(* keeps the log, the group's committed offsets and the dead-letter topic, *)
(* and any call to it may fail, with or without having taken effect.       *)
(***************************************************************************)
EXTENDS Integers, Sequences, FiniteSets, Functions

CONSTANTS
  Setups,        \* the configurations and logs to consider
  MaxAttempts,
  MaxFaults,     \* bound: calls that fail without the context being done
  MaxStops       \* bound: crashes of the process and cancellations of the context

VARIABLES
  setup,      \* what never changes: source ("kafka" or "stdin"), policy ("halt" or
              \* "dlq"), the length of each partition (with "stdin", the events read),
              \* and the records whose value is malformed, not a JSON event
  committed,  \* the group's offset of each partition; events taken off m.events
  position,   \* the reader's next offset of each partition
  consumer,   \* the goroutine in Consume: its place and its variables
  ctxDone,    \* the context of Consume is cancelled
  closed,     \* Close was called
  dlq,        \* records in the dead-letter topic, in the order of their writes
  handled,    \* history: records whose handler succeeded
  faults, stops

brokerVars == <<committed, dlq>>
vars == <<brokerVars, position, consumer, ctxDone, closed, handled, faults, stops>>

Partitions == DOMAIN setup.length
Records == UNION {{p} \X (0..(setup.length[p] - 1)) : p \in Partitions}
Everything == setup.length
NoRecord == <<>>

\* The goroutine at a place with nothing in hand.  resume is the loop that is
\* backing off, last the last error of process, result what Consume returned.
Idle(place, result) ==
  [at |-> place, attempt |-> 1, msg |-> NoRecord, resume |-> "none", last |-> "none",
   result |-> result]

Init ==
  /\ setup \in Setups
  /\ committed = [p \in Partitions |-> 0]
  /\ position = committed
  /\ consumer = Idle("fetch", "none")
  /\ ctxDone = FALSE /\ closed = FALSE
  /\ dlq = <<>> /\ handled = {}
  /\ faults = 0 /\ stops = 0

Errors == {"error", "canceled"}

Consumers ==
  [at : {"fetch", "process", "handler", "poison", "commit", "backoff", "returned"},
   attempt : 1..MaxAttempts, msg : Records \cup {NoRecord},
   resume : {"none", "fetch", "process", "commit"}, last : Errors \cup {"none"},
   result : Errors \cup {"none", "nil", "poison"}]

TypeOK ==
  /\ \A map \in {committed, position} :
       map \in [Partitions -> Nat] /\ \A p \in Partitions : map[p] <= setup.length[p]
  /\ consumer \in Consumers
  /\ ctxDone \in BOOLEAN /\ closed \in BOOLEAN
  /\ dlq \in Seq(Records) /\ handled \subseteq Records
  /\ faults \in 0..MaxFaults /\ stops \in 0..MaxStops

-----------------------------------------------------------------------------
Return(result) == consumer' = Idle("returned", result)

\* A call fails: because the context is done, or for a reason of its own.
CallFails ==
  \/ ctxDone /\ UNCHANGED faults
  \/ ~ctxDone /\ faults < MaxFaults /\ faults' = faults + 1

Failure == IF ctxDone THEN "canceled" ELSE "error"

\* A fault: a call that failed MaxAttempts times is given up.
GiveUpCall ==
  IF ctxDone THEN Return("canceled")
  ELSE IF consumer.attempt < MaxAttempts
       THEN consumer' = [consumer EXCEPT !.at = "backoff", !.resume = consumer.at]
       ELSE consumer' = Idle("fetch", "none")

\* What the loops of fetch and commit do after a failed attempt.
RetryCall ==
  IF ctxDone THEN Return("canceled")
  ELSE IF consumer.attempt < MaxAttempts
       THEN consumer' = [consumer EXCEPT !.at = "backoff", !.resume = consumer.at]
       ELSE Return("error")

\* A fault: a record is given up one attempt early, and not dead-lettered.
SkipPoison == IF consumer.attempt + 1 < MaxAttempts THEN "backoff" ELSE "commit"

\* Where the loop of process goes after a failed attempt.
AfterFailure == IF consumer.attempt < MaxAttempts THEN "backoff" ELSE "poison"

RetryProcess(last) ==
  consumer' = [consumer EXCEPT !.at = AfterFailure, !.resume = "process", !.last = last]

\* fetch
FetchOk(p) ==
  /\ setup.source = "kafka" /\ consumer.at = "fetch" /\ ~closed
  /\ position[p] < setup.length[p]
  /\ position' = [position EXCEPT ![p] = @ + 1]
  /\ consumer' = [Idle("process", "none") EXCEPT !.msg = <<p, position[p]>>]
  /\ UNCHANGED <<brokerVars, ctxDone, closed, handled, faults, stops>>

FetchFails ==
  /\ setup.source = "kafka" /\ consumer.at = "fetch"
  /\ CallFails
  /\ RetryCall
  /\ UNCHANGED <<brokerVars, position, ctxDone, closed, handled, stops>>

\* A fault: the attempts are not counted.
RetryForever ==
  /\ consumer.at = "backoff"
  /\ consumer' = [consumer EXCEPT !.at = consumer.resume, !.resume = "none"]
  /\ UNCHANGED <<brokerVars, position, ctxDone, closed, handled, faults, stops>>

\* waitBackoff: the timer, or the context.
TimerFires ==
  /\ consumer.at = "backoff"
  /\ consumer' = [consumer EXCEPT !.at = consumer.resume, !.attempt = @ + 1, !.resume = "none"]
  /\ UNCHANGED <<brokerVars, position, ctxDone, closed, handled, faults, stops>>

BackoffCancelled ==
  /\ consumer.at = "backoff" /\ ctxDone
  /\ Return("canceled")
  /\ UNCHANGED <<brokerVars, position, ctxDone, closed, handled, faults, stops>>

\* process: a value that does not decode fails the attempt, others go to the handler.
Decode ==
  /\ consumer.at = "process"
  /\ IF consumer.msg \in setup.malformed
     THEN RetryProcess("error")
     ELSE consumer' = [consumer EXCEPT !.at = "handler"]
  /\ UNCHANGED <<brokerVars, position, ctxDone, closed, handled, faults, stops>>

\* The offset after the record in hand.
Advance == [committed EXCEPT ![consumer.msg[1]] = consumer.msg[2] + 1]

HandlerSucceeds ==
  /\ consumer.at = "handler"
  /\ handled' = handled \cup {consumer.msg}
  /\ IF setup.source = "kafka"
     THEN /\ consumer' = [consumer EXCEPT !.at = "commit", !.attempt = 1, !.last = "none"]
          /\ UNCHANGED committed
     ELSE /\ consumer' = Idle("fetch", "none")
          /\ committed' = Advance
  /\ UNCHANGED <<dlq, position, ctxDone, closed, faults, stops>>

HandlerFails(last) ==
  /\ consumer.at = "handler"
  /\ IF setup.source = "kafka" THEN RetryProcess(last) ELSE Return(last)
  /\ UNCHANGED <<brokerVars, position, ctxDone, closed, handled, stops>>

\* The policy "halt": a PoisonError that wraps the last error.
Halt == Return(IF consumer.last = "canceled" THEN "canceled" ELSE "poison")

PoisonHalts ==
  /\ consumer.at = "poison" /\ setup.policy = "halt"
  /\ Halt
  /\ UNCHANGED <<brokerVars, position, ctxDone, closed, handled, faults, stops>>

\* The policy "dlq": writeDLQ or the configured handler; its error ends Consume.
WriteDLQ ==
  /\ consumer.at = "poison" /\ setup.policy = "dlq" /\ ~closed
  /\ dlq' = Append(dlq, consumer.msg)
  /\ consumer' = [consumer EXCEPT !.at = "commit", !.attempt = 1, !.last = "none"]
  /\ UNCHANGED <<committed, position, ctxDone, closed, handled, faults, stops>>

WriteDLQFails ==
  /\ consumer.at = "poison" /\ setup.policy = "dlq"
  /\ CallFails
  /\ \/ UNCHANGED dlq
     \/ dlq' = Append(dlq, consumer.msg)
  /\ Return(Failure)
  /\ UNCHANGED <<committed, position, ctxDone, closed, handled, stops>>

\* commit
CommitOk ==
  /\ consumer.at = "commit" /\ ~closed
  /\ committed' = Advance
  /\ consumer' = Idle("fetch", "none")
  /\ UNCHANGED <<dlq, position, ctxDone, closed, handled, faults, stops>>

CommitFails ==
  /\ consumer.at = "commit"
  /\ CallFails
  /\ \/ UNCHANGED committed
     \/ committed' = Advance
  /\ RetryCall
  /\ UNCHANGED <<dlq, position, ctxDone, closed, handled, stops>>

\* MemoryConsumer: take the first event, which stays until its handler succeeds.
TakeEvent(p) ==
  /\ setup.source = "stdin" /\ consumer.at = "fetch"
  /\ IF closed THEN Return("error")
     ELSE IF committed = Everything THEN Return("nil")
     ELSE IF ctxDone THEN Return("canceled")
     ELSE consumer' = [Idle("handler", "none") EXCEPT !.msg = <<p, committed[p]>>]
  /\ UNCHANGED <<brokerVars, position, ctxDone, closed, handled, faults, stops>>

Consume ==
  \/ \E p \in Partitions : FetchOk(p) \/ TakeEvent(p)
  \/ FetchFails \/ TimerFires \/ BackoffCancelled \/ Decode
  \/ PoisonHalts \/ WriteDLQ \/ WriteDLQFails \/ CommitOk \/ CommitFails

\* The owner of the context, and Close, which the processor calls after it.
Stop == stops < MaxStops /\ stops' = stops + 1

Cancel ==
  /\ ~ctxDone /\ ctxDone' = TRUE
  /\ Stop
  /\ UNCHANGED <<brokerVars, position, consumer, closed, handled, faults>>

Close ==
  /\ ctxDone /\ ~closed /\ closed' = TRUE
  /\ UNCHANGED <<brokerVars, position, consumer, ctxDone, handled, faults, stops>>

\* A new process: the reader starts from the committed offsets.
Start ==
  /\ position' = committed
  /\ consumer' = Idle("fetch", "none")
  /\ ctxDone' = FALSE /\ closed' = FALSE
  /\ UNCHANGED <<brokerVars, handled, faults>>

-----------------------------------------------------------------------------
(* Properties.                                                             *)

Settled == handled \cup Range(dlq)

\* Nothing is lost: a committed record was materialized or is in the dead-letter
\* topic, through retries, lost answers, crashes and restarts.  With the policy
\* "halt", where the topic stays empty, the group never gets past a record that does
\* not decode; and MemoryConsumer, which says nil when everything is committed, says
\* so only when every event was handled.
CommittedSettled == \A r \in Records : r[2] < committed[r[1]] => r \in Settled

\* Order within a partition: the record given to the handler is the one the
\* group's offset points at, so none before it is unsettled and none is skipped
\* by a restart.  A commit whose answer was lost has moved the offset past it.
HandlerAtCommitted ==
  consumer.msg # NoRecord =>
    LET p == consumer.msg[1]
        o == consumer.msg[2]
    IN  \/ o = committed[p]
        \/ /\ o + 1 = committed[p]
           /\ consumer.at \in {"commit", "backoff"}

\* With the policy "dlq" every record of every partition is settled and committed
\* if the calls to the broker and the handler fail finitely often.
AllCommitted == setup.policy = "dlq" => <>[](committed = Everything)

=============================================================================
