-------------------------- MODULE SchedulerInvariant --------------------------
(* The inductive invariant of Scheduler: in which order items pass from the   *)
(* queue to the handler, who may still move an item's state word, and where   *)
(* the answer of a caller that waits is to come from.                         *)
EXTENDS Scheduler

\* i comes before j in the history h of the queue; so do the elements of a
\* sequence before the later ones, and those of a set before those of another.
Before(h, i, j) == \E a, b \in 1..Len(h) : a < b /\ h[a] = i /\ h[b] = j
Ordered(h, s) == \A a, b \in 1..Len(s) : a < b => Before(h, s[a], s[b])
AllBefore(h, S, T) == \A i \in S, j \in T : Before(h, i, j)

\* The places of run with a batch in hand that dispatch still has to decide about.
Deciding == {"collect", "classify", "refuse", "announce"}

\* The item whose compare-and-swap dispatch has just won.
Current == IF run.at \in {"refuse", "announce"} THEN {run.batch[run.cursor]} ELSE {}

\* The elements of s from the k-th on.
From(s, k) == {s[j] : j \in k..Len(s)}

\* The items of the batch that dispatch has not come to yet.
Undecided ==
  IF run.at \in {"collect", "classify"} THEN From(run.batch, run.cursor)
  ELSE IF run.at \in {"refuse", "announce"} THEN From(run.batch, run.cursor + 1)
  ELSE {}

\* run's local variables.
RunInv ==
  /\ run.at \in {"next", "exit"} =>
       run.batch = <<>> /\ run.active = <<>> /\ run.cursor = 1
  /\ run.at = "collect" => run.cursor = 1 /\ run.active = <<>>
  /\ run.at \in {"collect", "classify"} => run.cursor <= Len(run.batch) + 1
  /\ run.at \in {"refuse", "announce"} => run.cursor <= Len(run.batch)
  /\ run.at \in Deciding => Len(run.active) < run.cursor
  /\ run.at \in {"handle", "reply"} =>
       run.active # <<>> /\ run.cursor <= Len(run.active) + 1
  /\ run.at = "handle" => run.cursor = 1
  /\ run.at = "refuse" => run.refusal # "none"
  /\ run.at = "reply" => run.results \in {<<>>, run.active}
  /\ ~run.queueOpen => Drained
  /\ run.at = "exit" => Drained

\* Items enter the queue once, and keep that order in the queue, in the batch, in
\* the handler's batch and at the handler.
OrderInv ==
  /\ \A a, b \in 1..Len(admitted) : admitted[a] = admitted[b] => a = b
  /\ Ordered(admitted, queue) /\ Ordered(admitted, run.batch)
  /\ Ordered(admitted, run.active) /\ Ordered(admitted, handled)
  /\ Elements(queue) \cup Elements(run.batch) \cup Elements(handled) \subseteq Elements(admitted)
  /\ Elements(run.active) \subseteq Elements(run.batch)
  /\ AllBefore(admitted, Elements(run.batch) \cup Elements(handled), Elements(queue))
  /\ run.at \in Deciding => AllBefore(admitted, Elements(handled), Elements(run.batch))
  /\ AllBefore(admitted, Elements(run.active), Current \cup Undecided)
  /\ run.at \in {"handle", "reply"} => Elements(run.active) \subseteq Elements(handled)

\* Who has decided about item i: nobody, its caller, or dispatch.
WordOf(i) ==
  /\ i \notin Elements(admitted) => state[i] = "queued" /\ reply[i] = <<>>
  /\ i \in Elements(queue) \cup Undecided => state[i] # "dispatched" /\ reply[i] = <<>>
  /\ i \in Elements(run.active) \cup Elements(handled) \cup dispatched => state[i] = "dispatched"
  /\ i \in Current => state[i] = IF run.at = "refuse" THEN "expired" ELSE "dispatched"
  /\ i \in Elements(admitted) /\ state[i] = "queued" => pc[i] = "select" /\ reply[i] = <<>>
  /\ pc[i] = "await" => state[i] # "queued"

WordInv == \A i \in Items : WordOf(i)

\* What an answer r says of item i.
Sound(i, r) ==
  /\ r.kind = "value" => r.of = i /\ i \in Elements(handled)
  /\ r.kind = "delay" => state[i] = "expired"
  /\ r.kind \in {"full", "closed"} => i \notin Elements(admitted)

\* The answer to item i is sound, and a caller that waits has one to come.
AnswerOf(i) ==
  /\ outcome[i].kind = "none" <=> pc[i] # "returned"
  /\ pc[i] \in {"idle", "admit"} => i \notin Elements(admitted)
  /\ pc[i] \in {"select", "await"} => i \in Elements(admitted)
  /\ Sound(i, outcome[i])
  /\ reply[i] # <<>> => Sound(i, reply[i][1]) /\ reply[i][1].kind # "none"
  /\ i \in Owed => reply[i] = <<>> /\ outcome[i].kind \in {"none", "context"}
  /\ pc[i] \in {"select", "await"} =>
       \/ i \in Elements(queue) \cup Undecided /\ state[i] = "queued"
       \/ i \in Owed
       \/ reply[i] # <<>>

AnswerInv == \A i \in Items : AnswerOf(i)

IInv == TypeOK /\ RunInv /\ OrderInv /\ WordInv /\ AnswerInv
=============================================================================
