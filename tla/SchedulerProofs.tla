--------------------------- MODULE SchedulerProofs ---------------------------
(* Proofs about Scheduler, for any number of calls, any queue and batch size, *)
(* any deadlines and any interleaving.                                        *)
EXTENDS SchedulerInvariant, WellFoundedInduction, TLAPS

-----------------------------------------------------------------------------
(* Sequences and the sets of their elements.                                *)

\* What the send to a channel, or to a batch, adds to the items in it.
LEMMA AppendElements ==
  ASSUME NEW S, NEW s \in Seq(S), NEW e \in S
  PROVE  /\ Append(s, e) \in Seq(S) /\ Len(Append(s, e)) = Len(s) + 1
         /\ Elements(Append(s, e)) = Elements(s) \cup {e}
<1>1. /\ Append(s, e) \in Seq(S) /\ Len(Append(s, e)) = Len(s) + 1
      /\ \A k \in 1..Len(s) : Append(s, e)[k] = s[k]
      /\ Append(s, e)[Len(s) + 1] = e /\ Len(s) \in Nat
  OBVIOUS
<1>2. 1..(Len(s) + 1) = (1..Len(s)) \cup {Len(s) + 1}
  BY <1>1
<1> QED
  BY <1>1, <1>2 DEF Elements

\* What the receive from a channel takes out.
LEMMA TailElements ==
  ASSUME NEW S, NEW s \in Seq(S), s # <<>>
  PROVE  /\ Head(s) \in S /\ Tail(s) \in Seq(S) /\ Len(Tail(s)) = Len(s) - 1
         /\ Elements(s) = {Head(s)} \cup Elements(Tail(s))
         /\ Head(s) = s[1] /\ \A k \in 1..Len(Tail(s)) : Tail(s)[k] = s[k + 1]
<1>1. /\ Head(s) \in S /\ Tail(s) \in Seq(S) /\ Len(Tail(s)) = Len(s) - 1
      /\ Head(s) = s[1] /\ \A k \in 1..Len(Tail(s)) : Tail(s)[k] = s[k + 1]
      /\ Len(s) \in Nat \ {0}
  OBVIOUS
<1>2. ASSUME NEW k \in 1..Len(s) PROVE k = 1 \/ k - 1 \in 1..Len(Tail(s))
  BY <1>1
<1>3. Elements(s) \subseteq {Head(s)} \cup Elements(Tail(s))
  <2>1. ASSUME NEW k \in 1..Len(s), k # 1 PROVE s[k] = Tail(s)[k - 1]
    BY <1>1, <2>1
  <2> QED
    BY <1>1, <1>2, <2>1 DEF Elements
<1>4. {Head(s)} \cup Elements(Tail(s)) \subseteq Elements(s)
  <2>1. 1 \in 1..Len(s) /\ \A k \in 1..Len(Tail(s)) : k + 1 \in 1..Len(s)
    BY <1>1
  <2> QED
    BY <1>1, <2>1 DEF Elements
<1> QED
  BY <1>1, <1>3, <1>4

\* What the call of the handler adds to the items handled.
LEMMA ConcatElements ==
  ASSUME NEW S, NEW s \in Seq(S), NEW t \in Seq(S)
  PROVE  /\ s \o t \in Seq(S) /\ Len(s \o t) = Len(s) + Len(t)
         /\ \A k \in 1..Len(s) : (s \o t)[k] = s[k]
         /\ \A k \in 1..Len(t) : (s \o t)[Len(s) + k] = t[k]
         /\ Elements(s \o t) = Elements(s) \cup Elements(t)
<1>1. /\ s \o t \in Seq(S) /\ Len(s \o t) = Len(s) + Len(t)
      /\ \A k \in 1..Len(s) : (s \o t)[k] = s[k]
      /\ \A k \in 1..Len(t) : (s \o t)[Len(s) + k] = t[k]
      /\ Len(s) \in Nat /\ Len(t) \in Nat
  OBVIOUS
<1>2. ASSUME NEW k \in 1..Len(s \o t)
      PROVE  k \in 1..Len(s) \/ (k - Len(s) \in 1..Len(t) /\ (s \o t)[k] = t[k - Len(s)])
  BY <1>1
<1>3. Elements(s \o t) \subseteq Elements(s) \cup Elements(t)
  BY <1>1, <1>2 DEF Elements
<1>4. Elements(s) \cup Elements(t) \subseteq Elements(s \o t)
  <2>1. /\ \A k \in 1..Len(s) : k \in 1..Len(s \o t)
        /\ \A k \in 1..Len(t) : Len(s) + k \in 1..Len(s \o t)
    BY <1>1
  <2> QED
    BY <1>1, <2>1, Zenon DEF Elements
<1> QED
  BY <1>1, <1>3, <1>4

\* The elements from a place on: the one there, and those after it.
LEMMA FromElements ==
  ASSUME NEW S, NEW s \in Seq(S)
  PROVE  /\ From(s, 1) = Elements(s)
         /\ \A k \in Nat \ {0} : From(s, k) \subseteq Elements(s)
         /\ \A k \in 1..Len(s) : From(s, k) = {s[k]} \cup From(s, k + 1) /\ s[k] \in Elements(s)
         /\ \A k \in Nat : k > Len(s) => From(s, k) = {}
         /\ Elements(s) \subseteq S
<1>1. Len(s) \in Nat /\ \A k \in 1..Len(s) : s[k] \in S
  OBVIOUS
<1>2. \A k \in Nat \ {0} : k..Len(s) \subseteq 1..Len(s)
  BY <1>1
<1>3. \A k \in 1..Len(s) : k..Len(s) = {k} \cup ((k + 1)..Len(s))
  BY <1>1
<1>4. \A k \in Nat : k > Len(s) => k..Len(s) = {}
  BY <1>1
<1>5. From(s, 1) = Elements(s)
  BY DEF From, Elements
<1>6. \A k \in Nat \ {0} : From(s, k) \subseteq Elements(s)
  BY <1>2, Zenon DEF From, Elements
<1>7. \A k \in 1..Len(s) : From(s, k) = {s[k]} \cup From(s, k + 1) /\ s[k] \in Elements(s)
  BY <1>3 DEF From, Elements
<1>8. \A k \in Nat : k > Len(s) => From(s, k) = {}
  BY <1>4 DEF From
<1>9. Elements(s) \subseteq S
  BY <1>1, Zenon DEF Elements
<1> QED
  BY <1>5, <1>6, <1>7, <1>8, <1>9

-----------------------------------------------------------------------------
(* The order of the queue.                                                  *)

\* Nothing enters the queue before itself, since it enters only once.
LEMMA BeforeIrreflexive ==
  ASSUME OrderInv, NEW i PROVE ~Before(admitted, i, i)
BY DEF OrderInv, Before

\* An item that comes after the others keeps a sequence ordered.
LEMMA OrderedAppend ==
  ASSUME NEW h, NEW s \in Seq(Items), NEW e \in Items, Ordered(h, s), AllBefore(h, Elements(s), {e})
  PROVE  Ordered(h, Append(s, e))
<1>1. /\ Len(Append(s, e)) = Len(s) + 1 /\ Append(s, e)[Len(s) + 1] = e
      /\ \A k \in 1..Len(s) : Append(s, e)[k] = s[k]
      /\ Len(s) \in Nat
  OBVIOUS
<1>2. ASSUME NEW a \in 1..(Len(s) + 1), NEW b \in 1..(Len(s) + 1), a < b
      PROVE  Before(h, Append(s, e)[a], Append(s, e)[b])
  <2>1. a \in 1..Len(s)
    BY <1>1, <1>2
  <2>2. CASE b \in 1..Len(s)
    BY <1>1, <1>2, <2>1, <2>2 DEF Ordered
  <2>3. CASE b = Len(s) + 1
    BY <1>1, <2>1, <2>3 DEF AllBefore, Elements
  <2> QED
    BY <1>1, <2>2, <2>3
<1> QED
  BY <1>1, <1>2 DEF Ordered

\* What is left of an ordered sequence is ordered, and comes after its head.
LEMMA OrderedTail ==
  ASSUME NEW h, NEW s \in Seq(Items), s # <<>>, Ordered(h, s)
  PROVE  Ordered(h, Tail(s)) /\ AllBefore(h, {Head(s)}, Elements(Tail(s)))
<1>1. /\ Len(Tail(s)) = Len(s) - 1 /\ Head(s) = s[1] /\ Len(s) \in Nat \ {0}
      /\ \A k \in 1..Len(Tail(s)) : Tail(s)[k] = s[k + 1]
  BY TailElements
<1>2. \A k \in 1..Len(Tail(s)) : k + 1 \in 1..Len(s) /\ 1 < k + 1 /\ 1 \in 1..Len(s)
  BY <1>1
<1>3. \A a, b \in 1..Len(Tail(s)) : a < b => a + 1 < b + 1
  BY <1>1
<1> QED
  BY <1>1, <1>2, <1>3 DEF Ordered, AllBefore, Elements

\* Two ordered sequences, one after the other.
LEMMA OrderedConcat ==
  ASSUME NEW h, NEW s \in Seq(Items), NEW t \in Seq(Items), Ordered(h, s), Ordered(h, t),
         AllBefore(h, Elements(s), Elements(t))
  PROVE  Ordered(h, s \o t)
<1>1. /\ Len(s \o t) = Len(s) + Len(t) /\ Len(s) \in Nat /\ Len(t) \in Nat
      /\ \A k \in 1..Len(s) : (s \o t)[k] = s[k]
      /\ \A k \in 1..Len(t) : (s \o t)[Len(s) + k] = t[k]
  OBVIOUS
<1>2. ASSUME NEW a \in 1..Len(s \o t), NEW b \in 1..Len(s \o t), a < b
      PROVE  Before(h, (s \o t)[a], (s \o t)[b])
  <2>1. CASE b \in 1..Len(s)
    <3>1. a \in 1..Len(s)
      BY <1>1, <1>2, <2>1
    <3> QED
      BY <1>1, <1>2, <2>1, <3>1 DEF Ordered
  <2>2. CASE a \in 1..Len(s) /\ b \notin 1..Len(s)
    <3>1. b - Len(s) \in 1..Len(t) /\ (s \o t)[b] = t[b - Len(s)]
      BY <1>1, <2>2
    <3> QED
      BY <1>1, <2>2, <3>1 DEF AllBefore, Elements
  <2>3. CASE a \notin 1..Len(s)
    <3>1. /\ a - Len(s) \in 1..Len(t) /\ (s \o t)[a] = t[a - Len(s)]
          /\ b - Len(s) \in 1..Len(t) /\ (s \o t)[b] = t[b - Len(s)]
          /\ a - Len(s) < b - Len(s)
      BY <1>1, <1>2, <2>3
    <3> QED
      BY <3>1 DEF Ordered
  <2> QED
    BY <2>1, <2>2, <2>3
<1> QED
  BY <1>2 DEF Ordered

\* In an ordered sequence an element comes before all that are after it.
LEMMA OrderedFrom ==
  ASSUME NEW h, NEW s \in Seq(Items), Ordered(h, s), NEW k \in 1..Len(s)
  PROVE  AllBefore(h, {s[k]}, From(s, k + 1))
<1>1. \A j \in (k + 1)..Len(s) : j \in 1..Len(s) /\ k < j
  OBVIOUS
<1> QED
  BY <1>1 DEF Ordered, AllBefore, From

\* A longer history keeps the order, and ends with the item that entered last.
LEMMA HistoryGrows ==
  ASSUME NEW h \in Seq(Items), NEW i \in Items
  PROVE  /\ \A s : Ordered(h, s) => Ordered(Append(h, i), s)
         /\ \A S, T : AllBefore(h, S, T) => AllBefore(Append(h, i), S, T)
         /\ AllBefore(Append(h, i), Elements(h), {i})
<1>1. /\ Len(Append(h, i)) = Len(h) + 1 /\ Append(h, i)[Len(h) + 1] = i
      /\ \A k \in 1..Len(h) : Append(h, i)[k] = h[k] /\ k \in 1..Len(Append(h, i))
                             /\ k < Len(h) + 1
      /\ Len(h) + 1 \in 1..Len(Append(h, i))
  OBVIOUS
<1>2. \A x, y : Before(h, x, y) => Before(Append(h, i), x, y)
  BY <1>1, Zenon DEF Before
<1>3. \A x \in Elements(h) : Before(Append(h, i), x, i)
  BY <1>1 DEF Before, Elements
<1> QED
  BY <1>2, <1>3, Zenon DEF Ordered, AllBefore

-----------------------------------------------------------------------------
(* Types and run's local variables.                                         *)

\* The types of what the callers change.
LEMMA CallerTypes ==
  ASSUME TypeOK
  PROVE  /\ pc \in [Items -> Places] /\ outcome \in [Items -> Results]
         /\ state \in [Items -> {"queued", "dispatched", "expired"}]
BY DEF TypeOK

\* The types of the reply channels.
LEMMA ReplyTypes ==
  ASSUME TypeOK
  PROVE  /\ reply \in [Items -> Seq(Results)]
         /\ \A i \in Items : reply[i] \in Seq(Results) /\ Len(reply[i]) <= 1
BY DEF TypeOK

\* The types of the queue and of the histories.
LEMMA QueueTypes ==
  ASSUME TypeOK
  PROVE  /\ closed \in BOOLEAN
         /\ queue \in Seq(Items) /\ Len(queue) \in Nat /\ Len(queue) <= MaxQueue
         /\ admitted \in Seq(Items) /\ handled \in Seq(Items)
         /\ MaxQueue \in Nat
BY SchedulerAssumption DEF TypeOK

\* The types of the clocks.
LEMMA ClockTypes ==
  ASSUME TypeOK
  PROVE  /\ expiry \in [Items -> 0..MaxClock] /\ clock \in 0..MaxClock
         /\ MaxClock \in Nat /\ MaxDelay \in Nat
BY SchedulerAssumption DEF TypeOK

\* The fields of run.
LEMMA RunTypes ==
  ASSUME TypeOK
  PROVE  /\ run.at \in {"next", "collect", "classify", "refuse", "announce", "handle",
                        "reply", "exit"}
         /\ run.batch \in Seq(Items) /\ run.active \in Seq(Items) /\ run.results \in Seq(Items)
         /\ Len(run.batch) \in Nat /\ Len(run.active) \in Nat
         /\ Len(run.batch) <= MaxBatch /\ Len(run.active) <= Len(run.batch)
         /\ run.cursor \in Nat \ {0} /\ run.queueOpen \in BOOLEAN
         /\ run.refusal \in {"none", "context", "delay"}
         /\ MaxBatch \in Nat \ {0}
<1>1. run \in Locals /\ Len(run.batch) <= MaxBatch /\ Len(run.active) <= Len(run.batch)
  BY DEF TypeOK
<1> QED
  BY <1>1, SchedulerAssumption DEF Locals

\* The lengths and the cursor of dispatch are numbers.
LEMMA RunNumbers ==
  ASSUME TypeOK
  PROVE  /\ Len(run.batch) \in Nat /\ Len(run.active) \in Nat
         /\ run.cursor \in Nat \ {0} /\ run.queueOpen \in BOOLEAN
BY RunTypes

\* The errors are results.
LEMMA ErrorType == \A k \in ErrorKinds : Error(k) \in Results
BY DEF Results, Error

\* The scheduler starts in the invariant.
LEMMA InitIInv == Init => IInv
<1> SUFFICES ASSUME Init PROVE IInv
  OBVIOUS
<1>1. Elements(<<>>) = {} /\ Len(<<>>) = 0
  BY DEF Elements
<1>2. /\ run.at = "next" /\ run.batch = <<>> /\ run.active = <<>> /\ run.cursor = 1
      /\ run.queueOpen = TRUE
  BY DEF Init, Between
<1>3. run \in Locals
  BY SchedulerAssumption DEF Init, Between, Locals
<1>4. /\ outcome \in [Items -> Results] /\ pc \in [Items -> Places]
      /\ queue = <<>> /\ admitted = <<>> /\ handled = <<>>
  BY ErrorType DEF Init, ErrorKinds, Places
<1>5. reply \in [Items -> Seq(Results)] /\ \A i \in Items : Len(reply[i]) = 0
  BY DEF Init
<1>6. state \in [Items -> {"queued", "dispatched", "expired"}]
      /\ expiry \in [Items -> 0..MaxClock] /\ MaxQueue \in Nat /\ MaxBatch \in Nat
      /\ clock \in 0..MaxClock
  BY SchedulerAssumption DEF Init
<1>7. /\ closed \in BOOLEAN /\ dispatched = {} /\ cancelled = {}
      /\ deadline \in [Items -> Deadlines]
      /\ metrics \in [queueCount : Nat, batchCount : Nat, batchItems : Nat]
  BY Zenon DEF Init
<1> TypeOK
  BY <1>1, <1>2, <1>3, <1>4, <1>5, <1>6, <1>7 DEF TypeOK
<1>8. RunInv
  BY <1>2, Zenon DEF RunInv, Deciding
<1>9. Current = {} /\ Undecided = {} /\ Owed = {}
  BY <1>2 DEF Current, Undecided, Owed
<1>10. OrderInv
  BY <1>1, <1>2, <1>4, <1>9 DEF OrderInv, Ordered, AllBefore, Deciding
<1>11. WordInv
  BY <1>1, <1>2, <1>4, <1>9, Zenon DEF WordInv, WordOf, Init
<1>12. AnswerInv
  BY <1>1, <1>4, <1>9 DEF AnswerInv, AnswerOf, Sound, Error, Init
<1> QED
  BY <1>8, <1>10, <1>11, <1>12 DEF IInv

\* Every step of a caller keeps the types.
LEMMA SubmitType ==
  ASSUME TypeOK, NEW i \in Items, Begin(i) \/ Submit(i) \/ Cancel(i)
  PROVE  TypeOK'
<1> USE DEF callerVars, itemVars, contextVars, historyVars
<1>1. CASE Begin(i)
  <2>1. pc' \in [Items -> Places] /\ outcome' \in [Items -> Results]
    BY <1>1, CallerTypes, ErrorType DEF Begin, Return, ErrorKinds, Places
  <2>2. expiry' \in [Items -> 0..MaxClock]
    BY <1>1, ClockTypes DEF Begin
  <2> QED
    BY <1>1, <2>1, <2>2, Zenon DEF TypeOK, Begin
<1>2. CASE Admit(i)
  <2>1. /\ pc' \in [Items -> Places] /\ outcome' \in [Items -> Results]
    BY <1>2, CallerTypes, ErrorType DEF Admit, Return, ErrorKinds, Places
  <2>2. queue' \in Seq(Items) /\ Len(queue') <= MaxQueue /\ admitted' \in Seq(Items)
    <3>1. /\ Append(queue, i) \in Seq(Items) /\ Append(admitted, i) \in Seq(Items)
          /\ Len(Append(queue, i)) = Len(queue) + 1
      BY QueueTypes, AppendElements
    <3>2. CASE queue' = queue /\ admitted' = admitted
      BY <3>2, QueueTypes
    <3>3. CASE /\ ~(Len(queue) >= MaxQueue)
               /\ queue' = Append(queue, i) /\ admitted' = Append(admitted, i)
      <4>1. Len(queue) + 1 <= MaxQueue
        BY <3>3, QueueTypes
      <4> QED
        BY <3>1, <3>3, <4>1
    <3> QED
      BY <1>2, <3>2, <3>3, Zenon DEF Admit, Full
  <2> QED
    BY <1>2, <2>1, <2>2, Zenon DEF TypeOK, Admit
<1>3. CASE TakeReply(i)
  <2>1. reply[i] \in Seq(Results) /\ reply[i] # <<>> /\ Len(reply[i]) <= 1
    BY <1>3, ReplyTypes DEF TakeReply
  <2>2. Head(reply[i]) \in Results /\ Tail(reply[i]) \in Seq(Results) /\ Len(Tail(reply[i])) <= 1
    BY <2>1, TailElements
  <2>3. /\ pc' \in [Items -> Places] /\ outcome' \in [Items -> Results]
        /\ reply' \in [Items -> Seq(Results)]
    BY <1>3, <2>2, CallerTypes, ReplyTypes DEF TakeReply, Return, Places
  <2>4. \A j \in Items : Len(reply'[j]) <= 1
    BY <1>3, <2>2, ReplyTypes DEF TakeReply
  <2> QED
    BY <1>3, <2>3, <2>4 DEF TypeOK, TakeReply
<1>4. CASE SeeDispatched(i)
  <2>1. pc' \in [Items -> Places]
    BY <1>4, CallerTypes DEF SeeDispatched, Places
  <2> QED
    BY <1>4, <2>1 DEF TypeOK, SeeDispatched
<1>5. CASE TimerFires(i) \/ GiveUp(i) \/ GiveUpAwaiting(i)
  <2>1. /\ pc' \in [Items -> Places] /\ outcome' \in [Items -> Results]
        /\ state' \in [Items -> {"queued", "dispatched", "expired"}]
    BY <1>5, CallerTypes, ErrorType
    DEF TimerFires, GiveUp, GiveUpAwaiting, Return, ExpireIfQueued, ErrorKinds, Places
  <2> QED
    BY <1>5, <2>1, Zenon DEF TypeOK, TimerFires, GiveUp, GiveUpAwaiting
<1>6. CASE SeeDone(i)
  <2>1. reply[i] \in Seq(Results)
    BY ReplyTypes
  <2>2. (IF reply[i] # <<>> THEN Head(reply[i]) ELSE Error("closed")) \in Results
    BY <2>1, ErrorType, TailElements DEF ErrorKinds
  <2>3. /\ pc' \in [Items -> Places] /\ outcome' \in [Items -> Results]
        /\ reply' \in [Items -> Seq(Results)] /\ \A j \in Items : Len(reply'[j]) <= 1
    BY <1>6, <2>2, CallerTypes, ReplyTypes DEF SeeDone, Return, Places
  <2> QED
    BY <1>6, <2>3 DEF TypeOK, SeeDone
<1>7. CASE Cancel(i)
  BY <1>7 DEF TypeOK, Cancel
<1> QED
  BY <1>1, <1>2, <1>3, <1>4, <1>5, <1>6, <1>7 DEF Submit

\* The item received and what is left in the queue.
LEMMA ReceiveTypes ==
  ASSUME TypeOK, queue # <<>>
  PROVE  /\ Head(queue) \in Items /\ Tail(queue) \in Seq(Items)
         /\ Len(Tail(queue)) <= MaxQueue
         /\ <<Head(queue)>> \in Seq(Items) /\ Len(<<Head(queue)>>) = 1
         /\ Elements(<<Head(queue)>>) = {Head(queue)}
<1>1. /\ Head(queue) \in Items /\ Tail(queue) \in Seq(Items)
      /\ Len(Tail(queue)) <= MaxQueue
  BY QueueTypes, TailElements
<1>2. <<Head(queue)>> \in Seq(Items) /\ Len(<<Head(queue)>>) = 1
  BY <1>1
<1> QED
  BY <1>1, <1>2 DEF Elements

\* run's steps that receive keep the types.
LEMMA ReceiveType ==
  ASSUME TypeOK, RunInv, NextQueued \/ Collect
  PROVE  TypeOK'
<1> USE DEF callerVars, itemVars, contextVars, historyVars
<1>1. run \in Locals /\ clock \in 0..MaxClock
  BY DEF TypeOK
<1>2. CASE UNCHANGED run /\ queue # <<>> /\ queue' = Tail(queue)
  BY <1>2, ReceiveTypes, Zenon DEF TypeOK, NextQueued, Collect
<1>3. ASSUME UNCHANGED queue,
             \/ run' = [run EXCEPT !.at = "exit"]
             \/ run' = [run EXCEPT !.at = "classify", !.now = clock, !.queueOpen = TRUE]
             \/ run' = [run EXCEPT !.at = "classify", !.now = clock, !.queueOpen = FALSE]
      PROVE  TypeOK'
  <2>1. run' \in Locals /\ run'.active = run.active /\ run'.batch = run.batch
    BY <1>1, <1>3, Zenon DEF Locals
  <2> QED
    BY <1>3, <2>1, Zenon DEF TypeOK, NextQueued, Collect
<1>4. ASSUME queue # <<>>, queue' = Tail(queue), NEW b \in Seq(Items),
             Len(b) <= MaxBatch, Len(run.active) <= Len(b),
             run' = [run EXCEPT !.batch = b] \/ run' = [run EXCEPT !.at = "collect", !.batch = b]
      PROVE  TypeOK'
  <2>1. run' \in Locals /\ run'.active = run.active /\ run'.batch = b
    BY <1>1, <1>4, Zenon DEF Locals
  <2> QED
    BY <1>4, <2>1, ReceiveTypes, Zenon DEF TypeOK, NextQueued, Collect
<1>5. CASE NextQueued
  <2>1. run.active = <<>> /\ MaxBatch >= 1
    BY <1>5, RunTypes DEF NextQueued, RunInv
  <2>2. queue # <<>> => Len(<<Head(queue)>>) <= MaxBatch /\ Len(run.active) <= Len(<<Head(queue)>>)
    BY <2>1, ReceiveTypes
  <2> QED
    BY <1>2, <1>3, <1>4, <1>5, <2>2, ReceiveTypes, Zenon DEF NextQueued
<1>6. CASE Collect
  <2>1. CASE queue # <<>> /\ Len(run.batch) < MaxBatch
    <3>1. /\ Join(Head(queue)) \in Seq(Items)
          /\ Len(Join(Head(queue))) = Len(run.batch) + 1
      BY <2>1, ReceiveTypes, RunTypes, AppendElements DEF Join
    <3>2. Len(Join(Head(queue))) <= MaxBatch /\ Len(run.active) <= Len(Join(Head(queue)))
      BY <2>1, <3>1, RunTypes
    <3> QED
      BY <1>2, <1>3, <1>4, <1>6, <2>1, <3>1, <3>2, Zenon DEF Collect, StartDispatch
  <2>2. CASE ~(queue # <<>> /\ Len(run.batch) < MaxBatch)
    BY <1>3, <1>6, <2>2, Zenon DEF Collect, StartDispatch
  <2> QED
    BY <2>1, <2>2
<1> QED
  BY <1>5, <1>6

\* The item dispatch is at, and the ones that join the handler's batch.
LEMMA CursorTypes ==
  ASSUME TypeOK, RunInv, run.at \in {"refuse", "announce"}
  PROVE  /\ run.batch[run.cursor] \in Items /\ run.cursor \in 1..Len(run.batch)
         /\ run.cursor + 1 \in 1..(MaxBatch + 1)
         /\ Append(run.active, run.batch[run.cursor]) \in Seq(Items)
         /\ Len(Append(run.active, run.batch[run.cursor])) <= Len(run.batch)
<1>1. /\ run.cursor \in 1..Len(run.batch) /\ Len(run.active) + 1 <= Len(run.batch)
      /\ run.cursor + 1 \in 1..(MaxBatch + 1)
  BY RunTypes DEF RunInv, Deciding
<1>2. run.batch[run.cursor] \in Items
  BY <1>1, RunTypes
<1> QED
  BY <1>1, <1>2, RunTypes, AppendElements

\* A send on an item's empty reply channel keeps the channels' types.
LEMMA SendType ==
  ASSUME TypeOK, NEW i \in Items, NEW r \in Results, Send(i, r)
  PROVE  /\ reply' \in [Items -> Seq(Results)] /\ \A j \in Items : Len(reply'[j]) <= 1
         /\ reply[i] = <<>> /\ reply'[i] = <<r>>
         /\ \A j \in Items : j # i => reply'[j] = reply[j]
<1>1. reply[i] = <<>>
  BY ReplyTypes DEF Send
<1>2. Append(reply[i], r) = <<r>> /\ <<r>> \in Seq(Results) /\ Len(<<r>>) = 1
  BY <1>1
<1>3. reply' = [reply EXCEPT ![i] = <<r>>]
  BY <1>2 DEF Send
<1> QED
  BY <1>1, <1>2, <1>3, ReplyTypes

\* dispatch's steps before the handler keep the types.
LEMMA DecideType ==
  ASSUME TypeOK, RunInv, Classify \/ Refuse \/ Announce
  PROVE  TypeOK'
<1> USE DEF callerVars, itemVars, contextVars, historyVars
<1>1. run \in Locals
  BY DEF TypeOK
<1>2. CASE Classify
  <2>1. run.cursor + 1 \in 1..(MaxBatch + 1)
    BY <1>2, RunTypes DEF Classify
  <2>2. run.batch[run.cursor] \in Items
    BY <1>2, RunTypes DEF Classify
  <2>3. state' \in [Items -> {"queued", "dispatched", "expired"}]
    BY <1>2, <2>2, CallerTypes DEF Classify
  <2>4. \A i : Refusal(i) \in {"none", "context", "delay"}
    BY Zenon DEF Refusal
  <2>5. run' \in Locals /\ run'.active = run.active /\ run'.batch = run.batch
    BY <1>1, <1>2, <2>1, <2>4, Zenon DEF Locals, Classify
  <2> QED
    BY <1>2, <2>3, <2>5, Zenon DEF TypeOK, Classify
<1>3. CASE Refuse
  <2>1. Error(run.refusal) \in Results
    BY RunTypes, ErrorType DEF ErrorKinds
  <2>2. reply' \in [Items -> Seq(Results)] /\ \A j \in Items : Len(reply'[j]) <= 1
    BY <1>3, <2>1, CursorTypes, SendType DEF Refuse
  <2>3. run' \in Locals /\ run'.active = run.active /\ run'.batch = run.batch
    BY <1>1, <1>3, CursorTypes, Zenon DEF Locals, Refuse
  <2> QED
    BY <1>3, <2>2, <2>3, Zenon DEF TypeOK, Refuse
<1>4. CASE Announce
  <2>1. run' \in Locals /\ run'.batch = run.batch
        /\ run'.active = Append(run.active, run.batch[run.cursor])
    BY <1>1, <1>4, CursorTypes, Zenon DEF Locals, Announce
  <2>2. dispatched' \subseteq Items
    BY <1>4, CursorTypes, Zenon DEF Announce, TypeOK
  <2>3. metrics \in [queueCount : Nat, batchCount : Nat, batchItems : Nat]
    BY DEF TypeOK
  <2>4. metrics' \in [queueCount : Nat, batchCount : Nat, batchItems : Nat]
    BY <1>4, <2>3 DEF Announce, ObserveQueue
  <2>5. Len(run'.active) <= Len(run'.batch) /\ Len(run'.batch) <= MaxBatch
    BY <1>4, <2>1, CursorTypes, RunTypes, Zenon DEF Announce
  <2> QED
    BY <1>4, <2>1, <2>2, <2>4, <2>5, Zenon DEF TypeOK, Announce
<1> QED
  BY <1>2, <1>3, <1>4

\* What is left when dispatch returns to run.
LEMMA LeaveTypes ==
  ASSUME TypeOK, LeaveDispatch
  PROVE  /\ run' \in Locals /\ run'.batch = <<>> /\ run'.active = <<>> /\ run'.cursor = 1
         /\ run'.at = (IF run.queueOpen THEN "next" ELSE "exit")
         /\ run'.queueOpen = run.queueOpen
<1>1. MaxBatch \in Nat /\ MaxClock \in Nat /\ run.queueOpen \in BOOLEAN
  BY RunTypes, SchedulerAssumption
<1> QED
  BY <1>1 DEF LeaveDispatch, Between, Locals

\* dispatch's call of the handler and its replies keep the types.
LEMMA HandleType ==
  ASSUME TypeOK, RunInv, EndClassify \/ Handle \/ Reply
  PROVE  TypeOK'
<1> USE DEF callerVars, itemVars, contextVars, historyVars
<1>1. run \in Locals
  BY DEF TypeOK
<1>2. CASE LeaveDispatch /\ UNCHANGED <<metrics, handled, reply>>
  <2>1. Len(run'.active) <= Len(run'.batch) /\ Len(run'.batch) <= MaxBatch
    BY <1>2, LeaveTypes, RunTypes
  <2> QED
    BY <1>2, <2>1, LeaveTypes, Zenon DEF TypeOK, EndClassify, Handle, Reply
<1>3. CASE EndClassify /\ run.active # <<>>
  <2>1. 1 \in 1..(MaxBatch + 1)
    BY RunTypes
  <2>2. run' \in Locals /\ run'.active = run.active /\ run'.batch = run.batch
    BY <1>1, <1>3, <2>1, Zenon DEF Locals, EndClassify
  <2>3. handled' = handled \o run.active /\ metrics' = ObserveBatch(Len(run.active))
    BY <1>3, Zenon DEF EndClassify
  <2>4. handled' \in Seq(Items)
    BY <2>3, QueueTypes, RunTypes, ConcatElements
  <2>5. metrics \in [queueCount : Nat, batchCount : Nat, batchItems : Nat]
    BY DEF TypeOK
  <2>6. metrics' \in [queueCount : Nat, batchCount : Nat, batchItems : Nat]
    <3>1. Len(run.active) \in Nat
      BY RunTypes
    <3>2. metrics.batchCount + 1 \in Nat /\ metrics.batchItems + Len(run.active) \in Nat
      BY <2>5, <3>1
    <3> QED
      BY <2>3, <2>5, <3>2, Zenon DEF ObserveBatch
  <2> QED
    BY <1>3, <2>2, <2>4, <2>6, Zenon DEF TypeOK, EndClassify
<1>4. CASE Handle
  <2>1. PICK r \in {run.active, Tail(run.active), <<Head(run.active)>> \o run.active},
             err \in BOOLEAN :
          run' = [run EXCEPT !.at = "reply",
                             !.results = IF ~err /\ OneEach(r) THEN r ELSE <<>>]
    BY <1>4, Zenon DEF Handle
  <2>2. OneEach(r) => r = run.active
    <3>1. run.active # <<>> /\ run.active \in Seq(Items)
      BY <1>4, RunTypes, Zenon DEF RunInv, Handle
    <3>2. /\ Len(Tail(run.active)) # Len(run.active)
          /\ Len(<<Head(run.active)>> \o run.active) # Len(run.active)
      <4>1. Head(run.active) \in Items /\ <<Head(run.active)>> \in Seq(Items)
            /\ Len(<<Head(run.active)>>) = 1
        BY <3>1, TailElements
      <4> QED
        BY <3>1, <4>1, TailElements, ConcatElements
    <3> QED
      BY <3>2, <2>1, Zenon DEF OneEach
  <2>3. (IF ~err /\ OneEach(r) THEN r ELSE <<>>) \in Seq(Items)
    BY <2>2, RunTypes
  <2>4. run' \in Locals /\ run'.active = run.active /\ run'.batch = run.batch
    BY <1>1, <2>1, <2>3, Zenon DEF Locals
  <2> QED
    BY <1>4, <2>4, Zenon DEF TypeOK, Handle
<1>5. CASE Reply /\ run.cursor <= Len(run.active)
  <2>1. /\ run.active[run.cursor] \in Items /\ run.cursor \in 1..Len(run.active)
        /\ run.cursor + 1 \in 1..(MaxBatch + 1)
    BY <1>5, RunTypes
  <2>2. ResultFor(run.cursor) \in Results
    <3>1. run.results # <<>> => run.results[run.cursor] \in Items
      BY <1>5, <2>1 DEF Reply, RunInv
    <3>2. \A j \in Items : Value(j) \in Results
      BY DEF Value, Results
    <3> QED
      BY <3>1, <3>2, ErrorType DEF ResultFor, ErrorKinds
  <2>3. Send(run.active[run.cursor], ResultFor(run.cursor)) /\ run' = [run EXCEPT !.cursor = @ + 1]
    <3>1. ~(run.cursor > Len(run.active))
      BY <1>5, RunTypes
    <3> QED
      BY <1>5, <3>1, Zenon DEF Reply
  <2>4. reply' \in [Items -> Seq(Results)] /\ \A j \in Items : Len(reply'[j]) <= 1
    BY <2>1, <2>2, <2>3, SendType
  <2>5. run' \in Locals /\ run'.active = run.active /\ run'.batch = run.batch
    BY <1>1, <2>1, <2>3, Zenon DEF Locals
  <2> QED
    BY <1>5, <2>4, <2>5, Zenon DEF TypeOK, Reply
<1> QED
  BY <1>2, <1>3, <1>4, <1>5, Zenon DEF EndClassify, Reply

\* Every step keeps the types.
LEMMA TypeStep ==
  ASSUME TypeOK, RunInv, [Next]_vars
  PROVE  TypeOK'
<1>1. CASE Close
  BY <1>1, Zenon DEF TypeOK, Close, callerVars, itemVars, contextVars, historyVars
<1>2. CASE Tick
  <2>1. clock' \in 0..MaxClock
    BY <1>2, ClockTypes DEF Tick
  <2> QED
    BY <1>2, <2>1, Zenon DEF TypeOK, Tick, callerVars, itemVars, contextVars, historyVars
<1>3. CASE UNCHANGED vars
  BY <1>3, Zenon DEF TypeOK, vars, callerVars, itemVars, contextVars, historyVars
<1> QED
  BY <1>1, <1>2, <1>3, SubmitType, ReceiveType, DecideType, HandleType, Zenon DEF Next, Run

-----------------------------------------------------------------------------
(* What the steps of run do to its local variables, field by field.         *)

RunMoves(place, batch, active, cursor, open) ==
  /\ run'.at = place /\ run'.batch = batch /\ run'.active = active
  /\ run'.cursor = cursor /\ run'.queueOpen = open

Elsewhere ==
  /\ closed' = closed /\ pc' = pc /\ outcome' = outcome /\ expiry' = expiry
  /\ deadline' = deadline /\ cancelled' = cancelled /\ clock' = clock /\ admitted' = admitted

\* nextQueued: it ends run, skips an item, or starts a batch.
LEMMA NextEffect ==
  ASSUME TypeOK, NextQueued
  PROVE  /\ run.at = "next" /\ Elsewhere
         /\ state' = state /\ reply' = reply /\ dispatched' = dispatched /\ handled' = handled
         /\ \/ /\ Drained /\ queue' = queue
               /\ RunMoves("exit", run.batch, run.active, run.cursor, run.queueOpen)
            \/ /\ queue # <<>> /\ queue' = Tail(queue)
               /\ state[Head(queue)] # "queued" /\ run' = run
            \/ /\ queue # <<>> /\ queue' = Tail(queue) /\ state[Head(queue)] = "queued"
               /\ RunMoves("collect", <<Head(queue)>>, run.active, run.cursor, run.queueOpen)
<1> run \in Locals
  BY DEF TypeOK
<1> QED
  BY Zenon DEF NextQueued, RunMoves, Elsewhere, Locals, callerVars, itemVars, contextVars, historyVars

\* The collect loop: it ends, skips an item, or puts one in the batch.
LEMMA CollectEffect ==
  ASSUME TypeOK, Collect
  PROVE  /\ run.at = "collect" /\ Elsewhere
         /\ state' = state /\ reply' = reply /\ dispatched' = dispatched /\ handled' = handled
         /\ \/ /\ queue' = queue
               /\ RunMoves("classify", run.batch, run.active, run.cursor, TRUE)
            \/ /\ Drained /\ queue' = queue
               /\ RunMoves("classify", run.batch, run.active, run.cursor, FALSE)
            \/ /\ queue # <<>> /\ queue' = Tail(queue)
               /\ state[Head(queue)] # "queued" /\ run' = run
            \/ /\ queue # <<>> /\ queue' = Tail(queue) /\ state[Head(queue)] = "queued"
               /\ RunMoves("collect", Append(run.batch, Head(queue)), run.active, run.cursor,
                           run.queueOpen)
<1> run \in Locals
  BY DEF TypeOK
<1> QED
  BY Zenon DEF Collect, StartDispatch, Join, RunMoves, Elsewhere, Locals, callerVars, itemVars,
     contextVars, historyVars

\* One iteration of the loop of dispatch: an item is refused, taken, or skipped.
LEMMA ClassifyEffect ==
  ASSUME TypeOK, Classify
  PROVE  /\ run.at = "classify" /\ run.cursor \in 1..Len(run.batch)
         /\ run.batch[run.cursor] \in Items
         /\ Elsewhere
         /\ queue' = queue /\ reply' = reply /\ dispatched' = dispatched /\ handled' = handled
         /\ \/ /\ state[run.batch[run.cursor]] = "queued"
               /\ state' = [state EXCEPT ![run.batch[run.cursor]] = "expired"]
               /\ RunMoves("refuse", run.batch, run.active, run.cursor, run.queueOpen)
               /\ run'.refusal # "none"
            \/ /\ state[run.batch[run.cursor]] = "queued"
               /\ state' = [state EXCEPT ![run.batch[run.cursor]] = "dispatched"]
               /\ RunMoves("announce", run.batch, run.active, run.cursor, run.queueOpen)
            \/ /\ state[run.batch[run.cursor]] # "queued" /\ state' = state
               /\ RunMoves("classify", run.batch, run.active, run.cursor + 1, run.queueOpen)
<1> run \in Locals
  BY DEF TypeOK
<1>1. run.at = "classify" /\ run.cursor <= Len(run.batch)
  BY Zenon DEF Classify
<1>2. run.cursor \in 1..Len(run.batch) /\ run.batch[run.cursor] \in Items
  BY <1>1, RunTypes
<1> QED
  BY <1>1, <1>2, Zenon DEF Classify, Won, RunMoves, Elsewhere, Locals, callerVars, itemVars,
     contextVars, historyVars

\* The refusal of the item dispatch has expired.
LEMMA RefuseEffect ==
  ASSUME TypeOK, RunInv, Refuse
  PROVE  /\ run.at = "refuse" /\ run.cursor \in 1..Len(run.batch)
         /\ run.batch[run.cursor] \in Items
         /\ Elsewhere
         /\ queue' = queue /\ state' = state /\ dispatched' = dispatched /\ handled' = handled
         /\ reply[run.batch[run.cursor]] = <<>>
         /\ reply'[run.batch[run.cursor]] = <<Error(run.refusal)>>
         /\ \A j \in Items : j # run.batch[run.cursor] => reply'[j] = reply[j]
         /\ RunMoves("classify", run.batch, run.active, run.cursor + 1, run.queueOpen)
<1> run \in Locals
  BY DEF TypeOK
<1>1. run.at = "refuse" /\ Send(run.batch[run.cursor], Error(run.refusal))
  BY Zenon DEF Refuse
<1>2. Error(run.refusal) \in Results
  BY RunTypes, ErrorType DEF ErrorKinds
<1>3. RunMoves("classify", run.batch, run.active, run.cursor + 1, run.queueOpen)
  BY Zenon DEF Refuse, RunMoves, Locals
<1>4. Elsewhere /\ queue' = queue /\ state' = state /\ dispatched' = dispatched /\ handled' = handled
  BY Zenon DEF Refuse, Elsewhere, callerVars, contextVars, historyVars
<1> QED
  BY <1>1, <1>2, <1>3, <1>4, CursorTypes, SendType

\* The item dispatch has taken joins the handler's batch.
LEMMA AnnounceEffect ==
  ASSUME TypeOK, RunInv, Announce
  PROVE  /\ run.at = "announce" /\ run.cursor \in 1..Len(run.batch)
         /\ run.batch[run.cursor] \in Items
         /\ Elsewhere
         /\ queue' = queue /\ state' = state /\ reply' = reply /\ handled' = handled
         /\ dispatched' = dispatched \cup {run.batch[run.cursor]}
         /\ RunMoves("classify", run.batch, Append(run.active, run.batch[run.cursor]),
                     run.cursor + 1, run.queueOpen)
<1> run \in Locals
  BY DEF TypeOK
<1>1. run.at = "announce"
  BY Zenon DEF Announce
<1> QED
  BY <1>1, CursorTypes, Zenon DEF Announce, RunMoves, Elsewhere, Locals, callerVars, contextVars

\* The end of the loop: dispatch returns, or the handler is called.
LEMMA EndEffect ==
  ASSUME TypeOK, EndClassify
  PROVE  /\ run.at = "classify" /\ run.cursor > Len(run.batch)
         /\ Elsewhere
         /\ queue' = queue /\ state' = state /\ reply' = reply /\ dispatched' = dispatched
         /\ \/ /\ run.active = <<>> /\ handled' = handled
               /\ RunMoves(IF run.queueOpen THEN "next" ELSE "exit", <<>>, <<>>, 1, run.queueOpen)
            \/ /\ run.active # <<>> /\ handled' = handled \o run.active
               /\ RunMoves("handle", run.batch, run.active, 1, run.queueOpen)
<1> run \in Locals
  BY DEF TypeOK
<1> QED
  BY LeaveTypes, Zenon DEF EndClassify, RunMoves, Elsewhere, Locals, callerVars, itemVars,
     contextVars

\* The handler returns: results for its batch, or none.
LEMMA HandleEffect ==
  ASSUME TypeOK, RunInv, Handle
  PROVE  /\ run.at = "handle" /\ Elsewhere
         /\ queue' = queue /\ state' = state /\ reply' = reply /\ dispatched' = dispatched
         /\ handled' = handled
         /\ RunMoves("reply", run.batch, run.active, run.cursor, run.queueOpen)
         /\ run'.results \in {<<>>, run.active}
<1> run \in Locals
  BY DEF TypeOK
<1>1. run.active # <<>> /\ run.active \in Seq(Items)
  BY RunTypes, Zenon DEF RunInv, Handle
<1>2. /\ Len(Tail(run.active)) # Len(run.active)
      /\ Len(<<Head(run.active)>> \o run.active) # Len(run.active)
  <2>1. /\ Head(run.active) \in Items /\ <<Head(run.active)>> \in Seq(Items)
        /\ Len(<<Head(run.active)>>) = 1
    BY <1>1, TailElements
  <2> QED
    BY <1>1, <2>1, TailElements, ConcatElements
<1>3. PICK r \in {run.active, Tail(run.active), <<Head(run.active)>> \o run.active},
           err \in BOOLEAN :
        run' = [run EXCEPT !.at = "reply",
                           !.results = IF ~err /\ OneEach(r) THEN r ELSE <<>>]
  BY Zenon DEF Handle
<1>4. (IF ~err /\ OneEach(r) THEN r ELSE <<>>) \in {<<>>, run.active}
  BY <1>2, <1>3, Zenon DEF OneEach
<1>5. RunMoves("reply", run.batch, run.active, run.cursor, run.queueOpen)
  BY <1>3, Zenon DEF RunMoves, Locals
<1>6. run'.results = IF ~err /\ OneEach(r) THEN r ELSE <<>>
  BY <1>3, Zenon DEF Locals
<1> QED
  BY <1>4, <1>5, <1>6, Zenon DEF Handle, Elsewhere, callerVars, itemVars, contextVars, historyVars

\* One iteration of the reply loop, or its end.
LEMMA ReplyEffect ==
  ASSUME TypeOK, RunInv, Reply
  PROVE  /\ run.at = "reply" /\ Elsewhere
         /\ queue' = queue /\ state' = state /\ dispatched' = dispatched /\ handled' = handled
         /\ \/ /\ run.cursor \in 1..Len(run.active) /\ run.active[run.cursor] \in Items
               /\ reply[run.active[run.cursor]] = <<>>
               /\ reply'[run.active[run.cursor]] = <<ResultFor(run.cursor)>>
               /\ \A j \in Items : j # run.active[run.cursor] => reply'[j] = reply[j]
               /\ RunMoves("reply", run.batch, run.active, run.cursor + 1, run.queueOpen)
               /\ run'.results = run.results
            \/ /\ run.cursor > Len(run.active) /\ reply' = reply
               /\ RunMoves(IF run.queueOpen THEN "next" ELSE "exit", <<>>, <<>>, 1, run.queueOpen)
<1> run \in Locals
  BY DEF TypeOK
<1>1. run.at = "reply" /\ Elsewhere
         /\ queue' = queue /\ state' = state /\ dispatched' = dispatched /\ handled' = handled
  BY Zenon DEF Reply, Elsewhere, callerVars, contextVars, historyVars
<1>2. CASE run.cursor <= Len(run.active)
  <2>1. run.cursor \in 1..Len(run.active) /\ run.active[run.cursor] \in Items
        /\ ~(run.cursor > Len(run.active))
    BY <1>2, RunTypes
  <2>2. Send(run.active[run.cursor], ResultFor(run.cursor)) /\ run' = [run EXCEPT !.cursor = @ + 1]
    BY <2>1, Zenon DEF Reply
  <2>3. ResultFor(run.cursor) \in Results
    <3>1. run.results # <<>> => run.results[run.cursor] \in Items
      BY <1>1, <2>1 DEF RunInv
    <3>2. \A j \in Items : Value(j) \in Results
      BY DEF Value, Results
    <3> QED
      BY <3>1, <3>2, ErrorType DEF ResultFor, ErrorKinds
  <2>4. /\ RunMoves("reply", run.batch, run.active, run.cursor + 1, run.queueOpen)
        /\ run'.results = run.results
    BY <1>1, <2>2, Zenon DEF RunMoves, Locals
  <2> QED
    BY <1>1, <2>1, <2>2, <2>3, <2>4, SendType
<1>3. CASE ~(run.cursor <= Len(run.active))
  <2>1. LeaveDispatch /\ reply' = reply /\ run.cursor > Len(run.active)
    BY <1>3, Zenon DEF Reply
  <2> QED
    BY <1>1, <2>1, LeaveTypes DEF RunMoves
<1> QED
  BY <1>2, <1>3

-----------------------------------------------------------------------------
(* run's local variables.                                                   *)

\* Every step of run keeps its local variables consistent.
LEMMA RunRunInv ==
  ASSUME TypeOK, RunInv, Run
  PROVE  RunInv'
<1> USE DEF RunInv, Deciding, RunMoves, Elsewhere
<1>1. CASE NextQueued
  <2>1. Drained' <=> closed /\ queue' = <<>>
    BY <1>1, NextEffect DEF Drained
  <2> QED
    BY <1>1, <2>1, NextEffect, ReceiveTypes, RunNumbers DEF Drained
<1>2. CASE Collect
  <2>1. Drained' <=> closed /\ queue' = <<>>
    BY <1>2, CollectEffect DEF Drained
  <2>2. queue # <<>> => Len(Append(run.batch, Head(queue))) = Len(run.batch) + 1
    BY RunTypes, ReceiveTypes, AppendElements
  <2>3. /\ run'.at \in {"collect", "classify"} /\ run'.active = run.active
        /\ run'.cursor = run.cursor /\ run.at = "collect"
    BY <1>2, CollectEffect, Zenon
  <2>4. Len(run'.batch) \in Nat
    BY <1>2, <2>2, CollectEffect, RunNumbers
  <2>5. ~run'.queueOpen => Drained'
    <3>1. CASE run' = run /\ queue # <<>>
      BY <3>1 DEF Drained
    <3>2. CASE run'.queueOpen = run.queueOpen /\ queue # <<>>
      BY <3>2 DEF Drained
    <3>3. CASE queue' = queue /\ (run'.queueOpen \/ Drained)
      BY <2>1, <3>3 DEF Drained
    <3> QED
      BY <1>2, <3>1, <3>2, <3>3, CollectEffect, Zenon
  <2> QED
    BY <2>3, <2>4, <2>5
<1>3. CASE Classify
  <2>1. Drained' <=> Drained
    BY <1>3, ClassifyEffect DEF Drained
  <2> QED
    BY <1>3, <2>1, ClassifyEffect, RunNumbers
<1>4. CASE Refuse
  <2>1. Drained' <=> Drained
    BY <1>4, RefuseEffect DEF Drained
  <2> QED
    BY <1>4, <2>1, RefuseEffect, RunNumbers
<1>5. CASE Announce
  <2>1. Drained' <=> Drained
    BY <1>5, AnnounceEffect DEF Drained
  <2> QED
    BY <1>5, <2>1, AnnounceEffect, RunNumbers, AppendElements
<1>6. CASE EndClassify
  <2>1. Drained' <=> Drained
    BY <1>6, EndEffect DEF Drained
  <2> QED
    BY <1>6, <2>1, EndEffect, RunNumbers
<1>7. CASE Handle
  <2>1. Drained' <=> Drained
    BY <1>7, HandleEffect DEF Drained
  <2> QED
    BY <1>7, <2>1, HandleEffect, RunNumbers
<1>8. CASE Reply
  <2>1. Drained' <=> Drained
    BY <1>8, ReplyEffect DEF Drained
  <2> QED
    BY <1>8, <2>1, ReplyEffect, RunNumbers
<1> QED
  BY <1>1, <1>2, <1>3, <1>4, <1>5, <1>6, <1>7, <1>8, Zenon DEF Run

\* So does every other step: once closed and drained, the queue stays so.
LEMMA RunInvStep ==
  ASSUME TypeOK, RunInv, [Next]_vars
  PROVE  RunInv'
<1>1. CASE run' = run /\ (Drained => Drained')
  BY <1>1, Zenon DEF RunInv
<1>2. ASSUME NEW i \in Items, Begin(i) \/ Submit(i) \/ Cancel(i)
      PROVE  run' = run /\ (Drained => Drained')
  <2>1. CASE Admit(i)
    BY <2>1 DEF Admit, Drained
  <2>2. CASE Begin(i) \/ Cancel(i) \/ SeeDispatched(i) \/ GiveUpAwaiting(i)
    BY <2>2 DEF Begin, Cancel, SeeDispatched, GiveUpAwaiting, Drained
  <2>3. CASE TakeReply(i) \/ TimerFires(i) \/ GiveUp(i) \/ SeeDone(i)
    BY <2>3 DEF TakeReply, TimerFires, GiveUp, SeeDone, Drained
  <2> QED
    BY <1>2, <2>1, <2>2, <2>3, Zenon DEF Submit
<1>3. ASSUME Close \/ Tick \/ UNCHANGED vars
      PROVE  run' = run /\ (Drained => Drained')
  BY <1>3 DEF Close, Tick, vars, Drained
<1> QED
  BY <1>1, <1>2, <1>3, RunRunInv, Zenon DEF Next

-----------------------------------------------------------------------------
(* The order of the items.                                                  *)

\* Where the items that dispatch has to decide about are.
LEMMA DecidingItems ==
  ASSUME TypeOK, RunInv
  PROVE  /\ Current \cup Undecided \subseteq Elements(run.batch)
         /\ run.at \in {"collect", "classify"} =>
              Current = {} /\ Undecided = From(run.batch, run.cursor)
         /\ run.at \in {"refuse", "announce"} =>
              Current = {run.batch[run.cursor]} /\ Undecided = From(run.batch, run.cursor + 1)
         /\ run.at \notin Deciding => Current = {} /\ Undecided = {}
<1>1. run.batch \in Seq(Items) /\ run.cursor \in Nat \ {0} /\ run.cursor + 1 \in Nat \ {0}
  BY RunTypes
<1>2. run.at \in {"refuse", "announce"} => run.cursor \in 1..Len(run.batch)
  BY CursorTypes
<1>3. /\ From(run.batch, run.cursor) \subseteq Elements(run.batch)
      /\ From(run.batch, run.cursor + 1) \subseteq Elements(run.batch)
  BY <1>1, FromElements, Zenon
<1>4. run.at \in {"refuse", "announce"} => run.batch[run.cursor] \in Elements(run.batch)
  BY <1>2, Zenon DEF Elements
<1>5. /\ run.at \in {"collect", "classify"} =>
           Current = {} /\ Undecided = From(run.batch, run.cursor)
      /\ run.at \in {"refuse", "announce"} =>
           Current = {run.batch[run.cursor]} /\ Undecided = From(run.batch, run.cursor + 1)
  BY Zenon DEF Current, Undecided
<1>6. run.at \notin Deciding => Current = {} /\ Undecided = {}
  BY Zenon DEF Current, Undecided, Deciding
<1> QED
  BY <1>3, <1>4, <1>5, <1>6, Zenon DEF Deciding

\* An item that enters the queue comes last.
LEMMA AdmitOrder ==
  ASSUME IInv, NEW i \in Items, Admit(i)
  PROVE  OrderInv'
<1>1. TypeOK /\ RunInv /\ OrderInv /\ i \notin Elements(admitted)
  BY DEF IInv, AnswerInv, AnswerOf, Admit
<1>2. run' = run /\ handled' = handled
  BY DEF Admit
<1>3. Current' = Current /\ Undecided' = Undecided
  BY <1>2, Zenon DEF Current, Undecided
<1>4. CASE queue' = queue /\ admitted' = admitted
  BY <1>1, <1>2, <1>3, <1>4, Zenon DEF OrderInv
<1>5. CASE queue' = Append(queue, i) /\ admitted' = Append(admitted, i)
  <2> DEFINE h == Append(admitted, i)
  <2>1. /\ Elements(h) = Elements(admitted) \cup {i}
        /\ Elements(Append(queue, i)) = Elements(queue) \cup {i}
    BY <1>1, QueueTypes, AppendElements
  <2>2. \A a, b \in 1..Len(h) : h[a] = h[b] => a = b
    <3>1. /\ Len(h) = Len(admitted) + 1 /\ h[Len(admitted) + 1] = i
          /\ Len(admitted) \in Nat
          /\ \A k \in 1..Len(admitted) : h[k] = admitted[k] /\ admitted[k] # i
      BY <1>1, QueueTypes DEF Elements
    <3>2. \A a, b \in 1..Len(admitted) : admitted[a] = admitted[b] => a = b
      BY <1>1 DEF OrderInv
    <3> HIDE DEF h
    <3> QED
      BY <3>1, <3>2
  <2>3. /\ \A s : Ordered(admitted, s) => Ordered(h, s)
        /\ \A S, T : AllBefore(admitted, S, T) => AllBefore(h, S, T)
        /\ AllBefore(h, Elements(admitted), {i})
    BY <1>1, QueueTypes, HistoryGrows, Zenon
  <2>4. queue \in Seq(Items)
    BY <1>1, QueueTypes
  <2> HIDE DEF h
  <2>5. Ordered(h, Append(queue, i))
    <3>1. AllBefore(h, Elements(queue), {i})
      BY <1>1, <2>3, Zenon DEF OrderInv, AllBefore
    <3> QED
      BY <1>1, <2>3, <2>4, <3>1, OrderedAppend DEF OrderInv
  <2>6. AllBefore(h, Elements(run.batch) \cup Elements(handled), Elements(queue) \cup {i})
    BY <1>1, <2>3, Zenon DEF OrderInv, AllBefore
  <2>7. admitted' = h /\ queue' = Append(queue, i)
    BY <1>5 DEF h
  <2> QED
    BY <1>1, <1>2, <1>3, <2>1, <2>2, <2>3, <2>5, <2>6, <2>7, Zenon DEF OrderInv
<1> QED
  BY <1>4, <1>5, Zenon DEF Admit

\* An item received goes from the head of the queue to the end of the batch, or away.
LEMMA ReceiveOrder ==
  ASSUME IInv, NextQueued \/ Collect
  PROVE  OrderInv'
<1> USE DEF RunMoves, Elsewhere
<1>1. TypeOK /\ RunInv /\ OrderInv /\ TypeOK' /\ RunInv'
  BY ReceiveType, RunRunInv, Zenon DEF IInv, Run
<1>2. /\ admitted' = admitted /\ handled' = handled
      /\ run.active = <<>> /\ run'.active = <<>> /\ run.cursor = 1 /\ run'.cursor = 1
      /\ run.at \in {"next", "collect"} /\ run'.at \in {"exit", "next", "collect", "classify"}
  BY <1>1, NextEffect, CollectEffect, Zenon DEF RunInv
<1>3. Elements(<<>>) = {} /\ Ordered(admitted, <<>>)
  BY DEF Elements, Ordered
<1>4. \/ queue' = queue /\ run'.batch = run.batch
      \/ queue # <<>> /\ queue' = Tail(queue) /\ run'.batch = run.batch
      \/ queue # <<>> /\ queue' = Tail(queue) /\ run'.batch = Append(run.batch, Head(queue))
  <2>1. CASE NextQueued
    <3>1. run.batch = <<>> /\ (queue # <<>> => Append(<<>>, Head(queue)) = <<Head(queue)>>)
      BY <1>1, <2>1, NextEffect, ReceiveTypes DEF RunInv
    <3> QED
      BY <1>1, <2>1, <3>1, NextEffect, Zenon
  <2>2. CASE Collect
    BY <1>1, <2>2, CollectEffect, Zenon
  <2> QED
    BY <2>1, <2>2
<1>5. /\ Ordered(admitted, queue') /\ Elements(queue') \subseteq Elements(queue)
      /\ Ordered(admitted, run'.batch)
      /\ AllBefore(admitted, Elements(run'.batch) \cup Elements(handled), Elements(queue'))
      /\ Elements(run'.batch) \subseteq Elements(run.batch) \cup Elements(queue)
  <2>1. CASE queue' = queue /\ run'.batch = run.batch
    BY <1>1, <2>1, Zenon DEF OrderInv
  <2>2. CASE queue # <<>> /\ queue' = Tail(queue) /\ run'.batch = run.batch
    <3>1. /\ Ordered(admitted, Tail(queue)) /\ Elements(Tail(queue)) \subseteq Elements(queue)
      BY <1>1, <2>2, QueueTypes, OrderedTail, TailElements, Zenon DEF OrderInv
    <3> QED
      BY <1>1, <2>2, <3>1, Zenon DEF OrderInv, AllBefore
  <2>3. CASE queue # <<>> /\ queue' = Tail(queue) /\ run'.batch = Append(run.batch, Head(queue))
    <3>1. /\ Ordered(admitted, Tail(queue)) /\ Elements(queue) = {Head(queue)} \cup Elements(Tail(queue))
          /\ AllBefore(admitted, {Head(queue)}, Elements(Tail(queue)))
      BY <1>1, <2>3, QueueTypes, OrderedTail, TailElements DEF OrderInv
    <3>2. Elements(run'.batch) = Elements(run.batch) \cup {Head(queue)}
      BY <1>1, <2>3, RunTypes, ReceiveTypes, AppendElements
    <3>3. AllBefore(admitted, Elements(run.batch), {Head(queue)})
      BY <1>1, <3>1, Zenon DEF OrderInv, AllBefore
    <3>4. Ordered(admitted, run'.batch)
      <4>1. run.batch \in Seq(Items) /\ Head(queue) \in Items /\ Ordered(admitted, run.batch)
        BY <1>1, <2>3, RunTypes, ReceiveTypes, Zenon DEF OrderInv
      <4> QED
        BY <2>3, <3>3, <4>1, OrderedAppend, Zenon
    <3> QED
      BY <1>1, <2>3, <3>1, <3>2, <3>4, Zenon DEF OrderInv, AllBefore
  <2> QED
    BY <1>4, <2>1, <2>2, <2>3, Zenon
<1>6. AllBefore(admitted, Elements(handled), Elements(run'.batch))
  <2>1. run.at = "next" => Elements(run.batch) = {}
    BY <1>1, <1>3 DEF RunInv
  <2> QED
    BY <1>1, <1>2, <1>5, <2>1, Zenon DEF OrderInv, AllBefore, Deciding
<1>7. /\ Elements(run'.active) = {} /\ AllBefore(admitted, {}, (Current \cup Undecided)')
  BY <1>2, <1>3, Zenon DEF AllBefore
<1> QED
  BY <1>1, <1>2, <1>3, <1>5, <1>6, <1>7, Zenon DEF OrderInv

\* dispatch goes through the batch in its order.
LEMMA DecideOrder ==
  ASSUME IInv, Classify \/ Refuse \/ Announce
  PROVE  OrderInv'
<1> USE DEF RunMoves, Elsewhere
<1>1. TypeOK /\ RunInv /\ OrderInv /\ TypeOK' /\ RunInv'
  BY DecideType, RunRunInv, Zenon DEF IInv, Run
<1>2. /\ admitted' = admitted /\ handled' = handled /\ queue' = queue
      /\ run'.batch = run.batch /\ run.at \in Deciding
      /\ run'.at \in Deciding /\ run'.at \notin {"handle", "reply"}
  BY <1>1, ClassifyEffect, RefuseEffect, AnnounceEffect, Zenon DEF Deciding
<1>3. CASE run'.active = run.active /\ (Current \cup Undecided)' \subseteq Current \cup Undecided
  BY <1>1, <1>2, <1>3, Zenon DEF OrderInv, AllBefore
<1>4. run.batch \in Seq(Items) /\ run.active \in Seq(Items)
  BY <1>1, RunTypes
<1>5. CASE Classify
  <2>1. /\ run.cursor \in 1..Len(run.batch) /\ run'.active = run.active
        /\ \/ run'.at \in {"refuse", "announce"} /\ run'.cursor = run.cursor
           \/ run'.at = "classify" /\ run'.cursor = run.cursor + 1
    BY <1>1, <1>5, ClassifyEffect, Zenon
  <2>2. Current \cup Undecided = From(run.batch, run.cursor)
    BY <1>1, <1>5, ClassifyEffect, DecidingItems, Zenon
  <2>3. From(run.batch, run.cursor) = {run.batch[run.cursor]} \cup From(run.batch, run.cursor + 1)
    BY <1>4, <2>1, FromElements, Zenon
  <2>4. (Current \cup Undecided)' \subseteq From(run.batch, run.cursor)
    BY <1>2, <2>1, <2>3, Zenon DEF Current, Undecided
  <2> QED
    BY <1>3, <2>1, <2>2, <2>4, Zenon
<1>6. CASE Refuse
  <2>1. Current \cup Undecided = {run.batch[run.cursor]} \cup From(run.batch, run.cursor + 1)
    BY <1>1, <1>6, RefuseEffect, DecidingItems, Zenon
  <2>2. (Current \cup Undecided)' = From(run.batch, run.cursor + 1)
    BY <1>1, <1>6, RefuseEffect, Zenon DEF Current, Undecided
  <2> QED
    BY <1>1, <1>3, <1>6, <2>1, <2>2, RefuseEffect, Zenon
<1>7. CASE Announce
  <2> DEFINE i == run.batch[run.cursor]
  <2>1. /\ i \in Items /\ run.cursor \in 1..Len(run.batch) /\ i \in Elements(run.batch)
        /\ run'.active = Append(run.active, i)
    BY <1>1, <1>4, <1>7, AnnounceEffect, FromElements, Zenon
  <2>2. Current \cup Undecided = {i} \cup From(run.batch, run.cursor + 1)
    BY <1>1, <1>7, AnnounceEffect, DecidingItems, Zenon
  <2>3. (Current \cup Undecided)' = From(run.batch, run.cursor + 1)
    BY <1>1, <1>7, AnnounceEffect, Zenon DEF Current, Undecided
  <2>4. Elements(run'.active) = Elements(run.active) \cup {i}
    BY <1>4, <2>1, AppendElements
  <2>5. AllBefore(admitted, {i}, From(run.batch, run.cursor + 1))
    BY <1>1, <1>4, <2>1, OrderedFrom, Zenon DEF OrderInv
  <2> HIDE DEF i
  <2>6. Ordered(admitted, run'.active)
    <3>1. AllBefore(admitted, Elements(run.active), {i}) /\ Ordered(admitted, run.active)
      BY <1>1, <2>2, Zenon DEF OrderInv, AllBefore
    <3> QED
      BY <1>4, <2>1, <3>1, OrderedAppend, Zenon
  <2>7. AllBefore(admitted, Elements(run'.active), (Current \cup Undecided)')
    BY <1>1, <2>2, <2>3, <2>4, <2>5, Zenon DEF OrderInv, AllBefore
  <2> QED
    BY <1>1, <1>2, <2>1, <2>4, <2>6, <2>7, Zenon DEF OrderInv
<1> QED
  BY <1>5, <1>6, <1>7

\* The handler's batch comes after what was handled before it.
LEMMA HandleOrder ==
  ASSUME IInv, EndClassify \/ Handle \/ Reply
  PROVE  OrderInv'
<1> USE DEF RunMoves, Elsewhere
<1>1. TypeOK /\ RunInv /\ OrderInv /\ TypeOK' /\ RunInv'
  BY HandleType, RunRunInv, Zenon DEF IInv, Run
<1>2. /\ admitted' = admitted /\ queue' = queue
      /\ run'.at \in {"next", "exit", "handle", "reply"} /\ run'.at \notin Deciding
      /\ \/ run'.batch = run.batch /\ run'.active = run.active
         \/ run'.batch = <<>> /\ run'.active = <<>>
  <2>1. run.queueOpen \in BOOLEAN
    BY <1>1, RunNumbers
  <2> QED
    BY <1>1, <2>1, EndEffect, HandleEffect, ReplyEffect DEF Deciding
<1>3. Current' = {} /\ Undecided' = {}
  BY <1>2, Zenon DEF Current, Undecided, Deciding
<1>4. Elements(<<>>) = {} /\ Ordered(admitted, <<>>)
  BY DEF Elements, Ordered
<1>5. /\ Ordered(admitted, run'.batch) /\ Ordered(admitted, run'.active)
      /\ Elements(run'.batch) \subseteq Elements(run.batch)
      /\ Elements(run'.active) \subseteq Elements(run'.batch)
  BY <1>1, <1>2, <1>4, Zenon DEF OrderInv
<1>6. /\ Ordered(admitted, handled')
      /\ Elements(handled') \subseteq Elements(handled) \cup Elements(run.batch)
  <2>1. CASE handled' = handled
    BY <1>1, <2>1, Zenon DEF OrderInv
  <2>2. CASE handled' = handled \o run.active /\ run.at = "classify"
    <3>1. run.active \in Seq(Items) /\ handled \in Seq(Items)
      BY <1>1, RunTypes, QueueTypes
    <3>2. AllBefore(admitted, Elements(handled), Elements(run.active))
      BY <1>1, <2>2, Zenon DEF OrderInv, AllBefore, Deciding
    <3>3. Ordered(admitted, handled \o run.active)
      BY <1>1, <3>1, <3>2, OrderedConcat, Zenon DEF OrderInv
    <3>4. Elements(handled \o run.active) = Elements(handled) \cup Elements(run.active)
      BY <3>1, ConcatElements
    <3> QED
      BY <1>1, <2>2, <3>3, <3>4, Zenon DEF OrderInv
  <2> QED
    BY <1>1, <2>1, <2>2, EndEffect, HandleEffect, ReplyEffect, Zenon
<1>7. AllBefore(admitted, Elements(run'.batch) \cup Elements(handled'), Elements(queue))
  BY <1>1, <1>5, <1>6, Zenon DEF OrderInv, AllBefore
<1>8. run'.at \in {"handle", "reply"} => Elements(run'.active) \subseteq Elements(handled')
  <2>1. CASE EndClassify
    <3>1. run.active \in Seq(Items) /\ handled \in Seq(Items)
      BY <1>1, RunTypes, QueueTypes
    <3>2. Elements(run.active) \subseteq Elements(handled \o run.active)
      BY <3>1, ConcatElements
    <3> QED
      BY <1>1, <1>4, <2>1, <3>2, EndEffect, Zenon
  <2>2. CASE Handle \/ Reply
    BY <1>1, <1>2, <1>4, <2>2, HandleEffect, ReplyEffect, Zenon DEF OrderInv
  <2> QED
    BY <2>1, <2>2
<1> QED
  BY <1>1, <1>2, <1>3, <1>5, <1>6, <1>7, <1>8, Zenon DEF OrderInv, AllBefore

\* Every step keeps the order.
LEMMA OrderStep ==
  ASSUME IInv, [Next]_vars
  PROVE  OrderInv'
<1>1. CASE UNCHANGED <<run, queue, admitted, handled>>
  BY <1>1, Zenon DEF IInv, OrderInv, Current, Undecided
<1>2. ASSUME NEW i \in Items, Begin(i) \/ Submit(i) \/ Cancel(i)
      PROVE  Admit(i) \/ UNCHANGED <<run, queue, admitted, handled>>
  BY <1>2, Zenon DEF Begin, Submit, Cancel, TakeReply, SeeDispatched, TimerFires, GiveUp,
                     GiveUpAwaiting, SeeDone, historyVars
<1>3. ASSUME Close \/ Tick \/ UNCHANGED vars
      PROVE  UNCHANGED <<run, queue, admitted, handled>>
  BY <1>3, Zenon DEF Close, Tick, vars, historyVars
<1> QED
  BY <1>1, <1>2, <1>3, AdmitOrder, ReceiveOrder, DecideOrder, HandleOrder, Zenon DEF Next, Run

-----------------------------------------------------------------------------
(* What the steps of a caller do, item by item.                             *)

\* The item of the caller, and every other.
Only(i, f, g) == \A j \in Items : j # i => f[j] = g[j]

\* A step of a caller changes its own item only, and nothing of run's.
LEMMA CallerEffect ==
  ASSUME TypeOK, NEW i \in Items, Begin(i) \/ Submit(i)
  PROVE  /\ run' = run /\ handled' = handled /\ dispatched' = dispatched
         /\ Only(i, pc', pc) /\ Only(i, outcome', outcome)
         /\ Only(i, state', state) /\ Only(i, reply', reply)
<1>1. /\ pc \in [Items -> Places] /\ outcome \in [Items -> Results]
      /\ state \in [Items -> {"queued", "dispatched", "expired"}]
  BY CallerTypes
<1>2. reply \in [Items -> Seq(Results)]
  BY ReplyTypes
<1> USE DEF Only, itemVars, historyVars, callerVars, Return, ExpireIfQueued
<1>3. CASE Begin(i) \/ Admit(i) \/ TakeReply(i)
  BY <1>1, <1>2, <1>3, Zenon DEF Begin, Admit, TakeReply
<1>4. CASE SeeDispatched(i) \/ GiveUpAwaiting(i) \/ SeeDone(i)
  BY <1>1, <1>2, <1>4, Zenon DEF SeeDispatched, GiveUpAwaiting, SeeDone
<1>5. CASE TimerFires(i) \/ GiveUp(i)
  BY <1>1, <1>2, <1>5, Zenon DEF TimerFires, GiveUp
<1> QED
  BY <1>3, <1>4, <1>5, Zenon DEF Submit

\* A call begins.
LEMMA BeginEffect ==
  ASSUME TypeOK, NEW i \in Items, Begin(i)
  PROVE  /\ pc[i] = "idle" /\ queue' = queue /\ admitted' = admitted
         /\ state'[i] = state[i] /\ reply'[i] = reply[i]
         /\ \/ pc'[i] = "returned" /\ outcome'[i] = Error("context")
            \/ pc'[i] = "admit" /\ outcome'[i] = outcome[i]
BY CallerTypes, Zenon DEF Begin, Return, historyVars

\* A call is turned away, or its item enters the queue.
LEMMA AdmitEffect ==
  ASSUME TypeOK, NEW i \in Items, Admit(i)
  PROVE  /\ pc[i] = "admit" /\ state'[i] = state[i] /\ reply'[i] = reply[i]
         /\ \/ /\ pc'[i] = "returned" /\ outcome'[i] \in {Error("closed"), Error("full")}
               /\ queue' = queue /\ admitted' = admitted
            \/ /\ pc'[i] = "select" /\ outcome'[i] = outcome[i]
               /\ Elements(queue') = Elements(queue) \cup {i}
               /\ Elements(admitted') = Elements(admitted) \cup {i}
<1>1. /\ Elements(Append(queue, i)) = Elements(queue) \cup {i}
      /\ Elements(Append(admitted, i)) = Elements(admitted) \cup {i}
  BY QueueTypes, AppendElements
<1> QED
  BY <1>1, CallerTypes, Zenon DEF Admit, Return, itemVars

\* A call returns the result that is there.
LEMMA TakeEffect ==
  ASSUME TypeOK, NEW i \in Items, TakeReply(i)
  PROVE  /\ pc[i] \in {"select", "await"} /\ queue' = queue /\ admitted' = admitted
         /\ reply[i] # <<>> /\ reply'[i] = <<>> /\ state'[i] = state[i]
         /\ pc'[i] = "returned" /\ outcome'[i] = reply[i][1]
<1>1. reply[i] # <<>> /\ reply[i] \in Seq(Results) /\ Len(reply[i]) <= 1
  BY ReplyTypes DEF TakeReply
<1>2. Head(reply[i]) = reply[i][1] /\ Tail(reply[i]) = <<>>
  BY <1>1
<1> QED
  BY <1>1, <1>2, CallerTypes, ReplyTypes, Zenon DEF TakeReply, Return, historyVars

\* A call gives up, or goes on to wait for dispatch.
LEMMA GiveUpEffect ==
  ASSUME TypeOK, NEW i \in Items,
         SeeDispatched(i) \/ TimerFires(i) \/ GiveUp(i) \/ GiveUpAwaiting(i)
  PROVE  /\ pc[i] \in {"select", "await"} /\ queue' = queue /\ admitted' = admitted
         /\ reply'[i] = reply[i]
         /\ \/ /\ pc'[i] = "await" /\ outcome'[i] = outcome[i] /\ state'[i] = state[i]
               /\ i \in dispatched \/ state[i] # "queued"
            \/ /\ pc'[i] = "returned" /\ outcome'[i] = Error("delay")
               /\ state[i] = "queued" /\ state'[i] = "expired"
            \/ /\ pc'[i] = "returned" /\ outcome'[i] = Error("context")
               /\ pc[i] = "await" /\ state'[i] = state[i]
            \/ /\ pc'[i] = "returned" /\ outcome'[i] = Error("context")
               /\ state'[i] = IF state[i] = "queued" THEN "expired" ELSE state[i]
<1>1. CASE SeeDispatched(i) \/ GiveUpAwaiting(i)
  BY <1>1, CallerTypes, Zenon DEF SeeDispatched, GiveUpAwaiting, Return, itemVars, historyVars
<1>2. CASE TimerFires(i)
  BY <1>2, CallerTypes, Zenon DEF TimerFires, Return, ExpireIfQueued, historyVars
<1>3. CASE GiveUp(i)
  BY <1>3, CallerTypes, Zenon DEF GiveUp, Return, ExpireIfQueued, historyVars
<1> QED
  BY <1>1, <1>2, <1>3, Zenon

\* The goroutine is gone: what is there is returned.
LEMMA DoneEffect ==
  ASSUME TypeOK, NEW i \in Items, SeeDone(i)
  PROVE  /\ pc[i] = "select" /\ run.at = "exit" /\ queue' = queue /\ admitted' = admitted
         /\ pc'[i] = "returned" /\ state'[i] = state[i] /\ reply'[i] = <<>>
         /\ reply[i] # <<>> => outcome'[i] = reply[i][1]
<1>1. reply[i] # <<>> => Head(reply[i]) = reply[i][1]
  BY ReplyTypes
<1> QED
  BY <1>1, CallerTypes, ReplyTypes, Zenon DEF SeeDone, Return, historyVars

-----------------------------------------------------------------------------
(* The state words.                                                         *)

\* The items dispatch owes an answer: the one it has just decided about, and those of
\* the handler's batch that were not answered yet.
LEMMA OwedItems ==
  ASSUME TypeOK
  PROVE  /\ run.at \in {"classify", "refuse", "announce", "handle"} =>
              Owed = Current \cup Elements(run.active)
         /\ run.at = "reply" => Owed = From(run.active, run.cursor)
         /\ run.at \in {"next", "collect", "exit"} => Owed = {}
         /\ Owed \subseteq Current \cup Elements(run.active)
<1>1. /\ run.at \in {"classify", "handle"} => Owed = Elements(run.active) /\ Current = {}
      /\ run.at \in {"refuse", "announce"} =>
           Owed = {run.batch[run.cursor]} \cup Elements(run.active)
           /\ Current = {run.batch[run.cursor]}
      /\ run.at = "reply" => Owed = From(run.active, run.cursor)
      /\ run.at \in {"next", "collect", "exit"} => Owed = {}
  BY DEF Owed, Current, From
<1>2. From(run.active, run.cursor) \subseteq Elements(run.active)
  BY RunTypes, FromElements
<1>3. run.at \in {"next", "collect", "classify", "refuse", "announce", "handle", "reply", "exit"}
  BY RunTypes
<1> QED
  BY <1>1, <1>2, <1>3, Zenon

\* Nobody can withdraw an item that dispatch owes an answer.
LEMMA OwedDecided ==
  ASSUME TypeOK, NEW i \in Items, WordOf(i), i \in Owed
  PROVE  state[i] # "queued"
BY OwedItems DEF WordOf

\* The items a step of a caller leaves where they are.
LEMMA SamePlaces ==
  ASSUME run' = run
  PROVE  Current' = Current /\ Undecided' = Undecided /\ Owed' = Owed
BY Zenon DEF Current, Undecided, Owed

\* A caller that waits when the goroutine is gone has its answer.
LEMMA ExitAnswered ==
  ASSUME IInv, run.at = "exit", NEW i \in Items, pc[i] \in {"select", "await"}
  PROVE  reply[i] # <<>> /\ state[i] # "queued"
<1>1. queue = <<>> /\ Undecided = {} /\ Owed = {}
  BY OwedItems DEF IInv, RunInv, Drained, Undecided
<1>2. Elements(queue) = {}
  BY <1>1 DEF Elements
<1> QED
  BY <1>1, <1>2, Zenon DEF IInv, AnswerInv, AnswerOf, WordInv, WordOf

\* A step of a caller moves the word of its own item, and only from queued to
\* expired; what it returns is sound.
LEMMA CallerStep ==
  ASSUME IInv, NEW i \in Items, Begin(i) \/ Submit(i)
  PROVE  WordInv' /\ AnswerInv'
<1>1. TypeOK /\ RunInv /\ OrderInv /\ (\A j \in Items : WordOf(j) /\ AnswerOf(j))
  BY DEF IInv, WordInv, AnswerInv
<1>2. /\ run' = run /\ handled' = handled /\ dispatched' = dispatched
      /\ Only(i, pc', pc) /\ Only(i, outcome', outcome)
      /\ Only(i, state', state) /\ Only(i, reply', reply)
      /\ Current' = Current /\ Undecided' = Undecided /\ Owed' = Owed
  BY <1>1, CallerEffect, SamePlaces, Zenon
<1>3. \/ queue' = queue /\ admitted' = admitted
      \/ /\ Elements(queue') = Elements(queue) \cup {i}
         /\ Elements(admitted') = Elements(admitted) \cup {i}
  BY <1>1, BeginEffect, AdmitEffect, TakeEffect, GiveUpEffect, DoneEffect, Zenon DEF Submit
<1>4. ASSUME NEW j \in Items, j # i PROVE WordOf(j)' /\ AnswerOf(j)'
  <2>1. /\ pc'[j] = pc[j] /\ outcome'[j] = outcome[j]
        /\ state'[j] = state[j] /\ reply'[j] = reply[j]
        /\ j \in Elements(queue') <=> j \in Elements(queue)
        /\ j \in Elements(admitted') <=> j \in Elements(admitted)
    BY <1>2, <1>3, <1>4, Zenon DEF Only
  <2>2. WordOf(j) /\ AnswerOf(j)
    BY <1>1
  <2>3. WordOf(j)'
    BY <1>2, <2>1, <2>2, Zenon DEF WordOf
  <2>4. AnswerOf(j)'
    BY <1>2, <2>1, <2>2, Zenon DEF AnswerOf, Sound
  <2> QED
    BY <2>3, <2>4
<1>5. WordOf(i) /\ AnswerOf(i) /\ (i \in Owed => state[i] # "queued")
  BY <1>1, OwedDecided
<1>6. /\ Error("context").kind = "context" /\ Error("delay").kind = "delay"
      /\ Error("closed").kind = "closed" /\ Error("full").kind = "full"
  BY DEF Error
<1>12. /\ handled' = handled /\ dispatched' = dispatched /\ run' = run
       /\ Current' = Current /\ Undecided' = Undecided /\ Owed' = Owed
  BY <1>2, Zenon
<1>7. ASSUME Begin(i)
      PROVE  WordOf(i)' /\ AnswerOf(i)'
  <2>1. /\ pc[i] = "idle" /\ queue' = queue /\ admitted' = admitted
        /\ state'[i] = state[i] /\ reply'[i] = reply[i]
        /\ \/ pc'[i] = "returned" /\ outcome'[i] = Error("context")
           \/ pc'[i] = "admit" /\ outcome'[i] = outcome[i]
    BY <1>1, <1>7, BeginEffect, Zenon
  <2>2. WordOf(i)'
    BY <1>12, <1>5, <2>1, Zenon DEF WordOf, AnswerOf
  <2>3. AnswerOf(i)'
    BY <1>12, <1>5, <1>6, <2>1, Zenon DEF AnswerOf, Sound
  <2> QED
    BY <2>2, <2>3
<1>8. ASSUME Admit(i)
      PROVE  WordOf(i)' /\ AnswerOf(i)'
  <2>1. /\ pc[i] = "admit" /\ state'[i] = state[i] /\ reply'[i] = reply[i]
        /\ \/ /\ pc'[i] = "returned" /\ outcome'[i] \in {Error("closed"), Error("full")}
              /\ queue' = queue /\ admitted' = admitted
           \/ /\ pc'[i] = "select" /\ outcome'[i] = outcome[i]
              /\ Elements(queue') = Elements(queue) \cup {i}
              /\ Elements(admitted') = Elements(admitted) \cup {i}
    BY <1>1, <1>8, AdmitEffect, Zenon
  <2>2. WordOf(i)'
    BY <1>12, <1>5, <2>1, Zenon DEF WordOf, AnswerOf
  <2>3. AnswerOf(i)'
    BY <1>12, <1>5, <1>6, <2>1, Zenon DEF WordOf, AnswerOf, Sound
  <2> QED
    BY <2>2, <2>3
<1>9. ASSUME TakeReply(i)
      PROVE  WordOf(i)' /\ AnswerOf(i)'
  <2>1. /\ pc[i] \in {"select", "await"} /\ queue' = queue /\ admitted' = admitted
        /\ reply[i] # <<>> /\ reply'[i] = <<>> /\ state'[i] = state[i]
        /\ pc'[i] = "returned" /\ outcome'[i] = reply[i][1]
    BY <1>1, <1>9, TakeEffect, Zenon
  <2>2. WordOf(i)'
    BY <1>12, <1>5, <2>1, Zenon DEF WordOf
  <2>3. AnswerOf(i)'
    BY <1>12, <1>5, <2>1, Zenon DEF AnswerOf, Sound
  <2> QED
    BY <2>2, <2>3
<1>10. ASSUME SeeDispatched(i) \/ TimerFires(i) \/ GiveUp(i) \/ GiveUpAwaiting(i)
      PROVE  WordOf(i)' /\ AnswerOf(i)'
  <2>1. /\ pc[i] \in {"select", "await"} /\ queue' = queue /\ admitted' = admitted
        /\ reply'[i] = reply[i]
        /\ \/ /\ pc'[i] = "await" /\ outcome'[i] = outcome[i] /\ state'[i] = state[i]
              /\ i \in dispatched \/ state[i] # "queued"
           \/ /\ pc'[i] = "returned" /\ outcome'[i] = Error("delay")
              /\ state[i] = "queued" /\ state'[i] = "expired"
           \/ /\ pc'[i] = "returned" /\ outcome'[i] = Error("context")
              /\ pc[i] = "await" /\ state'[i] = state[i]
           \/ /\ pc'[i] = "returned" /\ outcome'[i] = Error("context")
              /\ state'[i] = IF state[i] = "queued" THEN "expired" ELSE state[i]
    BY <1>1, <1>10, GiveUpEffect, Zenon
  <2>2. \/ /\ pc'[i] = "await" /\ outcome'[i] = outcome[i] /\ state'[i] = state[i]
           /\ state[i] # "queued"
        \/ /\ pc'[i] = "returned" /\ outcome'[i].kind \in {"context", "delay"}
           /\ state[i] = "queued" /\ state'[i] = "expired"
        \/ /\ pc'[i] = "returned" /\ outcome'[i].kind = "context"
           /\ state[i] # "queued" /\ state'[i] = state[i]
    BY <1>5, <1>6, <2>1, Zenon DEF WordOf
  <2>3. WordOf(i)'
    <3>1. /\ i \in Elements(admitted) /\ Elements(admitted') = Elements(admitted)
          /\ Elements(queue') = Elements(queue) /\ reply'[i] = reply[i]
      BY <1>5, <2>1, Zenon DEF AnswerOf
    <3>2. CASE state[i] = "queued"
      <4>1. state'[i] = "expired"
        BY <2>2, <3>2
      <4>2. /\ i \notin Elements(run.active) \cup Elements(handled) \cup dispatched
            /\ i \notin Current /\ reply[i] = <<>>
        BY <1>5, <3>1, <3>2, Zenon DEF WordOf
      <4> QED
        BY <1>12, <3>1, <4>1, <4>2, Zenon DEF WordOf
    <3>3. CASE state[i] # "queued"
      <4>1. state'[i] = state[i]
        BY <2>2, <3>3
      <4> QED
        BY <1>12, <1>5, <3>1, <3>3, <4>1, Zenon DEF WordOf
    <3> QED
      BY <3>2, <3>3
  <2>4. state[i] = "expired" => state'[i] = "expired"
    BY <2>2
  <2>5. \A r : Sound(i, r) => Sound(i, r)'
    <3>1. admitted' = admitted
      BY <2>1
    <3> QED
      BY <1>12, <2>4, <3>1, Zenon DEF Sound
  <2>6. Sound(i, outcome[i])'
    BY <1>5, <1>12, <2>1, <2>2, Zenon DEF AnswerOf, Sound
  <2>7. AnswerOf(i)'
    BY <1>12, <1>5, <2>1, <2>2, <2>5, <2>6, Zenon DEF AnswerOf
  <2> QED
    BY <2>3, <2>7
<1>11. ASSUME SeeDone(i)
      PROVE  WordOf(i)' /\ AnswerOf(i)'
  <2>1. /\ pc[i] = "select" /\ run.at = "exit" /\ queue' = queue /\ admitted' = admitted
        /\ pc'[i] = "returned" /\ state'[i] = state[i] /\ reply'[i] = <<>>
        /\ reply[i] # <<>> => outcome'[i] = reply[i][1]
    BY <1>1, <1>11, DoneEffect, Zenon
  <2>2. reply[i] # <<>> /\ state[i] # "queued"
    BY <2>1, ExitAnswered, Zenon
  <2>3. WordOf(i)'
    BY <1>12, <1>5, <2>1, <2>2, Zenon DEF WordOf
  <2>4. AnswerOf(i)'
    BY <1>12, <1>5, <2>1, <2>2, Zenon DEF AnswerOf, Sound
  <2> QED
    BY <2>3, <2>4
<1> QED
  BY <1>4, <1>7, <1>8, <1>9, <1>10, <1>11, Zenon DEF Submit, WordInv, AnswerInv

\* A receive moves an item from the queue to the batch, or drops a withdrawn one.
LEMMA ReceiveStep ==
  ASSUME IInv, NextQueued \/ Collect
  PROVE  WordInv' /\ AnswerInv'
<1> USE DEF RunMoves, Elsewhere
<1>1. TypeOK /\ RunInv /\ OrderInv /\ (\A j \in Items : WordOf(j) /\ AnswerOf(j))
      /\ TypeOK' /\ RunInv'
  BY ReceiveType, RunRunInv, Zenon DEF IInv, Run, WordInv, AnswerInv
<1>2. /\ pc' = pc /\ outcome' = outcome /\ state' = state /\ reply' = reply
      /\ admitted' = admitted /\ handled' = handled /\ dispatched' = dispatched
      /\ run'.active = run.active /\ run.at \in {"next", "collect"}
      /\ run'.at \in {"exit", "next", "collect", "classify"}
  BY <1>1, NextEffect, CollectEffect, Zenon
<1>3. Owed = {} /\ Owed' = {} /\ Current = {} /\ Current' = {}
  <2>1. run.active = <<>>
    BY <1>1, <1>2, Zenon DEF RunInv
  <2>2. Owed' = {}
    BY <1>2, <2>1 DEF Owed, Elements
  <2>3. Owed = {}
    BY <1>1, <1>2, OwedItems
  <2>4. Current = {} /\ Current' = {}
    BY <1>2, Zenon DEF Current
  <2> QED
    BY <2>2, <2>3, <2>4
<1>4. /\ Undecided = Elements(run.batch)
      /\ Undecided' = Elements(run'.batch)
  <2>1. run.batch \in Seq(Items) /\ run'.batch \in Seq(Items)
    <3>1. run \in Locals /\ run' \in Locals
      BY <1>1 DEF TypeOK
    <3> QED
      BY <3>1 DEF Locals
  <2>2. run.cursor = 1 /\ run'.cursor = 1
    BY <1>1, <1>2, NextEffect, CollectEffect, Zenon DEF RunInv
  <2>3. From(run.batch, 1) = Elements(run.batch) /\ From(run'.batch, 1) = Elements(run'.batch)
    BY <2>1, FromElements
  <2>4. /\ run.at = "next" => Elements(run.batch) = {}
        /\ run'.at \in {"next", "exit"} => Elements(run'.batch) = {}
    <3>1. /\ run.at = "next" => run.batch = <<>>
          /\ run'.at \in {"next", "exit"} => run'.batch = <<>>
      BY <1>1, Zenon DEF RunInv
    <3>2. Elements(<<>>) = {}
      BY DEF Elements
    <3> QED
      BY <3>1, <3>2, Zenon
  <2> QED
    BY <1>2, <2>2, <2>3, <2>4, Zenon DEF Undecided
<1>5. /\ Elements(queue') \cup Elements(run'.batch) \subseteq Elements(queue) \cup Elements(run.batch)
      /\ \A j \in Elements(queue) \cup Elements(run.batch) :
           state[j] = "queued" => j \in Elements(queue') \cup Elements(run'.batch)
  <2>1. CASE queue' = queue /\ run'.batch = run.batch
    BY <2>1, Zenon
  <2>2. CASE /\ queue # <<>> /\ queue' = Tail(queue) /\ state[Head(queue)] # "queued"
             /\ run'.batch = run.batch
    <3>1. Elements(queue) = {Head(queue)} \cup Elements(queue')
      BY <1>1, <2>2, QueueTypes, TailElements, Zenon
    <3> QED
      BY <2>2, <3>1, Zenon
  <2>3. CASE /\ queue # <<>> /\ queue' = Tail(queue)
             /\ run'.batch = Append(run.batch, Head(queue))
    <3>1. Elements(queue) = {Head(queue)} \cup Elements(queue')
      BY <1>1, <2>3, QueueTypes, TailElements
    <3>2. Elements(run'.batch) = Elements(run.batch) \cup {Head(queue)}
      BY <1>1, <2>3, RunTypes, ReceiveTypes, AppendElements
    <3> QED
      BY <3>1, <3>2, Zenon
  <2>4. CASE NextQueued
    <3>1. run.batch = <<>> /\ (queue # <<>> => Append(<<>>, Head(queue)) = <<Head(queue)>>)
      <4>1. run.batch = <<>>
        BY <1>1, <2>4, NextEffect, Zenon DEF RunInv
      <4>2. ASSUME queue # <<>> PROVE Append(<<>>, Head(queue)) = <<Head(queue)>>
        BY <1>1, <4>2, ReceiveTypes
      <4> QED
        BY <4>1, <4>2
    <3> QED
      BY <1>1, <2>1, <2>2, <2>3, <2>4, <3>1, NextEffect, Zenon
  <2>5. CASE Collect
    BY <1>1, <2>1, <2>2, <2>3, <2>5, CollectEffect, Zenon
  <2> QED
    BY <2>4, <2>5
<1>6. ASSUME NEW j \in Items PROVE WordOf(j)' /\ AnswerOf(j)'
  <2>1. WordOf(j) /\ AnswerOf(j)
    BY <1>1
  <2>2. WordOf(j)'
    BY <1>2, <1>3, <1>4, <1>5, <2>1, Zenon DEF WordOf
  <2>3. AnswerOf(j)'
    BY <1>2, <1>3, <1>4, <1>5, <2>1, Zenon DEF AnswerOf, Sound
  <2> QED
    BY <2>2, <2>3
<1> QED
  BY <1>6 DEF WordInv, AnswerInv

\* The item dispatch is at is nowhere else.
LEMMA CurrentApart ==
  ASSUME IInv, run.at \in Deciding, run.cursor \in 1..Len(run.batch)
  PROVE  /\ run.batch[run.cursor] \in Elements(admitted)
         /\ run.batch[run.cursor] \notin Elements(queue)
         /\ run.batch[run.cursor] \notin From(run.batch, run.cursor + 1)
<1>1. TypeOK /\ OrderInv /\ run.batch \in Seq(Items)
  BY RunTypes DEF IInv
<1>2. /\ run.batch[run.cursor] \in Elements(run.batch)
      /\ AllBefore(admitted, {run.batch[run.cursor]}, From(run.batch, run.cursor + 1))
  BY <1>1, FromElements, OrderedFrom, Zenon DEF OrderInv
<1> QED
  BY <1>1, <1>2, BeforeIrreflexive, Zenon DEF OrderInv, AllBefore

\* dispatch's compare-and-swap.
LEMMA ClassifyStep ==
  ASSUME IInv, Classify
  PROVE  WordInv' /\ AnswerInv'
<1> USE DEF RunMoves, Elsewhere
<1> DEFINE i == run.batch[run.cursor]
           rest == From(run.batch, run.cursor + 1)
<1>1. TypeOK /\ RunInv /\ OrderInv /\ (\A j \in Items : WordOf(j) /\ AnswerOf(j))
      /\ TypeOK' /\ RunInv'
  BY DecideType, RunRunInv, Zenon DEF IInv, Run, WordInv, AnswerInv
<1>2. /\ pc' = pc /\ outcome' = outcome /\ queue' = queue /\ reply' = reply
      /\ admitted' = admitted /\ handled' = handled /\ dispatched' = dispatched
      /\ run'.active = run.active /\ run'.batch = run.batch /\ run.at = "classify"
      /\ i \in Items /\ run.cursor \in 1..Len(run.batch)
      /\ \A j \in Items : j # i => state'[j] = state[j]
  <2>1. state \in [Items -> {"queued", "dispatched", "expired"}]
    BY <1>1, CallerTypes
  <2> QED
    BY <1>1, <2>1, ClassifyEffect, Zenon
<1>3. i \in Elements(admitted) /\ i \notin Elements(queue) /\ i \notin rest
  BY <1>2, CurrentApart, Zenon DEF Deciding
<1>4. /\ Current = {} /\ Undecided = {i} \cup rest /\ Owed = Elements(run.active)
  BY <1>1, <1>2, DecidingItems, OwedItems, RunTypes, FromElements, Zenon
<1>5. \/ /\ state[i] = "queued" /\ state'[i] = "expired" /\ run'.at = "refuse"
         /\ Current' = {i} /\ Undecided' = rest /\ Owed' = {i} \cup Elements(run.active)
      \/ /\ state[i] = "queued" /\ state'[i] = "dispatched" /\ run'.at = "announce"
         /\ Current' = {i} /\ Undecided' = rest /\ Owed' = {i} \cup Elements(run.active)
      \/ /\ state[i] # "queued" /\ state'[i] = state[i] /\ run'.at = "classify"
         /\ Current' = {} /\ Undecided' = rest /\ Owed' = Elements(run.active)
  <2>1. /\ run'.at \in {"refuse", "announce"} /\ run'.cursor = run.cursor =>
             Current' = {i} /\ Undecided' = rest /\ Owed' = {i} \cup Elements(run.active)
        /\ run'.at = "classify" /\ run'.cursor = run.cursor + 1 =>
             Current' = {} /\ Undecided' = rest /\ Owed' = Elements(run.active)
    BY <1>2 DEF Current, Undecided, Owed
  <2>2. state \in [Items -> {"queued", "dispatched", "expired"}]
    BY <1>1, CallerTypes
  <2> QED
    BY <1>1, <2>1, <2>2, ClassifyEffect, Zenon
<1> HIDE DEF i, rest
<1>6. ASSUME NEW j \in Items PROVE WordOf(j)' /\ AnswerOf(j)'
  <2>1. WordOf(j) /\ AnswerOf(j)
    BY <1>1
  <2>2. WordOf(j)'
    BY <1>2, <1>3, <1>4, <1>5, <2>1, Zenon DEF WordOf
  <2>3. AnswerOf(j)'
    BY <1>2, <1>3, <1>4, <1>5, <2>1, Zenon DEF AnswerOf, Sound, WordOf
  <2> QED
    BY <2>2, <2>3
<1> QED
  BY <1>6 DEF WordInv, AnswerInv

\* The answer to an item dispatch has expired.
LEMMA RefuseStep ==
  ASSUME IInv, Refuse
  PROVE  WordInv' /\ AnswerInv'
<1> USE DEF RunMoves, Elsewhere
<1> DEFINE i == run.batch[run.cursor]
           rest == From(run.batch, run.cursor + 1)
<1>1. TypeOK /\ RunInv /\ OrderInv /\ (\A j \in Items : WordOf(j) /\ AnswerOf(j))
  BY DEF IInv, WordInv, AnswerInv
<1>2. /\ pc' = pc /\ outcome' = outcome /\ queue' = queue /\ state' = state
      /\ admitted' = admitted /\ handled' = handled /\ dispatched' = dispatched
      /\ run'.active = run.active /\ run.at = "refuse" /\ run'.at = "classify"
      /\ i \in Items /\ run.cursor \in 1..Len(run.batch)
      /\ reply'[i] = <<Error(run.refusal)>> /\ \A j \in Items : j # i => reply'[j] = reply[j]
  BY <1>1, RefuseEffect, Zenon
<1>3. i \in Elements(admitted) /\ i \notin Elements(queue) /\ i \notin rest
  BY <1>2, CurrentApart, Zenon DEF Deciding
<1>4. Current = {i} /\ Undecided = rest /\ Owed = {i} \cup Elements(run.active)
  BY <1>1, <1>2, DecidingItems, OwedItems, Zenon
<1>5. Current' = {} /\ Undecided' = rest /\ Owed' = Elements(run.active)
  BY <1>1, RefuseEffect DEF Current, Undecided, Owed
<1>6. /\ reply'[i] # <<>> /\ reply'[i][1].kind \in {"context", "delay"}
  <2>1. run.refusal \in {"context", "delay"}
    BY <1>1, <1>2, RunTypes DEF RunInv
  <2> QED
    BY <1>2, <2>1 DEF Error
<1> HIDE DEF i, rest
<1>7. state[i] = "expired" /\ i \notin Elements(run.active)
  BY <1>1, <1>2, <1>4, Zenon DEF WordOf
<1>8. ASSUME NEW j \in Items PROVE WordOf(j)' /\ AnswerOf(j)'
  <2>1. WordOf(j) /\ AnswerOf(j)
    BY <1>1
  <2>2. WordOf(j)'
    BY <1>2, <1>3, <1>4, <1>5, <1>7, <2>1 DEF WordOf
  <2>3. AnswerOf(j)'
    BY <1>2, <1>3, <1>4, <1>5, <1>6, <1>7, <2>1, Zenon DEF AnswerOf, Sound
  <2> QED
    BY <2>2, <2>3
<1> QED
  BY <1>8 DEF WordInv, AnswerInv

\* The steps of dispatch that move no word and send nothing.
LEMMA SilentStep ==
  ASSUME IInv, Announce \/ EndClassify \/ Handle
  PROVE  WordInv' /\ AnswerInv'
<1> USE DEF RunMoves, Elsewhere
<1>1. TypeOK /\ RunInv /\ OrderInv /\ (\A j \in Items : WordOf(j) /\ AnswerOf(j))
  BY DEF IInv, WordInv, AnswerInv
<1>2. /\ pc' = pc /\ outcome' = outcome /\ queue' = queue /\ state' = state
      /\ reply' = reply /\ admitted' = admitted
  BY <1>1, AnnounceEffect, EndEffect, HandleEffect, Zenon
<1>3. run.batch \in Seq(Items) /\ run.active \in Seq(Items) /\ handled \in Seq(Items)
  BY <1>1, RunTypes, QueueTypes
<1>4. /\ Undecided' = Undecided /\ Current' = {} /\ Owed' = Owed
      /\ Elements(handled') \subseteq Elements(handled) \cup Elements(run.active)
      /\ Elements(handled) \subseteq Elements(handled')
      /\ Elements(run'.active) \subseteq Elements(run.active) \cup Current
      /\ dispatched' \subseteq dispatched \cup Current
      /\ run.at # "refuse"
  <2>1. CASE Announce
    <3> DEFINE i == run.batch[run.cursor]
    <3>1. Current = {i} /\ Undecided = From(run.batch, run.cursor + 1)
          /\ Owed = {i} \cup Elements(run.active)
      BY <1>1, <2>1, AnnounceEffect, DecidingItems, OwedItems, Zenon
    <3>2. Elements(run'.active) = Elements(run.active) \cup {i}
      <4>1. i \in Items /\ run'.active = Append(run.active, i)
        BY <1>1, <2>1, AnnounceEffect, Zenon
      <4> QED
        BY <1>3, <4>1, AppendElements
    <3>3. Current' = {} /\ Undecided' = From(run.batch, run.cursor + 1)
          /\ Owed' = Elements(run'.active)
      BY <1>1, <2>1, AnnounceEffect DEF Current, Undecided, Owed
    <3> HIDE DEF i
    <3> QED
      BY <1>1, <2>1, <3>1, <3>2, <3>3, AnnounceEffect DEF i
  <2>2. CASE EndClassify
    <3>1. Current = {} /\ Undecided = {} /\ Owed = Elements(run.active)
      <4>1. run.at = "classify" /\ run.cursor > Len(run.batch) /\ run.cursor \in Nat
        BY <1>1, <2>2, EndEffect, RunNumbers, Zenon
      <4> QED
        BY <1>1, <1>3, <4>1, DecidingItems, OwedItems, FromElements, Zenon
    <3>2. run.queueOpen \in BOOLEAN
      BY <1>1, RunNumbers
    <3>3. Current' = {} /\ Undecided' = {} /\ Owed' = Elements(run.active)
      <4>1. CASE run.active = <<>>
        <5>1. Elements(run.active) = {} /\ run'.at \in {"next", "exit"}
          BY <1>1, <2>2, <3>2, <4>1, EndEffect DEF Elements
        <5> QED
          BY <5>1 DEF Current, Undecided, Owed
      <4>2. CASE run.active # <<>>
        <5>1. run'.at = "handle" /\ run'.active = run.active
          BY <1>1, <2>2, <4>2, EndEffect, Zenon
        <5> QED
          BY <5>1 DEF Current, Undecided, Owed
      <4> QED
        BY <4>1, <4>2
    <3>4. Elements(handled \o run.active) = Elements(handled) \cup Elements(run.active)
      BY <1>3, ConcatElements
    <3>5. Elements(<<>>) = {}
      BY DEF Elements
    <3> QED
      BY <1>1, <2>2, <3>1, <3>3, <3>4, <3>5, EndEffect, Zenon
  <2>3. CASE Handle
    <3>1. /\ run.at = "handle" /\ run'.at = "reply" /\ run'.active = run.active
          /\ run'.cursor = 1 /\ handled' = handled /\ dispatched' = dispatched
      BY <1>1, <2>3, HandleEffect, Zenon DEF RunInv
    <3>2. Current = {} /\ Undecided = {} /\ Owed = Elements(run.active)
      BY <1>1, <3>1, DecidingItems, OwedItems, Zenon DEF Deciding
    <3>3. Current' = {} /\ Undecided' = {} /\ Owed' = From(run.active, 1)
      BY <3>1 DEF Current, Undecided, Owed, From
    <3> QED
      BY <1>3, <3>1, <3>2, <3>3, FromElements, Zenon
  <2> QED
    BY <2>1, <2>2, <2>3
<1>5. ASSUME NEW j \in Items PROVE WordOf(j)' /\ AnswerOf(j)'
  <2>1. WordOf(j) /\ AnswerOf(j)
    BY <1>1
  <2>2. WordOf(j)'
    BY <1>2, <1>4, <2>1 DEF WordOf
  <2>3. AnswerOf(j)'
    BY <1>2, <1>4, <2>1, Zenon DEF AnswerOf, Sound
  <2> QED
    BY <2>2, <2>3
<1> QED
  BY <1>5 DEF WordInv, AnswerInv

\* The reply loop answers the handler's batch, each item once and with its own result.
LEMMA ReplyStep ==
  ASSUME IInv, Reply
  PROVE  WordInv' /\ AnswerInv'
<1> USE DEF RunMoves, Elsewhere
<1> DEFINE i == run.active[run.cursor]
           rest == From(run.active, run.cursor + 1)
<1>1. TypeOK /\ RunInv /\ OrderInv /\ (\A j \in Items : WordOf(j) /\ AnswerOf(j))
  BY DEF IInv, WordInv, AnswerInv
<1>2. /\ pc' = pc /\ outcome' = outcome /\ queue' = queue /\ state' = state
      /\ admitted' = admitted /\ handled' = handled /\ dispatched' = dispatched
      /\ run.at = "reply"
  BY <1>1, ReplyEffect, Zenon
<1>3. run.active \in Seq(Items) /\ run.cursor \in Nat \ {0} /\ run.queueOpen \in BOOLEAN
  BY <1>1, RunTypes
<1>4. Current = {} /\ Undecided = {} /\ Owed = From(run.active, run.cursor)
  BY <1>1, <1>2, DecidingItems, OwedItems, Zenon DEF Deciding
<1>5. CASE /\ run.cursor > Len(run.active) /\ reply' = reply
           /\ RunMoves(IF run.queueOpen THEN "next" ELSE "exit", <<>>, <<>>, 1, run.queueOpen)
  <2>1. Owed = {}
    BY <1>3, <1>4, <1>5, FromElements
  <2>2. run'.at \in {"next", "exit"} /\ Elements(run'.active) = {}
    BY <1>3, <1>5 DEF Elements
  <2>3. Current' = {} /\ Undecided' = {} /\ Owed' = {}
    BY <2>2 DEF Current, Undecided, Owed
  <2>4. ASSUME NEW j \in Items PROVE WordOf(j)' /\ AnswerOf(j)'
    <3>1. WordOf(j) /\ AnswerOf(j)
      BY <1>1
    <3>2. WordOf(j)'
      BY <1>2, <1>4, <1>5, <2>2, <2>3, <3>1, Zenon DEF WordOf
    <3>3. AnswerOf(j)'
      BY <1>2, <1>4, <1>5, <2>1, <2>3, <3>1, Zenon DEF AnswerOf, Sound
    <3> QED
      BY <3>2, <3>3
  <2> QED
    BY <2>4 DEF WordInv, AnswerInv
<1>6. CASE /\ run.cursor \in 1..Len(run.active) /\ i \in Items /\ reply[i] = <<>>
           /\ reply'[i] = <<ResultFor(run.cursor)>>
           /\ \A j \in Items : j # i => reply'[j] = reply[j]
           /\ RunMoves("reply", run.batch, run.active, run.cursor + 1, run.queueOpen)
  <2>1. /\ Current' = {} /\ Undecided' = {} /\ Owed' = rest
    BY <1>6 DEF Current, Undecided, Owed, From
  <2>2. Owed = {i} \cup rest /\ i \in Elements(run.active)
    BY <1>3, <1>4, <1>6, FromElements
  <2>3. i \notin rest
    <3>1. AllBefore(admitted, {i}, rest)
      BY <1>1, <1>3, <1>6, OrderedFrom, Zenon DEF OrderInv
    <3> QED
      BY <1>1, <3>1, BeforeIrreflexive, Zenon DEF AllBefore
  <2>4. i \in Elements(handled) /\ i \in Elements(admitted)
    BY <1>1, <1>2, <2>2, Zenon DEF OrderInv
  <2>5. /\ reply'[i] # <<>>
        /\ \/ reply'[i][1].kind \in {"context", "failed"}
           \/ reply'[i][1].kind = "value" /\ reply'[i][1].of = i
    <3>1. run.results = <<>> \/ run.results[run.cursor] = i
      BY <1>1, <1>2, Zenon DEF RunInv
    <3>2. \/ ResultFor(run.cursor) \in {Error("context"), Error("failed")}
          \/ ResultFor(run.cursor) = Value(i)
      BY <3>1, Zenon DEF ResultFor
    <3>3. reply'[i] # <<>> /\ reply'[i][1] = ResultFor(run.cursor)
      BY <1>6
    <3> QED
      BY <3>2, <3>3 DEF Error, Value
  <2>6. run'.active = run.active /\ run'.at = "reply"
    BY <1>6, Zenon
  <2> HIDE DEF i, rest
  <2>7. ASSUME NEW j \in Items PROVE WordOf(j)' /\ AnswerOf(j)'
    <3>1. WordOf(j) /\ AnswerOf(j) /\ state[i] = "dispatched"
      BY <1>1, <1>6, <2>2, Zenon DEF WordOf
    <3>2. WordOf(j)'
      BY <1>2, <1>4, <1>6, <2>1, <2>4, <2>6, <3>1, Zenon DEF WordOf
    <3>3. AnswerOf(j)'
      BY <1>2, <1>4, <1>6, <2>1, <2>2, <2>3, <2>4, <2>5, <3>1, Zenon DEF AnswerOf, Sound
    <3> QED
      BY <3>2, <3>3
  <2> QED
    BY <2>7 DEF WordInv, AnswerInv
<1> QED
  BY <1>1, <1>5, <1>6, ReplyEffect, Zenon

-----------------------------------------------------------------------------
(* The theorems.                                                            *)

\* IInv is inductive.
LEMMA NextIInv == IInv /\ [Next]_vars => IInv'
<1> SUFFICES ASSUME IInv, [Next]_vars PROVE IInv'
  OBVIOUS
<1>1. TypeOK' /\ RunInv' /\ OrderInv'
  BY TypeStep, RunInvStep, OrderStep DEF IInv
<1>2. WordInv' /\ AnswerInv'
  <2>1. ASSUME UNCHANGED <<run, queue, pc, outcome, state, reply, dispatched, admitted, handled>>
        PROVE  WordInv' /\ AnswerInv'
    <3>1. Current' = Current /\ Undecided' = Undecided /\ Owed' = Owed
      BY <2>1, SamePlaces
    <3>2. ASSUME NEW i \in Items PROVE WordOf(i)'
      <4>1. WordOf(i)
        BY Zenon DEF IInv, WordInv
      <4> QED
        BY <2>1, <3>1, <4>1, Zenon DEF WordOf
    <3>3. ASSUME NEW i \in Items PROVE AnswerOf(i)'
      <4>1. AnswerOf(i)
        BY Zenon DEF IInv, AnswerInv
      <4> QED
        BY <2>1, <3>1, <4>1, Zenon DEF AnswerOf, Sound
    <3> QED
      BY <3>2, <3>3, Zenon DEF WordInv, AnswerInv
  <2>2. ASSUME (\E i \in Items : Cancel(i)) \/ Close \/ Tick \/ UNCHANGED vars
        PROVE  UNCHANGED <<run, queue, pc, outcome, state, reply, dispatched, admitted, handled>>
    BY <2>2, Zenon DEF Cancel, Close, Tick, vars, callerVars, itemVars, historyVars
  <2> QED
    BY <2>1, <2>2, CallerStep, ReceiveStep, ClassifyStep, RefuseStep, SilentStep, ReplyStep, Zenon
    DEF Next, Run
<1> QED
  BY <1>1, <1>2 DEF IInv

\* The invariant says of the deadlines only their type: who composes the scheduler
\* may set one.
LEMMA NewDeadline ==
  ASSUME IInv, deadline' \in [Items -> Deadlines],
         UNCHANGED <<closed, queue, pc, outcome, state, reply, dispatched, expiry, cancelled,
                     clock, run, metrics, admitted, handled>>
  PROVE  IInv'
<1>1. TypeOK'
  BY Zenon DEF IInv, TypeOK
<1>2. RunInv' /\ OrderInv' /\ Current' = Current /\ Undecided' = Undecided /\ Owed' = Owed
  <2>1. Current' = Current /\ Undecided' = Undecided /\ Owed' = Owed
    BY SamePlaces
  <2>2. RunInv'
    BY Zenon DEF IInv, RunInv, Drained
  <2> QED
    BY <2>1, <2>2, Zenon DEF IInv, OrderInv
<1>3. WordInv' /\ AnswerInv'
  BY <1>2, Zenon DEF IInv, WordInv, WordOf, AnswerInv, AnswerOf, Sound
<1> QED
  BY <1>1, <1>2, <1>3 DEF IInv

\* A call returns ErrClosed only after Close.
LEMMA ClosedAfterClose ==
  ASSUME IInv, NEW i \in Items, Begin(i) \/ Submit(i), outcome'[i].kind = "closed"
  PROVE  closed \/ outcome'[i] = outcome[i]
<1>1. TypeOK /\ WordOf(i) /\ AnswerOf(i)
  BY DEF IInv, WordInv, AnswerInv
<1>2. Error("context").kind # "closed" /\ Error("delay").kind # "closed"
  BY DEF Error
<1>3. reply[i] # <<>> => reply[i][1].kind # "closed"
  BY <1>1, Zenon DEF WordOf, AnswerOf, Sound
<1>4. CASE Begin(i)
  BY <1>1, <1>2, <1>4, BeginEffect, Zenon
<1>5. CASE Admit(i)
  <2>1. Error("full").kind # "closed"
    BY DEF Error
  <2> QED
    BY <1>1, <1>5, <2>1, CallerTypes, Zenon DEF Admit, Return
<1>6. CASE TakeReply(i)
  BY <1>1, <1>3, <1>6, TakeEffect, Zenon
<1>7. CASE SeeDispatched(i) \/ TimerFires(i) \/ GiveUp(i) \/ GiveUpAwaiting(i)
  BY <1>1, <1>2, <1>7, GiveUpEffect, Zenon
<1>8. CASE SeeDone(i)
  BY <1>1, <1>8, DoneEffect, Zenon DEF IInv, RunInv, Drained
<1> QED
  BY <1>4, <1>5, <1>6, <1>7, <1>8, Zenon DEF Submit

\* The invariant, in every reachable state.
THEOREM Invariance == Spec => []IInv
BY InitIInv, NextIInv, PTL DEF Spec

\* No item is answered twice, so that the sends of dispatch never block the
\* goroutine that serves every other caller.
THEOREM NoSecondAnswer == Spec => []AnsweredOnce
<1>1. IInv => AnsweredOnce
  <2> SUFFICES ASSUME IInv PROVE AnsweredOnce
    OBVIOUS
  <2>1. Owed \subseteq Items
    <3>1. Elements(admitted) \subseteq Items
      BY QueueTypes DEF IInv, Elements
    <3>2. Owed \subseteq Elements(run.batch)
      BY OwedItems, DecidingItems, Zenon DEF IInv, OrderInv
    <3> QED
      BY <3>1, <3>2, Zenon DEF IInv, OrderInv
  <2> QED
    BY <2>1, Zenon DEF IInv, AnswerInv, AnswerOf, AnsweredOnce
<1> QED
  BY <1>1, Invariance, PTL

\* A caller that got a value got the one the handler computed for its own item.
THEOREM ValuesAreOwn == Spec => []ValueIsOwn
<1>1. IInv => ValueIsOwn
  BY Zenon DEF IInv, AnswerInv, AnswerOf, Sound, ValueIsOwn
<1> QED
  BY <1>1, Invariance, PTL

\* ErrClosed is never the answer to an item that entered the queue.
THEOREM CloseSparesAdmitted == Spec => []AdmittedNotClosed
<1>1. IInv => AdmittedNotClosed
  <2> SUFFICES ASSUME IInv PROVE AdmittedNotClosed
    OBVIOUS
  <2>1. Elements(admitted) \subseteq Items
    BY QueueTypes DEF IInv, Elements
  <2> QED
    BY <2>1, Zenon DEF IInv, AnswerInv, AnswerOf, Sound, AdmittedNotClosed
<1> QED
  BY <1>1, Invariance, PTL

\* The order at the handler, and the retries, from the invariant.
LEMMA InvInOrder == IInv => HandledInOrder
<1> SUFFICES ASSUME IInv PROVE HandledInOrder
  OBVIOUS
<1> DEFINE f == [k \in 1..Len(handled) |->
                   CHOOSE a \in 1..Len(admitted) : admitted[a] = handled[k]]
<1>1. Len(handled) \in Nat /\ Len(admitted) \in Nat
  BY QueueTypes DEF IInv
<1>2. ASSUME NEW k \in 1..Len(handled)
      PROVE  f[k] \in 1..Len(admitted) /\ admitted[f[k]] = handled[k]
  <2>1. handled[k] \in Elements(admitted)
    BY Zenon DEF IInv, OrderInv, Elements
  <2> QED
    BY <2>1, Zenon DEF Elements
<1>3. ASSUME NEW k \in 1..(Len(handled) - 1)
      PROVE  f[k] < f[k + 1]
  <2>1. k \in 1..Len(handled) /\ k + 1 \in 1..Len(handled) /\ k < k + 1
    BY <1>1
  <2>2. PICK a, b \in 1..Len(admitted) :
          a < b /\ admitted[a] = handled[k] /\ admitted[b] = handled[k + 1]
    <3>1. Ordered(admitted, handled)
      BY Zenon DEF IInv, OrderInv
    <3>2. Before(admitted, handled[k], handled[k + 1])
      BY <2>1, <3>1, Zenon DEF Ordered
    <3> QED
      BY <3>2, Zenon DEF Before
  <2>3. f[k] = a /\ f[k + 1] = b
    <3>1. \A c, d \in 1..Len(admitted) : admitted[c] = admitted[d] => c = d
      BY Zenon DEF IInv, OrderInv
    <3>2. /\ f[k] \in 1..Len(admitted) /\ admitted[f[k]] = handled[k]
          /\ f[k + 1] \in 1..Len(admitted) /\ admitted[f[k + 1]] = handled[k + 1]
      BY <1>2, <2>1, Zenon
    <3> HIDE DEF f
    <3> QED
      BY <2>2, <3>1, <3>2, Zenon
  <2> QED
    BY <2>2, <2>3, Zenon
<1>4. f \in [1..Len(handled) -> 1..Len(admitted)]
  BY <1>2, Zenon
<1>5. ASSUME NEW i \in Items, outcome[i].kind \in {"full", "closed", "delay"}
      PROVE  i \notin Elements(handled) /\ i \notin Owed
  <2>1. WordOf(i) /\ AnswerOf(i)
    BY Zenon DEF IInv, WordInv, AnswerInv
  <2>2. i \in Elements(handled) => i \in Elements(admitted)
    BY Zenon DEF IInv, OrderInv
  <2>3. i \notin Elements(handled)
    <3>1. state[i] = "expired" \/ i \notin Elements(admitted)
      BY <1>5, <2>1, Zenon DEF AnswerOf, Sound
    <3>2. i \in Elements(handled) => state[i] = "dispatched"
      BY <2>1, Zenon DEF WordOf
    <3> QED
      BY <2>2, <3>1, <3>2
  <2>4. i \notin Owed
    BY <1>5, <2>1 DEF AnswerOf
  <2> QED
    BY <2>3, <2>4
<1> HIDE DEF f
<1> QED
  BY <1>2, <1>3, <1>4, <1>5, Zenon DEF HandledInOrder

\* Items reach the handler in the order they entered the queue, at most once
\* each, and one whose caller was told to retry never does.
THEOREM HandlerKeepsOrder == Spec => []HandledInOrder
BY InvInOrder, Invariance, PTL

\* Finitely many natural numbers have a largest one.
LEMMA Maximum ==
  ASSUME NEW n \in Nat \ {0}, NEW f, \A k \in 1..n : f[k] \in Nat
  PROVE  \E k \in 1..n : \A j \in 1..n : f[j] <= f[k]
<1> DEFINE Has(m) == \E k \in 1..m : \A j \in 1..m : f[j] <= f[k]
           Bad == {m \in 1..n : ~Has(m)}
<1> HIDE DEF Has
<1>0. SUFFICES ASSUME Bad # {} PROVE FALSE
  <2>1. Has(n)
    OBVIOUS
  <2> QED
    BY <2>1 DEF Has
<1>1. \E m \in Bad : \A k \in Bad : ~(k < m)
  <2> DEFINE R == OpToRel(<, Nat)
  <2>1. Bad \subseteq Nat
    OBVIOUS
  <2>2. \A k, m \in Nat : k < m => <<k, m>> \in R
    BY Zenon DEF OpToRel
  <2>3. IsWellFoundedOn(R, Nat)
    BY NatLessThanWellFounded, Zenon
  <2> HIDE DEF R, Bad
  <2>4. \E m \in Bad : \A k \in Bad : ~(<<k, m>> \in R)
    BY <1>0, <2>1, <2>3, WFMin, Zenon
  <2> QED
    BY <2>1, <2>2, <2>4, Zenon
<1>2. PICK m \in Bad : \A k \in Bad : ~(k < m)
  BY <1>1, Zenon
<1>3. m \in 1..n /\ ~Has(m)
  BY Zenon
<1>4. f[m] \in Nat /\ f[m] <= f[m]
  BY <1>3
<1>5. m # 1
  BY <1>3, <1>4 DEF Has
<1>6. m - 1 \in 1..n /\ m - 1 < m
  BY <1>3, <1>5
<1>7. Has(m - 1)
  BY <1>2, <1>6, Zenon
<1>8. PICK k \in 1..(m - 1) : \A j \in 1..(m - 1) : f[j] <= f[k]
  BY <1>7, Zenon DEF Has
<1>9. /\ k \in 1..m /\ f[k] \in Nat
      /\ \A j \in 1..m : j = m \/ j \in 1..(m - 1)
  BY <1>3, <1>8
<1>10. \A j \in 1..m : f[j] \in Nat
  BY <1>3
<1>11. ~(f[m] <= f[k])
  BY <1>3, <1>8, <1>9, Zenon DEF Has
<1>12. \A j \in 1..m : f[j] <= f[m]
  BY <1>4, <1>8, <1>9, <1>10, <1>11
<1>13. m \in 1..m
  BY <1>3
<1> QED
  BY <1>3, <1>12, <1>13, Zenon DEF Has

\* The handler's context ends only when every caller of the batch is past its
\* own deadline.
THEOREM BatchOutlives == Spec => []BatchOutlivesCallers
<1>1. IInv => BatchOutlivesCallers
  <2> DEFINE s == run.active
             ds == {deadline[s[k]] : k \in 1..Len(s)}
             late == CHOOSE d \in ds : \A e \in ds : e <= d
  <2> SUFFICES ASSUME IInv, run.at = "handle", Due(BatchContext(s).deadline),
                      NEW j \in 1..Len(s)
               PROVE  ContextDone(s[j])
    BY Zenon DEF BatchOutlivesCallers
  <2>1. s # <<>> /\ s \in Seq(Items)
    BY RunTypes DEF IInv, RunInv
  <2>2. Len(s) \in Nat \ {0}
    BY <2>1
  <2>3. \A k \in 1..Len(s) : s[k] \in Items /\ deadline[s[k]] \in Nat \cup {Unbounded}
    <3>1. \A k \in 1..Len(s) : s[k] \in Items
      BY <2>1
    <3>2. deadline \in [Items -> Deadlines] /\ Deadlines \subseteq Nat \cup {Unbounded}
      BY SchedulerAssumption, Zenon DEF IInv, TypeOK
    <3> HIDE DEF s
    <3> QED
      BY <3>1, <3>2, Zenon
  <2>4. BatchContext(s).deadline = IF Unbounded \in ds THEN Unbounded ELSE late
    BY Zenon DEF BatchContext
  <2>5. Unbounded \notin ds /\ clock >= late
    BY <2>4 DEF Due
  <2>6. \E d \in ds : \A e \in ds : e <= d
    <3> DEFINE f == [k \in 1..Len(s) |-> deadline[s[k]]]
    <3>1. \A k \in 1..Len(s) : f[k] \in Nat
      BY <2>3, <2>5
    <3> HIDE DEF f, s
    <3>2. PICK k \in 1..Len(s) : \A e \in 1..Len(s) : f[e] <= f[k]
      BY <2>2, <3>1, Maximum, Zenon
    <3> QED
      BY <3>2, Zenon DEF f
  <2>7. late \in ds /\ \A e \in ds : e <= late
    BY <2>6, Zenon
  <2>8. deadline[s[j]] \in ds /\ deadline[s[j]] \in Nat /\ late \in Nat /\ clock \in Nat
    <3>1. clock \in Nat
      BY ClockTypes DEF IInv
    <3>2. \A d \in ds : d \in Nat
      BY <2>3, <2>5, Zenon
    <3>3. deadline[s[j]] \in ds
      BY Zenon
    <3> QED
      BY <2>7, <3>1, <3>2, <3>3, Zenon
  <2>9. clock >= deadline[s[j]] /\ deadline[s[j]] # Unbounded
    <3> HIDE DEF late, ds, s
    <3> QED
      BY <2>5, <2>7, <2>8
  <2> QED
    BY <2>9, Zenon DEF ContextDone, Due
<1> QED
  BY <1>1, Invariance, PTL
=============================================================================
