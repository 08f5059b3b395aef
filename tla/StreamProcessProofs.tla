------------------------- MODULE StreamProcessProofs -------------------------
(***************************************************************************)
(* Proofs about the stream processor: StreamProcess, and through its       *)
(* instance I the consumer, Ingestion.  The invariant of the process needs *)
(* of the window only the outcomes that ApplyAndMaterialize may have; the  *)
(* last section carries the results of WindowProofs over to the window     *)
(* that the process restarts and redelivers to.                            *)
(***************************************************************************)
EXTENDS StreamProcess, TLAPS

-----------------------------------------------------------------------------
(* The inductive invariant.                                                *)

InHand == consumer.msg # I!NoRecord

\* The record in hand is being committed: an answer may be lost, the commit made.
Committing == consumer.at = "commit" \/ consumer.resume = "commit"

\* The goroutine in Consume: which loop a backoff returns to, when there is a record
\* in hand, and what standard input never needs.
PlaceInv ==
  /\ consumer.at = "backoff" => consumer.resume # "none" /\ consumer.attempt < MaxAttempts
  /\ consumer.resume = "commit" => consumer.at = "backoff"
  /\ InHand <=> \/ consumer.at \in {"process", "handler", "poison", "commit"}
                \/ consumer.at = "backoff" /\ consumer.resume # "fetch"
  /\ setup.source = "stdin" => consumer.at \in {"fetch", "handler", "returned"}

\* The group's offsets, the reader's and the record in hand fit together.
OffsetInv ==
  /\ InHand =>
       \/ consumer.msg[2] = committed[consumer.msg[1]]
       \/ consumer.msg[2] + 1 = committed[consumer.msg[1]] /\ Committing
  /\ setup.source = "kafka" /\ consumer.at # "returned" =>
       \A p \in I!Partitions :
         position[p] = IF InHand /\ consumer.msg[1] = p THEN consumer.msg[2] + 1 ELSE committed[p]

\* What is committed, or may be, is settled.
SettledInv ==
  /\ I!CommittedSettled
  /\ Committing => consumer.msg \in I!Settled

\* The callback runs while the consumer is in its handler; main knows of no failure
\* of Consume before it has stopped waiting, and closes the consumer after that.
MainInv ==
  /\ call # "none" => consumer.at = "handler"
  /\ At("starting") => consumer.last = "none"
  /\ main.at \in {"starting", "running"} => ~main.consumeFailed
  /\ closed => main.at \in {"shutdown", "exited"}

ConsumerInv == I!TypeOK /\ PlaceInv /\ OffsetInv /\ SettledInv

SInv == setup \in Setups /\ ConsumerInv /\ MainInv /\ StateTells

\* The window takes the event it is given, or has had it.
NoRefusal == call = "entered" => ~W!Refused(Event)

\* A call failed, or a record does not decode.
Trouble == faults > 0 \/ setup.malformed # {}

\* Every error that main could take for a failure goes back to one of the two.
BlameInv ==
  /\ call = "error" \/ consumer.last = "error" => Trouble
  /\ ~closed /\ consumer.result \in {"error", "poison"} => Trouble
  /\ main.failed => Trouble
  /\ consumer.at = "poison" => consumer.last # "none"
  /\ consumer.at = "returned" => consumer.result # "none"

-----------------------------------------------------------------------------
(* Records, offsets and the consumer's variables.                          *)

\* A partition has a length.
LEMMA Lengths ==
  ASSUME setup \in Setups
  PROVE  /\ setup.length \in [I!Partitions -> Nat]
         /\ setup.source \in {"kafka", "stdin"} /\ setup.policy \in {"halt", "dlq"}
         /\ MaxAttempts \in Nat \ {0} /\ MaxFaults \in Nat /\ MaxStops \in Nat
BY StreamAssumption DEF I!Partitions

\* A record is a partition and an offset below its length.
LEMMA RecordPairs ==
  ASSUME setup \in Setups, NEW r \in I!Records
  PROVE  /\ r[1] \in I!Partitions /\ r[2] \in Nat /\ r[2] < setup.length[r[1]]
         /\ r = <<r[1], r[2]>> /\ r # I!NoRecord
<1>1. PICK p \in I!Partitions : r \in {p} \X (0..(setup.length[p] - 1))
  BY Zenon DEF I!Records
<1>2. setup.length[p] \in Nat
  BY Lengths
<1>3. PICK o \in 0..(setup.length[p] - 1) : r = <<p, o>>
  BY <1>1
<1> QED
  BY <1>2, <1>3 DEF I!NoRecord

\* A partition and an offset below its length are a record.
LEMMA PairsAreRecords ==
  ASSUME setup \in Setups, NEW p \in I!Partitions, NEW o \in Nat, o < setup.length[p]
  PROVE  <<p, o>> \in I!Records
<1>1. setup.length[p] \in Nat
  BY Lengths
<1>2. o \in 0..(setup.length[p] - 1)
  BY <1>1
<1>3. <<p, o>> \in {p} \X (0..(setup.length[p] - 1))
  BY <1>2
<1> QED
  BY <1>3, Zenon DEF I!Records

\* The records are fixed by the setup.
LEMMA SameSetup ==
  ASSUME setup' = setup
  PROVE  I!Records' = I!Records /\ I!Partitions' = I!Partitions
BY DEF I!Records, I!Partitions

\* The types of the consumer's variables, and of the offsets.
LEMMA ConsumerTypes ==
  ASSUME setup \in Setups, I!TypeOK
  PROVE  /\ consumer.at \in {"fetch", "process", "handler", "poison", "commit", "backoff", "returned"}
         /\ consumer.attempt \in 1..MaxAttempts
         /\ consumer.msg \in I!Records \cup {I!NoRecord}
         /\ consumer.resume \in {"none", "fetch", "process", "commit"}
         /\ consumer.last \in I!Errors \cup {"none"}
         /\ consumer.result \in I!Errors \cup {"none", "nil", "poison"}
         /\ committed \in [I!Partitions -> Nat] /\ position \in [I!Partitions -> Nat]
         /\ \A p \in I!Partitions : /\ committed[p] <= setup.length[p]
                                    /\ position[p] <= setup.length[p]
BY Zenon DEF I!TypeOK, I!Consumers

\* A consumer with nothing in hand is well formed.
LEMMA IdleTyped ==
  ASSUME setup \in Setups,
         NEW place \in {"fetch", "process", "handler", "poison", "commit", "backoff", "returned"},
         NEW result \in I!Errors \cup {"none", "nil", "poison"}
  PROVE  I!Idle(place, result) \in I!Consumers
<1>1. 1 \in 1..MaxAttempts
  BY Lengths
<1> QED
  BY <1>1, Zenon DEF I!Idle, I!Consumers

\* The dead-letter topic and the history only grow.
LEMMA SettledGrows ==
  ASSUME dlq \in Seq(I!Records), NEW r \in I!Records,
         dlq' = dlq \/ dlq' = Append(dlq, r),
         handled \subseteq handled'
  PROVE  I!Settled \subseteq I!Settled' /\ (dlq' = Append(dlq, r) => r \in I!Settled')
<1>1. ASSUME dlq' = Append(dlq, r)
      PROVE  I!Range(dlq) \subseteq I!Range(dlq') /\ r \in I!Range(dlq')
  <2>1. /\ DOMAIN dlq = 1..Len(dlq) /\ Len(dlq) \in Nat
        /\ DOMAIN dlq' = 1..(Len(dlq) + 1) /\ dlq'[Len(dlq) + 1] = r
        /\ \A i \in 1..Len(dlq) : dlq'[i] = dlq[i]
    BY <1>1
  <2> QED
    BY <2>1 DEF I!Range
<1>2. I!Range(dlq) \subseteq I!Range(dlq')
  BY <1>1, Zenon
<1> QED
  BY <1>1, <1>2, Zenon DEF I!Settled

-----------------------------------------------------------------------------
(* Moves of the consumer.                                                  *)

\* The record in hand, when there is one.
LEMMA Holds ==
  ASSUME setup \in Setups, ConsumerInv, InHand
  PROVE  /\ consumer.msg \in I!Records
         /\ consumer.msg[1] \in I!Partitions /\ consumer.msg[2] \in Nat
         /\ consumer.msg[2] < setup.length[consumer.msg[1]]
         /\ consumer.msg = <<consumer.msg[1], consumer.msg[2]>>
<1>1. consumer.msg \in I!Records
  BY ConsumerTypes, Zenon DEF ConsumerInv, InHand
<1> QED
  BY <1>1, RecordPairs

\* While the offsets and the history stay, the record in hand may be passed on.
LEMMA Stays ==
  ASSUME setup \in Setups, ConsumerInv, setup' = setup,
         UNCHANGED <<committed, position, dlq, handled>>,
         consumer.at # "returned",
         consumer'.msg = consumer.msg, Committing' <=> Committing
  PROVE  OffsetInv' /\ SettledInv'
<1>1. InHand' <=> InHand
  BY DEF InHand, I!NoRecord
<1>2. OffsetInv'
  BY <1>1, SameSetup DEF OffsetInv, ConsumerInv
<1>3. SettledInv'
  BY SameSetup DEF SettledInv, ConsumerInv, I!CommittedSettled, I!Settled, I!Range
<1> QED
  BY <1>2, <1>3

\* The offset moves past the record in hand, which is settled.
LEMMA Advances ==
  ASSUME setup \in Setups, ConsumerInv, setup' = setup, InHand,
         committed' = I!Advance,
         I!Settled \subseteq I!Settled', consumer.msg \in I!Settled'
  PROVE  /\ committed' \in [I!Partitions -> Nat]
         /\ \A p \in I!Partitions :
              /\ committed'[p] <= setup.length[p]
              /\ committed'[p] = IF p = consumer.msg[1] THEN consumer.msg[2] + 1 ELSE committed[p]
         /\ I!CommittedSettled'
<1> DEFINE q == consumer.msg[1]
           o == consumer.msg[2]
<1>1. /\ q \in I!Partitions /\ o \in Nat /\ o < setup.length[q]
      /\ consumer.msg = <<q, o>>
  BY Holds, Zenon
<1>2. /\ committed \in [I!Partitions -> Nat]
      /\ \A p \in I!Partitions : committed[p] <= setup.length[p] /\ setup.length[p] \in Nat
  BY ConsumerTypes, Lengths DEF ConsumerInv
<1>3. committed' = [committed EXCEPT ![q] = o + 1]
  BY DEF I!Advance
<1>4. o = committed[q] \/ o + 1 = committed[q]
  BY Zenon DEF ConsumerInv, OffsetInv
<1> HIDE DEF q, o
<1>5. /\ committed' \in [I!Partitions -> Nat]
      /\ \A p \in I!Partitions :
           /\ committed'[p] <= setup.length[p]
           /\ committed'[p] = IF p = q THEN o + 1 ELSE committed[p]
  BY <1>1, <1>2, <1>3
<1>6. ASSUME NEW r \in I!Records, r[2] < committed'[r[1]]
      PROVE  r \in I!Settled'
  <2>1. r[1] \in I!Partitions /\ r[2] \in Nat /\ r = <<r[1], r[2]>>
    BY RecordPairs, Zenon
  <2>2. ASSUME NEW p \in I!Partitions, NEW n \in Nat, n < committed'[p]
        PROVE  n < committed[p] \/ (p = q /\ n = o)
    BY <1>1, <1>2, <1>4, <1>5, <2>2
  <2>3. CASE r[2] < committed[r[1]]
    BY <2>3, Zenon DEF ConsumerInv, SettledInv, I!CommittedSettled
  <2>4. CASE r[1] = q /\ r[2] = o
    BY <1>1, <2>1, <2>4, Zenon
  <2> QED
    BY <1>6, <2>1, <2>2, <2>3, <2>4, Zenon
<1>7. I!CommittedSettled'
  BY <1>6, SameSetup, Zenon DEF I!CommittedSettled
<1> QED
  BY <1>5, <1>7 DEF q, o
\* What a step of the consumer leaves alone keeps its type.
LEMMA TypesAfter ==
  ASSUME setup' = setup, I!TypeOK,
         consumer' \in I!Consumers,
         \/ committed' = committed
         \/ /\ committed' \in [I!Partitions -> Nat]
            /\ \A p \in I!Partitions : committed'[p] <= setup.length[p],
         \/ position' = position
         \/ /\ position' \in [I!Partitions -> Nat]
            /\ \A p \in I!Partitions : position'[p] <= setup.length[p],
         dlq' = dlq \/ dlq' \in Seq(I!Records),
         handled' = handled \/ handled' \subseteq I!Records,
         ctxDone' \in BOOLEAN, closed' \in BOOLEAN,
         faults' = faults \/ faults' \in 0..MaxFaults,
         stops' = stops \/ stops' \in 0..MaxStops
  PROVE  I!TypeOK'
<1>1. I!Records' = I!Records /\ I!Partitions' = I!Partitions /\ I!Consumers' = I!Consumers
  BY SameSetup, Zenon DEF I!Consumers, I!NoRecord, I!Errors
<1>2. /\ committed' \in [I!Partitions -> Nat] /\ position' \in [I!Partitions -> Nat]
      /\ \A p \in I!Partitions : /\ committed'[p] <= setup.length[p]
                                 /\ position'[p] <= setup.length[p]
  BY Zenon DEF I!TypeOK
<1>3. /\ dlq' \in Seq(I!Records) /\ handled' \subseteq I!Records
      /\ faults' \in 0..MaxFaults /\ stops' \in 0..MaxStops
  BY Zenon DEF I!TypeOK
<1> QED
  BY <1>1, <1>2, <1>3, Zenon DEF I!TypeOK

\* A failed call is one of at most MaxFaults, and is a fault unless the context is done.
LEMMA CallFailsCounts ==
  ASSUME setup \in Setups, I!TypeOK, I!CallFails
  PROVE  /\ faults' \in 0..MaxFaults /\ faults' >= faults
         /\ ~ctxDone => faults' > 0
BY StreamAssumption DEF I!TypeOK, I!CallFails

\* Consume returns: nothing is in hand any more.
LEMMA Gone ==
  ASSUME setup \in Setups, NEW result \in I!Errors \cup {"none", "nil", "poison"},
         I!Return(result), I!CommittedSettled'
  PROVE  consumer' \in I!Consumers /\ PlaceInv' /\ OffsetInv' /\ SettledInv'
<1>1. /\ consumer'.at = "returned" /\ consumer'.msg = I!NoRecord /\ consumer'.resume = "none"
  BY DEF I!Return, I!Idle
<1>2. consumer' \in I!Consumers
  BY IdleTyped, Zenon DEF I!Return
<1>3. ~InHand' /\ ~Committing'
  BY <1>1 DEF InHand, Committing, I!NoRecord
<1>4. PlaceInv'
  BY <1>1, <1>3 DEF PlaceInv
<1>5. OffsetInv' /\ SettledInv'
  BY <1>1, <1>3 DEF OffsetInv, SettledInv
<1> QED
  BY <1>2, <1>4, <1>5

\* While the offsets and the history stay, so does what is settled.
LEMMA SameSettled ==
  ASSUME ConsumerInv, setup' = setup, UNCHANGED <<committed, dlq, handled>>
  PROVE  I!CommittedSettled'
BY SameSetup DEF ConsumerInv, SettledInv, I!CommittedSettled, I!Settled, I!Range

-----------------------------------------------------------------------------
(* The steps of Consume and the callback's outcomes.                       *)

\* fetch: the reader hands out the record at its position.
LEMMA FetchOkStep ==
  ASSUME setup \in Setups, ConsumerInv, setup' = setup,
         NEW p \in I!Partitions, I!FetchOk(p)
  PROVE  ConsumerInv'
<1>1. /\ committed \in [I!Partitions -> Nat] /\ position \in [I!Partitions -> Nat]
      /\ \A q \in I!Partitions : position[q] <= setup.length[q] /\ setup.length[q] \in Nat
  BY ConsumerTypes, Lengths DEF ConsumerInv
<1>2. /\ position[p] \in Nat /\ position[p] < setup.length[p]
      /\ position' = [position EXCEPT ![p] = @ + 1]
      /\ consumer.at = "fetch" /\ setup.source = "kafka"
      /\ UNCHANGED <<committed, dlq, ctxDone, closed, handled, faults, stops>>
  BY <1>1 DEF I!FetchOk, I!brokerVars
<1>3. <<p, position[p]>> \in I!Records
  BY <1>2, PairsAreRecords
<1>4. /\ consumer' \in I!Consumers
      /\ consumer'.at = "process" /\ consumer'.msg = <<p, position[p]>>
      /\ consumer'.resume = "none"
  <2> DEFINE c == I!Idle("process", "none")
  <2>1. c \in I!Consumers
    BY IdleTyped, Zenon DEF I!Errors
  <2>2. consumer' = [c EXCEPT !.msg = <<p, position[p]>>]
    BY Zenon DEF I!FetchOk
  <2>3. c.at = "process" /\ c.resume = "none"
    BY DEF I!Idle
  <2> HIDE DEF c
  <2>4. consumer' \in I!Consumers
    BY <2>1, <2>2, <1>3, Zenon DEF I!Consumers
  <2> QED
    BY <2>1, <2>2, <2>3, <2>4 DEF I!Consumers
<1>5. I!TypeOK'
  <2>1. /\ position' \in [I!Partitions -> Nat]
        /\ \A q \in I!Partitions : position'[q] <= setup.length[q]
    BY <1>1, <1>2
  <2>2. ctxDone' \in BOOLEAN /\ closed' \in BOOLEAN
    BY <1>2, Zenon DEF I!TypeOK, ConsumerInv
  <2> QED
    BY <1>2, <1>4, <2>1, <2>2, TypesAfter, Zenon DEF ConsumerInv
<1>6. ~InHand /\ InHand' /\ ~Committing'
  BY <1>2, <1>3, <1>4, RecordPairs DEF ConsumerInv, PlaceInv, InHand, Committing, I!NoRecord
<1>7. PlaceInv'
  BY <1>2, <1>4, <1>6 DEF PlaceInv
<1>8. OffsetInv'
  <2>1. \A q \in I!Partitions : position[q] = committed[q]
    BY <1>2, <1>6, Zenon DEF ConsumerInv, OffsetInv
  <2>2. consumer'.msg[1] = p /\ consumer'.msg[2] = committed'[p]
    BY <1>2, <1>4, <2>1
  <2>3. \A q \in I!Partitions : position'[q] = IF p = q THEN committed'[p] + 1 ELSE committed'[q]
    BY <1>1, <1>2, <2>1
  <2> QED
    BY <1>6, <2>2, <2>3, SameSetup, Zenon DEF OffsetInv
<1>9. SettledInv'
  BY <1>2, <1>6, SameSettled, Zenon DEF SettledInv
<1> QED
  BY <1>5, <1>7, <1>8, <1>9 DEF ConsumerInv
\* The record in hand is passed on, or there is none, and the offsets stay.
LEMMA GoesOn ==
  ASSUME setup \in Setups, ConsumerInv, setup' = setup,
         consumer' \in I!Consumers, consumer'.msg = consumer.msg, PlaceInv',
         consumer.at # "returned", Committing' <=> Committing,
         UNCHANGED <<committed, position, dlq, ctxDone, closed, handled, stops>>,
         faults' = faults \/ faults' \in 0..MaxFaults
  PROVE  ConsumerInv'
<1>1. ctxDone' \in BOOLEAN /\ closed' \in BOOLEAN
  BY Zenon DEF ConsumerInv, I!TypeOK
<1>2. I!TypeOK'
  BY <1>1, TypesAfter, Zenon DEF ConsumerInv
<1>3. OffsetInv' /\ SettledInv'
  BY Stays, Zenon
<1> QED
  BY <1>2, <1>3, Zenon DEF ConsumerInv

\* Consume returns, whatever it has in hand, and the offsets stay.
LEMMA GivesUp ==
  ASSUME setup \in Setups, ConsumerInv, setup' = setup,
         NEW result \in I!Errors \cup {"none", "nil", "poison"}, I!Return(result),
         UNCHANGED <<committed, position, ctxDone, closed, handled, stops>>,
         dlq' = dlq,
         faults' = faults \/ faults' \in 0..MaxFaults
  PROVE  ConsumerInv'
<1>1. ctxDone' \in BOOLEAN /\ closed' \in BOOLEAN
  BY Zenon DEF ConsumerInv, I!TypeOK
<1>2. consumer' \in I!Consumers /\ PlaceInv' /\ OffsetInv' /\ SettledInv'
  BY Gone, SameSettled, Zenon
<1>3. I!TypeOK'
  BY <1>1, <1>2, TypesAfter, Zenon DEF ConsumerInv
<1> QED
  BY <1>2, <1>3, Zenon DEF ConsumerInv

\* A failed attempt of fetch or commit: Consume returns, or backs off.
LEMMA RetryCallEffect ==
  ASSUME setup \in Setups, ConsumerInv, setup' = setup,
         setup.source = "kafka", consumer.at \in {"fetch", "commit"}, I!RetryCall
  PROVE  \/ \E result \in I!Errors : I!Return(result)
         \/ /\ consumer' \in I!Consumers /\ PlaceInv'
            /\ consumer'.msg = consumer.msg /\ consumer'.at = "backoff"
            /\ Committing' <=> Committing
<1>1. CASE I!Return("canceled") \/ I!Return("error")
  BY <1>1, Zenon DEF I!Errors
<1>2. CASE /\ consumer.attempt < MaxAttempts
           /\ consumer' = [consumer EXCEPT !.at = "backoff", !.resume = consumer.at]
  <2>1. consumer \in I!Consumers
    BY Zenon DEF ConsumerInv, I!TypeOK
  <2>2. consumer.at \in {"none", "fetch", "process", "commit"}
    OBVIOUS
  <2>3. consumer' \in I!Consumers
    BY <1>2, <2>1, <2>2, Zenon DEF I!Consumers
  <2>4. /\ consumer'.msg = consumer.msg /\ consumer'.at = "backoff"
        /\ consumer'.resume = consumer.at /\ consumer'.attempt = consumer.attempt
    BY <1>2, <2>1 DEF I!Consumers
  <2>5. Committing' <=> Committing
    BY <2>4 DEF Committing, ConsumerInv, PlaceInv
  <2> QED
    BY <1>2, <2>3, <2>4, <2>5 DEF ConsumerInv, PlaceInv, InHand, I!NoRecord
<1> QED
  BY <1>1, <1>2, Zenon DEF I!RetryCall

\* fetch fails and is tried again, or gives up.
LEMMA FetchFailsStep ==
  ASSUME setup \in Setups, ConsumerInv, setup' = setup, I!FetchFails
  PROVE  ConsumerInv'
<1>1. /\ setup.source = "kafka" /\ consumer.at = "fetch" /\ I!RetryCall /\ I!CallFails
      /\ UNCHANGED <<committed, position, dlq, ctxDone, closed, handled, stops>>
  BY DEF I!FetchFails, I!brokerVars
<1>2. faults' \in 0..MaxFaults
  BY <1>1, CallFailsCounts, Zenon DEF ConsumerInv
<1> QED
  BY <1>1, <1>2, RetryCallEffect, GoesOn, GivesUp
\* The context and Close are not the consumer's; no other step needs their types.
LEMMA Flags ==
  ASSUME ConsumerInv
  PROVE  /\ ctxDone \in BOOLEAN /\ closed \in BOOLEAN /\ consumer \in I!Consumers
         /\ dlq \in Seq(I!Records) /\ handled \subseteq I!Records
BY Zenon DEF ConsumerInv, I!TypeOK

\* waitBackoff ends and the call is tried again.
LEMMA TimerFiresStep ==
  ASSUME setup \in Setups, ConsumerInv, setup' = setup, I!TimerFires
  PROVE  ConsumerInv'
<1>1. /\ consumer.at = "backoff"
      /\ consumer' = [consumer EXCEPT !.at = consumer.resume, !.attempt = consumer.attempt + 1,
                                      !.resume = "none"]
      /\ UNCHANGED <<committed, position, dlq, ctxDone, closed, handled, faults, stops>>
  BY DEF I!TimerFires, I!brokerVars
<1>2. consumer.attempt + 1 \in 1..MaxAttempts /\ consumer.resume \in {"fetch", "process", "commit"}
  BY <1>1, ConsumerTypes, Lengths DEF ConsumerInv, PlaceInv
<1>3. consumer' \in I!Consumers
  BY <1>1, <1>2, Flags, Zenon DEF I!Consumers
<1>4. /\ consumer'.msg = consumer.msg /\ consumer'.at = consumer.resume
      /\ consumer'.resume = "none"
  BY <1>1, Flags DEF I!Consumers
<1>5. Committing' <=> Committing
  BY <1>1, <1>4 DEF Committing
<1>6. PlaceInv'
  BY <1>1, <1>2, <1>4 DEF ConsumerInv, PlaceInv, InHand, I!NoRecord
<1> QED
  BY <1>1, <1>3, <1>4, <1>5, <1>6, GoesOn

\* waitBackoff ends because the context was cancelled.
LEMMA BackoffCancelledStep ==
  ASSUME setup \in Setups, ConsumerInv, setup' = setup, I!BackoffCancelled
  PROVE  ConsumerInv'
<1>1. /\ I!Return("canceled")
      /\ UNCHANGED <<committed, position, dlq, ctxDone, closed, handled, faults, stops>>
  BY DEF I!BackoffCancelled, I!brokerVars
<1> QED
  BY <1>1, GivesUp DEF I!Errors

\* A failed attempt of process: the record is kept for the next one or for the policy.
LEMMA RetryProcessEffect ==
  ASSUME setup \in Setups, ConsumerInv, setup' = setup, setup.source = "kafka",
         consumer.at \in {"process", "handler"}, NEW last \in I!Errors, I!RetryProcess(last)
  PROVE  /\ consumer' \in I!Consumers /\ PlaceInv'
         /\ consumer'.msg = consumer.msg /\ (Committing' <=> Committing)
         /\ consumer'.last = last /\ consumer'.at \in {"backoff", "poison"}
         /\ consumer'.result = consumer.result
<1>1. /\ I!AfterFailure \in {"backoff", "poison"}
      /\ I!AfterFailure = "backoff" => consumer.attempt < MaxAttempts
  BY DEF I!AfterFailure
<1>2. consumer' = [consumer EXCEPT !.at = I!AfterFailure, !.resume = "process", !.last = last]
  BY DEF I!RetryProcess
<1>3. consumer' \in I!Consumers
  BY <1>1, <1>2, Flags, Zenon DEF I!Consumers
<1>4. /\ consumer'.msg = consumer.msg /\ consumer'.at = I!AfterFailure
      /\ consumer'.resume = "process" /\ consumer'.last = last
      /\ consumer'.attempt = consumer.attempt /\ consumer'.result = consumer.result
  BY <1>2, Flags DEF I!Consumers
<1>5. Committing' <=> Committing
  BY <1>1, <1>4 DEF Committing, ConsumerInv, PlaceInv
<1>6. PlaceInv'
  BY <1>1, <1>4 DEF ConsumerInv, PlaceInv, InHand, I!NoRecord
<1> QED
  BY <1>1, <1>3, <1>4, <1>5, <1>6

\* process: the record decodes and goes to the handler, or it is a failure.
LEMMA DecodeStep ==
  ASSUME setup \in Setups, ConsumerInv, setup' = setup, I!Decode
  PROVE  ConsumerInv'
<1>1. /\ consumer.at = "process"
      /\ UNCHANGED <<committed, position, dlq, ctxDone, closed, handled, faults, stops>>
  BY DEF I!Decode, I!brokerVars
<1>2. setup.source = "kafka"
  BY <1>1, Lengths DEF ConsumerInv, PlaceInv
<1>3. CASE I!RetryProcess("error")
  BY <1>1, <1>2, <1>3, RetryProcessEffect, GoesOn DEF I!Errors
<1>4. CASE consumer' = [consumer EXCEPT !.at = "handler"]
  <2>1. consumer' \in I!Consumers
    BY <1>4, Flags, Zenon DEF I!Consumers
  <2>2. /\ consumer'.msg = consumer.msg /\ consumer'.at = "handler"
        /\ consumer'.resume = consumer.resume
    BY <1>4, Flags DEF I!Consumers
  <2>3. Committing' <=> Committing
    BY <1>1, <2>2 DEF Committing
  <2>4. PlaceInv'
    BY <1>1, <1>2, <2>2 DEF ConsumerInv, PlaceInv, InHand, I!NoRecord
  <2> QED
    BY <1>1, <2>1, <2>2, <2>3, <2>4, GoesOn
<1> QED
  BY <1>3, <1>4, Zenon DEF I!Decode

\* The poison policy halt: Consume returns, nothing is committed.
LEMMA PoisonHaltsStep ==
  ASSUME setup \in Setups, ConsumerInv, setup' = setup, I!PoisonHalts
  PROVE  ConsumerInv'
<1>1. /\ UNCHANGED <<committed, position, dlq, ctxDone, closed, handled, faults, stops>>
      /\ \E result \in {"canceled", "poison"} : I!Return(result)
  BY DEF I!PoisonHalts, I!Halt, I!brokerVars
<1> QED
  BY <1>1, GivesUp DEF I!Errors
\* The record in hand was settled, and is now committed.
LEMMA ToCommit ==
  ASSUME setup \in Setups, ConsumerInv, setup' = setup, setup.source = "kafka",
         consumer.at \in {"handler", "poison"},
         consumer' = [consumer EXCEPT !.at = "commit", !.attempt = 1, !.last = "none"],
         UNCHANGED <<committed, position>>,
         I!Settled \subseteq I!Settled', consumer.msg \in I!Settled'
  PROVE  consumer' \in I!Consumers /\ PlaceInv' /\ OffsetInv' /\ SettledInv'
<1>1. 1 \in 1..MaxAttempts
  BY Lengths
<1>2. consumer' \in I!Consumers
  BY <1>1, Flags, Zenon DEF I!Consumers
<1>3. /\ consumer'.msg = consumer.msg /\ consumer'.at = "commit"
      /\ consumer'.resume = consumer.resume
  BY Flags DEF I!Consumers
<1>4. InHand /\ InHand' /\ consumer.resume # "commit"
  BY <1>3 DEF ConsumerInv, PlaceInv, InHand, I!NoRecord
<1>5. PlaceInv'
  BY <1>3, <1>4 DEF PlaceInv
<1>6. OffsetInv'
  BY <1>3, <1>4, SameSetup DEF ConsumerInv, OffsetInv, Committing
<1>7. SettledInv'
  BY <1>3, SameSetup, Zenon DEF ConsumerInv, SettledInv, I!CommittedSettled
<1> QED
  BY <1>2, <1>5, <1>6, <1>7

\* The poison policy dlq: the record is in the topic before it is committed.
LEMMA WriteDLQStep ==
  ASSUME setup \in Setups, ConsumerInv, setup' = setup, I!WriteDLQ
  PROVE  ConsumerInv'
<1>1. /\ consumer.at = "poison" /\ dlq' = Append(dlq, consumer.msg)
      /\ consumer' = [consumer EXCEPT !.at = "commit", !.attempt = 1, !.last = "none"]
      /\ UNCHANGED <<committed, position, ctxDone, closed, handled, faults, stops>>
  BY DEF I!WriteDLQ
<1>2. setup.source = "kafka" /\ InHand
  BY <1>1, Lengths DEF ConsumerInv, PlaceInv
<1>3. consumer.msg \in I!Records
  BY <1>2, Holds
<1>4. dlq' \in Seq(I!Records)
  BY <1>1, <1>3, Flags
<1>5. I!Settled \subseteq I!Settled' /\ consumer.msg \in I!Settled'
  BY <1>1, <1>3, Flags, SettledGrows, Zenon
<1>6. consumer' \in I!Consumers /\ PlaceInv' /\ OffsetInv' /\ SettledInv'
  BY <1>1, <1>2, <1>5, ToCommit
<1>7. I!TypeOK'
  BY <1>1, <1>4, <1>6, Flags, TypesAfter, Zenon DEF ConsumerInv
<1> QED
  BY <1>6, <1>7 DEF ConsumerInv

\* The write failed, or was made and its answer lost: Consume returns.
LEMMA WriteDLQFailsStep ==
  ASSUME setup \in Setups, ConsumerInv, setup' = setup, I!WriteDLQFails
  PROVE  ConsumerInv'
<1>1. /\ consumer.at = "poison" /\ (dlq' = dlq \/ dlq' = Append(dlq, consumer.msg))
      /\ I!CallFails /\ I!Return(I!Failure) /\ I!Failure \in I!Errors
      /\ UNCHANGED <<committed, position, ctxDone, closed, handled, stops>>
  BY DEF I!WriteDLQFails, I!Failure, I!Errors
<1>2. InHand
  BY <1>1 DEF ConsumerInv, PlaceInv
<1>3. consumer.msg \in I!Records
  BY <1>2, Holds
<1>4. dlq' \in Seq(I!Records)
  BY <1>1, <1>3, Flags
<1>5. I!Settled \subseteq I!Settled'
  BY <1>1, <1>3, Flags, SettledGrows, Zenon
<1>6. I!CommittedSettled'
  BY <1>1, <1>5, SameSetup, Zenon DEF ConsumerInv, SettledInv, I!CommittedSettled
<1>7. consumer' \in I!Consumers /\ PlaceInv' /\ OffsetInv' /\ SettledInv'
  <2>1. PICK result \in I!Errors : I!Return(result)
    BY <1>1, Zenon
  <2> QED
    BY <2>1, <1>6, Gone, Zenon
<1>8. faults' \in 0..MaxFaults
  BY <1>1, CallFailsCounts, Zenon DEF ConsumerInv
<1>9. I!TypeOK'
  BY <1>1, <1>4, <1>7, <1>8, Flags, TypesAfter, Zenon DEF ConsumerInv
<1> QED
  BY <1>7, <1>9 DEF ConsumerInv

\* A commit that reached the broker: the offset passes the record.
LEMMA CommitTakes ==
  ASSUME setup \in Setups, ConsumerInv, setup' = setup,
         consumer.at = "commit", committed' = I!Advance, UNCHANGED <<dlq, handled>>
  PROVE  /\ InHand /\ setup.source = "kafka"
         /\ committed' \in [I!Partitions -> Nat]
         /\ \A p \in I!Partitions :
              /\ committed'[p] <= setup.length[p]
              /\ committed'[p] = IF p = consumer.msg[1] THEN consumer.msg[2] + 1 ELSE committed[p]
         /\ I!CommittedSettled' /\ I!Settled' = I!Settled
         /\ \A p \in I!Partitions : position[p] = committed'[p]
<1>1. InHand /\ setup.source = "kafka" /\ Committing
  BY Lengths DEF ConsumerInv, PlaceInv, Committing
<1>2. I!Settled' = I!Settled /\ consumer.msg \in I!Settled
  BY <1>1, Zenon DEF I!Settled, I!Range, ConsumerInv, SettledInv
<1>3. /\ committed' \in [I!Partitions -> Nat] /\ I!CommittedSettled'
      /\ \A p \in I!Partitions :
           /\ committed'[p] <= setup.length[p]
           /\ committed'[p] = IF p = consumer.msg[1] THEN consumer.msg[2] + 1 ELSE committed[p]
  BY <1>1, <1>2, Advances, Zenon
<1>4. \A p \in I!Partitions :
        position[p] = IF consumer.msg[1] = p THEN consumer.msg[2] + 1 ELSE committed[p]
  BY <1>1 DEF ConsumerInv, OffsetInv
<1> QED
  BY <1>1, <1>2, <1>3, <1>4, Zenon

\* commit: the group's offset moves past the record in hand.
LEMMA CommitOkStep ==
  ASSUME setup \in Setups, ConsumerInv, setup' = setup, I!CommitOk
  PROVE  ConsumerInv'
<1>1. /\ consumer.at = "commit" /\ committed' = I!Advance
      /\ consumer' = I!Idle("fetch", "none")
      /\ UNCHANGED <<dlq, position, ctxDone, closed, handled, faults, stops>>
  BY DEF I!CommitOk
<1>2. /\ setup.source = "kafka" /\ committed' \in [I!Partitions -> Nat] /\ I!CommittedSettled'
      /\ \A p \in I!Partitions : committed'[p] <= setup.length[p] /\ position[p] = committed'[p]
  BY <1>1, CommitTakes
<1>3. consumer' \in I!Consumers
  BY <1>1, IdleTyped, Zenon
<1>4. consumer'.at = "fetch" /\ consumer'.msg = I!NoRecord /\ consumer'.resume = "none"
  BY <1>1 DEF I!Idle
<1>5. ~InHand' /\ ~Committing'
  BY <1>4 DEF InHand, Committing, I!NoRecord
<1>6. PlaceInv'
  BY <1>4, <1>5 DEF PlaceInv
<1>7. OffsetInv' /\ SettledInv'
  BY <1>1, <1>2, <1>5, SameSetup DEF OffsetInv, SettledInv
<1>8. I!TypeOK'
  BY <1>1, <1>2, <1>3, Flags, TypesAfter, Zenon DEF ConsumerInv
<1> QED
  BY <1>6, <1>7, <1>8 DEF ConsumerInv
\* The commit failed, or was made and its answer lost: a retry, or Consume returns.
LEMMA CommitFailsStep ==
  ASSUME setup \in Setups, ConsumerInv, setup' = setup, I!CommitFails
  PROVE  ConsumerInv'
<1>1. /\ consumer.at = "commit" /\ (committed' = committed \/ committed' = I!Advance)
      /\ I!CallFails /\ I!RetryCall
      /\ UNCHANGED <<dlq, position, ctxDone, closed, handled, stops>>
  BY DEF I!CommitFails
<1>2. setup.source = "kafka" /\ InHand /\ Committing /\ faults' \in 0..MaxFaults
  BY <1>1, Lengths, CallFailsCounts DEF ConsumerInv, PlaceInv, Committing
<1>3. CASE committed' = committed
  BY <1>1, <1>2, <1>3, RetryCallEffect, GoesOn, GivesUp
<1>4. CASE committed' = I!Advance
  <2>1. /\ committed' \in [I!Partitions -> Nat]
        /\ I!CommittedSettled' /\ I!Settled' = I!Settled
        /\ \A p \in I!Partitions :
             /\ committed'[p] <= setup.length[p] /\ position[p] = committed'[p]
             /\ committed'[p] = IF p = consumer.msg[1] THEN consumer.msg[2] + 1 ELSE committed[p]
    BY <1>1, <1>4, CommitTakes
  <2>2. ASSUME consumer' \in I!Consumers
        PROVE  I!TypeOK'
    BY <1>1, <1>2, <2>1, <2>2, Flags, TypesAfter, Zenon DEF ConsumerInv
  <2>3. CASE \E result \in I!Errors : I!Return(result)
    <3>1. consumer' \in I!Consumers /\ PlaceInv' /\ OffsetInv' /\ SettledInv'
      BY <2>1, <2>3, Gone, Zenon
    <3> QED
      BY <2>2, <3>1 DEF ConsumerInv
  <2>4. CASE /\ consumer' \in I!Consumers /\ PlaceInv'
             /\ consumer'.msg = consumer.msg /\ consumer'.at = "backoff"
             /\ Committing' <=> Committing
    <3>1. consumer.msg[1] \in I!Partitions /\ InHand'
      BY <1>2, <2>4, Holds DEF InHand, I!NoRecord
    <3>2. consumer.msg[2] + 1 = committed'[consumer.msg[1]]
      BY <2>1, <3>1
    <3>3. \A p \in I!Partitions :
            position'[p] = IF InHand' /\ consumer'.msg[1] = p THEN consumer'.msg[2] + 1
                           ELSE committed'[p]
      BY <1>1, <2>1, <2>4, Zenon
    <3>4. OffsetInv'
      BY <1>2, <2>4, <3>2, <3>3, SameSetup, Zenon DEF OffsetInv
    <3>5. SettledInv'
      BY <1>2, <2>1, <2>4, Zenon DEF SettledInv, ConsumerInv
    <3> QED
      BY <2>2, <2>4, <3>4, <3>5 DEF ConsumerInv
  <2> QED
    BY <1>1, <1>2, <2>3, <2>4, RetryCallEffect
<1> QED
  BY <1>1, <1>3, <1>4

\* With standard input there is one partition, and an event of it is left.
LEMMA TakeEventStep ==
  ASSUME setup \in Setups, ConsumerInv, setup' = setup,
         NEW p \in I!Partitions, I!TakeEvent(p)
  PROVE  ConsumerInv'
<1>1. /\ setup.source = "stdin" /\ consumer.at = "fetch"
      /\ UNCHANGED <<committed, position, dlq, ctxDone, closed, handled, faults, stops>>
  BY DEF I!TakeEvent, I!brokerVars
<1>2. CASE \E result \in {"error", "nil", "canceled"} : I!Return(result)
  BY <1>1, <1>2, GivesUp DEF I!Errors
<1>3. CASE /\ committed # I!Everything
           /\ consumer' = [I!Idle("handler", "none") EXCEPT !.msg = <<p, committed[p]>>]
  <2>1. committed[p] \in Nat /\ committed[p] < setup.length[p]
    <3>1. /\ committed \in [I!Partitions -> Nat] /\ setup.length \in [I!Partitions -> Nat]
          /\ committed[p] <= setup.length[p]
      BY ConsumerTypes, Lengths, Zenon DEF ConsumerInv
    <3>2. \A q \in I!Partitions : q = p
      BY <1>1, StreamAssumption DEF I!Partitions
    <3>3. committed[p] # setup.length[p]
      BY <1>3, <3>1, <3>2 DEF I!Everything
    <3> QED
      BY <3>1, <3>3
  <2>2. <<p, committed[p]>> \in I!Records
    BY <2>1, PairsAreRecords
  <2> DEFINE c == I!Idle("handler", "none")
  <2>3. c \in I!Consumers /\ c.at = "handler" /\ c.resume = "none"
    BY IdleTyped DEF I!Idle
  <2>4. consumer' = [c EXCEPT !.msg = <<p, committed[p]>>]
    BY <1>3
  <2> HIDE DEF c
  <2>5. consumer' \in I!Consumers
    BY <2>2, <2>3, <2>4, Zenon DEF I!Consumers
  <2>6. /\ consumer'.at = "handler" /\ consumer'.msg = <<p, committed[p]>>
        /\ consumer'.resume = "none"
    BY <2>3, <2>4 DEF I!Consumers
  <2>7. InHand' /\ ~Committing'
    BY <2>2, <2>6, RecordPairs DEF InHand, Committing, I!NoRecord
  <2>8. PlaceInv'
    BY <1>1, <2>6, <2>7 DEF PlaceInv
  <2>9. OffsetInv'
    BY <1>1, <2>6 DEF OffsetInv
  <2>10. SettledInv'
    BY <1>1, <2>7, SameSettled, Zenon DEF SettledInv
  <2>11. I!TypeOK'
    BY <1>1, <2>5, Flags, TypesAfter, Zenon DEF ConsumerInv
  <2> QED
    BY <2>8, <2>9, <2>10, <2>11 DEF ConsumerInv
<1> QED
  BY <1>2, <1>3, Zenon DEF I!TakeEvent
\* The handler succeeds: with Kafka the record is committed next, an event of
\* standard input is taken off at once.
LEMMA HandlerSucceedsStep ==
  ASSUME setup \in Setups, ConsumerInv, setup' = setup, I!HandlerSucceeds
  PROVE  ConsumerInv'
<1>1. /\ consumer.at = "handler" /\ handled' = handled \cup {consumer.msg}
      /\ UNCHANGED <<dlq, position, ctxDone, closed, faults, stops>>
  BY DEF I!HandlerSucceeds
<1>2. InHand /\ consumer.msg \in I!Records
  BY <1>1, Holds DEF ConsumerInv, PlaceInv
<1>3. handled' \subseteq I!Records /\ handled \subseteq handled' /\ consumer.msg \in handled'
  BY <1>1, <1>2, Flags, Zenon
<1>4. I!Settled \subseteq I!Settled' /\ consumer.msg \in I!Settled'
  BY <1>1, <1>3, Zenon DEF I!Settled, I!Range
<1>5. CASE /\ setup.source = "kafka" /\ committed' = committed
           /\ consumer' = [consumer EXCEPT !.at = "commit", !.attempt = 1, !.last = "none"]
  <2>1. consumer' \in I!Consumers /\ PlaceInv' /\ OffsetInv' /\ SettledInv'
    BY <1>1, <1>4, <1>5, ToCommit
  <2>2. I!TypeOK'
    BY <1>1, <1>3, <1>5, <2>1, Flags, TypesAfter, Zenon DEF ConsumerInv
  <2> QED
    BY <2>1, <2>2 DEF ConsumerInv
<1>6. CASE /\ setup.source # "kafka" /\ consumer' = I!Idle("fetch", "none")
           /\ committed' = I!Advance
  <2>1. /\ committed' \in [I!Partitions -> Nat] /\ I!CommittedSettled'
        /\ \A p \in I!Partitions : committed'[p] <= setup.length[p]
    BY <1>2, <1>4, <1>6, Advances, Zenon
  <2>2. consumer' \in I!Consumers
    BY <1>6, IdleTyped, Zenon
  <2>3. consumer'.at = "fetch" /\ consumer'.msg = I!NoRecord /\ consumer'.resume = "none"
    BY <1>6 DEF I!Idle
  <2>4. ~InHand' /\ ~Committing'
    BY <2>3 DEF InHand, Committing, I!NoRecord
  <2>5. PlaceInv' /\ OffsetInv' /\ SettledInv'
    BY <1>6, <2>1, <2>3, <2>4 DEF PlaceInv, OffsetInv, SettledInv
  <2>6. I!TypeOK'
    BY <1>1, <1>3, <2>1, <2>2, Flags, TypesAfter, Zenon DEF ConsumerInv
  <2> QED
    BY <2>5, <2>6 DEF ConsumerInv
<1> QED
  BY <1>5, <1>6, Zenon DEF I!HandlerSucceeds

\* The callback failed: the record is tried again, or it is poison.
LEMMA HandlerFailsStep ==
  ASSUME setup \in Setups, ConsumerInv, setup' = setup,
         NEW last \in I!Errors, I!HandlerFails(last), faults' = faults
  PROVE  ConsumerInv'
<1>1. /\ consumer.at = "handler"
      /\ UNCHANGED <<committed, position, dlq, ctxDone, closed, handled, stops>>
  BY DEF I!HandlerFails, I!brokerVars
<1>2. CASE setup.source = "kafka" /\ I!RetryProcess(last)
  BY <1>1, <1>2, RetryProcessEffect, GoesOn
<1>3. CASE I!Return(last)
  BY <1>1, <1>3, GivesUp
<1> QED
  BY <1>2, <1>3, Zenon DEF I!HandlerFails

\* A new process takes the group's offsets as its own.
LEMMA StartStep ==
  ASSUME setup \in Setups, ConsumerInv, setup' = setup, I!Start,
         stops' = stops \/ stops' \in 0..MaxStops
  PROVE  ConsumerInv'
<1>1. /\ position' = committed /\ consumer' = I!Idle("fetch", "none")
      /\ ctxDone' = FALSE /\ closed' = FALSE
      /\ UNCHANGED <<committed, dlq, handled, faults>>
  BY DEF I!Start, I!brokerVars
<1>2. consumer' \in I!Consumers
  BY <1>1, IdleTyped, Zenon
<1>3. consumer'.at = "fetch" /\ consumer'.msg = I!NoRecord /\ consumer'.resume = "none"
  BY <1>1 DEF I!Idle
<1>4. ~InHand' /\ ~Committing'
  BY <1>3 DEF InHand, Committing, I!NoRecord
<1>5. PlaceInv' /\ OffsetInv'
  BY <1>1, <1>3, <1>4 DEF PlaceInv, OffsetInv
<1>6. SettledInv'
  BY <1>1, <1>4, SameSettled, Zenon DEF SettledInv
<1>7. I!TypeOK'
  <2>1. /\ position' \in [I!Partitions -> Nat]
        /\ \A p \in I!Partitions : position'[p] <= setup.length[p]
    BY <1>1, ConsumerTypes, Zenon DEF ConsumerInv
  <2> QED
    BY <1>1, <1>2, <2>1, TypesAfter, Zenon DEF ConsumerInv
<1> QED
  BY <1>5, <1>6, <1>7 DEF ConsumerInv

\* What the callback, main and a signal do beside the consumer.
LEMMA BesideConsumer ==
  ASSUME setup \in Setups, ConsumerInv, setup' = setup,
         UNCHANGED <<committed, position, consumer, dlq, handled>>,
         ctxDone' \in BOOLEAN, closed' \in BOOLEAN,
         faults' = faults \/ faults' \in 0..MaxFaults,
         stops' = stops \/ stops' \in 0..MaxStops
  PROVE  ConsumerInv'
<1>1. I!TypeOK'
  BY Flags, TypesAfter, Zenon DEF ConsumerInv
<1>2. PlaceInv' /\ OffsetInv'
  BY SameSetup DEF ConsumerInv, PlaceInv, OffsetInv, InHand, Committing, I!NoRecord
<1>3. SettledInv'
  <2>1. I!CommittedSettled' /\ I!Settled' = I!Settled
    BY SameSettled, Zenon DEF I!Settled, I!Range
  <2> QED
    BY <2>1, Zenon DEF ConsumerInv, SettledInv, Committing
<1> QED
  BY <1>1, <1>2, <1>3 DEF ConsumerInv
\* A step of Consume, seen from the callback and from main.
LEMMA ConsumeEffect ==
  ASSUME setup \in Setups, ConsumerInv, setup' = setup, I!Consume
  PROVE  /\ ConsumerInv' /\ faults \in Nat /\ faults' \in Nat /\ faults' >= faults
         /\ consumer.at \notin {"handler", "returned"}
         /\ UNCHANGED <<ctxDone, closed, stops>>
         /\ consumer'.last # "none" =>
              /\ consumer'.msg = consumer.msg
              /\ consumer'.last = consumer.last \/ consumer.msg \in setup.malformed
         /\ consumer'.at = "poison" => consumer'.last # "none"
         /\ consumer'.at = "returned" => consumer'.result # "none"
         /\ consumer'.result \in {"error", "poison"} =>
              \/ closed \/ faults' > 0 \/ consumer'.result = consumer.result
              \/ consumer.at = "poison" /\ consumer.last # "canceled"
<1> USE DEF I!Errors, I!brokerVars
<1>1. faults \in Nat /\ consumer \in I!Consumers
  BY Flags, StreamAssumption DEF ConsumerInv, I!TypeOK
<1>2. ASSUME NEW p \in I!Partitions, I!FetchOk(p)
      PROVE  /\ ConsumerInv' /\ faults' = faults /\ consumer.at = "fetch"
             /\ UNCHANGED <<ctxDone, closed, stops>>
             /\ consumer'.last = "none" /\ consumer'.at = "process" /\ consumer'.result = "none"
  BY <1>2, FetchOkStep, Zenon DEF I!FetchOk, I!Idle
<1>3. ASSUME NEW p \in I!Partitions, I!TakeEvent(p)
      PROVE  /\ ConsumerInv' /\ faults' = faults /\ consumer.at = "fetch"
             /\ UNCHANGED <<ctxDone, closed, stops>>
             /\ consumer'.last = "none" /\ consumer'.at \in {"handler", "returned"}
             /\ consumer'.at = "returned" => consumer'.result # "none"
             /\ consumer'.result \in {"error", "poison"} => closed
  BY <1>3, TakeEventStep DEF I!TakeEvent, I!Idle, I!Return
<1>4. ASSUME I!RetryCall, I!CallFails, consumer.at \in {"fetch", "commit"}
      PROVE  /\ faults' \in Nat /\ faults' >= faults
             /\ consumer'.last = "none" \/ (consumer'.last = consumer.last /\ consumer'.msg = consumer.msg)
             /\ consumer'.at \in {"backoff", "returned"}
             /\ consumer'.at = "returned" => consumer'.result # "none"
             /\ consumer'.result \in {"error", "poison"} =>
                  faults' > 0 \/ consumer'.result = consumer.result
  <2>1. /\ faults' \in Nat /\ faults' >= faults /\ (~ctxDone => faults' > 0)
    BY <1>4, CallFailsCounts DEF ConsumerInv
  <2>2. CASE I!Return("canceled") \/ (~ctxDone /\ I!Return("error"))
    BY <2>1, <2>2 DEF I!Return, I!Idle
  <2>3. CASE consumer' = [consumer EXCEPT !.at = "backoff", !.resume = consumer.at]
    BY <1>1, <2>1, <2>3 DEF I!Consumers
  <2> QED
    BY <1>4, <2>2, <2>3, Zenon DEF I!RetryCall
<1>5. ASSUME I!FetchFails
      PROVE  ConsumerInv' /\ consumer.at = "fetch" /\ UNCHANGED <<ctxDone, closed, stops>>
  BY <1>5, FetchFailsStep DEF I!FetchFails
<1>6. ASSUME I!CommitFails
      PROVE  ConsumerInv' /\ consumer.at = "commit" /\ UNCHANGED <<ctxDone, closed, stops>>
  BY <1>6, CommitFailsStep DEF I!CommitFails
<1>7. ASSUME I!TimerFires
      PROVE  /\ ConsumerInv' /\ faults' = faults /\ consumer.at = "backoff"
             /\ UNCHANGED <<ctxDone, closed, stops>>
             /\ consumer'.last = consumer.last /\ consumer'.msg = consumer.msg
             /\ consumer'.at = consumer.resume /\ consumer'.result = consumer.result
             /\ consumer.resume \notin {"poison", "returned"}
  BY <1>1, <1>7, TimerFiresStep DEF I!TimerFires, I!Consumers
<1>8. ASSUME I!BackoffCancelled \/ I!PoisonHalts
      PROVE  /\ ConsumerInv' /\ faults' = faults /\ consumer.at \in {"backoff", "poison"}
             /\ UNCHANGED <<ctxDone, closed, stops>>
             /\ consumer'.last = "none" /\ consumer'.at = "returned" /\ consumer'.result # "none"
             /\ consumer'.result \in {"error", "poison"} =>
                  consumer.at = "poison" /\ consumer.last # "canceled"
  BY <1>8, BackoffCancelledStep, PoisonHaltsStep
     DEF I!BackoffCancelled, I!PoisonHalts, I!Halt, I!Return, I!Idle
<1>9. ASSUME I!Decode
      PROVE  /\ ConsumerInv' /\ faults' = faults /\ consumer.at = "process"
             /\ UNCHANGED <<ctxDone, closed, stops>>
             /\ consumer'.msg = consumer.msg /\ consumer'.result = consumer.result
             /\ consumer'.last = consumer.last \/ consumer.msg \in setup.malformed
             /\ consumer'.at = "poison" => consumer'.last # "none"
             /\ consumer'.at # "returned"
  BY <1>1, <1>9, DecodeStep, Zenon DEF I!Decode, I!RetryProcess, I!AfterFailure, I!Consumers
<1>10. ASSUME I!WriteDLQ
       PROVE  /\ ConsumerInv' /\ faults' = faults /\ consumer.at = "poison"
              /\ UNCHANGED <<ctxDone, closed, stops>>
              /\ consumer'.last = "none" /\ consumer'.at = "commit"
              /\ consumer'.result = consumer.result
  BY <1>1, <1>10, WriteDLQStep DEF I!WriteDLQ, I!Consumers
<1>11. ASSUME I!WriteDLQFails
       PROVE  /\ ConsumerInv' /\ faults' \in Nat /\ faults' >= faults /\ consumer.at = "poison"
              /\ UNCHANGED <<ctxDone, closed, stops>>
              /\ consumer'.last = "none" /\ consumer'.at = "returned" /\ consumer'.result # "none"
              /\ consumer'.result \in {"error", "poison"} => faults' > 0
  BY <1>11, WriteDLQFailsStep, CallFailsCounts
     DEF I!WriteDLQFails, I!Return, I!Idle, I!Failure, ConsumerInv
<1>12. ASSUME I!CommitOk
       PROVE  /\ ConsumerInv' /\ faults' = faults /\ consumer.at = "commit"
              /\ UNCHANGED <<ctxDone, closed, stops>>
              /\ consumer'.last = "none" /\ consumer'.at = "fetch" /\ consumer'.result = "none"
  BY <1>12, CommitOkStep DEF I!CommitOk, I!Idle
<1>13. CASE I!FetchFails
  BY <1>1, <1>4, <1>5, <1>13 DEF I!FetchFails
<1>14. CASE I!CommitFails
  BY <1>1, <1>4, <1>6, <1>14 DEF I!CommitFails
<1>15. CASE I!Decode \/ I!TimerFires \/ I!WriteDLQ
  BY <1>1, <1>7, <1>9, <1>10, <1>15
<1>16. CASE I!BackoffCancelled \/ I!PoisonHalts \/ I!WriteDLQFails \/ I!CommitOk
  BY <1>1, <1>8, <1>11, <1>12, <1>16
<1>17. CASE \E p \in I!Partitions : I!FetchOk(p) \/ I!TakeEvent(p)
  BY <1>1, <1>2, <1>3, <1>17
<1> QED
  BY <1>13, <1>14, <1>15, <1>16, <1>17, Zenon DEF I!Consume
-----------------------------------------------------------------------------
(* The steps of the process.                                               *)

\* The types of main's variables and of operationalState.
LEMMA ProcessTypes ==
  ASSUME SInv
  PROVE  /\ main.at \in {"starting", "running", "stopping", "cancel", "close", "shutdown", "exited"}
         /\ main.failed \in BOOLEAN /\ main.consumeFailed \in BOOLEAN
         /\ main = [at |-> main.at, failed |-> main.failed, consumeFailed |-> main.consumeFailed]
         /\ call \in {"none", "entered", "unchanged", "changed"} \cup I!Errors
         /\ ready \in BOOLEAN /\ restarted \in BOOLEAN
         /\ attempts \in Nat /\ events \in Nat /\ materialized \in 0..events /\ failures \in Nat
         /\ faults \in 0..MaxFaults /\ stops \in 0..MaxStops
         /\ ctxDone \in BOOLEAN /\ closed \in BOOLEAN
BY DEF SInv, StateTells, TypeOK, I!TypeOK

Mains ==
  [at : {"starting", "running", "stopping", "cancel", "close", "shutdown", "exited"},
   failed : BOOLEAN, consumeFailed : BOOLEAN]

\* What makes StateTells true again after a step.
LEMMA TellsAfter ==
  ASSUME ConsumerInv', main' \in Mains,
         call' \in {"none", "entered", "unchanged", "changed"} \cup I!Errors,
         ready' \in BOOLEAN, restarted' \in BOOLEAN,
         attempts' \in Nat, events' \in Nat, materialized' \in 0..events', failures' \in Nat,
         consumer'.msg \notin setup'.malformed /\ consumer'.last # "none" => ~ready',
         attempts' = events' + (IF call' = "none" THEN 0 ELSE 1)
                       + failures' - (IF main'.consumeFailed THEN 1 ELSE 0)
  PROVE  StateTells'
BY Zenon DEF StateTells, TypeOK, ConsumerInv, Mains, I!Errors

\* A step of main that touches neither the callback nor the counters.
LEMMA OnlyMain ==
  ASSUME SInv, setup' = setup, ConsumerInv', main' \in Mains,
         main'.consumeFailed = main.consumeFailed,
         consumer' = consumer, UNCHANGED <<call, attempts, events, materialized, failures, restarted>>,
         ready' = ready \/ ready' = FALSE \/ (ready' = TRUE /\ consumer.last = "none"),
         main'.at # "starting", main'.at = "running" => main.at = "starting",
         closed' => main'.at \in {"shutdown", "exited"}
  PROVE  SInv'
<1>1. MainInv'
  BY DEF SInv, MainInv, At
<1>2. StateTells'
  <2>1. /\ consumer'.msg \notin setup'.malformed /\ consumer'.last # "none" => ~ready'
        /\ attempts' = events' + (IF call' = "none" THEN 0 ELSE 1)
                         + failures' - (IF main'.consumeFailed THEN 1 ELSE 0)
    BY DEF SInv, StateTells
  <2>2. /\ call' \in {"none", "entered", "unchanged", "changed"} \cup I!Errors
        /\ ready' \in BOOLEAN /\ restarted' \in BOOLEAN
        /\ attempts' \in Nat /\ events' \in Nat /\ materialized' \in 0..events' /\ failures' \in Nat
    BY ProcessTypes, Zenon
  <2> QED
    BY <2>1, <2>2, TellsAfter, Zenon
<1> QED
  BY <1>1, <1>2 DEF SInv

\* A step of Consume outside the callback keeps the invariant of the process.
LEMMA ConsumeStepInv ==
  ASSUME SInv, setup' = setup, ConsumeStep
  PROVE  SInv'
<1>1. /\ Consuming /\ I!Consume
      /\ UNCHANGED <<main, call, ready, attempts, events, materialized, failures, restarted>>
  BY DEF ConsumeStep, state
<1>2. /\ ConsumerInv' /\ consumer.at # "handler" /\ closed' = closed
      /\ consumer'.last # "none" =>
           /\ consumer'.msg = consumer.msg
           /\ consumer'.last = consumer.last \/ consumer.msg \in setup.malformed
  BY <1>1, ConsumeEffect DEF SInv
<1>3. call = "none" /\ ~At("starting")
  BY <1>1, <1>2 DEF SInv, MainInv, Consuming, At
<1>4. MainInv'
  BY <1>1, <1>2, <1>3 DEF SInv, MainInv, At
<1>5. StateTells'
  <2>1. /\ consumer'.msg \notin setup'.malformed /\ consumer'.last # "none" => ~ready'
        /\ attempts' = events' + (IF call' = "none" THEN 0 ELSE 1)
                         + failures' - (IF main'.consumeFailed THEN 1 ELSE 0)
    BY <1>1, <1>2 DEF SInv, StateTells
  <2>2. /\ call' \in {"none", "entered", "unchanged", "changed"} \cup I!Errors
        /\ ready' \in BOOLEAN /\ restarted' \in BOOLEAN /\ main' \in Mains
        /\ attempts' \in Nat /\ events' \in Nat /\ materialized' \in 0..events' /\ failures' \in Nat
    BY <1>1, ProcessTypes, Zenon DEF SInv, StateTells, TypeOK, Mains
  <2> QED
    BY <1>2, <2>1, <2>2, TellsAfter, Zenon
<1> QED
  BY <1>2, <1>4, <1>5 DEF SInv

\* ApplyAndMaterialize has an outcome; an error of the sink is a failed call.
LEMMA ApplyEffect ==
  ASSUME SInv, ApplyAndMaterialize
  PROVE  /\ Consuming /\ call = "entered"
         /\ call' \in {"unchanged", "changed"} \cup I!Errors
         /\ faults' \in 0..MaxFaults /\ faults' >= faults
         /\ call' = "error" => W!Refused(Event) \/ faults' > 0
         /\ UNCHANGED <<committed, position, consumer, ctxDone, closed, dlq, handled, stops, main,
                        ready, attempts, events, materialized, failures, restarted>>
<1>1. /\ Consuming /\ call = "entered"
      /\ UNCHANGED <<committed, position, consumer, ctxDone, closed, dlq, handled, stops, main,
                     ready, attempts, events, materialized, failures, restarted>>
  BY DEF ApplyAndMaterialize, state
<1>2. faults \in 0..MaxFaults /\ MaxFaults \in Nat
  BY ProcessTypes, StreamAssumption
<1>3. CASE call' \in {"unchanged", "changed"} /\ faults' = faults
  BY <1>1, <1>2, <1>3
<1>4. CASE W!Refused(Event) /\ call' = "error" /\ faults' = faults
  BY <1>1, <1>2, <1>4 DEF I!Errors
<1>5. CASE call' = I!Failure /\ I!CallFails
  <2>1. /\ faults' \in 0..MaxFaults /\ faults' >= faults
        /\ ~ctxDone => faults' > 0
    BY <1>5, CallFailsCounts DEF SInv, ConsumerInv
  <2> QED
    BY <1>1, <1>5, <2>1 DEF I!Failure, I!Errors
<1> QED
  BY <1>3, <1>4, <1>5, Zenon DEF ApplyAndMaterialize

\* Before it, and as it is entered, the callback only counts.
LEMMA CallbackInv ==
  ASSUME SInv, setup' = setup, EnterHandler \/ ApplyAndMaterialize
  PROVE  SInv'
<1>1. /\ UNCHANGED <<committed, position, consumer, ctxDone, closed, dlq, handled, stops, main,
                     ready, events, materialized, failures, restarted>>
      /\ faults' = faults \/ faults' \in 0..MaxFaults
      /\ Consuming /\ consumer.at = "handler" /\ call' # "none"
      /\ call' \in {"none", "entered", "unchanged", "changed"} \cup I!Errors
      /\ attempts' = IF call = "none" THEN attempts + 1 ELSE attempts
  <2>1. CASE EnterHandler
    BY <2>1 DEF EnterHandler, CountAttempt, ingestion
  <2>2. CASE ApplyAndMaterialize
    BY <2>2, ApplyEffect DEF SInv, MainInv, I!Errors
  <2> QED
    BY <2>1, <2>2
<1>2. ConsumerInv'
  BY <1>1, ProcessTypes, BesideConsumer DEF SInv
<1>3. MainInv'
  BY <1>1 DEF SInv, MainInv, At
<1>4. StateTells'
  <2>1. /\ consumer'.msg \notin setup'.malformed /\ consumer'.last # "none" => ~ready'
        /\ attempts' = events' + (IF call' = "none" THEN 0 ELSE 1)
                         + failures' - (IF main'.consumeFailed THEN 1 ELSE 0)
    BY <1>1, ProcessTypes DEF SInv, StateTells
  <2>2. /\ ready' \in BOOLEAN /\ restarted' \in BOOLEAN /\ main' \in Mains
        /\ events' \in Nat /\ materialized' \in 0..events' /\ failures' \in Nat
    BY <1>1, ProcessTypes, Zenon DEF SInv, StateTells, TypeOK, Mains
  <2>3. attempts' \in Nat
    BY <1>1, ProcessTypes
  <2> QED
    BY <1>1, <1>2, <2>1, <2>2, <2>3, TellsAfter, Zenon
<1> QED
  BY <1>2, <1>3, <1>4 DEF SInv
\* The consumer once its handler has succeeded.
LEMMA AfterSuccess ==
  ASSUME SInv, setup' = setup, I!HandlerSucceeds
  PROVE  /\ ConsumerInv' /\ UNCHANGED <<ctxDone, closed, faults, stops>>
         /\ consumer'.at \in {"commit", "fetch"} /\ consumer'.last = "none"
         /\ consumer'.result \in {"none", consumer.result}
<1>1. ConsumerInv' /\ UNCHANGED <<ctxDone, closed, faults, stops>>
  BY HandlerSucceedsStep DEF SInv, I!HandlerSucceeds
<1>2. CASE consumer' = [consumer EXCEPT !.at = "commit", !.attempt = 1, !.last = "none"]
  BY <1>1, <1>2, Flags DEF SInv, I!Consumers
<1>3. CASE consumer' = I!Idle("fetch", "none")
  BY <1>1, <1>3 DEF I!Idle
<1> QED
  BY <1>2, <1>3, Zenon DEF I!HandlerSucceeds

\* The consumer once its handler has failed.
LEMMA AfterError ==
  ASSUME SInv, setup' = setup, NEW last \in I!Errors, I!HandlerFails(last), faults' = faults
  PROVE  /\ ConsumerInv' /\ UNCHANGED <<ctxDone, closed, faults, stops>>
         /\ consumer'.at \in {"backoff", "poison", "returned"}
         /\ consumer'.last \in {"none", last} /\ consumer'.result \in {last, consumer.result}
         /\ consumer'.at = "poison" => consumer'.last = last
         /\ consumer'.at = "returned" => consumer'.result = last
<1>1. ConsumerInv' /\ UNCHANGED <<ctxDone, closed, faults, stops>> /\ consumer.at = "handler"
  BY HandlerFailsStep DEF SInv, I!HandlerFails
<1>2. CASE setup.source = "kafka" /\ I!RetryProcess(last)
  BY <1>1, <1>2, RetryProcessEffect DEF SInv
<1>3. CASE I!Return(last)
  BY <1>1, <1>3 DEF I!Return, I!Idle
<1> QED
  BY <1>2, <1>3, Zenon DEF I!HandlerFails

\* The callback returns nil: the process is ready and the event counted.
LEMMA HandlerSucceedsInv ==
  ASSUME SInv, setup' = setup, HandlerSucceeds
  PROVE  SInv'
<1>1. /\ Consuming /\ call \in {"unchanged", "changed"} /\ call' = "none"
      /\ events' = events + 1 /\ ready' = TRUE
      /\ materialized' = IF call = "changed" THEN materialized + 1 ELSE materialized
      /\ I!HandlerSucceeds /\ UNCHANGED <<main, attempts, failures, restarted>>
  BY DEF HandlerSucceeds
<1>2. ConsumerInv' /\ closed' = closed /\ consumer'.last = "none"
  BY <1>1, AfterSuccess
<1>3. MainInv'
  BY <1>1, <1>2 DEF SInv, MainInv, At
<1>4. StateTells'
  <2>1. attempts' = events' + (IF call' = "none" THEN 0 ELSE 1)
                         + failures' - (IF main'.consumeFailed THEN 1 ELSE 0)
    BY <1>1, ProcessTypes DEF SInv, StateTells
  <2>2. /\ events' \in Nat /\ materialized' \in 0..events'
    BY <1>1, ProcessTypes
  <2>3. /\ restarted' \in BOOLEAN /\ main' \in Mains /\ attempts' \in Nat /\ failures' \in Nat
    BY <1>1, ProcessTypes, Zenon DEF SInv, StateTells, TypeOK, Mains
  <2> QED
    BY <1>1, <1>2, <2>1, <2>2, <2>3, TellsAfter, Zenon
<1> QED
  BY <1>2, <1>3, <1>4 DEF SInv

\* The callback returns an error: the process is not ready and the failure counted.
LEMMA HandlerFailsInv ==
  ASSUME SInv, setup' = setup, HandlerFails
  PROVE  SInv'
<1>1. /\ Consuming /\ call \in I!Errors /\ call' = "none"
      /\ ready' = FALSE /\ failures' = failures + 1
      /\ I!HandlerFails(call) /\ faults' = faults
      /\ UNCHANGED <<main, attempts, events, materialized, restarted>>
  BY DEF HandlerFails, FailureReadiness
<1>2. ConsumerInv' /\ closed' = closed
  <2>1. PICK last \in I!Errors : I!HandlerFails(last)
    BY <1>1, Zenon
  <2> QED
    BY <1>1, <2>1, AfterError
<1>3. MainInv'
  BY <1>1, <1>2 DEF SInv, MainInv, At, Consuming
<1>4. StateTells'
  <2>1. attempts' = events' + (IF call' = "none" THEN 0 ELSE 1)
                         + failures' - (IF main'.consumeFailed THEN 1 ELSE 0)
    BY <1>1, ProcessTypes DEF SInv, StateTells, I!Errors
  <2>2. failures' \in Nat
    BY <1>1, ProcessTypes
  <2>3. /\ restarted' \in BOOLEAN /\ main' \in Mains
        /\ attempts' \in Nat /\ events' \in Nat /\ materialized' \in 0..events'
    BY <1>1, ProcessTypes, Zenon DEF SInv, StateTells, TypeOK, Mains
  <2> QED
    BY <1>1, <1>2, <2>1, <2>2, <2>3, TellsAfter, Zenon
<1> QED
  BY <1>2, <1>3, <1>4 DEF SInv

\* The steps of main, but for the select that finds Consume done, and a signal.
LEMMA MainStepInv ==
  ASSUME SInv, setup' = setup,
         \/ StartupProbe \/ SelectDone \/ SelectHttpErr
         \/ Stopping \/ CancelContext \/ CloseConsumer \/ Exit
  PROVE  /\ SInv' /\ UNCHANGED <<consumer, call>> /\ faults' \in Nat /\ faults' >= faults
         /\ main'.failed => main.failed \/ faults' > 0
         /\ closed => closed'
<1> USE DEF At, ingestion, state
<1>1. /\ main \in Mains /\ faults \in Nat /\ faults <= MaxFaults /\ MaxFaults \in Nat
      /\ closed => main.at \in {"shutdown", "exited"}
      /\ ctxDone \in BOOLEAN /\ closed \in BOOLEAN
  BY ProcessTypes, StreamAssumption DEF Mains, SInv, MainInv
<1>2. /\ main'.failed => main.failed \/ faults' > 0
      /\ main' \in Mains /\ main'.consumeFailed = main.consumeFailed
      /\ UNCHANGED <<committed, position, consumer, dlq, handled, stops, call, attempts, events,
                     materialized, failures, restarted>>
      /\ faults' \in 0..MaxFaults /\ faults' >= faults
      /\ ready' = ready \/ ready' = FALSE \/ (ready' = TRUE /\ main.at = "starting")
      /\ main'.at # "starting" /\ (main'.at = "running" => main.at = "starting")
      /\ ctxDone' \in BOOLEAN /\ closed' \in BOOLEAN
      /\ closed => closed' /\ main'.at \in {"shutdown", "exited"}
      /\ closed' => main'.at \in {"shutdown", "exited"}
  <2>1. ASSUME NEW place \in {"running", "stopping", "cancel", "close", "shutdown", "exited"},
               Goto(place)
        PROVE  /\ main' \in Mains /\ main'.at = place /\ main'.failed = main.failed
               /\ main'.consumeFailed = main.consumeFailed
    <3>1. main' \in Mains
      BY <1>1, <2>1, Zenon DEF Mains, Goto
    <3> QED
      BY <1>1, <2>1, <3>1 DEF Mains, Goto
  <2>2. ASSUME NEW place \in {"stopping", "exited"},
               main' = [main EXCEPT !.at = place, !.failed = TRUE]
        PROVE  /\ main' \in Mains /\ main'.at = place
               /\ main'.consumeFailed = main.consumeFailed
    <3>1. main' \in Mains
      BY <1>1, <2>2, Zenon DEF Mains
    <3> QED
      BY <1>1, <2>2, <3>1 DEF Mains
  <2>3. CASE StartupProbe
    BY <1>1, <2>1, <2>2, <2>3 DEF StartupProbe
  <2>4. CASE SelectDone
    BY <1>1, <2>1, <2>4 DEF SelectDone
  <2>5. CASE Stopping
    BY <1>1, <2>1, <2>5 DEF Stopping
  <2>6. CASE Exit
    BY <1>1, <2>1, <2>6 DEF Exit
  <2>7. CASE SelectHttpErr
    BY <1>1, <2>2, <2>7 DEF SelectHttpErr
  <2>8. CASE CancelContext
    BY <1>1, <2>1, <2>8 DEF CancelContext
  <2>9. CASE CloseConsumer
    BY <1>1, <2>1, <2>9 DEF CloseConsumer, I!Close, I!brokerVars
  <2> QED
    BY <2>3, <2>4, <2>5, <2>6, <2>7, <2>8, <2>9, Zenon
<1>3. ConsumerInv'
  BY <1>2, BesideConsumer, Zenon DEF SInv
<1>4. SInv'
  <2>1. main.at = "starting" => consumer.last = "none"
    BY DEF SInv, MainInv
  <2> QED
    BY <1>2, <1>3, <2>1, OnlyMain, Zenon
<1> QED
  BY <1>1, <1>2, <1>4
\* Main's select finds that Consume has returned.
LEMMA SelectConsumeDoneInv ==
  ASSUME SInv, setup' = setup, SelectConsumeDone
  PROVE  SInv'
<1>1. /\ main.at = "running" /\ consumer.at = "returned"
      /\ main' = [at |-> "stopping", failed |-> ConsumeError, consumeFailed |-> ConsumeError]
      /\ failures' = IF ConsumeError THEN failures + 1 ELSE failures
      /\ UNCHANGED <<committed, position, consumer, ctxDone, closed, dlq, handled, faults, stops,
                     call, ready, attempts, events, materialized, restarted>>
  BY DEF SelectConsumeDone, At, ingestion
<1>2. ~main.consumeFailed /\ ~closed /\ call = "none"
  BY <1>1 DEF SInv, MainInv
<1>3. ConsumerInv'
  BY <1>1, ProcessTypes, BesideConsumer DEF SInv
<1>4. MainInv'
  BY <1>1, <1>2 DEF SInv, MainInv, At
<1>5. StateTells'
  <2>1. ConsumeError \in BOOLEAN
    BY DEF ConsumeError
  <2>2. main' \in Mains /\ main'.consumeFailed = ConsumeError
    BY <1>1, <2>1 DEF Mains
  <2>3. /\ consumer'.msg \notin setup'.malformed /\ consumer'.last # "none" => ~ready'
        /\ attempts' = events' + (IF call' = "none" THEN 0 ELSE 1)
                         + failures' - (IF main'.consumeFailed THEN 1 ELSE 0)
    BY <1>1, <1>2, <2>2, ProcessTypes DEF SInv, StateTells
  <2>4. failures' \in Nat
    BY <1>1, ProcessTypes
  <2>5. /\ call' \in {"none", "entered", "unchanged", "changed"} \cup I!Errors
        /\ ready' \in BOOLEAN /\ restarted' \in BOOLEAN
        /\ attempts' \in Nat /\ events' \in Nat /\ materialized' \in 0..events'
    BY <1>1, ProcessTypes, Zenon
  <2> QED
    BY <1>3, <2>2, <2>3, <2>4, <2>5, TellsAfter, Zenon
<1> QED
  BY <1>3, <1>4, <1>5 DEF SInv

\* A signal cancels the context, and changes nothing else.
LEMMA SignalInv ==
  ASSUME SInv, setup' = setup, Signal
  PROVE  SInv'
<1>1. /\ ctxDone' = TRUE /\ stops < MaxStops /\ stops' = stops + 1
      /\ UNCHANGED <<committed, position, consumer, closed, dlq, handled, faults, main, call,
                     ready, attempts, events, materialized, failures, restarted>>
  BY DEF Signal, I!Cancel, I!Stop, I!brokerVars, state
<1>2. stops' \in 0..MaxStops
  BY <1>1, ProcessTypes, StreamAssumption
<1>3. ConsumerInv'
  BY <1>1, <1>2, ProcessTypes, BesideConsumer DEF SInv
<1>4. MainInv'
  BY <1>1 DEF SInv, MainInv, At
<1>5. StateTells'
  BY <1>1, <1>3, Zenon DEF SInv, StateTells, TypeOK, ConsumerInv, I!Errors
<1> QED
  BY <1>3, <1>4, <1>5 DEF SInv

\* A new process, after an exit or a crash.
LEMMA StartProcessInv ==
  ASSUME SInv, setup' = setup, Restart \/ Crash
  PROVE  SInv'
<1>1. /\ I!Start /\ main' = Starting /\ call' = "none" /\ ready' = FALSE
      /\ attempts' = 0 /\ events' = 0 /\ materialized' = 0 /\ failures' = 0
      /\ restarted' = TRUE
  BY DEF Restart, Crash, StartProcess
<1>2. stops' = stops \/ stops' \in 0..MaxStops
  BY ProcessTypes, StreamAssumption DEF Restart, Crash, I!Stop
<1>3. ConsumerInv'
  BY <1>1, <1>2, StartStep DEF SInv
<1>4. consumer'.last = "none" /\ closed' = FALSE
  BY <1>1 DEF I!Start, I!Idle
<1>5. main' \in Mains /\ ~main'.consumeFailed
  BY <1>1 DEF Starting, Mains
<1>6. MainInv'
  BY <1>1, <1>4, <1>5 DEF MainInv, At
<1>7. StateTells'
  <2>1. /\ attempts' \in Nat /\ events' \in Nat /\ materialized' \in 0..events' /\ failures' \in Nat
        /\ attempts' = events' + (IF call' = "none" THEN 0 ELSE 1)
                         + failures' - (IF main'.consumeFailed THEN 1 ELSE 0)
    <3>1. /\ attempts' = 0 /\ events' = 0 /\ materialized' = 0 /\ failures' = 0
          /\ (IF call' = "none" THEN 0 ELSE 1) = 0
          /\ (IF main'.consumeFailed THEN 1 ELSE 0) = 0
      BY <1>1, <1>5, Zenon
    <3> QED
      BY <3>1
  <2>2. ready' \in BOOLEAN /\ restarted' \in BOOLEAN
    BY <1>1, Zenon
  <2> QED
    BY <1>1, <1>3, <1>4, <1>5, <2>1, <2>2, TellsAfter, Zenon
<1> QED
  BY <1>3, <1>6, <1>7 DEF SInv

\* The first process starts with nothing in hand.
LEMMA InitInv ==
  ASSUME Init
  PROVE  SInv /\ BlameInv
<1>1. /\ setup \in Setups /\ committed = [p \in I!Partitions |-> 0] /\ position = committed
      /\ consumer = I!Idle("fetch", "none") /\ ctxDone = FALSE /\ closed = FALSE
      /\ dlq = <<>> /\ handled = {} /\ faults = 0 /\ stops = 0
      /\ main = Starting /\ call = "none" /\ ready = FALSE
      /\ attempts = 0 /\ events = 0 /\ materialized = 0 /\ failures = 0 /\ restarted = FALSE
  BY DEF Init, I!Init
<1>2. consumer \in I!Consumers
  BY <1>1, IdleTyped, Zenon
<1>3. /\ consumer.at = "fetch" /\ consumer.msg = I!NoRecord /\ consumer.resume = "none"
      /\ consumer.last = "none" /\ consumer.result = "none"
  BY <1>1 DEF I!Idle
<1>4. ~InHand /\ ~Committing
  BY <1>3 DEF InHand, Committing
<1>5. I!TypeOK
  <2>1. /\ committed \in [I!Partitions -> Nat]
        /\ \A p \in I!Partitions : committed[p] <= setup.length[p]
    BY <1>1, Lengths
  <2>2. /\ dlq \in Seq(I!Records) /\ handled \subseteq I!Records
        /\ faults \in 0..MaxFaults /\ stops \in 0..MaxStops
    BY <1>1, StreamAssumption
  <2> QED
    BY <1>1, <1>2, <2>1, <2>2, Zenon DEF I!TypeOK
<1>6. PlaceInv /\ OffsetInv
  BY <1>1, <1>3, <1>4 DEF PlaceInv, OffsetInv
<1>7. SettledInv
  <2>1. ASSUME NEW r \in I!Records
        PROVE  ~(r[2] < committed[r[1]])
    BY <1>1, RecordPairs
  <2> QED
    BY <1>4, <2>1 DEF SettledInv, I!CommittedSettled
<1>8. main.at = "starting" /\ ~main.failed /\ ~main.consumeFailed /\ main \in Mains
  BY <1>1 DEF Starting, Mains
<1>9. MainInv
  BY <1>1, <1>3, <1>8 DEF MainInv
<1>10. StateTells
  <2>1. /\ attempts \in Nat /\ events \in Nat /\ materialized \in 0..events /\ failures \in Nat
        /\ attempts = events + (IF call = "none" THEN 0 ELSE 1)
                        + failures - (IF main.consumeFailed THEN 1 ELSE 0)
    <3>1. /\ attempts = 0 /\ events = 0 /\ materialized = 0 /\ failures = 0
          /\ (IF call = "none" THEN 0 ELSE 1) = 0
          /\ (IF main.consumeFailed THEN 1 ELSE 0) = 0
      BY <1>1, <1>8, Zenon
    <3> QED
      BY <3>1
  <2>2. TypeOK
    BY <1>1, <1>5, <1>8, <2>1, Zenon DEF TypeOK, Mains
  <2> QED
    BY <1>1, <1>3, <2>1, <2>2, Zenon DEF StateTells
<1>11. BlameInv
  BY <1>1, <1>3, <1>8 DEF BlameInv
<1> QED
  BY <1>1, <1>5, <1>6, <1>7, <1>9, <1>10, <1>11 DEF SInv, ConsumerInv

\* Every step, and a stutter, keeps the invariant.
LEMMA NextInv ==
  ASSUME SInv, [Next]_<<vars, setup>>
  PROVE  SInv'
<1>1. CASE Next
  <2>1. setup' = setup
    BY <1>1 DEF Next
  <2> QED
    BY <1>1, <2>1, ConsumeStepInv, CallbackInv, HandlerSucceedsInv, HandlerFailsInv, MainStepInv,
       SelectConsumeDoneInv, SignalInv, StartProcessInv, Zenon DEF Next, Callback, Main
<1>2. CASE UNCHANGED <<vars, setup>>
  <2>1. /\ setup' = setup
        /\ UNCHANGED <<committed, position, consumer, ctxDone, closed, dlq, handled, faults, stops>>
        /\ UNCHANGED <<main, call, ready, attempts, events, materialized, failures, restarted>>
    BY <1>2 DEF vars, ingestion, state
  <2>2. ConsumerInv'
    BY <2>1, ProcessTypes, BesideConsumer DEF SInv
  <2>3. MainInv'
    BY <2>1 DEF SInv, MainInv, At
  <2>4. StateTells'
    BY <2>1, <2>2, Zenon DEF SInv, StateTells, TypeOK, ConsumerInv, I!Errors
  <2> QED
    BY <2>1, <2>2, <2>3, <2>4 DEF SInv
<1> QED
  BY <1>1, <1>2
-----------------------------------------------------------------------------
(* Theorems.                                                               *)

\* The invariant holds in every reachable state, for any configuration, any log and
\* any number of attempts, faults and crashes.
THEOREM Invariance == Spec => []SInv
<1>1. Init => SInv
  BY InitInv
<1>2. SInv /\ [Next]_<<vars, setup>> => SInv'
  BY NextInv
<1> QED
  BY <1>1, <1>2, PTL DEF Spec

\* commit comes after the handler or the dead-letter topic, and a restart takes up
\* at the committed offset: nothing that is committed was lost.
THEOREM NothingIsLost == Spec => []CommittedSettled
<1>1. SInv => CommittedSettled
  BY DEF SInv, ConsumerInv, SettledInv, CommittedSettled
<1> QED
  BY <1>1, Invariance, PTL

\* The record that fetch gave to process and commit is the one the group's offset
\* points at; only a commit whose answer was lost has passed it.
THEOREM OrderIsKept == Spec => []HandlerAtCommitted
<1>1. SInv => HandlerAtCommitted
  <2> SUFFICES ASSUME SInv, InHand
               PROVE  \/ consumer.msg[2] = committed[consumer.msg[1]]
                      \/ /\ consumer.msg[2] + 1 = committed[consumer.msg[1]]
                         /\ consumer.at \in {"commit", "backoff"}
    BY Zenon DEF HandlerAtCommitted, I!HandlerAtCommitted, InHand
  <2> QED
    BY DEF SInv, ConsumerInv, OffsetInv, PlaceInv, Committing
<1> QED
  BY <1>1, Invariance, PTL

\* /readyz and the counters of operationalState tell the truth.
THEOREM OperationalStateTells == Spec => []StateTells
<1>1. SInv => StateTells
  BY DEF SInv
<1> QED
  BY <1>1, Invariance, PTL

\* A step at which the window refuses nothing takes no error for a failure of main
\* without a failed call or a record that does not decode.
LEMMA NextBlame ==
  ASSUME SInv, BlameInv, NoRefusal, [Next]_<<vars, setup>>
  PROVE  BlameInv'
<1> USE DEF BlameInv
<1>1. faults \in Nat
  BY ProcessTypes, StreamAssumption
<1>2. ASSUME setup' = setup, faults' \in Nat, faults' >= faults, Trouble
      PROVE  Trouble'
  BY <1>1, <1>2 DEF Trouble
<1>3. CASE UNCHANGED <<vars, setup>>
  <2>1. UNCHANGED <<setup, consumer, closed, faults, main, call>>
    BY <1>3 DEF vars, ingestion
  <2> QED
    BY <2>1, Zenon DEF Trouble
<1>4. CASE Next
  <2>1. setup' = setup
    BY <1>4 DEF Next
  <2>2. CASE ConsumeStep
    <3>1. /\ faults' \in Nat /\ faults' >= faults /\ UNCHANGED <<closed, call, main>>
          /\ consumer'.last # "none" =>
               /\ consumer'.msg = consumer.msg
               /\ consumer'.last = consumer.last \/ consumer.msg \in setup.malformed
          /\ consumer'.at = "poison" => consumer'.last # "none"
          /\ consumer'.result \in {"error", "poison"} =>
               \/ closed \/ faults' > 0 \/ consumer'.result = consumer.result
               \/ consumer.at = "poison" /\ consumer.last # "canceled"
          /\ consumer'.at = "returned" => consumer'.result # "none"
      BY <2>1, <2>2, ConsumeEffect DEF ConsumeStep, SInv
    <3>2. /\ faults' > 0 => Trouble'
          /\ consumer.msg \in setup.malformed => Trouble'
      BY <2>1 DEF Trouble
    <3>3. consumer.last \in {"error", "canceled", "none"}
      BY ConsumerTypes, Zenon DEF SInv, ConsumerInv, I!Errors
    <3>4. call' = "error" \/ consumer'.last = "error" => Trouble'
      BY <1>2, <2>1, <3>1, <3>2
    <3>5. ~closed' /\ consumer'.result \in {"error", "poison"} => Trouble'
      BY <1>2, <2>1, <3>1, <3>2, <3>3
    <3>6. Trouble => Trouble'
      BY <1>2, <2>1, <3>1
    <3> QED
      BY <3>1, <3>4, <3>5, <3>6, Zenon
  <2>3. CASE EnterHandler
    BY <1>2, <1>1, <2>1, <2>3 DEF EnterHandler, ingestion
  <2>4. CASE ApplyAndMaterialize
    <3>1. /\ faults' \in Nat /\ faults' >= faults /\ UNCHANGED <<consumer, closed, main>>
          /\ call' = "error" => faults' > 0
      BY <2>4, ApplyEffect, StreamAssumption DEF NoRefusal
    <3>2. (Trouble => Trouble') /\ (faults' > 0 => Trouble')
      BY <1>2, <2>1, <3>1 DEF Trouble
    <3> QED
      BY <3>1, <3>2, Zenon
  <2>5. CASE HandlerSucceeds
    <3>1. /\ faults' = faults /\ UNCHANGED <<closed, main>> /\ call' = "none"
          /\ consumer'.at \in {"commit", "fetch"} /\ consumer'.last = "none"
          /\ consumer'.result \in {"none", consumer.result}
      BY <2>1, <2>5, AfterSuccess DEF HandlerSucceeds
    <3> QED
      BY <1>1, <1>2, <2>1, <3>1
  <2>6. CASE HandlerFails
    <3>1. PICK last \in I!Errors : I!HandlerFails(last) /\ last = call
      BY <2>6, Zenon DEF HandlerFails
    <3>2. faults' = faults /\ call' = "none" /\ main' = main
      BY <2>6 DEF HandlerFails
    <3>3. /\ closed' = closed /\ consumer'.last \in {"none", last}
          /\ consumer'.result \in {last, consumer.result}
          /\ consumer'.at = "poison" => consumer'.last = last
          /\ consumer'.at = "returned" => consumer'.result = last
      BY <2>1, <3>1, <3>2, AfterError
    <3>4. (Trouble => Trouble') /\ last \in {"error", "canceled"}
      BY <1>1, <1>2, <2>1, <3>2 DEF I!Errors
    <3> QED
      BY <3>1, <3>2, <3>3, <3>4, Zenon
  <2>7. CASE SelectConsumeDone
    <3>1. /\ main.at = "running" /\ (main'.failed => consumer.result \notin {"nil", "canceled"})
          /\ consumer.at = "returned"
          /\ UNCHANGED <<consumer, closed, faults, call>>
      BY <2>7, Zenon DEF SelectConsumeDone, ConsumeError, At, ingestion
    <3>2. ~closed /\ consumer.result \in {"error", "canceled", "none", "nil", "poison"}
      BY <3>1, ConsumerTypes DEF SInv, MainInv, ConsumerInv, I!Errors
    <3>3. Trouble => Trouble'
      BY <1>1, <1>2, <2>1, <3>1
    <3> QED
      BY <3>1, <3>2, <3>3, Zenon
  <2>8. CASE \/ StartupProbe \/ SelectDone \/ SelectHttpErr
             \/ Stopping \/ CancelContext \/ CloseConsumer \/ Exit
    <3>1. /\ UNCHANGED <<consumer, call>> /\ faults' \in Nat /\ faults' >= faults
          /\ main'.failed => main.failed \/ faults' > 0
          /\ closed => closed'
      BY <2>1, <2>8, MainStepInv, Zenon
    <3>2. (Trouble => Trouble') /\ (faults' > 0 => Trouble')
      BY <1>2, <2>1, <3>1 DEF Trouble
    <3> QED
      BY <3>1, <3>2, Zenon
  <2>9. CASE Signal
    <3>1. UNCHANGED <<consumer, closed, faults, main, call>>
      BY <2>9 DEF Signal, I!Cancel
    <3> QED
      BY <2>1, <3>1, Zenon DEF Trouble
  <2>10. CASE Restart \/ Crash
    <3>1. /\ consumer' = I!Idle("fetch", "none") /\ faults' = faults /\ main' = Starting
          /\ call' = "none"
      BY <2>10 DEF Restart, Crash, StartProcess, I!Start
    <3> QED
      BY <3>1 DEF I!Idle, Starting
  <2> QED
    BY <1>4, <2>2, <2>3, <2>4, <2>5, <2>6, <2>7, <2>8, <2>9, <2>10, Zenon DEF Next, Callback, Main
<1> QED
  BY <1>3, <1>4

\* A process told to stop exits with status 0, unless a call failed or a record is
\* poison: one that does not decode, or, excluded here by the assumption, one whose
\* event the window refuses.
THEOREM StopIsClean == Spec /\ []NoRefusal => []CleanExit
<1>1. Init => SInv /\ BlameInv
  BY InitInv
<1>2. SInv /\ BlameInv /\ NoRefusal /\ [Next]_<<vars, setup>> => BlameInv'
  BY NextBlame
<1>3. BlameInv => CleanExit
  BY DEF BlameInv, CleanExit, Trouble
<1> QED
  BY <1>1, <1>2, <1>3, Invariance, PTL DEF Spec

-----------------------------------------------------------------------------
(***************************************************************************)
(* The window in the process.  WindowProofs is about a window that is only *)
(* called; here the consumer redelivers to it, and a new process starts    *)
(* with a new window and the old sink.                                     *)
(***************************************************************************)

\* The events the window may be given.
StreamEvents ==
  {EventOf[r] : r \in DOMAIN EventOf} \cup
  {[EventOf[r] EXCEPT !.partition = r[1], !.offset = r[2]] : r \in DOMAIN EventOf}

\* What the window keeps of an event.
Entry(x) == [id |-> x.id, at |-> x.at, amount |-> x.amount]

\* Only what decodes reaches the callback.
Decoded == consumer.at = "handler" => consumer.msg \notin setup.malformed

\* What was committed to the window comes from records that were handled, or whose
\* callback is about to succeed.
FromApplied ==
  \A e \in DOMAIN arrived : \A x \in arrived[e] :
    \E r \in Applied : r \in DOMAIN EventOf /\ EventOf[r].entity = e /\ x = Entry(EventOf[r])

\* The three promises of the window, in the process.
WindowKept == W!IndexesAgree /\ W!WindowExact /\ W!SinkAgrees

\* The window holds nothing but events of records that were handled (in this process
\* or before) or are about to be: none of a record that failed, however often it was tried.
WindowFromHandled ==
  \A e \in DOMAIN byEntity : \A i \in DOMAIN byEntity[e] :
    \E r \in Applied :
      r \in DOMAIN EventOf /\ EventOf[r].entity = e /\ byEntity[e][i] = Entry(EventOf[r])

-----------------------------------------------------------------------------
(* Records on their way into the window.                                   *)

\* A step of Consume takes to the handler only what decodes.
LEMMA ConsumeDecodes ==
  ASSUME SInv, setup' = setup, I!Consume
  PROVE  Decoded'
<1>1. consumer \in I!Consumers /\ setup \in Setups
  BY DEF SInv, ConsumerInv, I!TypeOK
<1>2. ASSUME NEW p \in I!Partitions, I!FetchOk(p) PROVE Decoded'
  BY <1>2 DEF I!FetchOk, I!Idle, Decoded
<1>3. ASSUME NEW p \in I!Partitions, I!TakeEvent(p) PROVE Decoded'
  <2>1. setup.malformed = {}
    BY <1>1, <1>3, StreamAssumption DEF I!TakeEvent
  <2> QED
    BY <2>1 DEF Decoded
<1>4. CASE I!TimerFires
  <2>1. consumer.resume # "handler"
    BY <1>1 DEF I!Consumers
  <2> QED
    BY <1>1, <1>4, <2>1 DEF I!TimerFires, Decoded, I!Consumers
<1>5. CASE I!Decode
  <2>1. CASE consumer.msg \in setup.malformed
    BY <1>1, <1>5, <2>1, Zenon DEF I!Decode, I!RetryProcess, I!AfterFailure, I!Consumers, Decoded
  <2>2. CASE consumer.msg \notin setup.malformed
    BY <1>1, <1>5, <2>2 DEF I!Decode, I!Consumers, Decoded
  <2> QED
    BY <2>1, <2>2
<1>6. CASE I!FetchFails \/ I!CommitFails
  <2>1. \/ \E result : consumer' = I!Idle("returned", result)
        \/ consumer' = [consumer EXCEPT !.at = "backoff", !.resume = consumer.at]
    BY <1>6, Zenon DEF I!FetchFails, I!CommitFails, I!RetryCall, I!Return
  <2>2. consumer'.at \in {"returned", "backoff"}
    <3>1. CASE \E result : consumer' = I!Idle("returned", result)
      BY <3>1 DEF I!Idle
    <3>2. CASE consumer' = [consumer EXCEPT !.at = "backoff", !.resume = consumer.at]
      BY <1>1, <3>2 DEF I!Consumers
    <3> QED
      BY <2>1, <3>1, <3>2, Zenon
  <2> QED
    BY <2>2 DEF Decoded
<1>7. CASE I!WriteDLQ
  BY <1>1, <1>7 DEF I!WriteDLQ, I!Consumers, Decoded
<1>8. CASE I!BackoffCancelled \/ I!PoisonHalts \/ I!WriteDLQFails \/ I!CommitOk
  <2>1. \E at \in {"fetch", "returned"} : \E result : consumer' = I!Idle(at, result)
    BY <1>8, Zenon DEF I!BackoffCancelled, I!PoisonHalts, I!Halt, I!WriteDLQFails, I!CommitOk,
       I!Return
  <2>2. consumer'.at # "handler"
    <3>1. PICK at \in {"fetch", "returned"} : \E result : consumer' = I!Idle(at, result)
      BY <2>1, Zenon
    <3>2. consumer'.at = at
      BY <3>1 DEF I!Idle
    <3>3. at # "handler"
      BY <3>1
    <3> QED
      BY <3>2, <3>3, Zenon
  <2> QED
    BY <2>2, Zenon DEF Decoded
<1> QED
  BY <1>2, <1>3, <1>4, <1>5, <1>6, <1>7, <1>8, Zenon DEF I!Consume

\* Every other step leaves the consumer where it is, or takes it out of the handler.
LEMMA NextDecodes ==
  ASSUME SInv, Decoded, [Next]_<<vars, setup>>
  PROVE  Decoded'
<1>1. setup' = setup
  BY DEF Next
<1>2. consumer \in I!Consumers
  BY DEF SInv, ConsumerInv, I!TypeOK
<1>3. CASE consumer' = consumer
  BY <1>1, <1>3 DEF Decoded
<1>4. CASE ConsumeStep
  BY <1>1, <1>4, ConsumeDecodes DEF ConsumeStep
<1>5. CASE HandlerSucceeds
  <2>1. consumer'.at \in {"commit", "fetch"}
    BY <1>1, <1>5, AfterSuccess, Zenon DEF HandlerSucceeds
  <2> QED
    BY <2>1 DEF Decoded
<1>6. CASE HandlerFails
  <2>1. consumer'.at \in {"backoff", "poison", "returned"}
    BY <1>1, <1>6, AfterError, Zenon DEF HandlerFails
  <2> QED
    BY <2>1 DEF Decoded
<1>7. CASE StartProcess
  BY <1>7, Zenon DEF StartProcess, I!Start, I!Idle, Decoded
<1>8. CASE EnterHandler \/ ApplyAndMaterialize \/ Main \/ Signal \/ UNCHANGED <<vars, setup>>
  <2>1. consumer' = consumer
    BY <1>8, Zenon DEF EnterHandler, ApplyAndMaterialize, Main, StartupProbe, SelectDone,
       SelectConsumeDone, SelectHttpErr, Stopping, CancelContext, CloseConsumer, Exit, I!Close,
       Signal, I!Cancel, vars, ingestion
  <2> QED
    BY <1>3, <2>1
<1> QED
  BY <1>4, <1>5, <1>6, <1>7, <1>8, Zenon DEF Next, Callback, Restart, Crash

\* The event that the callback passes on is that of a record that decodes.
LEMMA EventInHand ==
  ASSUME SInv, Decoded, call = "entered"
  PROVE  /\ consumer.msg \in DOMAIN EventOf /\ Event \in StreamEvents
         /\ Event.entity = EventOf[consumer.msg].entity
         /\ Entry(Event) = Entry(EventOf[consumer.msg])
<1>1. setup \in Setups /\ consumer.at = "handler" /\ consumer.msg \notin setup.malformed
  BY DEF SInv, MainInv, Decoded
<1>2. consumer.msg \in I!Records
  BY <1>1, ConsumerTypes DEF SInv, ConsumerInv, PlaceInv, InHand
<1>3. /\ consumer.msg[1] \in I!Partitions /\ setup.length[consumer.msg[1]] \in Nat
      /\ consumer.msg[2] \in 0..(setup.length[consumer.msg[1]] - 1)
      /\ consumer.msg = <<consumer.msg[1], consumer.msg[2]>>
  <2>1. /\ consumer.msg[1] \in I!Partitions /\ consumer.msg[2] \in Nat
        /\ consumer.msg[2] < setup.length[consumer.msg[1]]
        /\ consumer.msg = <<consumer.msg[1], consumer.msg[2]>>
    BY <1>1, <1>2, RecordPairs, Zenon
  <2>2. setup.length[consumer.msg[1]] \in Nat
    BY <1>1, <2>1, Lengths
  <2> QED
    BY <2>1, <2>2
<1>4. <<consumer.msg[1], consumer.msg[2]>> \in DOMAIN EventOf \cup setup.malformed
  BY <1>1, <1>3, StreamAssumption, Zenon DEF I!Partitions
<1>5. consumer.msg \in DOMAIN EventOf
  BY <1>1, <1>3, <1>4, Zenon
<1> DEFINE x == EventOf[consumer.msg]
<1>6. x \in [id : STRING, entity : Nat, at : Nat, amount : Int, partition : Int, offset : Int]
  BY <1>5, StreamAssumption, Zenon
<1>7. Event \in StreamEvents
  BY <1>5, Zenon DEF Event, StreamEvents
<1>8. Event = x \/ \E p, o : Event = [x EXCEPT !.partition = p, !.offset = o]
  BY Zenon DEF Event
<1> HIDE DEF x
<1>9. Event.entity = x.entity /\ Event.id = x.id /\ Event.at = x.at /\ Event.amount = x.amount
  BY <1>6, <1>8, Zenon
<1> QED
  BY <1>5, <1>7, <1>9, Zenon DEF x, Entry

\* A commit adds the event it is given, and may drop others.
LEMMA CommitAdds ==
  ASSUME NEW in, W!Commit(in), NEW e \in DOMAIN arrived', NEW x \in arrived'[e]
  PROVE  \/ e \in DOMAIN arrived /\ x \in arrived[e]
         \/ e = in.entity /\ x = Entry(in)
<1> DEFINE rest == DOMAIN arrived \ W!Evicted(in)
           here == W!Lookup(arrived, in.entity, {}) \cup {Entry(in)}
<1>1. arrived' = [k \in rest \cup {in.entity} |-> IF k = in.entity THEN here ELSE arrived[k]]
  BY Zenon DEF W!Commit, W!With, W!Restrict, Entry
<1>2. here \subseteq {y : y \in IF in.entity \in DOMAIN arrived THEN arrived[in.entity] ELSE {}} \cup {Entry(in)}
  BY Zenon DEF W!Lookup
<1> QED
  BY <1>1, <1>2, Zenon

\* Where nothing is committed to the window, and what was taken stays so, the window's
\* events still come from it.
LEMMA NothingAdded ==
  ASSUME FromApplied, arrived' = arrived, Applied \subseteq Applied'
  PROVE  FromApplied'
<1> SUFFICES ASSUME NEW e \in DOMAIN arrived, NEW x \in arrived[e]
             PROVE  \E r \in Applied' : /\ r \in DOMAIN EventOf /\ EventOf[r].entity = e
                                        /\ x = Entry(EventOf[r])
  BY Zenon DEF FromApplied, Entry
<1>1. PICK r \in Applied : r \in DOMAIN EventOf /\ EventOf[r].entity = e /\ x = Entry(EventOf[r])
  BY Zenon DEF FromApplied
<1>2. r \in Applied'
  BY Zenon
<1> QED
  BY <1>1, <1>2, Zenon

\* Every step keeps what was committed to the window to records that were taken.
LEMMA NextFromApplied ==
  ASSUME SInv, Decoded, FromApplied, [Next]_<<vars, setup>>
  PROVE  FromApplied'
<1>1. CASE UNCHANGED <<arrived, call, consumer, handled>>
  BY <1>1, NothingAdded, Zenon DEF Applied
<1>2. CASE ConsumeStep
  <2>1. UNCHANGED <<arrived, call>> /\ consumer.at # "handler"
    BY <1>2, ConsumeEffect, Zenon DEF ConsumeStep, window, SInv, Next
  <2>2. call = "none" /\ handled' = handled
    <3>1. handled' = handled
      BY <1>2, Zenon DEF ConsumeStep, I!Consume, I!FetchOk, I!TakeEvent, I!FetchFails, I!TimerFires,
         I!BackoffCancelled, I!Decode, I!PoisonHalts, I!WriteDLQ, I!WriteDLQFails, I!CommitOk,
         I!CommitFails
    <3> QED
      BY <2>1, <3>1 DEF SInv, MainInv
  <2>3. Applied' = Applied
    BY <2>1, <2>2 DEF Applied
  <2> QED
    BY <2>1, <2>3, NothingAdded, Zenon
<1>3. CASE EnterHandler
  <2>1. arrived' = arrived /\ handled' = handled /\ call = "none"
    BY <1>3 DEF EnterHandler, window, ingestion
  <2> QED
    BY <2>1, NothingAdded, Zenon DEF Applied
<1>4. CASE HandlerSucceeds
  <2>1. arrived' = arrived /\ handled' = handled \cup {consumer.msg}
    BY <1>4 DEF HandlerSucceeds, I!HandlerSucceeds, window
  <2> QED
    BY <2>1, NothingAdded DEF Applied
<1>5. CASE HandlerFails
  <2>1. arrived' = arrived /\ handled' = handled /\ call \notin {"unchanged", "changed"}
    BY <1>5 DEF HandlerFails, I!HandlerFails, window, I!Errors
  <2> QED
    BY <2>1, NothingAdded DEF Applied
<1>6. CASE StartProcess
  BY <1>6 DEF StartProcess, FromApplied
<1>7. CASE ApplyAndMaterialize
  <2>1. /\ call = "entered" /\ UNCHANGED <<handled, consumer>>
    BY <1>7 DEF ApplyAndMaterialize
  <2>2. Applied \subseteq Applied'
    BY <2>1 DEF Applied
  <2>3. CASE arrived' = arrived
    BY <2>2, <2>3, NothingAdded
  <2>4. CASE W!Commit(Event) /\ call' \in {"unchanged", "changed"}
    <3>1. /\ consumer.msg \in DOMAIN EventOf /\ Event.entity = EventOf[consumer.msg].entity
          /\ Entry(Event) = Entry(EventOf[consumer.msg])
      BY <2>1, EventInHand, Zenon
    <3>2. consumer.msg \in Applied'
      BY <2>1, <2>4 DEF Applied
    <3> SUFFICES ASSUME NEW e \in DOMAIN arrived', NEW x \in arrived'[e]
                 PROVE  \E r \in Applied' : /\ r \in DOMAIN EventOf /\ EventOf[r].entity = e
                                            /\ x = Entry(EventOf[r])
      BY Zenon DEF FromApplied, Entry
    <3>3. CASE e \in DOMAIN arrived /\ x \in arrived[e]
      BY <2>2, <3>3, Zenon DEF FromApplied
    <3>4. CASE e = Event.entity /\ x = Entry(Event)
      BY <3>1, <3>2, <3>4, Zenon
    <3> QED
      BY <2>4, <3>3, <3>4, CommitAdds, Zenon
  <2> QED
    BY <1>7, <2>3, <2>4, Zenon DEF ApplyAndMaterialize, W!Ignore, W!Materialize, W!Fail, W!vars,
       W!historyVars, W!windowVars
<1>8. CASE Main \/ Signal \/ UNCHANGED <<vars, setup>>
  <2>1. UNCHANGED <<arrived, call, consumer, handled>>
    BY <1>8, Zenon DEF Main, StartupProbe, SelectDone, SelectConsumeDone, SelectHttpErr, Stopping,
       CancelContext, CloseConsumer, Exit, I!Close, Signal, I!Cancel, vars, ingestion, window
  <2> QED
    BY <1>1, <2>1
<1> QED
  BY <1>2, <1>3, <1>4, <1>5, <1>6, <1>7, <1>8, Zenon DEF Next, Callback, Restart, Crash

\* The window holds only events of records that decode and were taken.
THEOREM OnlyTakenArrives == Spec => [](Decoded /\ FromApplied)
<1>1. Init => Decoded /\ FromApplied
  <2>1. Init => Decoded
    BY DEF Init, I!Init, I!Idle, Decoded
  <2>2. Init => FromApplied
    BY DEF Init, W!Init, FromApplied
  <2> QED
    BY <2>1, <2>2
<1>2. SInv /\ Decoded /\ FromApplied /\ [Next]_<<vars, setup>> => (Decoded /\ FromApplied)'
  BY NextDecodes, NextFromApplied
<1> QED
  BY <1>1, <1>2, Invariance, PTL DEF Spec

\* The assumptions of WindowProofs are met.
LEMMA WindowAssumed ==
  /\ Duration \in Nat \ {0} /\ MaxEntities \in Nat \ {0} /\ MaxEvents \in Nat \ {0}
  /\ MaxTotal \in Nat /\ MaxTrackedPartitions \in Nat /\ MaxUnsynced \in Nat
  /\ \A in \in StreamEvents : /\ in.entity \in Nat /\ in.at \in Nat
                              /\ in.amount \in Int /\ in.partition \in Int /\ in.offset \in Int
<1>1. ASSUME NEW in \in StreamEvents
      PROVE  /\ in.entity \in Nat /\ in.at \in Nat
             /\ in.amount \in Int /\ in.partition \in Int /\ in.offset \in Int
  <2>1. PICK r \in DOMAIN EventOf :
          in = EventOf[r] \/ in = [EventOf[r] EXCEPT !.partition = r[1], !.offset = r[2]]
    BY <1>1, Zenon DEF StreamEvents
  <2> DEFINE x == EventOf[r]
  <2>2. /\ x \in [id : STRING, entity : Nat, at : Nat, amount : Int, partition : Int, offset : Int]
        /\ r \in Int \X Nat
    BY <2>1, StreamAssumption, Zenon
  <2>3. in = x \/ in = [x EXCEPT !.partition = r[1], !.offset = r[2]]
    BY <2>1
  <2> HIDE DEF x
  <2>4. r[1] \in Int /\ r[2] \in Int
    BY <2>2
  <2> QED
    BY <2>2, <2>3, <2>4, Zenon
<1> QED
  BY <1>1, StreamAssumption, Zenon

\* A new process starts with an empty window and the stored features.
NewProcess ==
  /\ byEntity' = <<>> /\ seen' = {} /\ offsets' = <<>> /\ watermark' = <<>>
  /\ lastActive' = <<>> /\ eventCount' = 0 /\ arrived' = <<>> /\ UNCHANGED <<sink, unsynced>>

\* What a step of the process does to the window.
LEMMA WindowMoves ==
  ASSUME SInv, Decoded, [Next]_<<vars, setup>>
  PROVE  \/ UNCHANGED window
         \/ NewProcess
         \/ /\ Event \in StreamEvents
            /\ W!Ignore(Event) \/ W!Materialize(Event) \/ W!Fail(Event)
<1>1. CASE ConsumeStep
  BY <1>1, Zenon DEF ConsumeStep
<1>2. CASE StartProcess
  BY <1>2, Zenon DEF StartProcess, NewProcess
<1>3. CASE ApplyAndMaterialize
  <2>1. Event \in StreamEvents
    BY <1>3, EventInHand, Zenon DEF ApplyAndMaterialize
  <2> QED
    BY <1>3, <2>1, Zenon DEF ApplyAndMaterialize
<1>4. CASE EnterHandler \/ HandlerSucceeds \/ HandlerFails \/ Main \/ Signal \/ UNCHANGED <<vars, setup>>
  BY <1>4, Zenon DEF EnterHandler, HandlerSucceeds, HandlerFails, Main, StartupProbe, SelectDone,
     SelectConsumeDone, SelectHttpErr, Stopping, CancelContext, CloseConsumer, Exit, Signal, vars,
     window
<1> QED
  BY <1>1, <1>2, <1>3, <1>4, Zenon DEF Next, Callback, Restart, Crash

\* What the window holds arrived, and what arrived was taken.
LEMMA HoldsTaken ==
  ASSUME FromApplied, W!IndexesAgree, W!WindowExact
  PROVE  WindowFromHandled
<1> SUFFICES ASSUME NEW e \in DOMAIN byEntity, NEW i \in DOMAIN byEntity[e]
             PROVE  \E r \in Applied : /\ r \in DOMAIN EventOf /\ EventOf[r].entity = e
                                       /\ byEntity[e][i] = Entry(EventOf[r])
  BY Zenon DEF WindowFromHandled
<1>1. byEntity[e][i] \in W!Range(byEntity[e])
  BY Zenon DEF W!Range
<1>2. byEntity[e][i] \in arrived[e]
  BY <1>1, Zenon DEF W!WindowExact
<1>3. e \in DOMAIN arrived
  BY DEF W!IndexesAgree, W!TypeOK
<1> QED
  BY <1>2, <1>3, Zenon DEF FromApplied

\* The first process starts with an empty window and an empty sink.
LEMMA FirstWindow ==
  ASSUME Init
  PROVE  /\ byEntity = <<>> /\ seen = {} /\ offsets = <<>> /\ watermark = <<>>
         /\ lastActive = <<>> /\ eventCount = 0 /\ arrived = <<>>
         /\ unsynced \subseteq Nat /\ DOMAIN sink = {}
BY DEF Init, W!Init

-----------------------------------------------------------------------------
(* WindowProofs, of a window that is given the events of the records.  The *)
(* definitions of the two instances of Window are the same, one by one.    *)

V == INSTANCE WindowProofs WITH Inputs <- StreamEvents

\* The definitions of the window that the process runs are those of the one proved
\* correct: the parts of prepareLocked,
LEMMA SameParts ==
  ASSUME NEW in
  PROVE  /\ W!NewWatermark(in) = V!NewWatermark(in) /\ W!Changed(in) = V!Changed(in)
         /\ W!First(in) = V!First(in) /\ W!Current(in) = V!Current(in)
         /\ W!Expired(in) = V!Expired(in) /\ W!Events(in) = V!Events(in)
         /\ W!Released(in) = V!Released(in) /\ W!Evicted(in) = V!Evicted(in)
<1>1. W!NewWatermark(in) = V!NewWatermark(in) /\ W!Changed(in) = V!Changed(in)
  BY Zenon DEF W!NewWatermark, V!NewWatermark, W!Cutoff, V!Cutoff, W!Changed, V!Changed,
     W!Lookup, V!Lookup, W!Max, V!Max
<1>2. W!First(in) = V!First(in) /\ W!Current(in) = V!Current(in)
  BY Zenon DEF W!NewWatermark, V!NewWatermark, W!Cutoff, V!Cutoff, W!First, V!First,
     W!Current, V!Current, W!Lookup, V!Lookup, W!Max, V!Max, W!Cardinality, V!Cardinality
<1>3. W!Expired(in) = V!Expired(in)
  BY <1>2, Zenon DEF W!Expired, V!Expired, W!Ids, V!Ids
<1>4. W!Events(in) = V!Events(in)
  BY Zenon DEF W!Events, V!Events, W!Insert, V!Insert, W!Kept, V!Kept, W!NewWatermark,
     V!NewWatermark, W!Cutoff, V!Cutoff, W!Changed, V!Changed, W!Current, V!Current,
     W!First, V!First, W!Lookup, V!Lookup, W!Max, V!Max, W!Cardinality, V!Cardinality
<1>5. W!Released(in) = V!Released(in) /\ W!Evicted(in) = V!Evicted(in)
  BY Zenon DEF W!Released, V!Released, W!Evicted, V!Evicted, W!NoRoom, V!NoRoom,
     W!OldestEntity, V!OldestEntity, W!Cardinality, V!Cardinality
<1> QED
  BY <1>1, <1>2, <1>3, <1>4, <1>5, Zenon

\* the features,
LEMMA SameFeatures ==
  \A s, d, end :
    W!Total(s, d) = V!Total(s, d) /\ W!Features(s, d, end) = V!Features(s, d, end)
BY Zenon DEF W!Features, V!Features, W!Total, V!Total, W!Largest, V!Largest,
   W!FoldFunctionOnSet, V!FoldFunctionOnSet, W!MapThenFoldSet, V!MapThenFoldSet, W!Max,
   V!Max, W!Cardinality, V!Cardinality

\* the conditions,
LEMMA SameConditions ==
  ASSUME NEW in
  PROVE  /\ W!Accepted(in) <=> V!Accepted(in)
         /\ W!Refused(in) <=> V!Refused(in)
         /\ W!NeedsPut(in) <=> V!NeedsPut(in)
         /\ W!Pending(in) = V!Pending(in)
<1>1. (W!ValidEvent(in) <=> V!ValidEvent(in)) /\ (W!Replayed(in) <=> V!Replayed(in))
  BY Zenon DEF W!ValidEvent, V!ValidEvent, W!Replayed, V!Replayed, W!Lookup, V!Lookup,
     W!NoId, V!NoId
<1>2. W!ProjectedEventCount(in) = V!ProjectedEventCount(in)
  BY SameParts, Zenon DEF W!ProjectedEventCount, V!ProjectedEventCount
<1>3. W!Total(W!Events(in), DOMAIN W!Events(in)) = V!Total(V!Events(in), DOMAIN V!Events(in))
  BY SameParts, SameFeatures, Zenon
<1>4. W!Refused(in) <=> V!Refused(in)
  BY <1>1, <1>2, <1>3, Zenon DEF W!Refused, V!Refused
<1>5. W!Accepted(in) <=> V!Accepted(in)
  BY <1>1, <1>4, Zenon DEF W!Accepted, V!Accepted
<1>6. W!NeedsPut(in) <=> V!NeedsPut(in)
  BY SameParts, Zenon DEF W!NeedsPut, V!NeedsPut
<1>7. W!Pending(in) = V!Pending(in)
  BY SameParts, SameFeatures, Zenon DEF W!Pending, V!Pending
<1> QED
  BY <1>4, <1>5, <1>6, <1>7, Zenon

\* the sink's Put,
LEMMA SamePut ==
  ASSUME NEW in
  PROVE  /\ W!Put(in) => V!Put(in)
         /\ W!PutFails(in) => V!PutFails(in)
BY SameConditions, Zenon DEF W!Put, V!Put, W!PutFails, V!PutFails, W!ValidFeatures,
   V!ValidFeatures, W!Store, V!Store, W!With, V!With, W!MarkUnsynced, V!MarkUnsynced,
   W!Cardinality, V!Cardinality

\* commitLocked,
LEMMA SameCommit ==
  ASSUME NEW in, W!Commit(in)
  PROVE  V!Commit(in)
<1>1. W!Forgotten(in) = V!Forgotten(in)
  BY SameParts, Zenon DEF W!Forgotten, V!Forgotten, W!Ids, V!Ids
<1>2. \A map, key, value : W!With(map, key, value) = V!With(map, key, value)
  BY Zenon DEF W!With, V!With
<1>3. /\ W!NewWatermark(in) = V!NewWatermark(in) /\ W!Events(in) = V!Events(in)
      /\ W!Evicted(in) = V!Evicted(in) /\ W!Released(in) = V!Released(in)
      /\ W!Current(in) = V!Current(in) /\ W!Changed(in) = V!Changed(in)
  BY SameParts, Zenon
<1>4. seen' = (seen \ V!Forgotten(in)) \cup (IF V!Changed(in) THEN {in.id} ELSE {})
  BY <1>1, <1>3, Zenon DEF W!Commit
<1>5. offsets' = V!With(offsets, in.partition, in.offset)
  BY <1>2, Zenon DEF W!Commit
<1>6. eventCount' = eventCount - V!Released(in) + Len(V!Events(in)) - Len(V!Current(in))
  BY <1>3, Zenon DEF W!Commit
<1>7. watermark' = V!With(V!Restrict(watermark, DOMAIN watermark \ V!Evicted(in)),
                          in.entity, V!NewWatermark(in))
  <2>1. watermark' = V!With(V!Restrict(watermark, DOMAIN watermark \ W!Evicted(in)),
                            in.entity, W!NewWatermark(in))
    BY Zenon DEF W!Commit, W!With, V!With, W!Restrict, V!Restrict
  <2> QED
    BY <1>3, <2>1, Zenon
<1>8. lastActive' = V!With(V!Restrict(lastActive, DOMAIN lastActive \ V!Evicted(in)),
                           in.entity, V!NewWatermark(in))
  <2>1. lastActive' = V!With(V!Restrict(lastActive, DOMAIN lastActive \ W!Evicted(in)),
                             in.entity, W!NewWatermark(in))
    BY Zenon DEF W!Commit, W!With, V!With, W!Restrict, V!Restrict
  <2> QED
    BY <1>3, <2>1, Zenon
<1>9. byEntity' = V!With(V!Restrict(byEntity, DOMAIN byEntity \ V!Evicted(in)),
                         in.entity, V!Events(in))
  <2>1. byEntity' = V!With(V!Restrict(byEntity, DOMAIN byEntity \ W!Evicted(in)),
                           in.entity, W!Events(in))
    BY Zenon DEF W!Commit, W!With, V!With, W!Restrict, V!Restrict
  <2> QED
    BY <1>3, <2>1, Zenon
<1>10. arrived' = V!With(V!Restrict(arrived, DOMAIN arrived \ V!Evicted(in)),
                         in.entity, V!Lookup(arrived, in.entity, {}) \cup {Entry(in)})
  <2>1. arrived' = V!With(V!Restrict(arrived, DOMAIN arrived \ W!Evicted(in)),
                          in.entity, V!Lookup(arrived, in.entity, {}) \cup {Entry(in)})
    BY Zenon DEF W!Commit, W!With, V!With, W!Restrict, V!Restrict, W!Lookup, V!Lookup,
       Entry
  <2> QED
    BY <1>3, <2>1, Zenon
<1> QED
  BY <1>4, <1>5, <1>6, <1>7, <1>8, <1>9, <1>10, Zenon DEF V!Commit, Entry

\* ApplyAndMaterialize,
LEMMA SameSteps ==
  ASSUME NEW in
  PROVE  /\ W!Ignore(in) => UNCHANGED V!vars
         /\ W!Materialize(in) => V!Materialize(in)
         /\ W!Fail(in) => V!Fail(in)
<1>1. W!Ignore(in) => UNCHANGED V!vars
  BY Zenon DEF W!Ignore, W!vars, V!vars, W!windowVars, V!windowVars, W!historyVars,
     V!historyVars
<1>2. W!Materialize(in) => V!Materialize(in)
  BY SameConditions, SamePut, SameCommit, Zenon DEF W!Materialize, V!Materialize
<1>3. W!Fail(in) => V!Fail(in)
  BY SameConditions, SamePut, Zenon DEF W!Fail, V!Fail, W!vars, V!vars, W!windowVars,
     V!windowVars, W!historyVars, V!historyVars
<1> QED
  BY <1>1, <1>2, <1>3, Zenon

\* and the promises.
LEMMA SamePromises ==
  ASSUME V!IndexesAgree, V!WindowExact, V!SinkAgrees
  PROVE  WindowKept
<1>1. W!IndexesAgree
  BY Zenon DEF W!IndexesAgree, V!IndexesAgree, W!TypeOK, V!TypeOK, W!Ids, V!Ids,
     W!DedupeSize, V!DedupeSize, W!EntityCount, V!EntityCount, W!Cardinality, V!Cardinality
<1>2. W!WindowExact
  BY Zenon DEF W!WindowExact, V!WindowExact, W!Max, V!Max, W!Range, V!Range
<1>3. \A e : W!Snapshot(e, 0) = V!Snapshot(e, 0)
  BY SameFeatures, Zenon DEF W!Snapshot, V!Snapshot, W!InWindow, V!InWindow, W!Lookup,
     V!Lookup, W!Max, V!Max
<1>4. W!SinkAgrees
  BY <1>3, Zenon DEF W!SinkAgrees, V!SinkAgrees
<1> QED
  BY <1>1, <1>2, <1>4, Zenon DEF WindowKept

\* The window of a first process is fresh.
LEMMA InitWindow == Init => V!WInv
<1>1. Init => V!Fresh
  BY FirstWindow, Zenon DEF V!Fresh
<1> QED
  BY <1>1, WindowAssumed, V!NewWindow, Zenon

\* Every step of the process keeps the invariant of its window: the callback by the
\* lemmas about the window's own steps, a restart because the new window is fresh.
LEMMA NextWindow ==
  ASSUME SInv, Decoded, V!WInv, [Next]_<<vars, setup>>
  PROVE  V!WInv'
<1>1. CASE UNCHANGED window
  <2>1. UNCHANGED V!vars
    BY <1>1, Zenon DEF window, V!vars, V!windowVars, V!historyVars
  <2> QED
    BY <2>1, WindowAssumed, V!Stutter, Zenon
<1>2. CASE NewProcess
  BY <1>2, WindowAssumed, V!NextWindow, Zenon DEF NewProcess
<1>3. CASE /\ Event \in StreamEvents
           /\ W!Ignore(Event) \/ W!Materialize(Event) \/ W!Fail(Event)
  <2>1. UNCHANGED V!vars \/ V!Materialize(Event) \/ V!Fail(Event)
    BY <1>3, SameSteps, Zenon
  <2>2. CASE UNCHANGED V!vars
    BY <2>2, WindowAssumed, V!Stutter, Zenon
  <2>3. CASE V!Materialize(Event)
    BY <1>3, <2>3, WindowAssumed, V!MaterializeKeeps, Zenon
  <2>4. CASE V!Fail(Event)
    BY <1>3, <2>4, WindowAssumed, V!FailKeeps, Zenon
  <2> QED
    BY <2>1, <2>2, <2>3, <2>4, Zenon
<1> QED
  BY <1>1, <1>2, <1>3, WindowMoves, Zenon

\* Whatever the consumer, the callback, signals, crashes and restarts do, the window's
\* indexes agree, it holds exactly what it should, and the sink agrees with it.
THEOREM WindowStaysSound == Spec => []WindowKept
<1>1. SInv /\ Decoded /\ V!WInv /\ [Next]_<<vars, setup>> => V!WInv'
  BY NextWindow, Zenon
<1>2. V!WInv => WindowKept
  <2> SUFFICES ASSUME V!WInv PROVE WindowKept
    BY Zenon
  <2>1. V!IndexesAgree
    BY Zenon DEF V!WInv
  <2> QED
    BY <2>1, WindowAssumed, V!ExactFollows, V!AgreesFollows, SamePromises, Zenon
<1> QED
  BY <1>1, <1>2, InitWindow, Invariance, OnlyTakenArrives, PTL DEF Spec

\* The window holds events of records that the callback handled, or is about to report
\* as handled, and no other: a failed ApplyAndMaterialize leaves nothing of its record.
THEOREM OnlyHandledIsHeld == Spec => []WindowFromHandled
<1>1. Decoded /\ FromApplied /\ WindowKept => WindowFromHandled
  BY HoldsTaken, Zenon DEF WindowKept
<1> QED
  BY <1>1, OnlyTakenArrives, WindowStaysSound, PTL
=============================================================================
