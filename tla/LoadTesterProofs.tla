-------------------------- MODULE LoadTesterProofs --------------------------
(***************************************************************************)
(* Proofs about LoadTester, for every schedule and every number of         *)
(* workers.                                                                *)
(*                                                                         *)
(* EveryRequestRecorded speaks of the end of Run.  Until then a job that   *)
(* was handed out is in exactly one place: with a worker, in the channel   *)
(* of results, or recorded (OnePlace); LoadInv adds who can still produce  *)
(* jobs or results (Shutdown) and that the summary counts what is          *)
(* recorded (Counted).                                                     *)
(***************************************************************************)
EXTENDS LoadTester, FiniteSetTheorems, TLAPS

Jobs == 0..(Requested - 1)
Result == [job : Jobs, end : Ends]

Carries(w) == worker[w].at \in {"perform", "report"}

\* The jobs handed out: the counter follows the send.
Handed == IF schedule.at = "count" THEN sent + 1 ELSE sent

Typed ==
  /\ TypeOK
  /\ results \in Seq(Result)
  /\ recorded \in [Jobs -> {0, 1}]
  /\ summary \in [returned : BOOLEAN, Scheduled : Nat, Completed : Nat, Successful : Nat, Errors : Nat]

\* The schedule's index is the counter, and stays within the duration.
InSchedule ==
  /\ schedule.index = sent /\ sent <= WithinDuration
  /\ schedule.at \in {"timer", "send", "count"} => sent < WithinDuration

\* Channels are closed, and goroutines end, in order.
Shutdown ==
  /\ jobsClosed <=> schedule.at = "gone"
  /\ \A w \in Workers : worker[w].at = "gone" => jobsClosed
  /\ resultsClosed => WorkersDone
  /\ summary.returned => resultsClosed /\ results = <<>> /\ summary.Scheduled = sent

\* Where a job may be.
Located(i) ==
  \/ \E w \in Workers : Carries(w) /\ worker[w].job = i
  \/ \E n \in 1..Len(results) : results[n].job = i
  \/ recorded[i] = 1

\* A job that was handed out is in one place, and no other job is in any.
OnePlace ==
  /\ \A w \in Workers : Carries(w) => worker[w].job \in Jobs /\ worker[w].job < Handed
  /\ \A n \in 1..Len(results) : results[n].job < Handed
  /\ \A i \in Jobs : recorded[i] = 1 => i < Handed
  /\ \A v, w \in Workers : Carries(v) /\ Carries(w) /\ worker[v].job = worker[w].job => v = w
  /\ \A m, n \in 1..Len(results) : results[m].job = results[n].job => m = n
  /\ \A w \in Workers, n \in 1..Len(results) : Carries(w) => worker[w].job # results[n].job
  /\ \A w \in Workers : Carries(w) => recorded[worker[w].job] = 0
  /\ \A n \in 1..Len(results) : recorded[results[n].job] = 0
  /\ \A i \in Jobs : i < Handed => Located(i)

Recorded == {i \in Jobs : recorded[i] = 1}

Counted ==
  /\ summary.Completed = Cardinality(Recorded)
  /\ summary.Completed = summary.Successful + summary.Errors

LoadInv == Typed /\ InSchedule /\ Shutdown /\ OnePlace /\ Counted

-----------------------------------------------------------------------------
(* The sequence of results.                                                 *)

\* Sending on the channel of results.
LEMMA AppendFacts ==
  ASSUME NEW S, NEW s \in Seq(S), NEW x \in S
  PROVE  /\ Append(s, x) \in Seq(S) /\ Len(Append(s, x)) = Len(s) + 1
         /\ \A n \in 1..Len(s) : Append(s, x)[n] = s[n]
         /\ Append(s, x)[Len(s) + 1] = x
OBVIOUS

\* Receiving from it.
LEMMA TailFacts ==
  ASSUME NEW S, NEW s \in Seq(S), s # <<>>
  PROVE  /\ Head(s) \in S /\ Head(s) = s[1] /\ 1 \in 1..Len(s)
         /\ Tail(s) \in Seq(S) /\ Len(Tail(s)) = Len(s) - 1
         /\ \A n \in 1..(Len(s) - 1) : Tail(s)[n] = s[n + 1]
OBVIOUS

\* The numbers that size the model.
LEMMA Sizes ==
  /\ Requested \in Nat /\ WithinDuration \in Nat /\ WithinDuration <= Requested
  /\ Cardinality(Workers) \in Nat
  /\ IsFiniteSet(Jobs)
<1>1. Requested \in Nat /\ WithinDuration \in Nat /\ WithinDuration <= Requested
  BY LoadAssumption
<1>2. Cardinality(Workers) \in Nat
  BY LoadAssumption, FS_CardinalityType
<1>3. IsFiniteSet(Jobs)
  BY <1>1, FS_Interval DEF Jobs
<1> QED BY <1>1, <1>2, <1>3

\* Recording a job that was not recorded adds one to the number of recorded jobs.
LEMMA RecordOne ==
  ASSUME recorded \in [Jobs -> {0, 1}], NEW i \in Jobs, recorded[i] = 0,
         recorded' = [recorded EXCEPT ![i] = 1]
  PROVE  Cardinality(Recorded') = Cardinality(Recorded) + 1
<1>1. Recorded' = Recorded \cup {i} /\ i \notin Recorded
  BY DEF Recorded
<1>2. IsFiniteSet(Recorded)
  BY Sizes, FS_Subset DEF Recorded
<1> QED BY <1>1, <1>2, FS_AddElement

-----------------------------------------------------------------------------
(* The scheduling goroutine.                                                *)

\* The parts of the invariant that a step of the schedule can disturb only through Handed.
LEMMA HandedSame ==
  ASSUME OnePlace, Counted, Handed' = Handed, UNCHANGED <<worker, results, summary, recorded>>
  PROVE  OnePlace' /\ Counted'
<1>1. \A w \in Workers : (Carries(w)' <=> Carries(w))
  BY DEF Carries
<1>2. OnePlace'
  BY <1>1, Zenon DEF OnePlace, Located
<1>3. Counted'
  BY Zenon DEF Counted, Recorded
<1> QED BY <1>2, <1>3

\* The loop's head, the timer and the context.
LEMMA WaitStep ==
  ASSUME LoadInv, NextOffset \/ TimerFires \/ CtxDone
  PROVE  LoadInv'
<1>1. UNCHANGED <<cancelled, sent, worker, results, resultsClosed, summary, recorded>>
  BY DEF NextOffset, TimerFires, CtxDone
<1>2. /\ schedule \in [at : {"next", "timer", "send", "count", "gone"}, index : 0..Requested]
      /\ sent \in 0..Requested /\ jobsClosed \in BOOLEAN
  BY DEF LoadInv, Typed, TypeOK
<1>3. /\ schedule.at \in {"next", "timer"}
      /\ schedule' \in [at : {"timer", "send", "gone"}, index : 0..Requested]
      /\ schedule'.index = schedule.index
      /\ schedule'.at \in {"timer", "send"} => sent < WithinDuration
      /\ schedule'.at = "gone" => jobsClosed' = TRUE
      /\ schedule'.at # "gone" => jobsClosed' = jobsClosed
  BY <1>2, Sizes DEF NextOffset, TimerFires, CtxDone, LoadInv, InSchedule
<1>4. Handed' = Handed
  BY <1>1, <1>2, <1>3 DEF Handed
<1>5. Typed'
  BY <1>1, <1>3, Zenon DEF LoadInv, Typed, TypeOK
<1>6. InSchedule'
  BY <1>1, <1>3 DEF LoadInv, InSchedule
<1>7. Shutdown'
  BY <1>1, <1>2, <1>3 DEF LoadInv, Shutdown, WorkersDone
<1> QED BY <1>1, <1>4, <1>5, <1>6, <1>7, HandedSame DEF LoadInv

\* sent.Add: the job was handed out before it is counted.
LEMMA CountSentStep ==
  ASSUME LoadInv, CountSent
  PROVE  LoadInv'
<1>1. UNCHANGED <<cancelled, jobsClosed, worker, results, resultsClosed, summary, recorded>>
  BY DEF CountSent
<1>2. /\ schedule.at = "count" /\ sent \in Nat /\ sent < WithinDuration /\ schedule.index = sent
      /\ sent' = sent + 1 /\ schedule' = [at |-> "next", index |-> sent + 1]
  BY DEF CountSent, Count, LoadInv, Typed, TypeOK, InSchedule
<1>3. sent + 1 \in 0..Requested /\ sent + 1 <= WithinDuration
  BY <1>2, Sizes
<1>4. Handed' = Handed
  BY <1>2 DEF Handed
<1>5. schedule' \in [at : {"next", "timer", "send", "count", "gone"}, index : 0..Requested] /\ sent' \in 0..Requested
  BY <1>2, <1>3
<1>6. Typed'
  BY <1>1, <1>5, Zenon DEF LoadInv, Typed, TypeOK
<1>7. InSchedule'
  BY <1>2, <1>3 DEF InSchedule
<1>8. jobsClosed = FALSE /\ schedule'.at # "gone"
  BY <1>2 DEF LoadInv, Typed, TypeOK, Shutdown
<1>9. ~summary.returned
  <2>1. PICK w \in Workers : TRUE
    BY LoadAssumption
  <2> QED BY <1>8, <2>1 DEF LoadInv, Shutdown, WorkersDone
<1>10. Shutdown'
  BY <1>1, <1>8, <1>9 DEF LoadInv, Shutdown, WorkersDone
<1> QED BY <1>1, <1>4, <1>6, <1>7, <1>10, HandedSame DEF LoadInv
WorkerState == [at : {"range", "perform", "report", "gone"}, job : 0..Requested, end : Ends]

\* A step that gives one worker a new state.
LEMMA OneWorkerMoves ==
  ASSUME Typed, NEW w \in Workers, NEW r \in WorkerState, worker' = [worker EXCEPT ![w] = r]
  PROVE  /\ worker' \in [Workers -> WorkerState]
         /\ worker'[w] = r
         /\ \A v \in Workers : v # w => worker'[v] = worker[v]
         /\ \A v \in Workers : v # w => (Carries(v)' <=> Carries(v))
BY DEF Typed, TypeOK, WorkerState, Carries

\* A send meets a worker's receive: the job with the schedule's index is nowhere yet.
LEMMA SendStep ==
  ASSUME LoadInv, NEW w \in Workers, Send(w)
  PROVE  LoadInv'
<1> DEFINE r == [worker[w] EXCEPT !.at = "perform", !.job = sent]
<1>1. UNCHANGED <<cancelled, sent, jobsClosed, results, resultsClosed, summary, recorded>>
  BY DEF Send
<1>2. /\ schedule.at = "send" /\ sent \in Nat /\ sent < WithinDuration /\ schedule.index = sent
      /\ schedule' = [schedule EXCEPT !.at = "count"]
      /\ worker[w].at = "range" /\ worker' = [worker EXCEPT ![w] = r]
  BY DEF Send, LoadInv, Typed, TypeOK, InSchedule
<1>3. Typed /\ worker[w] \in WorkerState /\ sent \in Jobs /\ sent \in 0..Requested
  BY <1>2, Sizes DEF LoadInv, Typed, TypeOK, WorkerState, Jobs
<1>4. r \in WorkerState
  BY <1>3, Zenon DEF WorkerState
<1>5. /\ worker' \in [Workers -> WorkerState] /\ worker'[w] = r
      /\ \A v \in Workers : v # w => worker'[v] = worker[v]
      /\ \A v \in Workers : v # w => (Carries(v)' <=> Carries(v))
  BY <1>2, <1>3, <1>4, OneWorkerMoves, Zenon
<1>6. worker'[w].at = "perform" /\ worker'[w].job = sent /\ Carries(w)' /\ ~Carries(w)
  BY <1>2, <1>3, <1>5 DEF WorkerState, Carries
<1> HIDE DEF r
<1>7. schedule' \in [at : {"count"}, index : 0..Requested] /\ schedule'.index = sent
  <2>1. schedule \in [at : {"next", "timer", "send", "count", "gone"}, index : 0..Requested]
    BY DEF LoadInv, Typed, TypeOK
  <2> QED BY <1>2, <2>1
<1>8. Handed = sent /\ Handed' = sent + 1
  BY <1>1, <1>2, <1>7 DEF Handed
<1>9. Typed'
  BY <1>1, <1>5, <1>7 DEF LoadInv, Typed, TypeOK, WorkerState
<1>10. InSchedule'
  BY <1>1, <1>2, <1>7 DEF LoadInv, InSchedule
<1>11. Shutdown'
  <2>1. ~jobsClosed /\ schedule'.at # "gone"
    BY <1>2, <1>7 DEF LoadInv, Shutdown
  <2>2. ~resultsClosed /\ ~summary.returned
    BY <1>2 DEF LoadInv, Shutdown, WorkersDone
  <2>3. \A v \in Workers : worker'[v].at # "gone"
    BY <1>5, <1>6, <2>1 DEF LoadInv, Shutdown
  <2> QED BY <1>1, <2>1, <2>2, <2>3 DEF Shutdown
<1>12. OnePlace'
  <2> USE <1>1, <1>3, <1>5, <1>6, <1>8 DEF LoadInv
  <2>0. \A v \in Workers : Carries(v) => worker[v].job \in Nat
    BY DEF OnePlace, Jobs
  <2>1. \A v \in Workers : Carries(v)' => worker'[v].job \in Jobs /\ worker'[v].job < sent + 1
    BY <2>0 DEF OnePlace, Jobs
  <2>2. \A n \in 1..Len(results) : results[n].job \in Nat /\ results[n].job < sent
    <3>1. \A n \in 1..Len(results) : results[n] \in Result
      BY DEF Typed
    <3> QED BY <3>1 DEF OnePlace, Result, Jobs
  <2>3. \A i \in Jobs : recorded[i] = 1 => i < sent
    BY DEF OnePlace
  <2>4. \A u, v \in Workers : Carries(u)' /\ Carries(v)' /\ worker'[u].job = worker'[v].job => u = v
    <3>1. \A v \in Workers : v # w /\ Carries(v)' => worker'[v].job # sent
      BY <2>0 DEF OnePlace
    <3> QED BY <3>1 DEF OnePlace
  <2>5. \A v \in Workers, n \in 1..Len(results) : Carries(v)' => worker'[v].job # results[n].job
    BY <2>2 DEF OnePlace
  <2>6. recorded[sent] = 0
    BY <2>3 DEF Typed
  <2>7. \A v \in Workers : Carries(v)' => recorded[worker'[v].job] = 0
    BY <2>6 DEF OnePlace
  <2>8. ASSUME NEW i \in Jobs, i < sent + 1
        PROVE  Located(i)'
    <3>1. CASE i = sent
      BY <3>1, Zenon DEF Located
    <3>2. CASE i < sent
      <4>1. Located(i)
        BY <3>2, Zenon DEF OnePlace
      <4>2. \A v \in Workers : Carries(v) => Carries(v)' /\ worker'[v].job = worker[v].job
        BY Zenon
      <4> QED BY <4>1, <4>2, Zenon DEF Located
    <3> QED BY <1>2, <2>8, <3>1, <3>2 DEF Jobs
  <2>9. \A i \in Jobs : i < sent => i < sent + 1
    BY <1>2 DEF Jobs
  <2> QED BY <1>2, <2>1, <2>2, <2>3, <2>4, <2>5, <2>7, <2>8, <2>9 DEF OnePlace
<1>13. Counted'
  BY <1>1, Zenon DEF LoadInv, Counted, Recorded
<1> QED BY <1>9, <1>10, <1>11, <1>12, <1>13 DEF LoadInv

-----------------------------------------------------------------------------
(* The workers, the closer and Run.                                         *)

\* What OnePlace says survives a step in which each worker carries what it carried.
LEMMA SamePlaces ==
  ASSUME OnePlace, UNCHANGED <<schedule, sent, results, recorded>>,
         \A v \in Workers : (Carries(v)' <=> Carries(v)),
         \A v \in Workers : Carries(v) => worker'[v].job = worker[v].job
  PROVE  OnePlace'
<1>1. Handed' = Handed
  BY DEF Handed
<1>2. \A v \in Workers : Carries(v)' => worker'[v].job \in Jobs /\ worker'[v].job < Handed'
  BY <1>1, Zenon DEF OnePlace
<1>3. \A u, v \in Workers : Carries(u)' /\ Carries(v)' /\ worker'[u].job = worker'[v].job => u = v
  BY DEF OnePlace
<1>4. \A v \in Workers, n \in 1..Len(results) : Carries(v)' => worker'[v].job # results[n].job
  BY DEF OnePlace
<1>5. \A v \in Workers : Carries(v)' => recorded[worker'[v].job] = 0
  BY Zenon DEF OnePlace
<1>6. \A i \in Jobs : i < Handed => Located(i)'
  <2>1. \A i \in Jobs : i < Handed => Located(i)
    BY Zenon DEF OnePlace
  <2> QED BY <2>1, Zenon DEF Located
<1> QED BY <1>1, <1>2, <1>3, <1>4, <1>5, <1>6 DEF OnePlace

\* A request ends.
LEMMA PerformStep ==
  ASSUME LoadInv, NEW w \in Workers, Perform(w)
  PROVE  LoadInv'
<1>1. UNCHANGED <<cancelled, schedule, sent, jobsClosed, results, resultsClosed, summary, recorded>>
  BY DEF Perform
<1>2. PICK end \in Ends : worker' = [worker EXCEPT ![w] = [worker[w] EXCEPT !.at = "report", !.end = end]]
  BY Zenon DEF Perform
<1> DEFINE r == [worker[w] EXCEPT !.at = "report", !.end = end]
<1>3. Typed /\ worker[w] \in WorkerState /\ worker[w].at = "perform"
  BY DEF LoadInv, Typed, TypeOK, WorkerState, Perform
<1>4. r \in WorkerState
  BY <1>3, Zenon DEF WorkerState
<1>5. /\ worker' \in [Workers -> WorkerState] /\ worker'[w] = r
      /\ \A v \in Workers : v # w => worker'[v] = worker[v]
      /\ \A v \in Workers : v # w => (Carries(v)' <=> Carries(v))
  BY <1>2, <1>3, <1>4, OneWorkerMoves, Zenon
<1>6. worker'[w].at = "report" /\ worker'[w].job = worker[w].job /\ Carries(w)' /\ Carries(w)
  BY <1>3, <1>5 DEF WorkerState, Carries
<1> HIDE DEF r
<1>7. Typed'
  BY <1>1, <1>5, Zenon DEF LoadInv, Typed, TypeOK, WorkerState
<1>8. Shutdown'
  <2>1. ~resultsClosed
    BY <1>3 DEF LoadInv, Shutdown, WorkersDone
  <2> QED BY <1>1, <1>5, <1>6, <2>1 DEF LoadInv, Shutdown
<1>9. OnePlace'
  <2>1. /\ \A v \in Workers : (Carries(v)' <=> Carries(v))
        /\ \A v \in Workers : Carries(v) => worker'[v].job = worker[v].job
    BY <1>5, <1>6
  <2> QED BY <1>1, <2>1, SamePlaces DEF LoadInv
<1> QED BY <1>1, <1>7, <1>8, <1>9 DEF LoadInv, InSchedule, Counted, Recorded

\* The range over jobs ends for a worker that carries none.
LEMMA LeaveStep ==
  ASSUME LoadInv, NEW w \in Workers, Leave(w)
  PROVE  LoadInv'
<1> DEFINE r == [worker[w] EXCEPT !.at = "gone"]
<1>1. UNCHANGED <<cancelled, schedule, sent, jobsClosed, results, resultsClosed, summary, recorded>>
  BY DEF Leave
<1>2. jobsClosed /\ worker[w].at = "range" /\ worker' = [worker EXCEPT ![w] = r]
  BY DEF Leave, LoadInv, Typed, TypeOK
<1>3. Typed /\ worker[w] \in WorkerState
  BY DEF LoadInv, Typed, TypeOK, WorkerState
<1>4. r \in WorkerState
  BY <1>3 DEF WorkerState
<1>5. /\ worker' \in [Workers -> WorkerState] /\ worker'[w] = r
      /\ \A v \in Workers : v # w => worker'[v] = worker[v]
      /\ \A v \in Workers : v # w => (Carries(v)' <=> Carries(v))
  BY <1>2, <1>3, <1>4, OneWorkerMoves, Zenon
<1>6. worker'[w].at = "gone" /\ (Carries(w)' <=> Carries(w)) /\ ~Carries(w)
  BY <1>2, <1>3, <1>5 DEF WorkerState, Carries
<1> HIDE DEF r
<1>7. Typed'
  BY <1>1, <1>5, Zenon DEF LoadInv, Typed, TypeOK, WorkerState
<1>8. Shutdown'
  BY <1>1, <1>2, <1>5, <1>6 DEF LoadInv, Shutdown, WorkersDone
<1>9. OnePlace'
  <2>1. /\ \A v \in Workers : (Carries(v)' <=> Carries(v))
        /\ \A v \in Workers : Carries(v) => worker'[v].job = worker[v].job
    BY <1>5, <1>6
  <2> QED BY <1>1, <2>1, SamePlaces DEF LoadInv
<1> QED BY <1>1, <1>7, <1>8, <1>9 DEF LoadInv, InSchedule, Counted, Recorded
\* A worker puts its result in the channel: the job moves there.
LEMMA ReportStep ==
  ASSUME LoadInv, NEW w \in Workers, Report(w)
  PROVE  LoadInv'
<1> DEFINE r == [worker[w] EXCEPT !.at = "range"]
           x == [job |-> worker[w].job, end |-> worker[w].end]
           last == Len(results) + 1
<1>1. UNCHANGED <<cancelled, schedule, sent, jobsClosed, resultsClosed, summary, recorded>>
  BY DEF Report
<1>2. /\ worker[w].at = "report" /\ Len(results) < Cardinality(Workers)
      /\ results' = Append(results, x) /\ worker' = [worker EXCEPT ![w] = r]
  BY DEF Report, Room, LoadInv, Typed, TypeOK
<1>3. /\ Typed /\ OnePlace /\ worker[w] \in WorkerState /\ Carries(w)
      /\ results \in Seq(Result)
  BY <1>2 DEF LoadInv, Typed, TypeOK, WorkerState, Carries
<1>4. r \in WorkerState
  BY <1>3 DEF WorkerState
<1>5. /\ worker' \in [Workers -> WorkerState] /\ worker'[w] = r
      /\ \A v \in Workers : v # w => worker'[v] = worker[v]
      /\ \A v \in Workers : v # w => (Carries(v)' <=> Carries(v))
  BY <1>2, <1>3, <1>4, OneWorkerMoves, Zenon
<1>6. worker'[w].at = "range" /\ ~Carries(w)'
  BY <1>3, <1>5 DEF WorkerState, Carries
<1>7. x \in Result /\ x.job = worker[w].job
  BY <1>3 DEF OnePlace, WorkerState, Result
<1> HIDE DEF r, x
<1>8. /\ results' \in Seq(Result) /\ Len(results') = last /\ Len(results) \in Nat
      /\ \A n \in 1..Len(results) : results'[n] = results[n]
      /\ results'[last] = x
  BY <1>2, <1>3, <1>7, AppendFacts
<1>9. Typed'
  <2>1. Len(results') <= Cardinality(Workers)
    BY <1>2, <1>8, Sizes
  <2> QED BY <1>1, <1>3, <1>5, <1>8, <2>1, Zenon DEF Typed, TypeOK, WorkerState
<1>10. Shutdown'
  <2>1. ~resultsClosed
    BY <1>2 DEF LoadInv, Shutdown, WorkersDone
  <2> QED BY <1>1, <1>5, <1>6, <2>1 DEF LoadInv, Shutdown
<1>11. OnePlace'
  <2>1. Handed' = Handed
    BY <1>1 DEF Handed
  <2>2. \A n \in 1..Len(results') : n \in 1..Len(results) \/ n = last
    BY <1>8
  <2>3. \A n \in 1..Len(results) : n \in 1..Len(results')
    BY <1>8
  <2>4. last \in 1..Len(results')
    BY <1>8
  <2> HIDE DEF last
  <2>5. \A v \in Workers : Carries(v)' => v # w /\ Carries(v) /\ worker'[v].job = worker[v].job
    BY <1>5, <1>6
  <2>6. \A v \in Workers : Carries(v) => v = w \/ (Carries(v)' /\ worker'[v].job = worker[v].job)
    BY <1>5
  <2>7. \A v \in Workers : Carries(v)' => worker'[v].job \in Jobs /\ worker'[v].job < Handed'
    BY <1>3, <2>1, <2>5, Zenon DEF OnePlace
  <2>8. \A n \in 1..Len(results') : results'[n].job < Handed'
    BY <1>3, <1>7, <1>8, <2>1, <2>2 DEF OnePlace
  <2>9. \A u, v \in Workers : Carries(u)' /\ Carries(v)' /\ worker'[u].job = worker'[v].job => u = v
    BY <1>3, <2>5 DEF OnePlace
  <2>10. \A m, n \in 1..Len(results') : results'[m].job = results'[n].job => m = n
    <3>1. \A n \in 1..Len(results) : worker[w].job # results[n].job
      BY <1>3 DEF OnePlace
    <3>2. \A m, n \in 1..Len(results) : results[m].job = results[n].job => m = n
      BY <1>3, Zenon DEF OnePlace
    <3> QED BY <1>7, <1>8, <2>2, <3>1, <3>2
  <2>11. \A v \in Workers, n \in 1..Len(results') : Carries(v)' => worker'[v].job # results'[n].job
    <3>1. \A v \in Workers : Carries(v)' => worker'[v].job # worker[w].job
      BY <1>3, <2>5 DEF OnePlace
    <3> QED BY <1>3, <1>7, <1>8, <2>2, <2>5, <3>1 DEF OnePlace
  <2>12. \A v \in Workers : Carries(v)' => recorded[worker'[v].job] = 0
    BY <1>3, <2>5, Zenon DEF OnePlace
  <2>13. \A n \in 1..Len(results') : recorded[results'[n].job] = 0
    BY <1>3, <1>7, <1>8, <2>2 DEF OnePlace
  <2>14. ASSUME NEW i \in Jobs, i < Handed
         PROVE  Located(i)'
    <3>1. CASE \E v \in Workers : Carries(v) /\ worker[v].job = i
      BY <1>7, <1>8, <2>4, <2>6, <3>1, Zenon DEF Located
    <3>2. CASE \E n \in 1..Len(results) : results[n].job = i
      BY <1>8, <2>3, <3>2, Zenon DEF Located
    <3>3. CASE recorded[i] = 1
      BY <1>1, <3>3, Zenon DEF Located
    <3>4. Located(i)
      BY <1>3, <2>14, Zenon DEF OnePlace
    <3> QED BY <3>1, <3>2, <3>3, <3>4, Zenon DEF Located
  <2>15. \A i \in Jobs : recorded[i] = 1 => i < Handed
    BY <1>3 DEF OnePlace
  <2> QED BY <1>1, <2>1, <2>7, <2>8, <2>9, <2>10, <2>11, <2>12, <2>13, <2>14, <2>15, Zenon DEF OnePlace
<1> QED BY <1>1, <1>9, <1>10, <1>11 DEF LoadInv, InSchedule, Counted, Recorded

\* Run collects the first result of the channel: the job moves into the summary.
LEMMA CollectStep ==
  ASSUME LoadInv, Collect
  PROVE  LoadInv'
<1> DEFINE x == Head(results)
           good == IF x.end = "2xx" THEN summary.Successful + 1 ELSE summary.Successful
           bad == IF x.end = "2xx" THEN summary.Errors ELSE summary.Errors + 1
<1>1. UNCHANGED <<cancelled, schedule, sent, jobsClosed, worker, resultsClosed>>
  BY DEF Collect
<1>2. /\ ~summary.returned /\ results # <<>> /\ results' = Tail(results)
      /\ summary' = [summary EXCEPT !.Completed = summary.Completed + 1,
                                    !.Successful = good, !.Errors = bad]
      /\ recorded' = [recorded EXCEPT ![x.job] = recorded[x.job] + 1]
  BY Zenon DEF Collect, Collecting
<1>3. /\ Typed /\ OnePlace /\ results \in Seq(Result) /\ recorded \in [Jobs -> {0, 1}]
      /\ summary \in [returned : BOOLEAN, Scheduled : Nat, Completed : Nat, Successful : Nat, Errors : Nat]
  BY DEF LoadInv, Typed
<1>4. /\ x \in Result /\ x = results[1] /\ 1 \in 1..Len(results)
      /\ results' \in Seq(Result) /\ Len(results') = Len(results) - 1 /\ Len(results) \in Nat
      /\ \A n \in 1..(Len(results) - 1) : results'[n] = results[n + 1]
  BY <1>2, <1>3, TailFacts
<1> HIDE DEF x
<1>5. x.job \in Jobs /\ recorded[x.job] = 0
  BY <1>3, <1>4 DEF OnePlace, Result
<1>6. /\ recorded' = [recorded EXCEPT ![x.job] = 1]
      /\ recorded' \in [Jobs -> {0, 1}] /\ recorded'[x.job] = 1
      /\ \A i \in Jobs : i # x.job => recorded'[i] = recorded[i]
  BY <1>2, <1>3, <1>5
<1>7. /\ summary'.returned = FALSE /\ summary'.Completed = summary.Completed + 1
      /\ summary'.Successful + summary'.Errors = summary.Successful + summary.Errors + 1
      /\ summary' \in [returned : BOOLEAN, Scheduled : Nat, Completed : Nat, Successful : Nat, Errors : Nat]
  <2>1. /\ good \in Nat /\ bad \in Nat
        /\ good + bad = summary.Successful + summary.Errors + 1
        /\ summary.Completed + 1 \in Nat /\ summary.returned = FALSE
    BY <1>2, <1>3
  <2> HIDE DEF good, bad
  <2> QED BY <1>2, <1>3, <2>1, Zenon
<1>8. Typed'
  <2>1. Len(results') <= Cardinality(Workers)
    BY <1>3, <1>4, Sizes DEF Typed, TypeOK
  <2>2. \A i \in DOMAIN recorded' : recorded'[i] \in Nat
    BY <1>6
  <2>3. summary'.returned \in BOOLEAN
    BY <1>7
  <2> QED BY <1>1, <1>3, <1>4, <1>6, <1>7, <2>1, <2>2, <2>3, Zenon DEF Typed, TypeOK
<1>9. Shutdown'
  BY <1>1, <1>7 DEF LoadInv, Shutdown, WorkersDone
<1>10. Counted'
  <2>1. Cardinality(Recorded') = Cardinality(Recorded) + 1
    BY <1>3, <1>5, <1>6, RecordOne, Zenon
  <2>2. summary.Completed = Cardinality(Recorded) /\ summary.Completed = summary.Successful + summary.Errors
    BY DEF LoadInv, Counted
  <2> QED BY <1>7, <2>1, <2>2 DEF Counted
<1>11. OnePlace'
  <2>1. Handed' = Handed /\ \A v \in Workers : (Carries(v)' <=> Carries(v))
    BY <1>1 DEF Handed, Carries
  <2>2. \A n \in 1..Len(results') : n + 1 \in 1..Len(results) /\ results'[n] = results[n + 1] /\ n + 1 # 1
    BY <1>4
  <2>3. \A n \in 1..Len(results) : n = 1 \/ \E m \in 1..Len(results') : results'[m] = results[n]
    <3>1. \A n \in 1..Len(results) : n = 1 \/ (n - 1 \in 1..Len(results') /\ results'[n - 1] = results[n])
      BY <1>4
    <3> QED BY <3>1, Zenon
  <2>4. \A n \in 1..Len(results') : results'[n].job < Handed'
    BY <1>3, <2>1, <2>2, Zenon DEF OnePlace
  <2>5. \A i \in Jobs : recorded'[i] = 1 => i < Handed'
    BY <1>3, <1>4, <1>6, <2>1 DEF OnePlace
  <2>6. \A m, n \in 1..Len(results') : results'[m].job = results'[n].job => m = n
    <3> SUFFICES ASSUME NEW m \in 1..Len(results'), NEW n \in 1..Len(results'),
                        results'[m].job = results'[n].job
                 PROVE  m = n
      OBVIOUS
    <3>1. /\ m + 1 \in 1..Len(results) /\ n + 1 \in 1..Len(results)
          /\ results[m + 1].job = results[n + 1].job
      BY <2>2, Zenon
    <3>2. m + 1 = n + 1
      BY <1>3, <3>1, Zenon DEF OnePlace
    <3> QED BY <1>4, <3>2
  <2>7. \A v \in Workers, n \in 1..Len(results') : Carries(v)' => worker'[v].job # results'[n].job
    <3>1. \A v \in Workers, n \in 1..Len(results) : Carries(v) => worker[v].job # results[n].job
      BY <1>3, Zenon DEF OnePlace
    <3> QED BY <1>1, <2>1, <2>2, <3>1
  <2>8. \A v \in Workers : Carries(v)' => recorded'[worker'[v].job] = 0
    <3>1. \A v \in Workers : Carries(v) => worker[v].job \in Jobs /\ worker[v].job # x.job /\ recorded[worker[v].job] = 0
      BY <1>3, <1>4 DEF OnePlace
    <3> QED BY <1>1, <1>6, <2>1, <3>1
  <2>9. \A n \in 1..Len(results') : recorded'[results'[n].job] = 0
    <3>1. \A n \in 1..Len(results) : results[n].job \in Jobs /\ recorded[results[n].job] = 0
      <4>1. \A n \in 1..Len(results) : results[n] \in Result
        BY <1>3
      <4> QED BY <1>3, <4>1 DEF OnePlace, Result
    <3>2. \A n \in 1..Len(results) : n # 1 => results[n].job # x.job
      BY <1>3, <1>4 DEF OnePlace
    <3> QED BY <1>6, <2>2, <3>1, <3>2
  <2>10. ASSUME NEW i \in Jobs, i < Handed
         PROVE  Located(i)'
    <3>1. CASE \E v \in Workers : Carries(v) /\ worker[v].job = i
      BY <1>1, <2>1, <3>1, Zenon DEF Located
    <3>2. CASE \E n \in 1..Len(results) : results[n].job = i
      <4>1. PICK n \in 1..Len(results) : results[n].job = i
        BY <3>2
      <4>2. CASE n = 1
        BY <1>4, <1>6, <4>1, <4>2, Zenon DEF Located
      <4>3. CASE n # 1
        BY <2>3, <4>1, <4>3, Zenon DEF Located
      <4> QED BY <4>2, <4>3
    <3>3. CASE recorded[i] = 1
      BY <1>6, <3>3, Zenon DEF Located
    <3>4. Located(i)
      BY <1>3, <2>10, Zenon DEF OnePlace
    <3> QED BY <3>1, <3>2, <3>3, <3>4, Zenon DEF Located
  <2> QED BY <1>1, <1>3, <2>1, <2>4, <2>5, <2>6, <2>7, <2>8, <2>9, <2>10, Zenon DEF OnePlace
<1> QED BY <1>1, <1>8, <1>9, <1>10, <1>11 DEF LoadInv, InSchedule
\* The workers are gone, and the channel of results is closed.
LEMMA CloseResultsStep ==
  ASSUME LoadInv, CloseResults
  PROVE  LoadInv'
<1>1. UNCHANGED <<cancelled, schedule, sent, jobsClosed, worker, results, summary, recorded>>
  BY DEF CloseResults
<1>2. resultsClosed' = TRUE /\ WorkersDone
  BY DEF CloseResults
<1>3. Typed'
  BY <1>1, <1>2 DEF LoadInv, Typed, TypeOK
<1>4. Shutdown'
  BY <1>1, <1>2 DEF LoadInv, Shutdown, WorkersDone
<1>5. Handed' = Handed
  BY <1>1 DEF Handed
<1> QED BY <1>1, <1>3, <1>4, <1>5, HandedSame DEF LoadInv, InSchedule

\* Run returns; its summary takes the counter of the jobs handed out.
LEMMA ReturnStep ==
  ASSUME LoadInv, Return
  PROVE  LoadInv'
<1>1. UNCHANGED <<cancelled, schedule, sent, jobsClosed, worker, results, resultsClosed, recorded>>
  BY DEF Return
<1>2. /\ results = <<>> /\ resultsClosed
      /\ summary' = [summary EXCEPT !.returned = TRUE, !.Scheduled = sent]
  BY DEF Return
<1>3. /\ sent \in Nat
      /\ summary \in [returned : BOOLEAN, Scheduled : Nat, Completed : Nat, Successful : Nat, Errors : Nat]
  BY DEF LoadInv, Typed, TypeOK
<1>4. /\ summary' \in [returned : BOOLEAN, Scheduled : Nat, Completed : Nat, Successful : Nat, Errors : Nat]
      /\ summary'.returned = TRUE /\ summary'.Scheduled = sent
      /\ summary'.Completed = summary.Completed
      /\ summary'.Successful = summary.Successful /\ summary'.Errors = summary.Errors
  BY <1>2, <1>3, Zenon
<1>5. Typed'
  <2>1. summary'.returned \in BOOLEAN
    BY <1>4
  <2> QED BY <1>1, <1>4, <2>1 DEF LoadInv, Typed, TypeOK
<1>6. Shutdown'
  BY <1>1, <1>2, <1>4 DEF LoadInv, Shutdown, WorkersDone
<1>7. OnePlace'
  BY <1>1, Zenon DEF LoadInv, OnePlace, Located, Carries, Handed
<1>8. Counted'
  BY <1>1, <1>4 DEF LoadInv, Counted, Recorded
<1> QED BY <1>1, <1>5, <1>6, <1>7, <1>8 DEF LoadInv, InSchedule

\* The caller's context ends.
LEMMA CancelStep ==
  ASSUME LoadInv, Cancel \/ UNCHANGED vars
  PROVE  LoadInv'
<1>1. UNCHANGED <<schedule, sent, jobsClosed, worker, results, resultsClosed, summary, recorded>>
  BY DEF Cancel, vars
<1>2. cancelled' \in BOOLEAN
  BY Zenon DEF Cancel, vars, LoadInv, Typed, TypeOK
<1>3. Typed'
  BY <1>1, <1>2 DEF LoadInv, Typed, TypeOK
<1>4. Shutdown'
  BY <1>1 DEF LoadInv, Shutdown, WorkersDone
<1>5. Handed' = Handed
  BY <1>1 DEF Handed
<1> QED BY <1>1, <1>3, <1>4, <1>5, HandedSame DEF LoadInv, InSchedule

-----------------------------------------------------------------------------
(* The theorems.                                                            *)

\* The initial state satisfies the invariant: nothing has been handed out.
LEMMA InitLoadInv == Init => LoadInv
<1> SUFFICES ASSUME Init PROVE LoadInv
  OBVIOUS
<1>1. /\ 0 \in 0..Requested /\ 0 <= WithinDuration /\ 0 <= Cardinality(Workers)
      /\ \A i \in Jobs : ~(i < 0)
  BY Sizes DEF Jobs
<1>2. results = <<>> /\ Len(results) = 0 /\ results \in Seq(Result)
  BY DEF Init
<1>3. Handed = 0
  BY DEF Init, Handed
<1>4. recorded \in [Jobs -> {0, 1}] /\ Recorded = {} /\ \A i \in Jobs : recorded[i] = 0
  BY DEF Init, Jobs, Recorded
<1>5. Typed
  <2>1. worker \in [Workers -> [at : {"range", "perform", "report", "gone"}, job : 0..Requested, end : Ends]]
    BY <1>1 DEF Init, Ends
  <2>2. summary \in [returned : BOOLEAN, Scheduled : Nat, Completed : Nat, Successful : Nat, Errors : Nat]
    BY DEF Init
  <2>3. {cancelled, jobsClosed, resultsClosed, summary.returned} \subseteq BOOLEAN
    BY Zenon DEF Init
  <2>4. \A i \in DOMAIN recorded : recorded[i] \in Nat
    BY <1>4
  <2>5. schedule \in [at : {"next", "timer", "send", "count", "gone"}, index : 0..Requested] /\ sent \in 0..Requested
    BY <1>1 DEF Init
  <2> QED BY <1>1, <1>2, <1>4, <2>1, <2>2, <2>3, <2>4, <2>5 DEF Typed, TypeOK
<1>6. InSchedule
  BY <1>1 DEF Init, InSchedule
<1>7. Shutdown
  BY DEF Init, Shutdown
<1>8. OnePlace
  <2>1. \A w \in Workers : ~Carries(w)
    BY DEF Init, Carries
  <2>2. \A n \in 1..Len(results) : FALSE
    BY <1>2
  <2>3. \A i \in Jobs : recorded[i] # 1
    BY <1>4
  <2> QED BY <1>1, <1>3, <2>1, <2>2, <2>3 DEF OnePlace
<1>9. Counted
  <2>1. Cardinality(Recorded) = 0
    BY <1>4, FS_EmptySet
  <2> QED BY <2>1 DEF Init, Counted
<1> QED BY <1>5, <1>6, <1>7, <1>8, <1>9 DEF LoadInv

\* Every step keeps the invariant.
LEMMA NextLoadInv ==
  ASSUME LoadInv, [Next]_vars
  PROVE  LoadInv'
BY WaitStep, SendStep, CountSentStep, PerformStep, ReportStep, LeaveStep, CloseResultsStep,
   CollectStep, ReturnStep, CancelStep, Zenon
DEF Next, Schedule, Work, Run

\* The inductive invariant of the load generator.
THEOREM LoadInvariant == Spec => []LoadInv
<1>1. Init => LoadInv
  BY InitLoadInv
<1>2. LoadInv /\ [Next]_vars => LoadInv'
  BY NextLoadInv
<1> QED BY <1>1, <1>2, PTL DEF Spec

\* When Run has returned, the jobs recorded are those handed out, and they are all counted.
LEMMA AllRecorded ==
  ASSUME LoadInv, summary.returned
  PROVE  /\ \A i \in Jobs : recorded[i] = (IF i < sent THEN 1 ELSE 0)
         /\ summary.Completed = sent
<1>1. /\ results = <<>> /\ WorkersDone /\ schedule.at = "gone"
      /\ sent \in Nat /\ sent <= Requested /\ recorded \in [Jobs -> {0, 1}]
  <2>1. results = <<>> /\ WorkersDone
    BY DEF LoadInv, Shutdown
  <2>2. PICK w \in Workers : TRUE
    BY LoadAssumption
  <2>3. schedule.at = "gone"
    BY <2>1, <2>2 DEF LoadInv, Shutdown, WorkersDone
  <2> QED BY <2>1, <2>3, Sizes DEF LoadInv, Typed, TypeOK
<1>2. Handed = sent
  BY <1>1 DEF Handed
<1>3. (\A w \in Workers : ~Carries(w)) /\ \A n \in 1..Len(results) : FALSE
  BY <1>1 DEF WorkersDone, Carries
<1>4. \A i \in Jobs : recorded[i] = 1 <=> i < sent
  BY <1>2, <1>3, Zenon DEF LoadInv, OnePlace, Located
<1>5. Recorded = 0..(sent - 1)
  <2>1. \A i : i \in 0..(sent - 1) <=> i \in Jobs /\ i < sent
    BY <1>1, Sizes DEF Jobs
  <2> QED BY <1>4, <2>1, Zenon DEF Recorded
<1>6. Cardinality(Recorded) = sent
  BY <1>1, <1>5, FS_Interval
<1> QED BY <1>1, <1>4, <1>6, Zenon DEF LoadInv, Counted

\* "Every completed HTTP request - including transport failures - is recorded" (README.md): for
\* every schedule and number of workers, and wherever the context is cancelled, when Run returns
\* each job handed out is in the summary exactly once and the counts agree.
THEOREM RequestsRecorded == Spec => []EveryRequestRecorded
<1>1. ASSUME LoadInv PROVE EveryRequestRecorded
  <2>1. TypeOK /\ DOMAIN recorded = Jobs
    BY <1>1 DEF LoadInv, Typed
  <2>2. summary.returned => WorkersDone /\ summary.Scheduled = sent
    BY <1>1 DEF LoadInv, Shutdown
  <2>3. summary.Completed = summary.Successful + summary.Errors
    BY <1>1 DEF LoadInv, Counted
  <2>4. summary.returned => /\ \A i \in Jobs : recorded[i] = (IF i < sent THEN 1 ELSE 0)
                            /\ summary.Completed = sent
    BY <1>1, AllRecorded
  <2> QED BY <2>1, <2>2, <2>3, <2>4 DEF EveryRequestRecorded, WorkersDone
<1> QED BY <1>1, LoadInvariant, PTL
=============================================================================
