----------------------------- MODULE LoadTester -----------------------------
(***************************************************************************)
(* The open-loop load generator, load_tester/main.go: a goroutine hands    *)
(* out jobs at their planned times over an unbuffered channel, workers     *)
(* perform them and put what they saw in a bounded channel, another        *)
(* goroutine closes that channel when the workers are gone, and Run        *)
(* collects until then.                                                    *)
(*                                                                         *)
(* Times are left out: a timer may fire at any moment.  A request's end is *)
(* a 2xx status, another status or a transport failure.                    *)
(***************************************************************************)
EXTENDS Integers, Sequences, FiniteSets

CONSTANTS
  Requested,       \* the length of the arrival schedule
  WithinDuration,  \* how many of its offsets do not exceed cfg.Duration
  Workers          \* cfg.Concurrency goroutines

ASSUME LoadAssumption ==
  /\ Requested \in Nat /\ WithinDuration \in 0..Requested
  /\ Workers # {} /\ IsFiniteSet(Workers)

VARIABLES
  cancelled,  \* ctx is done
  schedule,   \* the scheduling goroutine: where it is, and the index
  sent,       \* the atomic counter
  jobsClosed,
  worker,     \* each worker: where it is, its job and what it saw
  results,    \* contents of the results channel
  resultsClosed,
  summary,    \* Run's Summary, and whether it has returned
  recorded    \* history: how often each index was collected

vars == <<cancelled, schedule, sent, jobsClosed, worker, results, resultsClosed, summary, recorded>>

Ends == {"2xx", "other", "transport"}

Init ==
  /\ cancelled = FALSE
  /\ schedule = [at |-> "next", index |-> 0]
  /\ sent = 0
  /\ jobsClosed = FALSE /\ resultsClosed = FALSE
  /\ worker = [w \in Workers |-> [at |-> "range", job |-> 0, end |-> "other"]]
  /\ results = <<>>
  /\ summary = [returned |-> FALSE, Scheduled |-> 0, Completed |-> 0, Successful |-> 0, Errors |-> 0]
  /\ recorded = [i \in 0..(Requested - 1) |-> 0]

TypeOK ==
  /\ schedule \in [at : {"next", "timer", "send", "count", "gone"}, index : 0..Requested]
  /\ sent \in 0..Requested
  /\ worker \in [Workers -> [at : {"range", "perform", "report", "gone"}, job : 0..Requested, end : Ends]]
  /\ Len(results) <= Cardinality(Workers)
  /\ {cancelled, jobsClosed, resultsClosed, summary.returned} \subseteq BOOLEAN
  /\ \A i \in DOMAIN recorded : recorded[i] \in Nat

-----------------------------------------------------------------------------
(* The scheduling goroutine.                                                *)

\* The head of the loop: at the end of the schedule or of the duration it closes
\* the channel of jobs.
NextOffset ==
  /\ schedule.at = "next"
  /\ IF schedule.index >= WithinDuration
       THEN schedule' = [schedule EXCEPT !.at = "gone"] /\ jobsClosed' = TRUE
       ELSE schedule' = [schedule EXCEPT !.at = "timer"] /\ UNCHANGED jobsClosed
  /\ UNCHANGED <<cancelled, sent, worker, results, resultsClosed, summary, recorded>>

TimerFires ==
  /\ schedule.at = "timer"
  /\ schedule' = [schedule EXCEPT !.at = "send"]
  /\ UNCHANGED <<cancelled, sent, jobsClosed, worker, results, resultsClosed, summary, recorded>>

CtxDone ==
  /\ schedule.at = "timer" /\ cancelled
  /\ schedule' = [schedule EXCEPT !.at = "gone"]
  /\ jobsClosed' = TRUE
  /\ UNCHANGED <<cancelled, sent, worker, results, resultsClosed, summary, recorded>>

\* The send and a worker's receive, which meet.
Send(w) ==
  /\ schedule.at = "send" /\ worker[w].at = "range"
  /\ schedule' = [schedule EXCEPT !.at = "count"]
  /\ worker' = [worker EXCEPT ![w] = [@ EXCEPT !.at = "perform", !.job = schedule.index]]
  /\ UNCHANGED <<cancelled, sent, jobsClosed, results, resultsClosed, summary, recorded>>

Count == sent + 1

\* sent.Add, after the job may already be done.
CountSent ==
  /\ schedule.at = "count"
  /\ sent' = Count
  /\ schedule' = [at |-> "next", index |-> schedule.index + 1]
  /\ UNCHANGED <<cancelled, jobsClosed, worker, results, resultsClosed, summary, recorded>>

Schedule == NextOffset \/ TimerFires \/ CtxDone \/ (\E w \in Workers : Send(w)) \/ CountSent

-----------------------------------------------------------------------------
(* The workers, the closer, and Run.                                        *)

\* perform: a status, or a transport failure, a cancelled context's included.
Perform(w) ==
  /\ worker[w].at = "perform"
  /\ \E end \in Ends :
       worker' = [worker EXCEPT ![w] = [@ EXCEPT !.at = "report", !.end = end]]
  /\ UNCHANGED <<cancelled, schedule, sent, jobsClosed, results, resultsClosed, summary, recorded>>

\* The results channel, made for cfg.Concurrency results, is not full.
Room == Len(results) < Cardinality(Workers)

Report(w) ==
  /\ worker[w].at = "report" /\ Room
  /\ results' = Append(results, [job |-> worker[w].job, end |-> worker[w].end])
  /\ worker' = [worker EXCEPT ![w].at = "range"]
  /\ UNCHANGED <<cancelled, schedule, sent, jobsClosed, resultsClosed, summary, recorded>>

\* The range over jobs ends: workers.Done.
Leave(w) ==
  /\ worker[w].at = "range" /\ jobsClosed
  /\ worker' = [worker EXCEPT ![w].at = "gone"]
  /\ UNCHANGED <<cancelled, schedule, sent, jobsClosed, results, resultsClosed, summary, recorded>>

Work(w) == Perform(w) \/ Report(w) \/ Leave(w)

\* A fault: the results are closed with the jobs.
JobsAreOver == jobsClosed

\* workers.Wait has returned.
WorkersDone == \A w \in Workers : worker[w].at = "gone"

CloseResults ==
  /\ ~resultsClosed /\ WorkersDone
  /\ resultsClosed' = TRUE
  /\ UNCHANGED <<cancelled, schedule, sent, jobsClosed, worker, results, summary, recorded>>

\* A fault: Run waits for the workers before it collects.
CollectingAfterWait == ~summary.returned /\ resultsClosed

Collecting == ~summary.returned

\* One iteration of Run's loop.
Collect ==
  /\ Collecting /\ results # <<>>
  /\ LET r == Head(results) IN
       /\ summary' = [summary EXCEPT !.Completed = @ + 1,
                                     !.Successful = IF r.end = "2xx" THEN @ + 1 ELSE @,
                                     !.Errors = IF r.end = "2xx" THEN @ ELSE @ + 1]
       /\ recorded' = [recorded EXCEPT ![r.job] = @ + 1]
  /\ results' = Tail(results)
  /\ UNCHANGED <<cancelled, schedule, sent, jobsClosed, worker, resultsClosed>>

\* The channel is closed and empty: Run returns.
Return ==
  /\ ~summary.returned /\ results = <<>> /\ resultsClosed
  /\ summary' = [summary EXCEPT !.returned = TRUE, !.Scheduled = sent]
  /\ UNCHANGED <<cancelled, schedule, sent, jobsClosed, worker, results, resultsClosed, recorded>>

Run == CloseResults \/ Collect \/ Return

\* The caller's context ends.
Cancel ==
  /\ ~cancelled
  /\ cancelled' = TRUE
  /\ UNCHANGED <<schedule, sent, jobsClosed, worker, results, resultsClosed, summary, recorded>>

Next == Schedule \/ (\E w \in Workers : Work(w)) \/ Run \/ Cancel

Spec == Init /\ [][Next]_vars

\* Goroutines are scheduled, timers fire, and a request ends by the client's Timeout.
FairSpec == Spec /\ WF_vars(Schedule) /\ WF_vars(Run) /\ \A w \in Workers : WF_vars(Work(w))

-----------------------------------------------------------------------------
(* Properties.                                                             *)

\* "Every completed HTTP request - including transport failures - is recorded"
\* (README.md): when Run returns, each job handed out is in the summary exactly
\* once, whatever was in the channels when the context was cancelled, and the counts
\* agree: what was scheduled was completed, well or not.
EveryRequestRecorded ==
  /\ TypeOK
  /\ summary.returned =>
       /\ \A i \in DOMAIN recorded : recorded[i] = (IF i < sent THEN 1 ELSE 0)
       /\ \A w \in Workers : worker[w].at = "gone"
       /\ summary.Scheduled = summary.Completed
       /\ summary.Completed = summary.Successful + summary.Errors

\* Run returns: the goroutine that sends, the workers that block on a full channel
\* and the one that collects never wait for each other for good.
RunReturns == <>summary.returned
=============================================================================
