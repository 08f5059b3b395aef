----------------------------- MODULE WorkerPool -----------------------------
(***************************************************************************)
(* The gateway's pool of inference workers, worker.Pool of                 *)
(* serving_plane/worker: round-robin choice, failover with a share of the  *)
(* remaining time for each attempt, and workers marked down until a probe  *)
(* succeeds.  Infer (the batcher) and Healthy (/readyz) run concurrently;  *)
(* the lock covers single reads and writes of next and unhealthy, so other *)
(* calls come between an answer and what is noted about it.                *)
(*                                                                         *)
(* Times are the units left: of a context, of an attempt, of a mark.  A    *)
(* worker is external: up it answers within an attempt, down it refuses at *)
(* once, stalled it says nothing.  The pool's own steps take no time.      *)
(***************************************************************************)
EXTENDS Integers, Functions

CONSTANTS
  N,            \* len(p.workers)
  Callers,      \* goroutines that call the pool, again and again
  Ops,          \* what they call: "infer", "healthy"
  Deadlines,    \* the times callers' contexts leave, NoDeadline among them or not
  NoDeadline,
  AttemptTime,  \* an attempt's time when the context has no deadline
  ProbeEvery,   \* p.probeEvery
  MaxRate,      \* bound: calls begun within a unit of time
  MaxCancels,   \* bound: contexts cancelled
  MaxChanges    \* bound: changes of the workers' modes

Workers == 0..(N - 1)

ASSUME PoolAssumption ==
  /\ N \in Nat \ {0} /\ AttemptTime \in Nat \ {0} /\ ProbeEvery \in Nat \ {0}
  /\ NoDeadline \notin Int /\ Deadlines \subseteq Nat \cup {NoDeadline}
  /\ Ops \subseteq {"infer", "healthy"}
  /\ MaxRate \in Nat \ {0} /\ MaxCancels \in Nat /\ MaxChanges \in Nat

VARIABLES
  next,       \* p.next modulo N
  unhealthy,  \* p.unhealthy: for a worker marked down, the time left until its probe
  call,       \* each caller's call and its variables
  mode,       \* the workers
  cancels, changes, begun,
  tainted,    \* history: workers that during the call were not up, or were marked
  blamed      \* history: workers that ever were not up, or that failed a Health call

poolVars == <<next, unhealthy>>
boundVars == <<cancels, changes, begun>>
historyVars == <<tainted, blamed>>
vars == <<poolVars, call, mode, boundVars, historyVars>>

NoCall ==
  [op |-> "none", at |-> "idle", start |-> 0, offset |-> 0, given |-> 0, left |-> 0,
   due |-> 0, cancelled |-> FALSE, outcome |-> "none"]

Init ==
  /\ next = 0 /\ unhealthy = <<>>
  /\ call = [c \in Callers |-> NoCall]
  /\ mode \in [Workers -> {"up", "stalled"}]
  /\ cancels = 0 /\ changes = 0 /\ begun = 0
  /\ tainted = [c \in Callers |-> {}]
  /\ blamed = {w \in Workers : mode[w] # "up"}

Times == Nat \cup {NoDeadline}

TypeOK ==
  /\ next \in Workers
  /\ DOMAIN unhealthy \subseteq Workers
  /\ \A w \in DOMAIN unhealthy : unhealthy[w] \in 0..ProbeEvery
  /\ call \in [Callers ->
       [op : Ops \cup {"none"},
        at : {"idle", "attempt", "infer", "probe", "health", "clear", "mark"},
        start : Workers, offset : Workers, given : Times, left : Times, due : Nat,
        cancelled : BOOLEAN, outcome : {"none", "ok", "failed"}]]
  /\ mode \in [Workers -> {"up", "down", "stalled"}]
  /\ tainted \in [Callers -> SUBSET Workers] /\ blamed \subseteq Workers

-----------------------------------------------------------------------------
Busy == {c \in Callers : call[c].at # "idle"}
CtxDone(c) == call[c].cancelled \/ call[c].left = 0
AttemptDone(c) == CtxDone(c) \/ call[c].due = 0

\* The worker of the current attempt.
Worker(c) == (call[c].start + call[c].offset) % N

At(c, place) == call[c].at = place
Goto(c, place) == call' = [call EXCEPT ![c].at = place]

\* A fault: the whole remaining time goes to each attempt.
WholeBudget(left, remaining) == left

\* time.Until(deadline) / remaining; nothing left means the context itself.
Budget(left, remaining) == IF left \div remaining = 0 THEN left ELSE left \div remaining

\* attemptContext
AttemptDue(c) ==
  IF call[c].left = NoDeadline THEN AttemptTime ELSE Budget(call[c].left, N - call[c].offset)

HasNext(offset) == offset + 1 < N

\* The loop goes on with the next worker, or ends without a result.
NextAttempt(c) ==
  LET this == call[c]
  IN  call' = [call EXCEPT ![c] =
        IF HasNext(this.offset)
        THEN [this EXCEPT !.at = "attempt", !.offset = this.offset + 1, !.due = 0]
        ELSE [NoCall EXCEPT !.op = this.op, !.given = this.given,
                            !.cancelled = this.cancelled, !.outcome = "failed"]]

Succeed(c) == call' = [call EXCEPT ![c] = [NoCall EXCEPT !.outcome = "ok"]]

\* A call begins.  Infer takes its place in the rotation; Healthy starts at worker 0.
Begin(c, op, left) ==
  /\ At(c, "idle") /\ begun < MaxRate
  /\ begun' = begun + 1
  /\ call' = [call EXCEPT ![c] =
       [NoCall EXCEPT !.op = op, !.at = "attempt", !.given = left, !.left = left,
                      !.start = IF op = "infer" THEN next ELSE 0]]
  /\ next' = IF op = "infer" THEN (next + 1) % N ELSE next
  /\ tainted' = [tainted EXCEPT ![c] = {w \in Workers : mode[w] # "up"} \cup DOMAIN unhealthy]
  /\ UNCHANGED <<unhealthy, mode, cancels, changes, blamed>>

\* An attempt: available's reading of unhealthy decides about the worker.
Attempt(c) ==
  LET w == Worker(c)
      Ask(place) == call' = [call EXCEPT ![c].at = place, ![c].due = AttemptDue(c)]
  IN  /\ At(c, "attempt")
      /\ IF call[c].op = "healthy" THEN Ask("health")
         ELSE IF w \notin DOMAIN unhealthy THEN Ask("infer")
         ELSE IF unhealthy[w] > 0 THEN NextAttempt(c)
         ELSE Ask("probe")
      /\ UNCHANGED <<poolVars, mode, boundVars, historyVars>>

\* The worker answers; a healthy one is taken out of unhealthy in a step of its own.
Answered(c) ==
  /\ mode[Worker(c)] = "up"
  /\ \/ At(c, "infer") /\ Succeed(c)
     \/ At(c, "probe") /\ Goto(c, "clear")
     \/ At(c, "health") /\ Goto(c, "clear")
  /\ UNCHANGED <<poolVars, mode, boundVars, historyVars>>

\* A fault: the caller's own cancellation is held against the worker.
BlameAlways(c) == TRUE

\* Whether a failed attempt marks the worker down: Infer looks at its context,
\* available and Healthy do not.
Blame(c) == At(c, "infer") => ~CtxDone(c)

\* The worker refuses, or the attempt's time is over, or the context is done.
Unanswered(c) ==
  /\ call[c].at \in {"infer", "probe", "health"}
  /\ mode[Worker(c)] = "down" \/ AttemptDone(c)
  /\ IF Blame(c) THEN Goto(c, "mark") ELSE NextAttempt(c)
  /\ blamed' = IF At(c, "infer") THEN blamed ELSE blamed \cup {Worker(c)}
  /\ UNCHANGED <<poolVars, mode, boundVars, tainted>>

\* A fault: the mark is kept although the worker answered.
ClearKeepsMark(c) ==
  /\ At(c, "clear")
  /\ IF call[c].op = "healthy" THEN Succeed(c) ELSE Goto(c, "infer")
  /\ UNCHANGED <<poolVars, mode, boundVars, historyVars>>

\* delete(p.unhealthy, i)
Clear(c) ==
  /\ At(c, "clear")
  /\ unhealthy' = Restrict(unhealthy, DOMAIN unhealthy \ {Worker(c)})
  /\ IF call[c].op = "healthy" THEN Succeed(c) ELSE Goto(c, "infer")
  /\ UNCHANGED <<next, mode, boundVars, historyVars>>

\* markDown
MarkDown(c) ==
  LET w == Worker(c)
  IN  /\ At(c, "mark")
      /\ unhealthy' = [v \in DOMAIN unhealthy \cup {w} |-> IF v = w THEN ProbeEvery ELSE unhealthy[v]]
      /\ tainted' = [d \in Callers |-> IF d \in Busy THEN tainted[d] \cup {w} ELSE tainted[d]]
      /\ NextAttempt(c)
      /\ UNCHANGED <<next, mode, boundVars, blamed>>

Step(c) == Attempt(c) \/ Answered(c) \/ Unanswered(c) \/ Clear(c) \/ MarkDown(c)

-----------------------------------------------------------------------------
(* The environment.                                                        *)

Cancel(c) ==
  /\ c \in Busy /\ ~call[c].cancelled
  /\ cancels < MaxCancels /\ cancels' = cancels + 1
  /\ call' = [call EXCEPT ![c].cancelled = TRUE]
  /\ UNCHANGED <<poolVars, mode, changes, begun, historyVars>>

Change(w, m) ==
  /\ mode[w] # m
  /\ changes < MaxChanges /\ changes' = changes + 1
  /\ mode' = [mode EXCEPT ![w] = m]
  /\ tainted' = [c \in Callers |-> IF c \in Busy THEN tainted[c] \cup {w} ELSE tainted[c]]
  /\ blamed' = blamed \cup {w}
  /\ UNCHANGED <<poolVars, call, cancels, begun>>

\* Time passes while every call waits for a stalled worker.
Waiting(c) ==
  /\ call[c].at \in {"infer", "probe", "health"}
  /\ mode[Worker(c)] = "stalled" /\ ~AttemptDone(c)

Less(t) == IF t = NoDeadline \/ t = 0 THEN t ELSE t - 1

Tick ==
  /\ \A c \in Busy : Waiting(c)
  /\ call' = [c \in Callers |-> IF c \in Busy
                THEN [call[c] EXCEPT !.left = Less(@), !.due = Less(@)] ELSE call[c]]
  /\ unhealthy' = [w \in DOMAIN unhealthy |-> Less(unhealthy[w])]
  /\ begun' = 0
  /\ UNCHANGED <<next, mode, cancels, changes, tainted, blamed>>

Next ==
  \/ \E c \in Callers :
       \/ \E op \in Ops, left \in Deadlines : Begin(c, op, left)
       \/ Step(c)
       \/ Cancel(c)
  \/ \E w \in Workers, m \in {"up", "down", "stalled"} : Change(w, m)
  \/ Tick

Spec == Init /\ [][Next]_vars

\* Goroutines run, time passes, and there is traffic: some caller calls Infer again
\* and again, the bound on the rate permitting.
Fairness ==
  /\ \A c \in Callers : WF_vars(Step(c))
  /\ \E c \in Callers : SF_vars(\E left \in Deadlines : Begin(c, "infer", left))
  /\ WF_vars(Tick)

-----------------------------------------------------------------------------
(* Properties.                                                             *)

\* Failover has time: a call whose context allows an attempt at every worker
\* fails only if no worker was up and unmarked throughout, however long the
\* others stall and whatever concurrent calls do to the rotation and the marks.
SteadyWorkerServes ==
  \A c \in Callers :
    call[c].outcome = "failed" /\ ~call[c].cancelled /\ call[c].op = "infer"
      /\ (call[c].given = NoDeadline \/ call[c].given >= N)
    => tainted[c] = Workers

\* A call of Infer that is cancelled, or whose time runs out, never marks down a
\* worker that has always been up and answered every Health call.
BlameDeserved == TypeOK /\ DOMAIN unhealthy \subseteq blamed

\* A worker that stays up does not stay marked: with traffic, the rotation comes
\* round to it after its interval and the probe clears it.
Recovers == \A w \in Workers : <>[](mode[w] = "up") => []<>(w \notin DOMAIN unhealthy)
=============================================================================
