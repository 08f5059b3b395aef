---------------------------- MODULE WorkerProofs ----------------------------
(***************************************************************************)
(* Proofs about serving_plane/worker.  First WorkerPool, the pool of       *)
(* workers a gateway has; then WorkerProcess, one worker with the client   *)
(* through which the pool calls it.                                        *)
(***************************************************************************)
EXTENDS WorkerPool, WorkerProcess, TLAPS

-----------------------------------------------------------------------------
(***************************************************************************)
(* WorkerPool, for every number of workers and callers, every deadline,    *)
(* and every history of outages, marks and cancellations.                  *)
(*                                                                         *)
(* BlameDeserved needs that an attempt's time is over only for a context   *)
(* that is done or a worker that was not up (Deserved).  For               *)
(* SteadyWorkerServes, Failover says what the division of time in          *)
(* attemptContext keeps: the workers tried so far were all tainted, and    *)
(* one unit of time is left for each of the workers still to be tried.     *)
(***************************************************************************)

CallType ==
  [op : Ops \cup {"none"},
   at : {"idle", "attempt", "infer", "probe", "health", "clear", "mark"},
   start : Workers, offset : Workers, given : Times, left : Times, due : Nat,
   cancelled : BOOLEAN, outcome : {"none", "ok", "failed"}]

\* Workers that are not up, and workers that are marked, are known to all calls in progress.
Known(c) ==
  c \in Busy => \A w \in Workers : mode[w] # "up" \/ w \in DOMAIN unhealthy => w \in tainted[c]

\* An attempt in progress has time left, or its context has none, or its worker is to blame.
Deserved(c) ==
  /\ call[c].at \in {"infer", "probe", "health", "clear"} =>
       call[c].due > 0 \/ call[c].left = 0 \/ Worker(c) \in blamed
  /\ call[c].at = "mark" => Worker(c) \in blamed

\* The calls that SteadyWorkerServes speaks of.
Timely(c) ==
  ~call[c].cancelled /\ call[c].op = "infer" /\ (call[c].given = NoDeadline \/ call[c].given >= N)

\* The time that an attempt in progress leaves to the attempts after it.
TimeAhead(c) ==
  call[c].left # NoDeadline =>
    /\ call[c].at = "attempt" => call[c].left >= N - call[c].offset
    /\ call[c].at \in {"infer", "probe", "clear", "mark"}
         => call[c].left >= call[c].due + (N - call[c].offset - 1)

\* The workers tried so far.
TriedTainted(c) ==
  \A j \in Workers : j < call[c].offset => (call[c].start + j) % N \in tainted[c]

Failover(c) ==
  c \in Busy /\ Timely(c) =>
    /\ call[c].at # "health" /\ TimeAhead(c)
    /\ TriedTainted(c)
    /\ call[c].at \in {"probe", "clear"} => Worker(c) \in tainted[c]
    /\ call[c].at = "infer" /\ Worker(c) \notin tainted[c] => call[c].due > 0

\* What SteadyWorkerServes says of one caller; a call in progress has no outcome.
Outcome(c) ==
  /\ c \in Busy => call[c].outcome = "none"
  /\ call[c].outcome = "failed" /\ Timely(c) => tainted[c] = Workers

CallInv(c) == Known(c) /\ Deserved(c) /\ Failover(c) /\ Outcome(c)

BlamedInv == \A w \in Workers : mode[w] # "up" \/ w \in DOMAIN unhealthy => w \in blamed

PoolInv == TypeOK /\ BlamedInv /\ \A c \in Callers : CallInv(c)

-----------------------------------------------------------------------------
(* Arithmetic: the rotation and the division of time.                       *)

\* The rotation: from any start, N steps visit every worker.
LEMMA RotationCovers ==
  ASSUME NEW start \in Workers, NEW w \in Workers
  PROVE  \E j \in Workers : (start + j) % N = w
<1>1. N \in Nat /\ N > 0 /\ start \in 0..(N - 1) /\ w \in 0..(N - 1)
  BY PoolAssumption DEF Workers
<1>2. \A x \in 0..(N - 1) : x % N = x /\ (x + N) % N = x
  BY <1>1
<1>3. CASE w >= start
  <2>1. (w - start) \in Workers /\ start + (w - start) = w
    BY <1>1, <1>3 DEF Workers
  <2> QED BY <1>1, <1>2, <2>1
<1>4. CASE w < start
  <2>1. (w - start + N) \in Workers /\ start + (w - start + N) = w + N
    BY <1>1, <1>4 DEF Workers
  <2> QED BY <1>1, <1>2, <2>1
<1> QED BY <1>1, <1>3, <1>4

\* p.next and the worker of an attempt are workers.
LEMMA RotationType ==
  ASSUME NEW a \in Workers, NEW b \in Nat
  PROVE  (a + b) % N \in Workers
BY PoolAssumption DEF Workers

\* One share of the time left never takes what the others need, one unit each.
LEMMA ShareLeaves ==
  ASSUME NEW left \in Nat, NEW remaining \in Nat \ {0}, left >= remaining
  PROVE  /\ left \div remaining > 0
         /\ left >= left \div remaining + (remaining - 1)
<1> DEFINE q == left \div remaining
           r == left % remaining
<1>1. q \in Nat /\ r \in 0..(remaining - 1) /\ left = remaining * q + r
  OBVIOUS
<1> HIDE DEF q, r
<1>2. q > 0
  BY <1>1
<1>3. PICK p \in Nat : q = p + 1
  <2>1. q - 1 \in Nat /\ q = (q - 1) + 1
    BY <1>1, <1>2
  <2> QED BY <2>1
<1>4. PICK m \in Nat : remaining = m + 1
  <2>1. remaining - 1 \in Nat /\ remaining = (remaining - 1) + 1
    OBVIOUS
  <2> QED BY <2>1
<1>5. remaining * q = m * p + m + q
  BY <1>1, <1>3, <1>4
<1>6. m * p \in Nat
  OBVIOUS
<1>7. left >= q + (remaining - 1)
  BY <1>1, <1>4, <1>5, <1>6
<1> QED BY <1>2, <1>7 DEF q

\* attemptContext: an attempt gets time whenever there is any, never more than there is,
\* and leaves a unit to each attempt after it when there is one for each.
LEMMA BudgetShare ==
  ASSUME NEW left \in Nat, NEW remaining \in Nat \ {0}
  PROVE  /\ Budget(left, remaining) \in Nat
         /\ left > 0 => Budget(left, remaining) > 0
         /\ left >= remaining => left >= Budget(left, remaining) + (remaining - 1)
<1>1. left \div remaining \in Nat
  OBVIOUS
<1>2. left >= remaining => /\ left \div remaining > 0
                           /\ left >= left \div remaining + (remaining - 1)
  BY ShareLeaves, Zenon
<1> DEFINE q == left \div remaining
<1>3. Budget(left, remaining) = IF q = 0 THEN left ELSE q
  BY DEF Budget
<1> HIDE DEF q
<1> QED BY <1>1, <1>2, <1>3 DEF q
\* The time of the attempt that a call is about to make.
LEMMA AttemptDueBounds ==
  ASSUME TypeOK, NEW c \in Callers
  PROVE  /\ AttemptDue(c) \in Nat
         /\ call[c].left # 0 => AttemptDue(c) > 0
         /\ call[c].left # NoDeadline /\ call[c].left >= N - call[c].offset
              => call[c].left >= AttemptDue(c) + (N - call[c].offset - 1)
<1>1. call[c].left \in Times /\ call[c].offset \in Workers
  BY DEF TypeOK
<1>2. N - call[c].offset \in Nat \ {0} /\ AttemptTime \in Nat \ {0} /\ NoDeadline \notin Int
  BY <1>1, PoolAssumption DEF Workers
<1>3. CASE call[c].left = NoDeadline
  BY <1>2, <1>3 DEF AttemptDue
<1>4. CASE call[c].left # NoDeadline
  <2>1. call[c].left \in Nat
    BY <1>1, <1>4 DEF Times
  <2>2. AttemptDue(c) = Budget(call[c].left, N - call[c].offset)
    BY <1>4 DEF AttemptDue
  <2> QED BY <1>2, <2>1, <2>2, BudgetShare
<1> QED BY <1>3, <1>4

-----------------------------------------------------------------------------
(* What a step does to the caller that takes it, and to the others.         *)

\* A step that gives one caller a new record.
LEMMA OneCallMoves ==
  ASSUME TypeOK, NEW c \in Callers, NEW r \in CallType, call' = [call EXCEPT ![c] = r]
  PROVE  /\ call' \in [Callers -> CallType]
         /\ call'[c] = r
         /\ \A d \in Callers : d # c => call'[d] = call[d]
BY DEF TypeOK, CallType

\* A call that takes no step keeps its invariant when others add to what is tainted or blamed.
LEMMA Bystander ==
  ASSUME NEW d \in Callers, CallInv(d), call'[d] = call[d],
         tainted[d] \subseteq tainted'[d], tainted'[d] \subseteq Workers, blamed \subseteq blamed',
         d \in Busy => \A w \in Workers : mode'[w] # "up" \/ w \in DOMAIN unhealthy' => w \in tainted'[d]
  PROVE  CallInv(d)'
<1>1. (d \in Busy') <=> (d \in Busy)
  BY DEF Busy
<1>2. Worker(d)' = Worker(d) /\ Timely(d)' = Timely(d)
  BY DEF Worker, Timely
<1>3. Known(d)'
  BY <1>1 DEF Known
<1>4. Deserved(d)'
  BY <1>2 DEF CallInv, Deserved
<1>5. Failover(d)'
  <2>1. TimeAhead(d)' = TimeAhead(d)
    BY DEF TimeAhead
  <2>2. TriedTainted(d) => TriedTainted(d)'
    BY DEF TriedTainted
  <2> QED BY <1>1, <1>2, <2>1, <2>2 DEF CallInv, Failover
<1>6. Outcome(d)'
  BY <1>1, <1>2, Zenon DEF CallInv, Outcome
<1> QED BY <1>3, <1>4, <1>5, <1>6 DEF CallInv

\* The call goes on with the next worker, or fails.  A timely call may do so when the
\* worker it gives up on is tainted and there is a unit of time for each of the rest.
LEMMA NextAttemptMove ==
  ASSUME TypeOK, NEW c \in Callers, c \in Busy, CallInv(c), NextAttempt(c),
         tainted[c] \subseteq tainted'[c], tainted'[c] \subseteq Workers,
         \A w \in Workers : mode'[w] # "up" \/ w \in DOMAIN unhealthy' => w \in tainted'[c],
         Timely(c) => /\ TriedTainted(c) /\ Worker(c) \in tainted'[c]
                      /\ call[c].left # NoDeadline => call[c].left >= N - call[c].offset - 1
  PROVE  /\ call' \in [Callers -> CallType]
         /\ \A d \in Callers : d # c => call'[d] = call[d]
         /\ CallInv(c)'
<1>1. call[c] \in CallType /\ N \in Nat \ {0}
  BY PoolAssumption DEF TypeOK, CallType
<1>2. CASE HasNext(call[c].offset)
  <2> DEFINE r == [call[c] EXCEPT !.at = "attempt", !.offset = call[c].offset + 1, !.due = 0]
  <2>1. call[c].offset \in Nat /\ call[c].offset + 1 \in Workers
    BY <1>1, <1>2 DEF CallType, Workers, HasNext
  <2>2. r \in CallType
    BY <1>1, <2>1, Zenon DEF CallType
  <2>3. call' = [call EXCEPT ![c] = r]
    BY <1>2 DEF NextAttempt
  <2>4. /\ call' \in [Callers -> CallType] /\ call'[c] = r
        /\ \A d \in Callers : d # c => call'[d] = call[d]
    BY <2>2, <2>3, OneCallMoves, Zenon
  <2>5. /\ call'[c].at = "attempt" /\ call'[c].offset = call[c].offset + 1
        /\ call'[c].start = call[c].start /\ call'[c].op = call[c].op
        /\ call'[c].given = call[c].given /\ call'[c].left = call[c].left
        /\ call'[c].cancelled = call[c].cancelled /\ call'[c].outcome = call[c].outcome
    BY <1>1, <2>4 DEF CallType
  <2> HIDE DEF r
  <2>6. Known(c)' /\ Deserved(c)'
    BY <2>5 DEF Known, Deserved
  <2>7. Timely(c)' = Timely(c)
    BY <2>5 DEF Timely
  <2>8. ASSUME Timely(c) PROVE TimeAhead(c)' /\ TriedTainted(c)'
    <3>1. TimeAhead(c)'
      <4>1. call[c].left # NoDeadline => call[c].left >= N - (call[c].offset + 1)
        BY <1>1, <2>1, <2>8 DEF CallType, Times
      <4> QED BY <2>5, <4>1 DEF TimeAhead
    <3>2. ASSUME NEW j \in Workers, j < call[c].offset + 1
          PROVE  (call[c].start + j) % N \in tainted'[c]
      <4>1. j < call[c].offset \/ j = call[c].offset
        BY <2>1, <3>2 DEF Workers
      <4> QED BY <2>8, <4>1 DEF TriedTainted, Worker
    <3> QED BY <2>5, <3>1, <3>2 DEF TriedTainted
  <2>9. Failover(c)'
    BY <2>5, <2>7, <2>8 DEF Failover
  <2>10. Outcome(c)'
    BY <2>5 DEF CallInv, Outcome
  <2> QED BY <2>4, <2>6, <2>9, <2>10 DEF CallInv
<1>3. CASE ~HasNext(call[c].offset)
  <2> DEFINE r == [NoCall EXCEPT !.op = call[c].op, !.given = call[c].given,
                                 !.cancelled = call[c].cancelled, !.outcome = "failed"]
  <2>1. call[c].offset = N - 1
    BY <1>1, <1>3 DEF CallType, Workers, HasNext
  <2>2. r \in CallType
    <3>1. 0 \in Workers /\ 0 \in Times
      BY <1>1 DEF Workers, Times
    <3> QED BY <1>1, <3>1, Zenon DEF CallType, NoCall
  <2>3. call' = [call EXCEPT ![c] = r]
    BY <1>3 DEF NextAttempt
  <2>4. /\ call' \in [Callers -> CallType] /\ call'[c] = r
        /\ \A d \in Callers : d # c => call'[d] = call[d]
    BY <2>2, <2>3, OneCallMoves, Zenon
  <2>5. /\ call'[c].at = "idle" /\ call'[c].op = call[c].op
        /\ call'[c].given = call[c].given /\ call'[c].cancelled = call[c].cancelled
    BY <1>1, <2>4 DEF CallType, NoCall
  <2> HIDE DEF r
  <2>6. c \notin Busy'
    BY <2>5 DEF Busy
  <2>7. Timely(c)' = Timely(c)
    BY <2>5 DEF Timely
  <2>8. ASSUME Timely(c) PROVE tainted'[c] = Workers
    <3>1. ASSUME NEW w \in Workers PROVE w \in tainted'[c]
      <4>1. call[c].start \in Workers /\ call[c].offset \in Workers
        BY <1>1 DEF CallType
      <4>2. PICK j \in Workers : (call[c].start + j) % N = w
        BY <4>1, RotationCovers, Zenon
      <4>3. j < call[c].offset \/ j = call[c].offset
        BY <1>1, <2>1 DEF Workers
      <4> QED BY <2>8, <4>2, <4>3 DEF TriedTainted, Worker
    <3> QED BY <3>1, Zenon
  <2> QED BY <2>4, <2>5, <2>6, <2>7, <2>8 DEF CallInv, Known, Deserved, Failover, Outcome
<1> QED BY <1>2, <1>3
\* The call asks a worker: to infer, to answer a probe, or for its health.
LEMMA AskMove ==
  ASSUME TypeOK, NEW c \in Callers, CallInv(c), At(c, "attempt"),
         NEW place \in {"infer", "probe", "health"},
         call' = [call EXCEPT ![c].at = place, ![c].due = AttemptDue(c)],
         UNCHANGED <<unhealthy, mode, tainted, blamed>>,
         place = "probe" => Worker(c) \in DOMAIN unhealthy,
         place = "health" => call[c].op = "healthy"
  PROVE  /\ call' \in [Callers -> CallType]
         /\ \A d \in Callers : d # c => call'[d] = call[d]
         /\ CallInv(c)'
<1> DEFINE r == [call[c] EXCEPT !.at = place, !.due = AttemptDue(c)]
<1>1. call[c] \in CallType /\ N \in Nat \ {0}
  BY PoolAssumption DEF TypeOK, CallType
<1>2. /\ AttemptDue(c) \in Nat
      /\ call[c].left # 0 => AttemptDue(c) > 0
      /\ call[c].left # NoDeadline /\ call[c].left >= N - call[c].offset
           => call[c].left >= AttemptDue(c) + (N - call[c].offset - 1)
  BY AttemptDueBounds
<1>3. r \in CallType
  BY <1>1, <1>2, Zenon DEF CallType
<1>4. call' = [call EXCEPT ![c] = r]
  BY Zenon DEF TypeOK
<1>5. /\ call' \in [Callers -> CallType] /\ call'[c] = r
      /\ \A d \in Callers : d # c => call'[d] = call[d]
  BY <1>3, <1>4, OneCallMoves, Zenon
<1>6. /\ call'[c].at = place /\ call'[c].due = AttemptDue(c)
      /\ call'[c].offset = call[c].offset /\ call'[c].start = call[c].start
      /\ call'[c].op = call[c].op /\ call'[c].given = call[c].given
      /\ call'[c].left = call[c].left /\ call'[c].cancelled = call[c].cancelled
      /\ call'[c].outcome = call[c].outcome
  BY <1>1, <1>5 DEF CallType
<1> HIDE DEF r
<1>7. c \in Busy /\ c \in Busy' /\ Timely(c)' = Timely(c) /\ Worker(c)' = Worker(c)
  BY <1>6 DEF Busy, At, Timely, Worker
<1>8. Known(c)' /\ Outcome(c)'
  BY <1>6, <1>7 DEF CallInv, Known, Outcome
<1>9. Deserved(c)'
  BY <1>2, <1>6 DEF Deserved
<1>10. ASSUME Timely(c)
       PROVE  /\ place # "health" /\ TimeAhead(c)' /\ TriedTainted(c)' /\ AttemptDue(c) > 0
              /\ place = "probe" => Worker(c) \in tainted[c]
  <2>1. TimeAhead(c) /\ TriedTainted(c)
    BY <1>7, <1>10 DEF CallInv, Failover
  <2>2. call[c].left # NoDeadline => call[c].left >= N - call[c].offset
    BY <2>1 DEF TimeAhead, At
  <2>3. call[c].left # 0
    BY <1>1, <2>2, PoolAssumption DEF CallType, Times, Workers
  <2>4. TimeAhead(c)'
    BY <1>2, <1>6, <2>2 DEF TimeAhead
  <2>5. TriedTainted(c)'
    BY <1>6, <2>1 DEF TriedTainted
  <2>6. Worker(c) \in Workers
    BY <1>1, RotationType DEF CallType, Worker, Workers
  <2>7. place = "probe" => Worker(c) \in tainted[c]
    BY <1>7, <2>6 DEF CallInv, Known
  <2> QED BY <1>2, <1>10, <2>3, <2>4, <2>5, <2>7 DEF Timely
<1>11. Failover(c)'
  BY <1>6, <1>7, <1>10 DEF Failover
<1> QED BY <1>5, <1>8, <1>9, <1>11 DEF CallInv

\* The attempt goes on in another place with the same time: the answer to a probe is
\* noted, then the worker is asked to infer; a failure is noted.
LEMMA GotoMove ==
  ASSUME TypeOK, NEW c \in Callers, CallInv(c), NEW place \in {"infer", "clear", "mark"},
         call[c].at \in {"infer", "probe", "health", "clear"}, Goto(c, place),
         UNCHANGED <<mode, tainted>>, DOMAIN unhealthy' \subseteq DOMAIN unhealthy,
         blamed \subseteq blamed',
         place = "clear" => call[c].at \in {"probe", "health"},
         place = "infer" => call[c].at = "clear",
         place = "mark" => Worker(c) \in blamed'
  PROVE  /\ call' \in [Callers -> CallType]
         /\ \A d \in Callers : d # c => call'[d] = call[d]
         /\ CallInv(c)'
<1> DEFINE r == [call[c] EXCEPT !.at = place]
<1>1. call[c] \in CallType
  BY DEF TypeOK, CallType
<1>2. r \in CallType
  BY <1>1 DEF CallType
<1>3. call' = [call EXCEPT ![c] = r]
  BY DEF TypeOK, Goto
<1>4. /\ call' \in [Callers -> CallType] /\ call'[c] = r
      /\ \A d \in Callers : d # c => call'[d] = call[d]
  BY <1>2, <1>3, OneCallMoves, Zenon
<1>5. /\ call'[c].at = place /\ call'[c].due = call[c].due
      /\ call'[c].offset = call[c].offset /\ call'[c].start = call[c].start
      /\ call'[c].op = call[c].op /\ call'[c].given = call[c].given
      /\ call'[c].left = call[c].left /\ call'[c].cancelled = call[c].cancelled
      /\ call'[c].outcome = call[c].outcome
  BY <1>1, <1>4 DEF CallType
<1> HIDE DEF r
<1>6. c \in Busy /\ c \in Busy' /\ Timely(c)' = Timely(c) /\ Worker(c)' = Worker(c)
  BY <1>5 DEF Busy, Timely, Worker
<1>7. Known(c)' /\ Outcome(c)'
  BY <1>5, <1>6 DEF CallInv, Known, Outcome
<1>8. Deserved(c)'
  BY <1>5, <1>6 DEF CallInv, Deserved
<1>9. ASSUME Timely(c)
      PROVE  /\ TimeAhead(c)' /\ TriedTainted(c)'
             /\ place \in {"clear", "infer"} => Worker(c) \in tainted[c]
  <2>1. /\ call[c].at # "health" /\ TimeAhead(c) /\ TriedTainted(c)
        /\ call[c].at \in {"probe", "clear"} => Worker(c) \in tainted[c]
    BY <1>6, <1>9 DEF CallInv, Failover
  <2>2. TimeAhead(c)'
    BY <1>5, <2>1 DEF TimeAhead
  <2>3. TriedTainted(c)'
    BY <1>5, <2>1 DEF TriedTainted
  <2> QED BY <2>1, <2>2, <2>3
<1>10. Failover(c)'
  BY <1>5, <1>6, <1>9 DEF Failover
<1> QED BY <1>4, <1>7, <1>8, <1>10 DEF CallInv

\* The call returns a result.
LEMMA SucceedMove ==
  ASSUME TypeOK, NEW c \in Callers, Succeed(c)
  PROVE  /\ call' \in [Callers -> CallType]
         /\ \A d \in Callers : d # c => call'[d] = call[d]
         /\ CallInv(c)'
<1> DEFINE r == [NoCall EXCEPT !.outcome = "ok"]
<1>1. r \in CallType
  <2>1. 0 \in Workers /\ 0 \in Times
    BY PoolAssumption DEF Workers, Times
  <2> QED BY <2>1, Zenon DEF CallType, NoCall
<1>2. call' = [call EXCEPT ![c] = r]
  BY DEF Succeed
<1>3. /\ call' \in [Callers -> CallType] /\ call'[c] = r
      /\ \A d \in Callers : d # c => call'[d] = call[d]
  BY <1>1, <1>2, OneCallMoves, Zenon
<1>4. call'[c].at = "idle" /\ call'[c].outcome = "ok"
  BY <1>3 DEF NoCall
<1> QED BY <1>3, <1>4, Zenon DEF CallInv, Known, Deserved, Failover, Outcome, Busy
-----------------------------------------------------------------------------
(* The steps of a call keep the invariant.                                  *)

\* A call begins.
LEMMA BeginStep ==
  ASSUME PoolInv, NEW c \in Callers, NEW op \in Ops, NEW left \in Deadlines, Begin(c, op, left)
  PROVE  PoolInv'
<1> DEFINE first == IF op = "infer" THEN next ELSE 0
           r == [NoCall EXCEPT !.op = op, !.at = "attempt", !.given = left, !.left = left,
                               !.start = first]
           bad == {w \in Workers : mode[w] # "up"} \cup DOMAIN unhealthy
<1>1. TypeOK /\ BlamedInv
  BY DEF PoolInv
<1>2. 0 \in Workers /\ first \in Workers /\ left \in Times /\ N \in Nat \ {0}
  BY <1>1, PoolAssumption DEF TypeOK, Workers, Times
<1>3. r \in CallType
  <2> HIDE DEF first
  <2> QED BY <1>2, Zenon DEF CallType, NoCall
<1>4. /\ call' \in [Callers -> CallType] /\ call'[c] = r
      /\ \A d \in Callers : d # c => call'[d] = call[d]
  <2>1. call' = [call EXCEPT ![c] = r]
    BY DEF Begin
  <2> QED BY <1>1, <1>3, <2>1, OneCallMoves, Zenon
<1>5. /\ call'[c].at = "attempt" /\ call'[c].offset = 0 /\ call'[c].given = left
      /\ call'[c].left = left /\ call'[c].outcome = "none"
  BY <1>4 DEF NoCall
<1>6. UNCHANGED <<unhealthy, mode, blamed>> /\ bad \subseteq Workers
  BY <1>1 DEF Begin, TypeOK
<1>7. /\ tainted' \in [Callers -> SUBSET Workers] /\ tainted'[c] = bad
      /\ \A d \in Callers : d # c => tainted'[d] = tainted[d]
  BY <1>1, <1>6 DEF Begin, TypeOK
<1>8. next' \in Workers
  <2>1. (next + 1) % N \in Workers
    BY <1>1, RotationType DEF TypeOK
  <2> QED BY <1>1, <2>1 DEF Begin, TypeOK
<1>9. TypeOK'
  BY <1>1, <1>4, <1>6, <1>7, <1>8 DEF TypeOK, CallType
<1>10. CallInv(c)'
  <2>1. Known(c)'
    BY <1>6, <1>7 DEF Known
  <2>2. Deserved(c)'
    BY <1>5 DEF Deserved
  <2>3. Outcome(c)'
    BY <1>5 DEF Outcome
  <2>4. TriedTainted(c)'
    BY <1>2, <1>5 DEF TriedTainted, Workers
  <2>5. Timely(c)' => TimeAhead(c)'
    BY <1>2, <1>5 DEF Timely, TimeAhead, Times
  <2> QED BY <1>5, <2>1, <2>2, <2>3, <2>4, <2>5, Zenon DEF CallInv, Failover
<1>11. \A d \in Callers : d # c => CallInv(d)'
  <2> SUFFICES ASSUME NEW d \in Callers, d # c PROVE CallInv(d)'
    OBVIOUS
  <2>1. CallInv(d) /\ call'[d] = call[d] /\ tainted'[d] = tainted[d] /\ tainted[d] \subseteq Workers
    BY <1>1, <1>4, <1>7 DEF PoolInv, TypeOK
  <2> QED BY <1>6, <2>1, Bystander DEF CallInv, Known
<1> QED BY <1>1, <1>6, <1>9, <1>10, <1>11, Zenon DEF PoolInv, BlamedInv

\* A step of one caller that leaves the marks or removes some, and taints no one.
LEMMA CallerStep ==
  ASSUME PoolInv, NEW c \in Callers,
         call' \in [Callers -> CallType],
         \A d \in Callers : d # c => call'[d] = call[d],
         CallInv(c)',
         UNCHANGED <<next, mode, tainted>>,
         DOMAIN unhealthy' \subseteq DOMAIN unhealthy,
         \A w \in DOMAIN unhealthy' : unhealthy'[w] = unhealthy[w],
         blamed \subseteq blamed', blamed' \subseteq Workers
  PROVE  PoolInv'
<1>1. TypeOK'
  BY DEF PoolInv, TypeOK, CallType
<1>2. BlamedInv'
  BY DEF PoolInv, BlamedInv
<1>3. \A d \in Callers : d # c => CallInv(d)'
  <2> SUFFICES ASSUME NEW d \in Callers, d # c PROVE CallInv(d)'
    OBVIOUS
  <2>1. CallInv(d) /\ call'[d] = call[d] /\ tainted[d] \subseteq Workers
    BY DEF PoolInv, TypeOK
  <2> QED BY <2>1, Bystander DEF CallInv, Known
<1> QED BY <1>1, <1>2, <1>3 DEF PoolInv

\* The reading of unhealthy at the head of an attempt.
LEMMA AttemptStep ==
  ASSUME PoolInv, NEW c \in Callers, Attempt(c)
  PROVE  PoolInv'
<1>1. TypeOK /\ CallInv(c) /\ At(c, "attempt") /\ c \in Busy
  BY DEF PoolInv, Attempt, At, Busy
<1>2. UNCHANGED <<next, unhealthy, mode, tainted, blamed>>
  BY DEF Attempt, poolVars, historyVars
<1>3. blamed \subseteq Workers /\ tainted[c] \subseteq Workers /\ Worker(c) \in Workers
  <2>1. call[c].start \in Workers /\ call[c].offset \in Nat
    BY <1>1 DEF TypeOK, Workers
  <2> QED BY <1>1, <2>1, RotationType DEF TypeOK, Worker
<1>4. ASSUME /\ call' \in [Callers -> CallType]
             /\ \A d \in Callers : d # c => call'[d] = call[d]
             /\ CallInv(c)'
      PROVE  PoolInv'
  BY <1>2, <1>3, <1>4, CallerStep
<1>5. CASE /\ Worker(c) \in DOMAIN unhealthy
           /\ NextAttempt(c)
  <2>1. \A w \in Workers : mode'[w] # "up" \/ w \in DOMAIN unhealthy' => w \in tainted'[c]
    BY <1>1, <1>2 DEF CallInv, Known
  <2>2. Worker(c) \in tainted'[c]
    BY <1>2, <1>3, <1>5, <2>1
  <2>3. Timely(c) => TriedTainted(c) /\ TimeAhead(c)
    BY <1>1 DEF CallInv, Failover
  <2>4. TimeAhead(c) => (call[c].left # NoDeadline => call[c].left >= N - call[c].offset - 1)
    <3>1. N - call[c].offset \in Nat /\ call[c].left \in Times
      BY <1>1, PoolAssumption DEF TypeOK, Workers
    <3> QED BY <1>1, <3>1 DEF TimeAhead, At, Times
  <2>5. /\ call' \in [Callers -> CallType]
        /\ \A d \in Callers : d # c => call'[d] = call[d]
        /\ CallInv(c)'
    BY <1>1, <1>2, <1>3, <1>5, <2>1, <2>2, <2>3, <2>4, NextAttemptMove, Zenon
  <2> QED BY <1>4, <2>5
<1>6. ASSUME NEW place \in {"infer", "probe", "health"},
             call' = [call EXCEPT ![c].at = place, ![c].due = AttemptDue(c)],
             place = "probe" => Worker(c) \in DOMAIN unhealthy,
             place = "health" => call[c].op = "healthy"
      PROVE  PoolInv'
  BY <1>1, <1>2, <1>4, <1>6, AskMove, Zenon
<1> QED BY <1>5, <1>6 DEF Attempt
\* The worker answers.
LEMMA AnsweredStep ==
  ASSUME PoolInv, NEW c \in Callers, Answered(c)
  PROVE  PoolInv'
<1>1. TypeOK /\ CallInv(c) /\ blamed \subseteq Workers
  BY DEF PoolInv, TypeOK
<1>2. UNCHANGED <<next, unhealthy, mode, tainted, blamed>>
  BY DEF Answered, poolVars, historyVars
<1>3. /\ call' \in [Callers -> CallType]
      /\ \A d \in Callers : d # c => call'[d] = call[d]
      /\ CallInv(c)'
  <2>1. CASE Succeed(c)
    BY <1>1, <2>1, SucceedMove
  <2>2. CASE call[c].at \in {"probe", "health"} /\ Goto(c, "clear")
    BY <1>1, <1>2, <2>2, GotoMove
  <2> QED BY <2>1, <2>2 DEF Answered, At
<1> QED BY <1>1, <1>2, <1>3, CallerStep

\* The worker does not answer: the failure is noted against it, or the call goes on.
LEMMA UnansweredStep ==
  ASSUME PoolInv, NEW c \in Callers, Unanswered(c)
  PROVE  PoolInv'
<1>1. TypeOK /\ CallInv(c) /\ BlamedInv /\ call[c] \in CallType
  BY DEF PoolInv, TypeOK, CallType
<1>2. /\ call[c].at \in {"infer", "probe", "health"}
      /\ mode[Worker(c)] = "down" \/ AttemptDone(c)
      /\ UNCHANGED <<next, unhealthy, mode, tainted>>
      /\ blamed' = IF At(c, "infer") THEN blamed ELSE blamed \cup {Worker(c)}
  BY DEF Unanswered, poolVars
<1>3. Worker(c) \in Workers /\ blamed \subseteq Workers /\ tainted[c] \subseteq Workers
  <2>1. call[c].start \in Workers /\ call[c].offset \in Nat
    BY <1>1 DEF CallType, Workers
  <2> QED BY <1>1, <2>1, RotationType DEF TypeOK, Worker
<1>4. blamed \subseteq blamed' /\ blamed' \subseteq Workers
  BY <1>2, <1>3
<1>5. ASSUME Blame(c) PROVE Worker(c) \in blamed'
  <2>1. CASE ~At(c, "infer")
    BY <1>2, <2>1
  <2>2. CASE At(c, "infer")
    <3>1. ~CtxDone(c)
      BY <1>5, <2>2 DEF Blame
    <3>2. mode[Worker(c)] = "down" => Worker(c) \in blamed
      BY <1>1, <1>3 DEF BlamedInv
    <3>3. AttemptDone(c) => call[c].due = 0 /\ call[c].left # 0
      BY <3>1 DEF AttemptDone, CtxDone
    <3>4. call[c].due > 0 \/ call[c].left = 0 \/ Worker(c) \in blamed
      BY <1>1, <2>2 DEF CallInv, Deserved, At
    <3>5. ~(0 > 0)
      OBVIOUS
    <3> QED BY <1>2, <1>4, <3>2, <3>3, <3>4, <3>5
  <2> QED BY <2>1, <2>2
<1>6. /\ call' \in [Callers -> CallType]
      /\ \A d \in Callers : d # c => call'[d] = call[d]
      /\ CallInv(c)'
  <2>1. CASE Blame(c)
    <3>1. Goto(c, "mark")
      BY <2>1 DEF Unanswered
    <3> QED BY <1>1, <1>2, <1>4, <1>5, <2>1, <3>1, GotoMove, Zenon
  <2>2. CASE ~Blame(c)
    <3>1. NextAttempt(c) /\ call[c].at = "infer" /\ CtxDone(c) /\ c \in Busy
      BY <2>2, Zenon DEF Unanswered, Blame, At, Busy
    <3>2. \A w \in Workers : mode'[w] # "up" \/ w \in DOMAIN unhealthy' => w \in tainted'[c]
      BY <1>1, <1>2, <3>1 DEF CallInv, Known
    <3>3. ASSUME Timely(c)
          PROVE  /\ TriedTainted(c) /\ Worker(c) \in tainted'[c]
                 /\ call[c].left # NoDeadline => call[c].left >= N - call[c].offset - 1
      <4>1. /\ TimeAhead(c) /\ TriedTainted(c)
            /\ Worker(c) \notin tainted[c] => call[c].due > 0
        BY <1>1, <3>1, <3>3, Zenon DEF CallInv, Failover
      <4>2. call[c].left # NoDeadline => call[c].left >= call[c].due + (N - call[c].offset - 1)
        BY <3>1, <4>1 DEF TimeAhead
      <4>3. call[c].left = 0
        BY <3>1, <3>3 DEF CtxDone, Timely
      <4>4. call[c].due \in Nat /\ N - call[c].offset - 1 \in Nat /\ 0 # NoDeadline
        BY <1>1, PoolAssumption DEF CallType, Workers
      <4>5. ~(call[c].due > 0) /\ call[c].left >= N - call[c].offset - 1
        BY <4>2, <4>3, <4>4
      <4> QED BY <1>2, <4>1, <4>5
    <3> QED BY <1>1, <1>2, <1>3, <3>1, <3>2, <3>3, NextAttemptMove, Zenon
  <2> QED BY <2>1, <2>2
<1> QED BY <1>2, <1>4, <1>6, CallerStep

\* A worker that answered a probe or a Health call is taken out of unhealthy.
LEMMA ClearStep ==
  ASSUME PoolInv, NEW c \in Callers, Clear(c)
  PROVE  PoolInv'
<1>1. TypeOK /\ CallInv(c) /\ blamed \subseteq Workers
  BY DEF PoolInv, TypeOK
<1>2. /\ DOMAIN unhealthy' \subseteq DOMAIN unhealthy
      /\ \A w \in DOMAIN unhealthy' : unhealthy'[w] = unhealthy[w]
  BY DEF Clear, Restrict
<1>3. UNCHANGED <<next, mode, tainted, blamed>> /\ call[c].at = "clear"
  BY DEF Clear, historyVars, At
<1>4. /\ call' \in [Callers -> CallType]
      /\ \A d \in Callers : d # c => call'[d] = call[d]
      /\ CallInv(c)'
  <2>1. CASE Succeed(c)
    BY <1>1, <2>1, SucceedMove
  <2>2. CASE Goto(c, "infer")
    BY <1>1, <1>2, <1>3, <2>2, GotoMove, Zenon
  <2> QED BY <2>1, <2>2 DEF Clear
<1> QED BY <1>1, <1>2, <1>3, <1>4, CallerStep

\* markDown: the mark taints the worker for every call in progress.
LEMMA MarkDownStep ==
  ASSUME PoolInv, NEW c \in Callers, MarkDown(c)
  PROVE  PoolInv'
<1> DEFINE w == Worker(c)
<1>1. TypeOK /\ CallInv(c) /\ BlamedInv /\ call[c] \in CallType
  BY DEF PoolInv, TypeOK, CallType
<1>2. /\ call[c].at = "mark" /\ c \in Busy /\ NextAttempt(c)
      /\ UNCHANGED <<next, mode, blamed>>
  BY Zenon DEF MarkDown, At, Busy
<1>3. w \in Workers /\ w \in blamed
  <2>1. call[c].start \in Workers /\ call[c].offset \in Nat
    BY <1>1 DEF CallType, Workers
  <2>2. w \in blamed
    BY <1>1, <1>2 DEF CallInv, Deserved
  <2> QED BY <2>1, <2>2, RotationType DEF Worker
<1>4. /\ DOMAIN unhealthy' = DOMAIN unhealthy \cup {w}
      /\ \A v \in DOMAIN unhealthy' : unhealthy'[v] = IF v = w THEN ProbeEvery ELSE unhealthy[v]
  BY DEF MarkDown
<1>5. \A d \in Callers : tainted'[d] = IF d \in Busy THEN tainted[d] \cup {w} ELSE tainted[d]
  BY DEF MarkDown
<1>6. tainted' \in [Callers -> SUBSET Workers]
  <2>1. \A d \in Callers : tainted'[d] \in SUBSET Workers
    <3>1. \A d \in Callers : tainted[d] \in SUBSET Workers
      BY <1>1 DEF TypeOK
    <3> HIDE DEF w
    <3> QED BY <1>3, <1>5, <3>1, Zenon
  <2>2. tainted' = [d \in Callers |-> tainted'[d]]
    BY DEF MarkDown
  <2> QED BY <2>1, <2>2
<1> HIDE DEF w
<1>7. ASSUME NEW d \in Callers
      PROVE  /\ tainted[d] \subseteq tainted'[d] /\ tainted'[d] \subseteq Workers
             /\ d \in Busy => \A v \in Workers :
                  mode'[v] # "up" \/ v \in DOMAIN unhealthy' => v \in tainted'[d]
  <2>1. Known(d)
    BY DEF PoolInv, CallInv
  <2> QED BY <1>2, <1>4, <1>5, <1>6, <2>1 DEF Known
<1>8. /\ call' \in [Callers -> CallType]
      /\ \A d \in Callers : d # c => call'[d] = call[d]
      /\ CallInv(c)'
  <2>1. w \in tainted'[c]
    BY <1>2, <1>5, Zenon
  <2>2. Timely(c) => TriedTainted(c) /\ TimeAhead(c)
    BY <1>1, <1>2, Zenon DEF CallInv, Failover
  <2>3. TimeAhead(c) => (call[c].left # NoDeadline => call[c].left >= N - call[c].offset - 1)
    <3>1. N - call[c].offset - 1 \in Nat /\ call[c].left \in Times /\ call[c].due \in Nat
      BY <1>1, PoolAssumption DEF CallType, Workers
    <3> QED BY <1>2, <3>1 DEF TimeAhead, Times
  <2> QED BY <1>1, <1>2, <1>7, <2>1, <2>2, <2>3, NextAttemptMove, Zenon DEF w
<1>9. TypeOK'
  <2>1. \A v \in DOMAIN unhealthy' : unhealthy'[v] \in 0..ProbeEvery
    <3>1. ProbeEvery \in 0..ProbeEvery
      BY PoolAssumption
    <3> QED BY <1>1, <1>4, <3>1, Zenon DEF TypeOK
  <2>2. DOMAIN unhealthy' \subseteq Workers
    BY <1>1, <1>3, <1>4, Zenon DEF TypeOK
  <2> QED BY <1>1, <1>2, <1>6, <1>8, <2>1, <2>2, Zenon DEF TypeOK, CallType
<1>10. BlamedInv'
  BY <1>1, <1>2, <1>3, <1>4 DEF BlamedInv
<1>11. \A d \in Callers : d # c => CallInv(d)'
  BY <1>2, <1>7, <1>8, Bystander, Zenon DEF PoolInv
<1> QED BY <1>8, <1>9, <1>10, <1>11 DEF PoolInv
-----------------------------------------------------------------------------
(* The environment's steps.                                                 *)

\* A caller's context is cancelled.
LEMMA CancelStep ==
  ASSUME PoolInv, NEW c \in Callers, Cancel(c)
  PROVE  PoolInv'
<1> DEFINE r == [call[c] EXCEPT !.cancelled = TRUE]
<1>1. TypeOK /\ CallInv(c) /\ call[c] \in CallType /\ blamed \subseteq Workers
  BY DEF PoolInv, TypeOK, CallType
<1>2. UNCHANGED <<next, unhealthy, mode, tainted, blamed>> /\ c \in Busy
  BY DEF Cancel, poolVars, historyVars
<1>3. r \in CallType /\ call' = [call EXCEPT ![c] = r]
  BY <1>1, Zenon DEF Cancel, CallType
<1>4. /\ call' \in [Callers -> CallType] /\ call'[c] = r
      /\ \A d \in Callers : d # c => call'[d] = call[d]
  BY <1>1, <1>3, OneCallMoves, Zenon
<1>5. /\ call'[c].at = call[c].at /\ call'[c].due = call[c].due
      /\ call'[c].offset = call[c].offset /\ call'[c].start = call[c].start
      /\ call'[c].left = call[c].left /\ call'[c].cancelled = TRUE
      /\ call'[c].outcome = call[c].outcome
  BY <1>1, <1>4 DEF CallType
<1> HIDE DEF r
<1>6. c \in Busy' /\ ~Timely(c)' /\ Worker(c)' = Worker(c)
  BY <1>2, <1>5 DEF Busy, Timely, Worker
<1>7. CallInv(c)'
  BY <1>1, <1>2, <1>5, <1>6, Zenon DEF CallInv, Known, Deserved, Failover, Outcome
<1> QED BY <1>1, <1>2, <1>4, <1>7, CallerStep

\* A worker goes down, stalls or comes up: it is tainted for every call in progress.
LEMMA ChangeStep ==
  ASSUME PoolInv, NEW w \in Workers, NEW m \in {"up", "down", "stalled"}, Change(w, m)
  PROVE  PoolInv'
<1>1. TypeOK /\ BlamedInv
  BY DEF PoolInv
<1>2. UNCHANGED <<next, unhealthy, call>> /\ blamed' = blamed \cup {w}
  BY DEF Change, poolVars
<1>3. /\ mode' \in [Workers -> {"up", "down", "stalled"}]
      /\ \A v \in Workers : v # w => mode'[v] = mode[v]
  BY <1>1 DEF Change, TypeOK
<1>4. \A d \in Callers : tainted'[d] = IF d \in Busy THEN tainted[d] \cup {w} ELSE tainted[d]
  BY Zenon DEF Change
<1>5. tainted' \in [Callers -> SUBSET Workers]
  <2>1. \A d \in Callers : tainted[d] \in SUBSET Workers
    BY <1>1 DEF TypeOK
  <2>2. \A d \in Callers : tainted'[d] \in SUBSET Workers
    BY <1>4, <2>1, Zenon
  <2>3. tainted' = [d \in Callers |-> tainted'[d]]
    BY DEF Change
  <2> QED BY <2>2, <2>3
<1>6. TypeOK'
  BY <1>1, <1>2, <1>3, <1>5 DEF TypeOK
<1>7. BlamedInv'
  BY <1>1, <1>2, <1>3 DEF BlamedInv
<1>8. ASSUME NEW d \in Callers
      PROVE  CallInv(d)'
  <2>1. CallInv(d)
    BY DEF PoolInv
  <2>2. tainted[d] \subseteq tainted'[d] /\ tainted'[d] \subseteq Workers
    BY <1>4, <1>5
  <2>3. d \in Busy => \A v \in Workers : mode'[v] # "up" \/ v \in DOMAIN unhealthy' => v \in tainted'[d]
    BY <1>2, <1>3, <1>4, <2>1, Zenon DEF CallInv, Known
  <2> QED BY <1>2, <2>1, <2>2, <2>3, Bystander, Zenon
<1> QED BY <1>6, <1>7, <1>8 DEF PoolInv

\* Time passes while every call waits for a stalled worker, which is tainted and blamed.
LEMMA TickStep ==
  ASSUME PoolInv, Tick
  PROVE  PoolInv'
<1>1. TypeOK /\ BlamedInv /\ NoDeadline \notin Int
  BY PoolAssumption DEF PoolInv
<1>2. UNCHANGED <<next, mode, tainted, blamed>> /\ \A c \in Busy : Waiting(c)
  BY Zenon DEF Tick
<1>3. \A t \in Nat : Less(t) \in Nat /\ (t > 0 => Less(t) = t - 1) /\ Less(t) <= t
  BY <1>1 DEF Less
<1>4. \A t \in Times : Less(t) \in Times /\ (t = NoDeadline <=> Less(t) = NoDeadline)
  BY <1>1 DEF Less, Times
<1>5. \A d \in Callers : call[d] \in CallType
  BY <1>1 DEF TypeOK, CallType
<1>6. ASSUME NEW d \in Callers
      PROVE  /\ call'[d] \in CallType
             /\ d \in Busy =>
                  /\ call'[d].at = call[d].at /\ call'[d].op = call[d].op
                  /\ call'[d].offset = call[d].offset /\ call'[d].start = call[d].start
                  /\ call'[d].given = call[d].given /\ call'[d].cancelled = call[d].cancelled
                  /\ call'[d].outcome = call[d].outcome
                  /\ call'[d].left = Less(call[d].left) /\ call'[d].due = Less(call[d].due)
             /\ d \notin Busy => call'[d] = call[d]
  <2> DEFINE r == [call[d] EXCEPT !.left = Less(call[d].left), !.due = Less(call[d].due)]
  <2>1. call'[d] = IF d \in Busy THEN r ELSE call[d]
    BY Zenon DEF Tick
  <2>2. Less(call[d].left) \in Times /\ Less(call[d].due) \in Nat
    BY <1>3, <1>4, <1>5 DEF CallType
  <2>3. /\ r \in CallType
        /\ r.at = call[d].at /\ r.op = call[d].op /\ r.offset = call[d].offset
        /\ r.start = call[d].start /\ r.given = call[d].given
        /\ r.cancelled = call[d].cancelled /\ r.outcome = call[d].outcome
        /\ r.left = Less(call[d].left) /\ r.due = Less(call[d].due)
    BY <1>5, <2>2, Zenon DEF CallType
  <2> HIDE DEF r
  <2> QED BY <1>5, <2>1, <2>3, Zenon
<1>7. TypeOK'
  <2>1. call' \in [Callers -> CallType]
    <3>1. call' = [d \in Callers |-> call'[d]]
      BY Zenon DEF Tick
    <3> QED BY <1>6, <3>1, Zenon
  <2>2. DOMAIN unhealthy' \subseteq Workers /\ \A w \in DOMAIN unhealthy' : unhealthy'[w] \in 0..ProbeEvery
    <3>1. /\ DOMAIN unhealthy' = DOMAIN unhealthy
          /\ \A w \in DOMAIN unhealthy : unhealthy'[w] = Less(unhealthy[w])
      BY Zenon DEF Tick
    <3>2. \A t \in 0..ProbeEvery : Less(t) \in 0..ProbeEvery
      BY <1>3, PoolAssumption
    <3> QED BY <1>1, <3>1, <3>2 DEF TypeOK
  <2> QED BY <1>1, <1>2, <2>1, <2>2, Zenon DEF TypeOK, CallType
<1>8. DOMAIN unhealthy' = DOMAIN unhealthy
  BY Zenon DEF Tick
<1>9. BlamedInv'
  BY <1>1, <1>2, <1>8 DEF BlamedInv
<1>10. ASSUME NEW d \in Callers, d \notin Busy
       PROVE  CallInv(d)'
  <2>1. CallInv(d) /\ call'[d] = call[d] /\ tainted[d] \subseteq Workers
    BY <1>1, <1>6, <1>10, Zenon DEF PoolInv, TypeOK
  <2> QED BY <1>2, <1>10, <2>1, Bystander
<1>11. ASSUME NEW d \in Callers, d \in Busy
       PROVE  CallInv(d)'
  <2>1. CallInv(d) /\ call[d] \in CallType
    BY <1>5 DEF PoolInv
  <2>2. /\ call'[d].at = call[d].at /\ call'[d].op = call[d].op
        /\ call'[d].offset = call[d].offset /\ call'[d].start = call[d].start
        /\ call'[d].given = call[d].given /\ call'[d].cancelled = call[d].cancelled
        /\ call'[d].outcome = call[d].outcome
        /\ call'[d].left = Less(call[d].left) /\ call'[d].due = Less(call[d].due)
    BY <1>6, <1>11
  <2>3. /\ call[d].at \in {"infer", "probe", "health"} /\ mode[Worker(d)] = "stalled"
        /\ call[d].left # 0 /\ call[d].due # 0
    BY <1>2, <1>11 DEF Waiting, AttemptDone, CtxDone
  <2>4. d \in Busy' /\ Worker(d)' = Worker(d) /\ Timely(d)' = Timely(d)
    BY <1>11, <2>2 DEF Busy, Worker, Timely
  <2>5. Worker(d) \in Workers
    <3>1. call[d].start \in Workers /\ call[d].offset \in Nat
      BY <2>1 DEF CallType, Workers
    <3> QED BY <3>1, RotationType DEF Worker
  <2>6. Worker(d) \in blamed /\ Worker(d) \in tainted[d]
    BY <1>1, <1>11, <2>1, <2>3, <2>5 DEF BlamedInv, CallInv, Known
  <2>7. Known(d)'
    BY <1>2, <1>8, <1>11, <2>1 DEF CallInv, Known
  <2>8. Deserved(d)'
    BY <1>2, <2>2, <2>3, <2>4, <2>6, Zenon DEF Deserved
  <2>9. Outcome(d)'
    BY <1>2, <1>11, <2>1, <2>2, <2>4, Zenon DEF CallInv, Outcome
  <2>10. ASSUME Timely(d) PROVE call[d].at # "health" /\ TimeAhead(d)' /\ TriedTainted(d)'
    <3>1. call[d].at # "health" /\ TimeAhead(d) /\ TriedTainted(d)
      BY <1>11, <2>1, <2>10, Zenon DEF CallInv, Failover
    <3>2. call[d].left # NoDeadline => call[d].left >= call[d].due + (N - call[d].offset - 1)
      BY <2>3, <3>1 DEF TimeAhead
    <3>3. ASSUME call[d].left # NoDeadline
          PROVE  Less(call[d].left) >= Less(call[d].due) + (N - call[d].offset - 1)
      <4>1. call[d].left \in Nat /\ call[d].due \in Nat /\ N - call[d].offset - 1 \in Nat
        BY <2>1, <3>3, PoolAssumption DEF CallType, Times, Workers
      <4>2. Less(call[d].left) = call[d].left - 1 /\ Less(call[d].due) = call[d].due - 1
        BY <1>3, <2>3, <4>1
      <4> QED BY <3>2, <3>3, <4>1, <4>2
    <3>4. call[d].left = NoDeadline => Less(call[d].left) = NoDeadline
      BY DEF Less
    <3>5. TimeAhead(d)'
      BY <2>2, <2>3, <3>3, <3>4, Zenon DEF TimeAhead
    <3>6. TriedTainted(d)'
      BY <1>2, <2>2, <3>1, Zenon DEF TriedTainted
    <3> QED BY <3>1, <3>5, <3>6
  <2>11. Failover(d)'
    BY <1>2, <2>2, <2>4, <2>6, <2>10, Zenon DEF Failover
  <2> QED BY <2>7, <2>8, <2>9, <2>11 DEF CallInv
<1> QED BY <1>7, <1>9, <1>10, <1>11 DEF PoolInv

-----------------------------------------------------------------------------
(* The theorems.                                                            *)

\* Every step, of a caller or of the environment, keeps the invariant.
LEMMA NextPoolInv ==
  ASSUME PoolInv, [Next]_vars
  PROVE  PoolInv'
<1>1. CASE UNCHANGED vars
  <2>1. UNCHANGED <<next, unhealthy, call, mode, tainted, blamed>>
    BY <1>1 DEF vars, poolVars, historyVars
  <2>2. TypeOK'
    BY <2>1, Zenon DEF PoolInv, TypeOK
  <2>3. \A d \in Callers : CallInv(d)'
    <3> SUFFICES ASSUME NEW d \in Callers PROVE CallInv(d)'
      OBVIOUS
    <3>1. CallInv(d) /\ tainted[d] \subseteq Workers
      BY DEF PoolInv, TypeOK
    <3> QED BY <2>1, <3>1, Bystander, Zenon DEF CallInv, Known
  <2> QED BY <2>1, <2>2, <2>3, Zenon DEF PoolInv, BlamedInv
<1>2. CASE Next
  BY <1>2, BeginStep, AttemptStep, AnsweredStep, UnansweredStep, ClearStep, MarkDownStep,
     CancelStep, ChangeStep, TickStep, Zenon
  DEF Next, Step
<1> QED BY <1>1, <1>2

\* The initial states satisfy the invariant: no call has begun and no worker is marked.
LEMMA InitPoolInv == Init => PoolInv
<1> SUFFICES ASSUME Init PROVE PoolInv
  OBVIOUS
<1>1. 0 \in Workers /\ 0 \in Times
  BY PoolAssumption DEF Workers, Times
<1>2. NoCall \in CallType
  BY <1>1 DEF NoCall, CallType
<1>3. DOMAIN unhealthy = {}
  BY DEF Init
<1>4. TypeOK
  BY <1>1, <1>2, <1>3 DEF Init, TypeOK, CallType
<1>5. BlamedInv
  BY <1>3 DEF Init, BlamedInv
<1>6. ASSUME NEW c \in Callers
      PROVE  CallInv(c)
  <2>1. call[c].at = "idle" /\ call[c].outcome = "none"
    BY DEF Init, NoCall
  <2> QED BY <2>1 DEF CallInv, Known, Deserved, Failover, Outcome, Busy
<1> QED BY <1>4, <1>5, <1>6 DEF PoolInv

\* The inductive invariant of the pool.
THEOREM PoolInvariant == Spec => []PoolInv
<1>1. Init => PoolInv
  BY InitPoolInv
<1>2. PoolInv /\ [Next]_vars => PoolInv'
  BY NextPoolInv
<1> QED BY <1>1, <1>2, PTL DEF Spec

\* Failover has time, for every number of workers and every deadline: a call of Infer with a
\* unit of time for each worker fails only if every worker was down, stalled or marked at some
\* time during the call.
THEOREM SteadyWorkersServe == Spec => []SteadyWorkerServes
<1>1. PoolInv => SteadyWorkerServes
  BY Zenon DEF PoolInv, CallInv, Outcome, Timely, SteadyWorkerServes
<1> QED BY <1>1, PoolInvariant, PTL

\* A worker is in unhealthy only if it once was not up or failed a Health call, whatever
\* contexts were cancelled or ran out while it was asked to infer.
THEOREM BlameIsDeserved == Spec => []BlameDeserved
<1>1. PoolInv => BlameDeserved
  BY DEF PoolInv, BlamedInv, TypeOK, BlameDeserved
<1> QED BY <1>1, PoolInvariant, PTL

-----------------------------------------------------------------------------
(***************************************************************************)
(* WorkerProcess, for every set of calls and batches and every budget.     *)
(***************************************************************************)

-----------------------------------------------------------------------------
(* The inductive invariant.                                                *)

\* What an engine may return for n requests.
Outputs(n) == {Range1(n), Tail(Range1(n)), [Range1(n) EXCEPT ![1] = 0]}

Serving == {"score", "infer", "reply"}

\* A call: the client waits only while the service has the call, the engine is given
\* only what the service accepted, and the caller what both checks let through.
ProcessCallInv(c) ==
  /\ client[c] = "idle" => server[c] = "none"
  /\ client[c] = "sent" => server[c] \in Serving
  /\ server[c] = "score" /\ clientToken # "" => metadata[c] = <<clientToken>>
  /\ server[c] \in {"infer", "reply"} => ValidRPCRequests(batch[c])
  /\ server[c] = "reply" => results[c] \in Outputs(Len(batch[c]))
  /\ client[c] = "ok" =>
       /\ server[c] = "done"
       /\ results[c] = Range1(Len(batch[c]))
       /\ \A k \in 1..Len(batch[c]) : batch[c][k] = "good"
  /\ clientToken # "" /\ clientToken = ServerToken => client[c] # "unauthenticated"

\* The process: once main stops the gRPC server no call gets in, and it has exited
\* only when none is in service.
StopInv ==
  /\ aborted # {} => main.left = 0 /\ main.at = "exited"
  /\ main.at \in {"grpc", "exited"} => ~accepting
  /\ main.at = "exited" => \A c \in Calls : server[c] \notin Serving

PInv == clientToken \in ClientTokens /\ ProcessTypeOK /\ StopInv /\ \A c \in Calls : ProcessCallInv(c)

-----------------------------------------------------------------------------
(* Types.                                                                  *)

Clients == {"idle", "sent", "ok"} \cup ClientErrors
Servers == {"none", "score", "infer", "reply", "done"}
Carried == {<<>>} \cup {<<t>> : t \in ClientTokens \cup CallerTokens}
Mains == [at : {"select", "http", "grpc", "exited"}, failed : BOOLEAN, left : 0..ShutdownBudget]

\* What the types say of each variable.
LEMMA Types ==
  ASSUME PInv
  PROVE  /\ client \in [Calls -> Clients] /\ server \in [Calls -> Servers]
         /\ batch \in [Calls -> Batches \cup {<<>>}] /\ metadata \in [Calls -> Carried]
         /\ results \in [Calls -> Seq(Nat)]
         /\ http \in BOOLEAN /\ accepting \in BOOLEAN
         /\ events \subseteq {"signal", "http", "grpc"}
         /\ main \in Mains /\ aborted \subseteq Calls
BY Zenon DEF PInv, ProcessTypeOK, Clients, Servers, Carried, Mains

\* A batch is a sequence of requests.
LEMMA BatchTypes ==
  ASSUME PInv, NEW c \in Calls
  PROVE  batch[c] \in Seq({"good", "narrow", "bad"}) /\ Len(batch[c]) \in Nat
<1>1. batch[c] \in Batches \cup {<<>>}
  BY Types
<1>2. \A b \in Batches : b \in Seq({"good", "narrow", "bad"})
  BY WorkerAssumption, Zenon
<1>3. <<>> \in Seq({"good", "narrow", "bad"})
  OBVIOUS
<1>4. batch[c] \in Seq({"good", "narrow", "bad"})
  BY <1>1, <1>2, <1>3, Zenon
<1> QED
  BY <1>4

\* The types again after a step.  That a batch with the engine is not empty and not
\* too large follows from what the service accepts.
LEMMA TypesAfter ==
  ASSUME client' \in [Calls -> Clients], server' \in [Calls -> Servers],
         batch' \in [Calls -> Batches \cup {<<>>}], metadata' \in [Calls -> Carried],
         results' \in [Calls -> Seq(Nat)],
         http' \in BOOLEAN, accepting' \in BOOLEAN, events' \subseteq {"signal", "http", "grpc"},
         main' \in Mains, aborted' \subseteq Calls,
         \A c \in Calls : ProcessCallInv(c)'
  PROVE  ProcessTypeOK'
<1>1. \A c \in Calls : server'[c] \in {"infer", "reply"} => Len(batch'[c]) \in 1..MaxBatchSize
  BY Zenon DEF ProcessCallInv, ValidRPCRequests, ValidRequests
<1> QED
  BY <1>1, Zenon DEF ProcessTypeOK, Clients, Servers, Carried, Mains, ClientErrors

\* A step that leaves a call alone keeps what is known of it.
LEMMA SameCall ==
  ASSUME NEW d \in Calls, ProcessCallInv(d), clientToken' = clientToken,
         client'[d] = client[d], server'[d] = server[d], batch'[d] = batch[d],
         metadata'[d] = metadata[d], results'[d] = results[d]
  PROVE  ProcessCallInv(d)'
BY ZenonT(40) DEF ProcessCallInv, ValidRPCRequests, ValidRequests, Outputs, Range1, Serving

\* A step of one call, before main has stopped the gRPC server or with no call let in.
LEMMA OneCall ==
  ASSUME PInv, clientToken' = clientToken, NEW c \in Calls, ProcessCallInv(c)',
         client' \in [Calls -> Clients], server' \in [Calls -> Servers],
         batch' \in [Calls -> Batches \cup {<<>>}], metadata' \in [Calls -> Carried],
         results' \in [Calls -> Seq(Nat)],
         \A d \in Calls \ {c} :
           /\ client'[d] = client[d] /\ server'[d] = server[d] /\ batch'[d] = batch[d]
           /\ metadata'[d] = metadata[d] /\ results'[d] = results[d],
         server'[c] \in Serving => server[c] \in Serving \/ accepting,
         UNCHANGED <<http, events, main, accepting, aborted>>
  PROVE  PInv'
<1>1. \A d \in Calls : ProcessCallInv(d)'
  BY SameCall, Zenon DEF PInv
<1>2. ProcessTypeOK'
  BY <1>1, Types, TypesAfter, Zenon
<1>3. StopInv'
  BY Zenon DEF PInv, StopInv, Serving
<1> QED
  BY <1>1, <1>2, <1>3, Zenon DEF PInv

-----------------------------------------------------------------------------
(* The steps of a call.                                                    *)

\* The client sends its batch with its token, or fails before it does.
LEMMA InferStep ==
  ASSUME PInv, clientToken' = clientToken, NEW c \in Calls,
         NEW b \in Batches, NEW token \in CallerTokens, Infer(c, b, token)
  PROVE  PInv'
<1>1. /\ client[c] = "idle" /\ server[c] = "none"
      /\ batch' = [batch EXCEPT ![c] = b]
      /\ metadata' = [metadata EXCEPT ![c] = Credentials(token)]
      /\ UNCHANGED <<results, http, events, main, accepting, aborted>>
  BY Zenon DEF Infer, PInv, ProcessCallInv
<1>2. Credentials(token) \in Carried /\ (clientToken # "" => Credentials(token) = <<clientToken>>)
  BY Zenon DEF Credentials, Carried, PInv
<1>3. /\ batch' \in [Calls -> Batches \cup {<<>>}] /\ metadata' \in [Calls -> Carried]
      /\ results' \in [Calls -> Seq(Nat)] /\ metadata'[c] = Credentials(token)
      /\ \A d \in Calls \ {c} : /\ batch'[d] = batch[d] /\ metadata'[d] = metadata[d]
                                /\ results'[d] = results[d]
  BY <1>1, <1>2, Types, Zenon
<1>4. \/ /\ client' = [client EXCEPT ![c] = "invalid"] \/ client' = [client EXCEPT ![c] = "unavailable"]
         /\ server' = server
      \/ /\ client' = [client EXCEPT ![c] = "sent"] /\ accepting
         /\ server' = [server EXCEPT ![c] = "score"]
  BY Zenon DEF Infer
<1>5. /\ client' \in [Calls -> Clients] /\ server' \in [Calls -> Servers]
      /\ \A d \in Calls \ {c} : client'[d] = client[d] /\ server'[d] = server[d]
      /\ \/ client'[c] \in {"invalid", "unavailable"} /\ server'[c] = "none"
         \/ client'[c] = "sent" /\ server'[c] = "score" /\ accepting
  BY <1>1, <1>4, Types, Zenon DEF Clients, ClientErrors, Servers
<1>6. ProcessCallInv(c)'
  BY <1>2, <1>3, <1>5, Zenon DEF ProcessCallInv, Serving
<1> QED
  BY <1>1, <1>3, <1>5, <1>6, OneCall, Zenon DEF Serving

\* The service ends a call with an error.
LEMMA FailsStep ==
  ASSUME PInv, clientToken' = clientToken, NEW c \in Calls, server[c] \in Serving,
         NEW status \in {"unauthenticated", "rejected", "failed"}, Fails(c, status),
         status = "unauthenticated" => clientToken = "" \/ clientToken # ServerToken,
         UNCHANGED <<batch, metadata, results, http, events, main, accepting, aborted>>
  PROVE  PInv'
<1>1. /\ client' \in [Calls -> Clients] /\ server' \in [Calls -> Servers]
      /\ \A d \in Calls \ {c} : client'[d] = client[d] /\ server'[d] = server[d]
      /\ server'[c] = "done"
      /\ client'[c] = IF client[c] = "sent" THEN status ELSE client[c]
  BY Types, Zenon DEF Fails, Clients, ClientErrors, Servers
<1>2. client[c] # "idle" /\ client[c] # "ok"
  BY Zenon DEF PInv, ProcessCallInv, Serving
<1>3. ProcessCallInv(c)'
  BY <1>1, <1>2, Zenon DEF ProcessCallInv, Serving, PInv
<1> QED
  BY <1>1, <1>3, Types, OneCall, Zenon DEF Serving

\* The service checks the token and the batch.
LEMMA ScoreStep ==
  ASSUME PInv, clientToken' = clientToken, NEW c \in Calls, Score(c)
  PROVE  PInv'
<1>1. /\ server[c] = "score"
      /\ UNCHANGED <<batch, metadata, results, http, events, main, accepting, aborted>>
  BY Zenon DEF Score
<1>2. CASE metadata[c] # <<ServerToken>> /\ Fails(c, "unauthenticated")
  <2>1. clientToken = "" \/ clientToken # ServerToken
    BY <1>1, <1>2, Zenon DEF PInv, ProcessCallInv
  <2> QED
    BY <1>1, <1>2, <2>1, FailsStep, Zenon DEF Serving
<1>3. CASE Fails(c, "rejected")
  BY <1>1, <1>3, FailsStep, Zenon DEF Serving
<1>4. CASE ValidRPCRequests(batch[c]) /\ server' = [server EXCEPT ![c] = "infer"] /\ client' = client
  <2>1. /\ client' \in [Calls -> Clients] /\ server' \in [Calls -> Servers]
        /\ \A d \in Calls \ {c} : client'[d] = client[d] /\ server'[d] = server[d]
        /\ server'[c] = "infer" /\ client'[c] = client[c]
    BY <1>4, Types DEF Servers
  <2>2. ValidRPCRequests(batch'[c])
    BY <1>1, <1>4, Zenon
  <2>3. ProcessCallInv(c)'
    BY <1>1, <2>1, <2>2, Zenon DEF ProcessCallInv, Serving, PInv
  <2> QED
    BY <1>1, <2>1, <2>3, Types, OneCall, Zenon DEF Serving
<1> QED
  BY <1>2, <1>3, <1>4, Zenon DEF Score
\* The outputs for n requests: their lengths, and which of them is valid.
LEMMA OutputTypes ==
  ASSUME NEW n \in Nat \ {0}
  PROVE  /\ Outputs(n) \subseteq Seq(Nat)
         /\ \A r \in Outputs(n) : ValidResults(r, n) => r = Range1(n)
<1>1. Range1(n) \in Seq(Nat) /\ Len(Range1(n)) = n
  BY DEF Range1
<1>2. Tail(Range1(n)) \in Seq(Nat) /\ Len(Tail(Range1(n))) = n - 1
  BY <1>1
<1> DEFINE z == [Range1(n) EXCEPT ![1] = 0]
<1>3. z \in Seq(Nat) /\ Len(z) = n /\ z[1] = 0
  BY <1>1 DEF Range1
<1> HIDE DEF z
<1>4. Outputs(n) = {Range1(n), Tail(Range1(n)), z}
  BY Zenon DEF Outputs, z
<1>5. ~ValidResults(Tail(Range1(n)), n) /\ ~ValidResults(z, n)
  BY <1>2, <1>3 DEF ValidResults
<1> QED
  BY <1>1, <1>2, <1>3, <1>4, <1>5, Zenon

\* The engine returns what it may.
LEMMA EngineStep ==
  ASSUME PInv, clientToken' = clientToken, NEW c \in Calls, Engine(c)
  PROVE  PInv'
<1>1. /\ server[c] = "infer"
      /\ UNCHANGED <<batch, metadata, http, events, main, accepting, aborted>>
  BY Zenon DEF Engine
<1>2. CASE Fails(c, "failed") /\ results' = results
  BY <1>1, <1>2, FailsStep, Zenon DEF Serving
<1>3. CASE \E r \in Outputs(Len(batch[c])) : /\ results' = [results EXCEPT ![c] = r]
                                             /\ server' = [server EXCEPT ![c] = "reply"]
                                             /\ client' = client
  <2>1. PICK r \in Outputs(Len(batch[c])) : /\ results' = [results EXCEPT ![c] = r]
                                            /\ server' = [server EXCEPT ![c] = "reply"]
                                            /\ client' = client
    BY <1>3, Zenon
  <2>2. ValidRPCRequests(batch[c]) /\ Len(batch[c]) \in Nat \ {0}
    <3>1. ValidRPCRequests(batch[c])
      BY <1>1, Zenon DEF PInv, ProcessCallInv
    <3> QED
      BY <3>1, BatchTypes, WorkerAssumption, SMTT(20) DEF ValidRPCRequests, ValidRequests
  <2>3. r \in Seq(Nat)
    BY <2>2, OutputTypes, Zenon
  <2>4. /\ client' \in [Calls -> Clients] /\ server' \in [Calls -> Servers]
        /\ results' \in [Calls -> Seq(Nat)] /\ results'[c] = r
        /\ \A d \in Calls \ {c} : /\ client'[d] = client[d] /\ server'[d] = server[d]
                                  /\ results'[d] = results[d]
        /\ server'[c] = "reply" /\ client'[c] = client[c]
    BY <2>1, <2>3, Types DEF Servers
  <2>5. results'[c] \in Outputs(Len(batch'[c])) /\ ValidRPCRequests(batch'[c])
    BY <1>1, <2>2, <2>4, Zenon
  <2>6. client[c] # "ok" /\ client[c] # "idle"
    BY <1>1, Zenon DEF PInv, ProcessCallInv
  <2>7. ProcessCallInv(c)'
    BY <1>1, <2>4, <2>5, <2>6, Zenon DEF ProcessCallInv, Serving, PInv
  <2> QED
    BY <1>1, <2>4, <2>7, Types, OneCall, Zenon DEF Serving
<1> QED
  BY <1>2, <1>3, Zenon DEF Engine, Outputs

\* The service checks the results, and the client what it got.
LEMMA ReplyStep ==
  ASSUME PInv, clientToken' = clientToken, NEW c \in Calls, Reply(c)
  PROVE  PInv'
<1>1. /\ server[c] = "reply"
      /\ UNCHANGED <<batch, metadata, results, http, events, main, accepting, aborted>>
  BY Zenon DEF Reply
<1>2. CASE Fails(c, "failed")
  BY <1>1, <1>2, FailsStep, Zenon DEF Serving
<1>3. CASE /\ ValidResults(results[c], Len(batch[c])) /\ server' = [server EXCEPT ![c] = "done"]
           /\ client' = [client EXCEPT ![c] = IF client[c] = "sent" THEN "ok" ELSE client[c]]
  <2>1. /\ client' \in [Calls -> Clients] /\ server' \in [Calls -> Servers]
        /\ \A d \in Calls \ {c} : client'[d] = client[d] /\ server'[d] = server[d]
        /\ server'[c] = "done" /\ client'[c] = IF client[c] = "sent" THEN "ok" ELSE client[c]
    BY <1>3, Types DEF Servers, Clients
  <2>2. ValidRPCRequests(batch[c]) /\ results[c] \in Outputs(Len(batch[c]))
    BY <1>1, Zenon DEF PInv, ProcessCallInv
  <2>3. Len(batch[c]) \in Nat \ {0} /\ \A k \in 1..Len(batch[c]) : batch[c][k] = "good"
    BY <2>2, BatchTypes DEF ValidRPCRequests, ValidRequests
  <2>4. results[c] = Range1(Len(batch[c]))
    BY <1>3, <2>2, <2>3, OutputTypes, Zenon
  <2>5. /\ results'[c] = Range1(Len(batch'[c]))
        /\ \A k \in 1..Len(batch'[c]) : batch'[c][k] = "good"
    BY <1>1, <2>3, <2>4, Zenon
  <2>6. client[c] # "idle"
    BY <1>1, Zenon DEF PInv, ProcessCallInv
  <2>7. ProcessCallInv(c)'
    BY <2>1, <2>5, <2>6, Zenon DEF ProcessCallInv, Serving, PInv
  <2> QED
    BY <1>1, <2>1, <2>7, Types, OneCall, Zenon DEF Serving
<1> QED
  BY <1>2, <1>3, Zenon DEF Reply

\* The caller's context ends; the service goes on with the call.
LEMMA GiveUpStep ==
  ASSUME PInv, clientToken' = clientToken, NEW c \in Calls, GiveUp(c)
  PROVE  PInv'
<1>1. /\ client' = [client EXCEPT ![c] = "gave_up"]
      /\ UNCHANGED <<server, batch, metadata, results, http, events, main, accepting, aborted>>
  BY Zenon DEF GiveUp
<1>2. /\ client' \in [Calls -> Clients] /\ client'[c] = "gave_up"
      /\ \A d \in Calls \ {c} : client'[d] = client[d]
  BY <1>1, Types DEF Clients, ClientErrors
<1>3. ProcessCallInv(c)'
  BY <1>1, <1>2, Zenon DEF ProcessCallInv, PInv, Serving, ValidRPCRequests, ValidRequests, Outputs, Range1
<1> QED
  BY <1>1, <1>2, <1>3, Types, OneCall, Zenon DEF Serving
-----------------------------------------------------------------------------
(* The steps of the process.                                               *)

\* A step of main, a signal, time or an operational request touches no call.
LEMMA BesideCalls ==
  ASSUME PInv, clientToken' = clientToken, UNCHANGED callVars,
         http' \in BOOLEAN, accepting' \in BOOLEAN, events' \subseteq {"signal", "http", "grpc"},
         main' \in Mains, aborted' = aborted,
         StopInv'
  PROVE  PInv'
<1>1. UNCHANGED <<client, server, batch, metadata, results>>
  BY Zenon DEF callVars
<1>2. \A c \in Calls : ProcessCallInv(c)'
  BY <1>1, SameCall, Zenon DEF PInv
<1>3. ProcessTypeOK'
  BY <1>1, <1>2, Types, TypesAfter, Zenon
<1> QED
  BY <1>2, <1>3, Zenon DEF PInv

\* Where main is, and what it has left.
LEMMA MainTypes ==
  ASSUME PInv
  PROVE  /\ main \in Mains /\ main.at \in {"select", "http", "grpc", "exited"}
         /\ main.left \in 0..ShutdownBudget /\ ShutdownBudget \in Nat
         /\ aborted # {} => main.left = 0 /\ main.at = "exited"
         /\ main.at \in {"grpc", "exited"} => ~accepting
         /\ main.at = "exited" => \A c \in Calls : server[c] \notin Serving
<1>1. main \in Mains /\ ShutdownBudget \in Nat
  BY Types, WorkerAssumption, Zenon
<1>2. main.at \in {"select", "http", "grpc", "exited"} /\ main.left \in 0..ShutdownBudget
  BY <1>1, Zenon DEF Mains
<1> QED
  BY <1>1, <1>2, Zenon DEF PInv, StopInv

\* An operational request begins or ends.
LEMMA HttpStep ==
  ASSUME PInv, clientToken' = clientToken, HttpArrives \/ HttpEnds
  PROVE  PInv'
<1>1. http' \in BOOLEAN /\ UNCHANGED <<callVars, events, main, accepting, aborted>>
  BY Zenon DEF HttpArrives, HttpEnds
<1>2. StopInv'
  BY <1>1, Zenon DEF PInv, StopInv, callVars, Serving
<1> QED
  BY <1>1, <1>2, Types, BesideCalls, Zenon

\* A signal comes, or a server fails.
LEMMA EventStep ==
  ASSUME PInv, clientToken' = clientToken, NEW e \in {"signal", "http", "grpc"}, Event(e)
  PROVE  PInv'
<1>1. /\ main.at = "select" /\ events' = events \cup {e}
      /\ accepting' = (accepting /\ e # "grpc")
      /\ UNCHANGED <<callVars, http, main, aborted>>
  BY Zenon DEF Event
<1>2. events' \subseteq {"signal", "http", "grpc"} /\ accepting' \in BOOLEAN
  BY <1>1, Types, Zenon
<1>3. StopInv'
  BY <1>1, MainTypes, Zenon DEF StopInv
<1> QED
  BY <1>1, <1>2, <1>3, Types, BesideCalls, Zenon

\* main's select takes an event and the shutdown begins.
LEMMA SelectStep ==
  ASSUME PInv, clientToken' = clientToken, NEW e \in events, Select(e)
  PROVE  PInv'
<1>1. /\ main.at = "select" /\ main' = [main EXCEPT !.at = "http", !.failed = ServeFailed(e)]
      /\ UNCHANGED <<callVars, http, events, accepting, aborted>>
  BY Zenon DEF Select
<1>2. ServeFailed(e) \in BOOLEAN
  BY DEF ServeFailed
<1>3. main' \in Mains
  BY <1>1, <1>2, Types, Zenon DEF Mains
<1>4. main'.at = "http"
  BY <1>1, Types DEF Mains
<1>5. StopInv'
  BY <1>1, <1>4, MainTypes, Zenon DEF StopInv
<1> QED
  BY <1>1, <1>3, <1>5, Types, BesideCalls, Zenon

\* HTTP's Shutdown returns, and the gRPC server takes no more calls.
LEMMA ShutdownHttpStep ==
  ASSUME PInv, clientToken' = clientToken, ShutdownHttp
  PROVE  PInv'
<1>1. /\ main.at = "http" /\ main' = [main EXCEPT !.at = "grpc"] /\ accepting' = FALSE
      /\ UNCHANGED <<callVars, http, events, aborted>>
  BY Zenon DEF ShutdownHttp
<1>2. main' \in Mains
  BY <1>1, Types, Zenon DEF Mains
<1>3. main'.at = "grpc"
  BY <1>1, Types DEF Mains
<1>4. StopInv'
  BY <1>1, <1>3, MainTypes, Zenon DEF StopInv
<1>5. accepting' \in BOOLEAN
  BY <1>1, Zenon
<1> QED
  BY <1>1, <1>2, <1>4, <1>5, Types, BesideCalls, Zenon

\* Time passes, and the budget of the shutdown shrinks.
LEMMA ProcessTickStep ==
  ASSUME PInv, clientToken' = clientToken, ProcessTick
  PROVE  PInv'
<1>1. /\ main.at \in {"http", "grpc"} /\ main.left > 0
      /\ main' = [main EXCEPT !.left = main.left - 1]
      /\ UNCHANGED <<callVars, http, events, accepting, aborted>>
  BY Zenon DEF ProcessTick
<1>2. main.left - 1 \in 0..ShutdownBudget
  BY <1>1, MainTypes
<1>3. main' \in Mains
  BY <1>1, <1>2, Types, Zenon DEF Mains
<1>4. main'.at = main.at
  BY <1>1, Types DEF Mains
<1>5. StopInv'
  <2>1. main.at # "exited" /\ aborted' = aborted /\ accepting' = accepting
    BY <1>1, Zenon
  <2>2. main'.at # "exited" /\ aborted' = {} /\ (main'.at = "grpc" => ~accepting')
    BY <1>4, <2>1, MainTypes, Zenon
  <2> QED
    BY <2>2, Zenon DEF StopInv
<1> QED
  BY <1>1, <1>3, <1>5, Types, BesideCalls, Zenon

\* Stop: nothing is in service, or the budget is used up and it is cut off.
LEMMA StopGrpcStep ==
  ASSUME PInv, clientToken' = clientToken, StopGrpc
  PROVE  PInv'
<1>1. /\ main.at = "grpc" /\ (InService = {} \/ main.left = 0)
      /\ main' = [main EXCEPT !.at = "exited"] /\ aborted' = InService
      /\ server' = [c \in Calls |-> IF c \in InService THEN "done" ELSE server[c]]
      /\ client' = [c \in Calls |-> IF c \in InService /\ client[c] = "sent"
                                    THEN "unavailable" ELSE client[c]]
      /\ UNCHANGED <<batch, metadata, results, http, events, accepting>>
  BY Zenon DEF StopGrpc, GracefulDone
<1>2. main' \in Mains
  BY <1>1, Types, Zenon DEF Mains
<1>3. main'.at = "exited" /\ main'.left = main.left
  BY <1>1, Types DEF Mains
<1>4. /\ client' \in [Calls -> Clients] /\ server' \in [Calls -> Servers]
      /\ \A c \in Calls :
           /\ server'[c] = IF c \in InService THEN "done" ELSE server[c]
           /\ client'[c] = IF c \in InService /\ client[c] = "sent" THEN "unavailable" ELSE client[c]
  BY <1>1, Types DEF Servers, Clients, ClientErrors
<1>5. \A c \in Calls : c \in InService <=> server[c] \in Serving
  BY Zenon DEF InService, Serving
<1>6. StopInv'
  <2>1. \A c \in Calls : server'[c] \notin Serving
    BY <1>4, <1>5 DEF Serving
  <2>2. ~accepting'
    BY <1>1, MainTypes, Zenon
  <2> QED
    BY <1>1, <1>3, <2>1, <2>2, Zenon DEF StopInv
<1>7. ASSUME NEW c \in Calls
      PROVE  ProcessCallInv(c)'
  <2>1. CASE c \notin InService
    BY <1>1, <1>4, <2>1, SameCall, Zenon DEF PInv
  <2>2. CASE c \in InService
    <3>1. client[c] \notin {"idle", "ok"} /\ ProcessCallInv(c)
      BY <1>5, <2>2, Zenon DEF PInv, ProcessCallInv, Serving
    <3>2. server'[c] = "done" /\ client'[c] \in {client[c], "unavailable"} /\ client'[c] # "sent"
      BY <1>4, <2>2, Zenon
    <3> QED
      BY <3>1, <3>2, Zenon DEF ProcessCallInv
  <2> QED
    BY <2>1, <2>2, Zenon
<1>8. aborted' \subseteq Calls
  BY <1>1, Zenon DEF InService
<1>9. ProcessTypeOK'
  BY <1>1, <1>2, <1>4, <1>7, <1>8, Types, TypesAfter, Zenon
<1> QED
  BY <1>6, <1>7, <1>9, Zenon DEF PInv
-----------------------------------------------------------------------------
(* Theorems.                                                               *)

\* Nothing has been called at the start.
LEMMA InitInv ==
  ASSUME ProcessInit
  PROVE  PInv
<1>1. /\ clientToken \in ClientTokens
      /\ client = [c \in Calls |-> "idle"] /\ server = [c \in Calls |-> "none"]
      /\ batch = [c \in Calls |-> <<>>] /\ metadata = [c \in Calls |-> <<>>]
      /\ results = [c \in Calls |-> <<>>]
      /\ http = FALSE /\ events = {} /\ accepting = TRUE /\ aborted = {}
      /\ main = [at |-> "select", failed |-> FALSE, left |-> ShutdownBudget]
  BY Zenon DEF ProcessInit
<1>2. ShutdownBudget \in 0..ShutdownBudget /\ <<>> \in Seq(Nat)
  <2>1. ShutdownBudget \in Nat \ {0}
    BY WorkerAssumption, Zenon
  <2> QED
    BY <2>1
<1>3. main \in Mains
  BY <1>1, <1>2, Zenon DEF Mains
<1>4. main.at = "select"
  BY <1>1
<1>5. \A c \in Calls : client[c] = "idle" /\ server[c] = "none"
  BY <1>1, Zenon
<1>6. \A c \in Calls : ProcessCallInv(c)
  BY <1>5, Zenon DEF ProcessCallInv
<1>7. StopInv
  BY <1>1, <1>4, Zenon DEF StopInv
<1>8. ProcessTypeOK
  <2>1. /\ client \in [Calls -> Clients] /\ server \in [Calls -> Servers]
        /\ batch \in [Calls -> Batches \cup {<<>>}] /\ metadata \in [Calls -> Carried]
    BY <1>1, Zenon DEF Clients, Servers, Carried
  <2>2. results \in [Calls -> Seq(Nat)]
    BY <1>1, <1>2, Zenon
  <2> QED
    BY <1>1, <1>3, <1>5, <2>1, <2>2, Zenon DEF ProcessTypeOK, Clients, Servers, Carried, Mains
<1> QED
  BY <1>1, <1>6, <1>7, <1>8, Zenon DEF PInv

\* Every step keeps the invariant.
LEMMA NextInv ==
  ASSUME PInv, [ProcessNext]_<<processVars, clientToken>>
  PROVE  PInv'
<1>1. CASE ProcessNext
  <2>1. clientToken' = clientToken
    BY <1>1, Zenon DEF ProcessNext
  <2>2. ASSUME NEW c \in Calls,
               \/ \E b \in Batches, token \in CallerTokens : Infer(c, b, token)
               \/ Serve(c) \/ GiveUp(c)
        PROVE  PInv'
    BY <2>1, <2>2, InferStep, ScoreStep, EngineStep, ReplyStep, GiveUpStep, Zenon DEF Serve
  <2> QED
    BY <1>1, <2>1, <2>2, HttpStep, EventStep, SelectStep, ShutdownHttpStep, StopGrpcStep, ProcessTickStep,
       Zenon DEF ProcessNext, Main
<1>2. CASE UNCHANGED <<processVars, clientToken>>
  <2>1. /\ clientToken' = clientToken
        /\ UNCHANGED <<callVars, http, events, main, accepting, aborted>>
    BY <1>2, Zenon DEF processVars
  <2>2. StopInv'
    BY <2>1, Zenon DEF PInv, StopInv, callVars, Serving
  <2> QED
    BY <2>1, <2>2, Types, BesideCalls, Zenon
<1> QED
  BY <1>1, <1>2, Zenon

\* The invariant holds in every reachable state, for any number of calls, any batches
\* and tokens, and any budget.
THEOREM ProcessInvariant == ProcessSpec => []PInv
<1>1. ProcessInit => PInv
  BY InitInv
<1>2. PInv /\ [ProcessNext]_<<processVars, clientToken>> => PInv'
  BY NextInv
<1> QED
  BY <1>1, <1>2, PTL DEF ProcessSpec

\* validateResults and validateRPCRequests let a caller have only its own results, in
\* order and for requests the model takes, and a configured token is never refused.
THEOREM AnswersAreOwn == ProcessSpec => []OwnAnswer
<1>1. PInv => OwnAnswer
  BY Zenon DEF PInv, OwnAnswer, ProcessCallInv
<1> QED
  BY <1>1, ProcessInvariant, PTL

\* Shutdown cuts a call off only when the budget of shutdownCtx is used up, and
\* leaves no client waiting.
THEOREM ShutdownDrains == ProcessSpec => []StopDrainsCalls
<1>1. PInv => StopDrainsCalls
  BY Zenon DEF PInv, StopDrainsCalls, ProcessCallInv, StopInv
<1> QED
  BY <1>1, ProcessInvariant, PTL
=============================================================================
