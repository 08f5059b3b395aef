------------------------- MODULE FeatureStoreProofs -------------------------
(***************************************************************************)
(* Proofs about FeatureStore, for every set of callers, keys and vectors,  *)
(* every configured store, every deadline and every timeout.               *)
(*                                                                         *)
(* Neither property is inductive.  StoreInv adds what a call in progress   *)
(* knows: what it may still see is in its history (Observed), a call that  *)
(* is not excused has a Redis that is up and holds a vector, the time left *)
(* exceeds what the primary may still use (TimeKept), and only an excused  *)
(* call with time to divide is ever handed to the local store (Divided).   *)
(***************************************************************************)
EXTENDS FeatureStore, TLAPS

Open(c) == call[c].at \in {"primary", "local"}

\* A call that has not returned has no answer.
Waiting(c) == call[c].at # "returned" => answer[c].kind = "none"

\* What a call in progress can see of the stores is in its history.
Observed(c) ==
  Open(c) =>
    /\ call[c].key \in Keys
    /\ {redis[call[c].key]} \cap Vectors \subseteq current[c].redis
    /\ {values[call[c].key]} \cap Vectors \subseteq current[c].local
    /\ c \notin excused => ~Poor(redis, mode, call[c].key)

\* Memory has no primary, and Redis alone has no local store.
Placed(c) ==
  /\ call[c].at = "primary" => store.kind # "memory"
  /\ call[c].at = "local" => store.kind # "redis"

\* A call that had time keeps some for the local store.
TimeKept(c) ==
  store.kind # "redis" /\ call[c].given > 0 =>
    /\ call[c].at = "primary" => call[c].left > call[c].due
    /\ call[c].at = "local" => call[c].left > 0

\* With two units or more the primary gets at least one of them.
Divided(c) ==
  store.kind = "fallback" /\ call[c].given > 1 =>
    /\ call[c].at = "primary" /\ c \notin excused => call[c].due > 0
    /\ call[c].at = "local" => c \in excused

\* What the properties say of one caller's answer.
Answered(c) ==
  /\ store.kind # "redis" /\ answer[c].kind = "context" => call[c].given = 0
  /\ c \notin excused /\ store.kind = "fallback" /\ call[c].given > 1 /\ answer[c].kind = "value"
       => answer[c].value \in current[c].redis
  /\ answer[c].kind = "value" => answer[c].value \in current[c].redis \cup current[c].local

CallInv(c) == Waiting(c) /\ Observed(c) /\ Placed(c) /\ TimeKept(c) /\ Divided(c) /\ Answered(c)

HistoryOK ==
  /\ current \in [Callers -> [redis : SUBSET Vectors, local : SUBSET Vectors]]
  /\ excused \subseteq Callers

StoreInv == TypeOK /\ store \in Stores /\ HistoryOK /\ \A c \in Callers : CallInv(c)

-----------------------------------------------------------------------------
(* The operators.                                                           *)

CallType ==
  [op : {"none", "get", "probe"}, at : {"idle", "primary", "local", "returned"},
   key : Keys \cup {Absent}, given : Nat, left : Nat, due : Nat]

AnswerType ==
  [kind : {"none", "value", "ok", "notfound", "context", "error"}, value : Vectors \cup {Absent}]

\* The smaller of two numbers.
LEMMA MinOfTwo ==
  ASSUME NEW a \in Nat, NEW b \in Nat
  PROVE  Min({a, b}) = IF a <= b THEN a ELSE b
<1>1. CASE a <= b
  <2>1. a \in {a, b} /\ \A y \in {a, b} : a <= y
    BY <1>1
  <2>2. \A x \in {a, b} : (\A y \in {a, b} : x <= y) => x = a
    BY <1>1
  <2> QED BY <1>1, <2>1, <2>2 DEF Min
<1>2. CASE ~(a <= b)
  <2>1. b \in {a, b} /\ \A y \in {a, b} : b <= y
    BY <1>2
  <2>2. \A x \in {a, b} : (\A y \in {a, b} : x <= y) => x = b
    BY <1>2
  <2> QED BY <1>2, <2>1, <2>2 DEF Min
<1> QED BY <1>1, <1>2

\* reserveFallbackBudget and the timeout: behind a fallback the primary's time is less
\* than a caller's that has any, and positive for a caller that can divide it.
LEMMA BudgetBounds ==
  ASSUME NEW left \in Nat
  PROVE  /\ PrimaryTime(left) \in Nat
         /\ store.kind = "fallback" /\ left > 0 => left > PrimaryTime(left)
         /\ store.kind = "fallback" /\ left > 1 => PrimaryTime(left) > 0
<1> DEFINE half == left \div 2
           given == IF store.kind = "fallback" THEN half ELSE left
<1>1. /\ half \in Nat
      /\ left > 0 => left > half
      /\ left > 1 => half > 0
  OBVIOUS
<1>2. Timeout \in Nat /\ Timeout > 0
  BY StoreAssumption
<1>3. given \in Nat
  BY <1>1
<1>4. PrimaryTime(left) = IF Timeout <= given THEN Timeout ELSE given
  BY <1>2, <1>3, MinOfTwo DEF PrimaryTime, ReserveFallbackBudget
<1>5. store.kind = "fallback" => given = half
  OBVIOUS
<1> HIDE DEF given, half
<1> QED BY <1>1, <1>2, <1>3, <1>4, <1>5

\* A call whose state, history and stores are as they were keeps its invariant.
LEMMA Undisturbed ==
  ASSUME NEW d \in Callers, CallInv(d), UNCHANGED <<store, storeVars>>,
         call'[d] = call[d], answer'[d] = answer[d], current'[d] = current[d],
         d \in excused' <=> d \in excused
  PROVE  CallInv(d)'
BY DEF CallInv, Waiting, Observed, Placed, TimeKept, Divided, Answered, Open, Poor, storeVars

\* What returning does to the caller.
LEMMA ReturnEffect ==
  ASSUME TypeOK, NEW c \in Callers, NEW kind, NEW value, Return(c, kind, value)
  PROVE  /\ call'[c] = [call[c] EXCEPT !.at = "returned", !.left = 0, !.due = 0]
         /\ answer'[c] = Answer(kind, value)
         /\ \A d \in Callers : d # c => call'[d] = call[d] /\ answer'[d] = answer[d]
BY DEF Return, TypeOK
-----------------------------------------------------------------------------
(* The steps of a call.                                                     *)

\* A call may return any answer that the properties allow it.
LEMMA ReturnStep ==
  ASSUME StoreInv, NEW c \in Callers,
         NEW kind \in {"none", "value", "ok", "notfound", "context", "error"},
         NEW value \in Vectors \cup {Absent},
         (kind = "value") = (value # Absent),
         Return(c, kind, value), UNCHANGED <<store, storeVars, historyVars>>,
         store.kind # "redis" /\ kind = "context" => call[c].given = 0,
         c \notin excused /\ store.kind = "fallback" /\ call[c].given > 1 /\ kind = "value"
           => value \in current[c].redis,
         kind = "value" => value \in current[c].redis \cup current[c].local
  PROVE  StoreInv'
<1>1. TypeOK
  BY DEF StoreInv
<1>2. /\ call'[c] = [call[c] EXCEPT !.at = "returned", !.left = 0, !.due = 0]
      /\ answer'[c] = Answer(kind, value)
      /\ \A d \in Callers : d # c => call'[d] = call[d] /\ answer'[d] = answer[d]
  BY <1>1, ReturnEffect, Zenon
<1>3. TypeOK'
  <2>1. Answer(kind, value) \in AnswerType
    BY DEF Answer, AnswerType
  <2>2. call[c] \in CallType
    BY <1>1 DEF TypeOK, CallType
  <2>3. [call[c] EXCEPT !.at = "returned", !.left = 0, !.due = 0] \in CallType
    BY <2>2, Zenon DEF CallType
  <2>4. call' \in [Callers -> CallType]
    BY <1>1, <2>3 DEF Return, TypeOK, CallType
  <2>5. answer' \in [Callers -> AnswerType]
    BY <1>1, <2>1 DEF Return, TypeOK, AnswerType
  <2>6. \A d \in Callers : (answer'[d].kind = "value") = (answer'[d].value # Absent)
    BY <1>1, <1>2 DEF Answer, TypeOK
  <2> QED BY <1>1, <2>4, <2>5, <2>6 DEF TypeOK, CallType, AnswerType, storeVars
<1>4. store' \in Stores /\ HistoryOK'
  BY DEF StoreInv, HistoryOK, historyVars
<1>5. CallInv(c)'
  <2>1. /\ call'[c].at = "returned" /\ call'[c].given = call[c].given
        /\ answer'[c].kind = kind /\ answer'[c].value = value
    BY <1>1, <1>2 DEF TypeOK, Answer
  <2> QED BY <2>1 DEF CallInv, Waiting, Observed, Placed, TimeKept, Divided, Answered, Open, historyVars
<1>6. \A d \in Callers : d # c => CallInv(d)'
  BY <1>2, Undisturbed DEF StoreInv, historyVars
<1> QED BY <1>3, <1>4, <1>5, <1>6 DEF StoreInv

\* Redis did not serve the call: the caller's context is over only for a call that was
\* given no time, and only an excused call with time to divide goes to the local store.
LEMMA NotServedStep ==
  ASSUME StoreInv, NEW c \in Callers, NEW kind \in {"notfound", "error"},
         call[c].at = "primary",
         store.kind = "fallback" /\ call[c].given > 1 => c \in excused,
         NotServed(c, kind), UNCHANGED <<store, storeVars, historyVars>>
  PROVE  StoreInv'
<1>1. TypeOK /\ call[c] \in CallType
  BY DEF StoreInv, TypeOK, CallType
<1>2. CallInv(c)
  BY DEF StoreInv
<1>3. CASE CtxDone(c)
  <2>1. Return(c, "context", Absent)
    BY <1>3 DEF NotServed
  <2>2. store.kind # "redis" => call[c].given = 0
    <3>1. call[c].left = 0 /\ call[c].due \in Nat /\ call[c].given \in Nat
      BY <1>1, <1>3 DEF CtxDone, CallType
    <3>2. store.kind # "redis" /\ call[c].given > 0 => call[c].left > call[c].due
      BY <1>2 DEF CallInv, TimeKept
    <3> QED BY <3>1, <3>2
  <2> QED BY <2>1, <2>2, ReturnStep
<1>4. CASE ~CtxDone(c) /\ store.kind = "redis"
  <2>1. Return(c, kind, Absent)
    BY <1>4 DEF NotServed
  <2> QED BY <2>1, ReturnStep
<1>5. CASE ~CtxDone(c) /\ store.kind # "redis"
  <2>1. call' = [call EXCEPT ![c].at = "local", ![c].due = 0] /\ answer' = answer
    BY <1>5 DEF NotServed
  <2>2. [call[c] EXCEPT !.at = "local", !.due = 0] \in CallType
    BY <1>1, Zenon DEF CallType
  <2>3. call' \in [Callers -> CallType]
    BY <1>1, <2>1, <2>2 DEF TypeOK, CallType
  <2>4. /\ call'[c] = [call[c] EXCEPT !.at = "local", !.due = 0]
        /\ \A d \in Callers : d # c => call'[d] = call[d]
    BY <1>1, <2>1 DEF TypeOK
  <2>5. TypeOK'
    BY <1>1, <2>1, <2>3 DEF TypeOK, CallType, storeVars
  <2>6. /\ call'[c].at = "local" /\ call'[c].key = call[c].key
        /\ call'[c].given = call[c].given /\ call'[c].left = call[c].left
    BY <1>1, <2>4 DEF CallType
  <2>7. call[c].left > 0
    BY <1>1, <1>5 DEF CtxDone, CallType
  <2>8. CallInv(c)'
    BY <1>2, <1>5, <2>1, <2>6, <2>7, Zenon
    DEF CallInv, Waiting, Observed, Placed, TimeKept, Divided, Answered, Open, Poor, storeVars, historyVars
  <2>9. \A d \in Callers : d # c => CallInv(d)'
    BY <2>1, <2>4, Undisturbed, Zenon DEF StoreInv, historyVars
  <2> QED BY <2>5, <2>8, <2>9 DEF StoreInv, HistoryOK, historyVars
<1> QED BY <1>3, <1>4, <1>5
\* Redis answers a call.
LEMMA RedisAnswersStep ==
  ASSUME StoreInv, NEW c \in Callers, RedisAnswers(c), UNCHANGED store
  PROVE  StoreInv'
<1> DEFINE held == redis[call[c].key]
<1>1. /\ call[c].at = "primary"
      /\ UNCHANGED <<store, storeVars, historyVars>>
      /\ IF call[c].op = "probe" THEN Return(c, "ok", Absent)
         ELSE IF Parses(held) THEN Return(c, "value", held)
         ELSE NotServed(c, IF held = Absent THEN "notfound" ELSE "error")
  BY DEF RedisAnswers
<1>2. Observed(c)
  BY DEF StoreInv, CallInv
<1>3. /\ held \in Vectors => held \in current[c].redis
      /\ c \notin excused => held \in Vectors
  BY <1>1, <1>2 DEF Observed, Open, Poor
<1>4. Absent \notin Vectors
  BY StoreAssumption
<1> HIDE DEF held
<1>5. CASE call[c].op = "probe"
  BY <1>1, <1>5, ReturnStep
<1>6. CASE call[c].op # "probe" /\ Parses(held)
  <2>1. Return(c, "value", held) /\ held \in Vectors /\ held # Absent
    BY <1>1, <1>4, <1>6 DEF Parses
  <2> QED BY <1>1, <1>3, <2>1, ReturnStep
<1>7. CASE call[c].op # "probe" /\ ~Parses(held)
  <2> DEFINE kind == IF held = Absent THEN "notfound" ELSE "error"
  <2>1. NotServed(c, kind) /\ kind \in {"notfound", "error"}
    BY <1>1, <1>7
  <2>2. c \in excused
    BY <1>3, <1>7 DEF Parses
  <2> HIDE DEF kind
  <2> QED BY <1>1, <2>1, <2>2, NotServedStep
<1> QED BY <1>5, <1>6, <1>7

\* Redis refuses a call, or the call stops waiting for it.
LEMMA RedisFailsStep ==
  ASSUME StoreInv, NEW c \in Callers, RedisFails(c), UNCHANGED store
  PROVE  StoreInv'
<1>1. /\ call[c].at = "primary" /\ NotServed(c, "error")
      /\ mode = "down" \/ TimedOut(c)
      /\ UNCHANGED <<store, storeVars, historyVars>>
  BY DEF RedisFails
<1>2. CallInv(c) /\ call[c] \in CallType
  BY DEF StoreInv, TypeOK, CallType
<1>3. ASSUME store.kind = "fallback", call[c].given > 1
      PROVE  c \in excused
  <2>1. CASE mode = "down"
    BY <1>1, <1>2, <2>1 DEF CallInv, Observed, Open, Poor
  <2>2. CASE TimedOut(c)
    <3>1. call[c].left > call[c].due
      BY <1>1, <1>2, <1>3 DEF CallInv, TimeKept, CallType
    <3>2. call[c].due = 0
      BY <1>2, <2>2, <3>1 DEF TimedOut, CtxDone, CallType
    <3> QED BY <1>1, <1>2, <1>3, <3>2 DEF CallInv, Divided
  <2> QED BY <1>1, <2>1, <2>2
<1> QED BY <1>1, <1>3, NotServedStep

\* The local store answers a call.
LEMMA LocalStep ==
  ASSUME StoreInv, NEW c \in Callers, Local(c), UNCHANGED store
  PROVE  StoreInv'
<1> DEFINE held == values[call[c].key]
<1>1. /\ call[c].at = "local"
      /\ UNCHANGED <<store, storeVars, historyVars>>
      /\ IF store.hasLocal /\ CtxDone(c) THEN Return(c, "context", Absent)
         ELSE IF call[c].op = "probe" THEN Return(c, "ok", Absent)
         ELSE IF store.hasLocal /\ held # Absent THEN Return(c, "value", held)
         ELSE Return(c, "notfound", Absent)
  BY DEF Local
<1>2. CallInv(c) /\ call[c] \in CallType /\ TypeOK
  BY DEF StoreInv, TypeOK, CallType
<1>3. held # Absent => held \in Vectors /\ held \in current[c].local
  BY <1>1, <1>2 DEF CallInv, Observed, Open, TypeOK
<1>4. CtxDone(c) /\ store.kind # "redis" => call[c].given = 0
  BY <1>1, <1>2 DEF CallInv, TimeKept, CtxDone, CallType
<1>5. store.kind = "fallback" /\ call[c].given > 1 => c \in excused
  BY <1>1, <1>2 DEF CallInv, Divided
<1> HIDE DEF held
<1>6. CASE Return(c, "context", Absent) /\ CtxDone(c)
  BY <1>1, <1>4, <1>6, ReturnStep
<1>7. CASE Return(c, "ok", Absent)
  BY <1>1, <1>7, ReturnStep
<1>8. CASE Return(c, "value", held) /\ held # Absent
  BY <1>1, <1>3, <1>5, <1>8, ReturnStep
<1>9. CASE Return(c, "notfound", Absent)
  BY <1>1, <1>9, ReturnStep
<1> QED BY <1>1, <1>6, <1>7, <1>8, <1>9

\* A call begins: its time is divided and its history starts with what is stored now.
LEMMA BeginStep ==
  ASSUME StoreInv, NEW c \in Callers, NEW op \in {"get", "probe"}, NEW k \in Keys,
         NEW left \in Deadlines, Begin(c, op, k, left), UNCHANGED store
  PROVE  StoreInv'
<1> DEFINE place == IF store.kind = "memory" THEN "local" ELSE "primary"
           begun == [op |-> op, at |-> place, key |-> k, given |-> left, left |-> left,
                     due |-> PrimaryTime(left)]
<1>1. TypeOK /\ left \in Nat /\ PrimaryTime(left) \in Nat
  BY StoreAssumption, BudgetBounds DEF StoreInv
<1>2. begun \in CallType /\ place \in {"local", "primary"}
  BY <1>1 DEF CallType
<1>3. /\ call' \in [Callers -> CallType] /\ call'[c] = begun
      /\ \A d \in Callers : d # c => call'[d] = call[d]
  BY <1>1, <1>2 DEF Begin, TypeOK, CallType
<1>4. UNCHANGED <<store, storeVars, answer>> /\ call[c].at = "idle"
  BY DEF Begin
<1>5. TypeOK'
  BY <1>1, <1>3, <1>4 DEF TypeOK, CallType, storeVars
<1>6. /\ current' \in [Callers -> [redis : SUBSET Vectors, local : SUBSET Vectors]]
      /\ current'[c] = Holds(redis, values, k)
      /\ \A d \in Callers : d # c => current'[d] = current[d]
  <2>1. Holds(redis, values, k) \in [redis : SUBSET Vectors, local : SUBSET Vectors]
    BY DEF Holds
  <2>2. current \in [Callers -> [redis : SUBSET Vectors, local : SUBSET Vectors]]
    BY DEF StoreInv, HistoryOK
  <2> QED BY <2>1, <2>2 DEF Begin
<1>7. /\ excused' \subseteq Callers
      /\ c \notin excused' => ~Poor(redis, mode, k)
      /\ \A d \in Callers : d # c => (d \in excused' <=> d \in excused)
  BY DEF Begin, StoreInv, HistoryOK
<1>8. CallInv(c)'
  <2>1. answer[c].kind = "none"
    BY <1>4 DEF StoreInv, CallInv, Waiting
  <2>2. /\ call'[c].at = place /\ call'[c].key = k /\ call'[c].given = left
        /\ call'[c].left = left /\ call'[c].due = PrimaryTime(left)
    BY <1>3
  <2>3. store.kind \in {"redis", "fallback", "memory"}
    BY StoreAssumption DEF StoreInv
  <2>4. Observed(c)'
    BY <1>4, <1>6, <1>7, <2>2 DEF Observed, Holds, Poor, storeVars
  <2>5. Placed(c)'
    BY <1>4, <2>2, <2>3 DEF Placed
  <2>6. TimeKept(c)'
    BY <1>1, <1>4, <2>2, <2>3, BudgetBounds DEF TimeKept
  <2>7. Divided(c)'
    BY <1>1, <1>4, <2>2, <2>3, BudgetBounds DEF Divided
  <2> HIDE DEF place, begun
  <2> QED BY <1>4, <2>1, <2>4, <2>5, <2>6, <2>7 DEF CallInv, Waiting, Answered
<1>9. \A d \in Callers : d # c => CallInv(d)'
  BY <1>3, <1>4, <1>6, <1>7, Undisturbed DEF StoreInv
<1> QED BY <1>4, <1>5, <1>6, <1>7, <1>8, <1>9 DEF StoreInv, HistoryOK
-----------------------------------------------------------------------------
(* The environment's steps.                                                 *)

\* A change of the stores or of Redis's mode that the calls in progress observe.
LEMMA ObserveStep ==
  ASSUME StoreInv, Observe, UNCHANGED <<store, call, answer>>,
         redis' \in [Keys -> Vectors \cup {Absent, Garbled}],
         values' \in [Keys -> Vectors \cup {Absent}],
         mode' \in {"up", "down", "stalled"}
  PROVE  StoreInv'
<1> DEFINE seen(d) == Holds(redis', values', call[d].key)
           both(d) == [redis |-> current[d].redis \cup seen(d).redis,
                       local |-> current[d].local \cup seen(d).local]
<1>1. TypeOK'
  BY Zenon DEF StoreInv, TypeOK
<1>2. current \in [Callers -> [redis : SUBSET Vectors, local : SUBSET Vectors]]
  BY DEF StoreInv, HistoryOK
<1>3. \A d \in Callers :
        current'[d] = IF Open(d) THEN both(d) ELSE current[d]
  BY DEF Observe, Open
<1>4. \A d \in Callers :
        /\ d \in excused => d \in excused'
        /\ Open(d) /\ d \notin excused' => ~Poor(redis', mode', call[d].key)
        /\ ~Open(d) /\ d \notin excused => d \notin excused'
  BY DEF Observe, Open
<1>5. HistoryOK'
  <2>1. \A d \in Callers : seen(d) \in [redis : SUBSET Vectors, local : SUBSET Vectors]
    BY DEF Holds
  <2>2. \A d \in Callers : current'[d] \in [redis : SUBSET Vectors, local : SUBSET Vectors]
    <3> SUFFICES ASSUME NEW d \in Callers
                 PROVE  current'[d] \in [redis : SUBSET Vectors, local : SUBSET Vectors]
      OBVIOUS
    <3>1. /\ current[d] \in [redis : SUBSET Vectors, local : SUBSET Vectors]
          /\ current'[d] = IF Open(d) THEN both(d) ELSE current[d]
      BY <1>2, <1>3
    <3>2. both(d) \in [redis : SUBSET Vectors, local : SUBSET Vectors]
      <4>1. /\ current[d].redis \in SUBSET Vectors /\ current[d].local \in SUBSET Vectors
            /\ seen(d).redis \in SUBSET Vectors /\ seen(d).local \in SUBSET Vectors
        BY <2>1, <3>1
      <4> HIDE DEF seen
      <4> QED BY <4>1
    <3> HIDE DEF both
    <3> QED BY <3>1, <3>2
  <2>3. current' = [d \in Callers |-> current'[d]]
    BY DEF Observe
  <2>4. excused' \subseteq Callers
    BY DEF Observe, StoreInv, HistoryOK
  <2> QED BY <2>2, <2>3, <2>4 DEF HistoryOK
<1>6. ASSUME NEW d \in Callers
      PROVE  CallInv(d)'
  <2>1. CallInv(d)
    BY DEF StoreInv
  <2>2. current[d].redis \subseteq current'[d].redis /\ current[d].local \subseteq current'[d].local
    <3>1. /\ both(d).redis = current[d].redis \cup seen(d).redis
          /\ both(d).local = current[d].local \cup seen(d).local
      BY Zenon
    <3> HIDE DEF both, seen
    <3> QED BY <1>3, <3>1
  <2>3. Open(d) => seen(d).redis \subseteq current'[d].redis /\ seen(d).local \subseteq current'[d].local
    <3>1. /\ both(d).redis = current[d].redis \cup seen(d).redis
          /\ both(d).local = current[d].local \cup seen(d).local
      BY Zenon
    <3> HIDE DEF both, seen
    <3> QED BY <1>3, <3>1
  <2>4. Observed(d)'
    BY <1>4, <2>1, <2>3 DEF CallInv, Observed, Open, Holds
  <2>5. Waiting(d)' /\ Placed(d)' /\ TimeKept(d)'
    BY <2>1 DEF CallInv, Waiting, Placed, TimeKept
  <2>6. Divided(d)'
    BY <1>4, <2>1 DEF CallInv, Divided
  <2>7. Answered(d)'
    BY <1>4, <2>1, <2>2 DEF CallInv, Answered
  <2> QED BY <2>4, <2>5, <2>6, <2>7 DEF CallInv
<1> QED BY <1>1, <1>5, <1>6 DEF StoreInv

\* Time passes: only calls that wait for a stalled Redis can notice.
LEMMA TickStep ==
  ASSUME StoreInv, Tick, UNCHANGED store
  PROVE  StoreInv'
<1>1. /\ \A d \in Callers : call[d].at = "primary" => mode = "stalled" /\ call[d].due > 0
      /\ \A d \in Callers : call[d].at # "local"
      /\ call' = [d \in Callers |-> [call[d] EXCEPT !.left = Less(@), !.due = Less(@)]]
      /\ UNCHANGED <<storeVars, answer, historyVars>>
  BY Zenon DEF Tick
<1>2. \A t \in Nat : Less(t) \in Nat /\ (t > 0 => Less(t) = t - 1)
  BY DEF Less
<1>3. \A d \in Callers : call[d] \in CallType
  BY DEF StoreInv, TypeOK, CallType
<1>4. \A d \in Callers :
        /\ call'[d] \in CallType
        /\ call'[d].at = call[d].at /\ call'[d].key = call[d].key /\ call'[d].given = call[d].given
        /\ call'[d].left = Less(call[d].left) /\ call'[d].due = Less(call[d].due)
  BY <1>1, <1>2, <1>3, Zenon DEF CallType
<1>5. TypeOK'
  <2>1. call' \in [Callers -> CallType]
    BY <1>1, <1>4, Zenon
  <2> QED BY <1>1, <2>1, Zenon DEF StoreInv, TypeOK, CallType, storeVars
<1>6. ASSUME NEW d \in Callers
      PROVE  CallInv(d)'
  <2>1. CallInv(d) /\ call[d] \in CallType
    BY <1>3 DEF StoreInv
  <2>2. /\ call'[d].at = call[d].at /\ call'[d].key = call[d].key /\ call'[d].given = call[d].given
        /\ call'[d].left = Less(call[d].left) /\ call'[d].due = Less(call[d].due)
        /\ call[d].at # "local"
        /\ call[d].at = "primary" => mode = "stalled" /\ call[d].due > 0
    BY <1>1, <1>4, Zenon
  <2>3. Waiting(d)' /\ Placed(d)' /\ Answered(d)'
    BY <1>1, <2>1, <2>2, Zenon DEF CallInv, Waiting, Placed, Answered, historyVars
  <2>4. Observed(d)'
    BY <1>1, <2>1, <2>2, Zenon DEF CallInv, Observed, Open, Poor, storeVars, historyVars
  <2>5. call[d].at = "primary" => d \in excused
    BY <2>1, <2>2 DEF CallInv, Observed, Open, Poor
  <2>6. Divided(d)'
    BY <1>1, <2>2, <2>5, Zenon DEF Divided, historyVars
  <2>7. TimeKept(d)'
    <3>1. call[d].at = "primary" /\ call[d].left > call[d].due
            => Less(call[d].left) > Less(call[d].due)
      BY <1>2, <2>1, <2>2 DEF CallType
    <3> QED BY <2>1, <2>2, <3>1 DEF CallInv, TimeKept
  <2> QED BY <2>3, <2>4, <2>6, <2>7 DEF CallInv
<1> QED BY <1>1, <1>5, <1>6, Zenon DEF StoreInv, HistoryOK, historyVars

-----------------------------------------------------------------------------
(* The theorems.                                                            *)

\* Every step, of a caller or of the environment, keeps the invariant.
LEMMA NextStoreInv ==
  ASSUME StoreInv, [Next]_<<vars, store>>
  PROVE  StoreInv'
<1>1. CASE UNCHANGED <<vars, store>>
  <2>1. UNCHANGED <<store, storeVars, call, answer, current, excused>>
    BY <1>1 DEF vars
  <2>2. \A d \in Callers : CallInv(d)'
    BY <2>1, Undisturbed, Zenon DEF StoreInv
  <2>3. TypeOK'
    BY <2>1, Zenon DEF StoreInv, TypeOK, storeVars
  <2> QED BY <2>1, <2>2, <2>3 DEF StoreInv, HistoryOK
<1>2. ASSUME Next PROVE StoreInv'
  <2>1. UNCHANGED store
    BY <1>2 DEF Next
  <2>2. ASSUME NEW c \in Callers, NEW op \in {"get", "probe"}, NEW k \in Keys,
               NEW left \in Deadlines, Begin(c, op, k, left)
        PROVE  StoreInv'
    BY <2>1, <2>2, BeginStep
  <2>3. ASSUME NEW c \in Callers, Step(c)
        PROVE  StoreInv'
    BY <2>1, <2>3, RedisAnswersStep, RedisFailsStep, LocalStep DEF Step
  <2>4. ASSUME NEW k \in Keys, NEW v \in Vectors \cup {Garbled}, Set(k, v) \/ Put(k, v)
        PROVE  StoreInv'
    <3>1. /\ redis' \in [Keys -> Vectors \cup {Absent, Garbled}]
          /\ values' \in [Keys -> Vectors \cup {Absent}]
      BY <2>4 DEF Set, Put, StoreInv, TypeOK
    <3>2. /\ mode' \in {"up", "down", "stalled"}
          /\ Observe /\ UNCHANGED <<call, answer>>
      BY <2>4 DEF Set, Put, StoreInv, TypeOK
    <3> QED BY <2>1, <3>1, <3>2, ObserveStep
  <2>5. ASSUME NEW m \in {"up", "down", "stalled"}, Change(m)
        PROVE  StoreInv'
    <3>1. /\ redis' \in [Keys -> Vectors \cup {Absent, Garbled}]
          /\ values' \in [Keys -> Vectors \cup {Absent}]
          /\ mode' \in {"up", "down", "stalled"}
          /\ Observe /\ UNCHANGED <<call, answer>>
      BY <2>5 DEF Change, StoreInv, TypeOK
    <3> QED BY <2>1, <3>1, ObserveStep
  <2>6. CASE Tick
    BY <2>1, <2>6, TickStep
  <2> QED BY <1>2, <2>2, <2>3, <2>4, <2>5, <2>6 DEF Next
<1> QED BY <1>1, <1>2

\* The initial states satisfy the invariant: no call has begun.
LEMMA InitStoreInv == Init => StoreInv
<1> SUFFICES ASSUME Init PROVE StoreInv
  OBVIOUS
<1>1. NoCall \in CallType /\ Answer("none", Absent) \in AnswerType
  BY DEF NoCall, Answer, CallType, AnswerType
<1>2. \A c \in Callers : call[c] = NoCall /\ answer[c] = Answer("none", Absent)
  BY DEF Init
<1>3. TypeOK
  <2>1. \A c \in Callers : (answer[c].kind = "value") = (answer[c].value # Absent)
    BY <1>2 DEF Answer
  <2>2. call \in [Callers -> CallType] /\ answer \in [Callers -> AnswerType]
    BY <1>1 DEF Init
  <2>3. /\ redis \in [Keys -> Vectors \cup {Absent, Garbled}]
        /\ values \in [Keys -> Vectors \cup {Absent}]
        /\ mode \in {"up", "down", "stalled"}
    BY DEF Init
  <2> QED BY <2>1, <2>2, <2>3 DEF TypeOK, CallType, AnswerType
<1>4. HistoryOK
  BY DEF Init, HistoryOK
<1>5. ASSUME NEW c \in Callers
      PROVE  CallInv(c)
  <2>1. call[c].at = "idle" /\ answer[c].kind = "none"
    BY <1>2 DEF NoCall, Answer
  <2> QED BY <2>1 DEF CallInv, Waiting, Observed, Placed, TimeKept, Divided, Answered, Open
<1> QED BY <1>3, <1>4, <1>5 DEF Init, StoreInv

\* The inductive invariant of the feature store.
THEOREM StoreInvariant == Spec => []StoreInv
<1>1. Init => StoreInv
  BY InitStoreInv
<1>2. StoreInv /\ [Next]_<<vars, store>> => StoreInv'
  BY NextStoreInv
<1> QED BY <1>1, <1>2, PTL DEF Spec

\* Fallback divides the caller's time, for every deadline, timeout, number of callers and
\* history of writes and outages: a call that had time is never answered with a timeout, and
\* the local copy is never served behind the back of a Redis that is up and has a vector.
THEOREM BudgetIsDivided == Spec => []BudgetDivided
<1>1. StoreInv => BudgetDivided
  BY DEF StoreInv, CallInv, Answered, BudgetDivided
<1> QED BY <1>1, StoreInvariant, PTL

\* Get returns only vectors that a store held, whole, at some time during the call.
THEOREM ValuesWereStored == Spec => []ValueWasStored
<1>1. StoreInv => ValueWasStored
  BY DEF StoreInv, CallInv, Answered, ValueWasStored
<1> QED BY <1>1, StoreInvariant, PTL
=============================================================================
