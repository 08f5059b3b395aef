---------------------------- MODULE FeatureStore ----------------------------
(***************************************************************************)
(* The gateway's feature store, serving_plane/feature_store: Redis with a  *)
(* timeout, a local Memory, and Fallback, which gives the primary at most  *)
(* half of the caller's remaining time before it turns to the local store. *)
(* Calls of Get and Probe run while others write to both stores.           *)
(*                                                                         *)
(* A value is a whole feature vector; Redis may also hold text that is not *)
(* one.  Times are the units left.  Redis is external: it answers at once, *)
(* refuses, or stalls until a timeout.  Local steps take no time.          *)
(***************************************************************************)
EXTENDS Integers, FiniteSets, FiniteSetsExt

CONSTANTS
  Callers, Keys, Vectors,
  Stores,        \* what may be configured: "redis" (production), "memory" or
                 \* "fallback" (development), with or without a local store
  Deadlines,     \* times a caller's context may leave
  Timeout,       \* r.timeout
  MaxWrites,     \* bound: writes to either store, and changes of Redis's mode
  Absent, Garbled

ASSUME StoreAssumption ==
  /\ Stores \subseteq [kind : {"redis", "fallback", "memory"}, hasLocal : BOOLEAN]
  /\ Deadlines \subseteq Nat /\ Timeout \in Nat \ {0} /\ MaxWrites \in Nat
  /\ Absent # Garbled /\ {Absent, Garbled} \cap Vectors = {}

VARIABLES
  store,     \* the configured store, which never changes
  redis,     \* what Redis holds for each key
  values,    \* Memory.values
  mode,      \* Redis: "up", "down" or "stalled"
  call,      \* each caller's call and its variables
  answer,    \* what each call returned
  writes,
  current,   \* history: what either store held for the key during the call
  excused    \* history: calls during which Redis was not up or held no vector

storeVars == <<redis, values, mode>>
vars == <<storeVars, call, answer, writes, current, excused>>
historyVars == <<current, excused>>

NoCall == [op |-> "none", at |-> "idle", key |-> Absent, given |-> 0, left |-> 0, due |-> 0]
Answer(kind, value) == [kind |-> kind, value |-> value]

Init ==
  /\ store \in Stores
  /\ redis \in [Keys -> {Absent} \cup Vectors]
  /\ values = [k \in Keys |-> Absent]
  /\ mode \in {"up", "stalled"}
  /\ call = [c \in Callers |-> NoCall]
  /\ answer = [c \in Callers |-> Answer("none", Absent)]
  /\ writes = 0
  /\ current = [c \in Callers |-> [redis |-> {}, local |-> {}]] /\ excused = {}

TypeOK ==
  /\ redis \in [Keys -> Vectors \cup {Absent, Garbled}]
  /\ values \in [Keys -> Vectors \cup {Absent}]
  /\ mode \in {"up", "down", "stalled"}
  /\ call \in [Callers -> [op : {"none", "get", "probe"}, at : {"idle", "primary", "local", "returned"},
                           key : Keys \cup {Absent}, given : Nat, left : Nat, due : Nat]]
  /\ answer \in [Callers -> [kind : {"none", "value", "ok", "notfound", "context", "error"},
                             value : Vectors \cup {Absent}]]
  /\ \A c \in Callers : (answer[c].kind = "value") = (answer[c].value # Absent)

-----------------------------------------------------------------------------
(* Get and Probe: of Redis, of Fallback, and of Memory, its local step.     *)

CtxDone(c) == call[c].left = 0

Return(c, kind, value) ==
  /\ call' = [call EXCEPT ![c].at = "returned", ![c].left = 0, ![c].due = 0]
  /\ answer' = [answer EXCEPT ![c] = Answer(kind, value)]

\* A fault: the primary may use the time to the last unit.
ReserveNothing(left) == left

\* reserveFallbackBudget: half of what is left, unless nothing is left.
ReserveFallbackBudget(left) == left \div 2

PrimaryTime(left) ==
  Min({Timeout, IF store.kind = "fallback" THEN ReserveFallbackBudget(left) ELSE left})

\* What a call for the key may see in the state with these stores.
Holds(r, v, k) == [redis |-> {r[k]} \cap Vectors, local |-> {v[k]} \cap Vectors]
Poor(r, m, k) == m # "up" \/ r[k] \notin Vectors

Begin(c, op, k, left) ==
  /\ call[c].at = "idle"
  /\ call' = [call EXCEPT ![c] =
       [op |-> op, at |-> IF store.kind = "memory" THEN "local" ELSE "primary", key |-> k,
        given |-> left, left |-> left, due |-> PrimaryTime(left)]]
  /\ current' = [current EXCEPT ![c] = Holds(redis, values, k)]
  /\ excused' = IF Poor(redis, mode, k) THEN excused \cup {c} ELSE excused
  /\ UNCHANGED <<storeVars, answer, writes>>

\* Redis did not serve the call: its error, the caller's context, or the local store.
NotServed(c, kind) ==
  IF CtxDone(c) THEN Return(c, "context", Absent)
  ELSE IF store.kind = "redis" THEN Return(c, kind, Absent)
  ELSE call' = [call EXCEPT ![c].at = "local", ![c].due = 0] /\ UNCHANGED answer

\* A fault: the text is not checked.
ParsesAnything(held) == held # Absent

\* The text in Redis is a vector of the width, all of its numbers finite.
Parses(held) == held \in Vectors

\* Redis answers: a vector is returned, nothing or no vector is an error.
RedisAnswers(c) ==
  LET held == redis[call[c].key]
  IN  /\ call[c].at = "primary" /\ ~CtxDone(c) /\ mode = "up"
      /\ IF call[c].op = "probe" THEN Return(c, "ok", Absent)
         ELSE IF Parses(held) THEN Return(c, "value", held)
         ELSE NotServed(c, IF held = Absent THEN "notfound" ELSE "error")
      /\ UNCHANGED <<storeVars, writes, historyVars>>

TimedOut(c) == call[c].due = 0 \/ CtxDone(c)

\* Redis refuses, or does not answer in time.
RedisFails(c) ==
  /\ call[c].at = "primary"
  /\ mode = "down" \/ TimedOut(c)
  /\ NotServed(c, "error")
  /\ UNCHANGED <<storeVars, writes, historyVars>>

\* Memory.Get and Memory.Probe; without a local store the key is not found and a
\* probe is content.
Local(c) ==
  LET found == store.hasLocal /\ values[call[c].key] # Absent
  IN  /\ call[c].at = "local"
      /\ IF store.hasLocal /\ CtxDone(c) THEN Return(c, "context", Absent)
         ELSE IF call[c].op = "probe" THEN Return(c, "ok", Absent)
         ELSE IF found THEN Return(c, "value", values[call[c].key])
         ELSE Return(c, "notfound", Absent)
      /\ UNCHANGED <<storeVars, writes, historyVars>>

Step(c) == RedisAnswers(c) \/ RedisFails(c) \/ Local(c)

-----------------------------------------------------------------------------
(* The environment: writers, Redis, time.                                   *)

Write == writes < MaxWrites /\ writes' = writes + 1

\* The history of the calls in progress when the stores have changed.
Observe ==
  LET open == {c \in Callers : call[c].at \in {"primary", "local"}}
      seen(c) == Holds(redis', values', call[c].key)
  IN  /\ current' = [c \in Callers |-> IF c \in open
                       THEN [redis |-> current[c].redis \cup seen(c).redis,
                             local |-> current[c].local \cup seen(c).local]
                       ELSE current[c]]
      /\ excused' = excused \cup {c \in open : Poor(redis', mode', call[c].key)}

\* The stream processor's SET, or anything else in Redis.
Set(k, v) ==
  /\ Write
  /\ redis' = [redis EXCEPT ![k] = v]
  /\ UNCHANGED <<values, mode, call, answer>>
  /\ Observe

\* Memory.Put takes finite vectors of the right width only.
Put(k, v) ==
  /\ Write
  /\ v \in Vectors
  /\ values' = [values EXCEPT ![k] = v]
  /\ UNCHANGED <<redis, mode, call, answer>>
  /\ Observe

Change(m) ==
  /\ Write
  /\ mode' = m /\ m # mode
  /\ UNCHANGED <<redis, values, call, answer>>
  /\ Observe

Less(t) == IF t = 0 THEN 0 ELSE t - 1

\* Time passes while every call waits for Redis.
Tick ==
  /\ \A c \in Callers : call[c].at = "primary" => mode = "stalled" /\ call[c].due > 0
  /\ \A c \in Callers : call[c].at # "local"
  /\ call' = [c \in Callers |-> [call[c] EXCEPT !.left = Less(@), !.due = Less(@)]]
  /\ UNCHANGED <<storeVars, answer, writes, historyVars>>

Next ==
  /\ UNCHANGED store
  /\ \/ \E c \in Callers :
          \/ \E op \in {"get", "probe"}, k \in Keys, left \in Deadlines : Begin(c, op, k, left)
          \/ Step(c)
     \/ \E k \in Keys, v \in Vectors \cup {Garbled} : Set(k, v) \/ Put(k, v)
     \/ \E m \in {"up", "down", "stalled"} : Change(m)
     \/ Tick

Spec == Init /\ [][Next]_<<vars, store>>

-----------------------------------------------------------------------------
(* Properties.                                                             *)

\* Fallback divides the caller's time.  A stalled Redis does not use up the local
\* store's chance: a call that had time at its beginning is not answered with a
\* timeout, as reserveFallbackBudget says.  And the local copy is not served behind
\* the back of a Redis that has a vector and answers: not by the budget, and not by a
\* race with writers of either store.
BudgetDivided ==
  /\ store.kind # "redis" =>
       \A c \in Callers : answer[c].kind = "context" => call[c].given = 0
  /\ \A c \in Callers \ excused :
       store.kind = "fallback" /\ call[c].given > 1 /\ answer[c].kind = "value"
         => answer[c].value \in current[c].redis

\* A vector returned was in a store, whole, at some time during the call: never
\* text that is not a vector, and never one from before the call.
ValueWasStored ==
  /\ TypeOK
  /\ \A c \in Callers : answer[c].kind = "value" => answer[c].value \in current[c].redis \cup current[c].local

=============================================================================
