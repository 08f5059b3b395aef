--------------------------- MODULE ServingGateway ---------------------------
(***************************************************************************)
(* The serving gateway, serving_plane/gateway and cmd/gateway: the handler *)
(* of POST /v1/score over the scheduler, and the process around it, from   *)
(* the startup probes to the exit.  The scheduler is the module Scheduler; *)
(* a request that has its features becomes one of its items.               *)
(*                                                                         *)
(* A request is the score a model gives it and what goes wrong with it.    *)
(* The feature store is an answer or an error within its timeout           *)
(* (FeatureStore), the engine an answer or an error (WorkerPool).  A       *)
(* handler's own steps take no time; reading a body takes any.             *)
(***************************************************************************)
EXTENDS Integers, Sequences, FiniteSets

CONSTANTS
  Requests,
  Scores,           \* the score of each request, and DenyScore, as integers
  DenyScore,
  Timeout,          \* cfg.Timeout
  FeatureTimeout,   \* cfg.FeatureTimeout
  ShutdownTimeout,  \* the 5 s main gives Shutdown
  MaxQueue, MaxBatch, MaxDelay, MaxClock, Unbounded, MaxCancels

ASSUME GatewayAssumption ==
  /\ Scores \in [Requests -> Int] /\ DenyScore \in Int
  /\ {Timeout, FeatureTimeout, ShutdownTimeout} \subseteq Nat \ {0}
  /\ FeatureTimeout <= Timeout /\ Timeout < ShutdownTimeout
  /\ {MaxQueue, MaxBatch, MaxDelay} \subseteq Nat \ {0}
  /\ MaxClock \in Nat /\ MaxClock >= MaxDelay
  /\ Unbounded \notin Int /\ MaxCancels \in Nat

VARIABLES
  closed, queue, pc, outcome, state, reply, dispatched, expiry, deadline,
  cancelled, clock, run, metrics, admitted, handled,  \* the scheduler
  at,          \* where the handler of each request is
  response,    \* what each request was answered
  got,         \* when the handler of a request asked for its features
  main,        \* main: where it is, serveFailed, and the end of shutdownCtx
  signalled,   \* SIGINT or SIGTERM came
  serveError,  \* the buffer of serveErrors
  connected,   \* the worker clients are open
  underway     \* history: the requests read when main left its select

schedulerVars ==
  <<closed, queue, pc, outcome, state, reply, dispatched, expiry, deadline,
    cancelled, clock, run, metrics, admitted, handled>>
handlerVars == <<at, response, got>>
mainVars == <<main, signalled, serveError, connected, underway>>
vars == <<schedulerVars, handlerVars, mainVars>>

\* A request has no deadline before its body is read.
S == INSTANCE Scheduler WITH Items <- Requests, Deadlines <- {Unbounded}

Init ==
  /\ S!Init
  /\ at = [r \in Requests |-> "new"]
  /\ response = [r \in Requests |-> "none"]
  /\ got = [r \in Requests |-> 0]
  /\ main = [at |-> "startup", failed |-> FALSE, end |-> 0]
  /\ signalled = FALSE /\ serveError = FALSE
  /\ connected = TRUE
  /\ underway = {}

Fallbacks == {"feature_unavailable", "queue_deadline", "worker_unavailable"}

TypeOK ==
  /\ at \in [Requests -> {"new", "read", "features", "submit", "done", "lost"}]
  /\ response \in [Requests -> {"none", "unauthorized", "invalid", "allow", "deny"} \cup Fallbacks]
  /\ got \in [Requests -> Nat]
  /\ \A r \in Requests : (response[r] # "none") = (at[r] = "done")
  /\ \A r \in Requests : pc[r] # "idle" => at[r] \in {"submit", "done", "lost"}
  /\ main \in [at : {"startup", "select", "shutdown", "close", "disconnect", "exited"},
               failed : BOOLEAN, end : Nat]
  /\ underway \subseteq Requests /\ {signalled, serveError, connected} \subseteq BOOLEAN
  /\ clock \in 0..MaxClock

-----------------------------------------------------------------------------
(* score.                                                                   *)

\* bound: there is clock left for a request that is read now.
TimeFor(t) == t + Timeout + MaxDelay <= MaxClock

InHandler == {r \in Requests : at[r] \in {"read", "features", "submit"}}

\* The listener is open: the server was started and not yet shut down.
Listening == main.at = "select" /\ ~serveError

Respond(r, what) ==
  /\ at' = [at EXCEPT ![r] = "done"]
  /\ response' = [response EXCEPT ![r] = what]

\* The server calls the handler, which refuses a caller it does not know.
Arrive(r) ==
  /\ at[r] = "new" /\ Listening
  /\ TimeFor(clock)
  /\ \/ Respond(r, "unauthorized")
     \/ at' = [at EXCEPT ![r] = "read"] /\ UNCHANGED response
  /\ UNCHANGED <<schedulerVars, got, mainVars>>

\* The body is there: refused, or the deadlines start and the features are asked for.
Read(r) ==
  /\ at[r] = "read"
  /\ TimeFor(clock)
  /\ \/ Respond(r, "invalid") /\ UNCHANGED <<deadline, got>>
     \/ /\ at' = [at EXCEPT ![r] = "features"]
        /\ deadline' = [deadline EXCEPT ![r] = clock + Timeout]
        /\ got' = [got EXCEPT ![r] = clock]
        /\ UNCHANGED response
  /\ UNCHANGED <<closed, queue, pc, outcome, state, reply, dispatched, expiry, cancelled,
                 clock, run, metrics, admitted, handled, mainVars>>

\* A fault: the store's error is waited for in vain, its context has no timeout.
FeaturesHang(r) ==
  /\ at[r] = "features"
  /\ clock < got[r] + FeatureTimeout /\ ~S!ContextDone(r)
  /\ at' = [at EXCEPT ![r] = "submit"]
  /\ UNCHANGED <<schedulerVars, response, got, mainVars>>

\* features.Get: a vector while the timeout lasts, or an error.
Features(r) ==
  /\ at[r] = "features"
  /\ \/ Respond(r, "feature_unavailable")
     \/ /\ clock < got[r] + FeatureTimeout /\ ~S!ContextDone(r)
        /\ at' = [at EXCEPT ![r] = "submit"]
        /\ UNCHANGED response
  /\ UNCHANGED <<schedulerVars, got, mainVars>>

\* scheduler.Submit, step by step.
Submit(r) ==
  /\ at[r] = "submit"
  /\ S!Begin(r) \/ S!Submit(r)
  /\ UNCHANGED <<handlerVars, mainVars>>

\* The reason respondFallback is given.
Reason(kind) == IF kind \in {"delay", "full"} THEN "queue_deadline" ELSE "worker_unavailable"

Decision(score) == IF score >= DenyScore THEN "deny" ELSE "allow"

\* Submit has returned: the decision, or the fallback, which denies.
Decide(r) ==
  /\ at[r] = "submit" /\ pc[r] = "returned"
  /\ Respond(r, IF outcome[r].kind = "value" THEN Decision(Scores[outcome[r].of])
                ELSE Reason(outcome[r].kind))
  /\ UNCHANGED <<schedulerVars, got, mainVars>>

Score(r) == Read(r) \/ Features(r) \/ Submit(r) \/ Decide(r)

\* The client goes away: net/http cancels r.Context().
Disconnect(r) ==
  /\ r \in InHandler
  /\ S!Cancel(r)
  /\ UNCHANGED <<handlerVars, mainVars>>

-----------------------------------------------------------------------------
(* main.                                                                    *)

\* The startup probes of the store and of the engine.
Startup ==
  /\ main.at = "startup"
  /\ \/ main' = [main EXCEPT !.at = "select"]
     \/ main' = [main EXCEPT !.at = "exited", !.failed = TRUE]
  /\ UNCHANGED <<schedulerVars, handlerVars, signalled, serveError, connected, underway>>

Signal ==
  /\ main.at = "select" /\ ~signalled /\ clock + ShutdownTimeout <= MaxClock
  /\ signalled' = TRUE
  /\ UNCHANGED <<schedulerVars, handlerVars, main, serveError, connected, underway>>

\* ListenAndServe returns an error.
ServeFails ==
  /\ main.at = "select" /\ ~serveError /\ clock + ShutdownTimeout <= MaxClock
  /\ serveError' = TRUE
  /\ UNCHANGED <<schedulerVars, handlerVars, main, signalled, connected, underway>>

\* The select's cases: the context is done, or the server failed.
SelectReady(failed) == IF failed THEN serveError ELSE signalled

LeaveSelect(failed) ==
  /\ main.at = "select"
  /\ SelectReady(failed)
  /\ main' = [at |-> "shutdown", failed |-> failed, end |-> clock + ShutdownTimeout]
  /\ underway' = {r \in InHandler : at[r] # "read"}
  /\ UNCHANGED <<schedulerVars, handlerVars, signalled, serveError, connected>>

\* A fault: the handlers are not waited for.
ShutdownAtOnce == TRUE

\* server.Shutdown returns: no handler is left, or the time is up.
ShutdownDone == InHandler = {} \/ clock >= main.end

\* os.Exit when the server failed, which abandons what is left; the deferred
\* calls otherwise.
Shutdown ==
  /\ main.at = "shutdown" /\ ShutdownDone
  /\ main' = [main EXCEPT !.at = IF main.failed THEN "exited" ELSE "close"]
  /\ at' = [r \in Requests |-> IF main.failed /\ r \in InHandler THEN "lost" ELSE at[r]]
  /\ UNCHANGED <<schedulerVars, response, got, signalled, serveError, connected, underway>>

\* service.Close.
Close ==
  /\ main.at = "close"
  /\ S!Close
  /\ main' = [main EXCEPT !.at = "disconnect"]
  /\ UNCHANGED <<handlerVars, signalled, serveError, connected, underway>>

\* The clients and the store are closed, and main returns.
Exit ==
  /\ main.at = "disconnect"
  /\ connected' = FALSE
  /\ main' = [main EXCEPT !.at = "exited"]
  /\ at' = [r \in Requests |-> IF r \in InHandler THEN "lost" ELSE at[r]]
  /\ UNCHANGED <<schedulerVars, response, got, signalled, serveError, underway>>

Main == Startup \/ LeaveSelect(TRUE) \/ LeaveSelect(FALSE) \/ Shutdown \/ Close \/ Exit

-----------------------------------------------------------------------------

Run == S!Run /\ UNCHANGED <<handlerVars, mainVars>>

\* Handlers and main that can go on do so before time passes.
Prompt(r) ==
  \/ at[r] \in {"new", "done", "lost"}
  \/ at[r] = "read" /\ TimeFor(clock + 1)
  \/ at[r] = "features" /\ clock < got[r] + FeatureTimeout
  \/ at[r] = "submit" /\ pc[r] \in {"select", "await"} /\ ~S!ContextDone(r)

Tick ==
  /\ S!Tick
  /\ InHandler # {}
  /\ \A r \in Requests : Prompt(r)
  /\ \/ main.at = "select" /\ ~signalled /\ ~serveError
     \/ main.at = "shutdown" /\ ~ShutdownDone
  /\ UNCHANGED <<handlerVars, mainVars>>

Next ==
  /\ main.at # "exited"
  /\ \/ \E r \in Requests : Arrive(r) \/ Score(r) \/ Disconnect(r)
     \/ Run
     \/ Main \/ Signal \/ ServeFails
     \/ Tick

Spec == Init /\ [][Next]_vars

\* Goroutines are scheduled, bodies arrive within ReadTimeout, the engine returns
\* within InferenceTimeout, and time passes; nobody has to call or to stop.
Fairness ==
  /\ \A r \in Requests : WF_vars(main.at # "exited" /\ Score(r))
  /\ WF_vars(main.at # "exited" /\ Run)
  /\ WF_vars(Main)
  /\ WF_vars(main.at # "exited" /\ Tick)

-----------------------------------------------------------------------------
(* Properties.                                                             *)

\* Nothing is allowed that the model did not score below DenyScore: errors, full
\* queues, timeouts, and results that batching could give to the wrong caller
\* included.  README.md: fallbacks "never silently allow a transaction".
FailClosed ==
  /\ TypeOK
  /\ \A r \in Requests : response[r] = "allow" =>
       Scores[r] < DenyScore /\ \E k \in 1..Len(handled) : handled[k] = r

\* The reason in the answer is true: a request answered queue_deadline was never
\* scored, so that the caller may retry; the engine saw no part of it.
QueueReasonTrue ==
  \A r \in Requests :
    response[r] = "queue_deadline" => \A k \in 1..Len(handled) : handled[k] # r

\* Stopping loses no request whose body had been read: Shutdown waits longer than
\* a request may take, so each has its answer before the scheduler is closed, and
\* none is answered that the scheduler is closed.
StopDrains ==
  \A r \in underway :
    /\ main.at \in {"close", "disconnect", "exited"} => at[r] = "done"
    /\ outcome[r].kind # "closed"

\* Nothing hangs: in the end no request is left in the handler, and a signal or the
\* failure of the server has ended the process.
NothingHangs ==
  <>[](main.at = "exited" \/ (InHandler = {} /\ ~signalled /\ ~serveError))
=============================================================================
