------------------------- MODULE ServingGatewayProofs -------------------------
(* The gateway's safety, for any requests, scores, timeouts and bounds: from  *)
(* the invariant of the scheduler (SchedulerProofs) and one of the gateway.   *)
EXTENDS ServingGateway, TLAPS

\* What was answered is what Submit returned.
Answered ==
  \A r \in Requests :
    /\ response[r] = "allow" => outcome[r].kind = "value" /\ Scores[outcome[r].of] < DenyScore
    /\ response[r] = "queue_deadline" => outcome[r].kind \in {"delay", "full"}

\* A request whose body was read is answered by its deadline, and main's shutdown
\* does not give up before that.
InTime ==
  /\ \A r \in Requests : at[r] \in {"features", "submit"} =>
       got[r] <= clock /\ deadline[r] = got[r] + Timeout /\ clock <= deadline[r]
  /\ main.at \in {"startup", "select"} => underway = {}
  /\ main.at = "shutdown" =>
       \A r \in underway : /\ at[r] \in {"features", "submit", "done"}
                           /\ at[r] # "done" => deadline[r] < main.end
  /\ main.at \in {"close", "disconnect", "exited"} => \A r \in underway : at[r] = "done"

\* The scheduler is closed by main alone, and ErrClosed comes after that.
Closing ==
  /\ closed => main.at \in {"disconnect", "exited"}
  /\ \A r \in Requests : outcome[r].kind = "closed" => closed
  /\ \A r \in underway : outcome[r].kind # "closed"

Own == TypeOK /\ Answered /\ InTime /\ Closing

-----------------------------------------------------------------------------
(* The gateway's steps.                                                     *)

\* What the types say of the variables of the handlers.
LEMMA HandlerTypes ==
  ASSUME TypeOK
  PROVE  /\ at \in [Requests -> {"new", "read", "features", "submit", "done", "lost"}]
         /\ response \in [Requests -> {"none", "unauthorized", "invalid", "allow", "deny"}
                                        \cup Fallbacks]
         /\ got \in [Requests -> Nat]
         /\ \A r \in Requests : response[r] # "none" <=> at[r] = "done"
         /\ \A r \in Requests : pc[r] # "idle" => at[r] \in {"submit", "done", "lost"}
BY Zenon DEF TypeOK

\* And of main's.
LEMMA MainTypes ==
  ASSUME TypeOK
  PROVE  /\ main.at \in {"startup", "select", "shutdown", "close", "disconnect", "exited"}
         /\ main.failed \in BOOLEAN /\ main.end \in Nat
         /\ underway \subseteq Requests
         /\ clock \in Nat /\ clock + ShutdownTimeout \in Nat
         /\ {Timeout, FeatureTimeout, ShutdownTimeout} \subseteq Nat \ {0}
         /\ FeatureTimeout <= Timeout /\ Timeout < ShutdownTimeout
BY GatewayAssumption DEF TypeOK

\* The goroutine's steps, and the loss of a client, change nothing of it.
LEMMA QuietStep ==
  ASSUME Own, UNCHANGED <<closed, pc, outcome, deadline, clock, handlerVars, mainVars>>
  PROVE  Own'
BY Zenon DEF Own, TypeOK, Answered, InTime, Closing, handlerVars, mainVars

\* A step of Submit.
LEMMA SubmitStep ==
  ASSUME Own, NEW r \in Requests, Submit(r),
         UNCHANGED <<closed, deadline, clock>>,
         \A q \in Requests : q # r => pc'[q] = pc[q] /\ outcome'[q] = outcome[q],
         outcome'[r].kind = "closed" => closed \/ outcome'[r] = outcome[r]
  PROVE  Own'
<1>1. at[r] = "submit" /\ UNCHANGED <<handlerVars, mainVars>>
  BY Zenon DEF Submit
<1>2. UNCHANGED <<at, response, got, main, signalled, serveError, connected, underway>>
  BY <1>1, Zenon DEF handlerVars, mainVars
<1>3. response[r] = "none"
  BY <1>1, HandlerTypes DEF Own
<1>4. TypeOK'
  <2>1. \A q \in Requests : pc'[q] # "idle" => at[q] \in {"submit", "done", "lost"}
    BY <1>1, HandlerTypes DEF Own
  <2> QED
    BY <1>1, <1>2, <2>1, Zenon DEF Own, TypeOK
<1>5. Answered'
  <2> SUFFICES ASSUME NEW q \in Requests, response[q] \in {"allow", "queue_deadline"}
               PROVE  outcome'[q] = outcome[q]
    BY <1>2, Zenon DEF Own, Answered
  <2> QED
    BY <1>1, <1>3
<1>6. InTime'
  BY <1>1, <1>2, Zenon DEF Own, InTime
<1>7. Closing'
  <2>1. r \in underway => ~(main.at \in {"disconnect", "exited"})
    BY <1>1 DEF Own, InTime
  <2>2. underway \subseteq Requests
    BY MainTypes DEF Own
  <2> QED
    BY <1>1, <1>2, <2>1, <2>2, Zenon DEF Own, Closing
<1> QED
  BY <1>4, <1>5, <1>6, <1>7 DEF Own

\* What a handler's own step changes: where it is, and its answer.
Moves(r, from, to, what) ==
  /\ at[r] = from /\ at'[r] = to
  /\ response'[r] = what
  /\ \A q \in Requests : q # r => at'[q] = at[q] /\ response'[q] = response[q]

\* A handler's own step keeps the invariant when its answer is that of Submit.
LEMMA MoveStep ==
  ASSUME Own, NEW r \in Requests, NEW from, NEW to, NEW what, Moves(r, from, to, what),
         from \in {"new", "read", "features", "submit"},
         to \in {"read", "features", "submit", "done"},
         what \in {"none", "unauthorized", "invalid", "allow", "deny"} \cup Fallbacks,
         what # "none" <=> to = "done",
         from = "new" => Listening,
         from \in {"read", "features"} => to \in {"features", "submit", "done"},
         from = "submit" => to = "done",
         pc[r] # "idle" => to \in {"submit", "done"},
         to \in {"features", "submit"} =>
           got'[r] <= clock /\ deadline'[r] = got'[r] + Timeout /\ clock <= deadline'[r],
         deadline'[r] = deadline[r] \/ from = "read",
         what = "allow" => outcome[r].kind = "value" /\ Scores[outcome[r].of] < DenyScore,
         what = "queue_deadline" => outcome[r].kind \in {"delay", "full"},
         at' \in [Requests -> {"new", "read", "features", "submit", "done", "lost"}],
         response' \in [Requests -> {"none", "unauthorized", "invalid", "allow", "deny"}
                                      \cup Fallbacks],
         got' \in [Requests -> Nat],
         \A q \in Requests : q # r => deadline'[q] = deadline[q] /\ got'[q] = got[q],
         UNCHANGED <<closed, pc, outcome, clock, mainVars>>
  PROVE  Own'
<1>1. UNCHANGED <<closed, pc, outcome, clock, main, signalled, serveError, connected, underway>>
  BY Zenon DEF mainVars
<1>2. \A q \in Requests : /\ response'[q] # "none" <=> at'[q] = "done"
                          /\ pc'[q] # "idle" => at'[q] \in {"submit", "done", "lost"}
  BY <1>1, HandlerTypes DEF Own, Moves
<1>3. TypeOK'
  BY <1>1, <1>2, Zenon DEF Own, TypeOK
<1>4. Answered'
  BY <1>1, Zenon DEF Own, Answered, Moves
<1>5. InTime'
  <2>1. \A q \in Requests : at'[q] \in {"features", "submit"} =>
          got'[q] <= clock' /\ deadline'[q] = got'[q] + Timeout /\ clock' <= deadline'[q]
    BY <1>1, Zenon DEF Own, InTime, Moves
  <2>2. from \in {"new", "read"} => r \notin underway
    BY MainTypes DEF Own, InTime, Moves, Listening
  <2>3. underway \subseteq Requests
    BY MainTypes DEF Own
  <2>4. main.at = "shutdown" =>
          \A q \in underway : /\ at'[q] \in {"features", "submit", "done"}
                              /\ at'[q] # "done" => deadline'[q] < main.end
    BY <2>2, <2>3 DEF Own, InTime, Moves
  <2>5. main.at \in {"close", "disconnect", "exited"} => \A q \in underway : at'[q] = "done"
    BY <2>2, <2>3 DEF Own, InTime, Moves
  <2> QED
    BY <1>1, <2>1, <2>4, <2>5, Zenon DEF Own, InTime
<1>6. Closing'
  BY <1>1 DEF Own, Closing
<1> QED
  BY <1>3, <1>4, <1>5, <1>6 DEF Own

\* A handler answers.
LEMMA RespondMoves ==
  ASSUME TypeOK, NEW r \in Requests, NEW what, Respond(r, what),
         what \in {"unauthorized", "invalid", "allow", "deny"} \cup Fallbacks
  PROVE  /\ Moves(r, at[r], "done", what)
         /\ at' \in [Requests -> {"new", "read", "features", "submit", "done", "lost"}]
         /\ response' \in [Requests -> {"none", "unauthorized", "invalid", "allow", "deny"}
                                         \cup Fallbacks]
BY HandlerTypes, Zenon DEF Respond, Moves

\* A handler goes on.
LEMMA GoesOn ==
  ASSUME TypeOK, NEW r \in Requests, NEW to \in {"read", "features", "submit"}, at[r] # "done",
         at' = [at EXCEPT ![r] = to], response' = response
  PROVE  /\ Moves(r, at[r], to, "none")
         /\ at' \in [Requests -> {"new", "read", "features", "submit", "done", "lost"}]
         /\ response' \in [Requests -> {"none", "unauthorized", "invalid", "allow", "deny"}
                                         \cup Fallbacks]
BY HandlerTypes, Zenon DEF Moves

\* The server calls the handler.
LEMMA ArriveStep ==
  ASSUME Own, NEW r \in Requests, Arrive(r)
  PROVE  Own'
<1>1. TypeOK /\ at[r] = "new" /\ Listening /\ pc[r] = "idle" /\ got \in [Requests -> Nat]
  BY HandlerTypes DEF Own, Arrive
<1>2. UNCHANGED <<closed, pc, outcome, clock, deadline, got, mainVars>>
  BY Zenon DEF Arrive, schedulerVars
<1>3. CASE Respond(r, "unauthorized")
  BY <1>1, <1>2, <1>3, RespondMoves, MoveStep
<1>4. CASE at' = [at EXCEPT ![r] = "read"] /\ UNCHANGED response
  BY <1>1, <1>2, <1>4, GoesOn, MoveStep, Zenon
<1> QED
  BY <1>3, <1>4, Zenon DEF Arrive

\* The body is there.
LEMMA ReadStep ==
  ASSUME Own, deadline \in [Requests -> Nat \cup {Unbounded}], NEW r \in Requests, Read(r)
  PROVE  Own'
<1>1. TypeOK /\ at[r] = "read" /\ pc[r] = "idle" /\ got \in [Requests -> Nat]
  BY HandlerTypes DEF Own, Read
<1>2. UNCHANGED <<closed, pc, outcome, clock, mainVars>>
  BY Zenon DEF Read
<1>3. CASE Respond(r, "invalid") /\ UNCHANGED <<deadline, got>>
  BY <1>1, <1>2, <1>3, RespondMoves, MoveStep
<1>4. CASE /\ at' = [at EXCEPT ![r] = "features"]
           /\ deadline' = [deadline EXCEPT ![r] = clock + Timeout]
           /\ got' = [got EXCEPT ![r] = clock]
           /\ UNCHANGED response
  <2>2. clock \in Nat /\ Timeout \in Nat /\ clock <= clock + Timeout
    BY <1>1, MainTypes
  <2>3. /\ got' \in [Requests -> Nat]
        /\ got'[r] = clock /\ deadline'[r] = clock + Timeout
        /\ \A q \in Requests : q # r => deadline'[q] = deadline[q] /\ got'[q] = got[q]
    BY <1>1, <1>4, <2>2, Zenon
  <2> QED
    <3>1. got'[r] <= clock /\ deadline'[r] = got'[r] + Timeout /\ clock <= deadline'[r]
      BY <2>2, <2>3
    <3>2. /\ Moves(r, "read", "features", "none")
          /\ at' \in [Requests -> {"new", "read", "features", "submit", "done", "lost"}]
          /\ response' \in [Requests -> {"none", "unauthorized", "invalid", "allow", "deny"}
                                          \cup Fallbacks]
      BY <1>1, <1>4, GoesOn, Zenon
    <3> QED
      BY <1>1, <1>2, <2>3, <3>1, <3>2, MoveStep, Zenon
<1> QED
  BY <1>3, <1>4, Zenon DEF Read

\* The features are there, or are not.
LEMMA FeaturesStep ==
  ASSUME Own, NEW r \in Requests, Features(r)
  PROVE  Own'
<1>1. TypeOK /\ at[r] = "features" /\ got \in [Requests -> Nat] /\ pc[r] = "idle"
  BY HandlerTypes DEF Own, Features
<1>2. UNCHANGED <<closed, pc, outcome, clock, deadline, got, mainVars>>
  BY Zenon DEF Features, schedulerVars
<1>3. got[r] <= clock /\ deadline[r] = got[r] + Timeout /\ clock <= deadline[r]
  BY <1>1 DEF Own, InTime
<1>4. CASE Respond(r, "feature_unavailable")
  BY <1>1, <1>2, <1>4, RespondMoves, MoveStep DEF Fallbacks
<1>5. CASE at' = [at EXCEPT ![r] = "submit"] /\ UNCHANGED response
  BY <1>1, <1>2, <1>3, <1>5, GoesOn, MoveStep, Zenon
<1> QED
  BY <1>4, <1>5, Zenon DEF Features

\* Submit has returned, and the handler answers.
LEMMA DecideStep ==
  ASSUME Own, NEW r \in Requests, Decide(r),
         outcome[r].kind = "value" => outcome[r].of \in Requests
  PROVE  Own'
<1> DEFINE what == IF outcome[r].kind = "value" THEN Decision(Scores[outcome[r].of])
                   ELSE Reason(outcome[r].kind)
<1>1. TypeOK /\ at[r] = "submit" /\ got \in [Requests -> Nat]
  BY HandlerTypes DEF Own, Decide
<1>2. UNCHANGED <<closed, pc, outcome, clock, deadline, got, mainVars>> /\ Respond(r, what)
  BY Zenon DEF Decide, schedulerVars
<1>3. /\ what \in {"allow", "deny", "queue_deadline", "worker_unavailable"}
      /\ what = "allow" => outcome[r].kind = "value" /\ Scores[outcome[r].of] < DenyScore
      /\ what = "queue_deadline" => outcome[r].kind \in {"delay", "full"}
  BY GatewayAssumption DEF Decision, Reason
<1> HIDE DEF what
<1> QED
  BY <1>1, <1>2, <1>3, RespondMoves, MoveStep DEF Fallbacks

\* The process starts or not; a signal or an error of the server comes.
LEMMA StartStep ==
  ASSUME Own, Startup \/ Signal \/ ServeFails
  PROVE  Own'
<1>1. UNCHANGED <<closed, pc, outcome, deadline, clock, at, response, got, underway>>
  BY Zenon DEF Startup, Signal, ServeFails, schedulerVars, handlerVars
<1>2. /\ main' \in [at : {"startup", "select", "shutdown", "close", "disconnect", "exited"},
                    failed : BOOLEAN, end : Nat]
      /\ \/ main.at = "startup" /\ main'.at \in {"select", "exited"}
         \/ main' = main
  BY Zenon DEF Own, TypeOK, Startup, Signal, ServeFails
<1>3. {signalled', serveError', connected'} \subseteq BOOLEAN
  BY Zenon DEF Own, TypeOK, Startup, Signal, ServeFails
<1>4. TypeOK'
  BY <1>1, <1>2, <1>3, Zenon DEF Own, TypeOK
<1>5. Answered'
  BY <1>1, Zenon DEF Own, Answered
<1>6. InTime' /\ Closing'
  BY <1>1, <1>2 DEF Own, InTime, Closing
<1> QED
  BY <1>4, <1>5, <1>6 DEF Own

\* main leaves its select, with time left for the requests that were read.
LEMMA LeaveSelectStep ==
  ASSUME Own, NEW failed \in BOOLEAN, LeaveSelect(failed)
  PROVE  Own'
<1>1. /\ UNCHANGED <<closed, pc, outcome, deadline, clock, at, response, got>>
      /\ UNCHANGED <<signalled, serveError, connected>>
  BY Zenon DEF LeaveSelect, schedulerVars, handlerVars
<1>2. /\ main.at = "select" /\ main'.at = "shutdown" /\ main'.end = clock + ShutdownTimeout
      /\ main' \in [at : {"startup", "select", "shutdown", "close", "disconnect", "exited"},
                    failed : BOOLEAN, end : Nat]
  BY MainTypes DEF Own, LeaveSelect
<1>3. underway' \subseteq Requests /\ \A r \in underway' : at[r] \in {"features", "submit"}
  BY DEF LeaveSelect, InHandler
<1>4. TypeOK'
  BY <1>1, <1>2, <1>3, Zenon DEF Own, TypeOK
<1>5. Answered'
  BY <1>1, Zenon DEF Own, Answered
<1>6. InTime'
  <2>1. ASSUME NEW r \in underway' PROVE deadline[r] < clock + ShutdownTimeout
    <3>1. got[r] <= clock /\ deadline[r] = got[r] + Timeout /\ got[r] \in Nat
      BY <1>3, <2>1, HandlerTypes DEF Own, InTime
    <3> QED
      BY <3>1, MainTypes DEF Own
  <2> QED
    BY <1>1, <1>2, <1>3, <2>1 DEF Own, InTime
<1>7. Closing'
  BY <1>1, <1>2, <1>3 DEF Own, Closing
<1> QED
  BY <1>4, <1>5, <1>6, <1>7 DEF Own

\* Shutdown returns when the requests that were read are answered.
LEMMA ShutdownStep ==
  ASSUME Own, Shutdown \/ Exit
  PROVE  Own'
<1>1. /\ UNCHANGED <<closed, pc, outcome, deadline, clock, response, got, underway>>
      /\ UNCHANGED <<signalled, serveError>> /\ connected' \in BOOLEAN
  BY Zenon DEF Shutdown, Exit, schedulerVars, Own, TypeOK
<1>2. /\ main' \in [at : {"startup", "select", "shutdown", "close", "disconnect", "exited"},
                    failed : BOOLEAN, end : Nat]
      /\ main.at \in {"shutdown", "disconnect"} /\ main'.at \in {"close", "exited"}
      /\ main.at = "disconnect" => main'.at = "exited"
  BY DEF Shutdown, Exit, Own, TypeOK
<1>3. /\ at' \in [Requests -> {"new", "read", "features", "submit", "done", "lost"}]
      /\ \A r \in Requests : at'[r] = at[r] \/ (r \in InHandler /\ at'[r] = "lost")
  BY HandlerTypes DEF Shutdown, Exit, Own
<1>4. TypeOK'
  <2>1. \A r \in Requests : /\ response'[r] # "none" <=> at'[r] = "done"
                            /\ pc'[r] # "idle" => at'[r] \in {"submit", "done", "lost"}
    BY <1>1, <1>3, HandlerTypes DEF Own, InHandler
  <2> QED
    BY <1>1, <1>2, <1>3, <2>1, Zenon DEF Own, TypeOK
<1>5. Answered'
  BY <1>1, Zenon DEF Own, Answered
<1>6. InTime'
  <2>1. ASSUME NEW r \in underway PROVE at[r] = "done"
    <3>1. r \in Requests /\ clock \in Nat /\ main.end \in Nat /\ got[r] \in Nat /\ Timeout \in Nat
      BY MainTypes, HandlerTypes DEF Own
    <3>2. main.at = "disconnect" => at[r] = "done"
      BY DEF Own, InTime
    <3>3. main.at = "shutdown" => at[r] \in {"features", "submit", "done"}
      BY DEF Own, InTime
    <3>4. main.at = "shutdown" /\ at[r] # "done" => r \in InHandler /\ clock < main.end
      BY <3>1, <3>3 DEF Own, InTime, InHandler
    <3>5. main.at = "shutdown" => InHandler = {} \/ clock >= main.end
      BY DEF Shutdown, ShutdownDone, Exit
    <3> QED
      BY <1>2, <3>1, <3>2, <3>4, <3>5
  <2>2. \A r \in underway : at'[r] = "done"
    BY <1>3, <2>1, MainTypes DEF Own, InHandler
  <2> QED
    BY <1>1, <1>2, <1>3, <2>2 DEF Own, InTime
<1>7. Closing'
  BY <1>1, <1>2 DEF Own, Closing
<1> QED
  BY <1>4, <1>5, <1>6, <1>7 DEF Own

\* main closes the scheduler, when no request that was read is left.
LEMMA CloseStep ==
  ASSUME Own, Close
  PROVE  Own'
<1>1. /\ UNCHANGED <<pc, outcome, deadline, clock, at, response, got, underway>>
      /\ UNCHANGED <<signalled, serveError, connected>>
      /\ main.at = "close" /\ main'.at = "disconnect"
      /\ main' \in [at : {"startup", "select", "shutdown", "close", "disconnect", "exited"},
                    failed : BOOLEAN, end : Nat]
  BY DEF Close, S!Close, S!callerVars, S!contextVars, handlerVars, Own, TypeOK
<1>2. TypeOK'
  BY <1>1, Zenon DEF Own, TypeOK
<1>3. Answered'
  BY <1>1, Zenon DEF Own, Answered
<1>4. InTime' /\ Closing'
  BY <1>1 DEF Own, InTime, Closing, Close, S!Close
<1> QED
  BY <1>2, <1>3, <1>4 DEF Own

\* Time passes only while no deadline has come.
LEMMA TickStep ==
  ASSUME Own, Tick
  PROVE  Own'
<1>1. /\ UNCHANGED <<closed, pc, outcome, deadline, handlerVars, mainVars>>
      /\ clock' = clock + 1 /\ clock' \in 0..MaxClock
  BY GatewayAssumption DEF Tick, S!Tick, S!callerVars, Own, TypeOK
<1>2. UNCHANGED <<at, response, got, main, signalled, serveError, connected, underway>>
  BY <1>1, Zenon DEF handlerVars, mainVars
<1>3. TypeOK'
  BY <1>1, <1>2, Zenon DEF Own, TypeOK
<1>4. Answered'
  BY <1>1, <1>2, Zenon DEF Own, Answered
<1>5. InTime'
  <2>1. ASSUME NEW r \in Requests, at[r] \in {"features", "submit"}
        PROVE  got[r] <= clock' /\ deadline[r] = got[r] + Timeout /\ clock' <= deadline[r]
    <3>1. /\ got[r] <= clock /\ deadline[r] = got[r] + Timeout
          /\ got[r] \in Nat /\ clock \in Nat /\ Timeout \in Nat /\ FeatureTimeout \in Nat
          /\ FeatureTimeout <= Timeout
      BY <2>1, HandlerTypes, MainTypes DEF Own, InTime
    <3>2. clock < got[r] + FeatureTimeout \/ ~S!ContextDone(r)
      BY <2>1 DEF Tick, Prompt
    <3>3. ~S!ContextDone(r) => clock < deadline[r]
      BY <3>1, GatewayAssumption DEF S!ContextDone, S!Due
    <3> QED
      BY <1>1, <3>1, <3>2, <3>3
  <2> QED
    BY <1>1, <1>2, <2>1, Zenon DEF Own, InTime
<1>6. Closing'
  BY <1>1, <1>2 DEF Own, Closing
<1> QED
  BY <1>3, <1>4, <1>5, <1>6 DEF Own

-----------------------------------------------------------------------------
(* The scheduler's steps.                                                   *)

\* The scheduler with the deadlines a request may be given.
P == INSTANCE SchedulerProofs WITH Items <- Requests, Deadlines <- Nat \cup {Unbounded}

\* The invariant of the whole.
GInv == P!IInv /\ Own

\* The scheduler that the gateway runs takes the steps of the one proved correct.
LEMMA SameInit == S!Init => P!Init
BY DEF S!Init, P!Init, S!Between, P!Between, S!Error, P!Error

\* So does its goroutine.
LEMMA SameRun == S!Run => P!Run
BY Zenon DEF S!Run, P!Run, S!NextQueued, P!NextQueued, S!Collect, P!Collect,
  S!Classify, P!Classify, S!Refuse, P!Refuse, S!Announce, P!Announce,
  S!EndClassify, P!EndClassify, S!Handle, P!Handle, S!Reply, P!Reply,
  S!StartDispatch, P!StartDispatch, S!Join, P!Join, S!Won, P!Won, S!Refusal, P!Refusal,
  S!Send, P!Send, S!Drained, P!Drained, S!ObserveQueue, P!ObserveQueue,
  S!ObserveBatch, P!ObserveBatch, S!LeaveDispatch, P!LeaveDispatch, S!ResultFor, P!ResultFor,
  S!Between, P!Between, S!ContextDone, P!ContextDone, S!Due, P!Due, S!OneEach, P!OneEach,
  S!Value, P!Value, S!Error, P!Error, S!callerVars, P!callerVars, S!itemVars, P!itemVars,
  S!contextVars, P!contextVars, S!historyVars, P!historyVars

\* So do its callers.
LEMMA SameCall ==
  ASSUME NEW r \in Requests, S!Begin(r) \/ S!Submit(r)
  PROVE  P!Begin(r) \/ P!Submit(r)
BY Zenon DEF S!Begin, P!Begin, S!Submit, P!Submit, S!Admit, P!Admit, S!TakeReply, P!TakeReply,
  S!SeeDispatched, P!SeeDispatched, S!TimerFires, P!TimerFires, S!GiveUp, P!GiveUp,
  S!GiveUpAwaiting, P!GiveUpAwaiting, S!SeeDone, P!SeeDone, S!Return, P!Return,
  S!ExpireIfQueued, P!ExpireIfQueued, S!Full, P!Full, S!ContextDone, P!ContextDone,
  S!Due, P!Due, S!Error, P!Error, S!callerVars, P!callerVars, S!itemVars, P!itemVars,
  S!contextVars, P!contextVars, S!historyVars, P!historyVars

\* And the rest.
LEMMA SameOther ==
  /\ S!Close => P!Close
  /\ S!Tick => P!Tick
  /\ \A r \in Requests : S!Cancel(r) => P!Cancel(r)
<1> USE DEF S!callerVars, P!callerVars, S!itemVars, P!itemVars, S!contextVars, P!contextVars,
            S!historyVars, P!historyVars
<1>1. S!Close => P!Close
  BY Zenon DEF S!Close, P!Close
<1>2. S!Tick => P!Tick
  BY Zenon DEF S!Tick, P!Tick
<1>3. \A r \in Requests : S!Cancel(r) => P!Cancel(r)
  BY Zenon DEF S!Cancel, P!Cancel, S!Cardinality, P!Cardinality
<1> QED
  BY <1>1, <1>2, <1>3

\* The assumptions of the scheduler are met.
LEMMA SchedulerAssumed ==
  /\ MaxQueue \in Nat \ {0} /\ MaxBatch \in Nat \ {0} /\ MaxDelay \in Nat \ {0}
  /\ MaxClock \in Nat /\ MaxClock >= MaxDelay
  /\ Unbounded \notin Int
  /\ Nat \cup {Unbounded} \subseteq Nat \cup {Unbounded}
  /\ MaxCancels \in Nat
BY GatewayAssumption

\* A step of the goroutine leaves the callers and their contexts alone.
LEMMA RunEffect ==
  ASSUME S!Run
  PROVE  UNCHANGED <<closed, pc, outcome, deadline, cancelled, clock>>
BY Zenon DEF S!Run, S!NextQueued, S!Collect, S!Classify, S!Refuse, S!Announce, S!EndClassify,
  S!Handle, S!Reply, S!callerVars, S!contextVars

\* A step of a call leaves the others alone.
LEMMA CallEffect ==
  ASSUME P!IInv, NEW r \in Requests, S!Begin(r) \/ S!Submit(r)
  PROVE  /\ UNCHANGED <<closed, deadline, cancelled, clock>>
         /\ \A q \in Requests : q # r => pc'[q] = pc[q] /\ outcome'[q] = outcome[q]
         /\ outcome'[r].kind = "closed" => closed \/ outcome'[r] = outcome[r]
<1>1. P!Begin(r) \/ P!Submit(r)
  BY SameCall
<1>2. UNCHANGED <<closed, deadline, cancelled, clock>>
  BY Zenon DEF S!Begin, S!Submit, S!Admit, S!TakeReply, S!SeeDispatched, S!TimerFires, S!GiveUp,
    S!GiveUpAwaiting, S!SeeDone, S!contextVars
<1>3. P!TypeOK
  BY DEF P!IInv
<1>4. \A q \in Requests : q # r => pc'[q] = pc[q] /\ outcome'[q] = outcome[q]
  BY <1>1, <1>3, SchedulerAssumed, P!CallerEffect, Zenon DEF P!Only
<1>5. outcome'[r].kind = "closed" => closed \/ outcome'[r] = outcome[r]
  BY <1>1, SchedulerAssumed, P!ClosedAfterClose, Zenon
<1> QED
  BY <1>2, <1>4, <1>5

\* The scheduler's invariant is kept by the gateway's steps.
LEMMA SchedulerStep ==
  ASSUME P!IInv, TypeOK, [Next]_vars
  PROVE  P!IInv'
<1>1. ASSUME [P!Next]_P!vars PROVE P!IInv'
  BY <1>1, SchedulerAssumed, P!NextIInv, Zenon
<1>2. ASSUME UNCHANGED schedulerVars PROVE P!IInv'
  BY <1>1, <1>2, Zenon DEF schedulerVars, P!vars, P!callerVars, P!itemVars, P!contextVars,
    P!historyVars
<1>3. ASSUME NEW r \in Requests, Read(r) PROVE P!IInv'
  <2>1. CASE deadline' = deadline
    BY <1>2, <1>3, <2>1, Zenon DEF Read, schedulerVars
  <2>2. CASE deadline' = [deadline EXCEPT ![r] = clock + Timeout]
    <3>1. deadline \in [Requests -> Nat \cup {Unbounded}]
      BY Zenon DEF P!IInv, P!TypeOK
    <3>2. clock + Timeout \in Nat
      BY GatewayAssumption DEF TypeOK
    <3>3. deadline' \in [Requests -> Nat \cup {Unbounded}]
      BY <2>2, <3>1, <3>2, Zenon
    <3> QED
      BY <1>3, <3>3, SchedulerAssumed, P!NewDeadline, Zenon DEF Read
  <2> QED
    BY <1>3, <2>1, <2>2, Zenon DEF Read
<1>4. ASSUME NEW r \in Requests, Submit(r) \/ Disconnect(r) PROVE P!Next
  BY <1>4, SameCall, SameOther, Zenon DEF Submit, Disconnect, P!Next
<1>5. ASSUME Run \/ Close \/ Tick PROVE P!Next
  BY <1>5, SameRun, SameOther, Zenon DEF Run, Close, Tick, P!Next
<1>6. ASSUME \/ \E r \in Requests : Arrive(r) \/ Features(r) \/ Decide(r)
             \/ Startup \/ LeaveSelect(TRUE) \/ LeaveSelect(FALSE) \/ Shutdown \/ Exit
             \/ Signal \/ ServeFails \/ UNCHANGED vars
      PROVE  UNCHANGED schedulerVars
  BY <1>6, Zenon DEF Arrive, Features, Decide, Startup, LeaveSelect, Shutdown, Exit, Signal,
    ServeFails, vars
<1> QED
  BY <1>1, <1>2, <1>3, <1>4, <1>5, <1>6, Zenon DEF Next, Score, Main

-----------------------------------------------------------------------------
(* The theorems.                                                            *)

\* GInv is inductive.
LEMMA NextGInv == GInv /\ [Next]_vars => GInv'
<1> SUFFICES ASSUME GInv, [Next]_vars PROVE GInv'
  OBVIOUS
<1>1. P!IInv /\ Own /\ TypeOK
  BY DEF GInv, Own
<1>2. P!IInv'
  BY <1>1, SchedulerStep
<1>3. ASSUME Run \/ (\E r \in Requests : Disconnect(r)) \/ UNCHANGED vars
      PROVE  UNCHANGED <<closed, pc, outcome, deadline, clock, handlerVars, mainVars>>
  BY <1>3, RunEffect, Zenon DEF Run, Disconnect, S!Cancel, S!callerVars, vars, schedulerVars
<1>4. ASSUME NEW r \in Requests, Score(r) PROVE Own'
  <2>1. CASE Submit(r)
    <3>1. S!Begin(r) \/ S!Submit(r)
      BY <2>1, Zenon DEF Submit
    <3> QED
      BY <1>1, <2>1, <3>1, CallEffect, SubmitStep, Zenon
  <2>2. deadline \in [Requests -> Nat \cup {Unbounded}]
    BY <1>1, Zenon DEF P!IInv, P!TypeOK
  <2>3. outcome[r].kind = "value" => outcome[r].of \in Requests
    BY <1>1, Zenon DEF P!IInv, P!AnswerInv, P!AnswerOf, P!Sound
  <2> QED
    BY <1>1, <1>4, <2>1, <2>2, <2>3, ReadStep, FeaturesStep, DecideStep, Zenon DEF Score
<1>5. Own'
  BY <1>1, <1>3, <1>4, QuietStep, ArriveStep, StartStep, LeaveSelectStep, ShutdownStep,
     CloseStep, TickStep, Zenon
  DEF Next, Main
<1> QED
  BY <1>2, <1>5 DEF GInv

\* It holds at the start.
LEMMA InitGInv == Init => GInv
<1> SUFFICES ASSUME Init PROVE GInv
  OBVIOUS
<1>1. P!IInv
  BY SameInit, SchedulerAssumed, P!InitIInv, Zenon DEF Init
<1>2. /\ closed = FALSE /\ pc = [r \in Requests |-> "idle"] /\ clock = 0
      /\ \A r \in Requests : outcome[r].kind = "none"
  BY DEF Init, S!Init, S!Error
<1>3. TypeOK
  <2>1. clock \in 0..MaxClock
    BY <1>2, GatewayAssumption
  <2>2. main \in [at : {"startup", "select", "shutdown", "close", "disconnect", "exited"},
                  failed : BOOLEAN, end : Nat]
    BY DEF Init
  <2>3. /\ at \in [Requests -> {"new", "read", "features", "submit", "done", "lost"}]
        /\ response \in [Requests -> {"none", "unauthorized", "invalid", "allow", "deny"}
                                        \cup Fallbacks]
        /\ got \in [Requests -> Nat]
    BY DEF Init
  <2>4. \A r \in Requests : response[r] = "none" /\ at[r] = "new" /\ pc[r] = "idle"
    BY <1>2 DEF Init
  <2>5. underway \subseteq Requests /\ {signalled, serveError, connected} \subseteq BOOLEAN
    BY Zenon DEF Init
  <2> QED
    BY <2>1, <2>2, <2>3, <2>4, <2>5, Zenon DEF TypeOK
<1>4. Answered /\ InTime /\ Closing
  BY <1>2 DEF Init, Answered, InTime, Closing
<1> QED
  BY <1>1, <1>3, <1>4 DEF GInv, Own

\* The invariant of the gateway and the scheduler in it, in every reachable state.
THEOREM Invariance == Spec => []GInv
BY InitGInv, NextGInv, PTL DEF Spec

\* Nothing is allowed that the model did not score below DenyScore.
THEOREM FailsClosed == Spec => []FailClosed
<1>1. GInv => FailClosed
  <2> SUFFICES ASSUME GInv, NEW r \in Requests, response[r] = "allow"
               PROVE  Scores[r] < DenyScore /\ \E k \in 1..Len(handled) : handled[k] = r
    BY Zenon DEF GInv, Own, FailClosed
  <2>1. outcome[r].kind = "value" /\ Scores[outcome[r].of] < DenyScore
    BY Zenon DEF GInv, Own, Answered
  <2>2. outcome[r].of = r /\ r \in P!Elements(handled)
    BY <2>1, Zenon DEF GInv, P!IInv, P!AnswerInv, P!AnswerOf, P!Sound
  <2> QED
    BY <2>1, <2>2, Zenon DEF P!Elements
<1> QED
  BY <1>1, Invariance, PTL

\* A request answered queue_deadline was never scored and never will be.
THEOREM QueueReasonsAreTrue == Spec => []QueueReasonTrue
<1>1. GInv => QueueReasonTrue
  <2> SUFFICES ASSUME GInv, NEW r \in Requests, response[r] = "queue_deadline",
                      NEW k \in 1..Len(handled), handled[k] = r
               PROVE  FALSE
    BY Zenon DEF QueueReasonTrue
  <2>1. outcome[r].kind \in {"delay", "full"}
    BY Zenon DEF GInv, Own, Answered
  <2>2. P!HandledInOrder
    BY SchedulerAssumed, P!InvInOrder, Zenon DEF GInv
  <2>3. r \notin P!Elements(handled)
    BY <2>1, <2>2, Zenon DEF P!HandledInOrder
  <2> QED
    BY <2>3, Zenon DEF P!Elements
<1> QED
  BY <1>1, Invariance, PTL

\* Stopping loses no request whose body had been read.
THEOREM StopLosesNothing == Spec => []StopDrains
<1>1. GInv => StopDrains
  BY Zenon DEF GInv, Own, InTime, Closing, StopDrains
<1> QED
  BY <1>1, Invariance, PTL
=============================================================================
