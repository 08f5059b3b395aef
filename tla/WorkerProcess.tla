---------------------------- MODULE WorkerProcess ----------------------------
(***************************************************************************)
(* The inference worker and the gateway's client of it: serving_plane/     *)
(* worker/grpc.go and cmd/worker.  A call goes through the client's checks,*)
(* the service's (Score) and the engine, and back through both checks of   *)
(* the results; the caller may give up at any time.  The process serves    *)
(* gRPC and an operational HTTP server, and stops both within one budget.  *)
(*                                                                         *)
(* A request of a batch is "good", "narrow" (not of the model's width) or  *)
(* "bad" (nothing accepts it).  A result is the index of the request it is *)
(* for, or 0 when it is no valid result.  gRPC itself is external.         *)
(***************************************************************************)
EXTENDS Integers, Sequences, FiniteSets

CONSTANTS
  Calls,         \* calls of GRPCClient.Infer
  Batches,       \* the batches they may have
  MaxBatchSize,
  ServerToken,   \* Service.AuthToken: "" for none
  ClientTokens,  \* the tokens clients may be configured with
  CallerTokens,  \* what callers of the gateway may have sent: "" for none
  ShutdownBudget  \* the time of shutdownCtx

ASSUME WorkerAssumption ==
  /\ \A b \in Batches : b \in Seq({"good", "narrow", "bad"})
  /\ MaxBatchSize \in Nat \ {0} /\ ShutdownBudget \in Nat \ {0}

VARIABLES
  clientToken,  \* the token of the clients, which never changes
  client,     \* each call: where its client is, and what it returned
  server,     \* each call: where the service is with it
  batch,      \* each call's requests
  metadata,   \* the authorization values each call carries
  results,    \* what the engine or the service has for each call
  http,       \* an operational HTTP request is being served
  events,     \* what main's select may find: "signal", "http", "grpc"
  main,       \* main: where it is, serveFailed, and what is left of the budget
  accepting,  \* the gRPC server takes new calls
  aborted     \* history: calls that Stop cut off

callVars == <<client, server, batch, metadata, results>>
processVars == <<callVars, http, events, main, accepting, aborted>>

Range1(n) == [k \in 1..n |-> k]

ProcessInit ==
  /\ clientToken \in ClientTokens
  /\ client = [c \in Calls |-> "idle"]
  /\ server = [c \in Calls |-> "none"]
  /\ batch = [c \in Calls |-> <<>>]
  /\ metadata = [c \in Calls |-> <<>>]
  /\ results = [c \in Calls |-> <<>>]
  /\ http = FALSE
  /\ events = {}
  /\ main = [at |-> "select", failed |-> FALSE, left |-> ShutdownBudget]
  /\ accepting = TRUE
  /\ aborted = {}

ClientErrors == {"invalid", "unauthenticated", "rejected", "failed", "gave_up", "unavailable"}

ProcessTypeOK ==
  /\ client \in [Calls -> {"idle", "sent", "ok"} \cup ClientErrors]
  /\ server \in [Calls -> {"none", "score", "infer", "reply", "done"}]
  /\ batch \in [Calls -> Batches \cup {<<>>}]
  /\ metadata \in [Calls -> {<<>>} \cup {<<t>> : t \in ClientTokens \cup CallerTokens}]
  /\ \A c \in Calls : server[c] \in {"infer", "reply"} => Len(batch[c]) \in 1..MaxBatchSize
  /\ results \in [Calls -> Seq(Nat)]
  /\ http \in BOOLEAN /\ accepting \in BOOLEAN
  /\ events \subseteq {"signal", "http", "grpc"}
  /\ main \in [at : {"select", "http", "grpc", "exited"}, failed : BOOLEAN, left : 0..ShutdownBudget]
  /\ aborted \subseteq Calls

-----------------------------------------------------------------------------
(* GRPCClient.Infer and Service.Score.                                      *)

\* validateRequests, which does not allow an empty batch here.
ValidRequests(b) == Len(b) \in 1..MaxBatchSize /\ \A k \in 1..Len(b) : b[k] # "bad"

\* validateRPCRequests.
ValidRPCRequests(b) == ValidRequests(b) /\ \A k \in 1..Len(b) : b[k] # "narrow"

\* A fault: only the values are looked at.
ValidValues(r, n) == \A k \in 1..Len(r) : r[k] # 0

\* validateResults.
ValidResults(r, n) == Len(r) = n /\ \A k \in 1..n : r[k] # 0

\* The authorization values a call carries: the client's token, or else the one
\* the caller sent.
Credentials(token) ==
  IF clientToken # "" THEN <<clientToken>>
  ELSE IF token # "" THEN <<token>> ELSE <<>>

\* Infer up to the call; the transport refuses it when the server takes none.
Infer(c, b, token) ==
  /\ client[c] = "idle"
  /\ batch' = [batch EXCEPT ![c] = b]
  /\ metadata' = [metadata EXCEPT ![c] = Credentials(token)]
  /\ IF ~ValidRequests(b)
       THEN client' = [client EXCEPT ![c] = "invalid"] /\ UNCHANGED server
     ELSE IF ~accepting
       THEN client' = [client EXCEPT ![c] = "unavailable"] /\ UNCHANGED server
     ELSE /\ client' = [client EXCEPT ![c] = "sent"]
          /\ server' = [server EXCEPT ![c] = "score"]
  /\ UNCHANGED <<results, http, events, main, accepting, aborted>>

\* The service answers with an error status, which a client that waits returns.
Fails(c, status) ==
  /\ server' = [server EXCEPT ![c] = "done"]
  /\ client' = [client EXCEPT ![c] = IF @ = "sent" THEN status ELSE @]

\* Score up to the engine: the token, then the requests.
Score(c) ==
  /\ server[c] = "score"
  /\ IF ServerToken # "" /\ metadata[c] # <<ServerToken>> THEN Fails(c, "unauthenticated")
     ELSE IF ~ValidRPCRequests(batch[c]) THEN Fails(c, "rejected")
     ELSE server' = [server EXCEPT ![c] = "infer"] /\ UNCHANGED client
  /\ UNCHANGED <<batch, metadata, results, http, events, main, accepting, aborted>>

\* Engine.Infer: an error; or results, one for each request in order from the
\* scorer, one too few or one that is invalid from some other engine.
Engine(c) ==
  /\ server[c] = "infer"
  /\ \/ Fails(c, "failed") /\ UNCHANGED results
     \/ \E r \in {Range1(Len(batch[c])), Tail(Range1(Len(batch[c]))),
                  [Range1(Len(batch[c])) EXCEPT ![1] = 0]} :
          /\ results' = [results EXCEPT ![c] = r]
          /\ server' = [server EXCEPT ![c] = "reply"]
          /\ UNCHANGED client
  /\ UNCHANGED <<batch, metadata, http, events, main, accepting, aborted>>

\* The end of Score, and of Infer in a client that waits.
Reply(c) ==
  /\ server[c] = "reply"
  /\ IF ~ValidResults(results[c], Len(batch[c])) THEN Fails(c, "failed")
     ELSE /\ server' = [server EXCEPT ![c] = "done"]
          /\ client' = [client EXCEPT ![c] = IF @ = "sent" THEN "ok" ELSE @]
  /\ UNCHANGED <<batch, metadata, results, http, events, main, accepting, aborted>>

Serve(c) == Score(c) \/ Engine(c) \/ Reply(c)

\* The caller's context ends: the client returns; the service goes on until the
\* engine looks at its context.
GiveUp(c) ==
  /\ client[c] = "sent"
  /\ client' = [client EXCEPT ![c] = "gave_up"]
  /\ UNCHANGED <<server, batch, metadata, results, http, events, main, accepting, aborted>>

-----------------------------------------------------------------------------
(* The process.                                                             *)

InService == {c \in Calls : server[c] \in {"score", "infer", "reply"}}

\* An operational request arrives, and ends in its own time.
HttpArrives ==
  /\ ~http /\ main.at = "select" /\ "http" \notin events
  /\ http' = TRUE
  /\ UNCHANGED <<callVars, events, main, accepting, aborted>>

HttpEnds ==
  /\ http
  /\ http' = FALSE
  /\ UNCHANGED <<callVars, events, main, accepting, aborted>>

\* A signal, or a server's Serve returns: with gRPC's, no call is taken any more.
Event(e) ==
  /\ main.at = "select" /\ e \notin events
  /\ events' = events \cup {e}
  /\ accepting' = (accepting /\ e # "grpc")
  /\ UNCHANGED <<callVars, http, main, aborted>>

\* serveFailed after the case of the select.
ServeFailed(e) == e \in {"http", "grpc"}

Select(e) ==
  /\ main.at = "select" /\ e \in events
  /\ main' = [main EXCEPT !.at = "http", !.failed = ServeFailed(e)]
  /\ UNCHANGED <<callVars, http, events, accepting, aborted>>

\* A fault: Shutdown is given no deadline.
HttpIdle == ~http

HttpDone == ~http \/ main.left = 0

\* httpServer.Shutdown returns and GracefulStop starts: no new calls.
ShutdownHttp ==
  /\ main.at = "http" /\ HttpDone
  /\ main' = [main EXCEPT !.at = "grpc"]
  /\ accepting' = FALSE
  /\ UNCHANGED <<callVars, http, events, aborted>>

\* A fault: the calls in service are not waited for.
GracefulAtOnce == TRUE

\* GracefulStop has returned.
GracefulDone == InService = {}

\* The calls in service are over, or the budget is: Stop cuts them off.  Then main
\* returns or exits with 1.
StopGrpc ==
  /\ main.at = "grpc" /\ (GracefulDone \/ main.left = 0)
  /\ main' = [main EXCEPT !.at = "exited"]
  /\ aborted' = InService
  /\ server' = [c \in Calls |-> IF c \in InService THEN "done" ELSE server[c]]
  /\ client' = [c \in Calls |-> IF c \in InService /\ client[c] = "sent" THEN "unavailable" ELSE client[c]]
  /\ UNCHANGED <<batch, metadata, results, http, events, accepting>>

Main == (\E e \in events : Select(e)) \/ ShutdownHttp \/ StopGrpc

ProcessTick ==
  /\ main.at \in {"http", "grpc"} /\ main.left > 0
  /\ main' = [main EXCEPT !.left = @ - 1]
  /\ UNCHANGED <<callVars, http, events, accepting, aborted>>

ProcessNext ==
  /\ UNCHANGED clientToken
  /\ \/ \E c \in Calls :
          \/ \E b \in Batches, token \in CallerTokens : Infer(c, b, token)
          \/ Serve(c) \/ GiveUp(c)
     \/ HttpArrives \/ HttpEnds
     \/ \E e \in {"signal", "http", "grpc"} : Event(e)
     \/ Main \/ ProcessTick

ProcessSpec == ProcessInit /\ [][ProcessNext]_<<processVars, clientToken>>

\* The process's goroutines are scheduled and time passes; an operational client
\* may be as slow as it likes, and an engine too.
FairSpec == ProcessSpec /\ WF_processVars(Main) /\ WF_processVars(ProcessTick)

-----------------------------------------------------------------------------
(* Properties.                                                             *)

\* A caller's answer is about its own call.  Results reach it only one for each of
\* its requests, in their order and all valid, whatever the engine returned, and only
\* for requests the model takes.  A client configured with the worker's token is
\* never turned away, whatever the caller of the gateway sent: WithRequestMetadata's
\* comment says that "a configured client token takes precedence".
OwnAnswer ==
  /\ ProcessTypeOK
  /\ \A c \in Calls : client[c] = "ok" =>
       /\ results[c] = Range1(Len(batch[c]))
       /\ \A k \in 1..Len(batch[c]) : batch[c][k] = "good"
  /\ clientToken # "" /\ clientToken = ServerToken =>
       \A c \in Calls : client[c] # "unauthenticated"

\* Stopping cuts a call off only when the whole budget is used, on HTTP's Shutdown
\* and on the calls together; otherwise every call in service gets its answer.
StopDrainsCalls ==
  /\ aborted # {} => main.left = 0
  /\ main.at = "exited" => \A c \in Calls \ aborted : client[c] # "sent"

\* The process exits when a server dies or a signal comes, as the comment of
\* ServeWithTransportObserved wants: calls and operational requests that never end
\* hold it up no longer than the budget.  Its exit code tells a failure: 0 only after
\* a signal, 1 only when a server failed.
StopExits ==
  <>[](events # {} =>
         /\ main.at = "exited"
         /\ IF main.failed THEN events \cap {"http", "grpc"} # {} ELSE "signal" \in events)
=============================================================================
