----------------------------- MODULE MessagesServer -----------------------------
(***************************************************************************)
(* The server from the outside of a message: Serve and its shutdown        *)
(* (internal/server/serve.go), the handler of /v1/messages                 *)
(* (internal/server/handler.go) and the Codex client with its turn states  *)
(* (internal/upstream/codex/client.go), for requests of several sessions   *)
(* at a time.                                                              *)
(*                                                                         *)
(* The token manager is TokenManager, here a call that succeeds or fails;  *)
(* the pumping of the answer is StreamPump, here a step that may come at   *)
(* any time or never.  A state the upstream sends is named after the       *)
(* request whose reply brought it.                                         *)
(***************************************************************************)
EXTENDS TurnStateStore

CONSTANTS
    Requests,
    Grace       \* ticks Shutdown waits for handlers

ASSUME StatesAssumption == States = Requests
ASSUME GraceAssumption == Grace \in Nat

VARIABLES
    pc,         \* where the handler of each request is
    session,    \* the session it belongs to
    attempts,   \* how often it has called the upstream
    carried,    \* the turn state of its last call
    main,       \* where Serve is
    shutdown,   \* where its goroutine is
    cancelled,  \* shutdownSignal is done
    signalled,  \* the process was told to stop
    grace,      \* what is left of the time for Shutdown
    result,     \* what server.Serve returned
    life,       \* history: how long a state that was received may be used
    before      \* history: those of its session there were when a call began

requestVars == <<pc, session, attempts, carried>>
serverVars == <<main, shutdown, cancelled, signalled, grace, result>>
historyVars == <<life, before>>
vars == <<entries, requestVars, serverVars, historyVars>>

-----------------------------------------------------------------------------
(* State *)

Init ==
    /\ StoreInit
    /\ pc = [r \in Requests |-> "none"]
    /\ session \in [Requests -> Sessions]
    /\ attempts = [r \in Requests |-> 0]
    /\ carried = [r \in Requests |-> NoState]
    /\ main = "serve" /\ shutdown = "waiting"
    /\ cancelled = FALSE /\ signalled = FALSE
    /\ grace = Grace
    /\ result = "none"
    /\ life = [r \in Requests |-> 0]
    /\ before = [r \in Requests |-> {}]

Goto(r, label) == pc' = [pc EXCEPT ![r] = label]
Move(r, label) == Goto(r, label) /\ UNCHANGED <<session, attempts, carried>>

\* The handler returns, and what it knew is gone.
Leave(r) ==
    /\ Goto(r, "done")
    /\ attempts' = [attempts EXCEPT ![r] = 0]
    /\ carried' = [carried EXCEPT ![r] = NoState]
    /\ UNCHANGED session

\* The states received that may still be used.
Received == {r \in Requests : life[r] > 0}

\* The connections Shutdown waits for.
Open == {r \in Requests : pc[r] \notin {"none", "done", "cut"}}

-----------------------------------------------------------------------------
(* The handler *)

\* net/http accepts a connection, and closes one that has not been used.
Connect(r) ==
    /\ main = "serve" /\ shutdown = "waiting"
    /\ pc[r] = "none"
    /\ Move(r, "new")
    /\ UNCHANGED <<entries, serverVars, historyVars>>

CloseNew(r) ==
    /\ pc[r] = "new"
    /\ Leave(r)
    /\ UNCHANGED <<entries, serverVars, historyVars>>

\* requireAuthentication, decodeRequest, validateMessagesRequest and the translation
\* pass, or one of them answers the request.
Messages(r) ==
    /\ pc[r] = "new"
    /\ Move(r, "authorize") \/ Leave(r)
    /\ UNCHANGED <<entries, serverVars, historyVars>>

\* callUpstream has a token from GetValidToken, or after a 401 from ForceRefresh,
\* or answers with an error.
Authorize(r) ==
    /\ pc[r] = "authorize"
    /\ Move(r, "send") \/ Leave(r)
    /\ UNCHANGED <<entries, serverVars, historyVars>>

\* Do: NewRequest looks for the state of the session; or the headers do not allow it.
Send(r) ==
    /\ pc[r] = "send"
    /\ Goto(r, "wait")
    /\ attempts' = [attempts EXCEPT ![r] = @ + 1]
    /\ carried' = [carried EXCEPT ![r] = Get(session[r])]
    /\ entries' = Cleaned(session[r])
    /\ before' = [before EXCEPT ![r] = {q \in Received : session[q] = session[r]}]
    /\ UNCHANGED <<session, serverVars, life>>

CannotSend(r) ==
    /\ pc[r] = "send"
    /\ Leave(r)
    /\ UNCHANGED <<entries, serverVars, historyVars>>

\* Do: the headers of the upstream's reply are there.  A success may bring a state,
\* which is kept; then the answer is pumped.
Remember(r) ==
    /\ entries' = Put(session[r], r)
    /\ life' = [life EXCEPT ![r] = TTL]
    /\ UNCHANGED before

Succeed(r) ==
    /\ pc[r] = "wait"
    /\ Move(r, "stream")
    /\ Remember(r) \/ UNCHANGED <<entries, historyVars>>
    /\ UNCHANGED serverVars

\* The first 401 has the token replaced and the call repeated.
Unauthorized(r) ==
    /\ pc[r] = "wait" /\ attempts[r] = 1
    /\ Move(r, "authorize")
    /\ UNCHANGED <<entries, serverVars, historyVars>>

\* writeUpstreamHTTPError, whose reply may bring a state, too; the error of a call
\* that fails; or a client that has left and is not answered.
Fail(r) ==
    /\ pc[r] = "wait"
    /\ Leave(r)
    /\ UNCHANGED <<entries, serverVars, historyVars>>

\* streamResponse or nonStreamResponse returns.
Finish(r) ==
    /\ pc[r] = "stream"
    /\ Leave(r)
    /\ UNCHANGED <<entries, serverVars, historyVars>>

-----------------------------------------------------------------------------
(* Serve *)

Signal ==
    /\ ~signalled
    /\ signalled' = TRUE
    /\ cancelled' = TRUE
    /\ UNCHANGED <<entries, requestVars, main, shutdown, grace, result, historyVars>>

\* The goroutine: server.Shutdown closes the listener and waits for the handlers, but
\* only so long.
BeginShutdown ==
    /\ shutdown = "waiting" /\ cancelled
    /\ shutdown' = "shutting"
    /\ UNCHANGED <<entries, requestVars, main, cancelled, signalled, grace, result, historyVars>>

EndShutdown ==
    /\ shutdown = "shutting"
    /\ Open = {} \/ grace = 0
    /\ shutdown' = "complete"
    /\ UNCHANGED <<entries, requestVars, main, cancelled, signalled, grace, result, historyVars>>

\* server.Serve returns as soon as Shutdown has begun, or when the listener fails;
\* stopShutdown follows.
NeverStops == UNCHANGED cancelled   \* mutant: Serve waits for a signal
StopShutdown == cancelled' = TRUE

ServeReturns ==
    /\ main = "serve"
    /\ result' = IF shutdown = "waiting" THEN "failed" ELSE "closed"
    /\ StopShutdown
    /\ main' = "wait"
    /\ UNCHANGED <<entries, requestVars, shutdown, signalled, grace, historyVars>>

\* Serve returns and the process ends, with the handlers that still run.
Cut == pc' = [r \in Requests |-> IF r \in Open THEN "cut" ELSE pc[r]]

ReturnsAtOnce ==   \* mutant: Serve does not wait for its goroutine
    /\ main = "wait"
    /\ main' = "returned"
    /\ Cut
    /\ UNCHANGED <<entries, session, attempts, carried, shutdown, cancelled, signalled, grace, result, historyVars>>
Return ==
    /\ main = "wait" /\ shutdown = "complete"
    /\ main' = "returned"
    /\ Cut
    /\ UNCHANGED <<entries, session, attempts, carried, shutdown, cancelled, signalled, grace, result, historyVars>>

-----------------------------------------------------------------------------
(* Specification *)

Tick ==
    /\ main # "returned"
    /\ entries' = Aged
    /\ life' = [r \in Requests |-> Older(life[r])]
    /\ grace' = IF shutdown = "shutting" THEN Older(grace) ELSE grace
    /\ UNCHANGED <<requestVars, main, shutdown, cancelled, signalled, result, before>>

Step(r) ==
    \/ Connect(r) \/ CloseNew(r) \/ Messages(r)
    \/ Authorize(r) \/ Send(r) \/ CannotSend(r)
    \/ Succeed(r) \/ Unauthorized(r) \/ Fail(r) \/ Finish(r)

Next ==
    \/ \E r \in Requests : Step(r)
    \/ Signal \/ BeginShutdown \/ EndShutdown \/ ServeReturns \/ Return
    \/ Tick

\* Goroutines run and time passes.  Nothing is assumed of the handlers, the clients
\* and the upstream, nor that anything ever ends a server nobody stops.
Fairness ==
    /\ WF_vars(BeginShutdown)
    /\ WF_vars(EndShutdown)
    /\ WF_vars(ServeReturns /\ shutdown # "waiting")
    /\ WF_vars(Return)
    /\ WF_vars(Tick)

Spec == Init /\ [][Next]_vars /\ Fairness

-----------------------------------------------------------------------------
(* Properties *)

Calls(r) == pc[r] = "send" /\ pc'[r] = "wait"

\* README.md:62-64: the turn state "is cached in memory for 30 minutes and is only
\* replayed within the same derived session", and only a successful response brings
\* one (client_test.go:99): whatever other requests do between a response and the
\* next call, a call carries a state that was received for its own session, in time.
StatesStayInSession ==
    [][\A r \in Requests :
          Calls(r) /\ carried'[r] # NoState =>
              /\ session[carried'[r]] = session[r]
              /\ carried'[r] \in Received]_vars

\* A conversation goes on from where it was: while a state may be used it is, unless
\* a newer one was received, and a call never carries a state that had already been
\* received when the call began that brought another one.
ContinuesFromNewest ==
    [][\A r \in Requests :
          Calls(r) =>
              \A q \in Received :
                  session[q] = session[r] =>
                      carried'[r] # NoState /\ carried'[r] \notin before[q]]_vars

\* README.md:25-27: "graceful process shutdown" is enforced.  A handler is cut off
\* only when the whole time it had to end has passed, and Serve reports success only
\* if it was told to stop.
GracefulStop ==
    /\ (\E r \in Requests : pc[r] = "cut") => grace = 0
    /\ result = "closed" => signalled

\* Serve returns once it is told to stop or its listener has failed, whatever the
\* handlers, their clients and the upstream do.
StopsInTime == (signalled \/ main = "wait") ~> (main = "returned")

================================================================================
