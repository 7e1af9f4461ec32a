----------------------------- MODULE LoginCallback -----------------------------
(***************************************************************************)
(* WaitForCallback (internal/auth/callback.go): the listener a login opens *)
(* for the browser, which serves one attempt, under the timeout of Login   *)
(* (internal/auth/login.go:66-73).  Requests come from whoever reaches the *)
(* port: the browser that was sent to the provider, a second one, a page   *)
(* loaded twice.                                                           *)
(*                                                                         *)
(* net/http runs each handler in a goroutine and sends a short answer when *)
(* the handler has returned.                                               *)
(***************************************************************************)
EXTENDS Integers, FiniteSets

CONSTANTS
    Browsers,
    CallbackRequests,   \* what they ask: GET, and what of state, error and code is right
    NoBrowser

ASSUME NoBrowserAssumption == NoBrowser \notin Browsers
ASSUME CallbackRequestsAssumption ==
    CallbackRequests \subseteq [get : BOOLEAN, state : BOOLEAN, error : BOOLEAN, code : BOOLEAN]

VARIABLES
    at,         \* where the handler of each browser's request is
    asked,      \* the request
    answer,     \* what the browser is answered
    once,       \* consume, a sync.Once
    handler,    \* the browser whose request has consumed it
    results,    \* the channel, of capacity one
    wait,       \* where WaitForCallback is
    expired,    \* its context is done
    failed,     \* server.Serve has failed
    shut,       \* the time of Shutdown has run out
    returned    \* what it returns

loginVars == <<at, asked, answer, once, handler, results, wait, expired, failed, shut, returned>>
handlerVars == <<at, asked, answer, once, handler>>
waitVars == <<wait, expired, failed, shut, returned>>

-----------------------------------------------------------------------------
(* State *)

\* A callbackResult: the browser whose code it is, or an error.
Code(b) == [browser |-> b]
Error == [browser |-> NoBrowser]

NoCallback == [get |-> FALSE, state |-> FALSE, error |-> FALSE, code |-> FALSE]

LoginInit ==
    /\ at = [b \in Browsers |-> "none"]
    /\ asked = [b \in Browsers |-> NoCallback]
    /\ answer = [b \in Browsers |-> "none"]
    /\ once = "new"
    /\ handler = NoBrowser
    /\ results = {}
    /\ wait = "select"
    /\ expired = FALSE /\ failed = FALSE /\ shut = FALSE
    /\ returned = Error

MoveTo(b, label) == at' = [at EXCEPT ![b] = label]
Answer(b, text) == answer' = [answer EXCEPT ![b] = text]

-----------------------------------------------------------------------------
(* The handler of the redirect path *)

\* A connection that was accepted may bring its request during the shutdown.
Arrive(b) ==
    /\ wait # "returned"
    /\ at[b] = "none"
    /\ \E request \in CallbackRequests :
          /\ asked' = [asked EXCEPT ![b] = request]
          /\ IF request.get THEN MoveTo(b, "do") /\ UNCHANGED answer
             ELSE MoveTo(b, "done") /\ Answer(b, "not allowed")
    /\ UNCHANGED <<once, handler, results, waitVars>>

\* validateCallback: the state, the error of the provider, the code.
Valid(request) == request.state /\ ~request.error /\ request.code

\* consume.Do: the first request runs the function.
ConsumesIfValid(b) ==   \* mutant: an attempt with another state does not count
    /\ at[b] = "do" /\ once = "new"
    /\ IF Valid(asked[b])
       THEN once' = "running" /\ handler' = b /\ MoveTo(b, "send") /\ Answer(b, "complete")
       ELSE UNCHANGED <<once, handler>> /\ MoveTo(b, "done") /\ Answer(b, "failed")
    /\ UNCHANGED <<asked, results, waitVars>>
Consume(b) ==
    /\ at[b] = "do" /\ once = "new"
    /\ once' = "running"
    /\ handler' = b
    /\ Answer(b, IF Valid(asked[b]) THEN "complete" ELSE "failed")
    /\ MoveTo(b, "send")
    /\ UNCHANGED <<asked, results, waitVars>>

\* results <- result, which has room, and the function returns.
Unbuffered(b) ==   \* mutant: the channel has no room
    /\ at[b] = "send"
    /\ wait = "select" /\ results = {}
    /\ results' = {IF Valid(asked[b]) THEN Code(b) ELSE Error}
    /\ once' = "done"
    /\ MoveTo(b, "done")
    /\ UNCHANGED <<asked, answer, handler, waitVars>>
SendResult(b) ==
    /\ at[b] = "send"
    /\ results = {}
    /\ results' = {IF Valid(asked[b]) THEN Code(b) ELSE Error}
    /\ once' = "done"
    /\ MoveTo(b, "done")
    /\ UNCHANGED <<asked, answer, handler, waitVars>>

\* Every other one waits until it has returned.
Gone(b) ==
    /\ at[b] = "do" /\ once = "done"
    /\ Answer(b, "gone")
    /\ MoveTo(b, "done")
    /\ UNCHANGED <<asked, once, handler, results, waitVars>>

-----------------------------------------------------------------------------
(* WaitForCallback *)

\* The login times out, or the process is told to stop; the listener may fail.
Expire ==
    /\ ~expired
    /\ expired' = TRUE
    /\ UNCHANGED <<handlerVars, results, wait, failed, shut, returned>>

ServeFails ==
    /\ ~failed /\ wait = "select"
    /\ failed' = TRUE
    /\ UNCHANGED <<handlerVars, results, wait, expired, shut, returned>>

\* select takes any case that is ready.
SeeResult ==
    /\ wait = "select"
    /\ \E result \in results : returned' = result
    /\ results' = {}
    /\ wait' = "shutdown"
    /\ UNCHANGED <<handlerVars, expired, failed, shut>>

SeeEnd ==
    /\ wait = "select"
    /\ expired \/ failed
    /\ returned' = Error
    /\ wait' = "shutdown"
    /\ UNCHANGED <<handlerVars, results, expired, failed, shut>>

\* Shutdown waits for the handlers, for two seconds.
ShutdownTimesOut ==
    /\ wait = "shutdown" /\ ~shut
    /\ shut' = TRUE
    /\ UNCHANGED <<handlerVars, results, wait, expired, failed, returned>>

ReturnResult ==
    /\ wait = "shutdown"
    /\ shut \/ \A b \in Browsers : at[b] \in {"none", "done"}
    /\ wait' = "returned"
    /\ UNCHANGED <<handlerVars, results, expired, failed, shut, returned>>

-----------------------------------------------------------------------------
(* Specification *)

Handle(b) == Consume(b) \/ SendResult(b) \/ Gone(b)

LoginNext ==
    \/ \E b \in Browsers : Arrive(b) \/ Handle(b)
    \/ Expire \/ ServeFails
    \/ SeeResult \/ SeeEnd \/ ShutdownTimesOut \/ ReturnResult

\* Goroutines run and timers go off.  Nothing is assumed of the browsers.
LoginFairness ==
    /\ \A b \in Browsers : WF_loginVars(Handle(b))
    /\ WF_loginVars(Expire)
    /\ WF_loginVars(SeeResult \/ SeeEnd)
    /\ WF_loginVars(ShutdownTimesOut)
    /\ WF_loginVars(ReturnResult)

LoginSpec == LoginInit /\ [][LoginNext]_loginVars /\ LoginFairness

-----------------------------------------------------------------------------
(* Properties *)

\* callback.go:23-25: "serves exactly one OAuth callback attempt. A state mismatch
\* consumes the flow, so the authorization code can never be replayed".  A code that
\* is returned came with the right state in the first attempt, whose browser is told
\* that the login is complete; nobody else is told how an attempt went, and once one
\* has gone wrong no code is returned.
OneAttempt ==
    LET tried == {b \in Browsers : answer[b] \in {"complete", "failed"}}
    IN  /\ Cardinality(tried) <= 1
        /\ \A b \in tried : asked[b].get /\ (answer[b] = "complete" => asked[b].state)
        /\ returned # Error => answer[returned.browser] = "complete"

\* Every request that was received is answered, and a login ends, also if the callback
\* comes while the login times out and nobody takes its result any more.
AllAreAnswered ==
    /\ \A b \in Browsers : (at[b] # "none") ~> (at[b] = "done")
    /\ <>(wait = "returned")

================================================================================
