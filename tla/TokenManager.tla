----------------------------- MODULE TokenManager -----------------------------
(***************************************************************************)
(* Access tokens: TokenManager (internal/auth/token_manager.go) shared by  *)
(* the requests of one server, the part of each request that uses it       *)
(* (callUpstream, internal/server/handler.go), and the commands of         *)
(* main.go: serve, login and logout are processes of their own that share  *)
(* nothing but the credentials file.                                       *)
(*                                                                         *)
(* A step of a request is what it does up to the next point where another  *)
(* process can be noticed: reading the file, sending a request to the      *)
(* OAuth provider or to the upstream, replacing the file.  Taking the      *)
(* mutex and the Load behind it are one step, because nothing that happens *)
(* between them could not as well have happened before.                    *)
(*                                                                         *)
(* Tokens are numbered in the order the provider issues them.  A refresh   *)
(* token has the number of the access token it came with, and a local      *)
(* secret that of the login that made it.  The provider and the upstream   *)
(* are not part of the repository; they do what postToken and Do can       *)
(* observe of them.                                                        *)
(***************************************************************************)
EXTENDS Integers, Sequences, FiniteSets

CONSTANTS
    Requests,     \* the goroutines of the server that serve a message
    Logins,       \* the processes that run the login command
    Accounts,     \* ChatGPT accounts one may log in to
    NoAccount,    \* the account of an answer without a usable ID token
    NoRequest,    \* nobody holds the mutex
    MaxIssued,    \* bound: tokens the provider issues
    MaxCommands   \* bound: commands started, and crashes

ASSUME RequestsAssumption == NoRequest \notin Requests
ASSUME AccountsAssumption == Accounts # {} /\ NoAccount \notin Accounts
ASSUME BoundsAssumption == MaxIssued \in Nat \ {0} /\ MaxCommands \in Nat

VARIABLES
    stored,       \* the credentials file
    localSecret,  \* the secret the running server compares with, if it runs
    mutex,        \* the request that holds refreshMu
    pc,           \* where each request is
    access,       \* the Access each request calls the upstream with
    rejected,     \* the access token each request's ForceRefresh was given
    calls,        \* how many times each request has called the upstream
    credentials,  \* the credentials refresh works on, in each request
    login,        \* where each login command is, and what it holds
    commands,     \* commands started, and crashes
    owner,        \* provider: the account of each token issued
    successor,    \* provider: the refresh token that rotated out each other one
    nearExpiry,   \* access tokens within RefreshBeforeExpiry of their expiry
    refused,      \* upstream: access tokens answered with 401
    persisted,    \* history: access tokens that have been in the file
    lost,         \* history: refresh tokens that never reached the file
    session       \* history: whether somebody logged out, and in again

requestVars == <<mutex, pc, access, rejected, calls, credentials>>
commandVars == <<localSecret, login, commands>>
outsideVars == <<owner, successor, nearExpiry, refused>>
historyVars == <<persisted, lost, session>>
vars == <<stored, requestVars, commandVars, outsideVars, historyVars>>

-----------------------------------------------------------------------------
(* Data *)

NoToken == 0
Tokens == 1 .. MaxIssued

Credentials ==
    [access : Tokens, refresh : Tokens, account : Accounts, secret : Tokens]
NotLoggedIn == [access |-> NoToken]
NoAccess == [token |-> NoToken]
Idle == [pc |-> "idle"]

NextToken == Len(owner) + 1

AccessFromCredentials(c) == [token |-> c.access, account |-> c.account]

\* credentials.ExpiresAt.After(now + RefreshBeforeExpiry)
Fresh(c) == c.access \notin nearExpiry

\* The checks of refresh once it has the mutex: a token that another request
\* has replaced in the meantime is used as it is.
IgnoresRejection(c, token) == ~Fresh(c)   \* mutant: a 401 is not enough to refresh
AlwaysRefreshes(c, token) == TRUE         \* mutant: no second check
NeedsRefresh(c, token) ==
    IF token = NoToken THEN ~Fresh(c) ELSE c.access = token

\* The credentials after an answer of the token endpoint, which may leave out
\* the refresh token and the ID token.
ForgetsRotation(c, reply) ==   \* mutant: the new refresh token is not taken over
    [c EXCEPT !.access = reply.access,
              !.account = IF reply.account = NoAccount THEN @ ELSE reply.account]
ReadsFileAgain(c, reply) ==    \* mutant: the answer is merged into the current file
    [c EXCEPT !.access = reply.access,
              !.refresh = IF reply.refresh = NoToken THEN @ ELSE reply.refresh,
              !.account = IF stored = NotLoggedIn THEN @ ELSE stored.account]
Refreshed(c, reply) ==
    [c EXCEPT !.access = reply.access,
              !.refresh = IF reply.refresh = NoToken THEN @ ELSE reply.refresh,
              !.account = IF reply.account = NoAccount THEN @ ELSE reply.account]

-----------------------------------------------------------------------------
(* State *)

\* The server runs with the credentials of an earlier login.
Init ==
    /\ \E account \in Accounts :
          /\ stored = [access |-> 1, refresh |-> 1, account |-> account, secret |-> 1]
          /\ owner = <<account>>
    /\ localSecret = 1
    /\ mutex = NoRequest
    /\ pc = [r \in Requests |-> "idle"]
    /\ access = [r \in Requests |-> NoAccess]
    /\ rejected = [r \in Requests |-> NoToken]
    /\ calls = [r \in Requests |-> 0]
    /\ credentials = [r \in Requests |-> NotLoggedIn]
    /\ login = [l \in Logins |-> Idle]
    /\ commands = 0
    /\ successor = [t \in Tokens |-> NoToken]
    /\ nearExpiry = {}
    /\ refused = {}
    /\ persisted = {1}
    /\ lost = {}
    /\ session = "first"

\* callUpstream returns: its local variables are gone.
Return(r) ==
    /\ pc' = [pc EXCEPT ![r] = "idle"]
    /\ access' = [access EXCEPT ![r] = NoAccess]
    /\ rejected' = [rejected EXCEPT ![r] = NoToken]
    /\ calls' = [calls EXCEPT ![r] = 0]
    /\ credentials' = [credentials EXCEPT ![r] = NotLoggedIn]

\* callUpstream has an Access and calls the upstream with it.
CallWith(r, c) ==
    /\ pc' = [pc EXCEPT ![r] = "call"]
    /\ access' = [access EXCEPT ![r] = AccessFromCredentials(c)]
    /\ calls' = [calls EXCEPT ![r] = @ + 1]
    /\ credentials' = [credentials EXCEPT ![r] = NotLoggedIn]
    /\ UNCHANGED rejected

\* refresh is called, with NoToken when the token is about to expire.
WaitForMutex(r, token) ==
    /\ pc' = [pc EXCEPT ![r] = "waiting"]
    /\ rejected' = [rejected EXCEPT ![r] = token]
    /\ UNCHANGED <<access, calls, credentials>>

\* The deferred Unlock of refreshMu.
NeverUnlocks == UNCHANGED mutex   \* mutant: returns without unlocking
Unlock == mutex' = NoRequest

-----------------------------------------------------------------------------
(* The requests *)

\* A message arrives.
Begin(r) ==
    /\ localSecret # NoToken
    /\ pc[r] = "idle"
    /\ pc' = [pc EXCEPT ![r] = "start"]
    /\ UNCHANGED <<stored, mutex, access, rejected, calls, credentials,
                   commandVars, outsideVars, historyVars>>

\* GetValidToken.  Load fails without a file, and may fail with one.
GetValidToken(r) ==
    /\ pc[r] = "start"
    /\ \/ Return(r)
       \/ /\ stored # NotLoggedIn
          /\ Fresh(stored)
          /\ CallWith(r, stored)
       \/ /\ stored # NotLoggedIn
          /\ ~Fresh(stored)
          /\ WaitForMutex(r, NoToken)
    /\ UNCHANGED <<stored, mutex, commandVars, outsideVars, historyVars>>

\* refresh takes the mutex, loads the file again and decides.  A request whose
\* context has ended still waits here.
EnterRefresh(r) ==
    /\ pc[r] = "waiting"
    /\ mutex = NoRequest
    /\ \/ /\ Return(r)
          /\ UNCHANGED mutex
       \/ /\ stored # NotLoggedIn
          /\ ~NeedsRefresh(stored, rejected[r])
          /\ CallWith(r, stored)
          /\ UNCHANGED mutex
       \/ /\ stored # NotLoggedIn
          /\ NeedsRefresh(stored, rejected[r])
          /\ mutex' = r
          /\ pc' = [pc EXCEPT ![r] = "refreshing"]
          /\ credentials' = [credentials EXCEPT ![r] = stored]
          /\ UNCHANGED <<access, rejected, calls>>
    /\ UNCHANGED <<stored, commandVars, outsideVars, historyVars>>

\* The provider issues a token pair.
Issue(account) ==
    /\ NextToken \in Tokens
    /\ owner' = Append(owner, account)

\* The provider grants a refresh.  When it rotates the refresh token it does not
\* accept the old one again.
Grant(old, rotates) ==
    /\ successor[old] = NoToken
    /\ Issue(owner[old])
    /\ successor' = IF rotates THEN [successor EXCEPT ![old] = NextToken] ELSE successor

\* The request to the token endpoint succeeds.
RefreshGranted(r, rotates, named) ==
    LET c == credentials[r]
        reply == [access  |-> NextToken,
                  refresh |-> IF rotates THEN NextToken ELSE NoToken,
                  account |-> IF named THEN owner[c.refresh] ELSE NoAccount]
    IN  /\ pc[r] = "refreshing"
        /\ Grant(c.refresh, rotates)
        /\ credentials' = [credentials EXCEPT ![r] = Refreshed(c, reply)]
        /\ pc' = [pc EXCEPT ![r] = "saving"]
        /\ UNCHANGED <<stored, mutex, access, rejected, calls, commandVars,
                       nearExpiry, refused, historyVars>>

\* The provider grants it, but the client gives up first, or cannot use the answer.
AnswerLost(r, rotates) ==
    /\ pc[r] = "refreshing"
    /\ Grant(credentials[r].refresh, rotates)
    /\ lost' = lost \cup {NextToken}
    /\ Return(r)
    /\ Unlock
    /\ UNCHANGED <<stored, commandVars, nearExpiry, refused, persisted, session>>

\* The request fails, or the provider refuses it.
RefreshRefused(r) ==
    /\ pc[r] = "refreshing"
    /\ Return(r)
    /\ Unlock
    /\ UNCHANGED <<stored, commandVars, outsideVars, historyVars>>

\* Rename puts new credentials in the place of the file.
Replace(c) ==
    /\ stored' = c
    /\ persisted' = persisted \cup {c.access}

\* Save and what refresh returns.  Save fails before the file is replaced, or
\* after it, when the directory cannot be synced.
ReturnsUnsaved(r) ==   \* mutant: a failed Save is not reported
    /\ pc[r] = "saving"
    /\ CallWith(r, credentials[r])
    /\ \/ Replace(credentials[r])
       \/ UNCHANGED <<stored, persisted>>
    /\ Unlock
    /\ UNCHANGED <<commandVars, outsideVars, lost, session>>
SaveRefreshed(r) ==
    /\ pc[r] = "saving"
    /\ \/ /\ Replace(credentials[r])
          /\ CallWith(r, credentials[r]) \/ Return(r)
          /\ UNCHANGED lost
       \/ /\ Return(r)
          /\ lost' = lost \cup {credentials[r].refresh}
          /\ UNCHANGED <<stored, persisted>>
    /\ Unlock
    /\ UNCHANGED <<commandVars, outsideVars, session>>

\* The upstream answers 401.  The first time, callUpstream forces a refresh and
\* tries once more; the second answer is passed on.
RetriesForever(r) ==   \* mutant: every 401 is retried
    /\ pc[r] = "call"
    /\ refused' = refused \cup {access[r].token}
    /\ WaitForMutex(r, access[r].token)
    /\ UNCHANGED <<stored, mutex, commandVars, owner, successor, nearExpiry, historyVars>>
Unauthorized(r) ==
    /\ pc[r] = "call"
    /\ refused' = refused \cup {access[r].token}
    /\ \/ calls[r] = 1 /\ WaitForMutex(r, access[r].token)
       \/ calls[r] # 1 /\ Return(r)
    /\ UNCHANGED <<stored, mutex, commandVars, owner, successor, nearExpiry, historyVars>>

\* The upstream answers anything else, or not at all.
Answered(r) ==
    /\ pc[r] = "call"
    /\ Return(r)
    /\ UNCHANGED <<stored, mutex, commandVars, outsideVars, historyVars>>

-----------------------------------------------------------------------------
(* The commands, crashes and time *)

CountCommand ==
    /\ commands < MaxCommands
    /\ commands' = commands + 1

\* login: the browser flow ends with a new token pair.
LoginExchange(l, account) ==
    /\ login[l] = Idle
    /\ CountCommand
    /\ Issue(account)
    /\ login' = [login EXCEPT ![l] =
                    [pc |-> "exchanged", token |-> NextToken, account |-> account]]
    /\ UNCHANGED <<stored, localSecret, requestVars, successor, nearExpiry, refused,
                   historyVars>>

\* login keeps the local secret of the file, if there is one.
FreshSecret(token) == token   \* mutant: every login makes a secret
KeptSecret(token) == IF stored = NotLoggedIn THEN token ELSE stored.secret

LoginLoad(l) ==
    LET c == login[l]
    IN  /\ c.pc = "exchanged"
        /\ login' = [login EXCEPT ![l] =
                        [pc |-> "loaded", token |-> c.token, account |-> c.account,
                         secret |-> KeptSecret(c.token)]]
        /\ UNCHANGED <<stored, localSecret, requestVars, commands, outsideVars, historyVars>>

LoginSave(l) ==
    LET c == login[l]
    IN  /\ c.pc = "loaded"
        /\ Replace([access |-> c.token, refresh |-> c.token,
                    account |-> c.account, secret |-> c.secret])
        /\ login' = [login EXCEPT ![l] = Idle]
        /\ session' = IF session = "ended" THEN "renewed" ELSE session
        /\ UNCHANGED <<localSecret, requestVars, commands, outsideVars, lost>>

\* The ID token names no account, or Load or Save fails: the command ends.
LoginFails(l) ==
    /\ login[l] # Idle
    /\ login' = [login EXCEPT ![l] = Idle]
    /\ UNCHANGED <<stored, localSecret, requestVars, commands, outsideVars, historyVars>>

\* logout: the file is removed.
Logout ==
    /\ CountCommand
    /\ stored' = NotLoggedIn
    /\ session' = "ended"
    /\ UNCHANGED <<localSecret, requestVars, login, outsideVars, persisted, lost>>

\* serve: the secret is read once.
Serve ==
    /\ localSecret = NoToken
    /\ stored # NotLoggedIn
    /\ localSecret' = stored.secret
    /\ UNCHANGED <<stored, requestVars, login, commands, outsideVars, historyVars>>

\* The server dies, with everything it has not saved.
Crash ==
    /\ localSecret # NoToken
    /\ CountCommand
    /\ localSecret' = NoToken
    /\ mutex' = NoRequest
    /\ pc' = [r \in Requests |-> "idle"]
    /\ access' = [r \in Requests |-> NoAccess]
    /\ rejected' = [r \in Requests |-> NoToken]
    /\ calls' = [r \in Requests |-> 0]
    /\ credentials' = [r \in Requests |-> NotLoggedIn]
    /\ lost' = lost \cup {credentials[r].refresh : r \in {q \in Requests : pc[q] = "saving"}}
    /\ UNCHANGED <<stored, login, outsideVars, persisted, session>>

\* The stored token comes within RefreshBeforeExpiry of its expiry.
Expire ==
    /\ stored # NotLoggedIn
    /\ nearExpiry' = nearExpiry \cup {stored.access}
    /\ UNCHANGED <<stored, requestVars, commandVars, owner, successor, refused, historyVars>>

-----------------------------------------------------------------------------
(* Specification *)

\* The request to the token endpoint ends, in one way or another.
Exchange(r) ==
    \/ \E rotates, named \in BOOLEAN : RefreshGranted(r, rotates, named)
    \/ \E rotates \in BOOLEAN : AnswerLost(r, rotates)
    \/ RefreshRefused(r)

\* What a request does without waiting for another one.
Proceed(r) ==
    \/ GetValidToken(r)
    \/ Exchange(r)
    \/ SaveRefreshed(r)
    \/ Unauthorized(r)
    \/ Answered(r)

Request(r) == Begin(r) \/ Proceed(r) \/ EnterRefresh(r)

Login(l) ==
    \/ \E account \in Accounts : LoginExchange(l, account)
    \/ LoginLoad(l)
    \/ LoginSave(l)
    \/ LoginFails(l)

Next ==
    \/ \E r \in Requests : Request(r)
    \/ \E l \in Logins : Login(l)
    \/ Logout
    \/ Serve
    \/ Crash
    \/ Expire

Spec == Init /\ [][Next]_vars

\* Both HTTP clients have a timeout, so a request that waits for an answer goes
\* on; sync.Mutex does not starve a goroutine that waits for it.
Fairness == \A r \in Requests : WF_vars(Proceed(r)) /\ SF_vars(EnterRefresh(r))

FairSpec == Spec /\ Fairness

-----------------------------------------------------------------------------
(* Properties *)

\* The values each variable takes; callUpstream calls the upstream at most twice.
TypeOK ==
    /\ stored \in Credentials \cup {NotLoggedIn}
    /\ localSecret \in Tokens \cup {NoToken}
    /\ mutex \in Requests \cup {NoRequest}
    /\ pc \in [Requests -> {"idle", "start", "call", "waiting", "refreshing", "saving"}]
    /\ access \in [Requests -> [token : Tokens, account : Accounts] \cup {NoAccess}]
    /\ rejected \in [Requests -> Tokens \cup {NoToken}]
    /\ calls \in [Requests -> 0 .. 2]
    /\ credentials \in [Requests -> Credentials \cup {NotLoggedIn}]
    /\ login \in [Logins -> {Idle}
                      \cup [pc : {"exchanged"}, token : Tokens, account : Accounts]
                      \cup [pc : {"loaded"}, token : Tokens, account : Accounts,
                            secret : Tokens]]
    /\ commands \in 0 .. MaxCommands
    /\ owner \in Seq(Accounts) /\ Len(owner) \in Tokens
    /\ successor \in [Tokens -> Tokens \cup {NoToken}]
    /\ nearExpiry \subseteq Tokens
    /\ refused \subseteq Tokens
    /\ persisted \subseteq Tokens
    /\ lost \subseteq Tokens
    /\ session \in {"first", "ended", "renewed"}

\* README.md "Concurrent expiry or 401 refreshes are deduplicated in-process":
\* the token endpoint is only asked to replace a token that is about to expire
\* or that the upstream itself has refused, so of any number of requests that
\* find the same token wanting, one replaces it and the others use its result.
NoNeedlessRefresh ==
    \A r \in Requests :
        pc[r] = "refreshing" => credentials[r].access \in nearExpiry \cup refused

\* The refresh token in the file is one the provider still accepts, or the one
\* that rotated it out was lost on its way to the file, or is just being saved.
StoredRefreshIsLive ==
    stored = NotLoggedIn
    \/ successor[stored.refresh] = NoToken
    \/ successor[stored.refresh] \in lost
    \/ \E r \in Requests :
          pc[r] = "saving" /\ credentials[r].refresh = successor[stored.refresh]

\* A token is in the file before it is used, so a crash of the server cannot
\* lose the refresh token that belongs to a token in use.
PersistedBeforeUse ==
    \A r \in Requests : pc[r] = "call" => access[r].token \in persisted

\* The upstream is called for the account the token was issued to, also when
\* someone logs in to another account in the middle of a refresh.
AccessMatchesAccount ==
    \A r \in Requests : pc[r] = "call" => owner[access[r].token] = access[r].account

\* ForceRefresh never answers with the token that was rejected.
RetryUsesAnotherToken ==
    \A r \in Requests : pc[r] = "call" /\ calls[r] = 2 => access[r].token # rejected[r]

\* Until someone logs out, the running server knows the local secret that is in
\* the file, whoever logs in and whatever is refreshed in the meantime: login
\* keeps it, and a refresh writes back the one it has read.
ServerKnowsSecret ==
    session = "first" /\ localSecret # NoToken
        => stored # NotLoggedIn /\ stored.secret = localSecret

\* Every message gets an answer.
EveryRequestEnds == \A r \in Requests : pc[r] = "start" ~> pc[r] = "idle"

\* main.go:75 prints "Logged out; local credentials removed.": they stay removed
\* until someone logs in.
LogoutIsFinal == session = "ended" => stored = NotLoggedIn

=============================================================================
