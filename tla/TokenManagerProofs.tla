-------------------------- MODULE TokenManagerProofs --------------------------
(***************************************************************************)
(* Proofs of the safety properties of TokenManager, for any number of      *)
(* requests, login commands, accounts and tokens.                          *)
(*                                                                         *)
(* No property is inductive alone.  The invariant Inv adds who holds what: *)
(* the mutex belongs to the request that works on credentials (Holders),   *)
(* every token has been issued to the account it is used for (Owned), a    *)
(* request waits for the mutex because of a 401 or of an expiry            *)
(* (Accounted), the tokens of a login are nobody else's (LoginsOwn), and   *)
(* before the first logout there is a single local secret (OneSecret).     *)
(***************************************************************************)
EXTENDS TokenManager, TLAPS

-----------------------------------------------------------------------------
(* The inductive invariant *)

\* refreshMu is held by the request that works on credentials.
Holders ==
    \A r \in Requests :
        /\ pc[r] \in {"refreshing", "saving"} <=> mutex = r
        /\ credentials[r] # NotLoggedIn <=> mutex = r

OwnedCredentials(c) ==
    /\ c.access \in 1 .. Len(owner)
    /\ c.refresh \in 1 .. Len(owner)
    /\ owner[c.access] = c.account
    /\ owner[c.refresh] = c.account

\* Every token has been issued, to the account it is used for.
Owned ==
    /\ stored # NotLoggedIn => OwnedCredentials(stored)
    /\ \A r \in Requests :
          /\ credentials[r] # NotLoggedIn => OwnedCredentials(credentials[r])
          /\ pc[r] = "call" => /\ access[r].token \in 1 .. Len(owner)
                               /\ owner[access[r].token] = access[r].account
          /\ rejected[r] \in 0 .. Len(owner)
    /\ \A l \in Logins :
          login[l] # Idle => /\ login[l].token \in 1 .. Len(owner)
                             /\ owner[login[l].token] = login[l].account
    /\ \A t \in Tokens : successor[t] # NoToken => t <= Len(owner)

\* Why a request refreshes, how often it has called, and with what.
Accounted ==
    /\ stored # NotLoggedIn => stored.access \in persisted
    /\ \A r \in Requests :
          /\ pc[r] = "call" => /\ access[r] # NoAccess
                               /\ calls[r] \in 1 .. 2
          /\ pc[r] # "call" => calls[r] \in 0 .. 1
          /\ pc[r] \in {"idle", "start"} => rejected[r] = NoToken
          /\ rejected[r] # NoToken => rejected[r] \in refused
          /\ pc[r] = "saving" => credentials[r].access # rejected[r]

\* The tokens of a login that has not saved them yet are nobody else's.
LoginsOwn ==
    \A l \in Logins :
        login[l] # Idle =>
            /\ successor[login[l].token] = NoToken
            /\ stored # NotLoggedIn => stored.refresh # login[l].token
            /\ \A r \in Requests :
                  credentials[r] # NotLoggedIn => credentials[r].refresh # login[l].token
            /\ \A m \in Logins \ {l} : login[m] # Idle => login[m].token # login[l].token

\* The refresh token that is being saved has not been used.
SavedIsLive ==
    \A r \in Requests : pc[r] = "saving" => successor[credentials[r].refresh] = NoToken

\* Before the first logout there is one secret.
OneSecret ==
    session = "first" =>
        /\ stored # NotLoggedIn
        /\ stored.secret = 1
        /\ localSecret \in {NoToken, 1}
        /\ \A r \in Requests : credentials[r] # NotLoggedIn => credentials[r].secret = 1
        /\ \A l \in Logins : login[l].pc = "loaded" => login[l].secret = 1

Inv ==
    /\ TypeOK
    /\ Holders
    /\ Owned
    /\ Accounted
    /\ LoginsOwn
    /\ SavedIsLive
    /\ OneSecret
    /\ NoNeedlessRefresh
    /\ StoredRefreshIsLive
    /\ PersistedBeforeUse
    /\ RetryUsesAnotherToken

-----------------------------------------------------------------------------
(* Data *)

\* Credentials are not the empty record.
LEMMA CredentialsExist == \A c \in Credentials : c # NotLoggedIn
BY DEF Credentials, NotLoggedIn, Tokens, NoToken

\* An Access is not the empty one.
LEMMA AccessExists ==
    \A c \in Credentials :
        /\ AccessFromCredentials(c) \in [token : Tokens, account : Accounts]
        /\ AccessFromCredentials(c) # NoAccess
        /\ AccessFromCredentials(c).token = c.access
        /\ AccessFromCredentials(c).account = c.account
BY DEF Credentials, AccessFromCredentials, NoAccess, Tokens, NoToken

\* What an answer of the token endpoint changes of the credentials.
LEMMA RefreshedCredentials ==
    ASSUME NEW c \in Credentials, NEW token \in Tokens,
           NEW refresh \in Tokens \cup {NoToken}, NEW account \in Accounts \cup {NoAccount},
           NEW reply, reply = [access |-> token, refresh |-> refresh, account |-> account]
    PROVE  /\ Refreshed(c, reply) \in Credentials
           /\ Refreshed(c, reply).access = token
           /\ Refreshed(c, reply).refresh = IF refresh = NoToken THEN c.refresh ELSE refresh
           /\ Refreshed(c, reply).account = IF account = NoAccount THEN c.account ELSE account
           /\ Refreshed(c, reply).secret = c.secret
BY DEF Credentials, Refreshed

-----------------------------------------------------------------------------
(* Requests *)

\* A request begins without any token.
LEMMA BeginStep ==
    ASSUME Inv, NEW r \in Requests, Begin(r)
    PROVE  Inv'
<1> USE DEF Begin, commandVars, outsideVars, historyVars
<1>1. TypeOK'
  BY DEF Inv, TypeOK
<1>2. Holders'
  BY DEF Inv, TypeOK, Holders
<1>3. Owned'
  BY DEF Inv, TypeOK, Owned, OwnedCredentials
<1>4. Accounted'
  BY DEF Inv, TypeOK, Accounted
<1>5. LoginsOwn'
  BY DEF Inv, TypeOK, LoginsOwn
<1>6. SavedIsLive'
  BY DEF Inv, TypeOK, SavedIsLive
<1>7. OneSecret'
  BY DEF Inv, TypeOK, OneSecret
<1>8. NoNeedlessRefresh'
  BY DEF Inv, TypeOK, NoNeedlessRefresh
<1>9. StoredRefreshIsLive'
  BY DEF Inv, TypeOK, StoredRefreshIsLive
<1>10. PersistedBeforeUse' /\ RetryUsesAnotherToken'
  BY DEF Inv, TypeOK, PersistedBeforeUse, RetryUsesAnotherToken
<1> QED
  BY <1>1, <1>2, <1>3, <1>4, <1>5, <1>6, <1>7, <1>8, <1>9, <1>10 DEF Inv

\* callUpstream gives up, with or without the mutex.
LEMMA ReturnStep ==
    ASSUME Inv, NEW r \in Requests, Return(r),
           mutex' = IF mutex = r THEN NoRequest ELSE mutex,
           UNCHANGED <<stored, commandVars, owner, successor, nearExpiry, persisted, session>>,
           refused \subseteq refused', refused' \subseteq Tokens,
           lost \subseteq lost', lost' \subseteq Tokens,
           pc[r] = "saving" => credentials[r].refresh \in lost'
    PROVE  Inv'
<1> USE DEF Return, commandVars
<1>1. TypeOK'
  BY DEF Inv, TypeOK
<1>2. Holders'
  BY RequestsAssumption DEF Inv, TypeOK, Holders
<1>3. Owned'
  BY DEF Inv, TypeOK, Owned, OwnedCredentials, NoToken, Tokens
<1>4. Accounted'
  BY DEF Inv, TypeOK, Accounted
<1>5. LoginsOwn'
  BY DEF Inv, TypeOK, LoginsOwn
<1>6. SavedIsLive'
  BY DEF Inv, TypeOK, SavedIsLive
<1>7. OneSecret'
  BY DEF Inv, TypeOK, OneSecret
<1>8. NoNeedlessRefresh'
  BY DEF Inv, TypeOK, NoNeedlessRefresh
<1>9. StoredRefreshIsLive'
  BY RequestsAssumption DEF Inv, TypeOK, StoredRefreshIsLive, Holders
<1>10. PersistedBeforeUse' /\ RetryUsesAnotherToken'
  BY DEF Inv, TypeOK, PersistedBeforeUse, RetryUsesAnotherToken
<1> QED
  BY <1>1, <1>2, <1>3, <1>4, <1>5, <1>6, <1>7, <1>8, <1>9, <1>10 DEF Inv

\* The stored token is used as it is.
LEMMA CallStep ==
    ASSUME Inv, NEW r \in Requests, pc[r] \in {"start", "waiting"},
           CallWith(r, stored), stored # NotLoggedIn,
           rejected[r] # NoToken => stored.access # rejected[r],
           UNCHANGED <<stored, mutex, commandVars, outsideVars, historyVars>>
    PROVE  Inv'
<1> USE DEF CallWith, commandVars, outsideVars, historyVars
<1>0. stored \in Credentials
  BY DEF Inv, TypeOK
<1>1. TypeOK'
  BY AccessExists DEF Inv, TypeOK, Accounted
<1>2. Holders'
  BY DEF Inv, TypeOK, Holders
<1>3. Owned'
  BY AccessExists DEF Inv, TypeOK, Owned, OwnedCredentials
<1>4. Accounted'
  BY AccessExists DEF Inv, TypeOK, Accounted
<1>5. LoginsOwn'
  BY DEF Inv, TypeOK, LoginsOwn
<1>6. SavedIsLive'
  BY DEF Inv, TypeOK, SavedIsLive
<1>7. OneSecret'
  BY DEF Inv, TypeOK, OneSecret
<1>8. NoNeedlessRefresh'
  BY DEF Inv, TypeOK, NoNeedlessRefresh
<1>9. StoredRefreshIsLive'
  BY DEF Inv, TypeOK, StoredRefreshIsLive
<1>10. PersistedBeforeUse' /\ RetryUsesAnotherToken'
  BY <1>0, AccessExists DEF Inv, TypeOK, PersistedBeforeUse, RetryUsesAnotherToken, Accounted, Credentials, NoToken, Tokens
<1> QED
  BY <1>1, <1>2, <1>3, <1>4, <1>5, <1>6, <1>7, <1>8, <1>9, <1>10 DEF Inv

\* A request waits for refreshMu.
LEMMA WaitStep ==
    ASSUME Inv, NEW r \in Requests, pc[r] \in {"start", "call"},
           NEW token \in Tokens \cup {NoToken}, WaitForMutex(r, token),
           token \in 0 .. Len(owner),
           token # NoToken => token \in refused',
           pc[r] = "call" => calls[r] = 1,
           refused \subseteq refused', refused' \subseteq Tokens,
           UNCHANGED <<stored, mutex, commandVars, owner, successor, nearExpiry, historyVars>>
    PROVE  Inv'
<1> USE DEF WaitForMutex, commandVars, historyVars
<1>1. TypeOK'
  BY DEF Inv, TypeOK
<1>2. Holders'
  BY DEF Inv, TypeOK, Holders
<1>3. Owned'
  BY DEF Inv, TypeOK, Owned, OwnedCredentials
<1>4. Accounted'
  BY DEF Inv, TypeOK, Accounted
<1>5. LoginsOwn'
  BY DEF Inv, TypeOK, LoginsOwn
<1>6. SavedIsLive'
  BY DEF Inv, TypeOK, SavedIsLive
<1>7. OneSecret'
  BY DEF Inv, TypeOK, OneSecret
<1>8. NoNeedlessRefresh'
  BY DEF Inv, TypeOK, NoNeedlessRefresh
<1>9. StoredRefreshIsLive'
  BY DEF Inv, TypeOK, StoredRefreshIsLive
<1>10. PersistedBeforeUse' /\ RetryUsesAnotherToken'
  BY DEF Inv, TypeOK, PersistedBeforeUse, RetryUsesAnotherToken
<1> QED
  BY <1>1, <1>2, <1>3, <1>4, <1>5, <1>6, <1>7, <1>8, <1>9, <1>10 DEF Inv

\* GetValidToken returns, uses the stored token, or asks for a refresh.
LEMMA GetValidTokenStep ==
    ASSUME Inv, NEW r \in Requests, GetValidToken(r)
    PROVE  Inv'
<1>1. mutex # r /\ pc[r] # "saving" /\ rejected[r] = NoToken
  BY DEF Inv, Holders, Accounted, GetValidToken
<1>2. CASE Return(r)
  BY <1>1, <1>2, ReturnStep DEF GetValidToken, outsideVars, historyVars, Inv, TypeOK
<1>3. CASE stored # NotLoggedIn /\ CallWith(r, stored)
  BY <1>1, <1>3, CallStep DEF GetValidToken
<1>4. CASE WaitForMutex(r, NoToken)
  <2>1. NoToken \in 0 .. Len(owner) /\ refused \subseteq Tokens
    BY DEF NoToken, Tokens, Inv, TypeOK
  <2> QED
    BY <1>1, <1>4, <2>1, WaitStep DEF GetValidToken, outsideVars
<1> QED
  BY <1>2, <1>3, <1>4 DEF GetValidToken

\* The request that holds the mutex works on the file it has just read.
LEMMA StartRefreshStep ==
    ASSUME Inv, NEW r \in Requests, pc[r] = "waiting", mutex = NoRequest,
           stored # NotLoggedIn, NeedsRefresh(stored, rejected[r]),
           mutex' = r,
           pc' = [pc EXCEPT ![r] = "refreshing"],
           credentials' = [credentials EXCEPT ![r] = stored],
           UNCHANGED <<access, rejected, calls, stored, commandVars, outsideVars, historyVars>>
    PROVE  Inv'
<1> USE DEF commandVars, outsideVars, historyVars
<1>1. TypeOK'
  BY DEF Inv, TypeOK
<1>2. Holders'
  BY RequestsAssumption DEF Inv, TypeOK, Holders
<1>3. Owned'
  BY DEF Inv, TypeOK, Owned, OwnedCredentials
<1>4. Accounted'
  BY DEF Inv, TypeOK, Accounted
<1>5. LoginsOwn'
  BY DEF Inv, TypeOK, LoginsOwn
<1>6. SavedIsLive'
  BY DEF Inv, TypeOK, SavedIsLive
<1>7. OneSecret'
  BY DEF Inv, TypeOK, OneSecret
<1>8. NoNeedlessRefresh'
  BY DEF Inv, TypeOK, NoNeedlessRefresh, NeedsRefresh, Fresh, Accounted
<1>9. StoredRefreshIsLive'
  BY RequestsAssumption DEF Inv, TypeOK, StoredRefreshIsLive, Holders
<1>10. PersistedBeforeUse' /\ RetryUsesAnotherToken'
  BY DEF Inv, TypeOK, PersistedBeforeUse, RetryUsesAnotherToken
<1> QED
  BY <1>1, <1>2, <1>3, <1>4, <1>5, <1>6, <1>7, <1>8, <1>9, <1>10 DEF Inv

\* With the mutex a request gives up, finds a token it can use, or starts to refresh.
LEMMA EnterRefreshStep ==
    ASSUME Inv, NEW r \in Requests, EnterRefresh(r)
    PROVE  Inv'
<1>1. mutex # r /\ pc[r] # "saving"
  BY DEF Inv, Holders, EnterRefresh
<1>2. CASE Return(r) /\ UNCHANGED mutex
  BY <1>1, <1>2, ReturnStep DEF EnterRefresh, outsideVars, historyVars, Inv, TypeOK
<1>3. CASE /\ stored # NotLoggedIn
           /\ ~NeedsRefresh(stored, rejected[r])
           /\ CallWith(r, stored)
           /\ UNCHANGED mutex
  <2>1. rejected[r] # NoToken => stored.access # rejected[r]
    BY <1>3 DEF NeedsRefresh
  <2> QED
    BY <1>3, <2>1, CallStep DEF EnterRefresh
<1>4. CASE /\ stored # NotLoggedIn
           /\ NeedsRefresh(stored, rejected[r])
           /\ mutex' = r
           /\ pc' = [pc EXCEPT ![r] = "refreshing"]
           /\ credentials' = [credentials EXCEPT ![r] = stored]
           /\ UNCHANGED <<access, rejected, calls>>
  BY <1>4, StartRefreshStep DEF EnterRefresh
<1> QED
  BY <1>2, <1>3, <1>4 DEF EnterRefresh

\* A failed refresh frees the mutex and changes nothing else.
LEMMA RefreshRefusedStep ==
    ASSUME Inv, NEW r \in Requests, RefreshRefused(r)
    PROVE  Inv'
<1>1. mutex = r
  BY DEF Inv, Holders, RefreshRefused
<1> QED
  BY <1>1, ReturnStep DEF RefreshRefused, Unlock, outsideVars, historyVars, Inv, TypeOK

\* A 401 leads to one retry, with the refused token noted.
LEMMA UnauthorizedStep ==
    ASSUME Inv, NEW r \in Requests, Unauthorized(r)
    PROVE  Inv'
<1>1. /\ mutex # r
      /\ access[r].token \in Tokens
      /\ access[r].token \in 0 .. Len(owner)
      /\ refused' = refused \cup {access[r].token}
      /\ refused \subseteq Tokens
  BY DEF Inv, TypeOK, Holders, Owned, Accounted, Unauthorized
<1>2. CASE calls[r] = 1 /\ WaitForMutex(r, access[r].token)
  BY <1>1, <1>2, WaitStep DEF Unauthorized
<1>3. CASE Return(r)
  BY <1>1, <1>3, ReturnStep DEF Unauthorized, historyVars, Inv, TypeOK
<1> QED
  BY <1>2, <1>3 DEF Unauthorized

\* An answer ends the request.
LEMMA AnsweredStep ==
    ASSUME Inv, NEW r \in Requests, Answered(r)
    PROVE  Inv'
<1>1. mutex # r
  BY DEF Inv, Holders, Answered
<1> QED
  BY <1>1, ReturnStep DEF Answered, outsideVars, historyVars, Inv, TypeOK

\* The provider issues the next token to an account; earlier tokens keep theirs.
LEMMA IssueOne ==
    ASSUME Inv, NEW account \in Accounts, Issue(account)
    PROVE  /\ NextToken = Len(owner) + 1
           /\ NextToken \in Tokens
           /\ owner' \in Seq(Accounts)
           /\ Len(owner') = NextToken
           /\ \A t \in 1 .. Len(owner) : t \in 1 .. Len(owner') /\ owner'[t] = owner[t]
           /\ owner'[NextToken] = account
           /\ \A c : OwnedCredentials(c) => OwnedCredentials(c)'
BY DEF Inv, TypeOK, Issue, NextToken, Tokens, OwnedCredentials

\* The new credentials are about to be saved.
LEMMA RefreshGrantedStep ==
    ASSUME Inv, NEW r \in Requests, NEW rotates \in BOOLEAN, NEW named \in BOOLEAN,
           RefreshGranted(r, rotates, named)
    PROVE  Inv'
<1> USE DEF commandVars, historyVars
<1> DEFINE c == credentials[r]
<1>a. /\ c \in Credentials
      /\ c # NotLoggedIn
      /\ mutex = r
      /\ c.refresh \in 1 .. Len(owner)
      /\ c.refresh \in Tokens
      /\ c.access \in 1 .. Len(owner)
      /\ owner[c.access] = c.account
      /\ owner[c.refresh] = c.account
      /\ c.account \in Accounts
      /\ NextToken # NoToken
  BY DEF RefreshGranted, Inv, TypeOK, Holders, Owned, OwnedCredentials, Credentials, Tokens, NextToken, NoToken
<1>b. /\ NextToken = Len(owner) + 1
      /\ NextToken \in Tokens
      /\ owner' \in Seq(Accounts)
      /\ Len(owner') = NextToken
      /\ \A t \in 1 .. Len(owner) : t \in 1 .. Len(owner') /\ owner'[t] = owner[t]
      /\ owner'[NextToken] = c.account
      /\ \A d : OwnedCredentials(d) => OwnedCredentials(d)'
  BY <1>a, IssueOne DEF RefreshGranted, Grant
<1>c. /\ successor' \in [Tokens -> Tokens \cup {NoToken}]
      /\ successor[c.refresh] = NoToken
      /\ \A t \in Tokens \ {c.refresh} : successor'[t] = successor[t]
      /\ successor'[c.refresh] = IF rotates THEN NextToken ELSE NoToken
  BY <1>a, <1>b DEF RefreshGranted, Grant, Inv, TypeOK, Tokens
<1>f. /\ \A t \in Tokens : successor[t] # NoToken => t <= Len(owner)
      /\ successor[NextToken] = NoToken
      /\ NextToken # c.refresh
      /\ \A t \in Tokens : successor'[t] # NoToken => t <= Len(owner')
  BY <1>a, <1>b, <1>c DEF Inv, TypeOK, Owned, Tokens, Credentials
<1>n. PICK new : new = credentials'[r]
  OBVIOUS
<1>d. /\ new \in Credentials
      /\ new # NotLoggedIn
      /\ new.access = NextToken
      /\ new.refresh = IF rotates THEN NextToken ELSE c.refresh
      /\ new.account = c.account
      /\ new.secret = c.secret
  <2> DEFINE refresh == IF rotates THEN NextToken ELSE NoToken
             account == IF named THEN owner[c.refresh] ELSE NoAccount
             reply == [access |-> NextToken, refresh |-> refresh, account |-> account]
  <2>1. /\ refresh \in Tokens \cup {NoToken}
        /\ account \in Accounts \cup {NoAccount}
        /\ refresh = NoToken <=> ~rotates
        /\ account # NoAccount => account = c.account
    BY <1>a, <1>b, AccountsAssumption
  <2>2. new = Refreshed(c, reply)
    BY <1>n DEF RefreshGranted, Inv, TypeOK
  <2>5. reply = [access |-> NextToken, refresh |-> refresh, account |-> account]
    OBVIOUS
  <2> HIDE DEF c, refresh, account, reply
  <2>3. /\ Refreshed(c, reply) \in Credentials
        /\ Refreshed(c, reply).access = NextToken
        /\ Refreshed(c, reply).refresh = IF refresh = NoToken THEN c.refresh ELSE refresh
        /\ Refreshed(c, reply).account = IF account = NoAccount THEN c.account ELSE account
        /\ Refreshed(c, reply).secret = c.secret
    <3>1. ASSUME NEW d \in Credentials, NEW n \in Tokens,
                 reply = [access |-> n, refresh |-> refresh, account |-> account]
          PROVE  /\ Refreshed(d, reply) \in Credentials
                 /\ Refreshed(d, reply).access = n
                 /\ Refreshed(d, reply).refresh = IF refresh = NoToken THEN d.refresh ELSE refresh
                 /\ Refreshed(d, reply).account = IF account = NoAccount THEN d.account ELSE account
                 /\ Refreshed(d, reply).secret = d.secret
      BY <2>1, <3>1, RefreshedCredentials
    <3> QED
      BY <1>a, <1>b, <2>1, <2>5, <3>1
  <2>4. rotates => refresh = NextToken
    BY DEF refresh
  <2> QED
    BY <2>1, <2>2, <2>3, <2>4, CredentialsExist
<1>e. /\ pc[r] = "refreshing"
      /\ credentials' = [credentials EXCEPT ![r] = new]
      /\ pc' = [pc EXCEPT ![r] = "saving"]
      /\ UNCHANGED <<stored, mutex, access, rejected, calls, commandVars,
                     nearExpiry, refused, historyVars>>
  BY <1>n DEF RefreshGranted, Inv, TypeOK
<1>1. TypeOK'
  BY <1>a, <1>b, <1>c, <1>d, <1>e, <1>f DEF Inv, TypeOK
<1>2. Holders'
  BY <1>a, <1>b, <1>c, <1>d, <1>e, <1>f DEF Inv, TypeOK, Holders
<1>3. Owned'
  <2>1. stored' # NotLoggedIn => OwnedCredentials(stored)'
    BY <1>b, <1>e DEF Inv, Owned, OwnedCredentials
  <2>2. \A q \in Requests : credentials'[q] # NotLoggedIn => OwnedCredentials(credentials[q])'
    <3>1. OwnedCredentials(new)'
      BY <1>a, <1>b, <1>d DEF OwnedCredentials
    <3> QED
      BY <1>b, <1>e, <3>1 DEF Inv, TypeOK, Owned, OwnedCredentials
  <2>3. \A q \in Requests :
           /\ pc'[q] = "call" => /\ access'[q].token \in 1 .. Len(owner')
                                /\ owner'[access'[q].token] = access'[q].account
           /\ rejected'[q] \in 0 .. Len(owner')
    BY <1>b, <1>e DEF Inv, TypeOK, Owned
  <2>4. \A l \in Logins :
           login'[l] # Idle => /\ login'[l].token \in 1 .. Len(owner')
                               /\ owner'[login'[l].token] = login'[l].account
    BY <1>b, <1>e DEF Inv, TypeOK, Owned
  <2> QED
    BY <1>f, <2>1, <2>2, <2>3, <2>4 DEF Owned
<1>4. Accounted'
  BY <1>a, <1>b, <1>d, <1>e DEF Inv, TypeOK, Accounted, Owned, NoToken
<1>5. LoginsOwn'
  BY <1>a, <1>b, <1>c, <1>d, <1>e, <1>f DEF Inv, TypeOK, LoginsOwn, Owned, Tokens
<1>6. SavedIsLive'
  BY <1>a, <1>b, <1>c, <1>d, <1>e, <1>f DEF Inv, TypeOK, SavedIsLive, Holders
<1>7. OneSecret'
  BY <1>a, <1>b, <1>c, <1>d, <1>e, <1>f DEF Inv, TypeOK, OneSecret
<1>8. NoNeedlessRefresh'
  BY <1>a, <1>b, <1>c, <1>d, <1>e, <1>f DEF Inv, TypeOK, NoNeedlessRefresh
<1>9. StoredRefreshIsLive'
  <2>1. CASE stored = NotLoggedIn
    BY <1>e, <2>1 DEF StoredRefreshIsLive
  <2>2. CASE stored # NotLoggedIn /\ stored.refresh = c.refresh
    BY <1>a, <1>c, <1>d, <1>e, <1>f, <2>2 DEF StoredRefreshIsLive, Inv, TypeOK
  <2>3. CASE stored # NotLoggedIn /\ stored.refresh # c.refresh
    <3>1. successor'[stored.refresh] = successor[stored.refresh]
      BY <1>c, <2>3 DEF Inv, TypeOK, Credentials
    <3>2. \A q \in Requests : pc[q] # "saving"
      BY <1>a, <1>e DEF Inv, Holders
    <3> QED
      BY <1>e, <2>3, <3>1, <3>2 DEF StoredRefreshIsLive, Inv
  <2> QED
    BY <2>1, <2>2, <2>3
<1>10. PersistedBeforeUse' /\ RetryUsesAnotherToken'
  BY <1>a, <1>b, <1>c, <1>d, <1>e, <1>f DEF Inv, TypeOK, PersistedBeforeUse, RetryUsesAnotherToken
<1> QED
  BY <1>1, <1>2, <1>3, <1>4, <1>5, <1>6, <1>7, <1>8, <1>9, <1>10 DEF Inv

\* The new tokens do not reach the adapter.
LEMMA AnswerLostStep ==
    ASSUME Inv, NEW r \in Requests, NEW rotates \in BOOLEAN,
           AnswerLost(r, rotates)
    PROVE  Inv'
<1> USE DEF commandVars
<1> DEFINE c == credentials[r]
<1>a. /\ c \in Credentials
      /\ c # NotLoggedIn
      /\ mutex = r
      /\ c.refresh \in 1 .. Len(owner)
      /\ c.refresh \in Tokens
      /\ c.access \in 1 .. Len(owner)
      /\ owner[c.access] = c.account
      /\ owner[c.refresh] = c.account
      /\ c.account \in Accounts
      /\ NextToken # NoToken
  BY DEF AnswerLost, Inv, TypeOK, Holders, Owned, OwnedCredentials, Credentials, Tokens, NextToken, NoToken
<1>b. /\ NextToken = Len(owner) + 1
      /\ NextToken \in Tokens
      /\ owner' \in Seq(Accounts)
      /\ Len(owner') = NextToken
      /\ \A t \in 1 .. Len(owner) : t \in 1 .. Len(owner') /\ owner'[t] = owner[t]
      /\ owner'[NextToken] = c.account
      /\ \A d : OwnedCredentials(d) => OwnedCredentials(d)'
  BY <1>a, IssueOne DEF AnswerLost, Grant
<1>c. /\ successor' \in [Tokens -> Tokens \cup {NoToken}]
      /\ successor[c.refresh] = NoToken
      /\ \A t \in Tokens \ {c.refresh} : successor'[t] = successor[t]
      /\ successor'[c.refresh] = IF rotates THEN NextToken ELSE NoToken
  BY <1>a, <1>b DEF AnswerLost, Grant, Inv, TypeOK, Tokens
<1>f. /\ \A t \in Tokens : successor[t] # NoToken => t <= Len(owner)
      /\ successor[NextToken] = NoToken
      /\ NextToken # c.refresh
      /\ \A t \in Tokens : successor'[t] # NoToken => t <= Len(owner')
  BY <1>a, <1>b, <1>c DEF Inv, TypeOK, Owned, Tokens, Credentials
<1>e. /\ pc[r] = "refreshing"
      /\ pc' = [pc EXCEPT ![r] = "idle"]
      /\ access' = [access EXCEPT ![r] = NoAccess]
      /\ rejected' = [rejected EXCEPT ![r] = NoToken]
      /\ calls' = [calls EXCEPT ![r] = 0]
      /\ credentials' = [credentials EXCEPT ![r] = NotLoggedIn]
      /\ mutex' = NoRequest
      /\ lost' = lost \cup {NextToken}
      /\ UNCHANGED <<stored, commandVars, nearExpiry, refused, persisted, session>>
  BY DEF AnswerLost, Return, Unlock
<1>1. TypeOK'
  BY <1>a, <1>b, <1>c, <1>e, <1>f DEF Inv, TypeOK
<1>2. Holders'
  BY <1>a, <1>e, RequestsAssumption DEF Inv, TypeOK, Holders
<1>3. Owned'
  <2>1. stored' # NotLoggedIn => OwnedCredentials(stored)'
    BY <1>b, <1>e DEF Inv, Owned, OwnedCredentials
  <2>2. \A q \in Requests : credentials'[q] # NotLoggedIn => OwnedCredentials(credentials[q])'
    BY <1>b, <1>e DEF Inv, TypeOK, Owned, OwnedCredentials
  <2>3. \A q \in Requests :
           /\ pc'[q] = "call" => /\ access'[q].token \in 1 .. Len(owner')
                                /\ owner'[access'[q].token] = access'[q].account
           /\ rejected'[q] \in 0 .. Len(owner')
    BY <1>b, <1>e DEF Inv, TypeOK, Owned, NoToken
  <2>4. \A l \in Logins :
           login'[l] # Idle => /\ login'[l].token \in 1 .. Len(owner')
                               /\ owner'[login'[l].token] = login'[l].account
    BY <1>b, <1>e DEF Inv, TypeOK, Owned
  <2> QED
    BY <1>f, <2>1, <2>2, <2>3, <2>4 DEF Owned
<1>4. Accounted'
  BY <1>a, <1>b, <1>e DEF Inv, TypeOK, Accounted, Owned, NoToken
<1>5. LoginsOwn'
  BY <1>a, <1>b, <1>c, <1>e, <1>f DEF Inv, TypeOK, LoginsOwn, Owned, Tokens
<1>6. SavedIsLive'
  BY <1>a, <1>b, <1>c, <1>e, <1>f DEF Inv, TypeOK, SavedIsLive, Holders
<1>7. OneSecret'
  BY <1>a, <1>b, <1>c, <1>e, <1>f DEF Inv, TypeOK, OneSecret
<1>8. NoNeedlessRefresh'
  BY <1>a, <1>b, <1>c, <1>e, <1>f DEF Inv, TypeOK, NoNeedlessRefresh
<1>9. StoredRefreshIsLive'
  <2>1. CASE stored = NotLoggedIn
    BY <1>e, <2>1 DEF StoredRefreshIsLive
  <2>2. CASE stored # NotLoggedIn /\ stored.refresh = c.refresh
    BY <1>a, <1>c, <1>e, <1>f, <2>2 DEF StoredRefreshIsLive, Inv, TypeOK
  <2>3. CASE stored # NotLoggedIn /\ stored.refresh # c.refresh
    <3>1. successor'[stored.refresh] = successor[stored.refresh]
      BY <1>c, <2>3 DEF Inv, TypeOK, Credentials
    <3>2. \A q \in Requests : pc[q] # "saving"
      BY <1>a, <1>e DEF Inv, Holders
    <3> QED
      BY <1>e, <2>3, <3>1, <3>2 DEF StoredRefreshIsLive, Inv
  <2> QED
    BY <2>1, <2>2, <2>3
<1>10. PersistedBeforeUse' /\ RetryUsesAnotherToken'
  BY <1>a, <1>b, <1>c, <1>e, <1>f DEF Inv, TypeOK, PersistedBeforeUse, RetryUsesAnotherToken
<1> QED
  BY <1>1, <1>2, <1>3, <1>4, <1>5, <1>6, <1>7, <1>8, <1>9, <1>10 DEF Inv

\* The file is replaced, but Save reports an error.
LEMMA SaveThenReturnStep ==
    ASSUME Inv, NEW r \in Requests, pc[r] = "saving",
           Replace(credentials[r]), Return(r), Unlock,
           UNCHANGED <<commandVars, outsideVars, lost, session>>
    PROVE  Inv'
<1> USE DEF Replace, Return, Unlock, commandVars, outsideVars
<1> DEFINE c == credentials[r]
<1>a. /\ c \in Credentials
      /\ c # NotLoggedIn
      /\ mutex = r
      /\ mutex' = NoRequest
      /\ OwnedCredentials(c)
      /\ c.access # rejected[r]
      /\ calls[r] \in 0 .. 1
      /\ successor[c.refresh] = NoToken
      /\ \A l \in Logins : login[l] # Idle => c.refresh # login[l].token
      /\ session = "first" => c.secret = 1
      /\ persisted' \subseteq Tokens
      /\ c.access \in persisted'
  BY DEF Replace, Unlock, Inv, TypeOK, Holders, Owned, Accounted, LoginsOwn, SavedIsLive, OneSecret, Credentials
<1>b. \A q \in Requests : q # r => pc[q] # "saving" /\ credentials[q] = NotLoggedIn
  BY <1>a DEF Inv, Holders
<1>1. TypeOK'
  BY <1>a, <1>b DEF Inv, TypeOK
<1>2. Holders'
  BY <1>a, RequestsAssumption DEF Inv, TypeOK, Holders
<1>3. Owned'
  BY <1>a DEF Inv, TypeOK, Owned, OwnedCredentials, NoToken
<1>4. Accounted'
  BY <1>a DEF Inv, TypeOK, Accounted, NoToken
<1>5. LoginsOwn'
  BY <1>a, <1>b DEF Inv, TypeOK, LoginsOwn
<1>6. SavedIsLive'
  BY <1>a, <1>b DEF Inv, TypeOK, SavedIsLive
<1>7. OneSecret'
  BY <1>a, <1>b DEF Inv, TypeOK, OneSecret
<1>8. NoNeedlessRefresh'
  BY <1>a, <1>b DEF Inv, TypeOK, NoNeedlessRefresh
<1>9. StoredRefreshIsLive'
  BY <1>a, <1>b DEF Inv, TypeOK, StoredRefreshIsLive
<1>10. PersistedBeforeUse' /\ RetryUsesAnotherToken'
  BY <1>a, <1>b DEF Inv, TypeOK, PersistedBeforeUse, RetryUsesAnotherToken
<1> QED
  BY <1>1, <1>2, <1>3, <1>4, <1>5, <1>6, <1>7, <1>8, <1>9, <1>10 DEF Inv

\* The file is replaced, and the token used.
LEMMA SaveThenCallStep ==
    ASSUME Inv, NEW r \in Requests, pc[r] = "saving",
           Replace(credentials[r]), CallWith(r, credentials[r]), Unlock,
           UNCHANGED <<commandVars, outsideVars, lost, session>>
    PROVE  Inv'
<1> USE DEF Replace, CallWith, Unlock, commandVars, outsideVars
<1> DEFINE c == credentials[r]
<1>a. /\ c \in Credentials
      /\ c # NotLoggedIn
      /\ mutex = r
      /\ mutex' = NoRequest
      /\ OwnedCredentials(c)
      /\ c.access # rejected[r]
      /\ calls[r] \in 0 .. 1
      /\ successor[c.refresh] = NoToken
      /\ \A l \in Logins : login[l] # Idle => c.refresh # login[l].token
      /\ session = "first" => c.secret = 1
      /\ persisted' \subseteq Tokens
      /\ c.access \in persisted'
  BY DEF Replace, Unlock, Inv, TypeOK, Holders, Owned, Accounted, LoginsOwn, SavedIsLive, OneSecret, Credentials
<1>b. \A q \in Requests : q # r => pc[q] # "saving" /\ credentials[q] = NotLoggedIn
  BY <1>a DEF Inv, Holders
<1>1. TypeOK'
  BY <1>a, AccessExists DEF Inv, TypeOK
<1>2. Holders'
  BY <1>a, RequestsAssumption DEF Inv, TypeOK, Holders
<1>3. Owned'
  BY <1>a, AccessExists DEF Inv, TypeOK, Owned, OwnedCredentials, NoToken
<1>4. Accounted'
  BY <1>a, AccessExists DEF Inv, TypeOK, Accounted
<1>5. LoginsOwn'
  BY <1>a, <1>b DEF Inv, TypeOK, LoginsOwn
<1>6. SavedIsLive'
  BY <1>a, <1>b DEF Inv, TypeOK, SavedIsLive
<1>7. OneSecret'
  BY <1>a, <1>b DEF Inv, TypeOK, OneSecret
<1>8. NoNeedlessRefresh'
  BY <1>a, <1>b DEF Inv, TypeOK, NoNeedlessRefresh
<1>9. StoredRefreshIsLive'
  BY <1>a, <1>b DEF Inv, TypeOK, StoredRefreshIsLive
<1>10. PersistedBeforeUse' /\ RetryUsesAnotherToken'
  BY <1>a, AccessExists DEF Inv, TypeOK, PersistedBeforeUse, RetryUsesAnotherToken
<1> QED
  BY <1>1, <1>2, <1>3, <1>4, <1>5, <1>6, <1>7, <1>8, <1>9, <1>10 DEF Inv

\* Save replaces the file or not, and refresh returns.
LEMMA SaveRefreshedStep ==
    ASSUME Inv, NEW r \in Requests, SaveRefreshed(r)
    PROVE  Inv'
<1>1. CASE Replace(credentials[r]) /\ CallWith(r, credentials[r]) /\ UNCHANGED lost
  BY <1>1, SaveThenCallStep DEF SaveRefreshed
<1>2. CASE Replace(credentials[r]) /\ Return(r) /\ UNCHANGED lost
  BY <1>2, SaveThenReturnStep DEF SaveRefreshed
<1>3. CASE /\ Return(r)
           /\ lost' = lost \cup {credentials[r].refresh}
           /\ UNCHANGED <<stored, persisted>>
  <2>1. mutex = r /\ credentials[r].refresh \in Tokens
    BY DEF Inv, TypeOK, Holders, Credentials, SaveRefreshed
  <2> QED
    BY <1>3, <2>1, ReturnStep DEF SaveRefreshed, Unlock, outsideVars, Inv, TypeOK
<1> QED
  BY <1>1, <1>2, <1>3 DEF SaveRefreshed

-----------------------------------------------------------------------------
(* Commands, crashes and time *)

\* A login command holds a token once it has one.
LEMMA LoginHolds ==
    ASSUME Inv, NEW l \in Logins
    PROVE  /\ login[l] # Idle <=> login[l].pc \in {"exchanged", "loaded"}
           /\ login[l] # Idle => login[l].token \in Tokens /\ login[l].account \in Accounts
           /\ login[l].pc = "loaded" => login[l].secret \in Tokens
BY DEF Inv, TypeOK, Idle

\* A login gets a token that nobody else has.
LEMMA LoginExchangeStep ==
    ASSUME Inv, NEW l \in Logins, NEW account \in Accounts,
           LoginExchange(l, account)
    PROVE  Inv'
<1> USE DEF requestVars, historyVars
<1>a. /\ NextToken = Len(owner) + 1
      /\ NextToken \in Tokens
      /\ owner' \in Seq(Accounts)
      /\ Len(owner') = NextToken
      /\ \A t \in 1 .. Len(owner) : t \in 1 .. Len(owner') /\ owner'[t] = owner[t]
      /\ owner'[NextToken] = account
      /\ \A d : OwnedCredentials(d) => OwnedCredentials(d)'
  BY IssueOne DEF LoginExchange
<1>b. /\ login' = [login EXCEPT ![l] = [pc |-> "exchanged", token |-> NextToken, account |-> account]]
      /\ commands' \in 0 .. MaxCommands
      /\ UNCHANGED <<stored, localSecret, requestVars, successor, nearExpiry, refused,
                     historyVars>>
  BY BoundsAssumption DEF LoginExchange, CountCommand, Inv, TypeOK
<1>1. TypeOK'
  BY <1>a, <1>b DEF Inv, TypeOK
<1>2. Holders'
  BY <1>a, <1>b DEF Inv, TypeOK, Holders
<1>3. Owned'
  <2>1. stored' # NotLoggedIn => OwnedCredentials(stored)'
    BY <1>a, <1>b DEF Inv, Owned, OwnedCredentials
  <2>2. \A q \in Requests : credentials'[q] # NotLoggedIn => OwnedCredentials(credentials[q])'
    BY <1>a, <1>b DEF Inv, TypeOK, Owned, OwnedCredentials
  <2>3. \A q \in Requests :
           /\ pc'[q] = "call" => /\ access'[q].token \in 1 .. Len(owner')
                                /\ owner'[access'[q].token] = access'[q].account
           /\ rejected'[q] \in 0 .. Len(owner')
    <3>1. pc' = pc /\ access' = access /\ rejected' = rejected
      BY <1>b
    <3>2. \A q \in Requests : rejected'[q] \in 0 .. Len(owner')
      BY <1>a, <3>1 DEF Inv, Owned
    <3>3. \A q \in Requests :
             pc'[q] = "call" => /\ access'[q].token \in 1 .. Len(owner')
                                /\ owner'[access'[q].token] = access'[q].account
      BY <1>a, <3>1 DEF Inv, Owned
    <3> QED
      BY <3>2, <3>3
  <2>4. \A m \in Logins :
           login'[m] # Idle => /\ login'[m].token \in 1 .. Len(owner')
                               /\ owner'[login'[m].token] = login'[m].account
    <3> SUFFICES ASSUME NEW m \in Logins, login'[m] # Idle
                 PROVE  /\ login'[m].token \in 1 .. Len(owner')
                        /\ owner'[login'[m].token] = login'[m].account
      OBVIOUS
    <3>1. CASE m = l
      <4>1. login'[m].token = NextToken /\ login'[m].account = account
        BY <1>b, <3>1 DEF Inv, TypeOK
      <4>2. NextToken \in 1 .. Len(owner')
        BY <1>a
      <4> QED
        BY <1>a, <4>1, <4>2
    <3>2. CASE m # l
      <4>1. login'[m] = login[m]
        BY <1>b, <3>2 DEF Inv, TypeOK
      <4>2. /\ login[m].token \in 1 .. Len(owner)
            /\ owner[login[m].token] = login[m].account
        BY <4>1 DEF Inv, Owned
      <4> QED
        BY <1>a, <4>1, <4>2
    <3> QED
      BY <3>1, <3>2
  <2>5. \A t \in Tokens : successor'[t] # NoToken => t <= Len(owner')
    BY <1>a, <1>b DEF Inv, TypeOK, Owned, Tokens
  <2> QED
    BY <2>1, <2>2, <2>3, <2>4, <2>5 DEF Owned
<1>4. Accounted'
  BY <1>a, <1>b DEF Inv, TypeOK, Accounted
<1>5. LoginsOwn'
  BY <1>a, <1>b DEF Inv, TypeOK, LoginsOwn, Owned, OwnedCredentials
<1>6. SavedIsLive'
  BY <1>a, <1>b DEF Inv, TypeOK, SavedIsLive
<1>7. OneSecret'
  BY <1>a, <1>b DEF Inv, TypeOK, OneSecret
<1>8. NoNeedlessRefresh'
  BY <1>a, <1>b DEF Inv, TypeOK, NoNeedlessRefresh
<1>9. StoredRefreshIsLive'
  BY <1>a, <1>b DEF Inv, TypeOK, StoredRefreshIsLive
<1>10. PersistedBeforeUse' /\ RetryUsesAnotherToken'
  BY <1>a, <1>b DEF Inv, TypeOK, PersistedBeforeUse, RetryUsesAnotherToken
<1> QED
  BY <1>1, <1>2, <1>3, <1>4, <1>5, <1>6, <1>7, <1>8, <1>9, <1>10 DEF Inv

\* A login takes over the secret of the file.
LEMMA LoginLoadStep ==
    ASSUME Inv, NEW l \in Logins, LoginLoad(l)
    PROVE  Inv'
<1> USE DEF requestVars, outsideVars, historyVars
<1> DEFINE c == login[l]
           d == login'[l]
<1>a. /\ c # Idle
      /\ login' = [login EXCEPT ![l] =
                      [pc |-> "loaded", token |-> c.token, account |-> c.account,
                       secret |-> KeptSecret(c.token)]]
      /\ c.token \in Tokens
      /\ c.account \in Accounts
      /\ KeptSecret(c.token) \in Tokens
      /\ session = "first" => KeptSecret(c.token) = 1
      /\ d # Idle
      /\ UNCHANGED <<stored, localSecret, requestVars, commands, outsideVars, historyVars>>
  BY LoginHolds DEF LoginLoad, KeptSecret, Inv, TypeOK, OneSecret, Credentials, Idle
<1>1. TypeOK'
  BY <1>a DEF Inv, TypeOK
<1>2. Holders'
  BY <1>a DEF Inv, TypeOK, Holders
<1>3. Owned'
  BY <1>a DEF Inv, TypeOK, Owned, OwnedCredentials
<1>4. Accounted'
  BY <1>a DEF Inv, TypeOK, Accounted
<1>5. LoginsOwn'
  BY <1>a DEF Inv, TypeOK, LoginsOwn
<1>6. SavedIsLive'
  BY <1>a DEF Inv, TypeOK, SavedIsLive
<1>7. OneSecret'
  BY <1>a DEF Inv, TypeOK, OneSecret
<1>8. NoNeedlessRefresh'
  BY <1>a DEF Inv, TypeOK, NoNeedlessRefresh
<1>9. StoredRefreshIsLive'
  BY <1>a DEF Inv, TypeOK, StoredRefreshIsLive
<1>10. PersistedBeforeUse' /\ RetryUsesAnotherToken'
  BY <1>a DEF Inv, TypeOK, PersistedBeforeUse, RetryUsesAnotherToken
<1> QED
  BY <1>1, <1>2, <1>3, <1>4, <1>5, <1>6, <1>7, <1>8, <1>9, <1>10 DEF Inv

\* A login puts its own token in the file.
LEMMA LoginSaveStep ==
    ASSUME Inv, NEW l \in Logins, LoginSave(l)
    PROVE  Inv'
<1> USE DEF requestVars, outsideVars
<1> DEFINE c == login[l]
           new == [access |-> c.token, refresh |-> c.token, account |-> c.account,
                   secret |-> c.secret]
<1>a. /\ c # Idle
      /\ new \in Credentials
      /\ new # NotLoggedIn
      /\ OwnedCredentials(new)
      /\ successor[new.refresh] = NoToken
      /\ session = "first" => new.secret = 1
      /\ stored' = new
      /\ persisted' = persisted \cup {new.access}
      /\ login' = [login EXCEPT ![l] = Idle]
      /\ new.access \in Tokens
      /\ session' = IF session = "ended" THEN "renewed" ELSE session
      /\ UNCHANGED <<localSecret, requestVars, commands, outsideVars, lost>>
  <2>1. c.pc = "loaded"
    BY DEF LoginSave
  <2>2. new \in Credentials
    BY <2>1, LoginHolds DEF Credentials
  <2> QED
    BY <2>1, <2>2, LoginHolds, CredentialsExist
    DEF LoginSave, Replace, Inv, Owned, OwnedCredentials, LoginsOwn, OneSecret, Credentials
<1>1. TypeOK'
  BY <1>a DEF Inv, TypeOK
<1>2. Holders'
  BY <1>a DEF Inv, TypeOK, Holders
<1>3. Owned'
  BY <1>a DEF Inv, TypeOK, Owned, OwnedCredentials
<1>4. Accounted'
  BY <1>a DEF Inv, TypeOK, Accounted
<1>5. LoginsOwn'
  BY <1>a DEF Inv, TypeOK, LoginsOwn, LoginsOwn
<1>6. SavedIsLive'
  BY <1>a DEF Inv, TypeOK, SavedIsLive
<1>7. OneSecret'
  BY <1>a DEF Inv, TypeOK, OneSecret, Idle
<1>8. NoNeedlessRefresh'
  BY <1>a DEF Inv, TypeOK, NoNeedlessRefresh
<1>9. StoredRefreshIsLive'
  BY <1>a DEF Inv, TypeOK, StoredRefreshIsLive
<1>10. PersistedBeforeUse' /\ RetryUsesAnotherToken'
  BY <1>a DEF Inv, TypeOK, PersistedBeforeUse, RetryUsesAnotherToken
<1> QED
  BY <1>1, <1>2, <1>3, <1>4, <1>5, <1>6, <1>7, <1>8, <1>9, <1>10 DEF Inv

\* A login that fails leaves the file alone.
LEMMA LoginFailsStep ==
    ASSUME Inv, NEW l \in Logins, LoginFails(l)
    PROVE  Inv'
<1> USE DEF LoginFails, requestVars, outsideVars, historyVars
<1>1. TypeOK'
  BY DEF Inv, TypeOK
<1>2. Holders'
  BY DEF Inv, TypeOK, Holders
<1>3. Owned'
  BY DEF Inv, TypeOK, Owned, OwnedCredentials
<1>4. Accounted'
  BY DEF Inv, TypeOK, Accounted
<1>5. LoginsOwn'
  BY DEF Inv, TypeOK, LoginsOwn
<1>6. SavedIsLive'
  BY DEF Inv, TypeOK, SavedIsLive
<1>7. OneSecret'
  BY DEF Inv, TypeOK, OneSecret, Idle
<1>8. NoNeedlessRefresh'
  BY DEF Inv, TypeOK, NoNeedlessRefresh
<1>9. StoredRefreshIsLive'
  BY DEF Inv, TypeOK, StoredRefreshIsLive
<1>10. PersistedBeforeUse' /\ RetryUsesAnotherToken'
  BY DEF Inv, TypeOK, PersistedBeforeUse, RetryUsesAnotherToken
<1> QED
  BY <1>1, <1>2, <1>3, <1>4, <1>5, <1>6, <1>7, <1>8, <1>9, <1>10 DEF Inv

\* After a logout the first session is over.
LEMMA LogoutStep ==
    ASSUME Inv, Logout
    PROVE  Inv'
<1> USE DEF Logout, CountCommand, requestVars, outsideVars
<1>1. TypeOK'
  BY BoundsAssumption DEF Inv, TypeOK
<1>2. Holders'
  BY DEF Inv, TypeOK, Holders
<1>3. Owned'
  BY DEF Inv, TypeOK, Owned, OwnedCredentials
<1>4. Accounted'
  BY DEF Inv, TypeOK, Accounted
<1>5. LoginsOwn'
  BY DEF Inv, TypeOK, LoginsOwn
<1>6. SavedIsLive'
  BY DEF Inv, TypeOK, SavedIsLive
<1>7. OneSecret'
  BY DEF Inv, TypeOK, OneSecret
<1>8. NoNeedlessRefresh'
  BY DEF Inv, TypeOK, NoNeedlessRefresh
<1>9. StoredRefreshIsLive'
  BY DEF Inv, TypeOK, StoredRefreshIsLive
<1>10. PersistedBeforeUse' /\ RetryUsesAnotherToken'
  BY DEF Inv, TypeOK, PersistedBeforeUse, RetryUsesAnotherToken
<1> QED
  BY <1>1, <1>2, <1>3, <1>4, <1>5, <1>6, <1>7, <1>8, <1>9, <1>10 DEF Inv

\* The server starts with the secret of the file.
LEMMA ServeStep ==
    ASSUME Inv, Serve
    PROVE  Inv'
<1> USE DEF Serve, requestVars, outsideVars, historyVars
<1>1. TypeOK'
  BY DEF Inv, TypeOK, Credentials
<1>2. Holders'
  BY DEF Inv, TypeOK, Holders
<1>3. Owned'
  BY DEF Inv, TypeOK, Owned, OwnedCredentials
<1>4. Accounted'
  BY DEF Inv, TypeOK, Accounted
<1>5. LoginsOwn'
  BY DEF Inv, TypeOK, LoginsOwn
<1>6. SavedIsLive'
  BY DEF Inv, TypeOK, SavedIsLive
<1>7. OneSecret'
  BY DEF Inv, TypeOK, OneSecret
<1>8. NoNeedlessRefresh'
  BY DEF Inv, TypeOK, NoNeedlessRefresh
<1>9. StoredRefreshIsLive'
  BY DEF Inv, TypeOK, StoredRefreshIsLive
<1>10. PersistedBeforeUse' /\ RetryUsesAnotherToken'
  BY DEF Inv, TypeOK, PersistedBeforeUse, RetryUsesAnotherToken
<1> QED
  BY <1>1, <1>2, <1>3, <1>4, <1>5, <1>6, <1>7, <1>8, <1>9, <1>10 DEF Inv

\* A crash loses the tokens that were being saved, and frees the mutex.
LEMMA CrashStep ==
    ASSUME Inv, Crash
    PROVE  Inv'
<1> USE DEF Crash, CountCommand, outsideVars
<1>1. TypeOK'
  BY BoundsAssumption DEF Inv, TypeOK, NoToken, Credentials, Holders
<1>2. Holders'
  BY RequestsAssumption DEF Inv, TypeOK, Holders
<1>3. Owned'
  BY DEF Inv, TypeOK, Owned, OwnedCredentials, NoToken
<1>4. Accounted'
  BY DEF Inv, TypeOK, Accounted, NoToken
<1>5. LoginsOwn'
  BY DEF Inv, TypeOK, LoginsOwn
<1>6. SavedIsLive'
  BY DEF Inv, TypeOK, SavedIsLive
<1>7. OneSecret'
  BY DEF Inv, TypeOK, OneSecret
<1>8. NoNeedlessRefresh'
  BY DEF Inv, TypeOK, NoNeedlessRefresh
<1>9. StoredRefreshIsLive'
  BY DEF Inv, TypeOK, StoredRefreshIsLive, Holders
<1>10. PersistedBeforeUse' /\ RetryUsesAnotherToken'
  BY DEF Inv, TypeOK, PersistedBeforeUse, RetryUsesAnotherToken
<1> QED
  BY <1>1, <1>2, <1>3, <1>4, <1>5, <1>6, <1>7, <1>8, <1>9, <1>10 DEF Inv

\* Time only adds tokens that need a refresh.
LEMMA ExpireStep ==
    ASSUME Inv, Expire
    PROVE  Inv'
<1> USE DEF Expire, requestVars, commandVars, historyVars
<1>1. TypeOK'
  BY DEF Inv, TypeOK, Credentials
<1>2. Holders'
  BY DEF Inv, TypeOK, Holders
<1>3. Owned'
  BY DEF Inv, TypeOK, Owned, OwnedCredentials
<1>4. Accounted'
  BY DEF Inv, TypeOK, Accounted
<1>5. LoginsOwn'
  BY DEF Inv, TypeOK, LoginsOwn
<1>6. SavedIsLive'
  BY DEF Inv, TypeOK, SavedIsLive
<1>7. OneSecret'
  BY DEF Inv, TypeOK, OneSecret
<1>8. NoNeedlessRefresh'
  BY DEF Inv, TypeOK, NoNeedlessRefresh
<1>9. StoredRefreshIsLive'
  BY DEF Inv, TypeOK, StoredRefreshIsLive
<1>10. PersistedBeforeUse' /\ RetryUsesAnotherToken'
  BY DEF Inv, TypeOK, PersistedBeforeUse, RetryUsesAnotherToken
<1> QED
  BY <1>1, <1>2, <1>3, <1>4, <1>5, <1>6, <1>7, <1>8, <1>9, <1>10 DEF Inv

-----------------------------------------------------------------------------
(* The invariant *)

\* The server starts with the credentials of a login.
LEMMA InitInv == Init => Inv
<1> SUFFICES ASSUME Init
             PROVE  Inv
  OBVIOUS
<1>1. PICK account \in Accounts :
         /\ stored = [access |-> 1, refresh |-> 1, account |-> account, secret |-> 1]
         /\ owner = <<account>>
  BY DEF Init
<1>2. 1 \in Tokens /\ Len(owner) = 1 /\ owner[1] = account /\ owner \in Seq(Accounts)
  BY <1>1, BoundsAssumption DEF Tokens
<1>3. stored \in Credentials /\ OwnedCredentials(stored)
  BY <1>1, <1>2 DEF Credentials, OwnedCredentials
<1>4. TypeOK
  BY <1>2, <1>3, BoundsAssumption DEF Init, TypeOK
<1>5. Holders
  BY RequestsAssumption DEF Init, Holders
<1>6. Owned
  BY <1>2, <1>3 DEF Init, Owned, NoToken
<1>7. Accounted
  BY <1>1 DEF Init, Accounted
<1>8. LoginsOwn /\ SavedIsLive
  BY DEF Init, LoginsOwn, SavedIsLive
<1>9. OneSecret
  BY <1>1, <1>3, CredentialsExist DEF Init, OneSecret, Idle
<1>10. NoNeedlessRefresh /\ PersistedBeforeUse /\ RetryUsesAnotherToken
  BY DEF Init, NoNeedlessRefresh, PersistedBeforeUse, RetryUsesAnotherToken
<1>11. StoredRefreshIsLive
  BY <1>1, <1>2 DEF Init, StoredRefreshIsLive
<1> QED
  BY <1>4, <1>5, <1>6, <1>7, <1>8, <1>9, <1>10, <1>11 DEF Inv

\* Every step of every process preserves the invariant.
LEMMA NextInv == Inv /\ [Next]_vars => Inv'
<1> SUFFICES ASSUME Inv, [Next]_vars
             PROVE  Inv'
  OBVIOUS
<1>1. CASE UNCHANGED vars
  BY <1>1 DEF Inv, TypeOK, Holders, Owned, OwnedCredentials, Accounted, LoginsOwn,
       SavedIsLive, OneSecret, NoNeedlessRefresh, StoredRefreshIsLive, PersistedBeforeUse,
       RetryUsesAnotherToken, vars, requestVars, commandVars, outsideVars, historyVars
<1>2. ASSUME NEW r \in Requests, Request(r)
      PROVE  Inv'
  <2>1. CASE Exchange(r)
    BY <2>1, RefreshGrantedStep, AnswerLostStep, RefreshRefusedStep DEF Exchange
  <2> QED
    BY <1>2, <2>1, BeginStep, GetValidTokenStep, EnterRefreshStep, SaveRefreshedStep,
       UnauthorizedStep, AnsweredStep
    DEF Request, Proceed
<1>3. ASSUME NEW l \in Logins, Login(l)
      PROVE  Inv'
  BY <1>3, LoginExchangeStep, LoginLoadStep, LoginSaveStep, LoginFailsStep DEF Login
<1> QED
  BY <1>1, <1>2, <1>3, LogoutStep, ServeStep, CrashStep, ExpireStep DEF Next

\* The inductive invariant holds in every state of every behaviour.
THEOREM Invariant == Spec => []Inv
BY InitInv, NextInv, PTL DEF Spec

-----------------------------------------------------------------------------
(* The properties *)

\* Variables keep their types; callUpstream calls the upstream at most twice.
THEOREM TypeCorrect == Spec => []TypeOK
<1>1. Inv => TypeOK
  BY DEF Inv
<1> QED
  BY <1>1, Invariant, PTL

\* Refreshes are deduplicated: the token endpoint is asked to replace a token
\* only when it is about to expire or was refused.
THEOREM RefreshesAreNeeded == Spec => []NoNeedlessRefresh
<1>1. Inv => NoNeedlessRefresh
  BY DEF Inv
<1> QED
  BY <1>1, Invariant, PTL

\* Rotation is not lost: only a lost answer, a failed Save or a crash can leave a
\* refresh token in the file that the provider no longer accepts.
THEOREM RotationIsKept == Spec => []StoredRefreshIsLive
<1>1. Inv => StoredRefreshIsLive
  BY DEF Inv
<1> QED
  BY <1>1, Invariant, PTL

\* No token is used before it is in the file.
THEOREM TokensArePersisted == Spec => []PersistedBeforeUse
<1>1. Inv => PersistedBeforeUse
  BY DEF Inv
<1> QED
  BY <1>1, Invariant, PTL

\* Token and account of a call belong together, whoever logs in meanwhile.
THEOREM AccountsMatch == Spec => []AccessMatchesAccount
<1>1. Inv => AccessMatchesAccount
  BY DEF Inv, Owned, AccessMatchesAccount
<1> QED
  BY <1>1, Invariant, PTL

\* The retry after a 401 never uses the token that was refused.
THEOREM RetriesDiffer == Spec => []RetryUsesAnotherToken
<1>1. Inv => RetryUsesAnotherToken
  BY DEF Inv
<1> QED
  BY <1>1, Invariant, PTL

\* Until the first logout the server and the file agree on the local secret.
THEOREM SecretIsKept == Spec => []ServerKnowsSecret
<1>1. Inv => ServerKnowsSecret
  BY DEF Inv, OneSecret, ServerKnowsSecret
<1> QED
  BY <1>1, Invariant, PTL

=============================================================================
