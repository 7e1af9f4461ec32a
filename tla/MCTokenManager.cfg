SPECIFICATION Spec
CONSTANTS
    Requests = {r1, r2}
    Logins = {l1, l2}
    Accounts = {alice, bob}
    NoAccount = NoAccount
    NoRequest = NoRequest
    MaxIssued = 3
    MaxCommands = 3
SYMMETRY Symmetry
INVARIANTS
    TypeOK
    NoNeedlessRefresh
    StoredRefreshIsLive
    PersistedBeforeUse
    AccessMatchesAccount
    RetryUsesAnotherToken
    ServerKnowsSecret
\* Nobody may be logged in, and the server may have stopped.
CHECK_DEADLOCK FALSE
