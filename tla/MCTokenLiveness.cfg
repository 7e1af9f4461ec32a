SPECIFICATION FairSpec
CONSTANTS
    Requests = {r1, r2}
    Logins = {l1}
    Accounts = {alice}
    NoAccount = NoAccount
    NoRequest = NoRequest
    MaxIssued = 3
    MaxCommands = 1
PROPERTY EveryRequestEnds
\* Nobody may be logged in, and the server may have stopped.
CHECK_DEADLOCK FALSE
