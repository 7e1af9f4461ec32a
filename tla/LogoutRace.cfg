SPECIFICATION Spec
CONSTANTS
    Requests = {r1}
    Logins = {l1}
    Accounts = {alice}
    NoAccount = NoAccount
    NoRequest = NoRequest
    MaxIssued = 2
    MaxCommands = 1
INVARIANT LogoutIsFinal
CHECK_DEADLOCK FALSE
