SPECIFICATION LoginSpec
CONSTANTS
    Browsers = {a, b, c}
    CallbackRequests <- MCRequests
    NoBrowser = none
INVARIANTS
    OneAttempt
PROPERTIES
    AllAreAnswered
CHECK_DEADLOCK FALSE
