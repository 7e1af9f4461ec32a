SPECIFICATION FairSpec
CONSTANTS
    IdleTimeout = 2
    MaxReads = 3
    MaxFrames = 2
INVARIANTS
    TypeOK
    CompleteAfterTerminal
PROPERTIES
    TimeoutIsHonest
    ImplementsMessageAnswer
    ReaderEnds
\* The request is over once the handler and the goroutine have ended.
CHECK_DEADLOCK FALSE
