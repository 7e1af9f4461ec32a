SPECIFICATION Spec
CONSTANTS
    Processes = {p, q}
    Values = {v, w}
    None = none
    MaxChanges = 3
SYMMETRY Symmetry
INVARIANTS
    TypeOK
    ReportedIsSafe
    LoadIsCurrent
PROPERTIES
    ImplementsAtomicStore
CHECK_DEADLOCK FALSE
