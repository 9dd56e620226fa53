\* Two transactions, two names of savepoints, two rows, all databases.
SPECIFICATION Spec
CONSTANTS
    Handles = {h1, h2}
    Names = {s1, s2}
    None = None
    Backends <- AllBackends
    Asked <- Strongest
    MaxRows = 2
    MaxMarks = 2
SYMMETRY Symmetry
INVARIANTS
    FlagsAgree
    NothingLeftOpen
    RolledBackLeavesNothing
    CommittedIsDurable
    AskedIsGiven
CHECK_DEADLOCK FALSE
