SPECIFICATION Spec
CONSTANTS
    Calls = 3
    Cancels = 1
    NRows = 3
    Batch = 2
    Backends <- AllBackends
    Kinds <- AllKinds
    Rendezvous = Rendezvous
    Sentinel = Sentinel
INVARIANTS
    CursorIsOwned
    HandleIsReleased
PROPERTIES
    DeliversRows
    OwnerGetsOn
CHECK_DEADLOCK FALSE
