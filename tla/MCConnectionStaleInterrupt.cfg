SPECIFICATION Spec
CONSTANTS
    MaxOps = 2
    MaxSyncs = 0
    Kinds <- AllKinds
    InterruptResults <- SQLite
    Listening = FALSE
    Rendezvous = Rendezvous
    Sentinel = Sentinel
    NoJob = NoJob
INVARIANT
    InterruptFindsHandle
