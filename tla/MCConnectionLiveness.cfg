SPECIFICATION Spec
CONSTANTS
    MaxOps = 2
    MaxSyncs = 1
    Kinds <- AllKinds
    InterruptResults <- Postgres
    Listening = FALSE
    Rendezvous = Rendezvous
    Sentinel = Sentinel
    NoJob = NoJob
PROPERTIES
    KeepsPromise
    CancelledInQueueNeverRuns
    EveryCallIsAnswered
    OwnerComesBack
