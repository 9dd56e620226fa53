SPECIFICATION Spec
CONSTANTS
    MaxOps = 2
    MaxSyncs = 2
    Kinds <- AllKinds
    InterruptResults <- Postgres
    Listening = TRUE
    Rendezvous = Rendezvous
    Sentinel = Sentinel
    NoJob = NoJob
INVARIANTS
    TypeOK
    ReportsSettle
    ReturnedOnce
    AnswersInOrder
    StatementKeepsItsHandle
    SyncWaitsItsTurn
    CloseDrains
