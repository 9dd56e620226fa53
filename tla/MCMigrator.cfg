SPECIFICATION Spec
CONSTANTS
    old = old
    new = new
    m1 = m1
    m2 = m2
    m2edited = m2edited
    m3 = m3
    Runners <- Releases
    Migrations <- AllSteps
    Version <- Versions
    Reversible <- TwoWay
    Deployments <- Rollouts
    Backends <- AllBackends
    MaxCalls = 2
    MaxMishaps = 1
    Nobody = Nobody
    Nothing = Nothing
CHECK_DEADLOCK FALSE
INVARIANTS
    ReadStaysTrue
    HistoryIsPrefix
    SchemaIsRecorded
    SuccessIsCurrent
PROPERTIES
    TargetRespected
    CallsEnd
