SPECIFICATION Spec
CONSTANTS
    a = a
    b = b
    c = c
    Objs <- Two
    MaxId = 2
    MaxAdds = 2
    Backends <- AllBackends
    Freed = Freed
SYMMETRY Instances
CHECK_DEADLOCK FALSE
INVARIANTS
    OneInsertPerAdd
    FlushOwnsWhatItInserts
    OneInstancePerRow
    MapsAgree
PROPERTY
    FlushLosesNothing
