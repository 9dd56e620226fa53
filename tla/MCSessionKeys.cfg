SPECIFICATION Spec
CONSTANTS
    a = a
    b = b
    c = c
    Objs <- Two
    MaxId = 2
    MaxAdds = 1
    Backends <- RowidOnly
    Freed = Freed
SYMMETRY Instances
CHECK_DEADLOCK FALSE
INVARIANT
    KeysAreOwned
