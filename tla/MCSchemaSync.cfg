SPECIFICATION Spec
CONSTANTS
    Declarations <- AllDeclarations
    OutsideDdl <- Other
    Alphabet <- Order
    Autoincrements <- Keywords
    MaxOutside = 1
    MaxFaults = 1
    MaxCalls = 2
INVARIANTS
    AllMeansAll
    DropsInOrder
PROPERTIES
    CreatedIsDeclared
    InspectorTellsTheTruth
CHECK_DEADLOCK FALSE
