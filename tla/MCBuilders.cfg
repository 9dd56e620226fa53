SPECIFICATION Spec
CONSTANTS
    IntBits = 4
    Int64Bits = 6
    ShortDigits = 1
    SingleDigits = 2
    QuoteIn <- MCQuoteIn
    Rows <- MCRows
    FirstTests <- MCFirstTests
    MoreTests <- MCMoreTests
    MaxTests = 3
    MaxCalls = 3
    MaxSteps = 4
INVARIANTS ConditionsMean ClausesSurvive
CHECK_DEADLOCK FALSE
