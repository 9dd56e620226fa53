SPECIFICATION Spec
CONSTANTS
    IntBits = 4
    Int64Bits = 6
    ShortDigits = 1
    SingleDigits = 2
    QuoteIn <- MCQuoteIn
    DoubleDigits = 3
    NoRow = NoRow
    Worlds <- MCWorlds
    Exporters <- MCExporters
    MaxRows = 2
INVARIANTS AnswersAreRight SavedIsLoaded ExportIsWhole
CHECK_DEADLOCK FALSE
