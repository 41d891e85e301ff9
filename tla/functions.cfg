SPECIFICATION FunctionsSpec
CONSTANTS
    Word = 16
    Classes <- MCClasses
    Wide = 8
    Count = 4
    Length = 4
    Byte = 8
    Ts <- MCTs
    Value <- MCValue
    MaxPoints = 3
    Form <- AllForms
    Opening <- Openings
    Ending <- Ends
    TagName <- TagNames
    Pattern <- Patterns
    Query <- Queries
    RawPoints <- Series
CHECK_DEADLOCK FALSE
INVARIANTS RoundTrip ReadBackKeepsNumbers ReadBackAddsLittle ReadRangeFinds
INVARIANTS  OnlyActionsHang PatternsSelect RowsAreAggregates
