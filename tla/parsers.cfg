SPECIFICATION Spec
CONSTANTS
    a = a  b = b
    Words = {a, b}
    Strings <- MCStrings
    DEPTH_MAX = 3
    IGNORE_MAX = 3
    MaxEvents = 9
INVARIANTS
    QueryKept
    QueryShown
    BuiltAsWritten
    RowsAsWritten
    AssertsHold
CHECK_DEADLOCK FALSE
