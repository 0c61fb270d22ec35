SPECIFICATION TextSpec
CONSTANTS
    Outputs = {1}
    Buses = {3}
    Inputs = {12}
    MaxLines = 10
CHECK_DEADLOCK FALSE
INVARIANTS AgreeOnShortReplies TypedRowsAgree
PROPERTY OnlyTheCutRowChanges
