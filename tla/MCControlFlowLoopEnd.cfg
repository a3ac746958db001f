CONSTANTS
    Kinds = {"call", "return", "while", "if"}
    MaxStmts <- FourStmts
    MaxDepth = 3
    MaxCases = 1
    MaxChoices = 3
    Corners = {"loopEndsParent"}
SPECIFICATION CFSpec
INVARIANTS ValueFunctionsEnd
CHECK_DEADLOCK FALSE
