CONSTANTS
    Kinds = {"call", "var", "return", "error", "unreachable", "break", "continue", "labeledReturn", "if", "while", "for", "switch", "tryElse", "defer", "block", "blockExpr"}
    MaxStmts <- FourStmts
    MaxDepth = 4
    MaxCases = 2
    Corners = {}
    MaxChoices = 3
SPECIFICATION CFSpec
INVARIANTS SubScopesCounted ValueFunctionsEnd NoAssertFails BlocksEndOnce SameBehaviour
CHECK_DEADLOCK FALSE
