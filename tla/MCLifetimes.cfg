CONSTANTS
    Kinds = {"call", "var", "use", "init", "move", "deleteStmt", "return", "error", "unreachable", "break", "continue", "labeledReturn", "if", "while", "for", "switch", "tryElse", "defer", "block", "blockExpr"}
    MaxStmts <- FiveStmts
    MaxDepth = 4
    MaxCases = 2
    Corners = {}
    MaxChoices = 2
SPECIFICATION LSpec
INVARIANTS ChangesCounted UsesHoldAtRunTime DeletedOnce
PROPERTY UsesHoldOnEveryPath
CHECK_DEADLOCK FALSE
