--------------------------- MODULE MCLifetimes -----------------------------
(***************************************************************************)
(* Instances of Lifetimes for TLC.                                         *)
(***************************************************************************)
EXTENDS Lifetimes

\* A body has up to five statements.  The statements about variables may
\* come last; what opens a level or only ends one comes where something can
\* still follow it or has come before.
FiveStmts ==
    [kind \in Kinds |->
        CASE kind \in {"call", "error", "unreachable"} -> 1
          [] kind \in {"for", "defer", "continue", "switch", "tryElse", "blockExpr"} -> 2
          [] kind \in {"var", "if", "block", "while", "break"} -> 3
          [] kind \in {"init", "move", "return", "deleteStmt", "labeledReturn"} -> 4
          [] OTHER -> 5]
=============================================================================
