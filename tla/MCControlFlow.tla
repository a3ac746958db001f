--------------------------- MODULE MCControlFlow ---------------------------
(***************************************************************************)
(* Instances of ControlFlow for TLC.                                       *)
(***************************************************************************)
EXTENDS ControlFlow

\* A body has up to four statements.  The fourth opens no level, as nothing
\* would be in it, and is no call or the like, which it would not tell from
\* a variable.
FourStmts ==
    [kind \in Kinds |->
        CASE kind \in {"call", "error", "unreachable", "block", "switch"} -> 2
          [] kind \in {"if", "while", "for", "tryElse", "defer", "blockExpr"} -> 3
          [] OTHER -> 4]
=============================================================================
