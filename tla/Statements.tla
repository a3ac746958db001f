----------------------------- MODULE Statements -----------------------------
(***************************************************************************)
(* The scope levels of a function body while the SemanticAnalyzer walks    *)
(* its statements (SemanticAnalyzer.cpp, ScopeLevel.cpp, Stmt.hpp).  Each  *)
(* instruction appends a statement to the block of the innermost scope     *)
(* level, opens a scope level or closes one.  The levels count their       *)
(* sub-scopes and how many of them never reach their end; from the counts  *)
(* the analyzer decides whether the code after a statement is dead, and    *)
(* the lowering later trusts that decision.                                *)
(*                                                                         *)
(* The environment chooses the statements, so the reachable states are     *)
(* all the function bodies within the bounds.  Types, values, value states *)
(* and names are left out; every function has an error return.             *)
(*                                                                         *)
(* A definition whose comment begins with "Mistake" is no part of the      *)
(* specification: it is what a plausible mistake would make of the one     *)
(* that follows it, and shows that a property can be broken.               *)
(***************************************************************************)
EXTENDS Integers, Sequences, SequencesExt

CONSTANTS
    Kinds,      \* the kinds of statement a body may use
    MaxStmts,   \* for each kind, the statements of a body it may be among
    MaxDepth,   \* bound on the nesting of scope levels
    MaxCases,   \* bound on the cases of a switch
    Corners     \* the constructs of CornerNames that a body may use

\* Constructs the code mishandles; a body has one only if it is named.
CornerNames ==
    { "loopEndsParent",    \* a loop whose end marks its parent terminated
      "terminatedDefer",   \* a defer whose block is terminated
      "partialSwitch",     \* a partial switch all of whose cases terminate
      "unchecked",         \* a switch, try/else or delete in a terminated scope
      "errorDeferInLoop",  \* an errorDefer left by a break or continue
      "elseDefer",         \* a defer or variable in a try/for else block
      "leaveFor",          \* a labelled jump out of a for loop
      "labelThrice",       \* a third labelled return counted by one scope
      "misjudged",         \* a variable whose changed state is not seen in time
      "loopChange",        \* a loop that changes the state of a variable
      "jumpChange",        \* a jump past a change of a variable's state
      "deferValue" }       \* a defer that uses a variable

ASSUME BoundsAssumption ==
    MaxStmts \in [Kinds -> Nat] /\ MaxDepth \in Nat /\ MaxCases \in Nat
ASSUME CornersAssumption == Corners \subseteq CornerNames

VARIABLES
    scopes,     \* the open scope levels, the function's first
    bodies,     \* the statements of each open level's StmtBlock
    subscopes,  \* FuncInfo.subscopes: the open if, for and switch statements
    phase,      \* "sema", then "rejected", "crashed" or "analyzed"
    count,      \* statements so far; gives each its id
    isVoid,     \* the function returns Void; read at its end
    func        \* the function's block, once analyzed

svars == <<scopes, bodies, subscopes, phase, count, isVoid, func>>

-----------------------------------------------------------------------------
(* Statements, blocks and scope levels *)

\* A StmtBlock; tk is its TerminatedKind.
Block(stmts, tk) == [stmts |-> stmts, tk |-> tk]

\* form is a variant of the kind, to the id of the statement a jump aims at
\* and blocks the sub-blocks in source order.
Stmt(op, form, to) ==
    [op |-> op, id |-> count + 1, form |-> form, to |-> to, blocks |-> <<>>]

LoopRoles == {"while", "for"}

Roles == LoopRoles \cup
    {"func", "then", "else", "forElse", "case", "tryElse", "defer", "block", "blockExpr"}

TerminatedKinds == {"not", "term", "label", "loop"}

\* A ScopeLevel; id is its statement's, and stands for its label.
Level == [role : Roles, id : Nat, tk : TerminatedKinds,
          nsub : Nat, nterm : Nat, nlabel : Nat, nloop : Nat]

NewLevel(role, id) ==
    [role |-> role, id |-> id, tk |-> "not",
     nsub |-> 0, nterm |-> 0, nlabel |-> 0, nloop |-> 0]

Depth == Len(scopes)

Top == scopes[Depth]

IsTerminated(l) ==
    \/ l.tk # "not"
    \/ l.nsub > 0 /\ l.nsub = l.nterm

AddSubScope(l) == [l EXCEPT !.nsub = @ + 1]

\* StmtBlock::setTerminated, setLabelTerminated, setLoopTerminated
SetTerminated(l, kind) == [l EXCEPT !.tk = kind]

\* currently_in_loop, when the n outermost levels are open
InLoop(n) == \E i \in 1..n : scopes[i].role \in LoopRoles

\* Mistake: the terminated sub-scopes are not reset.
EndSubScopesAtKeepsCount(n, l) ==
    LET kind == IF IsTerminated(l) /\ l.tk = "not" THEN "term" ELSE l.tk
    IN [l EXCEPT !.tk = kind, !.nsub = 0, !.nloop = 0]

\* end_sub_scopes on level n; resetSubScopes does not reset the label count.
EndSubScopesAt(n, l) ==
    LET kind == IF l.tk # "not" \/ ~IsTerminated(l) THEN l.tk
                ELSE IF l.nterm = l.nlabel THEN "label"
                ELSE IF l.nloop = 0 THEN "term"
                ELSE IF InLoop(n) THEN "loop" ELSE "not"
    IN [l EXCEPT !.tk = kind, !.nsub = 0, !.nterm = 0, !.nloop = 0]

\* end_sub_scopes on the parent, once the innermost level is closed
EndSubScopes(p) == EndSubScopesAt(Depth - 1, p)

\* pop_scope_level<NORMAL>: what the closed level c does to its parent p.
CountClosed(p, c) ==
    IF ~IsTerminated(c) THEN p
    ELSE [p EXCEPT !.nterm = @ + 1,
                   !.nlabel = @ + (IF c.tk = "label" THEN 1 ELSE 0),
                   !.nloop = @ + (IF c.tk = "loop" THEN 1 ELSE 0)]

\* The debug assertions of setSubScopeTerminated, setSubScopeLabelTerminated
\* and setSubScopeLoopTerminated
CountAsserted(p, c) ==
    IsTerminated(c) =>
        /\ p.nsub # p.nterm
        /\ c.tk = "label" => p.nterm + 1 >= p.nlabel
        /\ c.tk = "loop" => p.nterm + 1 >= p.nloop

\* pop_scope_level<LABEL_TERMINATE>, for a block expression
CountClosedLabel(p, c) ==
    IF IsTerminated(c) /\ c.tk # "label" THEN [p EXCEPT !.nterm = @ + 1] ELSE p

\* What pop_scope_level makes of the closed level's terminated kind
ClosedKind(c) == IF c.tk = "not" /\ IsTerminated(c) THEN "term" ELSE c.tk

Parent == scopes[Depth - 1]

-----------------------------------------------------------------------------
(* How an instruction changes the levels and the blocks *)

Emplace(s) == [bodies EXCEPT ![Depth] = Append(@, s)]

\* The closed level's block becomes the next block of the statement that
\* opened it, the last one of the parent's block.
Attach ==
    LET outer == bodies[Depth - 1]
    IN Append(SubSeq(bodies, 1, Depth - 2),
              [outer EXCEPT ![Len(outer)].blocks =
                  Append(@, Block(bodies[Depth], ClosedKind(Top)))])

\* Append s to the innermost block and leave the level in the state l.
Add(s, l) ==
    /\ scopes' = [scopes EXCEPT ![Depth] = l]
    /\ bodies' = Emplace(s)
    /\ count' = count + 1
    /\ UNCHANGED <<subscopes, phase, isVoid, func>>

\* Append s and open its first level; p is the parent's new state.
Open(s, p, role, subs) ==
    /\ scopes' = Append([scopes EXCEPT ![Depth] = p], NewLevel(role, s.id))
    /\ bodies' = Append(Emplace(s), <<>>)
    /\ count' = count + 1
    /\ subscopes' = subs
    /\ UNCHANGED <<phase, isVoid, func>>

\* Close the innermost level; p is the parent's new state.
Close(p, subs) ==
    /\ scopes' = Append(SubSeq(scopes, 1, Depth - 2), p)
    /\ bodies' = Attach
    /\ subscopes' = subs
    /\ UNCHANGED <<phase, count, isVoid, func>>

\* emit_error ends the analysis of the function, and so does an assertion;
\* the body is dropped.
Stop(how) ==
    /\ phase' = how
    /\ scopes' = <<>>
    /\ bodies' = <<>>
    /\ subscopes' = <<>>
    /\ UNCHANGED <<count, isVoid, func>>

InSwitch ==
    /\ subscopes # <<>>
    /\ bodies[Depth] # <<>>
    /\ Last(bodies[Depth]).op = "switch"
    /\ Last(bodies[Depth]).id = Last(subscopes)

CanAdd(kind) ==
    /\ phase = "sema"
    /\ kind \in Kinds
    /\ count < MaxStmts[kind]
    /\ ~InSwitch

CanOpen(kind) == CanAdd(kind) /\ Depth < MaxDepth

CanClose(role) == phase = "sema" /\ Top.role = role /\ ~InSwitch

\* check_scope_isnt_terminated
Unterminated == ~IsTerminated(Top)

RejectTerminated(kind) ==
    /\ CanAdd(kind)
    /\ ~Unterminated
    /\ Stop("rejected")

-----------------------------------------------------------------------------
(* Jumps *)

\* The open levels a jump at this point may aim at.  Jumping out of a defer
\* block is not checked by the analyzer, but the lowering of such a jump
\* outputs the defer again and never ends; no body here does it.
Targets(roles) ==
    {i \in DOMAIN scopes : /\ scopes[i].role \in roles
                           /\ \A j \in i..Depth : scopes[j].role # "defer"}

Nearest(roles) == {i \in Targets(roles) :
                      \A j \in i + 1..Depth : scopes[j].role \notin roles}

InDefer == \E i \in DOMAIN scopes : scopes[i].role = "defer"

\* Leaving these levels abandons the iterator of a for loop; see CornerNames.
AbandonsFor(levels) ==
    \E i \in levels : scopes[i].role \in {"for", "forElse"}

HasErrorDefer(levels) ==
    \E i \in levels : \E k \in DOMAIN bodies[i] :
        bodies[i][k].op = "defer" /\ bodies[i][k].form = "error"

CornerOK(name, used) == used => name \in Corners

-----------------------------------------------------------------------------
(* The instructions *)

\* instr_func_call and the other statements without control flow
Call ==
    /\ CanAdd("call")
    /\ Unterminated
    /\ Add(Stmt("call", "", 0), Top)

\* instr_local_var; form "uninit" is a variable without a value.
LocalVar(form) ==
    /\ CanAdd("var")
    /\ Unterminated
    /\ CornerOK("elseDefer", Top.role \in {"tryElse", "forElse"})
    /\ Add(Stmt("var", form, 0), Top)

Var == LocalVar("")

Return ==
    /\ CanAdd("return")
    /\ Unterminated
    /\ CornerOK("leaveFor", \E i \in DOMAIN scopes : scopes[i].role = "forElse")
    /\ IF InDefer THEN Stop("rejected")
       ELSE Add(Stmt("return", "", 0), SetTerminated(Top, "term"))

Error ==
    /\ CanAdd("error")
    /\ Unterminated
    /\ CornerOK("leaveFor", \E i \in DOMAIN scopes : scopes[i].role = "forElse")
    /\ IF InDefer THEN Stop("rejected")
       ELSE Add(Stmt("error", "", 0), SetTerminated(Top, "term"))

\* Also what a call of a #noReturn function does to its level
Unreachable ==
    /\ CanAdd("unreachable")
    /\ Unterminated
    /\ Add(Stmt("unreachable", "", 0), SetTerminated(Top, "term"))

\* instr_break and instr_continue, without and with a label
LoopJump(kind, form, i) ==
    /\ CornerOK("leaveFor", AbandonsFor(i + 1..Depth))
    /\ CornerOK("errorDeferInLoop", HasErrorDefer(i..Depth))
    /\ Add(Stmt(kind, form, scopes[i].id), SetTerminated(Top, "loop"))

Break ==
    /\ CanAdd("break")
    /\ Unterminated
    /\ \/ \E i \in Nearest(LoopRoles) : LoopJump("break", "plain", i)
       \/ \E i \in Targets(LoopRoles) : LoopJump("break", "labelled", i)
       \/ ~InLoop(Depth) /\ Stop("rejected")

Continue ==
    /\ CanAdd("continue")
    /\ Unterminated
    /\ \/ \E i \in Nearest(LoopRoles) : LoopJump("continue", "plain", i)
       \/ \E i \in Targets(LoopRoles) : LoopJump("continue", "labelled", i)
       \/ ~InLoop(Depth) /\ Stop("rejected")

LabeledReturn ==
    /\ CanAdd("labeledReturn")
    /\ Unterminated
    /\ \E i \in Targets({"blockExpr"}) :
          /\ CornerOK("leaveFor", AbandonsFor(i + 1..Depth))
          /\ Add(Stmt("labeledReturn", "", scopes[i].id), SetTerminated(Top, "label"))

\* instr_begin_cond_set, then instr_begin_cond
BeginCond ==
    /\ CanOpen("if")
    /\ Unterminated
    /\ Open(Stmt("if", "", 0), AddSubScope(Top), "then", Append(subscopes, count + 1))

\* The parent, once the innermost level is closed and counted
ParentAfter == CountClosed(Parent, Top)

\* pop_scope_level with its assertions, and what becomes of the parent
CloseWith(p, subs) ==
    IF CountAsserted(Parent, Top) THEN Close(p, subs) ELSE Stop("crashed")

\* A parent that counts a third sub-scope as label-terminated
LabelOK == CornerOK("labelThrice", Top.tk = "label" /\ Parent.nlabel >= 2)

\* Mistake: an if without else does not count the case that skips it.
CondNoElseUncounted ==
    /\ CanClose("then")
    /\ LabelOK
    /\ CloseWith(EndSubScopes(ParentAfter), Front(subscopes))

\* instr_cond_no_else, then instr_end_cond_set
CondNoElse ==
    /\ CanClose("then")
    /\ LabelOK
    /\ CloseWith(EndSubScopes(AddSubScope(ParentAfter)), Front(subscopes))

\* pop_scope_level, then push_scope_level for the next block of the statement
Reopen(role) ==
    IF CountAsserted(Parent, Top)
    THEN /\ scopes' = Append(Append(SubSeq(scopes, 1, Depth - 2),
                                    AddSubScope(ParentAfter)),
                             NewLevel(role, Top.id))
         /\ bodies' = Append(Attach, <<>>)
         /\ UNCHANGED <<subscopes, phase, count, isVoid, func>>
    ELSE Stop("crashed")

CondElse ==
    /\ CanClose("then")
    /\ LabelOK
    /\ Reopen("else")

\* instr_end_cond, then instr_end_cond_set
EndCond ==
    /\ CanClose("else")
    /\ LabelOK
    /\ CloseWith(EndSubScopes(ParentAfter), Front(subscopes))

BeginWhile ==
    /\ CanOpen("while")
    /\ Unterminated
    /\ Open(Stmt("while", "", 0), AddSubScope(Top), "while", subscopes)

\* The parent after a loop that may run no times or be left by a break.
EndsParent == IsTerminated(EndSubScopes(ParentAfter))

EndWhile ==
    /\ CanClose("while")
    /\ LabelOK
    /\ CornerOK("loopEndsParent", EndsParent)
    /\ CloseWith(EndSubScopes(ParentAfter), subscopes)

BeginFor ==
    /\ CanOpen("for")
    /\ Unterminated
    /\ Open(Stmt("for", "", 0), AddSubScope(Top), "for", Append(subscopes, count + 1))

EndFor ==
    /\ CanClose("for")
    /\ LabelOK
    /\ CornerOK("loopEndsParent", EndsParent)
    /\ CloseWith(EndSubScopes(ParentAfter), Front(subscopes))

\* instr_end_for of a loop with an else block
EndForHasElse ==
    /\ CanClose("for")
    /\ LabelOK
    /\ Reopen("forElse")

EndForElse ==
    /\ CanClose("forElse")
    /\ LabelOK
    /\ CornerOK("loopEndsParent", EndsParent)
    /\ CloseWith(EndSubScopes(ParentAfter), Front(subscopes))

\* instr_begin_switch, which does not look whether the scope is terminated.
\* "complete": every value has a case; "else": the last case is an else;
\* "partial": values without a case are skipped.
BeginSwitch ==
    /\ CanAdd("switch")
    /\ CornerOK("unchecked", ~Unterminated)
    /\ \E form \in {"complete", "else", "partial"} :
          /\ bodies' = Emplace(Stmt("switch", form, 0))
          /\ subscopes' = Append(subscopes, count + 1)
          /\ count' = count + 1
          /\ UNCHANGED <<scopes, phase, isVoid, func>>

BeginCase ==
    /\ phase = "sema"
    /\ InSwitch
    /\ Depth < MaxDepth
    /\ Len(Last(bodies[Depth]).blocks) < MaxCases
    /\ scopes' = Append([scopes EXCEPT ![Depth] = AddSubScope(Top)],
                        NewLevel("case", 0))     \* it has no label
    /\ bodies' = Append(bodies, <<>>)
    /\ UNCHANGED <<subscopes, phase, count, isVoid, func>>

EndCase ==
    /\ CanClose("case")
    /\ LabelOK
    /\ CloseWith(ParentAfter, subscopes)

EndSwitch ==
    /\ phase = "sema"
    /\ InSwitch
    /\ LET switch == Last(bodies[Depth])
       IN /\ switch.blocks # <<>>
          /\ CornerOK("partialSwitch",
                      switch.form = "partial" /\ IsTerminated(EndSubScopesAt(Depth, Top)))
    /\ scopes' = [scopes EXCEPT ![Depth] = EndSubScopesAt(Depth, Top)]
    /\ subscopes' = Front(subscopes)
    /\ UNCHANGED <<bodies, phase, count, isVoid, func>>

\* instr_try_else_begin, which does not look whether the scope is terminated;
\* the second sub-scope is the success case.
TryElseBegin ==
    /\ CanOpen("tryElse")
    /\ CornerOK("unchecked", ~Unterminated)
    /\ Open(Stmt("tryElse", "", 0), AddSubScope(AddSubScope(Top)), "tryElse", subscopes)

TryElseEnd ==
    /\ CanClose("tryElse")
    /\ LabelOK
    /\ CloseWith(EndSubScopes(ParentAfter), subscopes)

BeginDefer ==
    /\ CanOpen("defer")
    /\ Unterminated
    /\ CornerOK("elseDefer", Top.role \in {"tryElse", "forElse"})
    /\ \E form \in {"plain", "error"} :
          Open(Stmt("defer", form, 0), AddSubScope(Top), "defer", subscopes)

EndDefer ==
    /\ CanClose("defer")
    /\ LabelOK
    /\ CornerOK("terminatedDefer", IsTerminated(Top))
    /\ CloseWith(EndSubScopes(ParentAfter), subscopes)

\* instr_begin_stmt_block and instr_begin_unsafe
BeginStmtBlock ==
    /\ CanOpen("block")
    /\ Unterminated
    /\ Open(Stmt("block", "", 0), AddSubScope(Top), "block", subscopes)

EndStmtBlock ==
    /\ CanClose("block")
    /\ LabelOK
    /\ CloseWith(EndSubScopes(ParentAfter), subscopes)

\* A block expression whose value is discarded: instr_begin_expr_block, with
\* the check that instr_discarding_assignment makes after it.
BeginExprBlock ==
    /\ CanOpen("blockExpr")
    /\ Unterminated
    /\ Open(Stmt("blockExpr", "", 0), AddSubScope(AddSubScope(Top)), "blockExpr", subscopes)

EndExprBlock ==
    /\ CanClose("blockExpr")
    /\ IF Unterminated THEN Stop("rejected")
       ELSE Close(EndSubScopes(CountClosedLabel(Parent, Top)), subscopes)

\* The end of the body in instr_func_def
FuncDef ==
    /\ CanClose("func")
    /\ \/ Unterminated /\ Stop("rejected")     \* it returns a value
       \/ \E void \in {TRUE, Unterminated} :
            /\ phase' = "analyzed"
            /\ func' = Block(bodies[1], Top.tk)
            /\ isVoid' = void
            /\ scopes' = <<>>
            /\ bodies' = <<>>
            /\ UNCHANGED <<subscopes, count>>

\* check_scope_isnt_terminated fails for the next statement.
ScopeIsTerminated ==
    \E kind \in Kinds \ {"switch", "tryElse", "deleteStmt"} : RejectTerminated(kind)

Init ==
    /\ scopes = <<NewLevel("func", 0)>>
    /\ bodies = << <<>> >>
    /\ subscopes = <<>>
    /\ phase = "sema"
    /\ count = 0
    /\ isVoid = TRUE
    /\ func = Block(<<>>, "not")

Instruction ==
    \/ Call \/ Var \/ Return \/ Error \/ Unreachable
    \/ Break \/ Continue \/ LabeledReturn
    \/ BeginCond \/ CondNoElse \/ CondElse \/ EndCond
    \/ BeginWhile \/ EndWhile
    \/ BeginFor \/ EndFor \/ EndForHasElse \/ EndForElse
    \/ BeginSwitch \/ BeginCase \/ EndCase \/ EndSwitch
    \/ TryElseBegin \/ TryElseEnd
    \/ BeginDefer \/ EndDefer
    \/ BeginStmtBlock \/ EndStmtBlock
    \/ BeginExprBlock \/ EndExprBlock
    \/ ScopeIsTerminated
    \/ FuncDef

Spec == Init /\ [][Instruction]_svars

-----------------------------------------------------------------------------
(* Properties *)

\* The type invariant: one block for each open level, while there are any.
TypeOK ==
    /\ scopes \in Seq(Level)
    /\ Len(bodies) = Len(scopes)
    /\ subscopes \in Seq(Nat)
    /\ phase \in {"sema", "rejected", "crashed", "analyzed"}
    /\ phase = "sema" => scopes # <<>>
    /\ count \in Nat
    /\ isVoid \in BOOLEAN
    /\ func.tk \in TerminatedKinds

\* A level never counts more terminated sub-scopes than it has, and an open
\* level always has one that is not counted: the assertion of
\* setSubScopeTerminated ("called too many times") cannot fail, and a level
\* is never taken for terminated while one of its sub-scopes is open.
SubScopesCounted ==
    \A i \in DOMAIN scopes :
        /\ scopes[i].nterm <= scopes[i].nsub
        /\ i < Depth => scopes[i].nterm < scopes[i].nsub
=============================================================================
