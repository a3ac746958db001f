---------------------------- MODULE ValueStates ----------------------------
(***************************************************************************)
(* Which variables of a function hold a value: the value states that the   *)
(* SemanticAnalyzer keeps in its scope levels beside those of Statements   *)
(* (ScopeLevel.cpp, SemanticAnalyzer.cpp).  A use is rejected unless the   *)
(* analyzer takes the variable for initialized.  What becomes of the       *)
(* variables in the lowered function is in Lifetimes.tla.                  *)
(*                                                                         *)
(* Only local variables are modelled: parameters, outputs of functions and *)
(* block expressions and the members of special member functions are left  *)
(* out.  A statement uses or changes one variable.                         *)
(***************************************************************************)
EXTENDS Statements, FiniteSets

VARIABLES
    values,     \* for each scope level its value_states: variable -> info
    handedOn    \* a scope that reached its end has changed an outer variable

vvars == <<svars, values, handedOn>>

States == {"init", "uninit", "moved"}

\* size_t is 64 bits wide; any width above the sizes met does as well.
SizeWidth == 16

\* A ValueStateInfo.  With decl it is a DeclInfo and pending its
\* potential_state_change; else it is a ModifyInfo and index its
\* scope_level_index.  num is num_sub_scopes in both.
DeclInfo(state) ==
    [decl |-> TRUE, state |-> state, pending |-> "none", num |-> 0, index |-> 0]

\* The index of a ModifyInfo is made from the number of infos before it.
ModifyInfo(m, state, num) ==
    [decl |-> FALSE, state |-> state, pending |-> "none", num |-> num,
     index |-> (Cardinality(DOMAIN m) - 1) % 2^SizeWidth]

\* ScopeLevel::setIdentValueState
SetState(m, v, state) ==
    [u \in DOMAIN m \cup {v} |->
        IF u # v THEN m[u]
        ELSE IF v \in DOMAIN m THEN [m[v] EXCEPT !.state = state]
        ELSE ModifyInfo(m, state, 0)]

\* getIdentValueState at level i, which is also its index in the scope: the
\* source's level is at index 0.  A potential state is not seen.
Seen(i, v) ==
    /\ v \in DOMAIN values[i]
    /\ values[i][v].decl \/ i >= values[i][v].index

\* get_ident_value_state
StateOf(v) ==
    values[CHOOSE i \in 1..Depth : Seen(i, v) /\ \A j \in i + 1..Depth : ~Seen(j, v)][v].state

\* Some level shows a change before its sub-scopes have ended, or hides one
\* that is its own: isPotential compares unrelated numbers.
Misjudged(v) ==
    \E i \in 1..Depth :
        /\ v \in DOMAIN values[i]
        /\ ~values[i][v].decl
        /\ Seen(i, v) # (values[i][v].num = 0)

DeclLevel(v) == CHOOSE i \in 1..Depth : v \in DOMAIN values[i] /\ values[i][v].decl

Variables == UNION {DOMAIN values[i] : i \in 1..Depth}

\* The variables whose state level i has changed though another declares them
ChangedAt(i) == {v \in DOMAIN values[i] : ~values[i][v].decl}

-----------------------------------------------------------------------------
(* The end of a scope level *)

\* What pop_scope_level hands on to the parent: nothing if it is terminated.
Changes == IF IsTerminated(Top) THEN {} ELSE ChangedAt(Depth)

\* The infos of the parent
Known == values[Depth - 1]

\* setIdentValueStateFromSubScope fails: the sub-scopes disagree.
Disagree ==
    \E v \in Changes \cap DOMAIN Known :
        LET state == values[Depth][v].state
        IN IF Known[v].decl THEN Known[v].pending \notin {"none", state}
           ELSE Known[v].state # state

\* setIdentValueStateFromSubScope for all changes
FromSubScope ==
    [v \in DOMAIN Known \cup Changes |->
        IF v \notin Changes THEN Known[v]
        ELSE IF v \notin DOMAIN Known THEN ModifyInfo(Known, values[Depth][v].state, 1)
        ELSE [Known[v] EXCEPT
                 !.num = @ + 1,
                 !.pending = IF Known[v].decl THEN values[Depth][v].state ELSE @]]

\* The infos that wait for end_sub_scopes
Waits(info) == IF info.decl THEN info.pending # "none" ELSE info.num # 0

\* Mistake: sub-scopes that leave the state alone are not looked for.
UndeterminedNever(m, l) == FALSE

\* end_sub_scopes fails: some sub-scopes of l that reach their end changed a
\* variable and others did not.
Undetermined(m, l) == \E v \in DOMAIN m : Waits(m[v]) /\ m[v].num # l.nsub - l.nterm

\* Mistake: the count of a change is not reset with that of the sub-scopes.
EndValuesKeepsNum(m) ==
    LET End(info) ==
            IF info.decl THEN [info EXCEPT !.state = info.pending, !.pending = "none"]
            ELSE info
    IN [v \in DOMAIN m |-> IF Waits(m[v]) THEN End(m[v]) ELSE m[v]]

\* What end_sub_scopes makes of the infos m
EndValues(m) ==
    LET End(info) ==
            IF info.decl
            THEN [info EXCEPT !.state = info.pending, !.pending = "none", !.num = 0]
            ELSE [info EXCEPT !.num = 0, !.index = (@ - 1) % 2^SizeWidth]
    IN [v \in DOMAIN m |-> IF Waits(m[v]) THEN End(m[v]) ELSE m[v]]

RejectValues ==
    /\ Stop("rejected")
    /\ values' = <<>>
    /\ UNCHANGED handedOn

Outer == SubSeq(values, 1, Depth - 2)

\* What a level hands on.  Two changes that are new to the parent would get
\* their indices in the order of a hash table; no body here has them.
CanHandOn ==
    /\ \A v, w \in Changes \ DOMAIN Known : v = w
    /\ CornerOK("loopChange", Top.role \in LoopRoles \cup {"forElse"} /\ Changes # {})

\* Close the innermost level by action; l is the parent as end_sub_scopes
\* finds it.
CloseValues(role, action, l) ==
    /\ CanClose(role)
    /\ CanHandOn
    /\ IF Disagree \/ Undetermined(FromSubScope, l) THEN RejectValues
       ELSE /\ action
            /\ values' = IF phase' = "sema" THEN Append(Outer, EndValues(FromSubScope))
                         ELSE <<>>
            /\ handedOn' = (handedOn \/ Changes # {})

\* The same without end_sub_scopes; then opens the statement's next level if
\* next is << <<>> >>.
PopValues(role, action, next) ==
    /\ CanClose(role)
    /\ CanHandOn
    /\ IF Disagree THEN RejectValues
       ELSE /\ action
            /\ values' = IF phase' = "sema" THEN Append(Outer, FromSubScope) \o next
                         ELSE <<>>
            /\ handedOn' = (handedOn \/ Changes # {})

CloseLevel ==
    \/ CloseValues("then", CondNoElse, AddSubScope(ParentAfter))
    \/ PopValues("then", CondElse, << <<>> >>)
    \/ CloseValues("else", EndCond, ParentAfter)
    \/ CloseValues("while", EndWhile, ParentAfter)
    \/ CloseValues("for", EndFor, ParentAfter)
    \/ PopValues("for", EndForHasElse, << <<>> >>)
    \/ CloseValues("forElse", EndForElse, ParentAfter)
    \/ PopValues("case", EndCase, <<>>)
    \/ CloseValues("tryElse", TryElseEnd, ParentAfter)
    \/ CloseValues("defer", EndDefer, ParentAfter)
    \/ CloseValues("block", EndStmtBlock, ParentAfter)

\* A block expression is left by labelled returns only, so its level hands
\* nothing on; nothing is handed on by a function's either.
EndWithout ==
    /\ EndExprBlock \/ FuncDef
    /\ values' = IF phase' = "sema" THEN Front(values) ELSE <<>>
    /\ UNCHANGED handedOn

\* end_sub_scopes without a pop; a partial switch does not count the values
\* it skips.
EndSwitchValues ==
    /\ phase = "sema"
    /\ InSwitch
    /\ CornerOK("partialSwitch", /\ Last(bodies[Depth]).form = "partial"
                                 /\ \E v \in DOMAIN values[Depth] : Waits(values[Depth][v]))
    /\ IF Undetermined(values[Depth], Top)
       THEN Last(bodies[Depth]).blocks # <<>> /\ RejectValues
       ELSE /\ EndSwitch
            /\ values' = [values EXCEPT ![Depth] = EndValues(@)]
            /\ UNCHANGED handedOn

-----------------------------------------------------------------------------
(* The statements *)

\* add_ident_value_state in instr_local_var
Declared(m, v, state) ==
    [u \in DOMAIN m \cup {v} |-> IF u \in DOMAIN m THEN m[u] ELSE DeclInfo(state)]

Declare ==
    \E form \in {"", "uninit"} :
        /\ LocalVar(form)
        /\ values' = [values EXCEPT ![Depth] =
                         Declared(@, count', IF form = "" THEN "init" ELSE "uninit")]
        /\ UNCHANGED handedOn

\* A statement about variable v; ok is the analyzer's check of its state.
About(kind, v, ok) ==
    /\ CanAdd(kind)
    /\ CornerOK("misjudged", Misjudged(v))
    /\ CornerOK("deferValue",
                \E i \in DeclLevel(v) + 1..Depth : scopes[i].role = "defer")
    /\ IF ok THEN Add(Stmt(kind, "", v), Top) ELSE Stop("rejected")

\* set_ident_value_state, when the statement is accepted
Sets(v, state) ==
    LET m == SetState(values[Depth], v, state)
    IN /\ values' = IF phase' = "sema" THEN [values EXCEPT ![Depth] = m] ELSE <<>>
       /\ UNCHANGED handedOn

\* A copy, an argument of a call or another use of a variable's value
Use(v) ==
    /\ Unterminated
    /\ About("use", v, StateOf(v) = "init")
    /\ values' = IF phase' = "sema" THEN values ELSE <<>>
    /\ UNCHANGED handedOn

\* instr_move
Move(v) ==
    /\ Unterminated
    /\ About("move", v, StateOf(v) = "init")
    /\ Sets(v, "moved")

\* An assignment to a variable without a value: set_assigment_value_state
Assign(v) ==
    /\ Unterminated
    /\ StateOf(v) # "init"
    /\ About("init", v, StateOf(v) = "uninit")
    /\ Sets(v, "init")

\* instr_delete, which does not look whether the scope is terminated and only
\* warns about a moved-from variable
Delete(v) ==
    /\ CornerOK("unchecked", ~Unterminated)
    /\ About("deleteStmt", v, StateOf(v) # "uninit")
    /\ Sets(v, "uninit")

\* The open level a jump to statement id aims at
TargetOf(id) ==
    CHOOSE i \in DOMAIN scopes :
        scopes[i].id = id /\ scopes[i].role \in LoopRoles \cup {"blockExpr"}

\* A jump: what the levels it leaves have changed is forgotten, as they are
\* terminated.
Jumps ==
    /\ Break \/ Continue \/ LabeledReturn
    /\ phase' = "sema" =>
          LET to == TargetOf(Last(bodies'[Depth]).to)
          IN CornerOK("jumpChange",
                      \E i \in to..Depth : \E v \in ChangedAt(i) : DeclLevel(v) < to)
    /\ values' = IF phase' = "sema" THEN values ELSE <<>>
    /\ UNCHANGED handedOn

\* The instructions that concern no variable
Other ==
    /\ \/ Call \/ Return \/ Error \/ Unreachable \/ BeginSwitch \/ ScopeIsTerminated
    /\ values' = IF phase' = "sema" THEN values ELSE <<>>
    /\ UNCHANGED handedOn

OpenLevel ==
    /\ \/ BeginCond \/ BeginWhile \/ BeginFor \/ BeginCase \/ TryElseBegin
       \/ BeginDefer \/ BeginStmtBlock \/ BeginExprBlock
    /\ values' = Append(values, <<>>)
    /\ UNCHANGED handedOn

ValueInit == Init /\ values = << <<>> >> /\ handedOn = FALSE

AnalyzeValues ==
    /\ phase = "sema"
    /\ \/ Declare \/ \E v \in Variables : Use(v) \/ Move(v) \/ Assign(v) \/ Delete(v)
       \/ Jumps \/ Other \/ OpenLevel \/ CloseLevel \/ EndSwitchValues \/ EndWithout

ValueSpec == ValueInit /\ [][AnalyzeValues]_vvars

-----------------------------------------------------------------------------
(* Properties *)

\* An info never counts more sub-scopes than have reached their end, so the
\* count that end_sub_scopes compares it with can be met, and an open
\* sub-scope is never among them.
ChangesCounted ==
    \A i \in DOMAIN values : \A v \in DOMAIN values[i] :
        values[i][v].num + (IF i < Depth THEN 1 ELSE 0) <= scopes[i].nsub - scopes[i].nterm
=============================================================================
