------------------------------ MODULE Lowering ------------------------------
(***************************************************************************)
(* The lowering of a function's statements to PIR basic blocks             *)
(* (SemaToPIR.cpp, lower_stmt), and what the statements mean.  The first   *)
(* half is the code: a value h stands for the state of SemaToPIR and its   *)
(* InstrHandler.  The second half is the reference: it runs the statements *)
(* themselves, with a signal for each way to leave a scope.  Both take the *)
(* outcomes of conditions from outside.                                    *)
(*                                                                         *)
(* Expressions, debug information and value states are left out; an        *)
(* instruction without effect on control is an event with the id of the    *)
(* statement it comes from.                                                *)
(***************************************************************************)
EXTENDS Integers, Sequences, SequencesExt

Exits == {"scopeEnd", "return", "error", "continue", "break"}

\* An instruction; to is the sequence of a terminator's successors.
Instr(op, id, to) == [op |-> op, id |-> id, to |-> to]

Terminators == {"jump", "branch", "switch", "ret", "retError", "unreachable"}

Ends(block) == block # <<>> /\ Last(block).op \in Terminators

-----------------------------------------------------------------------------
(* SemaToPIR's state: the blocks, the target block, the scope levels, and  *)
(* whether every assertion has held.                                       *)

\* alive is value_states: which variables a LIFETIME_START or LIFETIME_END
\* of the level has last said to be alive.
PIRLevel(label, begin, end, loop) ==
    [label |-> label, begin |-> begin, end |-> end, loop |-> loop,
     defers |-> <<>>, alive |-> <<>>]

PlainLevel == PIRLevel(0, 0, 0, FALSE)

Start == [blocks |-> << <<>> >>, cur |-> 1, levels |-> <<PlainLevel>>, ok |-> TRUE]

\* The create functions of InstrHandler, which append to the target block
Emit(h, op, id, to) ==
    IF Ends(h.blocks[h.cur]) THEN [h EXCEPT !.ok = FALSE]
    ELSE [h EXCEPT !.blocks[h.cur] = Append(@, Instr(op, id, to))]

Jump(h, block) == Emit(h, "jump", 0, <<block>>)

\* createBasicBlock n times; the new blocks are Len(h.blocks) + 1 and so on.
CreateBlocks(h, n) == [h EXCEPT !.blocks = @ \o [i \in 1..n |-> <<>>]]

SetTarget(h, block) == [h EXCEPT !.cur = block]

PushLevel(h, level) == [h EXCEPT !.levels = Append(@, level)]

PopLevel(h) == [h EXCEPT !.levels = Front(@)]

AddDefer(h, item, id, block, on) ==
    [h EXCEPT !.levels[Len(h.levels)].defers =
        Append(@, [item |-> item, id |-> id, block |-> block, on |-> on])]

SetAlive(h, id, alive) ==
    [h EXCEPT !.levels[Len(h.levels)].alive = (id :> alive) @@ @]

\* Mistake: the outermost level that knows the variable decides.
IsAliveOutermost(h, id) ==
    LET known == SelectInSeq(h.levels, LAMBDA l : id \in DOMAIN l.alive)
    IN known # 0 /\ h.levels[known].alive[id]

\* The innermost level that knows the variable decides.
IsAlive(h, id) ==
    LET known == SelectLastInSeq(h.levels, LAMBDA l : id \in DOMAIN l.alive)
    IN known # 0 /\ h.levels[known].alive[id]

DeferExits(s) ==
    {"scopeEnd", "return", "continue", "break"} \cup
    (IF s.form = "error" THEN {"error"} ELSE {})

RECURSIVE LowerStmt(_, _), OutputDefers(_, _, _), EndScope(_)

LowerBlock(h, block) ==
    LET Lower(g, s) == LowerStmt(g, s) IN FoldLeft(Lower, h, block.stmts)

\* output_defers_for_scope_level
OutputDefers(h, level, target) ==
    LET Item(d, g) ==
            IF target \notin d.on \/ (d.item = "delete" /\ ~IsAlive(g, d.id)) THEN g
            ELSE IF d.item # "defer" THEN Emit(g, d.item, d.id, <<>>)
            ELSE PopLevel(EndScope(LowerBlock(PushLevel(g, PlainLevel), d.block)))
    IN FoldRight(Item, level.defers, h)

\* The defers of the innermost level, at its end
EndScope(h) == OutputDefers(h, Last(h.levels), "scopeEnd")

\* Mistake: the innermost level is left out.
OutputOutToSkipsInner(h, to, target) ==
    LET n == Len(h.levels)
        Output(g, i) == OutputDefers(g, h.levels[i], target)
    IN FoldLeft(Output, h, [k \in 1..n - to |-> n - k])

\* The same for the levels from the innermost out to the one at index to
OutputOutTo(h, to, target) ==
    LET n == Len(h.levels)
        Output(g, i) == OutputDefers(g, h.levels[i], target)
    IN FoldLeft(Output, h, [k \in 1..n - to + 1 |-> n + 1 - k])

\* Mistake: it jumps on from a terminated block too.
LeaveScopeAlwaysJumps(h, block, next) ==
    LET Next(g) == IF next = 0 THEN g ELSE Jump(g, next)
    IN PopLevel(Next(IF block.tk # "not" THEN h ELSE EndScope(h)))

\* After the statements of a block: unless it is terminated, the defers and
\* a jump (next = 0 for none).
LeaveScope(h, block, next) ==
    LET Next(g) == IF next = 0 THEN g ELSE Jump(g, next)
    IN PopLevel(IF block.tk # "not" THEN h ELSE Next(EndScope(h)))

\* A statement's block as a scope
LowerScope(h, block, level, next) ==
    LeaveScope(LowerBlock(PushLevel(h, level), block), block, next)

\* Like LowerScope, without the defers: the else blocks of try and for
LowerElse(h, block) == PopLevel(LowerBlock(PushLevel(h, PlainLevel), block))

\* A jump from the end of a block that is not terminated
JoinFrom(h, block, end) == IF block.tk = "not" THEN Jump(h, end) ELSE h

LevelOf(h, s) ==
    SelectLastInSeq(h.levels, LAMBDA l : IF s.form = "plain" THEN l.loop
                                         ELSE l.label = s.to)

\* h is at the end of the else block, thenEnd the block at the end of the
\* other.
JoinIf(h, s, thenEnd) ==
    LET end == Len(h.blocks) + 1
        fromElse == JoinFrom(CreateBlocks(h, 1), s.blocks[2], end)
    IN IF \A i \in 1..2 : s.blocks[i].tk # "not" THEN h
       ELSE SetTarget(JoinFrom(SetTarget(fromElse, thenEnd), s.blocks[1], end), end)

LowerIfElse(h, s, else) ==
    JoinIf(LowerScope(SetTarget(h, else), s.blocks[2], PlainLevel, 0), s, h.cur)

LowerIf(h, s) ==
    LET then == Len(h.blocks) + 1
        second == then + 1
        branch == SetTarget(Emit(CreateBlocks(h, 2), "branch", s.id, <<then, second>>), then)
    IN IF Len(s.blocks) = 1 \/ s.blocks[2].stmts = <<>>
       THEN SetTarget(LowerScope(branch, s.blocks[1], PlainLevel, second), second)
       ELSE LowerIfElse(LowerScope(branch, s.blocks[1], PlainLevel, 0), s, second)

LowerWhile(h, s) ==
    LET cond == Len(h.blocks) + 1
        body == cond + 1
        end == cond + 2
        entry == SetTarget(Jump(CreateBlocks(h, 3), cond), cond)
        test == SetTarget(Emit(entry, "branch", s.id, <<body, end>>), body)
    IN SetTarget(LowerScope(test, s.blocks[1], PIRLevel(s.id, cond, end, TRUE), cond), end)

\* One iterable; "next" is iterator.next() and the increment of the index.
LowerFor(h, s) ==
    LET cond == Len(h.blocks) + 1
        body == cond + 1
        hasElse == Len(s.blocks) = 2
        end == cond + (IF hasElse THEN 3 ELSE 2)
        exhausted == cond + 2
        entry == SetTarget(Jump(CreateBlocks(h, end - cond + 1), cond), cond)
        test == SetTarget(Emit(entry, "branch", s.id, <<exhausted, body>>), body)
        level == PushLevel(test, PIRLevel(s.id, cond, end, TRUE))
        next == AddDefer(level, "next", s.id, <<>>, {"scopeEnd", "continue"})
        iter == AddDefer(next, "deleteIterator", s.id, <<>>, {"return", "error"})
        Else(g) == IF ~hasElse THEN g
                   ELSE JoinFrom(LowerElse(SetTarget(g, exhausted), s.blocks[2]),
                                 s.blocks[2], end)
        loop == LeaveScope(LowerBlock(iter, s.blocks[1]), s.blocks[1], cond)
    IN Emit(SetTarget(Else(loop), end), "deleteIterator", s.id, <<>>)

LowerSwitch(h, s) ==
    LET n == Len(s.blocks)
        first == Len(h.blocks) + 1
        open == s.form = "partial" \/ \E i \in 1..n : s.blocks[i].tk = "not"
        end == first + n
        made == CreateBlocks(h, n + (IF open THEN 1 ELSE 0))
        invalid == Len(made.blocks) + 1
        default == IF s.form = "else" THEN <<>>     \* the last case
                   ELSE IF s.form = "complete" THEN <<invalid>> ELSE <<end>>
        ready == IF s.form # "complete" THEN made
                 ELSE Emit(SetTarget(CreateBlocks(made, 1), invalid),
                           "unreachable", s.id, <<>>)
        Case(g, i) == LowerScope(SetTarget(g, first + i - 1), s.blocks[i], PlainLevel, end)
        cases == FoldLeft(Case, ready, [i \in 1..n |-> i])
        switch == Emit(SetTarget(cases, h.cur), "switch", s.id,
                       [i \in 1..n |-> first + i - 1] \o default)
    IN SetTarget(switch, IF open THEN end ELSE h.cur)

\* Mistake: the else block is not joined with the code after it.
JoinTryNever(h, s, start, error) ==
    LET end == Len(h.blocks) + 1
    IN SetTarget(Emit(SetTarget(CreateBlocks(h, 1), start), "branch", s.id, <<error, end>>),
                 end)

\* h is at the end of the else block.
JoinTry(h, s, start, error) ==
    LET end == Len(h.blocks) + 1
        branch == Emit(SetTarget(CreateBlocks(h, 1), start), "branch", s.id, <<error, end>>)
    IN SetTarget(JoinFrom(SetTarget(branch, h.cur), s.blocks[1], end), end)

LowerTryElse(h, s) ==
    LET error == Len(h.blocks) + 1
        call == SetTarget(CreateBlocks(Emit(h, "call", s.id, <<>>), 1), error)
    IN JoinTry(LowerElse(call, s.blocks[1]), s, h.cur, error)

LowerBlockExpr(h, s) ==
    LET end == Len(h.blocks) + 1
        level == PIRLevel(s.id, 0, end, FALSE)
        body == LowerBlock(PushLevel(CreateBlocks(h, 1), level), s.blocks[1])
    IN PopLevel(SetTarget(body, end))

\* VAR, then the LIFETIME_START that the analyzer puts after a variable with
\* a value
LowerVar(h, s) ==
    LET op == IF s.form = "uninit" THEN "uninitVar" ELSE "var"
        var == AddDefer(Emit(h, op, s.id, <<>>), "delete", s.id, <<>>, Exits)
    IN IF op = "var" THEN SetAlive(var, s.id, TRUE) ELSE var

LowerStmt(h, s) ==
    CASE s.op = "call" -> Emit(h, "call", s.id, <<>>)
      [] s.op = "var" -> LowerVar(h, s)
      [] s.op = "use" -> Emit(h, "use", s.to, <<>>)
      [] s.op = "init" -> Emit(SetAlive(h, s.to, TRUE), "init", s.to, <<>>)
      [] s.op \in {"move", "deleteStmt"} ->
            Emit(SetAlive(h, s.to, FALSE), s.op, s.to, <<>>)
      [] s.op = "return" -> Emit(OutputOutTo(h, 1, "return"), "ret", s.id, <<>>)
      [] s.op = "error" -> Emit(OutputOutTo(h, 1, "error"), "retError", s.id, <<>>)
      [] s.op = "unreachable" -> Emit(h, "unreachable", s.id, <<>>)
      [] s.op = "break" ->
            Jump(OutputOutTo(h, LevelOf(h, s), "break"), h.levels[LevelOf(h, s)].end)
      [] s.op = "continue" ->
            Jump(OutputOutTo(h, LevelOf(h, s), "continue"), h.levels[LevelOf(h, s)].begin)
      [] s.op = "labeledReturn" ->
            Jump(OutputOutTo(h, LevelOf(h, s), "scopeEnd"), h.levels[LevelOf(h, s)].end)
      [] s.op = "block" -> LowerScope(h, s.blocks[1], PlainLevel, 0)
      [] s.op = "if" -> LowerIf(h, s)
      [] s.op = "while" -> LowerWhile(h, s)
      [] s.op = "for" -> LowerFor(h, s)
      [] s.op = "switch" -> LowerSwitch(h, s)
      [] s.op = "tryElse" -> LowerTryElse(h, s)
      [] s.op = "blockExpr" -> LowerBlockExpr(h, s)
      [] s.op = "defer" -> AddDefer(h, "defer", s.id, s.blocks[1], DeferExits(s))

\* The end of the function; a value is returned before it.
EndFunc(h, block, void) ==
    IF block.tk # "not" THEN h
    ELSE IF void THEN Emit(OutputDefers(h, Last(h.levels), "return"), "ret", 0, <<>>)
    ELSE Emit(h, "unreachable", 0, <<>>)

LowerFunc(block, void) == EndFunc(LowerBlock(Start, block), block, void)

-----------------------------------------------------------------------------
(* The reference.  A run r has the events so far, the outcomes of         *)
(* conditions still to come, and a signal: "normal", or how the statements *)
(* after it are skipped.  "cut" is the end of the given outcomes.          *)

Event(r, op, id) == [r EXCEPT !.trace = Append(@, <<op, id>>)]

Signal(r, sig, to) == [r EXCEPT !.sig = sig, !.to = to]

Normal(r) == Signal(r, "normal", 0)

\* Which signals run a defer statement, and a variable's delete.  An
\* errorDefer does not run on break and continue (CHANGELOG.md, v0.0.191.1).
DeferRunsOn(s) ==
    IF s.form = "error" THEN {"normal", "labeledReturn", "return", "error"}
    ELSE {"normal", "labeledReturn", "return", "break", "continue"}

Leaves == {"normal", "labeledReturn", "return", "error", "break", "continue"}

RECURSIVE RunStmt(_, _), RunScope(_, _), RunLoop(_, _)

\* After the statements of a deferred action: r's signal again
Resume(d, r) == IF d.sig = "normal" THEN Signal(d, r.sig, r.to) ELSE d

\* One deferred action, run while r's signal is pending
RunDeferred(r, s) ==
    IF s.op = "var"
    THEN IF r.sig \in Leaves THEN Event(r, "delete", s.id) ELSE r
    ELSE IF r.sig \notin DeferRunsOn(s) THEN r
    ELSE Resume(RunScope(Normal(r), s.blocks[1]), r)

\* The statements of a block in order, then its deferred actions in reverse
RunScope(r, block) ==
    LET Next(a, s) ==
            IF a.run.sig # "normal" THEN a
            ELSE [run |-> RunStmt(a.run, s),
                  deferred |-> IF s.op \in {"var", "defer"} THEN <<s>> \o a.deferred
                               ELSE a.deferred]
        Defer(a) == FoldLeft(RunDeferred, a.run, a.deferred)
    IN Defer(FoldLeft(Next, [run |-> r, deferred |-> <<>>], block.stmts))

\* After the body of a loop
NextTurn(r, s) ==
    IF r.sig = "normal" \/ (r.sig = "continue" /\ r.to = s.id)
    THEN RunLoop(IF s.op = "for" THEN Event(Normal(r), "next", s.id) ELSE Normal(r), s)
    ELSE IF r.sig = "break" /\ r.to = s.id THEN Normal(r) ELSE r

\* A loop's condition and, while it holds, its body.  A for loop's first
\* outcome is the end of the iterator, a while loop's the body.
RunLoop(r, s) ==
    LET test == [r EXCEPT !.choices = Tail(@)]
    IN IF r.choices = <<>> THEN Signal(r, "cut", 0)
       ELSE IF (Head(r.choices) = 1) # (s.op = "for")
            THEN NextTurn(RunScope(test, s.blocks[1]), s)
       ELSE IF Len(s.blocks) = 2 THEN RunScope(test, s.blocks[2])
       ELSE test

\* The block of an outcome, the number of the outcome in source order
RunChoice(r, s) ==
    LET n == Head(r.choices)
        rest == [r EXCEPT !.choices = Tail(@)]
    IN IF r.choices = <<>> THEN Signal(r, "cut", 0)
       ELSE IF n <= Len(s.blocks) THEN RunScope(rest, s.blocks[n])
       ELSE IF s.op = "switch" /\ s.form = "complete" THEN Signal(rest, "unreachable", 0)
       ELSE rest

AfterFor(r, s) == IF r.sig \in Leaves THEN Event(r, "deleteIterator", s.id) ELSE r

AfterBlockExpr(r, s) == IF r.sig = "labeledReturn" /\ r.to = s.id THEN Normal(r) ELSE r

RunStmt(r, s) ==
    CASE s.op \in {"call", "var"} -> Event(r, s.op, s.id)
      [] s.op \in {"return", "error", "unreachable"} -> Signal(r, s.op, 0)
      [] s.op \in {"break", "continue", "labeledReturn"} -> Signal(r, s.op, s.to)
      [] s.op = "block" -> RunScope(r, s.blocks[1])
      [] s.op = "while" -> RunLoop(r, s)
      [] s.op = "for" -> AfterFor(RunLoop(r, s), s)
      [] s.op \in {"if", "switch"} -> RunChoice(r, s)
      [] s.op = "tryElse" -> RunChoice(Event(r, "call", s.id), s)
      [] s.op = "blockExpr" -> AfterBlockExpr(RunScope(r, s.blocks[1]), s)
      [] s.op = "defer" -> r

Outcomes == [normal |-> "ret", return |-> "ret", error |-> "retError",
             unreachable |-> "unreachable", cut |-> "cut"]

\* The events and the outcome of a function for given outcomes of conditions
RunFunc(block, choices) ==
    LET End(r) == [trace |-> r.trace, outcome |-> Outcomes[r.sig]]
    IN End(RunScope([trace |-> <<>>, choices |-> choices, sig |-> "normal", to |-> 0],
                    block))
=============================================================================
