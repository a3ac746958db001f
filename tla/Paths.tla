------------------------------- MODULE Paths -------------------------------
(***************************************************************************)
(* The paths of control through a function body, as its statements have    *)
(* it, followed while the SemanticAnalyzer walks the body (Statements).    *)
(* An environment gives the variables declared so far their states at run  *)
(* time.  The variables here are a record of what was met: Follow is       *)
(* possible with every instruction and restricts none.                     *)
(*                                                                         *)
(* A loop's body is walked once, with the environments in which control    *)
(* first comes to the loop.  A deferred block is walked where it stands;   *)
(* it runs elsewhere, but uses no variable from outside (deferValue).      *)
(***************************************************************************)
EXTENDS Statements

VARIABLES
    paths,      \* for each open level its Path
    repeats     \* no loop was entered again otherwise than at first

\* now: the environments in which control reaches the end of the block so
\* far, or the open statement of a level that is not the innermost;
\* ends: those in which it leaves a closed block of the open statement;
\* jumps: <<kind, id of the statement aimed at, environment>> of the jumps.
Path(now) == [now |-> now, ends |-> {}, jumps |-> {}]

pvars == <<svars, paths, repeats>>

Jumping == {"break", "continue", "labeledReturn"}

Leaving == Jumping \cup {"return", "error", "unreachable"}

\* What statement s makes of the environment e
Effect(s, e) ==
    CASE s.op = "var" ->
            [v \in DOMAIN e \cup {s.id} |->
                IF v # s.id THEN e[v] ELSE IF s.form = "" THEN "init" ELSE "uninit"]
      [] s.op = "init" -> [e EXCEPT ![s.to] = "init"]
      [] s.op = "move" -> [e EXCEPT ![s.to] = "moved"]
      [] s.op = "deleteStmt" -> [e EXCEPT ![s.to] = "uninit"]
      [] OTHER -> e

\* A statement s that opens no level
AfterStmt(p, s) ==
    [p EXCEPT !.now = IF s.op \in Leaving THEN {} ELSE {Effect(s, e) : e \in @},
              !.jumps = @ \cup IF s.op \in Jumping THEN {<<s.op, s.to, e>> : e \in p.now}
                               ELSE {}]

\* The part of an environment that the block around the innermost one knows
Outside(e) ==
    [v \in DOMAIN e \cap UNION {DOMAIN f : f \in paths[Depth - 1].now} |-> e[v]]

\* How the innermost block is left, at its end and by jumps
Left == {Outside(e) : e \in paths[Depth].now}

LeftByJumps == {<<j[1], j[2], Outside(j[3])>> : j \in paths[Depth].jumps}

\* The Path around it, once it is closed
Joined ==
    [paths[Depth - 1] EXCEPT !.ends = @ \cup Left, !.jumps = @ \cup LeftByJumps]

By(jumps, kind, id) == {j[3] : j \in {k \in jumps : k[1] = kind /\ k[2] = id}}

\* The environments after a statement whose last block is the innermost.  A
\* loop may run no times; a try may succeed.
AfterBlocks ==
    LET q == Joined
    IN CASE Top.role \in {"then", "tryElse"} -> q.now \cup Left
         [] Top.role = "else" -> q.ends
         [] Top.role = "block" -> Left
         [] Top.role \in LoopRoles -> q.now \cup By(q.jumps, "break", Top.id)
         [] Top.role = "forElse" -> Left \cup By(q.jumps, "break", Top.id)
         [] Top.role = "blockExpr" -> By(LeftByJumps, "labeledReturn", Top.id)
         [] Top.role = "defer" -> q.now

\* Does the innermost block, if it is a loop's, come back to the condition
\* only as control came there first?
Repeats ==
    Top.role \in LoopRoles =>
        Left \cup By(LeftByJumps, "continue", Top.id) \subseteq paths[Depth - 1].now

-----------------------------------------------------------------------------
(* What an instruction has done to the levels says where control goes. *)

FollowStmt ==
    /\ Depth' = Depth
    /\ count' # count
    /\ paths' = [paths EXCEPT ![Depth] = AfterStmt(@, Last(bodies'[Depth]))]
    /\ UNCHANGED repeats

FollowOpen ==
    /\ Depth' > Depth
    /\ paths' = Append(paths, Path(paths[Depth].now))
    /\ UNCHANGED repeats

\* The end of a statement; a case is not the end of its switch.
FollowClose ==
    /\ Depth' < Depth
    /\ paths' = Append(SubSeq(paths, 1, Depth - 2),
                       IF Top.role = "case" THEN Joined
                       ELSE [Joined EXCEPT !.now = AfterBlocks, !.ends = {}])
    /\ repeats' = (repeats /\ Repeats)

\* The statement's next block
FollowReopen ==
    /\ Depth' = Depth
    /\ count' = count
    /\ ~InSwitch
    /\ paths' = Append(Append(SubSeq(paths, 1, Depth - 2), Joined),
                       Path(paths[Depth - 1].now))
    /\ repeats' = (repeats /\ Repeats)

\* The end of a switch, which only a partial one reaches without a case
FollowEndSwitch ==
    /\ Depth' = Depth
    /\ count' = count
    /\ InSwitch
    /\ LET p == paths[Depth]
           skipped == IF Last(bodies[Depth]).form = "partial" THEN p.now ELSE {}
       IN paths' = [paths EXCEPT ![Depth] =
                       [p EXCEPT !.now = p.ends \cup skipped, !.ends = {}]]
    /\ UNCHANGED repeats

FollowStop ==
    /\ paths' = IF phase' = "analyzed" THEN paths ELSE <<>>
    /\ UNCHANGED repeats

Follow ==
    \/ phase' = "sema" /\ FollowStmt
    \/ phase' = "sema" /\ FollowOpen
    \/ phase' = "sema" /\ FollowClose
    \/ phase' = "sema" /\ FollowReopen
    \/ phase' = "sema" /\ FollowEndSwitch
    \/ phase' # "sema" /\ FollowStop

PathsInit == paths = <<Path({<<>>})>> /\ repeats = TRUE

PathsSpec == Init /\ PathsInit /\ [][Instruction /\ Follow]_pvars

-----------------------------------------------------------------------------
(* Properties *)

\* A function that is accepted although it must return a value never reaches
\* the end of its statements (instr_func_def).
ValueFunctionsEnd ==
    phase = "analyzed" /\ ~isVoid => paths[1].now = {}
=============================================================================
