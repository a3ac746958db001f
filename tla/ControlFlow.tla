---------------------------- MODULE ControlFlow ----------------------------
(***************************************************************************)
(* A function from its statements to its execution: the analyzer builds    *)
(* the body (Statements), SemaToPIR lowers it (Lowering), and the lowered  *)
(* blocks are run with every outcome of their conditions.  The behaviour   *)
(* is compared with that of the statements themselves.                     *)
(***************************************************************************)
EXTENDS Paths, Lowering

CONSTANT MaxChoices     \* bound on the conditions met in one execution

VARIABLES
    code,       \* the lowered function: [blocks, ok]
    pc,         \* the block to run next, 0 when there is none
    trace,      \* the events so far
    choices,    \* the outcomes of the conditions so far
    outcome     \* how the execution ended

evars == <<pc, trace, choices, outcome>>
vars == <<pvars, code, evars>>

NoCode == [blocks |-> <<>>, ok |-> TRUE]

CFInit ==
    /\ Init
    /\ PathsInit
    /\ code = NoCode
    /\ pc = 0
    /\ trace = <<>>
    /\ choices = <<>>
    /\ outcome = "none"

Analyze == Instruction /\ Follow /\ UNCHANGED <<code, evars>>

\* SemaToPIR on the analyzed function
Lower ==
    /\ phase = "analyzed"
    /\ code = NoCode
    /\ LET h == LowerFunc(func, isVoid)
       IN code' = [blocks |-> h.blocks, ok |-> h.ok]
    /\ pc' = 1
    /\ UNCHANGED <<pvars, trace, choices, outcome>>

Events(block) ==
    LET events == IF Ends(block) THEN Front(block) ELSE block
    IN [i \in DOMAIN events |-> <<events[i].op, events[i].id>>]

\* Run the block at pc to its terminator
RunBlock ==
    /\ pc # 0
    /\ LET block == code.blocks[pc]
           to == Last(block).to
       IN /\ trace' = trace \o Events(block)
          /\ \/ /\ Ends(block) /\ Len(to) = 1 /\ Last(block).op = "jump"
                /\ pc' = to[1]
                /\ UNCHANGED <<choices, outcome>>
             \/ /\ Ends(block) /\ Last(block).op \in {"branch", "switch"}
                /\ Len(choices) < MaxChoices
                /\ \E n \in DOMAIN to : pc' = to[n] /\ choices' = Append(choices, n)
                /\ UNCHANGED outcome
             \/ /\ Ends(block) /\ to = <<>>
                /\ pc' = 0
                /\ outcome' = Last(block).op
                /\ UNCHANGED choices
             \/ /\ ~Ends(block)
                /\ pc' = 0
                /\ outcome' = "fellOff"
                /\ UNCHANGED choices
    /\ UNCHANGED <<pvars, code>>

Next == Analyze \/ Lower \/ RunBlock

CFSpec == CFInit /\ [][Next]_vars

-----------------------------------------------------------------------------
(* Properties *)

\* No assertion of the analyzer or of the lowering fails.
NoAssertFails == phase # "crashed" /\ code.ok

\* Every lowered block ends with a terminator, and has only one.
BlocksEndOnce ==
    \A i \in DOMAIN code.blocks :
        /\ Ends(code.blocks[i])
        /\ \A n \in 1..Len(code.blocks[i]) - 1 :
              code.blocks[i][n].op \notin Terminators

\* An execution of the lowered function has the events and the outcome of
\* the statements, in the same order.
SameBehaviour ==
    outcome # "none" =>
        RunFunc(func, choices) = [trace |-> trace, outcome |-> outcome]
=============================================================================
