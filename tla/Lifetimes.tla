----------------------------- MODULE Lifetimes -----------------------------
(***************************************************************************)
(* A function with variables from its statements to its execution: the     *)
(* analyzer keeps their value states (ValueStates), SemaToPIR lowers the   *)
(* body (Lowering), and the lowered blocks are run (ControlFlow).  A       *)
(* variable is deleted at the end of its scope if SemaToPIR takes it for   *)
(* alive.  Neither it nor the analyzer looks at a value at run time.       *)
(***************************************************************************)
EXTENDS ControlFlow, ValuePaths

lvars == <<vars, values, handedOn>>

LInit == CFInit /\ ValueInit

LNext ==
    \/ AnalyzeValues /\ Follow /\ UNCHANGED <<code, evars>>
    \/ (Lower \/ RunBlock) /\ UNCHANGED <<values, handedOn>>

LSpec == LInit /\ [][LNext]_lvars

-----------------------------------------------------------------------------
(* Properties *)

\* What the events so far have made of the variables at run time: the state
\* of those met, and the faults.
AtRunTime ==
    LET Step(a, e) ==
            LET state == IF e[2] \in DOMAIN a.states THEN a.states[e[2]] ELSE "none"
                To(new, fault, wrong) ==
                    [states |-> (e[2] :> new) @@ a.states,
                     faults |-> IF wrong THEN a.faults \cup {fault} ELSE a.faults]
            IN CASE e[1] = "var" -> To("init", "leak", state = "init")
                 [] e[1] = "uninitVar" -> To("uninit", "leak", state = "init")
                 [] e[1] = "init" -> To("init", "leak", state = "init")
                 [] e[1] = "use" -> To(state, "use", state # "init")
                 [] e[1] = "move" -> To("moved", "use", state # "init")
                 [] e[1] = "deleteStmt" -> To("uninit", "use", state = "uninit")
                 [] e[1] = "delete" -> To("uninit", "delete", state # "init")
                 [] OTHER -> a
    IN FoldLeft(Step, [states |-> <<>>, faults |-> {}], trace)

\* No execution uses or moves a variable that holds no value at that time,
\* or deletes one that never had a value: what the analyzer accepts, it
\* accepts for every path.
UsesHoldAtRunTime == "use" \notin AtRunTime.faults

\* A value is deleted exactly once: never when it is gone, and none is
\* overwritten or left when the function returns.  The scopes that hand a
\* change on are excepted, as SemaToPIR is not told of it (README.md, 3).
DeletedOnce ==
    LET run == AtRunTime
    IN ~handedOn =>
        /\ run.faults \cap {"delete", "leak"} = {}
        /\ outcome \in {"ret", "retError"} =>
              \A v \in DOMAIN run.states : run.states[v] # "init"
=============================================================================
