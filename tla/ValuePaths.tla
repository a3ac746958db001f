----------------------------- MODULE ValuePaths -----------------------------
(***************************************************************************)
(* The value states of the analyzer (ValueStates) beside the states that   *)
(* the variables have on the paths of control (Paths).                     *)
(***************************************************************************)
EXTENDS Paths, ValueStates

vpvars == <<vvars, paths, repeats>>

ValuePathsSpec == ValueInit /\ PathsInit /\ [][AnalyzeValues /\ Follow]_vpvars

\* The instruction appends a statement of that kind about variable v.
Accepts(kind, v) ==
    /\ phase' = "sema"
    /\ count' # count
    /\ Last(bodies'[Depth]).op = kind
    /\ Last(bodies'[Depth]).to = v

\* On every path a variable that is used or moved from holds a value, one
\* that is deleted has held one, and one that is given a value holds none.
AcceptedHold ==
    \A v \in Variables : \A e \in paths[Depth].now :
        /\ Accepts("use", v) \/ Accepts("move", v) => e[v] = "init"
        /\ Accepts("deleteStmt", v) => e[v] # "uninit"
        /\ Accepts("init", v) => e[v] = "uninit"

\* What the analyzer accepts holds on every path (get_ident_value_state).  For
\* this to be about later turns of a loop too, each must begin as the first
\* one did.
UsesHoldOnEveryPath == []repeats /\ [][AcceptedHold]_vpvars
=============================================================================
