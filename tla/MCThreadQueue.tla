---------------------------- MODULE MCThreadQueue ----------------------------
(***************************************************************************)
(* Instances of ThreadQueue for TLC.                                       *)
(***************************************************************************)
EXTENDS ThreadQueue

CONSTANTS t1, t2, t3, t4

MCTask     == {t1, t2, t3, t4}
MCPriority == {t3, t4}
\* t1 and t2 are there from the start; t1 wakes a priority and a normal task up.
MCInitial  == {t1, t2, t3}
MCSpawns   == [t \in MCTask |-> IF t = t1 THEN {t4} ELSE {}]
MCMayFail  == {t1, t2}

SmallTask     == {t1, t2, t3}
SmallPriority == {t3}
SmallInitial  == {t1}
SmallSpawns   == [t \in SmallTask |-> IF t = t1 THEN {t2, t3} ELSE {}]
=============================================================================
