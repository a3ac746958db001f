---------------------------- MODULE MCSymbolProcs ----------------------------
(***************************************************************************)
(* Programs for SymbolProcs, in the shapes the SymbolProcBuilder gives to  *)
(* the symbols of a Panther source.                                        *)
(***************************************************************************)
EXTENDS SymbolProcs, TLC

CONSTANTS a, b, c, s, m, f, w1, w2, w3

I(op, on, kinds, again) == [op |-> op, on |-> on, kinds |-> kinds, again |-> again]

WaitFor(on)  == I("wait", on, {}, FALSE)   \* returns NEED_TO_WAIT_BEFORE_NEXT_INSTR
WaitAgain(on) == I("wait", on, {}, TRUE)   \* returns NEED_TO_WAIT
Finishes(kinds) == I("finish", <<>>, kinds, FALSE)
Selects(p)   == I("select", <<<<p, "decl">>>>, {}, FALSE)
Spawns(p)    == I("spawn", <<<<p, "decl">>>>, {}, FALSE)
AddTo(on)    == I("members", on, {}, FALSE)
Pauses       == I("pause", <<>>, {}, FALSE)
Suspends     == I("suspend", <<>>, {}, FALSE)
Fails        == I("error", <<>>, {}, FALSE)
FailsQuietly == I("no_report", <<>>, {}, FALSE)

Two   == {w1, w2}
Three == {w1, w2, w3}

(***************************************************************************)
(* A struct s with a member m, a template function f instantiated by two   *)
(* callers; a needs the PIR of f, and b only calls it at run time.         *)
(***************************************************************************)
LibraryProc == {a, b, s, m, f}
LibraryParent == [p \in LibraryProc |-> IF p = m THEN s ELSE NoProc]
LibraryProgram ==
    (a :> << Spawns(f), WaitAgain(<<<<f, "decl">>>>), Selects(f), Finishes({"decl", "def"}),
             WaitFor(<<<<f, "pir_decl">>>>), WaitFor(<<<<f, "pir_def">>>>),
             Finishes({"pir_def"}) >>)
 @@ (b :> << WaitAgain(<<<<s, "def">>>>), Spawns(f), WaitAgain(<<<<f, "decl">>>>), Selects(f),
             Finishes({"decl", "def"}) >>)
 @@ (s :> << AddTo(<<<<m, "def">>>>), Finishes({"decl"}), Pauses, Finishes({"def"}) >>)
 @@ (m :> << Finishes({"decl", "def"}) >>)
 @@ (f :> << Finishes({"decl"}), Suspends, WaitAgain(<<<<s, "def">>>>),
             Finishes({"pir_decl"}), Finishes({"def"}), Finishes({"pir_def"}) >>)

\* The order in which the SymbolProcs of this program can finish.
LibraryRank ==
    (a :> <<0, 1, 1, 1, 4, 4, 4, 4>>) @@ (b :> <<3, 3, 3, 3, 3, 3>>) @@ (s :> <<0, 0, 2, 2, 2>>)
 @@ (m :> <<1, 1>>) @@ (f :> <<0, 0, 3, 3, 3, 3, 3>>)
ASSUME LibraryIsFeasible ==
    Proc = LibraryProc /\ Program = LibraryProgram => Feasible(LibraryRank)

(***************************************************************************)
(* a needs the definitions of b and m, which both need its: one error or   *)
(* two, as a comes last or first.  f fails and c needs it, and s is an     *)
(* instantiation whose parameters do not match its deducers.               *)
(***************************************************************************)
CycleProc == {a, b, c, s, m, f}
CycleProgram ==
    (a :> << Finishes({"decl"}), WaitAgain(<<<<b, "def">>, <<m, "def">>>>), Finishes({"def"}) >>)
 @@ (b :> << Finishes({"decl"}), WaitAgain(<<<<a, "def">>>>), Finishes({"def"}) >>)
 @@ (m :> << WaitAgain(<<<<a, "def">>>>), Finishes({"decl", "def"}) >>)
 @@ (c :> << WaitAgain(<<<<b, "decl">>, <<a, "decl">>>>), Spawns(s), WaitAgain(<<<<s, "decl">>>>),
             WaitFor(<<<<f, "decl">>>>), Finishes({"decl"}) >>)
 @@ (f :> << Fails >>)
 @@ (s :> << Finishes({"decl"}), FailsQuietly, Finishes({"def"}) >>)
NoParent == [p \in Proc |-> NoProc]
ASSUME CyclesAreReal ==
    Proc = CycleProc /\ Program = CycleProgram => CyclesAreLookedFor /\ WaitsAreMet

(***************************************************************************)
(* b calls an instantiation of the template function f.                    *)
(***************************************************************************)
SelectProc == {b, f}
SelectProgram ==
    (b :> << Spawns(f), WaitAgain(<<<<f, "decl">>>>), Selects(f), Finishes({"decl", "def"}) >>)
 @@ (f :> << Finishes({"decl"}), Suspends, Finishes({"def"}) >>)
=============================================================================
