--------------------------- MODULE MCSourceLoading ---------------------------
(***************************************************************************)
(* Small programs for SourceLoading: a source that is there from the start *)
(* and the files its global symbols import.                                *)
(***************************************************************************)
EXTENDS SourceLoading, TLC

CONSTANTS main, lib, gone, locked, w1, w2

Two == {w1, w2}
FromMain == <<main>>

Global_(imports, under) == [imports |-> imports, under |-> under]

(***************************************************************************)
(* lib is imported by three symbols of main, one of them under a `when`,   *)
(* and imports main itself; gone does not exist and locked cannot be read. *)
(* The one under the `when` is one itself, with two more nested in it.     *)
(***************************************************************************)
AllPaths == {main, lib, gone, locked}
AllFiles == (main :> "ok") @@ (lib :> "ok") @@ (gone :> "missing") @@ (locked :> "unreadable")
AllGlobals ==
    (main :> << Global_(<<lib, gone>>, 0), Global_(<<lib>>, 0), Global_(<<lib, locked>>, 2),
                Global_(<<main>>, 0), Global_(<<EmptyPath>>, 0), Global_(<<>>, 3),
                Global_(<<>>, 6) >>)
 @@ (lib :> << Global_(<<main>>, 0), Global_(<<locked, gone>>, 0) >>)
 @@ (gone :> <<>>) @@ (locked :> <<>>)

(***************************************************************************)
(* Two symbols import the same file, which has a syntax error.             *)
(***************************************************************************)
TwoPaths == {main, lib}
BrokenFiles == (main :> "ok") @@ (lib :> "broken")
BrokenGlobals == (main :> << Global_(<<lib>>, 0), Global_(<<lib>>, 0) >>) @@ (lib :> <<>>)

(***************************************************************************)
(* The imported file has a `when` conditional with a symbol under it.      *)
(***************************************************************************)
WhenFiles == (main :> "ok") @@ (lib :> "ok")
WhenGlobals ==
    (main :> << Global_(<<lib>>, 0), Global_(<<lib>>, 0) >>)
 @@ (lib :> << Global_(<<>>, 0), Global_(<<>>, 1) >>)

=============================================================================
