---------------------------- MODULE PathsProofs ----------------------------
(***************************************************************************)
(* What the analyzer concludes about the paths of control holds for every  *)
(* function body, of any size and nesting, that has none of the constructs *)
(* it mishandles.                                                          *)
(***************************************************************************)
EXTENDS Paths, StatementsProofs

-----------------------------------------------------------------------------
(* Stacks of anything *)

AnySeq(s) == \E S : s \in Seq(S)

LEMMA AnyReplace ==
    ASSUME NEW s, AnySeq(s), NEW n \in Nat \ {0}, Len(s) = n, NEW e
    PROVE  LET t == [s EXCEPT ![n] = e]
           IN /\ AnySeq(t) /\ Len(t) = n /\ t[n] = e
              /\ \A i \in 1..n - 1 : t[i] = s[i]
<1> DEFINE t == [s EXCEPT ![n] = e]
<1>1. PICK S : s \in Seq(S)
  BY DEF AnySeq
<1> DEFINE R == S \cup {e}
<1>2. s \in Seq(R) /\ e \in R /\ n \in 1..Len(s)
  BY <1>1
<1> HIDE DEF R
<1>3. /\ t \in Seq(R) /\ Len(t) = Len(s)
      /\ \A i \in 1..Len(s) : t[i] = IF i = n THEN e ELSE s[i]
  BY <1>2, SeqReplace
<1> HIDE DEF t
<1>4. \A i \in 1..n - 1 : i \in 1..Len(s) /\ i # n
  OBVIOUS
<1>5. t[n] = e /\ \A i \in 1..n - 1 : t[i] = s[i]
  BY <1>2, <1>3, <1>4
<1>6. AnySeq(t)
  BY <1>3 DEF AnySeq
<1> QED  BY <1>3, <1>5, <1>6 DEF t

LEMMA AnyPush ==
    ASSUME NEW s, AnySeq(s), NEW n \in Nat, Len(s) = n, NEW e
    PROVE  LET t == Append(s, e)
           IN /\ AnySeq(t) /\ Len(t) = n + 1 /\ t[n + 1] = e
              /\ \A i \in 1..n : t[i] = s[i]
<1> DEFINE t == Append(s, e)
<1>1. PICK S : s \in Seq(S)
  BY DEF AnySeq
<1> DEFINE R == S \cup {e}
<1>2. s \in Seq(R) /\ e \in R
  BY <1>1
<1> HIDE DEF R
<1>3. /\ t \in Seq(R) /\ Len(t) = Len(s) + 1
      /\ \A i \in 1..Len(s) + 1 : t[i] = IF i = Len(s) + 1 THEN e ELSE s[i]
  BY <1>2, SeqPush
<1> HIDE DEF t
<1>4. \A i \in 1..n : i \in 1..n + 1 /\ i # n + 1
  OBVIOUS
<1>5. t[n + 1] = e /\ \A i \in 1..n : t[i] = s[i]
  BY <1>3, <1>4
<1>6. AnySeq(t)
  BY <1>3 DEF AnySeq
<1> QED  BY <1>3, <1>5, <1>6 DEF t

\* The two innermost become one.
LEMMA AnyPop ==
    ASSUME NEW s, AnySeq(s), NEW n \in Nat, n >= 2, Len(s) = n, NEW e
    PROVE  LET t == Append(SubSeq(s, 1, n - 2), e)
           IN /\ AnySeq(t) /\ Len(t) = n - 1 /\ t[n - 1] = e
              /\ \A i \in 1..n - 2 : t[i] = s[i]
<1> DEFINE u == SubSeq(s, 1, n - 2)
           t == Append(u, e)
<1>1. PICK S : s \in Seq(S)
  BY DEF AnySeq
<1>2. n - 2 \in 0..Len(s) /\ n - 2 \in Nat /\ (n - 2) + 1 = n - 1
  OBVIOUS
<1>3. /\ u \in Seq(S) /\ Len(u) = n - 2
      /\ \A i \in 1..n - 2 : u[i] = s[i]
  BY <1>1, <1>2, SeqCut
<1> HIDE DEF u
<1>4. AnySeq(u)
  BY <1>3 DEF AnySeq
<1>5. /\ AnySeq(t) /\ Len(t) = (n - 2) + 1 /\ t[(n - 2) + 1] = e
      /\ \A i \in 1..n - 2 : t[i] = u[i]
  BY <1>2, <1>3, <1>4, AnyPush
<1> HIDE DEF t
<1> QED  BY <1>2, <1>3, <1>5 DEF t, u

\* They become one, and there is a new one.
LEMMA AnyPopPush ==
    ASSUME NEW s, AnySeq(s), NEW n \in Nat, n >= 2, Len(s) = n, NEW d, NEW e
    PROVE  LET t == Append(Append(SubSeq(s, 1, n - 2), d), e)
           IN /\ AnySeq(t) /\ Len(t) = n /\ t[n - 1] = d /\ t[n] = e
              /\ \A i \in 1..n - 2 : t[i] = s[i]
<1> DEFINE u == Append(SubSeq(s, 1, n - 2), d)
           t == Append(u, e)
<1>1. /\ AnySeq(u) /\ Len(u) = n - 1 /\ u[n - 1] = d
      /\ \A i \in 1..n - 2 : u[i] = s[i]
  BY AnyPop
<1> HIDE DEF u
<1>2. n - 1 \in Nat /\ (n - 1) + 1 = n /\ n - 1 \in 1..n - 1
      /\ \A i \in 1..n - 2 : i \in 1..n - 1
  OBVIOUS
<1>3. /\ AnySeq(t) /\ Len(t) = (n - 1) + 1 /\ t[(n - 1) + 1] = e
      /\ \A i \in 1..n - 1 : t[i] = u[i]
  BY <1>1, <1>2, AnyPush
<1> HIDE DEF t
<1> QED  BY <1>1, <1>2, <1>3 DEF t, u

-----------------------------------------------------------------------------
(* Where control goes with each kind of step *)

HavePaths == AnySeq(paths) /\ Len(paths) = Depth

LEMMA EmplacedLast ==
    ASSUME BInv, phase = "sema", NEW s
    PROVE  Last(Emplace(s)[Depth]) = s
<1>0. IInv /\ CountOK /\ Shape /\ Nest /\ Depth \in Nat \ {0} /\ Depth = Len(scopes)
  BY IInvStack DEF BInv
<1>1. Body(bodies[Depth]) /\ Depth \in DOMAIN bodies
  BY <1>0, NestStack DEF Shape
<1> DEFINE t0 == Append(bodies[Depth], s)
<1>a. Emplace(s) = [bodies EXCEPT ![Depth] = t0]
  BY DEF Emplace
<1>2. Emplace(s)[Depth] = Append(bodies[Depth], s)
  <2> HIDE DEF t0
  <2> QED  BY ONLY <1>1, <1>a DEF t0
<1>3. PICK S : bodies[Depth] \in Seq(S)
  BY <1>1 DEF Body
<1>4. bodies[Depth] \in Seq(S \cup {s}) /\ s \in S \cup {s}
  BY <1>3
<1> DEFINE b == bodies[Depth]
           t == Append(b, s)
<1>5. Len(t) = Len(b) + 1 /\ t[Len(b) + 1] = s
  <2> HIDE DEF b
  <2>1. Len(b) \in Nat
    BY <1>4 DEF b
  <2> QED  BY <1>4, <2>1, SeqPush DEF b
<1> QED  BY <1>2, <1>5 DEF Last

LEMMA FollowAdd ==
    ASSUME BInv, phase = "sema", HavePaths, Follow, NEW s, IsStmt(s), NEW l \in Level,
           scopes' = [scopes EXCEPT ![Depth] = l], bodies' = Emplace(s),
           count' = count + 1, phase' = "sema"
    PROVE  /\ HavePaths' /\ Depth' = Depth
           /\ \A i \in 1..Depth - 1 : paths'[i] = paths[i]
           /\ paths'[Depth] = AfterStmt(paths[Depth], s)
           /\ UNCHANGED repeats
<1>1. IInv /\ CountOK /\ Shape /\ Nest /\ Depth \in Nat \ {0} /\ Depth = Len(scopes)
  BY IInvStack DEF BInv
<1>2. Depth' = Depth /\ count' # count
  <2> DEFINE t == [scopes EXCEPT ![Depth] = l]
  <2>1. Len(t) = Depth
    BY <1>1, LevelsReplace
  <2>2. scopes' = t
    OBVIOUS
  <2> HIDE DEF t
  <2>3. Depth' = Depth
    BY ONLY <2>1, <2>2 DEF Depth
  <2>4. count' # count
    BY <1>1 DEF CountOK
  <2> QED  BY <2>3, <2>4
<1>3. Last(bodies'[Depth]) = s
  BY EmplacedLast
<1>4. FollowStmt
  BY <1>1, <1>2 DEF Follow, FollowOpen, FollowClose, FollowReopen, FollowEndSwitch
<1>5. paths' = [paths EXCEPT ![Depth] = AfterStmt(paths[Depth], s)] /\ UNCHANGED repeats
  BY <1>3, <1>4 DEF FollowStmt
<1> DEFINE q == AfterStmt(paths[Depth], s)
<1>6. /\ AnySeq(paths') /\ Len(paths') = Depth /\ paths'[Depth] = q
      /\ \A i \in 1..Depth - 1 : paths'[i] = paths[i]
  <2> DEFINE t == [paths EXCEPT ![Depth] = q]
  <2> HIDE DEF q
  <2>1. AnySeq(paths) /\ Len(paths) = Depth
    BY DEF HavePaths
  <2>2. /\ AnySeq(t) /\ Len(t) = Depth /\ t[Depth] = q
        /\ \A i \in 1..Depth - 1 : t[i] = paths[i]
    BY <1>1, <2>1, AnyReplace
  <2>3. paths' = t
    BY <1>5 DEF q
  <2> HIDE DEF t
  <2> QED  BY ONLY <2>2, <2>3
<1> QED  BY <1>2, <1>5, <1>6 DEF HavePaths

LEMMA FollowPush ==
    ASSUME BInv, phase = "sema", HavePaths, Follow, NEW p \in Level, NEW l \in Level,
           scopes' = Append([scopes EXCEPT ![Depth] = p], l), phase' = "sema"
    PROVE  /\ HavePaths' /\ Depth' = Depth + 1
           /\ \A i \in 1..Depth : paths'[i] = paths[i]
           /\ paths'[Depth + 1] = Path(paths[Depth].now)
           /\ UNCHANGED repeats
<1>1. IInv /\ Depth \in Nat \ {0} /\ Depth = Len(scopes)
  BY IInvStack DEF BInv
<1>2. Depth' = Depth + 1
  BY <1>1, LevelsPush DEF Depth
<1>3. FollowOpen
  BY <1>1, <1>2 DEF Follow, FollowStmt, FollowClose, FollowReopen, FollowEndSwitch
<1> DEFINE q == Path(paths[Depth].now)
<1>4. paths' = Append(paths, q) /\ UNCHANGED repeats
  BY <1>3 DEF FollowOpen
<1>5. /\ AnySeq(paths') /\ Len(paths') = Depth + 1 /\ paths'[Depth + 1] = q
      /\ \A i \in 1..Depth : paths'[i] = paths[i]
  <2> HIDE DEF q
  <2> QED  BY <1>1, <1>4, AnyPush DEF HavePaths
<1> QED  BY <1>2, <1>4, <1>5 DEF HavePaths

\* The parent's Path once the innermost level is closed for good
Closed ==
    IF Top.role = "case" THEN Joined ELSE [Joined EXCEPT !.now = AfterBlocks, !.ends = {}]

LEMMA FollowPop ==
    ASSUME BInv, phase = "sema", HavePaths, Follow, Top.role # "func", NEW p \in Level,
           scopes' = Append(SubSeq(scopes, 1, Depth - 2), p), phase' = "sema"
    PROVE  /\ HavePaths' /\ Depth' = Depth - 1 /\ Depth - 1 \in Nat \ {0}
           /\ \A i \in 1..Depth - 2 : paths'[i] = paths[i]
           /\ paths'[Depth - 1] = Closed
           /\ repeats' = (repeats /\ Repeats)
<1>1. IInv /\ Depth \in Nat \ {0} /\ Depth = Len(scopes) /\ Depth >= 2
  <2>1. IInv
    BY DEF BInv
  <2> QED  BY <2>1, IInvStack, HasParent
<1>2. Depth' = Depth - 1
  BY <1>1, LevelsPop DEF Depth
<1>3. FollowClose
  BY <1>1, <1>2 DEF Follow, FollowStmt, FollowOpen, FollowReopen, FollowEndSwitch
<1>4. paths' = Append(SubSeq(paths, 1, Depth - 2), Closed)
      /\ repeats' = (repeats /\ Repeats)
  BY <1>3 DEF FollowClose, Closed
<1> DEFINE q == Closed
<1>5. /\ AnySeq(paths') /\ Len(paths') = Depth - 1 /\ paths'[Depth - 1] = q
      /\ \A i \in 1..Depth - 2 : paths'[i] = paths[i]
  <2>1. paths' = Append(SubSeq(paths, 1, Depth - 2), q)
    BY <1>4
  <2> HIDE DEF q
  <2> QED  BY <1>1, <2>1, AnyPop DEF HavePaths
<1> QED  BY <1>1, <1>2, <1>4, <1>5 DEF HavePaths

LEMMA FollowPopPush ==
    ASSUME BInv, phase = "sema", HavePaths, Follow, Top.role # "func", ~InSwitch,
           NEW p \in Level, NEW l \in Level, count' = count,
           scopes' = Append(Append(SubSeq(scopes, 1, Depth - 2), p), l), phase' = "sema"
    PROVE  /\ HavePaths' /\ Depth' = Depth /\ Depth - 1 \in Nat \ {0}
           /\ \A i \in 1..Depth - 2 : paths'[i] = paths[i]
           /\ paths'[Depth - 1] = Joined
           /\ paths'[Depth] = Path(paths[Depth - 1].now)
           /\ repeats' = (repeats /\ Repeats)
<1>1. IInv /\ Depth \in Nat \ {0} /\ Depth = Len(scopes) /\ Depth >= 2
  <2>1. IInv
    BY DEF BInv
  <2> QED  BY <2>1, IInvStack, HasParent
<1>2. Depth' = Depth
  BY <1>1, LevelsReopen DEF Depth
<1>3. FollowReopen
  BY <1>1, <1>2 DEF Follow, FollowStmt, FollowOpen, FollowClose, FollowEndSwitch
<1> DEFINE d == Joined
           q == Path(paths[Depth - 1].now)
<1>4. paths' = Append(Append(SubSeq(paths, 1, Depth - 2), d), q)
      /\ repeats' = (repeats /\ Repeats)
  BY <1>3 DEF FollowReopen
<1>5. /\ AnySeq(paths') /\ Len(paths') = Depth /\ paths'[Depth - 1] = d /\ paths'[Depth] = q
      /\ \A i \in 1..Depth - 2 : paths'[i] = paths[i]
  <2> HIDE DEF d, q
  <2> QED  BY <1>1, <1>4, AnyPopPush DEF HavePaths
<1> QED  BY <1>1, <1>2, <1>4, <1>5 DEF HavePaths

\* The environments that come to the end of a switch past its cases
Skipped == IF Last(bodies[Depth]).form = "partial" THEN paths[Depth].now ELSE {}

LEMMA FollowSwitch ==
    ASSUME BInv, phase = "sema", HavePaths, Follow, EndSwitch
    PROVE  /\ HavePaths' /\ Depth' = Depth /\ phase' = "sema"
           /\ \A i \in 1..Depth - 1 : paths'[i] = paths[i]
           /\ paths'[Depth] = [paths[Depth] EXCEPT
                                  !.now = paths[Depth].ends \cup Skipped, !.ends = {}]
           /\ UNCHANGED repeats
<1>1. IInv /\ Depth \in Nat \ {0} /\ Depth = Len(scopes) /\ Top \in Level
  BY IInvStack DEF BInv
<1> DEFINE l == EndSubScopesAt(Depth, Top)
<1>2. l \in Level /\ scopes' = [scopes EXCEPT ![Depth] = l]
      /\ count' = count /\ phase' = "sema" /\ InSwitch
  BY <1>1, EndSubScopesAtOK DEF EndSwitch
<1> HIDE DEF l
<1>3. Depth' = Depth
  <2> DEFINE t == [scopes EXCEPT ![Depth] = l]
  <2>1. Len(t) = Depth
    BY <1>1, <1>2, LevelsReplace
  <2>2. scopes' = t
    BY <1>2
  <2> HIDE DEF t
  <2> QED  BY ONLY <2>1, <2>2 DEF Depth
<1>4. FollowEndSwitch
  BY <1>1, <1>2, <1>3 DEF Follow, FollowStmt, FollowOpen, FollowClose, FollowReopen
<1> DEFINE q == [paths[Depth] EXCEPT !.now = paths[Depth].ends \cup Skipped, !.ends = {}]
<1>5. paths' = [paths EXCEPT ![Depth] = q] /\ UNCHANGED repeats
  BY <1>4 DEF FollowEndSwitch, Skipped
<1>6. /\ AnySeq(paths') /\ Len(paths') = Depth /\ paths'[Depth] = q
      /\ \A i \in 1..Depth - 1 : paths'[i] = paths[i]
  <2> DEFINE t == [paths EXCEPT ![Depth] = q]
  <2> HIDE DEF q
  <2>1. AnySeq(paths) /\ Len(paths) = Depth
    BY DEF HavePaths
  <2>2. /\ AnySeq(t) /\ Len(t) = Depth /\ t[Depth] = q
        /\ \A i \in 1..Depth - 1 : t[i] = paths[i]
    BY <1>1, <2>1, AnyReplace
  <2>3. paths' = t
    BY <1>5 DEF q
  <2> HIDE DEF t
  <2> QED  BY ONLY <2>2, <2>3
<1> QED  BY <1>2, <1>3, <1>5, <1>6 DEF HavePaths

-----------------------------------------------------------------------------
(* Where the analyzer takes the code to be dead, no path comes. *)

\* The constructs that make it take live code for dead
NoneMistaken ==
    {"loopEndsParent", "partialSwitch", "terminatedDefer"} \cap Corners = {}

IsPath(p) == p = [now |-> p.now, ends |-> p.ends, jumps |-> p.jumps]

\* Some path has come to the level.
Met(p) == p.now # {} \/ p.ends # {} \/ p.jumps # {}

\* The sub-scopes of a level under which a level in that role is open
CountsFit(l, role) ==
    CASE role \in {"then", "while", "for", "defer", "block"} -> l.nsub = 1 /\ l.nterm = 0
      [] role \in {"else", "forElse"} -> l.nsub = 2 /\ l.nterm <= 1
      [] role \in {"tryElse", "blockExpr"} -> l.nsub = 2 /\ l.nterm = 0
      [] OTHER -> role = "case"

\* Level l and its Path p
LiveAt(l, p) ==
    /\ IsPath(p)
    /\ l.tk # "not" => p.now = {}
    /\ p.ends # {} => p.now # {} /\ l.nterm < l.nsub

\* They are around level r and its Path q.
LiveUnder(l, p, r, q) ==
    /\ p.ends # {} => l.nterm + 1 < l.nsub
    /\ Met(q) => p.now # {}
    /\ CountsFit(l, r.role)

LiveOK(n, sc, pa) ==
    /\ \A i \in 1..n : LiveAt(sc[i], pa[i])
    /\ \A i \in 1..n - 1 : LiveUnder(sc[i], pa[i], sc[i + 1], pa[i + 1])

Live == phase = "sema" => HavePaths /\ LiveOK(Depth, scopes, paths)

\* The levels above the m-th are gone and that one has changed.
LEMMA LiveTop ==
    ASSUME NEW n \in Nat, NEW m \in 1..n, NEW sc, NEW pa, LiveOK(n, sc, pa),
           NEW sc2, NEW pa2, \A i \in 1..m - 1 : sc2[i] = sc[i] /\ pa2[i] = pa[i],
           sc2[m].role = sc[m].role, LiveAt(sc2[m], pa2[m]),
           Met(pa2[m]) => Met(pa[m])
    PROVE  LiveOK(m, sc2, pa2)
<1>1. \A i \in 1..m : i = m \/ i \in 1..m - 1
  OBVIOUS
<1>2. \A i \in 1..m - 1 : /\ i \in 1..n /\ i \in 1..n - 1 /\ i + 1 \in 1..m
                          /\ i + 1 = m \/ i + 1 \in 1..m - 1
  OBVIOUS
<1>3. \A i \in 1..m : LiveAt(sc2[i], pa2[i])
  BY <1>1, <1>2 DEF LiveOK
<1>4. ASSUME NEW i \in 1..m - 1
      PROVE  LiveUnder(sc2[i], pa2[i], sc2[i + 1], pa2[i + 1])
  <2>1. LiveUnder(sc2[i], pa2[i], sc[i + 1], pa[i + 1])
    BY <1>2 DEF LiveOK
  <2>2. sc2[i + 1].role = sc[i + 1].role /\ (Met(pa2[i + 1]) => Met(pa[i + 1]))
    BY <1>2
  <2> QED  BY <2>1, <2>2 DEF LiveUnder
<1> QED  BY <1>3, <1>4 DEF LiveOK

LEMMA LivePush ==
    ASSUME NEW n \in Nat \ {0}, NEW sc, NEW pa, LiveOK(n, sc, pa),
           NEW sc2, NEW pa2, \A i \in 1..n : sc2[i] = sc[i] /\ pa2[i] = pa[i],
           pa2[n + 1] = Path(pa[n].now), sc2[n + 1].tk = "not",
           CountsFit(sc[n], sc2[n + 1].role),
           pa[n].ends # {} => sc[n].nterm + 1 < sc[n].nsub
    PROVE  LiveOK(n + 1, sc2, pa2)
<1> DEFINE q == Path(pa[n].now)
<1>0. q.now = pa[n].now /\ q.ends = {} /\ q.jumps = {} /\ IsPath(q)
  BY DEF Path, IsPath
<1> HIDE DEF q
<1>1. /\ (n + 1) - 1 = n /\ n \in 1..n
      /\ \A i \in 1..n + 1 : i = n + 1 \/ i \in 1..n
      /\ \A i \in 1..n : i = n \/ (i \in 1..n - 1 /\ i + 1 \in 1..n)
  OBVIOUS
<1>2. pa2[n + 1] = q
  BY DEF q
<1>3. LiveAt(sc2[n + 1], pa2[n + 1])
  BY <1>0, <1>2 DEF LiveAt
<1>4. LiveUnder(sc2[n], pa2[n], sc2[n + 1], pa2[n + 1])
  BY <1>0, <1>1, <1>2 DEF LiveUnder, Met
<1>5. \A i \in 1..n + 1 : LiveAt(sc2[i], pa2[i])
  BY <1>1, <1>3 DEF LiveOK
<1>6. \A i \in 1..n : LiveUnder(sc2[i], pa2[i], sc2[i + 1], pa2[i + 1])
  BY <1>1, <1>4 DEF LiveOK
<1> QED  BY <1>1, <1>5, <1>6 DEF LiveOK

\* Where a statement may be added, no sub-scope is counted.
LEMMA NoSubScopes ==
    ASSUME BInv, phase = "sema", ~InSwitch
    PROVE  /\ Top.nsub = 0 /\ Top.nterm = 0
           /\ IsTerminated(Top) <=> Top.tk # "not"
<1>1. IInv /\ Shape /\ Nest
  BY DEF BInv
<1>2. Top \in Level /\ Counted(Top) /\ Top = scopes[Depth]
  BY <1>1, IInvStack
<1>3. PICK pos : Ended(Depth, scopes, bodies, subscopes, pos)
  BY <1>1 DEF Nest
<1>4. ~Within(bodies[Depth], subscopes)
  BY <1>1, NestStack
<1>5. Top.nsub = 0
  BY <1>2, <1>3, <1>4 DEF Ended
<1> QED  BY <1>2, <1>5, LevelFields DEF Counted, IsTerminated

LEMMA LiveNow ==
    ASSUME BInv, Live, phase = "sema"
    PROVE  /\ IInv /\ HavePaths /\ LiveOK(Depth, scopes, paths)
           /\ Depth \in Nat \ {0} /\ Depth \in 1..Depth /\ Depth = Len(scopes)
           /\ Top = scopes[Depth] /\ Top \in Level /\ Counted(Top)
           /\ LiveAt(Top, paths[Depth])
<1>1. IInv /\ HavePaths /\ LiveOK(Depth, scopes, paths)
  BY DEF BInv, Live
<1>2. /\ Depth \in Nat \ {0} /\ Depth = Len(scopes) /\ Top = scopes[Depth]
      /\ Top \in Level /\ Counted(Top)
  BY <1>1, IInvStack
<1> QED  BY <1>1, <1>2 DEF LiveOK

LEMMA LiveAdd ==
    ASSUME BInv, Live, phase = "sema", Follow, ~InSwitch, NEW s, IsStmt(s),
           NEW l \in Level, l.role = Top.role,
           l.tk # "not" => Top.tk # "not" \/ s.op \in Leaving,
           scopes' = [scopes EXCEPT ![Depth] = l], bodies' = Emplace(s),
           count' = count + 1, phase' = "sema"
    PROVE  Live'
<1>1. /\ IInv /\ HavePaths /\ LiveOK(Depth, scopes, paths)
      /\ Depth \in Nat \ {0} /\ Depth \in 1..Depth
      /\ Top = scopes[Depth] /\ Top \in Level /\ LiveAt(Top, paths[Depth])
  BY LiveNow
<1> DEFINE p == paths[Depth]
           q == AfterStmt(p, s)
<1>2. /\ HavePaths' /\ Depth' = Depth
      /\ \A i \in 1..Depth - 1 : paths'[i] = paths[i]
      /\ paths'[Depth] = q
  BY <1>1, FollowAdd
<1>3. p.ends = {}
  BY <1>1, NoSubScopes DEF LiveAt
<1>4. /\ q.now = IF s.op \in Leaving THEN {} ELSE {Effect(s, e) : e \in p.now}
      /\ q.ends = p.ends /\ IsPath(q)
      /\ q.jumps = p.jumps \cup IF s.op \in Jumping THEN {<<s.op, s.to, e>> : e \in p.now}
                                ELSE {}
  <2> DEFINE a == IF s.op \in Leaving THEN {} ELSE {Effect(s, e) : e \in p.now}
             b == IF s.op \in Jumping THEN {<<s.op, s.to, e>> : e \in p.now} ELSE {}
  <2>1. q = [p EXCEPT !.now = a, !.jumps = p.jumps \cup b]
    BY <1>1 DEF AfterStmt, LiveAt, IsPath
  <2>2. p = [now |-> p.now, ends |-> p.ends, jumps |-> p.jumps]
    BY <1>1 DEF LiveAt, IsPath
  <2> HIDE DEF a, b, q, p
  <2>3. q = [now |-> a, ends |-> p.ends, jumps |-> p.jumps \cup b]
    BY <2>1, <2>2
  <2> QED  BY <2>3 DEF a, b, IsPath
<1> HIDE DEF p, q
<1>5. p.now = {} => q.now = {}
  BY <1>4
<1>6. Met(q) => Met(p)
  BY <1>4, <1>5 DEF Met
<1>7. LiveAt(l, q)
  BY <1>1, <1>3, <1>4, <1>5 DEF LiveAt, p
<1> DEFINE t == [scopes EXCEPT ![Depth] = l]
<1>8. /\ \A i \in 1..Depth - 1 : t[i] = scopes[i]
      /\ t[Depth] = l
  BY <1>1, LevelsReplace
<1>9. scopes' = t
  OBVIOUS
<1> HIDE DEF t
<1>10. LiveOK(Depth, scopes', paths')
  <2>1. /\ \A i \in 1..Depth - 1 : scopes'[i] = scopes[i] /\ paths'[i] = paths[i]
        /\ scopes'[Depth] = l /\ paths'[Depth] = q
    BY ONLY <1>2, <1>8, <1>9
  <2>2. scopes'[Depth].role = scopes[Depth].role /\ LiveAt(scopes'[Depth], paths'[Depth])
        /\ (Met(paths'[Depth]) => Met(paths[Depth]))
    BY <1>1, <1>6, <1>7, <2>1 DEF p
  <2> QED  BY ONLY <1>1, <2>1, <2>2, LiveTop
<1> QED  BY <1>2, <1>10 DEF Live

\* A level is opened in the innermost one, which becomes p.
LEMMA LiveOpen ==
    ASSUME BInv, Live, phase = "sema", Follow, NEW p \in Level, p.role = Top.role,
           p.tk = Top.tk, p.nsub - p.nterm > Top.nsub - Top.nterm,
           NEW l \in Level, l.tk = "not", CountsFit(p, l.role),
           scopes' = Append([scopes EXCEPT ![Depth] = p], l), phase' = "sema"
    PROVE  Live'
<1>1. /\ IInv /\ HavePaths /\ LiveOK(Depth, scopes, paths)
      /\ Depth \in Nat \ {0} /\ Depth \in 1..Depth
      /\ Top = scopes[Depth] /\ Top \in Level /\ LiveAt(Top, paths[Depth])
  BY LiveNow
<1>2. /\ HavePaths' /\ Depth' = Depth + 1
      /\ \A i \in 1..Depth : paths'[i] = paths[i]
      /\ paths'[Depth + 1] = Path(paths[Depth].now)
  BY <1>1, FollowPush
<1>3. paths[Depth].ends # {} => p.nterm + 1 < p.nsub
  <2>1. p.nsub \in Nat /\ p.nterm \in Nat /\ Top.nsub \in Nat /\ Top.nterm \in Nat
    BY <1>1, LevelFields
  <2> QED  BY <1>1, <2>1 DEF LiveAt
<1>4. LiveAt(p, paths[Depth])
  <2>1. p.nterm \in Nat /\ p.nsub \in Nat
    BY LevelFields
  <2> QED  BY <1>1, <1>3, <2>1 DEF LiveAt
<1> DEFINE t == [scopes EXCEPT ![Depth] = p]
           u == Append(t, l)
<1>5. t[Depth] = p /\ \A i \in 1..Depth - 1 : t[i] = scopes[i]
  BY <1>1, LevelsReplace
<1>6. u[Depth] = p /\ u[Depth + 1] = l /\ \A i \in 1..Depth - 1 : u[i] = scopes[i]
  BY <1>1, LevelsPush
<1>7. scopes' = u
  OBVIOUS
<1> HIDE DEF t, u
<1>8. LiveOK(Depth, t, paths)
  BY ONLY <1>1, <1>4, <1>5, p.role = Top.role, LiveTop
<1>9. \A i \in 1..Depth : scopes'[i] = t[i] /\ paths'[i] = paths[i]
  <2>1. \A i \in 1..Depth : i = Depth \/ i \in 1..Depth - 1
    BY <1>1
  <2> QED  BY ONLY <1>2, <1>5, <1>6, <1>7, <2>1
<1>10. /\ scopes'[Depth + 1].tk = "not" /\ CountsFit(t[Depth], scopes'[Depth + 1].role)
       /\ paths[Depth].ends # {} => t[Depth].nterm + 1 < t[Depth].nsub
  BY <1>3, <1>5, <1>6, <1>7
<1>11. LiveOK(Depth + 1, scopes', paths')
  BY ONLY <1>1, <1>2, <1>8, <1>9, <1>10, LivePush
<1> QED  BY <1>2, <1>11 DEF Live

\* What is known when the innermost level is closed
LEMMA Closing ==
    ASSUME BInv, Live, phase = "sema", Top.role # "func", ~InSwitch
    PROVE  LET p == paths[Depth - 1]
               q == paths[Depth]
           IN /\ Joined = [now |-> p.now, ends |-> p.ends \cup Left,
                           jumps |-> p.jumps \cup LeftByJumps]
              /\ Left # {} => q.now # {}
              /\ LeftByJumps # {} => q.jumps # {}
              /\ Met(q) => p.now # {}
              /\ q.now # {} => ~IsTerminated(Top)
              /\ CountsFit(Parent, Top.role)
              /\ LiveAt(Parent, p)
              /\ p.ends # {} => Parent.nterm + 1 < Parent.nsub
              /\ Parent \in Level /\ HasOpen(Parent) /\ Parent = scopes[Depth - 1]
              /\ ParentAfter.tk = Parent.tk /\ ParentAfter.nsub = Parent.nsub
              /\ ParentAfter.nterm = Parent.nterm + IF IsTerminated(Top) THEN 1 ELSE 0
<1>1. /\ IInv /\ LiveOK(Depth, scopes, paths) /\ Depth \in Nat \ {0}
      /\ Top = scopes[Depth] /\ Top \in Level /\ LiveAt(Top, paths[Depth])
  BY LiveNow
<1>2. /\ Depth - 1 \in 1..Depth - 1 /\ Depth - 1 \in 1..Depth /\ (Depth - 1) + 1 = Depth
      /\ Parent = scopes[Depth - 1] /\ Parent \in Level /\ HasOpen(Parent)
  BY <1>1, HasParent
<1> DEFINE p == paths[Depth - 1]
           q == paths[Depth]
<1>3. LiveAt(Parent, p) /\ LiveUnder(Parent, p, Top, q)
  <2>1. \A i \in 1..Depth - 1 : LiveUnder(scopes[i], paths[i], scopes[i + 1], paths[i + 1])
    BY <1>1 DEF LiveOK
  <2>2. LiveUnder(scopes[Depth - 1], p, scopes[(Depth - 1) + 1], paths[(Depth - 1) + 1])
    BY <1>2, <2>1
  <2> QED  BY <1>1, <1>2, <2>2 DEF LiveOK
<1>4. Joined = [now |-> p.now, ends |-> p.ends \cup Left, jumps |-> p.jumps \cup LeftByJumps]
  <2>1. Joined = [p EXCEPT !.ends = p.ends \cup Left, !.jumps = p.jumps \cup LeftByJumps]
    BY DEF Joined
  <2>2. p = [now |-> p.now, ends |-> p.ends, jumps |-> p.jumps]
    BY <1>3 DEF LiveAt, IsPath
  <2> HIDE DEF p
  <2> QED  BY <2>1, <2>2
<1>5. (Left # {} => q.now # {}) /\ (LeftByJumps # {} => q.jumps # {})
  BY DEF Left, LeftByJumps
<1>6. /\ ParentAfter.tk = Parent.tk /\ ParentAfter.nsub = Parent.nsub
      /\ ParentAfter.nterm = Parent.nterm + IF IsTerminated(Top) THEN 1 ELSE 0
  <2>1. Parent.nterm \in Nat
    BY <1>2, LevelFields
  <2> QED  BY <1>2, <2>1 DEF ParentAfter, CountClosed, Level
<1>7. q.now # {} => ~IsTerminated(Top)
  BY <1>1, NoSubScopes DEF LiveAt
<1> QED  BY <1>2, <1>3, <1>4, <1>5, <1>6, <1>7 DEF LiveUnder

\* The innermost level is closed and the parent becomes p.
LEMMA LivePop ==
    ASSUME BInv, Live, phase = "sema", Follow, Top.role # "func", ~InSwitch,
           NEW p \in Level, p.role = Parent.role, LiveAt(p, Closed),
           scopes' = Append(SubSeq(scopes, 1, Depth - 2), p), phase' = "sema",
           Met(Closed) => Met(paths[Depth - 1])
    PROVE  Live'
<1>1. /\ IInv /\ HavePaths /\ LiveOK(Depth, scopes, paths) /\ Depth \in Nat \ {0}
  BY LiveNow
<1>2. /\ HavePaths' /\ Depth' = Depth - 1 /\ Depth - 1 \in Nat \ {0}
      /\ \A i \in 1..Depth - 2 : paths'[i] = paths[i]
      /\ paths'[Depth - 1] = Closed
  BY <1>1, FollowPop
<1> DEFINE t == Append(SubSeq(scopes, 1, Depth - 2), p)
<1>3. t[Depth - 1] = p /\ \A i \in 1..Depth - 2 : t[i] = scopes[i]
  BY <1>1, LevelsPop
<1>4. scopes' = t
  OBVIOUS
<1> HIDE DEF t
<1> DEFINE m == Depth - 1
<1>5. m \in 1..Depth /\ m - 1 = Depth - 2
  BY <1>1, <1>2
<1>6. /\ \A i \in 1..m - 1 : scopes'[i] = scopes[i] /\ paths'[i] = paths[i]
      /\ scopes'[m].role = scopes[m].role /\ LiveAt(scopes'[m], paths'[m])
      /\ Met(paths'[m]) => Met(paths[m])
  <2>1. p.role = scopes[m].role
    BY DEF Parent
  <2> QED  BY <1>2, <1>3, <1>4, <1>5, <2>1
<1>7. LiveOK(m, scopes', paths')
  <2> HIDE DEF m
  <2> QED  BY ONLY <1>1, <1>5, <1>6, LiveTop
<1> QED  BY <1>2, <1>7 DEF Live

\* It is closed and the statement's next block is opened.
LEMMA LivePopPush ==
    ASSUME BInv, Live, phase = "sema", Follow, Top.role # "func", ~InSwitch,
           NEW p \in Level, p.role = Parent.role, LiveAt(p, Joined),
           NEW l \in Level, l.tk = "not", CountsFit(p, l.role), count' = count,
           Joined.ends # {} => p.nterm + 1 < p.nsub,
           scopes' = Append(Append(SubSeq(scopes, 1, Depth - 2), p), l), phase' = "sema",
           Met(Joined) => Met(paths[Depth - 1]), Joined.now = paths[Depth - 1].now
    PROVE  Live'
<1>1. /\ IInv /\ HavePaths /\ LiveOK(Depth, scopes, paths) /\ Depth \in Nat \ {0}
  BY LiveNow
<1>2. /\ HavePaths' /\ Depth' = Depth /\ Depth - 1 \in Nat \ {0}
      /\ \A i \in 1..Depth - 2 : paths'[i] = paths[i]
      /\ paths'[Depth - 1] = Joined
      /\ paths'[Depth] = Path(paths[Depth - 1].now)
  BY <1>1, FollowPopPush
<1> DEFINE t == Append(SubSeq(scopes, 1, Depth - 2), p)
           u == Append(t, l)
           pa == Append(SubSeq(paths, 1, Depth - 2), Joined)
           m == Depth - 1
<1>3. t[m] = p /\ \A i \in 1..m - 1 : t[i] = scopes[i]
  <2>1. m - 1 = Depth - 2
    BY <1>1
  <2> QED  BY <1>1, <2>1, LevelsPop
<1>4. u[m] = p /\ u[m + 1] = l /\ \A i \in 1..m - 1 : u[i] = scopes[i]
  <2>1. m - 1 = Depth - 2 /\ m + 1 = Depth
    BY <1>1
  <2> QED  BY <1>1, <2>1, LevelsReopen
<1>5. scopes' = u
  OBVIOUS
<1> HIDE DEF t, u
<1>6. m \in 1..Depth /\ m \in Nat \ {0} /\ m - 1 = Depth - 2 /\ m + 1 = Depth
      /\ \A i \in 1..m : i = m \/ i \in 1..m - 1
  BY <1>1, <1>2
<1>7. paths'[m] = Joined /\ paths'[m + 1] = Path(paths'[m].now)
      /\ \A i \in 1..m - 1 : paths'[i] = paths[i]
  BY <1>2, <1>6
<1>8. LiveOK(m, t, paths')
  <2>1. t[m].role = scopes[m].role
    BY <1>3 DEF Parent
  <2>2. LiveAt(t[m], paths'[m]) /\ (Met(paths'[m]) => Met(paths[m]))
    BY <1>3, <1>7
  <2> HIDE DEF m
  <2> QED  BY ONLY <1>1, <1>3, <1>6, <1>7, <2>1, <2>2, LiveTop
<1>9. /\ \A i \in 1..m : scopes'[i] = t[i]
      /\ scopes'[m + 1].tk = "not" /\ CountsFit(t[m], scopes'[m + 1].role)
      /\ paths'[m].ends # {} => t[m].nterm + 1 < t[m].nsub
  <2> HIDE DEF m
  <2> QED  BY <1>3, <1>4, <1>5, <1>6, <1>7
<1>10. LiveOK(m + 1, scopes', paths')
  <2> HIDE DEF m
  <2> QED  BY ONLY <1>6, <1>7, <1>8, <1>9, LivePush
<1> QED  BY <1>2, <1>6, <1>10 DEF Live

-----------------------------------------------------------------------------
(* The ends of the statements *)

LEMMA EndKind ==
    ASSUME NEW l \in Level, NEW n
    PROVE  EndSubScopesAt(n, l).tk # "not" =>
               IsTerminated(l) /\ (l.tk # "not" \/ l.nsub = l.nterm)
<1> DEFINE kind == IF l.tk # "not" \/ ~IsTerminated(l) THEN l.tk
                   ELSE IF l.nterm = l.nlabel THEN "label"
                   ELSE IF l.nloop = 0 THEN "term"
                   ELSE IF InLoop(n) THEN "loop" ELSE "not"
<1>1. EndSubScopesAt(n, l) = [l EXCEPT !.tk = kind, !.nsub = 0, !.nterm = 0, !.nloop = 0]
  BY DEF EndSubScopesAt
<1> HIDE DEF kind
<1>2. EndSubScopesAt(n, l).tk = kind
  BY <1>1 DEF Level
<1> QED  BY <1>2 DEF kind, IsTerminated

LEMMA ByNothing ==
    ASSUME NEW jumps, NEW kind, NEW id, By(jumps, kind, id) # {}
    PROVE  jumps # {}
BY DEF By

LEMMA AfterKinds ==
    /\ Top.role \in {"then", "tryElse"} => AfterBlocks = Joined.now \cup Left
    /\ Top.role = "else" => AfterBlocks = Joined.ends
    /\ Top.role = "block" => AfterBlocks = Left
    /\ Top.role \in LoopRoles =>
          AfterBlocks = Joined.now \cup By(Joined.jumps, "break", Top.id)
    /\ Top.role = "forElse" => AfterBlocks = Left \cup By(Joined.jumps, "break", Top.id)
    /\ Top.role = "blockExpr" => AfterBlocks = By(LeftByJumps, "labeledReturn", Top.id)
    /\ Top.role = "defer" => AfterBlocks = Joined.now
BY DEF AfterBlocks, LoopRoles

\* A statement ends, and the parent becomes p.
LEMMA LiveEnds ==
    ASSUME BInv, Live, phase = "sema", Follow, ~InSwitch, Top.role \notin {"func", "case"},
           NEW p \in Level, p.role = Parent.role, NEW subs, Close(p, subs),
           p.tk # "not" => AfterBlocks = {}
    PROVE  Live'
<1> DEFINE r == paths[Depth - 1]
           q == paths[Depth]
<1>1. /\ Joined = [now |-> r.now, ends |-> r.ends \cup Left,
                   jumps |-> r.jumps \cup LeftByJumps]
      /\ Left # {} => q.now # {}
      /\ LeftByJumps # {} => q.jumps # {}
      /\ Met(q) => r.now # {}
      /\ CountsFit(Parent, Top.role)
  BY Closing
<1>2. Closed = [now |-> AfterBlocks, ends |-> {}, jumps |-> r.jumps \cup LeftByJumps]
  <2> HIDE DEF r, q
  <2>1. Closed = [Joined EXCEPT !.now = AfterBlocks, !.ends = {}]
    BY DEF Closed
  <2> QED  BY <1>1, <2>1
<1>3. /\ Joined.now = r.now /\ Joined.ends = r.ends \cup Left
      /\ Joined.jumps = r.jumps \cup LeftByJumps
  BY <1>1
<1> HIDE DEF r, q
<1>4. Left # {} \/ LeftByJumps # {} => Met(r)
  BY <1>1 DEF Met
<1>5. AfterBlocks # {} => Met(r)
  <2> SUFFICES ASSUME AfterBlocks # {}, ~Met(r)
               PROVE  FALSE
    OBVIOUS
  <2>1. /\ r.now = {} /\ r.ends = {} /\ r.jumps = {} /\ Left = {} /\ LeftByJumps = {}
        /\ Joined.jumps = {}
    BY <1>3, <1>4 DEF Met
  <2>2. \A kind, id : By(Joined.jumps, kind, id) = {} /\ By(LeftByJumps, kind, id) = {}
    BY <2>1, ByNothing
  <2>3. Top.role \in {"then", "tryElse", "else", "block", "while", "for", "forElse",
                      "blockExpr", "defer"}
    BY <1>1 DEF CountsFit
  <2>4. AfterBlocks = {}
    BY <1>3, <2>1, <2>2, <2>3, AfterKinds DEF LoopRoles
  <2> QED  BY <2>4
<1>6. LiveAt(p, Closed)
  BY <1>2 DEF LiveAt, IsPath
<1>7. Met(Closed) => Met(paths[Depth - 1])
  BY <1>2, <1>4, <1>5 DEF Met, r
<1>8. scopes' = Append(SubSeq(scopes, 1, Depth - 2), p) /\ phase' = "sema"
  BY DEF Close
<1> QED  BY <1>6, <1>7, <1>8, LivePop

\* A block of statement kinds that end with it
LEMMA LiveCloseLevel ==
    ASSUME BInv, Live, phase = "sema", Follow, ~InSwitch,
           Top.role \notin {"func", "case"}, NEW subs, NEW l,
           \/ Top.role = "then" /\ l = AddSubScope(ParentAfter)
           \/ Top.role = "blockExpr" /\ l = CountClosedLabel(Parent, Top)
           \/ Top.role \notin {"then", "blockExpr"} /\ l = ParentAfter,
           Top.role \in {"while", "for", "forElse"} => ~IsTerminated(EndSubScopes(ParentAfter)),
           Top.role = "defer" => ~IsTerminated(Top),
           Close(EndSubScopes(l), subs)
    PROVE  Live'
<1> DEFINE r == paths[Depth - 1]
           q == paths[Depth]
           p == EndSubScopes(l)
<1>1. /\ Joined = [now |-> r.now, ends |-> r.ends \cup Left,
                   jumps |-> r.jumps \cup LeftByJumps]
      /\ Left # {} => q.now # {}
      /\ LeftByJumps # {} => q.jumps # {}
      /\ Met(q) => r.now # {}
      /\ q.now # {} => ~IsTerminated(Top)
      /\ CountsFit(Parent, Top.role)
      /\ LiveAt(Parent, r)
      /\ r.ends # {} => Parent.nterm + 1 < Parent.nsub
      /\ Parent \in Level /\ HasOpen(Parent)
      /\ ParentAfter.tk = Parent.tk /\ ParentAfter.nsub = Parent.nsub
      /\ ParentAfter.nterm = Parent.nterm + IF IsTerminated(Top) THEN 1 ELSE 0
  BY Closing
<1>2. Joined.now = r.now /\ Joined.ends = r.ends \cup Left
  BY <1>1
<1>3. IInv /\ Top \in Level
  BY LiveNow
<1>4. l \in Level /\ p \in Level /\ p.role = Parent.role
  <2>1. CASE Top.role # "blockExpr"
    BY <1>3, <2>1, ParentCounted
  <2>2. CASE Top.role = "blockExpr"
    <3>1. l \in Level /\ l.role = Parent.role
      BY <1>1, <1>3, <2>2, CountClosedLabelOK
    <3> QED  BY <3>1, EndSubScopesAtOK DEF EndSubScopes
  <2> QED  BY <2>1, <2>2
<1>5. Parent.nsub \in Nat /\ Parent.nterm \in Nat /\ Parent.nterm < Parent.nsub
  BY <1>1, LevelFields DEF HasOpen
<1>6. /\ Left # {} => r.now # {} /\ ~IsTerminated(Top)
      /\ LeftByJumps # {} => r.now # {}
  BY <1>1 DEF Met
<1>7. p.tk # "not" => l.tk # "not" \/ l.nsub = l.nterm
  BY <1>4, EndKind DEF EndSubScopes
<1>8. Parent.tk # "not" => r.now = {} /\ r.ends = {}
  BY <1>1 DEF LiveAt
<1>9. p.tk # "not" => AfterBlocks = {}
  <2> HIDE DEF r, q, p
  <2> SUFFICES ASSUME p.tk # "not"
               PROVE  AfterBlocks = {}
    OBVIOUS
  <2>1. CASE Top.role = "then"
    <3>1. l.nsub = Parent.nsub + 1 /\ l.nterm = ParentAfter.nterm /\ l.tk = Parent.tk
      <4>1. ParentAfter \in Level
        BY <1>3, ParentCounted
      <4> QED  BY <1>1, <2>1, <4>1 DEF AddSubScope, Level
    <3>2. l.nterm <= 1 /\ l.nsub = 2
      BY <1>1, <2>1, <3>1 DEF CountsFit
    <3>3. Parent.tk # "not"
      BY <1>1, <1>7, <3>1, <3>2
    <3> QED  BY <1>2, <1>6, <1>8, <2>1, <3>3, AfterKinds
  <2>2. CASE Top.role = "blockExpr"
    <3>1. l.nterm <= 1 /\ l.nsub = 2 /\ l.tk = Parent.tk
      BY <1>1, <1>5, <2>2 DEF CountClosedLabel, Level, CountsFit
    <3>2. Parent.tk # "not"
      BY <1>7, <3>1
    <3>3. LeftByJumps = {}
      BY <1>6, <1>8, <3>2
    <3> QED  BY <2>2, <3>3, ByNothing, AfterKinds
  <2>3. CASE Top.role = "tryElse"
    <3>1. l.nterm <= 1 /\ l.nsub = 2 /\ l.tk = Parent.tk
      BY <1>1, <2>3 DEF CountsFit
    <3>2. Parent.tk # "not"
      BY <1>7, <3>1
    <3> QED  BY <1>2, <1>6, <1>8, <2>3, <3>2, AfterKinds
  <2>4. CASE Top.role = "else"
    <3>1. Parent.tk # "not" \/ Parent.nsub = ParentAfter.nterm
      BY <1>1, <1>7, <2>4
    <3>2. CASE Parent.tk # "not"
      BY <1>2, <1>6, <1>8, <2>4, <3>2, AfterKinds
    <3>3. CASE Parent.nsub = ParentAfter.nterm
      <4>1. IsTerminated(Top) /\ ~(Parent.nterm + 1 < Parent.nsub)
        BY <1>1, <1>5, <3>3
      <4>2. r.ends = {} /\ Left = {}
        BY <1>1, <1>6, <4>1
      <4> QED  BY <1>2, <2>4, <4>2, AfterKinds
    <3> QED  BY <3>1, <3>2, <3>3
  <2>5. CASE Top.role = "block"
    <3>1. Parent.tk # "not" \/ IsTerminated(Top)
      BY <1>1, <1>5, <1>7, <2>5
    <3>2. Left = {}
      BY <1>6, <1>8, <3>1
    <3> QED  BY <2>5, <3>2, AfterKinds
  <2>6. CASE Top.role = "defer"
    <3>1. ParentAfter.nterm = 0 /\ Parent.nsub = 1
      BY <1>1, <2>6 DEF CountsFit
    <3>2. Parent.tk # "not"
      BY <1>1, <1>7, <2>6, <3>1
    <3> QED  BY <1>2, <1>8, <2>6, <3>2, AfterKinds
  <2>7. CASE Top.role \in {"while", "for", "forElse"}
    <3>1. p = EndSubScopes(ParentAfter)
      BY <2>7 DEF p
    <3> QED  BY <2>7, <3>1 DEF IsTerminated
  <2>8. Top.role \in {"then", "tryElse", "else", "block", "while", "for", "forElse",
                      "blockExpr", "defer"}
    BY <1>1 DEF CountsFit
  <2> QED  BY <2>1, <2>2, <2>3, <2>4, <2>5, <2>6, <2>7, <2>8
<1> HIDE DEF p
<1>10. Close(p, subs)
  BY DEF p
<1> QED  BY <1>4, <1>9, <1>10, LiveEnds

LEMMA LiveEndCase ==
    ASSUME BInv, Live, phase = "sema", Follow, ~InSwitch, Top.role = "case", NEW subs,
           Close(ParentAfter, subs)
    PROVE  Live'
<1> DEFINE r == paths[Depth - 1]
           q == paths[Depth]
           p == ParentAfter
<1>1. /\ Joined = [now |-> r.now, ends |-> r.ends \cup Left,
                   jumps |-> r.jumps \cup LeftByJumps]
      /\ Left # {} => q.now # {}
      /\ LeftByJumps # {} => q.jumps # {}
      /\ Met(q) => r.now # {}
      /\ q.now # {} => ~IsTerminated(Top)
      /\ LiveAt(Parent, r)
      /\ r.ends # {} => Parent.nterm + 1 < Parent.nsub
      /\ Parent \in Level /\ HasOpen(Parent)
      /\ p.tk = Parent.tk /\ p.nsub = Parent.nsub
      /\ p.nterm = Parent.nterm + IF IsTerminated(Top) THEN 1 ELSE 0
  BY Closing
<1>2. IInv /\ p \in Level /\ p.role = Parent.role
  BY LiveNow, ParentCounted
<1>3. Parent.nsub \in Nat /\ Parent.nterm \in Nat /\ Parent.nterm < Parent.nsub
  BY <1>1, LevelFields DEF HasOpen
<1>4. Closed = [now |-> r.now, ends |-> r.ends \cup Left, jumps |-> r.jumps \cup LeftByJumps]
  BY <1>1 DEF Closed
<1>5. Left # {} => r.now # {} /\ ~IsTerminated(Top)
  BY <1>1 DEF Met
<1> HIDE DEF r, q, p
<1>6. LiveAt(p, Closed)
  <2>1. IsPath(Closed)
    BY <1>4 DEF IsPath
  <2>2. p.tk # "not" => Closed.now = {}
    BY <1>1, <1>4 DEF LiveAt
  <2>3. ASSUME Closed.ends # {}
        PROVE  Closed.now # {} /\ p.nterm < p.nsub
    <3>1. CASE r.ends # {}
      BY <1>1, <1>3, <1>4, <3>1 DEF LiveAt
    <3>2. CASE Left # {}
      BY <1>1, <1>3, <1>4, <1>5, <3>2
    <3> QED  BY <1>4, <2>3, <3>1, <3>2
  <2> QED  BY <2>1, <2>2, <2>3 DEF LiveAt
<1>7. Met(Closed) => Met(paths[Depth - 1])
  BY <1>1, <1>4, <1>5 DEF Met, r
<1>8. scopes' = Append(SubSeq(scopes, 1, Depth - 2), p) /\ phase' = "sema"
  BY DEF Close, p
<1> QED  BY <1>2, <1>6, <1>7, <1>8, LivePop

\* The next block of an if or for statement
LEMMA LiveReopen ==
    ASSUME BInv, Live, phase = "sema", Follow, ~InSwitch, NEW role,
           \/ Top.role = "then" /\ role = "else"
           \/ Top.role = "for" /\ role = "forElse",
           Reopen(role), CountAsserted(Parent, Top)
    PROVE  Live'
<1> DEFINE r == paths[Depth - 1]
           q == paths[Depth]
           p == AddSubScope(ParentAfter)
           l == NewLevel(role, Top.id)
<1>1. /\ Joined = [now |-> r.now, ends |-> r.ends \cup Left,
                   jumps |-> r.jumps \cup LeftByJumps]
      /\ Left # {} => q.now # {}
      /\ LeftByJumps # {} => q.jumps # {}
      /\ Met(q) => r.now # {}
      /\ q.now # {} => ~IsTerminated(Top)
      /\ CountsFit(Parent, Top.role)
      /\ LiveAt(Parent, r)
      /\ r.ends # {} => Parent.nterm + 1 < Parent.nsub
      /\ Parent \in Level /\ HasOpen(Parent)
      /\ ParentAfter.tk = Parent.tk /\ ParentAfter.nsub = Parent.nsub
      /\ ParentAfter.nterm = Parent.nterm + IF IsTerminated(Top) THEN 1 ELSE 0
  BY Closing
<1>2. IInv /\ p \in Level /\ p.role = Parent.role /\ ParentAfter \in Level /\ Top \in Level
  BY LiveNow, ParentCounted
<1>3. Parent.nsub = 1 /\ Parent.nterm = 0
  BY <1>1 DEF CountsFit
<1>4. p.nsub = 2 /\ p.nterm = (IF IsTerminated(Top) THEN 1 ELSE 0) /\ p.tk = Parent.tk
  BY <1>1, <1>2, <1>3 DEF AddSubScope, Level
<1>5. Left # {} => r.now # {} /\ ~IsTerminated(Top)
  BY <1>1 DEF Met
<1>6. l \in Level /\ l.tk = "not" /\ l.role = role
  <2>1. Top.id \in Nat /\ role \in Roles
    BY <1>2, LevelFields DEF Roles
  <2> QED  BY <2>1, NewLevelOK DEF NewLevel
<1>7. /\ scopes' = Append(Append(SubSeq(scopes, 1, Depth - 2), p), l)
      /\ phase' = "sema" /\ count' = count
  BY DEF Reopen
<1> HIDE DEF r, q, p, l
<1>8. CountsFit(p, l.role)
  BY <1>4, <1>6 DEF CountsFit
<1>9. Joined.ends # {} => p.nterm + 1 < p.nsub
  BY <1>1, <1>3, <1>4, <1>5
<1>10. LiveAt(p, Joined)
  BY <1>1, <1>3, <1>4, <1>5 DEF LiveAt, IsPath
<1>11. (Met(Joined) => Met(paths[Depth - 1])) /\ Joined.now = paths[Depth - 1].now
  BY <1>1, <1>5 DEF Met, r
<1> QED  BY <1>2, <1>6, <1>7, <1>8, <1>9, <1>10, <1>11, LivePopPush

LEMMA LiveEndSwitch ==
    ASSUME BInv, Live, phase = "sema", Follow, NoneMistaken, EndSwitch
    PROVE  Live'
<1>1. /\ IInv /\ HavePaths /\ LiveOK(Depth, scopes, paths)
      /\ Depth \in Nat \ {0} /\ Depth \in 1..Depth
      /\ Top = scopes[Depth] /\ Top \in Level /\ LiveAt(Top, paths[Depth])
  BY LiveNow
<1> DEFINE l == EndSubScopesAt(Depth, Top)
           p == paths[Depth]
           q == [p EXCEPT !.now = p.ends \cup Skipped, !.ends = {}]
<1>2. /\ HavePaths' /\ Depth' = Depth /\ phase' = "sema"
      /\ \A i \in 1..Depth - 1 : paths'[i] = paths[i]
      /\ paths'[Depth] = q
  BY <1>1, FollowSwitch
<1>3. l \in Level /\ l.role = Top.role /\ scopes' = [scopes EXCEPT ![Depth] = l]
  BY <1>1, EndSubScopesAtOK DEF EndSwitch
<1>4. l.tk # "not" => IsTerminated(Top) /\ (Top.tk # "not" \/ Top.nsub = Top.nterm)
  BY <1>1, EndKind
<1>5. l.tk # "not" => Last(bodies[Depth]).form # "partial"
  <2>1. CornerOK("partialSwitch", Last(bodies[Depth]).form = "partial" /\ IsTerminated(l))
    BY DEF EndSwitch
  <2>2. "partialSwitch" \notin Corners
    BY DEF NoneMistaken
  <2> HIDE DEF l
  <2> QED  BY <2>1, <2>2 DEF CornerOK, IsTerminated
<1>6. q = [now |-> p.ends \cup Skipped, ends |-> {}, jumps |-> p.jumps]
  <2>1. p = [now |-> p.now, ends |-> p.ends, jumps |-> p.jumps]
    BY <1>1 DEF LiveAt, IsPath
  <2> DEFINE a == p.ends \cup Skipped
  <2>2. q = [p EXCEPT !.now = a, !.ends = {}]
    OBVIOUS
  <2> HIDE DEF a, p, q
  <2>3. q = [now |-> a, ends |-> {}, jumps |-> p.jumps]
    BY <2>1, <2>2
  <2> QED  BY <2>3 DEF a
<1>7. Skipped # {} => p.now # {} /\ Last(bodies[Depth]).form = "partial"
  BY DEF Skipped
<1>8. Top.nsub \in Nat /\ Top.nterm \in Nat
  BY <1>1, LevelFields
<1> HIDE DEF l, p, q
<1>9. LiveAt(l, q)
  <2>1. p.ends # {} => p.now # {} /\ Top.nterm < Top.nsub
    BY <1>1 DEF LiveAt, p
  <2>2. Top.tk # "not" => p.now = {}
    BY <1>1 DEF LiveAt, p
  <2>3. l.tk # "not" => p.ends = {} /\ Skipped = {}
    BY <1>4, <1>5, <1>7, <1>8, <2>1, <2>2
  <2> QED  BY <1>6, <2>3 DEF LiveAt, IsPath
<1>10. Met(q) => Met(p)
  BY <1>6, <1>7 DEF Met
<1> DEFINE t == [scopes EXCEPT ![Depth] = l]
<1>11. t[Depth] = l /\ \A i \in 1..Depth - 1 : t[i] = scopes[i]
  BY <1>1, <1>3, LevelsReplace
<1>12. scopes' = t
  BY <1>3
<1> HIDE DEF t
<1>13. LiveOK(Depth, scopes', paths')
  <2>1. /\ \A i \in 1..Depth - 1 : scopes'[i] = scopes[i] /\ paths'[i] = paths[i]
        /\ scopes'[Depth] = l /\ paths'[Depth] = q
    BY ONLY <1>2, <1>11, <1>12
  <2>2. scopes'[Depth].role = scopes[Depth].role /\ LiveAt(scopes'[Depth], paths'[Depth])
        /\ (Met(paths'[Depth]) => Met(paths[Depth]))
    BY <1>1, <1>3, <1>9, <1>10, <2>1 DEF p
  <2> QED  BY ONLY <1>1, <2>1, <2>2, LiveTop
<1> QED  BY <1>2, <1>13 DEF Live

\* A function whose innermost block is its own has no other.
LEMMA LiveFunc ==
    ASSUME BInv, Live, phase = "sema", Top.role = "func"
    PROVE  Depth = 1
<1>1. /\ LiveOK(Depth, scopes, paths) /\ Depth \in Nat \ {0} /\ Top = scopes[Depth]
  BY LiveNow
<1> SUFFICES ASSUME Depth # 1
             PROVE  FALSE
  OBVIOUS
<1>2. Depth - 1 \in 1..Depth - 1 /\ (Depth - 1) + 1 = Depth
  BY <1>1
<1>3. LiveUnder(scopes[Depth - 1], paths[Depth - 1], scopes[Depth], paths[Depth])
  <2>1. \A i \in 1..Depth - 1 : LiveUnder(scopes[i], paths[i], scopes[i + 1], paths[i + 1])
    BY <1>1 DEF LiveOK
  <2> QED  BY <1>2, <2>1
<1> QED  BY <1>1, <1>3 DEF LiveUnder, CountsFit

\* The statements that open no level
LEMMA LiveStatements ==
    ASSUME BInv, Live, phase = "sema", Follow,
           \/ Call \/ Var \/ Return \/ Error \/ Unreachable
           \/ Break \/ Continue \/ LabeledReturn \/ BeginSwitch
    PROVE  Live'
<1> USE DEF CanAdd
<1>1. IInv /\ Top \in Level /\ Top = scopes[Depth]
  BY LiveNow
<1>2. \A kind \in TerminatedKinds :
          /\ SetTerminated(Top, kind) \in Level
          /\ SetTerminated(Top, kind).role = Top.role
  BY <1>1, LevelFields DEF SetTerminated, Level
<1>3. \A op, form, to : IsStmt(Stmt(op, form, to)) /\ Stmt(op, form, to).op = op
  BY DEF Stmt, IsStmt
<1>4. \A how : how # "sema" /\ Stop(how) => Live'
  BY DEF Stop, Live
<1>5. ASSUME ~InSwitch, NEW op, NEW form, NEW to, NEW l \in Level, l.role = Top.role,
             l = Top \/ op \in Leaving, Add(Stmt(op, form, to), l)
      PROVE  Live'
  <2> DEFINE s == Stmt(op, form, to)
  <2>1. IsStmt(s) /\ s.op = op
    BY <1>3
  <2>2. /\ scopes' = [scopes EXCEPT ![Depth] = l] /\ bodies' = Emplace(s)
        /\ count' = count + 1 /\ phase' = "sema"
    BY <1>5 DEF Add
  <2> HIDE DEF s
  <2> QED  BY <1>5, <2>1, <2>2, LiveAdd
<1>6. CASE Call
  <2>1. ~InSwitch /\ Add(Stmt("call", "", 0), Top)
    BY <1>6 DEF Call
  <2> QED  BY <1>1, <1>5, <2>1
<1>7. CASE Var
  <2>1. ~InSwitch /\ Add(Stmt("var", "", 0), Top)
    BY <1>7 DEF Var, LocalVar
  <2> QED  BY <1>1, <1>5, <2>1
<1>8. CASE Return \/ Error \/ Unreachable
  <2>1. /\ ~InSwitch
        /\ \/ Stop("rejected")
           \/ \E op \in {"return", "error", "unreachable"} :
                 Add(Stmt(op, "", 0), SetTerminated(Top, "term"))
    BY <1>8 DEF Return, Error, Unreachable
  <2> QED  BY <1>2, <1>4, <1>5, <2>1 DEF Leaving, TerminatedKinds
<1>9. CASE Break \/ Continue
  <2>1. /\ ~InSwitch
        /\ \/ Stop("rejected")
           \/ \E op \in {"break", "continue"} : \E form, to :
                 Add(Stmt(op, form, to), SetTerminated(Top, "loop"))
    BY <1>9 DEF Break, Continue, LoopJump
  <2> QED  BY <1>2, <1>4, <1>5, <2>1 DEF Leaving, Jumping, TerminatedKinds
<1>10. CASE LabeledReturn
  <2>1. /\ ~InSwitch
        /\ \E to : Add(Stmt("labeledReturn", "", to), SetTerminated(Top, "label"))
    BY <1>10 DEF LabeledReturn
  <2> QED  BY <1>2, <1>5, <2>1 DEF Leaving, Jumping, TerminatedKinds
<1>11. CASE BeginSwitch
  <2>1. PICK form : bodies' = Emplace(Stmt("switch", form, 0))
    BY <1>11 DEF BeginSwitch
  <2> DEFINE s == Stmt("switch", form, 0)
  <2>2. IsStmt(s)
    BY <1>3
  <2>3. /\ bodies' = Emplace(s) /\ count' = count + 1 /\ scopes' = scopes /\ ~InSwitch
        /\ phase' = "sema"
    BY <1>11, <2>1 DEF BeginSwitch
  <2>4. scopes = [scopes EXCEPT ![Depth] = Top]
    <3>1. scopes \in Seq(Level)
      BY <1>1 DEF IInv, LevelsOK
    <3> QED  BY <3>1 DEF Top
  <2> HIDE DEF s
  <2> QED  BY <1>1, <2>2, <2>3, <2>4, LiveAdd
<1> QED  BY <1>6, <1>7, <1>8, <1>9, <1>10, <1>11

\* The statements that open one
LEMMA LiveOpens ==
    ASSUME BInv, Live, phase = "sema", Follow,
           \/ BeginCond \/ BeginWhile \/ BeginFor \/ BeginCase \/ TryElseBegin
           \/ BeginDefer \/ BeginStmtBlock \/ BeginExprBlock
    PROVE  Live'
<1> USE DEF CanAdd, CanOpen
<1> DEFINE a == AddSubScope(Top)
           aa == AddSubScope(a)
<1>1. IInv /\ CountOK /\ Top \in Level
  BY LiveNow DEF BInv
<1>2. Top.nsub \in Nat /\ Top.nterm \in Nat
  BY <1>1, LevelFields
<1>3. /\ a \in Level /\ a.role = Top.role /\ a.tk = Top.tk
      /\ a.nsub = Top.nsub + 1 /\ a.nterm = Top.nterm
  BY <1>1, <1>2 DEF AddSubScope, Level
<1> HIDE DEF a
<1>4. /\ aa \in Level /\ aa.role = Top.role /\ aa.tk = Top.tk
      /\ aa.nsub = Top.nsub + 2 /\ aa.nterm = Top.nterm
  BY <1>2, <1>3 DEF AddSubScope, Level
<1> HIDE DEF aa
<1>5. a.nsub - a.nterm > Top.nsub - Top.nterm /\ aa.nsub - aa.nterm > Top.nsub - Top.nterm
  BY <1>2, <1>3, <1>4
<1>6. \A role \in Roles, id \in Nat :
          /\ NewLevel(role, id) \in Level /\ NewLevel(role, id).tk = "not"
          /\ NewLevel(role, id).role = role
  BY NewLevelOK DEF NewLevel
<1>7. ASSUME ~InSwitch, NEW op, NEW form, NEW subs, NEW role \in Roles, NEW p,
             \/ p = a /\ role \in {"then", "while", "for", "defer", "block"}
             \/ p = aa /\ role \in {"tryElse", "blockExpr"},
             Open(Stmt(op, form, 0), p, role, subs)
      PROVE  Live'
  <2> DEFINE l == NewLevel(role, count + 1)
  <2>1. l \in Level /\ l.tk = "not" /\ l.role = role
    BY <1>1, <1>6 DEF CountOK
  <2>2. scopes' = Append([scopes EXCEPT ![Depth] = p], l) /\ phase' = "sema"
    BY <1>7 DEF Open, Stmt
  <2> HIDE DEF l
  <2>3. Top.nsub = 0 /\ Top.nterm = 0
    BY <1>7, NoSubScopes
  <2>4. CountsFit(p, l.role)
    BY <1>3, <1>4, <1>7, <2>1, <2>3 DEF CountsFit
  <2>5. /\ p \in Level /\ p.role = Top.role /\ p.tk = Top.tk
        /\ p.nsub - p.nterm > Top.nsub - Top.nterm
    BY <1>3, <1>4, <1>5, <1>7
  <2> QED  BY <2>1, <2>2, <2>4, <2>5, LiveOpen
<1>8. {"then", "while", "for", "defer", "block", "tryElse", "blockExpr", "case"} \subseteq Roles
  BY DEF Roles, LoopRoles
<1>9. CASE BeginCond \/ BeginWhile \/ BeginFor \/ BeginStmtBlock
  <2>1. ~InSwitch /\ \E op, subs : \E role \in {"then", "while", "for", "block"} :
            Open(Stmt(op, "", 0), a, role, subs)
    BY <1>9 DEF BeginCond, BeginWhile, BeginFor, BeginStmtBlock, a
  <2> QED  BY <1>7, <1>8, <2>1
<1>10. CASE BeginDefer
  <2>1. ~InSwitch /\ \E form : Open(Stmt("defer", form, 0), a, "defer", subscopes)
    BY <1>10 DEF BeginDefer, a
  <2> QED  BY <1>7, <1>8, <2>1
<1>11. CASE TryElseBegin \/ BeginExprBlock
  <2>1. ~InSwitch /\ \E op : \E role \in {"tryElse", "blockExpr"} :
            Open(Stmt(op, "", 0), aa, role, subscopes)
    BY <1>11 DEF TryElseBegin, BeginExprBlock, a, aa
  <2> QED  BY <1>7, <1>8, <2>1
<1>12. CASE BeginCase
  <2> DEFINE l == NewLevel("case", 0)
  <2>1. l \in Level /\ l.tk = "not" /\ l.role = "case"
    BY <1>6, <1>8
  <2>2. scopes' = Append([scopes EXCEPT ![Depth] = a], l) /\ phase' = "sema"
    BY <1>12 DEF BeginCase, a
  <2> HIDE DEF l
  <2>3. CountsFit(a, l.role)
    BY <2>1 DEF CountsFit
  <2> QED  BY <1>3, <1>5, <2>1, <2>2, <2>3, LiveOpen
<1> QED  BY <1>9, <1>10, <1>11, <1>12

\* The statements that close one
LEMMA LiveCloses ==
    ASSUME BInv, Live, phase = "sema", Follow, NoneMistaken,
           \/ CondNoElse \/ CondElse \/ EndCond \/ EndWhile \/ EndFor \/ EndForHasElse
           \/ EndForElse \/ EndCase \/ TryElseEnd \/ EndDefer \/ EndStmtBlock
           \/ EndExprBlock
    PROVE  Live'
<1> USE DEF CanClose
<1>1. \A how : how # "sema" /\ Stop(how) => Live'
  BY DEF Stop, Live
<1>2. CASE CondElse \/ EndForHasElse
  <2>1. ~InSwitch /\ \E role : /\ \/ Top.role = "then" /\ role = "else"
                                  \/ Top.role = "for" /\ role = "forElse"
                               /\ Reopen(role)
    BY <1>2 DEF CondElse, EndForHasElse
  <2>2. CASE CountAsserted(Parent, Top)
    BY <2>1, <2>2, LiveReopen
  <2>3. CASE ~CountAsserted(Parent, Top)
    BY <1>1, <2>1, <2>3 DEF Reopen
  <2> QED  BY <2>2, <2>3
<1>3. ASSUME ~InSwitch, Top.role \notin {"func", "case"}, NEW subs, NEW l,
             \/ Top.role = "then" /\ l = AddSubScope(ParentAfter)
             \/ Top.role \notin {"then", "blockExpr"} /\ l = ParentAfter,
             Top.role \in {"while", "for", "forElse"} =>
                 ~IsTerminated(EndSubScopes(ParentAfter)),
             Top.role = "defer" => ~IsTerminated(Top),
             CloseWith(EndSubScopes(l), subs)
      PROVE  Live'
  <2>1. Close(EndSubScopes(l), subs) \/ Stop("crashed")
    BY <1>3 DEF CloseWith
  <2>2. CASE Close(EndSubScopes(l), subs)
    BY <1>3, <2>2, LiveCloseLevel
  <2> QED  BY <1>1, <2>1, <2>2
<1>4. CASE CondNoElse
  <2>1. /\ ~InSwitch /\ Top.role = "then"
        /\ CloseWith(EndSubScopes(AddSubScope(ParentAfter)), Front(subscopes))
    BY <1>4 DEF CondNoElse
  <2> QED  BY <1>3, <2>1
<1>5. CASE EndWhile \/ EndFor \/ EndForElse
  <2>1. /\ ~InSwitch /\ Top.role \in {"while", "for", "forElse"}
        /\ CornerOK("loopEndsParent", EndsParent)
        /\ \E subs : CloseWith(EndSubScopes(ParentAfter), subs)
    BY <1>5 DEF EndWhile, EndFor, EndForElse
  <2>2. ~IsTerminated(EndSubScopes(ParentAfter))
    BY <2>1 DEF NoneMistaken, CornerOK, EndsParent
  <2> QED  BY <1>3, <2>1, <2>2
<1>6. CASE EndDefer
  <2>1. /\ ~InSwitch /\ Top.role = "defer"
        /\ CornerOK("terminatedDefer", IsTerminated(Top))
        /\ CloseWith(EndSubScopes(ParentAfter), subscopes)
    BY <1>6 DEF EndDefer
  <2>2. ~IsTerminated(Top)
    BY <2>1 DEF NoneMistaken, CornerOK
  <2> QED  BY <1>3, <2>1, <2>2
<1>7. CASE EndCond \/ TryElseEnd \/ EndStmtBlock
  <2>1. /\ ~InSwitch /\ Top.role \in {"else", "tryElse", "block"}
        /\ \E subs : CloseWith(EndSubScopes(ParentAfter), subs)
    BY <1>7 DEF EndCond, TryElseEnd, EndStmtBlock
  <2> QED  BY <1>3, <2>1
<1>8. CASE EndExprBlock
  <2> DEFINE l == CountClosedLabel(Parent, Top)
  <2>1. /\ ~InSwitch /\ Top.role = "blockExpr"
        /\ Stop("rejected") \/ Close(EndSubScopes(l), subscopes)
    BY <1>8 DEF EndExprBlock
  <2>2. l = CountClosedLabel(Parent, Top)
    OBVIOUS
  <2> HIDE DEF l
  <2>3. CASE Close(EndSubScopes(l), subscopes)
    BY <2>1, <2>2, <2>3, LiveCloseLevel
  <2> QED  BY <1>1, <2>1, <2>3
<1>9. CASE EndCase
  <2>1. ~InSwitch /\ Top.role = "case" /\ CloseWith(ParentAfter, subscopes)
    BY <1>9 DEF EndCase
  <2>2. CASE Close(ParentAfter, subscopes)
    BY <2>1, <2>2, LiveEndCase
  <2> QED  BY <1>1, <2>1, <2>2 DEF CloseWith
<1> QED  BY <1>2, <1>4, <1>5, <1>6, <1>7, <1>8, <1>9

LEMMA InSema ==
    ASSUME Instruction
    PROVE  phase = "sema"
BY DEF CanAdd, CanOpen, CanClose, Instruction, Call, Var, LocalVar, Return, Error,
   Unreachable, Break, Continue, LabeledReturn, BeginCond, CondNoElse, CondElse, EndCond,
   BeginWhile, EndWhile, BeginFor, EndFor, EndForHasElse, EndForElse, BeginSwitch,
   BeginCase, EndCase, EndSwitch, TryElseBegin, TryElseEnd, BeginDefer, EndDefer,
   BeginStmtBlock, EndStmtBlock, BeginExprBlock, EndExprBlock, ScopeIsTerminated,
   RejectTerminated, FuncDef

LEMMA LiveKeeps ==
    ASSUME BInv, Live, NoneMistaken, Instruction, Follow
    PROVE  Live'
<1>1. phase = "sema"
  BY InSema
<1>2. CASE \/ Call \/ Var \/ Return \/ Error \/ Unreachable
           \/ Break \/ Continue \/ LabeledReturn \/ BeginSwitch
  BY <1>1, <1>2, LiveStatements
<1>3. CASE \/ BeginCond \/ BeginWhile \/ BeginFor \/ BeginCase \/ TryElseBegin
           \/ BeginDefer \/ BeginStmtBlock \/ BeginExprBlock
  BY <1>1, <1>3, LiveOpens
<1>4. CASE \/ CondNoElse \/ CondElse \/ EndCond \/ EndWhile \/ EndFor \/ EndForHasElse
           \/ EndForElse \/ EndCase \/ TryElseEnd \/ EndDefer \/ EndStmtBlock
           \/ EndExprBlock
  BY <1>1, <1>4, LiveCloses
<1>5. CASE EndSwitch
  BY <1>1, <1>5, LiveEndSwitch
<1>6. CASE ScopeIsTerminated \/ FuncDef
  BY <1>6 DEF ScopeIsTerminated, RejectTerminated, FuncDef, Stop, Live
<1> QED  BY <1>2, <1>3, <1>4, <1>5, <1>6 DEF Instruction

\* What follows from the analyzer's conclusion that the function's end is dead
LEMMA AcceptedEnds ==
    ASSUME BInv, Live, Instruction, Follow, phase' = "analyzed", ~isVoid'
    PROVE  paths'[1].now = {}
<1>1. phase = "sema"
  BY InSema
<1>2. FuncDef
  BY <1>1 DEF CanAdd, CanOpen, CanClose, Instruction, Call, Var, LocalVar, Return, Error,
     Unreachable, Break, Continue, LoopJump, LabeledReturn, BeginCond, CondNoElse, CondElse,
     EndCond, BeginWhile, EndWhile, BeginFor, EndFor, EndForHasElse, EndForElse,
     BeginSwitch, BeginCase, EndCase, EndSwitch, TryElseBegin, TryElseEnd, BeginDefer,
     EndDefer, BeginStmtBlock, EndStmtBlock, BeginExprBlock, EndExprBlock,
     ScopeIsTerminated, RejectTerminated, Add, Open, Close, CloseWith, Reopen, Stop
<1>3. Top.role = "func" /\ ~InSwitch /\ IsTerminated(Top)
  <2>1. Top.role = "func" /\ ~InSwitch /\ \E void \in {TRUE, Unterminated} : isVoid' = void
    BY <1>2 DEF FuncDef, CanClose, Stop
  <2>2. ~Unterminated
    <3>1. CASE Unterminated
      <4>1. isVoid' = TRUE
        BY <2>1, <3>1 DEF Unterminated, IsTerminated
      <4> QED  BY <4>1
    <3> QED  BY <3>1
  <2> QED  BY <2>1, <2>2 DEF Unterminated
<1>4. Depth = 1 /\ LiveAt(Top, paths[Depth]) /\ Top.tk # "not"
  BY <1>1, <1>3, LiveFunc, LiveNow, NoSubScopes
<1>5. paths' = paths
  BY DEF Follow, FollowStop
<1>6. paths[1].now = {}
  BY <1>4 DEF LiveAt
<1>7. paths'[1] = paths[1]
  BY <1>5
<1> QED  BY <1>6, <1>7

LEMMA InitLive == Init /\ PathsInit => BInv /\ Live
<1> SUFFICES ASSUME Init, PathsInit
             PROVE  BInv /\ Live
  OBVIOUS
<1>1. BInv
  BY InitIInv, InitShape, InitNest DEF BInv
<1>2. scopes = <<NewLevel("func", 0)>> /\ paths = <<Path({<<>>})>> /\ Depth = 1
  BY DEF Init, PathsInit, Depth
<1> DEFINE l == NewLevel("func", 0)
           p == Path({<<>>})
<1>3. l.tk = "not" /\ IsPath(p) /\ p.ends = {}
  BY DEF NewLevel, Path, IsPath
<1> HIDE DEF l, p
<1>4. HavePaths
  <2>1. paths = <<p>> /\ <<p>> \in Seq({p}) /\ Len(<<p>>) = 1
    BY <1>2 DEF p
  <2>2. AnySeq(paths)
    BY <2>1 DEF AnySeq
  <2> QED  BY <1>2, <2>1, <2>2 DEF HavePaths
<1>5. LiveAt(l, p)
  BY <1>3 DEF LiveAt
<1>6. LiveOK(1, scopes, paths)
  BY <1>2, <1>5 DEF LiveOK, l, p
<1> QED  BY <1>1, <1>2, <1>4, <1>6 DEF Live

\* A function that must return a value and is accepted never reaches the end
\* of its statements, whatever the body, unless it has one of the three
\* constructs whose code the analyzer takes for dead (instr_func_def).
THEOREM ValueFunctionsEndHolds ==
    ASSUME NoneMistaken
    PROVE  PathsSpec => []ValueFunctionsEnd
<1> DEFINE EInv == BInv /\ Live /\ ValueFunctionsEnd
<1>1. Init /\ PathsInit => EInv
  BY InitLive DEF Init, ValueFunctionsEnd
<1>2. EInv /\ [Instruction /\ Follow]_pvars => EInv'
  <2> SUFFICES ASSUME EInv, [Instruction /\ Follow]_pvars
               PROVE  EInv'
    OBVIOUS
  <2>1. CASE Instruction /\ Follow
    <3>1. BInv' /\ Live'
      BY <2>1, InstructionBody, LiveKeeps
    <3>2. ValueFunctionsEnd'
      BY <2>1, AcceptedEnds DEF ValueFunctionsEnd
    <3> QED  BY <3>1, <3>2
  <2>2. CASE UNCHANGED pvars
    <3>1. /\ UNCHANGED <<scopes, bodies, subscopes, phase, count, isVoid, func>>
          /\ paths' = paths
      BY <2>2 DEF pvars, svars
    <3>2. BInv'
      BY <3>1 DEF BInv, IInv, LevelsOK, SubScopesCounted, CountOK, Shape, Nest, Depth
    <3>3. Live'
      BY <3>1 DEF Live, HavePaths, Depth
    <3>4. ValueFunctionsEnd'
      BY <3>1 DEF ValueFunctionsEnd
    <3> QED  BY <3>2, <3>3, <3>4
  <2> QED  BY <2>1, <2>2
<1>3. EInv => ValueFunctionsEnd
  OBVIOUS
<1> QED  BY <1>1, <1>2, <1>3, PTL DEF PathsSpec
=============================================================================
