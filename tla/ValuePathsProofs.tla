-------------------------- MODULE ValuePathsProofs --------------------------
(***************************************************************************)
(* What the analyzer takes a variable's state to be is its state on every  *)
(* path, in every function body that has none of the constructs it         *)
(* mishandles.                                                             *)
(***************************************************************************)
EXTENDS ValuePaths, PathsProofs, WellFoundedInduction

Vars(va, i) == UNION {DOMAIN va[j] : j \in 1..i}

DeclaredAt(va, j, v) == v \in DOMAIN va[j] /\ va[j][v].decl

\* The info gives the state at the place where control is.
Shows(f) == f.decl \/ f.num = 0

\* The infos m of level i say nothing yet of v.
Hidden(i, m, v) == v \in DOMAIN m => ~m[v].decl /\ m[v].num # 0 /\ ~(i >= m[v].index)

\* The state that the closed sub-scopes have made
New(f) == IF f.decl THEN f.pending ELSE f.state

\* A level in one of these roles may be the target of a jump.
Aimed == LoopRoles \cup {"forElse", "blockExpr"}

\* Under a level in one of these roles no change has been handed on.
IdleRoles == {"tryElse", "blockExpr", "forElse"}

IdAt(i, sc, c) ==
    /\ sc[i].id \in Nat /\ sc[i].id <= c
    /\ sc[i].role # "case" => \A j \in 1..i - 1 : sc[j].id < sc[i].id

InfoAt(i, v, sc, va, c) ==
    LET f == va[i][v]
    IN /\ v \in Nat /\ v <= c
       /\ f.decl => \A j \in 1..i - 1 : v \notin DOMAIN va[j]
       /\ f.decl /\ f.num = 0 => f.pending = "none"
       /\ ~f.decl => \E j \in 1..i - 1 : DeclaredAt(va, j, v)
       /\ ~f.decl => \A k \in 1..i : sc[k].role = "defer" =>
                         \E j \in k..i - 1 : DeclaredAt(va, j, v)
       /\ \A j \in 1..i - 1 :
             v \in DOMAIN va[j] /\ ~va[j][v].decl /\ va[j][v].num = 0 =>
                 j >= va[j][v].index

VarsAt(i, sc, va, c) ==
    /\ \A v \in DOMAIN va[i] : InfoAt(i, v, sc, va, c)
    /\ i > 1 /\ sc[i].role \in IdleRoles => Idle(va[i - 1])

\* An environment e in which control reaches the end of level i so far
EnvOK(i, e, va, pa) ==
    /\ e \in [Vars(va, i) -> States]
    /\ \A f \in pa[i].now : f = e
    /\ \A v \in DOMAIN va[i] : Shows(va[i][v]) => e[v] = va[i][v].state
    /\ \A j \in 1..i - 1 :
          /\ pa[j].now # {}
          /\ \A f \in pa[j].now : \A v \in Vars(va, j) :
                (\A k \in j + 1..i : Hidden(k, va[k], v)) => e[v] = f[v]

EnvAt(i, va, pa) == \A e \in pa[i].now : EnvOK(i, e, va, pa)

\* An environment e in which it leaves a closed block of the open statement,
\* when control came to the statement with f; all is the number of sub-scopes
\* that are closed and have been left at their ends.
EndOK(V, m, all, e, f) ==
    /\ e \in [V -> States]
    /\ \A v \in V :
          IF v \in DOMAIN m /\ Waits(m[v])
          THEN m[v].num = all => e[v] = New(m[v])
          ELSE e[v] = f[v]

EndAt(i, all, va, pa) ==
    \A e \in pa[i].ends : \A f \in pa[i].now : EndOK(Vars(va, i), va[i], all, e, f)

\* If jump jp aims at the statement id whose level is the t-th, it comes there
\* with what is true before the statement.
Lands(jp, id, t, va, pa) ==
    jp[2] = id =>
        /\ Vars(va, t - 1) \subseteq DOMAIN jp[3]
        /\ pa[t - 1].now # {}
        /\ \A f \in pa[t - 1].now : \A v \in Vars(va, t - 1) : jp[3][v] = f[v]

JumpOK(i, jp, va, c) ==
    /\ jp = <<jp[1], jp[2], jp[3]>>
    /\ jp[2] \in Nat /\ jp[2] <= c
    /\ DOMAIN jp[3] \subseteq Vars(va, i)
    /\ jp[3] \in [DOMAIN jp[3] -> States]

JumpAt(i, n, jp, sc, va, pa, c) ==
    /\ JumpOK(i, jp, va, c)
    /\ \A t \in 2..n : sc[t].role \in Aimed => Lands(jp, sc[t].id, t, va, pa)

JumpsAt(i, n, sc, va, pa, c) ==
    \A jp \in pa[i].jumps : JumpAt(i, n, jp, sc, va, pa, c)

All(i, n, l) == l.nsub - l.nterm - (IF i < n THEN 1 ELSE 0)

LevelOK(i, n, sc, va, pa, c) ==
    /\ IdAt(i, sc, c)
    /\ VarsAt(i, sc, va, c)
    /\ EnvAt(i, va, pa)
    /\ EndAt(i, All(i, n, sc[i]), va, pa)
    /\ JumpsAt(i, n, sc, va, pa, c)

Agree(n, sc, va, pa, c) == \A i \in 1..n : LevelOK(i, n, sc, va, pa, c)

AgreeNow == phase = "sema" => Agree(Depth, scopes, values, paths, count)

-----------------------------------------------------------------------------
(* The variables of the levels *)

LEMMA InVars ==
    ASSUME NEW i \in Nat, NEW va, NEW v
    PROVE  v \in Vars(va, i) <=> \E j \in 1..i : v \in DOMAIN va[j]
BY DEF Vars

LEMMA VarsMono ==
    ASSUME NEW i \in Nat, NEW k \in Nat, i <= k, NEW va
    PROVE  Vars(va, i) \subseteq Vars(va, k)
<1>1. \A j \in 1..i : j \in 1..k
  OBVIOUS
<1> QED  BY <1>1, InVars

LEMMA VarsSame ==
    ASSUME NEW i \in Nat, NEW va, NEW va2, \A j \in 1..i : DOMAIN va2[j] = DOMAIN va[j]
    PROVE  Vars(va2, i) = Vars(va, i)
<1>1. \A v : v \in Vars(va2, i) <=> v \in Vars(va, i)
  BY InVars
<1> QED  BY <1>1

\* The levels are sc, va and pa, and those below the m-th are sc2, va2 and pa2.
Below(m, sc, va, pa, sc2, va2, pa2) ==
    \A j \in 1..m - 1 : sc2[j] = sc[j] /\ va2[j] = va[j] /\ pa2[j] = pa[j]

LEMMA JumpTop ==
    ASSUME NEW n \in Nat, NEW m \in 1..n, NEW sc, NEW va, NEW pa, NEW c \in Nat,
           NEW sc2, NEW va2, NEW pa2, NEW c2 \in Nat, c <= c2,
           Below(m, sc, va, pa, sc2, va2, pa2),
           sc2[m].role = sc[m].role, sc2[m].id = sc[m].id,
           NEW i \in 1..m, Vars(va, i) \subseteq Vars(va2, i),
           NEW jp, JumpAt(i, n, jp, sc, va, pa, c)
    PROVE  JumpAt(i, m, jp, sc2, va2, pa2, c2)
<1>1. JumpOK(i, jp, va, c) /\ \A t \in 2..n : sc[t].role \in Aimed =>
          Lands(jp, sc[t].id, t, va, pa)
  BY DEF JumpAt
<1>2. JumpOK(i, jp, va2, c2)
  BY <1>1 DEF JumpOK
<1>3. ASSUME NEW t \in 2..m, sc2[t].role \in Aimed
      PROVE  Lands(jp, sc2[t].id, t, va2, pa2)
  <2>1. t \in 2..n /\ t - 1 \in 1..m - 1 /\ t - 1 \in Nat /\ (t = m \/ t \in 1..m - 1)
    OBVIOUS
  <2>2. sc2[t].role = sc[t].role /\ sc2[t].id = sc[t].id
    BY <2>1 DEF Below
  <2>3. Vars(va2, t - 1) = Vars(va, t - 1)
    <3>1. \A k \in 1..t - 1 : k \in 1..m - 1
      OBVIOUS
    <3>2. \A k \in 1..t - 1 : DOMAIN va2[k] = DOMAIN va[k]
      BY <3>1 DEF Below
    <3> QED  BY <2>1, <3>2, VarsSame
  <2>4. Lands(jp, sc[t].id, t, va, pa)
    BY <1>1, <1>3, <2>1, <2>2
  <2>5. pa2[t - 1] = pa[t - 1]
    BY <2>1 DEF Below
  <2> QED  BY <2>2, <2>3, <2>4, <2>5 DEF Lands
<1> QED  BY <1>2, <1>3 DEF JumpAt

LEMMA LevelBelow ==
    ASSUME NEW n \in Nat, NEW m \in 1..n, NEW sc, NEW va, NEW pa, NEW c \in Nat,
           NEW sc2, NEW va2, NEW pa2, NEW c2 \in Nat, c <= c2,
           Below(m, sc, va, pa, sc2, va2, pa2),
           sc2[m].role = sc[m].role, sc2[m].id = sc[m].id,
           NEW i \in 1..m - 1, LevelOK(i, n, sc, va, pa, c)
    PROVE  LevelOK(i, m, sc2, va2, pa2, c2)
<1>1. /\ \A j \in 1..i : j \in 1..m - 1
      /\ \A j \in 1..m - 1 : sc2[j] = sc[j] /\ va2[j] = va[j] /\ pa2[j] = pa[j]
      /\ i \in 1..i /\ i \in Nat /\ \A j \in 1..i - 1 : j \in 1..i /\ j \in Nat
      /\ i < n /\ i < m
  BY DEF Below
<1>2. \A j \in 1..i : Vars(va2, j) = Vars(va, j)
  <2> SUFFICES ASSUME NEW j \in 1..i
               PROVE  Vars(va2, j) = Vars(va, j)
    OBVIOUS
  <2>1. \A k \in 1..j : DOMAIN va2[k] = DOMAIN va[k]
    BY <1>1
  <2> QED  BY <2>1, VarsSame
<1>3. IdAt(i, sc2, c2)
  BY <1>1 DEF LevelOK, IdAt
<1>4. \A v \in DOMAIN va[i] : InfoAt(i, v, sc, va, c) => InfoAt(i, v, sc2, va2, c2)
  <2> SUFFICES ASSUME NEW v \in DOMAIN va[i], InfoAt(i, v, sc, va, c)
               PROVE  InfoAt(i, v, sc2, va2, c2)
    OBVIOUS
  <2>1. \A j \in 1..i : va2[j] = va[j] /\ sc2[j] = sc[j]
    BY <1>1
  <2>2. v \in Nat /\ v <= c2
    BY DEF InfoAt
  <2>3. \A k \in 1..i : \A j \in k..i - 1 : j \in 1..i /\ j \in 1..i - 1
    OBVIOUS
  <2> QED  BY <1>1, <2>1, <2>2, <2>3 DEF InfoAt, DeclaredAt
<1>5. VarsAt(i, sc2, va2, c2)
  <2>1. i > 1 => i - 1 \in 1..i - 1
    OBVIOUS
  <2> QED  BY <1>1, <1>4, <2>1 DEF LevelOK, VarsAt
<1>6. EnvAt(i, va2, pa2)
  <2>1. \A j \in 1..i - 1 : \A k \in j + 1..i : k \in 1..i
    OBVIOUS
  <2>2. ASSUME NEW e, EnvOK(i, e, va, pa)
        PROVE  EnvOK(i, e, va2, pa2)
    BY <1>1, <1>2, <2>1, <2>2 DEF EnvOK
  <2> QED  BY <1>1, <2>2 DEF LevelOK, EnvAt
<1>7. EndAt(i, All(i, m, sc2[i]), va2, pa2)
  BY <1>1, <1>2 DEF LevelOK, EndAt, All
<1>8. JumpsAt(i, m, sc2, va2, pa2, c2)
  <2>1. Vars(va, i) \subseteq Vars(va2, i) /\ i \in 1..m
    BY <1>1, <1>2
  <2>2. \A jp : JumpAt(i, n, jp, sc, va, pa, c) => JumpAt(i, m, jp, sc2, va2, pa2, c2)
    BY <2>1, JumpTop
  <2> QED  BY <1>1, <2>2 DEF LevelOK, JumpsAt
<1> QED  BY <1>3, <1>5, <1>6, <1>7, <1>8 DEF LevelOK

\* The levels above the m-th are gone and that one has changed.
LEMMA AgreeTop ==
    ASSUME NEW n \in Nat, NEW m \in 1..n, NEW sc, NEW va, NEW pa, NEW c \in Nat,
           Agree(n, sc, va, pa, c),
           NEW sc2, NEW va2, NEW pa2, NEW c2 \in Nat, c <= c2,
           Below(m, sc, va, pa, sc2, va2, pa2),
           sc2[m].role = sc[m].role, sc2[m].id = sc[m].id,
           LevelOK(m, m, sc2, va2, pa2, c2)
    PROVE  Agree(m, sc2, va2, pa2, c2)
<1>1. \A i \in 1..m : i = m \/ (i \in 1..m - 1 /\ i \in 1..n)
  OBVIOUS
<1>2. \A i \in 1..m - 1 : LevelOK(i, m, sc2, va2, pa2, c2)
  BY <1>1, LevelBelow DEF Agree
<1> QED  BY <1>1, <1>2 DEF Agree

-----------------------------------------------------------------------------
(* The innermost level of the next state, whose infos, environments and      *)
(* jumps come from level m                                                   *)

SameVars(m, va, va2) == \A j \in 1..m - 1 : Vars(va2, j) = Vars(va, j)

LEMMA IdTop ==
    ASSUME NEW m \in Nat \ {0}, NEW sc, NEW va, NEW pa, NEW c \in Nat,
           NEW sc2, NEW va2, NEW pa2, NEW c2 \in Nat, c <= c2,
           Below(m, sc, va, pa, sc2, va2, pa2),
           sc2[m].role = sc[m].role, sc2[m].id = sc[m].id,
           IdAt(m, sc, c), VarsAt(m, sc, va, c)
    PROVE  /\ IdAt(m, sc2, c2)
           /\ m > 1 /\ sc2[m].role \in IdleRoles => Idle(va2[m - 1])
           /\ SameVars(m, va, va2)
<1>1. IdAt(m, sc2, c2)
  BY DEF IdAt, Below
<1>2. m > 1 => m - 1 \in 1..m - 1
  OBVIOUS
<1>3. m > 1 /\ sc2[m].role \in IdleRoles => Idle(va2[m - 1])
  BY <1>2 DEF VarsAt, Below
<1>4. ASSUME NEW j \in 1..m - 1
      PROVE  Vars(va2, j) = Vars(va, j)
  <2>1. j \in Nat /\ \A k \in 1..j : k \in 1..m - 1
    OBVIOUS
  <2>2. \A k \in 1..j : DOMAIN va2[k] = DOMAIN va[k]
    BY <2>1 DEF Below
  <2> QED  BY <2>1, <2>2, VarsSame
<1> QED  BY <1>1, <1>3, <1>4 DEF SameVars

LEMMA InfoTop ==
    ASSUME NEW m \in Nat \ {0}, NEW sc, NEW va, NEW pa, NEW c \in Nat,
           NEW sc2, NEW va2, NEW pa2, NEW c2 \in Nat, c <= c2,
           Below(m, sc, va, pa, sc2, va2, pa2), sc2[m].role = sc[m].role,
           NEW v, InfoAt(m, v, sc, va, c), va2[m][v].decl = va[m][v].decl,
           va2[m][v].decl /\ va2[m][v].num = 0 => va2[m][v].pending = "none"
    PROVE  InfoAt(m, v, sc2, va2, c2)
<1>1. v \in Nat /\ v <= c2
  BY DEF InfoAt
<1>2. \A j \in 1..m - 1 : va2[j] = va[j] /\ sc2[j] = sc[j]
  BY DEF Below
<1>3. /\ \A k \in 1..m : k = m \/ k \in 1..m - 1
      /\ \A k \in 1..m : \A j \in k..m - 1 : j \in 1..m - 1
  OBVIOUS
<1>4. \A k \in 1..m : sc2[k].role = sc[k].role
  BY <1>2, <1>3
<1> QED  BY <1>1, <1>2, <1>3, <1>4 DEF InfoAt, DeclaredAt

LEMMA EnvTop ==
    ASSUME NEW m \in Nat \ {0}, NEW sc, NEW va, NEW pa,
           NEW sc2, NEW va2, NEW pa2,
           Below(m, sc, va, pa, sc2, va2, pa2), Vars(va2, m) = Vars(va, m),
           SameVars(m, va, va2),
           pa2[m].now \subseteq pa[m].now,
           \A v \in DOMAIN va2[m] : Shows(va2[m][v]) =>
               v \in DOMAIN va[m] /\ Shows(va[m][v]) /\ va2[m][v].state = va[m][v].state,
           \A v \in Vars(va, m - 1) : Hidden(m, va2[m], v) => Hidden(m, va[m], v),
           NEW e, EnvOK(m, e, va, pa)
    PROVE  EnvOK(m, e, va2, pa2)
<1>1. e \in [Vars(va2, m) -> States] /\ \A f \in pa2[m].now : f = e
  BY DEF EnvOK
<1>2. \A v \in DOMAIN va2[m] : Shows(va2[m][v]) => e[v] = va2[m][v].state
  BY DEF EnvOK
<1>3. ASSUME NEW j \in 1..m - 1
      PROVE  /\ pa2[j].now # {}
             /\ \A f \in pa2[j].now : \A v \in Vars(va2, j) :
                   (\A k \in j + 1..m : Hidden(k, va2[k], v)) => e[v] = f[v]
  <2>1. pa2[j] = pa[j] /\ pa[j].now # {} /\ Vars(va2, j) = Vars(va, j)
    BY DEF EnvOK, Below, SameVars
  <2>2. j \in Nat /\ m - 1 \in Nat /\ j <= m - 1 /\ m \in j + 1..m
        /\ \A k \in j + 1..m : k = m \/ k \in 1..m - 1
    OBVIOUS
  <2>3. Vars(va, j) \subseteq Vars(va, m - 1)
    BY <2>2, VarsMono
  <2>4. ASSUME NEW v \in Vars(va, j), \A k \in j + 1..m : Hidden(k, va2[k], v)
        PROVE  \A k \in j + 1..m : Hidden(k, va[k], v)
    <3>1. Hidden(m, va[m], v)
      BY <2>2, <2>3, <2>4
    <3>2. \A k \in 1..m - 1 : va2[k] = va[k]
      BY DEF Below
    <3> QED  BY <2>2, <2>4, <3>1, <3>2
  <2> QED  BY <2>1, <2>4 DEF EnvOK
<1> QED  BY <1>1, <1>2, <1>3 DEF EnvOK

\* The infos stay, and control comes on in fewer ways or in the same.
LEMMA Narrow ==
    ASSUME NEW n \in Nat, NEW m \in 1..n, NEW sc, NEW va, NEW pa, NEW c \in Nat,
           NEW sc2, NEW va2, NEW pa2, NEW c2 \in Nat, c <= c2,
           Below(m, sc, va, pa, sc2, va2, pa2),
           sc2[m].role = sc[m].role, sc2[m].id = sc[m].id,
           LevelOK(m, n, sc, va, pa, c), DOMAIN va2[m] = DOMAIN va[m],
           \A v \in DOMAIN va[m] : va2[m][v] = va[m][v],
           pa2[m].now \subseteq pa[m].now, pa2[m].ends = {},
           \A jp \in pa2[m].jumps :
               jp \in pa[m].jumps \/ JumpAt(m, m, jp, sc2, va2, pa2, c2)
    PROVE  LevelOK(m, m, sc2, va2, pa2, c2)
<1>1. /\ IdAt(m, sc, c) /\ VarsAt(m, sc, va, c) /\ EnvAt(m, va, pa)
      /\ JumpsAt(m, n, sc, va, pa, c) /\ m \in Nat \ {0} /\ m \in 1..m
  BY DEF LevelOK
<1>2. /\ IdAt(m, sc2, c2)
      /\ m > 1 /\ sc2[m].role \in IdleRoles => Idle(va2[m - 1])
      /\ SameVars(m, va, va2)
  BY <1>1, IdTop
<1>3. Vars(va2, m) = Vars(va, m)
  <2>1. \A j \in 1..m : j = m \/ j \in 1..m - 1
    OBVIOUS
  <2>2. \A j \in 1..m : DOMAIN va2[j] = DOMAIN va[j]
    BY <2>1 DEF Below
  <2> QED  BY <2>2, VarsSame
<1>4. \A v \in DOMAIN va2[m] : InfoAt(m, v, sc2, va2, c2)
  <2> SUFFICES ASSUME NEW v \in DOMAIN va2[m]
               PROVE  InfoAt(m, v, sc2, va2, c2)
    OBVIOUS
  <2>1. InfoAt(m, v, sc, va, c) /\ va2[m][v] = va[m][v]
    BY <1>1 DEF VarsAt
  <2>2. va[m][v].decl /\ va[m][v].num = 0 => va[m][v].pending = "none"
    BY <2>1 DEF InfoAt
  <2> QED  BY <1>1, <2>1, <2>2, InfoTop
<1>5. VarsAt(m, sc2, va2, c2)
  BY <1>2, <1>4 DEF VarsAt
<1>6. EnvAt(m, va2, pa2)
  <2> SUFFICES ASSUME NEW e \in pa2[m].now
               PROVE  EnvOK(m, e, va2, pa2)
    BY DEF EnvAt
  <2>1. EnvOK(m, e, va, pa)
    BY <1>1 DEF EnvAt
  <2>2. \A v : Hidden(m, va2[m], v) => Hidden(m, va[m], v)
    BY DEF Hidden
  <2> QED  BY <1>1, <1>2, <1>3, <2>1, <2>2, EnvTop
<1>7. EndAt(m, All(m, m, sc2[m]), va2, pa2)
  BY DEF EndAt
<1>8. JumpsAt(m, m, sc2, va2, pa2, c2)
  <2>1. Vars(va, m) \subseteq Vars(va2, m)
    BY <1>3
  <2>2. \A jp \in pa[m].jumps : JumpAt(m, m, jp, sc2, va2, pa2, c2)
    BY <1>1, <2>1, JumpTop DEF JumpsAt
  <2> QED  BY <2>2 DEF JumpsAt
<1> QED  BY <1>2, <1>5, <1>6, <1>7, <1>8 DEF LevelOK

LEMMA EndValuesInfos ==
    ASSUME NEW m, InfosOK(m)
    PROVE  /\ DOMAIN EndValues(m) = DOMAIN m
           /\ \A v \in DOMAIN m :
                 LET f == EndValues(m)[v]
                 IN /\ f.decl = m[v].decl /\ f.num = 0
                    /\ f.decl => f.pending = "none"
                    /\ f.state = IF Waits(m[v]) THEN New(m[v]) ELSE m[v].state
<1> DEFINE r == EndValues(m)
<1>1. DOMAIN r = DOMAIN m
  BY DEF EndValues
<1>2. ASSUME NEW v \in DOMAIN m
      PROVE  /\ r[v].decl = m[v].decl /\ r[v].num = 0
             /\ r[v].decl => r[v].pending = "none"
             /\ r[v].state = IF Waits(m[v]) THEN New(m[v]) ELSE m[v].state
  <2> DEFINE f == m[v]
  <2>1. InfoOK(f)
    BY DEF InfosOK
  <2>2. CASE ~Waits(f)
    <3>1. r[v] = f
      BY <2>2 DEF EndValues
    <3>2. f.num = 0 /\ (f.decl => f.pending = "none")
      BY <2>1, <2>2 DEF InfoOK, Waits
    <3> HIDE DEF f, r
    <3> QED  BY <2>2, <3>1, <3>2 DEF f
  <2>3. CASE Waits(f) /\ f.decl
    <3>1. r[v] = [f EXCEPT !.state = f.pending, !.pending = "none", !.num = 0]
      BY <2>3 DEF EndValues
    <3> HIDE DEF f, r
    <3> QED  BY <2>1, <2>3, <3>1 DEF InfoOK, New, f
  <2>4. CASE Waits(f) /\ ~f.decl
    <3>1. PICK x : r[v] = [f EXCEPT !.num = 0, !.index = x]
      BY <2>4 DEF EndValues
    <3> HIDE DEF f, r
    <3> QED  BY <2>1, <2>4, <3>1 DEF InfoOK, New, f
  <2> QED  BY <2>2, <2>3, <2>4
<1> HIDE DEF r
<1> QED  BY <1>1, <1>2 DEF r

\* The statement's sub-scopes end, and every change that waits has been made
\* by all that were left at their ends.
LEMMA Settle ==
    ASSUME NEW m \in Nat \ {0}, NEW sc, NEW va, NEW pa, NEW c \in Nat,
           NEW sc2, NEW va2, NEW pa2, NEW c2 \in Nat, c <= c2,
           Below(m, sc, va, pa, sc2, va2, pa2),
           sc2[m].role = sc[m].role, sc2[m].id = sc[m].id,
           LevelOK(m, m, sc, va, pa, c), InfosOK(va[m]), va2[m] = EndValues(va[m]),
           \A v \in DOMAIN va[m] :
               Waits(va[m][v]) => va[m][v].num = sc[m].nsub - sc[m].nterm,
           pa2[m].now \subseteq pa[m].ends, pa2[m].ends = {},
           pa2[m].jumps \subseteq pa[m].jumps, pa[m].ends # {} => pa[m].now # {}
    PROVE  LevelOK(m, m, sc2, va2, pa2, c2)
<1>1. /\ IdAt(m, sc, c) /\ VarsAt(m, sc, va, c) /\ EnvAt(m, va, pa)
      /\ EndAt(m, All(m, m, sc[m]), va, pa) /\ JumpsAt(m, m, sc, va, pa, c)
      /\ m \in 1..m /\ m \in Nat
  BY DEF LevelOK
<1>2. /\ IdAt(m, sc2, c2)
      /\ m > 1 /\ sc2[m].role \in IdleRoles => Idle(va2[m - 1])
      /\ SameVars(m, va, va2)
  BY <1>1, IdTop
<1>3. /\ DOMAIN va2[m] = DOMAIN va[m]
      /\ \A v \in DOMAIN va[m] :
            /\ va2[m][v].decl = va[m][v].decl /\ va2[m][v].num = 0
            /\ va2[m][v].decl => va2[m][v].pending = "none"
            /\ va2[m][v].state = IF Waits(va[m][v]) THEN New(va[m][v]) ELSE va[m][v].state
  BY EndValuesInfos
<1>4. Vars(va2, m) = Vars(va, m)
  <2>1. \A j \in 1..m : j = m \/ j \in 1..m - 1
    OBVIOUS
  <2>2. \A j \in 1..m : DOMAIN va2[j] = DOMAIN va[j]
    BY <1>3, <2>1 DEF Below
  <2> QED  BY <1>1, <2>2, VarsSame
<1>5. VarsAt(m, sc2, va2, c2)
  <2>1. \A v \in DOMAIN va2[m] : InfoAt(m, v, sc2, va2, c2)
    <3> SUFFICES ASSUME NEW v \in DOMAIN va2[m]
                 PROVE  InfoAt(m, v, sc2, va2, c2)
      OBVIOUS
    <3>1. InfoAt(m, v, sc, va, c)
      BY <1>1, <1>3 DEF VarsAt
    <3>2. /\ va2[m][v].decl = va[m][v].decl
          /\ va2[m][v].decl /\ va2[m][v].num = 0 => va2[m][v].pending = "none"
      BY <1>3
    <3> QED  BY <3>1, <3>2, InfoTop
  <2> QED  BY <1>2, <2>1 DEF VarsAt
<1>6. ASSUME NEW f \in pa[m].now, NEW e \in pa[m].ends
      PROVE  /\ e \in [Vars(va, m) -> States]
             /\ \A v \in Vars(va, m) :
                   IF v \in DOMAIN va[m] /\ Waits(va[m][v]) THEN e[v] = New(va[m][v])
                   ELSE e[v] = f[v]
  <2>1. EndOK(Vars(va, m), va[m], sc[m].nsub - sc[m].nterm - 0, e, f)
    BY <1>1, <1>6 DEF EndAt, All
  <2>2. \A v \in DOMAIN va[m] :
            Waits(va[m][v]) => va[m][v].num = sc[m].nsub - sc[m].nterm - 0
    <3>1. \A v \in DOMAIN va[m] : va[m][v].num \in Nat
      BY DEF InfosOK, InfoOK
    <3> QED  BY <3>1
  <2> QED  BY <2>1, <2>2 DEF EndOK
<1>7. EnvAt(m, va2, pa2)
  <2> SUFFICES ASSUME NEW e \in pa2[m].now
               PROVE  EnvOK(m, e, va2, pa2)
    BY DEF EnvAt
  <2>1. e \in pa[m].ends
    OBVIOUS
  <2>2. PICK f \in pa[m].now : TRUE
    BY <2>1
  <2>3. EnvOK(m, f, va, pa)
    BY <1>1 DEF EnvAt
  <2>4. e \in [Vars(va2, m) -> States]
    BY <1>4, <1>6, <2>1
  <2>5. \A g \in pa2[m].now : g = e
    <3> SUFFICES ASSUME NEW g \in pa2[m].now
                 PROVE  g = e
      OBVIOUS
    <3>1. g \in [Vars(va, m) -> States] /\ e \in [Vars(va, m) -> States]
      BY <1>6, <2>1
    <3>2. \A v \in Vars(va, m) : g[v] = e[v]
      BY <1>6, <2>1
    <3> QED  BY <3>1, <3>2
  <2>6. ASSUME NEW v \in DOMAIN va2[m]
        PROVE  e[v] = va2[m][v].state
    <3>1. v \in DOMAIN va[m] /\ v \in Vars(va, m)
      BY <1>1, <1>3, InVars
    <3>2. CASE Waits(va[m][v])
      BY <1>3, <1>6, <2>1, <3>1, <3>2
    <3>3. CASE ~Waits(va[m][v])
      <4>1. Shows(va[m][v])
        BY <3>3 DEF Waits, Shows
      <4>2. f[v] = va[m][v].state
        BY <2>3, <3>1, <4>1 DEF EnvOK
      <4>3. e[v] = f[v]
        BY <1>6, <2>1, <3>1, <3>3
      <4> QED  BY <1>3, <3>1, <3>3, <4>2, <4>3
    <3> QED  BY <3>2, <3>3
  <2>7. ASSUME NEW j \in 1..m - 1
        PROVE  /\ pa2[j].now # {}
               /\ \A g \in pa2[j].now : \A v \in Vars(va2, j) :
                     (\A k \in j + 1..m : Hidden(k, va2[k], v)) => e[v] = g[v]
    <3>1. /\ pa2[j] = pa[j] /\ Vars(va2, j) = Vars(va, j) /\ pa[j].now # {}
          /\ \A k \in 1..m - 1 : va2[k] = va[k]
      BY <1>2, <2>3 DEF EnvOK, Below, SameVars
    <3>2. j \in Nat /\ j <= m /\ m \in j + 1..m /\ \A k \in j + 1..m : k = m \/ k \in 1..m - 1
      OBVIOUS
    <3>3. Vars(va, j) \subseteq Vars(va, m)
      BY <1>1, <3>2, VarsMono
    <3>4. ASSUME NEW g \in pa[j].now, NEW v \in Vars(va, j),
                 \A k \in j + 1..m : Hidden(k, va2[k], v)
          PROVE  e[v] = g[v]
      <4>1. v \notin DOMAIN va2[m]
        BY <1>3, <3>2, <3>4 DEF Hidden
      <4>2. v \notin DOMAIN va[m] /\ Hidden(m, va[m], v)
        BY <1>3, <4>1 DEF Hidden
      <4>3. \A k \in j + 1..m : Hidden(k, va[k], v)
        BY <3>1, <3>2, <3>4, <4>2
      <4>4. f[v] = g[v]
        BY <2>3, <4>3 DEF EnvOK
      <4> QED  BY <1>6, <2>1, <3>3, <4>2, <4>4
    <3> QED  BY <3>1, <3>4
  <2> QED  BY <2>4, <2>5, <2>6, <2>7 DEF EnvOK
<1>8. EndAt(m, All(m, m, sc2[m]), va2, pa2)
  BY DEF EndAt
<1>9. JumpsAt(m, m, sc2, va2, pa2, c2)
  <2>1. Vars(va, m) \subseteq Vars(va2, m)
    BY <1>4
  <2>2. \A jp \in pa[m].jumps : JumpAt(m, m, jp, sc2, va2, pa2, c2)
    BY <1>1, <2>1, JumpTop DEF JumpsAt
  <2> QED  BY <2>2 DEF JumpsAt
<1> QED  BY <1>2, <1>5, <1>7, <1>8, <1>9 DEF LevelOK

\* The environment e after v has been given that state
With(e, v, state) == [u \in DOMAIN e \cup {v} |-> IF u = v THEN state ELSE e[u]]

\* The innermost level after control has given variable v the state s
LEMMA ChangeTop ==
    ASSUME NEW m \in Nat \ {0}, NEW sc, NEW va, NEW pa, NEW c \in Nat,
           NEW sc2, NEW va2, NEW pa2, NEW c2 \in Nat, c <= c2,
           Below(m, sc, va, pa, sc2, va2, pa2),
           sc2[m].role = sc[m].role, sc2[m].id = sc[m].id,
           LevelOK(m, m, sc, va, pa, c), NEW v, NEW s \in States,
           DOMAIN va2[m] = DOMAIN va[m] \cup {v},
           \A u \in DOMAIN va[m] \ {v} : va2[m][u] = va[m][u],
           va2[m][v].num = 0, va2[m][v].state = s, InfoAt(m, v, sc2, va2, c2),
           \A g \in pa2[m].now : \E e \in pa[m].now : g = With(e, v, s),
           pa2[m].ends = {}, pa2[m].jumps = pa[m].jumps
    PROVE  LevelOK(m, m, sc2, va2, pa2, c2)
<1>1. /\ IdAt(m, sc, c) /\ VarsAt(m, sc, va, c) /\ EnvAt(m, va, pa)
      /\ JumpsAt(m, m, sc, va, pa, c) /\ m \in 1..m /\ m \in Nat
  BY DEF LevelOK
<1>2. /\ IdAt(m, sc2, c2)
      /\ m > 1 /\ sc2[m].role \in IdleRoles => Idle(va2[m - 1])
      /\ SameVars(m, va, va2)
  BY <1>1, IdTop
<1>3. Vars(va2, m) = Vars(va, m) \cup {v}
  <2>1. \A j \in 1..m : j = m \/ j \in 1..m - 1
    OBVIOUS
  <2>2. \A j \in 1..m - 1 : va2[j] = va[j] /\ j \in 1..m
    BY DEF Below
  <2>3. \A u : u \in Vars(va2, m) <=> u \in Vars(va, m) \cup {v}
    <3>1. \A u : u \in Vars(va2, m) <=> \E j \in 1..m : u \in DOMAIN va2[j]
      BY <1>1, InVars
    <3>2. \A u : u \in Vars(va, m) <=> \E j \in 1..m : u \in DOMAIN va[j]
      BY <1>1, InVars
    <3>3. DOMAIN va2[m] = DOMAIN va[m] \cup {v} /\ m \in 1..m
      BY <1>1
    <3> QED  BY ONLY <2>1, <2>2, <3>1, <3>2, <3>3
  <2> QED  BY <2>3
<1>4. VarsAt(m, sc2, va2, c2)
  <2>1. ASSUME NEW u \in DOMAIN va2[m]
        PROVE  InfoAt(m, u, sc2, va2, c2)
    <3>1. CASE u = v
      BY <3>1
    <3>2. CASE u # v
      <4>1. u \in DOMAIN va[m] /\ InfoAt(m, u, sc, va, c) /\ va2[m][u] = va[m][u]
        BY <1>1, <3>2 DEF VarsAt
      <4>2. va[m][u].decl /\ va[m][u].num = 0 => va[m][u].pending = "none"
        BY <4>1 DEF InfoAt
      <4> QED  BY <4>1, <4>2, InfoTop
    <3> QED  BY <3>1, <3>2
  <2> QED  BY <1>2, <2>1 DEF VarsAt
<1>5. ASSUME NEW g \in pa2[m].now, NEW e \in pa[m].now, g = With(e, v, s)
      PROVE  EnvOK(m, g, va2, pa2)
  <2>1. EnvOK(m, e, va, pa)
    BY <1>1 DEF EnvAt
  <2>2. e \in [Vars(va, m) -> States] /\ \A f \in pa[m].now : f = e
    BY <2>1 DEF EnvOK
  <2>3. /\ g \in [Vars(va2, m) -> States] /\ g[v] = s
        /\ \A u \in Vars(va, m) \ {v} : g[u] = e[u]
    BY <1>3, <1>5, <2>2 DEF With
  <2>4. \A f \in pa2[m].now : f = g
    BY <1>5, <2>2
  <2>5. ASSUME NEW u \in DOMAIN va2[m], Shows(va2[m][u])
        PROVE  g[u] = va2[m][u].state
    <3>1. CASE u = v
      BY <2>3, <3>1
    <3>2. CASE u # v
      <4>1. u \in DOMAIN va[m] /\ va2[m][u] = va[m][u] /\ u \in Vars(va, m)
        BY <1>1, <3>2, InVars
      <4>2. e[u] = va[m][u].state
        BY <2>1, <2>5, <4>1 DEF EnvOK
      <4> QED  BY <2>3, <3>2, <4>1, <4>2
    <3> QED  BY <3>1, <3>2
  <2>6. ASSUME NEW j \in 1..m - 1
        PROVE  /\ pa2[j].now # {}
               /\ \A f \in pa2[j].now : \A u \in Vars(va2, j) :
                     (\A k \in j + 1..m : Hidden(k, va2[k], u)) => g[u] = f[u]
    <3>1. /\ pa2[j] = pa[j] /\ Vars(va2, j) = Vars(va, j) /\ pa[j].now # {}
          /\ \A k \in 1..m - 1 : va2[k] = va[k]
      BY <1>2, <2>1 DEF EnvOK, Below, SameVars
    <3>2. j \in Nat /\ j <= m /\ m \in j + 1..m /\ \A k \in j + 1..m : k = m \/ k \in 1..m - 1
      OBVIOUS
    <3>3. Vars(va, j) \subseteq Vars(va, m)
      BY <1>1, <3>2, VarsMono
    <3>4. ASSUME NEW f \in pa[j].now, NEW u \in Vars(va, j),
                 \A k \in j + 1..m : Hidden(k, va2[k], u)
          PROVE  g[u] = f[u]
      <4>1. Hidden(m, va2[m], u)
        BY <3>2, <3>4
      <4>2. u # v
        BY <4>1 DEF Hidden
      <4>3. Hidden(m, va[m], u)
        BY <4>1, <4>2 DEF Hidden
      <4>4. \A k \in j + 1..m : Hidden(k, va[k], u)
        BY <3>1, <3>2, <3>4, <4>3
      <4>5. e[u] = f[u]
        BY <2>1, <4>4 DEF EnvOK
      <4> QED  BY <2>3, <3>3, <4>2, <4>5
    <3> QED  BY <3>1, <3>4
  <2> QED  BY <2>3, <2>4, <2>5, <2>6 DEF EnvOK
<1>6. EnvAt(m, va2, pa2)
  BY <1>5 DEF EnvAt
<1>7. EndAt(m, All(m, m, sc2[m]), va2, pa2)
  BY DEF EndAt
<1>8. JumpsAt(m, m, sc2, va2, pa2, c2)
  <2>1. Vars(va, m) \subseteq Vars(va2, m)
    BY <1>3
  <2>2. \A jp \in pa[m].jumps : JumpAt(m, m, jp, sc2, va2, pa2, c2)
    BY <1>1, <2>1, JumpTop DEF JumpsAt
  <2> QED  BY <2>2 DEF JumpsAt
<1> QED  BY <1>2, <1>4, <1>6, <1>7, <1>8 DEF LevelOK

-----------------------------------------------------------------------------
(* A level is opened. *)

LEMMA AgreePush ==
    ASSUME NEW n \in Nat \ {0}, NEW sc, NEW va, NEW pa, NEW c \in Nat,
           Agree(n, sc, va, pa, c),
           NEW sc2, NEW va2, NEW pa2, NEW c2 \in Nat, c <= c2,
           Below(n, sc, va, pa, sc2, va2, pa2),
           sc2[n].role = sc[n].role, sc2[n].id = sc[n].id, va2[n] = va[n], pa2[n] = pa[n],
           EndAt(n, All(n, n + 1, sc2[n]), va, pa),
           va2[n + 1] = <<>>, pa2[n + 1] = Path(pa[n].now), IdAt(n + 1, sc2, c2),
           sc2[n + 1].role \in IdleRoles => Idle(va[n]),
           sc2[n + 1].role \in Aimed => \A i \in 1..n : \A jp \in pa[i].jumps :
                                           Lands(jp, sc2[n + 1].id, n + 1, va, pa)
    PROVE  Agree(n + 1, sc2, va2, pa2, c2)
<1>1. /\ n \in 1..n /\ n \in Nat /\ n + 1 - 1 = n
      /\ \A i \in 1..n : i = n \/ i \in 1..n - 1
      /\ \A i \in 1..n - 1 : i \in 1..n
      /\ \A i \in 1..n : i \in Nat /\ i # n + 1
  OBVIOUS
<1>2. \A i \in 1..n : va2[i] = va[i] /\ pa2[i] = pa[i]
  BY <1>1 DEF Below
<1>3. ASSUME NEW i \in 1..n
      PROVE  Vars(va2, i) = Vars(va, i)
  <2>1. \A j \in 1..i : j \in 1..n
    OBVIOUS
  <2> QED  BY <1>1, <1>2, <2>1, VarsSame
<1>4. LevelOK(n, n, sc, va, pa, c)
  BY <1>1 DEF Agree
<1>5. /\ IdAt(n, sc2, c2)
      /\ n > 1 /\ sc2[n].role \in IdleRoles => Idle(va2[n - 1])
      /\ SameVars(n, va, va2)
  BY <1>4, IdTop DEF LevelOK
<1>6. \A i \in 1..n : JumpsAt(i, n, sc2, va2, pa2, c2)
  <2> SUFFICES ASSUME NEW i \in 1..n, NEW jp \in pa2[i].jumps
               PROVE  JumpAt(i, n, jp, sc2, va2, pa2, c2)
    BY DEF JumpsAt
  <2>1. JumpAt(i, n, jp, sc, va, pa, c)
    BY <1>2 DEF Agree, LevelOK, JumpsAt
  <2>2. Vars(va, i) \subseteq Vars(va2, i)
    BY <1>3
  <2> QED  BY <1>1, <2>1, <2>2, JumpTop
<1>7. \A i \in 1..n : IdAt(i, sc2, c2) /\ VarsAt(i, sc2, va2, c2) /\ EnvAt(i, va2, pa2)
                      /\ EndAt(i, All(i, n + 1, sc2[i]), va2, pa2)
  <2>1. ASSUME NEW i \in 1..n - 1
        PROVE  /\ IdAt(i, sc2, c2) /\ VarsAt(i, sc2, va2, c2) /\ EnvAt(i, va2, pa2)
               /\ EndAt(i, All(i, n + 1, sc2[i]), va2, pa2)
    <3>1. LevelOK(i, n, sc, va, pa, c)
      BY <1>1 DEF Agree
    <3>2. LevelOK(i, n, sc2, va2, pa2, c2)
      BY <1>1, <3>1, LevelBelow
    <3>3. All(i, n + 1, sc2[i]) = All(i, n, sc2[i])
      BY DEF All
    <3> QED  BY <3>2, <3>3 DEF LevelOK
  <2>2. VarsAt(n, sc2, va2, c2)
    <3>1. ASSUME NEW v \in DOMAIN va2[n]
          PROVE  InfoAt(n, v, sc2, va2, c2)
      <4>1. InfoAt(n, v, sc, va, c) /\ va2[n][v] = va[n][v]
        BY <1>4 DEF LevelOK, VarsAt
      <4>2. va[n][v].decl /\ va[n][v].num = 0 => va[n][v].pending = "none"
        BY <4>1 DEF InfoAt
      <4> QED  BY <4>1, <4>2, InfoTop
    <3> QED  BY <1>5, <3>1 DEF VarsAt
  <2>3. EnvAt(n, va2, pa2)
    <3> SUFFICES ASSUME NEW e \in pa2[n].now
                 PROVE  EnvOK(n, e, va2, pa2)
      BY DEF EnvAt
    <3>1. EnvOK(n, e, va, pa)
      BY <1>4 DEF LevelOK, EnvAt
    <3>2. Vars(va2, n) = Vars(va, n)
      BY <1>1, <1>3
    <3>3. \A v : Hidden(n, va2[n], v) => Hidden(n, va[n], v)
      OBVIOUS
    <3>4. \A v \in DOMAIN va2[n] : Shows(va2[n][v]) =>
               v \in DOMAIN va[n] /\ Shows(va[n][v]) /\ va2[n][v].state = va[n][v].state
      OBVIOUS
    <3> QED  BY <1>5, <3>1, <3>2, <3>3, <3>4, EnvTop
  <2>4. EndAt(n, All(n, n + 1, sc2[n]), va2, pa2)
    BY <1>1, <1>3 DEF EndAt
  <2> QED  BY <1>1, <1>5, <2>1, <2>2, <2>3, <2>4
<1>8. Vars(va2, n + 1) = Vars(va, n)
  <2>1. \A j \in 1..n + 1 : j = n + 1 \/ j \in 1..n
    OBVIOUS
  <2>2. \A j \in 1..n : j \in 1..n + 1
    OBVIOUS
  <2>3. DOMAIN va2[n + 1] = {}
    OBVIOUS
  <2>4. \A v : v \in Vars(va2, n + 1) <=> v \in Vars(va, n)
    <3>1. n + 1 \in Nat
      OBVIOUS
    <3> QED  BY <1>1, <1>2, <2>1, <2>2, <2>3, <3>1, InVars
  <2> QED  BY <2>4
<1>9. EnvAt(n + 1, va2, pa2)
  <2> SUFFICES ASSUME NEW e \in pa2[n + 1].now
               PROVE  EnvOK(n + 1, e, va2, pa2)
    BY DEF EnvAt
  <2>1. e \in pa[n].now /\ pa2[n + 1].now = pa[n].now
    BY DEF Path
  <2>2. EnvOK(n, e, va, pa)
    BY <1>4, <2>1 DEF LevelOK, EnvAt
  <2>3. e \in [Vars(va2, n + 1) -> States] /\ \A f \in pa2[n + 1].now : f = e
    BY <1>8, <2>1, <2>2 DEF EnvOK
  <2>4. ASSUME NEW j \in 1..n
        PROVE  /\ pa2[j].now # {}
               /\ \A f \in pa2[j].now : \A v \in Vars(va2, j) :
                     (\A k \in j + 1..n + 1 : Hidden(k, va2[k], v)) => e[v] = f[v]
    <3>1. pa2[j] = pa[j] /\ Vars(va2, j) = Vars(va, j)
      BY <1>2, <1>3
    <3>2. CASE j = n
      BY <2>1, <2>2, <3>1, <3>2 DEF EnvOK
    <3>3. CASE j \in 1..n - 1
      <4>1. \A k \in j + 1..n : k \in j + 1..n + 1 /\ k \in 1..n
        OBVIOUS
      <4>2. \A v : (\A k \in j + 1..n + 1 : Hidden(k, va2[k], v)) =>
                       \A k \in j + 1..n : Hidden(k, va[k], v)
        BY <1>2, <4>1
      <4>3. pa[j].now # {} /\ \A f \in pa[j].now : \A v \in Vars(va, j) :
                (\A k \in j + 1..n : Hidden(k, va[k], v)) => e[v] = f[v]
        BY <2>2, <3>3 DEF EnvOK
      <4> QED  BY ONLY <3>1, <4>2, <4>3
    <3> QED  BY <1>1, <3>2, <3>3
  <2>5. DOMAIN va2[n + 1] = {}
    OBVIOUS
  <2> QED  BY ONLY <1>1, <2>3, <2>4, <2>5 DEF EnvOK
<1>10. LevelOK(n + 1, n + 1, sc2, va2, pa2, c2)
  <2>1. VarsAt(n + 1, sc2, va2, c2)
    <3>1. DOMAIN va2[n + 1] = {}
      OBVIOUS
    <3>2. sc2[n + 1].role \in IdleRoles => Idle(va2[n])
      OBVIOUS
    <3> QED  BY ONLY <1>1, <3>1, <3>2 DEF VarsAt
  <2>2. EndAt(n + 1, All(n + 1, n + 1, sc2[n + 1]), va2, pa2)
    BY DEF EndAt, Path
  <2>3. JumpsAt(n + 1, n + 1, sc2, va2, pa2, c2)
    <3>1. pa2[n + 1].jumps = {}
      BY DEF Path
    <3> QED  BY ONLY <3>1 DEF JumpsAt
  <2> QED  BY <1>9, <2>1, <2>2, <2>3 DEF LevelOK
<1>11. ASSUME NEW i \in 1..n
       PROVE  JumpsAt(i, n + 1, sc2, va2, pa2, c2)
  <2> SUFFICES ASSUME NEW jp \in pa2[i].jumps
               PROVE  JumpAt(i, n + 1, jp, sc2, va2, pa2, c2)
    BY DEF JumpsAt
  <2>1. JumpAt(i, n, jp, sc2, va2, pa2, c2)
    BY <1>6 DEF JumpsAt
  <2>2. ASSUME sc2[n + 1].role \in Aimed
        PROVE  Lands(jp, sc2[n + 1].id, n + 1, va2, pa2)
    <3>1. Lands(jp, sc2[n + 1].id, n + 1, va, pa)
      BY <1>2, <2>2
    <3>2. Vars(va2, n) = Vars(va, n) /\ pa2[n] = pa[n]
      BY <1>1, <1>3
    <3> QED  BY <1>1, <3>1, <3>2 DEF Lands
  <2>3. \A t \in 2..n + 1 : t = n + 1 \/ t \in 2..n
    OBVIOUS
  <2> QED  BY <2>1, <2>2, <2>3 DEF JumpAt
<1>12. \A i \in 1..n + 1 : i = n + 1 \/ i \in 1..n
  OBVIOUS
<1>13. \A i \in 1..n : LevelOK(i, n + 1, sc2, va2, pa2, c2)
  BY <1>7, <1>11 DEF LevelOK
<1> QED  BY <1>10, <1>12, <1>13 DEF Agree

-----------------------------------------------------------------------------
(* The jumps *)

\* What a level knows is declared by it or below, and nowhere else.
LEMMA DeclaredOnce ==
    ASSUME NEW n \in Nat, NEW sc, NEW va, NEW pa, NEW c, Agree(n, sc, va, pa, c),
           NEW i \in 1..n, NEW v \in Vars(va, i)
    PROVE  /\ \E j \in 1..i : DeclaredAt(va, j, v)
           /\ \A j \in i + 1..n : ~DeclaredAt(va, j, v)
<1>1. /\ i \in Nat /\ \A j \in 1..i : j \in 1..n
      /\ \A j \in i + 1..n : j \in 1..n /\ \A k \in 1..i : k \in 1..j - 1
      /\ \A k \in 1..i : \A j \in 1..k - 1 : j \in 1..i
  OBVIOUS
<1>2. PICK k \in 1..i : v \in DOMAIN va[k]
  BY <1>1, InVars
<1>3. InfoAt(k, v, sc, va, c)
  BY <1>1, <1>2 DEF Agree, LevelOK, VarsAt
<1>4. \E j \in 1..i : DeclaredAt(va, j, v)
  <2>1. CASE va[k][v].decl
    BY <1>2, <2>1 DEF DeclaredAt
  <2>2. CASE ~va[k][v].decl
    BY <1>1, <1>3, <2>2 DEF InfoAt
  <2> QED  BY <2>1, <2>2
<1>5. ASSUME NEW j \in i + 1..n, DeclaredAt(va, j, v)
      PROVE  FALSE
  <2>1. InfoAt(j, v, sc, va, c) /\ va[j][v].decl
    BY <1>1, <1>5 DEF DeclaredAt, Agree, LevelOK, VarsAt
  <2> QED  BY <1>1, <1>2, <2>1 DEF InfoAt
<1> QED  BY <1>4, <1>5

\* A jump to level t0, which passes no change of a variable from outside it
LEMMA NewJump ==
    ASSUME NEW n \in Nat, NEW sc, NEW va, NEW pa, NEW c \in Nat,
           Agree(n, sc, va, pa, c), NEW e \in pa[n].now, NEW t0 \in 2..n,
           sc[t0].role # "case",
           \A i \in t0..n : \A v \in DOMAIN va[i] :
               ~va[i][v].decl => \A d \in 1..t0 - 1 : ~DeclaredAt(va, d, v),
           NEW kind
    PROVE  JumpAt(n, n, <<kind, sc[t0].id, e>>, sc, va, pa, c)
<1> DEFINE jp == <<kind, sc[t0].id, e>>
<1>1. /\ n \in 1..n /\ t0 \in 1..n /\ t0 - 1 \in 1..n - 1 /\ t0 - 1 \in 1..n /\ t0 - 1 \in Nat
      /\ \A k \in t0..n : k \in t0 - 1 + 1..n /\ k \in 1..n
      /\ t0 - 1 + 1 = t0 /\ t0 - 1 <= n
  OBVIOUS
<1>2. EnvOK(n, e, va, pa)
  BY <1>1 DEF Agree, LevelOK, EnvAt
<1>3. jp[1] = kind /\ jp[2] = sc[t0].id /\ jp[3] = e /\ jp = <<jp[1], jp[2], jp[3]>>
  OBVIOUS
<1>4. e \in [Vars(va, n) -> States]
  BY <1>2 DEF EnvOK
<1>5. JumpOK(n, jp, va, c)
  <2>1. sc[t0].id \in Nat /\ sc[t0].id <= c
    BY <1>1 DEF Agree, LevelOK, IdAt
  <2>2. DOMAIN e = Vars(va, n)
    BY <1>4
  <2> HIDE DEF jp
  <2> QED  BY <1>3, <1>4, <2>1, <2>2 DEF JumpOK
<1>6. Lands(jp, sc[t0].id, t0, va, pa)
  <2>1. Vars(va, t0 - 1) \subseteq Vars(va, n)
    BY <1>1, VarsMono
  <2>2. ASSUME NEW v \in Vars(va, t0 - 1), NEW k \in t0..n
        PROVE  v \notin DOMAIN va[k]
    <3> SUFFICES ASSUME v \in DOMAIN va[k]
                 PROVE  FALSE
      OBVIOUS
    <3>1. PICK d \in 1..t0 - 1 : DeclaredAt(va, d, v)
      BY <1>1, DeclaredOnce
    <3>2. ~DeclaredAt(va, k, v)
      BY <1>1, DeclaredOnce
    <3>3. ~va[k][v].decl
      BY <3>2 DEF DeclaredAt
    <3> QED  BY <3>1, <3>3
  <2>3. \A v \in Vars(va, t0 - 1) : \A k \in t0..n : Hidden(k, va[k], v)
    BY <2>2 DEF Hidden
  <2>4. pa[t0 - 1].now # {} /\ \A f \in pa[t0 - 1].now : \A v \in Vars(va, t0 - 1) :
            (\A k \in t0 - 1 + 1..n : Hidden(k, va[k], v)) => e[v] = f[v]
    BY <1>1, <1>2 DEF EnvOK
  <2>5. \A f \in pa[t0 - 1].now : \A v \in Vars(va, t0 - 1) : e[v] = f[v]
    BY <1>1, <2>3, <2>4
  <2>6. Vars(va, t0 - 1) \subseteq DOMAIN e
    BY <1>4, <2>1
  <2> HIDE DEF jp
  <2> QED  BY <1>3, <2>4, <2>5, <2>6 DEF Lands
<1>7. ASSUME NEW t \in 2..n, sc[t].role \in Aimed
      PROVE  Lands(jp, sc[t].id, t, va, pa)
  <2>1. CASE sc[t].id # sc[t0].id
    BY <1>3, <2>1 DEF Lands
  <2>2. CASE sc[t].id = sc[t0].id
    <3>1. t \in 1..n /\ sc[t].role # "case"
      BY <1>7 DEF Aimed, LoopRoles
    <3>2. IdAt(t, sc, c) /\ IdAt(t0, sc, c)
      BY <1>1, <3>1 DEF Agree, LevelOK
    <3>3. t = t0
      <4>1. t < t0 => t \in 1..t0 - 1
        BY <3>1
      <4>2. t0 < t => t0 \in 1..t - 1
        BY <1>1
      <4>3. ~(t < t0) /\ ~(t0 < t)
        BY <2>2, <3>1, <3>2, <4>1, <4>2 DEF IdAt
      <4> QED  BY <4>3
    <3> QED  BY <1>6, <3>3
  <2> QED  BY <2>1, <2>2
<1> HIDE DEF jp
<1>8. JumpAt(n, n, jp, sc, va, pa, c)
  BY <1>5, <1>7 DEF JumpAt
<1> QED  BY <1>8 DEF jp

-----------------------------------------------------------------------------
(* The ends of the statements that change nothing *)

NoWaits(m) == \A v \in DOMAIN m : ~Waits(m[v])

\* The closed blocks are left only as control came to the statement.
LEMMA NoWaitEnds ==
    ASSUME NEW m, NEW sc, NEW va, NEW pa, NEW c, NEW n,
           LevelOK(m, n, sc, va, pa, c), NoWaits(va[m]), pa[m].ends # {} => pa[m].now # {}
    PROVE  pa[m].ends \subseteq pa[m].now
<1> SUFFICES ASSUME NEW e \in pa[m].ends
             PROVE  e \in pa[m].now
  OBVIOUS
<1>1. PICK f \in pa[m].now : TRUE
  OBVIOUS
<1>2. EndOK(Vars(va, m), va[m], All(m, n, sc[m]), e, f) /\ EnvOK(m, f, va, pa)
  BY DEF LevelOK, EndAt, EnvAt
<1>3. e \in [Vars(va, m) -> States] /\ f \in [Vars(va, m) -> States]
  BY <1>2 DEF EndOK, EnvOK
<1>4. \A v \in Vars(va, m) : e[v] = f[v]
  BY <1>2 DEF EndOK, NoWaits
<1>5. e = f
  BY <1>3, <1>4
<1> QED  BY <1>5

\* So do the jumps to the statement.
LEMMA LandsNow ==
    ASSUME NEW m \in Nat, NEW sc, NEW va, NEW pa, NEW c, NEW n,
           LevelOK(m, n, sc, va, pa, c), NEW id,
           \A jp \in pa[m].jumps : Lands(jp, id, m + 1, va, pa), NEW kind
    PROVE  By(pa[m].jumps, kind, id) \subseteq pa[m].now
<1> SUFFICES ASSUME NEW jp \in pa[m].jumps, jp[2] = id
             PROVE  jp[3] \in pa[m].now
  BY DEF By
<1>1. /\ DOMAIN jp[3] \subseteq Vars(va, m) /\ jp[3] \in [DOMAIN jp[3] -> States]
  BY DEF LevelOK, JumpsAt, JumpAt, JumpOK
<1>2. m + 1 - 1 = m
  OBVIOUS
<1>3. /\ Vars(va, m) \subseteq DOMAIN jp[3] /\ pa[m].now # {}
      /\ \A f \in pa[m].now : \A v \in Vars(va, m) : jp[3][v] = f[v]
  BY <1>2 DEF Lands
<1>4. PICK f \in pa[m].now : TRUE
  BY <1>3
<1>5. f \in [Vars(va, m) -> States]
  BY DEF LevelOK, EnvAt, EnvOK
<1>6. jp[3] \in [Vars(va, m) -> States]
  BY <1>1, <1>3
<1>7. jp[3] = f
  BY <1>3, <1>5, <1>6
<1> QED  BY <1>7

LEMMA EndValuesNone ==
    ASSUME NEW m, NoWaits(m)
    PROVE  DOMAIN EndValues(m) = DOMAIN m /\ \A v \in DOMAIN m : EndValues(m)[v] = m[v]
BY DEF EndValues, NoWaits

LEMMA IdleNoWaits ==
    ASSUME NEW i, NEW sc, NEW va, NEW c, VarsAt(i, sc, va, c), Idle(va[i])
    PROVE  NoWaits(va[i])
BY DEF VarsAt, InfoAt, Idle, NoWaits, Waits

-----------------------------------------------------------------------------
(* A level is closed: level m + 1 hands its changes ch on to level m.        *)

HandsOn(m, va, va1, ch) ==
    LET known == va[m]
        top == va[m + 1]
        infos == va1[m]
    IN /\ DOMAIN infos = DOMAIN known \cup ch
       /\ \A v \in ch : v \in DOMAIN top /\ ~top[v].decl
       /\ \A v \in DOMAIN known \ ch : infos[v] = known[v]
       /\ \A v \in ch \ DOMAIN known :
             ~infos[v].decl /\ infos[v].num = 1 /\ infos[v].state = top[v].state
       /\ \A v \in ch \cap DOMAIN known :
             /\ infos[v].decl = known[v].decl /\ infos[v].state = known[v].state
             /\ infos[v].num = known[v].num + 1 /\ infos[v].index = known[v].index
             /\ IF known[v].decl
                THEN infos[v].pending = top[v].state /\ known[v].pending \in {"none", top[v].state}
                ELSE known[v].state = top[v].state

\* What is common to the lemmas on closing a level
Pops(m, sc, va, pa, c, sc1, va1, pa1, ch) ==
    /\ Agree(m + 1, sc, va, pa, c)
    /\ Below(m, sc, va, pa, sc1, va1, pa1)
    /\ sc1[m].role = sc[m].role /\ sc1[m].id = sc[m].id
    /\ HandsOn(m, va, va1, ch)
    /\ InfosOK(va[m]) /\ InfosOK(va[m + 1])

LEMMA PopLevels ==
    ASSUME NEW m \in Nat \ {0}, NEW sc, NEW va, NEW pa, NEW c \in Nat,
           NEW sc1, NEW va1, NEW pa1, NEW ch, Pops(m, sc, va, pa, c, sc1, va1, pa1, ch)
    PROVE  /\ LevelOK(m, m + 1, sc, va, pa, c) /\ LevelOK(m + 1, m + 1, sc, va, pa, c)
           /\ IdAt(m, sc1, c)
           /\ m > 1 /\ sc1[m].role \in IdleRoles => Idle(va1[m - 1])
           /\ SameVars(m, va, va1)
<1>1. m \in 1..m + 1 /\ m + 1 \in 1..m + 1
  OBVIOUS
<1>2. LevelOK(m, m + 1, sc, va, pa, c) /\ LevelOK(m + 1, m + 1, sc, va, pa, c)
  BY <1>1 DEF Pops, Agree
<1>3. IdAt(m, sc, c) /\ VarsAt(m, sc, va, c)
  BY <1>2 DEF LevelOK
<1>4. c <= c /\ Below(m, sc, va, pa, sc1, va1, pa1)
      /\ sc1[m].role = sc[m].role /\ sc1[m].id = sc[m].id
  BY DEF Pops
<1>5. /\ IdAt(m, sc1, c)
      /\ m > 1 /\ sc1[m].role \in IdleRoles => Idle(va1[m - 1])
      /\ SameVars(m, va, va1)
  BY <1>3, <1>4, IdTop
<1> QED  BY <1>2, <1>5

LEMMA PopVars ==
    ASSUME NEW m \in Nat \ {0}, NEW sc, NEW va, NEW pa, NEW c \in Nat,
           NEW sc1, NEW va1, NEW pa1, NEW ch, Pops(m, sc, va, pa, c, sc1, va1, pa1, ch)
    PROVE  Vars(va1, m) = Vars(va, m)
<1>1. LevelOK(m + 1, m + 1, sc, va, pa, c)
  BY PopLevels
<1>2. /\ m \in Nat /\ m \in 1..m /\ m + 1 - 1 = m
      /\ \A j \in 1..m : j = m \/ j \in 1..m - 1
      /\ \A j \in 1..m - 1 : j \in 1..m
  OBVIOUS
<1>3. \A j \in 1..m - 1 : va1[j] = va[j]
  BY DEF Pops, Below
<1>4. ch \subseteq Vars(va, m)
  <2> SUFFICES ASSUME NEW v \in ch
               PROVE  v \in Vars(va, m)
    OBVIOUS
  <2>1. InfoAt(m + 1, v, sc, va, c) /\ ~va[m + 1][v].decl
    BY <1>1 DEF Pops, HandsOn, LevelOK, VarsAt
  <2>2. \E j \in 1..m : DeclaredAt(va, j, v)
    BY <1>2, <2>1 DEF InfoAt
  <2> QED  BY <1>2, <2>2, InVars DEF DeclaredAt
<1>5. DOMAIN va1[m] = DOMAIN va[m] \cup ch
  BY DEF Pops, HandsOn
<1>6. \A v : v \in Vars(va1, m) <=> v \in Vars(va, m)
  <2>1. ASSUME NEW v \in Vars(va1, m)
        PROVE  v \in Vars(va, m)
    <3>1. PICK j \in 1..m : v \in DOMAIN va1[j]
      BY <1>2, InVars
    <3>2. v \in ch \/ v \in DOMAIN va[j]
      BY <1>2, <1>3, <1>5, <3>1
    <3> QED  BY <1>2, <1>4, <3>2, InVars
  <2>2. ASSUME NEW v \in Vars(va, m)
        PROVE  v \in Vars(va1, m)
    <3>1. PICK j \in 1..m : v \in DOMAIN va[j]
      BY <1>2, InVars
    <3>2. v \in DOMAIN va1[j]
      BY <1>2, <1>3, <1>5, <3>1
    <3> QED  BY <1>2, <3>2, InVars
  <2> QED  BY <2>1, <2>2
<1> QED  BY <1>6

LEMMA PopInfos ==
    ASSUME NEW m \in Nat \ {0}, NEW sc, NEW va, NEW pa, NEW c \in Nat,
           NEW sc1, NEW va1, NEW pa1, NEW ch, Pops(m, sc, va, pa, c, sc1, va1, pa1, ch)
    PROVE  VarsAt(m, sc1, va1, c)
<1>1. /\ LevelOK(m, m + 1, sc, va, pa, c) /\ LevelOK(m + 1, m + 1, sc, va, pa, c)
      /\ m > 1 /\ sc1[m].role \in IdleRoles => Idle(va1[m - 1])
  BY PopLevels
<1>2. HandsOn(m, va, va1, ch) /\ InfosOK(va[m]) /\ InfosOK(va[m + 1])
      /\ Below(m, sc, va, pa, sc1, va1, pa1) /\ sc1[m].role = sc[m].role /\ c <= c
  BY DEF Pops
<1>3. ASSUME NEW v \in DOMAIN va1[m]
      PROVE  InfoAt(m, v, sc1, va1, c)
  <2>1. CASE v \in DOMAIN va[m]
    <3>1. InfoAt(m, v, sc, va, c)
      BY <1>1, <2>1 DEF LevelOK, VarsAt
    <3>2. va[m][v].decl /\ va[m][v].num = 0 => va[m][v].pending = "none"
      BY <3>1 DEF InfoAt
    <3>3. va[m][v].num \in Nat
      BY <1>2, <2>1 DEF InfosOK, InfoOK
    <3>4. /\ va1[m][v].decl = va[m][v].decl
          /\ va1[m][v].decl /\ va1[m][v].num = 0 => va1[m][v].pending = "none"
      <4>1. CASE v \in ch
        <5>1. va1[m][v].decl = va[m][v].decl /\ va1[m][v].num = va[m][v].num + 1
          BY <1>2, <2>1, <4>1 DEF HandsOn
        <5>2. va1[m][v].num # 0
          BY ONLY <3>3, <5>1
        <5> QED  BY <5>1, <5>2
      <4>2. CASE v \notin ch
        BY <1>2, <2>1, <3>2, <4>2 DEF HandsOn
      <4> QED  BY <4>1, <4>2
    <3> QED  BY <1>2, <3>1, <3>4, InfoTop
  <2>2. CASE v \notin DOMAIN va[m]
    <3>1. v \in ch /\ v \in DOMAIN va[m + 1] /\ ~va[m + 1][v].decl /\ ~va1[m][v].decl
      BY <1>2, <2>2 DEF HandsOn
    <3>2. InfoAt(m + 1, v, sc, va, c)
      BY <1>1, <3>1 DEF LevelOK, VarsAt
    <3>3. /\ m + 1 - 1 = m /\ \A j \in 1..m : j = m \/ j \in 1..m - 1
          /\ \A k \in 1..m : k \in 1..m + 1 /\ (k = m \/ k \in 1..m - 1)
          /\ \A k \in 1..m : \A j \in k..m : j # m => j \in k..m - 1 /\ j \in 1..m - 1
          /\ \A j \in 1..m - 1 : j \in 1..m
      OBVIOUS
    <3>4. v \in Nat /\ v <= c
      BY <3>2 DEF InfoAt
    <3>5. /\ \A j \in 1..m - 1 : va1[j] = va[j]
          /\ \A k \in 1..m : sc1[k].role = sc[k].role
      BY <1>2, <3>3 DEF Below
    <3>6. ~DeclaredAt(va, m, v) /\ \A j \in 1..m - 1 : DeclaredAt(va1, j, v) <=> DeclaredAt(va, j, v)
      BY <2>2, <3>5 DEF DeclaredAt
    <3>7. \E j \in 1..m - 1 : DeclaredAt(va1, j, v)
      <4>1. PICK j \in 1..m : DeclaredAt(va, j, v)
        BY <3>1, <3>2, <3>3 DEF InfoAt
      <4> QED  BY <3>3, <3>6, <4>1
    <3>8. ASSUME NEW k \in 1..m, sc1[k].role = "defer"
          PROVE  \E j \in k..m - 1 : DeclaredAt(va1, j, v)
      <4>1. k \in 1..m + 1 /\ sc[k].role = "defer"
        BY <3>3, <3>5, <3>8
      <4>2. PICK j \in k..m : DeclaredAt(va, j, v)
        BY <3>1, <3>2, <3>3, <4>1 DEF InfoAt
      <4>3. j \in k..m - 1 /\ j \in 1..m - 1
        BY <3>3, <3>6, <4>2
      <4> QED  BY <3>6, <4>2, <4>3
    <3>9. ASSUME NEW j \in 1..m - 1,
                 v \in DOMAIN va1[j], ~va1[j][v].decl, va1[j][v].num = 0
          PROVE  j >= va1[j][v].index
      BY <3>2, <3>3, <3>5, <3>9 DEF InfoAt
    <3> QED  BY <3>1, <3>4, <3>7, <3>8, <3>9 DEF InfoAt
  <2> QED  BY <2>1, <2>2
<1> QED  BY <1>1, <1>3 DEF VarsAt

LEMMA PopEnv ==
    ASSUME NEW m \in Nat \ {0}, NEW sc, NEW va, NEW pa, NEW c \in Nat,
           NEW sc1, NEW va1, NEW pa1, NEW ch, Pops(m, sc, va, pa, c, sc1, va1, pa1, ch),
           pa1[m].now = pa[m].now
    PROVE  EnvAt(m, va1, pa1)
<1> SUFFICES ASSUME NEW e \in pa1[m].now
             PROVE  EnvOK(m, e, va1, pa1)
  BY DEF EnvAt
<1>1. /\ LevelOK(m, m + 1, sc, va, pa, c) /\ LevelOK(m + 1, m + 1, sc, va, pa, c)
      /\ SameVars(m, va, va1)
  BY PopLevels
<1>2. HandsOn(m, va, va1, ch) /\ InfosOK(va[m]) /\ InfosOK(va[m + 1])
      /\ Below(m, sc, va, pa, sc1, va1, pa1)
  BY DEF Pops
<1>3. Vars(va1, m) = Vars(va, m)
  BY PopVars
<1>4. EnvOK(m, e, va, pa)
  BY <1>1 DEF LevelOK, EnvAt
<1>5. ASSUME NEW v \in DOMAIN va1[m], Shows(va1[m][v])
      PROVE  v \in DOMAIN va[m] /\ Shows(va[m][v]) /\ va1[m][v].state = va[m][v].state
  <2>1. CASE v \notin ch
    BY <1>2, <1>5, <2>1 DEF HandsOn
  <2>2. CASE v \in ch \ DOMAIN va[m]
    BY <1>2, <1>5, <2>2 DEF HandsOn, Shows
  <2>3. CASE v \in ch \cap DOMAIN va[m]
    <3>1. /\ va1[m][v].decl = va[m][v].decl /\ va1[m][v].state = va[m][v].state
          /\ va1[m][v].num = va[m][v].num + 1
      BY <1>2, <2>3 DEF HandsOn
    <3>2. va[m][v].num \in Nat
      BY <1>2, <2>3 DEF InfosOK, InfoOK
    <3>3. va1[m][v].decl
      <4>1. va1[m][v].num # 0
        BY ONLY <3>1, <3>2
      <4> QED  BY <1>5, <4>1 DEF Shows
    <3> QED  BY <2>3, <3>1, <3>3 DEF Shows
  <2> QED  BY <2>1, <2>2, <2>3
<1>6. ASSUME NEW v, Hidden(m, va1[m], v)
      PROVE  Hidden(m, va[m], v)
  <2> SUFFICES ASSUME v \in DOMAIN va[m]
               PROVE  ~va[m][v].decl /\ va[m][v].num # 0 /\ ~(m >= va[m][v].index)
    BY DEF Hidden
  <2>1. v \in DOMAIN va1[m]
    BY <1>2 DEF HandsOn
  <2>2. ~va1[m][v].decl /\ va1[m][v].num # 0 /\ ~(m >= va1[m][v].index)
    BY <1>6, <2>1 DEF Hidden
  <2>3. CASE v \notin ch
    BY <1>2, <2>2, <2>3 DEF HandsOn
  <2>4. CASE v \in ch
    <3>1. ~va[m][v].decl /\ ~(m >= va[m][v].index)
      BY <1>2, <2>2, <2>4 DEF HandsOn
    <3>2. InfoAt(m + 1, v, sc, va, c)
      BY <1>1, <1>2, <2>4 DEF HandsOn, LevelOK, VarsAt
    <3>3. m \in 1..m + 1 - 1
      OBVIOUS
    <3>4. va[m][v].num = 0 => m >= va[m][v].index
      BY <3>1, <3>2, <3>3 DEF InfoAt
    <3> QED  BY <3>1, <3>4
  <2> QED  BY <2>3, <2>4
<1>7. pa1[m].now \subseteq pa[m].now
  OBVIOUS
<1>8. \A v \in DOMAIN va1[m] : Shows(va1[m][v]) =>
          v \in DOMAIN va[m] /\ Shows(va[m][v]) /\ va1[m][v].state = va[m][v].state
  BY <1>5
<1>9. \A v \in Vars(va, m - 1) : Hidden(m, va1[m], v) => Hidden(m, va[m], v)
  BY <1>6
<1>10. Below(m, sc, va, pa, sc1, va1, pa1)
  BY <1>2
<1> QED  BY ONLY <1>1, <1>3, <1>4, <1>7, <1>8, <1>9, <1>10, EnvTop, m \in Nat \ {0}

\* The environments in which the closed level m + 1 is left, as level m knows them
LeftAt(m, va, pa) == {[v \in Vars(va, m) |-> e[v]] : e \in pa[m + 1].now}

\* What e says, when control came to the statement with f
LeftIs(m, va, ch, e, f) ==
    /\ e \in [Vars(va, m) -> States]
    /\ \A v \in Vars(va, m) : e[v] = IF v \in ch THEN va[m + 1][v].state ELSE f[v]

LEMMA PopLeft ==
    ASSUME NEW m \in Nat \ {0}, NEW sc, NEW va, NEW pa, NEW c \in Nat,
           NEW sc1, NEW va1, NEW pa1, NEW ch, Pops(m, sc, va, pa, c, sc1, va1, pa1, ch),
           Idle(va[m + 1]), \A v \in DOMAIN va[m + 1] : ~va[m + 1][v].decl => v \in ch,
           NEW e \in LeftAt(m, va, pa), NEW f \in pa[m].now
    PROVE  LeftIs(m, va, ch, e, f)
<1>1. PICK g \in pa[m + 1].now : e = [v \in Vars(va, m) |-> g[v]]
  BY DEF LeftAt
<1>2. /\ m + 1 - 1 = m /\ m \in Nat /\ m + 1 \in Nat /\ m \in 1..m /\ m + 1 \in 1..m + 1
      /\ m <= m + 1 /\ \A k \in m + 1..m + 1 : k = m + 1
      /\ \A j \in 1..m : j \in 1..m + 1 - 1
  OBVIOUS
<1>3. VarsAt(m + 1, sc, va, c) /\ EnvOK(m + 1, g, va, pa)
  BY PopLevels DEF LevelOK, EnvAt
<1>4. Vars(va, m) \subseteq Vars(va, m + 1)
  BY <1>2, VarsMono
<1>5. g \in [Vars(va, m + 1) -> States]
  BY <1>3 DEF EnvOK
<1>6. ASSUME NEW v \in Vars(va, m)
      PROVE  g[v] = IF v \in ch THEN va[m + 1][v].state ELSE f[v]
  <2>1. CASE v \in ch
    <3>1. v \in DOMAIN va[m + 1]
      BY <2>1 DEF Pops, HandsOn
    <3>2. Shows(va[m + 1][v])
      BY <3>1 DEF Idle, Shows
    <3> QED  BY <1>3, <2>1, <3>1, <3>2 DEF EnvOK
  <2>2. CASE v \notin ch
    <3>1. v \notin DOMAIN va[m + 1]
      <4> SUFFICES ASSUME v \in DOMAIN va[m + 1]
                   PROVE  FALSE
        OBVIOUS
      <4>1. InfoAt(m + 1, v, sc, va, c) /\ va[m + 1][v].decl
        BY <1>3, <2>2 DEF VarsAt
      <4>2. PICK j \in 1..m : v \in DOMAIN va[j]
        BY <1>2, InVars
      <4> QED  BY <1>2, <4>1, <4>2 DEF InfoAt
    <3>2. Hidden(m + 1, va[m + 1], v)
      BY <3>1 DEF Hidden
    <3>3. \A k \in m + 1..m + 1 : Hidden(k, va[k], v)
      BY <1>2, <3>2
    <3>4. g[v] = f[v]
      BY <1>2, <1>3, <3>3 DEF EnvOK
    <3> QED  BY <2>2, <3>4
  <2> QED  BY <2>1, <2>2
<1> QED  BY <1>1, <1>4, <1>5, <1>6 DEF LeftIs

\* all sub-scopes had been left at their ends, and now all1 have.
LEMMA PopEnds ==
    ASSUME NEW m \in Nat \ {0}, NEW sc, NEW va, NEW pa, NEW c \in Nat,
           NEW sc1, NEW va1, NEW pa1, NEW ch, Pops(m, sc, va, pa, c, sc1, va1, pa1, ch),
           pa1[m].now = pa[m].now,
           Idle(va[m + 1]), NEW all \in Int, NEW all1 \in Int,
           EndAt(m, all, va, pa), \A v \in DOMAIN va[m] : va[m][v].num <= all,
           pa[m].ends # {} => all > 0,
           \/ all1 = all /\ ch = {} /\ pa1[m].ends = pa[m].ends
           \/ /\ all1 = all + 1 /\ pa1[m].ends = pa[m].ends \cup LeftAt(m, va, pa)
              /\ \A v \in DOMAIN va[m + 1] : ~va[m + 1][v].decl => v \in ch
    PROVE  EndAt(m, all1, va1, pa1)
<1> DEFINE V == Vars(va, m)
           known == va[m]
           infos == va1[m]
           top == va[m + 1]
<1>1. SUFFICES ASSUME NEW e \in pa1[m].ends, NEW f \in pa[m].now
               PROVE  EndOK(V, infos, all1, e, f)
  BY PopVars DEF EndAt
<1>2. HandsOn(m, va, va1, ch) /\ InfosOK(known) /\ InfosOK(top)
  BY DEF Pops
<1>3. \A v \in DOMAIN known : /\ known[v].num \in Nat
                              /\ known[v].decl /\ known[v].pending = "none" => known[v].num = 0
  BY <1>2 DEF InfosOK, InfoOK
<1>4. ASSUME e \in pa[m].ends
      PROVE  /\ e \in [V -> States] /\ all > 0
             /\ \A v \in V : IF v \in DOMAIN known /\ Waits(known[v])
                             THEN known[v].num = all => e[v] = New(known[v])
                             ELSE e[v] = f[v]
  BY <1>4 DEF EndAt, EndOK
<1>5. \A v \in DOMAIN known \ ch : infos[v] = known[v] /\ v \in DOMAIN infos
  BY <1>2 DEF HandsOn
<1>6. \A v \in DOMAIN infos : v \in ch \/ v \in DOMAIN known
  BY <1>2 DEF HandsOn
<1>7. \A v \in ch \cap DOMAIN known :
         /\ infos[v].decl = known[v].decl /\ infos[v].state = known[v].state
         /\ infos[v].num = known[v].num + 1
         /\ IF known[v].decl
            THEN infos[v].pending = top[v].state /\ known[v].pending \in {"none", top[v].state}
            ELSE known[v].state = top[v].state
  BY <1>2 DEF HandsOn
<1>8. \A v \in ch \ DOMAIN known :
             ~infos[v].decl /\ infos[v].num = 1 /\ infos[v].state = top[v].state
  BY <1>2 DEF HandsOn
<1>9. \A v \in ch : v \in DOMAIN top /\ top[v].state # "none"
  BY <1>2 DEF HandsOn, InfosOK, InfoOK, States
<1>10. ASSUME NEW v \in ch
       PROVE  v \in DOMAIN infos /\ Waits(infos[v]) /\ New(infos[v]) = top[v].state
  <2>1. v \in DOMAIN infos
    BY <1>2 DEF HandsOn
  <2>2. CASE v \in DOMAIN known
    <3>1. infos[v].num # 0
      <4>1. infos[v].num = known[v].num + 1 /\ known[v].num \in Nat
        BY <1>3, <1>7, <2>2
      <4> QED  BY ONLY <4>1
    <3> QED  BY <1>7, <1>9, <2>1, <2>2, <3>1 DEF Waits, New
  <2>3. CASE v \notin DOMAIN known
    BY <1>8, <2>1, <2>3 DEF Waits, New
  <2> QED  BY <2>2, <2>3
<1>11. CASE all1 = all /\ ch = {} /\ pa1[m].ends = pa[m].ends
  <2>1. DOMAIN infos = DOMAIN known
    BY <1>2, <1>11 DEF HandsOn
  <2> QED  BY <1>4, <1>5, <1>11, <2>1 DEF EndOK
<1>12. CASE /\ all1 = all + 1 /\ pa1[m].ends = pa[m].ends \cup LeftAt(m, va, pa)
            /\ \A v \in DOMAIN va[m + 1] : ~va[m + 1][v].decl => v \in ch
  <2>1. ASSUME e \in pa[m].ends, NEW v \in V
        PROVE  IF v \in DOMAIN infos /\ Waits(infos[v])
               THEN infos[v].num = all1 => e[v] = New(infos[v])
               ELSE e[v] = f[v]
    <3>1. CASE v \notin ch /\ v \in DOMAIN known
      <4>1. infos[v] = known[v] /\ v \in DOMAIN infos
        BY <1>5, <3>1
      <4>2. infos[v].num # all1
        <5>1. known[v].num <= all /\ known[v].num \in Nat
          BY <1>3, <3>1
        <5> QED  BY <1>12, <4>1, <5>1
      <4> QED  BY <1>4, <2>1, <3>1, <4>1, <4>2
    <3>2. CASE v \notin ch /\ v \notin DOMAIN known
      BY <1>4, <1>6, <2>1, <3>2
    <3>3. CASE v \in ch /\ v \notin DOMAIN known
      <4>1. infos[v].num = 1 /\ all > 0
        BY <1>4, <1>8, <2>1, <3>3
      <4>2. infos[v].num # all1
        BY <1>12, <4>1
      <4> QED  BY <1>10, <3>3, <4>2
    <3>4. CASE v \in ch /\ v \in DOMAIN known
      <4>1. infos[v].num = known[v].num + 1 /\ known[v].num \in Nat /\ all > 0
        BY <1>3, <1>4, <1>7, <2>1, <3>4
      <4>2. ASSUME infos[v].num = all1
            PROVE  e[v] = top[v].state
        <5>1. known[v].num = all /\ known[v].num # 0
          BY ONLY <1>12, <4>1, <4>2, all \in Int, all1 \in Int
        <5>2. Waits(known[v])
          BY <1>3, <3>4, <5>1 DEF Waits
        <5>3. e[v] = New(known[v])
          BY <1>4, <2>1, <3>4, <5>1, <5>2
        <5>4. New(known[v]) = top[v].state
          BY <1>7, <3>4, <5>2 DEF New, Waits
        <5> QED  BY <5>3, <5>4
      <4> QED  BY <1>10, <3>4, <4>2
    <3> QED  BY <3>1, <3>2, <3>3, <3>4
  <2>2. CASE e \in pa[m].ends
    BY <1>4, <2>1, <2>2 DEF EndOK
  <2>3. CASE e \in LeftAt(m, va, pa)
    <3>1. /\ e \in [V -> States]
          /\ \A v \in V : e[v] = IF v \in ch THEN top[v].state ELSE f[v]
      <4>1. Pops(m, sc, va, pa, c, sc1, va1, pa1, ch) /\ Idle(va[m + 1]) /\ f \in pa[m].now
        OBVIOUS
      <4>2. \A v \in DOMAIN va[m + 1] : ~va[m + 1][v].decl => v \in ch
        BY <1>12
      <4>3. LeftIs(m, va, ch, e, f)
        BY <2>3, <4>1, <4>2, PopLeft
      <4> QED  BY <4>3 DEF LeftIs
    <3>2. ASSUME NEW v \in V
          PROVE  IF v \in DOMAIN infos /\ Waits(infos[v])
                 THEN infos[v].num = all1 => e[v] = New(infos[v])
                 ELSE e[v] = f[v]
      <4>1. CASE v \in ch
        BY <1>10, <3>1, <4>1
      <4>2. CASE v \notin ch /\ v \in DOMAIN known
        <5>1. infos[v] = known[v]
          BY <1>5, <4>2
        <5>2. known[v].num <= all /\ known[v].num \in Nat
          BY <1>3, <4>2
        <5>3. infos[v].num # all1
          BY <1>12, <5>1, <5>2
        <5> QED  BY <3>1, <4>2, <5>3
      <4>3. CASE v \notin ch /\ v \notin DOMAIN known
        BY <1>6, <3>1, <4>3
      <4> QED  BY <4>1, <4>2, <4>3
    <3> QED  BY <3>1, <3>2 DEF EndOK
  <2> QED  BY <1>12, <2>2, <2>3
<1> QED  BY <1>11, <1>12

LeftJumpsAt(m, va, pa) ==
    {<<jp[1], jp[2], [v \in DOMAIN jp[3] \cap Vars(va, m) |-> jp[3][v]]>> : jp \in pa[m + 1].jumps}

\* A jump comes out of level m + 1.
LEMMA PopJump ==
    ASSUME NEW m \in Nat \ {0}, NEW sc, NEW va, NEW pa, NEW c \in Nat,
           LevelOK(m + 1, m + 1, sc, va, pa, c), NEW jp \in LeftJumpsAt(m, va, pa)
    PROVE  JumpAt(m, m + 1, jp, sc, va, pa, c)
<1>1. PICK j \in pa[m + 1].jumps :
          jp = <<j[1], j[2], [v \in DOMAIN j[3] \cap Vars(va, m) |-> j[3][v]]>>
  BY DEF LeftJumpsAt
<1> DEFINE e == [v \in DOMAIN j[3] \cap Vars(va, m) |-> j[3][v]]
<1>2. JumpAt(m + 1, m + 1, j, sc, va, pa, c)
  BY DEF LevelOK, JumpsAt
<1>3. jp[1] = j[1] /\ jp[2] = j[2] /\ jp[3] = e /\ jp = <<jp[1], jp[2], jp[3]>>
  BY <1>1
<1>4. /\ DOMAIN e = DOMAIN j[3] \cap Vars(va, m)
      /\ \A v \in DOMAIN e : e[v] = j[3][v]
  OBVIOUS
<1>5. e \in [DOMAIN e -> States]
  BY <1>2 DEF JumpAt, JumpOK
<1> HIDE DEF e
<1>6. JumpOK(m, jp, va, c)
  BY <1>2, <1>3, <1>4, <1>5 DEF JumpAt, JumpOK
<1>7. ASSUME NEW t \in 2..m + 1, sc[t].role \in Aimed
      PROVE  Lands(jp, sc[t].id, t, va, pa)
  <2>1. Lands(j, sc[t].id, t, va, pa)
    BY <1>2, <1>7 DEF JumpAt
  <2>2. t - 1 \in Nat /\ m \in Nat /\ t - 1 <= m
    OBVIOUS
  <2>3. Vars(va, t - 1) \subseteq Vars(va, m)
    BY <2>2, VarsMono
  <2> QED  BY <1>3, <1>4, <2>1, <2>3 DEF Lands
<1> QED  BY <1>6, <1>7 DEF JumpAt

LEMMA PopJumps ==
    ASSUME NEW m \in Nat \ {0}, NEW sc, NEW va, NEW pa, NEW c \in Nat,
           NEW sc1, NEW va1, NEW pa1, NEW ch, Pops(m, sc, va, pa, c, sc1, va1, pa1, ch),
           pa1[m].jumps = pa[m].jumps \cup LeftJumpsAt(m, va, pa)
    PROVE  JumpsAt(m, m, sc1, va1, pa1, c)
<1>1. LevelOK(m, m + 1, sc, va, pa, c) /\ LevelOK(m + 1, m + 1, sc, va, pa, c)
  BY PopLevels
<1>2. \A jp \in pa1[m].jumps : JumpAt(m, m + 1, jp, sc, va, pa, c)
  BY <1>1, PopJump DEF LevelOK, JumpsAt
<1>3. Below(m, sc, va, pa, sc1, va1, pa1) /\ sc1[m].role = sc[m].role /\ sc1[m].id = sc[m].id
  BY DEF Pops
<1>4. Vars(va, m) \subseteq Vars(va1, m)
  BY PopVars
<1>5. m \in 1..m + 1 /\ m + 1 \in Nat /\ m \in 1..m /\ c <= c
  OBVIOUS
<1>6. \A jp \in pa1[m].jumps : JumpAt(m, m, jp, sc1, va1, pa1, c)
  BY ONLY <1>2, <1>3, <1>4, <1>5, JumpTop, c \in Nat
<1> QED  BY <1>6 DEF JumpsAt

\* The jumps at the statement of level m + 1 come there with what is true
\* before the statement.
LandAt(m, id, va, pa) ==
    \A i \in 1..m : \A jp \in pa[i].jumps : Lands(jp, id, m + 1, va, pa)

LEMMA PopLands ==
    ASSUME NEW m \in Nat \ {0}, NEW sc, NEW va, NEW pa, NEW c \in Nat,
           NEW sc1, NEW va1, NEW pa1, NEW ch, Pops(m, sc, va, pa, c, sc1, va1, pa1, ch),
           pa1[m].now = pa[m].now,
           pa1[m].jumps = pa[m].jumps \cup LeftJumpsAt(m, va, pa),
           sc[m + 1].role \in Aimed
    PROVE  LandAt(m, sc[m + 1].id, va1, pa1)
<1> SUFFICES ASSUME NEW i \in 1..m, NEW jp \in pa1[i].jumps
             PROVE  Lands(jp, sc[m + 1].id, m + 1, va1, pa1)
  BY DEF LandAt
<1>1. LevelOK(m, m + 1, sc, va, pa, c) /\ LevelOK(m + 1, m + 1, sc, va, pa, c)
  BY PopLevels
<1>2. m + 1 \in 2..m + 1 /\ m + 1 - 1 = m /\ i \in 1..m + 1 /\ (i = m \/ i \in 1..m - 1)
  OBVIOUS
<1>3. JumpAt(i, m + 1, jp, sc, va, pa, c)
  <2>1. CASE i = m
    <3>1. \A j \in pa1[m].jumps : JumpAt(m, m + 1, j, sc, va, pa, c)
      BY <1>1, PopJump DEF LevelOK, JumpsAt
    <3> QED  BY <2>1, <3>1
  <2>2. CASE i \in 1..m - 1
    <3>1. pa1[i] = pa[i]
      BY <2>2 DEF Pops, Below
    <3> QED  BY <1>2, <3>1 DEF Pops, Agree, LevelOK, JumpsAt
  <2> QED  BY <1>2, <2>1, <2>2
<1>4. Lands(jp, sc[m + 1].id, m + 1, va, pa)
  BY <1>2, <1>3 DEF JumpAt
<1>5. Vars(va1, m) = Vars(va, m)
  BY PopVars
<1> QED  BY <1>2, <1>4, <1>5 DEF Lands

LEMMA PopAgree ==
    ASSUME NEW m \in Nat \ {0}, NEW sc, NEW va, NEW pa, NEW c \in Nat,
           NEW sc1, NEW va1, NEW pa1, NEW ch, Pops(m, sc, va, pa, c, sc1, va1, pa1, ch),
           pa1[m].now = pa[m].now,
           pa1[m].jumps = pa[m].jumps \cup LeftJumpsAt(m, va, pa),
           EndAt(m, All(m, m, sc1[m]), va1, pa1)
    PROVE  Agree(m, sc1, va1, pa1, c)
<1>1. LevelOK(m, m, sc1, va1, pa1, c)
  BY PopLevels, PopInfos, PopEnv, PopJumps DEF LevelOK
<1>2. m \in 1..m + 1 /\ m + 1 \in Nat /\ c <= c
  OBVIOUS
<1>3. /\ Agree(m + 1, sc, va, pa, c) /\ Below(m, sc, va, pa, sc1, va1, pa1)
      /\ sc1[m].role = sc[m].role /\ sc1[m].id = sc[m].id
  BY DEF Pops
<1> QED  BY ONLY <1>1, <1>2, <1>3, AgreeTop, c \in Nat

-----------------------------------------------------------------------------
(* The closing of the innermost level *)

PInv == VInv /\ Live /\ AgreeNow

LEMMA Now ==
    ASSUME PInv, phase = "sema"
    PROVE  /\ BInv /\ Vals /\ Live /\ IInv /\ count \in Nat
           /\ Depth \in Nat \ {0} /\ Depth \in 1..Depth /\ Depth = Len(scopes)
           /\ Agree(Depth, scopes, values, paths, count)
           /\ ValsOK(Depth, scopes, values)
           /\ HavePaths /\ LiveOK(Depth, scopes, paths)
           /\ Top = scopes[Depth] /\ Top \in Level /\ Counted(Top)
BY LiveNow DEF PInv, VInv, AgreeNow, Vals, BInv, CountOK

\* What setIdentValueStateFromSubScope makes of the infos
LEMMA FromSubScopeInfos ==
    ASSUME InfosOK(Known), InfosOK(values[Depth])
    PROVE  /\ DOMAIN FromSubScope = DOMAIN Known \cup Changes
           /\ \A v \in DOMAIN Known \ Changes : FromSubScope[v] = Known[v]
           /\ \A v \in Changes \ DOMAIN Known :
                 /\ ~FromSubScope[v].decl /\ FromSubScope[v].num = 1
                 /\ FromSubScope[v].state = values[Depth][v].state
           /\ \A v \in Changes \cap DOMAIN Known :
                 /\ FromSubScope[v].decl = Known[v].decl
                 /\ FromSubScope[v].state = Known[v].state
                 /\ FromSubScope[v].num = Known[v].num + 1
                 /\ FromSubScope[v].index = Known[v].index
                 /\ Known[v].decl => FromSubScope[v].pending = values[Depth][v].state
<1> DEFINE r == FromSubScope
<1>1. DOMAIN r = DOMAIN Known \cup Changes
  BY DEF FromSubScope
<1>2. \A v \in DOMAIN Known \ Changes : r[v] = Known[v]
  BY DEF FromSubScope
<1>3. ASSUME NEW v \in Changes \ DOMAIN Known
      PROVE  ~r[v].decl /\ r[v].num = 1 /\ r[v].state = values[Depth][v].state
  <2>1. r[v] = ModifyInfo(Known, values[Depth][v].state, 1)
    BY DEF FromSubScope
  <2> HIDE DEF r
  <2> QED  BY <2>1 DEF ModifyInfo
<1>4. ASSUME NEW v \in Changes \cap DOMAIN Known
      PROVE  /\ r[v].decl = Known[v].decl /\ r[v].state = Known[v].state
             /\ r[v].num = Known[v].num + 1 /\ r[v].index = Known[v].index
             /\ Known[v].decl => r[v].pending = values[Depth][v].state
  <2>1. r[v] = [Known[v] EXCEPT !.num = @ + 1,
                   !.pending = IF Known[v].decl THEN values[Depth][v].state ELSE @]
    BY DEF FromSubScope
  <2>2. {"decl", "state", "pending", "num", "index"} \subseteq DOMAIN Known[v]
    BY DEF InfosOK, InfoOK
  <2> DEFINE f == Known[v]
             s == IF Known[v].decl THEN values[Depth][v].state ELSE Known[v].pending
             g == r[v]
  <2>3. g = [f EXCEPT !.num = f.num + 1, !.pending = s]
    BY <2>1
  <2>4. f.decl => s = values[Depth][v].state
    OBVIOUS
  <2>5. {"decl", "state", "pending", "num", "index"} \subseteq DOMAIN f
    BY <2>2
  <2> HIDE DEF f, s, g
  <2>6. /\ g.decl = f.decl /\ g.state = f.state
        /\ g.num = f.num + 1 /\ g.index = f.index /\ g.pending = s
    BY ONLY <2>3, <2>5
  <2> QED  BY <2>4, <2>6 DEF f, g
<1> HIDE DEF r
<1> QED  BY <1>1, <1>2, <1>3, <1>4 DEF r

LEMMA ClosingHandsOn ==
    ASSUME InfosOK(Known), InfosOK(values[Depth]), ~Disagree, NEW m \in Nat, Depth = m + 1,
           NEW va1, va1[m] = FromSubScope
    PROVE  HandsOn(m, values, va1, Changes)
<1>1. Known = values[m] /\ values[Depth] = values[m + 1] /\ m + 1 - 1 = m
  BY DEF Known
<1>2. \A v \in Changes : v \in DOMAIN values[Depth] /\ ~values[Depth][v].decl
  BY DEF Changes, ChangedAt
<1>3. \A v \in Changes \cap DOMAIN Known :
          IF Known[v].decl THEN Known[v].pending \in {"none", values[Depth][v].state}
          ELSE Known[v].state = values[Depth][v].state
  BY DEF Disagree
<1> QED  BY <1>1, <1>2, <1>3, FromSubScopeInfos DEF HandsOn

\* What leaves the level, as its parent knows it
LEMMA ClosingLeft ==
    ASSUME PInv, phase = "sema", Top.role # "func", ~InSwitch,
           NEW m \in Nat \ {0}, Depth = m + 1
    PROVE  Left = LeftAt(m, values, paths) /\ LeftByJumps = LeftJumpsAt(m, values, paths)
<1>1. /\ BInv /\ Live /\ Agree(m + 1, scopes, values, paths, count)
      /\ m + 1 \in 1..m + 1 /\ m \in 1..m + 1 /\ m + 1 - 1 = m /\ m \in Nat
      /\ m + 1 \in Nat /\ m <= m + 1
  BY Now
<1>2. Met(paths[m + 1]) => paths[m].now # {}
  BY <1>1, Closing
<1> DEFINE V == Vars(values, m)
           U == UNION {DOMAIN f : f \in paths[m].now}
<1>3. \A f \in paths[m].now : f \in [V -> States]
  BY <1>1 DEF Agree, LevelOK, EnvAt, EnvOK
<1>4. paths[m].now # {} => U = V
  <2>1. \A f \in paths[m].now : DOMAIN f = V
    BY <1>3
  <2> QED  BY <2>1
<1>5. Met(paths[m + 1]) => U = V
  BY <1>2, <1>4
<1>6. paths[Depth - 1] = paths[m] /\ paths[Depth] = paths[m + 1]
  BY <1>1
<1>7. Left = LeftAt(m, values, paths)
  <2>1. ASSUME NEW e \in paths[m + 1].now
        PROVE  Outside(e) = [v \in V |-> e[v]]
    <3>1. e \in [Vars(values, m + 1) -> States]
      BY <1>1 DEF Agree, LevelOK, EnvAt, EnvOK
    <3>2. V \subseteq Vars(values, m + 1)
      BY <1>1, VarsMono
    <3>3. U = V
      BY <1>5 DEF Met
    <3>4. DOMAIN e \cap U = V
      BY <3>1, <3>2, <3>3
    <3> QED  BY <1>6, <3>4 DEF Outside
  <2> QED  BY <1>6, <2>1 DEF Left, LeftAt
<1>8. LeftByJumps = LeftJumpsAt(m, values, paths)
  <2>1. ASSUME NEW jp \in paths[m + 1].jumps
        PROVE  Outside(jp[3]) = [v \in DOMAIN jp[3] \cap V |-> jp[3][v]]
    <3>1. U = V
      BY <1>5 DEF Met
    <3> QED  BY <1>6, <3>1 DEF Outside
  <2>2. \A jp \in paths[m + 1].jumps :
            <<jp[1], jp[2], Outside(jp[3])>>
                = <<jp[1], jp[2], [v \in DOMAIN jp[3] \cap V |-> jp[3][v]]>>
    BY <2>1
  <2>3. \A x : x \in LeftByJumps <=>
            \E jp \in paths[m + 1].jumps : x = <<jp[1], jp[2], Outside(jp[3])>>
    BY <1>6 DEF LeftByJumps
  <2>4. \A x : x \in LeftJumpsAt(m, values, paths) <=>
            \E jp \in paths[m + 1].jumps :
                x = <<jp[1], jp[2], [v \in DOMAIN jp[3] \cap V |-> jp[3][v]]>>
    BY DEF LeftJumpsAt
  <2>5. \A x : x \in LeftByJumps <=> x \in LeftJumpsAt(m, values, paths)
    BY ONLY <2>2, <2>3, <2>4
  <2> QED  BY <2>5
<1> QED  BY <1>7, <1>8

\* What becomes of the parent
Taken(m, l, sc1, va1, pa1) ==
    /\ Below(m, scopes, values, paths, sc1, va1, pa1)
    /\ sc1[m].role = Parent.role /\ sc1[m].id = Parent.id
    /\ sc1[m].nsub = l.nsub /\ sc1[m].nterm = l.nterm
    /\ va1[m] = FromSubScope /\ pa1[m] = Joined

LEMMA ClosingAgrees ==
    ASSUME PInv, phase = "sema", Top.role # "func", ~InSwitch, ~Disagree,
           NEW m \in Nat \ {0}, Depth = m + 1,
           NEW sc1, NEW va1, NEW pa1, Taken(m, ParentAfter, sc1, va1, pa1)
    PROVE  /\ Agree(m, sc1, va1, pa1, count)
           /\ Top.role \in Aimed => LandAt(m, Top.id, va1, pa1)
<1>1. /\ BInv /\ Vals /\ Live /\ Agree(m + 1, scopes, values, paths, count)
      /\ m + 1 \in 1..m + 1 /\ m \in 1..m + 1 /\ m + 1 - 1 = m /\ m \in Nat
      /\ ValsOK(m + 1, scopes, values) /\ count \in Nat /\ Top \in Level
      /\ Top = scopes[m + 1]
  BY Now
<1>2. /\ InfosOK(values[m]) /\ InfosOK(values[m + 1]) /\ Fits(values[m], scopes[m], 1)
  BY <1>1 DEF ValsOK
<1>3. Known = values[m] /\ values[Depth] = values[m + 1] /\ Parent = scopes[m]
  BY <1>1 DEF Known, Parent
<1>4. Pops(m, scopes, values, paths, count, sc1, va1, pa1, Changes)
  <2>1. HandsOn(m, values, va1, Changes)
    BY <1>1, <1>2, <1>3, ClosingHandsOn DEF Taken
  <2> QED  BY <1>1, <1>2, <1>3, <2>1 DEF Pops, Taken
<1>5. Left = LeftAt(m, values, paths) /\ LeftByJumps = LeftJumpsAt(m, values, paths)
  BY ClosingLeft
<1>6. /\ Joined = [now |-> paths[m].now, ends |-> paths[m].ends \cup Left,
                   jumps |-> paths[m].jumps \cup LeftByJumps]
      /\ paths[m + 1].now # {} => ~IsTerminated(Top)
      /\ paths[m].ends # {} => Parent.nterm + 1 < Parent.nsub
      /\ Parent \in Level
      /\ ParentAfter.nsub = Parent.nsub
      /\ ParentAfter.nterm = Parent.nterm + IF IsTerminated(Top) THEN 1 ELSE 0
  BY <1>1, Closing
<1>7. /\ pa1[m].now = paths[m].now /\ pa1[m].ends = paths[m].ends \cup LeftAt(m, values, paths)
      /\ pa1[m].jumps = paths[m].jumps \cup LeftJumpsAt(m, values, paths)
  BY <1>5, <1>6 DEF Taken
<1>8. Idle(values[m + 1])
  BY <1>1, NothingWaits
<1> DEFINE all == All(m, m + 1, scopes[m])
           all1 == All(m, m, sc1[m])
<1>9. /\ Parent.nsub \in Nat /\ Parent.nterm \in Nat
      /\ all = Parent.nsub - Parent.nterm - 1 /\ all \in Int
      /\ all1 = (IF IsTerminated(Top) THEN all ELSE all + 1) /\ all1 \in Int
  <2>1. Parent.nsub \in Nat /\ Parent.nterm \in Nat
    BY <1>6, LevelFields
  <2>2. all = Parent.nsub - Parent.nterm - 1
    BY <1>3 DEF All
  <2>3. sc1[m].nsub = Parent.nsub
        /\ sc1[m].nterm = Parent.nterm + IF IsTerminated(Top) THEN 1 ELSE 0
    BY <1>6 DEF Taken
  <2>4. all1 = sc1[m].nsub - sc1[m].nterm - 0
    BY DEF All
  <2> HIDE DEF all, all1
  <2>5. CASE IsTerminated(Top)
    BY <2>1, <2>2, <2>3, <2>4, <2>5
  <2>6. CASE ~IsTerminated(Top)
    BY <2>1, <2>2, <2>3, <2>4, <2>6
  <2> QED  BY <2>1, <2>2, <2>5, <2>6
<1>10. EndAt(m, all, values, paths)
  BY <1>1 DEF Agree, LevelOK
<1>11. \A v \in DOMAIN values[m] : values[m][v].num <= all
  <2>1. \A v \in DOMAIN values[m] : values[m][v].num \in Nat
    BY <1>2 DEF InfosOK, InfoOK
  <2>2. \A v \in DOMAIN values[m] : values[m][v].num + 1 <= Parent.nsub - Parent.nterm
    BY <1>2, <1>3 DEF Fits
  <2> HIDE DEF all, all1
  <2> QED  BY <1>9, <2>1, <2>2
<1>12. paths[m].ends # {} => all > 0
  <2> HIDE DEF all, all1
  <2> QED  BY <1>6, <1>9
<1> HIDE DEF all, all1
<1>13. EndAt(m, all1, va1, pa1)
  <2>1. CASE IsTerminated(Top)
    <3>1. Changes = {}
      BY <2>1 DEF Changes
    <3>2. LeftAt(m, values, paths) = {}
      BY <1>6, <2>1 DEF LeftAt
    <3>3. pa1[m].ends = paths[m].ends /\ all1 = all
      BY <1>7, <1>9, <2>1, <3>2
    <3>4. EndAt(m, all1, va1, pa1)
      BY ONLY <1>1, <1>4, <1>7, <1>8, <1>9, <1>10, <1>11, <1>12, <3>1, <3>3, PopEnds,
              m \in Nat \ {0}
    <3> QED  BY <3>4
  <2>2. CASE ~IsTerminated(Top)
    <3>1. \A v \in DOMAIN values[m + 1] : ~values[m + 1][v].decl => v \in Changes
      BY <1>3, <2>2 DEF Changes, ChangedAt
    <3>2. all1 = all + 1
      BY <1>9, <2>2
    <3>3. EndAt(m, all1, va1, pa1)
      BY ONLY <1>1, <1>4, <1>7, <1>8, <1>9, <1>10, <1>11, <1>12, <3>1, <3>2, PopEnds,
              m \in Nat \ {0}
    <3> QED  BY <3>3
  <2> QED  BY <2>1, <2>2
<1>14. EndAt(m, All(m, m, sc1[m]), va1, pa1)
  BY <1>13 DEF all1
<1>15. Agree(m, sc1, va1, pa1, count)
  BY <1>1, <1>4, <1>7, <1>14, PopAgree
<1>16. Top.role \in Aimed => LandAt(m, Top.id, va1, pa1)
  BY <1>1, <1>4, <1>7, PopLands
<1> QED  BY <1>15, <1>16

Middle(m, sc1, va1, pa1) ==
    /\ Taken(m, ParentAfter, sc1, va1, pa1)
    /\ Agree(m, sc1, va1, pa1, count)
    /\ Top.role \in Aimed => LandAt(m, Top.id, va1, pa1)

LEMMA ParentId ==
    ASSUME Parent \in Level
    PROVE  ParentAfter.id = Parent.id
BY DEF ParentAfter, CountClosed, Level

LEMMA ClosingMiddle ==
    ASSUME PInv, phase = "sema", Top.role # "func", ~InSwitch, ~Disagree,
           NEW m \in Nat \ {0}, Depth = m + 1
    PROVE  \E sc1, va1, pa1 : Middle(m, sc1, va1, pa1)
<1>1. /\ BInv /\ Vals /\ Live /\ IInv /\ ValsOK(Depth, scopes, values) /\ HavePaths
      /\ Depth = Len(scopes) /\ m + 1 - 1 = m
  BY Now
<1>2. Parent \in Level /\ Parent = scopes[m]
  BY <1>1, Closing
<1>3. ParentAfter.role = Parent.role /\ ParentAfter.id = Parent.id
  BY <1>1, <1>2, ParentCounted, ParentId
<1>4. PICK S : values \in Seq(S)
  BY <1>1 DEF ValsOK
<1>5. PICK P : paths \in Seq(P)
  BY <1>1 DEF HavePaths, AnySeq
<1>6. scopes \in Seq(Level)
  BY <1>1 DEF IInv, LevelsOK
<1>7. m \in DOMAIN scopes /\ m \in DOMAIN values /\ m \in DOMAIN paths
  <2>1. Len(values) = m + 1 /\ Len(paths) = m + 1 /\ Len(scopes) = m + 1
    BY <1>1 DEF ValsOK, HavePaths
  <2>2. m \in 1..m + 1
    OBVIOUS
  <2> QED  BY <1>4, <1>5, <1>6, <2>1, <2>2
<1> DEFINE sc1 == [scopes EXCEPT ![m] = ParentAfter]
           va1 == [values EXCEPT ![m] = FromSubScope]
           pa1 == [paths EXCEPT ![m] = Joined]
<1>8. sc1[m] = ParentAfter /\ va1[m] = FromSubScope /\ pa1[m] = Joined
  BY <1>7
<1>9. Below(m, scopes, values, paths, sc1, va1, pa1)
  BY DEF Below
<1> HIDE DEF sc1, va1, pa1
<1>10. Taken(m, ParentAfter, sc1, va1, pa1)
  BY <1>3, <1>8, <1>9 DEF Taken
<1>11. Middle(m, sc1, va1, pa1)
  BY <1>10, ClosingAgrees DEF Middle
<1> QED  BY <1>11

\* An info that counts no sub-scope does not wait for their end.
LEMMA CountsNone ==
    ASSUME PInv, phase = "sema", Top.role # "func", ~InSwitch, ~Disagree,
           NEW v \in DOMAIN FromSubScope, FromSubScope[v].num = 0
    PROVE  ~Waits(FromSubScope[v])
<1>1. Depth - 1 \in Nat \ {0} /\ Depth = (Depth - 1) + 1
  BY Now, OuterOK
<1>2. PICK sc1, va1, pa1 : Middle(Depth - 1, sc1, va1, pa1)
  BY <1>1, ClosingMiddle
<1>3. Depth - 1 \in 1..Depth - 1
  BY <1>1
<1>4. VarsAt(Depth - 1, sc1, va1, count) /\ va1[Depth - 1] = FromSubScope
  BY <1>2, <1>3 DEF Middle, Taken, Agree, LevelOK
<1> QED  BY <1>4 DEF VarsAt, InfoAt, Waits

\* If no change waits, control leaves the closed blocks as it came.
LEMMA ClosingEnds ==
    ASSUME PInv, phase = "sema", Top.role # "func", ~InSwitch, ~Disagree,
           NoWaits(FromSubScope)
    PROVE  Joined.ends \subseteq Joined.now
<1>1. Depth - 1 \in Nat \ {0} /\ Depth = (Depth - 1) + 1 /\ BInv /\ Live
  BY Now, OuterOK
<1>2. PICK sc1, va1, pa1 : Middle(Depth - 1, sc1, va1, pa1)
  BY <1>1, ClosingMiddle
<1> DEFINE m == Depth - 1
<1>3. m \in 1..m
  BY <1>1
<1>4. LevelOK(m, m, sc1, va1, pa1, count) /\ va1[m] = FromSubScope /\ pa1[m] = Joined
  BY <1>2, <1>3 DEF Middle, Taken, Agree
<1>5. Joined.ends # {} => Joined.now # {}
  <2>1. /\ Joined = [now |-> paths[m].now, ends |-> paths[m].ends \cup Left,
                     jumps |-> paths[m].jumps \cup LeftByJumps]
        /\ Left # {} => paths[Depth].now # {}
        /\ Met(paths[Depth]) => paths[m].now # {}
        /\ LiveAt(Parent, paths[m])
    BY <1>1, Closing
  <2> HIDE DEF m
  <2> QED  BY <2>1 DEF LiveAt, Met
<1> HIDE DEF m
<1> QED  BY <1>4, <1>5, NoWaitEnds

LEMMA ClosingJumps ==
    ASSUME PInv, phase = "sema", Top.role \in Aimed, ~InSwitch, ~Disagree, NEW kind
    PROVE  By(Joined.jumps, kind, Top.id) \subseteq Joined.now
<1>1. Top.role # "func"
  BY DEF Aimed, LoopRoles
<1>2. Depth - 1 \in Nat \ {0} /\ Depth = (Depth - 1) + 1
  BY <1>1, Now, OuterOK
<1>3. PICK sc1, va1, pa1 : Middle(Depth - 1, sc1, va1, pa1)
  BY <1>1, <1>2, ClosingMiddle
<1> DEFINE m == Depth - 1
<1>4. m \in 1..m /\ m \in Nat
  BY <1>2
<1>5. LevelOK(m, m, sc1, va1, pa1, count) /\ pa1[m] = Joined
      /\ \A jp \in pa1[m].jumps : Lands(jp, Top.id, m + 1, va1, pa1)
  BY <1>3, <1>4 DEF Middle, Taken, Agree, LandAt
<1> HIDE DEF m
<1> QED  BY <1>4, <1>5, LandsNow

-----------------------------------------------------------------------------
(* The statements at whose ends no change waits *)

\* The constructs that change a state on a way the analyzer does not follow
StatesFollowed == {"misjudged", "loopChange", "jumpChange", "deferValue"} \cap Corners = {}

\* What is known of the parent and its infos when a level is closed
LEMMA ClosingKnown ==
    ASSUME PInv, phase = "sema", Top.role # "func", ~InSwitch
    PROVE  /\ InfosOK(Known) /\ InfosOK(values[Depth]) /\ Fits(Known, Parent, 1)
           /\ Parent.nsub \in Nat /\ Parent.nterm \in Nat
           /\ CountsFit(Parent, Top.role)
           /\ ParentAfter.nsub = Parent.nsub
           /\ ParentAfter.nterm = Parent.nterm + IF IsTerminated(Top) THEN 1 ELSE 0
           /\ Top.role \in IdleRoles => Idle(Known)
           /\ InfosOK(FromSubScope) /\ Fits(FromSubScope, ParentAfter, 0)
<1>1. /\ BInv /\ Vals /\ Live /\ IInv /\ ValsOK(Depth, scopes, values)
      /\ Agree(Depth, scopes, values, paths, count) /\ Depth \in 1..Depth
  BY Now
<1>2. Depth - 1 \in Nat \ {0} /\ Depth - 1 \in 1..Depth /\ Depth - 1 \in 1..Depth - 1
  <2>1. Depth - 1 \in Nat \ {0} /\ Depth = (Depth - 1) + 1
    BY <1>1, OuterOK
  <2> QED  BY <2>1
<1>3. InfosOK(values[Depth - 1]) /\ InfosOK(values[Depth])
      /\ Fits(values[Depth - 1], scopes[Depth - 1], 1)
  BY <1>1, <1>2 DEF ValsOK
<1>4. VarsAt(Depth, scopes, values, count) /\ Depth > 1
  BY <1>1, <1>2 DEF Agree, LevelOK
<1>5. Top.role \in IdleRoles => Idle(Known)
  BY <1>4 DEF VarsAt, Top, Known
<1>6. Parent \in Level /\ Parent = scopes[Depth - 1] /\ CountsFit(Parent, Top.role)
      /\ ParentAfter.nsub = Parent.nsub
      /\ ParentAfter.nterm = Parent.nterm + IF IsTerminated(Top) THEN 1 ELSE 0
  BY <1>1, Closing
<1>7. Parent.nsub \in Nat /\ Parent.nterm \in Nat
  BY <1>6, LevelFields
<1>8. InfosOK(FromSubScope) /\ Fits(FromSubScope, ParentAfter, 0)
  BY <1>1, FromSubScopeOK
<1> QED  BY <1>3, <1>5, <1>6, <1>7, <1>8 DEF Known

\* The block of a loop or of a defer changes nothing outside it.
LEMMA NothingHandedOn ==
    ASSUME PInv, phase = "sema", StatesFollowed, CanHandOn,
           Top.role \in LoopRoles \cup {"forElse", "defer"}
    PROVE  Changes = {}
<1>1. CASE Top.role # "defer"
  BY <1>1 DEF CanHandOn, CornerOK, StatesFollowed
<1>2. CASE Top.role = "defer"
  <2>1. Agree(Depth, scopes, values, paths, count) /\ Depth \in 1..Depth /\ Depth \in Nat
    BY Now
  <2>2. \A j \in Depth..Depth - 1 : FALSE
    BY <2>1
  <2>3. ASSUME NEW v \in ChangedAt(Depth)
        PROVE  FALSE
    <3>1. v \in DOMAIN values[Depth] /\ ~values[Depth][v].decl
      BY <2>3 DEF ChangedAt
    <3>2. InfoAt(Depth, v, scopes, values, count)
      BY <2>1, <3>1 DEF Agree, LevelOK, VarsAt
    <3>3. \A k \in 1..Depth : scopes[k].role = "defer" =>
              \E j \in k..Depth - 1 : DeclaredAt(values, j, v)
      BY <3>1, <3>2 DEF InfoAt
    <3> QED  BY <1>2, <2>1, <2>2, <3>3 DEF Top
  <2> QED  BY <2>3 DEF Changes
<1> QED  BY <1>1, <1>2

LEMMA NoneWaits ==
    ASSUME PInv, phase = "sema", ~InSwitch, ~Disagree, StatesFollowed, CanHandOn,
           \/ Top.role \in LoopRoles \cup {"forElse", "defer"}
           \/ Top.role = "tryElse" /\ ~Undetermined(FromSubScope, ParentAfter)
           \/ Top.role = "then" /\ ~Undetermined(FromSubScope, AddSubScope(ParentAfter))
    PROVE  NoWaits(FromSubScope)
<1> SUFFICES ASSUME NEW v \in DOMAIN FromSubScope
             PROVE  ~Waits(FromSubScope[v])
  BY DEF NoWaits
<1>1. Top.role # "func"
  BY DEF LoopRoles
<1>2. /\ InfosOK(Known) /\ InfosOK(values[Depth]) /\ Fits(Known, Parent, 1)
      /\ Parent.nsub \in Nat /\ Parent.nterm \in Nat
      /\ CountsFit(Parent, Top.role)
      /\ ParentAfter.nsub = Parent.nsub
      /\ ParentAfter.nterm = Parent.nterm + IF IsTerminated(Top) THEN 1 ELSE 0
      /\ Top.role \in IdleRoles => Idle(Known)
      /\ InfosOK(FromSubScope) /\ Fits(FromSubScope, ParentAfter, 0)
  BY <1>1, ClosingKnown
<1>3. /\ DOMAIN FromSubScope = DOMAIN Known \cup Changes
      /\ \A u \in DOMAIN Known \ Changes : FromSubScope[u] = Known[u]
      /\ \A u \in Changes \ DOMAIN Known : FromSubScope[u].num = 1
      /\ \A u \in Changes \cap DOMAIN Known : FromSubScope[u].num = Known[u].num + 1
  BY <1>2, FromSubScopeInfos
<1>4. FromSubScope[v].num = 0 => ~Waits(FromSubScope[v])
  BY <1>1, CountsNone
<1>5. \A u \in DOMAIN Known : Known[u].num \in Nat /\ Known[u].num + 1 <= Parent.nsub - Parent.nterm
  BY <1>2 DEF InfosOK, InfoOK, Fits
<1>6. ASSUME Changes = {}, Idle(Known)
      PROVE  FromSubScope[v].num = 0
  BY <1>3, <1>6 DEF Idle
<1>7. CASE Top.role \in LoopRoles \cup {"defer"}
  <2>1. Parent.nsub = 1 /\ Parent.nterm = 0
    BY <1>2, <1>7 DEF CountsFit, LoopRoles
  <2>2. Idle(Known)
    <3>1. \A u \in DOMAIN Known : Known[u].num \in Nat /\ Known[u].num + 1 <= 1 - 0
      BY <1>5, <2>1
    <3> QED  BY <3>1 DEF Idle
  <2> QED  BY <1>4, <1>6, <1>7, <2>2, NothingHandedOn
<1>8. CASE Top.role = "forElse"
  BY <1>2, <1>4, <1>6, <1>8, NothingHandedOn DEF IdleRoles
<1>9. CASE Top.role = "tryElse" /\ ~Undetermined(FromSubScope, ParentAfter)
  <2>1. Idle(Known) /\ Parent.nsub = 2 /\ Parent.nterm = 0
    BY <1>2, <1>9 DEF IdleRoles, CountsFit
  <2>2. CASE IsTerminated(Top)
    <3>1. Changes = {}
      BY <2>2 DEF Changes
    <3> QED  BY <1>4, <1>6, <2>1, <3>1
  <2>3. CASE ~IsTerminated(Top)
    <3>1. ParentAfter.nsub = 2 /\ ParentAfter.nterm = 0
      BY <1>2, <2>1, <2>3
    <3>2. FromSubScope[v].num \in {0, 1}
      BY <1>3, <2>1 DEF Idle
    <3>3. Waits(FromSubScope[v]) => FromSubScope[v].num = 2 - 0
      BY <1>9, <3>1 DEF Undetermined
    <3> QED  BY <3>2, <3>3
  <2> QED  BY <2>2, <2>3
<1>10. CASE Top.role = "then" /\ ~Undetermined(FromSubScope, AddSubScope(ParentAfter))
  <2>1. AddSubScope(ParentAfter).nsub = Parent.nsub + 1
        /\ AddSubScope(ParentAfter).nterm = ParentAfter.nterm
    <3>1. ParentAfter \in Level
      BY <1>1, Now, ParentCounted
    <3> QED  BY <1>2, <3>1 DEF AddSubScope, Level
  <2>2. Waits(FromSubScope[v]) =>
            FromSubScope[v].num = (Parent.nsub + 1) - ParentAfter.nterm
    <3>1. Waits(FromSubScope[v]) =>
              FromSubScope[v].num
                  = AddSubScope(ParentAfter).nsub - AddSubScope(ParentAfter).nterm
      BY ONLY <1>10, v \in DOMAIN FromSubScope DEF Undetermined
    <3> QED  BY ONLY <2>1, <3>1
  <2>3. FromSubScope[v].num \in Nat /\ FromSubScope[v].num + 0 <= Parent.nsub - ParentAfter.nterm
    BY <1>2 DEF InfosOK, InfoOK, Fits
  <2>4. ParentAfter.nterm \in Nat
    BY <1>2
  <2>5. Parent.nsub \in Nat
    BY <1>2
  <2> QED  BY ONLY <2>2, <2>3, <2>4, <2>5
<1> QED  BY <1>7, <1>8, <1>9, <1>10

-----------------------------------------------------------------------------
(* What the steps do to the infos, the levels and the paths together *)

SameInfos(m, m2) == DOMAIN m2 = DOMAIN m /\ \A v \in DOMAIN m : m2[v] = m[v]

\* The parent after the end of a statement
LEMMA EndAgrees ==
    ASSUME PInv, phase = "sema", Follow, phase' = "sema", ~InSwitch, ~Disagree,
           Top.role \notin {"func", "case"},
           NEW p \in Level, p.role = Parent.role, p.id = Parent.id,
           scopes' = Append(SubSeq(scopes, 1, Depth - 2), p), count' = count,
           NEW m2, values' = Append(Outer, m2),
           \/ /\ m2 = EndValues(FromSubScope) /\ ~Undetermined(FromSubScope, ParentAfter)
              /\ AfterBlocks \subseteq Joined.ends
           \/ SameInfos(FromSubScope, m2) /\ AfterBlocks \subseteq Joined.now
    PROVE  AgreeNow'
<1>1. /\ BInv /\ Vals /\ Live /\ IInv /\ count \in Nat /\ HavePaths
      /\ ValsOK(Depth, scopes, values) /\ Depth = Len(scopes)
  BY Now
<1>2. PICK m \in Nat \ {0} : Depth = m + 1 /\ Depth - 1 = m /\ Depth - 2 = m - 1
  <2>1. Depth - 1 \in Nat \ {0} /\ Depth = (Depth - 1) + 1 /\ Depth - 2 = (Depth - 1) - 1
    BY <1>1, OuterOK
  <2> QED  BY <2>1
<1>3. scopes'[m] = p /\ \A i \in 1..m - 1 : scopes'[i] = scopes[i]
  <2> DEFINE t == Append(SubSeq(scopes, 1, Depth - 2), p)
  <2>1. t[Depth - 1] = p /\ \A i \in 1..Depth - 2 : t[i] = scopes[i]
    BY <1>1, LevelsPop
  <2>2. scopes' = t
    OBVIOUS
  <2> HIDE DEF t
  <2> QED  BY <1>2, <2>1, <2>2
<1>4. Depth' = m /\ paths'[m] = [Joined EXCEPT !.now = AfterBlocks, !.ends = {}]
      /\ \A i \in 1..m - 1 : paths'[i] = paths[i]
  <2>1. /\ Depth' = Depth - 1 /\ \A i \in 1..Depth - 2 : paths'[i] = paths[i]
        /\ paths'[Depth - 1] = Closed
    BY <1>1, FollowPop
  <2> QED  BY <1>2, <2>1 DEF Closed
<1>5. values'[m] = m2 /\ \A i \in 1..m - 1 : values'[i] = values[i]
  <2>1. AnySeq(values) /\ Len(values) = Depth /\ Depth >= 2 /\ Depth \in Nat
    BY <1>1, <1>2 DEF ValsOK, AnySeq
  <2>2. /\ values'[Depth - 1] = m2
        /\ \A i \in 1..Depth - 2 : values'[i] = values[i]
    BY <2>1, AnyPop DEF Outer
  <2> QED  BY <1>2, <2>2
<1>6. PICK sc1, va1, pa1 : Middle(m, sc1, va1, pa1)
  BY <1>2, ClosingMiddle
<1>7. /\ Agree(m, sc1, va1, pa1, count) /\ va1[m] = FromSubScope /\ pa1[m] = Joined
      /\ Below(m, sc1, va1, pa1, scopes', values', paths')
      /\ scopes'[m].role = sc1[m].role /\ scopes'[m].id = sc1[m].id
      /\ sc1[m].nsub = ParentAfter.nsub /\ sc1[m].nterm = ParentAfter.nterm
  BY <1>3, <1>4, <1>5, <1>6 DEF Middle, Taken, Below
<1>8. m \in 1..m /\ m \in Nat
  BY <1>2
<1>9. LevelOK(m, m, sc1, va1, pa1, count)
  BY <1>7, <1>8 DEF Agree
<1>10. /\ Joined = [now |-> paths[m].now, ends |-> paths[m].ends \cup Left,
                    jumps |-> paths[m].jumps \cup LeftByJumps]
       /\ Left # {} => paths[Depth].now # {}
       /\ Met(paths[Depth]) => paths[m].now # {}
       /\ LiveAt(Parent, paths[m])
  BY <1>1, <1>2, Closing
<1>11. Joined.ends # {} => Joined.now # {}
  BY <1>10 DEF LiveAt, Met
<1>12. paths'[m].now = AfterBlocks /\ paths'[m].ends = {} /\ paths'[m].jumps = Joined.jumps
  BY <1>4, <1>10
<1>13. LevelOK(m, m, scopes', values', paths', count')
  <2>1. CASE /\ m2 = EndValues(FromSubScope) /\ ~Undetermined(FromSubScope, ParentAfter)
             /\ AfterBlocks \subseteq Joined.ends
    <3>1. InfosOK(va1[m])
      BY <1>7, ClosingKnown
    <3>2. \A v \in DOMAIN va1[m] : Waits(va1[m][v]) => va1[m][v].num = sc1[m].nsub - sc1[m].nterm
      BY <1>7, <2>1 DEF Undetermined
    <3>3. values'[m] = EndValues(va1[m]) /\ count <= count /\ count' \in Nat /\ count <= count'
      BY <1>1, <1>5, <1>7, <2>1
    <3>4. paths'[m].now \subseteq pa1[m].ends /\ paths'[m].jumps \subseteq pa1[m].jumps
          /\ (pa1[m].ends # {} => pa1[m].now # {})
      BY <1>7, <1>11, <1>12, <2>1
    <3> QED  BY ONLY <1>1, <1>2, <1>7, <1>9, <1>12, <3>1, <3>2, <3>3, <3>4, Settle
  <2>2. CASE SameInfos(FromSubScope, m2) /\ AfterBlocks \subseteq Joined.now
    <3>1. DOMAIN values'[m] = DOMAIN va1[m] /\ \A v \in DOMAIN va1[m] : values'[m][v] = va1[m][v]
      BY <1>5, <1>7, <2>2 DEF SameInfos
    <3>2. count' \in Nat /\ count <= count'
      BY <1>1
    <3>3. paths'[m].now \subseteq pa1[m].now /\ paths'[m].jumps = pa1[m].jumps
      BY <1>7, <1>12, <2>2
    <3>4. \A jp \in paths'[m].jumps : jp \in pa1[m].jumps
      BY <3>3
    <3>5. /\ m \in Nat /\ m \in 1..m /\ count \in Nat
          /\ Below(m, sc1, va1, pa1, scopes', values', paths')
          /\ scopes'[m].role = sc1[m].role /\ scopes'[m].id = sc1[m].id
          /\ paths'[m].ends = {} /\ paths'[m].now \subseteq pa1[m].now
      BY <1>1, <1>7, <1>8, <1>12, <3>3
    <3> QED  BY ONLY <1>9, <3>1, <3>2, <3>4, <3>5, Narrow
  <2> QED  BY <2>1, <2>2
<1>14. Agree(m, scopes', values', paths', count')
  <2>1. count' \in Nat /\ count <= count'
    BY <1>1
  <2> QED  BY ONLY <1>1, <1>7, <1>8, <1>13, <2>1, AgreeTop
<1> QED  BY <1>4, <1>14 DEF AgreeNow

-----------------------------------------------------------------------------
(* The instructions that close a level *)

\* What is to be shown of every step
Good == AgreeNow' /\ (repeats => repeats')

LEMMA GoodStopped ==
    ASSUME Follow, phase' # "sema"
    PROVE  Good
BY DEF Follow, FollowStop, AgreeNow, Good

LEMMA LevelId ==
    ASSUME NEW l \in Level
    PROVE  /\ AddSubScope(l).id = l.id /\ AddSubScope(l).role = l.role
           /\ \A kind : SetTerminated(l, kind).id = l.id
           /\ \A n : EndSubScopesAt(n, l).id = l.id
<1>1. \A n : EndSubScopesAt(n, l).id = l.id
  <2> SUFFICES ASSUME NEW n
               PROVE  EndSubScopesAt(n, l).id = l.id
    OBVIOUS
  <2>1. PICK kind : EndSubScopesAt(n, l) =
                        [l EXCEPT !.tk = kind, !.nsub = 0, !.nterm = 0, !.nloop = 0]
    BY DEF EndSubScopesAt
  <2> QED  BY <2>1 DEF Level
<1> QED  BY <1>1 DEF AddSubScope, SetTerminated, Level

\* A loop's block comes back to the condition as control came there first.
LEMMA RepeatsHolds ==
    ASSUME PInv, phase = "sema", Top.role # "func", ~InSwitch, ~Disagree, StatesFollowed,
           CanHandOn
    PROVE  Repeats
<1> SUFFICES ASSUME Top.role \in LoopRoles
             PROVE  Left \cup By(LeftByJumps, "continue", Top.id) \subseteq paths[Depth - 1].now
  BY DEF Repeats
<1>1. NoWaits(FromSubScope)
  BY NoneWaits
<1>2. Joined = [now |-> paths[Depth - 1].now, ends |-> paths[Depth - 1].ends \cup Left,
                jumps |-> paths[Depth - 1].jumps \cup LeftByJumps]
  BY Now, Closing
<1>3. Joined.ends \subseteq Joined.now
  BY <1>1, ClosingEnds
<1>4. By(Joined.jumps, "continue", Top.id) \subseteq Joined.now
  BY ClosingJumps DEF Aimed
<1>5. By(LeftByJumps, "continue", Top.id) \subseteq By(Joined.jumps, "continue", Top.id)
  BY <1>2 DEF By
<1> QED  BY <1>2, <1>3, <1>4, <1>5

\* Where a statement whose changes do not wait is left
LEMMA AfterNone ==
    ASSUME PInv, phase = "sema", ~InSwitch, ~Disagree, NoWaits(FromSubScope),
           Top.role \in LoopRoles \cup {"then", "tryElse", "forElse", "defer"}
    PROVE  AfterBlocks \subseteq Joined.now
<1>1. Top.role # "func"
  BY DEF LoopRoles
<1>2. Joined = [now |-> paths[Depth - 1].now, ends |-> paths[Depth - 1].ends \cup Left,
                jumps |-> paths[Depth - 1].jumps \cup LeftByJumps]
  BY <1>1, Now, Closing
<1>3. Left \subseteq Joined.now
  BY <1>1, <1>2, ClosingEnds
<1>4. Top.role \in Aimed => By(Joined.jumps, "break", Top.id) \subseteq Joined.now
  BY ClosingJumps
<1>5. CASE Top.role \in LoopRoles \cup {"forElse"}
  BY <1>3, <1>4, <1>5, AfterKinds DEF Aimed
<1>6. CASE Top.role \in {"then", "tryElse", "defer"}
  BY <1>3, <1>6, AfterKinds
<1> QED  BY <1>5, <1>6

\* A level that is closed with end_sub_scopes
LEMMA CloseValuesGood ==
    ASSUME PInv, Follow, StatesFollowed,
           NEW role \in LoopRoles \cup {"then", "else", "forElse", "tryElse", "defer", "block"},
           NEW l, l = IF role = "then" THEN AddSubScope(ParentAfter) ELSE ParentAfter,
           NEW subs, CloseValues(role, CloseWith(EndSubScopes(l), subs), l)
    PROVE  Good
<1>1. phase = "sema" /\ Top.role = role /\ ~InSwitch /\ CanHandOn
      /\ Top.role \notin {"func", "case"}
  BY DEF CloseValues, CanClose, LoopRoles
<1>2. IInv /\ BInv /\ HavePaths
  BY <1>1, Now
<1>3. CASE phase' # "sema"
  BY <1>3, GoodStopped
<1>4. CASE phase' = "sema"
  <2>1. ~RejectValues
    BY <1>4 DEF RejectValues, Stop
  <2>2. /\ ~Disagree /\ ~Undetermined(FromSubScope, l)
        /\ CloseWith(EndSubScopes(l), subs)
        /\ values' = Append(Outer, EndValues(FromSubScope))
    BY <1>4, <2>1 DEF CloseValues
  <2>3. Close(EndSubScopes(l), subs)
    BY <1>4, <2>2 DEF CloseWith, Stop
  <2> DEFINE p == EndSubScopes(l)
  <2>4. Parent \in Level /\ ParentAfter \in Level
    BY <1>1, <1>2, HasParent, ParentCounted
  <2>5. l \in Level /\ l.id = Parent.id
    BY <1>1, <1>2, <2>4, ParentCounted, ParentId, LevelId
  <2>6. p \in Level /\ p.role = Parent.role /\ p.id = Parent.id
    <3>1. p \in Level /\ p.role = Parent.role
      BY <1>1, <1>2, ParentCounted
    <3> QED  BY <2>5, <3>1, LevelId DEF EndSubScopes
  <2>7. scopes' = Append(SubSeq(scopes, 1, Depth - 2), p) /\ count' = count
    BY <2>3 DEF Close
  <2> HIDE DEF p
  <2>8. repeats => repeats'
    <3>1. repeats' = (repeats /\ Repeats)
      BY <1>1, <1>2, <1>4, <2>6, <2>7, FollowPop
    <3>2. Repeats
      BY <1>1, <2>2, RepeatsHolds
    <3> QED  BY <3>1, <3>2
  <2>9. \/ ~Undetermined(FromSubScope, ParentAfter) /\ AfterBlocks \subseteq Joined.ends
        \/ SameInfos(FromSubScope, EndValues(FromSubScope)) /\ AfterBlocks \subseteq Joined.now
    <3>1. CASE role \in {"else", "block"}
      <4>1. AfterBlocks \subseteq Joined.ends
        <5>1. Joined.ends = paths[Depth - 1].ends \cup Left
          BY <1>1, Now, Closing
        <5> QED  BY <1>1, <3>1, <5>1, AfterKinds
      <4> QED  BY <2>2, <3>1, <4>1
    <3>2. CASE role \notin {"else", "block"}
      <4>1. /\ role = "tryElse" => ~Undetermined(FromSubScope, ParentAfter)
            /\ role = "then" => ~Undetermined(FromSubScope, AddSubScope(ParentAfter))
        BY <2>2
      <4>2. NoWaits(FromSubScope)
        BY <1>1, <2>2, <3>2, <4>1, NoneWaits
      <4>3. SameInfos(FromSubScope, EndValues(FromSubScope))
        BY <4>2, EndValuesNone DEF SameInfos
      <4>4. AfterBlocks \subseteq Joined.now
        BY <1>1, <2>2, <3>2, <4>2, AfterNone
      <4> QED  BY <4>3, <4>4
    <3> QED  BY <3>1, <3>2
  <2>10. AgreeNow'
    BY ONLY PInv, Follow, <1>1, <1>4, <2>2, <2>6, <2>7, <2>9, EndAgrees
  <2> QED  BY <2>8, <2>10 DEF Good
<1> QED  BY <1>3, <1>4

LEMMA PopCaseGood ==
    ASSUME PInv, Follow, StatesFollowed, PopValues("case", EndCase, <<>>)
    PROVE  Good
<1>1. phase = "sema" /\ Top.role = "case" /\ ~InSwitch /\ CanHandOn /\ Top.role # "func"
  BY DEF PopValues, CanClose
<1>2. /\ BInv /\ Vals /\ IInv /\ count \in Nat /\ HavePaths
      /\ ValsOK(Depth, scopes, values) /\ Depth = Len(scopes)
  BY <1>1, Now
<1>3. CASE phase' # "sema"
  BY <1>3, GoodStopped
<1>4. CASE phase' = "sema"
  <2>1. ~RejectValues
    BY <1>4 DEF RejectValues, Stop
  <2>2. ~Disagree /\ EndCase /\ values' = Append(Outer, FromSubScope) \o <<>>
    BY <1>4, <2>1 DEF PopValues
  <2>3. Close(ParentAfter, subscopes)
    BY <1>4, <2>2 DEF EndCase, CloseWith, Stop
  <2>4. values' = Append(Outer, FromSubScope)
    <3> DEFINE m == FromSubScope
    <3>1. PICK S : Outer \in Seq(S)
      BY <1>1, <1>2, OuterOK
    <3> HIDE DEF m
    <3>2. Outer \in Seq(S \cup {m})
      BY <3>1
    <3>3. Append(Outer, m) \in Seq(S \cup {m})
      BY <3>2, SeqPush
    <3>4. Append(Outer, m) \o <<>> = Append(Outer, m)
      BY <3>3, ConcatEmptySeq
    <3> QED  BY <2>2, <3>4 DEF m
  <2>5. PICK m \in Nat \ {0} : Depth = m + 1 /\ Depth - 1 = m /\ Depth - 2 = m - 1
    <3>1. Depth - 1 \in Nat \ {0} /\ Depth = (Depth - 1) + 1 /\ Depth - 2 = (Depth - 1) - 1
      BY <1>1, <1>2, OuterOK
    <3> QED  BY <3>1
  <2> DEFINE p == ParentAfter
  <2>6. p \in Level /\ p.role = Parent.role /\ p.id = Parent.id
    BY <1>1, <1>2, HasParent, ParentCounted, ParentId
  <2>7. scopes' = Append(SubSeq(scopes, 1, Depth - 2), p) /\ count' = count
    BY <2>3 DEF Close
  <2> HIDE DEF p
  <2>8. /\ Depth' = m /\ paths'[m] = Joined /\ \A i \in 1..m - 1 : paths'[i] = paths[i]
        /\ repeats' = (repeats /\ Repeats)
    <3>1. /\ Depth' = Depth - 1 /\ \A i \in 1..Depth - 2 : paths'[i] = paths[i]
          /\ paths'[Depth - 1] = Closed /\ repeats' = (repeats /\ Repeats)
      BY <1>1, <1>2, <1>4, <2>6, <2>7, FollowPop
    <3> QED  BY <1>1, <2>5, <3>1 DEF Closed
  <2>9. scopes'[m] = p /\ \A i \in 1..m - 1 : scopes'[i] = scopes[i]
    <3> DEFINE t == Append(SubSeq(scopes, 1, Depth - 2), p)
    <3>1. t[Depth - 1] = p /\ \A i \in 1..Depth - 2 : t[i] = scopes[i]
      BY <1>1, <1>2, <2>6, LevelsPop
    <3>2. scopes' = t
      BY <2>7
    <3> HIDE DEF t
    <3> QED  BY <2>5, <3>1, <3>2
  <2>10. values'[m] = FromSubScope /\ \A i \in 1..m - 1 : values'[i] = values[i]
    <3>1. AnySeq(values) /\ Len(values) = Depth /\ Depth >= 2 /\ Depth \in Nat
      BY <1>2, <2>5 DEF ValsOK, AnySeq
    <3>2. /\ values'[Depth - 1] = FromSubScope
          /\ \A i \in 1..Depth - 2 : values'[i] = values[i]
      BY <2>4, <3>1, AnyPop DEF Outer
    <3> QED  BY <2>5, <3>2
  <2>11. Taken(m, ParentAfter, scopes', values', paths')
    BY <2>6, <2>8, <2>9, <2>10 DEF Taken, Below, p
  <2>12. Agree(m, scopes', values', paths', count)
    BY <1>1, <2>2, <2>5, <2>11, ClosingAgrees
  <2>13. Repeats
    BY <1>1 DEF Repeats, LoopRoles
  <2> QED  BY <2>7, <2>8, <2>12, <2>13 DEF Good, AgreeNow
<1> QED  BY <1>3, <1>4

LEMMA ReopenedValues ==
    ASSUME NEW s, AnySeq(s), NEW n \in Nat, n >= 2, Len(s) = n, NEW d, NEW e
    PROVE  LET t == Append(SubSeq(s, 1, n - 2), d) \o <<e>>
           IN /\ t[n - 1] = d /\ t[n] = e
              /\ \A i \in 1..n - 2 : t[i] = s[i]
<1> DEFINE u == Append(SubSeq(s, 1, n - 2), d)
<1>1. AnySeq(u)
  BY AnyPop
<1>2. PICK S : u \in Seq(S)
  BY <1>1 DEF AnySeq
<1> HIDE DEF u
<1>3. u \in Seq(S \cup {e}) /\ <<e>> \in Seq(S \cup {e})
  BY <1>2
<1>4. u \o <<e>> = Append(u, e)
  BY <1>3, AppendIsConcat
<1> QED  BY <1>4, AnyPopPush DEF u

\* A level whose statement has another block
LEMMA PopReopenGood ==
    ASSUME PInv, Follow, StatesFollowed, NEW role \in {"then", "for"}, NEW next,
           next = IF role = "then" THEN "else" ELSE "forElse",
           PopValues(role, Reopen(next), << <<>> >>)
    PROVE  Good
<1>1. phase = "sema" /\ Top.role = role /\ ~InSwitch /\ CanHandOn
      /\ Top.role \notin {"func", "case"}
  BY DEF PopValues, CanClose
<1>2. /\ BInv /\ Vals /\ Live /\ IInv /\ count \in Nat /\ HavePaths
      /\ ValsOK(Depth, scopes, values) /\ Depth = Len(scopes) /\ Depth \in 1..Depth
      /\ Agree(Depth, scopes, values, paths, count) /\ Top = scopes[Depth] /\ Top \in Level
  BY <1>1, Now
<1>3. CASE phase' # "sema"
  BY <1>3, GoodStopped
<1>4. CASE phase' = "sema"
  <2>1. ~RejectValues
    BY <1>4 DEF RejectValues, Stop
  <2>2. ~Disagree /\ Reopen(next) /\ values' = Append(Outer, FromSubScope) \o << <<>> >>
    BY <1>4, <2>1 DEF PopValues
  <2> DEFINE p == AddSubScope(ParentAfter)
             l == NewLevel(next, Top.id)
  <2>3. scopes' = Append(Append(SubSeq(scopes, 1, Depth - 2), p), l) /\ count' = count
    BY <1>4, <2>2 DEF Reopen, Stop
  <2>4. /\ p \in Level /\ p.role = Parent.role /\ p.id = Parent.id
        /\ ParentAfter.nsub \in Nat /\ ParentAfter.nterm \in Nat
        /\ p.nsub = ParentAfter.nsub + 1 /\ p.nterm = ParentAfter.nterm
    <3>1. Parent \in Level /\ ParentAfter \in Level
      BY <1>1, <1>2, HasParent, ParentCounted
    <3>2. p.nsub = ParentAfter.nsub + 1 /\ p.nterm = ParentAfter.nterm
      BY <3>1 DEF AddSubScope, Level
    <3> QED  BY <1>1, <1>2, <3>1, <3>2, ParentCounted, ParentId, LevelId, LevelFields
  <2>5. l \in Level /\ l.role = next /\ l.id = Top.id
    <3>1. next \in Roles /\ Top.id \in Nat
      BY <1>2, LevelFields DEF Roles, LoopRoles
    <3> QED  BY <3>1, NewLevelOK DEF NewLevel
  <2> HIDE DEF p, l
  <2>6. PICK m \in Nat \ {0} : Depth = m + 1 /\ Depth - 1 = m /\ Depth - 2 = m - 1
    <3>1. Depth - 1 \in Nat \ {0} /\ Depth = (Depth - 1) + 1 /\ Depth - 2 = (Depth - 1) - 1
      BY <1>1, <1>2, OuterOK
    <3> QED  BY <3>1
  <2>7. /\ Depth' = m + 1 /\ paths'[m] = Joined /\ paths'[m + 1] = Path(paths[m].now)
        /\ \A i \in 1..m - 1 : paths'[i] = paths[i]
        /\ repeats' = (repeats /\ Repeats)
    <3>1. /\ Depth' = Depth /\ \A i \in 1..Depth - 2 : paths'[i] = paths[i]
          /\ paths'[Depth - 1] = Joined /\ paths'[Depth] = Path(paths[Depth - 1].now)
          /\ repeats' = (repeats /\ Repeats)
      BY <1>1, <1>2, <1>4, <2>3, <2>4, <2>5, FollowPopPush
    <3> QED  BY <2>6, <3>1
  <2>8. scopes'[m] = p /\ scopes'[m + 1] = l /\ \A i \in 1..m - 1 : scopes'[i] = scopes[i]
    <3> DEFINE t == Append(Append(SubSeq(scopes, 1, Depth - 2), p), l)
    <3>1. t[Depth - 1] = p /\ t[Depth] = l /\ \A i \in 1..Depth - 2 : t[i] = scopes[i]
      BY <1>1, <1>2, <2>4, <2>5, LevelsReopen
    <3>2. scopes' = t
      BY <2>3
    <3> HIDE DEF t
    <3> QED  BY <2>6, <3>1, <3>2
  <2>9. /\ values'[m] = FromSubScope /\ values'[m + 1] = <<>>
        /\ \A i \in 1..m - 1 : values'[i] = values[i]
    <3> DEFINE t == Append(SubSeq(values, 1, Depth - 2), FromSubScope) \o << <<>> >>
    <3>1. AnySeq(values) /\ Len(values) = Depth /\ Depth >= 2 /\ Depth \in Nat
      BY <1>2, <2>6 DEF ValsOK, AnySeq
    <3>2. /\ t[Depth - 1] = FromSubScope /\ t[Depth] = <<>>
          /\ \A i \in 1..Depth - 2 : t[i] = values[i]
      BY ONLY <3>1, ReopenedValues
    <3>3. values' = t
      BY <2>2 DEF Outer
    <3> HIDE DEF t
    <3> QED  BY <2>6, <3>2, <3>3
  <2>10. PICK sc1, va1, pa1 : Middle(m, sc1, va1, pa1)
    BY <1>1, <2>2, <2>6, ClosingMiddle
  <2>11. /\ Agree(m, sc1, va1, pa1, count) /\ va1[m] = FromSubScope /\ pa1[m] = Joined
         /\ Below(m, sc1, va1, pa1, scopes', values', paths')
         /\ scopes'[m].role = sc1[m].role /\ scopes'[m].id = sc1[m].id
         /\ sc1[m].nsub = ParentAfter.nsub /\ sc1[m].nterm = ParentAfter.nterm
    BY <2>4, <2>7, <2>8, <2>9, <2>10 DEF Middle, Taken, Below
  <2>12. values'[m] = va1[m] /\ paths'[m] = pa1[m] /\ values'[m + 1] = <<>>
         /\ paths'[m + 1] = Path(pa1[m].now)
    <3>1. Joined.now = paths[m].now
      BY <1>1, <1>2, <2>6, Closing
    <3> QED  BY <2>7, <2>9, <2>11, <3>1
  <2>13. EndAt(m, All(m, m + 1, scopes'[m]), va1, pa1)
    <3>1. m \in 1..m /\ m < m + 1 /\ ~(m < m)
      OBVIOUS
    <3>2. EndAt(m, All(m, m, sc1[m]), va1, pa1)
      BY <2>11, <3>1 DEF Agree, LevelOK
    <3>3. All(m, m, sc1[m]) = ParentAfter.nsub - ParentAfter.nterm - 0
      BY <2>11, <3>1 DEF All
    <3>4. All(m, m + 1, scopes'[m]) = (ParentAfter.nsub + 1) - ParentAfter.nterm - 1
      BY <2>4, <2>8, <3>1 DEF All
    <3>5. All(m, m + 1, scopes'[m]) = All(m, m, sc1[m])
      BY <2>4, <3>3, <3>4
    <3> QED  BY <3>2, <3>5
  <2>14. IdAt(m + 1, scopes', count)
    <3>1. IdAt(Depth, scopes, count)
      BY <1>2 DEF Agree, LevelOK
    <3>2. Top.id \in Nat /\ Top.id <= count /\ \A j \in 1..m : scopes[j].id < Top.id
      BY <1>1, <1>2, <2>6, <3>1 DEF IdAt
    <3>3. \A j \in 1..m : scopes'[j].id = scopes[j].id
      <4>1. Parent = scopes[m] /\ \A j \in 1..m : j = m \/ j \in 1..m - 1
        BY <2>6 DEF Parent
      <4> QED  BY <2>4, <2>8, <4>1
    <3>4. \A j \in 1..m + 1 - 1 : j \in 1..m
      OBVIOUS
    <3> QED  BY <2>5, <2>8, <3>2, <3>3, <3>4 DEF IdAt
  <2>15. scopes'[m + 1].role = next /\ scopes'[m + 1].id = Top.id
    BY <2>5, <2>8
  <2>16. scopes'[m + 1].role \in IdleRoles => Idle(va1[m])
    <3> SUFFICES ASSUME role = "for"
                 PROVE  Idle(FromSubScope)
      BY <2>11, <2>15 DEF IdleRoles
    <3>1. Changes = {}
      BY <1>1, NothingHandedOn DEF LoopRoles
    <3>2. InfosOK(Known) /\ InfosOK(values[Depth]) /\ Fits(Known, Parent, 1)
          /\ CountsFit(Parent, Top.role)
      BY <1>1, ClosingKnown
    <3>3. Parent.nsub = 1 /\ Parent.nterm = 0
      BY <1>1, <3>2 DEF CountsFit
    <3>4. \A u \in DOMAIN Known : Known[u].num \in Nat /\ Known[u].num + 1 <= 1 - 0
      BY <3>2, <3>3 DEF InfosOK, InfoOK, Fits
    <3>5. DOMAIN FromSubScope = DOMAIN Known
          /\ \A u \in DOMAIN Known : FromSubScope[u] = Known[u]
      BY <3>1, <3>2, FromSubScopeInfos
    <3>6. \A u \in DOMAIN Known : Known[u].num = 0
      BY <3>4
    <3> QED  BY <3>5, <3>6 DEF Idle
  <2>17. scopes'[m + 1].role \in Aimed =>
             \A i \in 1..m : \A jp \in pa1[i].jumps :
                 Lands(jp, scopes'[m + 1].id, m + 1, va1, pa1)
    <3> SUFFICES ASSUME next = "forElse"
                 PROVE  LandAt(m, Top.id, va1, pa1)
      BY <2>15 DEF Aimed, LoopRoles, LandAt
    <3> QED  BY <1>1, <2>10 DEF Middle, Aimed, LoopRoles
  <2>18. count' \in Nat /\ count <= count' /\ IdAt(m + 1, scopes', count')
    BY <1>2, <2>3, <2>14
  <2>19. Agree(m + 1, scopes', values', paths', count')
    BY ONLY <1>2, <2>11, <2>12, <2>13, <2>16, <2>17, <2>18, AgreePush
  <2>20. Repeats
    BY <1>1, <2>2, RepeatsHolds
  <2> QED  BY <2>7, <2>19, <2>20 DEF Good, AgreeNow
<1> QED  BY <1>3, <1>4

LEMMA EndWithoutGood ==
    ASSUME PInv, Follow, StatesFollowed, EndWithout
    PROVE  Good
<1>1. phase = "sema"
  BY DEF EndWithout, EndExprBlock, FuncDef, CanClose
<1>2. /\ BInv /\ Vals /\ Live /\ IInv /\ count \in Nat /\ HavePaths
      /\ ValsOK(Depth, scopes, values) /\ Depth = Len(scopes) /\ Top \in Level
  BY <1>1, Now
<1>3. CASE phase' # "sema"
  BY <1>3, GoodStopped
<1>4. CASE phase' = "sema"
  <2>1. EndExprBlock /\ values' = Front(values)
    BY <1>4 DEF EndWithout, FuncDef, Stop
  <2>2. Top.role = "blockExpr" /\ ~InSwitch
    BY <2>1 DEF EndExprBlock, CanClose
  <2> DEFINE l == CountClosedLabel(Parent, Top)
             p == EndSubScopes(l)
  <2>3. ~Unterminated /\ Close(p, subscopes)
    BY <1>4, <2>1 DEF EndExprBlock, Stop
  <2>4. l \in Level /\ l.role = Parent.role /\ l.id = Parent.id
    <3>1. Parent \in Level /\ HasOpen(Parent)
      BY <1>1, <1>2, <2>2, HasParent
    <3>2. l.id = Parent.id
      BY <3>1 DEF CountClosedLabel, Level
    <3> QED  BY <1>2, <3>1, <3>2, CountClosedLabelOK
  <2> HIDE DEF l
  <2>5. p \in Level /\ p.role = Parent.role /\ p.id = Parent.id
    BY <2>4, EndSubScopesAtOK, LevelId DEF EndSubScopes
  <2> HIDE DEF p
  <2>6. scopes' = Append(SubSeq(scopes, 1, Depth - 2), p) /\ count' = count
    BY <2>3 DEF Close
  <2>7. Changes = {}
    BY <2>3 DEF Changes, Unterminated
  <2>8. ~Disagree
    BY <2>7 DEF Disagree
  <2>9. InfosOK(Known) /\ InfosOK(values[Depth])
    BY <1>1, <2>2, ClosingKnown
  <2>10. SameInfos(FromSubScope, Known)
    BY <2>7, <2>9, FromSubScopeInfos DEF SameInfos
  <2>11. values' = Append(Outer, Known)
    <3>1. PICK m \in Nat \ {0} : Depth = m + 1 /\ Depth - 1 = m /\ Depth - 2 = m - 1
      <4>1. Depth - 1 \in Nat \ {0} /\ Depth = (Depth - 1) + 1 /\ Depth - 2 = (Depth - 1) - 1
        BY <1>1, <1>2, <2>2, OuterOK
      <4> QED  BY <4>1
    <3>2. PICK S : values \in Seq(S) /\ Len(values) = m + 1
      BY <1>2, <3>1 DEF ValsOK
    <3>3. Front(values) = SubSeq(values, 1, m) /\ Outer = SubSeq(values, 1, m - 1)
          /\ Known = values[m]
      BY <3>1, <3>2 DEF Front, Outer, Known
    <3>4. SubSeq(values, 1, m) = Append(SubSeq(values, 1, m - 1), values[m])
      BY <3>1, <3>2
    <3> QED  BY <2>1, <3>3, <3>4
  <2>12. AfterBlocks \subseteq Joined.now
    <3>1. AfterBlocks = By(LeftByJumps, "labeledReturn", Top.id)
      BY <2>2, AfterKinds
    <3>2. Joined.jumps = paths[Depth - 1].jumps \cup LeftByJumps
      BY <1>1, <1>2, <2>2, Closing
    <3>3. By(Joined.jumps, "labeledReturn", Top.id) \subseteq Joined.now
      BY <1>1, <2>2, <2>8, ClosingJumps DEF Aimed
    <3> QED  BY <3>1, <3>2, <3>3 DEF By
  <2>13. AgreeNow'
    <3>1. Top.role \notin {"func", "case"}
      BY <2>2
    <3> QED
      BY ONLY PInv, Follow, <1>1, <1>4, <2>2, <2>5, <2>6, <2>8, <2>10, <2>11, <2>12, <3>1,
         EndAgrees
  <2>14. repeats => repeats'
    <3>1. repeats' = (repeats /\ Repeats)
      BY <1>1, <1>2, <1>4, <2>2, <2>5, <2>6, FollowPop
    <3> QED  BY <2>2, <3>1 DEF Repeats, LoopRoles
  <2> QED  BY <2>13, <2>14 DEF Good
<1> QED  BY <1>3, <1>4

LEMMA CloseLevelGood ==
    ASSUME PInv, Follow, StatesFollowed, CloseLevel
    PROVE  Good
<1> DEFINE a == ParentAfter
           b == AddSubScope(ParentAfter)
           R == LoopRoles \cup {"then", "else", "forElse", "tryElse", "defer", "block"}
<1>1. {"then", "else", "while", "for", "forElse", "tryElse", "defer", "block"} \subseteq R
  BY DEF LoopRoles
<1>2. ASSUME NEW role \in R, role # "then", NEW subs,
             CloseValues(role, CloseWith(EndSubScopes(a), subs), a)
      PROVE  Good
  <2> HIDE DEF a
  <2>1. a = IF role = "then" THEN AddSubScope(ParentAfter) ELSE ParentAfter
    BY <1>2 DEF a
  <2> QED  BY <1>2, <2>1, CloseValuesGood
<1>3. CASE CloseValues("then", CondNoElse, b)
  <2>1. CloseValues("then", CloseWith(EndSubScopes(b), Front(subscopes)), b)
    BY <1>3 DEF CloseValues, CondNoElse
  <2> HIDE DEF b
  <2>2. b = IF "then" = "then" THEN AddSubScope(ParentAfter) ELSE ParentAfter
    BY DEF b
  <2> QED  BY <1>1, <2>1, <2>2, CloseValuesGood
<1>4. CASE PopValues("then", CondElse, << <<>> >>)
  <2>1. PopValues("then", Reopen("else"), << <<>> >>)
    BY <1>4 DEF PopValues, CondElse
  <2>2. "else" = IF "then" = "then" THEN "else" ELSE "forElse"
    OBVIOUS
  <2> QED  BY <2>1, <2>2, PopReopenGood
<1>5. CASE PopValues("for", EndForHasElse, << <<>> >>)
  <2>1. PopValues("for", Reopen("forElse"), << <<>> >>)
    BY <1>5 DEF PopValues, EndForHasElse
  <2>2. "forElse" = IF "for" = "then" THEN "else" ELSE "forElse"
    OBVIOUS
  <2> QED  BY <2>1, <2>2, PopReopenGood
<1>6. CASE PopValues("case", EndCase, <<>>)
  BY <1>6, PopCaseGood
<1>7. CASE CloseValues("else", EndCond, a)
  <2>1. CloseValues("else", CloseWith(EndSubScopes(a), Front(subscopes)), a)
    BY <1>7 DEF CloseValues, EndCond
  <2> HIDE DEF a, R
  <2> QED  BY <1>1, <1>2, <2>1
<1>8. CASE CloseValues("for", EndFor, a)
  <2>1. CloseValues("for", CloseWith(EndSubScopes(a), Front(subscopes)), a)
    BY <1>8 DEF CloseValues, EndFor
  <2> HIDE DEF a, R
  <2> QED  BY <1>1, <1>2, <2>1
<1>9. CASE CloseValues("forElse", EndForElse, a)
  <2>1. CloseValues("forElse", CloseWith(EndSubScopes(a), Front(subscopes)), a)
    BY <1>9 DEF CloseValues, EndForElse
  <2> HIDE DEF a, R
  <2> QED  BY <1>1, <1>2, <2>1
<1>10. CASE CloseValues("while", EndWhile, a)
  <2>1. CloseValues("while", CloseWith(EndSubScopes(a), subscopes), a)
    BY <1>10 DEF CloseValues, EndWhile
  <2> HIDE DEF a, R
  <2> QED  BY <1>1, <1>2, <2>1
<1>11. CASE CloseValues("tryElse", TryElseEnd, a)
  <2>1. CloseValues("tryElse", CloseWith(EndSubScopes(a), subscopes), a)
    BY <1>11 DEF CloseValues, TryElseEnd
  <2> HIDE DEF a, R
  <2> QED  BY <1>1, <1>2, <2>1
<1>12. CASE CloseValues("defer", EndDefer, a)
  <2>1. CloseValues("defer", CloseWith(EndSubScopes(a), subscopes), a)
    BY <1>12 DEF CloseValues, EndDefer
  <2> HIDE DEF a, R
  <2> QED  BY <1>1, <1>2, <2>1
<1>13. CASE CloseValues("block", EndStmtBlock, a)
  <2>1. CloseValues("block", CloseWith(EndSubScopes(a), subscopes), a)
    BY <1>13 DEF CloseValues, EndStmtBlock
  <2> HIDE DEF a, R
  <2> QED  BY <1>1, <1>2, <2>1
<1> QED
  BY <1>3, <1>4, <1>5, <1>6, <1>7, <1>8, <1>9, <1>10, <1>11, <1>12, <1>13 DEF CloseLevel

LEMMA EndSwitchGood ==
    ASSUME PInv, Follow, NoneMistaken, EndSwitchValues
    PROVE  Good
<1>1. phase = "sema"
  BY DEF EndSwitchValues
<1>2. /\ BInv /\ Live /\ IInv /\ count \in Nat /\ HavePaths
      /\ Depth \in Nat \ {0} /\ Depth \in 1..Depth
      /\ Agree(Depth, scopes, values, paths, count)
      /\ ValsOK(Depth, scopes, values) /\ Depth = Len(scopes)
      /\ Top = scopes[Depth] /\ Top \in Level /\ LiveOK(Depth, scopes, paths)
  BY <1>1, Now
<1>3. CASE RejectValues
  BY <1>3, GoodStopped DEF RejectValues, Stop
<1>4. CASE /\ ~Undetermined(values[Depth], Top) /\ EndSwitch
           /\ values' = [values EXCEPT ![Depth] = EndValues(@)]
  <2> DEFINE l == EndSubScopesAt(Depth, Top)
             m == EndValues(values[Depth])
             n == Depth
  <2>1. l \in Level /\ l.role = Top.role /\ l.id = Top.id
    BY <1>2, EndSubScopesAtOK, LevelId
  <2>2. scopes' = [scopes EXCEPT ![Depth] = l] /\ count' = count
    BY <1>4 DEF EndSwitch
  <2>3. values' = [values EXCEPT ![Depth] = m]
    BY <1>4
  <2> HIDE DEF l, m
  <2>4. /\ Depth' = Depth /\ phase' = "sema"
        /\ \A i \in 1..Depth - 1 : paths'[i] = paths[i]
        /\ paths'[Depth] = [paths[Depth] EXCEPT
                               !.now = paths[Depth].ends \cup Skipped, !.ends = {}]
        /\ repeats' = repeats
    BY <1>1, <1>2, <1>4, FollowSwitch
  <2>5. scopes'[n] = l /\ \A i \in 1..n - 1 : scopes'[i] = scopes[i]
    <3> DEFINE t == [scopes EXCEPT ![Depth] = l]
    <3>1. t[Depth] = l /\ \A i \in 1..Depth - 1 : t[i] = scopes[i]
      BY <1>1, <1>2, <2>1, LevelsReplace
    <3>2. scopes' = t
      BY <2>2
    <3> HIDE DEF t
    <3> QED  BY <3>1, <3>2
  <2>6. values'[n] = m /\ \A i \in 1..n - 1 : values'[i] = values[i]
    <3> DEFINE t == [values EXCEPT ![Depth] = m]
    <3>1. AnySeq(values) /\ Len(values) = Depth
      BY <1>2 DEF ValsOK, AnySeq
    <3>2. t[Depth] = m /\ \A i \in 1..Depth - 1 : t[i] = values[i]
      BY <1>2, <3>1, AnyReplace
    <3>3. values' = t
      BY <2>3
    <3> HIDE DEF t
    <3> QED  BY <3>2, <3>3
  <2>7. /\ paths'[n].now = paths[n].ends \cup Skipped /\ paths'[n].ends = {}
        /\ paths'[n].jumps = paths[n].jumps
        /\ paths[n].ends # {} => paths[n].now # {}
    <3>1. LiveAt(Top, paths[n])
      BY <1>2 DEF LiveOK
    <3>2. paths[n] = [now |-> paths[n].now, ends |-> paths[n].ends, jumps |-> paths[n].jumps]
          /\ (paths[n].ends # {} => paths[n].now # {})
      BY <3>1 DEF LiveAt, IsPath
    <3> QED  BY <2>4, <3>2
  <2>8. LevelOK(n, n, scopes, values, paths, count) /\ InfosOK(values[n])
    BY <1>2 DEF Agree, ValsOK
  <2>9. /\ Below(n, scopes, values, paths, scopes', values', paths')
        /\ scopes'[n].role = scopes[n].role /\ scopes'[n].id = scopes[n].id
        /\ count' \in Nat /\ count <= count'
    BY <1>2, <2>1, <2>2, <2>4, <2>5, <2>6 DEF Below
  <2>10. LevelOK(n, n, scopes', values', paths', count')
    <3>1. CASE Last(bodies[Depth]).form # "partial"
      <4>1. \A v \in DOMAIN values[n] : Waits(values[n][v]) =>
                values[n][v].num = scopes[n].nsub - scopes[n].nterm
        BY <1>2, <1>4 DEF Undetermined
      <4>2. paths'[n].now \subseteq paths[n].ends /\ paths'[n].jumps \subseteq paths[n].jumps
        BY <2>7, <3>1 DEF Skipped
      <4>3. values'[n] = EndValues(values[n])
        BY <2>6 DEF m
      <4> QED  BY ONLY <1>2, <2>7, <2>8, <2>9, <4>1, <4>2, <4>3, Settle
    <3>2. CASE Last(bodies[Depth]).form = "partial"
      <4>1. NoWaits(values[n])
        BY <3>2 DEF EndSwitchValues, CornerOK, NoneMistaken, NoWaits
      <4>2. paths[n].ends \subseteq paths[n].now
        BY <2>7, <2>8, <4>1, NoWaitEnds
      <4>3. paths'[n].now \subseteq paths[n].now
        BY <2>7, <4>2 DEF Skipped
      <4>4. DOMAIN values'[n] = DOMAIN values[n]
            /\ \A v \in DOMAIN values[n] : values'[n][v] = values[n][v]
        BY <2>6, <4>1, EndValuesNone DEF m
      <4>5. \A jp \in paths'[n].jumps : jp \in paths[n].jumps
        BY <2>7
      <4> QED  BY ONLY <1>2, <2>7, <2>8, <2>9, <4>3, <4>4, <4>5, Narrow
    <3> QED  BY <3>1, <3>2
  <2>11. Agree(n, scopes', values', paths', count')
    BY ONLY <1>2, <2>9, <2>10, AgreeTop
  <2> QED  BY <2>4, <2>11 DEF Good, AgreeNow
<1> QED  BY <1>3, <1>4 DEF EndSwitchValues

-----------------------------------------------------------------------------
(* The statements that open no level *)

\* Statement s is appended and leaves its level in the state l.
Appended(s, l) ==
    /\ IsStmt(s) /\ l \in Level /\ l.role = Top.role /\ l.id = Top.id
    /\ scopes' = [scopes EXCEPT ![Depth] = l]
    /\ bodies' = Emplace(s) /\ count' = count + 1 /\ phase' = "sema"

LEMMA AppendedFacts ==
    ASSUME PInv, phase = "sema", Follow, ~InSwitch, NEW s, NEW l, Appended(s, l),
           \A i \in 1..Depth - 1 : values'[i] = values[i]
    PROVE  /\ Below(Depth, scopes, values, paths, scopes', values', paths')
           /\ scopes'[Depth].role = scopes[Depth].role /\ scopes'[Depth].id = scopes[Depth].id
           /\ \A i \in 1..Depth - 1 : scopes'[i] = scopes[i]
           /\ count \in Nat /\ count' = count + 1 /\ count' \in Nat /\ count <= count'
           /\ paths'[Depth] = AfterStmt(paths[Depth], s)
           /\ paths[Depth].ends = {} /\ IsPath(paths[Depth])
           /\ LevelOK(Depth, Depth, scopes, values, paths, count)
           /\ LevelOK(Depth, Depth, scopes', values', paths', count') => Good
<1>1. /\ BInv /\ Live /\ IInv /\ count \in Nat /\ HavePaths
      /\ Depth \in Nat \ {0} /\ Depth \in 1..Depth
      /\ Agree(Depth, scopes, values, paths, count)
      /\ Top = scopes[Depth] /\ LiveOK(Depth, scopes, paths) /\ Depth \in Nat
  BY Now
<1>2. /\ IsStmt(s) /\ l \in Level /\ l.role = Top.role /\ l.id = Top.id
      /\ scopes' = [scopes EXCEPT ![Depth] = l]
      /\ bodies' = Emplace(s) /\ count' = count + 1 /\ phase' = "sema"
  BY DEF Appended
<1>3. /\ Depth' = Depth /\ \A i \in 1..Depth - 1 : paths'[i] = paths[i]
      /\ paths'[Depth] = AfterStmt(paths[Depth], s) /\ repeats' = repeats
  BY <1>1, <1>2, FollowAdd
<1>4. scopes'[Depth] = l /\ \A i \in 1..Depth - 1 : scopes'[i] = scopes[i]
  <2> DEFINE t == [scopes EXCEPT ![Depth] = l]
  <2>1. t[Depth] = l /\ \A i \in 1..Depth - 1 : t[i] = scopes[i]
    BY <1>1, <1>2, LevelsReplace
  <2>2. scopes' = t
    BY <1>2
  <2> HIDE DEF t
  <2> QED  BY <2>1, <2>2
<1>5. count' \in Nat /\ count <= count'
  BY <1>1, <1>2
<1>6. paths[Depth].ends = {} /\ IsPath(paths[Depth])
  <2>1. Top.nsub = 0 /\ Top.nterm = 0
    BY <1>1, NoSubScopes
  <2>2. LiveAt(Top, paths[Depth])
    BY <1>1 DEF LiveOK
  <2> QED  BY <2>1, <2>2 DEF LiveAt
<1>7. LevelOK(Depth, Depth, scopes, values, paths, count)
  BY <1>1 DEF Agree
<1>8. /\ Below(Depth, scopes, values, paths, scopes', values', paths')
      /\ scopes'[Depth].role = scopes[Depth].role /\ scopes'[Depth].id = scopes[Depth].id
  BY <1>1, <1>2, <1>3, <1>4 DEF Below
<1>9. ASSUME LevelOK(Depth, Depth, scopes', values', paths', count')
      PROVE  Good
  <2>1. Agree(Depth, scopes', values', paths', count')
    BY ONLY <1>1, <1>5, <1>8, <1>9, AgreeTop
  <2> QED  BY <1>3, <2>1 DEF Good, AgreeNow
<1> QED  BY <1>1, <1>2, <1>3, <1>4, <1>5, <1>6, <1>7, <1>8, <1>9

\* Where control comes after statement s of Path p, and the jumps it makes
Onward(p, s) == IF s.op \in Leaving THEN {} ELSE {Effect(s, e) : e \in p.now}

Jumped(p, s) == IF s.op \in Jumping THEN {<<s.op, s.to, e>> : e \in p.now} ELSE {}

LEMMA AfterFields ==
    ASSUME NEW p, IsPath(p), NEW s
    PROVE  /\ AfterStmt(p, s).now = Onward(p, s)
           /\ AfterStmt(p, s).ends = p.ends
           /\ AfterStmt(p, s).jumps = p.jumps \cup Jumped(p, s)
<1> DEFINE a == Onward(p, s)
           b == Jumped(p, s)
           q == AfterStmt(p, s)
<1>1. q = [p EXCEPT !.now = a, !.jumps = p.jumps \cup b]
  BY DEF AfterStmt, IsPath, Onward, Jumped
<1>2. p = [now |-> p.now, ends |-> p.ends, jumps |-> p.jumps]
  BY DEF IsPath
<1> HIDE DEF a, b, q
<1>3. q = [now |-> a, ends |-> p.ends, jumps |-> p.jumps \cup b]
  BY <1>1, <1>2
<1>4. q.now = a /\ q.ends = p.ends /\ q.jumps = p.jumps \cup b
  BY <1>3
<1> QED  BY <1>4 DEF a, b, q

\* One that concerns no variable
LEMMA NoValueGood ==
    ASSUME PInv, phase = "sema", Follow, ~InSwitch, NEW s, NEW l, Appended(s, l),
           values' = values, s.op \notin {"var", "init", "move", "deleteStmt"},
           s.op \in Jumping => \A e \in paths[Depth].now :
               JumpAt(Depth, Depth, <<s.op, s.to, e>>, scopes, values, paths, count)
    PROVE  Good
<1>1. /\ Below(Depth, scopes, values, paths, scopes', values', paths')
      /\ scopes'[Depth].role = scopes[Depth].role /\ scopes'[Depth].id = scopes[Depth].id
      /\ count \in Nat /\ count' \in Nat /\ count <= count'
      /\ paths'[Depth] = AfterStmt(paths[Depth], s)
      /\ paths[Depth].ends = {} /\ IsPath(paths[Depth])
      /\ LevelOK(Depth, Depth, scopes, values, paths, count)
      /\ LevelOK(Depth, Depth, scopes', values', paths', count') => Good
  BY AppendedFacts
<1>2. Depth \in Nat /\ Depth \in 1..Depth
  BY Now
<1>3. \A e : Effect(s, e) = e
  BY DEF Effect
<1>4. /\ paths'[Depth].now = Onward(paths[Depth], s)
      /\ paths'[Depth].ends = {}
      /\ paths'[Depth].jumps = paths[Depth].jumps \cup Jumped(paths[Depth], s)
  BY <1>1, AfterFields
<1>5. paths'[Depth].now \subseteq paths[Depth].now
  BY <1>3, <1>4 DEF Onward
<1>6. Vars(values, Depth) \subseteq Vars(values', Depth)
  OBVIOUS
<1>7. \A jp : JumpAt(Depth, Depth, jp, scopes, values, paths, count) =>
              JumpAt(Depth, Depth, jp, scopes', values', paths', count')
  <2> SUFFICES ASSUME NEW jp, JumpAt(Depth, Depth, jp, scopes, values, paths, count)
               PROVE  JumpAt(Depth, Depth, jp, scopes', values', paths', count')
    OBVIOUS
  <2>1. JumpAt(Depth, Depth, jp, scopes, values, paths, count)
    OBVIOUS
  <2> QED  BY ONLY <1>1, <1>2, <1>6, <2>1, JumpTop
<1>8. \A jp \in paths'[Depth].jumps :
          jp \in paths[Depth].jumps \/ JumpAt(Depth, Depth, jp, scopes', values', paths', count')
  BY <1>4, <1>7 DEF Jumped
<1>9. DOMAIN values'[Depth] = DOMAIN values[Depth]
      /\ \A v \in DOMAIN values[Depth] : values'[Depth][v] = values[Depth][v]
  OBVIOUS
<1>10. LevelOK(Depth, Depth, scopes', values', paths', count')
  BY ONLY <1>1, <1>2, <1>4, <1>5, <1>8, <1>9, Narrow
<1> QED  BY <1>1, <1>10

LEMMA OtherGood ==
    ASSUME PInv, phase = "sema", Follow, Other
    PROVE  Good
<1> USE DEF CanAdd
<1>1. /\ IInv /\ Top \in Level /\ Top = scopes[Depth] /\ count \in Nat
  BY Now
<1>2. \A kind \in TerminatedKinds :
          LET l == SetTerminated(Top, kind)
          IN l \in Level /\ l.role = Top.role /\ l.id = Top.id
  BY <1>1, LevelFields DEF SetTerminated, Level
<1>3. \A op, form, to : IsStmt(Stmt(op, form, to)) /\ Stmt(op, form, to).op = op
  BY DEF Stmt, IsStmt
<1>4. CASE phase' # "sema"
  BY <1>4, GoodStopped
<1>5. CASE phase' = "sema"
  <2>1. values' = values
    BY <1>5 DEF Other
  <2>2. ASSUME ~InSwitch, NEW op \in {"call", "return", "error", "unreachable"},
               NEW form, NEW to, NEW l \in Level, l.role = Top.role, l.id = Top.id,
               Add(Stmt(op, form, to), l)
        PROVE  Good
    <3> DEFINE s == Stmt(op, form, to)
    <3>1. IsStmt(s) /\ s.op = op
      BY <1>3
    <3>2. /\ scopes' = [scopes EXCEPT ![Depth] = l] /\ bodies' = Emplace(s)
          /\ count' = count + 1
      BY <2>2 DEF Add
    <3> HIDE DEF s
    <3>3. Appended(s, l)
      BY <1>5, <2>2, <3>1, <3>2 DEF Appended
    <3>4. s.op \notin {"var", "init", "move", "deleteStmt"} /\ s.op \notin Jumping
      BY <3>1 DEF Jumping
    <3> QED  BY <2>1, <2>2, <3>3, <3>4, NoValueGood
  <2>3. CASE Call
    <3>1. ~InSwitch /\ Add(Stmt("call", "", 0), Top)
      BY <2>3 DEF Call
    <3> QED  BY <1>1, <2>2, <3>1
  <2>4. CASE Return \/ Error \/ Unreachable
    <3>1. /\ ~InSwitch
          /\ \E op \in {"return", "error", "unreachable"} :
                Add(Stmt(op, "", 0), SetTerminated(Top, "term"))
      BY <1>5, <2>4 DEF Return, Error, Unreachable, Stop
    <3> QED  BY <1>2, <2>2, <3>1 DEF TerminatedKinds
  <2>5. CASE BeginSwitch
    <3>1. PICK form : bodies' = Emplace(Stmt("switch", form, 0))
      BY <2>5 DEF BeginSwitch
    <3> DEFINE s == Stmt("switch", form, 0)
    <3>2. IsStmt(s) /\ s.op = "switch"
      BY <1>3
    <3>3. /\ bodies' = Emplace(s) /\ count' = count + 1 /\ scopes' = scopes /\ ~InSwitch
      BY <2>5, <3>1 DEF BeginSwitch
    <3>4. scopes = [scopes EXCEPT ![Depth] = Top]
      <4>1. scopes \in Seq(Level)
        BY <1>1 DEF IInv, LevelsOK
      <4> QED  BY <4>1 DEF Top
    <3> HIDE DEF s
    <3>5. Appended(s, Top)
      BY <1>1, <1>5, <3>2, <3>3, <3>4 DEF Appended
    <3>6. s.op \notin {"var", "init", "move", "deleteStmt"} /\ s.op \notin Jumping
      BY <3>2 DEF Jumping
    <3> QED  BY <2>1, <3>3, <3>5, <3>6, NoValueGood
  <2>6. CASE ScopeIsTerminated
    BY <1>5, <2>6 DEF ScopeIsTerminated, RejectTerminated, Stop
  <2> QED  BY <2>3, <2>4, <2>5, <2>6 DEF Other
<1> QED  BY <1>4, <1>5

\* Two open statements have different ids, and a variable is declared once.
LEMMA TargetIs ==
    ASSUME PInv, phase = "sema", NEW i \in 1..Depth,
           scopes[i].role \in LoopRoles \cup {"blockExpr"}
    PROVE  i \in 2..Depth /\ TargetOf(scopes[i].id) = i
<1>1. /\ Agree(Depth, scopes, values, paths, count) /\ IInv /\ Depth \in Nat \ {0}
      /\ Depth = Len(scopes)
  BY Now
<1>2. scopes \in Seq(Level) /\ scopes[1].role = "func" /\ DOMAIN scopes = 1..Depth
  BY <1>1 DEF IInv, LevelsOK
<1>3. i # 1
  BY <1>2 DEF LoopRoles
<1>4. ASSUME NEW j \in 1..Depth, scopes[j].id = scopes[i].id,
             scopes[j].role \in LoopRoles \cup {"blockExpr"}
      PROVE  j = i
  <2>1. IdAt(i, scopes, count) /\ IdAt(j, scopes, count)
    BY <1>1 DEF Agree, LevelOK
  <2>2. scopes[i].role # "case" /\ scopes[j].role # "case"
    BY <1>4 DEF LoopRoles
  <2>3. scopes[i].id \in Nat /\ ~(scopes[i].id < scopes[i].id)
    BY <2>1 DEF IdAt
  <2>4. ~(j < i)
    BY <1>4, <2>1, <2>2, <2>3 DEF IdAt
  <2>5. ~(i < j)
    BY <1>4, <2>1, <2>2, <2>3 DEF IdAt
  <2> QED  BY <2>4, <2>5
<1> QED  BY <1>1, <1>2, <1>3, <1>4 DEF TargetOf

LEMMA DeclLevelIs ==
    ASSUME PInv, phase = "sema", NEW d \in 1..Depth, NEW v, DeclaredAt(values, d, v)
    PROVE  DeclLevel(v) = d
<1>1. Agree(Depth, scopes, values, paths, count)
  BY Now
<1>2. \A j \in 1..Depth : DeclaredAt(values, j, v) => InfoAt(j, v, scopes, values, count)
  BY <1>1 DEF Agree, LevelOK, VarsAt, DeclaredAt
<1>3. ASSUME NEW j \in 1..Depth, DeclaredAt(values, j, v)
      PROVE  j = d
  <2>1. ~(j < d)
    BY <1>2, <1>3 DEF InfoAt, DeclaredAt
  <2>2. ~(d < j)
    BY <1>2, <1>3 DEF InfoAt, DeclaredAt
  <2> QED  BY <2>1, <2>2
<1> QED  BY <1>3 DEF DeclLevel, DeclaredAt

LEMMA JumpsGood ==
    ASSUME PInv, phase = "sema", Follow, StatesFollowed, Jumps
    PROVE  Good
<1> USE DEF CanAdd
<1>1. /\ BInv /\ IInv /\ Top \in Level /\ Top = scopes[Depth] /\ count \in Nat
      /\ Agree(Depth, scopes, values, paths, count) /\ Depth \in Nat \ {0}
      /\ Depth = Len(scopes)
  BY Now
<1>2. scopes \in Seq(Level) /\ DOMAIN scopes = 1..Depth
  BY <1>1 DEF IInv, LevelsOK
<1>3. CASE phase' # "sema"
  BY <1>3, GoodStopped
<1>4. CASE phase' = "sema"
  <2>14. PICK op \in Jumping, kind \in TerminatedKinds, i \in 1..Depth :
            \E form : /\ ~InSwitch /\ scopes[i].role \in LoopRoles \cup {"blockExpr"}
                      /\ Add(Stmt(op, form, scopes[i].id), SetTerminated(Top, kind))
    <3>1. CASE Break
      <4>1. PICK i \in Targets(LoopRoles) : \E form : LoopJump("break", form, i)
        BY <1>4, <3>1 DEF Break, Stop, Nearest
      <4> QED  BY <1>2, <3>1, <4>1 DEF Break, LoopJump, Targets, Jumping, TerminatedKinds
    <3>2. CASE Continue
      <4>1. PICK i \in Targets(LoopRoles) : \E form : LoopJump("continue", form, i)
        BY <1>4, <3>2 DEF Continue, Stop, Nearest
      <4> QED  BY <1>2, <3>2, <4>1 DEF Continue, LoopJump, Targets, Jumping, TerminatedKinds
    <3>3. CASE LabeledReturn
      BY <1>2, <3>3 DEF LabeledReturn, Targets, Jumping, TerminatedKinds
    <3> QED  BY <3>1, <3>2, <3>3 DEF Jumps
  <2>1. PICK form : /\ ~InSwitch /\ scopes[i].role \in LoopRoles \cup {"blockExpr"}
                    /\ Add(Stmt(op, form, scopes[i].id), SetTerminated(Top, kind))
    BY <2>14
  <2> DEFINE s == Stmt(op, form, scopes[i].id)
             l == SetTerminated(Top, kind)
  <2>2. IsStmt(s) /\ s.op = op /\ s.to = scopes[i].id
    BY DEF Stmt, IsStmt
  <2>3. l \in Level /\ l.role = Top.role /\ l.id = Top.id
    BY <1>1, LevelFields DEF SetTerminated, Level
  <2>4. Appended(s, l)
    <3>1. /\ scopes' = [scopes EXCEPT ![Depth] = l] /\ bodies' = Emplace(s)
          /\ count' = count + 1
      BY <2>1 DEF Add
    <3> HIDE DEF s, l
    <3> QED  BY <1>4, <2>2, <2>3, <3>1 DEF Appended
  <2> HIDE DEF s, l
  <2>5. Last(bodies'[Depth]) = s
    BY <1>1, <2>4, EmplacedLast DEF Appended
  <2>6. i \in 2..Depth /\ TargetOf(s.to) = i
    BY <2>1, <2>2, TargetIs
  <2>7. Depth' = Depth
    BY <1>1, <2>4, LevelsReplace DEF Appended, Depth
  <2>8. \A k \in i..Depth : \A v \in ChangedAt(k) : ~(DeclLevel(v) < i)
    BY <1>4, <2>5, <2>6, <2>7 DEF Jumps, CornerOK, StatesFollowed
  <2>9. ASSUME NEW k \in i..Depth, NEW v \in DOMAIN values[k], ~values[k][v].decl,
               NEW d \in 1..i - 1, DeclaredAt(values, d, v)
        PROVE  FALSE
    <3>1. v \in ChangedAt(k)
      BY <2>9 DEF ChangedAt
    <3>2. d \in 1..Depth /\ d < i
      BY ONLY <1>1, Depth \in Nat \ {0}, i \in 1..Depth, d \in 1..i - 1
    <3>3. DeclLevel(v) = d
      BY <1>1, <2>9, <3>2, DeclLevelIs
    <3>4. ~(DeclLevel(v) < i)
      BY ONLY <2>8, <3>1, k \in i..Depth
    <3> QED  BY ONLY <3>2, <3>3, <3>4
  <2>10. ASSUME NEW e \in paths[Depth].now
         PROVE  JumpAt(Depth, Depth, <<s.op, s.to, e>>, scopes, values, paths, count)
    <3>1. scopes[i].role # "case"
      BY <2>1 DEF LoopRoles
    <3>2. \A k \in i..Depth : \A v \in DOMAIN values[k] :
              ~values[k][v].decl => \A d \in 1..i - 1 : ~DeclaredAt(values, d, v)
      BY <2>9
    <3>3. Depth \in Nat /\ e \in paths[Depth].now
      BY <1>1
    <3>4. JumpAt(Depth, Depth, <<s.op, scopes[i].id, e>>, scopes, values, paths, count)
      BY ONLY <1>1, <2>6, <3>1, <3>2, <3>3, NewJump
    <3> QED  BY <2>2, <3>4
  <2>11. s.op \notin {"var", "init", "move", "deleteStmt"}
    BY <2>2 DEF Jumping
  <2>12. values' = values
    BY <1>4 DEF Jumps
  <2> QED  BY <2>1, <2>4, <2>10, <2>11, <2>12, NoValueGood
<1> QED  BY <1>3, <1>4

-----------------------------------------------------------------------------
(* The statements that change the state of a variable *)

LEMMA TopValues ==
    ASSUME PInv, phase = "sema", NEW m, values' = [values EXCEPT ![Depth] = m]
    PROVE  values'[Depth] = m /\ \A i \in 1..Depth - 1 : values'[i] = values[i]
<1>1. AnySeq(values) /\ Len(values) = Depth /\ Depth \in 1..Depth /\ Depth \in Nat
  BY Now DEF ValsOK, AnySeq
<1>2. DOMAIN values = 1..Depth
  BY <1>1 DEF AnySeq
<1> DEFINE t == [values EXCEPT ![Depth] = m]
<1>3. t[Depth] = m /\ \A i \in 1..Depth - 1 : t[i] = values[i]
  BY <1>1, <1>2
<1>4. values' = t
  OBVIOUS
<1> HIDE DEF t
<1> QED  BY <1>3, <1>4

LEMMA ChangeGood ==
    ASSUME PInv, phase = "sema", Follow, ~InSwitch, NEW s, Appended(s, Top),
           s.op \notin Leaving, NEW v, NEW state \in States,
           \A e \in paths[Depth].now : Effect(s, e) = With(e, v, state),
           NEW m, values' = [values EXCEPT ![Depth] = m],
           DOMAIN m = DOMAIN values[Depth] \cup {v},
           \A u \in DOMAIN values[Depth] \ {v} : m[u] = values[Depth][u],
           m[v].num = 0, m[v].state = state,
           InfoAt(Depth, v, scopes', values', count')
    PROVE  Good
<1>1. values'[Depth] = m /\ \A i \in 1..Depth - 1 : values'[i] = values[i]
  BY TopValues
<1>2. /\ Below(Depth, scopes, values, paths, scopes', values', paths')
      /\ scopes'[Depth].role = scopes[Depth].role /\ scopes'[Depth].id = scopes[Depth].id
      /\ count \in Nat /\ count' \in Nat /\ count <= count'
      /\ paths'[Depth] = AfterStmt(paths[Depth], s)
      /\ paths[Depth].ends = {} /\ IsPath(paths[Depth])
      /\ LevelOK(Depth, Depth, scopes, values, paths, count)
      /\ LevelOK(Depth, Depth, scopes', values', paths', count') => Good
  BY <1>1, AppendedFacts
<1>3. Depth \in Nat \ {0}
  BY Now
<1>4. /\ paths'[Depth].now = Onward(paths[Depth], s)
      /\ paths'[Depth].ends = {}
      /\ paths'[Depth].jumps = paths[Depth].jumps \cup Jumped(paths[Depth], s)
  BY <1>2, AfterFields
<1>5. paths'[Depth].jumps = paths[Depth].jumps
  BY <1>4 DEF Jumped, Leaving
<1>6. \A g \in paths'[Depth].now : \E e \in paths[Depth].now : g = With(e, v, state)
  BY <1>4 DEF Onward
<1>8. /\ DOMAIN values'[Depth] = DOMAIN values[Depth] \cup {v}
      /\ \A u \in DOMAIN values[Depth] \ {v} : values'[Depth][u] = values[Depth][u]
      /\ values'[Depth][v].num = 0 /\ values'[Depth][v].state = state
      /\ InfoAt(Depth, v, scopes', values', count')
  BY <1>1
<1>9. LevelOK(Depth, Depth, scopes', values', paths', count')
  BY ONLY <1>2, <1>3, <1>4, <1>5, <1>6, <1>8, state \in States, ChangeTop
<1> QED  BY <1>2, <1>9

LEMMA DeclareGood ==
    ASSUME PInv, phase = "sema", Follow, Declare
    PROVE  Good
<1> USE DEF CanAdd
<1>1. /\ Top \in Level /\ count \in Nat /\ Depth \in Nat \ {0}
      /\ Agree(Depth, scopes, values, paths, count)
  BY Now
<1>2. PICK form :
          /\ ~InSwitch /\ Add(Stmt("var", form, 0), Top)
          /\ values' = [values EXCEPT ![Depth] =
                           Declared(@, count', IF form = "" THEN "init" ELSE "uninit")]
  BY DEF Declare, LocalVar
<1>17. PICK v : v = count + 1
  OBVIOUS
<1> DEFINE s == Stmt("var", form, 0)
           st == IF form = "" THEN "init" ELSE "uninit"
           m == Declared(values[Depth], v, st)
<1>3. IsStmt(s) /\ s.op = "var" /\ s.id = v /\ s.form = form
  BY <1>17 DEF Stmt, IsStmt
<1>4. /\ scopes' = [scopes EXCEPT ![Depth] = Top] /\ bodies' = Emplace(s)
      /\ count' = count + 1 /\ phase' = "sema"
  BY <1>2 DEF Add
<1>5. values' = [values EXCEPT ![Depth] = m]
  BY <1>2, <1>4, <1>17
<1>6. st \in States
  BY DEF States
<1> HIDE DEF st
<1>7. \A i \in 1..Depth : \A u \in DOMAIN values[i] : u \in Nat /\ u <= count
  BY <1>1 DEF Agree, LevelOK, VarsAt, InfoAt
<1>8. v \in Nat /\ \A i \in 1..Depth : v \notin DOMAIN values[i]
  BY ONLY <1>1, <1>7, <1>17
<1>9. \A e : Effect(s, e) = With(e, v, st)
  <2> SUFFICES ASSUME NEW e PROVE Effect(s, e) = With(e, v, st)
    OBVIOUS
  <2>1. Effect(s, e) =
            [w \in DOMAIN e \cup {s.id} |->
                IF w # s.id THEN e[w] ELSE IF s.form = "" THEN "init" ELSE "uninit"]
    BY <1>3 DEF Effect
  <2> HIDE DEF s
  <2> QED  BY <1>3, <2>1 DEF With, st
<1> HIDE DEF s
<1>10. /\ DOMAIN m = DOMAIN values[Depth] \cup {v}
       /\ \A u \in DOMAIN values[Depth] \ {v} : m[u] = values[Depth][u]
       /\ m[v] = DeclInfo(st)
  <2>1. v \notin DOMAIN values[Depth]
    BY <1>1, <1>8
  <2> QED  BY <2>1 DEF Declared
<1> HIDE DEF m
<1>11. m[v].num = 0 /\ m[v].state = st /\ m[v].decl /\ m[v].pending = "none"
  BY <1>10 DEF DeclInfo
<1>12. values'[Depth] = m /\ \A i \in 1..Depth - 1 : values'[i] = values[i]
  BY <1>5, TopValues
<1>13. \A i \in 1..Depth - 1 : i \in 1..Depth
  BY <1>1
<1>14. InfoAt(Depth, v, scopes', values', count')
  <2>1. \A j \in 1..Depth - 1 : v \notin DOMAIN values'[j]
    BY <1>8, <1>12, <1>13
  <2>2. values'[Depth][v].decl /\ values'[Depth][v].pending = "none"
    BY <1>11, <1>12
  <2>3. v \in Nat /\ v <= count'
    BY ONLY <1>1, <1>4, <1>8, <1>17
  <2> QED  BY <2>1, <2>2, <2>3 DEF InfoAt
<1>15. Appended(s, Top)
  BY <1>1, <1>3, <1>4 DEF Appended
<1>16. s.op \notin Leaving
  BY <1>3 DEF Leaving, Jumping
<1>18. ~InSwitch /\ \A e \in paths[Depth].now : Effect(s, e) = With(e, v, st)
  BY ONLY <1>2, <1>9
<1> QED  BY ONLY <1>18, <1>5, <1>6, <1>10, <1>11, <1>14, <1>15, <1>16,
             PInv, phase = "sema", Follow, ChangeGood

\* What the analyzer's state for an outer variable makes true of its info
LEMMA NewInfo ==
    ASSUME PInv, phase = "sema", StatesFollowed, NEW v \in Variables,
           NEW kind, NEW ok, About(kind, v, ok), v \notin DOMAIN values[Depth],
           \A i \in 1..Depth - 1 : values'[i] = values[i],
           ~values'[Depth][v].decl,
           \A k \in 1..Depth : scopes'[k].role = scopes[k].role,
           count' \in Nat, count <= count'
    PROVE  InfoAt(Depth, v, scopes', values', count')
<1>1. /\ Agree(Depth, scopes, values, paths, count) /\ Depth \in Nat \ {0}
      /\ Depth \in 1..Depth /\ Depth \in Nat /\ count \in Nat
  BY Now
<1>2. v \in Vars(values, Depth)
  BY DEF Variables, Vars
<1>3. PICK d \in 1..Depth : DeclaredAt(values, d, v)
  BY ONLY <1>1, <1>2, DeclaredOnce
<1>4. d \in 1..Depth - 1 /\ d \in Nat
  <2>1. d # Depth
    BY <1>3 DEF DeclaredAt
  <2> QED  BY <1>1, <2>1
<1>5. DeclaredAt(values', d, v)
  BY <1>3, <1>4 DEF DeclaredAt
<1>6. v \in Nat /\ v <= count'
  <2>1. InfoAt(d, v, scopes, values, count)
    BY <1>1, <1>3 DEF Agree, LevelOK, VarsAt, DeclaredAt
  <2>2. v \in Nat /\ v <= count
    BY <2>1 DEF InfoAt
  <2> QED  BY <1>1, <2>2
<1>7. ASSUME NEW k \in 1..Depth, scopes'[k].role = "defer"
      PROVE  \E j \in k..Depth - 1 : DeclaredAt(values', j, v)
  <2>1. DeclLevel(v) = d
    BY <1>3, DeclLevelIs
  <2>2. \A i \in DeclLevel(v) + 1..Depth : scopes[i].role # "defer"
    BY DEF About, CornerOK, StatesFollowed
  <2>3. \A i \in d + 1..Depth : scopes[i].role # "defer"
    BY ONLY <2>1, <2>2
  <2>4. scopes[k].role = "defer"
    BY <1>7
  <2>5. ~(k \in d + 1..Depth)
    BY <2>3, <2>4
  <2>6. d \in k..Depth - 1
    BY <1>1, <1>4, <2>5
  <2> QED  BY <1>5, <2>6
<1>8. ASSUME NEW j \in 1..Depth - 1, v \in DOMAIN values'[j], ~values'[j][v].decl,
             values'[j][v].num = 0
      PROVE  j >= values'[j][v].index
  <2>1. j \in 1..Depth /\ values'[j] = values[j]
    BY <1>1
  <2>2. ~Misjudged(v)
    BY DEF About, CornerOK, StatesFollowed
  <2>3. v \in DOMAIN values[j] /\ ~values[j][v].decl /\ values[j][v].num = 0
    BY <1>8, <2>1
  <2>4. Seen(j, v)
    BY <2>1, <2>2, <2>3 DEF Misjudged
  <2>5. j >= values[j][v].index
    BY <2>3, <2>4 DEF Seen
  <2> QED  BY <2>1, <2>5
<1> QED  BY <1>4, <1>5, <1>6, <1>7, <1>8 DEF InfoAt

LEMMA SetsGood ==
    ASSUME PInv, phase = "sema", Follow, StatesFollowed, NEW v \in Variables,
           NEW kind \in {"init", "move", "deleteStmt"}, NEW ok, About(kind, v, ok),
           NEW state \in States, Sets(v, state),
           \A s : s.op = kind /\ s.to = v => \A e : Effect(s, e) = [e EXCEPT ![v] = state]
    PROVE  Good
<1>1. /\ BInv /\ Vals /\ Top \in Level /\ Top = scopes[Depth] /\ count \in Nat
      /\ Depth \in Nat \ {0} /\ Depth \in 1..Depth /\ Depth \in Nat
      /\ Agree(Depth, scopes, values, paths, count) /\ InfosOK(values[Depth])
  BY Now DEF ValsOK
<1>2. ~InSwitch /\ (Add(Stmt(kind, "", v), Top) \/ Stop("rejected"))
  BY AboutStep
<1>3. CASE phase' # "sema"
  BY <1>3, GoodStopped
<1>4. CASE phase' = "sema"
  <2> DEFINE s == Stmt(kind, "", v)
             m == SetState(values[Depth], v, state)
  <2>1. Add(s, Top)
    BY <1>2, <1>4 DEF Stop
  <2>2. IsStmt(s) /\ s.op = kind /\ s.to = v
    BY DEF Stmt, IsStmt
  <2> HIDE DEF s
  <2>3. Appended(s, Top)
    BY <1>1, <1>4, <2>1, <2>2 DEF Appended, Add
  <2>4. s.op \notin Leaving
    BY <2>2 DEF Leaving, Jumping
  <2>5. values' = [values EXCEPT ![Depth] = m]
    BY <1>4 DEF Sets
  <2>6. Idle(values[Depth])
    BY <1>1, <1>2, NothingWaits
  <2>7. /\ DOMAIN m = DOMAIN values[Depth] \cup {v}
        /\ \A u \in DOMAIN values[Depth] \ {v} : m[u] = values[Depth][u]
        /\ m[v] = IF v \in DOMAIN values[Depth]
                  THEN [values[Depth][v] EXCEPT !.state = state]
                  ELSE ModifyInfo(values[Depth], state, 0)
    BY DEF SetState
  <2> HIDE DEF m
  <2>8. \A i \in 1..Depth - 1 : values'[i] = values[i]
    BY <2>5, TopValues
  <2>9. values'[Depth] = m
    BY <2>5, TopValues
  <2>10. /\ Below(Depth, scopes, values, paths, scopes', values', paths')
         /\ scopes'[Depth].role = scopes[Depth].role
         /\ \A i \in 1..Depth - 1 : scopes'[i] = scopes[i]
         /\ count' \in Nat /\ count <= count'
    BY <1>2, <2>3, <2>8, AppendedFacts
  <2>11. \A e \in paths[Depth].now : Effect(s, e) = With(e, v, state)
    <3> SUFFICES ASSUME NEW e \in paths[Depth].now
                 PROVE  Effect(s, e) = With(e, v, state)
      OBVIOUS
    <3>1. e \in [Vars(values, Depth) -> States]
      BY <1>1 DEF Agree, LevelOK, EnvAt, EnvOK
    <3>2. v \in DOMAIN e /\ e = [u \in DOMAIN e |-> e[u]]
      BY <3>1 DEF Variables, Vars
    <3>3. Effect(s, e) = [e EXCEPT ![v] = state]
      BY <2>2
    <3> QED  BY ONLY <3>2, <3>3 DEF With
  <2>12. m[v].num = 0 /\ m[v].state = state /\ InfoAt(Depth, v, scopes', values', count')
    <3>1. CASE v \in DOMAIN values[Depth]
      <4> DEFINE f == values[Depth][v]
                 g == m[v]
      <4>1. InfoOK(f) /\ f.num = 0
        BY <1>1, <2>6, <3>1 DEF InfosOK, Idle
      <4>2. g = [f EXCEPT !.state = state]
        BY <2>7, <3>1
      <4>3. InfoAt(Depth, v, scopes, values, count)
        BY <1>1, <3>1 DEF Agree, LevelOK, VarsAt
      <4>4. f.decl /\ f.num = 0 => f.pending = "none"
        BY <4>3 DEF InfoAt
      <4> HIDE DEF f, g
      <4>5. g.num = 0 /\ g.state = state /\ g.decl = f.decl /\ g.pending = f.pending
        BY <4>1, <4>2 DEF InfoOK
      <4>6. m[v].num = 0 /\ m[v].state = state
        BY <4>5 DEF g
      <4>7. values'[Depth][v].decl = values[Depth][v].decl
        BY <2>9, <4>5 DEF f, g
      <4>8. values'[Depth][v].decl /\ values'[Depth][v].num = 0 =>
                values'[Depth][v].pending = "none"
        BY <2>9, <4>1, <4>4, <4>5 DEF f, g
      <4>9. InfoAt(Depth, v, scopes', values', count')
        BY ONLY <1>1, <2>10, <4>3, <4>7, <4>8, InfoTop
      <4> QED  BY <4>6, <4>9
    <3>2. CASE v \notin DOMAIN values[Depth]
      <4>1. m[v] = ModifyInfo(values[Depth], state, 0)
        BY <2>7, <3>2
      <4> DEFINE g == m[v]
      <4>2. g.num = 0 /\ g.state = state /\ ~g.decl
        <5>1. g = ModifyInfo(values[Depth], state, 0)
          BY <4>1
        <5> HIDE DEF g
        <5> QED  BY <5>1 DEF ModifyInfo
      <4>3. ~values'[Depth][v].decl
        BY <2>9, <4>2
      <4>4. \A k \in 1..Depth : scopes'[k].role = scopes[k].role
        <5>1. \A k \in 1..Depth : k = Depth \/ k \in 1..Depth - 1
          BY <1>1
        <5> QED  BY <2>10, <5>1
      <4>5. InfoAt(Depth, v, scopes', values', count')
        BY <2>8, <2>10, <3>2, <4>3, <4>4, NewInfo
      <4> QED  BY <4>2, <4>5
    <3> QED  BY <3>1, <3>2
  <2> QED  BY ONLY <1>2, <2>3, <2>4, <2>5, <2>7, <2>11, <2>12, state \in States,
                   PInv, phase = "sema", Follow, ChangeGood
<1> QED  BY <1>3, <1>4

LEMMA ValueGood ==
    ASSUME PInv, phase = "sema", Follow, StatesFollowed, NEW v \in Variables,
           Use(v) \/ Move(v) \/ Assign(v) \/ Delete(v)
    PROVE  Good
<1>1. CASE Use(v)
  <2>1. ~InSwitch /\ (Add(Stmt("use", "", v), Top) \/ Stop("rejected"))
    BY <1>1, AboutStep DEF Use
  <2>2. CASE phase' # "sema"
    BY <2>2, GoodStopped
  <2>3. CASE phase' = "sema"
    <3> DEFINE s == Stmt("use", "", v)
    <3>1. Add(s, Top)
      BY <2>1, <2>3 DEF Stop
    <3>2. IsStmt(s) /\ s.op = "use"
      BY DEF Stmt, IsStmt
    <3>3. values' = values
      BY <1>1, <2>3 DEF Use
    <3> HIDE DEF s
    <3>4. Appended(s, Top)
      BY <2>3, <3>1, <3>2, Now DEF Appended, Add
    <3>5. s.op \notin {"var", "init", "move", "deleteStmt"} /\ s.op \notin Jumping
      BY <3>2 DEF Jumping
    <3> QED  BY <2>1, <3>3, <3>4, <3>5, NoValueGood
  <2> QED  BY <2>2, <2>3
<1>2. "init" \in States /\ "moved" \in States /\ "uninit" \in States
  BY DEF States
<1>3. CASE Move(v)
  <2>1. \A s : s.op = "move" /\ s.to = v => \A e : Effect(s, e) = [e EXCEPT ![v] = "moved"]
    BY DEF Effect
  <2>2. About("move", v, StateOf(v) = "init") /\ Sets(v, "moved")
    BY <1>3 DEF Move
  <2> QED  BY <1>2, <2>1, <2>2, SetsGood
<1>4. CASE Assign(v)
  <2>1. \A s : s.op = "init" /\ s.to = v => \A e : Effect(s, e) = [e EXCEPT ![v] = "init"]
    BY DEF Effect
  <2>2. About("init", v, StateOf(v) = "uninit") /\ Sets(v, "init")
    BY <1>4 DEF Assign
  <2> QED  BY <1>2, <2>1, <2>2, SetsGood
<1>5. CASE Delete(v)
  <2>1. \A s : s.op = "deleteStmt" /\ s.to = v =>
            \A e : Effect(s, e) = [e EXCEPT ![v] = "uninit"]
    BY DEF Effect
  <2>2. About("deleteStmt", v, StateOf(v) # "uninit") /\ Sets(v, "uninit")
    BY <1>5 DEF Delete
  <2> QED  BY <1>2, <2>1, <2>2, SetsGood
<1> QED  BY <1>1, <1>3, <1>4, <1>5

-----------------------------------------------------------------------------
(* The statements that open a level *)

LEMMA OpenedGood ==
    ASSUME PInv, phase = "sema", Follow, NEW p \in Level, p.role = Top.role,
           p.id = Top.id, NEW l \in Level,
           scopes' = Append([scopes EXCEPT ![Depth] = p], l), phase' = "sema",
           values' = Append(values, <<>>), count' \in Nat, count <= count',
           IF l.role = "case"
           THEN l.id = 0 /\ p.nsub = Top.nsub + 1 /\ p.nterm = Top.nterm
           ELSE ~InSwitch /\ l.id = count + 1 /\ count' = count + 1
    PROVE  Good
<1>1. /\ BInv /\ Vals /\ IInv /\ count \in Nat /\ HavePaths
      /\ ValsOK(Depth, scopes, values) /\ Depth \in 1..Depth /\ Depth \in Nat
      /\ Agree(Depth, scopes, values, paths, count) /\ Top = scopes[Depth] /\ Top \in Level
      /\ LiveOK(Depth, scopes, paths)
  BY Now
<1>2. PICK n \in Nat \ {0} : Depth = n
  BY Now
<1>3. /\ Depth' = n + 1 /\ \A i \in 1..n : paths'[i] = paths[i]
      /\ paths'[n + 1] = Path(paths[n].now) /\ repeats' = repeats
  BY <1>1, <1>2, FollowPush
<1>4. /\ scopes'[n] = p /\ scopes'[n + 1] = l
      /\ \A i \in 1..n - 1 : scopes'[i] = scopes[i]
  <2> DEFINE t == Append([scopes EXCEPT ![Depth] = p], l)
  <2>1. t[Depth] = p /\ t[Depth + 1] = l /\ \A i \in 1..Depth - 1 : t[i] = scopes[i]
    BY <1>1, LevelsPush
  <2>2. scopes' = t
    OBVIOUS
  <2> HIDE DEF t
  <2> QED  BY <1>2, <2>1, <2>2
<1>5. values'[n + 1] = <<>> /\ \A i \in 1..n : values'[i] = values[i]
  <2>1. AnySeq(values) /\ Len(values) = n /\ n \in Nat
    BY <1>1, <1>2 DEF ValsOK, AnySeq
  <2> DEFINE t == Append(values, <<>>)
  <2>2. t[n + 1] = <<>> /\ \A i \in 1..n : t[i] = values[i]
    BY <2>1, AnyPush
  <2>3. values' = t
    OBVIOUS
  <2> HIDE DEF t
  <2> QED  BY <2>2, <2>3
<1>6. \A i \in 1..n : i = n \/ i \in 1..n - 1
  OBVIOUS
<1>7. n \in 1..n /\ \A i \in 1..n - 1 : i \in 1..n
  OBVIOUS
<1>8. /\ Below(n, scopes, values, paths, scopes', values', paths')
      /\ scopes'[n].role = scopes[n].role /\ scopes'[n].id = scopes[n].id
      /\ values'[n] = values[n] /\ paths'[n] = paths[n]
  BY <1>1, <1>2, <1>3, <1>4, <1>5, <1>7 DEF Below
<1>9. LevelOK(n, n, scopes, values, paths, count)
  BY <1>1, <1>2 DEF Agree
<1>10. \A j \in 1..n : scopes[j].id \in Nat /\ scopes[j].id <= count
  BY <1>1, <1>2 DEF Agree, LevelOK, IdAt
<1>11. \A j \in 1..n : scopes'[j].id = scopes[j].id
  BY <1>4, <1>6, <1>8
<1>12. /\ EndAt(n, All(n, n + 1, scopes'[n]), values, paths)
       /\ IdAt(n + 1, scopes', count')
       /\ scopes'[n + 1].role \in IdleRoles => Idle(values[n])
       /\ scopes'[n + 1].role \in Aimed =>
              \A i \in 1..n : \A jp \in paths[i].jumps :
                  Lands(jp, scopes'[n + 1].id, n + 1, values, paths)
  <2>1. CASE l.role = "case"
    <3>1. p.nsub = Top.nsub + 1 /\ p.nterm = Top.nterm /\ l.id = 0
      BY <2>1
    <3>2. EndAt(n, All(n, n, scopes[n]), values, paths)
      BY <1>9 DEF LevelOK
    <3>3. Top.nsub \in Nat /\ Top.nterm \in Nat
      BY <1>1, LevelFields
    <3>4. All(n, n, scopes[n]) = Top.nsub - Top.nterm - 0
      BY <1>1, <1>2 DEF All
    <3>5. All(n, n + 1, scopes'[n]) = (Top.nsub + 1) - Top.nterm - 1
      <4>1. n < n + 1
        OBVIOUS
      <4> QED  BY ONLY <1>4, <3>1, <4>1 DEF All
    <3>6. EndAt(n, All(n, n + 1, scopes'[n]), values, paths)
      <4>1. (Top.nsub + 1) - Top.nterm - 1 = Top.nsub - Top.nterm - 0
        BY ONLY <3>3
      <4> QED  BY ONLY <3>2, <3>4, <3>5, <4>1
    <3>7. IdAt(n + 1, scopes', count')
      <4>1. 0 \in Nat /\ 0 <= count'
        BY ONLY count' \in Nat
      <4> QED  BY ONLY <1>4, <2>1, <3>1, <4>1 DEF IdAt
    <3>8. l.role \notin IdleRoles /\ l.role \notin Aimed
      BY <2>1 DEF IdleRoles, Aimed, LoopRoles
    <3> QED  BY <1>4, <3>6, <3>7, <3>8
  <2>2. CASE l.role # "case"
    <3>1. ~InSwitch /\ l.id = count + 1 /\ count' = count + 1
      BY <2>2
    <3>2. paths[n].ends = {}
      <4>1. Top.nsub = 0 /\ Top.nterm = 0
        BY <1>1, <3>1, NoSubScopes
      <4>2. LiveAt(Top, paths[n])
        BY <1>1, <1>2 DEF LiveOK
      <4> QED  BY <4>1, <4>2 DEF LiveAt
    <3>3. EndAt(n, All(n, n + 1, scopes'[n]), values, paths)
      BY <3>2 DEF EndAt
    <3>4. \A j \in 1..n + 1 - 1 : j \in 1..n
      OBVIOUS
    <3>5. \A j \in 1..n + 1 - 1 : scopes'[j].id < count + 1
      <4>1. \A j \in 1..n : scopes[j].id < count + 1
        BY ONLY <1>1, <1>10
      <4> QED  BY ONLY <1>11, <3>4, <4>1
    <3>6. IdAt(n + 1, scopes', count')
      BY <1>1, <1>4, <3>1, <3>5 DEF IdAt
    <3>7. Idle(values[n])
      BY <1>1, <1>2, <3>1, NothingWaits
    <3>8. ASSUME NEW i \in 1..n, NEW jp \in paths[i].jumps
          PROVE  Lands(jp, scopes'[n + 1].id, n + 1, values, paths)
      <4>1. jp[2] \in Nat /\ jp[2] <= count
        BY <1>1, <1>2 DEF Agree, LevelOK, JumpsAt, JumpAt, JumpOK
      <4>2. jp[2] # scopes'[n + 1].id
        BY ONLY <1>1, <1>4, <3>1, <4>1
      <4> QED  BY ONLY <4>2 DEF Lands
    <3> QED  BY <3>3, <3>6, <3>7, <3>8
  <2> QED  BY <2>1, <2>2
<1>13. Agree(n, scopes, values, paths, count)
  BY <1>1, <1>2
<1>14. Agree(n + 1, scopes', values', paths', count')
  BY ONLY <1>1, <1>3, <1>5, <1>8, <1>12, <1>13, count' \in Nat, count <= count',
          n \in Nat \ {0}, AgreePush
<1> QED  BY <1>3, <1>14 DEF Good, AgreeNow

LEMMA OpenLevelGood ==
    ASSUME PInv, phase = "sema", Follow, OpenLevel
    PROVE  Good
<1> USE DEF CanAdd, CanOpen
<1> DEFINE a == AddSubScope(Top)
           aa == AddSubScope(a)
<1>1. Top \in Level /\ count \in Nat
  BY Now
<1>2. Top.nsub \in Nat /\ Top.nterm \in Nat
  BY <1>1, LevelFields
<1>3. /\ a \in Level /\ a.role = Top.role /\ a.id = Top.id
      /\ a.nsub = Top.nsub + 1 /\ a.nterm = Top.nterm
  BY <1>1, <1>2 DEF AddSubScope, Level
<1> HIDE DEF a
<1>4. aa \in Level /\ aa.role = Top.role /\ aa.id = Top.id
  BY <1>2, <1>3 DEF AddSubScope, Level
<1> HIDE DEF aa
<1>5. \A role \in Roles, id \in Nat :
          /\ NewLevel(role, id) \in Level /\ NewLevel(role, id).id = id
          /\ NewLevel(role, id).role = role
  BY NewLevelOK DEF NewLevel
<1>6. values' = Append(values, <<>>)
  BY DEF OpenLevel
<1>7. ASSUME ~InSwitch, NEW op, NEW form, NEW subs, NEW role \in Roles \ {"case"},
             NEW p \in {a, aa}, Open(Stmt(op, form, 0), p, role, subs)
      PROVE  Good
  <2> DEFINE l == NewLevel(role, count + 1)
  <2>1. l \in Level /\ l.role = role /\ l.id = count + 1 /\ l.role # "case"
    BY <1>1, <1>5
  <2>2. scopes' = Append([scopes EXCEPT ![Depth] = p], l) /\ phase' = "sema"
        /\ count' = count + 1 /\ count' \in Nat /\ count <= count'
    BY <1>1, <1>7 DEF Open, Stmt
  <2> HIDE DEF l
  <2>3. p \in Level /\ p.role = Top.role /\ p.id = Top.id
    BY <1>3, <1>4
  <2>4. IF l.role = "case"
        THEN l.id = 0 /\ p.nsub = Top.nsub + 1 /\ p.nterm = Top.nterm
        ELSE ~InSwitch /\ l.id = count + 1 /\ count' = count + 1
    BY <1>7, <2>1, <2>2
  <2> QED  BY ONLY <1>6, <2>1, <2>2, <2>3, <2>4, PInv, phase = "sema", Follow, OpenedGood
<1>8. {"then", "while", "for", "defer", "block", "tryElse", "blockExpr"} \subseteq Roles \ {"case"}
      /\ "case" \in Roles
  BY DEF Roles, LoopRoles
<1>9. CASE BeginCond \/ BeginWhile \/ BeginFor \/ BeginStmtBlock
  <2>1. ~InSwitch /\ \E op, form, subs : \E role \in {"then", "while", "for", "block"} :
            Open(Stmt(op, form, 0), a, role, subs)
    BY <1>9 DEF BeginCond, BeginWhile, BeginFor, BeginStmtBlock, a
  <2> QED  BY <1>7, <1>8, <2>1
<1>10. CASE BeginDefer
  <2>1. ~InSwitch /\ \E form : Open(Stmt("defer", form, 0), a, "defer", subscopes)
    BY <1>10 DEF BeginDefer, a
  <2> QED  BY <1>7, <1>8, <2>1
<1>11. CASE TryElseBegin \/ BeginExprBlock
  <2>1. ~InSwitch /\ \E op, form : \E role \in {"tryElse", "blockExpr"} :
            Open(Stmt(op, form, 0), aa, role, subscopes)
    BY <1>11 DEF TryElseBegin, BeginExprBlock, a, aa
  <2> QED  BY <1>7, <1>8, <2>1
<1>12. CASE BeginCase
  <2> DEFINE l == NewLevel("case", 0)
  <2>1. l \in Level /\ l.role = "case" /\ l.id = 0
    BY <1>5, <1>8
  <2>2. scopes' = Append([scopes EXCEPT ![Depth] = a], l) /\ phase' = "sema" /\ count' = count
    BY <1>12 DEF BeginCase, a
  <2> HIDE DEF l
  <2>3. IF l.role = "case"
        THEN l.id = 0 /\ a.nsub = Top.nsub + 1 /\ a.nterm = Top.nterm
        ELSE ~InSwitch /\ l.id = count + 1 /\ count' = count + 1
    BY <1>3, <2>1
  <2>4. count' \in Nat /\ count <= count'
    BY <1>1, <2>2
  <2> QED  BY ONLY <1>3, <1>6, <2>1, <2>2, <2>3, <2>4, PInv, phase = "sema", Follow, OpenedGood
<1> QED  BY <1>9, <1>10, <1>11, <1>12 DEF OpenLevel

-----------------------------------------------------------------------------
(* The state that the analyzer sees is the one on every path. *)

LEMMA LastSeen ==
    ASSUME PInv, phase = "sema", NEW v \in Variables
    PROVE  \E i \in 1..Depth : Seen(i, v) /\ \A j \in i + 1..Depth : ~Seen(j, v)
<1>1. Agree(Depth, scopes, values, paths, count) /\ Depth \in Nat /\ Depth \in 1..Depth
  BY Now
<1>2. v \in Vars(values, Depth)
  BY DEF Variables, Vars
<1>3. PICK d \in 1..Depth : DeclaredAt(values, d, v)
  BY ONLY <1>1, <1>2, DeclaredOnce
<1>4. Seen(d, v)
  BY <1>3 DEF DeclaredAt, Seen
<1> DEFINE T == {k \in Nat : Depth - k \in 1..Depth /\ Seen(Depth - k, v)}
<1>5. T \in SUBSET Nat /\ Depth - d \in T
  <2>1. Depth - d \in Nat /\ Depth - (Depth - d) = d
    BY <1>1
  <2> QED  BY <1>4, <2>1
<1> HIDE DEF T
<1>6. PICK k \in T : \A l \in T : k <= l
  <2> DEFINE R == OpToRel(<, Nat)
  <2>1. PICK k \in T : \A l \in T : ~(<<l, k>> \in R)
    <3>1. T \subseteq Nat /\ T # {}
      BY <1>5
    <3>2. IsWellFoundedOn(R, Nat)
      BY NatLessThanWellFounded, Zenon
    <3> HIDE DEF R
    <3> QED  BY ONLY <3>1, <3>2, WFMin
  <2>2. \A a, b \in Nat : <<a, b>> \in R <=> a < b
    BY DEF OpToRel
  <2> HIDE DEF R
  <2>3. \A l \in T : l \in Nat /\ k \in Nat /\ ~(l < k)
    BY <1>5, <2>1, <2>2
  <2>4. \A l \in T : k <= l
    BY <2>3
  <2> QED  BY <2>4
<1>7. k \in Nat /\ Depth - k \in 1..Depth /\ Seen(Depth - k, v)
  BY DEF T
<1>8. ASSUME NEW j \in (Depth - k) + 1..Depth, Seen(j, v)
      PROVE  FALSE
  <2>1. Depth - j \in Nat /\ Depth - (Depth - j) = j /\ j \in 1..Depth /\ ~(k <= Depth - j)
    BY <1>1, <1>7
  <2>2. Depth - j \in T
    BY <1>8, <2>1 DEF T
  <2> QED  BY <1>6, <2>1, <2>2
<1> QED  BY <1>7, <1>8

LEMMA StateKnown ==
    ASSUME PInv, phase = "sema", NEW v \in Variables, ~Misjudged(v),
           NEW e \in paths[Depth].now
    PROVE  e[v] = StateOf(v)
<1>1. /\ Agree(Depth, scopes, values, paths, count) /\ Depth \in Nat /\ Depth \in 1..Depth
      /\ ValsOK(Depth, scopes, values)
  BY Now
<1> DEFINE Is(i) == Seen(i, v) /\ \A j \in i + 1..Depth : ~Seen(j, v)
           i == CHOOSE k \in 1..Depth : Is(k)
<1>2. i \in 1..Depth /\ Is(i)
  <2>1. \E k \in 1..Depth : Is(k)
    BY LastSeen
  <2> HIDE DEF Is
  <2> QED  BY <2>1
<1>3. StateOf(v) = values[i][v].state
  BY DEF StateOf
<1> HIDE DEF i
<1>4. v \in DOMAIN values[i] /\ Shows(values[i][v])
  <2>1. v \in DOMAIN values[i] /\ Seen(i, v)
    BY <1>2 DEF Seen
  <2>2. ~values[i][v].decl => values[i][v].num = 0
    BY <1>2, <2>1 DEF Misjudged
  <2> QED  BY <2>1, <2>2 DEF Shows
<1>5. ASSUME NEW k \in i + 1..Depth
      PROVE  Hidden(k, values[k], v)
  <2>1. k \in 1..Depth /\ ~Seen(k, v)
    BY <1>1, <1>2
  <2>2. v \in DOMAIN values[k] => ~values[k][v].decl /\ ~(k >= values[k][v].index)
    BY <2>1 DEF Seen
  <2>3. v \in DOMAIN values[k] => values[k][v].num # 0
    BY <2>1, <2>2 DEF Misjudged
  <2> QED  BY <2>2, <2>3 DEF Hidden
<1>6. EnvOK(Depth, e, values, paths)
  BY <1>1 DEF Agree, LevelOK, EnvAt
<1>7. CASE i = Depth
  BY <1>3, <1>4, <1>6, <1>7 DEF EnvOK
<1>8. CASE i # Depth
  <2>1. i \in 1..Depth - 1
    BY <1>1, <1>2, <1>8
  <2>2. v \in Vars(values, i)
    BY <1>2, <1>4, <2>1, InVars
  <2>3. PICK f \in paths[i].now : e[v] = f[v]
    BY <1>5, <1>6, <2>1, <2>2 DEF EnvOK
  <2>4. EnvOK(i, f, values, paths)
    BY <1>1, <1>2 DEF Agree, LevelOK, EnvAt
  <2>5. f[v] = values[i][v].state
    BY <1>4, <2>4 DEF EnvOK
  <2> QED  BY <1>3, <2>3, <2>5
<1> QED  BY <1>7, <1>8

-----------------------------------------------------------------------------
(* The steps of the analyzer *)

LEMMA LiveValues ==
    ASSUME BInv, Live, NoneMistaken, AnalyzeValues, Follow
    PROVE  Live'
<1>1. phase = "sema" /\ Top \in Level
  BY LiveNow DEF AnalyzeValues
<1>2. CASE Instruction
  BY <1>2, LiveKeeps
<1>3. CASE Stop("rejected")
  BY <1>3 DEF Stop, Live
<1>4. CASE ~InSwitch /\ \E op, form, to : Add(Stmt(op, form, to), Top)
  <2>1. PICK op, form, to : Add(Stmt(op, form, to), Top)
    BY <1>4
  <2> DEFINE s == Stmt(op, form, to)
  <2>2. IsStmt(s)
    BY DEF Stmt, IsStmt
  <2>3. /\ scopes' = [scopes EXCEPT ![Depth] = Top] /\ bodies' = Emplace(s)
        /\ count' = count + 1 /\ phase' = "sema"
    BY <1>1, <2>1 DEF Add
  <2> HIDE DEF s
  <2> QED  BY <1>1, <1>4, <2>2, <2>3, LiveAdd
<1> QED  BY <1>2, <1>3, <1>4, ValueStep

LEMMA StepGood ==
    ASSUME PInv, NoneMistaken, StatesFollowed, AnalyzeValues, Follow
    PROVE  PInv' /\ (repeats => repeats')
<1>1. phase = "sema"
  BY DEF AnalyzeValues
<1>2. BInv' /\ Vals' /\ Live'
  BY BodyKeeps, ValsKeeps, LiveValues DEF PInv, VInv
<1>3. Good
  BY <1>1, DeclareGood, ValueGood, JumpsGood, OtherGood, OpenLevelGood, CloseLevelGood,
     EndSwitchGood, EndWithoutGood DEF AnalyzeValues
<1> QED  BY <1>2, <1>3 DEF PInv, VInv, Good

\* The kinds of statements that are about a variable
AboutKinds == {"use", "move", "deleteStmt", "init"}

AcceptsOne(v) == \E kind \in AboutKinds : Accepts(kind, v)

LEMMA OpenedLast ==
    ASSUME BInv, phase = "sema", NEW s, IsStmt(s), bodies' = Append(Emplace(s), <<>>)
    PROVE  Last(bodies'[Depth]) = s
<1>1. IInv /\ Shape /\ Nest /\ Depth \in Nat \ {0}
  BY IInvStack DEF BInv
<1> DEFINE b == Emplace(s)
<1>2. AnySeq(b) /\ Len(b) = Depth
  BY <1>1, EmplaceBlocks DEF AnySeq
<1>3. Last(b[Depth]) = s
  BY EmplacedLast
<1> HIDE DEF b
<1> DEFINE t == Append(b, <<>>)
<1>4. \A i \in 1..Depth : t[i] = b[i]
  BY <1>1, <1>2, AnyPush
<1>5. bodies' = t
  BY DEF b
<1> HIDE DEF t
<1>6. bodies'[Depth] = b[Depth]
  <2>1. Depth \in 1..Depth
    BY <1>1
  <2> QED  BY <1>4, <1>5, <2>1
<1> QED  BY <1>3, <1>6

\* A statement about a variable is appended by no other instruction.
LEMMA AcceptsAbout ==
    ASSUME PInv, AnalyzeValues, NEW v, AcceptsOne(v)
    PROVE  /\ v \in Variables
           /\ ~Misjudged(v) \/ "misjudged" \in Corners
           /\ Accepts("use", v) => StateOf(v) = "init"
           /\ Accepts("move", v) => StateOf(v) = "init"
           /\ Accepts("deleteStmt", v) => StateOf(v) # "uninit"
           /\ Accepts("init", v) => StateOf(v) = "uninit"
<1> USE DEF CanAdd, CanOpen
<1>1. PICK met \in AboutKinds : Accepts(met, v)
  BY DEF AcceptsOne
<1>2. phase = "sema" /\ BInv /\ phase' = "sema" /\ count' # count
      /\ Last(bodies'[Depth]).op \in AboutKinds /\ Last(bodies'[Depth]).to = v
  BY <1>1 DEF AnalyzeValues, PInv, VInv, Accepts
<1>3. \A how : Stop(how) => phase' = how
  BY DEF Stop
<1>4. ASSUME NEW op, NEW form, NEW to, bodies' = Emplace(Stmt(op, form, to))
      PROVE  op \in AboutKinds /\ to = v /\ \A k \in AboutKinds : Accepts(k, v) => k = op
  <2> DEFINE s == Stmt(op, form, to)
  <2>1. s.op = op /\ s.to = to
    BY DEF Stmt
  <2> HIDE DEF s
  <2>2. Last(bodies'[Depth]) = s
    BY <1>2, <1>4, EmplacedLast DEF s
  <2> QED  BY <1>2, <2>1, <2>2 DEF Accepts
<1>5. \A op, form, to, l : Add(Stmt(op, form, to), l) => op \in AboutKinds
  BY <1>4 DEF Add
<1>6. CASE Declare
  <2>1. \E form : Add(Stmt("var", form, 0), Top)
    BY <1>6 DEF Declare, LocalVar
  <2> QED  BY <1>5, <2>1 DEF AboutKinds
<1>7. CASE Jumps \/ Other
  <2>1. ~ScopeIsTerminated
    BY <1>2, <1>3 DEF ScopeIsTerminated, RejectTerminated
  <2>2. CASE BeginSwitch
    <3>1. \E form : bodies' = Emplace(Stmt("switch", form, 0))
      BY <2>2 DEF BeginSwitch
    <3> QED  BY <1>4, <3>1 DEF AboutKinds
  <2>3. CASE ~BeginSwitch
    <3>1. \E form, to, l : \E op \in {"call", "return", "error", "unreachable", "break",
                                      "continue", "labeledReturn"} :
              Add(Stmt(op, form, to), l)
      <4>1. CASE Jumps
        <5>1. Break \/ Continue => \E form, to, l : \E op \in {"break", "continue"} :
                  Add(Stmt(op, form, to), l)
          BY <1>2, <1>3 DEF Break, Continue, LoopJump
        <5>2. LabeledReturn => \E form, to, l : Add(Stmt("labeledReturn", form, to), l)
          BY DEF LabeledReturn
        <5> QED  BY <4>1, <5>1, <5>2 DEF Jumps
      <4>2. CASE Other
        <5>1. Call \/ Return \/ Error \/ Unreachable
          BY <2>1, <2>3, <4>2 DEF Other
        <5> QED  BY <1>2, <1>3, <5>1 DEF Call, Return, Error, Unreachable
      <4> QED  BY <1>7, <4>1, <4>2
    <3> QED  BY <1>5, <3>1 DEF AboutKinds
  <2> QED  BY <2>2, <2>3
<1>8. CASE OpenLevel
  <2>1. PICK op \in {"if", "while", "for", "tryElse", "defer", "block", "blockExpr"} :
            \E form, p, role, subs : Open(Stmt(op, form, 0), p, role, subs)
    BY <1>2, <1>8 DEF OpenLevel, BeginCond, BeginWhile, BeginFor, BeginCase, TryElseBegin,
                      BeginDefer, BeginStmtBlock, BeginExprBlock
  <2>2. PICK form, p, role, subs : Open(Stmt(op, form, 0), p, role, subs)
    BY <2>1
  <2> DEFINE s == Stmt(op, form, 0)
  <2>3. IsStmt(s) /\ s.op = op
    BY DEF Stmt, IsStmt
  <2>4. bodies' = Append(Emplace(s), <<>>)
    BY <2>2 DEF Open
  <2> HIDE DEF s
  <2>5. Last(bodies'[Depth]) = s
    BY <1>2, <2>3, <2>4, OpenedLast
  <2> QED  BY <1>2, <2>3, <2>5 DEF AboutKinds
<1>9. CASE CloseLevel \/ EndSwitchValues \/ EndWithout
  <2>1. ~(\E how \in {"rejected", "crashed", "analyzed"} : phase' = how)
    BY <1>2
  <2>2. \A p, subs : ~CloseWith(p, subs)
    BY <1>2, <1>3, <2>1 DEF CloseWith, Close
  <2>3. \A role : ~Reopen(role)
    BY <1>2, <1>3, <2>1 DEF Reopen
  <2>4. ~RejectValues
    BY <1>3, <2>1 DEF RejectValues
  <2>5. CASE CloseLevel
    BY <2>2, <2>3, <2>4, <2>5 DEF CloseLevel, CloseValues, PopValues, CondNoElse, CondElse,
       EndCond, EndWhile, EndFor, EndForHasElse, EndForElse, EndCase, TryElseEnd, EndDefer,
       EndStmtBlock
  <2>6. CASE EndSwitchValues
    BY <1>2, <2>4, <2>6 DEF EndSwitchValues, EndSwitch
  <2>7. CASE EndWithout
    BY <1>2, <1>3, <2>1, <2>7 DEF EndWithout, EndExprBlock, FuncDef, Close
  <2> QED  BY <1>9, <2>5, <2>6, <2>7
<1>10. CASE \E w \in Variables : Use(w) \/ Move(w) \/ Assign(w) \/ Delete(w)
  <2>1. PICK w \in Variables : Use(w) \/ Move(w) \/ Assign(w) \/ Delete(w)
    BY <1>10
  <2>2. PICK kind, ok :
            /\ About(kind, w, ok)
            /\ \/ kind \in {"use", "move"} /\ ok = (StateOf(w) = "init")
               \/ kind = "init" /\ ok = (StateOf(w) = "uninit")
               \/ kind = "deleteStmt" /\ ok = (StateOf(w) # "uninit")
    BY <2>1 DEF Use, Move, Assign, Delete
  <2>3. ok /\ Add(Stmt(kind, "", w), Top)
    BY <1>2, <1>3, <2>2 DEF About
  <2>6. PICK form : bodies' = Emplace(Stmt(kind, form, w))
    BY <2>3 DEF Add
  <2>4. w = v /\ \A k \in AboutKinds : Accepts(k, v) => k = kind
    BY ONLY <1>4, <2>6
  <2>5. ~Misjudged(v) \/ "misjudged" \in Corners
    BY <2>2, <2>4 DEF About, CornerOK
  <2> QED  BY <2>2, <2>3, <2>4, <2>5 DEF AboutKinds
<1> QED  BY <1>6, <1>7, <1>8, <1>9, <1>10 DEF AnalyzeValues

LEMMA AcceptedGood ==
    ASSUME PInv, StatesFollowed, AnalyzeValues
    PROVE  AcceptedHold
<1> SUFFICES ASSUME NEW v \in Variables, NEW e \in paths[Depth].now
             PROVE  /\ Accepts("use", v) \/ Accepts("move", v) => e[v] = "init"
                    /\ Accepts("deleteStmt", v) => e[v] # "uninit"
                    /\ Accepts("init", v) => e[v] = "uninit"
  BY DEF AcceptedHold
<1>1. CASE AcceptsOne(v)
  <2>1. ~Misjudged(v)
    BY <1>1, AcceptsAbout DEF StatesFollowed
  <2>2. e[v] = StateOf(v)
    BY <2>1, StateKnown DEF AnalyzeValues
  <2> QED  BY <1>1, <2>2, AcceptsAbout
<1>2. CASE ~AcceptsOne(v)
  BY <1>2 DEF AcceptsOne, AboutKinds
<1> QED  BY <1>1, <1>2

LEMMA InitGood == ValueInit /\ PathsInit => PInv /\ repeats
<1> SUFFICES ASSUME ValueInit, PathsInit
             PROVE  PInv /\ repeats
  OBVIOUS
<1>1. VInv /\ Live /\ repeats
  BY InitVInv, InitLive DEF ValueInit, PathsInit
<1> DEFINE l == NewLevel("func", 0)
           p == Path({<<>>})
<1>2. scopes = <<l>> /\ values = << <<>> >> /\ paths = <<p>> /\ count = 0
  BY DEF ValueInit, Init, PathsInit
<1>3. l.role = "func" /\ l.id = 0 /\ p.now = {<<>>} /\ p.ends = {} /\ p.jumps = {}
  BY DEF NewLevel, Path
<1> HIDE DEF l, p
<1>4. Depth = 1 /\ scopes[1] = l /\ values[1] = <<>> /\ paths[1] = p
      /\ \A j \in 1..1 - 1 : FALSE
  BY <1>2 DEF Depth
<1>5. IdAt(1, scopes, count)
  BY <1>2, <1>3, <1>4 DEF IdAt
<1>6. VarsAt(1, scopes, values, count)
  BY <1>4 DEF VarsAt
<1>7. EnvAt(1, values, paths)
  <2>1. Vars(values, 1) = {}
    <3>1. \A j \in 1..1 : DOMAIN values[j] = {}
      BY <1>4
    <3> QED  BY <3>1, InVars
  <2>2. <<>> \in [Vars(values, 1) -> States]
    BY <2>1
  <2>3. \A f \in paths[1].now : f = <<>>
    BY <1>3, <1>4
  <2>4. \A v \in DOMAIN values[1] : FALSE
    BY <1>4
  <2>5. EnvOK(1, <<>>, values, paths)
    BY <1>4, <2>2, <2>3, <2>4 DEF EnvOK
  <2> QED  BY <2>3, <2>5 DEF EnvAt
<1>8. EndAt(1, All(1, 1, scopes[1]), values, paths) /\ JumpsAt(1, 1, scopes, values, paths, count)
  BY <1>3, <1>4 DEF EndAt, JumpsAt
<1>9. Agree(Depth, scopes, values, paths, count)
  <2>1. \A i \in 1..1 : i = 1
    OBVIOUS
  <2> QED  BY <1>4, <1>5, <1>6, <1>7, <1>8, <2>1 DEF Agree, LevelOK
<1> QED  BY <1>1, <1>9 DEF PInv, AgreeNow

\* The analyzer accepts no use of a variable that some path reaches without
\* its value, and no assignment or deletion that some path makes wrong: for
\* every body, of any size and nesting, that has none of the constructs whose
\* states or dead code it mistakes (get_ident_value_state, end_sub_scopes).
THEOREM UsesHoldOnEveryPathHolds ==
    ASSUME NoneMistaken, StatesFollowed
    PROVE  ValuePathsSpec => UsesHoldOnEveryPath
<1> DEFINE EInv == PInv /\ repeats
<1>1. ValueInit /\ PathsInit => EInv
  BY InitGood
<1>2. EInv /\ [AnalyzeValues /\ Follow]_vpvars => EInv'
  <2> SUFFICES ASSUME EInv, [AnalyzeValues /\ Follow]_vpvars
               PROVE  EInv'
    OBVIOUS
  <2>1. CASE AnalyzeValues /\ Follow
    BY <2>1, StepGood
  <2>2. CASE UNCHANGED vpvars
    <3>1. /\ UNCHANGED <<scopes, bodies, subscopes, phase, count, isVoid, func>>
          /\ paths' = paths /\ values' = values /\ repeats' = repeats /\ UNCHANGED vvars
      BY <2>2 DEF vpvars, vvars, svars
    <3>2. VInv'
      BY <3>1, StepVInv DEF PInv
    <3>3. Live'
      BY <3>1 DEF PInv, Live, HavePaths, Depth
    <3>4. AgreeNow'
      BY <3>1 DEF PInv, AgreeNow, Depth
    <3> QED  BY <3>1, <3>2, <3>3, <3>4 DEF PInv
  <2> QED  BY <2>1, <2>2
<1>3. EInv => repeats
  OBVIOUS
<1>4. EInv /\ [AnalyzeValues /\ Follow]_vpvars => [AcceptedHold]_vpvars
  BY AcceptedGood
<1> HIDE DEF EInv
<1> QED  BY <1>1, <1>2, <1>3, <1>4, PTL DEF ValuePathsSpec, UsesHoldOnEveryPath
=============================================================================
