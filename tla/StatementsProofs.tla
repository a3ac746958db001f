--------------------------- MODULE StatementsProofs ---------------------------
(***************************************************************************)
(* The counts of sub-scopes, and of the changes of variables' states that  *)
(* are compared with them, are right for every function body, of any size  *)
(* and nesting and with every construct.                                   *)
(***************************************************************************)
EXTENDS ValueStates, SequenceTheorems, TLAPS

LevelsOK ==
    /\ scopes \in Seq(Level)
    /\ phase = "sema" => scopes # <<>>
    /\ scopes # <<>> => scopes[1].role = "func"

IInv == LevelsOK /\ SubScopesCounted

Counted(l) == l.nterm <= l.nsub

HasOpen(l) == l.nterm < l.nsub

-----------------------------------------------------------------------------
(* What the operators on levels return. *)

LEMMA LevelFields ==
    ASSUME NEW l \in Level
    PROVE  /\ l.role \in Roles /\ l.id \in Nat /\ l.tk \in TerminatedKinds
           /\ l.nsub \in Nat /\ l.nterm \in Nat /\ l.nlabel \in Nat /\ l.nloop \in Nat
BY DEF Level

LEMMA NewLevelOK ==
    ASSUME NEW role \in Roles, NEW id \in Nat
    PROVE  /\ NewLevel(role, id) \in Level
           /\ Counted(NewLevel(role, id))
           /\ NewLevel(role, id).role = role
BY DEF NewLevel, Level, Counted, TerminatedKinds

LEMMA AddSubScopeOK ==
    ASSUME NEW l \in Level, Counted(l)
    PROVE  /\ AddSubScope(l) \in Level
           /\ HasOpen(AddSubScope(l)) /\ Counted(AddSubScope(l))
           /\ AddSubScope(l).role = l.role
BY DEF AddSubScope, Level, Counted, HasOpen

LEMMA SetTerminatedOK ==
    ASSUME NEW l \in Level, Counted(l), NEW kind \in TerminatedKinds
    PROVE  /\ SetTerminated(l, kind) \in Level
           /\ Counted(SetTerminated(l, kind))
           /\ SetTerminated(l, kind).role = l.role
BY DEF SetTerminated, Level, Counted

\* A parent with an open sub-scope can count one more.
LEMMA CountClosedOK ==
    ASSUME NEW p \in Level, HasOpen(p), NEW c \in Level
    PROVE  /\ CountClosed(p, c) \in Level
           /\ Counted(CountClosed(p, c))
           /\ CountClosed(p, c).role = p.role
<1> DEFINE a == IF c.tk = "label" THEN 1 ELSE 0
           b == IF c.tk = "loop" THEN 1 ELSE 0
           q == [p EXCEPT !.nterm = @ + 1, !.nlabel = @ + a, !.nloop = @ + b]
<1>1. a \in Nat /\ b \in Nat
  OBVIOUS
<1>2. CountClosed(p, c) = IF ~IsTerminated(c) THEN p ELSE q
  BY DEF CountClosed
<1>3. q \in Level /\ Counted(q) /\ q.role = p.role
  <2> HIDE DEF a, b
  <2>1. q \in Level
    <3> DEFINE q1 == [p EXCEPT !.nterm = p.nterm + 1]
               q2 == [q1 EXCEPT !.nlabel = p.nlabel + a]
               q3 == [q2 EXCEPT !.nloop = p.nloop + b]
    <3>1. q = q3
      BY DEF Level
    <3>2. p.nterm + 1 \in Nat /\ p.nlabel + a \in Nat /\ p.nloop + b \in Nat
      BY <1>1, LevelFields
    <3>3. q1 \in Level
      BY <3>2 DEF Level
    <3> HIDE DEF q1
    <3>4. q2 \in Level
      BY <3>2, <3>3 DEF Level
    <3> HIDE DEF q2
    <3>5. q3 \in Level
      BY <3>2, <3>4 DEF Level
    <3> HIDE DEF q, q3
    <3> QED  BY <3>1, <3>5
  <2>2. q.nterm = p.nterm + 1 /\ q.nsub = p.nsub /\ q.role = p.role
    BY DEF Level
  <2> QED  BY <2>1, <2>2, LevelFields DEF Counted, HasOpen
<1> HIDE DEF q
<1> QED  BY <1>2, <1>3 DEF Counted, HasOpen, Level

LEMMA CountClosedLabelOK ==
    ASSUME NEW p \in Level, HasOpen(p), NEW c \in Level
    PROVE  /\ CountClosedLabel(p, c) \in Level
           /\ Counted(CountClosedLabel(p, c))
           /\ CountClosedLabel(p, c).role = p.role
BY DEF CountClosedLabel, Level, Counted, HasOpen

LEMMA EndSubScopesAtOK ==
    ASSUME NEW n, NEW l \in Level
    PROVE  /\ EndSubScopesAt(n, l) \in Level
           /\ Counted(EndSubScopesAt(n, l))
           /\ EndSubScopesAt(n, l).role = l.role
<1> DEFINE kind == IF l.tk # "not" \/ ~IsTerminated(l) THEN l.tk
                   ELSE IF l.nterm = l.nlabel THEN "label"
                   ELSE IF l.nloop = 0 THEN "term"
                   ELSE IF InLoop(n) THEN "loop" ELSE "not"
<1>1. kind \in TerminatedKinds
  BY LevelFields DEF TerminatedKinds
<1>2. EndSubScopesAt(n, l) =
         [l EXCEPT !.tk = kind, !.nsub = 0, !.nterm = 0, !.nloop = 0]
  BY DEF EndSubScopesAt
<1> HIDE DEF kind
<1>3. EndSubScopesAt(n, l) \in Level
  <2> DEFINE q1 == [l EXCEPT !.tk = kind]
             q2 == [q1 EXCEPT !.nsub = 0]
             q3 == [q2 EXCEPT !.nterm = 0]
             q4 == [q3 EXCEPT !.nloop = 0]
  <2>1. EndSubScopesAt(n, l) = q4
    BY <1>2 DEF Level
  <2>2. q1 \in Level
    BY <1>1 DEF Level
  <2> HIDE DEF q1
  <2>3. q2 \in Level
    BY <2>2 DEF Level
  <2> HIDE DEF q2
  <2>4. q3 \in Level
    BY <2>3 DEF Level
  <2> HIDE DEF q3
  <2>5. q4 \in Level
    BY <2>4 DEF Level
  <2> HIDE DEF q4
  <2> QED  BY <2>1, <2>5
<1>4. /\ EndSubScopesAt(n, l).nsub = 0 /\ EndSubScopesAt(n, l).nterm = 0
      /\ EndSubScopesAt(n, l).role = l.role
  BY <1>2 DEF Level
<1> QED  BY <1>3, <1>4 DEF Counted

-----------------------------------------------------------------------------
(* What the ways to change the stack of levels preserve. *)

LEMMA SeqReplace ==
    ASSUME NEW S, NEW s \in Seq(S), NEW n \in 1..Len(s), NEW e \in S
    PROVE  /\ [s EXCEPT ![n] = e] \in Seq(S)
           /\ Len([s EXCEPT ![n] = e]) = Len(s)
           /\ \A i \in 1..Len(s) :
                 [s EXCEPT ![n] = e][i] = IF i = n THEN e ELSE s[i]
BY ExceptSeq

LEMMA SeqPush ==
    ASSUME NEW S, NEW s \in Seq(S), NEW e \in S
    PROVE  /\ Append(s, e) \in Seq(S)
           /\ Len(Append(s, e)) = Len(s) + 1
           /\ \A i \in 1..Len(s) + 1 :
                 Append(s, e)[i] = IF i = Len(s) + 1 THEN e ELSE s[i]
BY AppendProperties

LEMMA SeqCut ==
    ASSUME NEW S, NEW s \in Seq(S), NEW n \in 0..Len(s)
    PROVE  /\ SubSeq(s, 1, n) \in Seq(S)
           /\ Len(SubSeq(s, 1, n)) = n
           /\ \A i \in 1..n : SubSeq(s, 1, n)[i] = s[i]
BY SubSeqProperties

\* The invariant of a stack of levels
Stack(s) ==
    /\ s \in Seq(Level)
    /\ s # <<>> /\ s[1].role = "func"
    /\ \A i \in 1..Len(s) : Counted(s[i])
    /\ \A i \in 1..Len(s) - 1 : HasOpen(s[i])

LEMMA StackReplace ==
    ASSUME NEW s, Stack(s), NEW l \in Level, Counted(l), l.role = s[Len(s)].role
    PROVE  /\ Stack([s EXCEPT ![Len(s)] = l])
           /\ Len([s EXCEPT ![Len(s)] = l]) = Len(s)
           /\ [s EXCEPT ![Len(s)] = l][Len(s)] = l
<1> DEFINE t == [s EXCEPT ![Len(s)] = l]
<1>1. s \in Seq(Level) /\ Len(s) \in Nat \ {0}
  BY DEF Stack
<1>2. /\ t \in Seq(Level) /\ Len(t) = Len(s)
      /\ \A i \in 1..Len(s) : t[i] = IF i = Len(s) THEN l ELSE s[i]
  BY <1>1, SeqReplace
<1> HIDE DEF t
<1>3. Stack(t) /\ t[Len(s)] = l
  BY <1>1, <1>2 DEF Stack
<1> QED  BY <1>2, <1>3 DEF t

LEMMA StackPush ==
    ASSUME NEW s, Stack(s), HasOpen(s[Len(s)]), NEW l \in Level, Counted(l)
    PROVE  Stack(Append(s, l))
<1> DEFINE t == Append(s, l)
<1>1. s \in Seq(Level) /\ Len(s) \in Nat \ {0}
  BY DEF Stack
<1>2. /\ t \in Seq(Level) /\ Len(t) = Len(s) + 1
      /\ \A i \in 1..Len(s) + 1 : t[i] = IF i = Len(s) + 1 THEN l ELSE s[i]
  BY <1>1, SeqPush
<1> HIDE DEF t
<1>3. Stack(t)
  BY <1>1, <1>2 DEF Stack
<1> QED  BY <1>3 DEF t

LEMMA StackPop ==
    ASSUME NEW s, Stack(s), Len(s) - 2 \in Nat, NEW p \in Level, Counted(p),
           p.role = s[Len(s) - 1].role
    PROVE  LET t == Append(SubSeq(s, 1, Len(s) - 2), p)
           IN Stack(t) /\ t[Len(t)] = p
<1> DEFINE outer == SubSeq(s, 1, Len(s) - 2)
           t == Append(outer, p)
<1>1. s \in Seq(Level) /\ Len(s) - 2 \in 0..Len(s)
  <2>1. s \in Seq(Level) /\ Len(s) \in Nat \ {0}
    BY DEF Stack
  <2> QED  BY <2>1
<1>2. /\ outer \in Seq(Level) /\ Len(outer) = Len(s) - 2
      /\ \A i \in 1..Len(s) - 2 : outer[i] = s[i]
  BY <1>1, SeqCut
<1> HIDE DEF outer
<1>3. /\ t \in Seq(Level) /\ Len(t) = Len(outer) + 1
      /\ \A i \in 1..Len(outer) + 1 : t[i] = IF i = Len(outer) + 1 THEN p ELSE outer[i]
  BY <1>2, SeqPush
<1> HIDE DEF t
<1> DEFINE n == Len(s) - 1
<1>a. n \in Nat \ {0} /\ Len(outer) + 1 = n /\ Len(s) - 2 = n - 1
  BY <1>1, <1>2
<1> HIDE DEF n
<1>4. /\ Len(t) = n /\ t[n] = p
      /\ \A i \in 1..n - 1 : t[i] = s[i]
  BY <1>a, <1>2, <1>3
<1>5. \A i \in 1..n - 1 : HasOpen(s[i]) /\ Counted(s[i])
  BY <1>1, <1>a DEF Stack
<1>6. t # <<>> /\ t[1].role = "func"
  <2>1. s[1].role = "func" /\ p.role = s[n].role
    BY DEF Stack, n
  <2> QED  BY <1>a, <1>3, <1>4, <2>1
<1>7. Stack(t) /\ t[Len(t)] = p
  BY <1>a, <1>3, <1>4, <1>5, <1>6 DEF Stack
<1> QED  BY <1>7 DEF t, outer

LEMMA StackIInv ==
    ASSUME Stack(scopes') PROVE IInv'
<1>1. LevelsOK'
  BY DEF Stack, LevelsOK
<1>2. Len(scopes') \in Nat /\ DOMAIN scopes' = 1..Len(scopes')
  BY DEF Stack
<1>3. SubScopesCounted'
  BY <1>2 DEF Stack, SubScopesCounted, Counted, HasOpen, Depth
<1> QED  BY <1>1, <1>3 DEF IInv

LEMMA IInvStack ==
    ASSUME IInv, phase = "sema"
    PROVE  /\ Stack(scopes)
           /\ Depth = Len(scopes) /\ Depth \in Nat \ {0}
           /\ Top = scopes[Depth] /\ Top \in Level /\ Counted(Top)
<1>1. /\ scopes \in Seq(Level) /\ scopes # <<>> /\ Depth = Len(scopes)
      /\ Depth \in Nat \ {0} /\ DOMAIN scopes = 1..Depth
  BY DEF IInv, LevelsOK, Depth
<1>2. Stack(scopes)
  BY <1>1 DEF Stack, IInv, LevelsOK, SubScopesCounted, Counted, HasOpen
<1> QED  BY <1>1, <1>2 DEF Stack, Top

\* A level other than the function's has a parent.
LEMMA HasParent ==
    ASSUME IInv, phase = "sema", Top.role # "func"
    PROVE  /\ Depth - 1 \in 1..Depth /\ Len(scopes) - 2 \in Nat
           /\ Parent = scopes[Depth - 1] /\ Parent \in Level
           /\ HasOpen(Parent) /\ Counted(Parent)
<1>1. Depth # 1
  BY IInvStack DEF Stack
<1> QED  BY <1>1, IInvStack DEF Parent, Stack

LEMMA ReplaceTop ==
    ASSUME IInv, phase = "sema", NEW l \in Level, Counted(l), l.role = Top.role,
           scopes' = [scopes EXCEPT ![Depth] = l]
    PROVE  IInv'
<1>1. Stack([scopes EXCEPT ![Len(scopes)] = l])
  BY IInvStack, StackReplace
<1>2. Stack(scopes')
  BY <1>1, IInvStack
<1> QED  BY <1>2, StackIInv

LEMMA PushOnto ==
    ASSUME IInv, phase = "sema",
           NEW p \in Level, HasOpen(p), Counted(p), p.role = Top.role,
           NEW l \in Level, Counted(l),
           scopes' = Append([scopes EXCEPT ![Depth] = p], l)
    PROVE  IInv'
<1> DEFINE outer == [scopes EXCEPT ![Len(scopes)] = p]
<1>0. Stack(scopes) /\ p.role = scopes[Len(scopes)].role
  BY IInvStack
<1>1. Stack(outer) /\ outer[Len(outer)] = p
  <2>1. Stack(outer) /\ Len(outer) = Len(scopes) /\ outer[Len(scopes)] = p
    BY <1>0, StackReplace
  <2> HIDE DEF outer
  <2> QED  BY <2>1
<1>2. scopes' = Append(outer, l)
  <2>1. Depth = Len(scopes)
    BY IInvStack
  <2> QED  BY <2>1, Zenon
<1> HIDE DEF outer
<1>3. Stack(Append(outer, l))
  BY <1>1, StackPush
<1>4. Stack(scopes')
  BY <1>2, <1>3
<1> QED  BY <1>4, StackIInv

\* The levels below the parent, and the parent's new state p
LEMMA PopTo ==
    ASSUME IInv, phase = "sema", Top.role # "func",
           NEW p \in Level, Counted(p), p.role = Parent.role,
           scopes' = Append(SubSeq(scopes, 1, Depth - 2), p)
    PROVE  IInv'
<1>1. Stack(Append(SubSeq(scopes, 1, Len(scopes) - 2), p))
  <2>1. Stack(scopes) /\ Len(scopes) - 2 \in Nat /\ p.role = scopes[Len(scopes) - 1].role
    BY HasParent, IInvStack
  <2> QED  BY <2>1, StackPop
<1>2. Stack(scopes')
  BY <1>1, IInvStack
<1> QED  BY <1>2, StackIInv

-----------------------------------------------------------------------------
(* The ways the instructions change the levels *)

LEMMA AddOK ==
    ASSUME IInv, phase = "sema", NEW s, NEW l \in Level, Counted(l),
           l.role = Top.role, Add(s, l)
    PROVE  IInv'
BY ReplaceTop DEF Add

LEMMA OpenOK ==
    ASSUME IInv, phase = "sema", NEW s, s.id \in Nat, NEW subs,
           NEW p \in Level, HasOpen(p), Counted(p), p.role = Top.role,
           NEW role \in Roles, Open(s, p, role, subs)
    PROVE  IInv'
<1>1. NewLevel(role, s.id) \in Level /\ Counted(NewLevel(role, s.id))
  BY NewLevelOK
<1>2. scopes' = Append([scopes EXCEPT ![Depth] = p], NewLevel(role, s.id))
  BY DEF Open
<1> QED  BY <1>1, <1>2, PushOnto

LEMMA CloseOK ==
    ASSUME IInv, phase = "sema", Top.role # "func", NEW subs,
           NEW p \in Level, Counted(p), p.role = Parent.role, Close(p, subs)
    PROVE  IInv'
BY PopTo DEF Close

LEMMA StopOK ==
    ASSUME NEW how, how # "sema", Stop(how)
    PROVE  IInv'
<1>1. scopes' = <<>> /\ phase' # "sema"
  BY DEF Stop
<1>2. scopes' \in Seq(Level) /\ DOMAIN scopes' = {}
  BY <1>1
<1> QED  BY <1>1, <1>2 DEF IInv, LevelsOK, SubScopesCounted

\* The parent of the level being closed, counted or also at its end
LEMMA ParentCounted ==
    ASSUME IInv, phase = "sema", Top.role # "func"
    PROVE  LET p == ParentAfter
               a == AddSubScope(p)
           IN /\ p \in Level /\ Counted(p) /\ p.role = Parent.role
              /\ a \in Level /\ Counted(a) /\ HasOpen(a) /\ a.role = Parent.role
              /\ EndSubScopes(p) \in Level /\ Counted(EndSubScopes(p))
              /\ EndSubScopes(p).role = Parent.role
              /\ EndSubScopes(a) \in Level /\ Counted(EndSubScopes(a))
              /\ EndSubScopes(a).role = Parent.role
<1> DEFINE p == ParentAfter
           a == AddSubScope(p)
<1>1. p \in Level /\ Counted(p) /\ p.role = Parent.role
  BY HasParent, IInvStack, CountClosedOK DEF ParentAfter
<1> HIDE DEF p
<1>2. a \in Level /\ Counted(a) /\ HasOpen(a) /\ a.role = Parent.role
  BY <1>1, AddSubScopeOK
<1> HIDE DEF a
<1>3. /\ EndSubScopes(p) \in Level /\ Counted(EndSubScopes(p))
      /\ EndSubScopes(p).role = Parent.role
  BY <1>1, EndSubScopesAtOK DEF EndSubScopes
<1>4. /\ EndSubScopes(a) \in Level /\ Counted(EndSubScopes(a))
      /\ EndSubScopes(a).role = Parent.role
  BY <1>2, EndSubScopesAtOK DEF EndSubScopes
<1> QED  BY <1>1, <1>2, <1>3, <1>4 DEF p, a

LEMMA ReopenOK ==
    ASSUME IInv, phase = "sema", Top.role # "func", NEW role \in Roles, Reopen(role)
    PROVE  IInv'
<1> DEFINE a == AddSubScope(ParentAfter)
           l == NewLevel(role, Top.id)
<1>1. CASE ~CountAsserted(Parent, Top)
  BY <1>1, StopOK DEF Reopen
<1>2. CASE CountAsserted(Parent, Top)
  <2>1. a \in Level /\ Counted(a) /\ HasOpen(a) /\ a.role = Parent.role
    BY ParentCounted
  <2>2. l \in Level /\ Counted(l)
    BY IInvStack, LevelFields, NewLevelOK
  <2>3. Stack(scopes) /\ Depth = Len(scopes) /\ Len(scopes) - 2 \in Nat
        /\ a.role = scopes[Len(scopes) - 1].role
    BY <2>1, HasParent, IInvStack
  <2>4. scopes' = Append(Append(SubSeq(scopes, 1, Len(scopes) - 2), a), l)
    BY <1>2, <2>3 DEF Reopen
  <2> HIDE DEF a, l
  <2> DEFINE outer == Append(SubSeq(scopes, 1, Len(scopes) - 2), a)
  <2>5. Stack(outer) /\ outer[Len(outer)] = a
    BY <2>1, <2>3, StackPop
  <2> HIDE DEF outer
  <2>6. Stack(Append(outer, l))
    BY <2>1, <2>2, <2>5, StackPush
  <2>7. Stack(scopes')
    BY <2>4, <2>6 DEF outer
  <2> QED  BY <2>7, StackIInv
<1> QED  BY <1>1, <1>2

LEMMA CloseWithOK ==
    ASSUME IInv, phase = "sema", Top.role # "func", NEW subs,
           CloseWith(EndSubScopes(ParentAfter), subs)
    PROVE  IInv'
<1>1. CASE CountAsserted(Parent, Top)
  <2>1. Close(EndSubScopes(ParentAfter), subs)
    BY <1>1 DEF CloseWith
  <2> QED  BY <2>1, ParentCounted, CloseOK
<1>2. CASE ~CountAsserted(Parent, Top)
  BY <1>2, StopOK DEF CloseWith
<1> QED  BY <1>1, <1>2

-----------------------------------------------------------------------------
CountOK == count \in Nat

\* Every instruction keeps the counts: one case per kind of change.
LEMMA InstructionKeeps ==
    ASSUME IInv, CountOK, Instruction
    PROVE  IInv'
<1> USE DEF CanAdd, CanOpen, CanClose
<1>1. phase = "sema"
  BY DEF Instruction, Call, Var, LocalVar, Return, Error, Unreachable, Break, Continue,
     LabeledReturn, BeginCond, CondNoElse, CondElse, EndCond, BeginWhile, EndWhile,
     BeginFor, EndFor, EndForHasElse, EndForElse, BeginSwitch, BeginCase, EndCase,
     EndSwitch, TryElseBegin, TryElseEnd, BeginDefer, EndDefer, BeginStmtBlock,
     EndStmtBlock, BeginExprBlock, EndExprBlock, ScopeIsTerminated,
     RejectTerminated, FuncDef
<1>2. /\ Top \in Level /\ Counted(Top)
      /\ \A kind \in TerminatedKinds :
            /\ SetTerminated(Top, kind) \in Level /\ Counted(SetTerminated(Top, kind))
            /\ SetTerminated(Top, kind).role = Top.role
  BY <1>1, IInvStack, SetTerminatedOK
<1>3. LET a == AddSubScope(Top)
          aa == AddSubScope(a)
      IN /\ a \in Level /\ HasOpen(a) /\ Counted(a) /\ a.role = Top.role
         /\ aa \in Level /\ HasOpen(aa) /\ Counted(aa) /\ aa.role = Top.role
  <2> DEFINE a == AddSubScope(Top)
  <2>1. a \in Level /\ HasOpen(a) /\ Counted(a) /\ a.role = Top.role
    BY <1>2, AddSubScopeOK
  <2> HIDE DEF a
  <2>2. LET aa == AddSubScope(a)
        IN aa \in Level /\ HasOpen(aa) /\ Counted(aa) /\ aa.role = Top.role
    BY <2>1, AddSubScopeOK
  <2> QED  BY <2>1, <2>2 DEF a
<1>4. \A op, form, to : Stmt(op, form, to).id \in Nat
  BY DEF Stmt, CountOK
<1>5. Roles = LoopRoles \cup {"func", "then", "else", "forElse", "case", "tryElse",
                              "defer", "block", "blockExpr"}
  BY DEF Roles

\* The statements that do not open a level
<1>10. CASE Call
  BY <1>1, <1>2, <1>10, AddOK DEF Call
<1>11. CASE Var
  BY <1>1, <1>2, <1>11, AddOK DEF Var, LocalVar
<1>12. CASE Return
  BY <1>1, <1>2, <1>12, AddOK, StopOK DEF Return, TerminatedKinds
<1>13. CASE Error
  BY <1>1, <1>2, <1>13, AddOK, StopOK DEF Error, TerminatedKinds
<1>14. CASE Unreachable
  BY <1>1, <1>2, <1>14, AddOK DEF Unreachable, TerminatedKinds
<1>15. CASE Break
  BY <1>1, <1>2, <1>15, AddOK, StopOK DEF Break, LoopJump, TerminatedKinds
<1>16. CASE Continue
  BY <1>1, <1>2, <1>16, AddOK, StopOK DEF Continue, LoopJump, TerminatedKinds
<1>17. CASE LabeledReturn
  BY <1>1, <1>2, <1>17, AddOK DEF LabeledReturn, TerminatedKinds
<1>18. CASE BeginSwitch
  BY <1>18 DEF BeginSwitch, IInv, LevelsOK, SubScopesCounted, Depth
<1>19. CASE EndSwitch
  <2>1. /\ EndSubScopesAt(Depth, Top) \in Level /\ Counted(EndSubScopesAt(Depth, Top))
        /\ EndSubScopesAt(Depth, Top).role = Top.role
    BY <1>2, EndSubScopesAtOK
  <2> QED  BY <1>1, <1>19, <2>1, ReplaceTop DEF EndSwitch
<1>20. CASE ScopeIsTerminated
  BY <1>20, StopOK DEF ScopeIsTerminated, RejectTerminated
<1>21. CASE FuncDef
  <2>1. CASE Stop("rejected")
    BY <2>1, StopOK
  <2>2. CASE scopes' = <<>> /\ phase' = "analyzed"
    <3>1. scopes' \in Seq(Level) /\ DOMAIN scopes' = {}
      BY <2>2
    <3> QED  BY <2>2, <3>1 DEF IInv, LevelsOK, SubScopesCounted
  <2> QED  BY <1>21, <2>1, <2>2 DEF FuncDef

\* The statements that open a level
<1>30. CASE BeginCond
  BY <1>1, <1>3, <1>4, <1>5, <1>30, OpenOK DEF BeginCond
<1>31. CASE BeginWhile
  BY <1>1, <1>3, <1>4, <1>31, OpenOK DEF BeginWhile, Roles, LoopRoles
<1>32. CASE BeginFor
  BY <1>1, <1>3, <1>4, <1>32, OpenOK DEF BeginFor, Roles, LoopRoles
<1>33. CASE TryElseBegin
  BY <1>1, <1>3, <1>4, <1>5, <1>33, OpenOK DEF TryElseBegin
<1>34. CASE BeginDefer
  BY <1>1, <1>3, <1>4, <1>5, <1>34, OpenOK DEF BeginDefer
<1>35. CASE BeginStmtBlock
  BY <1>1, <1>3, <1>4, <1>5, <1>35, OpenOK DEF BeginStmtBlock
<1>36. CASE BeginExprBlock
  BY <1>1, <1>3, <1>4, <1>5, <1>36, OpenOK DEF BeginExprBlock
<1>37. CASE BeginCase
  <2>1. NewLevel("case", 0) \in Level /\ Counted(NewLevel("case", 0))
    BY <1>5, NewLevelOK
  <2> QED  BY <1>1, <1>3, <1>37, <2>1, PushOnto DEF BeginCase

\* The statements that close one
<1>40. CASE CondNoElse
  <2>1. Top.role # "func"
    BY <1>40 DEF CondNoElse
  <2>2. CASE Close(EndSubScopes(AddSubScope(ParentAfter)), Front(subscopes))
    BY <1>1, <2>1, <2>2, ParentCounted, CloseOK
  <2>3. CASE Stop("crashed")
    BY <2>3, StopOK
  <2> QED  BY <1>40, <2>2, <2>3 DEF CondNoElse, CloseWith
<1>41. CASE CondElse
  BY <1>1, <1>5, <1>41, ReopenOK DEF CondElse
<1>42. CASE EndCond
  BY <1>1, <1>42, CloseWithOK DEF EndCond
<1>43. CASE EndWhile
  BY <1>1, <1>43, CloseWithOK DEF EndWhile
<1>44. CASE EndFor
  BY <1>1, <1>44, CloseWithOK DEF EndFor
<1>45. CASE EndForHasElse
  BY <1>1, <1>5, <1>45, ReopenOK DEF EndForHasElse
<1>46. CASE EndForElse
  BY <1>1, <1>46, CloseWithOK DEF EndForElse
<1>47. CASE EndCase
  <2>1. Top.role # "func"
    BY <1>47 DEF EndCase
  <2>2. CASE Close(ParentAfter, subscopes)
    BY <1>1, <2>1, <2>2, ParentCounted, CloseOK
  <2>3. CASE Stop("crashed")
    BY <2>3, StopOK
  <2> QED  BY <1>47, <2>2, <2>3 DEF EndCase, CloseWith
<1>48. CASE TryElseEnd
  BY <1>1, <1>48, CloseWithOK DEF TryElseEnd
<1>49. CASE EndDefer
  BY <1>1, <1>49, CloseWithOK DEF EndDefer
<1>50. CASE EndStmtBlock
  BY <1>1, <1>50, CloseWithOK DEF EndStmtBlock
<1>51. CASE EndExprBlock
  <2>1. Top.role # "func"
    BY <1>51 DEF EndExprBlock
  <2>2. /\ CountClosedLabel(Parent, Top) \in Level
        /\ CountClosedLabel(Parent, Top).role = Parent.role
    BY <1>1, <1>2, <2>1, HasParent, CountClosedLabelOK
  <2>3. LET p == EndSubScopes(CountClosedLabel(Parent, Top))
        IN p \in Level /\ Counted(p) /\ p.role = Parent.role
    BY <2>2, EndSubScopesAtOK DEF EndSubScopes
  <2>4. CASE Stop("rejected")
    BY <2>4, StopOK
  <2>5. CASE Close(EndSubScopes(CountClosedLabel(Parent, Top)), subscopes)
    BY <1>1, <2>1, <2>3, <2>5, CloseOK
  <2> QED  BY <1>51, <2>4, <2>5 DEF EndExprBlock
<1> QED
  BY <1>10, <1>11, <1>12, <1>13, <1>14, <1>15, <1>16, <1>17, <1>18, <1>19, <1>20,
     <1>21, <1>30, <1>31, <1>32, <1>33, <1>34, <1>35, <1>36, <1>37, <1>40, <1>41,
     <1>42, <1>43, <1>44, <1>45, <1>46, <1>47, <1>48, <1>49, <1>50, <1>51
  DEF Instruction

LEMMA CountKeeps ==
    ASSUME CountOK, [Instruction]_svars
    PROVE  CountOK'
<1> SUFFICES count' \in {count, count + 1}
  BY DEF CountOK
<1>1. \A s, l : Add(s, l) => count' = count + 1
  BY DEF Add
<1>2. \A s, p, role, subs : Open(s, p, role, subs) => count' = count + 1
  BY DEF Open
<1>3. \A p, subs : Close(p, subs) => count' = count
  BY DEF Close
<1>4. \A how : Stop(how) => count' = count
  BY DEF Stop
<1>5. \A role : Reopen(role) => count' = count
  BY <1>4 DEF Reopen
<1>6. \A kind, form, i : LoopJump(kind, form, i) => count' = count + 1
  BY <1>1 DEF LoopJump
<1>10. CASE Call \/ Var \/ Return \/ Error \/ Unreachable \/ LabeledReturn
  BY <1>1, <1>4, <1>10 DEF Call, Var, LocalVar, Return, Error, Unreachable, LabeledReturn
<1>11. CASE Break \/ Continue
  BY <1>4, <1>6, <1>11 DEF Break, Continue
<1>12. CASE \/ BeginCond \/ BeginWhile \/ BeginFor \/ TryElseBegin \/ BeginDefer
            \/ BeginStmtBlock \/ BeginExprBlock
  BY <1>2, <1>12 DEF BeginCond, BeginWhile, BeginFor, TryElseBegin, BeginDefer,
                     BeginStmtBlock, BeginExprBlock
<1>13. CASE BeginSwitch \/ BeginCase \/ EndSwitch
  BY <1>13 DEF BeginSwitch, BeginCase, EndSwitch
<1>14. CASE CondElse \/ EndForHasElse
  BY <1>5, <1>14 DEF CondElse, EndForHasElse
<1>15. CASE CondNoElse \/ EndCase
  BY <1>3, <1>4, <1>15 DEF CondNoElse, EndCase, CloseWith
<1>16. CASE \/ EndCond \/ EndWhile \/ EndFor \/ EndForElse \/ TryElseEnd
            \/ EndDefer \/ EndStmtBlock
  BY <1>3, <1>4, <1>16 DEF EndCond, EndWhile, EndFor, EndForElse, TryElseEnd,
                           EndDefer, EndStmtBlock, CloseWith
<1>17. CASE EndExprBlock \/ ScopeIsTerminated \/ FuncDef
  BY <1>3, <1>4, <1>17 DEF EndExprBlock, ScopeIsTerminated, RejectTerminated, FuncDef
<1>18. CASE UNCHANGED svars
  BY <1>18 DEF svars
<1> QED
  BY <1>10, <1>11, <1>12, <1>13, <1>14, <1>15, <1>16, <1>17, <1>18 DEF Instruction

-----------------------------------------------------------------------------
LEMMA InitIInv == Init => IInv /\ CountOK
<1> SUFFICES ASSUME Init PROVE IInv /\ CountOK
  OBVIOUS
<1>1. NewLevel("func", 0) \in Level /\ Counted(NewLevel("func", 0))
      /\ NewLevel("func", 0).role = "func"
  BY NewLevelOK DEF Roles
<1>2. /\ scopes \in Seq(Level) /\ Len(scopes) = 1 /\ DOMAIN scopes = {1}
      /\ scopes[1] = NewLevel("func", 0) /\ scopes # <<>>
  BY <1>1 DEF Init
<1> QED  BY <1>1, <1>2 DEF Init, IInv, LevelsOK, SubScopesCounted, CountOK, Depth, Counted

LEMMA StepIInv == IInv /\ CountOK /\ [Instruction]_svars => (IInv /\ CountOK)'
<1>1. ASSUME IInv, CountOK, Instruction PROVE IInv'
  BY <1>1, InstructionKeeps
<1>2. ASSUME IInv, UNCHANGED svars PROVE IInv'
  BY <1>2 DEF IInv, LevelsOK, SubScopesCounted, svars, Depth
<1> QED  BY <1>1, <1>2, CountKeeps

\* The counts of sub-scopes are right in every function body, so that the
\* assertion of setSubScopeTerminated never fails.
THEOREM SubScopesCountedHolds == Spec => []SubScopesCounted
<1>1. IInv => SubScopesCounted
  BY DEF IInv
<1> QED  BY <1>1, InitIInv, StepIInv, PTL DEF Spec

-----------------------------------------------------------------------------
(* Type correctness: a block for each open level, whatever the function body. *)

Phases == {"sema", "rejected", "crashed", "analyzed"}

\* What TypeOK says beyond LevelsOK and CountOK
Shape ==
    /\ \E S : bodies \in Seq(S)
    /\ Len(bodies) = Len(scopes)
    /\ subscopes \in Seq(Nat)
    /\ phase \in Phases
    /\ isVoid \in BOOLEAN
    /\ func.tk \in TerminatedKinds

LEMMA FrontOfSubscopes ==
    ASSUME Shape
    PROVE  Front(subscopes) \in Seq(Nat)
<1>1. 1 \in Int /\ Len(subscopes) - 1 \in Int
      /\ \A i \in 1..Len(subscopes) - 1 : subscopes[i] \in Nat
  <2>1. subscopes \in Seq(Nat) /\ Len(subscopes) \in Nat
    BY LenProperties DEF Shape
  <2> QED  BY <2>1, ElementOfSeq
<1> QED  BY <1>1, SubSeqProperties DEF Front

LEMMA AddShape ==
    ASSUME IInv, Shape, phase = "sema", NEW s, NEW l \in Level, Add(s, l)
    PROVE  Shape'
<1>1. PICK S : bodies \in Seq(S)
  BY DEF Shape
<1>2. Depth = Len(scopes) /\ scopes \in Seq(Level) /\ Depth \in 1..Len(scopes)
      /\ Depth \in 1..Len(bodies)
  BY IInvStack DEF Shape, Stack
<1> DEFINE e == Append(bodies[Depth], s)
           R == S \cup {e}
<1>3. bodies' = [bodies EXCEPT ![Depth] = e] /\ bodies \in Seq(R) /\ e \in R
  BY <1>1 DEF Add, Emplace
<1> HIDE DEF e, R
<1>4. bodies' \in Seq(R) /\ Len(bodies') = Len(bodies)
  BY <1>2, <1>3, SeqReplace
<1>5. Len(scopes') = Len(scopes)
  BY <1>2, SeqReplace DEF Add
<1> QED  BY <1>4, <1>5 DEF Add, Shape

LEMMA OpenShape ==
    ASSUME IInv, Shape, phase = "sema", NEW s, s.id \in Nat, NEW p \in Level,
           NEW role \in Roles, NEW subs \in Seq(Nat), Open(s, p, role, subs)
    PROVE  Shape'
<1>1. PICK S : bodies \in Seq(S)
  BY DEF Shape
<1>2. Depth = Len(scopes) /\ scopes \in Seq(Level) /\ Depth \in 1..Len(scopes)
      /\ Depth \in 1..Len(bodies) /\ Len(bodies) = Len(scopes)
  BY IInvStack DEF Shape, Stack
<1> DEFINE e == Append(bodies[Depth], s)
           R == S \cup {e, <<>>}
           b == [bodies EXCEPT ![Depth] = e]
           sc == [scopes EXCEPT ![Depth] = p]
<1>3. bodies' = Append(b, <<>>) /\ bodies \in Seq(R) /\ e \in R /\ <<>> \in R
  BY <1>1 DEF Open, Emplace
<1>4. b \in Seq(R) /\ Len(b) = Len(bodies)
  <2> HIDE DEF e, R
  <2> QED  BY <1>2, <1>3, SeqReplace
<1>5. sc \in Seq(Level) /\ Len(sc) = Len(scopes)
  BY <1>2, SeqReplace
<1>6. scopes' = Append(sc, NewLevel(role, s.id)) /\ NewLevel(role, s.id) \in Level
  BY NewLevelOK DEF Open
<1> HIDE DEF R, b, sc
<1>7. bodies' \in Seq(R) /\ Len(bodies') = Len(bodies) + 1
  BY <1>3, <1>4, SeqPush
<1>8. Len(scopes') = Len(scopes) + 1
  BY <1>5, <1>6, SeqPush
<1> QED  BY <1>2, <1>7, <1>8 DEF Open, Shape

\* The stack of blocks once the innermost one is attached to its statement
LEMMA AttachShape ==
    ASSUME IInv, Shape, phase = "sema", Top.role # "func"
    PROVE  /\ \E S : Attach \in Seq(S)
           /\ Len(Attach) = Len(scopes) - 1 /\ Len(scopes) - 1 \in Nat
<1>1. PICK S : bodies \in Seq(S)
  BY DEF Shape
<1>2. Depth = Len(scopes) /\ Len(bodies) = Depth /\ Depth - 2 \in 0..Len(bodies)
      /\ Depth \in Nat
  BY HasParent, IInvStack DEF Shape
<1> DEFINE outer == bodies[Depth - 1]
           e == [outer EXCEPT ![Len(outer)].blocks =
                    Append(@, Block(bodies[Depth], ClosedKind(Top)))]
           R == S \cup {e}
           rest == SubSeq(bodies, 1, Depth - 2)
<1>3. Attach = Append(rest, e)
  BY DEF Attach
<1>4. bodies \in Seq(R) /\ e \in R
  BY <1>1
<1> HIDE DEF e, R
<1>5. rest \in Seq(R) /\ Len(rest) = Depth - 2
  BY <1>2, <1>4, SeqCut
<1> HIDE DEF rest
<1>6. Attach \in Seq(R) /\ Len(Attach) = (Depth - 2) + 1
  BY <1>3, <1>4, <1>5, SeqPush
<1> QED  BY <1>2, <1>6

LEMMA PopShape ==
    ASSUME IInv, Shape, phase = "sema", Top.role # "func", NEW p \in Level
    PROVE  LET t == Append(SubSeq(scopes, 1, Depth - 2), p)
           IN t \in Seq(Level) /\ Len(t) = Len(scopes) - 1
<1>1. scopes \in Seq(Level) /\ Depth = Len(scopes) /\ Depth - 2 \in 0..Len(scopes)
      /\ Depth \in Nat
  BY HasParent, IInvStack DEF Stack
<1> DEFINE rest == SubSeq(scopes, 1, Depth - 2)
<1>2. rest \in Seq(Level) /\ Len(rest) = Depth - 2
  BY <1>1, SeqCut
<1> HIDE DEF rest
<1>3. Append(rest, p) \in Seq(Level) /\ Len(Append(rest, p)) = (Depth - 2) + 1
  BY <1>2, SeqPush
<1> QED  BY <1>1, <1>3 DEF rest

LEMMA CloseShape ==
    ASSUME IInv, Shape, phase = "sema", Top.role # "func", NEW p \in Level,
           NEW subs \in Seq(Nat), Close(p, subs)
    PROVE  Shape'
<1>1. Len(scopes') = Len(scopes) - 1
  BY PopShape DEF Close
<1>2. bodies' = Attach
  BY DEF Close
<1>3. (\E S : bodies' \in Seq(S)) /\ Len(bodies') = Len(scopes')
  BY <1>1, <1>2, AttachShape
<1> QED  BY <1>3 DEF Close, Shape

LEMMA StopShape ==
    ASSUME Shape, NEW how \in Phases, Stop(how)
    PROVE  Shape'
<1>1. <<>> \in Seq({}) /\ <<>> \in Seq(Nat)
  OBVIOUS
<1> QED  BY <1>1 DEF Stop, Shape

LEMMA CloseWithShape ==
    ASSUME IInv, Shape, phase = "sema", Top.role # "func", NEW p \in Level,
           NEW subs \in Seq(Nat), CloseWith(p, subs)
    PROVE  Shape'
BY CloseShape, StopShape DEF CloseWith, Phases

LEMMA ReopenShape ==
    ASSUME IInv, Shape, phase = "sema", Top.role # "func", NEW role \in Roles,
           Reopen(role)
    PROVE  Shape'
<1>1. CASE ~CountAsserted(Parent, Top)
  BY <1>1, StopShape DEF Reopen, Phases
<1>2. CASE CountAsserted(Parent, Top)
  <2> DEFINE a == AddSubScope(ParentAfter)
             l == NewLevel(role, Top.id)
             outer == Append(SubSeq(scopes, 1, Depth - 2), a)
  <2>1. a \in Level /\ l \in Level
    <3>1. Top.id \in Nat
      BY IInvStack, LevelFields
    <3> QED  BY <3>1, ParentCounted, NewLevelOK
  <2> HIDE DEF a, l
  <2>2. outer \in Seq(Level) /\ Len(outer) = Len(scopes) - 1
    BY <2>1, PopShape
  <2>3. scopes' = Append(outer, l) /\ bodies' = Append(Attach, <<>>)
        /\ UNCHANGED <<subscopes, phase, isVoid, func>>
    BY <1>2 DEF Reopen, a, l
  <2> HIDE DEF outer
  <2>4. Len(scopes') = (Len(scopes) - 1) + 1
    BY <2>1, <2>2, <2>3, SeqPush
  <2>5. PICK S : Attach \in Seq(S)
    BY AttachShape
  <2>6. Attach \in Seq(S \cup {<<>>})
    BY <2>5
  <2>7. bodies' \in Seq(S \cup {<<>>}) /\ Len(bodies') = Len(Attach) + 1
    BY <2>3, <2>6, SeqPush
  <2>8. Len(bodies') = Len(scopes')
    BY <2>4, <2>7, AttachShape
  <2> QED  BY <2>3, <2>7, <2>8 DEF Shape
<1> QED  BY <1>1, <1>2

LEMMA ShapeKeeps ==
    ASSUME IInv, CountOK, Shape, Instruction
    PROVE  Shape'
<1> USE DEF CanAdd, CanOpen, CanClose
<1>1. phase = "sema"
  BY DEF Instruction, Call, Var, LocalVar, Return, Error, Unreachable, Break, Continue,
     LabeledReturn, BeginCond, CondNoElse, CondElse, EndCond, BeginWhile, EndWhile,
     BeginFor, EndFor, EndForHasElse, EndForElse, BeginSwitch, BeginCase, EndCase,
     EndSwitch, TryElseBegin, TryElseEnd, BeginDefer, EndDefer, BeginStmtBlock,
     EndStmtBlock, BeginExprBlock, EndExprBlock, ScopeIsTerminated,
     RejectTerminated, FuncDef
<1>2. /\ Top \in Level /\ AddSubScope(Top) \in Level
      /\ AddSubScope(AddSubScope(Top)) \in Level
      /\ \A kind \in TerminatedKinds : SetTerminated(Top, kind) \in Level
  <2>1. Top \in Level /\ Counted(Top)
    BY <1>1, IInvStack
  <2>2. AddSubScope(Top) \in Level /\ Counted(AddSubScope(Top))
    BY <2>1, AddSubScopeOK
  <2> DEFINE a == AddSubScope(Top)
  <2>3. AddSubScope(a) \in Level
    <3> HIDE DEF a
    <3> QED  BY <2>2, AddSubScopeOK DEF a
  <2> QED  BY <2>1, <2>2, <2>3, SetTerminatedOK
<1>3. /\ subscopes \in Seq(Nat) /\ Front(subscopes) \in Seq(Nat)
      /\ Append(subscopes, count + 1) \in Seq(Nat)
  <2>1. subscopes \in Seq(Nat) /\ count + 1 \in Nat
    BY DEF Shape, CountOK
  <2> QED  BY <2>1, FrontOfSubscopes, AppendProperties
<1>4. \A op, form, to : Stmt(op, form, to).id \in Nat
  BY DEF Stmt, CountOK
<1>5. ASSUME Top.role # "func"
      PROVE  /\ ParentAfter \in Level /\ EndSubScopes(ParentAfter) \in Level
             /\ EndSubScopes(AddSubScope(ParentAfter)) \in Level
  BY <1>1, <1>5, ParentCounted
<1>6. "rejected" \in Phases /\ "crashed" \in Phases /\ "analyzed" \in Phases
  BY DEF Phases

\* The statements that do not open a level
<1>10. CASE Call \/ Var \/ Unreachable \/ LabeledReturn
  BY <1>1, <1>2, <1>10, AddShape DEF Call, Var, LocalVar, Unreachable, LabeledReturn,
     TerminatedKinds
<1>11. CASE Return \/ Error
  BY <1>1, <1>2, <1>6, <1>11, AddShape, StopShape DEF Return, Error, TerminatedKinds
<1>12. CASE Break \/ Continue
  BY <1>1, <1>2, <1>6, <1>12, AddShape, StopShape DEF Break, Continue, LoopJump,
     TerminatedKinds
<1>13. CASE BeginSwitch
  <2>1. PICK S : bodies \in Seq(S)
    BY DEF Shape
  <2>2. Depth \in 1..Len(bodies) /\ Len(bodies) = Len(scopes)
    BY <1>1, IInvStack DEF Shape
  <2>3. PICK form : bodies' = [bodies EXCEPT ![Depth] = Append(@, Stmt("switch", form, 0))]
    BY <1>13 DEF BeginSwitch, Emplace
  <2> DEFINE e == Append(bodies[Depth], Stmt("switch", form, 0))
             R == S \cup {e}
  <2>4. bodies' = [bodies EXCEPT ![Depth] = e] /\ bodies \in Seq(R) /\ e \in R
    BY <2>1, <2>3
  <2> HIDE DEF e, R
  <2>5. bodies' \in Seq(R) /\ Len(bodies') = Len(bodies)
    BY <2>2, <2>4, SeqReplace
  <2>6. /\ subscopes' = Append(subscopes, count + 1)
        /\ UNCHANGED <<scopes, phase, isVoid, func>>
    BY <1>13 DEF BeginSwitch
  <2> QED  BY <1>3, <2>2, <2>5, <2>6 DEF Shape
<1>14. CASE EndSwitch
  <2>1. scopes \in Seq(Level) /\ Depth \in 1..Len(scopes) /\ EndSubScopesAt(Depth, Top) \in Level
    BY <1>1, <1>2, IInvStack, EndSubScopesAtOK DEF Stack
  <2>2. Len(scopes') = Len(scopes)
    BY <1>14, <2>1, SeqReplace DEF EndSwitch
  <2> QED  BY <1>3, <1>14, <2>2 DEF EndSwitch, Shape
<1>15. CASE ScopeIsTerminated
  BY <1>6, <1>15, StopShape DEF ScopeIsTerminated, RejectTerminated
<1>16. CASE FuncDef
  <2>1. CASE Stop("rejected")
    BY <1>6, <2>1, StopShape
  <2>2. CASE ~Stop("rejected")
    <3>1. PICK void \in {TRUE, Unterminated} :
            /\ phase' = "analyzed"
            /\ func' = Block(bodies[1], Top.tk)
            /\ isVoid' = void
            /\ scopes' = <<>>
            /\ bodies' = <<>>
            /\ UNCHANGED subscopes
      BY <1>16, <2>2 DEF FuncDef
    <3>2. void \in BOOLEAN
      BY DEF Unterminated, IsTerminated
    <3>3. func'.tk \in TerminatedKinds
      BY <1>2, <3>1, LevelFields DEF Block
    <3>4. <<>> \in Seq({})
      OBVIOUS
    <3> QED  BY <1>3, <1>6, <3>1, <3>2, <3>3, <3>4 DEF Shape
  <2> QED  BY <2>1, <2>2

\* The statements that open a level
<1>20. CASE \/ BeginCond \/ BeginWhile \/ BeginFor \/ TryElseBegin
            \/ BeginDefer \/ BeginStmtBlock \/ BeginExprBlock
  <2>1. ASSUME NEW op, NEW form, NEW p \in Level, NEW role \in Roles, NEW subs \in Seq(Nat),
               Open(Stmt(op, form, 0), p, role, subs)
        PROVE  Shape'
    BY <1>1, <1>4, <2>1, OpenShape
  <2>2. {"then", "while", "for", "tryElse", "defer", "block", "blockExpr"} \subseteq Roles
    BY DEF Roles, LoopRoles
  <2>3. CASE BeginCond \/ BeginWhile \/ BeginFor
    BY <1>2, <1>3, <2>1, <2>2, <2>3 DEF BeginCond, BeginWhile, BeginFor
  <2>4. CASE TryElseBegin \/ BeginDefer \/ BeginStmtBlock \/ BeginExprBlock
    BY <1>2, <1>3, <2>1, <2>2, <2>4 DEF TryElseBegin, BeginDefer, BeginStmtBlock,
       BeginExprBlock
  <2> QED  BY <1>20, <2>3, <2>4
<1>21. CASE BeginCase
  <2>1. PICK S : bodies \in Seq(S)
    BY DEF Shape
  <2>2. /\ scopes \in Seq(Level) /\ Depth \in 1..Len(scopes) /\ Len(bodies) = Len(scopes)
        /\ Len(scopes) \in Nat
    BY <1>1, IInvStack DEF Shape, Stack
  <2> DEFINE sc == [scopes EXCEPT ![Depth] = AddSubScope(Top)]
  <2>3. sc \in Seq(Level) /\ Len(sc) = Len(scopes)
    BY <1>2, <2>2, SeqReplace
  <2>4. /\ scopes' = Append(sc, NewLevel("case", 0)) /\ bodies' = Append(bodies, <<>>)
        /\ UNCHANGED <<subscopes, phase, isVoid, func>>
    BY <1>21 DEF BeginCase
  <2>5. NewLevel("case", 0) \in Level
    BY NewLevelOK DEF Roles
  <2> HIDE DEF sc
  <2>6. Len(scopes') = Len(scopes) + 1
    BY <2>3, <2>4, <2>5, SeqPush
  <2>7. bodies \in Seq(S \cup {<<>>})
    BY <2>1
  <2>8. bodies' \in Seq(S \cup {<<>>}) /\ Len(bodies') = Len(bodies) + 1
    BY <2>4, <2>7, SeqPush
  <2> QED  BY <2>2, <2>4, <2>6, <2>8 DEF Shape

\* The statements that close one
<1>30. CASE CondElse \/ EndForHasElse
  BY <1>1, <1>30, ReopenShape DEF CondElse, EndForHasElse, Roles
<1>31. CASE \/ EndCond \/ EndWhile \/ EndFor \/ EndForElse \/ TryElseEnd
            \/ EndDefer \/ EndStmtBlock
  <2>1. Top.role # "func"
    BY <1>31 DEF EndCond, EndWhile, EndFor, EndForElse, TryElseEnd, EndDefer, EndStmtBlock
  <2>2. PICK subs \in Seq(Nat) : CloseWith(EndSubScopes(ParentAfter), subs)
    BY <1>3, <1>31 DEF EndCond, EndWhile, EndFor, EndForElse, TryElseEnd, EndDefer,
       EndStmtBlock
  <2> QED  BY <1>1, <1>5, <2>1, <2>2, CloseWithShape
<1>32. CASE CondNoElse \/ EndCase
  BY <1>1, <1>3, <1>5, <1>32, CloseWithShape DEF CondNoElse, EndCase
<1>33. CASE EndExprBlock
  <2>1. Top.role # "func"
    BY <1>33 DEF EndExprBlock
  <2>2. CountClosedLabel(Parent, Top) \in Level
    BY <1>1, <1>2, <2>1, HasParent, CountClosedLabelOK
  <2>3. EndSubScopes(CountClosedLabel(Parent, Top)) \in Level
    BY <2>2, EndSubScopesAtOK DEF EndSubScopes
  <2> QED  BY <1>1, <1>3, <1>6, <1>33, <2>1, <2>3, CloseShape, StopShape DEF EndExprBlock
<1> QED
  BY <1>10, <1>11, <1>12, <1>13, <1>14, <1>15, <1>16, <1>20, <1>21, <1>30, <1>31, <1>32,
     <1>33 DEF Instruction

LEMMA InitShape == Init => Shape
<1> SUFFICES ASSUME Init PROVE Shape
  OBVIOUS
<1>1. /\ bodies \in Seq({<<>>}) /\ Len(bodies) = Len(scopes) /\ subscopes \in Seq(Nat)
      /\ func.tk \in TerminatedKinds
  BY DEF Init, Block, TerminatedKinds
<1> QED  BY <1>1 DEF Init, Shape, Phases

LEMMA StepShape == IInv /\ CountOK /\ Shape /\ [Instruction]_svars => Shape'
<1>1. ASSUME IInv, CountOK, Shape, Instruction PROVE Shape'
  BY <1>1, ShapeKeeps
<1>2. ASSUME Shape, UNCHANGED svars PROVE Shape'
  BY <1>2 DEF Shape, svars
<1> QED  BY <1>1, <1>2

\* Every function body, of any size and nesting, keeps the types: each open level has
\* its block, and the code that takes the innermost of either finds one.
THEOREM TypeCorrect == Spec => []TypeOK
<1> DEFINE TInv == IInv /\ CountOK /\ Shape
<1>1. Init => TInv
  BY InitIInv, InitShape
<1>2. TInv /\ [Instruction]_svars => TInv'
  BY StepIInv, StepShape
<1>3. TInv => TypeOK
  BY DEF IInv, LevelsOK, CountOK, Shape, Phases, TypeOK
<1> QED  BY <1>1, <1>2, <1>3, PTL DEF Spec

-----------------------------------------------------------------------------
(* Open statements: subscopes holds an entry for each level that is a block *)
(* of an if, a for or a switch, and one for the switch between two of its   *)
(* cases.  So a level at which a statement may be added has no sub-scopes.  *)

\* The last statement of a block
Mark(b) == IF b = <<>> THEN [op |-> "none", id |-> -1]
           ELSE [op |-> Last(b).op, id |-> Last(b).id]

Pushes(role) == IF role \in {"then", "else", "for", "forElse", "case"} THEN 1 ELSE 0

\* pos[i] is the number of entries of the levels up to the i-th.
Nested(n, sc, bo, su, pos) ==
    /\ pos \in Seq(Nat) /\ Len(pos) = n
    /\ \A i, j \in 1..n : i <= j => pos[i] <= pos[j]
    /\ \A i \in 1..n - 1 : pos[i + 1] = pos[i] + Pushes(sc[i + 1].role)
    /\ \A i \in 1..n - 1 :
          sc[i + 1].role = "case" =>
              Mark(bo[i]).op = "switch" /\ Mark(bo[i]).id = su[pos[i + 1]]
    /\ \A i \in 1..n : \A k \in 1..pos[i] : su[k] # Mark(bo[i]).id

\* InSwitch, when b is the innermost block
Within(b, su) ==
    su # <<>> /\ Mark(b).op = "switch" /\ Mark(b).id = su[Len(su)]

Ended(n, sc, bo, su, pos) ==
    IF Within(bo[n], su) THEN Len(su) = pos[n] + 1
    ELSE Len(su) = pos[n] /\ sc[n].nsub = 0

Body(b) == \E S : (\A s \in S : {"op", "id"} \subseteq DOMAIN s) /\ b \in Seq(S)

Nest ==
    phase = "sema" =>
        /\ \A i \in 1..Len(bodies) : Body(bodies[i])
        /\ \A i \in 1..Len(bodies) - 1 : bodies[i] # <<>>
        /\ \A k \in 1..Len(subscopes) : subscopes[k] <= count
        /\ \E pos : /\ Nested(Depth, scopes, bodies, subscopes, pos)
                    /\ Ended(Depth, scopes, bodies, subscopes, pos)

LEMMA NestedPos ==
    ASSUME NEW n \in Nat \ {0},
           NEW sc, NEW bo, NEW su, NEW pos, Nested(n, sc, bo, su, pos)
    PROVE  /\ pos \in Seq(Nat) /\ Len(pos) = n
           /\ \A i \in 1..n : pos[i] \in Nat /\ pos[i] <= pos[n]
<1>1. pos \in Seq(Nat) /\ Len(pos) = n
  BY DEF Nested
<1>2. \A i \in 1..n : i <= n /\ n \in 1..n
  OBVIOUS
<1> QED  BY <1>1, <1>2 DEF Nested

\* The levels stay as many, though the innermost may become another of its
\* statement's.
LEMMA NestedStay ==
    ASSUME NEW n \in Nat \ {0},
           NEW sc, NEW bo, NEW su, NEW pos, Nested(n, sc, bo, su, pos),
           NEW sc2, NEW bo2, NEW su2,
           \A i \in 1..n :
               /\ Pushes(sc2[i].role) = Pushes(sc[i].role)
               /\ sc2[i].role = "case" => sc[i].role = "case",
           \A i \in 1..n - 1 : Mark(bo2[i]) = Mark(bo[i]),
           \A k \in 1..pos[n] : su2[k] = su[k] /\ su[k] # Mark(bo2[n]).id
    PROVE  Nested(n, sc2, bo2, su2, pos)
<1>1. /\ pos \in Seq(Nat) /\ Len(pos) = n /\ n \in Nat \ {0}
      /\ \A i \in 1..n : pos[i] \in Nat /\ pos[i] <= pos[n]
  BY NestedPos
<1>2. \A i \in 1..n - 1 : i \in 1..n /\ i + 1 \in 1..n
  BY <1>1
<1>3. \A i \in 1..n - 1 : pos[i + 1] = pos[i] + Pushes(sc2[i + 1].role)
  BY <1>2 DEF Nested
<1>4. ASSUME NEW i \in 1..n - 1, sc2[i + 1].role = "case"
      PROVE  Mark(bo2[i]).op = "switch" /\ Mark(bo2[i]).id = su2[pos[i + 1]]
  <2>1. sc[i + 1].role = "case" /\ Mark(bo2[i]) = Mark(bo[i])
    BY <1>2, <1>4
  <2>2. pos[i + 1] = pos[i] + 1
    BY <2>1 DEF Nested, Pushes
  <2>3. pos[i + 1] \in 1..pos[n]
    BY <1>1, <1>2, <2>2
  <2> QED  BY <2>1, <2>3 DEF Nested
<1>5. ASSUME NEW i \in 1..n, NEW k \in 1..pos[i]
      PROVE  su2[k] # Mark(bo2[i]).id
  <2>1. k \in 1..pos[n]
    BY <1>1
  <2>2. CASE i = n
    BY <2>1, <2>2
  <2>3. CASE i # n
    <3>1. i \in 1..n - 1
      BY <1>1, <2>3
    <3>2. su[k] # Mark(bo[i]).id
      BY DEF Nested
    <3> QED  BY <2>1, <3>1, <3>2
  <2> QED  BY <2>2, <2>3
<1>6. \A i, j \in 1..n : i <= j => pos[i] <= pos[j]
  BY DEF Nested
<1> QED  BY <1>1, <1>3, <1>4, <1>5, <1>6 DEF Nested

\* A level more, and its block
Pushed(n, sc, bo, su, pos, sc2, bo2, su2) ==
    /\ \A i \in 1..n : sc2[i].role = sc[i].role
    /\ \A i \in 1..n - 1 : Mark(bo2[i]) = Mark(bo[i])
    /\ \A k \in 1..pos[n] : su2[k] = su[k] /\ su[k] # Mark(bo2[n]).id
    /\ \A k \in 1..pos[n] + Pushes(sc2[n + 1].role) : su2[k] # Mark(bo2[n + 1]).id
    /\ sc2[n + 1].role = "case" =>
          Mark(bo2[n]).op = "switch" /\ Mark(bo2[n]).id = su2[pos[n] + 1]

LEMMA NestedPush ==
    ASSUME NEW n \in Nat \ {0},
           NEW sc, NEW bo, NEW su, NEW pos, Nested(n, sc, bo, su, pos),
           NEW sc2, NEW bo2, NEW su2, Pushed(n, sc, bo, su, pos, sc2, bo2, su2)
    PROVE  Nested(n + 1, sc2, bo2, su2, Append(pos, pos[n] + Pushes(sc2[n + 1].role)))
<1> DEFINE last == pos[n] + Pushes(sc2[n + 1].role)
           pos2 == Append(pos, last)
<1>1. /\ pos \in Seq(Nat) /\ Len(pos) = n /\ n \in Nat \ {0}
      /\ \A i \in 1..n : pos[i] \in Nat /\ pos[i] <= pos[n]
  BY NestedPos
<1>2. last \in Nat /\ pos[n] <= last /\ last <= pos[n] + 1
  BY <1>1 DEF Pushes
<1>3. /\ pos2 \in Seq(Nat) /\ Len(pos2) = n + 1
      /\ \A i \in 1..n : pos2[i] = pos[i]
      /\ pos2[n + 1] = last
  <2> HIDE DEF last
  <2>1. \A i \in 1..n + 1 : pos2[i] = IF i = n + 1 THEN last ELSE pos[i]
    BY <1>1, <1>2, SeqPush
  <2>2. pos2 \in Seq(Nat) /\ Len(pos2) = n + 1
    BY <1>1, <1>2, SeqPush
  <2> HIDE DEF pos2
  <2> QED  BY <1>1, <2>1, <2>2
<1> HIDE DEF pos2
<1>p. /\ \A i \in 1..n : sc2[i].role = sc[i].role
      /\ \A i \in 1..n - 1 : Mark(bo2[i]) = Mark(bo[i])
      /\ \A k \in 1..pos[n] : su2[k] = su[k] /\ su[k] # Mark(bo2[n]).id
      /\ \A k \in 1..last : su2[k] # Mark(bo2[n + 1]).id
      /\ sc2[n + 1].role = "case" =>
            Mark(bo2[n]).op = "switch" /\ Mark(bo2[n]).id = su2[pos[n] + 1]
  BY DEF Pushed
<1>4. \A i \in 1..n - 1 : i \in 1..n /\ i + 1 \in 1..n
  BY <1>1
<1>5. ASSUME NEW i \in 1..n + 1, NEW j \in 1..n + 1, i <= j
      PROVE  pos2[i] <= pos2[j]
  <2>1. CASE j = n + 1
    <3>1. pos2[j] = last /\ last \in Nat
      BY <1>2, <1>3, <2>1
    <3>2. CASE i = n + 1
      BY <2>1, <3>1, <3>2
    <3>3. CASE i # n + 1
      <4>1. i \in 1..n
        BY <1>1, <3>3
      <4>2. pos2[i] = pos[i] /\ pos[i] <= pos[n] /\ pos[i] \in Nat /\ pos[n] \in Nat
        BY <1>1, <1>3, <4>1
      <4> HIDE DEF last
      <4> QED  BY <1>2, <3>1, <4>2
    <3> QED  BY <3>2, <3>3
  <2>2. CASE j # n + 1
    <3>1. i \in 1..n /\ j \in 1..n
      BY <1>1, <1>5, <2>2
    <3> QED  BY <1>3, <1>5, <3>1 DEF Nested
  <2> QED  BY <2>1, <2>2
<1>6. ASSUME NEW i \in 1..n
      PROVE  /\ pos2[i + 1] = pos2[i] + Pushes(sc2[i + 1].role)
             /\ sc2[i + 1].role = "case" =>
                   Mark(bo2[i]).op = "switch" /\ Mark(bo2[i]).id = su2[pos2[i + 1]]
  <2>1. CASE i = n
    <3>1. pos2[i + 1] = last /\ pos2[i] = pos[n]
      BY <1>3, <2>1
    <3>2. sc2[n + 1].role = "case" => last = pos[n] + 1
      BY DEF Pushes
    <3> QED  BY <1>p, <2>1, <3>1, <3>2
  <2>2. CASE i # n
    <3>1. i \in 1..n - 1 /\ i + 1 \in 1..n
      BY <1>1, <2>2
    <3>2. pos2[i + 1] = pos[i + 1] /\ pos2[i] = pos[i] /\ sc2[i + 1].role = sc[i + 1].role
          /\ Mark(bo2[i]) = Mark(bo[i])
      BY <1>p, <1>3, <3>1
    <3>3. pos[i + 1] = pos[i] + Pushes(sc[i + 1].role)
      BY <3>1 DEF Nested
    <3>4. ASSUME sc2[i + 1].role = "case"
          PROVE  Mark(bo2[i]).op = "switch" /\ Mark(bo2[i]).id = su2[pos2[i + 1]]
      <4>1. pos[i + 1] \in 1..pos[n]
        <5>1. pos[i + 1] = pos[i] + 1 /\ pos[i] \in Nat /\ pos[i + 1] <= pos[n]
          BY <1>1, <3>1, <3>2, <3>3, <3>4 DEF Pushes
        <5> QED  BY <1>1, <5>1
      <4>2. su2[pos[i + 1]] = su[pos[i + 1]]
        BY <1>p, <4>1
      <4>3. Mark(bo[i]).op = "switch" /\ Mark(bo[i]).id = su[pos[i + 1]]
        <5>1. sc[i + 1].role = "case"
          BY <3>2, <3>4
        <5> QED  BY <3>1, <5>1 DEF Nested
      <4> QED  BY <3>2, <4>2, <4>3
    <3> QED  BY <3>2, <3>3, <3>4
  <2> QED  BY <2>1, <2>2
<1>7. ASSUME NEW i \in 1..n + 1, NEW k \in 1..pos2[i]
      PROVE  su2[k] # Mark(bo2[i]).id
  <2>1. CASE i = n + 1
    <3>1. k \in 1..last
      BY <1>1, <1>2, <1>3, <2>1
    <3> QED  BY <1>p, <2>1, <3>1
  <2>2. CASE i # n + 1
    <3>1. i \in 1..n /\ k \in 1..pos[i] /\ k \in 1..pos[n]
      BY <1>1, <1>3, <2>2
    <3>2. su[k] # Mark(bo[i]).id /\ su2[k] = su[k]
      BY <1>p, <3>1 DEF Nested
    <3>3. CASE i = n
      BY <1>p, <3>1, <3>3
    <3>4. CASE i # n
      <4>1. i \in 1..n - 1
        BY <1>1, <3>1, <3>4
      <4> QED  BY <1>p, <3>2, <4>1
    <3> QED  BY <3>3, <3>4
  <2> QED  BY <2>1, <2>2
<1>8. (n + 1) - 1 = n
  BY <1>1
<1>9. Nested(n + 1, sc2, bo2, su2, pos2)
  BY <1>3, <1>5, <1>6, <1>7, <1>8 DEF Nested
<1> QED  BY <1>9 DEF pos2

\* A level less
Popped(n, sc, bo, su, pos, sc2, bo2, su2) ==
    /\ \A i \in 1..n : sc2[i].role = sc[i].role
    /\ \A i \in 1..n : Mark(bo2[i]) = Mark(bo[i])
    /\ \A k \in 1..pos[n] : su2[k] = su[k]

LEMMA NestedPop ==
    ASSUME NEW n \in Nat \ {0},
           NEW sc, NEW bo, NEW su, NEW pos, Nested(n + 1, sc, bo, su, pos),
           NEW sc2, NEW bo2, NEW su2, Popped(n, sc, bo, su, pos, sc2, bo2, su2)
    PROVE  LET pos2 == SubSeq(pos, 1, n)
           IN Nested(n, sc2, bo2, su2, pos2) /\ pos2[n] = pos[n]
<1> DEFINE pos2 == SubSeq(pos, 1, n)
<1>0. /\ \A i \in 1..n : sc2[i].role = sc[i].role
      /\ \A i \in 1..n : Mark(bo2[i]) = Mark(bo[i])
      /\ \A k \in 1..pos[n] : su2[k] = su[k]
  BY DEF Popped
<1>1. /\ pos \in Seq(Nat) /\ Len(pos) = n + 1 /\ n \in Nat \ {0} /\ n \in 0..Len(pos)
      /\ \A i \in 1..n : pos[i] \in Nat /\ pos[i] <= pos[n]
  BY <1>0 DEF Nested
<1>2. /\ pos2 \in Seq(Nat) /\ Len(pos2) = n
      /\ \A i \in 1..n : pos2[i] = pos[i]
  BY <1>1, SeqCut
<1> HIDE DEF pos2
<1>3. (n + 1) - 1 = n
  BY <1>1
<1>4. \A i \in 1..n - 1 : i \in 1..n /\ i + 1 \in 1..n
  BY <1>1
<1>5. \A i, j \in 1..n : i <= j => pos2[i] <= pos2[j]
  BY <1>0, <1>1, <1>2, <1>3 DEF Nested
<1>6. ASSUME NEW i \in 1..n - 1
      PROVE  /\ pos2[i + 1] = pos2[i] + Pushes(sc2[i + 1].role)
             /\ sc2[i + 1].role = "case" =>
                   Mark(bo2[i]).op = "switch" /\ Mark(bo2[i]).id = su2[pos2[i + 1]]
  <2>1. pos2[i + 1] = pos[i + 1] /\ pos2[i] = pos[i] /\ sc2[i + 1].role = sc[i + 1].role
        /\ Mark(bo2[i]) = Mark(bo[i])
    BY <1>0, <1>2, <1>4
  <2>2. i \in 1..(n + 1) - 1
    BY <1>3, <1>4
  <2>3. pos[i + 1] = pos[i] + Pushes(sc[i + 1].role)
    BY <1>0, <2>2 DEF Nested
  <2>4. ASSUME sc2[i + 1].role = "case"
        PROVE  Mark(bo2[i]).op = "switch" /\ Mark(bo2[i]).id = su2[pos2[i + 1]]
    <3>1. pos[i + 1] = pos[i] + 1 /\ pos[i] \in Nat /\ pos[i + 1] <= pos[n]
      BY <1>1, <1>4, <2>1, <2>3, <2>4 DEF Pushes
    <3>2. pos[i + 1] \in 1..pos[n]
      BY <1>1, <3>1
    <3>3. su2[pos[i + 1]] = su[pos[i + 1]]
      BY <1>0, <3>2
    <3> QED  BY <1>0, <2>1, <2>2, <2>4, <3>3 DEF Nested
  <2> QED  BY <2>1, <2>3, <2>4
<1>7. ASSUME NEW i \in 1..n, NEW k \in 1..pos2[i]
      PROVE  su2[k] # Mark(bo2[i]).id
  <2>1. k \in 1..pos[i] /\ k \in 1..pos[n]
    <3>1. k \in 1..pos[i]
      BY <1>2
    <3>2. pos[i] \in Nat /\ pos[n] \in Nat /\ pos[i] <= pos[n]
      BY <1>1
    <3> QED  BY <3>1, <3>2
  <2>2. i \in 1..n + 1
    BY <1>1, <1>3
  <2>3. Mark(bo2[i]) = Mark(bo[i]) /\ su2[k] = su[k]
    BY <1>0, <2>1
  <2> QED  BY <1>0, <2>1, <2>2, <2>3 DEF Nested
<1>8. Nested(n, sc2, bo2, su2, pos2)
  BY <1>2, <1>3, <1>5, <1>6, <1>7 DEF Nested
<1> QED  BY <1>1, <1>2, <1>8 DEF pos2

-----------------------------------------------------------------------------
(* The blocks, once a statement is appended or a block attached to its own *)

IsStmt(s) == {"op", "id"} \subseteq DOMAIN s

LEMMA BlockPush ==
    ASSUME NEW b, Body(b), NEW s, IsStmt(s)
    PROVE  /\ Body(Append(b, s)) /\ Append(b, s) # <<>>
           /\ Mark(Append(b, s)) = [op |-> s.op, id |-> s.id]
<1>1. PICK S : (\A x \in S : {"op", "id"} \subseteq DOMAIN x) /\ b \in Seq(S)
  BY DEF Body
<1> DEFINE c == Append(b, s)
           R == S \cup {s}
<1>2. b \in Seq(R) /\ s \in R /\ \A x \in R : {"op", "id"} \subseteq DOMAIN x
  BY <1>1 DEF IsStmt
<1> HIDE DEF R
<1>3. /\ c \in Seq(R) /\ Len(c) = Len(b) + 1 /\ Len(b) \in Nat
      /\ c[Len(b) + 1] = s
  <2>1. Len(b) \in Nat
    BY <1>2
  <2> QED  BY <1>2, <2>1, SeqPush
<1> HIDE DEF c
<1>4. c # <<>> /\ c[Len(c)] = s
  BY <1>3
<1>5. Mark(c) = [op |-> s.op, id |-> s.id]
  BY <1>4 DEF Mark, Last
<1>6. Body(c)
  BY <1>2, <1>3 DEF Body
<1> QED  BY <1>4, <1>5, <1>6 DEF c

LEMMA NestStack ==
    ASSUME IInv, Shape, Nest, phase = "sema"
    PROVE  /\ Depth = Len(scopes) /\ Depth = Len(bodies) /\ Depth \in Nat \ {0}
           /\ InSwitch <=> Within(bodies[Depth], subscopes)
           /\ Len(subscopes) \in Nat
           /\ \A k \in 1..Len(subscopes) : subscopes[k] \in Nat
           /\ Body(bodies[Depth])
<1>1. Depth = Len(scopes) /\ Depth = Len(bodies) /\ Depth \in Nat \ {0}
  BY IInvStack DEF Shape
<1>2. Len(subscopes) \in Nat /\ \A k \in 1..Len(subscopes) : subscopes[k] \in Nat
  BY DEF Shape
<1>3. InSwitch <=> Within(bodies[Depth], subscopes)
  <2>1. bodies[Depth] = <<>> => Mark(bodies[Depth]).op # "switch"
    BY DEF Mark
  <2>2. bodies[Depth] # <<>> => /\ Mark(bodies[Depth]).op = Last(bodies[Depth]).op
                                /\ Mark(bodies[Depth]).id = Last(bodies[Depth]).id
    BY DEF Mark
  <2>3. Last(subscopes) = subscopes[Len(subscopes)]
    BY DEF Last
  <2> QED  BY <1>1, <2>1, <2>2, <2>3 DEF InSwitch, Within
<1>4. Body(bodies[Depth])
  <2>1. Depth \in 1..Len(bodies)
    BY <1>1
  <2> QED  BY <2>1 DEF Nest
<1> QED  BY <1>1, <1>2, <1>3, <1>4

LEMMA EmplaceBlocks ==
    ASSUME IInv, Shape, Nest, phase = "sema", NEW s, IsStmt(s)
    PROVE  /\ \E S : Emplace(s) \in Seq(S)
           /\ Len(Emplace(s)) = Depth
           /\ \A i \in 1..Depth - 1 : Emplace(s)[i] = bodies[i]
           /\ Mark(Emplace(s)[Depth]) = [op |-> s.op, id |-> s.id]
           /\ \A i \in 1..Depth : Body(Emplace(s)[i]) /\ Emplace(s)[i] # <<>>
<1> DEFINE bo == Emplace(s)
           e == Append(bodies[Depth], s)
<1>1. Depth = Len(bodies) /\ Depth \in Nat \ {0} /\ Depth \in 1..Len(bodies)
      /\ Body(bodies[Depth])
  BY NestStack
<1>2. PICK S : bodies \in Seq(S)
  BY DEF Shape
<1> DEFINE R == S \cup {e}
<1>3. bo = [bodies EXCEPT ![Depth] = e] /\ bodies \in Seq(R) /\ e \in R
  BY <1>2 DEF Emplace
<1>4. /\ Body(e) /\ e # <<>> /\ Mark(e) = [op |-> s.op, id |-> s.id]
  BY <1>1, BlockPush
<1> HIDE DEF e, R, bo
<1>5. /\ bo \in Seq(R) /\ Len(bo) = Len(bodies)
      /\ \A i \in 1..Len(bodies) : bo[i] = IF i = Depth THEN e ELSE bodies[i]
  BY <1>1, <1>3, SeqReplace
<1>6. \A i \in 1..Depth - 1 : bo[i] = bodies[i] /\ Body(bo[i]) /\ bo[i] # <<>>
  <2>1. \A i \in 1..Depth - 1 : i \in 1..Len(bodies) /\ i # Depth
    BY <1>1
  <2> QED  BY <1>1, <1>5, <2>1 DEF Nest
<1>7. bo[Depth] = e
  BY <1>1, <1>5
<1>8. \A i \in 1..Depth : i = Depth \/ i \in 1..Depth - 1
  BY <1>1
<1>9. \A i \in 1..Depth : Body(bo[i]) /\ bo[i] # <<>>
  BY <1>4, <1>6, <1>7, <1>8
<1> QED  BY <1>1, <1>4, <1>5, <1>6, <1>7, <1>9 DEF bo

LEMMA AttachBlocks ==
    ASSUME IInv, Shape, Nest, phase = "sema", Top.role # "func"
    PROVE  /\ Depth - 1 \in Nat \ {0} /\ Depth - 1 \in 1..Depth
           /\ \E S : Attach \in Seq(S)
           /\ Len(Attach) = Depth - 1
           /\ \A i \in 1..Depth - 1 : /\ Mark(Attach[i]) = Mark(bodies[i])
                                      /\ Body(Attach[i]) /\ Attach[i] # <<>>
<1>1. /\ Depth = Len(scopes) /\ Len(bodies) = Depth /\ Depth - 2 \in 0..Len(bodies)
      /\ Depth \in Nat /\ Depth - 1 \in 1..Depth /\ Depth - 2 \in Nat
  BY HasParent, IInvStack DEF Shape
<1> DEFINE outer == bodies[Depth - 1]
           block == Block(bodies[Depth], ClosedKind(Top))
           e == [outer EXCEPT ![Len(outer)].blocks = Append(@, block)]
           rest == SubSeq(bodies, 1, Depth - 2)
<1>2. PICK S : bodies \in Seq(S)
  BY DEF Shape
<1>3. /\ Mark(e) = Mark(outer) /\ Body(e) /\ e # <<>>
  <2>1. Depth - 1 \in 1..Len(bodies) /\ Depth - 1 \in 1..Len(bodies) - 1
    BY <1>1
  <2>2. outer # <<>> /\ Body(outer)
    BY <2>1 DEF Nest
  <2>3. PICK R : (\A x \in R : {"op", "id"} \subseteq DOMAIN x) /\ outer \in Seq(R)
    BY <2>2 DEF Body
  <2> DEFINE n == Len(outer)
             last == outer[n]
             s == [last EXCEPT !.blocks = Append(@, block)]
  <2>4. e = [outer EXCEPT ![n] = s]
    OBVIOUS
  <2>5. n \in 1..n /\ last \in R
    BY <2>2, <2>3
  <2>6. DOMAIN s = DOMAIN last /\ s.op = last.op /\ s.id = last.id
    <3>1. {"op", "id"} \subseteq DOMAIN last
      BY <2>3, <2>5
    <3> QED  BY <3>1
  <2> DEFINE Q == R \cup {s}
  <2>7. outer \in Seq(Q) /\ s \in Q /\ \A x \in Q : {"op", "id"} \subseteq DOMAIN x
    BY <2>3, <2>5, <2>6
  <2> HIDE DEF s, Q, e, outer
  <2>8. e \in Seq(Q) /\ Len(e) = n /\ e[n] = s
    BY <2>4, <2>5, <2>7, SeqReplace
  <2>9. e # <<>>
    BY <2>5, <2>8
  <2>10. Mark(e) = Mark(outer)
    BY <2>2, <2>6, <2>8, <2>9 DEF Mark, Last
  <2>11. Body(e)
    BY <2>7, <2>8 DEF Body
  <2> QED  BY <2>9, <2>10, <2>11
<1> DEFINE T == S \cup {e}
<1>4. Attach = Append(rest, e)
  BY DEF Attach
<1>5. bodies \in Seq(T) /\ e \in T
  BY <1>2
<1> HIDE DEF e, T
<1>6. /\ rest \in Seq(T) /\ Len(rest) = Depth - 2
      /\ \A i \in 1..Depth - 2 : rest[i] = bodies[i]
  BY <1>1, <1>5, SeqCut
<1> HIDE DEF rest
<1>7. /\ Attach \in Seq(T) /\ Len(Attach) = (Depth - 2) + 1
      /\ \A i \in 1..(Depth - 2) + 1 : Attach[i] = IF i = (Depth - 2) + 1 THEN e ELSE rest[i]
  BY <1>4, <1>5, <1>6, SeqPush
<1>8. (Depth - 2) + 1 = Depth - 1
  BY <1>1
<1>9. ASSUME NEW i \in 1..Depth - 1
      PROVE  Mark(Attach[i]) = Mark(bodies[i]) /\ Body(Attach[i]) /\ Attach[i] # <<>>
  <2>1. CASE i = Depth - 1
    <3>1. Attach[i] = e
      BY <1>7, <1>8, <2>1
    <3> QED  BY <1>3, <2>1, <3>1
  <2>2. CASE i # Depth - 1
    <3>1. i \in 1..Depth - 2 /\ i \in 1..(Depth - 2) + 1 /\ i # (Depth - 2) + 1
          /\ i \in 1..Len(bodies) /\ i \in 1..Len(bodies) - 1
      BY <1>1, <2>2
    <3>2. Attach[i] = bodies[i]
      BY <1>6, <1>7, <3>1
    <3> QED  BY <3>1, <3>2 DEF Nest
  <2> QED  BY <2>1, <2>2
<1>10. Len(Attach) = Depth - 1 /\ Depth - 1 \in Nat \ {0}
  BY <1>1, <1>7
<1> QED  BY <1>1, <1>7, <1>9, <1>10

-----------------------------------------------------------------------------
(* The levels after each kind of step, one by one *)

LEMMA LevelsReplace ==
    ASSUME IInv, phase = "sema", NEW l \in Level
    PROVE  LET t == [scopes EXCEPT ![Depth] = l]
           IN /\ t \in Seq(Level) /\ Len(t) = Depth
              /\ \A i \in 1..Depth - 1 : t[i] = scopes[i]
              /\ t[Depth] = l
<1> DEFINE t == [scopes EXCEPT ![Depth] = l]
<1>1. scopes \in Seq(Level) /\ Depth = Len(scopes) /\ Depth \in 1..Len(scopes)
      /\ Depth \in Nat \ {0}
  BY IInvStack DEF Stack
<1>2. /\ t \in Seq(Level) /\ Len(t) = Len(scopes)
      /\ \A i \in 1..Len(scopes) : t[i] = IF i = Depth THEN l ELSE scopes[i]
  BY <1>1, SeqReplace
<1> HIDE DEF t
<1>3. \A i \in 1..Depth - 1 : i \in 1..Len(scopes) /\ i # Depth
  BY <1>1
<1>4. t[Depth] = l /\ \A i \in 1..Depth - 1 : t[i] = scopes[i]
  BY <1>1, <1>2, <1>3
<1> QED  BY <1>1, <1>2, <1>4 DEF t

LEMMA LevelsPush ==
    ASSUME IInv, phase = "sema", NEW p \in Level, NEW l \in Level
    PROVE  LET t == Append([scopes EXCEPT ![Depth] = p], l)
           IN /\ Len(t) = Depth + 1
              /\ \A i \in 1..Depth - 1 : t[i] = scopes[i]
              /\ t[Depth] = p /\ t[Depth + 1] = l
<1> DEFINE u == [scopes EXCEPT ![Depth] = p]
           t == Append(u, l)
<1>1. /\ u \in Seq(Level) /\ Len(u) = Depth
      /\ \A i \in 1..Depth - 1 : u[i] = scopes[i]
      /\ u[Depth] = p /\ Depth \in Nat \ {0}
  BY IInvStack, LevelsReplace
<1> HIDE DEF u
<1>2. /\ Len(t) = Depth + 1
      /\ \A i \in 1..Depth + 1 : t[i] = IF i = Depth + 1 THEN l ELSE u[i]
  BY <1>1, SeqPush
<1> HIDE DEF t
<1>3. \A i \in 1..Depth - 1 : t[i] = scopes[i]
  <2>1. \A i \in 1..Depth - 1 : i \in 1..Depth + 1 /\ i # Depth + 1
    BY <1>1
  <2> QED  BY <1>1, <1>2, <2>1
<1>4. t[Depth] = p /\ t[Depth + 1] = l
  BY <1>1, <1>2
<1> QED  BY <1>2, <1>3, <1>4 DEF t, u

LEMMA LevelsPop ==
    ASSUME IInv, phase = "sema", Top.role # "func", NEW p \in Level
    PROVE  LET t == Append(SubSeq(scopes, 1, Depth - 2), p)
           IN /\ t \in Seq(Level) /\ Len(t) = Depth - 1
              /\ \A i \in 1..Depth - 2 : t[i] = scopes[i]
              /\ t[Depth - 1] = p
              /\ Depth - 1 \in Nat \ {0}
<1> DEFINE u == SubSeq(scopes, 1, Depth - 2)
           t == Append(u, p)
<1>1. /\ scopes \in Seq(Level) /\ Depth = Len(scopes) /\ Depth - 2 \in 0..Len(scopes)
      /\ Depth \in Nat /\ Depth - 2 \in Nat
  BY HasParent, IInvStack DEF Stack
<1>2. /\ u \in Seq(Level) /\ Len(u) = Depth - 2
      /\ \A i \in 1..Depth - 2 : u[i] = scopes[i]
  BY <1>1, SeqCut
<1> HIDE DEF u
<1>3. /\ t \in Seq(Level) /\ Len(t) = (Depth - 2) + 1
      /\ \A i \in 1..(Depth - 2) + 1 : t[i] = IF i = (Depth - 2) + 1 THEN p ELSE u[i]
  BY <1>2, SeqPush
<1> HIDE DEF t
<1>4. (Depth - 2) + 1 = Depth - 1 /\ Depth - 1 \in 1..Depth - 1 /\ Depth - 1 \in Nat \ {0}
  BY <1>1
<1>5. \A i \in 1..Depth - 2 : i \in 1..Depth - 1 /\ i # Depth - 1
  BY <1>1
<1>6. t[Depth - 1] = p /\ \A i \in 1..Depth - 2 : t[i] = scopes[i]
  BY <1>2, <1>3, <1>4, <1>5
<1> QED  BY <1>3, <1>4, <1>6 DEF t, u

LEMMA LevelsReopen ==
    ASSUME IInv, phase = "sema", Top.role # "func", NEW p \in Level, NEW l \in Level
    PROVE  LET t == Append(Append(SubSeq(scopes, 1, Depth - 2), p), l)
           IN /\ Len(t) = Depth
              /\ \A i \in 1..Depth - 2 : t[i] = scopes[i]
              /\ t[Depth - 1] = p /\ t[Depth] = l
<1> DEFINE u == Append(SubSeq(scopes, 1, Depth - 2), p)
           t == Append(u, l)
<1>1. /\ u \in Seq(Level) /\ Len(u) = Depth - 1
      /\ \A i \in 1..Depth - 2 : u[i] = scopes[i]
      /\ u[Depth - 1] = p /\ Depth - 1 \in Nat \ {0} /\ Depth \in Nat
  BY IInvStack, LevelsPop
<1> HIDE DEF u
<1>2. /\ Len(t) = (Depth - 1) + 1
      /\ \A i \in 1..(Depth - 1) + 1 : t[i] = IF i = (Depth - 1) + 1 THEN l ELSE u[i]
  BY <1>1, SeqPush
<1> HIDE DEF t
<1>3. (Depth - 1) + 1 = Depth /\ Depth \in 1..Depth /\ Depth - 1 \in 1..Depth
      /\ Depth - 1 # Depth
  BY <1>1
<1>4. \A i \in 1..Depth - 2 : i \in 1..Depth /\ i # Depth
  BY <1>1
<1>5. t[Depth] = l /\ t[Depth - 1] = p /\ \A i \in 1..Depth - 2 : t[i] = scopes[i]
  BY <1>1, <1>2, <1>3, <1>4
<1> QED  BY <1>2, <1>3, <1>5 DEF t, u

-----------------------------------------------------------------------------
(* Each kind of step keeps the open statements nested. *)

LEMMA NestAfter ==
    ASSUME \A i \in 1..Len(bodies') : Body(bodies'[i]),
           \A i \in 1..Len(bodies') - 1 : bodies'[i] # <<>>,
           \A k \in 1..Len(subscopes') : subscopes'[k] <= count',
           NEW n, Len(scopes') = n, NEW pos, Nested(n, scopes', bodies', subscopes', pos),
           Ended(n, scopes', bodies', subscopes', pos)
    PROVE  Nest'
BY DEF Nest, Depth

\* A statement, or a switch whose cases follow
LEMMA NestAppend ==
    ASSUME IInv, Shape, Nest, CountOK, phase = "sema", ~InSwitch,
           NEW s, IsStmt(s), s.id = count + 1, NEW l \in Level,
           l.role = Top.role, l.nsub = Top.nsub,
           scopes' = [scopes EXCEPT ![Depth] = l], bodies' = Emplace(s),
           count' = count + 1,
           \/ subscopes' = subscopes
           \/ subscopes' = Append(subscopes, count + 1) /\ s.op = "switch"
    PROVE  Nest'
<1> DEFINE n == Depth
<1>1. /\ n = Len(scopes) /\ n = Len(bodies) /\ n \in Nat \ {0} /\ n \in 1..Len(scopes)
      /\ ~Within(bodies[n], subscopes) /\ Len(subscopes) \in Nat
      /\ \A k \in 1..Len(subscopes) : subscopes[k] \in Nat
      /\ scopes \in Seq(Level) /\ Top = scopes[n]
  BY NestStack, IInvStack DEF Stack
<1>2. PICK pos : Nested(n, scopes, bodies, subscopes, pos) /\ Ended(n, scopes, bodies, subscopes, pos)
  BY DEF Nest
<1>3. /\ Len(scopes') = n
      /\ \A i \in 1..n : scopes'[i] = IF i = n THEN l ELSE scopes[i]
  <2> DEFINE t == [scopes EXCEPT ![n] = l]
  <2>1. /\ Len(t) = Len(scopes)
        /\ \A i \in 1..Len(scopes) : t[i] = IF i = n THEN l ELSE scopes[i]
    <3>1. scopes \in Seq(Level) /\ n \in 1..Len(scopes)
      BY <1>1
    <3> HIDE DEF n
    <3> QED  BY <3>1, SeqReplace
  <2>2. scopes' = t
    OBVIOUS
  <2> HIDE DEF t, n
  <2> QED  BY <1>1, <2>1, <2>2
<1>4. /\ Len(bodies') = n
      /\ \A i \in 1..n - 1 : bodies'[i] = bodies[i]
      /\ Mark(bodies'[n]) = [op |-> s.op, id |-> count + 1]
      /\ \A i \in 1..n : Body(bodies'[i]) /\ bodies'[i] # <<>>
  BY EmplaceBlocks
<1>5. count \in Nat /\ \A k \in 1..Len(subscopes) : subscopes[k] <= count
  BY DEF CountOK, Nest
<1>6. /\ Len(subscopes') \in Nat
      /\ \A k \in 1..Len(subscopes) : subscopes'[k] = subscopes[k]
      /\ \/ Len(subscopes') = Len(subscopes)
         \/ /\ Len(subscopes') = Len(subscopes) + 1 /\ s.op = "switch"
            /\ subscopes'[Len(subscopes) + 1] = count + 1
  <2>1. CASE subscopes' = subscopes
    BY <1>1, <2>1
  <2>2. CASE subscopes' = Append(subscopes, count + 1) /\ s.op = "switch"
    <3>1. subscopes \in Seq(Nat) /\ count + 1 \in Nat
      BY <1>5 DEF Shape
    <3>2. /\ Len(subscopes') = Len(subscopes) + 1
          /\ \A i \in 1..Len(subscopes) + 1 :
                subscopes'[i] = IF i = Len(subscopes) + 1 THEN count + 1 ELSE subscopes[i]
      BY <2>2, <3>1, SeqPush
    <3> QED  BY <1>1, <2>2, <3>2
  <2> QED  BY <2>1, <2>2
<1>7. Len(subscopes) = pos[n] /\ Top.nsub = 0
  BY <1>1, <1>2 DEF Ended
<1> HIDE DEF n
<1>8. Nested(n, scopes', bodies', subscopes', pos)
  <2>1. \A i \in 1..n : /\ Pushes(scopes'[i].role) = Pushes(scopes[i].role)
                        /\ scopes'[i].role = "case" => scopes[i].role = "case"
    BY <1>1, <1>3
  <2>2. \A k \in 1..pos[n] : /\ subscopes'[k] = subscopes[k]
                             /\ subscopes[k] # Mark(bodies'[n]).id
    BY <1>1, <1>4, <1>5, <1>6, <1>7
  <2>3. \A i \in 1..n - 1 : Mark(bodies'[i]) = Mark(bodies[i])
    BY <1>4
  <2>4. n \in Nat \ {0} /\ Nested(n, scopes, bodies, subscopes, pos)
    BY <1>1, <1>2
  <2> QED  BY ONLY <2>1, <2>2, <2>3, <2>4, NestedStay
<1>9. Ended(n, scopes', bodies', subscopes', pos)
  <2>1. scopes'[n].nsub = 0
    BY <1>1, <1>3, <1>7
  <2>2. Mark(bodies'[n]).op = s.op /\ Mark(bodies'[n]).id = count + 1
    BY <1>4
  <2>3. CASE Len(subscopes') = Len(subscopes)
    <3>1. ~Within(bodies'[n], subscopes')
      <4>1. subscopes' # <<>> => Len(subscopes') \in 1..Len(subscopes)
        <5>1. subscopes' \in Seq(Nat)
          <6>1. subscopes \in Seq(Nat) /\ count + 1 \in Nat
            BY <1>5 DEF Shape
          <6> QED  BY <6>1, AppendProperties
        <5> QED  BY <1>1, <2>3, <5>1
      <4> QED  BY <1>4, <1>5, <1>1, <1>6, <2>2, <4>1 DEF Within
    <3> QED  BY <1>1, <1>3, <1>7, <2>1, <2>3, <3>1 DEF Ended
  <2>4. CASE /\ Len(subscopes') = Len(subscopes) + 1 /\ s.op = "switch"
             /\ subscopes'[Len(subscopes) + 1] = count + 1
    <3>1. subscopes' # <<>>
      BY <1>1, <2>4
    <3>2. Within(bodies'[n], subscopes')
      BY <1>4, <2>2, <2>4, <3>1 DEF Within
    <3> QED  BY <1>3, <1>7, <2>4, <3>2 DEF Ended
  <2> QED  BY <1>6, <2>3, <2>4
<1>10. \A k \in 1..Len(subscopes') : subscopes'[k] <= count'
  <2>1. \A k \in 1..Len(subscopes') : k \in 1..Len(subscopes) \/ subscopes'[k] = count + 1
    BY <1>1, <1>6
  <2> QED  BY <1>1, <1>5, <1>6, <2>1
<1>11. \A i \in 1..Len(bodies') - 1 : bodies'[i] # <<>>
  BY <1>1, <1>4
<1> QED  BY <1>3, <1>4, <1>8, <1>9, <1>10, <1>11, NestAfter

LEMMA NestEndSwitch ==
    ASSUME IInv, Shape, Nest, phase = "sema", EndSwitch
    PROVE  Nest'
<1> DEFINE n == Depth
           l == EndSubScopesAt(Depth, Top)
<1>1. /\ n = Len(scopes) /\ n = Len(bodies) /\ n \in Nat \ {0} /\ n \in 1..Len(scopes)
      /\ Within(bodies[n], subscopes) /\ Len(subscopes) \in Nat
      /\ scopes \in Seq(Level) /\ Top = scopes[n] /\ Top \in Level
  BY NestStack, IInvStack DEF Stack, EndSwitch
<1>2. PICK pos : Nested(n, scopes, bodies, subscopes, pos) /\ Ended(n, scopes, bodies, subscopes, pos)
  BY DEF Nest
<1>3. l \in Level /\ l.role = Top.role /\ l.nsub = 0
  <2>1. l \in Level /\ l.role = Top.role
    BY <1>1, EndSubScopesAtOK
  <2> QED  BY <1>1, <2>1 DEF EndSubScopesAt, Level
<1>4. scopes' = [scopes EXCEPT ![n] = l] /\ subscopes' = Front(subscopes)
      /\ UNCHANGED <<bodies, count>>
  BY DEF EndSwitch
<1> HIDE DEF l
<1>5. /\ Len(scopes') = n
      /\ \A i \in 1..n : scopes'[i] = IF i = n THEN l ELSE scopes[i]
  <2> DEFINE t == [scopes EXCEPT ![n] = l]
  <2>1. /\ Len(t) = Len(scopes)
        /\ \A i \in 1..Len(scopes) : t[i] = IF i = n THEN l ELSE scopes[i]
    <3>1. scopes \in Seq(Level) /\ n \in 1..Len(scopes) /\ l \in Level
      BY <1>1, <1>3
    <3> HIDE DEF n
    <3> QED  BY <3>1, SeqReplace
  <2>2. scopes' = t
    BY <1>4
  <2> HIDE DEF t, n
  <2> QED  BY <1>1, <2>1, <2>2
<1>6. Len(subscopes) = pos[n] + 1 /\ pos[n] \in Nat
  BY <1>1, <1>2 DEF Ended, Nested
<1>7. /\ Len(subscopes') = pos[n] /\ \A k \in 1..pos[n] : subscopes'[k] = subscopes[k]
  <2>1. subscopes' = SubSeq(subscopes, 1, pos[n]) /\ pos[n] \in 0..Len(subscopes)
    BY <1>4, <1>6 DEF Front
  <2> QED  BY <2>1, SeqCut DEF Shape
<1>8. \A k \in 1..pos[n] : subscopes[k] # Mark(bodies[n]).id
  BY <1>1, <1>2 DEF Nested
<1> HIDE DEF n
<1>9. Nested(n, scopes', bodies', subscopes', pos)
  <2>1. \A i \in 1..n : /\ Pushes(scopes'[i].role) = Pushes(scopes[i].role)
                        /\ scopes'[i].role = "case" => scopes[i].role = "case"
    BY <1>1, <1>3, <1>5
  <2>2. \A i \in 1..n - 1 : Mark(bodies'[i]) = Mark(bodies[i])
    BY <1>4
  <2>3. \A k \in 1..pos[n] : /\ subscopes'[k] = subscopes[k]
                             /\ subscopes[k] # Mark(bodies'[n]).id
    BY <1>4, <1>7, <1>8
  <2> QED  BY <1>1, <1>2, <1>5, <2>1, <2>2, <2>3, NestedStay
<1>10. Ended(n, scopes', bodies', subscopes', pos)
  <2>1. ~Within(bodies'[n], subscopes')
    <3>1. subscopes' # <<>> => pos[n] \in 1..pos[n]
      <4>1. subscopes' \in Seq(Nat)
        BY <1>4, FrontOfSubscopes
      <4> QED  BY <1>6, <1>7, <4>1
    <3> QED  BY <1>1, <1>4, <1>7, <1>8, <3>1 DEF Within
  <2>2. scopes'[n].nsub = 0
    BY <1>1, <1>3, <1>5
  <2> QED  BY <1>5, <1>7, <2>1, <2>2 DEF Ended
<1>11. \A k \in 1..Len(subscopes') : subscopes'[k] <= count'
  <2>1. \A k \in 1..pos[n] : k \in 1..Len(subscopes)
    BY <1>6
  <2> QED  BY <1>4, <1>7, <2>1 DEF Nest
<1>12. /\ \A i \in 1..Len(bodies') : Body(bodies'[i])
       /\ \A i \in 1..Len(bodies') - 1 : bodies'[i] # <<>>
  BY <1>4 DEF Nest
<1> QED  BY <1>5, <1>9, <1>10, <1>11, <1>12, NestAfter

\* What an entry more for the statement just opened makes of subscopes
LEMMA SubscopesPush ==
    ASSUME IInv, Shape, Nest, CountOK, phase = "sema"
    PROVE  LET su == Append(subscopes, count + 1)
           IN /\ Len(su) = Len(subscopes) + 1 /\ Len(subscopes) \in Nat
              /\ \A k \in 1..Len(subscopes) : su[k] = subscopes[k]
              /\ su[Len(subscopes) + 1] = count + 1
              /\ \A k \in 1..Len(su) : su[k] \in Nat /\ su[k] <= count + 1
<1> DEFINE su == Append(subscopes, count + 1)
<1>1. subscopes \in Seq(Nat) /\ count \in Nat /\ count + 1 \in Nat
  BY DEF Shape, CountOK
<1>2. Len(subscopes) \in Nat /\ \A k \in 1..Len(subscopes) : subscopes[k] \in Nat
  BY <1>1
<1>3. /\ Len(su) = Len(subscopes) + 1
      /\ \A k \in 1..Len(subscopes) + 1 :
            su[k] = IF k = Len(subscopes) + 1 THEN count + 1 ELSE subscopes[k]
  BY <1>1, SeqPush
<1> HIDE DEF su
<1>4. \A k \in 1..Len(subscopes) : subscopes[k] <= count
  BY DEF Nest
<1>5. /\ \A k \in 1..Len(subscopes) : su[k] = subscopes[k]
      /\ su[Len(subscopes) + 1] = count + 1
  BY <1>2, <1>3
<1>6. ASSUME NEW k \in 1..Len(su)
      PROVE  su[k] \in Nat /\ su[k] <= count + 1
  <2>1. k \in 1..Len(subscopes) \/ k = Len(subscopes) + 1
    BY <1>2, <1>3
  <2> QED  BY <1>1, <1>2, <1>4, <1>5, <2>1
<1> QED  BY <1>2, <1>3, <1>5, <1>6 DEF su

\* The block of a level just opened
LEMMA EmptyBlock ==
    /\ Body(<<>>) /\ Mark(<<>>).id = -1
    /\ \A su : ~Within(<<>>, su)
<1>1. <<>> \in Seq({})
  OBVIOUS
<1>2. Body(<<>>)
  BY <1>1 DEF Body
<1>3. Mark(<<>>).id = -1 /\ Mark(<<>>).op # "switch"
  BY DEF Mark
<1> QED  BY <1>2, <1>3 DEF Within

LEMMA NestOpen ==
    ASSUME IInv, Shape, Nest, CountOK, phase = "sema", ~InSwitch,
           NEW s, IsStmt(s), s.id = count + 1, NEW p \in Level, p.role = Top.role,
           NEW role \in Roles \ {"case"}, NEW subs,
           subs = IF Pushes(role) = 1 THEN Append(subscopes, count + 1) ELSE subscopes,
           Open(s, p, role, subs)
    PROVE  Nest'
<1> DEFINE n == Depth
           l == NewLevel(role, s.id)
<1>1. /\ n = Len(scopes) /\ n \in Nat \ {0} /\ ~Within(bodies[n], subscopes)
      /\ Len(subscopes) \in Nat /\ Top = scopes[n] /\ count \in Nat
      /\ \A k \in 1..Len(subscopes) : subscopes[k] \in Nat
  BY NestStack, IInvStack DEF CountOK
<1>2. PICK pos : Nested(n, scopes, bodies, subscopes, pos) /\ Ended(n, scopes, bodies, subscopes, pos)
  BY DEF Nest
<1>3. l \in Level /\ l.role = role /\ l.nsub = 0
  <2>1. s.id \in Nat
    BY <1>1
  <2> QED  BY <2>1, NewLevelOK DEF NewLevel
<1>4. /\ scopes' = Append([scopes EXCEPT ![Depth] = p], l)
      /\ bodies' = Append(Emplace(s), <<>>) /\ count' = count + 1 /\ subscopes' = subs
  BY DEF Open
<1> HIDE DEF l, n
<1>5. /\ Len(scopes') = n + 1
      /\ \A i \in 1..n - 1 : scopes'[i] = scopes[i]
      /\ scopes'[n] = p /\ scopes'[n + 1] = l
  <2> DEFINE t == Append([scopes EXCEPT ![Depth] = p], l)
  <2>1. /\ Len(t) = n + 1
        /\ \A i \in 1..n - 1 : t[i] = scopes[i]
        /\ t[n] = p /\ t[n + 1] = l
    BY <1>3, LevelsPush DEF n
  <2>2. scopes' = t
    BY <1>4
  <2> HIDE DEF t
  <2> QED  BY <2>1, <2>2
<1>6. /\ Len(bodies') = n + 1
      /\ \A i \in 1..n - 1 : bodies'[i] = bodies[i]
      /\ Mark(bodies'[n]) = [op |-> s.op, id |-> count + 1]
      /\ bodies'[n + 1] = <<>>
      /\ \A i \in 1..n : Body(bodies'[i]) /\ bodies'[i] # <<>>
  <2> DEFINE e == Emplace(s)
  <2>1. /\ \E S : e \in Seq(S)
        /\ Len(e) = n
        /\ \A i \in 1..n - 1 : e[i] = bodies[i]
        /\ Mark(e[n]) = [op |-> s.op, id |-> count + 1]
        /\ \A i \in 1..n : Body(e[i]) /\ e[i] # <<>>
    BY EmplaceBlocks DEF n
  <2> HIDE DEF e
  <2>2. PICK S : e \in Seq(S)
    BY <2>1
  <2>3. e \in Seq(S \cup {<<>>}) /\ <<>> \in S \cup {<<>>}
    BY <2>2
  <2>4. /\ Len(Append(e, <<>>)) = n + 1
        /\ \A i \in 1..n + 1 : Append(e, <<>>)[i] = IF i = n + 1 THEN <<>> ELSE e[i]
    BY <2>1, <2>3, SeqPush
  <2>5. bodies' = Append(e, <<>>)
    BY <1>4 DEF e
  <2>6. \A i \in 1..n : i \in 1..n + 1 /\ i # n + 1
    BY <1>1
  <2>7. bodies'[n + 1] = <<>> /\ \A i \in 1..n : bodies'[i] = e[i]
    BY <1>1, <2>4, <2>5, <2>6
  <2>8. n \in 1..n /\ \A i \in 1..n - 1 : i \in 1..n
    BY <1>1
  <2> QED  BY <2>1, <2>4, <2>5, <2>7, <2>8
<1>7. Len(subscopes) = pos[n] /\ pos[n] \in Nat
  BY <1>1, <1>2 DEF Ended
<1>8. /\ Len(subscopes') = pos[n] + Pushes(role) /\ Pushes(role) \in {0, 1}
      /\ \A k \in 1..pos[n] : /\ subscopes'[k] = subscopes[k] /\ subscopes[k] \in Nat
                              /\ subscopes[k] <= count
      /\ \A k \in 1..Len(subscopes') : subscopes'[k] \in Nat /\ subscopes'[k] <= count + 1
  <2>1. \A k \in 1..Len(subscopes) : subscopes[k] <= count
    BY DEF Nest
  <2>2. Pushes(role) = 1 \/ Pushes(role) = 0
    BY DEF Pushes
  <2>3. CASE Pushes(role) = 1
    BY <1>1, <1>4, <1>7, <2>1, <2>3, SubscopesPush
  <2>4. CASE Pushes(role) = 0
    <3>1. subscopes' = subscopes
      BY <1>4, <2>4
    <3> QED  BY <1>1, <1>7, <2>1, <2>4, <3>1
  <2> QED  BY <2>2, <2>3, <2>4
<1> DEFINE pos2 == Append(pos, pos[n] + Pushes(scopes'[n + 1].role))
<1>9. Nested(n + 1, scopes', bodies', subscopes', pos2)
  <2>1. \A i \in 1..n : scopes'[i].role = scopes[i].role
    <3>1. \A i \in 1..n : i = n \/ i \in 1..n - 1
      BY <1>1
    <3> QED  BY <1>1, <1>5, <3>1
  <2>2. \A i \in 1..n - 1 : Mark(bodies'[i]) = Mark(bodies[i])
    BY <1>6
  <2>3. \A k \in 1..pos[n] : subscopes'[k] = subscopes[k] /\ subscopes[k] # Mark(bodies'[n]).id
    BY <1>1, <1>6, <1>8
  <2>4. \A k \in 1..pos[n] + Pushes(scopes'[n + 1].role) :
           subscopes'[k] # Mark(bodies'[n + 1]).id
    <3>1. Mark(bodies'[n + 1]).id = -1
      BY <1>6, EmptyBlock
    <3>2. scopes'[n + 1].role = role
      BY <1>3, <1>5
    <3> QED  BY <1>8, <3>1, <3>2
  <2>5. scopes'[n + 1].role # "case"
    BY <1>3, <1>5
  <2>6. n \in Nat \ {0} /\ Nested(n, scopes, bodies, subscopes, pos)
    BY <1>1, <1>2
  <2>7. Pushed(n, scopes, bodies, subscopes, pos, scopes', bodies', subscopes')
    BY ONLY <2>1, <2>2, <2>3, <2>4, <2>5 DEF Pushed
  <2> QED  BY <2>6, <2>7, NestedPush
<1>10. Ended(n + 1, scopes', bodies', subscopes', pos2)
  <2>1. ~Within(bodies'[n + 1], subscopes')
    BY <1>6, EmptyBlock
  <2>2. pos2[n + 1] = pos[n] + Pushes(role)
    <3>1. scopes'[n + 1].role = role
      BY <1>3, <1>5
    <3>2. pos \in Seq(Nat) /\ Len(pos) = n /\ pos[n] + Pushes(role) \in Nat
      BY <1>1, <1>2, <1>7, <1>8, NestedPos
    <3> QED  BY <1>1, <3>1, <3>2, SeqPush
  <2> HIDE DEF pos2
  <2> QED  BY <1>3, <1>5, <1>8, <2>1, <2>2 DEF Ended
<1> HIDE DEF pos2
<1>11. /\ \A i \in 1..Len(bodies') : Body(bodies'[i])
       /\ \A i \in 1..Len(bodies') - 1 : bodies'[i] # <<>>
       /\ \A k \in 1..Len(subscopes') : subscopes'[k] <= count'
  <2>1. \A i \in 1..n + 1 : i = n + 1 \/ i \in 1..n
    BY <1>1
  <2>2. (n + 1) - 1 = n
    BY <1>1
  <2> QED  BY <1>4, <1>6, <1>8, <2>1, <2>2, EmptyBlock
<1> QED  BY <1>5, <1>9, <1>10, <1>11, NestAfter

LEMMA NestBeginCase ==
    ASSUME IInv, Shape, Nest, phase = "sema", BeginCase
    PROVE  Nest'
<1> DEFINE n == Depth
           l == NewLevel("case", 0)
           p == AddSubScope(Top)
<1>1. /\ n = Len(scopes) /\ n = Len(bodies) /\ n \in Nat \ {0} /\ Within(bodies[n], subscopes)
      /\ Len(subscopes) \in Nat /\ Top = scopes[n]
      /\ \A k \in 1..Len(subscopes) : subscopes[k] \in Nat
  BY NestStack, IInvStack DEF BeginCase
<1>2. PICK pos : Nested(n, scopes, bodies, subscopes, pos) /\ Ended(n, scopes, bodies, subscopes, pos)
  BY DEF Nest
<1>3. l \in Level /\ l.role = "case" /\ p \in Level /\ p.role = Top.role
  BY IInvStack, NewLevelOK, AddSubScopeOK DEF Roles
<1>4. /\ scopes' = Append([scopes EXCEPT ![Depth] = p], l)
      /\ bodies' = Append(bodies, <<>>) /\ UNCHANGED <<subscopes, count>>
  BY DEF BeginCase
<1>5. l.nsub = 0
  BY DEF NewLevel
<1> HIDE DEF l, n, p
<1>6. /\ Len(scopes') = n + 1
      /\ \A i \in 1..n - 1 : scopes'[i] = scopes[i]
      /\ scopes'[n] = p /\ scopes'[n + 1] = l
  <2> DEFINE t == Append([scopes EXCEPT ![Depth] = p], l)
  <2>1. /\ Len(t) = Depth + 1
        /\ \A i \in 1..Depth - 1 : t[i] = scopes[i]
        /\ t[Depth] = p /\ t[Depth + 1] = l
    BY <1>3, LevelsPush
  <2>2. scopes' = t
    BY <1>4
  <2> HIDE DEF t
  <2> QED  BY <2>1, <2>2 DEF n
<1>7. /\ Len(bodies') = n + 1
      /\ \A i \in 1..n : bodies'[i] = bodies[i]
      /\ bodies'[n + 1] = <<>>
  <2>1. PICK S : bodies \in Seq(S)
    BY DEF Shape
  <2>2. bodies \in Seq(S \cup {<<>>}) /\ <<>> \in S \cup {<<>>}
    BY <2>1
  <2>3. /\ Len(bodies') = n + 1
        /\ \A i \in 1..n + 1 : bodies'[i] = IF i = n + 1 THEN <<>> ELSE bodies[i]
    BY <1>1, <1>4, <2>2, SeqPush
  <2>4. \A i \in 1..n : i \in 1..n + 1 /\ i # n + 1
    BY <1>1
  <2> QED  BY <1>1, <2>3, <2>4
<1>8. Len(subscopes) = pos[n] + 1 /\ pos[n] \in Nat
  <2>1. pos[n] \in Nat
    BY <1>1, <1>2, NestedPos
  <2> QED  BY <1>1, <1>2, <2>1 DEF Ended
<1> DEFINE pos2 == Append(pos, pos[n] + Pushes(scopes'[n + 1].role))
<1>9. Nested(n + 1, scopes', bodies', subscopes', pos2)
  <2>1. \A i \in 1..n : scopes'[i].role = scopes[i].role
    <3>1. \A i \in 1..n : i = n \/ i \in 1..n - 1
      BY <1>1
    <3> QED  BY <1>1, <1>3, <1>6, <3>1
  <2>2. \A i \in 1..n - 1 : Mark(bodies'[i]) = Mark(bodies[i])
    <3>1. \A i \in 1..n - 1 : i \in 1..n
      BY <1>1
    <3> QED  BY <1>7, <3>1
  <2>3. n \in 1..n /\ bodies'[n] = bodies[n]
    BY <1>1, <1>7
  <2>4. \A k \in 1..pos[n] : subscopes'[k] = subscopes[k] /\ subscopes[k] # Mark(bodies'[n]).id
    <3>1. \A k \in 1..pos[n] : subscopes[k] # Mark(bodies[n]).id
      BY <1>2, <2>3 DEF Nested
    <3> QED  BY <1>4, <2>3, <3>1
  <2>5. \A k \in 1..pos[n] + Pushes(scopes'[n + 1].role) :
           subscopes'[k] # Mark(bodies'[n + 1]).id
    <3>1. Mark(bodies'[n + 1]).id = -1
      BY <1>7, EmptyBlock
    <3>2. Pushes(scopes'[n + 1].role) = 1
      BY <1>3, <1>6 DEF Pushes
    <3>3. \A k \in 1..pos[n] + 1 : subscopes'[k] \in Nat
      BY <1>1, <1>4, <1>8
    <3> QED  BY <3>1, <3>2, <3>3
  <2>6. Mark(bodies'[n]).op = "switch" /\ Mark(bodies'[n]).id = subscopes'[pos[n] + 1]
    BY <1>1, <1>4, <1>8, <2>3 DEF Within
  <2>7. n \in Nat \ {0} /\ Nested(n, scopes, bodies, subscopes, pos)
    BY <1>1, <1>2
  <2>8. Pushed(n, scopes, bodies, subscopes, pos, scopes', bodies', subscopes')
    BY ONLY <2>1, <2>2, <2>4, <2>5, <2>6 DEF Pushed
  <2> QED  BY <2>7, <2>8, NestedPush
<1>10. Ended(n + 1, scopes', bodies', subscopes', pos2)
  <2>1. ~Within(bodies'[n + 1], subscopes')
    BY <1>7, EmptyBlock
  <2>2. pos2[n + 1] = pos[n] + 1
    <3>1. Pushes(scopes'[n + 1].role) = 1
      BY <1>3, <1>6 DEF Pushes
    <3>2. pos \in Seq(Nat) /\ Len(pos) = n /\ pos[n] + 1 \in Nat
      BY <1>1, <1>2, <1>8, NestedPos
    <3> QED  BY <1>1, <3>1, <3>2, SeqPush
  <2> HIDE DEF pos2
  <2> QED  BY <1>4, <1>5, <1>6, <1>8, <2>1, <2>2 DEF Ended
<1> HIDE DEF pos2
<1>11. /\ \A i \in 1..Len(bodies') : Body(bodies'[i])
       /\ \A i \in 1..Len(bodies') - 1 : bodies'[i] # <<>>
       /\ \A k \in 1..Len(subscopes') : subscopes'[k] <= count'
  <2>1. \A i \in 1..n + 1 : i = n + 1 \/ i \in 1..n
    BY <1>1
  <2>2. (n + 1) - 1 = n /\ \A i \in 1..n : i = n \/ i \in 1..n - 1
    BY <1>1
  <2>3. bodies[n] # <<>>
    BY <1>1, EmptyBlock
  <2>4. \A i \in 1..n : Body(bodies[i]) /\ bodies[i] # <<>>
    BY <1>1, <2>2, <2>3 DEF Nest
  <2>5. \A k \in 1..Len(subscopes) : subscopes[k] <= count
    BY DEF Nest
  <2> QED  BY <1>4, <1>7, <2>1, <2>2, <2>4, <2>5, EmptyBlock
<1> QED  BY <1>6, <1>9, <1>10, <1>11, NestAfter

\* The end of a level; that of a case leaves its switch in progress.
LEMMA NestClose ==
    ASSUME IInv, Shape, Nest, phase = "sema", Top.role # "func", ~InSwitch,
           NEW p \in Level, p.role = Parent.role, Top.role # "case" => p.nsub = 0,
           NEW subs, subs = IF Top.role # "case" /\ Pushes(Top.role) = 1
                            THEN Front(subscopes) ELSE subscopes,
           Close(p, subs)
    PROVE  Nest'
<1> DEFINE n == Depth - 1
<1>1. /\ n \in Nat \ {0} /\ Depth = n + 1 /\ Depth - 2 = n - 1 /\ Depth \in 1..n + 1
      /\ Top = scopes[Depth] /\ Parent = scopes[n]
      /\ ~Within(bodies[Depth], subscopes) /\ Len(subscopes) \in Nat
  BY AttachBlocks, NestStack, IInvStack, HasParent
<1>2. PICK pos : /\ Nested(Depth, scopes, bodies, subscopes, pos)
                 /\ Ended(Depth, scopes, bodies, subscopes, pos)
  BY DEF Nest
<1>3. /\ scopes' = Append(SubSeq(scopes, 1, Depth - 2), p)
      /\ bodies' = Attach /\ subscopes' = subs /\ count' = count
  BY DEF Close
<1>4. /\ Len(scopes') = n
      /\ \A i \in 1..n - 1 : scopes'[i] = scopes[i]
      /\ scopes'[n] = p
  <2> DEFINE t == Append(SubSeq(scopes, 1, Depth - 2), p)
  <2>1. /\ Len(t) = Depth - 1
        /\ \A i \in 1..Depth - 2 : t[i] = scopes[i]
        /\ t[Depth - 1] = p
    BY LevelsPop
  <2>2. scopes' = t
    BY <1>3
  <2> HIDE DEF t
  <2> QED  BY <1>1, <2>1, <2>2
<1>5. /\ Len(bodies') = n
      /\ \A i \in 1..n : /\ Mark(bodies'[i]) = Mark(bodies[i])
                         /\ Body(bodies'[i]) /\ bodies'[i] # <<>>
  BY <1>3, AttachBlocks
<1> HIDE DEF n
<1>6. /\ pos \in Seq(Nat) /\ Len(pos) = n + 1 /\ pos[n] \in Nat /\ pos[n + 1] \in Nat
      /\ pos[n + 1] = pos[n] + Pushes(Top.role)
      /\ \A i \in 1..n + 1 : \A k \in 1..pos[i] : subscopes[k] # Mark(bodies[i]).id
      /\ Top.role = "case" => /\ Mark(bodies[n]).op = "switch"
                              /\ Mark(bodies[n]).id = subscopes[pos[n + 1]]
  <2>1. Nested(n + 1, scopes, bodies, subscopes, pos) /\ n + 1 \in Nat \ {0}
    BY <1>1, <1>2
  <2>2. pos \in Seq(Nat) /\ Len(pos) = n + 1 /\ \A i \in 1..n + 1 : pos[i] \in Nat
    BY <2>1, NestedPos
  <2>3. n \in 1..(n + 1) - 1 /\ n \in 1..n + 1 /\ n + 1 \in 1..n + 1 /\ Top = scopes[n + 1]
    BY <1>1
  <2>4. pos[n + 1] = pos[n] + Pushes(Top.role)
    BY <2>1, <2>3 DEF Nested
  <2>5. \A i \in 1..n + 1 : \A k \in 1..pos[i] : subscopes[k] # Mark(bodies[i]).id
    BY <2>1 DEF Nested
  <2>6. Top.role = "case" => /\ Mark(bodies[n]).op = "switch"
                             /\ Mark(bodies[n]).id = subscopes[pos[n + 1]]
    BY <2>1, <2>3 DEF Nested
  <2> QED  BY <2>2, <2>3, <2>4, <2>5, <2>6
<1>7. Len(subscopes) = pos[n + 1]
  BY <1>1, <1>2 DEF Ended
<1>8. Pushes(Top.role) \in {0, 1} /\ (Top.role = "case" => Pushes(Top.role) = 1)
  BY DEF Pushes
<1>9. /\ Len(subscopes') = IF Top.role = "case" THEN pos[n] + 1 ELSE pos[n]
      /\ \A k \in 1..Len(subscopes') : /\ k \in 1..Len(subscopes)
                                       /\ subscopes'[k] = subscopes[k]
  <2>1. CASE Top.role # "case" /\ Pushes(Top.role) = 1
    <3>1. subscopes' = SubSeq(subscopes, 1, pos[n]) /\ pos[n] \in 0..Len(subscopes)
      BY <1>3, <1>6, <1>7, <2>1 DEF Front
    <3>2. /\ Len(subscopes') = pos[n]
          /\ \A k \in 1..pos[n] : subscopes'[k] = subscopes[k]
      BY <3>1, SeqCut DEF Shape
    <3> QED  BY <1>6, <1>7, <2>1, <3>2
  <2>2. CASE ~(Top.role # "case" /\ Pushes(Top.role) = 1)
    <3>1. subscopes' = subscopes
      BY <1>3, <2>2
    <3> QED  BY <1>6, <1>7, <1>8, <2>2, <3>1
  <2> QED  BY <2>1, <2>2
<1>10. pos[n] <= Len(subscopes') /\ \A k \in 1..pos[n] : k \in 1..Len(subscopes')
  BY <1>6, <1>9
<1> DEFINE pos2 == SubSeq(pos, 1, n)
<1>11. Nested(n, scopes', bodies', subscopes', pos2) /\ pos2[n] = pos[n]
  <2>1. \A i \in 1..n : scopes'[i].role = scopes[i].role
    <3>1. \A i \in 1..n : i = n \/ i \in 1..n - 1
      BY <1>1
    <3> QED  BY <1>1, <1>4, <3>1
  <2>2. \A k \in 1..pos[n] : subscopes'[k] = subscopes[k]
    BY <1>9, <1>10
  <2>3. Popped(n, scopes, bodies, subscopes, pos, scopes', bodies', subscopes')
    BY ONLY <1>5, <2>1, <2>2 DEF Popped
  <2>4. Nested(n + 1, scopes, bodies, subscopes, pos) /\ n \in Nat \ {0}
    BY <1>1, <1>2
  <2> QED  BY <2>3, <2>4, NestedPop
<1>12. Ended(n, scopes', bodies', subscopes', pos2)
  <2> HIDE DEF pos2
  <2>1. CASE Top.role = "case"
    <3>1. Len(subscopes') = pos[n] + 1 /\ pos[n] + 1 = pos[n + 1]
      BY <1>6, <1>8, <1>9, <2>1
    <3>2. Within(bodies'[n], subscopes')
      <4>1. n \in 1..n /\ Mark(bodies'[n]) = Mark(bodies[n])
        BY <1>1, <1>5
      <4>2. subscopes'[Len(subscopes')] = subscopes[pos[n + 1]] /\ subscopes' # <<>>
        BY <1>6, <1>9, <3>1
      <4> QED  BY <1>6, <2>1, <3>1, <4>1, <4>2 DEF Within
    <3> QED  BY <1>11, <3>1, <3>2 DEF Ended
  <2>2. CASE Top.role # "case"
    <3>1. Len(subscopes') = pos[n] /\ scopes'[n].nsub = 0
      BY <1>4, <1>9, <2>2
    <3>2. ~Within(bodies'[n], subscopes')
      <4>1. n \in 1..n + 1 /\ n \in 1..n /\ Mark(bodies'[n]) = Mark(bodies[n])
        BY <1>1, <1>5
      <4>2. \A k \in 1..pos[n] : subscopes'[k] # Mark(bodies'[n]).id
        BY <1>6, <1>9, <3>1, <4>1
      <4>3. subscopes' # <<>> => Len(subscopes') \in 1..pos[n]
        <5>1. subscopes' \in Seq(Nat)
          BY <1>3, FrontOfSubscopes DEF Shape
        <5> QED  BY <1>6, <3>1, <5>1
      <4> QED  BY <4>2, <4>3 DEF Within
    <3> QED  BY <1>11, <3>1, <3>2 DEF Ended
  <2> QED  BY <2>1, <2>2
<1> HIDE DEF pos2
<1>13. /\ \A i \in 1..Len(bodies') : Body(bodies'[i])
       /\ \A i \in 1..Len(bodies') - 1 : bodies'[i] # <<>>
       /\ \A k \in 1..Len(subscopes') : subscopes'[k] <= count'
  <2>1. \A k \in 1..Len(subscopes) : subscopes[k] <= count
    BY DEF Nest
  <2>2. \A i \in 1..n - 1 : i \in 1..n
    BY <1>1
  <2> QED  BY <1>3, <1>5, <1>9, <2>1, <2>2
<1> QED  BY <1>4, <1>11, <1>12, <1>13, NestAfter

\* The next block of an if or a for
LEMMA NestReopen ==
    ASSUME IInv, Shape, Nest, phase = "sema", ~InSwitch, Top.role \in {"then", "for"},
           NEW role \in {"else", "forElse"}, Reopen(role), CountAsserted(Parent, Top)
    PROVE  Nest'
<1> DEFINE n == Depth
           a == AddSubScope(ParentAfter)
           l == NewLevel(role, Top.id)
<1>1. /\ n \in Nat \ {0} /\ n - 1 \in Nat \ {0} /\ (n - 1) + 1 = n
      /\ Top = scopes[n] /\ Parent = scopes[n - 1] /\ Depth - 2 = (n - 1) - 1
      /\ ~Within(bodies[n], subscopes) /\ Top.role # "func"
      /\ Len(subscopes) \in Nat /\ \A k \in 1..Len(subscopes) : subscopes[k] \in Nat
  BY AttachBlocks, NestStack, IInvStack, HasParent
<1>2. PICK pos : /\ Nested(n, scopes, bodies, subscopes, pos)
                 /\ Ended(n, scopes, bodies, subscopes, pos)
  BY DEF Nest
<1>3. a \in Level /\ l \in Level /\ a.role = Parent.role /\ l.role = role /\ l.nsub = 0
  <2>1. Top.id \in Nat /\ role \in Roles
    BY IInvStack, LevelFields DEF Roles
  <2>2. a \in Level /\ a.role = Parent.role
    BY <1>1, ParentCounted
  <2> QED  BY <2>1, <2>2, NewLevelOK DEF NewLevel
<1> HIDE DEF a, l
<1>4. /\ scopes' = Append(Append(SubSeq(scopes, 1, Depth - 2), a), l)
      /\ bodies' = Append(Attach, <<>>) /\ UNCHANGED <<subscopes, count>>
  BY DEF Reopen, a, l
<1>5. /\ Len(scopes') = n
      /\ \A i \in 1..(n - 1) - 1 : scopes'[i] = scopes[i]
      /\ scopes'[n - 1] = a /\ scopes'[n] = l
  <2> DEFINE t == Append(Append(SubSeq(scopes, 1, Depth - 2), a), l)
  <2>1. /\ Len(t) = Depth
        /\ \A i \in 1..Depth - 2 : t[i] = scopes[i]
        /\ t[Depth - 1] = a /\ t[Depth] = l
    BY <1>1, <1>3, LevelsReopen
  <2>2. scopes' = t
    BY <1>4
  <2> HIDE DEF t
  <2> QED  BY <1>1, <2>1, <2>2
<1> HIDE DEF n
<1>6. /\ Len(bodies') = n
      /\ \A i \in 1..n - 1 : /\ Mark(bodies'[i]) = Mark(bodies[i])
                             /\ Body(bodies'[i]) /\ bodies'[i] # <<>>
      /\ bodies'[n] = <<>>
  <2> DEFINE e == Attach
  <2>1. /\ \E S : e \in Seq(S)
        /\ Len(e) = n - 1
        /\ \A i \in 1..n - 1 : /\ Mark(e[i]) = Mark(bodies[i])
                               /\ Body(e[i]) /\ e[i] # <<>>
    BY <1>1, AttachBlocks DEF n
  <2> HIDE DEF e
  <2>2. PICK S : e \in Seq(S)
    BY <2>1
  <2>3. e \in Seq(S \cup {<<>>}) /\ <<>> \in S \cup {<<>>}
    BY <2>2
  <2>4. /\ Len(Append(e, <<>>)) = (n - 1) + 1
        /\ \A i \in 1..(n - 1) + 1 :
              Append(e, <<>>)[i] = IF i = (n - 1) + 1 THEN <<>> ELSE e[i]
    BY <2>1, <2>3, SeqPush
  <2>5. bodies' = Append(e, <<>>)
    BY <1>4 DEF e
  <2>6. n \in 1..n /\ \A i \in 1..n - 1 : i \in 1..n /\ i # n
    BY <1>1
  <2>7. bodies'[n] = <<>> /\ \A i \in 1..n - 1 : bodies'[i] = e[i]
    BY <1>1, <2>4, <2>5, <2>6
  <2> QED  BY <1>1, <2>1, <2>4, <2>5, <2>7
<1>7. Len(subscopes) = pos[n] /\ pos[n] \in Nat
  <2>1. pos[n] \in Nat
    BY <1>1, <1>2, NestedPos
  <2> QED  BY <1>1, <1>2, <2>1 DEF Ended
<1>8. Nested(n, scopes', bodies', subscopes', pos)
  <2>1. ASSUME NEW i \in 1..n
        PROVE  /\ Pushes(scopes'[i].role) = Pushes(scopes[i].role)
               /\ scopes'[i].role = "case" => scopes[i].role = "case"
    <3>1. CASE i = n
      <4>1. Pushes(scopes[n].role) = 1 /\ Pushes(role) = 1
        BY <1>1 DEF Pushes
      <4> QED  BY <1>3, <1>5, <3>1, <4>1
    <3>2. CASE i # n
      <4>1. i = n - 1 \/ i \in 1..(n - 1) - 1
        BY <1>1, <3>2
      <4> QED  BY <1>1, <1>3, <1>5, <4>1
    <3> QED  BY <3>1, <3>2
  <2>2. \A i \in 1..n - 1 : Mark(bodies'[i]) = Mark(bodies[i])
    BY <1>6
  <2>3. \A k \in 1..pos[n] : subscopes'[k] = subscopes[k] /\ subscopes[k] # Mark(bodies'[n]).id
    BY <1>1, <1>4, <1>6, <1>7, EmptyBlock
  <2>4. n \in Nat \ {0} /\ Nested(n, scopes, bodies, subscopes, pos)
    BY <1>1, <1>2
  <2> QED  BY ONLY <2>1, <2>2, <2>3, <2>4, NestedStay
<1>9. Ended(n, scopes', bodies', subscopes', pos)
  BY <1>3, <1>4, <1>5, <1>6, <1>7, EmptyBlock DEF Ended
<1>10. /\ \A i \in 1..Len(bodies') : Body(bodies'[i])
       /\ \A i \in 1..Len(bodies') - 1 : bodies'[i] # <<>>
       /\ \A k \in 1..Len(subscopes') : subscopes'[k] <= count'
  <2>1. \A k \in 1..Len(subscopes) : subscopes[k] <= count
    BY DEF Nest
  <2>2. \A i \in 1..n : i = n \/ i \in 1..n - 1
    BY <1>1
  <2> QED  BY <1>4, <1>6, <2>1, <2>2, EmptyBlock
<1> QED  BY <1>5, <1>8, <1>9, <1>10, NestAfter

LEMMA EndSubScopesAtNone ==
    ASSUME NEW n, NEW l \in Level
    PROVE  EndSubScopesAt(n, l).nsub = 0 /\ EndSubScopesAt(n, l).nterm = 0
BY DEF EndSubScopesAt, Level

LEMMA NestKeeps ==
    ASSUME IInv, CountOK, Shape, Nest, Instruction
    PROVE  Nest'
<1> USE DEF CanAdd, CanOpen, CanClose
<1>1. phase = "sema"
  BY DEF Instruction, Call, Var, LocalVar, Return, Error, Unreachable, Break, Continue,
     LabeledReturn, BeginCond, CondNoElse, CondElse, EndCond, BeginWhile, EndWhile,
     BeginFor, EndFor, EndForHasElse, EndForElse, BeginSwitch, BeginCase, EndCase,
     EndSwitch, TryElseBegin, TryElseEnd, BeginDefer, EndDefer, BeginStmtBlock,
     EndStmtBlock, BeginExprBlock, EndExprBlock, ScopeIsTerminated,
     RejectTerminated, FuncDef
<1>2. /\ Top \in Level /\ Counted(Top)
      /\ AddSubScope(Top) \in Level /\ AddSubScope(Top).role = Top.role
      /\ AddSubScope(AddSubScope(Top)) \in Level
      /\ AddSubScope(AddSubScope(Top)).role = Top.role
  <2>1. Top \in Level /\ Counted(Top)
    BY <1>1, IInvStack
  <2> DEFINE a == AddSubScope(Top)
  <2>2. a \in Level /\ Counted(a) /\ a.role = Top.role
    BY <2>1, AddSubScopeOK
  <2>3. AddSubScope(a) \in Level /\ AddSubScope(a).role = Top.role
    <3> HIDE DEF a
    <3> QED  BY <2>2, AddSubScopeOK
  <2> QED  BY <2>1, <2>2, <2>3
<1>3. \A kind \in TerminatedKinds :
          /\ SetTerminated(Top, kind) \in Level
          /\ SetTerminated(Top, kind).role = Top.role
          /\ SetTerminated(Top, kind).nsub = Top.nsub
  BY <1>2, SetTerminatedOK DEF SetTerminated, Level
<1>4. \A op, form, to : /\ IsStmt(Stmt(op, form, to))
                        /\ Stmt(op, form, to).id = count + 1
                        /\ Stmt(op, form, to).op = op
  BY DEF Stmt, IsStmt
<1>5. ASSUME Top.role # "func"
      PROVE  /\ ParentAfter \in Level /\ ParentAfter.role = Parent.role
             /\ LET p == EndSubScopes(ParentAfter)
                IN p \in Level /\ p.role = Parent.role /\ p.nsub = 0
             /\ LET p == EndSubScopes(AddSubScope(ParentAfter))
                IN p \in Level /\ p.role = Parent.role /\ p.nsub = 0
  <2>1. /\ ParentAfter \in Level /\ ParentAfter.role = Parent.role
        /\ AddSubScope(ParentAfter) \in Level
        /\ EndSubScopes(ParentAfter) \in Level
        /\ EndSubScopes(ParentAfter).role = Parent.role
        /\ EndSubScopes(AddSubScope(ParentAfter)) \in Level
        /\ EndSubScopes(AddSubScope(ParentAfter)).role = Parent.role
    BY <1>1, <1>5, ParentCounted
  <2>2. \A l \in Level : EndSubScopes(l).nsub = 0
    BY EndSubScopesAtNone DEF EndSubScopes
  <2> QED  BY <2>1, <2>2
<1>6. ASSUME phase' # "sema" PROVE Nest'
  BY <1>6 DEF Nest
<1>7. \A how : how # "sema" /\ Stop(how) => Nest'
  BY <1>6 DEF Stop
<1>8. ASSUME ~InSwitch, NEW op, NEW form, NEW to, NEW l \in Level, l.role = Top.role,
             l.nsub = Top.nsub, Add(Stmt(op, form, to), l)
      PROVE  Nest'
  <2> DEFINE s == Stmt(op, form, to)
  <2>1. IsStmt(s) /\ s.id = count + 1
    BY <1>4
  <2>2. /\ scopes' = [scopes EXCEPT ![Depth] = l] /\ bodies' = Emplace(s)
        /\ count' = count + 1 /\ subscopes' = subscopes
    BY <1>8 DEF Add
  <2> HIDE DEF s
  <2> QED  BY <1>1, <1>8, <2>1, <2>2, NestAppend

\* The statements that do not open a level
<1>10. CASE Call \/ Var \/ Unreachable \/ LabeledReturn
  BY <1>2, <1>3, <1>8, <1>10 DEF Call, Var, LocalVar, Unreachable, LabeledReturn,
     TerminatedKinds
<1>11. CASE Return \/ Error
  BY <1>3, <1>7, <1>8, <1>11 DEF Return, Error, TerminatedKinds
<1>12. CASE Break \/ Continue
  BY <1>3, <1>7, <1>8, <1>12 DEF Break, Continue, LoopJump, TerminatedKinds
<1>13. CASE BeginSwitch
  <2>1. PICK form : bodies' = Emplace(Stmt("switch", form, 0))
    BY <1>13 DEF BeginSwitch
  <2> DEFINE s == Stmt("switch", form, 0)
  <2>2. IsStmt(s) /\ s.id = count + 1 /\ s.op = "switch"
    BY <1>4
  <2>3. /\ bodies' = Emplace(s) /\ subscopes' = Append(subscopes, count + 1)
        /\ count' = count + 1 /\ scopes' = scopes /\ ~InSwitch
    BY <1>13, <2>1 DEF BeginSwitch
  <2>4. scopes = [scopes EXCEPT ![Depth] = Top]
    <3>1. scopes \in Seq(Level)
      BY DEF IInv, LevelsOK
    <3> QED  BY <3>1 DEF Top
  <2> HIDE DEF s
  <2> QED  BY <1>1, <1>2, <2>2, <2>3, <2>4, NestAppend
<1>14. CASE EndSwitch
  BY <1>1, <1>14, NestEndSwitch
<1>15. CASE ScopeIsTerminated
  BY <1>7, <1>15 DEF ScopeIsTerminated, RejectTerminated
<1>16. CASE FuncDef
  <2>1. Stop("rejected") \/ phase' = "analyzed"
    BY <1>16 DEF FuncDef
  <2> QED  BY <1>6, <1>7, <2>1

\* The statements that open a level
<1>20. CASE \/ BeginCond \/ BeginWhile \/ BeginFor \/ TryElseBegin
            \/ BeginDefer \/ BeginStmtBlock \/ BeginExprBlock
  <2>1. ASSUME ~InSwitch, NEW op, NEW form, NEW p \in Level, p.role = Top.role,
               NEW role \in Roles \ {"case"}, NEW subs,
               subs = IF Pushes(role) = 1 THEN Append(subscopes, count + 1) ELSE subscopes,
               Open(Stmt(op, form, 0), p, role, subs)
        PROVE  Nest'
    <3> DEFINE s == Stmt(op, form, 0)
    <3>1. IsStmt(s) /\ s.id = count + 1 /\ Open(s, p, role, subs)
      BY <1>4, <2>1
    <3>2. IInv /\ Shape /\ Nest /\ CountOK /\ phase = "sema" /\ ~InSwitch
      BY <1>1, <2>1
    <3>3. /\ p \in Level /\ p.role = Top.role /\ role \in Roles \ {"case"}
          /\ subs = IF Pushes(role) = 1 THEN Append(subscopes, count + 1) ELSE subscopes
      BY <2>1
    <3> HIDE DEF s
    <3> QED  BY ONLY <3>1, <3>2, <3>3, NestOpen
  <2>2. {"then", "while", "for", "tryElse", "defer", "block", "blockExpr"}
           \subseteq Roles \ {"case"}
    BY DEF Roles, LoopRoles
  <2>3. /\ \A role \in {"then", "for"} : Pushes(role) = 1
        /\ \A role \in {"while", "tryElse", "defer", "block", "blockExpr"} : Pushes(role) = 0
    BY DEF Pushes
  <2>a. ASSUME ~InSwitch, NEW op, NEW form, NEW p \in Level, p.role = Top.role,
               NEW role \in {"while", "tryElse", "defer", "block", "blockExpr"},
               Open(Stmt(op, form, 0), p, role, subscopes)
        PROVE  Nest'
    <3>1. role \in Roles \ {"case"} /\ Pushes(role) # 1
      BY <2>2, <2>3
    <3> QED  BY <2>1, <2>a, <3>1
  <2>4. CASE BeginCond \/ BeginFor
    BY <1>2, <2>1, <2>2, <2>3, <2>4 DEF BeginCond, BeginFor
  <2>5. CASE BeginWhile
    <3>1. ~InSwitch /\ Open(Stmt("while", "", 0), AddSubScope(Top), "while", subscopes)
      BY <2>5 DEF BeginWhile
    <3> QED  BY <1>2, <2>a, <3>1
  <2>6. CASE TryElseBegin
    <3>1. ~InSwitch /\ Open(Stmt("tryElse", "", 0), AddSubScope(AddSubScope(Top)),
                            "tryElse", subscopes)
      BY <2>6 DEF TryElseBegin
    <3> QED  BY <1>2, <2>a, <3>1
  <2>7. CASE BeginDefer
    <3>1. ~InSwitch /\ \E form \in {"plain", "error"} :
              Open(Stmt("defer", form, 0), AddSubScope(Top), "defer", subscopes)
      BY <2>7 DEF BeginDefer
    <3> QED  BY <1>2, <2>a, <3>1
  <2>8. CASE BeginStmtBlock
    <3>1. ~InSwitch /\ Open(Stmt("block", "", 0), AddSubScope(Top), "block", subscopes)
      BY <2>8 DEF BeginStmtBlock
    <3> QED  BY <1>2, <2>a, <3>1
  <2>9. CASE BeginExprBlock
    <3>1. ~InSwitch /\ Open(Stmt("blockExpr", "", 0), AddSubScope(AddSubScope(Top)),
                            "blockExpr", subscopes)
      BY <2>9 DEF BeginExprBlock
    <3> QED  BY <1>2, <2>a, <3>1
  <2> QED  BY <1>20, <2>4, <2>5, <2>6, <2>7, <2>8, <2>9
<1>21. CASE BeginCase
  BY <1>1, <1>21, NestBeginCase

\* The statements that close one
<1>30. CASE CondElse \/ EndForHasElse
  <2>1. CASE CountAsserted(Parent, Top)
    <3>1. CASE CondElse
      BY <1>1, <2>1, <3>1, NestReopen DEF CondElse
    <3>2. CASE EndForHasElse
      BY <1>1, <2>1, <3>2, NestReopen DEF EndForHasElse
    <3> QED  BY <1>30, <3>1, <3>2
  <2>2. CASE ~CountAsserted(Parent, Top)
    <3>1. Stop("crashed")
      BY <1>30, <2>2 DEF CondElse, EndForHasElse, Reopen
    <3> QED  BY <1>7, <3>1
  <2> QED  BY <2>1, <2>2
<1>31. ASSUME ~InSwitch, Top.role # "func", Top.role # "case",
              NEW p \in Level, p.role = Parent.role, p.nsub = 0, NEW subs,
              subs = IF Pushes(Top.role) = 1 THEN Front(subscopes) ELSE subscopes,
              CloseWith(p, subs)
       PROVE  Nest'
  <2>1. Close(p, subs) \/ Stop("crashed")
    BY <1>31 DEF CloseWith
  <2>2. CASE Close(p, subs)
    BY <1>1, <1>31, <2>2, NestClose
  <2> QED  BY <1>7, <2>1, <2>2
<1>32. CASE CondNoElse
  <2>1. ~InSwitch /\ Top.role = "then"
        /\ CloseWith(EndSubScopes(AddSubScope(ParentAfter)), Front(subscopes))
    BY <1>32 DEF CondNoElse
  <2> QED  BY <1>5, <1>31, <2>1 DEF Pushes
<1>33. CASE EndCond \/ EndFor \/ EndForElse
  <2>1. ~InSwitch /\ Top.role \in {"else", "for", "forElse"}
        /\ CloseWith(EndSubScopes(ParentAfter), Front(subscopes))
    BY <1>33 DEF EndCond, EndFor, EndForElse
  <2> QED  BY <1>5, <1>31, <2>1 DEF Pushes
<1>34. CASE EndWhile \/ TryElseEnd \/ EndDefer \/ EndStmtBlock
  <2>1. ~InSwitch /\ Top.role \in {"while", "tryElse", "defer", "block"}
        /\ CloseWith(EndSubScopes(ParentAfter), subscopes)
    BY <1>34 DEF EndWhile, TryElseEnd, EndDefer, EndStmtBlock
  <2> QED  BY <1>5, <1>31, <2>1 DEF Pushes
<1>35. CASE EndCase
  <2>1. ~InSwitch /\ Top.role = "case" /\ CloseWith(ParentAfter, subscopes)
    BY <1>35 DEF EndCase
  <2>2. Close(ParentAfter, subscopes) \/ Stop("crashed")
    BY <2>1 DEF CloseWith
  <2>3. CASE Close(ParentAfter, subscopes)
    BY <1>1, <1>5, <2>1, <2>3, NestClose
  <2> QED  BY <1>7, <2>2, <2>3
<1>36. CASE EndExprBlock
  <2> DEFINE p == EndSubScopes(CountClosedLabel(Parent, Top))
  <2>1. ~InSwitch /\ Top.role = "blockExpr" /\ (Stop("rejected") \/ Close(p, subscopes))
    BY <1>36 DEF EndExprBlock
  <2>2. CountClosedLabel(Parent, Top) \in Level
        /\ CountClosedLabel(Parent, Top).role = Parent.role
    BY <1>1, <1>2, <2>1, HasParent, CountClosedLabelOK
  <2>3. p \in Level /\ p.role = Parent.role /\ p.nsub = 0
    BY <2>2, EndSubScopesAtOK, EndSubScopesAtNone DEF EndSubScopes
  <2> HIDE DEF p
  <2>4. CASE Close(p, subscopes)
    BY <1>1, <2>1, <2>3, <2>4, NestClose DEF Pushes
  <2> QED  BY <1>7, <2>1, <2>4
<1> QED
  BY <1>10, <1>11, <1>12, <1>13, <1>14, <1>15, <1>16, <1>20, <1>21, <1>30, <1>32, <1>33,
     <1>34, <1>35, <1>36 DEF Instruction

-----------------------------------------------------------------------------
(* The counts in the value states *)

InfoOK(f) ==
    /\ {"decl", "state", "pending", "num", "index"} \subseteq DOMAIN f
    /\ f.decl \in BOOLEAN /\ f.state \in States /\ f.pending \in States \cup {"none"}
    /\ f.num \in Nat
    /\ f.decl /\ f.pending = "none" => f.num = 0

InfosOK(m) == \A v \in DOMAIN m : InfoOK(m[v])

\* The infos m count at most the sub-scopes of l that have reached their
\* end, k of them being open.
Fits(m, l, k) == \A v \in DOMAIN m : m[v].num + k <= l.nsub - l.nterm

Idle(m) == \A v \in DOMAIN m : m[v].num = 0

ValsOK(n, sc, va) ==
    /\ (\E S : va \in Seq(S)) /\ Len(va) = n
    /\ \A i \in 1..n : InfosOK(va[i])
    /\ \A i \in 1..n - 1 : Fits(va[i], sc[i], 1)
    /\ Fits(va[n], sc[n], 0)
    /\ \A i \in 1..n - 1 : sc[i + 1].role = "blockExpr" => Idle(va[i])

Vals == IF phase = "sema" THEN ValsOK(Depth, scopes, values) ELSE values = <<>>

LEMMA NoInfos == InfosOK(<<>>) /\ Idle(<<>>) /\ \A l, k : Fits(<<>>, l, k)
BY DEF InfosOK, Idle, Fits

LEMMA IdleFits ==
    ASSUME NEW m, Idle(m), NEW l \in Level, Counted(l)
    PROVE  Fits(m, l, 0)
<1>1. l.nsub \in Nat /\ l.nterm \in Nat /\ l.nterm <= l.nsub
  BY LevelFields DEF Counted
<1> QED  BY <1>1 DEF Idle, Fits

LEMMA ValsStay ==
    ASSUME NEW n \in Nat \ {0}, NEW sc, NEW va, ValsOK(n, sc, va), NEW sc2, NEW va2,
           \A i \in 1..n - 1 : sc2[i] = sc[i] /\ va2[i] = va[i],
           sc2[n].role = sc[n].role, InfosOK(va2[n]), Fits(va2[n], sc2[n], 0),
           NEW S, va2 \in Seq(S), Len(va2) = n
    PROVE  ValsOK(n, sc2, va2)
<1>1. \A i \in 1..n : i = n \/ i \in 1..n - 1
  OBVIOUS
<1>2. \A i \in 1..n : InfosOK(va2[i])
  BY <1>1 DEF ValsOK
<1>3. \A i \in 1..n - 1 : Fits(va2[i], sc2[i], 1)
  BY DEF ValsOK
<1>4. \A i \in 1..n - 1 : i + 1 \in 1..n /\ sc2[i + 1].role = sc[i + 1].role
  <2>1. \A i \in 1..n - 1 : i + 1 \in 1..n
    OBVIOUS
  <2> QED  BY <1>1, <2>1
<1>5. \A i \in 1..n - 1 : sc2[i + 1].role = "blockExpr" => Idle(va2[i])
  BY <1>4 DEF ValsOK
<1> QED  BY <1>2, <1>3, <1>5 DEF ValsOK

LEMMA ValsPush ==
    ASSUME NEW n \in Nat \ {0}, NEW sc, NEW va, ValsOK(n, sc, va), NEW sc2, NEW va2,
           \A i \in 1..n - 1 : sc2[i] = sc[i], \A i \in 1..n : va2[i] = va[i],
           sc2[n].role = sc[n].role, Fits(va[n], sc2[n], 1), va2[n + 1] = <<>>,
           sc2[n + 1].role = "blockExpr" => Idle(va[n]),
           NEW S, va2 \in Seq(S), Len(va2) = n + 1
    PROVE  ValsOK(n + 1, sc2, va2)
<1>1. /\ (n + 1) - 1 = n /\ n \in 1..n
      /\ \A i \in 1..n + 1 : i = n + 1 \/ i \in 1..n
      /\ \A i \in 1..n : i = n \/ i \in 1..n - 1
  OBVIOUS
<1>2. \A i \in 1..n + 1 : InfosOK(va2[i])
  BY <1>1, NoInfos DEF ValsOK
<1>3. \A i \in 1..n : Fits(va2[i], sc2[i], 1)
  BY <1>1 DEF ValsOK
<1>4. ASSUME NEW i \in 1..n, sc2[i + 1].role = "blockExpr"
      PROVE  Idle(va2[i])
  <2>1. CASE i = n
    BY <1>1, <1>4, <2>1
  <2>2. CASE i # n
    <3>1. i \in 1..n - 1 /\ i + 1 \in 1..n
      BY <2>2
    <3>2. sc2[i + 1].role = sc[i + 1].role
      BY <1>1, <3>1
    <3> QED  BY <1>4, <3>1, <3>2 DEF ValsOK
  <2> QED  BY <2>1, <2>2
<1>5. Fits(va2[n + 1], sc2[n + 1], 0)
  BY NoInfos
<1> QED  BY <1>1, <1>2, <1>3, <1>4, <1>5 DEF ValsOK

LEMMA ValsPop ==
    ASSUME NEW n \in Nat \ {0}, NEW sc, NEW va, ValsOK(n + 1, sc, va), NEW sc2, NEW va2,
           \A i \in 1..n - 1 : sc2[i] = sc[i] /\ va2[i] = va[i],
           sc2[n].role = sc[n].role, InfosOK(va2[n]), Fits(va2[n], sc2[n], 0),
           NEW S, va2 \in Seq(S), Len(va2) = n
    PROVE  ValsOK(n, sc2, va2)
<1>1. /\ \A i \in 1..n : i = n \/ i \in 1..n - 1
      /\ \A i \in 1..n - 1 : i + 1 \in 1..n /\ i \in 1..n + 1 /\ i \in 1..(n + 1) - 1
  OBVIOUS
<1>2. \A i \in 1..n : InfosOK(va2[i])
  BY <1>1 DEF ValsOK
<1>3. \A i \in 1..n - 1 : Fits(va2[i], sc2[i], 1)
  BY <1>1 DEF ValsOK
<1>4. \A i \in 1..n - 1 : sc2[i + 1].role = sc[i + 1].role
  BY <1>1
<1>5. \A i \in 1..n - 1 : sc2[i + 1].role = "blockExpr" => Idle(va2[i])
  BY <1>1, <1>4 DEF ValsOK
<1> QED  BY <1>2, <1>3, <1>5 DEF ValsOK

-----------------------------------------------------------------------------
(* What the operators on infos make of them *)

LEMMA SetStateOK ==
    ASSUME NEW m, InfosOK(m), NEW v, NEW state \in States, NEW l \in Level, Counted(l),
           Fits(m, l, 0)
    PROVE  InfosOK(SetState(m, v, state)) /\ Fits(SetState(m, v, state), l, 0)
<1> DEFINE r == SetState(m, v, state)
<1>1. l.nsub \in Nat /\ l.nterm \in Nat /\ l.nterm <= l.nsub
  BY LevelFields DEF Counted
<1>2. DOMAIN r = DOMAIN m \cup {v}
  BY DEF SetState
<1>3. ASSUME NEW u \in DOMAIN r
      PROVE  InfoOK(r[u]) /\ ((u \in DOMAIN m /\ r[u].num = m[u].num) \/ r[u].num = 0)
  <2>1. CASE u # v
    <3>1. u \in DOMAIN m /\ r[u] = m[u]
      BY <1>2, <1>3, <2>1 DEF SetState
    <3> QED  BY <3>1 DEF InfosOK
  <2>2. CASE u = v /\ v \in DOMAIN m
    <3>1. r[u] = [m[u] EXCEPT !.state = state]
      BY <2>2 DEF SetState
    <3>2. InfoOK(m[u])
      BY <2>2 DEF InfosOK
    <3> HIDE DEF r
    <3> QED  BY <2>2, <3>1, <3>2 DEF InfoOK
  <2>3. CASE u = v /\ v \notin DOMAIN m
    <3>1. r[u] = ModifyInfo(m, state, 0)
      BY <2>3 DEF SetState
    <3> HIDE DEF r
    <3> QED  BY <3>1 DEF InfoOK, ModifyInfo
  <2> QED  BY <2>1, <2>2, <2>3
<1> HIDE DEF r
<1>4. InfosOK(r)
  BY <1>3 DEF InfosOK
<1>5. Fits(r, l, 0)
  BY <1>1, <1>3 DEF Fits
<1> QED  BY <1>4, <1>5 DEF r

LEMMA DeclaredOK ==
    ASSUME NEW m, InfosOK(m), NEW v, NEW state \in States, NEW l \in Level, Counted(l),
           Fits(m, l, 0)
    PROVE  InfosOK(Declared(m, v, state)) /\ Fits(Declared(m, v, state), l, 0)
<1> DEFINE r == Declared(m, v, state)
<1>1. l.nsub \in Nat /\ l.nterm \in Nat /\ l.nterm <= l.nsub
  BY LevelFields DEF Counted
<1>2. DOMAIN r = DOMAIN m \cup {v}
  BY DEF Declared
<1>3. ASSUME NEW u \in DOMAIN r
      PROVE  InfoOK(r[u]) /\ ((u \in DOMAIN m /\ r[u].num = m[u].num) \/ r[u].num = 0)
  <2>1. CASE u \in DOMAIN m
    <3>1. r[u] = m[u]
      BY <1>2, <1>3, <2>1 DEF Declared
    <3> QED  BY <2>1, <3>1 DEF InfosOK
  <2>2. CASE u \notin DOMAIN m
    <3>1. r[u] = DeclInfo(state)
      BY <1>2, <1>3, <2>2 DEF Declared
    <3> HIDE DEF r
    <3> QED  BY <3>1 DEF InfoOK, DeclInfo
  <2> QED  BY <2>1, <2>2
<1> HIDE DEF r
<1>4. InfosOK(r)
  BY <1>3 DEF InfosOK
<1>5. Fits(r, l, 0)
  BY <1>1, <1>3 DEF Fits
<1> QED  BY <1>4, <1>5 DEF r

LEMMA EndValuesOK ==
    ASSUME NEW m, InfosOK(m)
    PROVE  InfosOK(EndValues(m)) /\ Idle(EndValues(m))
<1> DEFINE r == EndValues(m)
<1>1. DOMAIN r = DOMAIN m
  BY DEF EndValues
<1>2. ASSUME NEW v \in DOMAIN m
      PROVE  InfoOK(r[v]) /\ r[v].num = 0
  <2>1. InfoOK(m[v])
    BY DEF InfosOK
  <2>2. CASE ~Waits(m[v])
    <3>1. r[v] = m[v]
      BY <2>2 DEF EndValues
    <3>2. m[v].num = 0
      BY <2>1, <2>2 DEF InfoOK, Waits
    <3> QED  BY <2>1, <3>1, <3>2
  <2>3. CASE Waits(m[v]) /\ m[v].decl
    <3>1. r[v] = [m[v] EXCEPT !.state = m[v].pending, !.pending = "none", !.num = 0]
      BY <2>3 DEF EndValues
    <3>2. m[v].pending \in States
      BY <2>1, <2>3 DEF InfoOK, Waits
    <3> HIDE DEF r
    <3> QED  BY <2>1, <3>1, <3>2 DEF InfoOK
  <2>4. CASE Waits(m[v]) /\ ~m[v].decl
    <3>1. PICK x : r[v] = [m[v] EXCEPT !.num = 0, !.index = x]
      BY <2>4 DEF EndValues
    <3> HIDE DEF r
    <3> QED  BY <2>1, <3>1 DEF InfoOK
  <2> QED  BY <2>2, <2>3, <2>4
<1> HIDE DEF r
<1>3. InfosOK(r) /\ Idle(r)
  BY <1>1, <1>2 DEF InfosOK, Idle
<1> QED  BY <1>3 DEF r

LEMMA FromSubScopeOK ==
    ASSUME IInv, phase = "sema", Top.role # "func", ValsOK(Depth, scopes, values)
    PROVE  /\ InfosOK(FromSubScope)
           /\ Fits(FromSubScope, ParentAfter, 0)
           /\ Fits(FromSubScope, AddSubScope(ParentAfter), 1)
<1> DEFINE n == Depth - 1
           r == FromSubScope
           k == IF IsTerminated(Top) THEN 1 ELSE 0
<1>1. /\ n \in 1..Depth - 1 /\ n \in 1..Depth /\ Depth \in 1..Depth
      /\ Parent = scopes[n] /\ Parent \in Level /\ HasOpen(Parent)
  BY HasParent, IInvStack
<1>2. /\ InfosOK(Known) /\ InfosOK(values[Depth]) /\ Fits(Known, Parent, 1)
  BY <1>1 DEF ValsOK, Known
<1>3. Parent.nsub \in Nat /\ Parent.nterm \in Nat /\ Parent.nterm < Parent.nsub
  BY <1>1, LevelFields DEF HasOpen
<1>4. ParentAfter.nsub = Parent.nsub /\ ParentAfter.nterm = Parent.nterm + k
  BY <1>1, <1>3 DEF ParentAfter, CountClosed, Level
<1>5. /\ AddSubScope(ParentAfter).nsub = Parent.nsub + 1
      /\ AddSubScope(ParentAfter).nterm = Parent.nterm + k
  <2>1. ParentAfter \in Level
    BY ParentCounted
  <2> QED  BY <1>4, <2>1 DEF AddSubScope, Level
<1>6. DOMAIN r = DOMAIN Known \cup Changes /\ (k = 1 => Changes = {})
  BY DEF FromSubScope, Changes
<1>7. ASSUME NEW v \in Changes
      PROVE  values[Depth][v].state \in States
  <2>1. v \in DOMAIN values[Depth]
    BY <1>7 DEF Changes, ChangedAt
  <2> QED  BY <1>2, <2>1 DEF InfosOK, InfoOK
<1>8. ASSUME NEW v \in DOMAIN r
      PROVE  /\ InfoOK(r[v])
             /\ r[v].num + k <= Parent.nsub - Parent.nterm
  <2>1. CASE v \notin Changes
    <3>1. v \in DOMAIN Known /\ r[v] = Known[v]
      BY <1>6, <1>8, <2>1 DEF FromSubScope
    <3>2. InfoOK(Known[v]) /\ Known[v].num + 1 <= Parent.nsub - Parent.nterm
      BY <1>2, <3>1 DEF InfosOK, Fits
    <3>3. Known[v].num \in Nat
      BY <3>2 DEF InfoOK
    <3> QED  BY <1>3, <3>1, <3>2, <3>3
  <2>2. CASE v \in Changes /\ v \notin DOMAIN Known
    <3>1. r[v] = ModifyInfo(Known, values[Depth][v].state, 1) /\ k = 0
      BY <1>6, <1>8, <2>2 DEF FromSubScope
    <3>2. InfoOK(r[v]) /\ r[v].num = 1
      <4> HIDE DEF r, k
      <4> QED  BY <1>7, <2>2, <3>1 DEF InfoOK, ModifyInfo
    <3> HIDE DEF r, k
    <3> QED  BY <1>3, <3>1, <3>2
  <2>3. CASE v \in Changes /\ v \in DOMAIN Known
    <3> DEFINE new == IF Known[v].decl THEN values[Depth][v].state ELSE Known[v].pending
    <3>1. r[v] = [Known[v] EXCEPT !.num = Known[v].num + 1, !.pending = new] /\ k = 0
      BY <1>6, <1>8, <2>3 DEF FromSubScope
    <3>2. InfoOK(Known[v]) /\ Known[v].num + 1 <= Parent.nsub - Parent.nterm
      BY <1>2, <2>3 DEF InfosOK, Fits
    <3>3. /\ new \in States \cup {"none"} /\ (Known[v].decl => new \in States)
      BY <1>7, <2>3, <3>2 DEF InfoOK
    <3>4. "none" \notin States
      BY DEF States
    <3> HIDE DEF r, k, new
    <3>5. InfoOK(r[v]) /\ r[v].num = Known[v].num + 1 /\ Known[v].num \in Nat
      BY <3>1, <3>2, <3>3, <3>4 DEF InfoOK
    <3> QED  BY <1>3, <3>1, <3>2, <3>5
  <2> QED  BY <2>1, <2>2, <2>3
<1>9. k \in {0, 1}
  OBVIOUS
<1> HIDE DEF r, k
<1>10. \A v \in DOMAIN r : r[v].num \in Nat
  BY <1>8 DEF InfoOK
<1>11. InfosOK(r)
  BY <1>8 DEF InfosOK
<1>12. Fits(r, ParentAfter, 0)
  BY <1>3, <1>4, <1>8, <1>9, <1>10 DEF Fits
<1>13. Fits(r, AddSubScope(ParentAfter), 1)
  BY <1>3, <1>5, <1>8, <1>9, <1>10 DEF Fits
<1> QED  BY <1>11, <1>12, <1>13 DEF r

-----------------------------------------------------------------------------
(* Each kind of step keeps the counts of the value states. *)

LEMMA ValsReplace ==
    ASSUME IInv, phase = "sema", Vals, phase' = "sema",
           NEW l \in Level, l.role = Top.role, scopes' = [scopes EXCEPT ![Depth] = l],
           NEW m, InfosOK(m), Fits(m, l, 0), values' = [values EXCEPT ![Depth] = m]
    PROVE  Vals'
<1> DEFINE n == Depth
           t == [scopes EXCEPT ![Depth] = l]
           w == [values EXCEPT ![Depth] = m]
<1>1. n \in Nat \ {0} /\ Top = scopes[n] /\ ValsOK(n, scopes, values)
  BY IInvStack DEF Vals
<1>2. /\ Len(t) = n
      /\ \A i \in 1..n - 1 : t[i] = scopes[i]
      /\ t[n] = l
  BY LevelsReplace
<1>3. PICK S : values \in Seq(S) /\ Len(values) = n
  BY <1>1 DEF ValsOK
<1>4. /\ w \in Seq(S \cup {m}) /\ Len(w) = n
      /\ \A i \in 1..n - 1 : w[i] = values[i]
      /\ w[n] = m
  <2>1. values \in Seq(S \cup {m}) /\ m \in S \cup {m} /\ n \in 1..Len(values)
    BY <1>1, <1>3
  <2>2. /\ w \in Seq(S \cup {m}) /\ Len(w) = Len(values)
        /\ \A i \in 1..Len(values) : w[i] = IF i = n THEN m ELSE values[i]
    BY <2>1, SeqReplace
  <2> HIDE DEF w
  <2>3. \A i \in 1..n - 1 : i \in 1..Len(values) /\ i # n
    BY <1>1, <1>3
  <2> QED  BY <1>3, <2>1, <2>2, <2>3
<1>5. scopes' = t /\ values' = w
  OBVIOUS
<1> HIDE DEF n, t, w
<1>6. ValsOK(n, t, w)
  BY ONLY <1>1, <1>2, <1>4, l.role = Top.role, InfosOK(m), Fits(m, l, 0), ValsStay
<1>7. Depth' = n
  BY <1>2, <1>5 DEF Depth
<1> QED  BY <1>5, <1>6, <1>7 DEF Vals

LEMMA ValsUnchanged ==
    ASSUME IInv, phase = "sema", Vals, phase' = "sema",
           NEW l \in Level, l.role = Top.role, l.nsub = Top.nsub, l.nterm = Top.nterm,
           scopes' = [scopes EXCEPT ![Depth] = l], values' = values
    PROVE  Vals'
<1>1. Depth \in Nat \ {0} /\ Depth \in 1..Depth /\ ValsOK(Depth, scopes, values)
      /\ Top = scopes[Depth]
  BY IInvStack DEF Vals
<1>2. InfosOK(values[Depth]) /\ Fits(values[Depth], l, 0)
  BY <1>1 DEF ValsOK, Fits
<1>3. values = [values EXCEPT ![Depth] = values[Depth]]
  <2>1. PICK S : values \in Seq(S)
    BY <1>1 DEF ValsOK
  <2> QED  BY <2>1
<1> DEFINE m == values[Depth]
<1>4. InfosOK(m) /\ Fits(m, l, 0) /\ values' = [values EXCEPT ![Depth] = m]
  BY <1>2, <1>3
<1> HIDE DEF m
<1> QED  BY <1>4, ValsReplace

LEMMA ValsOpen ==
    ASSUME IInv, phase = "sema", Vals, phase' = "sema",
           NEW p \in Level, p.role = Top.role, Fits(values[Depth], p, 1),
           NEW l \in Level, l.role = "blockExpr" => Idle(values[Depth]),
           scopes' = Append([scopes EXCEPT ![Depth] = p], l),
           values' = Append(values, <<>>)
    PROVE  Vals'
<1> DEFINE n == Depth
           t == Append([scopes EXCEPT ![Depth] = p], l)
           w == Append(values, <<>>)
<1>1. n \in Nat \ {0} /\ Top = scopes[n] /\ ValsOK(n, scopes, values)
  BY IInvStack DEF Vals
<1>2. /\ Len(t) = n + 1
      /\ \A i \in 1..n - 1 : t[i] = scopes[i]
      /\ t[n] = p /\ t[n + 1] = l
  BY LevelsPush
<1>3. PICK S : values \in Seq(S) /\ Len(values) = n
  BY <1>1 DEF ValsOK
<1>4. /\ w \in Seq(S \cup {<<>>}) /\ Len(w) = n + 1
      /\ \A i \in 1..n : w[i] = values[i]
      /\ w[n + 1] = <<>>
  <2>1. values \in Seq(S \cup {<<>>}) /\ <<>> \in S \cup {<<>>}
    BY <1>3
  <2>2. /\ w \in Seq(S \cup {<<>>}) /\ Len(w) = n + 1
        /\ \A i \in 1..n + 1 : w[i] = IF i = n + 1 THEN <<>> ELSE values[i]
    BY <1>3, <2>1, SeqPush
  <2> HIDE DEF w
  <2>3. \A i \in 1..n : i \in 1..n + 1 /\ i # n + 1
    BY <1>1
  <2> QED  BY <1>1, <2>2, <2>3
<1>5. scopes' = t /\ values' = w
  OBVIOUS
<1>6. Fits(values[n], p, 1) /\ (l.role = "blockExpr" => Idle(values[n])) /\ p.role = Top.role
  OBVIOUS
<1> HIDE DEF n, t, w
<1>7. ValsOK(n + 1, t, w)
  BY ONLY <1>1, <1>2, <1>4, <1>6, ValsPush
<1>8. Depth' = n + 1
  BY <1>2, <1>5 DEF Depth
<1> QED  BY <1>5, <1>7, <1>8 DEF Vals

LEMMA OuterOK ==
    ASSUME IInv, phase = "sema", Top.role # "func", Vals
    PROVE  /\ Depth - 1 \in Nat \ {0} /\ Depth = (Depth - 1) + 1
           /\ \E S : Outer \in Seq(S) /\ values \in Seq(S)
           /\ Len(Outer) = Depth - 2 /\ Depth - 2 = (Depth - 1) - 1
           /\ \A i \in 1..Depth - 2 : Outer[i] = values[i]
<1>1. Depth - 1 \in 1..Depth /\ Depth - 2 \in Nat /\ Depth \in Nat
      /\ ValsOK(Depth, scopes, values)
  BY HasParent, IInvStack DEF Vals
<1>2. PICK S : values \in Seq(S) /\ Len(values) = Depth
  BY <1>1 DEF ValsOK
<1>3. Depth - 2 \in 0..Len(values)
  BY <1>1, <1>2
<1>4. /\ Outer \in Seq(S) /\ Len(Outer) = Depth - 2
      /\ \A i \in 1..Depth - 2 : Outer[i] = values[i]
  BY <1>2, <1>3, SeqCut DEF Outer
<1> QED  BY <1>1, <1>2, <1>4

LEMMA ValsClose ==
    ASSUME IInv, phase = "sema", Top.role # "func", Vals, phase' = "sema",
           NEW p \in Level, p.role = Parent.role,
           scopes' = Append(SubSeq(scopes, 1, Depth - 2), p),
           NEW m, InfosOK(m), Fits(m, p, 0),
           values' = Append(Outer, m)
    PROVE  Vals'
<1> DEFINE n == Depth - 1
           t == Append(SubSeq(scopes, 1, Depth - 2), p)
           w == Append(Outer, m)
<1>1. /\ n \in Nat \ {0} /\ Parent = scopes[n] /\ ValsOK(n + 1, scopes, values)
      /\ Depth - 2 = n - 1
  BY OuterOK DEF Vals, Parent
<1>2. /\ Len(t) = n
      /\ \A i \in 1..n - 1 : t[i] = scopes[i]
      /\ t[n] = p
  <2>1. /\ Len(t) = n
        /\ \A i \in 1..Depth - 2 : t[i] = scopes[i]
        /\ t[n] = p
    BY LevelsPop
  <2> HIDE DEF t, n
  <2> QED  BY <1>1, <2>1
<1>3. PICK S : /\ Outer \in Seq(S) /\ Len(Outer) = n - 1
               /\ \A i \in 1..n - 1 : Outer[i] = values[i]
  <2>1. PICK S : Outer \in Seq(S)
    BY OuterOK
  <2>2. Len(Outer) = n - 1 /\ \A i \in 1..n - 1 : Outer[i] = values[i]
    BY OuterOK
  <2> QED  BY <2>1, <2>2
<1>4. /\ w \in Seq(S \cup {m}) /\ Len(w) = n
      /\ \A i \in 1..n - 1 : w[i] = values[i]
      /\ w[n] = m
  <2>1. Outer \in Seq(S \cup {m}) /\ m \in S \cup {m}
    BY <1>3
  <2>2. /\ w \in Seq(S \cup {m}) /\ Len(w) = (n - 1) + 1
        /\ \A i \in 1..(n - 1) + 1 : w[i] = IF i = (n - 1) + 1 THEN m ELSE Outer[i]
    <3> HIDE DEF n
    <3> QED  BY <1>3, <2>1, SeqPush
  <2> HIDE DEF w, n
  <2>3. (n - 1) + 1 = n /\ n \in 1..n /\ \A i \in 1..n - 1 : i \in 1..n /\ i # n
    BY <1>1
  <2> QED  BY <1>3, <2>2, <2>3
<1>5. scopes' = t /\ values' = w
  OBVIOUS
<1>6. p.role = Parent.role /\ InfosOK(m) /\ Fits(m, p, 0)
  OBVIOUS
<1> HIDE DEF n, t, w
<1>7. ValsOK(n, t, w)
  BY ONLY <1>1, <1>2, <1>4, <1>6, ValsPop
<1>8. Depth' = n
  BY <1>2, <1>5 DEF Depth
<1> QED  BY <1>5, <1>7, <1>8 DEF Vals

LEMMA ValsReopen ==
    ASSUME IInv, phase = "sema", Top.role # "func", Vals, phase' = "sema",
           NEW p \in Level, p.role = Parent.role, NEW l \in Level, l.role # "blockExpr",
           scopes' = Append(Append(SubSeq(scopes, 1, Depth - 2), p), l),
           NEW m, InfosOK(m), Fits(m, p, 1),
           values' = Append(Outer, m) \o << <<>> >>
    PROVE  Vals'
<1> DEFINE n == Depth - 1
           t == Append(Append(SubSeq(scopes, 1, Depth - 2), p), l)
           w == Append(Outer, m) \o << <<>> >>
<1>1. /\ n \in Nat \ {0} /\ Parent = scopes[n] /\ ValsOK(n + 1, scopes, values)
      /\ Depth - 2 = n - 1 /\ Depth = n + 1
  BY OuterOK DEF Vals, Parent
<1>2. /\ Len(t) = n + 1
      /\ \A i \in 1..n - 1 : t[i] = scopes[i]
      /\ t[n] = p /\ t[n + 1] = l
  <2>1. /\ Len(t) = Depth
        /\ \A i \in 1..Depth - 2 : t[i] = scopes[i]
        /\ t[Depth - 1] = p /\ t[Depth] = l
    BY LevelsReopen
  <2> HIDE DEF t
  <2> QED  BY <1>1, <2>1
<1>3. PICK S : /\ Outer \in Seq(S) /\ Len(Outer) = n - 1
               /\ \A i \in 1..n - 1 : Outer[i] = values[i]
  <2>1. PICK S : Outer \in Seq(S)
    BY OuterOK
  <2>2. Len(Outer) = n - 1 /\ \A i \in 1..n - 1 : Outer[i] = values[i]
    BY OuterOK
  <2> QED  BY <2>1, <2>2
<1> DEFINE R == S \cup {m, <<>>}
           u == Append(Outer, m)
<1> HIDE DEF n
<1>4. /\ u \in Seq(R) /\ Len(u) = n
      /\ \A i \in 1..n - 1 : u[i] = values[i]
      /\ u[n] = m
  <2>1. Outer \in Seq(R) /\ m \in R
    BY <1>3
  <2> HIDE DEF R
  <2>2. /\ u \in Seq(R) /\ Len(u) = (n - 1) + 1
        /\ \A i \in 1..(n - 1) + 1 : u[i] = IF i = (n - 1) + 1 THEN m ELSE Outer[i]
    BY <1>3, <2>1, SeqPush
  <2> HIDE DEF u
  <2>3. (n - 1) + 1 = n /\ n \in 1..n /\ \A i \in 1..n - 1 : i \in 1..n /\ i # n
    BY <1>1
  <2> QED  BY <1>3, <2>2, <2>3
<1>5. /\ w \in Seq(R) /\ Len(w) = n + 1
      /\ \A i \in 1..n - 1 : w[i] = values[i]
      /\ w[n] = m /\ w[n + 1] = <<>>
  <2>1. <<>> \in R
    OBVIOUS
  <2> HIDE DEF R, u
  <2>2. w = Append(u, <<>>)
    BY <1>4, <2>1 DEF u
  <2>3. /\ Append(u, <<>>) \in Seq(R) /\ Len(Append(u, <<>>)) = n + 1
        /\ \A i \in 1..n + 1 : Append(u, <<>>)[i] = IF i = n + 1 THEN <<>> ELSE u[i]
    BY <1>4, <2>1, SeqPush
  <2> HIDE DEF w
  <2>4. /\ n \in 1..n + 1 /\ n # n + 1 /\ n + 1 \in 1..n + 1
        /\ \A i \in 1..n - 1 : i \in 1..n + 1 /\ i # n + 1
    BY <1>1
  <2> QED  BY <1>4, <2>2, <2>3, <2>4
<1>6. scopes' = t /\ values' = w
  OBVIOUS
<1> HIDE DEF t, w, R, u
<1>7. ValsOK(n + 1, t, w)
  <2> DEFINE sc == [i \in 1..n |-> t[i]]
             va == [i \in 1..n |-> w[i]]
  <2>1. /\ \A i \in 1..n : sc[i] = t[i] /\ va[i] = w[i]
        /\ n \in 1..n /\ \A i \in 1..n - 1 : i \in 1..n
    BY <1>1
  <2>2. va \in Seq(R) /\ Len(va) = n
    <3>1. \A i \in 1..n : w[i] \in R
      BY <1>1, <1>5
    <3> QED  BY <1>1, <3>1
  <2> HIDE DEF sc, va
  <2>3. sc[n].role = scopes[n].role /\ InfosOK(va[n]) /\ Fits(va[n], sc[n], 1)
    BY <1>1, <1>2, <1>5, <2>1
  <2>4. \A i \in 1..n - 1 : sc[i] = scopes[i] /\ va[i] = values[i]
    BY <1>2, <1>5, <2>1
  <2>5. Fits(va[n], sc[n], 0)
    <3>1. m = va[n] /\ p = sc[n] /\ p.nsub \in Nat /\ p.nterm \in Nat
      BY <1>2, <1>5, <2>1, LevelFields
    <3>2. \A v \in DOMAIN m : m[v].num \in Nat
      BY DEF InfosOK, InfoOK
    <3>3. \A a, b, c \in Nat : a + 1 <= b - c => a + 0 <= b - c
      OBVIOUS
    <3>4. ASSUME NEW v \in DOMAIN va[n]
          PROVE  va[n][v].num + 0 <= sc[n].nsub - sc[n].nterm
      <4>1. va[n][v].num \in Nat /\ sc[n].nsub \in Nat /\ sc[n].nterm \in Nat
        BY <3>1, <3>2
      <4>2. va[n][v].num + 1 <= sc[n].nsub - sc[n].nterm
        BY <2>3 DEF Fits
      <4> QED  BY ONLY <3>3, <4>1, <4>2
    <3> QED  BY <3>4 DEF Fits
  <2>6. ValsOK(n, sc, va)
    <3>1. n \in Nat \ {0} /\ ValsOK(n + 1, scopes, values)
      BY <1>1
    <3> QED  BY ONLY <3>1, <2>2, <2>3, <2>4, <2>5, ValsPop
  <2>7. /\ \A i \in 1..n - 1 : t[i] = sc[i]
        /\ \A i \in 1..n : w[i] = va[i]
        /\ t[n].role = sc[n].role /\ Fits(va[n], t[n], 1) /\ w[n + 1] = <<>>
        /\ t[n + 1].role # "blockExpr"
    BY <1>2, <1>5, <2>1, <2>3
  <2> QED  BY ONLY <1>1, <1>5, <2>6, <2>7, ValsPush
<1>8. Depth' = n + 1
  BY <1>2, <1>6 DEF Depth
<1> QED  BY <1>6, <1>7, <1>8 DEF Vals

\* A block expression, whose parent has counted none of its sub-scopes
LEMMA ValsEndExprBlock ==
    ASSUME IInv, phase = "sema", Top.role = "blockExpr", Vals, phase' = "sema",
           NEW p \in Level, p.role = Parent.role, Counted(p),
           scopes' = Append(SubSeq(scopes, 1, Depth - 2), p),
           values' = Front(values)
    PROVE  Vals'
<1> DEFINE n == Depth - 1
           m == values[n]
<1>1. /\ n \in Nat \ {0} /\ Depth - 2 = n - 1 /\ ValsOK(n + 1, scopes, values)
      /\ Top = scopes[n + 1] /\ n \in 1..(n + 1) - 1 /\ n \in 1..n + 1
  BY OuterOK, IInvStack DEF Vals
<1>2. InfosOK(m) /\ Idle(m)
  <2> HIDE DEF n
  <2> QED  BY <1>1 DEF ValsOK
<1>3. Fits(m, p, 0)
  BY <1>2, IdleFits
<1>4. values' = Append(Outer, m)
  <2>1. PICK S : values \in Seq(S) /\ Len(values) = n + 1
    BY <1>1 DEF ValsOK
  <2>2. Front(values) = SubSeq(values, 1, n) /\ Outer = SubSeq(values, 1, n - 1)
    BY <1>1, <2>1 DEF Front, Outer
  <2> HIDE DEF n
  <2>3. SubSeq(values, 1, n) = Append(SubSeq(values, 1, n - 1), values[n])
    BY <1>1, <2>1
  <2> QED  BY <2>2, <2>3 DEF n
<1> HIDE DEF m
<1> QED  BY <1>2, <1>3, <1>4, ValsClose

-----------------------------------------------------------------------------
(* The steps of the analyzer with value states *)

BInv == IInv /\ CountOK /\ Shape /\ Nest

LEMMA StopBody ==
    ASSUME BInv, NEW how \in Phases, how # "sema", Stop(how)
    PROVE  BInv'
<1>1. IInv' /\ Shape'
  BY StopOK, StopShape DEF BInv
<1>2. CountOK' /\ Nest'
  BY DEF BInv, Stop, CountOK, Nest
<1> QED  BY <1>1, <1>2 DEF BInv

LEMMA AddBody ==
    ASSUME BInv, phase = "sema", ~InSwitch, NEW op, NEW form, NEW to,
           Add(Stmt(op, form, to), Top)
    PROVE  BInv'
<1>1. IInv /\ CountOK /\ Shape /\ Nest
  BY DEF BInv
<1>2. Top \in Level /\ Counted(Top)
  BY <1>1, IInvStack
<1> DEFINE s == Stmt(op, form, to)
<1>3. IsStmt(s) /\ s.id = count + 1 /\ s.id \in Nat
  BY <1>1 DEF Stmt, IsStmt, CountOK
<1>4. Add(s, Top)
  OBVIOUS
<1> HIDE DEF s
<1>5. IInv'
  BY <1>1, <1>2, <1>4, AddOK
<1>6. Shape'
  BY <1>1, <1>2, <1>4, AddShape
<1>7. CountOK'
  BY <1>1, <1>4 DEF Add, CountOK
<1>8. Nest'
  <2>1. /\ scopes' = [scopes EXCEPT ![Depth] = Top] /\ bodies' = Emplace(s)
        /\ count' = count + 1 /\ subscopes' = subscopes
    BY <1>4 DEF Add
  <2> QED  BY <1>1, <1>2, <1>3, <2>1, NestAppend
<1> QED  BY <1>5, <1>6, <1>7, <1>8 DEF BInv

LEMMA InstructionBody ==
    ASSUME BInv, Instruction
    PROVE  BInv'
BY InstructionKeeps, CountKeeps, ShapeKeeps, NestKeeps DEF BInv

LEMMA AboutStep ==
    ASSUME NEW kind, NEW v, NEW ok, About(kind, v, ok)
    PROVE  /\ phase = "sema" /\ ~InSwitch
           /\ Add(Stmt(kind, "", v), Top) \/ Stop("rejected")
BY DEF About, CanAdd

\* What a step does to the levels and the blocks
LEMMA ValueStep ==
    ASSUME AnalyzeValues
    PROVE  \/ Instruction
           \/ Stop("rejected")
           \/ ~InSwitch /\ \E op, form, to : Add(Stmt(op, form, to), Top)
<1>1. CASE Declare
  <2>1. ~InSwitch /\ \E form : Add(Stmt("var", form, 0), Top)
    BY <1>1 DEF Declare, LocalVar, CanAdd
  <2> QED  BY <2>1
<1>2. CASE \E v \in Variables : Use(v) \/ Move(v) \/ Assign(v) \/ Delete(v)
  <2>1. PICK kind, v, ok : About(kind, v, ok)
    BY <1>2 DEF Use, Move, Assign, Delete
  <2> QED  BY <2>1, AboutStep
<1>3. CASE Jumps \/ Other
  BY <1>3 DEF Jumps, Other, Instruction
<1>4. CASE OpenLevel
  BY <1>4 DEF OpenLevel, Instruction
<1>5. CASE CloseLevel
  <2>1. \/ CondNoElse \/ CondElse \/ EndCond \/ EndWhile \/ EndFor \/ EndForHasElse
        \/ EndForElse \/ EndCase \/ TryElseEnd \/ EndDefer \/ EndStmtBlock
        \/ RejectValues
    BY <1>5 DEF CloseLevel, CloseValues, PopValues
  <2> QED  BY <2>1 DEF RejectValues, Instruction
<1>6. CASE EndSwitchValues
  BY <1>6 DEF EndSwitchValues, RejectValues, Instruction
<1>7. CASE EndWithout
  BY <1>7 DEF EndWithout, Instruction
<1> QED
  BY <1>1, <1>2, <1>3, <1>4, <1>5, <1>6, <1>7 DEF AnalyzeValues

LEMMA BodyKeeps ==
    ASSUME BInv, AnalyzeValues
    PROVE  BInv'
<1>1. phase = "sema"
  BY DEF AnalyzeValues
<1>2. CASE Instruction
  BY <1>2, InstructionBody
<1>3. CASE Stop("rejected")
  BY <1>3, StopBody DEF Phases
<1>4. CASE ~InSwitch /\ \E op, form, to : Add(Stmt(op, form, to), Top)
  BY <1>1, <1>4, AddBody
<1> QED  BY <1>2, <1>3, <1>4, ValueStep

LEMMA ValsStopped ==
    ASSUME phase' # "sema", values' = <<>>
    PROVE  Vals'
BY DEF Vals

-----------------------------------------------------------------------------
(* The steps that open or close a level *)

\* Where a statement may be added, nothing waits for the end of a sub-scope.
LEMMA NothingWaits ==
    ASSUME BInv, Vals, phase = "sema", ~InSwitch
    PROVE  Top.nsub = 0 /\ Idle(values[Depth])
<1>1. IInv /\ Shape /\ Nest /\ ValsOK(Depth, scopes, values)
  BY DEF BInv, Vals
<1>2. /\ Top \in Level /\ Counted(Top) /\ Top = scopes[Depth]
      /\ Depth \in Nat \ {0} /\ Depth \in 1..Depth
      /\ InfosOK(values[Depth]) /\ Fits(values[Depth], Top, 0)
  BY <1>1, IInvStack DEF ValsOK
<1>3. PICK pos : Ended(Depth, scopes, bodies, subscopes, pos)
  BY <1>1 DEF Nest
<1>4. ~Within(bodies[Depth], subscopes)
  BY <1>1, NestStack
<1>5. Top.nsub = 0
  BY <1>2, <1>3, <1>4 DEF Ended
<1>6. ASSUME NEW v \in DOMAIN values[Depth]
      PROVE  values[Depth][v].num = 0
  <2>1. values[Depth][v].num \in Nat /\ values[Depth][v].num + 0 <= Top.nsub - Top.nterm
    BY <1>2 DEF InfosOK, InfoOK, Fits
  <2>2. Top.nterm \in Nat
    BY <1>2, LevelFields
  <2> QED  BY <1>5, <2>1, <2>2
<1> QED  BY <1>5, <1>6 DEF Idle

LEMMA FitsAfterAdd ==
    ASSUME NEW m, InfosOK(m), NEW l \in Level, Counted(l), Fits(m, l, 0)
    PROVE  /\ AddSubScope(l) \in Level /\ Counted(AddSubScope(l))
           /\ AddSubScope(l).role = l.role
           /\ Fits(m, AddSubScope(l), 0) /\ Fits(m, AddSubScope(l), 1)
<1>1. /\ AddSubScope(l).nsub = l.nsub + 1 /\ AddSubScope(l).nterm = l.nterm
  BY DEF AddSubScope, Level
<1>2. l.nsub \in Nat /\ l.nterm \in Nat
  BY LevelFields
<1>3. \A v \in DOMAIN m : m[v].num \in Nat
  BY DEF InfosOK, InfoOK
<1>4. Fits(m, AddSubScope(l), 0) /\ Fits(m, AddSubScope(l), 1)
  BY <1>1, <1>2, <1>3 DEF Fits
<1> QED  BY <1>4, AddSubScopeOK

LEMMA ValsOpenLevel ==
    ASSUME BInv, Vals, phase = "sema", OpenLevel
    PROVE  Vals'
<1>1. IInv /\ CountOK /\ ValsOK(Depth, scopes, values)
  BY DEF BInv, Vals
<1>2. /\ Top \in Level /\ Counted(Top) /\ Depth \in 1..Depth
      /\ InfosOK(values[Depth]) /\ Fits(values[Depth], Top, 0)
  BY <1>1, IInvStack DEF ValsOK
<1> DEFINE a == AddSubScope(Top)
           b == AddSubScope(a)
<1>3. /\ a \in Level /\ a.role = Top.role /\ Fits(values[Depth], a, 1)
      /\ Counted(a) /\ Fits(values[Depth], a, 0)
  BY <1>2, FitsAfterAdd
<1>4. b \in Level /\ b.role = Top.role /\ Fits(values[Depth], b, 1)
  <2> HIDE DEF a
  <2> QED  BY <1>2, <1>3, FitsAfterAdd
<1>5. values' = Append(values, <<>>)
  BY DEF OpenLevel
<1>6. ASSUME NEW op, NEW form, NEW p \in {a, b}, NEW role \in Roles, NEW subs,
             Open(Stmt(op, form, 0), p, role, subs), role # "blockExpr" \/ ~InSwitch
      PROVE  Vals'
  <2>1. Stmt(op, form, 0).id \in Nat
    BY <1>1 DEF Stmt, CountOK
  <2> DEFINE l == NewLevel(role, Stmt(op, form, 0).id)
  <2>2. l \in Level /\ l.role = role
    BY <2>1, NewLevelOK
  <2>3. scopes' = Append([scopes EXCEPT ![Depth] = p], l) /\ phase' = "sema"
    BY <1>6 DEF Open
  <2>4. role = "blockExpr" => Idle(values[Depth])
    BY <1>6, NothingWaits
  <2>5. p \in Level /\ p.role = Top.role /\ Fits(values[Depth], p, 1)
    BY <1>3, <1>4, <1>6
  <2> HIDE DEF a, b, l
  <2> QED  BY <1>1, <1>5, <2>2, <2>3, <2>4, <2>5, ValsOpen
<1>7. {"then", "while", "for", "tryElse", "defer", "block", "blockExpr", "case"} \subseteq Roles
  BY DEF Roles, LoopRoles
<1>8. ASSUME NEW op, NEW form, NEW p \in {a, b}, NEW subs,
             NEW role \in {"then", "while", "for", "tryElse", "defer", "block", "blockExpr"},
             Open(Stmt(op, form, 0), p, role, subs), ~InSwitch
      PROVE  Vals'
  BY <1>6, <1>7, <1>8
<1>9. a \in {a, b} /\ b \in {a, b}
  OBVIOUS
<1>10. CASE BeginCond
  <2>1. ~InSwitch /\ Open(Stmt("if", "", 0), a, "then", Append(subscopes, count + 1))
    BY <1>10 DEF BeginCond, CanOpen, CanAdd
  <2> HIDE DEF a, b
  <2> QED  BY <1>8, <1>9, <2>1
<1>11. CASE BeginFor
  <2>1. ~InSwitch /\ Open(Stmt("for", "", 0), a, "for", Append(subscopes, count + 1))
    BY <1>11 DEF BeginFor, CanOpen, CanAdd
  <2> HIDE DEF a, b
  <2> QED  BY <1>8, <1>9, <2>1
<1>12. CASE BeginWhile
  <2>1. ~InSwitch /\ Open(Stmt("while", "", 0), a, "while", subscopes)
    BY <1>12 DEF BeginWhile, CanOpen, CanAdd
  <2> HIDE DEF a, b
  <2> QED  BY <1>8, <1>9, <2>1
<1>13. CASE TryElseBegin
  <2>1. ~InSwitch /\ Open(Stmt("tryElse", "", 0), b, "tryElse", subscopes)
    BY <1>13 DEF TryElseBegin, CanOpen, CanAdd
  <2> HIDE DEF a, b
  <2> QED  BY <1>8, <1>9, <2>1
<1>14. CASE BeginDefer
  <2>1. ~InSwitch /\ \E form : Open(Stmt("defer", form, 0), a, "defer", subscopes)
    BY <1>14 DEF BeginDefer, CanOpen, CanAdd
  <2> HIDE DEF a, b
  <2> QED  BY <1>8, <1>9, <2>1
<1>15. CASE BeginStmtBlock
  <2>1. ~InSwitch /\ Open(Stmt("block", "", 0), a, "block", subscopes)
    BY <1>15 DEF BeginStmtBlock, CanOpen, CanAdd
  <2> HIDE DEF a, b
  <2> QED  BY <1>8, <1>9, <2>1
<1>16. CASE BeginExprBlock
  <2>1. ~InSwitch /\ Open(Stmt("blockExpr", "", 0), b, "blockExpr", subscopes)
    BY <1>16 DEF BeginExprBlock, CanOpen, CanAdd
  <2> HIDE DEF a, b
  <2> QED  BY <1>8, <1>9, <2>1
<1>17. CASE BeginCase
  <2> DEFINE l == NewLevel("case", 0)
  <2>1. l \in Level /\ l.role = "case"
    BY <1>7, NewLevelOK
  <2>2. scopes' = Append([scopes EXCEPT ![Depth] = a], l) /\ phase' = "sema"
    BY <1>17 DEF BeginCase
  <2> HIDE DEF a, b, l
  <2> QED  BY <1>1, <1>3, <1>5, <2>1, <2>2, ValsOpen
<1> QED
  BY <1>10, <1>11, <1>12, <1>13, <1>14, <1>15, <1>16, <1>17 DEF OpenLevel

\* A level that is closed with end_sub_scopes
LEMMA ValsCloseValues ==
    ASSUME BInv, Vals, phase = "sema", NEW role \in Roles, role # "func",
           NEW l \in {ParentAfter, AddSubScope(ParentAfter)}, NEW subs,
           CloseValues(role, CloseWith(EndSubScopes(l), subs), l)
    PROVE  Vals'
<1>1. IInv /\ ValsOK(Depth, scopes, values)
  BY DEF BInv, Vals
<1>2. Top.role # "func"
  BY DEF CloseValues, CanClose
<1>3. CASE RejectValues
  BY <1>3, ValsStopped DEF RejectValues, Stop
<1>4. ASSUME CloseWith(EndSubScopes(l), subs),
             values' = IF phase' = "sema" THEN Append(Outer, EndValues(FromSubScope)) ELSE <<>>
      PROVE  Vals'
  <2>1. CASE Stop("crashed")
    BY <1>4, <2>1, ValsStopped DEF Stop
  <2>2. CASE Close(EndSubScopes(l), subs)
    <3> DEFINE p == EndSubScopes(l)
               m == EndValues(FromSubScope)
    <3>1. p \in Level /\ p.role = Parent.role /\ Counted(p)
      BY <1>1, <1>2, ParentCounted
    <3>2. scopes' = Append(SubSeq(scopes, 1, Depth - 2), p) /\ phase' = "sema"
      BY <2>2 DEF Close
    <3>3. InfosOK(m) /\ Idle(m)
      BY <1>1, <1>2, FromSubScopeOK, EndValuesOK
    <3>4. values' = Append(Outer, m)
      BY <1>4, <3>2
    <3> HIDE DEF p, m
    <3>5. Fits(m, p, 0)
      BY <3>1, <3>3, IdleFits
    <3> QED  BY <1>1, <1>2, <3>1, <3>2, <3>3, <3>4, <3>5, ValsClose
  <2> QED  BY <1>4, <2>1, <2>2 DEF CloseWith
<1> QED  BY <1>3, <1>4 DEF CloseValues

\* A level whose statement has another block
LEMMA ValsPopReopen ==
    ASSUME BInv, Vals, phase = "sema", NEW role \in Roles, role # "func",
           NEW next \in Roles, next # "blockExpr", PopValues(role, Reopen(next), << <<>> >>)
    PROVE  Vals'
<1>1. IInv /\ ValsOK(Depth, scopes, values)
  BY DEF BInv, Vals
<1>2. Top.role # "func"
  BY DEF PopValues, CanClose
<1>3. CASE RejectValues
  BY <1>3, ValsStopped DEF RejectValues, Stop
<1>4. ASSUME Reopen(next),
             values' = IF phase' = "sema" THEN Append(Outer, FromSubScope) \o << <<>> >>
                       ELSE <<>>
      PROVE  Vals'
  <2>1. CASE Stop("crashed")
    BY <1>4, <2>1, ValsStopped DEF Stop
  <2>2. CASE CountAsserted(Parent, Top)
    <3> DEFINE p == AddSubScope(ParentAfter)
               l == NewLevel(next, Top.id)
               m == FromSubScope
    <3>1. p \in Level /\ p.role = Parent.role
      BY <1>1, <1>2, ParentCounted
    <3>2. scopes' = Append(Append(SubSeq(scopes, 1, Depth - 2), p), l) /\ phase' = "sema"
      BY <1>4, <2>2 DEF Reopen
    <3>3. l \in Level /\ l.role # "blockExpr"
      BY <1>1, IInvStack, LevelFields, NewLevelOK
    <3>4. InfosOK(m) /\ Fits(m, p, 1)
      BY <1>1, <1>2, FromSubScopeOK
    <3>5. values' = Append(Outer, m) \o << <<>> >>
      BY <1>4, <3>2
    <3> HIDE DEF p, l, m
    <3> QED  BY <1>1, <1>2, <3>1, <3>2, <3>3, <3>4, <3>5, ValsReopen
  <2> QED  BY <1>4, <2>1, <2>2 DEF Reopen
<1> QED  BY <1>3, <1>4 DEF PopValues

\* A case, whose switch ends its sub-scopes later
LEMMA ValsPopCase ==
    ASSUME BInv, Vals, phase = "sema", PopValues("case", EndCase, <<>>)
    PROVE  Vals'
<1>1. IInv /\ ValsOK(Depth, scopes, values)
  BY DEF BInv, Vals
<1>2. Top.role # "func"
  BY DEF PopValues, CanClose
<1>3. CASE RejectValues
  BY <1>3, ValsStopped DEF RejectValues, Stop
<1>4. ASSUME EndCase,
             values' = IF phase' = "sema" THEN Append(Outer, FromSubScope) \o <<>> ELSE <<>>
      PROVE  Vals'
  <2>1. CASE Stop("crashed")
    BY <1>4, <2>1, ValsStopped DEF Stop
  <2>2. CASE Close(ParentAfter, subscopes)
    <3> DEFINE p == ParentAfter
               m == FromSubScope
    <3>1. p \in Level /\ p.role = Parent.role
      BY <1>1, <1>2, ParentCounted
    <3>2. scopes' = Append(SubSeq(scopes, 1, Depth - 2), p) /\ phase' = "sema"
      BY <2>2 DEF Close
    <3>3. InfosOK(m) /\ Fits(m, p, 0)
      BY <1>1, <1>2, FromSubScopeOK
    <3>4. values' = Append(Outer, m) \o <<>>
      BY <1>4, <3>2
    <3>5. PICK S : Outer \in Seq(S)
      BY <1>1, <1>2, OuterOK
    <3> HIDE DEF p, m
    <3>6. Append(Outer, m) \o <<>> = Append(Outer, m)
      <4>1. Outer \in Seq(S \cup {m})
        BY <3>5
      <4>2. Append(Outer, m) \in Seq(S \cup {m})
        BY <4>1, SeqPush
      <4> QED  BY <4>2, ConcatEmptySeq
    <3> QED  BY <1>1, <1>2, <3>1, <3>2, <3>3, <3>4, <3>6, ValsClose
  <2> QED  BY <1>4, <2>1, <2>2 DEF EndCase, CloseWith
<1> QED  BY <1>3, <1>4 DEF PopValues

LEMMA ValsCloseLevel ==
    ASSUME BInv, Vals, phase = "sema", CloseLevel
    PROVE  Vals'
<1> DEFINE a == ParentAfter
           b == AddSubScope(ParentAfter)
<1>1. /\ a \in {ParentAfter, AddSubScope(ParentAfter)}
      /\ b \in {ParentAfter, AddSubScope(ParentAfter)}
  OBVIOUS
<1>2. {"then", "else", "while", "for", "forElse", "case", "tryElse", "defer", "block"}
         \subseteq Roles \ {"func"}
  BY DEF Roles, LoopRoles
<1>3. CASE CloseValues("then", CondNoElse, b)
  <2>1. CloseValues("then", CloseWith(EndSubScopes(b), Front(subscopes)), b)
    BY <1>3 DEF CloseValues, CondNoElse
  <2> HIDE DEF a, b
  <2> QED  BY <1>1, <1>2, <2>1, ValsCloseValues
<1>4. CASE PopValues("then", CondElse, << <<>> >>)
  <2>1. PopValues("then", Reopen("else"), << <<>> >>)
    BY <1>4 DEF PopValues, CondElse
  <2> QED  BY <1>2, <2>1, ValsPopReopen
<1>5. CASE PopValues("for", EndForHasElse, << <<>> >>)
  <2>1. PopValues("for", Reopen("forElse"), << <<>> >>)
    BY <1>5 DEF PopValues, EndForHasElse
  <2> QED  BY <1>2, <2>1, ValsPopReopen
<1>6. CASE PopValues("case", EndCase, <<>>)
  BY <1>6, ValsPopCase
<1>7. CASE CloseValues("else", EndCond, a)
  <2>1. CloseValues("else", CloseWith(EndSubScopes(a), Front(subscopes)), a)
    BY <1>7 DEF CloseValues, EndCond
  <2> HIDE DEF a, b
  <2> QED  BY <1>1, <1>2, <2>1, ValsCloseValues
<1>8. CASE CloseValues("for", EndFor, a)
  <2>1. CloseValues("for", CloseWith(EndSubScopes(a), Front(subscopes)), a)
    BY <1>8 DEF CloseValues, EndFor
  <2> HIDE DEF a, b
  <2> QED  BY <1>1, <1>2, <2>1, ValsCloseValues
<1>9. CASE CloseValues("forElse", EndForElse, a)
  <2>1. CloseValues("forElse", CloseWith(EndSubScopes(a), Front(subscopes)), a)
    BY <1>9 DEF CloseValues, EndForElse
  <2> HIDE DEF a, b
  <2> QED  BY <1>1, <1>2, <2>1, ValsCloseValues
<1>10. CASE CloseValues("while", EndWhile, a)
  <2>1. CloseValues("while", CloseWith(EndSubScopes(a), subscopes), a)
    BY <1>10 DEF CloseValues, EndWhile
  <2> HIDE DEF a, b
  <2> QED  BY <1>1, <1>2, <2>1, ValsCloseValues
<1>11. CASE CloseValues("tryElse", TryElseEnd, a)
  <2>1. CloseValues("tryElse", CloseWith(EndSubScopes(a), subscopes), a)
    BY <1>11 DEF CloseValues, TryElseEnd
  <2> HIDE DEF a, b
  <2> QED  BY <1>1, <1>2, <2>1, ValsCloseValues
<1>12. CASE CloseValues("defer", EndDefer, a)
  <2>1. CloseValues("defer", CloseWith(EndSubScopes(a), subscopes), a)
    BY <1>12 DEF CloseValues, EndDefer
  <2> HIDE DEF a, b
  <2> QED  BY <1>1, <1>2, <2>1, ValsCloseValues
<1>13. CASE CloseValues("block", EndStmtBlock, a)
  <2>1. CloseValues("block", CloseWith(EndSubScopes(a), subscopes), a)
    BY <1>13 DEF CloseValues, EndStmtBlock
  <2> HIDE DEF a, b
  <2> QED  BY <1>1, <1>2, <2>1, ValsCloseValues
<1> QED
  BY <1>3, <1>4, <1>5, <1>6, <1>7, <1>8, <1>9, <1>10, <1>11, <1>12, <1>13 DEF CloseLevel

LEMMA ValsEndSwitch ==
    ASSUME BInv, Vals, phase = "sema", EndSwitchValues
    PROVE  Vals'
<1>1. IInv /\ ValsOK(Depth, scopes, values)
  BY DEF BInv, Vals
<1>2. Top \in Level /\ Depth \in 1..Depth /\ InfosOK(values[Depth])
  BY <1>1, IInvStack DEF ValsOK
<1>3. CASE RejectValues
  BY <1>3, ValsStopped DEF RejectValues, Stop
<1>4. CASE EndSwitch /\ values' = [values EXCEPT ![Depth] = EndValues(@)]
  <2> DEFINE l == EndSubScopesAt(Depth, Top)
             m == EndValues(values[Depth])
  <2>1. l \in Level /\ Counted(l) /\ l.role = Top.role
    BY <1>2, EndSubScopesAtOK
  <2>2. InfosOK(m) /\ Idle(m)
    BY <1>2, EndValuesOK
  <2>3. scopes' = [scopes EXCEPT ![Depth] = l] /\ phase' = "sema"
    BY <1>4 DEF EndSwitch
  <2>4. values' = [values EXCEPT ![Depth] = m]
    BY <1>4
  <2> HIDE DEF l, m
  <2>5. Fits(m, l, 0)
    BY <2>1, <2>2, IdleFits
  <2> QED  BY <1>1, <2>1, <2>2, <2>3, <2>4, <2>5, ValsReplace
<1> QED  BY <1>3, <1>4 DEF EndSwitchValues

LEMMA ValsEndWithout ==
    ASSUME BInv, Vals, phase = "sema", EndWithout
    PROVE  Vals'
<1>1. IInv /\ ValsOK(Depth, scopes, values)
  BY DEF BInv, Vals
<1>2. values' = IF phase' = "sema" THEN Front(values) ELSE <<>>
  BY DEF EndWithout
<1>3. \A how : how # "sema" /\ Stop(how) => Vals'
  BY <1>2, ValsStopped DEF Stop
<1>4. CASE FuncDef
  <2>1. Stop("rejected") \/ phase' = "analyzed"
    BY <1>4 DEF FuncDef
  <2> QED  BY <1>2, <1>3, <2>1, ValsStopped
<1>5. CASE EndExprBlock
  <2> DEFINE p == EndSubScopes(CountClosedLabel(Parent, Top))
  <2>1. Top.role = "blockExpr" /\ (Stop("rejected") \/ Close(p, subscopes))
    BY <1>5 DEF EndExprBlock, CanClose
  <2>2. CountClosedLabel(Parent, Top) \in Level
        /\ CountClosedLabel(Parent, Top).role = Parent.role
    BY <1>1, <2>1, IInvStack, HasParent, CountClosedLabelOK
  <2>3. p \in Level /\ p.role = Parent.role /\ Counted(p)
    BY <2>2, EndSubScopesAtOK DEF EndSubScopes
  <2> HIDE DEF p
  <2>4. CASE Close(p, subscopes)
    <3>1. scopes' = Append(SubSeq(scopes, 1, Depth - 2), p) /\ phase' = "sema"
      BY <2>4 DEF Close
    <3> QED  BY <1>1, <1>2, <2>1, <2>3, <3>1, ValsEndExprBlock
  <2> QED  BY <1>3, <2>1, <2>4
<1> QED  BY <1>4, <1>5 DEF EndWithout

LEMMA ValsKeeps ==
    ASSUME BInv, Vals, AnalyzeValues
    PROVE  Vals'
<1>1. phase = "sema" /\ IInv /\ CountOK /\ Shape /\ Nest /\ ValsOK(Depth, scopes, values)
  BY DEF AnalyzeValues, BInv, Vals
<1>2. /\ Top \in Level /\ Counted(Top) /\ Top = scopes[Depth]
      /\ Depth \in Nat \ {0} /\ Depth \in 1..Depth
      /\ InfosOK(values[Depth]) /\ Fits(values[Depth], Top, 0)
  BY <1>1, IInvStack DEF ValsOK
<1>3. Top.nsub \in Nat /\ Top.nterm \in Nat /\ Top.nterm <= Top.nsub
      /\ \A v \in DOMAIN values[Depth] : values[Depth][v].num \in Nat
  <2>1. \A v \in DOMAIN values[Depth] : values[Depth][v].num \in Nat
    BY <1>2 DEF InfosOK, InfoOK
  <2> QED  BY <1>2, <2>1, LevelFields DEF Counted
<1>4. \A how : Stop(how) => scopes' = <<>> /\ phase' = how
  BY DEF Stop
<1>5. \A s, l : Add(s, l) => scopes' = [scopes EXCEPT ![Depth] = l] /\ phase' = phase
  BY DEF Add

\* The statements
<1>10. ASSUME NEW s, Add(s, Top), NEW m, InfosOK(m), Fits(m, Top, 0),
              values' = [values EXCEPT ![Depth] = m]
       PROVE  Vals'
  BY <1>1, <1>2, <1>5, <1>10, ValsReplace
<1>11. CASE Declare
  <2>1. PICK form : LocalVar(form) /\
            values' = [values EXCEPT ![Depth] =
                          Declared(@, count', IF form = "" THEN "init" ELSE "uninit")]
    BY <1>11 DEF Declare
  <2> DEFINE state == IF form = "" THEN "init" ELSE "uninit"
             m == Declared(values[Depth], count', state)
  <2>2. Add(Stmt("var", form, 0), Top)
    BY <2>1 DEF LocalVar
  <2>3. state \in States
    BY DEF States
  <2>4. values' = [values EXCEPT ![Depth] = m]
    BY <2>1
  <2> HIDE DEF state
  <2>5. InfosOK(m) /\ Fits(m, Top, 0)
    BY <1>2, <2>3, DeclaredOK
  <2> HIDE DEF m
  <2> QED  BY <1>10, <2>2, <2>4, <2>5
<1>12. ASSUME NEW kind, NEW v, NEW ok, About(kind, v, ok), NEW state \in States,
              Sets(v, state)
       PROVE  Vals'
  <2>1. CASE Stop("rejected")
    BY <1>4, <1>12, <2>1, ValsStopped DEF Sets
  <2>2. CASE Add(Stmt(kind, "", v), Top)
    <3> DEFINE m == SetState(values[Depth], v, state)
    <3>1. phase' = "sema"
      BY <1>1, <1>5, <2>2
    <3>2. values' = [values EXCEPT ![Depth] = m]
      BY <1>12, <3>1 DEF Sets
    <3>3. InfosOK(m) /\ Fits(m, Top, 0)
      BY <1>2, SetStateOK
    <3> HIDE DEF m
    <3> QED  BY <1>10, <2>2, <3>2, <3>3
  <2> QED  BY <1>12, <2>1, <2>2, AboutStep
<1>13. ASSUME NEW s, NEW l \in Level, l.role = Top.role, l.nsub = Top.nsub,
              l.nterm = Top.nterm, Add(s, l),
              values' = IF phase' = "sema" THEN values ELSE <<>>
       PROVE  Vals'
  BY <1>1, <1>5, <1>13, ValsUnchanged
<1>14. ASSUME NEW how, how # "sema", Stop(how),
              values' = IF phase' = "sema" THEN values ELSE <<>>
       PROVE  Vals'
  BY <1>4, <1>14, ValsStopped
<1>15. CASE \E v \in Variables : Use(v) \/ Move(v) \/ Assign(v) \/ Delete(v)
  <2>1. PICK v : Use(v) \/ Move(v) \/ Assign(v) \/ Delete(v)
    BY <1>15
  <2>2. CASE Use(v)
    <3>1. /\ Add(Stmt("use", "", v), Top) \/ Stop("rejected")
          /\ values' = IF phase' = "sema" THEN values ELSE <<>>
      BY <2>2, AboutStep DEF Use
    <3> QED  BY <1>2, <1>13, <1>14, <3>1
  <2>3. CASE Move(v)
    BY <1>12, <2>3 DEF Move, States
  <2>4. CASE Assign(v)
    BY <1>12, <2>4 DEF Assign, States
  <2>5. CASE Delete(v)
    BY <1>12, <2>5 DEF Delete, States
  <2> QED  BY <2>1, <2>2, <2>3, <2>4, <2>5
<1>16. \A kind \in TerminatedKinds :
          LET l == SetTerminated(Top, kind)
          IN l \in Level /\ l.role = Top.role /\ l.nsub = Top.nsub /\ l.nterm = Top.nterm
  BY <1>2, SetTerminatedOK DEF SetTerminated, Level
<1>17. CASE Jumps
  <2>1. /\ \/ \E s : Add(s, SetTerminated(Top, "loop"))
           \/ \E s : Add(s, SetTerminated(Top, "label"))
           \/ Stop("rejected")
        /\ values' = IF phase' = "sema" THEN values ELSE <<>>
    BY <1>17 DEF Jumps, Break, Continue, LabeledReturn, LoopJump
  <2> QED  BY <1>13, <1>14, <1>16, <2>1 DEF TerminatedKinds
<1>18. CASE Other
  <2>1. values' = IF phase' = "sema" THEN values ELSE <<>>
    BY <1>18 DEF Other
  <2>2. CASE Call \/ Return \/ Error \/ Unreachable
    <3>1. \/ \E s : Add(s, Top)
          \/ \E s : Add(s, SetTerminated(Top, "term"))
          \/ Stop("rejected")
      BY <2>2 DEF Call, Return, Error, Unreachable
    <3> QED  BY <1>2, <1>13, <1>14, <1>16, <2>1, <3>1 DEF TerminatedKinds
  <2>3. CASE BeginSwitch
    <3>1. scopes' = scopes /\ phase' = phase
      BY <2>3 DEF BeginSwitch
    <3> QED  BY <1>1, <2>1, <3>1 DEF Vals, Depth
  <2>4. CASE ScopeIsTerminated
    <3>1. Stop("rejected")
      BY <2>4 DEF ScopeIsTerminated, RejectTerminated
    <3> QED  BY <1>14, <2>1, <3>1
  <2> QED  BY <1>18, <2>2, <2>3, <2>4 DEF Other
<1> QED
  BY <1>1, <1>11, <1>15, <1>17, <1>18, ValsOpenLevel, ValsCloseLevel, ValsEndSwitch,
     ValsEndWithout DEF AnalyzeValues

VInv == BInv /\ Vals

LEMMA InitNest == Init => Nest
<1> SUFFICES ASSUME Init PROVE Nest
  OBVIOUS
<1> DEFINE l == NewLevel("func", 0)
<1>1. l \in Level /\ l.role = "func" /\ l.nsub = 0
  BY NewLevelOK DEF Roles, NewLevel
<1>2. scopes = <<l>> /\ Depth = 1 /\ Len(scopes) = 1 /\ Len(bodies) = 1
      /\ bodies[1] = <<>> /\ subscopes = <<>> /\ scopes[1] = l /\ phase = "sema"
  BY DEF Init, Depth
<1> HIDE DEF l
<1> DEFINE pos == <<0>>
<1>3. /\ pos \in Seq(Nat) /\ Len(pos) = 1 /\ pos[1] = 0
      /\ 1..1 = {1} /\ 1..1 - 1 = {} /\ 1..0 = {}
  OBVIOUS
<1> HIDE DEF pos
<1>4. Nested(1, scopes, bodies, subscopes, pos)
  BY <1>3 DEF Nested
<1>5. Ended(1, scopes, bodies, subscopes, pos)
  BY <1>1, <1>2, <1>3 DEF Ended, Within
<1>6. Body(<<>>)
  <2>1. <<>> \in Seq({}) /\ \A s \in {} : {"op", "id"} \subseteq DOMAIN s
    OBVIOUS
  <2> QED  BY <2>1 DEF Body
<1> QED  BY <1>2, <1>3, <1>4, <1>5, <1>6 DEF Nest

LEMMA InitVInv == ValueInit => VInv
<1> SUFFICES ASSUME ValueInit PROVE VInv
  OBVIOUS
<1> USE DEF ValueInit
<1>1. IInv /\ CountOK /\ Shape /\ Nest
  BY InitIInv, InitShape, InitNest
<1>2. Depth = 1 /\ Len(scopes) = 1 /\ phase = "sema"
  BY DEF Init, Depth
<1>3. Vals
  <2>1. values \in Seq({<<>>}) /\ Len(values) = 1 /\ values[1] = <<>>
        /\ 1..1 = {1} /\ 1..1 - 1 = {}
    OBVIOUS
  <2>2. ValsOK(1, scopes, values)
    BY ONLY <2>1, NoInfos DEF ValsOK
  <2> QED  BY <1>2, <2>2 DEF Vals
<1> QED  BY <1>1, <1>3 DEF VInv, BInv

LEMMA StepVInv == VInv /\ [AnalyzeValues]_vvars => VInv'
<1>1. ASSUME VInv, AnalyzeValues PROVE VInv'
  BY <1>1, BodyKeeps, ValsKeeps DEF VInv
<1>2. ASSUME VInv, UNCHANGED vvars PROVE VInv'
  <2>1. UNCHANGED <<scopes, bodies, subscopes, phase, count, isVoid, func, values>>
    BY <1>2 DEF vvars, svars
  <2>2. UNCHANGED svars
    BY <1>2 DEF vvars
  <2>3. (IInv /\ CountOK /\ Shape)'
    BY <1>2, <2>2, StepIInv, StepShape DEF VInv, BInv
  <2>4. Depth' = Depth
    BY <2>1 DEF Depth
  <2>5. Nest'
    BY <1>2, <2>1, <2>4 DEF VInv, BInv, Nest
  <2>6. Vals'
    BY <1>2, <2>1, <2>4 DEF VInv, Vals
  <2> QED  BY <2>3, <2>5, <2>6 DEF VInv, BInv
<1> QED  BY <1>1, <1>2

LEMMA VInvCounts == VInv => ChangesCounted
<1> SUFFICES ASSUME VInv, NEW i \in DOMAIN values, NEW v \in DOMAIN values[i]
             PROVE  values[i][v].num + (IF i < Depth THEN 1 ELSE 0)
                        <= scopes[i].nsub - scopes[i].nterm
  BY DEF ChangesCounted
<1>1. IInv /\ phase = "sema" /\ ValsOK(Depth, scopes, values)
  BY DEF VInv, BInv, Vals
<1>2. Depth \in Nat \ {0} /\ i \in 1..Depth
  BY <1>1, IInvStack DEF ValsOK
<1>3. CASE i = Depth
  BY <1>1, <1>2, <1>3 DEF ValsOK, Fits
<1>4. CASE i # Depth
  <2>1. i \in 1..Depth - 1 /\ i < Depth
    BY <1>2, <1>4
  <2> QED  BY <1>1, <2>1 DEF ValsOK, Fits
<1> QED  BY <1>3, <1>4

\* Every function body, of any size and nesting, has the counts of its variables' changes
\* right: what end_sub_scopes compares with the number of sub-scopes that reach their end
\* never exceeds it, so a body is not rejected because of a count left from before.
THEOREM ChangesCountedHolds == ValueSpec => []ChangesCounted
BY InitVInv, StepVInv, VInvCounts, PTL DEF ValueSpec
=============================================================================
