------------------------ MODULE SymbolProcsOrderProofs ------------------------
(***************************************************************************)
(* Who waits for whom, and in which order they finish: where the edges     *)
(* come from, that they make no cycle, and that a program whose SymbolProcs *)
(* can finish in some order is analysed to its end, with no error and      *)
(* nobody left waiting.                                                    *)
(***************************************************************************)
EXTENDS SymbolProcsProofs, WellFoundedInduction

Visiting == {"check", "push", "pause", "members"}

(***************************************************************************)
(* Where a worker is tells which instruction it runs, and what it has      *)
(* still to visit is named by that instruction.                            *)
(***************************************************************************)
AtVisit ==
    \A w \in Worker : pc[w] \in Visiting =>
        /\ getInstruction(job[w]).op = IF pc[w] = "members" THEN "members" ELSE "wait"
        /\ \A d \in DOMAIN todo[w] : \E e \in DOMAIN getInstruction(job[w]).on :
               todo[w][d] = getInstruction(job[w]).on[e]

AtFinish ==
    \A w \in Worker : pc[w] \in Releasing => getInstruction(job[w]).op = "finish"

\* Nobody runs on after the end of its program.
InProgram == \A p \in Proc : inst[p] <= Len(Program[p]) + 1

\* What a SymbolProc has passed has been done.
PastDone ==
    \A p \in Proc : \A i \in DOMAIN Program[p] : i < inst[p] /\ Reaches(p, i) =>
        /\ Program[p][i].op # "error"
        /\ \A k \in Kind : FinishesAt(p, i, k) => k \in finished[p]
        /\ \A q \in Proc : SpawnsAt(p, i, q) => q \in spawned

DoneAtEnd == \A p \in Proc : status[p] = "DONE" => inst[p] = Len(Program[p]) + 1

\* p is with a worker that has added it to the waiters of its members, or past that.
Added(p, i) == i < inst[p] \/ (i = inst[p] /\ \E w \in Worker : job[w] = p /\ pc[w] = "members")

\* An edge is there from the start, or an instruction has added it.
Cause ==
    \A p, q \in Proc : \A k \in Kind : waited_on_by[q][k][p] > 0 =>
        \/ k = "decl" /\ Parent[p] = q
        \/ \E i \in DOMAIN Program[p] : \/ i <= inst[p] /\ WaitsAt(p, i, q, k)
                                        \/ Added(p, i) /\ AddsAt(p, i, q, k)

\* A SymbolProc waits where an instruction has sent it to wait.
Stops(p, i) == i \in DOMAIN Program[p] /\ Program[p][i].op \in {"wait", "pause"}

WaitingAt ==
    \A p \in Proc : status[p] = "WAITING" =>
        inst[p] = 1 \/ Stops(p, inst[p]) \/ Stops(p, inst[p] - 1)

\* One that is ready is in the work manager, and one that works is worked on.
Placed ==
    ~hasHitFailCondition =>
        \A p \in Proc : status[p] \in {"IN_QUEUE", "WORKING"} =>
            queue[p] > 0 \/ \E w \in Worker : job[w] = p

Unfinished == {p \in spawned : status[p] \notin {"DONE", "ERRORED"}}
Suspended  == {p \in Proc : status[p] = "SUSPENDED"}

Counts == /\ num_procs_not_done = Cardinality(Unfinished)
          /\ num_procs_suspended = Cardinality(Suspended)

OInv == /\ AtVisit /\ AtFinish /\ InProgram /\ PastDone /\ DoneAtEnd /\ Cause /\ WaitingAt
        /\ Placed /\ Counts /\ Proc \ Later \subseteq spawned

-----------------------------------------------------------------------------
(* What a step changes. *)

\* A worker comes to look for what its SymbolProc waits for by a "wait" only, and goes on
\* with the rest of what that one names; it leaves its members and its waiters only when
\* it is through with them.
LEMMA VisitSteps ==
    ASSUME TypeOK, Jobs, NEW w \in Worker, WorkerStep(w)
    PROVE  /\ pc'[w] \in {"check", "push", "pause"} =>
                  \/ Wait(w)
                  \/ /\ pc[w] \in {"check", "push"} /\ UNCHANGED <<inst, job>>
                     /\ \/ UNCHANGED todo
                        \/ todo[w] # <<>> /\ todo'[w] = Tail(todo[w])
           /\ pc'[w] = "push" => WaitCheck(w)
           /\ pc[w] \in {"put", "cas"} =>
                  PutEnd(w) \/ (pc'[w] \in {"put", "cas"} /\ UNCHANGED <<inst, job>>)
           /\ pc[w] = "members" =>
                  MembersEnd(w) \/ (pc'[w] = "members" /\ UNCHANGED <<inst, job>>)
<1> DEFINE Goal == /\ pc'[w] \in {"check", "push", "pause"} =>
                          \/ Wait(w)
                          \/ /\ pc[w] \in {"check", "push"} /\ UNCHANGED <<inst, job>>
                             /\ \/ UNCHANGED todo
                                \/ todo[w] # <<>> /\ todo'[w] = Tail(todo[w])
                   /\ pc'[w] = "push" => WaitCheck(w)
                   /\ pc[w] \in {"put", "cas"} =>
                          PutEnd(w) \/ (pc'[w] \in {"put", "cas"} /\ UNCHANGED <<inst, job>>)
                   /\ pc[w] = "members" =>
                          MembersEnd(w) \/ (pc'[w] = "members" /\ UNCHANGED <<inst, job>>)
<1>0. pc \in [Worker -> WorkerPC] /\ todo \in [Worker -> Seq(Proc \X Kind)]
  BY DEF TypeOK
<1>1. CASE Wait(w)
  BY <1>0, <1>1 DEF Wait, Runs, Goto
<1>2. CASE WaitCheck(w)
  <2>1. pc[w] = "check" /\ todo[w] # <<>> /\ UNCHANGED <<inst, job>>
    BY <1>2 DEF WaitCheck
  <2>2. todo' = todo \/ todo' = [todo EXCEPT ![w] = Tail(todo[w])]
    BY <1>2 DEF WaitCheck
  <2>3. todo' = todo \/ todo'[w] = Tail(todo[w])
    BY <1>0, <2>2
  <2> QED  BY <1>2, <2>1, <2>3
<1>3. CASE WaitPush(w)
  <2>1. pc[w] = "push" /\ todo[w] # <<>> /\ UNCHANGED <<inst, job>>
    BY <1>3 DEF WaitPush, Jobs, JobOK
  <2>2. todo' = todo \/ todo' = [todo EXCEPT ![w] = Tail(todo[w])]
    BY <1>3 DEF WaitPush
  <2>3. todo' = todo \/ todo'[w] = Tail(todo[w])
    BY <1>0, <2>2
  <2>4. Goto(w, "check") \/ Goto(w, "errored")
    BY <1>3 DEF WaitPush
  <2>5. pc'[w] # "push"
    BY <1>0, <2>4 DEF Goto
  <2> QED  BY <2>1, <2>3, <2>5
<1>4. CASE WaitEnd(w)
  <2>1. pc[w] = "check" /\ UNCHANGED <<todo, job>>
    BY <1>4 DEF WaitEnd, locals
  <2>2. (Goto(w, "pause") /\ UNCHANGED inst) \/ Goto(w, "run")
    BY <1>4 DEF WaitEnd, nextInstruction
  <2>3. (pc'[w] = "pause" /\ UNCHANGED inst) \/ pc'[w] = "run"
    BY <1>0, <2>2 DEF Goto
  <2> QED  BY <2>1, <2>3
<1>5. CASE (\E q \in Proc : PutLook(w, q)) \/ setStatusInQueueIfNotAlreadyDone(w)
  <2>1. pc[w] \in {"put", "cas"} /\ UNCHANGED <<inst, job>>
    BY <1>5 DEF PutLook, setStatusInQueueIfNotAlreadyDone
  <2>2. UNCHANGED pc \/ \E l \in {"put", "cas"} : Goto(w, l)
    BY <1>5 DEF PutLook, setStatusInQueueIfNotAlreadyDone
  <2>3. pc'[w] \in {"put", "cas"}
    BY <1>0, <2>1, <2>2 DEF Goto
  <2> QED  BY <2>1, <2>3
<1>6. CASE PutEnd(w) \/ MembersEnd(w) \/ Members(w)
  <2>1. \E l \in {"run", "members"} : Goto(w, l)
    BY <1>6 DEF PutEnd, MembersEnd, Members, nextInstruction
  <2>2. pc'[w] \in {"run", "members"}
    BY <1>0, <2>1 DEF Goto
  <2>3. PutEnd(w) \/ pc[w] \notin {"put", "cas"}
    BY <1>6 DEF MembersEnd, Members, Runs
  <2>4. MembersEnd(w) \/ pc[w] # "members"
    BY <1>6 DEF PutEnd, Members, Runs
  <2> QED  BY <2>2, <2>3, <2>4
<1>7. CASE AddToMember(w)
  BY <1>7 DEF AddToMember
<1>8. CASE Finish(w) \/ ReleaseEnd(w) \/ (\E q \in Proc : \E k \in Kind : Release(w, k, q))
  <2>1. pc[w] \notin {"put", "cas", "members"}
    BY <1>8 DEF Finish, ReleaseEnd, Release, Runs
  <2>2. (pc[w] = "release" /\ UNCHANGED pc) \/ \E l \in {"put", "release"} : Goto(w, l)
    BY <1>8 DEF Finish, ReleaseEnd, Release
  <2>3. pc'[w] \in {"put", "release"}
    BY <1>0, <2>2 DEF Goto
  <2> QED  BY <2>1, <2>3
<1>9. CASE (\E p \in Proc : Take(w, p)) \/ Start(w) \/ Done(w) \/ Errored(w) \/ Error(w)
           \/ ErrorNoReport(w) \/ NeedToWait(w) \/ Suspend(w) \/ Select(w) \/ Spawn(w)
  <2>1. pc[w] \notin {"put", "cas", "members"}
    BY <1>9 DEF Take, Start, Done, Errored, Error, ErrorNoReport, NeedToWait, Suspend, Select,
                Spawn, Runs
  <2>2. pc'[w] \in {"start", "run", "idle", "errored"}
    <3>1. ErrorNoReport(w) \/ \E l \in {"start", "run", "idle", "errored"} : Goto(w, l)
      BY <1>9 DEF Take, Start, Done, Errored, Error, NeedToWait, Suspend, Select, Spawn,
                  LeaveAnalyze, nextInstruction
    <3> QED  BY <1>0, <3>1 DEF Goto, ErrorNoReport, Runs
  <2> QED  BY <2>1, <2>2
<1> QED  BY <1>1, <1>2, <1>3, <1>4, <1>5, <1>6, <1>7, <1>8, <1>9 DEF WorkerStep

\* What takes a SymbolProc on in its program: it finishes what it has released the waiters
\* of, and runs what it spawns.
LEMMA Advance ==
    ASSUME TypeOK, Jobs, AtVisit, AtFinish, NEW w \in Worker, WorkerStep(w), NEW p \in Proc,
           inst'[p] # inst[p]
    PROVE  /\ p = job[w] /\ inst[p] <= Len(Program[p])
           /\ \/ /\ inst'[p] = inst[p] + 1
                 /\ getInstruction(p).op \notin {"error", "no_report"}
                 /\ getInstruction(p).op = "finish" => PutEnd(w)
                 /\ getInstruction(p).op = "members" => MembersEnd(w)
                 /\ getInstruction(p).op = "spawn" => Spawn(w)
              \/ /\ inst'[p] = Len(Program[p]) + 1
                 /\ getInstruction(p).op = "no_report"
<1> DEFINE Goal ==
        /\ p = job[w] /\ inst[p] <= Len(Program[p])
        /\ \/ /\ inst'[p] = inst[p] + 1
              /\ getInstruction(p).op \notin {"error", "no_report"}
              /\ getInstruction(p).op = "finish" => PutEnd(w)
              /\ getInstruction(p).op = "members" => MembersEnd(w)
              /\ getInstruction(p).op = "spawn" => Spawn(w)
           \/ /\ inst'[p] = Len(Program[p]) + 1
              /\ getInstruction(p).op = "no_report"
<1>0. inst \in [Proc -> Nat \ {0}] /\ pc \in [Worker -> WorkerPC]
  BY DEF TypeOK
<1>r. ASSUME NEW op \in Op \ {"error", "no_report"}, getInstruction(job[w]).op = op,
             pc[w] \in Inside \/ (pc[w] = "run" /\ ~isAtEnd(job[w])),
             inst' = [inst EXCEPT ![job[w]] = inst[job[w]] + 1],
             op = "finish" => PutEnd(w), op = "members" => MembersEnd(w),
             op = "spawn" => Spawn(w)
      PROVE  Goal
  BY <1>0, <1>r, Current
<1>1. CASE PutEnd(w)
  <2>1. getInstruction(job[w]).op = "finish"
    BY <1>1 DEF AtFinish, Releasing, PutEnd
  <2> QED  BY <1>1, <1>r, <2>1 DEF PutEnd, nextInstruction, Inside, Op
<1>2. CASE MembersEnd(w)
  <2>1. getInstruction(job[w]).op = "members"
    BY <1>2 DEF AtVisit, Visiting, MembersEnd
  <2> QED  BY <1>2, <1>r, <2>1 DEF MembersEnd, nextInstruction, Inside, Op
<1>3. CASE WaitEnd(w)
  <2>1. getInstruction(job[w]).op = "wait" /\ pc[w] = "check"
    BY <1>3 DEF AtVisit, Visiting, WaitEnd
  <2>2. inst' = [inst EXCEPT ![job[w]] = inst[job[w]] + 1]
    BY <1>3 DEF WaitEnd, nextInstruction
  <2> QED  BY <1>r, <2>1, <2>2 DEF Inside, Op
<1>4. CASE NeedToWait(w)
  <2>1. PICK op \in {"wait", "pause"} : getInstruction(job[w]).op = op
    BY <1>4 DEF AtVisit, Visiting, NeedToWait, Runs
  <2>2. pc[w] \in Inside \/ (pc[w] = "run" /\ ~isAtEnd(job[w]))
    BY <1>4 DEF NeedToWait, Runs, Inside
  <2>3. inst' = [inst EXCEPT ![job[w]] = inst[job[w]] + 1]
    <3>1. inst' = [inst EXCEPT ![job[w]] = IF getInstruction(job[w]).again
                                             THEN inst[job[w]] ELSE inst[job[w]] + 1]
      BY <1>4 DEF NeedToWait
    <3> QED  BY <1>0, <3>1
  <2> QED  BY <1>r, <2>1, <2>2, <2>3 DEF Op
<1>5. CASE Suspend(w)
  BY <1>5, <1>r DEF Suspend, Runs, Op
<1>6. CASE Select(w)
  BY <1>6, <1>r DEF Select, Runs, nextInstruction, Op
<1>7. CASE Spawn(w)
  BY <1>7, <1>r DEF Spawn, Runs, nextInstruction, Op
<1>8. CASE ErrorNoReport(w)
  <2>1. p = job[w] /\ inst'[p] = Len(Program[p]) + 1 /\ getInstruction(p).op = "no_report"
    BY <1>0, <1>8 DEF ErrorNoReport, Runs
  <2>2. inst[p] <= Len(Program[p])
    BY <1>8, <2>1, Current DEF ErrorNoReport, Runs
  <2> QED  BY <2>1, <2>2
<1>9. CASE (\E q \in Proc : Take(w, q)) \/ Start(w) \/ Done(w) \/ Errored(w) \/ Error(w)
           \/ Wait(w) \/ WaitCheck(w) \/ WaitPush(w) \/ Members(w) \/ AddToMember(w)
           \/ Finish(w) \/ ReleaseEnd(w) \/ (\E q \in Proc : PutLook(w, q))
           \/ (\E q \in Proc : \E k \in Kind : Release(w, k, q))
           \/ setStatusInQueueIfNotAlreadyDone(w)
  BY <1>9 DEF Take, Start, Done, Errored, Error, Wait, WaitCheck, WaitPush, Members,
              AddToMember, Finish, ReleaseEnd, PutLook, Release,
              setStatusInQueueIfNotAlreadyDone
<1> QED  BY <1>1, <1>2, <1>3, <1>4, <1>5, <1>6, <1>7, <1>8, <1>9 DEF WorkerStep

-----------------------------------------------------------------------------
(* OInv *)

LEMMA AtVisitStep ==
    ASSUME IInv, AtVisit, NEW w \in Worker, WorkerStep(w)
    PROVE  AtVisit'
<1>0. TypeOK /\ Jobs
  BY DEF IInv
<1> SUFFICES ASSUME NEW v \in Worker, pc'[v] \in Visiting
             PROVE  /\ getInstruction(job[v])'.op = IF pc'[v] = "members" THEN "members" ELSE "wait"
                    /\ \A d \in DOMAIN todo'[v] : \E e \in DOMAIN getInstruction(job[v])'.on :
                           todo'[v][d] = getInstruction(job[v])'.on[e]
  BY DEF AtVisit, getInstruction
<1>1. CASE v # w
  <2>1. pc[v] \in Visiting
    BY <1>0, <1>1, Frame
  <2>2. /\ pc'[v] = pc[v] /\ todo'[v] = todo[v]
        /\ getInstruction(job[v])' = getInstruction(job[v])
    BY <1>0, <1>1, <2>1, OthersStay DEF Visiting
  <2> QED  BY <2>1, <2>2 DEF AtVisit
<1>2. CASE v = w /\ (Wait(w) \/ Members(w))
  <2>1. /\ UNCHANGED <<inst, job>> /\ todo'[w] = getInstruction(job[w]).on
        /\ getInstruction(job[w]).op = IF pc'[w] = "members" THEN "members" ELSE "wait"
    BY <1>0, <1>2 DEF Wait, Members, Runs, Goto, TypeOK
  <2> QED  BY <1>2, <2>1 DEF getInstruction
<1>3. CASE /\ v = w /\ pc[w] \in Visiting /\ UNCHANGED <<inst, job>>
           /\ pc'[w] = "members" <=> pc[w] = "members"
           /\ todo'[w] = todo[w] \/ (todo[w] # <<>> /\ todo'[w] = Tail(todo[w]))
  <2>1. todo[w] \in Seq(Proc \X Kind)
    BY <1>0 DEF TypeOK
  <2>2. todo[w] # <<>> => \A d \in DOMAIN Tail(todo[w]) :
            d + 1 \in DOMAIN todo[w] /\ Tail(todo[w])[d] = todo[w][d + 1]
    BY <2>1
  <2>3. /\ getInstruction(job[w]).op = IF pc[w] = "members" THEN "members" ELSE "wait"
        /\ \A d \in DOMAIN todo[w] : \E e \in DOMAIN getInstruction(job[w]).on :
               todo[w][d] = getInstruction(job[w]).on[e]
    BY <1>3 DEF AtVisit
  <2>4. \A d \in DOMAIN todo'[w] : \E e \in DOMAIN todo[w] : todo'[w][d] = todo[w][e]
    BY <1>3, <2>2
  <2>5. getInstruction(job[w])' = getInstruction(job[w])
    BY <1>3 DEF getInstruction
  <2> QED  BY <1>3, <2>3, <2>4, <2>5
<1>4. CASE v = w /\ AddToMember(w)
  <2>1. /\ pc[w] = "members" /\ UNCHANGED <<pc, inst, job>> /\ todo[w] # <<>>
        /\ todo'[w] = Tail(todo[w])
    BY <1>0, <1>4 DEF AddToMember, TypeOK
  <2> QED  BY <1>3, <1>4, <2>1 DEF Visiting
<1>5. CASE v = w /\ ~Wait(w) /\ pc'[w] \in {"check", "push", "pause"}
  <2>1. /\ pc[w] \in {"check", "push"} /\ UNCHANGED <<inst, job>>
        /\ todo' = todo \/ (todo[w] # <<>> /\ todo'[w] = Tail(todo[w]))
    BY <1>0, <1>5, VisitSteps
  <2>2. todo'[w] = todo[w] \/ (todo[w] # <<>> /\ todo'[w] = Tail(todo[w]))
    BY <2>1
  <2> QED  BY <1>3, <1>5, <2>1, <2>2 DEF Visiting
<1> QED  BY <1>0, <1>1, <1>2, <1>4, <1>5, PlaceSteps DEF Visiting

LEMMA AtFinishStep ==
    ASSUME IInv, AtFinish, NEW w \in Worker, WorkerStep(w)
    PROVE  AtFinish'
<1>0. TypeOK /\ Jobs
  BY DEF IInv
<1> SUFFICES ASSUME NEW v \in Worker, pc'[v] \in Releasing
             PROVE  getInstruction(job[v])'.op = "finish"
  BY DEF AtFinish, getInstruction
<1>1. CASE v # w
  <2>1. pc[v] \in Releasing
    BY <1>0, <1>1, Frame
  <2> QED  BY <1>0, <1>1, <2>1, OthersStay DEF AtFinish, Releasing
<1>2. CASE v = w /\ Finish(w)
  BY <1>2 DEF Finish, Runs, getInstruction
<1>3. CASE v = w /\ pc[w] \in Releasing /\ UNCHANGED <<inst, job>>
  BY <1>3 DEF AtFinish, getInstruction
<1> QED  BY <1>0, <1>1, <1>2, <1>3, PlaceSteps

LEMMA InProgramStep ==
    ASSUME IInv, OInv, NEW w \in Worker, WorkerStep(w)
    PROVE  InProgram'
<1>0. TypeOK /\ Jobs /\ AtVisit /\ AtFinish /\ InProgram
  BY DEF IInv, OInv
<1> SUFFICES ASSUME NEW p \in Proc PROVE inst'[p] <= Len(Program[p]) + 1
  BY DEF InProgram
<1>1. inst[p] \in Nat /\ Len(Program[p]) \in Nat
  BY <1>0, ProgramAssumption DEF TypeOK
<1>2. CASE inst'[p] = inst[p]
  BY <1>0, <1>2 DEF InProgram
<1>3. CASE inst'[p] # inst[p]
  <2>1. inst[p] <= Len(Program[p])
        /\ (inst'[p] = inst[p] + 1 \/ inst'[p] = Len(Program[p]) + 1)
    BY <1>0, <1>3, Advance
  <2> QED  BY <1>1, <2>1
<1> QED  BY <1>2, <1>3

LEMMA PastDoneStep ==
    ASSUME IInv, WInv, OInv, NEW w \in Worker, WorkerStep(w)
    PROVE  PastDone'
<1>0. TypeOK /\ Jobs /\ Marked /\ AtVisit /\ AtFinish /\ PastDone
  BY DEF IInv, WInv, OInv
<1> SUFFICES ASSUME NEW p \in Proc, NEW i \in DOMAIN Program[p], i < inst'[p], Reaches(p, i)
             PROVE  /\ Program[p][i].op # "error"
                    /\ \A k \in Kind : FinishesAt(p, i, k) => k \in finished'[p]
                    /\ \A q \in Proc : SpawnsAt(p, i, q) => q \in spawned'
  BY DEF PastDone
<1>1. inst[p] \in Nat \ {0} /\ Len(Program[p]) \in Nat /\ DOMAIN Program[p] = 1..Len(Program[p])
  BY <1>0, ProgramAssumption DEF TypeOK
<1>2. finished[p] \subseteq finished'[p] /\ spawned \subseteq spawned'
  BY <1>0, FinishedGrows, SpawnSteps
<1>3. CASE i < inst[p]
  BY <1>0, <1>2, <1>3 DEF PastDone
<1>4. CASE i >= inst[p]
  <2>1. inst'[p] # inst[p]
    BY <1>1, <1>4
  <2>2. getInstruction(p).op # "no_report"
    <3>1. inst[p] \in 1..i /\ Program[p][inst[p]] = getInstruction(p)
      BY <1>1, <1>4 DEF getInstruction
    <3> QED  BY <3>1 DEF Reaches
  <2>3. /\ p = job[w] /\ inst'[p] = inst[p] + 1 /\ getInstruction(p).op # "error"
        /\ getInstruction(p).op = "finish" => PutEnd(w)
        /\ getInstruction(p).op = "spawn" => Spawn(w)
    BY <1>0, <2>1, <2>2, Advance
  <2>4. i = inst[p] /\ Program[p][i] = getInstruction(p)
    BY <1>1, <1>4, <2>3 DEF getInstruction
  <2>5. ASSUME NEW k \in Kind, FinishesAt(p, i, k) PROVE k \in finished[p]
    <3>1. PutEnd(w) /\ k \in getInstruction(p).kinds
      BY <2>3, <2>4, <2>5 DEF FinishesAt
    <3> QED  BY <1>0, <2>3, <3>1 DEF PutEnd, Marked, Releasing
  <2>6. ASSUME NEW q \in Proc, SpawnsAt(p, i, q) PROVE q \in spawned'
    <3>1. Spawn(w) /\ getInstruction(job[w]).on[1][1] = q
      BY <2>3, <2>4, <2>6 DEF SpawnsAt
    <3> QED  BY <3>1 DEF Spawn, counters
  <2> QED  BY <1>2, <2>3, <2>4, <2>5, <2>6
<1> QED  BY <1>1, <1>3, <1>4

\* A SymbolProc is done or errored only where its own worker says so, and sent to wait only
\* by an instruction that does.
LEMMA RestSteps ==
    ASSUME TypeOK, Jobs, NEW w \in Worker, WorkerStep(w), NEW p \in Proc, status'[p] # status[p]
    PROVE  /\ status'[p] = "DONE" => Done(w) /\ p = job[w]
           /\ status'[p] = "ERRORED" => Errored(w)
           /\ status'[p] = "WAITING" => NeedToWait(w) /\ p = job[w]
<1> DEFINE Goal == /\ status'[p] = "DONE" => Done(w) /\ p = job[w]
                   /\ status'[p] = "ERRORED" => Errored(w)
                   /\ status'[p] = "WAITING" => NeedToWait(w) /\ p = job[w]
<1>0. status \in [Proc -> Status]
  BY DEF TypeOK
<1>1. CASE Start(w) \/ Done(w) \/ Errored(w) \/ NeedToWait(w) \/ Suspend(w)
  <2>1. \/ UNCHANGED status
        \/ (Start(w) \/ Suspend(w)) /\ \E s \in {"WORKING", "SUSPENDED"} :
               status' = [status EXCEPT ![job[w]] = s]
        \/ Done(w) /\ status' = [status EXCEPT ![job[w]] = "DONE"]
        \/ Errored(w) /\ status' = [status EXCEPT ![job[w]] = "ERRORED"]
        \/ NeedToWait(w) /\ status' = [status EXCEPT ![job[w]] = "WAITING"]
    BY <1>1 DEF Start, Done, Errored, NeedToWait, Suspend
  <2> QED  BY <1>0, <2>1
<1>2. CASE WaitPush(w) \/ Select(w) \/ Spawn(w) \/ setStatusInQueueIfNotAlreadyDone(w)
  <2>1. UNCHANGED status \/ \E q : status' = [status EXCEPT ![q] = "IN_QUEUE"]
    BY <1>2 DEF WaitPush, Select, Spawn, setStatusInQueueIfNotAlreadyDone, unsuspend
  <2> QED  BY <1>0, <2>1
<1>3. CASE (\E q \in Proc : Take(w, q)) \/ Error(w) \/ ErrorNoReport(w) \/ Wait(w)
           \/ WaitCheck(w) \/ WaitEnd(w) \/ Members(w) \/ AddToMember(w) \/ MembersEnd(w)
           \/ Finish(w) \/ ReleaseEnd(w) \/ PutEnd(w) \/ (\E q \in Proc : PutLook(w, q))
           \/ (\E q \in Proc : \E k \in Kind : Release(w, k, q))
  BY <1>3 DEF Take, Error, ErrorNoReport, Wait, WaitCheck, WaitEnd, Members, AddToMember,
              MembersEnd, Finish, ReleaseEnd, PutEnd, PutLook, Release
<1> QED  BY <1>1, <1>2, <1>3 DEF WorkerStep

LEMMA DoneAtEndStep ==
    ASSUME IInv, OInv, NEW w \in Worker, WorkerStep(w)
    PROVE  DoneAtEnd'
<1>0. TypeOK /\ Jobs /\ AtVisit /\ AtFinish /\ InProgram /\ DoneAtEnd
  BY DEF IInv, OInv
<1> SUFFICES ASSUME NEW p \in Proc, status'[p] = "DONE" PROVE inst'[p] = Len(Program[p]) + 1
  BY DEF DoneAtEnd
<1>1. inst[p] \in Nat /\ Len(Program[p]) \in Nat
  BY <1>0, ProgramAssumption DEF TypeOK
<1>2. inst[p] = Len(Program[p]) + 1
  <2>1. CASE status[p] = "DONE"
    BY <1>0, <2>1 DEF DoneAtEnd
  <2>2. CASE status[p] # "DONE"
    <3>1. inst[p] > Len(Program[p])
      BY <1>0, <2>2, RestSteps DEF Done, isAtEnd
    <3>2. inst[p] <= Len(Program[p]) + 1
      BY <1>0 DEF InProgram
    <3> QED  BY <1>1, <3>1, <3>2
  <2> QED  BY <2>1, <2>2
<1>3. inst'[p] = inst[p]
  <2> SUFFICES ASSUME inst'[p] # inst[p] PROVE FALSE
    OBVIOUS
  <2>1. inst[p] <= Len(Program[p])
    BY <1>0, Advance
  <2> QED  BY <1>1, <1>2, <2>1
<1> QED  BY <1>2, <1>3

LEMMA WaitingAtStep ==
    ASSUME IInv, OInv, NEW w \in Worker, WorkerStep(w)
    PROVE  WaitingAt'
<1>0. TypeOK /\ Jobs /\ OneRunner /\ AtVisit /\ AtFinish /\ WaitingAt
  BY DEF IInv, OInv
<1> SUFFICES ASSUME NEW p \in Proc, status'[p] = "WAITING"
             PROVE  inst'[p] = 1 \/ Stops(p, inst'[p]) \/ Stops(p, inst'[p] - 1)
  BY DEF WaitingAt
<1>1. CASE status[p] = "WAITING"
  <2>1. inst'[p] = inst[p]
    <3> SUFFICES ASSUME inst'[p] # inst[p] PROVE FALSE
      OBVIOUS
    <3>1. p = job[w]
      BY <1>0, Advance
    <3> QED  BY <1>0, <1>1, <3>1, ProcAssumption DEF OneRunner
  <2> QED  BY <1>0, <1>1, <2>1 DEF WaitingAt
<1>2. CASE status[p] # "WAITING"
  <2>1. NeedToWait(w) /\ p = job[w]
    BY <1>0, <1>2, RestSteps
  <2>2. getInstruction(p).op \in {"wait", "pause"}
    BY <1>0, <2>1 DEF NeedToWait, AtVisit, Visiting, Runs
  <2>3. inst[p] \in Nat \ {0} /\ inst[p] <= Len(Program[p]) /\ Len(Program[p]) \in Nat
        /\ DOMAIN Program[p] = 1..Len(Program[p])
    BY <1>0, <2>1, Current, ProgramAssumption DEF NeedToWait, Runs, Inside, TypeOK
  <2>4. inst[p] \in DOMAIN Program[p]
    BY <2>3
  <2>5. Stops(p, inst[p])
    BY <2>2, <2>4 DEF Stops, getInstruction
  <2>6. inst'[p] = inst[p] \/ inst'[p] = inst[p] + 1
    BY <1>0, <2>1 DEF NeedToWait, TypeOK
  <2>7. inst'[p] = inst[p] + 1 => inst'[p] - 1 = inst[p]
    BY <2>3
  <2> QED  BY <2>5, <2>6, <2>7
<1> QED  BY <1>1, <1>2

\* What a worker is to visit next is named by the instruction that it runs.
LEMMA ToVisit ==
    ASSUME TypeOK, Jobs, AtVisit, NEW w \in Worker, pc[w] \in Visiting, todo[w] # <<>>
    PROVE  /\ inst[job[w]] \in DOMAIN Program[job[w]]
           /\ IF pc[w] = "members"
                THEN AddsAt(job[w], inst[job[w]], Head(todo[w])[1], Head(todo[w])[2])
                ELSE WaitsAt(job[w], inst[job[w]], Head(todo[w])[1], Head(todo[w])[2])
<1> DEFINE id == job[w]
           on == Head(todo[w])[1]
           kind == Head(todo[w])[2]
<1>1. id \in Proc /\ inst[id] <= Len(Program[id])
  BY Current DEF Visiting, Inside
<1>2. inst[id] \in Nat \ {0} /\ DOMAIN Program[id] = 1..Len(Program[id])
      /\ Len(Program[id]) \in Nat
  BY <1>1, ProgramAssumption DEF TypeOK
<1>3. inst[id] \in DOMAIN Program[id]
  BY <1>1, <1>2
<1>4. todo[w] \in Seq(Proc \X Kind)
  BY DEF TypeOK
<1>5. 1 \in DOMAIN todo[w] /\ todo[w][1] = <<on, kind>>
  <2>1. 1 \in DOMAIN todo[w] /\ todo[w][1] = Head(todo[w]) /\ todo[w][1] \in Proc \X Kind
    BY <1>4
  <2> QED  BY <2>1
<1>6. /\ Program[id][inst[id]].op = IF pc[w] = "members" THEN "members" ELSE "wait"
      /\ \E e \in DOMAIN Program[id][inst[id]].on : todo[w][1] = Program[id][inst[id]].on[e]
  BY <1>5 DEF AtVisit, getInstruction
<1> QED  BY <1>3, <1>5, <1>6 DEF WaitsAt, AddsAt

\* A step that adds an edge adds the one that its instruction names.
LEMMA LinkPlaces ==
    ASSUME TypeOK, Jobs, AtVisit, NEW w \in Worker, WorkerStep(w)
    PROVE  \/ UNCHANGED <<waiting_for, waited_on_by>>
           \/ \E q \in Proc : \E k \in Kind : Release(w, k, q)
           \/ /\ WaitPush(w) \/ AddToMember(w)
              /\ job[w] \in Proc /\ Head(todo[w])[1] \in Proc /\ Head(todo[w])[2] \in Kind
              /\ Link(job[w], Head(todo[w])[1], Head(todo[w])[2])
              /\ inst[job[w]] \in DOMAIN Program[job[w]]
              /\ WaitPush(w) =>
                     WaitsAt(job[w], inst[job[w]], Head(todo[w])[1], Head(todo[w])[2])
              /\ AddToMember(w) =>
                     AddsAt(job[w], inst[job[w]], Head(todo[w])[1], Head(todo[w])[2])
<1> DEFINE id == job[w]
           on == Head(todo[w])[1]
           kind == Head(todo[w])[2]
<1>1. ASSUME WaitPush(w) \/ AddToMember(w)
      PROVE  /\ id \in Proc /\ on \in Proc /\ kind \in Kind
             /\ inst[id] \in DOMAIN Program[id]
             /\ WaitPush(w) => WaitsAt(id, inst[id], on, kind)
             /\ AddToMember(w) => AddsAt(id, inst[id], on, kind)
  <2>1. todo[w] # <<>> /\ pc[w] \in {"push", "members"}
    BY <1>1 DEF WaitPush, AddToMember, Jobs, JobOK
  <2>2. WaitPush(w) => pc[w] = "push"
    BY DEF WaitPush
  <2>3. AddToMember(w) => pc[w] = "members"
    BY DEF AddToMember
  <2> QED  BY <2>1, <2>2, <2>3, HasJob, HeadTodo, ToVisit DEF Visiting
<1>2. CASE WaitPush(w)
  <2>1. UNCHANGED <<waiting_for, waited_on_by>> \/ Link(id, on, kind)
    BY <1>2 DEF WaitPush
  <2> QED  BY <1>1, <1>2, <2>1
<1>3. CASE AddToMember(w)
  <2>1. Link(id, on, kind)
    BY <1>3 DEF AddToMember
  <2> QED  BY <1>1, <1>3, <2>1
<1>4. CASE (\E p \in Proc : Take(w, p)) \/ Start(w) \/ Done(w) \/ Errored(w) \/ Error(w)
           \/ ErrorNoReport(w) \/ NeedToWait(w) \/ Suspend(w) \/ Wait(w) \/ WaitCheck(w)
           \/ WaitEnd(w) \/ Members(w) \/ MembersEnd(w)
  BY <1>4 DEF Take, Start, Done, Errored, Error, ErrorNoReport, NeedToWait, Suspend, Wait,
              WaitCheck, WaitEnd, Members, MembersEnd, graph
<1>5. CASE Finish(w) \/ ReleaseEnd(w) \/ PutEnd(w) \/ (\E q \in Proc : PutLook(w, q))
           \/ (\E q \in Proc : \E k \in Kind : Release(w, k, q))
           \/ setStatusInQueueIfNotAlreadyDone(w) \/ Select(w) \/ Spawn(w)
  BY <1>5 DEF Finish, ReleaseEnd, PutEnd, PutLook, setStatusInQueueIfNotAlreadyDone, Select,
              Spawn, graph
<1> QED  BY <1>2, <1>3, <1>4, <1>5 DEF WorkerStep

\* Edges that are there after a step and were not before it are the one it adds.
LEMMA EdgeBefore ==
    ASSUME TypeOK, TypeOK', Jobs, AtVisit, NEW w \in Worker, WorkerStep(w),
           NEW p \in Proc, NEW q \in Proc, NEW k \in Kind, waited_on_by'[q][k][p] > 0,
           ~(waited_on_by[q][k][p] > 0)
    PROVE  /\ WaitPush(w) \/ AddToMember(w)
           /\ p = job[w] /\ Link(p, q, k) /\ inst[p] \in DOMAIN Program[p]
           /\ WaitPush(w) => WaitsAt(p, inst[p], q, k)
           /\ AddToMember(w) => AddsAt(p, inst[p], q, k)
<1> DEFINE on == Head(todo[w])[1]
           kind == Head(todo[w])[2]
<1>a. waited_on_by \in [Proc -> [Kind -> [Proc -> Nat]]]
      /\ waited_on_by' \in [Proc -> [Kind -> [Proc -> Nat]]]
  BY DEF TypeOK
<1>0. waited_on_by \in [Proc -> [Kind -> [Proc -> Nat]]] /\ waited_on_by[q][k][p] \in Nat
      /\ waited_on_by'[q][k][p] \in Nat
  BY <1>a
<1>1. ~UNCHANGED waited_on_by
  OBVIOUS
<1>2. ASSUME NEW id \in Proc, NEW j \in Kind, Release(w, j, id) PROVE FALSE
  <2>1. waited_on_by'[q][k][p] <= waited_on_by[q][k][p]
    BY <1>2, EdgeCounts
  <2> QED  BY <1>0, <2>1
<1>3. /\ WaitPush(w) \/ AddToMember(w)
      /\ job[w] \in Proc /\ on \in Proc /\ kind \in Kind
      /\ Link(job[w], on, kind)
      /\ inst[job[w]] \in DOMAIN Program[job[w]]
      /\ WaitPush(w) => WaitsAt(job[w], inst[job[w]], on, kind)
      /\ AddToMember(w) => AddsAt(job[w], inst[job[w]], on, kind)
  BY <1>1, <1>2, LinkPlaces
<1>4. on = q /\ kind = k /\ p = job[w]
  <2> DEFINE id == job[w]
             bag == Add(waited_on_by[on][kind], id)
  <2>1. /\ waited_on_by' = [waited_on_by EXCEPT ![on][kind] = bag]
        /\ \A r \in Proc \ {id} : bag[r] = waited_on_by[on][kind][r]
    <3>1. waited_on_by' = [waited_on_by EXCEPT ![on][kind] = bag]
      BY <1>3 DEF Link
    <3>2. waited_on_by[on][kind] \in [Proc -> Nat]
      BY <1>0, <1>3
    <3>3. \A r \in Proc \ {id} : bag[r] = waited_on_by[on][kind][r]
      BY ONLY <3>2 DEF Add
    <3> QED  BY <3>1, <3>3
  <2>2. on \in Proc /\ kind \in Kind
    BY <1>3
  <2> HIDE DEF on, kind, id, bag
  <2>3. CASE on # q
    <3>1. waited_on_by'[q] = waited_on_by[q]
      BY <1>0, <2>1, <2>3
    <3> QED  BY <3>1
  <2>4. CASE on = q /\ kind # k
    <3>1. waited_on_by'[q][k] = waited_on_by[q][k]
      BY <1>0, <2>1, <2>4
    <3> QED  BY <3>1
  <2>5. CASE on = q /\ kind = k /\ p # id
    <3>1. waited_on_by'[q][k] = bag
      BY <1>0, <2>1, <2>5
    <3>2. bag[p] = waited_on_by[q][k][p]
      BY <2>1, <2>5
    <3> QED  BY <3>1, <3>2
  <2> QED  BY <2>3, <2>4, <2>5 DEF id
<1> QED  BY <1>3, <1>4

LEMMA CauseStep ==
    ASSUME IInv, OInv, NEW w \in Worker, WorkerStep(w)
    PROVE  Cause'
<1>0. TypeOK /\ Jobs /\ OneRunner /\ AtVisit /\ AtFinish /\ Cause
  BY DEF IInv, OInv
<1>n. TypeOK'
  BY TypeStep DEF Next
<1> SUFFICES ASSUME NEW p \in Proc, NEW q \in Proc, NEW k \in Kind, waited_on_by'[q][k][p] > 0
             PROVE  \/ k = "decl" /\ Parent[p] = q
                    \/ \E i \in DOMAIN Program[p] :
                           \/ i <= inst'[p] /\ WaitsAt(p, i, q, k)
                           \/ Added(p, i)' /\ AddsAt(p, i, q, k)
  BY DEF Cause
<1>a. inst[p] \in Nat /\ inst'[p] \in Nat
  BY <1>0, <1>n DEF TypeOK
<1>b. \A i \in DOMAIN Program[p] : i \in Nat
  <2>1. Program[p] \in Seq(Instruction)
    BY ProgramAssumption
  <2> QED  BY <2>1
<1>1. inst[p] \in Nat /\ inst'[p] \in Nat /\ inst'[p] >= inst[p]
      /\ \A i \in DOMAIN Program[p] : i \in Nat
  BY <1>0, <1>a, <1>b, InstSteps
<1>2. ASSUME NEW i \in DOMAIN Program[p], Added(p, i) PROVE Added(p, i)'
  <2>1. CASE i < inst[p]
    BY <1>1, <2>1 DEF Added
  <2>2. CASE i = inst[p] /\ \E v \in Worker : job[v] = p /\ pc[v] = "members"
    <3>1. PICK v \in Worker : job[v] = p /\ pc[v] = "members"
      BY <2>2
    <3>2. CASE v # w
      <4>1. pc'[v] = "members" /\ job'[v] = p /\ p # job[w]
        BY <3>1, <3>2, OthersStay
      <4>2. inst'[p] = inst[p]
        BY <1>0, <4>1, Frame
      <4> QED  BY <2>2, <4>1, <4>2 DEF Added
    <3>3. CASE v = w /\ MembersEnd(w)
      <4>1. inst'[p] = inst[p] + 1
        BY <1>0, <3>1, <3>3 DEF MembersEnd, nextInstruction, TypeOK
      <4> QED  BY <1>1, <2>2, <4>1 DEF Added
    <3>4. CASE v = w /\ pc'[w] = "members" /\ UNCHANGED <<inst, job>>
      BY <2>2, <3>1, <3>4 DEF Added
    <3> QED  BY <1>0, <3>1, <3>2, <3>3, <3>4, VisitSteps
  <2> QED  BY <1>2, <2>1, <2>2 DEF Added
<1>3. CASE waited_on_by[q][k][p] > 0
  <2>1. CASE k = "decl" /\ Parent[p] = q
    BY <2>1
  <2>2. ASSUME NEW i \in DOMAIN Program[p],
               (i <= inst[p] /\ WaitsAt(p, i, q, k)) \/ (Added(p, i) /\ AddsAt(p, i, q, k))
        PROVE  (i <= inst'[p] /\ WaitsAt(p, i, q, k)) \/ (Added(p, i)' /\ AddsAt(p, i, q, k))
    <3>1. i \in Nat /\ (i <= inst[p] => i <= inst'[p])
      BY <1>1
    <3> QED  BY <1>2, <2>2, <3>1
  <2> QED  BY <1>0, <1>3, <2>1, <2>2 DEF Cause
<1>4. CASE ~(waited_on_by[q][k][p] > 0)
  <2>1. /\ WaitPush(w) \/ AddToMember(w)
        /\ p = job[w] /\ inst[p] \in DOMAIN Program[p]
        /\ WaitPush(w) => WaitsAt(p, inst[p], q, k)
        /\ AddToMember(w) => AddsAt(p, inst[p], q, k)
    BY <1>0, <1>n, <1>4, EdgeBefore
  <2>2. inst'[p] = inst[p]
    BY <2>1 DEF WaitPush, AddToMember
  <2>3. CASE WaitPush(w)
    BY <1>1, <2>1, <2>2, <2>3
  <2>4. CASE AddToMember(w)
    <3>1. job'[w] = p /\ pc'[w] = "members"
      BY <2>1, <2>4 DEF AddToMember
    <3>2. ASSUME NEW i \in DOMAIN Program[p], i = inst[p] PROVE Added(p, i)'
      BY <2>2, <3>1, <3>2 DEF Added
    <3> QED  BY <2>1, <2>4, <3>2
  <2> QED  BY <2>1, <2>3, <2>4
<1> QED  BY <1>3, <1>4

\* What a step does to the statuses, and to the counters and the work manager with them.
LEMMA StatusForms ==
    ASSUME TypeOK, Jobs, OneRunner, Unspawned, NEW w \in Worker, WorkerStep(w)
    PROVE  \/ UNCHANGED <<status, spawned, num_procs_not_done, num_procs_suspended>>
           \/ /\ job[w] \in Proc /\ status[job[w]] = "IN_QUEUE"
              /\ status' = [status EXCEPT ![job[w]] = "WORKING"]
              /\ UNCHANGED <<spawned, num_procs_not_done, num_procs_suspended>>
           \/ /\ job[w] \in Proc /\ status[job[w]] = "WORKING" /\ UNCHANGED spawned
              /\ \/ /\ \E s \in {"DONE", "ERRORED"} : status' = [status EXCEPT ![job[w]] = s]
                    /\ num_procs_not_done' = num_procs_not_done - 1
                    /\ UNCHANGED num_procs_suspended
                 \/ /\ status' = [status EXCEPT ![job[w]] = "WAITING"]
                    /\ UNCHANGED <<num_procs_not_done, num_procs_suspended>>
                 \/ /\ status' = [status EXCEPT ![job[w]] = "SUSPENDED"]
                    /\ num_procs_suspended' = num_procs_suspended + 1
                    /\ UNCHANGED num_procs_not_done
           \/ \E p \in Proc :
                 /\ status' = [status EXCEPT ![p] = "IN_QUEUE"] /\ add_task_to_work_manager(p)
                 /\ \/ /\ status[p] = "SUSPENDED" /\ num_procs_suspended' = num_procs_suspended - 1
                       /\ UNCHANGED <<spawned, num_procs_not_done>>
                    \/ /\ status[p] = "WAITING" /\ p \in spawned
                       /\ UNCHANGED <<spawned, num_procs_not_done, num_procs_suspended>>
                    \/ /\ status[p] = "WAITING" /\ p \notin spawned /\ spawned' = spawned \cup {p}
                       /\ num_procs_not_done' = num_procs_not_done + 1
                       /\ UNCHANGED num_procs_suspended
<1> DEFINE id == job[w]
<1>0. status \in [Proc -> Status]
  BY DEF TypeOK
<1>1. CASE Start(w)
  <2>1. id \in Proc /\ id # NoProc
    BY <1>1, HasJob, ProcAssumption DEF Start
  <2>2. status[id] = "IN_QUEUE"
    BY <1>1, <2>1 DEF OneRunner, Start
  <2> QED  BY <1>1, <2>1, <2>2 DEF Start, counters
<1>2. CASE Done(w) \/ Errored(w)
  <2>1. id \in Proc /\ status[id] = "WORKING"
    BY <1>2, RunsAlone DEF Done, Errored
  <2> QED  BY <1>2, <2>1 DEF Done, Errored
<1>3. CASE NeedToWait(w)
  <2>1. id \in Proc /\ status[id] = "WORKING"
    BY <1>3, RunsAlone DEF NeedToWait, Runs
  <2>2. UNCHANGED status \/ status' = [status EXCEPT ![id] = "WAITING"]
    BY <1>3 DEF NeedToWait
  <2>3. UNCHANGED <<spawned, num_procs_not_done, num_procs_suspended>>
    BY <1>3 DEF NeedToWait, counters
  <2> QED  BY <2>1, <2>2, <2>3
<1>4. CASE Suspend(w)
  <2>1. id \in Proc /\ status[id] = "WORKING"
    BY <1>4, RunsAlone DEF Suspend, Runs
  <2>2. \/ UNCHANGED <<status, num_procs_suspended>>
        \/ /\ status' = [status EXCEPT ![id] = "SUSPENDED"]
           /\ num_procs_suspended' = num_procs_suspended + 1
    BY <1>4 DEF Suspend
  <2>3. UNCHANGED <<spawned, num_procs_not_done>>
    BY <1>4 DEF Suspend
  <2> QED  BY <2>1, <2>2, <2>3
<1>5. CASE WaitPush(w) \/ Select(w)
  <2>1. PICK p \in Proc : \/ UNCHANGED <<status, num_procs_suspended>>
                          \/ status[p] = "SUSPENDED" /\ unsuspend(p)
    <3>1. CASE WaitPush(w)
      <4>1. Head(todo[w])[1] \in Proc
        BY <3>1, HeadTodo DEF WaitPush, Jobs, JobOK
      <4> QED  BY <3>1, <4>1 DEF WaitPush
    <3>2. CASE Select(w)
      <4>1. getInstruction(job[w]).on[1][1] \in Proc
        BY <3>2, Current DEF Select, Runs
      <4> QED  BY <3>2, <4>1 DEF Select
    <3> QED  BY <1>5, <3>1, <3>2
  <2>2. UNCHANGED <<spawned, num_procs_not_done>>
    BY <1>5 DEF WaitPush, Select
  <2>3. CASE UNCHANGED <<status, num_procs_suspended>>
    BY <2>2, <2>3
  <2>4. CASE status[p] = "SUSPENDED" /\ unsuspend(p)
    BY <2>2, <2>4 DEF unsuspend
  <2> QED  BY <2>1, <2>3, <2>4
<1>6. CASE setStatusInQueueIfNotAlreadyDone(w)
  <2> DEFINE p == target[w]
  <2>1. UNCHANGED <<spawned, num_procs_not_done, num_procs_suspended>>
    BY <1>6 DEF setStatusInQueueIfNotAlreadyDone, counters
  <2>2. p \in put[w] /\ pc[w] = "cas" /\ p \in Proc
    BY <1>6 DEF setStatusInQueueIfNotAlreadyDone, Jobs, JobOK, TypeOK
  <2>3. p \in spawned
    BY <2>2 DEF Unspawned
  <2>4. \/ UNCHANGED status
        \/ /\ status[p] = "WAITING" /\ status' = [status EXCEPT ![p] = "IN_QUEUE"]
           /\ add_task_to_work_manager(p)
    BY <1>6 DEF setStatusInQueueIfNotAlreadyDone
  <2> QED  BY <2>1, <2>2, <2>3, <2>4
<1>7. CASE Spawn(w)
  <2> DEFINE p == getInstruction(job[w]).on[1][1]
  <2>1. p \in Proc
    BY <1>7, Current DEF Spawn, Runs
  <2>2. CASE p \in spawned
    BY <1>7, <2>2 DEF Spawn, counters
  <2>3. CASE p \notin spawned
    <3>1. status[p] = "WAITING"
      BY <2>1, <2>3 DEF Unspawned
    <3> QED  BY <1>7, <2>1, <2>3, <3>1 DEF Spawn
  <2> QED  BY <2>2, <2>3
<1>8. CASE (\E p \in Proc : Take(w, p)) \/ Error(w) \/ ErrorNoReport(w) \/ Wait(w)
           \/ WaitCheck(w) \/ WaitEnd(w) \/ Members(w) \/ AddToMember(w) \/ MembersEnd(w)
           \/ Finish(w) \/ ReleaseEnd(w) \/ PutEnd(w) \/ (\E q \in Proc : PutLook(w, q))
           \/ (\E q \in Proc : \E k \in Kind : Release(w, k, q))
  BY <1>8 DEF Take, Error, ErrorNoReport, Wait, WaitCheck, WaitEnd, Members, AddToMember,
              MembersEnd, Finish, ReleaseEnd, PutEnd, PutLook, Release, counters
<1> QED  BY <1>1, <1>2, <1>3, <1>4, <1>5, <1>6, <1>7, <1>8 DEF WorkerStep

LEMMA CountsStep ==
    ASSUME IInv, OInv, NEW w \in Worker, WorkerStep(w)
    PROVE  Counts'
<1>0. TypeOK /\ Jobs /\ OneRunner /\ Unspawned /\ Counts
  BY DEF IInv, OInv
<1>1. /\ status \in [Proc -> Status] /\ spawned \subseteq Proc
      /\ num_procs_not_done \in Int /\ num_procs_suspended \in Int
  BY <1>0 DEF TypeOK
<1>2. /\ IsFiniteSet(Unfinished) /\ IsFiniteSet(Suspended)
      /\ Unfinished \subseteq Proc /\ Suspended \subseteq Proc
  BY <1>1, FS_Subset, ProcAssumption DEF Unfinished, Suspended
<1>3. /\ num_procs_not_done = Cardinality(Unfinished)
      /\ num_procs_suspended = Cardinality(Suspended)
  BY <1>0 DEF Counts
<1>s. \A p \in Proc : status[p] # "WAITING" => p \in spawned
  BY <1>0 DEF Unspawned
<1> DEFINE Same(S, T, m, n) == T = S /\ n = m
           More(S, T, m, n) == \E p \in Proc : p \notin S /\ T = S \cup {p} /\ n = m + 1
           Less(S, T, m, n) == \E p \in S : T = S \ {p} /\ n = m - 1
           Follows(S, T, m, n) == Same(S, T, m, n) \/ More(S, T, m, n) \/ Less(S, T, m, n)
<1>4. ASSUME NEW S, NEW T, NEW m, NEW n, IsFiniteSet(S), m = Cardinality(S), Follows(S, T, m, n)
      PROVE  n = Cardinality(T)
  <2>1. CASE Same(S, T, m, n)
    BY <1>4, <2>1
  <2>2. CASE More(S, T, m, n)
    BY <1>4, <2>2, FS_AddElement
  <2>3. CASE Less(S, T, m, n)
    BY <1>4, <2>3, FS_RemoveElement
  <2> QED  BY <1>4, <2>1, <2>2, <2>3
<1> DEFINE UF == Follows(Unfinished, Unfinished', num_procs_not_done, num_procs_not_done')
           SF == Follows(Suspended, Suspended', num_procs_suspended, num_procs_suspended')
<1>5. UF /\ SF
  <2>1. CASE UNCHANGED <<status, spawned, num_procs_not_done, num_procs_suspended>>
    BY <2>1 DEF Unfinished, Suspended
  <2>2. CASE /\ job[w] \in Proc /\ status[job[w]] = "IN_QUEUE"
             /\ status' = [status EXCEPT ![job[w]] = "WORKING"]
             /\ UNCHANGED <<spawned, num_procs_not_done, num_procs_suspended>>
    <3>1. Unfinished' = Unfinished /\ Suspended' = Suspended
      BY <1>1, <2>2 DEF Unfinished, Suspended
    <3> QED  BY <2>2, <3>1
  <2>3. ASSUME job[w] \in Proc, status[job[w]] = "WORKING", UNCHANGED spawned,
               NEW s \in {"DONE", "ERRORED"}, status' = [status EXCEPT ![job[w]] = s],
               num_procs_not_done' = num_procs_not_done - 1, UNCHANGED num_procs_suspended
        PROVE  UF /\ SF
    <3>1. job[w] \in Unfinished
      BY <1>s, <2>3 DEF Unfinished
    <3>2. Unfinished' = Unfinished \ {job[w]} /\ Suspended' = Suspended
      BY <1>1, <2>3 DEF Unfinished, Suspended
    <3> QED  BY <2>3, <3>1, <3>2
  <2>4. CASE /\ job[w] \in Proc /\ status[job[w]] = "WORKING" /\ UNCHANGED spawned
             /\ status' = [status EXCEPT ![job[w]] = "WAITING"]
             /\ UNCHANGED <<num_procs_not_done, num_procs_suspended>>
    <3>1. Unfinished' = Unfinished /\ Suspended' = Suspended
      BY <1>1, <2>4 DEF Unfinished, Suspended
    <3> QED  BY <2>4, <3>1
  <2>5. CASE /\ job[w] \in Proc /\ status[job[w]] = "WORKING" /\ UNCHANGED spawned
             /\ status' = [status EXCEPT ![job[w]] = "SUSPENDED"]
             /\ num_procs_suspended' = num_procs_suspended + 1
             /\ UNCHANGED num_procs_not_done
    <3>1. job[w] \notin Suspended
      BY <2>5 DEF Suspended
    <3>2. Unfinished' = Unfinished /\ Suspended' = Suspended \cup {job[w]}
      BY <1>1, <2>5 DEF Unfinished, Suspended
    <3> QED  BY <2>5, <3>1, <3>2
  <2>6. ASSUME NEW p \in Proc, status' = [status EXCEPT ![p] = "IN_QUEUE"],
               status[p] = "SUSPENDED", num_procs_suspended' = num_procs_suspended - 1,
               UNCHANGED <<spawned, num_procs_not_done>>
        PROVE  UF /\ SF
    <3>1. p \in Suspended
      BY <2>6 DEF Suspended
    <3>2. Unfinished' = Unfinished /\ Suspended' = Suspended \ {p}
      BY <1>1, <2>6 DEF Unfinished, Suspended
    <3> QED  BY <2>6, <3>1, <3>2
  <2>7. ASSUME NEW p \in Proc, status' = [status EXCEPT ![p] = "IN_QUEUE"],
               status[p] = "WAITING", p \in spawned,
               UNCHANGED <<spawned, num_procs_not_done, num_procs_suspended>>
        PROVE  UF /\ SF
    <3>1. Unfinished' = Unfinished /\ Suspended' = Suspended
      BY <1>1, <2>7 DEF Unfinished, Suspended
    <3> QED  BY <2>7, <3>1
  <2>8. ASSUME NEW p \in Proc, status' = [status EXCEPT ![p] = "IN_QUEUE"],
               status[p] = "WAITING", p \notin spawned, spawned' = spawned \cup {p},
               num_procs_not_done' = num_procs_not_done + 1, UNCHANGED num_procs_suspended
        PROVE  UF /\ SF
    <3>1. p \notin Unfinished
      BY <2>8 DEF Unfinished
    <3>2. Unfinished' = Unfinished \cup {p} /\ Suspended' = Suspended
      BY <1>1, <2>8 DEF Unfinished, Suspended
    <3> QED  BY <2>8, <3>1, <3>2
  <2> QED  BY <1>0, <2>1, <2>2, <2>3, <2>4, <2>5, <2>6, <2>7, <2>8, StatusForms
<1> HIDE DEF Follows
<1>6. num_procs_not_done' = Cardinality(Unfinished')
  BY <1>2, <1>3, <1>4, <1>5
<1>7. num_procs_suspended' = Cardinality(Suspended')
  BY <1>2, <1>3, <1>4, <1>5
<1> QED  BY <1>6, <1>7 DEF Counts

\* An error is reported by the instruction that is one, or where a cycle is found.
LEMMA ErrorSteps ==
    ASSUME NEW w \in Worker, WorkerStep(w)
    PROVE  \/ UNCHANGED num_errors
           \/ /\ num_errors' = num_errors + 1
              /\ \/ Error(w)
                 \/ /\ WaitCheck(w) /\ Head(todo[w])[2] \notin finished[Head(todo[w])[1]]
                    /\ Circular(job[w], Head(todo[w])[1], Head(todo[w])[2])
<1>1. CASE Error(w)
  BY <1>1 DEF Error
<1>2. CASE WaitCheck(w)
  BY <1>2 DEF WaitCheck
<1>3. CASE (\E p \in Proc : Take(w, p)) \/ Start(w) \/ Done(w) \/ Errored(w)
           \/ ErrorNoReport(w) \/ NeedToWait(w) \/ Suspend(w) \/ Wait(w)
           \/ WaitPush(w) \/ WaitEnd(w) \/ Members(w) \/ AddToMember(w) \/ MembersEnd(w)
  BY <1>3 DEF Take, Start, Done, Errored, ErrorNoReport, NeedToWait, Suspend, Wait, WaitPush,
              WaitEnd, Members, AddToMember, MembersEnd, counters
<1>4. CASE Finish(w) \/ ReleaseEnd(w) \/ PutEnd(w) \/ (\E q \in Proc : PutLook(w, q))
           \/ (\E q \in Proc : \E k \in Kind : Release(w, k, q))
           \/ setStatusInQueueIfNotAlreadyDone(w) \/ Select(w)
  BY <1>4 DEF Finish, ReleaseEnd, PutEnd, PutLook, Release, setStatusInQueueIfNotAlreadyDone,
              Select, counters
<1>5. CASE Spawn(w)
  BY <1>5 DEF Spawn, counters
<1> QED  BY <1>1, <1>2, <1>3, <1>4, <1>5 DEF WorkerStep

LEMMA PlacedStep ==
    ASSUME IInv, OInv, NEW w \in Worker, WorkerStep(w)
    PROVE  Placed'
<1>0. TypeOK /\ Jobs /\ OneRunner /\ Placed
  BY DEF IInv, OInv
<1> SUFFICES ASSUME ~hasHitFailCondition', NEW p \in Proc, status'[p] \in {"IN_QUEUE", "WORKING"}
             PROVE  queue'[p] > 0 \/ \E v \in Worker : job'[v] = p
  BY DEF Placed
<1>1. /\ status \in [Proc -> Status] /\ queue \in [Proc -> Nat] /\ p # NoProc
      /\ job \in [Worker -> Proc \cup {NoProc}] /\ num_errors \in Nat /\ MaxErrors \in Nat
  BY <1>0, ProcAssumption, MaxErrorsAssumption DEF TypeOK
<1>2. ~hasHitFailCondition
  BY <1>1, ErrorSteps DEF hasHitFailCondition
<1>3. status[p] \in {"IN_QUEUE", "WORKING"} => queue[p] > 0 \/ \E v \in Worker : job[v] = p
  BY <1>0, <1>2 DEF Placed
<1> DEFINE Goal == queue'[p] > 0 \/ \E v \in Worker : job'[v] = p
<1>4. CASE UNCHANGED <<status, queue, job>>
  BY <1>3, <1>4
<1>5. ASSUME NEW q \in Proc, Take(w, q) PROVE Goal
  <2>1. /\ job[w] = NoProc /\ job' = [job EXCEPT ![w] = q] /\ UNCHANGED status
        /\ queue' = [queue EXCEPT ![q] = queue[q] - 1]
    BY <1>0, <1>5 DEF Take, Remove, Jobs, JobOK
  <2>2. CASE p = q
    BY <1>1, <2>1, <2>2
  <2>3. CASE p # q
    <3>1. queue'[p] = queue[p]
      BY <1>1, <2>1, <2>3
    <3>2. \A v \in Worker : job[v] = p => job'[v] = p
      BY <1>1, <2>1
    <3> QED  BY <1>3, <2>1, <3>1, <3>2
  <2> QED  BY <2>2, <2>3
<1>6. ASSUME NEW s \in {"DONE", "ERRORED", "WAITING", "SUSPENDED"}, LeaveAnalyze(w),
             status' = [status EXCEPT ![job[w]] = s]
      PROVE  Goal
  <2>1. p # job[w] /\ status[p] = status'[p]
    BY <1>1, <1>6
  <2>2. queue' = queue /\ job' = [job EXCEPT ![w] = NoProc]
    BY <1>2, <1>6 DEF LeaveAnalyze
  <2>3. \A v \in Worker : job[v] = p => job'[v] = p
    BY <1>1, <2>1, <2>2
  <2> QED  BY <1>3, <2>1, <2>2, <2>3
<1>7. ASSUME NEW q \in Proc, status' = [status EXCEPT ![q] = "IN_QUEUE"], UNCHANGED job,
             add_task_to_work_manager(q)
      PROVE  Goal
  <2>1. queue' = [queue EXCEPT ![q] = queue[q] + 1]
    BY <1>2, <1>7 DEF add_task_to_work_manager, Add
  <2>2. CASE p = q
    BY <1>1, <2>1, <2>2
  <2>3. CASE p # q
    <3>1. queue'[p] = queue[p] /\ status'[p] = status[p]
      BY <1>1, <1>7, <2>1, <2>3
    <3> QED  BY <1>3, <1>7, <3>1
  <2> QED  BY <2>2, <2>3
<1>8. CASE Start(w)
  <2>1. status' = [status EXCEPT ![job[w]] = "WORKING"] /\ UNCHANGED <<queue, job>>
    BY <1>8 DEF Start
  <2>2. CASE p = job[w]
    BY <2>1, <2>2
  <2>3. CASE p # job[w]
    BY <1>1, <1>3, <2>1, <2>3
  <2> QED  BY <2>2, <2>3
<1>9. CASE Done(w) \/ Errored(w) \/ NeedToWait(w) \/ Suspend(w)
  <2>1. \/ UNCHANGED <<status, queue, job>>
        \/ LeaveAnalyze(w) /\ \E s \in {"DONE", "ERRORED", "WAITING", "SUSPENDED"} :
               status' = [status EXCEPT ![job[w]] = s]
    BY <1>9 DEF Done, Errored, NeedToWait, Suspend
  <2> QED  BY <1>4, <1>6, <2>1
<1>10. CASE WaitPush(w) \/ Select(w) \/ Spawn(w) \/ setStatusInQueueIfNotAlreadyDone(w)
  <2>1. ASSUME NEW q \in Proc, unsuspend(q), UNCHANGED job PROVE Goal
    BY <1>7, <2>1 DEF unsuspend
  <2>2. CASE WaitPush(w)
    <3>1. Head(todo[w])[1] \in Proc
      BY <1>0, <2>2, HeadTodo DEF WaitPush, Jobs, JobOK
    <3>2. UNCHANGED <<status, queue>> \/ unsuspend(Head(todo[w])[1])
      BY <2>2 DEF WaitPush
    <3> QED  BY <1>4, <2>1, <2>2, <3>1, <3>2 DEF WaitPush
  <2>3. CASE Select(w)
    <3>1. getInstruction(job[w]).on[1][1] \in Proc
      BY <1>0, <2>3, Current DEF Select, Runs
    <3> QED  BY <1>4, <2>1, <2>3, <3>1 DEF Select
  <2>4. CASE Spawn(w)
    <3>1. getInstruction(job[w]).on[1][1] \in Proc
      BY <1>0, <2>4, Current DEF Spawn, Runs
    <3> QED  BY <1>4, <1>7, <2>4, <3>1 DEF Spawn
  <2>5. CASE setStatusInQueueIfNotAlreadyDone(w)
    <3>1. target[w] \in Proc
      BY <1>0, <2>5 DEF setStatusInQueueIfNotAlreadyDone, Jobs, JobOK, TypeOK
    <3> QED  BY <1>4, <1>7, <2>5, <3>1 DEF setStatusInQueueIfNotAlreadyDone
  <2> QED  BY <1>10, <2>2, <2>3, <2>4, <2>5
<1>11. CASE Error(w) \/ ErrorNoReport(w) \/ Wait(w) \/ WaitCheck(w) \/ WaitEnd(w)
            \/ Members(w) \/ AddToMember(w) \/ MembersEnd(w) \/ Finish(w) \/ ReleaseEnd(w)
            \/ PutEnd(w) \/ (\E q \in Proc : PutLook(w, q))
            \/ (\E q \in Proc : \E k \in Kind : Release(w, k, q))
  <2>1. UNCHANGED <<status, queue, job>>
    BY <1>11 DEF Error, ErrorNoReport, Wait, WaitCheck, WaitEnd, Members, AddToMember,
                 MembersEnd, Finish, ReleaseEnd, PutEnd, PutLook, Release
  <2> QED  BY <1>4, <2>1
<1> QED  BY <1>5, <1>8, <1>9, <1>10, <1>11 DEF WorkerStep

LEMMA InitOInv == ASSUME Init PROVE OInv
<1>1. AtVisit /\ AtFinish
  BY DEF Init, AtVisit, AtFinish, Visiting, Releasing
<1>2. \A p \in Proc : inst[p] = 1 /\ Len(Program[p]) \in Nat
                      /\ DOMAIN Program[p] = 1..Len(Program[p])
  BY ProgramAssumption DEF Init
<1>3. InProgram /\ PastDone
  BY <1>2 DEF InProgram, PastDone
<1>4. DoneAtEnd /\ WaitingAt
  BY <1>2 DEF Init, DoneAtEnd, WaitingAt
<1>5. Cause
  BY DEF Init, Cause
<1>6. Placed
  <2>1. \A p \in Proc : status[p] \in {"IN_QUEUE", "WORKING"} => queue[p] = 1
    BY DEF Init
  <2> QED  BY <2>1 DEF Placed
<1>7. Counts
  <2>1. \A p \in Proc : status[p] \in {"WAITING", "IN_QUEUE"}
    BY DEF Init
  <2>2. Unfinished = Proc \ Later /\ Suspended = {}
    BY <2>1 DEF Init, Unfinished, Suspended
  <2> QED  BY <2>2, FS_EmptySet DEF Init, Counts
<1>8. Proc \ Later \subseteq spawned
  BY DEF Init
<1> QED  BY <1>1, <1>3, <1>4, <1>5, <1>6, <1>7, <1>8 DEF OInv

LEMMA UnchangedOInv == ASSUME OInv, UNCHANGED vars PROVE OInv'
<1> USE DEF vars, graph, counters, locals
<1>1. AtVisit' /\ AtFinish'
  BY DEF OInv, AtVisit, AtFinish, getInstruction
<1>2. InProgram' /\ PastDone' /\ DoneAtEnd' /\ WaitingAt'
  BY DEF OInv, InProgram, PastDone, DoneAtEnd, WaitingAt
<1>3. Cause' /\ Placed'
  BY DEF OInv, Cause, Added, Placed, hasHitFailCondition
<1>4. Counts' /\ Proc \ Later \subseteq spawned'
  BY DEF OInv, Counts, Unfinished, Suspended
<1> QED  BY <1>1, <1>2, <1>3, <1>4 DEF OInv

LEMMA OInvariance == Spec => []OInv
<1>1. Init => OInv
  BY InitOInv
<1>2. IInv /\ WInv /\ OInv /\ [Next]_vars => OInv'
  <2> SUFFICES ASSUME IInv, WInv, OInv, [Next]_vars PROVE OInv'
    OBVIOUS
  <2>1. CASE UNCHANGED vars
    BY <2>1, UnchangedOInv
  <2>2. ASSUME NEW w \in Worker, WorkerStep(w) PROVE OInv'
    <3>1. AtVisit' /\ AtFinish'
      BY <2>2, AtVisitStep, AtFinishStep DEF OInv
    <3>2. Proc \ Later \subseteq spawned'
      BY <2>2, SpawnSteps DEF IInv, OInv
    <3>3. InProgram' /\ PastDone' /\ DoneAtEnd' /\ Cause' /\ WaitingAt' /\ Placed' /\ Counts'
      BY <2>2, InProgramStep, PastDoneStep, DoneAtEndStep, CauseStep, WaitingAtStep,
         PlacedStep, CountsStep
    <3> QED  BY <3>1, <3>2, <3>3 DEF OInv
  <2> QED  BY <2>1, <2>2 DEF Next
<1> QED  BY <1>1, <1>2, Invariance, WaitersInvariance, PTL DEF Spec

-----------------------------------------------------------------------------
(* Cycles *)

\* One worker at a time is about to add an edge it has looked for, and it still makes no
\* cycle.
Pushing ==
    /\ \A v, w \in Worker : pc[v] = "push" /\ pc[w] = "push" => v = w
    /\ \A w \in Worker : pc[w] = "push" =>
           Head(todo[w])[1] # job[w] /\ ~DependsOn(Head(todo[w])[1], job[w])

CInv == Pushing /\ NoWaitCycle

\* Dependence follows the edges,
LEMMA DependsOnNext ==
    ASSUME NEW x \in Proc, NEW p \in Proc, p = x \/ DependsOn(x, p), NEW q \in Proc,
           waiting_for[p][q] > 0
    PROVE  DependsOn(x, q)
BY DEF DependsOn

\* it is transitive,
LEMMA DependsOnVia ==
    ASSUME NEW x \in Proc, NEW y \in Proc, x = y \/ DependsOn(x, y), NEW z \in Proc,
           DependsOn(y, z)
    PROVE  DependsOn(x, z)
<1> SUFFICES ASSUME NEW S \in SUBSET Proc,
                    \A p \in S \cup {x}, q \in Proc : waiting_for[p][q] > 0 => q \in S
             PROVE  z \in S
  BY DEF DependsOn
<1>1. y \in S \cup {x}
  BY DEF DependsOn
<1>2. \A p \in S \cup {y}, q \in Proc : waiting_for[p][q] > 0 => q \in S
  BY <1>1
<1> QED  BY <1>2 DEF DependsOn

\* and it does not grow when edges are removed.
LEMMA DependsOnLess ==
    ASSUME \A p, q \in Proc : waiting_for'[p][q] > 0 => waiting_for[p][q] > 0,
           NEW x \in Proc, NEW y \in Proc, DependsOn(x, y)'
    PROVE  DependsOn(x, y)
BY DEF DependsOn

\* A release removes edges only.
LEMMA ReleaseLess ==
    ASSUME TypeOK, NEW w \in Worker, NEW k \in Kind, NEW id \in Proc, Release(w, k, id),
           NEW p \in Proc, NEW q \in Proc, waiting_for'[p][q] > 0
    PROVE  waiting_for[p][q] > 0
<1>1. waiting_for \in [Proc -> [Proc -> Nat]] /\ waiting_for[p][q] \in Nat
  BY DEF TypeOK
<1>2. waiting_for' = [waiting_for EXCEPT ![id] = Remove(waiting_for[id], job[w])]
  BY DEF Release
<1>3. waiting_for'[p][q] = waiting_for[p][q] \/ waiting_for'[p][q] = waiting_for[p][q] - 1
  BY <1>1, <1>2 DEF Remove
<1> QED  BY <1>1, <1>3

\* An edge to one that does not depend on where it starts makes no cycle: whoever depends
\* on the start of the edge depends, besides what he did, on its end and what that depends
\* on, and is none of these.
LEMMA LinkMakesNoCycle ==
    ASSUME TypeOK, NoWaitCycle, NEW id \in Proc, NEW on \in Proc, NEW k \in Kind,
           Link(id, on, k), id # on, ~DependsOn(on, id)
    PROVE  NoWaitCycle'
<1>1. \A p, q \in Proc :
          waiting_for'[p][q] > 0 => waiting_for[p][q] > 0 \/ (p = id /\ q = on)
  <2>1. waiting_for \in [Proc -> [Proc -> Nat]]
    BY DEF TypeOK
  <2>2. waiting_for' = [waiting_for EXCEPT ![id] = Add(waiting_for[id], on)]
    BY DEF Link
  <2> QED  BY <2>1, <2>2 DEF Add
<1> SUFFICES ASSUME NEW p \in Proc PROVE ~DependsOn(p, p)'
  BY DEF NoWaitCycle
<1>2. ~DependsOn(p, p)
  BY DEF NoWaitCycle
<1> DEFINE R(x) == {q \in Proc : DependsOn(x, q)}
<1>3. CASE p # id /\ ~DependsOn(p, id)
  <2>1. \A x \in R(p) \cup {p}, q \in Proc : waiting_for'[x][q] > 0 => q \in R(p)
    BY <1>1, <1>3, DependsOnNext
  <2>2. R(p) \in SUBSET Proc /\ p \notin R(p)
    BY <1>2
  <2> HIDE DEF R
  <2> QED  BY <2>1, <2>2 DEF DependsOn
<1>4. CASE p = id \/ DependsOn(p, id)
  <2> DEFINE S == R(p) \cup {on} \cup R(on)
  <2>1. ASSUME NEW x \in S \cup {p}, NEW q \in Proc, waiting_for'[x][q] > 0 PROVE q \in S
    <3>1. CASE x = id /\ q = on
      BY <3>1
    <3>2. CASE waiting_for[x][q] > 0
      BY <2>1, <3>2, DependsOnNext
    <3> QED  BY <1>1, <2>1, <3>1, <3>2
  <2>2. p # on
    BY <1>4
  <2>3. ~DependsOn(on, p)
    BY <1>4, DependsOnVia
  <2>4. S \in SUBSET Proc /\ p \notin S
    BY <1>2, <2>2, <2>3
  <2> HIDE DEF S
  <2> QED  BY <2>1, <2>4 DEF DependsOn
<1> QED  BY <1>3, <1>4

\* Where every wait is looked at, a new edge is one that a worker at "push" adds, and it
\* was looked at.
LEMMA LinksArePushed ==
    ASSUME TypeOK, Jobs, AtVisit, CyclesAreLookedFor, NEW w \in Worker, WorkerStep(w)
    PROVE  \/ \A p, q \in Proc : waiting_for'[p][q] > 0 => waiting_for[p][q] > 0
           \/ /\ pc[w] = "push" /\ job[w] \in Proc /\ Head(todo[w])[1] \in Proc
              /\ Head(todo[w])[2] \in Kind
              /\ Link(job[w], Head(todo[w])[1], Head(todo[w])[2])
<1>1. CASE UNCHANGED <<waiting_for, waited_on_by>>
  BY <1>1
<1>2. CASE \E q \in Proc : \E k \in Kind : Release(w, k, q)
  BY <1>2, ReleaseLess
<1>3. CASE /\ WaitPush(w) \/ AddToMember(w)
           /\ job[w] \in Proc /\ Head(todo[w])[1] \in Proc /\ Head(todo[w])[2] \in Kind
           /\ Link(job[w], Head(todo[w])[1], Head(todo[w])[2])
           /\ inst[job[w]] \in DOMAIN Program[job[w]]
           /\ AddToMember(w) =>
                  AddsAt(job[w], inst[job[w]], Head(todo[w])[1], Head(todo[w])[2])
  BY <1>3 DEF CyclesAreLookedFor, AddsAt, WaitPush
<1> QED  BY <1>1, <1>2, <1>3, LinkPlaces

LEMMA PushingStep ==
    ASSUME IInv, OInv, CInv, CyclesAreLookedFor, NEW w \in Worker, WorkerStep(w)
    PROVE  Pushing'
<1>0. TypeOK /\ Jobs /\ AtVisit /\ Pushing
  BY DEF IInv, OInv, CInv
<1>1. ASSUME NEW v \in Worker, pc'[v] = "push", v # w PROVE pc[v] = "push"
  BY <1>0, <1>1, Frame
<1>2. ASSUME pc'[w] = "push" PROVE WaitCheck(w) /\ \A v \in Worker : pc[v] # "push"
  BY <1>0, <1>2, VisitSteps DEF WaitCheck, wait_on_if_needed_lock_free
<1>3. \A u, v \in Worker : pc'[u] = "push" /\ pc'[v] = "push" => u = v
  BY <1>0, <1>1, <1>2 DEF Pushing
<1>4. ASSUME NEW v \in Worker, pc'[v] = "push", v # w
      PROVE  (Head(todo[v])[1] # job[v] /\ ~DependsOn(Head(todo[v])[1], job[v]))'
  <2>1. pc[v] = "push" /\ todo[v] # <<>> /\ job[v] \in Proc /\ Head(todo[v])[1] \in Proc
    BY <1>0, <1>1, <1>4, HasJob, HeadTodo DEF Jobs, JobOK
  <2>2. todo'[v] = todo[v] /\ job'[v] = job[v]
    BY <1>0, <1>4, Frame
  <2>3. pc[w] # "push"
    BY <1>0, <1>4, <2>1 DEF Pushing
  <2>4. \A p, q \in Proc : waiting_for'[p][q] > 0 => waiting_for[p][q] > 0
    BY <1>0, <2>3, LinksArePushed
  <2>5. Head(todo[v])[1] # job[v] /\ ~DependsOn(Head(todo[v])[1], job[v])
    BY <1>0, <2>1 DEF Pushing
  <2>6. ASSUME NEW x \in Proc, NEW y \in Proc, x = Head(todo[v])[1], y = job[v]
        PROVE  (Head(todo[v])[1] # job[v] /\ ~DependsOn(Head(todo[v])[1], job[v]))'
    <3>1. ~DependsOn(x, y)'
      BY <2>4, <2>5, <2>6, DependsOnLess
    <3> QED  BY <2>2, <2>5, <2>6, <3>1 DEF DependsOn
  <2> QED  BY <2>1, <2>6
<1>5. ASSUME pc'[w] = "push"
      PROVE  (Head(todo[w])[1] # job[w] /\ ~DependsOn(Head(todo[w])[1], job[w]))'
  <2> DEFINE id == job[w]
             on == Head(todo[w])[1]
             kind == Head(todo[w])[2]
  <2>1. WaitCheck(w) /\ pc[w] = "check" /\ todo[w] # <<>>
        /\ UNCHANGED <<waiting_for, job, todo>> /\ ~Circular(id, on, kind)
    <3>1. WaitCheck(w) /\ pc[w] = "check" /\ todo[w] # <<>> /\ UNCHANGED <<waiting_for, job>>
      BY <1>2, <1>5 DEF WaitCheck, graph
    <3>2. /\ Goto(w, "push") /\ UNCHANGED todo /\ ~Circular(id, on, kind)
      <4>1. pc' # pc /\ ~Goto(w, "errored")
        BY <1>0, <1>5, <3>1 DEF Goto, TypeOK
      <4> QED  BY <3>1, <4>1 DEF WaitCheck
    <3> QED  BY <3>1, <3>2
  <2>2. id \in Proc /\ on \in Proc /\ kind \in Kind
    BY <1>0, <2>1, HasJob, HeadTodo
  <2>3. WaitsAt(id, inst[id], on, kind) /\ inst[id] \in DOMAIN Program[id]
    BY <1>0, <2>1, ToVisit DEF Visiting
  <2>4. kind # "pir_decl" /\ (kind = "pir_def" => on # id)
    BY <2>2, <2>3 DEF CyclesAreLookedFor
  <2>5. on # id /\ ~DependsOn(on, id)
    <3>1. kind \in {"decl", "def"} \/ kind = "pir_def"
      BY <2>2, <2>4 DEF Kind
    <3> QED  BY <2>1, <2>4, <3>1 DEF Circular
  <2>6. DependsOn(Head(todo[w])[1], job[w])' <=> DependsOn(Head(todo[w])[1], job[w])
    BY <2>1 DEF DependsOn
  <2> QED  BY <2>1, <2>5, <2>6
<1> QED  BY <1>3, <1>4, <1>5 DEF Pushing

LEMMA NoWaitCycleStep ==
    ASSUME IInv, OInv, CInv, CyclesAreLookedFor, NEW w \in Worker, WorkerStep(w)
    PROVE  NoWaitCycle'
<1>0. TypeOK /\ Jobs /\ AtVisit /\ Pushing /\ NoWaitCycle
  BY DEF IInv, OInv, CInv
<1>1. CASE \A p, q \in Proc : waiting_for'[p][q] > 0 => waiting_for[p][q] > 0
  BY <1>0, <1>1, DependsOnLess DEF NoWaitCycle
<1>2. CASE /\ pc[w] = "push" /\ job[w] \in Proc /\ Head(todo[w])[1] \in Proc
           /\ Head(todo[w])[2] \in Kind
           /\ Link(job[w], Head(todo[w])[1], Head(todo[w])[2])
  <2>1. Head(todo[w])[1] # job[w] /\ ~DependsOn(Head(todo[w])[1], job[w])
    BY <1>0, <1>2 DEF Pushing
  <2> QED  BY <1>0, <1>2, <2>1, LinkMakesNoCycle
<1> QED  BY <1>0, <1>1, <1>2, LinksArePushed

\* At first everybody waits for what he is nested in, which leads out of any set.
LEMMA InitCInv == ASSUME Init PROVE CInv
<1>1. Pushing
  BY DEF Init, Pushing
<1>2. \A p, q \in Proc : waiting_for[p][q] > 0 <=> q = Parent[p]
  BY DEF Init
<1>3. NoWaitCycle
  <2> DEFINE C == {p \in Proc : DependsOn(p, p)}
  <2> SUFFICES ASSUME C # {} PROVE FALSE
    BY DEF NoWaitCycle
  <2>1. PICK p \in C : Parent[p] \notin C
    BY NestingAssumption
  <2> DEFINE y == Parent[p]
  <2>2. CASE y = NoProc
    <3>1. \A x \in {} \cup {p}, q \in Proc : waiting_for[x][q] > 0 => q \in {}
      BY <1>2, <2>1, <2>2, ProcAssumption
    <3>2. {} \in SUBSET Proc /\ DependsOn(p, p)
      BY <2>1
    <3>3. p \in {}
      BY <3>1, <3>2, Zenon DEF DependsOn
    <3> QED  BY <3>3
  <2>3. CASE y \in Proc
    <3>1. PICK S \in SUBSET Proc :
              /\ \A x \in S \cup {y}, q \in Proc : waiting_for[x][q] > 0 => q \in S
              /\ y \notin S
      BY <2>1, <2>3 DEF DependsOn
    <3>0. p \in Proc /\ p # y
      BY <2>1
    <3>2. p \in Proc /\ p # y /\ waiting_for[p][y] > 0
      BY <1>2, <2>3, <3>0
    <3>3. ASSUME p \in S PROVE FALSE
      <4>1. y \in S
        BY <2>3, <3>1, <3>2, <3>3, Zenon
      <4> QED  BY <3>1, <4>1
    <3>4. \A x \in (S \cup {y}) \cup {p}, q \in Proc : waiting_for[x][q] > 0 => q \in S \cup {y}
      BY <1>2, <2>1, <3>1
    <3>5. p \in S \cup {y}
      <4> DEFINE U == S \cup {y}
      <4>1. DependsOn(p, p)
        BY <2>1
      <4>2. U \in SUBSET Proc
        BY <2>3
      <4>3. \A x \in U \cup {p}, q \in Proc : waiting_for[x][q] > 0 => q \in U
        BY <3>4
      <4> HIDE DEF U
      <4>4. p \in U
        BY ONLY <4>1, <4>2, <4>3, Zenon DEF DependsOn
      <4> QED  BY <4>4 DEF U
    <3> QED  BY <3>2, <3>3, <3>5
  <2> QED  BY <2>1, <2>2, <2>3, ParentAssumption
<1> QED  BY <1>1, <1>3 DEF CInv

LEMMA CyclesInvariance == ASSUME CyclesAreLookedFor PROVE Spec => []CInv
<1>1. Init => CInv
  BY InitCInv
<1>2. IInv /\ OInv /\ CInv /\ [Next]_vars => CInv'
  <2> SUFFICES ASSUME IInv, OInv, CInv, [Next]_vars PROVE CInv'
    OBVIOUS
  <2>1. CASE UNCHANGED vars
    BY <2>1 DEF CInv, Pushing, NoWaitCycle, DependsOn, vars, graph, counters, locals
  <2>2. ASSUME NEW w \in Worker, WorkerStep(w) PROVE CInv'
    BY <2>2, PushingStep, NoWaitCycleStep DEF CInv
  <2> QED  BY <2>1, <2>2 DEF Next
<1> QED  BY <1>1, <1>2, Invariance, OInvariance, PTL DEF Spec

\* Two workers that look for a cycle at the same time do not both miss it, however many
\* workers there are: where every wait is looked at, nobody ever waits for itself.
THEOREM NobodyWaitsForItself == ASSUME CyclesAreLookedFor PROVE Spec => []NoWaitCycle
<1>1. CInv => NoWaitCycle
  BY DEF CInv
<1> QED  BY <1>1, CyclesInvariance, PTL

-----------------------------------------------------------------------------
(* Rest *)

\* At rest nobody is ready or worked on, and who waits waits for somebody.
LEMMA AtRest ==
    ASSUME IInv, WInv, OInv, Quiet, ~hasHitFailCondition, NEW p \in Proc
    PROVE  /\ status[p] \notin {"IN_QUEUE", "WORKING"}
           /\ p \in spawned /\ status[p] = "WAITING" =>
                  \E q \in Proc : waiting_for[p][q] > 0
<1>0. TypeOK /\ Jobs /\ NoLostWakeup /\ Placed
  BY DEF IInv, OInv
<1>1. status[p] \notin {"IN_QUEUE", "WORKING"}
  <2>1. queue[p] = 0
    BY DEF Quiet, None
  <2>2. \A w \in Worker : job[w] # p
    BY <1>0, ProcAssumption DEF Quiet, Jobs, JobOK
  <2> QED  BY <1>0, <2>1, <2>2 DEF Placed
<1>2. ASSUME p \in spawned, status[p] = "WAITING" PROVE \E q \in Proc : waiting_for[p][q] > 0
  <2>1. waiting_for[p] # None
    BY <1>0, <1>2 DEF NoLostWakeup, Quiet
  <2>2. waiting_for[p] \in [Proc -> Nat]
    BY <1>0 DEF TypeOK
  <2>3. \E q \in Proc : waiting_for[p][q] # 0
    BY <2>1, <2>2 DEF None
  <2> QED  BY <2>2, <2>3
<1> QED  BY <1>1, <1>2

\* An edge is of some kind.
LEMMA EdgeKind ==
    ASSUME TypeOK, EdgesMatch, NEW p \in Proc, NEW q \in Proc, waiting_for[p][q] > 0
    PROVE  \E k \in Kind : waited_on_by[q][k][p] > 0
<1>1. \A k \in Kind : waited_on_by[q][k][p] \in Nat
  BY DEF TypeOK
<1>2. waiting_for[p][q] = waited_on_by[q]["decl"][p] + waited_on_by[q]["pir_decl"][p]
                          + waited_on_by[q]["def"][p] + waited_on_by[q]["pir_def"][p]
  BY DEF EdgesMatch
<1> QED  BY <1>1, <1>2 DEF Kind

\* At rest, one that is waited for, and will be run and finish what it is waited for, is
\* not done and not suspended.
LEMMA WaitedForAtRest ==
    ASSUME IInv, WInv, OInv, Quiet, CyclesAreLookedFor, WaitsAreMet,
           NEW p \in Proc, NEW q \in Proc, waiting_for[p][q] > 0
    PROVE  q \in spawned /\ status[q] \notin {"DONE", "SUSPENDED"}
<1>0. TypeOK /\ EdgesMatch /\ NoEdgeToFinished /\ SuspendedUnwanted
      /\ PastDone /\ DoneAtEnd /\ Cause /\ Proc \ Later \subseteq spawned
  BY DEF IInv, WInv, OInv
<1> DEFINE Met == \E j \in DOMAIN Program[q] : \E k \in Kind :
                      /\ waited_on_by[q][k][p] > 0 /\ Reaches(q, j)
                      /\ FinishesAt(q, j, k) \/ Program[q][j].op = "error"
<1>1. PICK k \in Kind : waited_on_by[q][k][p] > 0
  BY <1>0, EdgeKind
<1>2. status[q] # "SUSPENDED"
  BY <1>0, <1>1 DEF SuspendedUnwanted, None
<1>3. Met /\ q \in spawned
  <2>1. CASE k = "decl" /\ Parent[p] = q
    <3>1. Parent[p] # NoProc
      BY <2>1, ProcAssumption
    <3>2. /\ q \notin Later
          /\ \E j \in DOMAIN Program[q] :
                Reaches(q, j) /\ (FinishesAt(q, j, "decl") \/ Program[q][j].op = "error")
      BY <2>1, <3>1 DEF WaitsAreMet
    <3> QED  BY <1>0, <1>1, <2>1, <3>2
  <2>2. ASSUME NEW i \in DOMAIN Program[p], i <= inst[p], WaitsAt(p, i, q, k)
        PROVE  Met /\ q \in spawned
    <3>1. /\ \E j \in DOMAIN Program[q] :
                Reaches(q, j) /\ (FinishesAt(q, j, k) \/ Program[q][j].op = "error")
          /\ q \in Later => \E j \in 1..i - 1 : SpawnsAt(p, j, q) /\ Reaches(p, j)
      BY <2>2 DEF WaitsAreMet
    <3>2. q \in spawned
      <4>1. ASSUME NEW j \in 1..i - 1, SpawnsAt(p, j, q), Reaches(p, j) PROVE q \in spawned
        <5>1. inst[p] \in Nat /\ DOMAIN Program[p] = 1..Len(Program[p])
              /\ Len(Program[p]) \in Nat
          BY <1>0, ProgramAssumption DEF TypeOK
        <5>2. j \in DOMAIN Program[p] /\ j < inst[p]
          BY <2>2, <5>1
        <5> QED  BY <1>0, <4>1, <5>2 DEF PastDone
      <4> QED  BY <1>0, <3>1, <4>1
    <3> QED  BY <1>1, <3>1, <3>2
  <2>3. ASSUME NEW i \in DOMAIN Program[p], AddsAt(p, i, q, k) PROVE FALSE
    BY <2>3 DEF AddsAt, CyclesAreLookedFor
  <2> QED  BY <1>0, <1>1, <2>1, <2>2, <2>3 DEF Cause
<1>4. status[q] # "DONE"
  <2> SUFFICES ASSUME status[q] = "DONE" PROVE FALSE
    OBVIOUS
  <2>1. PICK j \in DOMAIN Program[q], l \in Kind :
            /\ waited_on_by[q][l][p] > 0 /\ Reaches(q, j)
            /\ FinishesAt(q, j, l) \/ Program[q][j].op = "error"
    BY <1>3
  <2>2. inst[q] = Len(Program[q]) + 1
    BY <1>0 DEF DoneAtEnd
  <2>3. j < inst[q]
    <3>1. Program[q] \in Seq(Instruction)
      BY ProgramAssumption
    <3> QED  BY <2>2, <3>1
  <2>4. l \in finished[q]
    BY <1>0, <2>1, <2>3 DEF PastDone
  <2>5. \E w \in Worker : pc[w] = "release"
    BY <1>0, <2>1, <2>4 DEF NoEdgeToFinished
  <2> QED  BY <2>5 DEF Quiet
<1> QED  BY <1>2, <1>3, <1>4

\* Who is depended on is at the end of an edge.
LEMMA DependedOn ==
    ASSUME NEW p \in Proc, NEW x \in Proc, DependsOn(p, x)
    PROVE  \E y \in Proc : (y = p \/ DependsOn(p, y)) /\ waiting_for[y][x] > 0
<1> SUFFICES ASSUME \A y \in Proc : y = p \/ DependsOn(p, y) => ~(waiting_for[y][x] > 0)
             PROVE  FALSE
  OBVIOUS
<1> DEFINE S == {y \in Proc : DependsOn(p, y) /\ y # x}
<1>1. ASSUME NEW y \in S \cup {p}, NEW q \in Proc, waiting_for[y][q] > 0 PROVE q \in S
  <2>1. y \in Proc /\ (y = p \/ DependsOn(p, y))
    BY <1>1
  <2>2. DependsOn(p, q) /\ q # x
    BY <1>1, <2>1, DependsOnNext
  <2> QED  BY <2>2
<1>2. S \in SUBSET Proc /\ x \notin S
  OBVIOUS
<1> HIDE DEF S
<1> QED  BY <1>1, <1>2 DEF DependsOn

\* Without a cycle, not everybody who is depended on can depend on somebody.
LEMMA SomebodyIsLast ==
    ASSUME NoWaitCycle, NEW W \in SUBSET Proc, W # {}
    PROVE  \E x \in W : \A y \in W : ~(waiting_for[x][y] > 0)
<1> DEFINE R(x) == {q \in Proc : DependsOn(x, q)}
           T == {R(x) : x \in W}
<1>1. IsWellFoundedOn(StrictSubsetOrdering(Proc), SUBSET Proc)
  BY ProcAssumption, FS_StrictSubsetOrderingWellFounded, FS_FiniteSubsetsOfFinite
<1>2. PICK r \in T : \A t \in T : ~(<<t, r>> \in StrictSubsetOrdering(Proc))
  <2>1. T \subseteq SUBSET Proc /\ T # {}
    OBVIOUS
  <2> HIDE DEF T
  <2> QED  BY <1>1, <2>1, WFMin
<1>3. PICK x \in W : r = R(x)
  BY <1>2
<1>4. ASSUME NEW y \in W, waiting_for[x][y] > 0 PROVE FALSE
  <2>1. DependsOn(x, y) /\ ~DependsOn(y, y)
    BY <1>4, DependsOnNext DEF NoWaitCycle
  <2>2. R(y) \subseteq R(x)
    BY <2>1, DependsOnVia
  <2>3. y \in R(x) /\ y \notin R(y)
    BY <2>1
  <2>4. R(y) \in SUBSET Proc /\ R(x) \in SUBSET Proc /\ R(y) \in T /\ R(x) = r
    BY <1>3
  <2> HIDE DEF R, T
  <2>5. <<R(y), R(x)>> \in StrictSubsetOrdering(Proc)
    BY <2>2, <2>3, <2>4 DEF StrictSubsetOrdering
  <2> QED  BY <1>2, <2>4, <2>5
<1> QED  BY <1>4

\* Whoever is left waiting depends on one that has failed: the last of those it depends on
\* would else be left waiting for nobody.
LEMMA LeftAtRest ==
    ASSUME IInv, WInv, OInv, NoWaitCycle, CyclesAreLookedFor, WaitsAreMet
    PROVE  LeftForAReason
<1> SUFFICES ASSUME Quiet, ~hasHitFailCondition, NEW p \in spawned,
                    status[p] \notin {"DONE", "SUSPENDED", "ERRORED"},
                    \A q \in Proc : status[q] = "ERRORED" => ~DependsOn(p, q)
             PROVE  FALSE
  BY DEF LeftForAReason
<1>0. status \in [Proc -> Status] /\ p \in Proc
  BY DEF IInv, TypeOK
<1> DEFINE W == {x \in Proc : x = p \/ DependsOn(p, x)}
<1>1. ASSUME NEW x \in W PROVE \E y \in W : waiting_for[x][y] > 0
  <2>1. x \in spawned /\ status[x] \notin {"DONE", "SUSPENDED", "ERRORED"}
    <3>1. CASE x = p
      BY <3>1
    <3>2. CASE DependsOn(p, x)
      <4>1. PICK y \in Proc : waiting_for[y][x] > 0
        BY <1>0, <3>2, DependedOn
      <4>2. x \in spawned /\ status[x] \notin {"DONE", "SUSPENDED"}
        BY <4>1, WaitedForAtRest
      <4> QED  BY <3>2, <4>2
    <3> QED  BY <3>1, <3>2
  <2>2. status[x] = "WAITING"
    BY <1>0, <2>1, AtRest DEF Status
  <2>3. PICK y \in Proc : waiting_for[x][y] > 0
    BY <2>1, <2>2, AtRest
  <2>4. DependsOn(p, y)
    BY <1>0, <2>3, DependsOnNext
  <2> QED  BY <2>3, <2>4
<1>2. W \in SUBSET Proc /\ W # {}
  BY <1>0
<1> HIDE DEF W
<1> QED  BY <1>1, <1>2, SomebodyIsLast

\* When the work is over and there have not been too many errors, whoever is not done is
\* suspended, or left waiting because of an error in one it depends on.
THEOREM NobodyIsLeftWithoutReason ==
    ASSUME CyclesAreLookedFor, WaitsAreMet PROVE Spec => []LeftForAReason
<1>1. IInv /\ WInv /\ OInv /\ NoWaitCycle => LeftForAReason
  BY LeftAtRest
<1> QED  BY <1>1, Invariance, WaitersInvariance, OInvariance, NobodyWaitsForItself, PTL

-----------------------------------------------------------------------------
(* Order *)

\* The instruction of p whose effect on those who wait for p is still to come.
reached(p) ==
    IF \E w \in Worker : job[w] = p /\ pc[w] \in {"put", "cas"} THEN inst[p] + 1 ELSE inst[p]

\* p waits for the declaration of its parent, or is just being released from it.
Fresh(p) ==
    Parent[p] \in Proc /\ \E i \in DOMAIN Program[Parent[p]] :
        FinishesAt(Parent[p], i, "decl") /\ reached(Parent[p]) <= i

FreshWaits ==
    \A p \in Proc : Fresh(p) =>
        /\ status[p] = "WAITING"
        /\ \A q \in Proc \ {Parent[p]} : waiting_for[p][q] = 0
        /\ \A w \in Worker : Holds(w, p) => job[w] = Parent[p] /\ pc[w] = "release"

NoError == /\ num_errors = 0
           /\ \A p \in Proc : status[p] # "ERRORED"
           /\ \A w \in Worker : pc[w] # "errored"

FInv == FreshWaits /\ NoError

\* The ranks are natural numbers and do not fall along a program.
LEMMA Ranks ==
    ASSUME NEW rank, Feasible(rank), NEW p \in Proc,
           NEW i \in 1..Len(Program[p]) + 1, NEW j \in 1..Len(Program[p]) + 1, i <= j
    PROVE  rank[p][i] \in Nat /\ rank[p][j] \in Nat /\ rank[p][i] <= rank[p][j]
<1>1. /\ rank[p] \in Seq(Nat) /\ Len(rank[p]) = Len(Program[p]) + 1
      /\ \A h, l \in DOMAIN rank[p] : h <= l => rank[p][h] <= rank[p][l]
  BY DEF Feasible
<1>2. i \in DOMAIN rank[p] /\ j \in DOMAIN rank[p]
  BY <1>1
<1> QED  BY <1>1, <1>2

\* What a feasible program is made of.
LEMMA FeasibleProgram ==
    ASSUME NEW rank, Feasible(rank), NEW p \in Proc
    PROVE  /\ \A i \in DOMAIN Program[p] : /\ Program[p][i].op # "error" /\ Reaches(p, i)
                                           /\ \A j \in DOMAIN Program[p], k \in Kind :
                                                  FinishesAt(p, i, k) /\ FinishesAt(p, j, k) => i = j
           /\ DOMAIN Program[p] = 1..Len(Program[p]) /\ Len(Program[p]) \in Nat
<1>1. DOMAIN Program[p] = 1..Len(Program[p]) /\ Len(Program[p]) \in Nat
  BY ProgramAssumption
<1>2. \A i \in DOMAIN Program[p] :
          /\ Program[p][i].op \notin {"error", "no_report"}
          /\ \A j \in DOMAIN Program[p], k \in Kind :
                 FinishesAt(p, i, k) /\ FinishesAt(p, j, k) => i = j
  BY DEF Feasible
<1>3. ASSUME NEW i \in DOMAIN Program[p] PROVE Reaches(p, i)
  BY <1>1, <1>2 DEF Reaches
<1> QED  BY <1>1, <1>2, <1>3

\* Where a SymbolProc is, and that it does not go back.
LEMMA ReachedType ==
    ASSUME TypeOK, Jobs, InProgram, NEW p \in Proc
    PROVE  /\ reached(p) \in 1..Len(Program[p]) + 1 /\ reached(p) >= inst[p]
           /\ reached(p) = inst[p] \/ reached(p) = inst[p] + 1
<1>1. inst[p] \in Nat \ {0} /\ Len(Program[p]) \in Nat /\ inst[p] <= Len(Program[p]) + 1
  BY ProgramAssumption DEF TypeOK, InProgram
<1>2. CASE \E w \in Worker : job[w] = p /\ pc[w] \in {"put", "cas"}
  <2>1. inst[p] <= Len(Program[p])
    BY <1>2, Current DEF Inside
  <2> QED  BY <1>1, <1>2, <2>1 DEF reached
<1>3. CASE ~\E w \in Worker : job[w] = p /\ pc[w] \in {"put", "cas"}
  BY <1>1, <1>3 DEF reached
<1> QED  BY <1>2, <1>3

LEMMA ReachedGrows ==
    ASSUME IInv, OInv, NEW w \in Worker, WorkerStep(w), NEW p \in Proc
    PROVE  reached(p)' \in Nat /\ reached(p)' >= reached(p)
<1>0. TypeOK /\ Jobs /\ InProgram
  BY DEF IInv, OInv
<1>n. TypeOK' /\ Jobs' /\ InProgram'
  BY TypeStep, JobsStep, InProgramStep DEF Next
<1>1. inst[p] \in Nat /\ inst'[p] \in Nat /\ inst'[p] >= inst[p]
  BY <1>0, <1>n, InstSteps DEF TypeOK
<1>2. reached(p)' = inst'[p] \/ reached(p)' = inst'[p] + 1
  BY DEF reached
<1>3. CASE \E v \in Worker : job[v] = p /\ pc[v] \in {"put", "cas"}
  <2>1. PICK v \in Worker : job[v] = p /\ pc[v] \in {"put", "cas"}
    BY <1>3
  <2>2. reached(p) = inst[p] + 1
    BY <1>3 DEF reached
  <2>3. CASE v # w
    <3>1. pc'[v] = pc[v] /\ job'[v] = p /\ p # job[w]
      BY <2>1, <2>3, OthersStay
    <3>2. inst'[p] = inst[p]
      BY <1>0, <3>1, Frame
    <3>3. reached(p)' = inst'[p] + 1
      BY <2>1, <3>1 DEF reached
    <3> QED  BY <1>1, <2>2, <3>2, <3>3
  <2>4. CASE v = w /\ PutEnd(w)
    <3>1. inst'[p] = inst[p] + 1
      BY <1>0, <2>1, <2>4 DEF PutEnd, nextInstruction, TypeOK
    <3> QED  BY <1>1, <1>2, <2>2, <3>1
  <2>5. CASE v = w /\ pc'[w] \in {"put", "cas"} /\ UNCHANGED <<inst, job>>
    <3>1. reached(p)' = inst'[p] + 1
      BY <2>1, <2>5 DEF reached
    <3> QED  BY <1>1, <2>2, <2>5, <3>1
  <2> QED  BY <1>0, <2>1, <2>3, <2>4, <2>5, VisitSteps
<1>4. CASE ~\E v \in Worker : job[v] = p /\ pc[v] \in {"put", "cas"}
  BY <1>1, <1>2, <1>4 DEF reached
<1> QED  BY <1>3, <1>4

\* What is not finished is still to come,
LEMMA UnfinishedAhead ==
    ASSUME IInv, WInv, OInv, NEW rank, Feasible(rank), NEW q \in Proc, NEW k \in Kind,
           k \notin finished[q], NEW j \in DOMAIN Program[q], FinishesAt(q, j, k)
    PROVE  reached(q) <= j
<1>0. TypeOK /\ Jobs /\ Marked /\ PastDone
  BY DEF IInv, WInv, OInv
<1>1. j \in Nat /\ inst[q] \in Nat
  BY <1>0, FeasibleProgram DEF TypeOK
<1>2. inst[q] <= j
  <2>1. ~(j < inst[q])
    BY <1>0, FeasibleProgram DEF PastDone
  <2> QED  BY <1>1, <2>1
<1>3. CASE \E w \in Worker : job[w] = q /\ pc[w] \in {"put", "cas"}
  <2>1. getInstruction(q).kinds \subseteq finished[q]
    BY <1>0, <1>3 DEF Marked, Releasing
  <2>2. inst[q] # j
    BY <2>1 DEF getInstruction, FinishesAt
  <2> QED  BY <1>1, <1>2, <1>3, <2>2 DEF reached
<1>4. CASE ~\E w \in Worker : job[w] = q /\ pc[w] \in {"put", "cas"}
  BY <1>2, <1>4 DEF reached
<1> QED  BY <1>3, <1>4

\* and so is what somebody waits for.
LEMMA AwaitedAhead ==
    ASSUME IInv, WInv, OInv, NEW rank, Feasible(rank), NEW p \in Proc, NEW q \in Proc,
           NEW k \in Kind, waited_on_by[q][k][p] > 0,
           NEW j \in DOMAIN Program[q], FinishesAt(q, j, k)
    PROVE  reached(q) <= j
<1>0. TypeOK /\ Jobs /\ OneRunner /\ NoEdgeToFinished /\ AtFinish
  BY DEF IInv, WInv, OInv
<1>1. CASE k \notin finished[q]
  BY <1>1, UnfinishedAhead
<1>2. CASE k \in finished[q]
  <2>1. PICK w \in Worker : pc[w] = "release" /\ job[w] = q /\ k \in getInstruction(q).kinds
    BY <1>0, <1>2 DEF NoEdgeToFinished, Propagating
  <2>2. FinishesAt(q, inst[q], k)
    BY <1>0, <2>1 DEF AtFinish, Releasing, FinishesAt, getInstruction
  <2>3. inst[q] \in DOMAIN Program[q]
    <3>1. inst[q] <= Len(Program[q]) /\ inst[q] \in Nat \ {0}
      BY <1>0, <2>1, Current DEF Inside, TypeOK
    <3> QED  BY <3>1, FeasibleProgram
  <2>4. j = inst[q]
    BY <2>2, <2>3, FeasibleProgram
  <2>5. ~\E v \in Worker : job[v] = q /\ pc[v] \in {"put", "cas"}
    BY <1>0, <2>1, ProcAssumption DEF OneRunner
  <2>6. j \in Nat
    BY FeasibleProgram
  <2> QED  BY <2>4, <2>5, <2>6 DEF reached
<1> QED  BY <1>1, <1>2

\* p is a struct that has added itself to members and not yet finished its declaration.
Gathering(p) ==
    \E i \in DOMAIN Program[p] :
        /\ Added(p, i) /\ reached(p) <= i + 1 /\ Program[p][i].op = "members"
        /\ i + 1 \in DOMAIN Program[p] /\ Program[p][i + 1].op = "finish"

\* Every edge leads to what is run, and will be finished, and down in rank: but for those
\* of a struct to members that wait for its declaration.
LEMMA EdgeOrder ==
    ASSUME IInv, WInv, OInv, NEW rank, Feasible(rank), NEW p \in Proc, NEW q \in Proc,
           waiting_for[p][q] > 0
    PROVE  /\ q \in spawned /\ reached(q) <= Len(Program[q])
           /\ \/ rank[q][reached(q)] < rank[p][reached(p)]
              \/ Fresh(q) /\ Parent[q] = p /\ Gathering(p)
<1>0. /\ TypeOK /\ Jobs /\ EdgesMatch /\ InProgram /\ PastDone /\ Cause
      /\ Proc \ Later \subseteq spawned
  BY DEF IInv, OInv
<1>1. PICK k \in Kind : waited_on_by[q][k][p] > 0
  BY <1>0, EdgeKind
<1>2. /\ reached(p) \in 1..Len(Program[p]) + 1 /\ reached(p) >= inst[p]
      /\ reached(q) \in 1..Len(Program[q]) + 1
      /\ inst[p] \in Nat \ {0}
  BY <1>0, ReachedType DEF TypeOK
<1>d. /\ DOMAIN Program[p] = 1..Len(Program[p]) /\ Len(Program[p]) \in Nat
      /\ DOMAIN Program[q] = 1..Len(Program[q]) /\ Len(Program[q]) \in Nat
  BY FeasibleProgram
<1>3. ASSUME NEW i \in 1..Len(Program[p]) + 1, i <= reached(p),
             NEW j \in DOMAIN Program[q], FinishesAt(q, j, k), rank[q][j] < rank[p][i]
      PROVE  reached(q) <= Len(Program[q]) /\ rank[q][reached(q)] < rank[p][reached(p)]
  <2>1. reached(q) <= j
    BY <1>1, <1>3, AwaitedAhead
  <2>2. j \in 1..Len(Program[q]) + 1 /\ reached(q) <= Len(Program[q])
    BY <1>2, <1>d, <2>1
  <2>3. /\ rank[q][reached(q)] \in Nat /\ rank[q][j] \in Nat
        /\ rank[q][reached(q)] <= rank[q][j]
    BY <1>2, <2>1, <2>2, Ranks
  <2>4. /\ rank[p][i] \in Nat /\ rank[p][reached(p)] \in Nat
        /\ rank[p][i] <= rank[p][reached(p)]
    BY <1>2, <1>3, Ranks
  <2> QED  BY <1>3, <2>2, <2>3, <2>4
<1>4. CASE k = "decl" /\ Parent[p] = q
  <2>1. Parent[p] # NoProc
    BY <1>4, ProcAssumption
  <2>2. PICK j \in DOMAIN Program[q] : FinishesAt(q, j, "decl") /\ rank[q][j] < rank[p][1]
    BY <1>4, <2>1 DEF Feasible
  <2>3. q \in spawned
    BY <1>0, <1>4, <2>1 DEF Feasible
  <2>4. 1 \in 1..Len(Program[p]) + 1 /\ 1 <= reached(p)
    BY <1>2, <1>d
  <2> QED  BY <1>3, <1>4, <2>2, <2>3, <2>4
<1>5. ASSUME NEW i \in DOMAIN Program[p], i <= inst[p], WaitsAt(p, i, q, k)
      PROVE  /\ q \in spawned /\ reached(q) <= Len(Program[q])
             /\ rank[q][reached(q)] < rank[p][reached(p)]
  <2>1. PICK j \in DOMAIN Program[q] : FinishesAt(q, j, k) /\ rank[q][j] < rank[p][i]
    BY <1>5 DEF Feasible
  <2>2. i \in 1..Len(Program[p]) + 1 /\ i <= reached(p)
    BY <1>2, <1>5, <1>d
  <2>3. ASSUME q \in Later PROVE q \in spawned
    <3>1. PICK h \in 1..i - 1 : SpawnsAt(p, h, q)
      BY <1>5, <2>3 DEF Feasible
    <3>2. h \in DOMAIN Program[p] /\ h < inst[p]
      BY <1>2, <1>5, <1>d
    <3>3. Reaches(p, h)
      BY <3>2, FeasibleProgram
    <3> QED  BY <1>0, <3>1, <3>2, <3>3 DEF PastDone
  <2> QED  BY <1>0, <1>3, <2>1, <2>2, <2>3
<1>6. ASSUME NEW i \in DOMAIN Program[p], Added(p, i), AddsAt(p, i, q, k)
      PROVE  /\ q \in spawned /\ reached(q) <= Len(Program[q])
             /\ \/ rank[q][reached(q)] < rank[p][reached(p)]
                \/ Fresh(q) /\ Parent[q] = p /\ Gathering(p)
  <2>1. /\ i + 1 \in DOMAIN Program[p] /\ FinishesAt(p, i + 1, "decl")
        /\ \E j \in DOMAIN Program[q] : FinishesAt(q, j, k) /\ rank[q][j] < rank[p][i + 2]
    BY <1>6 DEF Feasible
  <2>2. Parent[q] = p /\ Parent[q] # NoProc
    BY <1>6, MembersAssumption, ProcAssumption DEF AddsAt
  <2>3. q \in spawned
    BY <1>0, <2>2, ParentAssumption
  <2>4. PICK j \in DOMAIN Program[q] : FinishesAt(q, j, k) /\ rank[q][j] < rank[p][i + 2]
    BY <2>1
  <2>5. reached(q) <= Len(Program[q])
    <3>1. reached(q) <= j
      BY <1>1, <2>4, AwaitedAhead
    <3> QED  BY <1>2, <1>d, <3>1
  <2>6. CASE reached(p) >= i + 2
    <3>1. i + 2 \in 1..Len(Program[p]) + 1
      BY <1>2, <1>d, <2>6
    <3> QED  BY <1>3, <2>3, <2>4, <2>6, <3>1
  <2>7. CASE ~(reached(p) >= i + 2)
    <3>1. reached(p) <= i + 1
      BY <1>2, <1>d, <2>7
    <3>2. Fresh(q)
      BY <2>1, <2>2, <3>1 DEF Fresh
    <3>3. Gathering(p)
      BY <1>6, <2>1, <3>1 DEF Gathering, AddsAt, FinishesAt
    <3> QED  BY <2>2, <2>3, <2>5, <3>2, <3>3
  <2> QED  BY <2>6, <2>7
<1> QED  BY <1>0, <1>1, <1>3, <1>4, <1>5, <1>6 DEF Cause

\* A member whose parent is not past its declaration stays as it was.
LEMMA FreshWaitsStep ==
    ASSUME IInv, WInv, OInv, FInv, NEW rank, Feasible(rank), NEW w \in Worker, WorkerStep(w)
    PROVE  FreshWaits'
<1>0. /\ TypeOK /\ Jobs /\ OneRunner /\ EdgesMatch /\ Past /\ NotBegun /\ AtVisit
      /\ Proc \ Later \subseteq spawned /\ FreshWaits
  BY DEF IInv, WInv, OInv, FInv
<1>n. TypeOK'
  BY TypeStep DEF Next
<1> SUFFICES ASSUME NEW p \in Proc, Fresh(p)'
             PROVE  /\ status'[p] = "WAITING"
                    /\ \A q \in Proc \ {Parent[p]} : waiting_for'[p][q] = 0
                    /\ \A v \in Worker : Holds(v, p)' => job'[v] = Parent[p] /\ pc'[v] = "release"
  BY DEF FreshWaits
<1> DEFINE z == Parent[p]
<1>1. PICK j \in DOMAIN Program[z] : z \in Proc /\ FinishesAt(z, j, "decl") /\ reached(z)' <= j
  BY DEF Fresh
<1>2. j \in Nat /\ reached(z) \in Nat
  <2>1. DOMAIN Program[z] = 1..Len(Program[z]) /\ Len(Program[z]) \in Nat
    BY <1>1, FeasibleProgram
  <2>2. j \in Nat
    BY <1>1, <2>1
  <2>3. inst[z] \in Nat
    BY <1>0, <1>1 DEF TypeOK
  <2>4. reached(z) \in {inst[z], inst[z] + 1}
    BY DEF reached
  <2> QED  BY ONLY <2>2, <2>3, <2>4
<1>3. Fresh(p)
  <2>1. reached(z) <= reached(z)' /\ reached(z)' \in Nat
    BY <1>1, ReachedGrows
  <2>2. reached(z) <= j
    BY <1>1, <1>2, <2>1
  <2> QED  BY <1>1, <2>2 DEF Fresh
<1>4. /\ status[p] = "WAITING"
      /\ \A q \in Proc \ {z} : waiting_for[p][q] = 0
      /\ \A v \in Worker : Holds(v, p) => job[v] = z /\ pc[v] = "release"
  BY <1>0, <1>3 DEF FreshWaits
<1>5. p # job[w]
  BY <1>0, <1>4, ProcAssumption DEF OneRunner
<1>6. p \in spawned
  BY <1>0, <1>1, ParentAssumption, ProcAssumption
<1>7. status'[p] = "WAITING"
  <2> SUFFICES ASSUME status'[p] # status[p] PROVE FALSE
    BY <1>4
  <2>1. pc[w] = "cas" /\ p = target[w]
    BY <1>0, <1>4, <1>5, <1>6, StatusSteps
  <2>2. Holds(w, p)
    BY <1>0, <2>1 DEF Jobs, JobOK, Holds
  <2> QED  BY <1>4, <2>1, <2>2
<1>8. ASSUME NEW q \in Proc \ {z} PROVE waiting_for'[p][q] = 0
  <2>a. waiting_for \in [Proc -> [Proc -> Nat]] /\ waiting_for' \in [Proc -> [Proc -> Nat]]
    <3>1. waiting_for \in [Proc -> [Proc -> Nat]]
      BY <1>0 DEF TypeOK
    <3>2. waiting_for' \in [Proc -> [Proc -> Nat]]
      BY <1>n DEF TypeOK
    <3> QED  BY <3>1, <3>2
  <2>0. waiting_for \in [Proc -> [Proc -> Nat]] /\ waiting_for'[p][q] \in Nat
        /\ waiting_for[p][q] = 0
    BY <1>4, <2>a
  <2>1. CASE UNCHANGED <<waiting_for, waited_on_by>>
    BY <2>0, <2>1
  <2>2. CASE \E id \in Proc : \E k \in Kind : Release(w, k, id)
    <3>1. waiting_for'[p][q] > 0 => waiting_for[p][q] > 0
      BY <1>0, <2>2, ReleaseLess
    <3> QED  BY <2>0, <3>1
  <2>3. CASE job[w] \in Proc /\ Link(job[w], Head(todo[w])[1], Head(todo[w])[2])
    BY <1>5, <2>0, <2>3 DEF Link
  <2> QED  BY <1>0, <2>1, <2>2, <2>3, LinkPlaces
<1>9. ASSUME NEW v \in Worker, Holds(v, p)', v # w PROVE job'[v] = z /\ pc'[v] = "release"
  <2>1. Holds(v, p)
    BY <1>0, <1>9, Frame DEF Holds
  <2> QED  BY <1>0, <1>4, <1>9, <2>1, Frame
<1>10. ASSUME Holds(w, p)' PROVE job'[w] = z /\ pc'[w] = "release"
  <2>1. ASSUME NEW k \in Kind, Release(w, k, p) PROVE job'[w] = z /\ pc'[w] = "release"
    <3>1. job[w] \in Proc /\ pc[w] = "release" /\ UNCHANGED <<pc, job>>
          /\ waited_on_by[job[w]][k][p] > 0
      BY <1>0, <2>1, HasJob DEF Release
    <3>2. waiting_for[p][job[w]] > 0
      BY <1>0, <3>1, BothEnds
    <3>3. job[w] = z
      BY <1>4, <3>1, <3>2
    <3> QED  BY <3>1, <3>3
  <2>2. CASE Holds(w, p)
    <3>1. job[w] = z /\ pc[w] = "release"
      BY <1>4, <2>2
    <3>2. pc'[w] \in Releasing
      BY <1>10 DEF Holds, Releasing
    <3>3. UNCHANGED <<inst, job>>
      BY <1>0, <3>1, <3>2, PlaceSteps DEF Finish, Runs
    <3>4. CASE pc'[w] # "release"
      <4>1. reached(z)' = inst[z] + 1
        <5>1. pc'[w] \in {"put", "cas"} /\ job'[w] = z /\ inst' = inst
          BY <3>1, <3>2, <3>3, <3>4 DEF Releasing
        <5> QED  BY <5>1 DEF reached
      <4>2. inst[z] \in Nat /\ inst[z] < j
        BY <1>0, <1>1, <1>2, <4>1 DEF TypeOK
      <4>3. "decl" \notin finished[z]
        <5> SUFFICES ASSUME "decl" \in finished[z] PROVE FALSE
          OBVIOUS
        <5>1. PICK i \in DOMAIN Program[z] : i <= inst[z] /\ FinishesAt(z, i, "decl")
          BY <1>0, <1>1 DEF Past, FinishesAt
        <5>2. i = j
          BY <1>1, <5>1, FeasibleProgram DEF Kind
        <5> QED  BY <1>2, <4>2, <5>1, <5>2
      <4>4. Held(p)
        BY <1>1, <4>3 DEF Held
      <4> QED  BY <1>0, <2>2, <4>4 DEF NotBegun
    <3> QED  BY <3>1, <3>3, <3>4
  <2> QED  BY <1>0, <1>10, <2>1, <2>2, PutSteps
<1> QED  BY <1>7, <1>8, <1>9, <1>10


\* No cycle is found: who is depended on has a lower rank, or waits for its parent's
\* declaration only, and who looks for a cycle is not one of them.
LEMMA NoCircle ==
    ASSUME IInv, WInv, OInv, FInv, NEW rank, Feasible(rank), NEW w \in Worker,
           pc[w] = "check", todo[w] # <<>>,
           Head(todo[w])[2] \notin finished[Head(todo[w])[1]]
    PROVE  ~Circular(job[w], Head(todo[w])[1], Head(todo[w])[2])
<1> DEFINE id == job[w]
           on == Head(todo[w])[1]
           kind == Head(todo[w])[2]
           r(p) == rank[p][reached(p)]
<1>0. /\ TypeOK /\ Jobs /\ OneRunner /\ InProgram /\ AtVisit /\ FreshWaits
  BY DEF IInv, OInv, FInv
<1>1. id \in Proc /\ on \in Proc /\ kind \in Kind
  BY <1>0, HasJob, HeadTodo
<1>2. inst[id] \in DOMAIN Program[id] /\ WaitsAt(id, inst[id], on, kind)
  BY <1>0, ToVisit DEF Visiting
<1>3. PICK j \in DOMAIN Program[on] : FinishesAt(on, j, kind) /\ rank[on][j] < rank[id][inst[id]]
  <2> HIDE DEF id, on, kind
  <2> QED  BY <1>1, <1>2 DEF Feasible
<1>4. ASSUME NEW p \in Proc
      PROVE  reached(p) \in 1..Len(Program[p]) + 1 /\ r(p) \in Nat
  BY <1>0, ReachedType, Ranks
<1>5. r(on) < r(id)
  <2>1. reached(on) <= j
    BY <1>1, <1>3, UnfinishedAhead
  <2>2. j \in 1..Len(Program[on]) + 1 /\ inst[id] \in 1..Len(Program[id]) + 1
    BY <1>1, <1>2, FeasibleProgram
  <2>3. r(on) \in Nat /\ rank[on][j] \in Nat /\ r(on) <= rank[on][j]
    BY <1>1, <1>4, <2>1, <2>2, Ranks
  <2>4. inst[id] <= reached(id)
    BY <1>0, <1>1, ReachedType
  <2>5. r(id) \in Nat /\ rank[id][inst[id]] \in Nat /\ rank[id][inst[id]] <= r(id)
    BY <1>1, <1>4, <2>2, <2>4, Ranks
  <2> HIDE DEF r, id, on
  <2> QED  BY <1>3, <2>3, <2>5
<1>6. id # on
  BY <1>1, <1>4, <1>5
<1>7. ~DependsOn(on, id)
  <2> DEFINE T == {q \in Proc : r(q) <= r(on)}
                  \cup {q \in Proc : Fresh(q) /\ Parent[q] \in Proc /\ r(Parent[q]) <= r(on)}
  <2>1. ASSUME NEW p \in Proc, r(p) <= r(on), NEW q \in Proc, waiting_for[p][q] > 0
        PROVE  q \in T
    <3>1. r(q) < r(p) \/ (Fresh(q) /\ Parent[q] = p)
      BY <2>1, EdgeOrder
    <3>2. r(q) \in Nat /\ r(p) \in Nat /\ r(on) \in Nat
      BY <1>1, <1>4
    <3>3. r(q) < r(p) => r(q) <= r(on)
      <4> HIDE DEF r, on
      <4> QED  BY <2>1, <3>2
    <3> QED  BY <2>1, <3>1, <3>3
  <2>2. ASSUME NEW p \in Proc, Fresh(p), r(Parent[p]) <= r(on), NEW q \in Proc,
               waiting_for[p][q] > 0
        PROVE  q \in T
    <3>1. q = Parent[p]
      BY <1>0, <2>2 DEF FreshWaits
    <3> QED  BY <2>2, <3>1
  <2>3. id \notin T
    <3>1. ~(r(id) <= r(on))
      <4>1. r(id) \in Nat /\ r(on) \in Nat
        BY <1>1, <1>4
      <4> HIDE DEF r, id, on
      <4> QED  BY <1>5, <4>1
    <3>2. ~Fresh(id)
      BY <1>0, <1>1, RunsAlone DEF FreshWaits
    <3> QED  BY <3>1, <3>2
  <2>4. r(on) <= r(on)
    <3>1. r(on) \in Nat
      BY <1>1, <1>4
    <3> HIDE DEF r, on
    <3> QED  BY <3>1
  <2>5. T \in SUBSET Proc
    OBVIOUS
  <2>6. ASSUME NEW p \in T \cup {on}, NEW q \in Proc, waiting_for[p][q] > 0 PROVE q \in T
    <3>1. p \in Proc /\ (r(p) <= r(on) \/ (Fresh(p) /\ r(Parent[p]) <= r(on)))
      BY <1>1, <2>4, <2>6
    <3> HIDE DEF T
    <3> QED  BY <2>1, <2>2, <2>6, <3>1
  <2> HIDE DEF T
  <2> QED  BY <2>3, <2>5, <2>6 DEF DependsOn
<1> QED  BY <1>6, <1>7 DEF Circular

\* A worker goes to fail its SymbolProc where an error is reported, or where one it is to
\* wait for has failed.
LEMMA FailSteps ==
    ASSUME TypeOK, Jobs, NEW w \in Worker, WorkerStep(w), pc'[w] = "errored"
    PROVE  pc[w] = "errored" \/ num_errors' # num_errors \/ \E p \in Proc : status[p] = "ERRORED"
<1> DEFINE Goal == \/ pc[w] = "errored" \/ num_errors' # num_errors
                   \/ \E p \in Proc : status[p] = "ERRORED"
<1>0. pc \in [Worker -> WorkerPC] /\ num_errors \in Nat
  BY DEF TypeOK
<1>1. CASE Error(w)
  BY <1>0, <1>1 DEF Error
<1>2. CASE WaitCheck(w)
  <2>1. Head(todo[w])[1] \in Proc /\ pc[w] = "check"
    BY <1>2, HeadTodo DEF WaitCheck
  <2>2. \/ UNCHANGED pc \/ status[Head(todo[w])[1]] = "ERRORED"
        \/ num_errors' = num_errors + 1 \/ Goto(w, "push")
    BY <1>2 DEF WaitCheck
  <2>3. UNCHANGED pc => pc'[w] = "check"
    BY <2>1
  <2>4. Goto(w, "push") => pc'[w] = "push"
    BY <1>0 DEF Goto
  <2> QED  BY <1>0, <2>1, <2>2, <2>3, <2>4
<1>3. CASE WaitPush(w)
  <2>1. Head(todo[w])[1] \in Proc
    BY <1>3, HeadTodo DEF WaitPush, Jobs, JobOK
  <2>2. status[Head(todo[w])[1]] = "ERRORED" \/ Goto(w, "check")
    BY <1>3 DEF WaitPush
  <2>3. Goto(w, "check") => pc'[w] = "check"
    BY <1>0 DEF Goto
  <2> QED  BY <2>1, <2>2, <2>3
<1>4. CASE (\E p \in Proc : Take(w, p)) \/ Start(w) \/ Done(w) \/ Errored(w) \/ NeedToWait(w)
           \/ Suspend(w) \/ Wait(w) \/ WaitEnd(w) \/ Members(w) \/ MembersEnd(w)
           \/ Finish(w) \/ ReleaseEnd(w) \/ PutEnd(w) \/ Select(w) \/ Spawn(w)
           \/ setStatusInQueueIfNotAlreadyDone(w)
  <2>1. \E l \in WorkerPC \ {"errored"} : Goto(w, l)
    BY <1>4 DEF Take, Start, Done, Errored, NeedToWait, Suspend, Wait, WaitEnd, Members,
                MembersEnd, Finish, ReleaseEnd, PutEnd, Select, Spawn,
                setStatusInQueueIfNotAlreadyDone, LeaveAnalyze, nextInstruction, WorkerPC
  <2> QED  BY <1>0, <2>1 DEF Goto
<1>5. CASE \E q \in Proc : PutLook(w, q)
  <2>1. UNCHANGED pc \/ Goto(w, "cas")
    BY <1>5 DEF PutLook
  <2> QED  BY <1>0, <2>1 DEF Goto
<1>6. CASE ErrorNoReport(w) \/ AddToMember(w) \/ (\E q \in Proc : \E k \in Kind : Release(w, k, q))
  <2>1. UNCHANGED pc
    BY <1>6 DEF ErrorNoReport, AddToMember, Release
  <2> QED  BY <2>1
<1> QED  BY <1>1, <1>2, <1>3, <1>4, <1>5, <1>6 DEF WorkerStep

LEMMA NoErrorStep ==
    ASSUME IInv, WInv, OInv, FInv, NEW rank, Feasible(rank), NEW w \in Worker, WorkerStep(w)
    PROVE  NoError'
<1>0. TypeOK /\ Jobs /\ NoError
  BY DEF IInv, FInv
<1>1. num_errors' = 0
  <2>1. ~Error(w)
    <3> SUFFICES ASSUME Error(w) PROVE FALSE
      OBVIOUS
    <3>1. /\ job[w] \in Proc /\ inst[job[w]] <= Len(Program[job[w]])
          /\ getInstruction(job[w]).op = "error"
      BY <1>0, Current DEF Error, Runs
    <3>2. inst[job[w]] \in DOMAIN Program[job[w]]
      <4>1. inst[job[w]] \in Nat \ {0}
        BY <1>0, <3>1 DEF TypeOK
      <4> QED  BY <3>1, <4>1, FeasibleProgram
    <3> QED  BY <3>1, <3>2, FeasibleProgram DEF getInstruction
  <2>2. WaitCheck(w) => pc[w] = "check" /\ todo[w] # <<>>
    BY DEF WaitCheck
  <2>3. ~(/\ WaitCheck(w) /\ Head(todo[w])[2] \notin finished[Head(todo[w])[1]]
          /\ Circular(job[w], Head(todo[w])[1], Head(todo[w])[2]))
    BY <2>2, NoCircle
  <2> QED  BY <1>0, <2>1, <2>3, ErrorSteps DEF NoError
<1>2. ASSUME NEW p \in Proc PROVE status'[p] # "ERRORED"
  <2>1. ~Errored(w)
    BY <1>0 DEF Errored, NoError
  <2>2. CASE status'[p] # status[p]
    BY <1>0, <2>1, <2>2, RestSteps
  <2> QED  BY <1>0, <2>2 DEF NoError
<1>3. ASSUME NEW v \in Worker PROVE pc'[v] # "errored"
  <2>1. CASE v = w
    BY <1>0, <1>1, <2>1, FailSteps DEF NoError
  <2>2. CASE v # w
    BY <1>0, <2>2, Frame DEF NoError
  <2> QED  BY <2>1, <2>2
<1> QED  BY <1>1, <1>2, <1>3 DEF NoError

LEMMA InitFInv == ASSUME Init PROVE FInv
<1>1. NoError
  BY DEF Init, NoError
<1>2. ASSUME NEW p \in Proc, Fresh(p)
      PROVE  /\ status[p] = "WAITING"
             /\ \A q \in Proc \ {Parent[p]} : waiting_for[p][q] = 0
             /\ \A w \in Worker : ~Holds(w, p)
  <2>1. Parent[p] # NoProc
    BY <1>2, ProcAssumption DEF Fresh
  <2> QED  BY <2>1 DEF Init, Holds
<1> QED  BY <1>1, <1>2 DEF FInv, FreshWaits

LEMMA UnchangedFInv == ASSUME FInv, UNCHANGED vars PROVE FInv'
<1> USE DEF vars, graph, counters, locals
<1>1. \A p \in Proc : reached(p)' = reached(p) /\ (Fresh(p)' <=> Fresh(p))
  BY DEF reached, Fresh
<1>2. FreshWaits'
  BY <1>1 DEF FInv, FreshWaits, Holds
<1>3. NoError'
  BY DEF FInv, NoError
<1> QED  BY <1>2, <1>3 DEF FInv

LEMMA OrderInvariance == ASSUME NEW CONSTANT rank, Feasible(rank) PROVE Spec => []FInv
<1>1. Init => FInv
  BY InitFInv
<1>2. IInv /\ WInv /\ OInv /\ FInv /\ [Next]_vars => FInv'
  <2> SUFFICES ASSUME IInv, WInv, OInv, FInv, [Next]_vars PROVE FInv'
    OBVIOUS
  <2>1. CASE UNCHANGED vars
    BY <2>1, UnchangedFInv
  <2>2. ASSUME NEW w \in Worker, WorkerStep(w) PROVE FInv'
    BY <2>2, FreshWaitsStep, NoErrorStep DEF FInv
  <2> QED  BY <2>1, <2>2 DEF Next
<1> QED  BY <1>1, <1>2, Invariance, WaitersInvariance, OInvariance, PTL DEF Spec

\* A program whose SymbolProcs can all finish, in whatever order the workers take them, is
\* not rejected: no worker takes for a cycle what is none.
THEOREM NothingIsRejectedFalsely ==
    ASSUME NEW CONSTANT rank, Feasible(rank) PROVE Spec => []NoFalseError
<1>1. FInv => NoFalseError
  BY DEF FInv, NoError, NoFalseError
<1> QED  BY <1>1, OrderInvariance, PTL

-----------------------------------------------------------------------------
(* Stalls *)

\* At rest, whoever waits waits for one of a lower rank that waits too.
LEMMA WaitsForLower ==
    ASSUME IInv, WInv, OInv, FInv, NEW rank, Feasible(rank), Quiet, ~hasHitFailCondition,
           NEW p \in spawned, status[p] = "WAITING"
    PROVE  \E q \in spawned : status[q] = "WAITING" /\ rank[q][reached(q)] < rank[p][reached(p)]
<1>0. /\ TypeOK /\ Jobs /\ EdgesMatch /\ SuspendedUnwanted /\ DoneAtEnd /\ WaitingAt /\ NoError
  BY DEF IInv, WInv, OInv, FInv
<1>1. p \in Proc /\ spawned \subseteq Proc /\ status \in [Proc -> Status] /\ inst \in [Proc -> Nat \ {0}]
  BY <1>0 DEF TypeOK
<1>2. PICK q \in Proc : waiting_for[p][q] > 0
  BY <1>1, AtRest
<1>3. /\ q \in spawned /\ reached(q) <= Len(Program[q])
      /\ rank[q][reached(q)] < rank[p][reached(p)] \/ Gathering(p)
  BY <1>1, <1>2, EdgeOrder
<1>4. \A w \in Worker : job[w] = NoProc
  BY <1>0 DEF Quiet, Jobs, JobOK
<1>5. reached(p) = inst[p] /\ reached(q) = inst[q]
  BY <1>1, <1>4, ProcAssumption DEF reached
<1>6. status[q] = "WAITING"
  <2>1. PICK k \in Kind : waited_on_by[q][k][p] > 0
    BY <1>0, <1>1, <1>2, EdgeKind
  <2>2. status[q] # "SUSPENDED"
    BY <1>0, <1>1, <2>1 DEF SuspendedUnwanted, None
  <2>3. status[q] # "DONE"
    <3>1. inst[q] # Len(Program[q]) + 1
      BY <1>1, <1>3, <1>5, FeasibleProgram
    <3> QED  BY <1>0, <3>1 DEF DoneAtEnd
  <2> QED  BY <1>0, <1>1, <2>2, <2>3, AtRest DEF NoError, Status
<1>7. ~Gathering(p)
  <2> SUFFICES ASSUME NEW i \in DOMAIN Program[p], Added(p, i), inst[p] <= i + 1,
                      Program[p][i].op = "members", i + 1 \in DOMAIN Program[p],
                      Program[p][i + 1].op = "finish"
               PROVE  FALSE
    BY <1>5 DEF Gathering
  <2>1. i < inst[p] /\ i \in Nat \ {0} /\ inst[p] \in Nat
    BY <1>1, <1>4, ProcAssumption, FeasibleProgram DEF Added
  <2>2. inst[p] = i + 1 /\ inst[p] # 1 /\ inst[p] - 1 = i
    BY <2>1
  <2> QED  BY <1>0, <1>1, <2>2 DEF WaitingAt, Stops
<1> QED  BY <1>3, <1>6, <1>7

\* So nobody waits: the one of the lowest rank would.
LEMMA NobodyWaits ==
    ASSUME IInv, WInv, OInv, FInv, NEW rank, Feasible(rank), Quiet, ~hasHitFailCondition,
           NEW p \in spawned
    PROVE  status[p] # "WAITING"
<1> SUFFICES ASSUME status[p] = "WAITING" PROVE FALSE
  OBVIOUS
<1>0. TypeOK /\ Jobs /\ InProgram /\ spawned \subseteq Proc
  BY DEF IInv, OInv, TypeOK
<1> DEFINE V == {x \in spawned : status[x] = "WAITING"}
           r(x) == rank[x][reached(x)]
           Lower(x) == {y \in Proc : r(y) < r(x)}
           T == {Lower(x) : x \in V}
<1>1. ASSUME NEW x \in Proc PROVE r(x) \in Nat
  BY <1>0, <1>1, ReachedType, Ranks
<1>2. PICK t \in T : \A s \in T : ~(<<s, t>> \in StrictSubsetOrdering(Proc))
  <2>1. IsWellFoundedOn(StrictSubsetOrdering(Proc), SUBSET Proc)
    BY ProcAssumption, FS_StrictSubsetOrderingWellFounded, FS_FiniteSubsetsOfFinite
  <2>2. T \subseteq SUBSET Proc /\ T # {}
    OBVIOUS
  <2> HIDE DEF T
  <2> QED  BY <2>1, <2>2, WFMin
<1>3. PICK x \in V : t = Lower(x)
  BY <1>2
<1>4. PICK y \in V : r(y) < r(x)
  BY <1>3, WaitsForLower
<1>5. x \in Proc /\ y \in Proc /\ r(x) \in Nat /\ r(y) \in Nat
  BY <1>0, <1>1
<1>6. Lower(y) \in T /\ Lower(y) \in SUBSET Proc /\ Lower(x) \in SUBSET Proc
  OBVIOUS
<1>7. y \in Lower(x)
  BY <1>4, <1>5
<1>8. y \notin Lower(y) /\ Lower(y) \subseteq Lower(x)
  <2> HIDE DEF r
  <2> QED  BY <1>1, <1>4, <1>5
<1> HIDE DEF Lower, T
<1>9. <<Lower(y), Lower(x)>> \in StrictSubsetOrdering(Proc)
  BY <1>6, <1>7, <1>8 DEF StrictSubsetOrdering
<1> QED  BY <1>2, <1>3, <1>6, <1>9

LEMMA NobodyIsStalled ==
    ASSUME IInv, WInv, OInv, FInv, NEW rank, Feasible(rank)
    PROVE  NoStall
<1> SUFFICES ASSUME Quiet, num_errors = 0 PROVE allProcsDone
  BY DEF NoStall
<1>0. TypeOK /\ Unspawned /\ Counts /\ NoError
  BY DEF IInv, OInv, FInv
<1>1. ~hasHitFailCondition
  BY MaxErrorsAssumption DEF hasHitFailCondition
<1>2. ASSUME NEW p \in spawned PROVE status[p] \in {"SUSPENDED", "DONE", "ERRORED"}
  <2>1. p \in Proc /\ status[p] \in Status
    BY <1>0 DEF TypeOK
  <2> QED  BY <1>1, <2>1, AtRest, NobodyWaits DEF Status
<1>3. ASSUME NEW p \in Proc, status[p] = "SUSPENDED" PROVE p \in spawned
  BY <1>0, <1>3 DEF Unspawned
<1>4. Unfinished = Suspended
  BY <1>0, <1>2, <1>3 DEF Unfinished, Suspended, TypeOK
<1> QED  BY <1>0, <1>4 DEF Counts, allProcsDone

\* A program whose SymbolProcs can all finish does not stall: when the work is over, each
\* of them is done, or suspended because nobody wants it.
THEOREM NothingStalls ==
    ASSUME NEW CONSTANT rank, Feasible(rank) PROVE Spec => []NoStall
<1>1. IInv /\ WInv /\ OInv /\ FInv => NoStall
  BY NobodyIsStalled
<1> QED  BY <1>1, Invariance, WaitersInvariance, OInvariance, OrderInvariance, PTL
=============================================================================
