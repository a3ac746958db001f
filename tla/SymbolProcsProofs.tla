--------------------------- MODULE SymbolProcsProofs ---------------------------
(***************************************************************************)
(* Safety of the scheduling of symbol processes, for every program, every  *)
(* number of workers and every bound on errors.                            *)
(***************************************************************************)
EXTENDS SymbolProcs, FiniteSetTheorems, TLAPS

Inside == {"check", "push", "pause", "members", "release", "put", "cas"}

(***************************************************************************)
(* Where a worker is tells what its locals hold.                           *)
(***************************************************************************)
JobOK(w) ==
    /\ job[w] = NoProc <=> pc[w] = "idle"
    /\ pc[w] \in Inside => inst[job[w]] <= Len(Program[job[w]])
    /\ pc[w] = "push" => todo[w] # <<>>
    /\ pc[w] = "cas" => target[w] \in put[w]

Jobs == \A w \in Worker : JobOK(w)

(***************************************************************************)
(* A SymbolProc that is not to be run yet is out of everybody's sight.     *)
(***************************************************************************)
Unspawned ==
    \A p \in Proc \ spawned :
        /\ status[p] = "WAITING" /\ waiting_for[p] = None
        /\ \A w \in Worker : pc[w] \in {"release", "put", "cas"} => p \notin put[w]

IInv == TypeOK /\ Jobs /\ OneRunner /\ EdgesMatch /\ Unspawned /\ NoLostWakeup

-----------------------------------------------------------------------------
(* The program and the bags. *)

\* The instruction a SymbolProc is at, and the fields of it that are used.
LEMMA InstructionType ==
    ASSUME TypeOK, NEW p \in Proc, inst[p] <= Len(Program[p])
    PROVE  /\ getInstruction(p) \in Instruction
           /\ getInstruction(p).on \in Seq(Proc \X Kind)
           /\ getInstruction(p).kinds \in SUBSET Kind
           /\ getInstruction(p).op \in {"select", "spawn"} => getInstruction(p).on # <<>>
<1>1. Program[p] \in Seq(Instruction) /\ inst[p] \in Nat \ {0}
  BY ProgramAssumption DEF TypeOK
<1>2. inst[p] \in DOMAIN Program[p] /\ Program[p][inst[p]] \in Instruction
  BY <1>1
<1> QED  BY <1>2, TargetAssumption DEF getInstruction, Instruction

\* A worker that is not idle has a SymbolProc.
LEMMA HasJob ==
    ASSUME TypeOK, Jobs, NEW w \in Worker, pc[w] # "idle"
    PROVE  job[w] \in Proc
BY DEF TypeOK, Jobs, JobOK

\* What a worker in the middle of an instruction knows of that instruction.
LEMMA Current ==
    ASSUME TypeOK, Jobs, NEW w \in Worker,
           pc[w] \in Inside \/ (pc[w] = "run" /\ ~isAtEnd(job[w]))
    PROVE  /\ job[w] \in Proc
           /\ inst[job[w]] <= Len(Program[job[w]])
           /\ getInstruction(job[w]).on \in Seq(Proc \X Kind)
           /\ getInstruction(job[w]).kinds \in SUBSET Kind
           /\ getInstruction(job[w]).op \in {"select", "spawn"} =>
                  getInstruction(job[w]).on[1][1] \in Proc
<1>1. job[w] \in Proc
  BY HasJob DEF Inside
<1>2. inst[job[w]] \in Nat /\ Len(Program[job[w]]) \in Nat
  BY <1>1, ProgramAssumption DEF TypeOK
<1>3. inst[job[w]] <= Len(Program[job[w]])
  BY <1>2 DEF Jobs, JobOK, isAtEnd
<1>4. /\ getInstruction(job[w]).on \in Seq(Proc \X Kind)
      /\ getInstruction(job[w]).kinds \in SUBSET Kind
      /\ getInstruction(job[w]).op \in {"select", "spawn"} => getInstruction(job[w]).on # <<>>
  BY <1>1, <1>3, InstructionType
<1>5. ASSUME NEW on \in Seq(Proc \X Kind), on # <<>> PROVE on[1][1] \in Proc
  <2>1. on[1] \in Proc \X Kind
    BY <1>5
  <2> QED  BY <2>1
<1> QED  BY <1>1, <1>3, <1>4, <1>5

\* The head of a list of dependencies to visit, and what remains of it.
LEMMA HeadTodo ==
    ASSUME TypeOK, NEW w \in Worker, todo[w] # <<>>
    PROVE  /\ Head(todo[w])[1] \in Proc /\ Head(todo[w])[2] \in Kind
           /\ Tail(todo[w]) \in Seq(Proc \X Kind)
<1>1. todo[w] \in Seq(Proc \X Kind)
  BY DEF TypeOK
<1>2. Head(todo[w]) \in Proc \X Kind /\ Tail(todo[w]) \in Seq(Proc \X Kind)
  BY <1>1
<1> QED  BY <1>2

\* Bags stay bags of natural numbers.
LEMMA Bags ==
    ASSUME NEW bag \in [Proc -> Nat], NEW q \in Proc
    PROVE  /\ Add(bag, q) \in [Proc -> Nat]
           /\ bag[q] > 0 => Remove(bag, q) \in [Proc -> Nat]
BY DEF Add, Remove

\* An edge that one end has is one the other end has too.
LEMMA BothEnds ==
    ASSUME TypeOK, EdgesMatch, NEW p \in Proc, NEW q \in Proc, NEW k \in Kind,
           waited_on_by[p][k][q] > 0
    PROVE  waiting_for[q][p] > 0
<1>1. \A j \in Kind : waited_on_by[p][j][q] \in Nat
  BY DEF TypeOK
<1>2. waiting_for[q][p] = waited_on_by[p]["decl"][q] + waited_on_by[p]["pir_decl"][q]
                            + waited_on_by[p]["def"][q] + waited_on_by[p]["pir_def"][q]
  BY DEF EdgesMatch
<1>3. \A j \in {"decl", "pir_decl", "def", "pir_def"} : waited_on_by[p][j][q] \in Nat
  BY <1>1 DEF Kind
<1> QED  BY <1>1, <1>2, <1>3 DEF Kind

-----------------------------------------------------------------------------
(* TypeOK *)

\* The new values of the graph when an edge is added.
LEMMA LinkType ==
    ASSUME TypeOK, NEW id \in Proc, NEW on \in Proc, NEW kind \in Kind,
           Link(id, on, kind)
    PROVE  /\ waiting_for' \in [Proc -> [Proc -> Nat]]
           /\ waited_on_by' \in [Proc -> [Kind -> [Proc -> Nat]]]
<1>1. waiting_for[id] \in [Proc -> Nat] /\ waited_on_by[on][kind] \in [Proc -> Nat]
  BY DEF TypeOK
<1>2. Add(waiting_for[id], on) \in [Proc -> Nat]
      /\ Add(waited_on_by[on][kind], id) \in [Proc -> Nat]
  BY <1>1, Bags
<1>3. waiting_for' = [waiting_for EXCEPT ![id] = Add(waiting_for[id], on)]
      /\ waited_on_by' = [waited_on_by EXCEPT ![on][kind] = Add(waited_on_by[on][kind], id)]
  BY DEF Link
<1> QED  BY <1>2, <1>3 DEF TypeOK

\* The queue stays a bag whatever is added to it.
LEMMA QueueType ==
    ASSUME TypeOK, NEW p \in Proc, add_task_to_work_manager(p)
    PROVE  queue' \in [Proc -> Nat]
BY Bags DEF TypeOK, add_task_to_work_manager

\* A worker goes to another place of its code.
LEMMA GotoType ==
    ASSUME TypeOK, NEW w \in Worker, NEW label \in WorkerPC, Goto(w, label)
    PROVE  pc' \in [Worker -> WorkerPC]
BY DEF TypeOK, Goto

\* A worker leaves analyze().
LEMMA LeaveType ==
    ASSUME TypeOK, NEW w \in Worker, LeaveAnalyze(w)
    PROVE  pc' \in [Worker -> WorkerPC] /\ job' \in [Worker -> Proc \cup {NoProc}]
           /\ queue' \in [Proc -> Nat]
<1>1. pc' \in [Worker -> WorkerPC] /\ job' \in [Worker -> Proc \cup {NoProc}]
  BY GotoType DEF TypeOK, LeaveAnalyze, WorkerPC
<1>2. None \in [Proc -> Nat]
  BY DEF None
<1>3. queue' \in [Proc -> Nat]
  BY <1>2 DEF TypeOK, LeaveAnalyze
<1> QED  BY <1>1, <1>3

\* A worker goes to the next instruction.
LEMMA NextInstructionType ==
    ASSUME TypeOK, NEW w \in Worker, job[w] \in Proc, nextInstruction(w)
    PROVE  pc' \in [Worker -> WorkerPC] /\ inst' \in [Proc -> Nat \ {0}]
<1>1. pc' \in [Worker -> WorkerPC]
  BY GotoType DEF nextInstruction, WorkerPC
<1>2. inst[job[w]] + 1 \in Nat \ {0} /\ inst' = [inst EXCEPT ![job[w]] = inst[job[w]] + 1]
  BY DEF TypeOK, nextInstruction
<1> QED  BY <1>1, <1>2 DEF TypeOK

\* A SymbolProc gets another status.
LEMMA StatusType ==
    ASSUME TypeOK, NEW p \in Proc, NEW s \in Status, status' = [status EXCEPT ![p] = s]
    PROVE  status' \in [Proc -> Status]
BY DEF TypeOK

\* A suspended SymbolProc is made ready again.
LEMMA UnsuspendType ==
    ASSUME TypeOK, NEW p \in Proc,
           unsuspend(p) \/ UNCHANGED <<status, num_procs_suspended, queue>>
    PROVE  status' \in [Proc -> Status] /\ num_procs_suspended' \in Int
           /\ queue' \in [Proc -> Nat]
<1>1. CASE unsuspend(p)
  <2>1. queue' \in [Proc -> Nat]
    BY <1>1, QueueType DEF unsuspend
  <2>2. status' = [status EXCEPT ![p] = "IN_QUEUE"]
        /\ num_procs_suspended' = num_procs_suspended - 1
    BY <1>1 DEF unsuspend
  <2>3. status' \in [Proc -> Status]
    BY <2>2, StatusType DEF Status
  <2>4. num_procs_suspended' \in Int
    BY <2>2 DEF TypeOK
  <2> QED  BY <2>1, <2>3, <2>4
<1> QED  BY <1>1 DEF TypeOK

\* Every step keeps the types.
LEMMA TypeStep ==
    ASSUME IInv, [Next]_vars
    PROVE  TypeOK'
<1>0. TypeOK /\ Jobs /\ EdgesMatch
  BY DEF IInv
<1> USE <1>0
<1> SUFFICES ASSUME NEW w \in Worker, WorkerStep(w) PROVE TypeOK'
  <2>1. CASE UNCHANGED vars
    BY <2>1 DEF TypeOK, vars, graph, counters, locals
  <2> QED  BY <2>1 DEF Next
<1>r. pc[w] # "idle" => job[w] \in Proc
  BY HasJob
<1>1. ASSUME NEW p \in Proc, Take(w, p) PROVE TypeOK'
  <2>1. queue' \in [Proc -> Nat]
    BY <1>1, Bags DEF Take, TypeOK
  <2> QED  BY <1>1, <2>1 DEF TypeOK, Take, Goto, WorkerPC, graph, counters, locals
<1>2. CASE Start(w)
  BY <1>2, <1>r DEF TypeOK, Start, Goto, WorkerPC, Status, graph, counters, locals
<1>3. CASE Done(w) \/ Errored(w)
  <2>1. pc' \in [Worker -> WorkerPC] /\ job' \in [Worker -> Proc \cup {NoProc}]
        /\ queue' \in [Proc -> Nat]
    BY <1>3, LeaveType DEF Done, Errored
  <2>2. job[w] \in Proc /\ num_procs_not_done' \in Int
    BY <1>3, <1>r DEF TypeOK, Done, Errored
  <2>3. PICK d \in {"DONE", "ERRORED"} : status' = [status EXCEPT ![job[w]] = d]
    BY <1>3 DEF Done, Errored
  <2>4. status' \in [Proc -> Status]
    BY <2>2, <2>3, StatusType DEF Status
  <2> QED  BY <1>3, <2>1, <2>2, <2>4 DEF TypeOK, Done, Errored, graph, locals
<1>5. CASE Error(w)
  BY <1>5 DEF TypeOK, Error, Goto, WorkerPC, graph, locals
<1>6. CASE ErrorNoReport(w)
  <2>1. Len(Program[job[w]]) + 1 \in Nat \ {0}
    BY <1>6, <1>r, ProgramAssumption DEF ErrorNoReport, Runs
  <2> QED  BY <1>6, <2>1 DEF TypeOK, ErrorNoReport, graph, counters, locals
<1>7. CASE NeedToWait(w)
  <2>1. job[w] \in Proc /\ inst' \in [Proc -> Nat \ {0}]
    BY <1>7, <1>r DEF TypeOK, NeedToWait, Runs
  <2>2. pc' \in [Worker -> WorkerPC] /\ job' \in [Worker -> Proc \cup {NoProc}]
        /\ queue' \in [Proc -> Nat] /\ status' \in [Proc -> Status]
    <3>1. CASE Goto(w, "run") /\ UNCHANGED <<status, queue, job>>
      BY <3>1, GotoType DEF TypeOK, WorkerPC
    <3>2. CASE status' = [status EXCEPT ![job[w]] = "WAITING"] /\ LeaveAnalyze(w)
      BY <2>1, <3>2, LeaveType, StatusType DEF Status
    <3> QED  BY <1>7, <3>1, <3>2 DEF NeedToWait
  <2> QED  BY <1>7, <2>1, <2>2 DEF TypeOK, NeedToWait, graph, counters, locals
<1>8. CASE Suspend(w)
  <2>1. job[w] \in Proc /\ inst' \in [Proc -> Nat \ {0}]
    BY <1>8, <1>r DEF TypeOK, Suspend, Runs
  <2>2. pc' \in [Worker -> WorkerPC] /\ job' \in [Worker -> Proc \cup {NoProc}]
        /\ queue' \in [Proc -> Nat] /\ status' \in [Proc -> Status]
        /\ num_procs_suspended' \in Int
    <3>1. CASE Goto(w, "run") /\ UNCHANGED <<status, num_procs_suspended, queue, job>>
      BY <3>1, GotoType DEF TypeOK, WorkerPC
    <3>2. CASE /\ num_procs_suspended' = num_procs_suspended + 1
               /\ status' = [status EXCEPT ![job[w]] = "SUSPENDED"]
               /\ LeaveAnalyze(w)
      <4>1. num_procs_suspended' \in Int
        BY <3>2 DEF TypeOK
      <4> QED  BY <2>1, <3>2, <4>1, LeaveType, StatusType DEF Status
    <3> QED  BY <1>8, <3>1, <3>2 DEF Suspend
  <2> QED  BY <1>8, <2>1, <2>2 DEF TypeOK, Suspend, graph, locals
<1>9. CASE Wait(w)
  <2>1. getInstruction(job[w]).on \in Seq(Proc \X Kind)
    BY <1>9, Current DEF Wait, Runs
  <2> QED  BY <1>9, <2>1 DEF TypeOK, Wait, Goto, WorkerPC, graph, counters
<1>10. CASE WaitCheck(w)
  <2>1. Tail(todo[w]) \in Seq(Proc \X Kind)
    BY <1>10, HeadTodo DEF WaitCheck
  <2>2. num_errors' \in Nat /\ todo' \in [Worker -> Seq(Proc \X Kind)]
        /\ pc' \in [Worker -> WorkerPC]
    <3>1. num_errors' \in Nat /\ todo' \in [Worker -> Seq(Proc \X Kind)]
      <4>1. num_errors' \in {num_errors, num_errors + 1}
            /\ todo' \in {todo, [todo EXCEPT ![w] = Tail(todo[w])]}
        BY <1>10 DEF WaitCheck
      <4>2. num_errors' \in Nat
        <5>1. num_errors \in Nat
          BY DEF TypeOK
        <5> QED  BY ONLY <4>1, <5>1
      <4>3. todo' \in [Worker -> Seq(Proc \X Kind)]
        BY <2>1, <4>1 DEF TypeOK
      <4> QED  BY <4>2, <4>3
    <3>2. UNCHANGED pc \/ Goto(w, "errored") \/ Goto(w, "push")
      BY <1>10 DEF WaitCheck
    <3>3. pc' \in [Worker -> WorkerPC]
      BY <3>2, GotoType DEF TypeOK, WorkerPC
    <3> QED  BY <3>1, <3>3
  <2> QED  BY <1>10, <2>2 DEF TypeOK, WaitCheck, graph
<1>11. CASE WaitPush(w)
  <2> DEFINE on == Head(todo[w])[1]
             kind == Head(todo[w])[2]
  <2>1. on \in Proc /\ kind \in Kind /\ Tail(todo[w]) \in Seq(Proc \X Kind) /\ job[w] \in Proc
    BY <1>11, <1>r, HeadTodo DEF WaitPush, Jobs, JobOK
  <2>2. waiting_for' \in [Proc -> [Proc -> Nat]]
        /\ waited_on_by' \in [Proc -> [Kind -> [Proc -> Nat]]]
    <3>1. Link(job[w], on, kind) \/ UNCHANGED <<waiting_for, waited_on_by>>
      BY <1>11 DEF WaitPush
    <3> QED  BY <3>1, <2>1, LinkType DEF TypeOK
  <2>3. /\ status' \in [Proc -> Status] /\ num_procs_suspended' \in Int
        /\ queue' \in [Proc -> Nat]
    <3>1. unsuspend(on) \/ UNCHANGED <<status, num_procs_suspended, queue>>
      BY <1>11 DEF WaitPush
    <3> QED  BY <3>1, <2>1, UnsuspendType
  <2>4. /\ todo' \in [Worker -> Seq(Proc \X Kind)] /\ any_waiting' \in [Worker -> BOOLEAN]
        /\ pc' \in [Worker -> WorkerPC]
    <3>1. todo' \in [Worker -> Seq(Proc \X Kind)] /\ any_waiting' \in [Worker -> BOOLEAN]
      <4>1. todo' \in {todo, [todo EXCEPT ![w] = Tail(todo[w])]}
            /\ any_waiting' \in {any_waiting, [any_waiting EXCEPT ![w] = TRUE]}
        BY <1>11 DEF WaitPush
      <4>2. /\ todo \in [Worker -> Seq(Proc \X Kind)]
            /\ any_waiting \in [Worker -> BOOLEAN]
        BY DEF TypeOK
      <4>3. todo' \in [Worker -> Seq(Proc \X Kind)]
        BY ONLY <2>1, <4>1, <4>2
      <4>4. any_waiting' \in [Worker -> BOOLEAN]
        BY ONLY <4>1, <4>2
      <4> QED  BY <4>3, <4>4
    <3>2. Goto(w, "errored") \/ Goto(w, "check")
      BY <1>11 DEF WaitPush
    <3> QED  BY <3>1, <3>2, GotoType DEF WorkerPC
  <2> QED  BY <1>11, <2>2, <2>3, <2>4 DEF TypeOK, WaitPush
<1>12. CASE WaitEnd(w)
  <2>1. job[w] \in Proc
    BY <1>12, <1>r DEF WaitEnd
  <2>2. inst' \in [Proc -> Nat \ {0}] /\ pc' \in [Worker -> WorkerPC]
    <3>1. (Goto(w, "pause") /\ UNCHANGED inst) \/ nextInstruction(w)
      BY <1>12 DEF WaitEnd
    <3> QED  BY <3>1, <2>1, GotoType, NextInstructionType DEF TypeOK, WorkerPC
  <2> QED  BY <1>12, <2>2 DEF TypeOK, WaitEnd, graph, counters, locals
<1>13. CASE Members(w)
  <2>1. getInstruction(job[w]).on \in Seq(Proc \X Kind)
    BY <1>13, Current DEF Members, Runs
  <2> QED  BY <1>13, <2>1 DEF TypeOK, Members, Goto, WorkerPC, graph, counters
<1>14. CASE AddToMember(w)
  <2> DEFINE on == Head(todo[w])[1]
             kind == Head(todo[w])[2]
  <2>1. on \in Proc /\ kind \in Kind /\ Tail(todo[w]) \in Seq(Proc \X Kind) /\ job[w] \in Proc
    BY <1>14, <1>r, HeadTodo DEF AddToMember
  <2>2. waiting_for' \in [Proc -> [Proc -> Nat]]
        /\ waited_on_by' \in [Proc -> [Kind -> [Proc -> Nat]]]
    BY <1>14, <2>1, LinkType DEF AddToMember
  <2> QED  BY <1>14, <2>1, <2>2 DEF TypeOK, AddToMember, counters
<1>15. CASE MembersEnd(w)
  <2>1. job[w] \in Proc
    BY <1>15, <1>r DEF MembersEnd
  <2> QED  BY <1>15, <2>1 DEF TypeOK, MembersEnd, nextInstruction, Goto, WorkerPC, graph,
              counters, locals
<1>16. CASE Finish(w)
  <2>1. job[w] \in Proc /\ getInstruction(job[w]).kinds \in SUBSET Kind
    BY <1>16, Current DEF Finish, Runs
  <2> QED  BY <1>16, <2>1 DEF TypeOK, Finish, Goto, WorkerPC, counters
<1>17. ASSUME NEW q \in Proc, NEW k \in Kind, Release(w, k, q) PROVE TypeOK'
  <2> DEFINE p == job[w]
  <2>1. p \in Proc /\ waited_on_by[p][k][q] > 0
    BY <1>17, <1>r DEF Release
  <2>2. waiting_for[q][p] > 0
    BY <2>1, BothEnds
  <2>3. waiting_for[q] \in [Proc -> Nat] /\ waited_on_by[p][k] \in [Proc -> Nat]
    BY <2>1 DEF TypeOK
  <2>4. Remove(waiting_for[q], p) \in [Proc -> Nat] /\ Remove(waited_on_by[p][k], q) \in [Proc -> Nat]
    BY <2>1, <2>2, <2>3, Bags
  <2>5. waiting_for' = [waiting_for EXCEPT ![q] = Remove(waiting_for[q], p)]
        /\ waited_on_by' = [waited_on_by EXCEPT ![p][k] = Remove(waited_on_by[p][k], q)]
    BY <1>17 DEF Release
  <2>6. waiting_for' \in [Proc -> [Proc -> Nat]]
        /\ waited_on_by' \in [Proc -> [Kind -> [Proc -> Nat]]]
    BY <2>4, <2>5 DEF TypeOK
  <2>7. put' \in [Worker -> SUBSET Proc]
    BY <1>17 DEF Release, TypeOK
  <2> QED  BY <1>17, <2>6, <2>7 DEF TypeOK, Release, counters
<1>18. CASE ReleaseEnd(w)
  BY <1>18 DEF TypeOK, ReleaseEnd, Goto, WorkerPC, graph, counters, locals
<1>19. ASSUME NEW q \in Proc, PutLook(w, q) PROVE TypeOK'
  <2>1. /\ pc' \in [Worker -> WorkerPC] /\ put' \in [Worker -> SUBSET Proc]
        /\ target' \in [Worker -> Proc \cup {NoProc}]
    <3>1. CASE put' = [put EXCEPT ![w] = @ \ {q}] /\ UNCHANGED <<pc, target>>
      BY <3>1 DEF TypeOK
    <3>2. CASE Goto(w, "cas") /\ target' = [target EXCEPT ![w] = q] /\ UNCHANGED put
      BY <3>2, GotoType DEF TypeOK, WorkerPC
    <3> QED  BY <1>19, <3>1, <3>2 DEF PutLook
  <2> QED  BY <1>19, <2>1 DEF TypeOK, PutLook, graph, counters
<1>20. CASE setStatusInQueueIfNotAlreadyDone(w)
  <2>1. target[w] \in Proc
    BY <1>20 DEF setStatusInQueueIfNotAlreadyDone, Jobs, JobOK, TypeOK
  <2>2. queue' \in [Proc -> Nat] /\ status' \in [Proc -> Status]
    BY <1>20, <2>1, QueueType DEF setStatusInQueueIfNotAlreadyDone, TypeOK, Status
  <2> QED  BY <1>20, <2>2 DEF TypeOK, setStatusInQueueIfNotAlreadyDone, Goto, WorkerPC, graph,
              counters
<1>21. CASE PutEnd(w)
  <2>1. job[w] \in Proc
    BY <1>21, <1>r DEF PutEnd
  <2> QED  BY <1>21, <2>1 DEF TypeOK, PutEnd, nextInstruction, Goto, WorkerPC, graph, counters,
              locals
<1>22. CASE Select(w)
  <2>1. job[w] \in Proc /\ getInstruction(job[w]).on[1][1] \in Proc
    BY <1>22, Current DEF Select, Runs
  <2>2. queue' \in [Proc -> Nat] /\ status' \in [Proc -> Status] /\ num_procs_suspended' \in Int
    <3>1. unsuspend(getInstruction(job[w]).on[1][1])
          \/ UNCHANGED <<status, num_procs_suspended, queue>>
      BY <1>22 DEF Select
    <3> QED  BY <3>1, <2>1, UnsuspendType
  <2>3. inst' \in [Proc -> Nat \ {0}] /\ pc' \in [Worker -> WorkerPC]
    BY <1>22, <2>1, NextInstructionType DEF Select
  <2> QED  BY <1>22, <2>2, <2>3 DEF TypeOK, Select, graph, locals
<1>23. CASE Spawn(w)
  <2>1. job[w] \in Proc /\ getInstruction(job[w]).on[1][1] \in Proc
    BY <1>23, Current DEF Spawn, Runs
  <2>2. /\ queue' \in [Proc -> Nat] /\ status' \in [Proc -> Status] /\ spawned' \subseteq Proc
        /\ num_procs_not_done' \in Int /\ num_procs_suspended' \in Int /\ num_errors' \in Nat
    <3> DEFINE p == getInstruction(job[w]).on[1][1]
    <3>1. CASE p \in spawned
      BY <1>23, <3>1 DEF Spawn, TypeOK, counters
    <3>2. CASE p \notin spawned
      <4>1. queue' \in [Proc -> Nat]
        BY <1>23, <2>1, <3>2, QueueType DEF Spawn
      <4>2. /\ spawned' = spawned \cup {p} /\ num_procs_not_done' = num_procs_not_done + 1
            /\ status' = [status EXCEPT ![p] = "IN_QUEUE"]
            /\ UNCHANGED <<num_procs_suspended, num_errors>>
        BY <1>23, <3>2 DEF Spawn
      <4>3. status' \in [Proc -> Status]
        BY <2>1, <4>2, StatusType DEF Status
      <4>4. spawned' \subseteq Proc
        BY <2>1, <4>2 DEF TypeOK
      <4>5. num_procs_not_done' \in Int /\ num_procs_suspended' \in Int /\ num_errors' \in Nat
        BY <4>2 DEF TypeOK
      <4> QED  BY <4>1, <4>3, <4>4, <4>5
    <3> QED  BY <3>1, <3>2
  <2>3. inst' \in [Proc -> Nat \ {0}] /\ pc' \in [Worker -> WorkerPC]
    BY <1>23, <2>1, NextInstructionType DEF Spawn
  <2> QED  BY <1>23, <2>2, <2>3 DEF TypeOK, Spawn, graph, locals
<1> QED  BY <1>1, <1>2, <1>3, <1>5, <1>6, <1>7, <1>8, <1>9, <1>10, <1>11, <1>12,
            <1>13, <1>14, <1>15, <1>16, <1>17, <1>18, <1>19, <1>20, <1>21, <1>22, <1>23
         DEF WorkerStep

-----------------------------------------------------------------------------
(* What a step of one worker leaves alone. *)

\* The other workers stay where they are, and so do the SymbolProcs they run.
LEMMA Frame ==
    ASSUME TypeOK, NEW w \in Worker, WorkerStep(w)
    PROVE  /\ \A v \in Worker \ {w} :
                  /\ pc'[v] = pc[v] /\ job'[v] = job[v] /\ todo'[v] = todo[v]
                  /\ put'[v] = put[v] /\ target'[v] = target[v]
           /\ \A p \in Proc \ {job[w]} : inst'[p] = inst[p]
<1> DEFINE Kept == /\ \A v \in Worker \ {w} :
                         /\ pc'[v] = pc[v] /\ job'[v] = job[v] /\ todo'[v] = todo[v]
                         /\ put'[v] = put[v] /\ target'[v] = target[v]
                  /\ \A p \in Proc \ {job[w]} : inst'[p] = inst[p]
<1>1. ASSUME NEW p \in Proc, Take(w, p) PROVE Kept
  BY <1>1 DEF Take, Goto, TypeOK, locals
<1>2. ASSUME NEW q \in Proc, NEW k \in Kind, Release(w, k, q) PROVE Kept
  BY <1>2 DEF Release, TypeOK
<1>3. ASSUME NEW q \in Proc, PutLook(w, q) PROVE Kept
  BY <1>3 DEF PutLook, Goto, TypeOK
<1>4. CASE Start(w)
  BY <1>4 DEF Start, Goto, locals, TypeOK
<1>5. CASE Done(w)
  BY <1>5 DEF Done, LeaveAnalyze, Goto, locals, TypeOK
<1>6. CASE Errored(w)
  BY <1>6 DEF Errored, LeaveAnalyze, Goto, locals, TypeOK
<1>7. CASE Error(w)
  BY <1>7 DEF Error, Goto, locals, TypeOK
<1>8. CASE ErrorNoReport(w)
  BY <1>8 DEF ErrorNoReport, locals, TypeOK
<1>9. CASE NeedToWait(w)
  BY <1>9 DEF NeedToWait, LeaveAnalyze, Goto, locals, TypeOK
<1>10. CASE Suspend(w)
  BY <1>10 DEF Suspend, LeaveAnalyze, Goto, locals, TypeOK
<1>11. CASE Wait(w)
  BY <1>11 DEF Wait, Goto, TypeOK
<1>12. CASE WaitCheck(w)
  BY <1>12 DEF WaitCheck, Goto, TypeOK
<1>13. CASE WaitPush(w)
  BY <1>13 DEF WaitPush, Goto, TypeOK
<1>14. CASE WaitEnd(w)
  BY <1>14 DEF WaitEnd, nextInstruction, Goto, locals, TypeOK
<1>15. CASE Members(w)
  BY <1>15 DEF Members, Goto, TypeOK
<1>16. CASE AddToMember(w)
  BY <1>16 DEF AddToMember, Goto, TypeOK
<1>17. CASE MembersEnd(w)
  BY <1>17 DEF MembersEnd, nextInstruction, Goto, locals, TypeOK
<1>18. CASE Finish(w)
  BY <1>18 DEF Finish, Goto, TypeOK
<1>19. CASE ReleaseEnd(w)
  BY <1>19 DEF ReleaseEnd, Goto, locals, TypeOK
<1>20. CASE PutEnd(w)
  BY <1>20 DEF PutEnd, nextInstruction, Goto, locals, TypeOK
<1>21. CASE setStatusInQueueIfNotAlreadyDone(w)
  BY <1>21 DEF setStatusInQueueIfNotAlreadyDone, Goto, TypeOK
<1>22. CASE Select(w)
  BY <1>22 DEF Select, nextInstruction, Goto, locals, TypeOK
<1>23. CASE Spawn(w)
  BY <1>23 DEF Spawn, nextInstruction, Goto, locals, TypeOK
<1> QED  BY <1>1, <1>2, <1>3, <1>4, <1>5, <1>6, <1>7, <1>8, <1>9, <1>10, <1>11, <1>12, <1>13, <1>14, <1>15, <1>16, <1>17, <1>18, <1>19, <1>20, <1>21, <1>22, <1>23
         DEF WorkerStep

-----------------------------------------------------------------------------
(* Jobs *)

\* A worker that stays inside its instruction, or leaves it.
LEMMA JobMoves ==
    ASSUME TypeOK, Jobs, NEW w \in Worker, NEW label \in WorkerPC \ {"idle"},
           Goto(w, label), job[w] \in Proc, UNCHANGED job,
           label \in Inside => inst'[job[w]] <= Len(Program[job[w]]),
           label = "push" => todo'[w] # <<>>,
           label = "cas" => target'[w] \in put'[w]
    PROVE  JobOK(w)'
<1>1. pc'[w] = label /\ job'[w] # NoProc
  BY ProcAssumption DEF TypeOK, Goto
<1> QED  BY <1>1 DEF JobOK

\* A worker that leaves analyze() has no SymbolProc.
LEMMA JobLeaves ==
    ASSUME TypeOK, NEW w \in Worker, LeaveAnalyze(w)
    PROVE  JobOK(w)'
BY DEF TypeOK, LeaveAnalyze, Goto, JobOK, Inside

\* The next instruction is not begun yet.
LEMMA JobNext ==
    ASSUME TypeOK, Jobs, NEW w \in Worker, nextInstruction(w), job[w] \in Proc, UNCHANGED job
    PROVE  JobOK(w)'
BY JobMoves DEF nextInstruction, WorkerPC, Inside

\* Every step keeps the workers' locals right.
LEMMA JobsStep ==
    ASSUME IInv, [Next]_vars
    PROVE  Jobs'
<1>0. TypeOK /\ Jobs /\ OneRunner
  BY DEF IInv
<1> SUFFICES ASSUME NEW w \in Worker, WorkerStep(w) PROVE Jobs'
  <2>1. CASE UNCHANGED vars
    BY <2>1, <1>0 DEF Jobs, JobOK, vars, locals
  <2> QED  BY <2>1 DEF Next
<1>a. ASSUME NEW v \in Worker \ {w} PROVE JobOK(v)'
  <2>1. /\ pc'[v] = pc[v] /\ job'[v] = job[v] /\ todo'[v] = todo[v]
        /\ put'[v] = put[v] /\ target'[v] = target[v]
    BY <1>0, Frame
  <2>2. ASSUME pc[v] \in Inside PROVE inst'[job[v]] = inst[job[v]]
    <3>1. job[v] \in Proc
      BY <1>0, <2>2, HasJob DEF Inside
    <3>2. job[v] # job[w]
      BY <1>0, <3>1, ProcAssumption DEF OneRunner
    <3> QED  BY <1>0, <3>1, <3>2, Frame
  <2> QED  BY <1>0, <2>1, <2>2 DEF Jobs, JobOK
<1> SUFFICES JobOK(w)'
  BY <1>a DEF Jobs
<1>r. pc[w] # "idle" => job[w] \in Proc
  BY <1>0, HasJob
<1>c. pc[w] \in Inside \/ (pc[w] = "run" /\ ~isAtEnd(job[w])) =>
        inst[job[w]] <= Len(Program[job[w]])
  BY <1>0, Current
<1>1. ASSUME NEW p \in Proc, Take(w, p) PROVE JobOK(w)'
  BY <1>0, <1>1, ProcAssumption DEF Take, Goto, JobOK, TypeOK, Inside
<1>2. CASE Start(w)
  BY <1>0, <1>2, <1>r, JobMoves DEF Start, WorkerPC, Inside
<1>3. CASE Done(w)
  BY <1>0, <1>3, JobLeaves DEF Done
<1>4. CASE Errored(w)
  BY <1>0, <1>4 DEF Errored, LeaveAnalyze, Goto, JobOK, TypeOK, Inside
<1>5. CASE Error(w)
  BY <1>0, <1>5, <1>r, JobMoves DEF Error, Runs, WorkerPC, Inside
<1>6. CASE ErrorNoReport(w)
  BY <1>0, <1>6 DEF ErrorNoReport, Runs, JobOK, Jobs, Inside
<1>7. CASE NeedToWait(w)
  <2>1. CASE Goto(w, "run") /\ UNCHANGED job
    BY <1>0, <1>7, <1>r, <2>1, JobMoves DEF NeedToWait, Runs, WorkerPC, Inside
  <2> QED  BY <1>0, <1>7, <2>1, JobLeaves DEF NeedToWait
<1>8. CASE Suspend(w)
  <2>1. CASE Goto(w, "run") /\ UNCHANGED job
    BY <1>0, <1>8, <1>r, <2>1, JobMoves DEF Suspend, Runs, WorkerPC, Inside
  <2> QED  BY <1>0, <1>8, <2>1, JobLeaves DEF Suspend
<1>9. CASE Wait(w)
  BY <1>0, <1>9, <1>r, <1>c, JobMoves DEF Wait, Runs, WorkerPC
<1>10. CASE WaitCheck(w)
  <2>1. UNCHANGED <<inst, job>> /\ job[w] \in Proc /\ inst[job[w]] <= Len(Program[job[w]])
    BY <1>10, <1>r, <1>c DEF WaitCheck, Inside
  <2>2. CASE UNCHANGED pc
    <3>1. pc'[w] = "check" /\ job'[w] # NoProc
      BY <1>10, <2>1, <2>2, ProcAssumption DEF WaitCheck
    <3> QED  BY <2>1, <3>1 DEF JobOK
  <2>3. CASE Goto(w, "errored")
    BY <1>0, <2>1, <2>3, JobMoves DEF WorkerPC, Inside
  <2>4. CASE Goto(w, "push") /\ UNCHANGED todo
    <3>1. todo'[w] # <<>>
      BY <1>10, <2>4 DEF WaitCheck
    <3> QED  BY <1>0, <2>1, <2>4, <3>1, JobMoves DEF WorkerPC
  <2> QED  BY <1>10, <2>2, <2>3, <2>4 DEF WaitCheck
<1>11. CASE WaitPush(w)
  <2>1. UNCHANGED <<inst, job>> /\ job[w] \in Proc /\ inst[job[w]] <= Len(Program[job[w]])
    BY <1>11, <1>r, <1>c DEF WaitPush, Inside
  <2>2. Goto(w, "errored") \/ Goto(w, "check")
    BY <1>11 DEF WaitPush
  <2> QED  BY <1>0, <2>1, <2>2, JobMoves DEF WorkerPC, Inside
<1>12. CASE WaitEnd(w)
  <2>1. UNCHANGED job /\ job[w] \in Proc /\ inst[job[w]] <= Len(Program[job[w]])
    BY <1>12, <1>r, <1>c DEF WaitEnd, Inside
  <2>2. (Goto(w, "pause") /\ UNCHANGED inst) \/ nextInstruction(w)
    BY <1>12 DEF WaitEnd
  <2> QED  BY <1>0, <2>1, <2>2, JobMoves, JobNext DEF WorkerPC
<1>13. CASE Members(w)
  BY <1>0, <1>13, <1>r, <1>c, JobMoves DEF Members, Runs, WorkerPC
<1>14. CASE AddToMember(w)
  <2>1. pc'[w] = "members" /\ job'[w] = job[w] /\ job[w] # NoProc
        /\ inst'[job'[w]] <= Len(Program[job'[w]])
    BY <1>14, <1>r, <1>c, ProcAssumption DEF AddToMember, Inside
  <2> QED  BY <2>1 DEF JobOK
<1>15. CASE MembersEnd(w)
  BY <1>0, <1>15, <1>r, JobNext DEF MembersEnd
<1>16. CASE Finish(w)
  BY <1>0, <1>16, <1>r, <1>c, JobMoves DEF Finish, Runs, WorkerPC
<1>17. ASSUME NEW q \in Proc, NEW k \in Kind, Release(w, k, q) PROVE JobOK(w)'
  <2>1. pc'[w] = "release" /\ job'[w] = job[w] /\ job[w] # NoProc
        /\ inst'[job'[w]] <= Len(Program[job'[w]])
    BY <1>17, <1>r, <1>c, ProcAssumption DEF Release, Inside
  <2> QED  BY <2>1 DEF JobOK
<1>18. CASE ReleaseEnd(w)
  BY <1>0, <1>18, <1>r, <1>c, JobMoves DEF ReleaseEnd, WorkerPC, Inside
<1>19. ASSUME NEW q \in Proc, PutLook(w, q) PROVE JobOK(w)'
  <2>1. UNCHANGED <<inst, job>> /\ job[w] \in Proc /\ inst[job[w]] <= Len(Program[job[w]])
    BY <1>19, <1>r, <1>c DEF PutLook, Inside
  <2>2. CASE UNCHANGED pc
    <3>1. pc'[w] = "put" /\ job'[w] # NoProc
      BY <1>19, <2>1, <2>2, ProcAssumption DEF PutLook
    <3> QED  BY <2>1, <3>1 DEF JobOK
  <2>3. CASE Goto(w, "cas") /\ target' = [target EXCEPT ![w] = q] /\ UNCHANGED put
    <3>1. target'[w] \in put'[w]
      BY <1>0, <1>19, <2>3 DEF PutLook, TypeOK
    <3> QED  BY <1>0, <2>1, <2>3, <3>1, JobMoves DEF WorkerPC
  <2> QED  BY <1>19, <2>2, <2>3 DEF PutLook
<1>20. CASE setStatusInQueueIfNotAlreadyDone(w)
  <2>1. UNCHANGED <<inst, job>> /\ job[w] \in Proc /\ inst[job[w]] <= Len(Program[job[w]])
    BY <1>20, <1>r, <1>c DEF setStatusInQueueIfNotAlreadyDone, Inside
  <2> QED  BY <1>0, <1>20, <2>1, JobMoves DEF setStatusInQueueIfNotAlreadyDone, WorkerPC
<1>21. CASE PutEnd(w)
  BY <1>0, <1>21, <1>r, JobNext DEF PutEnd
<1>22. CASE Select(w)
  BY <1>0, <1>22, <1>r, JobNext DEF Select, Runs
<1>23. CASE Spawn(w)
  BY <1>0, <1>23, <1>r, JobNext DEF Spawn, Runs
<1> QED  BY <1>1, <1>2, <1>3, <1>4, <1>5, <1>6, <1>7, <1>8, <1>9, <1>10, <1>11, <1>12,
            <1>13, <1>14, <1>15, <1>16, <1>17, <1>18, <1>19, <1>20, <1>21, <1>22, <1>23
         DEF WorkerStep

----------------------------------------------------------------

-----------------------------------------------------------------------------
(* OneRunner *)

\* A SymbolProc that is run is neither waiting nor suspended nor in the queue.
LEMMA RunsAlone ==
    ASSUME TypeOK, Jobs, OneRunner, NEW w \in Worker, pc[w] \notin {"idle", "start"}
    PROVE  /\ job[w] \in Proc /\ status[job[w]] = "WORKING" /\ queue[job[w]] = 0
           /\ \A v \in Worker \ {w} : job[v] # job[w]
<1>1. job[w] \in Proc /\ job[w] # NoProc
  BY HasJob, ProcAssumption
<1>2. queue[job[w]] \in Nat /\ queue[job[w]] <= 1 /\ queue[job[w]] # 1
  BY <1>1 DEF OneRunner, TypeOK
<1>3. queue[job[w]] = 0
  BY <1>2
<1> QED  BY <1>1, <1>3 DEF OneRunner

\* A step that moves no SymbolProc.
LEMMA Unmoved ==
    ASSUME OneRunner, UNCHANGED <<status, queue, job>>,
           \A v \in Worker : pc'[v] = "start" <=> pc[v] = "start"
    PROVE  OneRunner'
BY DEF OneRunner

\* A SymbolProc that waits or is suspended is put into the work manager.
LEMMA Readied ==
    ASSUME TypeOK, OneRunner, NEW p \in Proc, status[p] \in {"WAITING", "SUSPENDED"},
           status' = [status EXCEPT ![p] = "IN_QUEUE"], add_task_to_work_manager(p),
           UNCHANGED job, \A v \in Worker : pc'[v] = "start" <=> pc[v] = "start"
    PROVE  OneRunner'
<1>1. \A v \in Worker : job[v] # p
  BY ProcAssumption DEF OneRunner
<1>2. queue[p] = 0
  <2>1. queue[p] \in Nat /\ queue[p] <= 1 /\ queue[p] # 1
    BY DEF OneRunner, TypeOK
  <2> QED  BY <2>1
<1>3. \A q \in Proc : queue'[q] = queue[q] \/ (q = p /\ queue'[q] = 1)
  BY <1>2 DEF add_task_to_work_manager, Add, TypeOK
<1>4. status'[p] = "IN_QUEUE" /\ \A q \in Proc \ {p} : status'[q] = status[q]
  BY DEF TypeOK
<1>5. \A q \in Proc : queue'[q] <= 1
  BY <1>3 DEF OneRunner
<1>6. \A q \in Proc : queue'[q] = 1 => status'[q] = "IN_QUEUE" /\ \A v \in Worker : job'[v] # q
  BY <1>1, <1>3, <1>4 DEF OneRunner
<1>7. \A v \in Worker : job'[v] # NoProc =>
          status'[job'[v]] = IF pc'[v] = "start" THEN "IN_QUEUE" ELSE "WORKING"
  <2> SUFFICES ASSUME NEW v \in Worker, job[v] # NoProc
               PROVE  status'[job[v]] = IF pc[v] = "start" THEN "IN_QUEUE" ELSE "WORKING"
    OBVIOUS
  <2>1. job[v] \in Proc \ {p}
    BY <1>1 DEF TypeOK
  <2> QED  BY <2>1, <1>4 DEF OneRunner
<1> QED  BY <1>5, <1>6, <1>7 DEF OneRunner

\* A worker leaves the SymbolProc it ran, with any status.
LEMMA Left ==
    ASSUME TypeOK, Jobs, OneRunner, NEW w \in Worker, pc[w] \notin {"idle", "start"},
           NEW s \in Status, status' = [status EXCEPT ![job[w]] = s],
           job' = [job EXCEPT ![w] = NoProc], UNCHANGED queue \/ queue' = None,
           \A v \in Worker : pc'[v] = "start" <=> pc[v] = "start"
    PROVE  OneRunner'
<1>1. /\ job[w] \in Proc /\ status[job[w]] = "WORKING" /\ queue[job[w]] = 0
      /\ \A v \in Worker \ {w} : job[v] # job[w]
  BY RunsAlone
<1>2. job'[w] = NoProc /\ \A v \in Worker \ {w} : job'[v] = job[v]
  BY DEF TypeOK
<1>3. \A q \in Proc \ {job[w]} : status'[q] = status[q]
  BY DEF TypeOK
<1>4. \A q \in Proc : queue'[q] = queue[q] \/ queue'[q] = 0
  BY DEF None
<1>5. \A u, v \in Worker : job'[u] = job'[v] /\ job'[u] # NoProc => u = v
  BY <1>2 DEF OneRunner
<1>6. \A q \in Proc : queue'[q] <= 1
  BY <1>4 DEF OneRunner
<1>7. \A q \in Proc : queue'[q] = 1 => status'[q] = "IN_QUEUE" /\ \A v \in Worker : job'[v] # q
  <2> SUFFICES ASSUME NEW q \in Proc, queue'[q] = 1
               PROVE  status'[q] = "IN_QUEUE" /\ \A v \in Worker : job'[v] # q
    OBVIOUS
  <2>1. queue[q] = 1 /\ q # job[w] /\ q # NoProc
    BY <1>1, <1>4, ProcAssumption
  <2> QED  BY <2>1, <1>2, <1>3 DEF OneRunner
<1>8. \A v \in Worker : job'[v] # NoProc =>
          status'[job'[v]] = IF pc'[v] = "start" THEN "IN_QUEUE" ELSE "WORKING"
  <2> SUFFICES ASSUME NEW v \in Worker, job'[v] # NoProc
               PROVE  status'[job'[v]] = IF pc'[v] = "start" THEN "IN_QUEUE" ELSE "WORKING"
    OBVIOUS
  <2>1. v # w /\ job'[v] = job[v] /\ job[v] \in Proc \ {job[w]}
    BY <1>1, <1>2 DEF TypeOK
  <2> QED  BY <2>1, <1>2, <1>3 DEF OneRunner
<1> QED  BY <1>5, <1>6, <1>7, <1>8 DEF OneRunner

\* Every step keeps each SymbolProc in at most one place.
LEMMA OneRunnerStep ==
    ASSUME IInv, [Next]_vars
    PROVE  OneRunner'
<1>0. TypeOK /\ Jobs /\ OneRunner /\ Unspawned
  BY DEF IInv
<1> SUFFICES ASSUME NEW w \in Worker, WorkerStep(w) PROVE OneRunner'
  <2>1. CASE UNCHANGED vars
    BY <2>1, <1>0, Unmoved DEF vars, locals
  <2> QED  BY <2>1 DEF Next
<1> DEFINE SameStart == \A v \in Worker : pc'[v] = "start" <=> pc[v] = "start"
<1>1. ASSUME NEW p \in Proc, Take(w, p) PROVE OneRunner'
  <2>1. queue[p] = 1 /\ job[w] = NoProc /\ \A v \in Worker : job[v] # p
    <3>1. queue[p] \in Nat /\ queue[p] <= 1 /\ queue[p] > 0 /\ job[w] = NoProc
      BY <1>0, <1>1 DEF OneRunner, TypeOK, Take, Jobs, JobOK
    <3>2. queue[p] = 1
      BY <3>1
    <3> QED  BY <1>0, <3>1, <3>2 DEF OneRunner
  <2>2. /\ job'[w] = p /\ pc'[w] = "start" /\ queue'[p] = 0 /\ UNCHANGED status
        /\ \A v \in Worker \ {w} : job'[v] = job[v] /\ pc'[v] = pc[v]
        /\ \A q \in Proc \ {p} : queue'[q] = queue[q]
    BY <1>0, <1>1, <2>1 DEF Take, Goto, Remove, TypeOK
  <2>3. \A u, v \in Worker : job'[u] = job'[v] /\ job'[u] # NoProc => u = v
    BY <1>0, <2>1, <2>2 DEF OneRunner
  <2>4. \A q \in Proc : queue'[q] <= 1
    BY <1>0, <2>2 DEF OneRunner
  <2>5. \A q \in Proc : queue'[q] = 1 => status'[q] = "IN_QUEUE" /\ \A v \in Worker : job'[v] # q
    BY <1>0, <2>2 DEF OneRunner
  <2>6. \A v \in Worker : job'[v] # NoProc =>
          status'[job'[v]] = IF pc'[v] = "start" THEN "IN_QUEUE" ELSE "WORKING"
    BY <1>0, <2>1, <2>2 DEF OneRunner
  <2> QED  BY <2>3, <2>4, <2>5, <2>6 DEF OneRunner
<1>2. CASE Start(w)
  <2>1. job[w] \in Proc /\ job[w] # NoProc /\ status[job[w]] = "IN_QUEUE" /\ queue[job[w]] # 1
    BY <1>0, <1>2, HasJob, ProcAssumption DEF Start, OneRunner
  <2>2. /\ status'[job[w]] = "WORKING" /\ pc'[w] = "run" /\ UNCHANGED <<job, queue>>
        /\ \A q \in Proc \ {job[w]} : status'[q] = status[q]
        /\ \A v \in Worker \ {w} : pc'[v] = pc[v]
    BY <1>0, <1>2, <2>1 DEF Start, Goto, TypeOK
  <2>3. \A q \in Proc : queue'[q] = 1 => status'[q] = "IN_QUEUE" /\ \A v \in Worker : job'[v] # q
    BY <1>0, <2>1, <2>2 DEF OneRunner
  <2>4. \A v \in Worker : job'[v] # NoProc =>
          status'[job'[v]] = IF pc'[v] = "start" THEN "IN_QUEUE" ELSE "WORKING"
    <3> SUFFICES ASSUME NEW v \in Worker, job[v] # NoProc
                 PROVE  status'[job[v]] = IF pc'[v] = "start" THEN "IN_QUEUE" ELSE "WORKING"
      BY <2>2
    <3>1. CASE v = w
      BY <2>2, <3>1
    <3>2. CASE v # w
      <4>1. job[v] \in Proc \ {job[w]}
        BY <1>0, <3>2 DEF OneRunner, TypeOK
      <4> QED  BY <1>0, <2>2, <3>2, <4>1 DEF OneRunner
    <3> QED  BY <3>1, <3>2
  <2> QED  BY <1>0, <2>2, <2>3, <2>4 DEF OneRunner
<1>3. CASE Done(w)
  <2>1. SameStart
    BY <1>0, <1>3 DEF Done, LeaveAnalyze, Goto, TypeOK
  <2> QED  BY <1>0, <1>3, <2>1, Left DEF Done, LeaveAnalyze, Status
<1>4. CASE Errored(w)
  <2>1. SameStart
    BY <1>0, <1>4 DEF Errored, LeaveAnalyze, Goto, TypeOK
  <2> QED  BY <1>0, <1>4, <2>1, Left DEF Errored, LeaveAnalyze, Status
<1>5. CASE Error(w) \/ ErrorNoReport(w) \/ Wait(w) \/ WaitCheck(w) \/ WaitEnd(w)
           \/ Members(w) \/ AddToMember(w) \/ MembersEnd(w)
  <2>1. pc[w] # "start" /\ UNCHANGED <<status, queue, job>>
    BY <1>5 DEF Error, ErrorNoReport, Wait, WaitCheck, WaitEnd, Members, AddToMember, MembersEnd,
                Runs
  <2>2. UNCHANGED pc \/ \E label \in WorkerPC \ {"start"} : Goto(w, label)
    BY <1>5 DEF Error, ErrorNoReport, Wait, WaitCheck, WaitEnd, Members, AddToMember, MembersEnd,
                nextInstruction, Goto, WorkerPC
  <2>3. SameStart
    BY <1>0, <2>1, <2>2 DEF Goto, TypeOK
  <2> QED  BY <1>0, <2>1, <2>3, Unmoved
<1>6. CASE Finish(w) \/ ReleaseEnd(w) \/ PutEnd(w) \/ (\E q \in Proc : PutLook(w, q))
           \/ (\E q \in Proc : \E k \in Kind : Release(w, k, q))
  <2>1. pc[w] # "start" /\ UNCHANGED <<status, queue, job>>
    BY <1>6 DEF Finish, ReleaseEnd, PutEnd, PutLook, Release, Runs
  <2>2. UNCHANGED pc \/ \E label \in WorkerPC \ {"start"} : Goto(w, label)
    BY <1>6 DEF Finish, ReleaseEnd, PutEnd, PutLook, Release, nextInstruction, Goto, WorkerPC
  <2>3. SameStart
    BY <1>0, <2>1, <2>2 DEF Goto, TypeOK
  <2> QED  BY <1>0, <2>1, <2>3, Unmoved
<1>7. CASE NeedToWait(w)
  <2>1. pc[w] \notin {"idle", "start"} /\ \E label \in {"run", "idle"} : Goto(w, label)
    BY <1>7 DEF NeedToWait, Runs, LeaveAnalyze
  <2>2. SameStart
    BY <1>0, <2>1 DEF Goto, TypeOK
  <2>3. CASE UNCHANGED <<status, queue, job>>
    BY <1>0, <2>2, <2>3, Unmoved
  <2>4. CASE status' = [status EXCEPT ![job[w]] = "WAITING"] /\ LeaveAnalyze(w)
    BY <1>0, <2>1, <2>2, <2>4, Left DEF LeaveAnalyze, Status
  <2> QED  BY <1>7, <2>3, <2>4 DEF NeedToWait
<1>8. CASE Suspend(w)
  <2>1. pc[w] \notin {"idle", "start"} /\ \E label \in {"run", "idle"} : Goto(w, label)
    BY <1>8 DEF Suspend, Runs, LeaveAnalyze
  <2>2. SameStart
    BY <1>0, <2>1 DEF Goto, TypeOK
  <2>3. CASE UNCHANGED <<status, queue, job>>
    BY <1>0, <2>2, <2>3, Unmoved
  <2>4. CASE status' = [status EXCEPT ![job[w]] = "SUSPENDED"] /\ LeaveAnalyze(w)
    BY <1>0, <2>1, <2>2, <2>4, Left DEF LeaveAnalyze, Status
  <2> QED  BY <1>8, <2>3, <2>4 DEF Suspend
<1>9. CASE WaitPush(w)
  <2> DEFINE on == Head(todo[w])[1]
  <2>1. SameStart /\ UNCHANGED job
    BY <1>0, <1>9 DEF WaitPush, Goto, TypeOK
  <2>2. on \in Proc
    BY <1>0, <1>9, HeadTodo DEF WaitPush, Jobs, JobOK
  <2>3. CASE UNCHANGED <<status, queue>>
    BY <1>0, <2>1, <2>3, Unmoved
  <2>4. CASE status[on] = "SUSPENDED" /\ unsuspend(on)
    BY <1>0, <2>1, <2>2, <2>4, Readied DEF unsuspend
  <2> QED  BY <1>9, <2>3, <2>4 DEF WaitPush
<1>10. CASE setStatusInQueueIfNotAlreadyDone(w)
  <2> DEFINE q == target[w]
  <2>1. SameStart /\ UNCHANGED job
    BY <1>0, <1>10 DEF setStatusInQueueIfNotAlreadyDone, Goto, TypeOK
  <2>2. q \in Proc
    BY <1>0, <1>10 DEF setStatusInQueueIfNotAlreadyDone, Jobs, JobOK, TypeOK
  <2>3. CASE UNCHANGED <<status, queue>>
    BY <1>0, <2>1, <2>3, Unmoved
  <2>4. CASE status[q] = "WAITING" /\ status' = [status EXCEPT ![q] = "IN_QUEUE"]
             /\ add_task_to_work_manager(q)
    BY <1>0, <2>1, <2>2, <2>4, Readied
  <2> QED  BY <1>10, <2>3, <2>4 DEF setStatusInQueueIfNotAlreadyDone
<1>11. CASE Select(w)
  <2> DEFINE p == getInstruction(job[w]).on[1][1]
  <2>1. SameStart /\ UNCHANGED job /\ p \in Proc
    BY <1>0, <1>11, Current DEF Select, Runs, nextInstruction, Goto, TypeOK
  <2>2. CASE UNCHANGED <<status, queue>>
    BY <1>0, <2>1, <2>2, Unmoved
  <2>3. CASE status[p] = "SUSPENDED" /\ unsuspend(p)
    BY <1>0, <2>1, <2>3, Readied DEF unsuspend
  <2> QED  BY <1>11, <2>2, <2>3 DEF Select
<1>12. CASE Spawn(w)
  <2> DEFINE p == getInstruction(job[w]).on[1][1]
  <2>1. SameStart /\ UNCHANGED job /\ p \in Proc
    BY <1>0, <1>12, Current DEF Spawn, Runs, nextInstruction, Goto, TypeOK
  <2>2. CASE UNCHANGED <<status, queue>>
    BY <1>0, <2>1, <2>2, Unmoved
  <2>3. CASE p \notin spawned /\ status' = [status EXCEPT ![p] = "IN_QUEUE"]
             /\ add_task_to_work_manager(p)
    <3>1. status[p] = "WAITING"
      BY <1>0, <2>1, <2>3 DEF Unspawned
    <3> QED  BY <1>0, <2>1, <2>3, <3>1, Readied
  <2> QED  BY <1>12, <2>2, <2>3 DEF Spawn
<1> QED  BY <1>1, <1>2, <1>3, <1>4, <1>5, <1>6, <1>7, <1>8, <1>9, <1>10, <1>11, <1>12
         DEF WorkerStep

-----------------------------------------------------------------------------
(* EdgesMatch *)

\* An added edge is added at both ends.
LEMMA LinkEdges ==
    ASSUME TypeOK, EdgesMatch, NEW id \in Proc, NEW on \in Proc, NEW kind \in Kind,
           Link(id, on, kind)
    PROVE  EdgesMatch'
<1> DEFINE new(p, q) == IF p = on /\ q = id THEN 1 ELSE 0
<1>0. /\ waiting_for \in [Proc -> [Proc -> Nat]]
      /\ waited_on_by \in [Proc -> [Kind -> [Proc -> Nat]]]
  BY DEF TypeOK
<1>1. \A p, q \in Proc : waiting_for'[q][p] = waiting_for[q][p] + new(p, q)
  BY <1>0 DEF Link, Add
<1>2. \A p, q \in Proc : \A k \in Kind :
          waited_on_by'[p][k][q] = waited_on_by[p][k][q] + IF k = kind THEN new(p, q) ELSE 0
  BY <1>0 DEF Link, Add
<1> SUFFICES ASSUME NEW p \in Proc, NEW q \in Proc
             PROVE  waiting_for'[q][p] =
                        waited_on_by'[p]["decl"][q] + waited_on_by'[p]["pir_decl"][q]
                        + waited_on_by'[p]["def"][q] + waited_on_by'[p]["pir_def"][q]
  BY DEF EdgesMatch
<1> HIDE DEF new
<1>3. new(p, q) \in Nat
  BY DEF new
<1>4. \A k \in Kind : waited_on_by[p][k][q] \in Nat
  BY DEF TypeOK
<1>5. waiting_for[q][p] = waited_on_by[p]["decl"][q] + waited_on_by[p]["pir_decl"][q]
                          + waited_on_by[p]["def"][q] + waited_on_by[p]["pir_def"][q]
  BY DEF EdgesMatch
<1> QED  BY <1>1, <1>2, <1>3, <1>4, <1>5 DEF Kind

\* A removed edge is removed at both ends.
LEMMA ReleaseEdges ==
    ASSUME TypeOK, EdgesMatch, NEW w \in Worker, job[w] \in Proc, NEW id \in Proc,
           NEW kind \in Kind, Release(w, kind, id)
    PROVE  EdgesMatch'
<1> DEFINE old(p, q) == IF p = job[w] /\ q = id THEN 1 ELSE 0
<1>0. /\ waiting_for \in [Proc -> [Proc -> Nat]]
      /\ waited_on_by \in [Proc -> [Kind -> [Proc -> Nat]]]
  BY DEF TypeOK
<1>1. \A p, q \in Proc : waiting_for'[q][p] = waiting_for[q][p] - old(p, q)
  BY <1>0 DEF Release, Remove
<1>2. \A p, q \in Proc : \A k \in Kind :
          waited_on_by'[p][k][q] = waited_on_by[p][k][q] - IF k = kind THEN old(p, q) ELSE 0
  BY <1>0 DEF Release, Remove
<1> SUFFICES ASSUME NEW p \in Proc, NEW q \in Proc
             PROVE  waiting_for'[q][p] =
                        waited_on_by'[p]["decl"][q] + waited_on_by'[p]["pir_decl"][q]
                        + waited_on_by'[p]["def"][q] + waited_on_by'[p]["pir_def"][q]
  BY DEF EdgesMatch
<1> HIDE DEF old
<1>3. old(p, q) \in Nat
  BY DEF old
<1>4. \A k \in Kind : waited_on_by[p][k][q] \in Nat
  BY DEF TypeOK
<1>5. waiting_for[q][p] = waited_on_by[p]["decl"][q] + waited_on_by[p]["pir_decl"][q]
                          + waited_on_by[p]["def"][q] + waited_on_by[p]["pir_def"][q]
  BY DEF EdgesMatch
<1> QED  BY <1>1, <1>2, <1>3, <1>4, <1>5 DEF Kind

\* The only steps that change an edge.
LEMMA EdgeSteps ==
    ASSUME TypeOK, Jobs, NEW w \in Worker, WorkerStep(w)
    PROVE  \/ UNCHANGED <<waiting_for, waited_on_by>>
           \/ /\ job[w] \in Proc /\ pc[w] \in {"push", "members"}
              /\ \E on \in Proc, kind \in Kind : Link(job[w], on, kind)
           \/ /\ job[w] \in Proc
              /\ \E q \in Proc : \E k \in Kind : Release(w, k, q)
<1> DEFINE Goal == \/ UNCHANGED <<waiting_for, waited_on_by>>
                   \/ /\ job[w] \in Proc /\ pc[w] \in {"push", "members"}
                      /\ \E on \in Proc, kind \in Kind : Link(job[w], on, kind)
                   \/ /\ job[w] \in Proc
                      /\ \E q \in Proc : \E k \in Kind : Release(w, k, q)
<1>1. CASE (\E p \in Proc : Take(w, p)) \/ Start(w) \/ Done(w) \/ Errored(w) \/ Error(w)
           \/ ErrorNoReport(w) \/ NeedToWait(w) \/ Suspend(w) \/ Wait(w) \/ WaitCheck(w)
           \/ WaitEnd(w) \/ Members(w) \/ MembersEnd(w)
  BY <1>1 DEF Take, Start, Done, Errored, Error, ErrorNoReport, NeedToWait, Suspend, Wait,
              WaitCheck, WaitEnd, Members, MembersEnd, graph
<1>2. CASE Finish(w) \/ ReleaseEnd(w) \/ PutEnd(w) \/ (\E q \in Proc : PutLook(w, q))
           \/ setStatusInQueueIfNotAlreadyDone(w) \/ Select(w) \/ Spawn(w)
  BY <1>2 DEF Finish, ReleaseEnd, PutEnd, PutLook, setStatusInQueueIfNotAlreadyDone, Select,
              Spawn, graph
<1>3. CASE WaitPush(w)
  <2>1. job[w] \in Proc /\ Head(todo[w])[1] \in Proc /\ Head(todo[w])[2] \in Kind
    BY <1>3, HasJob, HeadTodo DEF WaitPush, Jobs, JobOK
  <2> QED  BY <1>3, <2>1 DEF WaitPush
<1>4. CASE AddToMember(w)
  <2>1. job[w] \in Proc /\ Head(todo[w])[1] \in Proc /\ Head(todo[w])[2] \in Kind
    BY <1>4, HasJob, HeadTodo DEF AddToMember
  <2> QED  BY <1>4, <2>1 DEF AddToMember
<1>5. CASE \E q \in Proc : \E k \in Kind : Release(w, k, q)
  <2>1. job[w] \in Proc
    BY <1>5, HasJob DEF Release
  <2> QED  BY <1>5, <2>1
<1> QED  BY <1>1, <1>2, <1>3, <1>4, <1>5 DEF WorkerStep

\* Every step keeps the two ends of the edges in agreement.
LEMMA EdgesStep ==
    ASSUME IInv, [Next]_vars
    PROVE  EdgesMatch'
<1>0. TypeOK /\ Jobs /\ EdgesMatch
  BY DEF IInv
<1>1. CASE UNCHANGED <<waiting_for, waited_on_by>>
  BY <1>0, <1>1 DEF EdgesMatch
<1>2. ASSUME NEW w \in Worker, WorkerStep(w) PROVE EdgesMatch'
  BY <1>0, <1>1, <1>2, EdgeSteps, LinkEdges, ReleaseEdges
<1> QED  BY <1>1, <1>2 DEF Next, vars, graph

-----------------------------------------------------------------------------
(* Unspawned and NoLostWakeup *)

\* A SymbolProc gets another status from its own worker, when it is suspended,
\* from the one that puts it into the work manager, or when it is spawned; and
\* it is WAITING only while it waits for something.
LEMMA StatusSteps ==
    ASSUME TypeOK, Jobs, NEW w \in Worker, WorkerStep(w), NEW p \in Proc, status'[p] # status[p]
    PROVE  /\ \/ p = job[w] \/ status[p] = "SUSPENDED"
              \/ pc[w] = "cas" /\ p = target[w]
              \/ p \notin spawned /\ p \in spawned'
           /\ status'[p] = "WAITING" => waiting_for'[p] # None
<1> DEFINE Goal == /\ \/ p = job[w] \/ status[p] = "SUSPENDED"
                      \/ pc[w] = "cas" /\ p = target[w]
                      \/ p \notin spawned /\ p \in spawned'
                   /\ status'[p] = "WAITING" => waiting_for'[p] # None
<1>1. CASE ~UNCHANGED status
  <2>1. CASE Start(w) \/ Done(w) \/ Errored(w) \/ Suspend(w)
    BY <2>1 DEF TypeOK, Start, Done, Errored, Suspend
  <2>2. CASE NeedToWait(w)
    BY <2>2 DEF TypeOK, NeedToWait, graph
  <2>3. CASE WaitPush(w)
    BY <2>3 DEF TypeOK, WaitPush, unsuspend
  <2>4. CASE Select(w)
    BY <2>4 DEF TypeOK, Select, unsuspend
  <2>5. CASE setStatusInQueueIfNotAlreadyDone(w)
    BY <2>5 DEF TypeOK, setStatusInQueueIfNotAlreadyDone
  <2>6. CASE Spawn(w)
    BY <2>6 DEF TypeOK, Spawn
  <2>7. CASE (\E q \in Proc : Take(w, q)) \/ Error(w) \/ ErrorNoReport(w) \/ Wait(w)
             \/ WaitCheck(w) \/ WaitEnd(w) \/ Members(w) \/ AddToMember(w) \/ MembersEnd(w)
    BY <2>7 DEF Take, Error, ErrorNoReport, Wait, WaitCheck, WaitEnd, Members, AddToMember,
                MembersEnd
  <2>8. CASE Finish(w) \/ ReleaseEnd(w) \/ PutEnd(w) \/ (\E q \in Proc : PutLook(w, q))
             \/ (\E q \in Proc : \E k \in Kind : Release(w, k, q))
    BY <2>8 DEF Finish, ReleaseEnd, PutEnd, PutLook, Release
  <2> QED  BY <1>1, <2>1, <2>2, <2>3, <2>4, <2>5, <2>6, <2>7, <2>8 DEF WorkerStep
<1> QED  BY <1>1

\* Only a spawn makes a SymbolProc one that is to be run, and it is ready then.
LEMMA SpawnSteps ==
    ASSUME TypeOK, Jobs, NEW w \in Worker, WorkerStep(w)
    PROVE  \/ UNCHANGED spawned
           \/ \E p \in Proc : spawned' = spawned \cup {p} /\ status'[p] = "IN_QUEUE"
<1> DEFINE p == getInstruction(job[w]).on[1][1]
<1>1. CASE Spawn(w)
  <2>1. p \in Proc
    BY <1>1, Current DEF Spawn, Runs
  <2> QED  BY <1>1, <2>1 DEF Spawn, TypeOK, counters
<1>2. CASE (\E q \in Proc : Take(w, q)) \/ Start(w) \/ Done(w) \/ Errored(w) \/ Error(w)
           \/ ErrorNoReport(w) \/ NeedToWait(w) \/ Suspend(w) \/ Wait(w) \/ WaitCheck(w)
           \/ WaitPush(w) \/ WaitEnd(w) \/ Members(w) \/ AddToMember(w) \/ MembersEnd(w)
  BY <1>2 DEF Take, Start, Done, Errored, Error, ErrorNoReport, NeedToWait, Suspend, Wait,
              WaitCheck, WaitPush, WaitEnd, Members, AddToMember, MembersEnd, counters
<1>3. CASE Finish(w) \/ ReleaseEnd(w) \/ PutEnd(w) \/ (\E q \in Proc : PutLook(w, q))
           \/ (\E q \in Proc : \E k \in Kind : Release(w, k, q))
           \/ setStatusInQueueIfNotAlreadyDone(w) \/ Select(w)
  BY <1>3 DEF Finish, ReleaseEnd, PutEnd, PutLook, Release, setStatusInQueueIfNotAlreadyDone,
              Select, counters
<1> QED  BY <1>1, <1>2, <1>3 DEF WorkerStep

\* The worker has q among those it is going to put into the work manager.
Holds(w, q) == pc[w] \in {"release", "put", "cas"} /\ q \in put[w]

\* A worker comes to hold only those it releases, and lets go only of those
\* that do not wait any more.
LEMMA PutSteps ==
    ASSUME TypeOK, Jobs, NEW w \in Worker, WorkerStep(w), NEW q \in Proc
    PROVE  /\ Holds(w, q)' => Holds(w, q) \/ \E k \in Kind : Release(w, k, q)
           /\ Holds(w, q) => Holds(w, q)' \/ status'[q] # "WAITING"
<1> DEFINE Goal == /\ Holds(w, q)' => Holds(w, q) \/ \E k \in Kind : Release(w, k, q)
                   /\ Holds(w, q) => Holds(w, q)' \/ status'[q] # "WAITING"
<1>1. ASSUME NEW p \in Proc, NEW k \in Kind, Release(w, k, p) PROVE Goal
  <2>1. UNCHANGED pc /\ put' \in {put, [put EXCEPT ![w] = put[w] \cup {p}]}
    BY <1>1 DEF Release
  <2>2. put'[w] = put[w] \/ put'[w] = put[w] \cup {p}
    BY <2>1 DEF TypeOK
  <2> QED  BY <1>1, <2>1, <2>2 DEF Holds
<1>2. ASSUME NEW p \in Proc, PutLook(w, p) PROVE Goal
  <2>1. CASE status[p] \in {"ERRORED", "WORKING"}
    BY <1>2, <2>1 DEF PutLook, Holds, TypeOK
  <2>2. CASE status[p] \notin {"ERRORED", "WORKING"}
    BY <1>2, <2>2 DEF PutLook, Goto, Holds, TypeOK
  <2> QED  BY <2>1, <2>2
<1>3. CASE setStatusInQueueIfNotAlreadyDone(w)
  <2>1. pc[w] = "cas" /\ pc'[w] = "put" /\ put'[w] = put[w] \ {target[w]}
    BY <1>3 DEF setStatusInQueueIfNotAlreadyDone, Goto, TypeOK
  <2>2. target[w] \in Proc
    BY <2>1 DEF Jobs, JobOK, TypeOK
  <2>3. status'[target[w]] # "WAITING"
    BY <1>3, <2>2 DEF setStatusInQueueIfNotAlreadyDone, TypeOK
  <2> QED  BY <2>1, <2>3 DEF Holds
<1>4. CASE ReleaseEnd(w)
  BY <1>4 DEF ReleaseEnd, Goto, Holds, TypeOK, locals
<1>5. CASE PutEnd(w)
  BY <1>5 DEF PutEnd, nextInstruction, Goto, Holds, TypeOK, locals
<1>6. CASE Finish(w)
  BY <1>6 DEF Finish, Runs, Goto, Holds, TypeOK
<1>7. CASE (\E p \in Proc : Take(w, p)) \/ Start(w) \/ Done(w) \/ Errored(w) \/ Error(w)
           \/ ErrorNoReport(w) \/ NeedToWait(w) \/ Suspend(w)
  <2>1. pc[w] \notin {"release", "put", "cas"}
    BY <1>7 DEF Take, Start, Done, Errored, Error, ErrorNoReport, NeedToWait, Suspend, Runs
  <2>2. UNCHANGED pc \/ \E l \in WorkerPC \ {"release", "put", "cas"} : Goto(w, l)
    BY <1>7 DEF Take, Start, Done, Errored, Error, ErrorNoReport, NeedToWait, Suspend,
                LeaveAnalyze, Goto, WorkerPC
  <2>3. pc'[w] \notin {"release", "put", "cas"}
    BY <2>1, <2>2 DEF Goto, TypeOK
  <2> QED  BY <2>1, <2>3 DEF Holds
<1>8. CASE Wait(w) \/ WaitCheck(w) \/ WaitPush(w) \/ WaitEnd(w) \/ Members(w)
           \/ AddToMember(w) \/ MembersEnd(w) \/ Select(w) \/ Spawn(w)
  <2>1. pc[w] \notin {"release", "put", "cas"}
    BY <1>8 DEF Wait, WaitCheck, WaitPush, WaitEnd, Members, AddToMember, MembersEnd, Select,
                Spawn, Runs
  <2>2. UNCHANGED pc \/ \E l \in WorkerPC \ {"release", "put", "cas"} : Goto(w, l)
    BY <1>8 DEF Wait, WaitCheck, WaitPush, WaitEnd, Members, AddToMember, MembersEnd, Select,
                Spawn, nextInstruction, Goto, WorkerPC
  <2>3. pc'[w] \notin {"release", "put", "cas"}
    BY <2>1, <2>2 DEF Goto, TypeOK
  <2> QED  BY <2>1, <2>3 DEF Holds
<1> QED  BY <1>1, <1>2, <1>3, <1>4, <1>5, <1>6, <1>7, <1>8 DEF WorkerStep

\* Who is released had an edge, and who waits for nothing afterwards is held.
LEMMA Released ==
    ASSUME TypeOK, Jobs, EdgesMatch, NEW w \in Worker, NEW k \in Kind, NEW q \in Proc,
           Release(w, k, q)
    PROVE  /\ waiting_for[q] # None
           /\ waiting_for'[q] = None => Holds(w, q)'
           /\ \A p \in Proc \ {q} : waiting_for'[p] = waiting_for[p]
<1>1. job[w] \in Proc /\ waited_on_by[job[w]][k][q] > 0
  BY HasJob DEF Release
<1>2. waiting_for[q][job[w]] > 0
  BY <1>1, BothEnds
<1>3. waiting_for[q] # None
  BY <1>1, <1>2 DEF None
<1>4. \A p \in Proc \ {q} : waiting_for'[p] = waiting_for[p]
  BY DEF Release, TypeOK
<1>5. waiting_for'[q] = None => Holds(w, q)'
  BY DEF Release, TypeOK, Holds
<1> QED  BY <1>3, <1>4, <1>5

\* Every step leaves a SymbolProc that is not spawned yet out of sight.
LEMMA UnspawnedStep ==
    ASSUME IInv, [Next]_vars
    PROVE  Unspawned'
<1>0. TypeOK /\ Jobs /\ OneRunner /\ EdgesMatch /\ Unspawned
  BY DEF IInv
<1> SUFFICES ASSUME NEW w \in Worker, WorkerStep(w) PROVE Unspawned'
  <2>1. CASE UNCHANGED vars
    BY <2>1, <1>0 DEF Unspawned, vars, graph, counters, locals
  <2> QED  BY <2>1 DEF Next
<1> SUFFICES ASSUME NEW p \in Proc, p \notin spawned'
             PROVE  /\ status'[p] = "WAITING" /\ waiting_for'[p] = None
                    /\ \A v \in Worker : ~Holds(v, p)'
  BY DEF Unspawned, Holds
<1>1. p \notin spawned
  BY <1>0, SpawnSteps
<1>2. /\ status[p] = "WAITING" /\ waiting_for[p] = None
      /\ \A v \in Worker : ~Holds(v, p)
  BY <1>0, <1>1 DEF Unspawned, Holds
<1>3. p # job[w]
  BY <1>0, <1>2, ProcAssumption DEF OneRunner
<1>4. ~(pc[w] = "cas" /\ p = target[w])
  BY <1>0, <1>2 DEF Jobs, JobOK, Holds
<1>5. status'[p] = "WAITING"
  BY <1>0, <1>1, <1>2, <1>3, <1>4, StatusSteps
<1>6. \A k \in Kind : ~Release(w, k, p)
  BY <1>0, <1>2, Released
<1>7. waiting_for'[p] = None
  <2>1. CASE UNCHANGED waiting_for
    BY <1>2, <2>1
  <2>2. ASSUME NEW on \in Proc, NEW kind \in Kind, Link(job[w], on, kind)
        PROVE  waiting_for'[p] = None
    BY <1>0, <1>2, <1>3, <2>2 DEF Link, TypeOK
  <2>3. ASSUME NEW q \in Proc, NEW k \in Kind, Release(w, k, q) PROVE waiting_for'[p] = None
    BY <1>0, <1>2, <1>6, <2>3, Released
  <2> QED  BY <1>0, <2>1, <2>2, <2>3, EdgeSteps
<1>8. ~Holds(w, p)'
  BY <1>0, <1>2, <1>6, PutSteps
<1>9. \A v \in Worker \ {w} : ~Holds(v, p)'
  BY <1>0, <1>2, Frame DEF Holds
<1> QED  BY <1>5, <1>7, <1>8, <1>9

\* Every step keeps whoever waits for nothing about to be woken up.
LEMMA WakeupStep ==
    ASSUME IInv, [Next]_vars
    PROVE  NoLostWakeup'
<1>0. TypeOK /\ Jobs /\ OneRunner /\ EdgesMatch /\ NoLostWakeup
  BY DEF IInv
<1> SUFFICES ASSUME NEW w \in Worker, WorkerStep(w) PROVE NoLostWakeup'
  <2>1. CASE UNCHANGED vars
    BY <2>1, <1>0 DEF NoLostWakeup, vars, graph, counters, locals
  <2> QED  BY <2>1 DEF Next
<1> SUFFICES ASSUME NEW p \in Proc, p \in spawned', status'[p] = "WAITING", waiting_for'[p] = None
             PROVE  \E v \in Worker : Holds(v, p)'
  <2>1. spawned' \subseteq Proc
    BY <1>0, SpawnSteps DEF TypeOK
  <2> QED  BY <2>1 DEF NoLostWakeup, Holds
<1>1. p \in spawned
  BY <1>0, SpawnSteps
<1>2. status[p] = "WAITING"
  BY <1>0, StatusSteps
<1>3. p # job[w]
  BY <1>0, <1>2, ProcAssumption DEF OneRunner
<1>4. CASE waiting_for[p] = None
  <2>1. PICK v \in Worker : Holds(v, p)
    BY <1>0, <1>1, <1>2, <1>4 DEF NoLostWakeup, Holds
  <2>2. CASE v = w
    BY <1>0, <2>1, <2>2, PutSteps
  <2>3. CASE v # w
    BY <1>0, <2>1, <2>3, Frame DEF Holds
  <2> QED  BY <2>2, <2>3
<1>5. CASE waiting_for[p] # None
  <2>1. ASSUME NEW on \in Proc, NEW kind \in Kind, Link(job[w], on, kind)
        PROVE  waiting_for'[p] = waiting_for[p]
    BY <1>0, <1>3, <2>1 DEF Link, TypeOK
  <2>2. \E q \in Proc : \E k \in Kind : Release(w, k, q)
    BY <1>0, <1>5, <2>1, EdgeSteps
  <2> QED  BY <1>0, <1>5, <2>2, Released
<1> QED  BY <1>4, <1>5

-----------------------------------------------------------------------------
(* The theorems *)

\* The invariant holds at first: who waits has one edge, to its parent.
LEMMA InitIInv ==
    ASSUME Init
    PROVE  IInv
<1>1. TypeOK
  <2>1. Cardinality(Proc \ Later) \in Nat
    BY ProcAssumption, FS_Difference, FS_CardinalityType
  <2>2. status \in [Proc -> Status] /\ queue \in [Proc -> Nat]
    BY DEF Init, Status
  <2>3. waiting_for \in [Proc -> [Proc -> Nat]] /\ waited_on_by \in [Proc -> [Kind -> [Proc -> Nat]]]
    BY DEF Init
  <2>4. /\ todo \in [Worker -> Seq(Proc \X Kind)] /\ any_waiting \in [Worker -> BOOLEAN]
        /\ put \in [Worker -> SUBSET Proc] /\ pc \in [Worker -> WorkerPC]
    BY DEF Init, WorkerPC
  <2> QED  BY <2>1, <2>2, <2>3, <2>4 DEF Init, TypeOK
<1>2. Jobs
  BY DEF Init, Jobs, JobOK, Inside
<1>3. OneRunner
  <2>1. \A w \in Worker : job[w] = NoProc
    BY DEF Init
  <2>2. \A p \in Proc : queue[p] <= 1 /\ (queue[p] = 1 => status[p] = "IN_QUEUE")
    BY DEF Init
  <2> QED  BY <2>1, <2>2, ProcAssumption DEF OneRunner
<1>4. EdgesMatch
  BY ParentAssumption DEF Init, EdgesMatch, Kind
<1>5. Unspawned
  BY ProcAssumption, ParentAssumption DEF Init, Unspawned, None
<1>6. NoLostWakeup
  <2> SUFFICES ASSUME NEW p \in Proc \ Later, status[p] = "WAITING" PROVE waiting_for[p] # None
    BY DEF Init, NoLostWakeup
  <2>1. Parent[p] \in Proc
    BY ParentAssumption DEF Init
  <2>2. waiting_for[p][Parent[p]] = 1
    BY <2>1 DEF Init
  <2> QED  BY <2>1, <2>2 DEF None
<1> QED  BY <1>1, <1>2, <1>3, <1>4, <1>5, <1>6 DEF IInv

\* The inductive invariant is an invariant.
THEOREM Invariance == Spec => []IInv
<1>1. Init => IInv
  BY InitIInv
<1>2. IInv /\ [Next]_vars => IInv'
  BY TypeStep, JobsStep, OneRunnerStep, EdgesStep, UnspawnedStep, WakeupStep DEF IInv
<1> QED  BY <1>1, <1>2, PTL DEF Spec

\* The state of the scheduler always has its types: the counts of edges and of
\* queued tasks in particular never become negative.
THEOREM TypeCorrect == Spec => []TypeOK
<1>1. IInv => TypeOK
  BY DEF IInv
<1> QED  BY <1>1, Invariance, PTL

\* No SymbolProc is run by two workers, or run while it is in the queue,
\* whatever the program and the number of workers.
THEOREM RunByOneWorker == Spec => []OneRunner
<1>1. IInv => OneRunner
  BY DEF IInv
<1> QED  BY <1>1, Invariance, PTL

\* The two ends of every edge agree, whoever adds and removes edges.
THEOREM EdgesAgree == Spec => []EdgesMatch
<1>1. IInv => EdgesMatch
  BY DEF IInv
<1> QED  BY <1>1, Invariance, PTL

\* A SymbolProc that has nothing left to wait for is always on its way into the
\* work manager.
THEOREM NoWakeupIsLost == Spec => []NoLostWakeup
<1>1. IInv => NoLostWakeup
  BY DEF IInv
<1> QED  BY <1>1, Invariance, PTL

-----------------------------------------------------------------------------
(***************************************************************************)
(* Who waits for a SymbolProc is told by it: no edge leads to what is      *)
(* finished, and none to a SymbolProc that is suspended.  Most edges are   *)
(* added by a worker that has looked; a struct adds itself to its members  *)
(* without a look, so what has to be known of them is that they have not   *)
(* begun: they wait for the declaration of the struct, which it has not    *)
(* finished yet.                                                           *)
(***************************************************************************)

\* What is finished was finished by an instruction that p has reached.
Past ==
    \A p \in Proc : \A k \in finished[p] : \E i \in DOMAIN Program[p] :
        i <= inst[p] /\ Program[p][i].op = "finish" /\ k \in Program[p][i].kinds

\* A struct that adds itself to others adds itself to members of its own.
AtMembers ==
    \A w \in Worker : pc[w] = "members" =>
        /\ getInstruction(job[w]).op = "members"
        /\ \A i \in DOMAIN todo[w] : Parent[todo[w][i][1]] = job[w]

Releasing == {"release", "put", "cas"}

\* Kinds are marked as finished before the waiters on them are released.
Marked ==
    \A w \in Worker : pc[w] \in Releasing =>
        getInstruction(job[w]).kinds \subseteq finished[job[w]]

\* p waits for the declaration of its parent
Held(p) == Parent[p] \in Proc /\ "decl" \notin finished[Parent[p]]

NotBegun ==
    \A p \in Proc : Held(p) =>
        /\ waited_on_by[Parent[p]]["decl"][p] > 0
        /\ p \in spawned /\ status[p] = "WAITING" /\ finished[p] = {}
        /\ \A w \in Worker : ~Holds(w, p)

WInv == Past /\ AtMembers /\ Marked /\ NotBegun /\ NoEdgeToFinished /\ SuspendedUnwanted

-----------------------------------------------------------------------------
(* What a step changes. *)

\* A worker comes to "members" and to the release of waiters only by the instructions
\* that begin there, and leaves "release" only when all waiters are released.
LEMMA PlaceSteps ==
    ASSUME TypeOK, NEW w \in Worker, WorkerStep(w)
    PROVE  /\ pc'[w] = "members" => Members(w) \/ AddToMember(w)
           /\ pc'[w] \in Releasing =>
                  Finish(w) \/ (pc[w] \in Releasing /\ UNCHANGED <<inst, job>>)
           /\ pc[w] = "release" /\ pc'[w] # "release" => ReleaseEnd(w)
<1> DEFINE Goal == /\ pc'[w] = "members" => Members(w) \/ AddToMember(w)
                   /\ pc'[w] \in Releasing =>
                          Finish(w) \/ (pc[w] \in Releasing /\ UNCHANGED <<inst, job>>)
                   /\ pc[w] = "release" /\ pc'[w] # "release" => ReleaseEnd(w)
<1>0. pc \in [Worker -> WorkerPC]
  BY DEF TypeOK
<1>1. CASE Members(w) \/ AddToMember(w)
  BY <1>0, <1>1 DEF Members, AddToMember, Runs, Goto, Releasing
<1>2. CASE Finish(w)
  BY <1>0, <1>2 DEF Finish, Runs, Goto
<1>3. CASE ReleaseEnd(w)
  BY <1>0, <1>3 DEF ReleaseEnd, Goto, Releasing
<1>4. CASE \E q \in Proc : \E k \in Kind : Release(w, k, q)
  BY <1>4 DEF Release, Releasing
<1>5. CASE (\E q \in Proc : PutLook(w, q)) \/ setStatusInQueueIfNotAlreadyDone(w)
  <2>1. pc[w] \in {"put", "cas"} /\ UNCHANGED <<inst, job>>
    BY <1>5 DEF PutLook, setStatusInQueueIfNotAlreadyDone
  <2>2. UNCHANGED pc \/ \E l \in {"put", "cas"} : Goto(w, l)
    BY <1>5 DEF PutLook, setStatusInQueueIfNotAlreadyDone
  <2>3. pc'[w] \in {"put", "cas"}
    BY <1>0, <2>1, <2>2 DEF Goto
  <2> QED  BY <2>1, <2>3 DEF Releasing
<1>6. CASE (\E p \in Proc : Take(w, p)) \/ Start(w) \/ Done(w) \/ Errored(w) \/ Error(w)
           \/ ErrorNoReport(w) \/ NeedToWait(w) \/ Suspend(w)
  <2>1. pc[w] # "release" /\ pc[w] # "members"
    BY <1>6 DEF Take, Start, Done, Errored, Error, ErrorNoReport, NeedToWait, Suspend, Runs
  <2>2. pc'[w] \in {"start", "run", "idle", "errored"}
    <3>1. ErrorNoReport(w) \/ \E l \in {"start", "run", "idle", "errored"} : Goto(w, l)
      BY <1>6 DEF Take, Start, Done, Errored, Error, NeedToWait, Suspend, LeaveAnalyze
    <3> QED  BY <1>0, <3>1 DEF Goto, ErrorNoReport, Runs
  <2> QED  BY <2>1, <2>2 DEF Releasing
<1>7. CASE Wait(w) \/ WaitCheck(w) \/ WaitPush(w) \/ WaitEnd(w) \/ MembersEnd(w)
           \/ Select(w) \/ Spawn(w) \/ PutEnd(w)
  <2>1. pc[w] # "release"
    BY <1>7 DEF Wait, WaitCheck, WaitPush, WaitEnd, MembersEnd, Select, Spawn, PutEnd, Runs
  <2>2. pc'[w] \in {"check", "errored", "push", "pause", "run"}
    <3>1. (WaitCheck(w) /\ UNCHANGED pc)
          \/ \E l \in {"check", "errored", "push", "pause", "run"} : Goto(w, l)
      BY <1>7 DEF Wait, WaitCheck, WaitPush, WaitEnd, MembersEnd, Select, Spawn, PutEnd,
                  nextInstruction
    <3> QED  BY <1>0, <3>1 DEF Goto, WaitCheck
  <2> QED  BY <2>1, <2>2 DEF Releasing
<1> QED  BY <1>1, <1>2, <1>3, <1>4, <1>5, <1>6, <1>7 DEF WorkerStep

\* Only an instruction that finishes something marks it as finished.
LEMMA FinishedSteps ==
    ASSUME NEW w \in Worker, WorkerStep(w)
    PROVE  UNCHANGED finished \/ Finish(w)
<1>1. CASE (\E p \in Proc : Take(w, p)) \/ Start(w) \/ Done(w) \/ Errored(w) \/ Error(w)
           \/ ErrorNoReport(w) \/ NeedToWait(w) \/ Suspend(w) \/ Wait(w) \/ WaitCheck(w)
           \/ WaitPush(w) \/ WaitEnd(w) \/ Members(w) \/ AddToMember(w) \/ MembersEnd(w)
  BY <1>1 DEF Take, Start, Done, Errored, Error, ErrorNoReport, NeedToWait, Suspend, Wait,
              WaitCheck, WaitPush, WaitEnd, Members, AddToMember, MembersEnd, graph
<1>2. CASE ReleaseEnd(w) \/ PutEnd(w) \/ (\E q \in Proc : PutLook(w, q))
           \/ (\E q \in Proc : \E k \in Kind : Release(w, k, q))
           \/ setStatusInQueueIfNotAlreadyDone(w) \/ Select(w) \/ Spawn(w)
  BY <1>2 DEF ReleaseEnd, PutEnd, PutLook, Release, setStatusInQueueIfNotAlreadyDone, Select,
              Spawn, graph
<1> QED  BY <1>1, <1>2 DEF WorkerStep

\* Nobody goes back in its program.
LEMMA InstSteps ==
    ASSUME TypeOK, Jobs, NEW w \in Worker, WorkerStep(w), NEW p \in Proc
    PROVE  inst'[p] >= inst[p]
<1>1. inst[p] \in Nat /\ inst \in [Proc -> Nat \ {0}]
  BY DEF TypeOK
<1>2. CASE UNCHANGED inst
  BY <1>1, <1>2
<1>3. CASE inst' = [inst EXCEPT ![job[w]] = @ + 1]
  BY <1>1, <1>3
<1>4. CASE ErrorNoReport(w)
  <2>1. job[w] \in Proc
    BY <1>4, HasJob DEF ErrorNoReport, Runs
  <2>2. inst[job[w]] \in Nat /\ Len(Program[job[w]]) \in Nat
    BY <2>1, ProgramAssumption DEF TypeOK
  <2>3. inst[job[w]] <= Len(Program[job[w]])
    BY <1>4, <2>2 DEF ErrorNoReport, Runs, isAtEnd
  <2>4. Len(Program[job[w]]) + 1 >= inst[job[w]]
    BY <2>2, <2>3
  <2> QED  BY <1>1, <1>4, <2>4 DEF ErrorNoReport
<1>5. CASE NeedToWait(w)
  <2>1. inst'[p] \in {inst[p], inst[p] + 1}
    BY <1>1, <1>5 DEF NeedToWait
  <2> QED  BY <1>1, <2>1
<1>6. CASE (\E q \in Proc : Take(w, q)) \/ Start(w) \/ Done(w) \/ Errored(w) \/ Error(w)
           \/ Wait(w) \/ WaitCheck(w) \/ WaitPush(w) \/ Members(w) \/ AddToMember(w)
           \/ Finish(w) \/ ReleaseEnd(w) \/ (\E q \in Proc : PutLook(w, q))
           \/ (\E q \in Proc : \E k \in Kind : Release(w, k, q))
           \/ setStatusInQueueIfNotAlreadyDone(w)
  <2>1. UNCHANGED inst
    BY <1>6 DEF Take, Start, Done, Errored, Error, Wait, WaitCheck, WaitPush, Members,
                AddToMember, Finish, ReleaseEnd, PutLook, Release,
                setStatusInQueueIfNotAlreadyDone
  <2> QED  BY <1>2, <2>1
<1>7. CASE Suspend(w) \/ WaitEnd(w) \/ MembersEnd(w) \/ PutEnd(w) \/ Select(w) \/ Spawn(w)
  <2>1. UNCHANGED inst \/ inst' = [inst EXCEPT ![job[w]] = @ + 1]
    BY <1>7 DEF Suspend, WaitEnd, MembersEnd, PutEnd, Select, Spawn, nextInstruction
  <2> QED  BY <1>2, <1>3, <2>1
<1> QED  BY <1>4, <1>5, <1>6, <1>7 DEF WorkerStep

\* A struct that adds itself to its members has not finished its declaration.
LEMMA MembersHeld ==
    ASSUME TypeOK, Jobs, Past, AtMembers, NEW w \in Worker, pc[w] = "members", todo[w] # <<>>
    PROVE  Held(Head(todo[w])[1])
<1> DEFINE p == job[w]
           on == Head(todo[w])[1]
<1>1. p \in Proc /\ inst[p] <= Len(Program[p]) /\ getInstruction(p).op = "members"
  BY Current DEF Inside, AtMembers
<1>2. inst[p] \in DOMAIN Program[p]
  BY <1>1, ProgramAssumption DEF TypeOK
<1>3. Parent[on] = p
  <2>1. todo[w] \in Seq(Proc \X Kind)
    BY DEF TypeOK
  <2>2. 1 \in DOMAIN todo[w] /\ Head(todo[w]) = todo[w][1]
    BY <2>1
  <2> QED  BY <2>2 DEF AtMembers
<1>4. "decl" \notin finished[p]
  <2> SUFFICES ASSUME "decl" \in finished[p] PROVE FALSE
    OBVIOUS
  <2>1. PICK i \in DOMAIN Program[p] :
            i <= inst[p] /\ Program[p][i].op = "finish" /\ "decl" \in Program[p][i].kinds
    BY <1>1 DEF Past
  <2>2. i # inst[p]
    BY <1>1, <2>1 DEF getInstruction
  <2>3. i \in Nat /\ i >= 1 /\ inst[p] \in Nat
    <3>1. Program[p] \in Seq(Instruction) /\ inst[p] \in Nat
      BY <1>1, ProgramAssumption DEF TypeOK
    <3> QED  BY <2>1, <3>1
  <2>4. i \in 1..inst[p] - 1
    BY <2>1, <2>2, <2>3
  <2> QED  BY <1>1, <1>2, <2>1, <2>4, MembersAssumption DEF getInstruction
<1> QED  BY <1>1, <1>3, <1>4 DEF Held

\* A new edge leads to something that is not finished, of a SymbolProc that is not
\* suspended afterwards.
LEMMA LinkSteps ==
    ASSUME IInv, WInv, NEW w \in Worker, WorkerStep(w)
    PROVE  \/ UNCHANGED <<waiting_for, waited_on_by>>
           \/ \E q \in Proc : \E k \in Kind : Release(w, k, q)
           \/ /\ UNCHANGED finished /\ job[w] \in Proc
              /\ \E on \in Proc, kind \in Kind :
                    Link(job[w], on, kind) /\ kind \notin finished[on] /\ status'[on] # "SUSPENDED"
<1>0. TypeOK /\ Jobs
  BY DEF IInv
<1> DEFINE on   == Head(todo[w])[1]
           kind == Head(todo[w])[2]
<1>1. CASE WaitPush(w)
  <2>1. job[w] \in Proc /\ on \in Proc /\ kind \in Kind
    BY <1>0, <1>1, HasJob, HeadTodo DEF WaitPush, Jobs, JobOK
  <2>2. CASE UNCHANGED <<waiting_for, waited_on_by>>
    BY <2>2
  <2>3. CASE /\ kind \notin finished[on] /\ Link(job[w], on, kind)
             /\ IF status[on] = "SUSPENDED" THEN unsuspend(on)
                                            ELSE UNCHANGED <<status, num_procs_suspended, queue>>
    <3>1. status'[on] # "SUSPENDED"
      BY <1>0, <2>1, <2>3 DEF unsuspend, TypeOK
    <3>2. UNCHANGED finished
      BY <1>1 DEF WaitPush
    <3> QED  BY <2>1, <2>3, <3>1, <3>2
  <2> QED  BY <1>1, <2>2, <2>3 DEF WaitPush
<1>2. CASE AddToMember(w)
  <2>1. job[w] \in Proc /\ on \in Proc /\ kind \in Kind
    BY <1>0, <1>2, HasJob, HeadTodo DEF AddToMember
  <2>2. Held(on)
    BY <1>0, <1>2, MembersHeld DEF AddToMember, WInv
  <2>3. status[on] = "WAITING" /\ finished[on] = {}
    BY <2>1, <2>2 DEF WInv, NotBegun
  <2>4. Link(job[w], on, kind) /\ UNCHANGED <<status, finished>>
    BY <1>2 DEF AddToMember
  <2> QED  BY <2>1, <2>3, <2>4
<1>3. CASE (\E p \in Proc : Take(w, p)) \/ Start(w) \/ Done(w) \/ Errored(w) \/ Error(w)
           \/ ErrorNoReport(w) \/ NeedToWait(w) \/ Suspend(w) \/ Wait(w) \/ WaitCheck(w)
           \/ WaitEnd(w) \/ Members(w) \/ MembersEnd(w)
  BY <1>3 DEF Take, Start, Done, Errored, Error, ErrorNoReport, NeedToWait, Suspend, Wait,
              WaitCheck, WaitEnd, Members, MembersEnd, graph
<1>4. CASE Finish(w) \/ ReleaseEnd(w) \/ PutEnd(w) \/ (\E q \in Proc : PutLook(w, q))
           \/ setStatusInQueueIfNotAlreadyDone(w) \/ Select(w) \/ Spawn(w)
  BY <1>4 DEF Finish, ReleaseEnd, PutEnd, PutLook, setStatusInQueueIfNotAlreadyDone, Select,
              Spawn, graph
<1> QED  BY <1>1, <1>2, <1>3, <1>4 DEF WorkerStep

\* The number of edges of one kind grows only where an edge is added, and shrinks only
\* where one is released.
LEMMA EdgeCounts ==
    ASSUME TypeOK, NEW p \in Proc, NEW q \in Proc, NEW k \in Kind
    PROVE  /\ \A id, on \in Proc : \A j \in Kind : Link(id, on, j) =>
                  /\ waited_on_by'[p][k][q] >= waited_on_by[p][k][q]
                  /\ <<on, j>> # <<p, k>> => waited_on_by'[p][k][q] = waited_on_by[p][k][q]
           /\ \A w \in Worker : \A id \in Proc : \A j \in Kind : Release(w, j, id) =>
                  /\ waited_on_by'[p][k][q] <= waited_on_by[p][k][q]
                  /\ <<job[w], j, id>> # <<p, k, q>> =>
                         waited_on_by'[p][k][q] = waited_on_by[p][k][q]
<1>0. waited_on_by \in [Proc -> [Kind -> [Proc -> Nat]]] /\ waited_on_by[p][k][q] \in Nat
  BY DEF TypeOK
<1>1. ASSUME NEW id \in Proc, NEW on \in Proc, NEW j \in Kind, Link(id, on, j)
      PROVE  /\ waited_on_by'[p][k][q] >= waited_on_by[p][k][q]
             /\ <<on, j>> # <<p, k>> => waited_on_by'[p][k][q] = waited_on_by[p][k][q]
  BY <1>0, <1>1 DEF Link, Add
<1>2. ASSUME NEW w \in Worker, NEW id \in Proc, NEW j \in Kind, Release(w, j, id)
      PROVE  /\ waited_on_by'[p][k][q] <= waited_on_by[p][k][q]
             /\ <<job[w], j, id>> # <<p, k, q>> =>
                    waited_on_by'[p][k][q] = waited_on_by[p][k][q]
  BY <1>0, <1>2 DEF Release, Remove
<1> QED  BY <1>1, <1>2

-----------------------------------------------------------------------------
(* WInv *)

\* What another worker runs is another SymbolProc, which stays where it is.
LEMMA OthersStay ==
    ASSUME IInv, NEW w \in Worker, WorkerStep(w), NEW v \in Worker \ {w}, pc[v] # "idle"
    PROVE  /\ job[v] \in Proc /\ job[v] # job[w]
           /\ pc'[v] = pc[v] /\ job'[v] = job[v] /\ todo'[v] = todo[v] /\ put'[v] = put[v]
           /\ getInstruction(job[v])' = getInstruction(job[v])
<1>0. TypeOK /\ Jobs /\ OneRunner
  BY DEF IInv
<1>1. job[v] \in Proc /\ job[v] # job[w]
  BY <1>0, HasJob, ProcAssumption DEF OneRunner
<1>2. /\ pc'[v] = pc[v] /\ job'[v] = job[v] /\ todo'[v] = todo[v] /\ put'[v] = put[v]
      /\ inst'[job[v]] = inst[job[v]]
  BY <1>0, <1>1, Frame
<1> QED  BY <1>1, <1>2 DEF getInstruction

\* What was finished once stays finished.
LEMMA FinishedGrows ==
    ASSUME TypeOK, Jobs, NEW w \in Worker, WorkerStep(w), NEW p \in Proc
    PROVE  /\ finished[p] \subseteq finished'[p]
           /\ ~(Finish(w) /\ p = job[w]) => finished'[p] = finished[p]
           /\ Finish(w) /\ p = job[w] =>
                  finished'[p] = finished[p] \cup getInstruction(p).kinds
<1>1. CASE UNCHANGED finished /\ ~Finish(w)
  BY <1>1
<1>2. CASE Finish(w)
  BY <1>2 DEF Finish, TypeOK
<1> QED  BY <1>1, <1>2, FinishedSteps

LEMMA PastStep ==
    ASSUME IInv, WInv, NEW w \in Worker, WorkerStep(w)
    PROVE  Past'
<1>0. TypeOK /\ Jobs /\ Past
  BY DEF IInv, WInv
<1> SUFFICES ASSUME NEW p \in Proc, NEW k \in finished'[p]
             PROVE  \E i \in DOMAIN Program[p] :
                        i <= inst'[p] /\ Program[p][i].op = "finish" /\ k \in Program[p][i].kinds
  BY DEF Past
<1>1. CASE k \in finished[p]
  <2>1. PICK i \in DOMAIN Program[p] :
            i <= inst[p] /\ Program[p][i].op = "finish" /\ k \in Program[p][i].kinds
    BY <1>0, <1>1 DEF Past
  <2>2. inst[p] \in Nat /\ inst'[p] >= inst[p] /\ i \in Nat /\ inst'[p] \in Nat
    <3>1. Program[p] \in Seq(Instruction) /\ inst[p] \in Nat /\ inst'[p] \in Nat
      <4>1. TypeOK'
        BY TypeStep DEF Next
      <4> QED  BY <1>0, <4>1, ProgramAssumption DEF TypeOK
    <3> QED  BY <1>0, <2>1, <3>1, InstSteps
  <2> QED  BY <2>1, <2>2
<1>2. CASE k \notin finished[p]
  <2>1. Finish(w) /\ p = job[w] /\ k \in getInstruction(p).kinds
    BY <1>0, <1>2, FinishedGrows
  <2>2. inst[p] <= Len(Program[p]) /\ getInstruction(p).op = "finish" /\ inst'[p] = inst[p]
    BY <1>0, <2>1, Current DEF Finish, Runs
  <2>3. inst[p] \in DOMAIN Program[p] /\ inst[p] <= inst[p]
    <3>1. Program[p] \in Seq(Instruction) /\ inst[p] \in Nat \ {0}
      BY <1>0, ProgramAssumption DEF TypeOK
    <3> QED  BY <2>2, <3>1
  <2> QED  BY <2>1, <2>2, <2>3 DEF getInstruction
<1> QED  BY <1>1, <1>2

LEMMA AtMembersStep ==
    ASSUME IInv, WInv, NEW w \in Worker, WorkerStep(w)
    PROVE  AtMembers'
<1>0. TypeOK /\ Jobs /\ AtMembers
  BY DEF IInv, WInv
<1> SUFFICES ASSUME NEW v \in Worker, pc'[v] = "members"
             PROVE  /\ getInstruction(job[v])'.op = "members"
                    /\ \A i \in DOMAIN todo'[v] : Parent[todo'[v][i][1]] = job'[v]
  BY DEF AtMembers, getInstruction
<1>1. CASE v # w
  <2>1. pc[v] = "members"
    BY <1>0, <1>1, Frame
  <2> QED  BY <1>0, <1>1, <2>1, OthersStay DEF AtMembers
<1>2. CASE v = w /\ Members(w)
  <2> DEFINE p == job[w]
  <2>1. /\ getInstruction(p).op = "members" /\ job'[w] = p /\ inst' = inst
        /\ todo'[w] = getInstruction(p).on
    BY <1>0, <1>2 DEF Members, Runs, TypeOK
  <2>2. p \in Proc /\ inst[p] <= Len(Program[p])
    BY <1>0, <1>2, Current DEF Members, Runs
  <2>3. inst[p] \in DOMAIN Program[p]
    <3>1. Program[p] \in Seq(Instruction) /\ inst[p] \in Nat \ {0}
      BY <1>0, <2>2, ProgramAssumption DEF TypeOK
    <3> QED  BY <2>2, <3>1
  <2>4. \A i \in DOMAIN getInstruction(p).on : Parent[getInstruction(p).on[i][1]] = p
    BY <2>1, <2>2, <2>3, MembersAssumption DEF getInstruction
  <2> QED  BY <1>2, <2>1, <2>4 DEF getInstruction
<1>3. CASE v = w /\ AddToMember(w)
  <2>1. /\ job' = job /\ inst' = inst /\ pc[w] = "members" /\ todo[w] # <<>>
        /\ todo'[w] = Tail(todo[w])
    BY <1>0, <1>3 DEF AddToMember, TypeOK
  <2>2. todo[w] \in Seq(Proc \X Kind)
    BY <1>0 DEF TypeOK
  <2>3. \A i \in DOMAIN Tail(todo[w]) :
            i + 1 \in DOMAIN todo[w] /\ Tail(todo[w])[i] = todo[w][i + 1]
    BY <2>1, <2>2
  <2> QED  BY <1>0, <1>3, <2>1, <2>3 DEF AtMembers, getInstruction
<1> QED  BY <1>0, <1>1, <1>2, <1>3, PlaceSteps

LEMMA MarkedStep ==
    ASSUME IInv, WInv, NEW w \in Worker, WorkerStep(w)
    PROVE  Marked'
<1>0. TypeOK /\ Jobs /\ Marked
  BY DEF IInv, WInv
<1> SUFFICES ASSUME NEW v \in Worker, pc'[v] \in Releasing
             PROVE  getInstruction(job[v])'.kinds \subseteq finished'[job'[v]]
  BY DEF Marked, getInstruction
<1>1. CASE v # w
  <2>1. pc[v] \in Releasing
    BY <1>0, <1>1, Frame
  <2>2. /\ job[v] \in Proc /\ job'[v] = job[v]
        /\ getInstruction(job[v])' = getInstruction(job[v])
    BY <1>0, <1>1, <2>1, OthersStay DEF Releasing
  <2> QED  BY <1>0, <2>1, <2>2, FinishedGrows DEF Marked
<1>2. CASE v = w /\ Finish(w)
  <2>1. job[w] \in Proc /\ job' = job /\ inst' = inst
    BY <1>0, <1>2, HasJob DEF Finish, Runs
  <2>2. finished'[job[w]] = finished[job[w]] \cup getInstruction(job[w]).kinds
    BY <1>0, <1>2, <2>1, FinishedGrows
  <2> QED  BY <1>2, <2>1, <2>2 DEF getInstruction
<1>3. CASE v = w /\ pc[w] \in Releasing /\ UNCHANGED <<inst, job>>
  <2>1. job[w] \in Proc
    BY <1>0, <1>3, HasJob DEF Releasing
  <2> QED  BY <1>0, <1>3, <2>1, FinishedGrows DEF Marked, getInstruction
<1> QED  BY <1>0, <1>1, <1>2, <1>3, PlaceSteps

\* BothEnds of the next state
LEMMA BothEndsAfter ==
    ASSUME TypeOK', EdgesMatch', NEW p \in Proc, NEW q \in Proc, NEW k \in Kind,
           waited_on_by'[p][k][q] > 0
    PROVE  waiting_for'[q][p] > 0
<1>0. waited_on_by' \in [Proc -> [Kind -> [Proc -> Nat]]]
  BY DEF TypeOK
<1>1. \A j \in Kind : waited_on_by'[p][j][q] \in Nat
  BY <1>0
<1>2. waiting_for'[q][p] = waited_on_by'[p]["decl"][q] + waited_on_by'[p]["pir_decl"][q]
                           + waited_on_by'[p]["def"][q] + waited_on_by'[p]["pir_def"][q]
  BY DEF EdgesMatch
<1> QED  BY <1>1, <1>2 DEF Kind

\* As long as its parent is not declared, a member stays as it was.
LEMMA NotBegunStep ==
    ASSUME IInv, WInv, NEW w \in Worker, WorkerStep(w)
    PROVE  NotBegun'
<1>0. TypeOK /\ Jobs /\ OneRunner /\ EdgesMatch /\ Marked /\ NotBegun
  BY DEF IInv, WInv
<1>n. TypeOK' /\ EdgesMatch'
  BY TypeStep, EdgesStep DEF Next
<1> SUFFICES ASSUME NEW p \in Proc, Held(p)'
             PROVE  /\ waited_on_by'[Parent[p]]["decl"][p] > 0
                    /\ p \in spawned' /\ status'[p] = "WAITING" /\ finished'[p] = {}
                    /\ \A v \in Worker : ~Holds(v, p)'
  BY DEF NotBegun
<1> DEFINE s == Parent[p]
<1>1. s \in Proc /\ "decl" \notin finished[s] /\ "decl" \in Kind
  BY <1>0, FinishedGrows DEF Held, Kind
<1>2. /\ waited_on_by[s]["decl"][p] > 0
      /\ p \in spawned /\ status[p] = "WAITING" /\ finished[p] = {}
      /\ \A v \in Worker : ~Holds(v, p)
  BY <1>0, <1>1 DEF NotBegun, Held
<1>3. p # job[w]
  BY <1>0, <1>2, ProcAssumption DEF OneRunner
<1>4. ~(pc[w] = "cas" /\ p = target[w])
  BY <1>0, <1>2 DEF Jobs, JobOK, Holds
<1>5. status'[p] = "WAITING" /\ finished'[p] = {}
  BY <1>0, <1>2, <1>3, <1>4, StatusSteps, FinishedGrows
<1>6. p \in spawned'
  BY <1>0, <1>2, SpawnSteps
<1>7. waited_on_by'[s]["decl"][p] > 0
  <2>0. waited_on_by[s]["decl"][p] \in Nat /\ waited_on_by'[s]["decl"][p] \in Nat
    BY <1>0, <1>n, <1>1 DEF TypeOK
  <2>1. CASE UNCHANGED waited_on_by
    BY <1>2, <2>1
  <2>2. ASSUME NEW on \in Proc, NEW kind \in Kind, Link(job[w], on, kind), job[w] \in Proc
        PROVE  waited_on_by'[s]["decl"][p] > 0
    <3>1. waited_on_by'[s]["decl"][p] >= waited_on_by[s]["decl"][p]
      BY <1>0, <1>1, <2>2, EdgeCounts
    <3> QED  BY <1>2, <2>0, <3>1
  <2>3. ASSUME NEW q \in Proc, NEW k \in Kind, Release(w, k, q)
        PROVE  waited_on_by'[s]["decl"][p] > 0
    <3>1. <<job[w], k, q>> # <<s, "decl", p>>
      BY <1>0, <1>1, <2>3 DEF Release, Marked, Releasing
    <3>2. waited_on_by'[s]["decl"][p] = waited_on_by[s]["decl"][p]
      BY <1>0, <1>1, <2>3, <3>1, EdgeCounts
    <3> QED  BY <1>2, <3>2
  <2> QED  BY <1>0, <2>1, <2>2, <2>3, EdgeSteps
<1>8. waiting_for'[p] # None
  <2>1. waiting_for'[p][s] > 0
    BY <1>n, <1>1, <1>7, BothEndsAfter
  <2> QED  BY <1>1, <2>1 DEF None
<1>9. \A v \in Worker \ {w} : ~Holds(v, p)'
  BY <1>0, <1>2, Frame DEF Holds
<1>10. ~Holds(w, p)'
  <2> SUFFICES ASSUME Holds(w, p)' PROVE FALSE
    OBVIOUS
  <2>1. PICK k \in Kind : Release(w, k, p)
    BY <1>0, <1>2, PutSteps
  <2>2. put' = put /\ pc' = pc
    BY <1>8, <2>1 DEF Release
  <2> QED  BY <1>2, <2>2 DEF Holds
<1> QED  BY <1>5, <1>6, <1>7, <1>9, <1>10

LEMMA NoEdgeToFinishedStep ==
    ASSUME IInv, WInv, NEW w \in Worker, WorkerStep(w)
    PROVE  NoEdgeToFinished'
<1>0. TypeOK /\ Jobs /\ NoEdgeToFinished
  BY DEF IInv, WInv
<1>n. TypeOK'
  BY TypeStep DEF Next
<1> SUFFICES ASSUME NEW p \in Proc, NEW q \in Proc, NEW k \in finished'[p],
                    waited_on_by'[p][k][q] > 0
             PROVE  \E v \in Worker : pc'[v] = "release" /\ Propagating(v, p, k)'
  BY DEF NoEdgeToFinished
<1>k. k \in Kind /\ waited_on_by[p][k][q] \in Nat /\ waited_on_by'[p][k][q] \in Nat
  BY <1>0, <1>n DEF TypeOK
<1>1. CASE Finish(w) /\ p = job[w] /\ k \in getInstruction(p).kinds
  <2>1. pc'[w] = "release" /\ job' = job /\ inst' = inst
    BY <1>0, <1>1 DEF Finish, Goto, TypeOK
  <2> QED  BY <1>1, <2>1 DEF Propagating, getInstruction
<1>2. CASE ~(Finish(w) /\ p = job[w] /\ k \in getInstruction(p).kinds)
  <2>1. k \in finished[p]
    BY <1>0, <1>2, FinishedGrows
  <2>2. waited_on_by[p][k][q] > 0
    <3>1. CASE UNCHANGED waited_on_by
      BY <3>1
    <3>2. ASSUME NEW j \in Kind, NEW id \in Proc, Release(w, j, id)
          PROVE  waited_on_by[p][k][q] > 0
      <4>1. waited_on_by'[p][k][q] <= waited_on_by[p][k][q]
        BY <1>0, <1>k, <3>2, EdgeCounts
      <4> QED  BY <1>k, <4>1
    <3>3. ASSUME UNCHANGED finished, job[w] \in Proc, NEW on \in Proc, NEW kind \in Kind,
                 Link(job[w], on, kind), kind \notin finished[on]
          PROVE  waited_on_by[p][k][q] > 0
      <4>1. <<on, kind>> # <<p, k>>
        BY <2>1, <3>3
      <4>2. waited_on_by'[p][k][q] = waited_on_by[p][k][q]
        BY <1>0, <1>k, <3>3, <4>1, EdgeCounts
      <4> QED  BY <4>2
    <3> QED  BY <3>1, <3>2, <3>3, LinkSteps
  <2>3. PICK v \in Worker : pc[v] = "release" /\ Propagating(v, p, k)
    BY <1>0, <2>1, <2>2 DEF NoEdgeToFinished
  <2>4. CASE v # w
    <3>1. /\ pc'[v] = pc[v] /\ job'[v] = job[v]
          /\ getInstruction(job[v])' = getInstruction(job[v])
      BY <2>3, <2>4, OthersStay
    <3> QED  BY <2>3, <3>1 DEF Propagating
  <2>5. CASE v = w /\ ReleaseEnd(w)
    <3>1. waited_on_by[p][k] = None
      BY <2>3, <2>5 DEF ReleaseEnd, Propagating
    <3> QED  BY <2>2, <3>1 DEF None
  <2>6. CASE v = w /\ pc'[w] = "release"
    <3>1. pc[w] = "release" /\ ~Finish(w)
      BY <2>3, <2>6 DEF Finish, Runs
    <3>2. UNCHANGED <<inst, job>>
      BY <1>0, <2>6, <3>1, PlaceSteps DEF Releasing
    <3> QED  BY <2>3, <2>6, <3>2 DEF Propagating, getInstruction
  <2> QED  BY <1>0, <2>3, <2>4, <2>5, <2>6, PlaceSteps
<1> QED  BY <1>1, <1>2

\* Only the SymbolProc itself suspends itself, and it looks first.
LEMMA SuspendSteps ==
    ASSUME TypeOK, Jobs, NEW w \in Worker, WorkerStep(w), NEW p \in Proc,
           status'[p] = "SUSPENDED", status[p] # "SUSPENDED"
    PROVE  UNCHANGED waited_on_by /\ \A k \in Kind : waited_on_by[p][k] = None
<1>1. CASE Suspend(w)
  <2>1. job[w] \in Proc /\ UNCHANGED waited_on_by
    BY <1>1, HasJob DEF Suspend, Runs, graph
  <2>2. p = job[w] /\ ~\E k \in Kind : waited_on_by[p][k] # None
    BY <1>1, <2>1 DEF Suspend, TypeOK
  <2> QED  BY <2>1, <2>2
<1>2. CASE Start(w) \/ Done(w) \/ Errored(w) \/ NeedToWait(w)
  BY <1>2 DEF Start, Done, Errored, NeedToWait, TypeOK
<1>3. CASE WaitPush(w)
  BY <1>3 DEF WaitPush, unsuspend, TypeOK
<1>4. CASE Select(w) \/ Spawn(w)
  BY <1>4 DEF Select, Spawn, unsuspend, TypeOK
<1>5. CASE setStatusInQueueIfNotAlreadyDone(w)
  BY <1>5 DEF setStatusInQueueIfNotAlreadyDone, TypeOK
<1>6. CASE (\E q \in Proc : Take(w, q)) \/ Error(w) \/ ErrorNoReport(w) \/ Wait(w)
           \/ WaitCheck(w) \/ WaitEnd(w) \/ Members(w) \/ AddToMember(w) \/ MembersEnd(w)
           \/ Finish(w) \/ ReleaseEnd(w) \/ PutEnd(w) \/ (\E q \in Proc : PutLook(w, q))
           \/ (\E q \in Proc : \E k \in Kind : Release(w, k, q))
  BY <1>6 DEF Take, Error, ErrorNoReport, Wait, WaitCheck, WaitEnd, Members, AddToMember,
              MembersEnd, Finish, ReleaseEnd, PutEnd, PutLook, Release
<1> QED  BY <1>1, <1>2, <1>3, <1>4, <1>5, <1>6 DEF WorkerStep

LEMMA SuspendedUnwantedStep ==
    ASSUME IInv, WInv, NEW w \in Worker, WorkerStep(w)
    PROVE  SuspendedUnwanted'
<1>0. TypeOK /\ Jobs /\ SuspendedUnwanted
  BY DEF IInv, WInv
<1>n. TypeOK'
  BY TypeStep DEF Next
<1> SUFFICES ASSUME NEW p \in Proc, status'[p] = "SUSPENDED", NEW k \in Kind
             PROVE  waited_on_by'[p][k] = None
  BY DEF SuspendedUnwanted
<1>1. CASE status[p] # "SUSPENDED"
  BY <1>0, <1>1, SuspendSteps
<1>2. CASE status[p] = "SUSPENDED"
  <2>1. waited_on_by[p][k] = None
    BY <1>0, <1>2 DEF SuspendedUnwanted
  <2>2. \A q \in Proc : waited_on_by[p][k][q] = 0
    BY <2>1 DEF None
  <2>3. ASSUME NEW q \in Proc PROVE waited_on_by'[p][k][q] = 0
    <3>0. waited_on_by'[p][k][q] \in Nat
      BY <1>n DEF TypeOK
    <3>1. CASE UNCHANGED waited_on_by
      BY <2>2, <3>1
    <3>2. ASSUME NEW j \in Kind, NEW id \in Proc, Release(w, j, id)
          PROVE  waited_on_by'[p][k][q] = 0
      <4>1. waited_on_by'[p][k][q] <= waited_on_by[p][k][q]
        BY <1>0, <3>2, EdgeCounts
      <4> QED  BY <2>2, <3>0, <4>1
    <3>3. ASSUME job[w] \in Proc, NEW on \in Proc, NEW kind \in Kind,
                 Link(job[w], on, kind), status'[on] # "SUSPENDED"
          PROVE  waited_on_by'[p][k][q] = 0
      <4>1. <<on, kind>> # <<p, k>>
        BY <3>3
      <4>2. waited_on_by'[p][k][q] = waited_on_by[p][k][q]
        BY <1>0, <3>3, <4>1, EdgeCounts
      <4> QED  BY <2>2, <4>2
    <3> QED  BY <3>1, <3>2, <3>3, LinkSteps
  <2>4. waited_on_by'[p][k] \in [Proc -> Nat]
    BY <1>n DEF TypeOK
  <2> QED  BY <2>3, <2>4 DEF None
<1> QED  BY <1>1, <1>2

LEMMA InitWInv == ASSUME Init PROVE WInv
<1>1. Past
  BY DEF Init, Past
<1>2. AtMembers /\ Marked
  BY DEF Init, AtMembers, Marked, Releasing
<1>3. NotBegun
  <2> SUFFICES ASSUME NEW p \in Proc, Held(p)
               PROVE  /\ waited_on_by[Parent[p]]["decl"][p] > 0
                      /\ p \in spawned /\ status[p] = "WAITING" /\ finished[p] = {}
                      /\ \A w \in Worker : ~Holds(w, p)
    BY DEF NotBegun
  <2>1. Parent[p] \in Proc /\ Parent[p] # NoProc /\ p \notin Later
    BY ProcAssumption, ParentAssumption DEF Held
  <2>2. waited_on_by[Parent[p]]["decl"][p] = 1
    BY <2>1 DEF Init, Kind
  <2>3. p \in spawned /\ status[p] = "WAITING" /\ finished[p] = {}
    BY <2>1 DEF Init
  <2> QED  BY <2>2, <2>3 DEF Init, Holds
<1>4. NoEdgeToFinished
  BY DEF Init, NoEdgeToFinished
<1>5. SuspendedUnwanted
  BY DEF Init, SuspendedUnwanted
<1> QED  BY <1>1, <1>2, <1>3, <1>4, <1>5 DEF WInv

LEMMA UnchangedWInv == ASSUME WInv, UNCHANGED vars PROVE WInv'
<1> USE DEF vars, graph, counters, locals
<1>1. Past' /\ AtMembers' /\ Marked'
  BY DEF WInv, Past, AtMembers, Marked, getInstruction
<1>2. NotBegun'
  BY DEF WInv, NotBegun, Held, Holds
<1>3. NoEdgeToFinished' /\ SuspendedUnwanted'
  BY DEF WInv, NoEdgeToFinished, SuspendedUnwanted, Propagating, getInstruction
<1> QED  BY <1>1, <1>2, <1>3 DEF WInv

LEMMA WaitersInvariance == Spec => []WInv
<1>1. Init => WInv
  BY InitWInv
<1>2. IInv /\ WInv /\ [Next]_vars => WInv'
  BY UnchangedWInv, PastStep, AtMembersStep, MarkedStep, NotBegunStep, NoEdgeToFinishedStep,
     SuspendedUnwantedStep
  DEF Next, WInv
<1> QED  BY <1>1, <1>2, Invariance, PTL DEF Spec

\* Nobody waits for what is finished, other than those who are about to be released:
\* neither a worker that looks for it just then nor a struct that adds itself to its
\* members, who have finished nothing.
THEOREM NobodyWaitsForTheFinished == Spec => []NoEdgeToFinished
<1>1. WInv => NoEdgeToFinished
  BY DEF WInv
<1> QED  BY <1>1, WaitersInvariance, PTL

\* A SymbolProc that suspends itself has nobody waiting on it, and one that gets a waiter
\* is not suspended any more.
THEOREM SuspendedAreUnwanted == Spec => []SuspendedUnwanted
<1>1. WInv => SuspendedUnwanted
  BY DEF WInv
<1> QED  BY <1>1, WaitersInvariance, PTL

=============================================================================
