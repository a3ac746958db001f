------------------------------ MODULE SymbolProcs ------------------------------
(***************************************************************************)
(* The scheduling of symbol processes (Panther/src/symbol_proc and the     *)
(* analyze() loop of Panther/src/sema/SemanticAnalyzer.cpp).  Every symbol *)
(* of a program under compilation is a SymbolProc: a list of instructions  *)
(* that the workers of the Context's work manager run.  A SymbolProc that  *)
(* needs the declaration, definition or PIR of another waits for it, by an *)
(* edge on both sides; the one that finishes hands its waiters back to the *)
(* work manager.                                                           *)
(*                                                                         *)
(* What an instruction computes is abstracted to what the scheduling sees  *)
(* of it: the SymbolProcs it waits on, the kinds of dependency it finishes,*)
(* and its Result.  An instruction of the code that does several of these  *)
(* in a row is several instructions here.                                  *)
(*                                                                         *)
(* A step is one critical section, or one access to an atomic status.  The *)
(* work manager is a bag: ThreadQueue.tla is about its order and threads.  *)
(*                                                                         *)
(* A definition whose comment begins with "Mistake" is no part of the      *)
(* specification: it is what a plausible mistake would make of the one     *)
(* that follows it, and shows that a property can be broken.               *)
(***************************************************************************)
EXTENDS Integers, Sequences, FiniteSets

CONSTANTS
    Proc,        \* the SymbolProcs
    NoProc,
    Worker,      \* the threads of the work manager
    Program,     \* Program[p]: the instructions of p
    Later,       \* local sub-symbols and template instantiations: run by a "spawn"
    Parent,      \* the enclosing symbol whose declaration p waits for at first
    MaxErrors    \* Config::maxNumErrors

Kind == {"decl", "pir_decl", "def", "pir_def"}
Op   == {"wait", "members", "pause", "finish", "suspend", "select", "spawn",
         "error", "no_report"}

(***************************************************************************)
(* "on" is what a "wait" waits on and what a "members" adds itself to, in  *)
(* order, or the target of a "select" or "spawn"; "again" tells            *)
(* NEED_TO_WAIT from NEED_TO_WAIT_BEFORE_NEXT_INSTR.                       *)
(***************************************************************************)
Instruction == [op : Op, on : Seq(Proc \X Kind), kinds : SUBSET Kind, again : BOOLEAN]

ASSUME ProcAssumption    == NoProc \notin Proc /\ IsFiniteSet(Proc)
ASSUME WorkerAssumption  == IsFiniteSet(Worker)
ASSUME ProgramAssumption == Program \in [Proc -> Seq(Instruction)]
ASSUME TargetAssumption  ==
    \A p \in Proc : \A i \in DOMAIN Program[p] :
        Program[p][i].op \in {"select", "spawn"} => Program[p][i].on # <<>>
ASSUME LaterAssumption   == Later \subseteq Proc
ASSUME ParentAssumption  ==
    /\ Parent \in [Proc -> Proc \cup {NoProc}]
    /\ \A p \in Later : Parent[p] = NoProc
\* Symbols are nested, and in nothing that is nested in them.
ASSUME NestingAssumption ==
    \A S \in SUBSET Proc : S # {} => \E p \in S : Parent[p] \notin S
\* A struct adds itself to its own members, and before it finishes its declaration.
ASSUME MembersAssumption ==
    \A p \in Proc : \A i \in DOMAIN Program[p] : Program[p][i].op = "members" =>
        /\ \A j \in DOMAIN Program[p][i].on : Parent[Program[p][i].on[j][1]] = p
        /\ \A j \in 1..i - 1 : Program[p][j].op = "finish" => "decl" \notin Program[p][j].kinds
ASSUME MaxErrorsAssumption == MaxErrors \in Nat \ {0}

VARIABLES
    status, inst,                \* SymbolProc::status, inst_index
    waiting_for,                 \* per p: how many edges it has to each SymbolProc
    waited_on_by,                \* per p and kind: how many edges each has to it
    finished,                    \* per p: its decl_done, pir_decl_done, ...
    spawned,                     \* the SymbolProcs that exist and are to be run
    num_procs_not_done, num_procs_suspended, num_errors,
    queue,                       \* how many times p is in the work manager
    pc, job,                     \* per worker: where it is, the SymbolProc it runs
    todo,                        \* per worker: what its instruction has still to visit
    any_waiting,                 \* per worker: the local of the waiting instructions
    put,                         \* per worker: symbol_procs_to_put_in_work_queue
    target                       \* per worker: the one it is putting there

graph    == <<waiting_for, waited_on_by, finished>>
counters == <<spawned, num_procs_not_done, num_procs_suspended, num_errors>>
locals   == <<todo, any_waiting, put, target>>
vars     == <<status, inst, graph, counters, queue, pc, job, locals>>

Status   == {"WAITING", "SUSPENDED", "IN_QUEUE", "WORKING", "ERRORED", "DONE"}
WorkerPC == {"idle", "start", "run", "check", "push", "pause", "members", "release",
             "put", "cas", "errored"}

None   == [q \in Proc |-> 0]
Add(bag, q)    == [bag EXCEPT ![q] = @ + 1]
Remove(bag, q) == [bag EXCEPT ![q] = @ - 1]

isAtEnd(p)        == inst[p] > Len(Program[p])
getInstruction(p) == Program[p][inst[p]]
Runs(w, op)       == /\ pc[w] = "run"
                     /\ ~isAtEnd(job[w])
                     /\ getInstruction(job[w]).op = op

hasHitFailCondition == num_errors >= MaxErrors
allProcsDone        == num_procs_not_done = num_procs_suspended

Init ==
    /\ status = [p \in Proc |-> IF p \in Later \/ Parent[p] # NoProc THEN "WAITING"
                                                                     ELSE "IN_QUEUE"]
    /\ queue = [p \in Proc |-> IF status[p] = "IN_QUEUE" THEN 1 ELSE 0]
    /\ inst = [p \in Proc |-> 1]
    /\ waiting_for = [p \in Proc |-> [q \in Proc |-> IF q = Parent[p] THEN 1 ELSE 0]]
    /\ waited_on_by = [p \in Proc |-> [k \in Kind |->
                          [q \in Proc |-> IF k = "decl" /\ p = Parent[q] THEN 1 ELSE 0]]]
    /\ finished = [p \in Proc |-> {}]
    /\ spawned = Proc \ Later
    /\ num_procs_not_done = Cardinality(Proc \ Later)
    /\ num_procs_suspended = 0
    /\ num_errors = 0
    /\ pc = [w \in Worker |-> "idle"]
    /\ job = [w \in Worker |-> NoProc]
    /\ todo = [w \in Worker |-> <<>>]
    /\ any_waiting = [w \in Worker |-> FALSE]
    /\ put = [w \in Worker |-> {}]
    /\ target = [w \in Worker |-> NoProc]

-----------------------------------------------------------------------------
(***************************************************************************)
(* Locks.  A kind lock is held over a whole propagation; the other locks   *)
(* are held within a step, but for wait_on_if_needed_lock, which spans the *)
(* two steps of a waitOn*IfNeeded.                                         *)
(***************************************************************************)
Propagating(w, p, k) ==
    /\ pc[w] \in {"release", "put", "cas"} /\ job[w] = p
    /\ k \in getInstruction(p).kinds

waited_on_lock_free(p, k)   == \A w \in Worker : ~Propagating(w, p, k)

\* Mistake: each SymbolProc looks for a cycle under a lock of its own.
no_wait_on_if_needed_lock == TRUE

wait_on_if_needed_lock_free == \A w \in Worker : pc[w] # "push"

(***************************************************************************)
(* add_task_to_work_manager drops the task once there are too many errors. *)
(***************************************************************************)
add_task_to_work_manager(p) ==
    queue' = IF hasHitFailCondition THEN queue ELSE Add(queue, p)

unsuspend(p) ==
    /\ status' = [status EXCEPT ![p] = "IN_QUEUE"]
    /\ num_procs_suspended' = num_procs_suspended - 1
    /\ add_task_to_work_manager(p)

Goto(w, label) == pc' = [pc EXCEPT ![w] = label]

nextInstruction(w) ==
    /\ inst' = [inst EXCEPT ![job[w]] = @ + 1]
    /\ Goto(w, "run")

(***************************************************************************)
(* The task is over: it fails when there are too many errors, whoever made *)
(* them, and then the work manager drops what it has.                      *)
(***************************************************************************)
LeaveAnalyze(w) ==
    /\ Goto(w, "idle")
    /\ job' = [job EXCEPT ![w] = NoProc]
    /\ queue' = IF hasHitFailCondition THEN None ELSE queue

-----------------------------------------------------------------------------
(***************************************************************************)
(* SemanticAnalyzer::analyze(): the loop and the Results it acts on.       *)
(***************************************************************************)
Take(w, p) ==
    /\ pc[w] = "idle" /\ queue[p] > 0
    /\ queue' = Remove(queue, p)
    /\ job' = [job EXCEPT ![w] = p]
    /\ Goto(w, "start")
    /\ UNCHANGED <<status, inst, graph, counters, locals>>

Start(w) ==
    /\ pc[w] = "start"
    /\ status' = [status EXCEPT ![job[w]] = "WORKING"]
    /\ Goto(w, "run")
    /\ UNCHANGED <<inst, graph, counters, queue, job, locals>>

Done(w) ==
    /\ pc[w] = "run" /\ isAtEnd(job[w])
    /\ num_procs_not_done' = num_procs_not_done - 1
    /\ status' = [status EXCEPT ![job[w]] = "DONE"]
    /\ LeaveAnalyze(w)
    /\ UNCHANGED <<inst, graph, spawned, num_procs_suspended, num_errors, locals>>

(***************************************************************************)
(* Result::ERROR: nobody who waits on this SymbolProc is told.             *)
(***************************************************************************)
Errored(w) ==
    /\ pc[w] = "errored"
    /\ num_procs_not_done' = num_procs_not_done - 1
    /\ status' = [status EXCEPT ![job[w]] = "ERRORED"]
    /\ LeaveAnalyze(w)
    /\ UNCHANGED <<inst, graph, spawned, num_procs_suspended, num_errors, locals>>

Error(w) ==
    /\ Runs(w, "error")
    /\ num_errors' = num_errors + 1
    /\ Goto(w, "errored")
    /\ UNCHANGED <<status, inst, graph, spawned, num_procs_not_done,
                   num_procs_suspended, queue, job, locals>>

\* Mistake: the instruction is run again.
ErrorNoReportAgain(w) ==
    /\ Runs(w, "no_report")
    /\ UNCHANGED vars

ErrorNoReport(w) ==
    /\ Runs(w, "no_report")
    /\ inst' = [inst EXCEPT ![job[w]] = Len(Program[job[w]]) + 1]
    /\ UNCHANGED <<status, graph, counters, queue, pc, job, locals>>

\* Mistake: without the look at waiting_for that is there to "prevent race condition".
NeedToWaitUnchecked(w) ==
    LET p == job[w] IN
    /\ pc[w] = "pause" \/ Runs(w, "pause")
    /\ inst' = [inst EXCEPT ![p] = IF getInstruction(p).again THEN @ ELSE @ + 1]
    /\ status' = [status EXCEPT ![p] = "WAITING"]
    /\ LeaveAnalyze(w)
    /\ UNCHANGED <<graph, counters, locals>>

(***************************************************************************)
(* NEED_TO_WAIT and NEED_TO_WAIT_BEFORE_NEXT_INSTR.                        *)
(***************************************************************************)
NeedToWait(w) ==
    LET p == job[w] IN
    /\ pc[w] = "pause" \/ Runs(w, "pause")
    /\ inst' = [inst EXCEPT ![p] = IF getInstruction(p).again THEN @ ELSE @ + 1]
    /\ IF waiting_for[p] = None
         THEN Goto(w, "run") /\ UNCHANGED <<status, queue, job>>
         ELSE status' = [status EXCEPT ![p] = "WAITING"] /\ LeaveAnalyze(w)
    /\ UNCHANGED <<graph, counters, locals>>

\* Mistake: without the look at the four lists of waiters.
SuspendUnchecked(w) ==
    /\ Runs(w, "suspend")
    /\ inst' = [inst EXCEPT ![job[w]] = @ + 1]
    /\ num_procs_suspended' = num_procs_suspended + 1
    /\ status' = [status EXCEPT ![job[w]] = "SUSPENDED"]
    /\ LeaveAnalyze(w)
    /\ UNCHANGED <<graph, spawned, num_procs_not_done, num_errors, locals>>

Suspend(w) ==
    LET p == job[w] IN
    /\ Runs(w, "suspend")
    /\ inst' = [inst EXCEPT ![p] = @ + 1]
    /\ IF \E k \in Kind : waited_on_by[p][k] # None
         THEN Goto(w, "run") /\ UNCHANGED <<status, num_procs_suspended, queue, job>>
         ELSE /\ num_procs_suspended' = num_procs_suspended + 1
              /\ status' = [status EXCEPT ![p] = "SUSPENDED"]
              /\ LeaveAnalyze(w)
    /\ UNCHANGED <<graph, spawned, num_procs_not_done, num_errors, locals>>

-----------------------------------------------------------------------------
(***************************************************************************)
(* waitOn{Decl,PIRDecl,Def,PIRDef}IfNeeded and the instructions that call  *)
(* them in a loop.                                                         *)
(***************************************************************************)
Wait(w) ==
    /\ Runs(w, "wait")
    /\ todo' = [todo EXCEPT ![w] = getInstruction(job[w]).on]
    /\ any_waiting' = [any_waiting EXCEPT ![w] = FALSE]
    /\ Goto(w, "check")
    /\ UNCHANGED <<status, inst, graph, counters, queue, job, put, target>>

\* Mistake: the walk stops at the first edge it meets.
DependsOnAnything(from, to) == waiting_for[from] # None

(***************************************************************************)
(* detect_circular_dependency walks the waiting_for edges: "to" is met     *)
(* when it is in every set that the edges from "from" lead into and that   *)
(* they do not lead out of.                                                *)
(***************************************************************************)
DependsOn(from, to) ==
    \A S \in SUBSET Proc :
        (\A p \in S \cup {from}, q \in Proc : waiting_for[p][q] > 0 => q \in S) => to \in S

Circular(id, on, kind) ==
    \/ kind \in {"decl", "def"} /\ id = on
    \/ kind # "pir_decl" /\ DependsOn(on, id)

WaitCheck(w) ==
    LET on   == Head(todo[w])[1]
        kind == Head(todo[w])[2] IN
    /\ pc[w] = "check" /\ todo[w] # <<>>
    /\ wait_on_if_needed_lock_free
    /\ \/ /\ kind \in finished[on]
          /\ todo' = [todo EXCEPT ![w] = Tail(@)]
          /\ UNCHANGED <<num_errors, pc>>
       \/ /\ kind \notin finished[on] /\ status[on] = "ERRORED"
          /\ Goto(w, "errored")
          /\ UNCHANGED <<num_errors, todo>>
       \/ /\ kind \notin finished[on] /\ status[on] # "ERRORED"
          /\ Circular(job[w], on, kind)
          /\ num_errors' = num_errors + 1
          /\ Goto(w, "errored")
          /\ UNCHANGED todo
       \/ /\ kind \notin finished[on] /\ status[on] # "ERRORED"
          /\ ~Circular(job[w], on, kind)
          /\ Goto(w, "push")
          /\ UNCHANGED <<num_errors, todo>>
    /\ UNCHANGED <<status, inst, graph, spawned, num_procs_not_done,
                   num_procs_suspended, queue, job, any_waiting, put, target>>

\* Mistake: an edge that only one end knows of.
LinkOneEnd(id, on, kind) ==
    /\ waited_on_by' = [waited_on_by EXCEPT ![on][kind] = Add(@, id)]
    /\ UNCHANGED waiting_for

Link(id, on, kind) ==
    /\ waited_on_by' = [waited_on_by EXCEPT ![on][kind] = Add(@, id)]
    /\ waiting_for' = [waiting_for EXCEPT ![id] = Add(@, on)]

\* Mistake: "finished" and "errored" are not looked at again under the lock.
WaitPushUnchecked(w) ==
    LET on   == Head(todo[w])[1]
        kind == Head(todo[w])[2] IN
    /\ pc[w] = "push"
    /\ waited_on_lock_free(on, kind)
    /\ Link(job[w], on, kind)
    /\ IF status[on] = "SUSPENDED" THEN unsuspend(on)
                                   ELSE UNCHANGED <<status, num_procs_suspended, queue>>
    /\ todo' = [todo EXCEPT ![w] = Tail(@)]
    /\ any_waiting' = [any_waiting EXCEPT ![w] = TRUE]
    /\ Goto(w, "check")
    /\ UNCHANGED <<inst, finished, spawned, num_procs_not_done, num_errors, job, put,
                   target>>

WaitPush(w) ==
    LET on   == Head(todo[w])[1]
        kind == Head(todo[w])[2] IN
    /\ pc[w] = "push"
    /\ waited_on_lock_free(on, kind)
    /\ \/ /\ kind \in finished[on]
          /\ todo' = [todo EXCEPT ![w] = Tail(@)]
          /\ Goto(w, "check")
          /\ UNCHANGED <<status, waiting_for, waited_on_by, num_procs_suspended, queue,
                         any_waiting>>
       \/ /\ kind \notin finished[on] /\ status[on] = "ERRORED"
          /\ Goto(w, "errored")
          /\ UNCHANGED <<status, waiting_for, waited_on_by, num_procs_suspended, queue,
                         todo, any_waiting>>
       \/ /\ kind \notin finished[on] /\ status[on] # "ERRORED"
          /\ Link(job[w], on, kind)
          /\ IF status[on] = "SUSPENDED" THEN unsuspend(on)
                                         ELSE UNCHANGED <<status, num_procs_suspended, queue>>
          /\ todo' = [todo EXCEPT ![w] = Tail(@)]
          /\ any_waiting' = [any_waiting EXCEPT ![w] = TRUE]
          /\ Goto(w, "check")
    /\ UNCHANGED <<inst, finished, spawned, num_procs_not_done, num_errors, job, put,
                   target>>

(***************************************************************************)
(* The end of the loop: shouldContinueRunning().                           *)
(***************************************************************************)
WaitEnd(w) ==
    /\ pc[w] = "check" /\ todo[w] = <<>>
    /\ IF any_waiting[w] /\ waiting_for[job[w]] # None
         THEN Goto(w, "pause") /\ UNCHANGED inst
         ELSE nextInstruction(w)
    /\ UNCHANGED <<status, graph, counters, queue, job, locals>>

(***************************************************************************)
(* A struct declaration adds itself to the waiters of its members, with    *)
(* neither the wait_on_if_needed_lock nor a search for a cycle.            *)
(***************************************************************************)
Members(w) ==
    /\ Runs(w, "members")
    /\ todo' = [todo EXCEPT ![w] = getInstruction(job[w]).on]
    /\ Goto(w, "members")
    /\ UNCHANGED <<status, inst, graph, counters, queue, job, any_waiting, put, target>>

AddToMember(w) ==
    LET on   == Head(todo[w])[1]
        kind == Head(todo[w])[2] IN
    /\ pc[w] = "members" /\ todo[w] # <<>>
    /\ waited_on_lock_free(on, kind)
    /\ Link(job[w], on, kind)
    /\ todo' = [todo EXCEPT ![w] = Tail(@)]
    /\ UNCHANGED <<status, inst, finished, counters, queue, pc, job, any_waiting, put,
                   target>>

MembersEnd(w) ==
    /\ pc[w] = "members" /\ todo[w] = <<>>
    /\ nextInstruction(w)
    /\ UNCHANGED <<status, graph, counters, queue, job, locals>>

-----------------------------------------------------------------------------
(***************************************************************************)
(* propagate_finished_{decl,def,decl_def,pir_decl,pir_def}.  The list of   *)
(* waiters cannot change while its lock is held: an edge leaves both ends  *)
(* here at once, although the list is cleared only after the loop.         *)
(***************************************************************************)
Finish(w) ==
    /\ Runs(w, "finish")
    /\ finished' = [finished EXCEPT ![job[w]] = @ \cup getInstruction(job[w]).kinds]
    /\ put' = [put EXCEPT ![w] = {}]
    /\ Goto(w, "release")
    /\ UNCHANGED <<status, inst, waiting_for, waited_on_by, counters, queue, job, todo,
                   any_waiting, target>>

Release(w, k, q) ==
    LET p == job[w] IN
    /\ pc[w] = "release" /\ k \in getInstruction(p).kinds
    /\ waited_on_by[p][k][q] > 0
    /\ waited_on_by' = [waited_on_by EXCEPT ![p][k] = Remove(@, q)]
    /\ waiting_for' = [waiting_for EXCEPT ![q] = Remove(@, p)]
    /\ put' = IF waiting_for'[q] = None THEN [put EXCEPT ![w] = @ \cup {q}] ELSE put
    /\ UNCHANGED <<status, inst, finished, counters, queue, pc, job, todo, any_waiting,
                   target>>

ReleaseEnd(w) ==
    /\ pc[w] = "release"
    /\ \A k \in getInstruction(job[w]).kinds : waited_on_by[job[w]][k] = None
    /\ Goto(w, "put")
    /\ UNCHANGED <<status, inst, graph, counters, queue, job, locals>>

(***************************************************************************)
(* put_propogated_symbol_procs_into_work_queue takes no lock of the waiter *)
(* and reads its status once here and once, by a compare-exchange, below.  *)
(***************************************************************************)
PutLook(w, q) ==
    /\ pc[w] = "put" /\ q \in put[w]
    /\ IF status[q] \in {"ERRORED", "WORKING"}
         THEN put' = [put EXCEPT ![w] = @ \ {q}] /\ UNCHANGED <<pc, target>>
         ELSE Goto(w, "cas") /\ target' = [target EXCEPT ![w] = q] /\ UNCHANGED put
    /\ UNCHANGED <<status, inst, graph, counters, queue, job, todo, any_waiting>>

\* Mistake: a store instead of the compare-exchange.
setStatusInQueueAlways(w) ==
    /\ pc[w] = "cas"
    /\ status' = [status EXCEPT ![target[w]] = "IN_QUEUE"]
    /\ add_task_to_work_manager(target[w])
    /\ put' = [put EXCEPT ![w] = @ \ {target[w]}]
    /\ Goto(w, "put")
    /\ UNCHANGED <<inst, graph, counters, job, todo, any_waiting, target>>

setStatusInQueueIfNotAlreadyDone(w) ==
    LET q == target[w] IN
    /\ pc[w] = "cas"
    /\ IF status[q] = "WAITING"
         THEN /\ status' = [status EXCEPT ![q] = "IN_QUEUE"]
              /\ add_task_to_work_manager(q)
         ELSE UNCHANGED <<status, queue>>
    /\ put' = [put EXCEPT ![w] = @ \ {q}]
    /\ Goto(w, "put")
    /\ UNCHANGED <<inst, graph, counters, job, todo, any_waiting, target>>

PutEnd(w) ==
    /\ pc[w] = "put" /\ put[w] = {}
    /\ nextInstruction(w)
    /\ UNCHANGED <<status, graph, counters, queue, job, locals>>

-----------------------------------------------------------------------------
(***************************************************************************)
(* unsuspend_template_func_if_needed: the overload that was selected.      *)
(***************************************************************************)
Select(w) ==
    LET p == getInstruction(job[w]).on[1][1] IN
    /\ Runs(w, "select")
    /\ IF status[p] = "SUSPENDED" THEN unsuspend(p)
                                  ELSE UNCHANGED <<status, num_procs_suspended, queue>>
    /\ nextInstruction(w)
    /\ UNCHANGED <<graph, spawned, num_procs_not_done, num_errors, job, locals>>

(***************************************************************************)
(* A sub-symbol, or the first to look up a template instantiation.         *)
(***************************************************************************)
Spawn(w) ==
    LET p == getInstruction(job[w]).on[1][1] IN
    /\ Runs(w, "spawn")
    /\ IF p \in spawned
         THEN UNCHANGED <<status, counters, queue>>
         ELSE /\ spawned' = spawned \cup {p}
              /\ num_procs_not_done' = num_procs_not_done + 1
              /\ status' = [status EXCEPT ![p] = "IN_QUEUE"]
              /\ add_task_to_work_manager(p)
              /\ UNCHANGED <<num_procs_suspended, num_errors>>
    /\ nextInstruction(w)
    /\ UNCHANGED <<graph, job, locals>>

-----------------------------------------------------------------------------
WorkerStep(w) ==
    \/ \E p \in Proc : Take(w, p)
    \/ Start(w) \/ Done(w) \/ Errored(w) \/ Error(w) \/ ErrorNoReport(w)
    \/ NeedToWait(w) \/ Suspend(w)
    \/ Wait(w) \/ WaitCheck(w) \/ WaitPush(w) \/ WaitEnd(w)
    \/ Members(w) \/ AddToMember(w) \/ MembersEnd(w)
    \/ Finish(w) \/ ReleaseEnd(w) \/ PutEnd(w)
    \/ \E q \in Proc : \E k \in Kind : Release(w, k, q)
    \/ \E q \in Proc : PutLook(w, q)
    \/ setStatusInQueueIfNotAlreadyDone(w)
    \/ Select(w) \/ Spawn(w)

Next == \E w \in Worker : WorkerStep(w)

Spec == Init /\ [][Next]_vars

\* Every thread keeps running.
LiveSpec == Spec /\ \A w \in Worker : WF_vars(WorkerStep(w))

-----------------------------------------------------------------------------
(***************************************************************************)
(* What some of the properties below ask of the program.                   *)
(***************************************************************************)
\* Instruction i of p waits for k of q, adds p to the waiters for k of its member q,
\* finishes k of p, has q run.
WaitsAt(p, i, q, k) ==
    Program[p][i].op = "wait" /\ \E d \in DOMAIN Program[p][i].on : Program[p][i].on[d] = <<q, k>>
AddsAt(p, i, q, k) ==
    Program[p][i].op = "members" /\ \E d \in DOMAIN Program[p][i].on : Program[p][i].on[d] = <<q, k>>
FinishesAt(p, i, k) == Program[p][i].op = "finish" /\ k \in Program[p][i].kinds
SpawnsAt(p, i, q)   == Program[p][i].op = "spawn" /\ Program[p][i].on[1][1] = q

\* p gets to instruction i, unless it fails with an error.
Reaches(p, i) == \A j \in 1..i : Program[p][j].op # "no_report"

\* Every wait is looked at for a cycle: "pir_decl" is the kind that is not, and a
\* function leaves itself out of those whose PIR it waits for.
CyclesAreLookedFor ==
    \A p \in Proc : \A i \in DOMAIN Program[p] :
        /\ Program[p][i].op # "members"
        /\ \A q \in Proc, k \in Kind :
               WaitsAt(p, i, q, k) => k # "pir_decl" /\ (k = "pir_def" => q # p)

\* What is waited for is run, and finishes what it is waited for or fails with an error.
WaitsAreMet ==
    LET Met(q, k) == \E j \in DOMAIN Program[q] :
                         Reaches(q, j) /\ (FinishesAt(q, j, k) \/ Program[q][j].op = "error")
    IN \A p \in Proc :
           /\ Parent[p] # NoProc => Met(Parent[p], "decl") /\ Parent[p] \notin Later
           /\ \A i \in DOMAIN Program[p], q \in Proc, k \in Kind : WaitsAt(p, i, q, k) =>
                  /\ Met(q, k)
                  /\ q \in Later => \E j \in 1..i - 1 : SpawnsAt(p, j, q) /\ Reaches(p, j)

(***************************************************************************)
(* The SymbolProcs can all finish, and in the order of rank: what an       *)
(* instruction waits for is finished by an instruction of a lower rank.  A *)
(* struct waits for its members from where it has finished its declaration.*)
(***************************************************************************)
Feasible(rank) ==
    LET Before(q, k, p, i) ==
            \E j \in DOMAIN Program[q] : FinishesAt(q, j, k) /\ rank[q][j] < rank[p][i]
    IN /\ rank \in [Proc -> Seq(Nat)]
       /\ \A p \in Proc :
              /\ Len(rank[p]) = Len(Program[p]) + 1
              /\ \A i, j \in DOMAIN rank[p] : i <= j => rank[p][i] <= rank[p][j]
              /\ Parent[p] # NoProc => Before(Parent[p], "decl", p, 1) /\ Parent[p] \notin Later
       /\ \A p \in Proc : \A i \in DOMAIN Program[p] :
              /\ Program[p][i].op \notin {"error", "no_report"}
              /\ \A j \in DOMAIN Program[p], k \in Kind :
                     FinishesAt(p, i, k) /\ FinishesAt(p, j, k) => i = j
              /\ \A q \in Proc, k \in Kind :
                     /\ WaitsAt(p, i, q, k) => Before(q, k, p, i)
                     /\ WaitsAt(p, i, q, k) /\ q \in Later => \E j \in 1..i - 1 : SpawnsAt(p, j, q)
                     /\ AddsAt(p, i, q, k) => /\ i + 1 \in DOMAIN Program[p]
                                              /\ FinishesAt(p, i + 1, "decl")
                                              /\ Before(q, k, p, i + 2)

-----------------------------------------------------------------------------
(* Properties *)

TypeOK ==
    /\ status \in [Proc -> Status]
    /\ inst \in [Proc -> Nat \ {0}]
    /\ waiting_for \in [Proc -> [Proc -> Nat]]
    /\ waited_on_by \in [Proc -> [Kind -> [Proc -> Nat]]]
    /\ finished \in [Proc -> SUBSET Kind]
    /\ spawned \subseteq Proc
    /\ num_procs_not_done \in Int /\ num_procs_suspended \in Int /\ num_errors \in Nat
    /\ queue \in [Proc -> Nat]
    /\ pc \in [Worker -> WorkerPC]
    /\ job \in [Worker -> Proc \cup {NoProc}]
    /\ todo \in [Worker -> Seq(Proc \X Kind)]
    /\ any_waiting \in [Worker -> BOOLEAN]
    /\ put \in [Worker -> SUBSET Proc]
    /\ target \in [Worker -> Proc \cup {NoProc}]

Quiet == queue = None /\ \A w \in Worker : pc[w] = "idle"

(***************************************************************************)
(* A SymbolProc has no lock of its own for its instructions and results:   *)
(* it is in the work manager or run by a worker, at most once in all, and  *)
(* its status says which.                                                  *)
(***************************************************************************)
OneRunner ==
    /\ \A v, w \in Worker : job[v] = job[w] /\ job[v] # NoProc => v = w
    /\ \A p \in Proc : queue[p] <= 1
    /\ \A p \in Proc : queue[p] = 1 =>
           status[p] = "IN_QUEUE" /\ \A w \in Worker : job[w] # p
    /\ \A w \in Worker : job[w] # NoProc =>
           status[job[w]] = IF pc[w] = "start" THEN "IN_QUEUE" ELSE "WORKING"

(***************************************************************************)
(* The two ends of the edges agree, whoever adds and removes them: so the  *)
(* list a waiter is removed from is never empty ("Should never have empty  *)
(* list") and has the edge that is removed.                                *)
(***************************************************************************)
EdgesMatch ==
    \A p, q \in Proc :
        waiting_for[q][p] = waited_on_by[p]["decl"][q] + waited_on_by[p]["pir_decl"][q]
                            + waited_on_by[p]["def"][q] + waited_on_by[p]["pir_def"][q]

(***************************************************************************)
(* Nobody waits for what is done: an edge of a kind that is finished is    *)
(* one that the propagation of that kind has still to remove.              *)
(***************************************************************************)
NoEdgeToFinished ==
    \A p, q \in Proc : \A k \in finished[p] :
        waited_on_by[p][k][q] > 0 => \E w \in Worker : pc[w] = "release"
                                                       /\ Propagating(w, p, k)

(***************************************************************************)
(* No lost wakeup: a SymbolProc that waits for nothing is about to be put  *)
(* into the work manager by the one that removed its last edge.            *)
(***************************************************************************)
NoLostWakeup ==
    \A p \in spawned : status[p] = "WAITING" /\ waiting_for[p] = None =>
        \E w \in Worker : pc[w] \in {"release", "put", "cas"} /\ p \in put[w]

(***************************************************************************)
(* A SymbolProc stays suspended only while nobody waits on it.             *)
(***************************************************************************)
SuspendedUnwanted ==
    \A p \in Proc : status[p] = "SUSPENDED" => \A k \in Kind : waited_on_by[p][k] = None

(***************************************************************************)
(* When the work is over with no error, every SymbolProc that is to be run *)
(* is done or suspended: else analyzeSemantics() reports a stall.          *)
(***************************************************************************)
NoStall == Quiet /\ num_errors = 0 => allProcsDone

(***************************************************************************)
(* The same when errors have been reported but not too many of them: one   *)
(* that is not done is left waiting only because of an error in one it     *)
(* depends on.                                                             *)
(***************************************************************************)
LeftForAReason ==
    Quiet /\ ~hasHitFailCondition =>
        \A p \in spawned :
            \/ status[p] \in {"DONE", "SUSPENDED", "ERRORED"}
            \/ \E q \in Proc : status[q] = "ERRORED" /\ DependsOn(p, q)

(***************************************************************************)
(* Two workers that look for a cycle at the same time do not both miss it: *)
(* nobody waits for itself.  (For programs without "members", whose edges  *)
(* do make such a cycle for a time, and without "pir_decl".)               *)
(***************************************************************************)
NoWaitCycle == \A p \in Proc : ~DependsOn(p, p)

(***************************************************************************)
(* A program whose SymbolProcs can all finish is never rejected: no cycle  *)
(* is reported but a real one.  (For programs with no error of their own.) *)
(***************************************************************************)
NoFalseError == num_errors = 0

(***************************************************************************)
(* A template function that a caller has selected is analysed: the caller  *)
(* is lowered to a call of it.                                             *)
(***************************************************************************)
SelectedIsAnalyzed ==
    Quiet /\ num_errors = 0 =>
        \A p \in Proc : \A i \in 1..Len(Program[p]) :
            i < inst[p] /\ Program[p][i].op = "select" =>
                status[Program[p][i].on[1][1]] # "SUSPENDED"

(***************************************************************************)
(* The workers come to rest, and not at a stall: each SymbolProc is done   *)
(* or suspended, or an error has been reported.                            *)
(***************************************************************************)
ComesToRest == <>[](Quiet /\ (allProcsDone \/ num_errors > 0))

=============================================================================
