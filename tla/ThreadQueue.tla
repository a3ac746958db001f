----------------------------- MODULE ThreadQueue -----------------------------
(***************************************************************************)
(* core::ThreadQueue (PCIT_core/include/ThreadQueue.hpp): a deque of tasks *)
(* behind a spin lock, drained by detached worker threads while one owner  *)
(* thread starts them, waits for them and shuts them down.  The owner is   *)
(* the thread of Context::analyzeSemantics.                                *)
(*                                                                         *)
(* A step is one access to shared state: a load or store of an atomic, or  *)
(* a whole critical section of tasks_lock.  The owner's critical section   *)
(* in isWorking reads the workers' states one by one, so it holds the lock *)
(* over several steps; every other critical section is a single step.      *)
(*                                                                         *)
(* The definitions whose comment begins with "Mistake" are no part of the  *)
(* specification: each is what a plausible mistake would make of the one   *)
(* that follows it, and shows that a property can be broken.               *)
(***************************************************************************)
EXTENDS Integers, Sequences, FiniteSets

CONSTANTS
    NumWorkers,    \* the argument of startup()
    Task,          \* the tasks that may ever be handed to the queue
    Priority,      \* those that are handed over with addPriorityTask()
    Initial,       \* those the owner adds before startup()
    Spawns,        \* Spawns[t]: the tasks the work function adds while it runs t
    MayFail,       \* those for which the work function may return an error
    NoTask         \* std::nullopt

ASSUME NumWorkersAssumption == NumWorkers \in Nat \ {0}
ASSUME TaskAssumption ==
    /\ Priority \subseteq Task /\ Initial \subseteq Task /\ MayFail \subseteq Task
    /\ Spawns \in [Task -> SUBSET Task]
    /\ NoTask \notin Task

VARIABLES
    tasks,                \* priv.tasks, front first
    tasks_lock,           \* held by the owner across isWorking's second loop
    workers,              \* priv.workers: the workers in the vector
    num_workers_running,
    task_failed,
    working_state,        \* per worker
    stop_requested,       \* per worker: its stop token
    pc,                   \* per worker: where its thread is
    held,                 \* per worker: the task get_task() gave it
    owner,                \* where the owner is
    cursor,               \* the owner's loop index over workers
    result,               \* what the last waitUntilDoneWorking() returned
    added, completed, cleared   \* history: tasks handed over, run, thrown away

queue   == <<tasks, tasks_lock>>
pool    == <<workers, num_workers_running, stop_requested>>
local   == <<owner, cursor, result>>
history == <<added, completed, cleared>>
vars    == <<queue, pool, task_failed, working_state, pc, held, local, history>>

Worker   == 1..NumWorkers
WorkerPC == {"unborn", "top", "check", "peek", "take", "no_task", "got_task",
             "run", "signal_failed", "after_failure", "exit", "clear", "gone"}
OwnerPC  == {"setup", "emplace", "init_state", "scan", "lock", "scan_locked",
             "tasks_empty", "read_failed", "returned", "request_stop",
             "force_clear", "until_not_running", "stopped"}
WorkingState == {"WORKING", "CHECKING", "NOT_WORKING"}

\* The tasks in a deque, and the tasks workers have taken and not yet run.
Elements(s) == {s[i] : i \in DOMAIN s}
HeldTasks   == {held[w] : w \in Worker} \ {NoTask}

TypeOK ==
    /\ tasks \in Seq(Task)
    /\ tasks_lock \in BOOLEAN
    /\ workers \subseteq Worker
    /\ num_workers_running \in 0..NumWorkers
    /\ task_failed \in BOOLEAN
    /\ working_state \in [Worker -> WorkingState]
    /\ stop_requested \in [Worker -> BOOLEAN]
    /\ pc \in [Worker -> WorkerPC]
    /\ held \in [Worker -> Task \cup {NoTask}]
    /\ owner \in OwnerPC
    /\ cursor \in Worker
    /\ result \in BOOLEAN
    /\ added \subseteq Task /\ completed \subseteq Task /\ cleared \subseteq Task

Init ==
    /\ tasks = <<>> /\ tasks_lock = FALSE
    /\ workers = {} /\ num_workers_running = 0
    /\ task_failed = FALSE
    /\ working_state = [w \in Worker |-> "WORKING"]
    /\ stop_requested = [w \in Worker |-> FALSE]
    /\ pc = [w \in Worker |-> "unborn"]
    /\ held = [w \in Worker |-> NoTask]
    /\ owner = "setup" /\ cursor = 1 /\ result = FALSE
    /\ added = {} /\ completed = {} /\ cleared = {}

-----------------------------------------------------------------------------
(* The public operations on the deque, each one critical section. *)

addTask(t) == tasks' = <<t>> \o tasks

\* Mistake: the other end of the deque.
AddPriorityTaskAtFront(t) == tasks' = <<t>> \o tasks

addPriorityTask(t) == tasks' = Append(tasks, t)

\* A fresh task goes to the front, a priority task to the back, where it is
\* taken next.
Enqueue(t) ==
    /\ ~tasks_lock
    /\ t \notin added
    /\ IF t \in Priority THEN addPriorityTask(t) ELSE addTask(t)
    /\ added' = added \cup {t}

forceClearQueue ==
    /\ ~tasks_lock
    /\ tasks' = <<>>
    /\ cleared' = cleared \cup Elements(tasks)

-----------------------------------------------------------------------------
(* The worker threads. *)

Goto(w, from, to) == pc[w] = from /\ pc' = [pc EXCEPT ![w] = to]
SetState(w, s)    == working_state' = [working_state EXCEPT ![w] = s]

\* while(stop.stop_requested() == false)
Top(w) ==
    /\ Goto(w, "top", IF stop_requested[w] THEN "exit" ELSE "check")
    /\ UNCHANGED <<queue, pool, task_failed, working_state, held, local, history>>

Check(w) ==
    /\ Goto(w, "check", "peek")
    /\ SetState(w, "CHECKING")
    /\ UNCHANGED <<queue, pool, task_failed, held, local, history>>

\* get_task() first reads tasks.empty() without the lock: a data race with
\* every writer, so the read may say either.
PeekEmpty(w) ==
    /\ Goto(w, "peek", "no_task")
    /\ UNCHANGED <<queue, pool, task_failed, working_state, held, local, history>>

PeekNonEmpty(w) ==
    /\ Goto(w, "peek", "take")
    /\ UNCHANGED <<queue, pool, task_failed, working_state, held, local, history>>

\* ... and reads it again under the lock before it takes the back of the deque.
TakeNone(w) ==
    /\ ~tasks_lock
    /\ tasks = <<>>
    /\ Goto(w, "take", "no_task")
    /\ UNCHANGED <<queue, pool, task_failed, working_state, held, local, history>>

\* Mistake: back() with pop_front().
TakePopsFront(w) ==
    /\ ~tasks_lock
    /\ tasks # <<>>
    /\ Goto(w, "take", "got_task")
    /\ held' = [held EXCEPT ![w] = tasks[Len(tasks)]]
    /\ tasks' = Tail(tasks)
    /\ UNCHANGED <<tasks_lock, pool, task_failed, working_state, local, history>>

Take(w) ==
    /\ ~tasks_lock
    /\ tasks # <<>>
    /\ Goto(w, "take", "got_task")
    /\ held' = [held EXCEPT ![w] = tasks[Len(tasks)]]
    /\ tasks' = SubSeq(tasks, 1, Len(tasks) - 1)
    /\ UNCHANGED <<tasks_lock, pool, task_failed, working_state, local, history>>

FoundNone(w) ==
    /\ Goto(w, "no_task", "top")
    /\ SetState(w, "NOT_WORKING")
    /\ UNCHANGED <<queue, pool, task_failed, held, local, history>>

GotTask(w) ==
    /\ Goto(w, "got_task", "run")
    /\ SetState(w, "WORKING")
    /\ UNCHANGED <<queue, pool, task_failed, held, local, history>>

\* The work function may hand over further tasks while it runs ...
Spawn(w, t) ==
    /\ pc[w] = "run"
    /\ t \in Spawns[held[w]]
    /\ Enqueue(t)
    /\ UNCHANGED <<tasks_lock, pool, task_failed, working_state, pc, held, local,
                   completed, cleared>>

\* ... and returns success, or an error.
Finish(w) ==
    /\ Goto(w, "run", "top")
    /\ completed' = completed \cup {held[w]}
    /\ held' = [held EXCEPT ![w] = NoTask]
    /\ UNCHANGED <<queue, pool, task_failed, working_state, local, added, cleared>>

Fail(w) ==
    /\ held[w] \in MayFail
    /\ Goto(w, "run", "signal_failed")
    /\ completed' = completed \cup {held[w]}
    /\ held' = [held EXCEPT ![w] = NoTask]
    /\ UNCHANGED <<queue, pool, task_failed, working_state, local, added, cleared>>

\* Mistake: the failure is not recorded.
SignalNotRecorded(w) ==
    /\ Goto(w, "signal_failed", "after_failure")
    /\ forceClearQueue
    /\ UNCHANGED <<tasks_lock, pool, task_failed, working_state, held, local, added,
                   completed>>

signal_task_failed(w) ==
    /\ Goto(w, "signal_failed", "after_failure")
    /\ forceClearQueue
    /\ task_failed' = TRUE
    /\ UNCHANGED <<tasks_lock, pool, working_state, held, local, added, completed>>

AfterFailure(w) ==
    /\ Goto(w, "after_failure", "top")
    /\ SetState(w, "NOT_WORKING")
    /\ UNCHANGED <<queue, pool, task_failed, held, local, history>>

\* Mistake: the first worker to leave empties the vector.
ExitClearsFirst(w) ==
    /\ Goto(w, "exit", IF num_workers_running = NumWorkers THEN "clear" ELSE "gone")
    /\ num_workers_running' = num_workers_running - 1
    /\ UNCHANGED <<queue, workers, stop_requested, task_failed, working_state, held,
                   local, history>>

\* Mistake: fetch_sub() taken to return the new value.
ExitReadsNewValue(w) ==
    /\ Goto(w, "exit", IF num_workers_running = 0 THEN "clear" ELSE "gone")
    /\ num_workers_running' = num_workers_running - 1
    /\ UNCHANGED <<queue, workers, stop_requested, task_failed, working_state, held,
                   local, history>>

\* signal_worker_shutdown(): the last worker to leave empties the vector.
Exit(w) ==
    /\ Goto(w, "exit", IF num_workers_running = 1 THEN "clear" ELSE "gone")
    /\ num_workers_running' = num_workers_running - 1
    /\ UNCHANGED <<queue, workers, stop_requested, task_failed, working_state, held,
                   local, history>>

ClearWorkers(w) ==
    /\ Goto(w, "clear", "gone")
    /\ workers' = {}
    /\ UNCHANGED <<queue, num_workers_running, stop_requested, task_failed,
                   working_state, held, local, history>>

WorkerStep(w) ==
    \/ Top(w) \/ Check(w) \/ PeekEmpty(w) \/ PeekNonEmpty(w) \/ TakeNone(w) \/ Take(w)
    \/ FoundNone(w) \/ GotTask(w) \/ Finish(w) \/ Fail(w) \/ signal_task_failed(w)
    \/ AfterFailure(w) \/ Exit(w) \/ ClearWorkers(w)
    \/ \E t \in Task : Spawn(w, t)

-----------------------------------------------------------------------------
(* The owner. *)

OwnerGoto(from, to) == owner = from /\ owner' = to

AddInitial(t) ==
    /\ owner = "setup"
    /\ t \in Initial
    /\ Enqueue(t)
    /\ UNCHANGED <<tasks_lock, pool, task_failed, working_state, pc, held, local,
                   completed, cleared>>

Startup ==
    /\ Initial \subseteq added
    /\ OwnerGoto("setup", "emplace")
    /\ num_workers_running' = NumWorkers
    /\ task_failed' = FALSE
    /\ UNCHANGED <<queue, workers, stop_requested, working_state, pc, held, cursor,
                   result, history>>

\* The member `thread` is initialised before the member `working_state`, so the
\* thread already runs when the initialiser WORKING is stored (InitState).
Emplace ==
    /\ OwnerGoto("emplace", "init_state")
    /\ workers' = workers \cup {cursor}
    /\ pc' = [pc EXCEPT ![cursor] = "top"]
    /\ UNCHANGED <<queue, num_workers_running, stop_requested, task_failed,
                   working_state, held, cursor, result, history>>


\* Mistake: the owner counts one worker too many.
InitStateOffByOne ==
    /\ OwnerGoto("init_state", IF cursor = NumWorkers THEN "scan" ELSE "emplace")
    /\ SetState(cursor, "WORKING")
    /\ cursor' = cursor + 1
    /\ UNCHANGED <<queue, pool, task_failed, pc, held, result, history>>

InitState ==
    /\ OwnerGoto("init_state", IF cursor = NumWorkers THEN "scan" ELSE "emplace")
    /\ SetState(cursor, "WORKING")
    /\ cursor' = IF cursor = NumWorkers THEN 1 ELSE cursor + 1
    /\ UNCHANGED <<queue, pool, task_failed, pc, held, result, history>>

\* Mistake: a worker that looks for a task counts as working.
CheckingIsWorking(w) == working_state[w] # "NOT_WORKING"

is_working(w) == working_state[w] = "WORKING"

\* Mistake: the early return of the second loop keeps the lock.
ScanKeepsLock(here, next) ==
    /\ IF is_working(cursor)
       THEN OwnerGoto(here, "scan") /\ cursor' = 1
       ELSE /\ OwnerGoto(here, IF cursor = NumWorkers THEN next ELSE here)
            /\ cursor' = IF cursor = NumWorkers THEN 1 ELSE cursor + 1
    /\ UNCHANGED <<queue, pool, task_failed, working_state, pc, held, result, history>>

\* isWorking() reads one worker's state: a WORKING one ends it with true, and
\* waitUntilDoneWorking() calls it again; after the last one comes `next`.
Scan(here, next) ==
    /\ IF is_working(cursor)
       THEN OwnerGoto(here, "scan") /\ cursor' = 1 /\ tasks_lock' = FALSE
       ELSE /\ OwnerGoto(here, IF cursor = NumWorkers THEN next ELSE here)
            /\ cursor' = IF cursor = NumWorkers THEN 1 ELSE cursor + 1
            /\ UNCHANGED tasks_lock
    /\ UNCHANGED <<tasks, pool, task_failed, working_state, pc, held, result, history>>

ScanUnlocked == Scan("scan", "lock")

LockTasks ==
    /\ OwnerGoto("lock", "scan_locked")
    /\ ~tasks_lock /\ tasks_lock' = TRUE
    /\ UNCHANGED <<tasks, pool, task_failed, working_state, pc, held, cursor, result,
                   history>>

ScanLocked == Scan("scan_locked", "tasks_empty")

TasksEmpty ==
    /\ OwnerGoto("tasks_empty", IF tasks = <<>> THEN "read_failed" ELSE "scan")
    /\ tasks_lock' = FALSE
    /\ UNCHANGED <<tasks, pool, task_failed, working_state, pc, held, cursor, result,
                   history>>

\* return !this->taskFailed();
ReadFailed ==
    /\ OwnerGoto("read_failed", "returned")
    /\ result' = ~task_failed
    /\ UNCHANGED <<queue, pool, task_failed, working_state, pc, held, cursor, history>>

\* analyzeSemantics() asks again, or goes on to shutdown().
WaitAgain ==
    /\ OwnerGoto("returned", "scan")
    /\ UNCHANGED <<queue, pool, task_failed, working_state, pc, held, cursor, result,
                   history>>

Shutdown ==
    /\ OwnerGoto("returned", "request_stop")
    /\ UNCHANGED <<queue, pool, task_failed, working_state, pc, held, cursor, result,
                   history>>

RequestStop ==
    /\ OwnerGoto("request_stop", IF cursor = NumWorkers THEN "force_clear"
                                                        ELSE "request_stop")
    /\ stop_requested' = [stop_requested EXCEPT ![cursor] = TRUE]
    /\ cursor' = IF cursor = NumWorkers THEN 1 ELSE cursor + 1
    /\ UNCHANGED <<queue, workers, num_workers_running, task_failed, working_state, pc,
                   held, result, history>>

ForceClear ==
    /\ OwnerGoto("force_clear", "until_not_running")
    /\ forceClearQueue
    /\ UNCHANGED <<tasks_lock, pool, task_failed, working_state, pc, held, cursor,
                   result, added, completed>>

NotRunning ==
    /\ workers = {}
    /\ OwnerGoto("until_not_running", "stopped")
    /\ UNCHANGED <<queue, pool, task_failed, working_state, pc, held, cursor, result,
                   history>>

OwnerStep ==
    \/ Startup \/ Emplace \/ InitState \/ ScanUnlocked \/ LockTasks \/ ScanLocked
    \/ TasksEmpty \/ ReadFailed \/ WaitAgain \/ Shutdown \/ RequestStop \/ ForceClear
    \/ NotRunning
    \/ \E t \in Task : AddInitial(t)

-----------------------------------------------------------------------------

Next == OwnerStep \/ \E w \in Worker : WorkerStep(w)

Spec == Init /\ [][Next]_vars

\* Threads are scheduled by the operating system: each keeps taking steps.  The spin
\* lock is not taken away from the same thread for ever, and a worker that keeps
\* polling a non-empty deque does not misread it for ever.  Nothing makes the owner
\* stop waiting: analyzeSemantics() may call waitUntilDoneWorking() again and again.
Fairness ==
    /\ WF_vars(OwnerStep) /\ SF_vars(LockTasks \/ ForceClear)
    /\ \A w \in Worker :
            /\ WF_vars(WorkerStep(w))
            /\ SF_vars(PeekNonEmpty(w))
            /\ SF_vars(TakeNone(w) \/ Take(w) \/ signal_task_failed(w))

LiveSpec == Spec /\ Fairness

-----------------------------------------------------------------------------
(* Properties. *)

\* Every task handed over is in exactly one place: still in the deque, held by
\* exactly one worker, run to its end, or thrown away by a clear.  So get_task()
\* never gives a task to two workers, nothing is run twice and nothing is lost.
OnePlace ==
    /\ added = Elements(tasks) \cup HeldTasks \cup completed \cup cleared
    /\ Elements(tasks) \cap (HeldTasks \cup completed \cup cleared) = {}
    /\ HeldTasks \cap (completed \cup cleared) = {}
    /\ completed \cap cleared = {}
    /\ \A i, j \in DOMAIN tasks : tasks[i] = tasks[j] => i = j
    /\ \A v, w \in Worker : held[v] = held[w] /\ held[v] # NoTask => v = w

\* A task is thrown away only once a task has failed or shutdown() clears the deque.
ClearedOnlyOnFailureOrShutdown ==
    cleared # {} => task_failed \/ owner \in {"until_not_running", "stopped"}

\* waitUntilNotRunning() returns, and the workers vector is emptied, only after
\* every worker thread has left its loop: none of them can touch the queue or its
\* own (destroyed) Worker object any more.
QuietOnceNotRunning ==
    /\ owner = "stopped" => \A w \in Worker : pc[w] = "gone"
    /\ (\E w \in Worker : w \notin workers /\ pc[w] # "unborn") =>
            \A w \in Worker : pc[w] = "gone"

\* "returns if all tasks ran successfully" (the comment on waitUntilDoneWorking):
\* when it returned true every task handed over has run.
TrueMeansAllRan == owner = "returned" /\ result => added \subseteq completed

\* The deque is the normal tasks, newest first, then the priority tasks, newest last.
Normals(s) == Cardinality({i \in DOMAIN s : s[i] \notin Priority})
Fifo(s)    == [i \in 1..Normals(s) |-> s[Normals(s) + 1 - i]]
Lifo(s)    == SubSeq(s, Normals(s) + 1, Len(s))

Promise == INSTANCE WorkQueue WITH fifo <- Fifo(tasks), lifo <- Lifo(tasks), seen <- added

\* ThreadQueue implements WorkQueue: the order tasks come out in, with the two ways
\* to add one, is what Context::add_task_to_work_manager relies on.
ImplementsWorkQueue == Promise!Spec

ShuttingDown == owner \in {"request_stop", "force_clear", "until_not_running", "stopped"}

\* A task handed over is run, unless it is cleared or the owner shuts the queue down:
\* as long as the owner only waits, no task is left in the deque for ever.
EveryTaskSettles ==
    \A t \in Task : t \in added ~> t \in completed \cup cleared \/ ShuttingDown

\* waitUntilDoneWorking() and shutdown() come back: the owner is never left waiting
\* for workers that have no work or that have already left.
WaitReturns     == (owner = "scan") ~> (owner = "returned")
ShutdownReturns == (owner = "request_stop") ~> (owner = "stopped")
=============================================================================
