------------------------------ MODULE ThreadPool ------------------------------
(***************************************************************************)
(* core::ThreadPool (PCIT_core/include/ThreadPool.hpp): a fixed batch of   *)
(* tasks is split into one interval of indices per worker; a worker whose  *)
(* interval is used up steals from the far end of the others'.  The        *)
(* Context gives a pool one batch and shuts it down; pir::PassManager      *)
(* gives the same pool one batch per pass group.                           *)
(*                                                                         *)
(* A step is one access to a shared atomic or one critical section of an   *)
(* index_lock.  The owner is the thread that calls the pool.               *)
(*                                                                         *)
(* A definition whose comment begins with "Mistake" is no part of the      *)
(* specification: it is what a plausible mistake would make of the one     *)
(* that follows it, and shows that a property can be broken.               *)
(***************************************************************************)
EXTENDS Integers, Sequences, FiniteSets

CONSTANTS
    NumWorkers,    \* the argument of startup()
    Batches,       \* Batches[k]: the number of tasks of the k-th call of work()
    MayFail,       \* <<k, i>>: task i of batch k, whose work function may fail
    Wrap,          \* the uint32_t counters are modulo this (2^32 in the code)
    NoTask         \* the nullptr of get_task() and externally_steal_task()

ASSUME NumWorkersAssumption == NumWorkers \in Nat \ {0}
ASSUME BatchesAssumption == Batches \in Seq(Nat \ {0}) /\ Batches # <<>>
\* The Context's tasks may fail, but it gives a pool one batch; PassManager gives several,
\* but its work functions do not fail.
ASSUME MayFailAssumption == \A f \in MayFail : f[1] = Len(Batches)
ASSUME WrapAssumption == Wrap \in Nat /\ Wrap > NumWorkers
ASSUME NoTaskAssumption == NoTask \notin Nat

VARIABLES
    mode, current_index, end_index,          \* per worker
    max_num_working, num_running, num_working, num_stealing, errored,
    stop_requested,                          \* per worker: its stop token
    pc, task, stolen,                        \* per worker: its thread, task in hand
    target, failed_to_steal,                 \* per worker: the steal loop's locals
    to_tell,                                 \* per worker: signal_worker_errored()'s loop
    owner, batch, next_worker, result,
    runs, any_failed                         \* history of the batch

share    == <<current_index, end_index>>
counters == <<num_working, num_stealing, errored>>
locals   == <<task, stolen, target, failed_to_steal, to_tell>>
ownervars == <<max_num_working, stop_requested, owner, batch, next_worker, result>>
history  == <<runs, any_failed>>
vars     == <<mode, share, counters, num_running, pc, locals, ownervars, history>>

Worker   == 0..NumWorkers - 1
NumTasks == Batches[batch]
Task     == 0..NumTasks - 1
Mode     == {"WAITING", "READY_TO_START", "WORKING", "STEALING", "TOLD_TO_STOP_WORKING"}
WorkerPC == {"top", "mode", "ready", "get_task", "to_stealing", "inc_stealing", "run",
             "steal_cond", "steal_mode", "steal", "stop", "dec", "err_stop", "err_dec",
             "err_signal", "err_tell", "exited"}
OwnerPC  == {"work", "start", "max", "go", "wait", "read_errored", "returned", "stop",
             "until_not_running", "done"}

TypeOK ==
    /\ mode \in [Worker -> Mode]
    /\ current_index \in [Worker -> Nat] /\ end_index \in [Worker -> Nat]
    /\ max_num_working \in 0..NumWorkers /\ num_running \in 0..NumWorkers
    /\ num_working \in 0..Wrap - 1 /\ num_stealing \in 0..NumWorkers
    /\ errored \in BOOLEAN /\ stop_requested \in [Worker -> BOOLEAN]
    /\ pc \in [Worker -> WorkerPC]
    /\ task \in [Worker -> Nat \cup {NoTask}] /\ stolen \in [Worker -> BOOLEAN]
    /\ target \in [Worker -> Worker] /\ failed_to_steal \in [Worker -> 0..NumWorkers]
    /\ to_tell \in [Worker -> Worker]
    /\ owner \in OwnerPC /\ batch \in DOMAIN Batches /\ next_worker \in Worker
    /\ result \in BOOLEAN
    /\ runs \in [Task -> Nat] /\ any_failed \in BOOLEAN

\* After startup(): the workers wait, the owner is about to call work().
Init ==
    /\ mode = [w \in Worker |-> "WAITING"]
    /\ current_index = [w \in Worker |-> 0] /\ end_index = [w \in Worker |-> 0]
    /\ max_num_working = 0 /\ num_running = NumWorkers
    /\ num_working = 0 /\ num_stealing = 0 /\ errored = FALSE
    /\ stop_requested = [w \in Worker |-> FALSE]
    /\ pc = [w \in Worker |-> "top"]
    /\ task = [w \in Worker |-> NoTask] /\ stolen = [w \in Worker |-> FALSE]
    /\ target = [w \in Worker |-> 0] /\ failed_to_steal = [w \in Worker |-> 0]
    /\ to_tell = [w \in Worker |-> 0]
    /\ owner = "work" /\ batch = 1 /\ next_worker = 0 /\ result = FALSE
    /\ runs = [i \in Task |-> 0] /\ any_failed = FALSE

isWorking == num_working > 0
isRunning == num_running > 0

-----------------------------------------------------------------------------
(* The worker threads: thread_func(). *)

Goto(w, from, to) == pc[w] = from /\ pc' = [pc EXCEPT ![w] = to]
Set(f, w, v)      == [f EXCEPT ![w] = v]

Top(w) ==
    /\ ~stop_requested[w]
    /\ Goto(w, "top", "mode")
    /\ UNCHANGED <<mode, share, counters, num_running, locals, ownervars, history>>

signal_worker_stopped_running(w) ==
    /\ stop_requested[w]
    /\ Goto(w, "top", "exited")
    /\ num_running' = num_running - 1
    /\ UNCHANGED <<mode, share, counters, locals, ownervars, history>>

\* switch(this->mode.load())
Dispatch(w) ==
    /\ Goto(w, "mode", CASE mode[w] = "WAITING" -> "top"
                         [] mode[w] = "READY_TO_START" -> "ready"
                         [] mode[w] = "WORKING" -> "get_task"
                         [] mode[w] = "STEALING" -> "steal_cond"
                         [] mode[w] = "TOLD_TO_STOP_WORKING" -> "stop")
    /\ target' = Set(target, w, 0)
    /\ failed_to_steal' = Set(failed_to_steal, w, 0)
    /\ UNCHANGED <<mode, share, counters, num_running, task, stolen, to_tell, ownervars,
                   history>>

\* Nothing but its own worker takes a mode out of READY_TO_START, and isWorking()
\* stays true until that worker stops, so the load and the store are one step.
Ready(w) ==
    /\ Goto(w, "ready", "top")
    /\ mode' = IF isWorking THEN Set(mode, w, "WORKING") ELSE mode
    /\ UNCHANGED <<share, counters, num_running, locals, ownervars, history>>

get_task(w) ==
    /\ current_index[w] < end_index[w]
    /\ Goto(w, "get_task", "run")
    /\ task' = Set(task, w, current_index[w])
    /\ stolen' = Set(stolen, w, FALSE)
    /\ current_index' = Set(current_index, w, current_index[w] + 1)
    /\ UNCHANGED <<mode, end_index, counters, num_running, target, failed_to_steal, to_tell,
                   ownervars, history>>

NoMoreTasks(w) ==
    /\ current_index[w] >= end_index[w]
    /\ Goto(w, "get_task", "to_stealing")
    /\ UNCHANGED <<mode, share, counters, num_running, locals, ownervars, history>>

\* A store, not a compare-exchange: it may overwrite TOLD_TO_STOP_WORKING.
ToStealing(w) ==
    /\ Goto(w, "to_stealing", "inc_stealing")
    /\ mode' = Set(mode, w, "STEALING")
    /\ UNCHANGED <<share, counters, num_running, locals, ownervars, history>>

\* Mistake: a thief does not count as working.
IncStealingUncounts(w) ==
    /\ Goto(w, "inc_stealing", "top")
    /\ num_stealing' = num_stealing + 1
    /\ num_working' = (num_working - 1) % Wrap
    /\ UNCHANGED <<mode, share, errored, num_running, locals, ownervars, history>>

IncStealing(w) ==
    /\ Goto(w, "inc_stealing", "top")
    /\ num_stealing' = num_stealing + 1
    /\ UNCHANGED <<mode, share, num_working, errored, num_running, locals, ownervars, history>>

\* while(num_stealing < max_num_working)
StealCond(w) ==
    /\ Goto(w, "steal_cond", IF num_stealing < max_num_working THEN "steal_mode" ELSE "stop")
    /\ UNCHANGED <<mode, share, counters, num_running, locals, ownervars, history>>

NextTarget(w) == IF target[w] + 1 >= max_num_working THEN 0 ELSE target[w] + 1

\* Mistake: no end to the rounds.
FailedToStealAgain(w, here) ==
    /\ Goto(w, here, "steal_cond")
    /\ failed_to_steal' = Set(failed_to_steal, w, failed_to_steal[w] + 1)
    /\ target' = Set(target, w, NextTarget(w))
    /\ UNCHANGED <<mode, share, counters, num_running, task, stolen, to_tell, ownervars,
                   history>>

\* Nothing to steal from this target: the next one, or give up after a full round.
FailedToSteal(w, here) ==
    /\ Goto(w, here, IF failed_to_steal[w] + 1 >= max_num_working THEN "stop"
                                                                 ELSE "steal_cond")
    /\ failed_to_steal' = Set(failed_to_steal, w, failed_to_steal[w] + 1)
    /\ target' = Set(target, w, NextTarget(w))
    /\ UNCHANGED <<mode, share, counters, num_running, task, stolen, to_tell, ownervars,
                   history>>

TargetNotWorking(w) ==
    /\ mode[target[w]] # "WORKING"
    /\ FailedToSteal(w, "steal_mode")

TargetWorking(w) ==
    /\ mode[target[w]] = "WORKING"
    /\ Goto(w, "steal_mode", "steal")
    /\ UNCHANGED <<mode, share, counters, num_running, locals, ownervars, history>>

\* Mistake: the decrement of the end is lost.
StealKeepsEnd(w) ==
    LET t == target[w] IN
    /\ current_index[t] < end_index[t]
    /\ Goto(w, "steal", "run")
    /\ task' = Set(task, w, end_index[t] - 1)
    /\ stolen' = Set(stolen, w, TRUE)
    /\ failed_to_steal' = Set(failed_to_steal, w, 0)
    /\ target' = Set(target, w, NextTarget(w))
    /\ UNCHANGED <<mode, share, counters, num_running, to_tell, ownervars, history>>

\* Without the target's mode: it may have stopped working since it was looked at.
externally_steal_task(w) ==
    LET t == target[w] IN
    /\ current_index[t] < end_index[t]
    /\ Goto(w, "steal", "run")
    /\ end_index' = Set(end_index, t, end_index[t] - 1)
    /\ task' = Set(task, w, end_index[t] - 1)
    /\ stolen' = Set(stolen, w, TRUE)
    /\ failed_to_steal' = Set(failed_to_steal, w, 0)
    /\ target' = Set(target, w, NextTarget(w))
    /\ UNCHANGED <<mode, current_index, counters, num_running, to_tell, ownervars, history>>

TargetDone(w) ==
    /\ current_index[target[w]] >= end_index[target[w]]
    /\ FailedToSteal(w, "steal")

\* The work function returns: back to the loop the task was taken in ...
Ran(w, to) ==
    /\ Goto(w, "run", to)
    /\ runs' = [runs EXCEPT ![task[w]] = @ + 1]
    /\ task' = Set(task, w, NoTask)
    /\ UNCHANGED <<mode, share, counters, num_running, stolen, target, failed_to_steal, to_tell,
                   ownervars>>

BackToLoop(w) == IF stolen[w] THEN "steal_cond" ELSE "top"

Succeed(w) ==
    /\ Ran(w, BackToLoop(w))
    /\ UNCHANGED any_failed

\* ... after task_errored() if it failed.
Fail(w) ==
    /\ <<batch, task[w]>> \in MayFail
    /\ Ran(w, "err_stop")
    /\ any_failed' = TRUE

\* Mistake: every stop is signalled.
StopAlwaysSignals(w, here, dec, after) ==
    /\ Goto(w, here, dec)
    /\ mode' = Set(mode, w, "WAITING")
    /\ UNCHANGED <<share, counters, num_running, locals, ownervars, history>>

\* Mistake: a thief that stops is not signalled.
StopForgetsThieves(w, here, dec, after) ==
    /\ Goto(w, here, IF mode[w] = "WORKING" THEN dec ELSE after)
    /\ mode' = Set(mode, w, "WAITING")
    /\ UNCHANGED <<share, counters, num_running, locals, ownervars, history>>

\* stop_working(): the exchange, and the decrement if the worker was not waiting.
stop_working(w, here, dec, after) ==
    /\ Goto(w, here, IF mode[w] = "WAITING" THEN after ELSE dec)
    /\ mode' = Set(mode, w, "WAITING")
    /\ UNCHANGED <<share, counters, num_running, locals, ownervars, history>>

signal_worker_stopped_working(w, here, after) ==
    /\ Goto(w, here, after)
    /\ num_working' = (num_working - 1) % Wrap
    /\ UNCHANGED <<mode, share, num_stealing, errored, num_running, locals, ownervars, history>>

Stop(w)    == stop_working(w, "stop", "dec", "top")
Dec(w)     == signal_worker_stopped_working(w, "dec", "top")
ErrStop(w) == stop_working(w, "err_stop", "err_dec", "err_signal")
ErrDec(w)  == signal_worker_stopped_working(w, "err_dec", "err_signal")

\* signal_worker_errored(): the first to fail tells everyone to stop.
ErrSignal(w) ==
    /\ Goto(w, "err_signal", IF errored THEN BackToLoop(w) ELSE "err_tell")
    /\ errored' = TRUE
    /\ to_tell' = Set(to_tell, w, 0)
    /\ UNCHANGED <<mode, share, num_working, num_stealing, num_running, task, stolen, target,
                   failed_to_steal, ownervars, history>>

\* tell_to_stop_working(): a worker that has not started, or has stopped, is left alone.
ErrTell(w) ==
    LET v == to_tell[w] IN
    /\ Goto(w, "err_tell", IF v = NumWorkers - 1 THEN BackToLoop(w) ELSE "err_tell")
    /\ mode' = IF mode[v] \in {"WORKING", "STEALING"}
               THEN Set(mode, v, "TOLD_TO_STOP_WORKING") ELSE mode
    /\ to_tell' = Set(to_tell, w, (v + 1) % NumWorkers)
    /\ UNCHANGED <<share, counters, num_running, task, stolen, target, failed_to_steal,
                   ownervars, history>>

WorkerStep(w) ==
    \/ Top(w) \/ signal_worker_stopped_running(w) \/ Dispatch(w) \/ Ready(w)
    \/ get_task(w) \/ NoMoreTasks(w) \/ ToStealing(w) \/ IncStealing(w)
    \/ StealCond(w) \/ TargetNotWorking(w) \/ TargetWorking(w)
    \/ externally_steal_task(w) \/ TargetDone(w)
    \/ Succeed(w) \/ Fail(w) \/ Stop(w) \/ Dec(w)
    \/ ErrStop(w) \/ ErrDec(w) \/ ErrSignal(w) \/ ErrTell(w)

-----------------------------------------------------------------------------
(* The owner. *)

OwnerGoto(from, to) == owner = from /\ owner' = to

\* work() with fewer tasks than workers starts one worker per task; otherwise every
\* worker gets an equal share, the first ones one more.
Starts == IF NumWorkers > NumTasks THEN 0..NumTasks - 1 ELSE Worker

\* Mistake: the remainder is nobody's.
ShareStartEven(i) == i * (NumTasks \div NumWorkers)

ShareStart(i) ==
    LET rest == NumTasks % NumWorkers
    IN  i * (NumTasks \div NumWorkers) + (IF i < rest THEN i ELSE rest)

Work ==
    /\ OwnerGoto("work", "start")
    /\ errored' = FALSE /\ num_stealing' = 0
    /\ next_worker' = 0
    /\ UNCHANGED <<mode, share, num_working, num_running, pc, locals, max_num_working,
                   stop_requested, batch, result, history>>

start_working ==
    /\ next_worker \in Starts
    /\ OwnerGoto("start", IF next_worker + 1 \in Starts THEN "start" ELSE "max")
    /\ current_index' = Set(current_index, next_worker, ShareStart(next_worker))
    /\ end_index' = Set(end_index, next_worker, ShareStart(next_worker + 1))
    /\ mode' = Set(mode, next_worker, "READY_TO_START")
    /\ next_worker' = (next_worker + 1) % NumWorkers
    /\ UNCHANGED <<counters, num_running, pc, locals, max_num_working, stop_requested, batch,
                   result, history>>

SetMax ==
    /\ OwnerGoto("max", "go")
    /\ max_num_working' = Cardinality(Starts)
    /\ UNCHANGED <<mode, share, counters, num_running, pc, locals, stop_requested, batch,
                   next_worker, result, history>>

\* "setting num_working MUST be the last line": it starts the workers.
Go ==
    /\ OwnerGoto("go", "wait")
    /\ num_working' = max_num_working
    /\ UNCHANGED <<mode, share, num_stealing, errored, num_running, pc, locals, max_num_working,
                   stop_requested, batch, next_worker, result, history>>

DoneWorking ==
    /\ ~isWorking
    /\ OwnerGoto("wait", "read_errored")
    /\ UNCHANGED <<mode, share, counters, num_running, pc, locals, max_num_working,
                   stop_requested, batch, next_worker, result, history>>

ReadErrored ==
    /\ OwnerGoto("read_errored", "returned")
    /\ result' = ~errored
    /\ UNCHANGED <<mode, share, counters, num_running, pc, locals, max_num_working,
                   stop_requested, batch, next_worker, history>>

\* The next pass group's batch.
NextBatch ==
    /\ batch < Len(Batches)
    /\ OwnerGoto("returned", "work")
    /\ batch' = batch + 1
    /\ runs' = [i \in 0..Batches[batch + 1] - 1 |-> 0]
    /\ any_failed' = FALSE
    /\ UNCHANGED <<mode, share, counters, num_running, pc, locals, max_num_working,
                   stop_requested, next_worker, result>>

Shutdown ==
    /\ OwnerGoto("returned", "stop")
    /\ next_worker' = 0
    /\ UNCHANGED <<mode, share, counters, num_running, pc, locals, max_num_working,
                   stop_requested, batch, result, history>>

\* Mistake: the last worker is not asked.
RequestStopButLast ==
    /\ OwnerGoto("stop", IF next_worker + 2 >= NumWorkers THEN "until_not_running" ELSE "stop")
    /\ stop_requested' = Set(stop_requested, next_worker, TRUE)
    /\ next_worker' = (next_worker + 1) % NumWorkers
    /\ UNCHANGED <<mode, share, counters, num_running, pc, locals, max_num_working, batch, result,
                   history>>

RequestStop ==
    /\ OwnerGoto("stop", IF next_worker = NumWorkers - 1 THEN "until_not_running" ELSE "stop")
    /\ stop_requested' = Set(stop_requested, next_worker, TRUE)
    /\ next_worker' = (next_worker + 1) % NumWorkers
    /\ UNCHANGED <<mode, share, counters, num_running, pc, locals, max_num_working, batch, result,
                   history>>

NotRunning ==
    /\ ~isRunning
    /\ OwnerGoto("until_not_running", "done")
    /\ UNCHANGED <<mode, share, counters, num_running, pc, locals, max_num_working,
                   stop_requested, batch, next_worker, result, history>>

OwnerStep ==
    \/ Work \/ start_working \/ SetMax \/ Go \/ DoneWorking \/ ReadErrored
    \/ NextBatch \/ Shutdown \/ RequestStop \/ NotRunning

Next == OwnerStep \/ \E w \in Worker : WorkerStep(w)

Spec == Init /\ [][Next]_vars

\* The operating system keeps every thread running.
LiveSpec == Spec /\ WF_vars(OwnerStep) /\ \A w \in Worker : WF_vars(WorkerStep(w))

-----------------------------------------------------------------------------
(* Properties. *)

\* However the owners' and the thieves' ends of the intervals meet, no task is handed
\* out twice, and one that is in somebody's hands has not run.
AtMostOnce ==
    /\ \A i \in DOMAIN runs : runs[i] <= 1
    /\ \A w \in Worker : task[w] # NoTask => runs[task[w]] = 0
    /\ \A v, w \in Worker : task[v] = task[w] /\ task[v] # NoTask => v = w

\* When waitUntilDoneWorking() returns success and no task failed, every task has run.
AllRanOnSuccess ==
    owner = "returned" /\ result /\ ~any_failed => \A i \in DOMAIN runs : runs[i] = 1

\* num_working counts the started workers that have not said they stopped: it never
\* wraps, so "Too many signals to stop working" is never reached, and it is zero only
\* once all of them stopped.
Signals(w) == IF mode[w] # "WAITING" \/ pc[w] \in {"dec", "err_dec"} THEN 1 ELSE 0
Stopping   == {w \in Worker : Signals(w) = 1}
NumWorkingExact ==
    owner \notin {"start", "max", "go"} => num_working = Cardinality(Stopping)

\* Unless a task failed, nobody runs a task of a batch after waitUntilDoneWorking() has
\* returned: the owner may destroy the tasks, the work function or the pool, or start the
\* next batch.  (A thief whose own task failed goes on stealing without being counted.)
NobodyRunsAfterWait ==
    owner # "wait" /\ ~any_failed => \A w \in Worker : pc[w] # "run"

\* The two waits end: the steal loop is left, and no worker waits for another.
WaitReturns     == owner = "wait" ~> owner = "returned"
ShutdownReturns == owner = "stop" ~> owner = "done"
=============================================================================
