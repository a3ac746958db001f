--------------------------- MODULE ThreadPoolProofs ---------------------------
(***************************************************************************)
(* Safety of core::ThreadPool for every number of workers and any batches. *)
(*                                                                         *)
(* The invariant says where a worker is in thread_func() when it has a     *)
(* mode (Modes), what the owner has done when the workers are where they   *)
(* are (Phases), what the counters count (Counters), and for each task     *)
(* that it has run once, is in one worker's hands or is left to exactly    *)
(* one interval (Hands, LeftOnce, Covered).  The last needs Orderly: as    *)
(* long as no task fails, nobody gives up an interval that is not empty.   *)
(***************************************************************************)
EXTENDS ThreadPool, FiniteSetTheorems, TLAPS

LoopPC == {"steal_cond", "steal_mode", "steal"}
ErrPC  == {"err_stop", "err_dec", "err_signal", "err_tell"}

\* What the mode of a worker says of its place in thread_func(), and the reverse.
ModeOf(w) ==
    /\ pc[w] = "ready" => mode[w] = "READY_TO_START"
    /\ mode[w] = "READY_TO_START" => pc[w] \in {"top", "mode", "ready"}
    /\ pc[w] \in {"get_task", "to_stealing"} => mode[w] \in {"WORKING", "TOLD_TO_STOP_WORKING"}
    /\ pc[w] = "inc_stealing" => mode[w] \in {"STEALING", "TOLD_TO_STOP_WORKING"}
    /\ pc[w] \in {"dec", "err_dec"} => mode[w] = "WAITING"
    /\ mode[w] = "WORKING" =>
          /\ pc[w] \in {"top", "mode", "get_task", "to_stealing", "run", "err_stop"}
          /\ pc[w] \in {"run", "err_stop"} => ~stolen[w]

\* Without a failure more is known: nobody stops before its own interval is used up.
Orderly(w) ==
    /\ mode[w] # "TOLD_TO_STOP_WORKING" /\ pc[w] \notin ErrPC
    /\ mode[w] = "WAITING" => pc[w] \in {"top", "mode", "dec", "exited"}
    /\ mode[w] = "STEALING" =>
          pc[w] \in {"inc_stealing", "top", "mode", "stop", "run"} \cup LoopPC
    /\ current_index[w] < end_index[w] =>
          mode[w] \in {"READY_TO_START", "WORKING"} /\ pc[w] # "to_stealing"

Modes == \A w \in Worker : ModeOf(w) /\ (~any_failed => Orderly(w))

\* The owner starts the workers in order, while none of them does anything.
Starting   == {"start", "max", "go"}
Started(w) == IF owner = "start" THEN w < next_worker ELSE w \in Starts

Phases ==
    /\ any_failed => batch = Len(Batches) /\ owner \notin {"work"} \cup Starting
    /\ ~any_failed => ~errored
    /\ owner # "wait" => num_working = 0
    /\ owner \in Starting =>
          /\ num_stealing = 0
          /\ \A w \in Worker :
                /\ pc[w] # "dec"
                /\ mode[w] = IF Started(w) THEN "READY_TO_START" ELSE "WAITING"
    /\ owner = "start" => next_worker \in Starts
    /\ owner = "go" => max_num_working = Cardinality(Starts)
    /\ \A w \in Worker :
          /\ stop_requested[w] => owner \in {"stop", "until_not_running", "done"}
          /\ pc[w] = "exited" => stop_requested[w]

\* The workers that may still add themselves to num_stealing
MayCount(w) ==
    \/ mode[w] \in {"READY_TO_START", "WORKING"}
    \/ pc[w] \in {"get_task", "to_stealing", "inc_stealing"}

Counters ==
    /\ NumWorkingExact
    /\ num_running = Cardinality({w \in Worker : pc[w] # "exited"})
    /\ num_stealing + Cardinality({w \in Worker : MayCount(w)}) <= NumWorkers

Rounds ==
    \A w \in Worker : pc[w] \in LoopPC \cup ErrPC \cup {"get_task", "run"} =>
        failed_to_steal[w] < NumWorkers

\* The tasks of w's interval
Left(w) == current_index[w]..end_index[w] - 1

Hands ==
    \A w \in Worker : task[w] \in Task \cup {NoTask} /\ (task[w] # NoTask <=> pc[w] = "run")

\* A task is left to one worker, and then nobody has taken it.
LeftOnce ==
    \A w \in Worker : \A i \in Left(w) :
        /\ i \in Task /\ runs[i] = 0
        /\ \A v \in Worker : task[v] # i /\ (i \in Left(v) => v = w)

Settled(i) ==
    \/ runs[i] = 1
    \/ \E w \in Worker : task[w] = i \/ i \in Left(w)

\* Every task is left to somebody, taken or run, once the shares are given out.
Covered ==
    /\ owner \in {"work", "start"} => \A i \in Task : runs[i] = 0
    /\ owner = "start" =>
          /\ \A w \in Worker : w < next_worker =>
                current_index[w] = ShareStart(w) /\ end_index[w] = ShareStart(w + 1)
          /\ \A i \in 0..ShareStart(next_worker) - 1 :
                \E w \in Worker : w < next_worker /\ i \in Left(w)
    /\ owner \notin {"work", "start"} => \A i \in Task : Settled(i)

IInv ==
    /\ TypeOK /\ Modes /\ Phases /\ Counters /\ Rounds
    /\ Hands /\ LeftOnce /\ AtMostOnce /\ Covered

-----------------------------------------------------------------------------
(* Sets of workers and their sizes. *)

LEMMA WorkerFinite ==
    /\ IsFiniteSet(Worker) /\ Cardinality(Worker) = NumWorkers
    /\ NumWorkers \in Nat \ {0} /\ 0 \in Worker /\ NumWorkers - 1 \in Worker
<1>1. NumWorkers \in Nat \ {0}
  BY NumWorkersAssumption
<1>2. IsFiniteSet(0..NumWorkers - 1)
      /\ Cardinality(0..NumWorkers - 1) =
            IF 0 > NumWorkers - 1 THEN 0 ELSE (NumWorkers - 1) - 0 + 1
  BY <1>1, FS_Interval
<1> QED  BY <1>1, <1>2 DEF Worker

LEMMA SomeWorkers ==
    ASSUME NEW S, S \subseteq Worker
    PROVE  IsFiniteSet(S) /\ Cardinality(S) \in 0..NumWorkers
<1>1. IsFiniteSet(S) /\ Cardinality(S) <= Cardinality(Worker)
  BY WorkerFinite, FS_Subset
<1> QED  BY <1>1, WorkerFinite, FS_CardinalityType

LEMMA FewerWorkers ==
    ASSUME NEW S, NEW T, S \subseteq T, T \subseteq Worker
    PROVE  Cardinality(S) <= Cardinality(T)
BY SomeWorkers, FS_Subset

LEMMA OneWorkerLess ==
    ASSUME NEW S, S \subseteq Worker, NEW w \in S
    PROVE  Cardinality(S \ {w}) = Cardinality(S) - 1 /\ Cardinality(S) >= 1
<1>1. Cardinality(S \ {w}) = Cardinality(S) - 1
  BY SomeWorkers, FS_RemoveElement
<1>2. Cardinality(S \ {w}) \in 0..NumWorkers /\ Cardinality(S) \in 0..NumWorkers
  <2>1. S \ {w} \subseteq Worker
    OBVIOUS
  <2> QED  BY <2>1, SomeWorkers
<1> QED  BY <1>1, <1>2, WorkerFinite

LEMMA NoWorkers == ASSUME NEW S, S \subseteq Worker, Cardinality(S) = 0 PROVE S = {}
BY SomeWorkers, FS_EmptySet

-----------------------------------------------------------------------------
(* The shares of a batch. *)

LEMMA BatchSize == ASSUME batch \in DOMAIN Batches PROVE NumTasks \in Nat \ {0}
BY BatchesAssumption DEF NumTasks

LastStart == IF NumWorkers > NumTasks THEN NumTasks - 1 ELSE NumWorkers - 1

LEMMA StartsAre ==
    ASSUME batch \in DOMAIN Batches
    PROVE  /\ Starts = 0..LastStart /\ Starts \subseteq Worker
           /\ LastStart \in Starts /\ 0 \in Starts
BY BatchSize, WorkerFinite DEF Starts, LastStart, Worker

LEMMA Division ==
    ASSUME NEW n \in Nat, NEW d \in Nat \ {0}
    PROVE  /\ n \div d \in Nat /\ n % d \in 0..d - 1
           /\ n = (d * (n \div d)) + (n % d)
           /\ n < d => n \div d = 0 /\ n % d = n
OBVIOUS

\* The shares follow one another and end at the last task.
LEMMA Shares ==
    ASSUME batch \in DOMAIN Batches
    PROVE  /\ ShareStart(0) = 0 /\ ShareStart(LastStart + 1) = NumTasks
           /\ \A i \in Nat : ShareStart(i) \in Nat
           /\ \A i, j \in Nat : i <= j => ShareStart(i) <= ShareStart(j)
<1> DEFINE q == NumTasks \div NumWorkers
           r == NumTasks % NumWorkers
           F(i) == i * q + (IF i < r THEN i ELSE r)
<1>1. /\ q \in Nat /\ r \in Nat /\ r < NumWorkers /\ NumTasks = (NumWorkers * q) + r
      /\ NumTasks < NumWorkers => q = 0 /\ r = NumTasks
  <2>1. NumTasks \in Nat /\ NumWorkers \in Nat \ {0}
    BY BatchSize, WorkerFinite
  <2> HIDE DEF NumTasks
  <2>2. /\ q \in Nat /\ r \in 0..NumWorkers - 1 /\ NumTasks = (NumWorkers * q) + r
        /\ NumTasks < NumWorkers => q = 0 /\ r = NumTasks
    BY <2>1, Division
  <2> QED  BY <2>1, <2>2
<1>2. \A i : ShareStart(i) = F(i)
  BY DEF ShareStart
<1> HIDE DEF q, r
<1>3. \A i \in Nat : F(i) \in Nat
  <2> TAKE i \in Nat
  <2>1. i * q \in Nat
    BY <1>1
  <2> QED  BY <1>1, <2>1
<1>4. ASSUME NEW i \in Nat, NEW j \in Nat, i <= j PROVE F(i) <= F(j)
  <2>1. i * q \in Nat /\ j * q \in Nat /\ i * q <= j * q
    BY <1>1, <1>4
  <2>2. (IF i < r THEN i ELSE r) <= (IF j < r THEN j ELSE r)
    BY <1>1, <1>4
  <2> QED  BY <1>1, <2>1, <2>2
<1>5. F(0) = 0
  BY <1>1
<1>6. F(LastStart + 1) = NumTasks
  <2>1. CASE NumWorkers > NumTasks
    <3>1. LastStart + 1 = NumTasks /\ q = 0 /\ r = NumTasks
      BY <1>1, <2>1, BatchSize, WorkerFinite DEF LastStart
    <3>2. NumTasks * q = 0
      BY <3>1, BatchSize
    <3> QED  BY <3>1, <3>2, BatchSize
  <2>2. CASE ~(NumWorkers > NumTasks)
    <3>1. LastStart + 1 = NumWorkers
      BY <2>2, BatchSize, WorkerFinite DEF LastStart
    <3> QED  BY <1>1, <3>1, WorkerFinite
  <2> QED  BY <2>1, <2>2
<1> QED  BY <1>2, <1>3, <1>4, <1>5, <1>6

-----------------------------------------------------------------------------
(* What the invariant says of a moment. *)

LEMMA StoppingIs ==
    Stopping = {w \in Worker : mode[w] # "WAITING" \/ pc[w] \in {"dec", "err_dec"}}
BY DEF Stopping, Signals

\* One who has not said that it stopped is counted.
LEMMA Counted ==
    ASSUME IInv, owner \notin Starting, NEW w \in Worker,
           mode[w] # "WAITING" \/ pc[w] \in {"dec", "err_dec"}
    PROVE  num_working >= 1 /\ num_working = Cardinality(Stopping) /\ w \in Stopping
<1>1. w \in Stopping /\ Stopping \subseteq Worker
  BY StoppingIs
<1>2. num_working = Cardinality(Stopping)
  BY DEF IInv, Counters, NumWorkingExact, Starting
<1> QED  BY <1>1, <1>2, OneWorkerLess

\* Before and after the work, nobody does anything ...
LEMMA Idle ==
    ASSUME IInv, owner # "wait", ~any_failed, NEW w \in Worker
    PROVE  /\ pc[w] \in {"top", "mode", "ready", "exited"} /\ task[w] = NoTask
           /\ owner \notin Starting => mode[w] = "WAITING"
           /\ mode[w] = "WAITING" => ~(current_index[w] < end_index[w])
<1>1. ModeOf(w) /\ Orderly(w) /\ num_working = 0
  BY DEF IInv, Modes, Phases
<1>2. CASE owner \in Starting
  <2>1. pc[w] # "dec" /\ mode[w] \in {"READY_TO_START", "WAITING"}
    BY <1>2 DEF IInv, Phases
  <2> QED  BY <1>1, <1>2, <2>1 DEF IInv, Hands, ModeOf, Orderly
<1>3. CASE owner \notin Starting
  <2>1. mode[w] = "WAITING" /\ pc[w] # "dec"
    BY <1>1, <1>3, Counted
  <2> QED  BY <1>1, <1>3, <2>1 DEF IInv, Hands, ModeOf, Orderly
<1> QED  BY <1>2, <1>3

\* ... so one who does something, does it during the work or after a failure.
LEMMA Busy ==
    ASSUME IInv, NEW w \in Worker, pc[w] \notin {"top", "mode", "ready", "exited"}
    PROVE  owner \notin {"work"} \cup Starting
BY Idle DEF IInv, Phases, Starting

LEMMA RunningCounted ==
    ASSUME IInv, NEW w \in Worker, pc[w] # "exited"
    PROVE  num_running >= 1 /\ num_running = Cardinality({v \in Worker : pc[v] # "exited"})
<1> DEFINE S == {v \in Worker : pc[v] # "exited"}
<1>1. w \in S /\ S \subseteq Worker
  OBVIOUS
<1> QED  BY <1>1, OneWorkerLess DEF IInv, Counters

LEMMA StealingRoom ==
    ASSUME IInv, NEW w \in Worker, MayCount(w)
    PROVE  num_stealing < NumWorkers
<1> DEFINE S == {v \in Worker : MayCount(v)}
<1>1. w \in S /\ S \subseteq Worker
  OBVIOUS
<1>2. Cardinality(S) >= 1 /\ Cardinality(S) \in 0..NumWorkers
  BY <1>1, OneWorkerLess, SomeWorkers
<1>3. num_stealing + Cardinality(S) <= NumWorkers /\ num_stealing \in 0..NumWorkers
  BY DEF IInv, Counters, TypeOK
<1> QED  BY <1>2, <1>3, WorkerFinite

-----------------------------------------------------------------------------
(* Types. *)

LEMMA NextTargetType == ASSUME TypeOK, NEW w \in Worker PROVE NextTarget(w) \in Worker
<1>1. target[w] \in 0..NumWorkers - 1 /\ max_num_working \in 0..NumWorkers
  BY DEF TypeOK, Worker
<1>2. NumWorkers \in Nat \ {0}
  BY WorkerFinite
<1> QED  BY <1>1, <1>2 DEF NextTarget, Worker

LEMMA TypesOfFailedToSteal ==
    ASSUME IInv, NEW w \in Worker, NEW here \in {"steal_mode", "steal"}, FailedToSteal(w, here)
    PROVE  TypeOK'
<1>1. failed_to_steal[w] < NumWorkers /\ failed_to_steal[w] + 1 \in 0..NumWorkers
  BY WorkerFinite DEF IInv, TypeOK, Rounds, LoopPC, FailedToSteal, Goto
<1>2. NextTarget(w) \in Worker
  BY NextTargetType DEF IInv
<1> QED  BY <1>1, <1>2 DEF IInv, TypeOK, FailedToSteal, Goto, Set, WorkerPC, Task, NumTasks,
                           share, counters, ownervars, history

LEMMA TypesOfWorker ==
    ASSUME IInv, NEW w \in Worker, WorkerStep(w)
    PROVE  TypeOK'
<1> USE DEF Goto, Set, share, counters, locals, ownervars, history, WorkerPC, Mode
<1>0. TypeOK
  BY DEF IInv
<1>1. CASE Top(w)
  BY <1>0, <1>1 DEF TypeOK, Task, NumTasks, Top
<1>2. CASE signal_worker_stopped_running(w)
  <2>1. num_running - 1 \in 0..NumWorkers
    <3>1. pc[w] # "exited" /\ num_running \in 0..NumWorkers
      BY <1>0, <1>2 DEF TypeOK, signal_worker_stopped_running
    <3>2. num_running >= 1
      BY <3>1, RunningCounted
    <3> QED  BY <3>1, <3>2, WorkerFinite
  <2> QED  BY <1>0, <1>2, <2>1 DEF TypeOK, Task, NumTasks, signal_worker_stopped_running
<1>3. CASE Dispatch(w)
  <2>1. 0 \in Worker /\ 0 \in 0..NumWorkers
    BY WorkerFinite
  <2> QED  BY <1>0, <1>3, <2>1 DEF TypeOK, Task, NumTasks, Dispatch
<1>4. CASE Ready(w)
  BY <1>0, <1>4 DEF TypeOK, Task, NumTasks, Ready
<1>5. CASE get_task(w)
  BY <1>0, <1>5 DEF TypeOK, Task, NumTasks, get_task
<1>6. CASE NoMoreTasks(w)
  BY <1>0, <1>6 DEF TypeOK, Task, NumTasks, NoMoreTasks
<1>7. CASE ToStealing(w)
  BY <1>0, <1>7 DEF TypeOK, Task, NumTasks, ToStealing
<1>8. CASE IncStealing(w)
  <2>1. MayCount(w)
    BY <1>8 DEF MayCount, IncStealing
  <2>2. num_stealing + 1 \in 0..NumWorkers
    BY <1>0, <2>1, StealingRoom, WorkerFinite DEF TypeOK
  <2> QED  BY <1>0, <1>8, <2>2 DEF TypeOK, Task, NumTasks, IncStealing
<1>9. CASE StealCond(w)
  BY <1>0, <1>9 DEF TypeOK, Task, NumTasks, StealCond
<1>10. CASE TargetNotWorking(w)
  BY <1>10, TypesOfFailedToSteal DEF TargetNotWorking
<1>11. CASE TargetWorking(w)
  BY <1>0, <1>11 DEF TypeOK, Task, NumTasks, TargetWorking
<1>12. CASE externally_steal_task(w)
  <2> DEFINE t == target[w]
  <2>1. t \in Worker /\ end_index[t] - 1 \in Nat
    BY <1>0, <1>12 DEF TypeOK, externally_steal_task
  <2>2. NextTarget(w) \in Worker /\ 0 \in 0..NumWorkers
    BY <1>0, NextTargetType, WorkerFinite
  <2> QED  BY <1>0, <1>12, <2>1, <2>2 DEF TypeOK, Task, NumTasks, externally_steal_task
<1>13. CASE TargetDone(w)
  BY <1>13, TypesOfFailedToSteal DEF TargetDone
<1>14. CASE Succeed(w) \/ Fail(w)
  <2>1. /\ task' = [task EXCEPT ![w] = NoTask]
        /\ runs' = [runs EXCEPT ![task[w]] = @ + 1]
        /\ \E to \in WorkerPC : pc' = [pc EXCEPT ![w] = to]
        /\ any_failed' \in BOOLEAN
        /\ UNCHANGED <<mode, current_index, end_index, num_working, num_stealing, errored,
                       num_running, stolen, target, failed_to_steal, to_tell, ownervars>>
    BY <1>0, <1>14 DEF Succeed, Fail, Ran, BackToLoop, TypeOK
  <2>2. runs' \in [Task -> Nat]
    <3>1. runs \in [Task -> Nat] /\ task[w] \in Task
      BY <1>0, <1>14 DEF TypeOK, IInv, Hands, Succeed, Fail, Ran
    <3>2. runs[task[w]] + 1 \in Nat
      BY <3>1
    <3> QED  BY <2>1, <3>1, <3>2
  <2> QED  BY <1>0, <2>1, <2>2 DEF TypeOK, Task, NumTasks
<1>15. CASE Stop(w)
  BY <1>0, <1>15 DEF TypeOK, Task, NumTasks, Stop, stop_working
<1>15a. CASE ErrStop(w)
  BY <1>0, <1>15a DEF TypeOK, Task, NumTasks, ErrStop, stop_working
<1>16. CASE Dec(w) \/ ErrDec(w)
  <2>1. (num_working - 1) % Wrap \in 0..Wrap - 1
    <3>1. num_working \in Nat /\ Wrap \in Nat \ {0}
      BY <1>0, WrapAssumption, WorkerFinite DEF TypeOK
    <3> QED  BY <3>1
  <2>2. CASE Dec(w)
    BY <1>0, <2>1, <2>2 DEF TypeOK, Task, NumTasks, Dec, signal_worker_stopped_working
  <2>3. CASE ErrDec(w)
    BY <1>0, <2>1, <2>3 DEF TypeOK, Task, NumTasks, ErrDec, signal_worker_stopped_working
  <2> QED  BY <1>16, <2>2, <2>3
<1>17. CASE ErrSignal(w)
  <2>1. 0 \in Worker
    BY WorkerFinite
  <2> QED  BY <1>0, <1>17, <2>1 DEF TypeOK, Task, NumTasks, ErrSignal, BackToLoop
<1>18. CASE ErrTell(w)
  <2>1. (to_tell[w] + 1) % NumWorkers \in Worker
    <3>1. to_tell[w] \in Nat /\ NumWorkers \in Nat \ {0}
      BY <1>0, WorkerFinite DEF TypeOK, Worker
    <3> QED  BY <3>1 DEF Worker
  <2> QED  BY <1>0, <1>18, <2>1 DEF TypeOK, Task, NumTasks, ErrTell, BackToLoop
<1> QED
  BY <1>1, <1>2, <1>3, <1>4, <1>5, <1>6, <1>7, <1>8, <1>9, <1>10, <1>11, <1>12, <1>13,
     <1>14, <1>15, <1>15a, <1>16, <1>17, <1>18
  DEF WorkerStep

LEMMA TypesOfOwner ==
    ASSUME IInv, OwnerStep
    PROVE  TypeOK'
<1> USE DEF OwnerGoto, Set, share, counters, locals, ownervars, history, OwnerPC, Mode
<1>0. TypeOK
  BY DEF IInv
<1>1. NumWorkers \in Nat \ {0} /\ 0 \in Worker /\ batch \in DOMAIN Batches
  BY <1>0, WorkerFinite DEF TypeOK
<1>2. \A i \in Worker : (i + 1) % NumWorkers \in Worker
  BY <1>1 DEF Worker
<1>3. CASE Work
  <2>1. 0 \in 0..NumWorkers
    BY <1>1
  <2> QED  BY <1>0, <1>1, <1>3, <2>1 DEF TypeOK, Task, NumTasks, Work
<1>4. CASE start_working
  <2>1. next_worker \in Worker /\ next_worker \in Nat
    BY <1>0 DEF TypeOK, Worker
  <2>2. ShareStart(next_worker) \in Nat /\ ShareStart(next_worker + 1) \in Nat
    BY <1>1, <2>1, Shares
  <2> QED  BY <1>0, <1>2, <1>4, <2>1, <2>2 DEF TypeOK, Task, NumTasks, start_working
<1>5. CASE SetMax
  <2>1. Cardinality(Starts) \in 0..NumWorkers
    BY <1>1, StartsAre, SomeWorkers
  <2> QED  BY <1>0, <1>5, <2>1 DEF TypeOK, Task, NumTasks, SetMax
<1>6. CASE Go
  <2>1. max_num_working \in 0..Wrap - 1
    BY <1>0, <1>1, WrapAssumption DEF TypeOK
  <2> QED  BY <1>0, <1>6, <2>1 DEF TypeOK, Task, NumTasks, Go
<1>7. CASE DoneWorking \/ NotRunning
  BY <1>0, <1>7 DEF TypeOK, Task, NumTasks, DoneWorking, NotRunning
<1>8. CASE ReadErrored
  BY <1>0, <1>8 DEF TypeOK, Task, NumTasks, ReadErrored
<1>9. CASE NextBatch
  <2>1. batch + 1 \in DOMAIN Batches
    BY <1>0, <1>9, BatchesAssumption DEF TypeOK, NextBatch
  <2>2. runs' \in [Task' -> Nat]
    BY <1>9 DEF NextBatch, Task, NumTasks
  <2> QED  BY <1>0, <1>9, <2>1, <2>2 DEF TypeOK, NextBatch
<1>10. CASE Shutdown
  BY <1>0, <1>1, <1>10 DEF TypeOK, Task, NumTasks, Shutdown
<1>11. CASE RequestStop
  <2>1. next_worker \in Worker
    BY <1>0 DEF TypeOK
  <2> QED  BY <1>0, <1>2, <1>11, <2>1 DEF TypeOK, Task, NumTasks, RequestStop
<1> QED
  BY <1>3, <1>4, <1>5, <1>6, <1>7, <1>8, <1>9, <1>10, <1>11 DEF OwnerStep

-----------------------------------------------------------------------------
(* The modes. *)

LEMMA ModesOfWorker ==
    ASSUME IInv, NEW w \in Worker, WorkerStep(w)
    PROVE  Modes'
<1> SUFFICES ASSUME NEW v \in Worker
             PROVE  ModeOf(v)' /\ (~any_failed' => Orderly(v)')
  BY DEF Modes
<1>1. /\ pc \in [Worker -> WorkerPC] /\ mode \in [Worker -> Mode]
      /\ stolen \in [Worker -> BOOLEAN]
      /\ current_index \in [Worker -> Nat] /\ end_index \in [Worker -> Nat]
      /\ target \in [Worker -> Worker]
  BY DEF IInv, TypeOK
<1>2. /\ ModeOf(v) /\ (~any_failed => Orderly(v))
      /\ ModeOf(w) /\ (~any_failed => Orderly(w))
  BY DEF IInv, Modes
<1> USE DEF Goto, Set, share, counters, locals, ownervars, history, ModeOf, Orderly,
            LoopPC, ErrPC, Mode
<1>3. CASE Top(w)
  BY <1>1, <1>2, <1>3 DEF Top
<1>4. CASE signal_worker_stopped_running(w)
  <2>1. stop_requested[w] /\ owner \notin Starting
    BY <1>4 DEF IInv, Phases, Starting, signal_worker_stopped_running
  <2>2. num_working = 0
    BY <2>1 DEF IInv, Phases
  <2>3. mode[w] = "WAITING"
    BY <2>1, <2>2, Counted
  <2> QED  BY <1>1, <1>2, <1>4, <2>3 DEF signal_worker_stopped_running
<1>5. CASE Dispatch(w)
  BY <1>1, <1>2, <1>5 DEF Dispatch
<1>6. CASE Ready(w)
  BY <1>1, <1>2, <1>6 DEF Ready
<1>7. CASE get_task(w)
  BY <1>1, <1>2, <1>7 DEF get_task
<1>8. CASE NoMoreTasks(w)
  BY <1>1, <1>2, <1>8 DEF NoMoreTasks
<1>9. CASE ToStealing(w)
  BY <1>1, <1>2, <1>9 DEF ToStealing
<1>10. CASE IncStealing(w)
  BY <1>1, <1>2, <1>10 DEF IncStealing
<1>11. CASE StealCond(w)
  BY <1>1, <1>2, <1>11 DEF StealCond
<1>12. CASE TargetNotWorking(w)
  BY <1>1, <1>2, <1>12 DEF TargetNotWorking, FailedToSteal
<1>13. CASE TargetWorking(w)
  BY <1>1, <1>2, <1>13 DEF TargetWorking
<1>14. CASE externally_steal_task(w)
  BY <1>1, <1>2, <1>14 DEF externally_steal_task
<1>15. CASE TargetDone(w)
  BY <1>1, <1>2, <1>15 DEF TargetDone, FailedToSteal
<1>16. CASE Succeed(w)
  BY <1>1, <1>2, <1>16 DEF Succeed, Ran, BackToLoop
<1>17. CASE Fail(w)
  BY <1>1, <1>2, <1>17 DEF Fail, Ran
<1>18. CASE Stop(w)
  BY <1>1, <1>2, <1>18 DEF Stop, stop_working
<1>19. CASE Dec(w)
  BY <1>1, <1>2, <1>19 DEF Dec, signal_worker_stopped_working
<1>20. CASE ErrStop(w)
  BY <1>1, <1>2, <1>20 DEF ErrStop, stop_working
<1>21. CASE ErrDec(w)
  BY <1>1, <1>2, <1>21 DEF ErrDec, signal_worker_stopped_working
<1>22. CASE ErrSignal(w)
  BY <1>1, <1>2, <1>22 DEF ErrSignal, BackToLoop
<1>23. CASE ErrTell(w)
  BY <1>1, <1>2, <1>23 DEF ErrTell, BackToLoop
<1> QED
  BY <1>3, <1>4, <1>5, <1>6, <1>7, <1>8, <1>9, <1>10, <1>11, <1>12, <1>13, <1>14, <1>15,
     <1>16, <1>17, <1>18, <1>19, <1>20, <1>21, <1>22, <1>23
  DEF WorkerStep

LEMMA ModesOfOwner ==
    ASSUME IInv, OwnerStep
    PROVE  Modes'
<1> SUFFICES ASSUME NEW v \in Worker
             PROVE  ModeOf(v)' /\ (~any_failed' => Orderly(v)')
  BY DEF Modes
<1>1. ModeOf(v) /\ (~any_failed => Orderly(v))
  BY DEF IInv, Modes
<1>2. CASE start_working
  <2>1. /\ pc[v] \in {"top", "mode", "ready", "exited"} /\ pc[v] # "exited" /\ ~any_failed
        /\ mode[v] = "WAITING" => ~(current_index[v] < end_index[v])
    BY <1>2, Idle DEF start_working, OwnerGoto, IInv, Phases, Starting
  <2>2. mode \in [Worker -> Mode] /\ current_index \in [Worker -> Nat]
        /\ end_index \in [Worker -> Nat] /\ next_worker \in Worker
    BY DEF IInv, TypeOK
  <2> QED  BY <1>1, <1>2, <2>1, <2>2 DEF start_working, Set, counters, locals, history,
                                         ModeOf, Orderly, LoopPC, ErrPC, Mode
<1>3. CASE ~start_working
  <2>1. any_failed => any_failed'
    <3>1. CASE NextBatch
      <4>1. batch \in Nat /\ batch < Len(Batches) /\ Len(Batches) \in Nat
        <5>1. batch \in Nat
          <6>1. batch \in DOMAIN Batches
            BY DEF IInv, TypeOK
          <6>2. DOMAIN Batches \subseteq Nat
            BY BatchesAssumption
          <6> QED  BY ONLY <6>1, <6>2
        <5>2. batch < Len(Batches)
          BY <3>1 DEF NextBatch
        <5>3. Len(Batches) \in Nat
          BY BatchesAssumption
        <5> QED  BY <5>1, <5>2, <5>3
      <4> QED  BY <4>1 DEF IInv, Phases
    <3>2. CASE ~NextBatch
      BY <1>3, <3>2 DEF OwnerStep, Work, SetMax, Go, DoneWorking, ReadErrored, Shutdown,
                        RequestStop, NotRunning, history
    <3> QED  BY <3>1, <3>2
  <2>2. UNCHANGED <<mode, current_index, end_index, pc, stolen>>
    BY <1>3 DEF OwnerStep, Work, SetMax, Go, DoneWorking, ReadErrored, NextBatch, Shutdown,
                RequestStop, NotRunning, share, locals
  <2> QED  BY <1>1, <2>1, <2>2 DEF ModeOf, Orderly
<1> QED  BY <1>2, <1>3

-----------------------------------------------------------------------------
(* The owner's phases. *)

\* The steps of a worker that waits to be started or to be stopped
LEMMA WaitingSteps ==
    ASSUME NEW w \in Worker, WorkerStep(w), pc[w] \in {"top", "mode", "ready", "exited"}
    PROVE  Top(w) \/ signal_worker_stopped_running(w) \/ Dispatch(w) \/ Ready(w)
BY DEF WorkerStep, get_task, NoMoreTasks, ToStealing, IncStealing, StealCond, TargetNotWorking,
       FailedToSteal, TargetWorking, externally_steal_task, TargetDone, Succeed, Fail, Ran, Stop,
       ErrStop, stop_working, Dec, ErrDec, signal_worker_stopped_working, ErrSignal, ErrTell, Goto

\* What each variable is changed by
LEMMA Frame ==
    ASSUME NEW w \in Worker, WorkerStep(w)
    PROVE  /\ UNCHANGED ownervars
           /\ Fail(w) \/ any_failed' = any_failed
           /\ ErrSignal(w) \/ errored' = errored
           /\ Dec(w) \/ ErrDec(w) \/ num_working' = num_working
           /\ IncStealing(w) \/ num_stealing' = num_stealing
           /\ signal_worker_stopped_running(w) \/ num_running' = num_running
           /\ get_task(w) \/ current_index' = current_index
           /\ externally_steal_task(w) \/ end_index' = end_index
           /\ Succeed(w) \/ Fail(w) \/ runs' = runs
           /\ get_task(w) \/ externally_steal_task(w) \/ Succeed(w) \/ Fail(w) \/ task' = task
<1> USE DEF share, counters, locals, ownervars, history
<1> QED
  BY DEF WorkerStep, Top, signal_worker_stopped_running, Dispatch, Ready, get_task, NoMoreTasks,
         ToStealing, IncStealing, StealCond, TargetNotWorking, FailedToSteal, TargetWorking,
         externally_steal_task, TargetDone, Succeed, Fail, Ran, Stop, ErrStop, stop_working, Dec,
         ErrDec, signal_worker_stopped_working, ErrSignal, ErrTell

LEMMA FailsLast ==
    ASSUME IInv, NEW w \in Worker, Fail(w)
    PROVE  batch = Len(Batches) /\ owner \notin {"work"} \cup Starting
<1>1. <<batch, task[w]>> \in MayFail /\ pc[w] = "run"
  BY DEF Fail, Ran, Goto
<1>2. <<batch, task[w]>>[1] = Len(Batches)
  BY <1>1, MayFailAssumption
<1> QED  BY <1>1, <1>2, Busy

LEMMA PhasesOfWorker ==
    ASSUME IInv, NEW w \in Worker, WorkerStep(w)
    PROVE  Phases'
<1>1. UNCHANGED <<max_num_working, stop_requested, owner, batch, next_worker>>
  BY Frame DEF ownervars
<1>2. UNCHANGED <<Starts, Starting>> /\ \A v : Started(v)' = Started(v)
  BY <1>1 DEF Starts, Starting, Started, NumTasks
<1>3. Phases /\ TypeOK /\ ModeOf(w) /\ (~any_failed => Orderly(w))
  BY DEF IInv, Modes
<1>4. CASE pc[w] \in {"top", "mode", "ready", "exited"}
  <2>1. Top(w) \/ signal_worker_stopped_running(w) \/ Dispatch(w) \/ Ready(w)
    BY <1>4, WaitingSteps
  <2>2. UNCHANGED <<errored, any_failed, num_working, num_stealing>>
    BY <2>1 DEF Top, signal_worker_stopped_running, Dispatch, Ready, counters, history
  <2>3. num_working = 0 => mode' = mode
    BY <2>1 DEF Top, signal_worker_stopped_running, Dispatch, Ready, isWorking
  <2>4. ASSUME NEW v \in Worker
        PROVE  /\ pc[v] # "dec" => pc'[v] # "dec"
               /\ pc'[v] = "exited" => pc[v] = "exited" \/ stop_requested[v]
    BY <1>3, <2>1 DEF Top, signal_worker_stopped_running, Dispatch, Ready, Goto, TypeOK,
                      Mode
  <2>5. owner # "wait" => num_working = 0
    BY <1>3 DEF Phases
  <2> QED  BY <1>1, <1>2, <1>3, <2>2, <2>3, <2>4, <2>5 DEF Phases, Starting
<1>5. CASE pc[w] \notin {"top", "mode", "ready", "exited"}
  <2>1. owner \notin {"work"} \cup Starting
    BY <1>5, Busy
  <2>2. any_failed' => batch = Len(Batches)
    BY <1>3, Frame, FailsLast DEF Phases
  <2>3. ~any_failed' => ~errored'
    <3>1. CASE ErrSignal(w)
      BY <1>3, <3>1 DEF ErrSignal, Goto, Orderly, ErrPC, history
    <3>2. CASE ~ErrSignal(w)
      <4>1. errored' = errored /\ (any_failed' = any_failed \/ any_failed' = TRUE)
        BY <3>2, Frame DEF Fail
      <4> QED  BY <1>3, <4>1 DEF Phases
    <3> QED  BY <3>1, <3>2
  <2>4. owner # "wait" => num_working' = 0
    <3> SUFFICES ASSUME owner # "wait" PROVE num_working' = 0
      OBVIOUS
    <3>1. num_working = 0
      BY <1>3 DEF Phases
    <3>2. pc[w] \notin {"dec", "err_dec"}
      BY <2>1, <3>1, Counted
    <3>3. num_working' = num_working
      BY <3>2, Frame DEF Dec, ErrDec, signal_worker_stopped_working, Goto
    <3> QED  BY <3>1, <3>3
  <2>5. ASSUME NEW v \in Worker PROVE pc'[v] = "exited" => pc[v] = "exited"
    <3>1. ~Top(w) /\ ~signal_worker_stopped_running(w) /\ ~Dispatch(w) /\ ~Ready(w)
      BY <1>5 DEF Top, signal_worker_stopped_running, Dispatch, Ready, Goto
    <3>2. pc \in [Worker -> WorkerPC]
      BY <1>3 DEF TypeOK
    <3> QED  BY <3>1, <3>2 DEF WorkerStep, get_task, NoMoreTasks, ToStealing, IncStealing,
           StealCond, TargetNotWorking, FailedToSteal, TargetWorking, externally_steal_task,
           TargetDone, Succeed, Fail, Ran, Stop, ErrStop, stop_working, Dec, ErrDec,
           signal_worker_stopped_working, ErrSignal, ErrTell, Goto, BackToLoop
  <2> QED  BY <1>1, <1>2, <1>3, <2>1, <2>2, <2>3, <2>4, <2>5 DEF Phases, Starting
<1> QED  BY <1>4, <1>5

LEMMA PhasesOfOwner ==
    ASSUME IInv, OwnerStep
    PROVE  Phases'
<1>1. Phases /\ TypeOK /\ batch \in DOMAIN Batches
  BY DEF IInv, TypeOK
<1>2. Starts = 0..LastStart /\ Starts \subseteq Worker /\ LastStart \in Starts /\ 0 \in Starts
  BY <1>1, StartsAre
<1> USE DEF OwnerGoto, Set, share, counters, locals, history
<1>3. CASE Work
  <2>1. \A v \in Worker : pc[v] # "dec" /\ mode[v] = "WAITING" /\ ~(v < 0)
    BY <1>3, Idle, WorkerFinite DEF Work, IInv, Phases, Starting, Worker
  <2> QED  BY <1>1, <1>2, <1>3, <2>1 DEF Work, Phases, Starting, Started, Starts, NumTasks
<1>4. CASE start_working
  <2> DEFINE k == next_worker
  <2>1. k \in Starts /\ k \in Worker /\ k \in Nat
    BY <1>1, <1>2, <1>4 DEF start_working, Worker
  <2>2. /\ num_stealing' = 0 /\ num_working' = 0 /\ ~any_failed' /\ ~errored'
        /\ \A v \in Worker : pc'[v] # "dec" /\ ~stop_requested'[v] /\ pc'[v] # "exited"
    BY <1>1, <1>4 DEF start_working, Phases, Starting
  <2>3. ASSUME NEW v \in Worker
        PROVE  mode'[v] = IF v <= k THEN "READY_TO_START" ELSE "WAITING"
    <3>1. mode[v] = IF v < k THEN "READY_TO_START" ELSE "WAITING"
      BY <1>1, <1>4 DEF start_working, Phases, Starting, Started
    <3>2. v \in Nat
      BY DEF Worker
    <3> QED  BY <1>1, <1>4, <2>1, <3>1, <3>2 DEF start_working, TypeOK
  <2>4. Starts' = Starts
    BY <1>4 DEF start_working, Starts, NumTasks
  <2>5. CASE k + 1 \in Starts
    <3>1. k + 1 < NumWorkers /\ NumWorkers \in Nat \ {0}
      BY <1>2, <2>5, WorkerFinite DEF Worker
    <3>2. (k + 1) % NumWorkers = k + 1
      BY <2>1, <3>1
    <3>3. owner' = "start" /\ next_worker' = k + 1
      BY <1>4, <2>5, <3>2 DEF start_working
    <3>4. \A v \in Worker : Started(v)' = (v <= k)
      BY <2>1, <3>3 DEF Started, Worker
    <3> QED  BY <2>2, <2>3, <2>4, <2>5, <3>3, <3>4 DEF Phases, Starting
  <2>6. CASE k + 1 \notin Starts
    <3>1. owner' = "max"
      BY <1>4, <2>6 DEF start_working
    <3>2. LastStart \in Nat
      BY <1>2 DEF Worker
    <3>3. k = LastStart
      BY <1>2, <2>1, <2>6, <3>2
    <3>4. \A v \in Worker : Started(v)' = (v <= k)
      BY <1>2, <2>1, <2>4, <3>1, <3>2, <3>3 DEF Started, Worker
    <3> QED  BY <2>2, <2>3, <3>1, <3>4 DEF Phases, Starting
  <2> QED  BY <2>5, <2>6
<1>5. CASE SetMax
  BY <1>1, <1>2, <1>5 DEF SetMax, Phases, Starting, Started, Starts, NumTasks
<1>6. CASE Go
  BY <1>1, <1>6 DEF Go, Phases, Starting
<1>7. CASE DoneWorking
  <2>1. num_working = 0
    BY <1>1, <1>7, WrapAssumption DEF DoneWorking, isWorking, TypeOK
  <2> QED  BY <1>1, <1>7, <2>1 DEF DoneWorking, Phases, Starting
<1>8. CASE ReadErrored \/ Shutdown \/ NotRunning
  BY <1>1, <1>8 DEF ReadErrored, Shutdown, NotRunning, Phases, Starting
<1>9. CASE NextBatch
  <2>1. batch \in Nat /\ batch < Len(Batches) /\ Len(Batches) \in Nat
    BY <1>1, <1>9, BatchesAssumption DEF NextBatch
  <2>2. ~any_failed
    BY <1>1, <2>1 DEF Phases
  <2> QED  BY <1>1, <1>9, <2>2 DEF NextBatch, Phases, Starting
<1>10. CASE RequestStop
  BY <1>1, <1>10 DEF RequestStop, Phases, Starting, TypeOK
<1> QED
  BY <1>3, <1>4, <1>5, <1>6, <1>7, <1>8, <1>9, <1>10 DEF OwnerStep

-----------------------------------------------------------------------------
(* The counters. *)

LEMMA StoppingOfWorker ==
    ASSUME IInv, NEW w \in Worker, WorkerStep(w)
    PROVE  Stopping' = IF Dec(w) \/ ErrDec(w) THEN Stopping \ {w} ELSE Stopping
<1>1. /\ pc \in [Worker -> WorkerPC] /\ mode \in [Worker -> Mode]
      /\ to_tell \in [Worker -> Worker]
  BY DEF IInv, TypeOK
<1>2. ModeOf(w)
  BY DEF IInv, Modes
<1> DEFINE Out(v)  == mode[v] # "WAITING" \/ pc[v] \in {"dec", "err_dec"}
           Out1(v) == mode'[v] # "WAITING" \/ pc'[v] \in {"dec", "err_dec"}
<1>3. Stopping = {v \in Worker : Out(v)} /\ Stopping' = {v \in Worker : Out1(v)}
  BY StoppingIs DEF Stopping, Signals
<1> USE DEF Goto, Set, ModeOf, Mode
<1>4. CASE Dec(w) \/ ErrDec(w)
  <2>1. ASSUME NEW v \in Worker PROVE Out1(v) <=> Out(v) /\ v # w
    BY <1>1, <1>2, <1>4 DEF Dec, ErrDec, signal_worker_stopped_working
  <2> QED  BY <1>3, <1>4, <2>1
<1>5. CASE ~(Dec(w) \/ ErrDec(w))
  <2>1. ASSUME NEW v \in Worker PROVE Out1(v) <=> Out(v)
    <3>1. CASE Top(w) \/ signal_worker_stopped_running(w) \/ Dispatch(w) \/ Ready(w)
      BY <1>1, <1>2, <3>1 DEF Top, signal_worker_stopped_running, Dispatch, Ready
    <3>2. CASE get_task(w) \/ NoMoreTasks(w) \/ ToStealing(w) \/ IncStealing(w) \/ StealCond(w)
      BY <1>1, <1>2, <3>2 DEF get_task, NoMoreTasks, ToStealing, IncStealing, StealCond
    <3>3. CASE TargetNotWorking(w) \/ TargetWorking(w) \/ externally_steal_task(w) \/ TargetDone(w)
      BY <1>1, <1>2, <3>3 DEF TargetNotWorking, FailedToSteal, TargetWorking,
                              externally_steal_task, TargetDone
    <3>4. CASE Succeed(w) \/ Fail(w)
      BY <1>1, <1>2, <3>4 DEF Succeed, Fail, Ran, BackToLoop
    <3>5. CASE Stop(w) \/ ErrStop(w)
      BY <1>1, <1>2, <3>5 DEF Stop, ErrStop, stop_working
    <3>6. CASE ErrSignal(w)
      BY <1>1, <1>2, <3>6 DEF ErrSignal, BackToLoop
    <3>7. CASE ErrTell(w)
      BY <1>1, <1>2, <3>7 DEF ErrTell, BackToLoop
    <3> QED  BY <1>5, <3>1, <3>2, <3>3, <3>4, <3>5, <3>6, <3>7 DEF WorkerStep
  <2> QED  BY <1>3, <1>5, <2>1
<1> QED  BY <1>4, <1>5

\* Only a worker that is started may add itself to num_stealing again.
LEMMA MayCountOfWorker ==
    ASSUME IInv, NEW w \in Worker, WorkerStep(w), NEW v \in Worker, MayCount(v)'
    PROVE  MayCount(v) /\ (IncStealing(w) => v # w)
<1>1. /\ pc \in [Worker -> WorkerPC] /\ mode \in [Worker -> Mode]
      /\ to_tell \in [Worker -> Worker]
  BY DEF IInv, TypeOK
<1>2. ModeOf(w)
  BY DEF IInv, Modes
<1> USE DEF Goto, Set, ModeOf, Mode, MayCount
<1>3. CASE Top(w) \/ signal_worker_stopped_running(w) \/ Dispatch(w) \/ Ready(w)
  BY <1>1, <1>2, <1>3 DEF Top, signal_worker_stopped_running, Dispatch, Ready, IncStealing
<1>4. CASE get_task(w) \/ NoMoreTasks(w) \/ ToStealing(w) \/ IncStealing(w) \/ StealCond(w)
  BY <1>1, <1>2, <1>4 DEF get_task, NoMoreTasks, ToStealing, IncStealing, StealCond
<1>5. CASE TargetNotWorking(w) \/ TargetWorking(w) \/ externally_steal_task(w) \/ TargetDone(w)
  BY <1>1, <1>2, <1>5 DEF TargetNotWorking, FailedToSteal, TargetWorking,
                          externally_steal_task, TargetDone, IncStealing
<1>6. CASE Succeed(w) \/ Fail(w)
  BY <1>1, <1>2, <1>6 DEF Succeed, Fail, Ran, BackToLoop, IncStealing
<1>7. CASE Stop(w) \/ ErrStop(w) \/ Dec(w) \/ ErrDec(w)
  BY <1>1, <1>2, <1>7 DEF Stop, ErrStop, stop_working, Dec, ErrDec,
                          signal_worker_stopped_working, IncStealing
<1>8. CASE ErrSignal(w) \/ ErrTell(w)
  BY <1>1, <1>2, <1>8 DEF ErrSignal, ErrTell, BackToLoop, IncStealing
<1> QED  BY <1>3, <1>4, <1>5, <1>6, <1>7, <1>8 DEF WorkerStep

LEMMA CountersOfWorker ==
    ASSUME IInv, NEW w \in Worker, WorkerStep(w)
    PROVE  Counters'
<1>1. TypeOK /\ Counters /\ UNCHANGED owner
  BY Frame DEF IInv, ownervars
<1>2. NumWorkingExact'
  <2> SUFFICES ASSUME owner \notin Starting PROVE num_working' = Cardinality(Stopping')
    BY <1>1 DEF NumWorkingExact, Starting
  <2>1. num_working = Cardinality(Stopping) /\ Stopping \subseteq Worker
    BY <1>1, StoppingIs DEF Counters, NumWorkingExact, Starting
  <2>2. CASE Dec(w) \/ ErrDec(w)
    <3>1. w \in Stopping /\ num_working >= 1
      BY <2>2, Counted DEF Dec, ErrDec, signal_worker_stopped_working, Goto
    <3>2. num_working' = (num_working - 1) % Wrap
      BY <2>2 DEF Dec, ErrDec, signal_worker_stopped_working
    <3>3. num_working \in 1..Wrap - 1 /\ Wrap \in Nat \ {0}
      BY <1>1, <3>1, WrapAssumption, WorkerFinite DEF TypeOK
    <3>4. num_working' = num_working - 1
      BY <3>2, <3>3
    <3> QED  BY <2>1, <2>2, <3>1, <3>4, OneWorkerLess, StoppingOfWorker
  <2>3. CASE ~(Dec(w) \/ ErrDec(w))
    BY <2>1, <2>3, StoppingOfWorker, Frame
  <2> QED  BY <2>2, <2>3
<1>3. (num_running = Cardinality({v \in Worker : pc[v] # "exited"}))'
  <2> DEFINE S == {v \in Worker : pc[v] # "exited"}
  <2>1. pc \in [Worker -> WorkerPC] /\ mode \in [Worker -> Mode]
    BY <1>1 DEF TypeOK
  <2>2. num_running = Cardinality(S) /\ S \subseteq Worker
    BY <1>1 DEF Counters
  <2>3. CASE signal_worker_stopped_running(w)
    <3>1. w \in S /\ S' = S \ {w} /\ num_running' = num_running - 1
      BY <2>1, <2>3 DEF signal_worker_stopped_running, Goto
    <3> QED  BY <2>2, <3>1, OneWorkerLess
  <2>4. CASE ~signal_worker_stopped_running(w)
    <3>1. pc[w] # "exited" /\ pc'[w] # "exited" /\ \A v \in Worker : v # w => pc'[v] = pc[v]
      BY <2>1, <2>4 DEF WorkerStep, Top, Dispatch, Ready, get_task, NoMoreTasks, ToStealing,
           IncStealing, StealCond, TargetNotWorking, FailedToSteal, TargetWorking,
           externally_steal_task, TargetDone, Succeed, Fail, Ran, Stop, ErrStop, stop_working, Dec,
           ErrDec, signal_worker_stopped_working, ErrSignal, ErrTell, Goto, BackToLoop, Mode
    <3>2. S' = S
      BY <3>1
    <3> QED  BY <2>2, <2>4, <3>2, Frame
  <2> QED  BY <2>3, <2>4
<1>4. (num_stealing + Cardinality({v \in Worker : MayCount(v)}) <= NumWorkers)'
  <2> DEFINE S == {v \in Worker : MayCount(v)}
  <2>1. num_stealing + Cardinality(S) <= NumWorkers /\ num_stealing \in Nat
    BY <1>1 DEF Counters, TypeOK
  <2>2. S \subseteq Worker /\ S' \subseteq Worker
    OBVIOUS
  <2>3. /\ Cardinality(S) \in Nat /\ Cardinality(S') \in Nat /\ NumWorkers \in Nat
    BY <2>2, SomeWorkers, WorkerFinite
  <2>4. CASE IncStealing(w)
    <3>1. w \in S /\ num_stealing' = num_stealing + 1
      BY <2>4 DEF IncStealing, MayCount, Goto
    <3>2. S' \subseteq S \ {w}
      BY <2>4, MayCountOfWorker
    <3>3. Cardinality(S') <= Cardinality(S \ {w})
      BY <2>2, <3>2, FewerWorkers
    <3>4. Cardinality(S \ {w}) = Cardinality(S) - 1
      BY <2>2, <3>1, OneWorkerLess
    <3>5. num_stealing' + Cardinality(S') <= NumWorkers
      <4> HIDE DEF S
      <4> QED  BY <2>1, <2>3, <3>1, <3>3, <3>4
    <3> QED  BY <3>5
  <2>5. CASE ~IncStealing(w)
    <3>1. S' \subseteq S /\ num_stealing' = num_stealing
      BY <2>5, MayCountOfWorker, Frame
    <3>2. Cardinality(S') <= Cardinality(S)
      BY <2>2, <3>1, FewerWorkers
    <3>3. num_stealing' + Cardinality(S') <= NumWorkers
      <4> HIDE DEF S
      <4> QED  BY <2>1, <2>3, <3>1, <3>2
    <3> QED  BY <3>3
  <2> QED  BY <2>4, <2>5
<1> QED  BY <1>2, <1>3, <1>4 DEF Counters

LEMMA CountersOfOwner ==
    ASSUME IInv, OwnerStep
    PROVE  Counters'
<1>1. TypeOK /\ Counters /\ Phases /\ batch \in DOMAIN Batches
  BY DEF IInv, TypeOK
<1>2. UNCHANGED <<pc, num_running>>
  BY DEF OwnerStep, Work, start_working, SetMax, Go, DoneWorking, ReadErrored, NextBatch,
         Shutdown, RequestStop, NotRunning
<1>3. NumWorkingExact'
  <2> SUFFICES ASSUME owner' \notin Starting PROVE num_working' = Cardinality(Stopping')
    BY DEF NumWorkingExact, Starting
  <2>1. CASE Go
    <3>1. num_working' = Cardinality(Starts) /\ mode' = mode
      BY <1>1, <2>1 DEF Go, OwnerGoto, Phases
    <3>2. \A v \in Worker : v \in Stopping' <=> v \in Starts
      <4> TAKE v \in Worker
      <4>1. pc[v] # "dec" /\ mode[v] = IF v \in Starts THEN "READY_TO_START" ELSE "WAITING"
        BY <1>1, <2>1 DEF Go, OwnerGoto, Phases, Starting, Started
      <4>2. pc[v] # "err_dec"
        BY <2>1, Busy DEF Go, OwnerGoto, Starting
      <4> QED  BY <1>2, <3>1, <4>1, <4>2 DEF Stopping, Signals
    <3>3. Stopping' = Starts
      BY <1>1, <3>2, StartsAre DEF Stopping
    <3> QED  BY <3>1, <3>3
  <2>2. CASE ~Go
    <3>1. owner \notin Starting /\ mode' = mode /\ num_working' = num_working
      BY <2>2 DEF OwnerStep, Work, start_working, SetMax, DoneWorking, ReadErrored, NextBatch,
                  Shutdown, RequestStop, NotRunning, OwnerGoto, Starting, counters
    <3>2. Stopping' = Stopping
      BY <1>2, <3>1 DEF Stopping, Signals
    <3> QED  BY <1>1, <3>1, <3>2 DEF Counters, NumWorkingExact, Starting
  <2> QED  BY <2>1, <2>2
<1>4. (num_running = Cardinality({v \in Worker : pc[v] # "exited"}))'
  BY <1>1, <1>2 DEF Counters
<1>5. (num_stealing + Cardinality({v \in Worker : MayCount(v)}) <= NumWorkers)'
  <2> DEFINE S == {v \in Worker : MayCount(v)}
  <2>1. Cardinality(S) \in 0..NumWorkers /\ Cardinality(S') \in 0..NumWorkers
    <3>1. S \subseteq Worker /\ S' \subseteq Worker
      OBVIOUS
    <3> QED  BY <3>1, SomeWorkers
  <2>2. CASE Work \/ start_working
    <3>1. num_stealing' = 0
      BY <1>1, <2>2 DEF Work, start_working, counters, Phases, Starting, OwnerGoto
    <3> HIDE DEF S
    <3> QED  BY <2>1, <3>1, WorkerFinite DEF S
  <2>3. CASE ~(Work \/ start_working)
    <3>1. mode' = mode /\ num_stealing' = num_stealing
      BY <2>3 DEF OwnerStep, SetMax, Go, DoneWorking, ReadErrored, NextBatch, Shutdown,
                  RequestStop, NotRunning, counters
    <3>2. S' = S
      BY <1>2, <3>1 DEF MayCount
    <3> QED  BY <1>1, <3>1, <3>2 DEF Counters
  <2> QED  BY <2>2, <2>3
<1> QED  BY <1>3, <1>4, <1>5 DEF Counters

-----------------------------------------------------------------------------
(* The tasks. *)

LEMMA RoundsOfWorker ==
    ASSUME IInv, NEW w \in Worker, WorkerStep(w)
    PROVE  Rounds'
<1> DEFINE Trying == LoopPC \cup ErrPC \cup {"get_task", "run"}
<1> SUFFICES ASSUME NEW v \in Worker, pc'[v] \in Trying PROVE failed_to_steal'[v] < NumWorkers
  BY DEF Rounds
<1>1. /\ pc \in [Worker -> WorkerPC] /\ mode \in [Worker -> Mode]
      /\ failed_to_steal \in [Worker -> 0..NumWorkers] /\ max_num_working \in 0..NumWorkers
  BY DEF IInv, TypeOK
<1>2. /\ pc[v] \in Trying => failed_to_steal[v] < NumWorkers
      /\ pc[w] \in Trying => failed_to_steal[w] < NumWorkers
  BY DEF IInv, Rounds
<1>3. NumWorkers \in Nat \ {0}
  BY WorkerFinite
<1> USE DEF Goto, Set, LoopPC, ErrPC, locals
<1>4. CASE Dispatch(w)
  BY <1>1, <1>2, <1>3, <1>4 DEF Dispatch
<1>5. CASE TargetNotWorking(w) \/ TargetDone(w)
  BY <1>1, <1>2, <1>3, <1>5 DEF TargetNotWorking, TargetDone, FailedToSteal
<1>6. CASE externally_steal_task(w)
  BY <1>1, <1>2, <1>3, <1>6 DEF externally_steal_task
<1>7. CASE ~(Dispatch(w) \/ TargetNotWorking(w) \/ TargetDone(w) \/ externally_steal_task(w))
  <2>1. failed_to_steal' = failed_to_steal
    BY <1>7 DEF WorkerStep, Top, signal_worker_stopped_running, Ready, get_task, NoMoreTasks,
         ToStealing, IncStealing, StealCond, TargetWorking, Succeed, Fail, Ran, Stop, ErrStop,
         stop_working, Dec, ErrDec, signal_worker_stopped_working, ErrSignal, ErrTell
  <2>2. pc'[v] \in Trying => pc[v] \in Trying
    BY <1>1, <1>7 DEF WorkerStep, Top, signal_worker_stopped_running, Ready, get_task, NoMoreTasks,
         ToStealing, IncStealing, StealCond, TargetWorking, Succeed, Fail, Ran, Stop, ErrStop,
         stop_working, Dec, ErrDec, signal_worker_stopped_working, ErrSignal, ErrTell, BackToLoop
  <2> QED  BY <1>2, <2>1, <2>2
<1> QED  BY <1>4, <1>5, <1>6, <1>7

\* The facts about tasks and the variables they are about
TaskInv == Hands /\ LeftOnce /\ AtMostOnce /\ Covered

LEMMA Ends ==
    ASSUME NEW a \in Nat, NEW b \in Nat
    PROVE  /\ (a + 1)..b - 1 = (a..b - 1) \ {a}
           /\ a..(b - 1) - 1 = (a..b - 1) \ {b - 1}
OBVIOUS

\* Task i is taken by w out of t's interval.
LEMMA TakeKeeps ==
    ASSUME IInv, NEW w \in Worker, NEW t \in Worker, NEW i \in Left(t),
           pc[w] # "run", owner \notin {"work", "start"},
           \A v \in Worker : Left(v)' = IF v = t THEN Left(t) \ {i} ELSE Left(v),
           task' = [task EXCEPT ![w] = i], pc' = [pc EXCEPT ![w] = "run"],
           UNCHANGED <<runs, batch, owner>>
    PROVE  TaskInv'
<1>1. /\ Hands /\ LeftOnce /\ AtMostOnce /\ Covered /\ TypeOK
      /\ Task' = Task /\ DOMAIN runs = Task
      /\ task \in [Worker -> Nat \cup {NoTask}] /\ pc \in [Worker -> WorkerPC]
  BY DEF IInv, TypeOK, Task, NumTasks
<1>2. i \in Task /\ i # NoTask /\ runs[i] = 0 /\ task[w] = NoTask
      /\ \A v \in Worker : task[v] # i /\ (i \in Left(v) => v = t)
  BY <1>1, NoTaskAssumption DEF LeftOnce, Hands, Task
<1>3. \A v \in Worker : task'[v] = IF v = w THEN i ELSE task[v]
  BY <1>1
<1>4. Hands'
  BY <1>1, <1>2, <1>3 DEF Hands
<1>5. LeftOnce'
  BY <1>1, <1>2, <1>3 DEF LeftOnce
<1>6. AtMostOnce'
  BY <1>1, <1>2, <1>3 DEF AtMostOnce
<1>7. Covered'
  <2>1. ASSUME NEW j \in Task PROVE Settled(j)'
    <3>1. Settled(j)
      BY <1>1 DEF Covered
    <3>2. CASE j = i
      BY <1>3, <3>2 DEF Settled
    <3>3. CASE j # i
      <4>1. \A v \in Worker : task[v] = j => task'[v] = j
        BY <1>2, <1>3, NoTaskAssumption DEF Task
      <4>2. \A v \in Worker : j \in Left(v) => j \in Left(v)'
        BY <3>3
      <4> QED  BY <3>1, <4>1, <4>2 DEF Settled
    <3> QED  BY <3>2, <3>3
  <2> QED  BY <1>1, <2>1 DEF Covered
<1> QED  BY <1>4, <1>5, <1>6, <1>7 DEF TaskInv

\* The task in w's hands has run.
LEMMA RunKeeps ==
    ASSUME IInv, NEW w \in Worker, NEW to \in WorkerPC \ {"run"}, Ran(w, to),
           UNCHANGED <<batch, owner>>
    PROVE  TaskInv'
<1> DEFINE i == task[w]
<1>1. /\ Hands /\ LeftOnce /\ AtMostOnce /\ Covered /\ TypeOK
      /\ Task' = Task /\ DOMAIN runs = Task /\ runs \in [Task -> Nat]
      /\ task \in [Worker -> Nat \cup {NoTask}] /\ pc \in [Worker -> WorkerPC]
  BY DEF IInv, TypeOK, Task, NumTasks
<1>2. pc[w] = "run" /\ i \in Task /\ i # NoTask /\ runs[i] = 0
      /\ owner \notin {"work", "start"}
  BY <1>1, Busy DEF Ran, Goto, Hands, AtMostOnce, Starting
<1>3. \A v \in Worker : Left(v)' = Left(v)
  BY DEF Ran, share, Left
<1>4. /\ \A v \in Worker : task'[v] = IF v = w THEN NoTask ELSE task[v]
      /\ \A v \in Worker : pc'[v] = IF v = w THEN to ELSE pc[v]
      /\ \A j \in Task : runs'[j] = IF j = i THEN 1 ELSE runs[j]
      /\ DOMAIN runs' = Task
  BY <1>1, <1>2 DEF Ran, Goto, Set
<1>5. Hands'
  BY <1>1, <1>4 DEF Hands
<1>6. LeftOnce'
  <2> SUFFICES ASSUME NEW v \in Worker, NEW j \in Left(v)
               PROVE  /\ j \in Task /\ runs'[j] = 0
                      /\ \A u \in Worker : task'[u] # j /\ (j \in Left(u) => u = v)
    BY <1>1, <1>3 DEF LeftOnce
  <2>1. /\ j \in Task /\ runs[j] = 0
        /\ \A u \in Worker : task[u] # j /\ (j \in Left(u) => u = v)
    BY <1>1 DEF LeftOnce
  <2>2. j # i /\ j # NoTask
    BY <2>1, NoTaskAssumption DEF Task
  <2> QED  BY <1>4, <2>1, <2>2
<1>7. AtMostOnce'
  <2>1. \A j \in Task : runs'[j] <= 1
    BY <1>1, <1>4 DEF AtMostOnce
  <2>2. ASSUME NEW v \in Worker, task'[v] # NoTask
        PROVE  runs'[task'[v]] = 0 /\ task'[v] = task[v]
    <3>1. v # w /\ task'[v] = task[v] /\ task[v] \in Task
      BY <1>1, <1>4, <2>2 DEF Hands
    <3>2. task[v] # i /\ runs[task[v]] = 0
      BY <1>1, <1>2, <2>2, <3>1 DEF AtMostOnce
    <3> QED  BY <1>4, <3>1, <3>2
  <2> QED  BY <1>1, <1>4, <2>1, <2>2 DEF AtMostOnce
<1>8. Covered'
  <2>1. ASSUME NEW j \in Task PROVE Settled(j)'
    <3>1. Settled(j)
      BY <1>1, <1>2 DEF Covered
    <3> QED  BY <1>2, <1>3, <1>4, <3>1 DEF Settled
  <2> QED  BY <1>1, <1>2, <2>1 DEF Covered
<1> QED  BY <1>5, <1>6, <1>7, <1>8 DEF TaskInv

LEMMA TasksOfWorker ==
    ASSUME IInv, NEW w \in Worker, WorkerStep(w)
    PROVE  TaskInv'
<1>1. UNCHANGED <<owner, batch, next_worker>>
  BY Frame DEF ownervars
<1>2. /\ TypeOK /\ TaskInv
      /\ pc \in [Worker -> WorkerPC] /\ mode \in [Worker -> Mode]
      /\ current_index \in [Worker -> Nat] /\ end_index \in [Worker -> Nat]
      /\ target \in [Worker -> Worker]
  BY DEF IInv, TypeOK, TaskInv
<1>3. CASE get_task(w)
  <2> DEFINE i == current_index[w]
  <2>1. i \in Left(w) /\ pc[w] = "get_task"
    BY <1>2, <1>3 DEF get_task, Left, Goto
  <2>2. owner \notin {"work", "start"}
    BY <2>1, Busy DEF Starting
  <2>3. ASSUME NEW v \in Worker PROVE Left(v)' = IF v = w THEN Left(w) \ {i} ELSE Left(v)
    <3>1. /\ current_index'[v] = IF v = w THEN i + 1 ELSE current_index[v]
          /\ end_index'[v] = end_index[v]
          /\ current_index[v] \in Nat /\ end_index[v] \in Nat
      BY <1>2, <1>3 DEF get_task, Set
    <3>2. (i + 1)..end_index[w] - 1 = Left(w) \ {i}
      BY <1>2, Ends DEF Left
    <3>3. CASE v = w
      BY <3>1, <3>2, <3>3 DEF Left
    <3>4. CASE v # w
      BY <3>1, <3>4 DEF Left
    <3> QED  BY <3>3, <3>4
  <2>4. task' = [task EXCEPT ![w] = i] /\ pc' = [pc EXCEPT ![w] = "run"] /\ runs' = runs
    BY <1>3 DEF get_task, Set, Goto, history
  <2> QED  BY <1>1, <2>1, <2>2, <2>3, <2>4, TakeKeeps
<1>4. CASE externally_steal_task(w)
  <2> DEFINE t == target[w]
             i == end_index[t] - 1
  <2>1. t \in Worker /\ i \in Left(t) /\ pc[w] = "steal"
    BY <1>2, <1>4 DEF externally_steal_task, Left, Goto
  <2>2. owner \notin {"work", "start"}
    BY <2>1, Busy DEF Starting
  <2>3. ASSUME NEW v \in Worker PROVE Left(v)' = IF v = t THEN Left(t) \ {i} ELSE Left(v)
    <3>1. /\ end_index'[v] = IF v = t THEN i ELSE end_index[v]
          /\ current_index'[v] = current_index[v]
          /\ current_index[v] \in Nat /\ end_index[v] \in Nat
      BY <1>2, <1>4, <2>1 DEF externally_steal_task, Set
    <3> QED  BY <3>1, Ends DEF Left
  <2>4. task' = [task EXCEPT ![w] = i] /\ pc' = [pc EXCEPT ![w] = "run"] /\ runs' = runs
    BY <1>4 DEF externally_steal_task, Set, Goto, history
  <2> QED  BY <1>1, <2>1, <2>2, <2>3, <2>4, TakeKeeps
<1>5. CASE Succeed(w) \/ Fail(w)
  <2>1. PICK to \in WorkerPC \ {"run"} : Ran(w, to)
    BY <1>5 DEF Succeed, Fail, BackToLoop, WorkerPC
  <2> QED  BY <1>1, <2>1, RunKeeps
<1>6. CASE ~(get_task(w) \/ externally_steal_task(w) \/ Succeed(w) \/ Fail(w))
  <2>1. UNCHANGED <<current_index, end_index, task, runs>>
    BY <1>6, Frame
  <2>2. \A v \in Worker : pc'[v] = "run" <=> pc[v] = "run"
    BY <1>2, <1>6 DEF WorkerStep, Top, signal_worker_stopped_running, Dispatch, Ready,
         NoMoreTasks, ToStealing, IncStealing, StealCond, TargetNotWorking, FailedToSteal,
         TargetWorking, TargetDone, Stop, ErrStop, stop_working, Dec, ErrDec,
         signal_worker_stopped_working, ErrSignal, ErrTell, Goto, BackToLoop, Mode
  <2>3. \A v : Left(v)' = Left(v)
    BY <2>1 DEF Left
  <2>4. Task' = Task /\ \A i : ShareStart(i)' = ShareStart(i)
    BY <1>1 DEF Task, NumTasks, ShareStart
  <2>5. Hands' /\ LeftOnce' /\ AtMostOnce'
    BY <1>2, <2>1, <2>2, <2>3, <2>4 DEF TaskInv, Hands, LeftOnce, AtMostOnce
  <2>6. Covered'
    BY <1>1, <1>2, <2>1, <2>3, <2>4 DEF TaskInv, Covered, Settled
  <2> QED  BY <2>5, <2>6 DEF TaskInv
<1> QED  BY <1>3, <1>4, <1>5, <1>6

LEMMA TasksOfOwner ==
    ASSUME IInv, OwnerStep
    PROVE  TaskInv' /\ Rounds'
<1>1. /\ TypeOK /\ TaskInv /\ Phases /\ batch \in DOMAIN Batches /\ DOMAIN runs = Task
      /\ current_index \in [Worker -> Nat] /\ end_index \in [Worker -> Nat]
  BY DEF IInv, TypeOK, TaskInv
<1>2. UNCHANGED <<pc, task, failed_to_steal>>
  BY DEF OwnerStep, Work, start_working, SetMax, Go, DoneWorking, ReadErrored, NextBatch,
         Shutdown, RequestStop, NotRunning, locals
<1>3. Rounds'
  BY <1>2 DEF IInv, Rounds
<1>4. CASE start_working
  <2> DEFINE k == next_worker
             Share(v) == ShareStart(v)..ShareStart(v + 1) - 1
  <2>1. /\ Starts = 0..LastStart /\ Starts \subseteq Worker /\ LastStart \in Worker
        /\ k \in Starts /\ k \in Worker /\ k \in Nat /\ LastStart \in Nat /\ k <= LastStart
    BY <1>1, <1>4, StartsAre DEF start_working, Worker
  <2>2. /\ ~any_failed /\ owner = "start" /\ \A i \in Task : runs[i] = 0
        /\ \A v \in Worker : v < k =>
              current_index[v] = ShareStart(v) /\ end_index[v] = ShareStart(v + 1)
        /\ \A i \in 0..ShareStart(k) - 1 : \E v \in Worker : v < k /\ i \in Left(v)
    BY <1>1, <1>4 DEF start_working, OwnerGoto, Phases, Starting, TaskInv, Covered
  <2>3. \A v \in Worker : task[v] = NoTask /\ (v >= k => ~(current_index[v] < end_index[v]))
    <3> TAKE v \in Worker
    <3>1. v >= k => mode[v] = "WAITING"
      BY <1>1, <2>1, <2>2 DEF Phases, Starting, Started, Worker
    <3> QED  BY <2>2, <3>1, Idle
  <2>4. /\ UNCHANGED <<batch, runs>> /\ Task' = Task
        /\ \A i : ShareStart(i)' = ShareStart(i)
    BY <1>4 DEF start_working, history, Task, NumTasks, ShareStart
  <2>5. ASSUME NEW v \in Worker
        PROVE  /\ v <= k => /\ current_index'[v] = ShareStart(v)
                            /\ end_index'[v] = ShareStart(v + 1)
               /\ Left(v)' = IF v <= k THEN Share(v) ELSE {}
    <3>1. v \in Nat /\ current_index[v] \in Nat /\ end_index[v] \in Nat
      BY <1>1 DEF Worker
    <3>2. /\ current_index'[v] = IF v = k THEN ShareStart(v) ELSE current_index[v]
          /\ end_index'[v] = IF v = k THEN ShareStart(v + 1) ELSE end_index[v]
      BY <1>1, <1>4, <2>1 DEF start_working, Set
    <3>3. v <= k => /\ current_index'[v] = ShareStart(v)
                    /\ end_index'[v] = ShareStart(v + 1)
      BY <2>1, <2>2, <3>1, <3>2
    <3>4. ~(v <= k) => Left(v)' = {}
      <4>1. ~(v <= k) => v # k /\ v >= k
        BY <2>1, <3>1
      <4> QED  BY <2>3, <3>1, <3>2, <4>1 DEF Left
    <3> QED  BY <3>3, <3>4 DEF Left
  <2>6. ASSUME NEW v \in Worker, v <= k, NEW i \in Share(v)
        PROVE  i \in Task /\ \A u \in Worker : u <= k /\ i \in Share(u) => u = v
    <3>1. v \in Nat /\ v + 1 \in Nat /\ LastStart + 1 \in Nat /\ v + 1 <= LastStart + 1
      BY <2>1, <2>6 DEF Worker
    <3>2. /\ ShareStart(v) \in Nat /\ ShareStart(v + 1) \in Nat
          /\ ShareStart(v + 1) <= NumTasks
      BY <1>1, <3>1, Shares
    <3>3. ASSUME NEW u \in Worker, i \in Share(u) PROVE u = v
      <4>1. u \in Nat /\ u + 1 \in Nat
        BY DEF Worker
      <4>2. ShareStart(u) \in Nat /\ ShareStart(u + 1) \in Nat
        BY <1>1, <4>1, Shares
      <4>3. CASE u + 1 <= v
        <5>1. ShareStart(u + 1) <= ShareStart(v)
          BY <1>1, <3>1, <4>1, <4>3, Shares
        <5> QED  BY <2>6, <3>2, <3>3, <4>2, <5>1
      <4>4. CASE v + 1 <= u
        <5>1. ShareStart(v + 1) <= ShareStart(u)
          BY <1>1, <3>1, <4>1, <4>4, Shares
        <5> QED  BY <2>6, <3>2, <3>3, <4>2, <5>1
      <4> QED  BY <3>1, <4>1, <4>3, <4>4
    <3>4. i \in Task
      <4>1. NumTasks \in Nat
        BY <1>1, BatchSize
      <4> QED  BY <2>6, <3>2, <4>1 DEF Task
    <3> QED  BY <3>3, <3>4
  <2>7. Hands' /\ AtMostOnce'
    BY <1>1, <1>2, <2>3, <2>4 DEF TaskInv, Hands, AtMostOnce
  <2>8. LeftOnce'
    <3> SUFFICES ASSUME NEW v \in Worker, NEW i \in Left(v)'
                 PROVE  /\ i \in Task /\ runs[i] = 0
                        /\ \A u \in Worker : task[u] # i /\ (i \in Left(u)' => u = v)
      BY <1>2, <2>4 DEF LeftOnce
    <3>1. v <= k /\ i \in Share(v)
      BY <2>5
    <3>2. i \in Task /\ \A u \in Worker : u <= k /\ i \in Share(u) => u = v
      BY <2>6, <3>1
    <3>3. i # NoTask
      BY <3>2, NoTaskAssumption DEF Task
    <3> QED  BY <2>2, <2>3, <2>5, <3>2, <3>3
  <2>9. \A i \in 0..ShareStart(k + 1) - 1 : \E v \in Worker : v <= k /\ i \in Left(v)'
    <3> TAKE i \in 0..ShareStart(k + 1) - 1
    <3>1. ShareStart(k) \in Nat /\ ShareStart(k + 1) \in Nat
      <4>1. k + 1 \in Nat
        BY <2>1
      <4> QED  BY <1>1, <2>1, <4>1, Shares
    <3>2. CASE i \in 0..ShareStart(k) - 1
      <4>1. PICK v \in Worker : v < k /\ i \in Left(v)
        BY <2>2, <3>2
      <4>2. v <= k /\ Left(v) = Share(v)
        BY <2>1, <2>2, <4>1 DEF Left, Worker
      <4>3. i \in Left(v)'
        BY <2>5, <4>1, <4>2
      <4> QED  BY <4>2, <4>3
    <3>3. CASE i \notin 0..ShareStart(k) - 1
      <4>1. i \in Share(k)
        BY <3>1, <3>3
      <4>2. k <= k
        BY <2>1
      <4> QED  BY <2>1, <2>5, <4>1, <4>2
    <3> QED  BY <3>2, <3>3
  <2>10. Covered'
    <3>1. CASE k + 1 \in Starts
      <4>1. k + 1 < NumWorkers /\ NumWorkers \in Nat \ {0}
        BY <2>1, <3>1, WorkerFinite DEF Worker
      <4>2. (k + 1) % NumWorkers = k + 1
        BY <2>1, <4>1
      <4>3. owner' = "start" /\ next_worker' = k + 1
        BY <1>4, <3>1, <4>2 DEF start_working, OwnerGoto
      <4>4. \A v \in Worker : v < k + 1 <=> v <= k
        BY <2>1 DEF Worker
      <4> QED  BY <2>2, <2>4, <2>5, <2>9, <4>3, <4>4 DEF Covered
    <3>2. CASE k + 1 \notin Starts
      <4>1. k = LastStart /\ owner' = "max"
        BY <1>4, <2>1, <3>2 DEF start_working, OwnerGoto
      <4>2. Task = 0..ShareStart(k + 1) - 1
        BY <1>1, <4>1, Shares DEF Task
      <4>3. ASSUME NEW i \in Task PROVE Settled(i)'
        BY <2>9, <4>2 DEF Settled
      <4> QED  BY <2>4, <4>1, <4>3 DEF Covered
    <3> QED  BY <3>1, <3>2
  <2> QED  BY <1>3, <2>7, <2>8, <2>10 DEF TaskInv
<1>5. CASE NextBatch
  <2>1. owner = "returned" /\ ~any_failed
    <3>1. batch \in Nat /\ batch < Len(Batches) /\ Len(Batches) \in Nat
      BY <1>1, <1>5, BatchesAssumption DEF NextBatch
    <3> QED  BY <1>1, <1>5, <3>1 DEF NextBatch, OwnerGoto, Phases
  <2>2. \A v \in Worker : task[v] = NoTask /\ ~(current_index[v] < end_index[v])
    BY <2>1, Idle DEF Starting
  <2>3. UNCHANGED <<current_index, end_index>> /\ owner' = "work"
        /\ runs' = [i \in Task' |-> 0]
    BY <1>5 DEF NextBatch, OwnerGoto, share, Task, NumTasks
  <2>4. \A v \in Worker : Left(v)' = {}
    BY <1>1, <2>2, <2>3 DEF Left
  <2>5. Hands'
    BY <1>1, <1>2, <2>2 DEF TaskInv, Hands
  <2>6. LeftOnce' /\ AtMostOnce' /\ Covered'
    BY <1>2, <2>2, <2>3, <2>4 DEF LeftOnce, AtMostOnce, Covered
  <2> QED  BY <1>3, <2>5, <2>6 DEF TaskInv
<1>6. CASE Work
  <2>1. UNCHANGED <<current_index, end_index, runs, batch>> /\ owner = "work" /\ owner' = "start"
        /\ next_worker' = 0
    BY <1>6 DEF Work, OwnerGoto, share, history
  <2>2. Task' = Task /\ (\A v : Left(v)' = Left(v)) /\ ShareStart(0)' = 0
    <3>1. ShareStart(0)' = ShareStart(0)
      BY <2>1 DEF ShareStart, NumTasks
    <3> QED  BY <1>1, <2>1, <3>1, Shares DEF Task, NumTasks, Left
  <2>3. Hands' /\ LeftOnce' /\ AtMostOnce'
    BY <1>1, <1>2, <2>1, <2>2 DEF TaskInv, Hands, LeftOnce, AtMostOnce
  <2>4. Covered'
    BY <1>1, <2>1, <2>2 DEF TaskInv, Covered, Worker
  <2> QED  BY <1>3, <2>3, <2>4 DEF TaskInv
<1>7. CASE ~(start_working \/ NextBatch \/ Work)
  <2>1. UNCHANGED <<current_index, end_index, runs, batch>>
        /\ owner \notin {"work", "start"} /\ owner' \notin {"work", "start"}
    BY <1>7 DEF OwnerStep, SetMax, Go, DoneWorking, ReadErrored, Shutdown, RequestStop, NotRunning,
                OwnerGoto, share, history
  <2>2. Task' = Task /\ \A v : Left(v)' = Left(v)
    BY <2>1 DEF Task, NumTasks, Left
  <2>3. Hands' /\ LeftOnce' /\ AtMostOnce'
    BY <1>1, <1>2, <2>1, <2>2 DEF TaskInv, Hands, LeftOnce, AtMostOnce
  <2>4. Covered'
    BY <1>1, <1>2, <2>1, <2>2 DEF TaskInv, Covered, Settled
  <2> QED  BY <1>3, <2>3, <2>4 DEF TaskInv
<1> QED  BY <1>4, <1>5, <1>6, <1>7

-----------------------------------------------------------------------------
(* The theorems. *)

LEMMA Initially == ASSUME Init PROVE IInv
<1> USE DEF Init
<1>1. 1 \in DOMAIN Batches /\ batch \in DOMAIN Batches
  BY BatchesAssumption
<1>2. NumWorkers \in Nat \ {0} /\ 0 \in Worker /\ NumTasks \in Nat \ {0}
      /\ Wrap \in Nat /\ Wrap > NumWorkers
  BY <1>1, WorkerFinite, BatchSize, WrapAssumption
<1>3. TypeOK
  <2>1. 0 \in 0..NumWorkers /\ NumWorkers \in 0..NumWorkers /\ 0 \in 0..Wrap - 1
    BY <1>2
  <2>2. runs \in [Task -> Nat]
    OBVIOUS
  <2> QED  BY <1>1, <1>2, <2>1, <2>2 DEF TypeOK, Mode, WorkerPC, OwnerPC
<1>4. Modes /\ Phases /\ Rounds
  BY DEF Modes, ModeOf, Orderly, LoopPC, ErrPC, Phases, Starting, Rounds
<1>5. Counters
  <2>1. Stopping = {} /\ {w \in Worker : pc[w] # "exited"} = Worker
        /\ {w \in Worker : MayCount(w)} = {}
    BY DEF Stopping, Signals, MayCount
  <2> QED  BY <1>2, <2>1, WorkerFinite, FS_EmptySet DEF Counters, NumWorkingExact
<1>6. Hands /\ LeftOnce /\ AtMostOnce /\ Covered
  <2>1. \A w \in Worker : Left(w) = {} /\ task[w] = NoTask
    BY DEF Left
  <2> QED  BY <2>1 DEF Hands, LeftOnce, AtMostOnce, Covered
<1> QED  BY <1>3, <1>4, <1>5, <1>6 DEF IInv

LEMMA Inductive == IInv /\ [Next]_vars => IInv'
<1> SUFFICES ASSUME IInv, [Next]_vars PROVE IInv'
  OBVIOUS
<1>1. CASE OwnerStep
  BY <1>1, TypesOfOwner, ModesOfOwner, PhasesOfOwner, CountersOfOwner, TasksOfOwner
  DEF IInv, TaskInv
<1>2. ASSUME NEW w \in Worker, WorkerStep(w) PROVE IInv'
  BY <1>2, TypesOfWorker, ModesOfWorker, PhasesOfWorker, CountersOfWorker, RoundsOfWorker,
     TasksOfWorker
  DEF IInv, TaskInv
<1>3. CASE UNCHANGED vars
  <2> USE <1>3 DEF vars, share, counters, locals, ownervars, history
  <2>1. TypeOK'
    BY DEF IInv, TypeOK, Task, NumTasks
  <2>2. Modes'
    BY DEF IInv, Modes, ModeOf, Orderly
  <2>3. Phases'
    BY DEF IInv, Phases, Starting, Started, Starts, NumTasks
  <2>4. Counters'
    BY DEF IInv, Counters, NumWorkingExact, Stopping, Signals, MayCount
  <2>5. Rounds' /\ Hands' /\ LeftOnce' /\ AtMostOnce'
    BY DEF IInv, Rounds, Hands, LeftOnce, AtMostOnce, Left, Task, NumTasks
  <2>6. Covered'
    BY DEF IInv, Covered, Settled, Left, Task, NumTasks, ShareStart
  <2> QED  BY <2>1, <2>2, <2>3, <2>4, <2>5, <2>6 DEF IInv
<1> QED  BY <1>1, <1>2, <1>3 DEF Next

LEMMA Always == Spec => []IInv
BY Initially, Inductive, PTL DEF Spec

\* The types of the variables, and with them the bounds of the counters.
THEOREM TypeCorrect == Spec => []TypeOK
<1>1. IInv => TypeOK
  BY DEF IInv
<1> QED  BY <1>1, Always, PTL

\* No task is handed out twice, however many thieves meet at an interval.
THEOREM AtMostOnceHolds == Spec => []AtMostOnce
<1>1. IInv => AtMostOnce
  BY DEF IInv
<1> QED  BY <1>1, Always, PTL

\* num_working is the number of workers that have not said they stopped.
THEOREM NumWorkingExactHolds == Spec => []NumWorkingExact
<1>1. IInv => NumWorkingExact
  BY DEF IInv, Counters
<1> QED  BY <1>1, Always, PTL

\* Nobody runs a task outside of the wait for it, unless one failed.
THEOREM NobodyRunsAfterWaitHolds == Spec => []NobodyRunsAfterWait
<1>1. IInv => NobodyRunsAfterWait
  BY Idle DEF NobodyRunsAfterWait
<1> QED  BY <1>1, Always, PTL

\* If no task failed, every one has run when the wait returns.
THEOREM AllRanOnSuccessHolds == Spec => []AllRanOnSuccess
<1>1. IInv => AllRanOnSuccess
  <2> SUFFICES ASSUME IInv, owner = "returned", ~any_failed, NEW i \in DOMAIN runs
               PROVE  runs[i] = 1
    BY DEF AllRanOnSuccess
  <2>1. i \in Task /\ Settled(i) /\ i # NoTask
    BY NoTaskAssumption DEF IInv, TypeOK, Covered, Task
  <2>2. ASSUME NEW w \in Worker PROVE task[w] # i /\ i \notin Left(w)
    <3>1. task[w] = NoTask /\ ~(current_index[w] < end_index[w])
      BY Idle DEF Starting
    <3>2. current_index[w] \in Nat /\ end_index[w] \in Nat
      BY DEF IInv, TypeOK
    <3> QED  BY <2>1, <3>1, <3>2 DEF Left
  <2> QED  BY <2>1, <2>2 DEF Settled
<1> QED  BY <1>1, Always, PTL
============
