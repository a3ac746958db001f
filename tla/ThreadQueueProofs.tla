-------------------------- MODULE ThreadQueueProofs --------------------------
(***************************************************************************)
(* Safety of core::ThreadQueue for every number of workers and every set   *)
(* of tasks.  Lifecycle strengthens TypeOK to an inductive invariant: it   *)
(* ties num_workers_running to the threads that have not left their loop.  *)
(* OnePlace and HoldsWhileWorking are inductive together, given TypeOK.    *)
(***************************************************************************)
EXTENDS ThreadQueue, FiniteSetTheorems, SequenceTheorems, TLAPS

\* A worker between taking a task and finishing it holds it, and no other one does.
HoldsWhileWorking ==
    \A w \in Worker : held[w] # NoTask <=> pc[w] \in {"got_task", "run"}

-----------------------------------------------------------------------------
(* The deque operations, as sets of elements. *)

Distinct(s) == \A i, j \in DOMAIN s : s[i] = s[j] => i = j

\* emplace_front adds its task and keeps the deque without repetitions.
LEMMA PushFront ==
    ASSUME NEW S, NEW s \in Seq(S), NEW t \in S
    PROVE  /\ <<t>> \o s \in Seq(S)
           /\ Elements(<<t>> \o s) = {t} \cup Elements(s)
           /\ Distinct(s) /\ t \notin Elements(s) => Distinct(<<t>> \o s)
<1> DEFINE r == <<t>> \o s
<1>1. <<t>> \in Seq(S) /\ Len(<<t>>) = 1 /\ <<t>>[1] = t
  OBVIOUS
<1>2. r \in Seq(S) /\ Len(r) = Len(s) + 1
      /\ \A i \in 1..Len(s) + 1 : r[i] = IF i <= 1 THEN t ELSE s[i - 1]
  BY <1>1, ConcatProperties
<1>3. DOMAIN r = 1..Len(s) + 1 /\ DOMAIN s = 1..Len(s) /\ Len(s) \in Nat
  BY <1>2
<1> HIDE DEF r
<1>4. Elements(r) = {t} \cup Elements(s)
  <2>1. ASSUME NEW x \in Elements(r) PROVE x \in {t} \cup Elements(s)
    <3>1. PICK i \in 1..Len(s) + 1 : x = r[i]
      BY <1>3 DEF Elements
    <3>2. CASE i <= 1
      BY <3>1, <3>2, <1>2
    <3>3. CASE ~(i <= 1)
      <4>1. i - 1 \in 1..Len(s) /\ x = s[i - 1]
        BY <3>1, <3>3, <1>2, <1>3
      <4> QED  BY <4>1, <1>3 DEF Elements
    <3> QED  BY <3>2, <3>3
  <2>2. t \in Elements(r)
    <3>1. 1 \in 1..Len(s) + 1 /\ r[1] = t
      BY <1>2, <1>3
    <3> QED  BY <3>1, <1>3 DEF Elements
  <2>3. ASSUME NEW x \in Elements(s) PROVE x \in Elements(r)
    <3>1. PICK i \in 1..Len(s) : x = s[i]
      BY <1>3 DEF Elements
    <3>2. i + 1 \in 1..Len(s) + 1 /\ r[i + 1] = s[i]
      BY <3>1, <1>2, <1>3
    <3> QED  BY <3>1, <3>2, <1>3 DEF Elements
  <2> QED  BY <2>1, <2>2, <2>3
<1>5. ASSUME Distinct(s), t \notin Elements(s) PROVE Distinct(r)
  <2> SUFFICES ASSUME NEW i \in 1..Len(s) + 1, NEW j \in 1..Len(s) + 1, r[i] = r[j]
               PROVE  i = j
    BY <1>3 DEF Distinct
  <2>1. \A k \in 1..Len(s) : s[k] # t
    BY <1>5, <1>3 DEF Elements
  <2>2. \A k \in 1..Len(s) + 1 : ~(k <= 1) => k - 1 \in 1..Len(s) /\ r[k] = s[k - 1]
    BY <1>2, <1>3
  <2>3. \A k \in 1..Len(s) + 1 : k <= 1 => k = 1 /\ r[k] = t
    BY <1>2, <1>3
  <2>4. CASE i <= 1 \/ j <= 1
    BY <2>1, <2>2, <2>3, <2>4
  <2>5. CASE ~(i <= 1) /\ ~(j <= 1)
    <3>1. i - 1 = j - 1
      BY <2>2, <2>5, <1>3, <1>5 DEF Distinct
    <3> QED  BY <3>1
  <2> QED  BY <2>4, <2>5
<1> QED  BY <1>2, <1>4, <1>5 DEF r

\* emplace_back does the same at the other end.
LEMMA PushBack ==
    ASSUME NEW S, NEW s \in Seq(S), NEW t \in S
    PROVE  /\ Append(s, t) \in Seq(S)
           /\ Elements(Append(s, t)) = {t} \cup Elements(s)
           /\ Distinct(s) /\ t \notin Elements(s) => Distinct(Append(s, t))
<1> DEFINE r == Append(s, t)
<1>1. r \in Seq(S) /\ Len(r) = Len(s) + 1
      /\ (\A i \in 1..Len(s) : r[i] = s[i]) /\ r[Len(s) + 1] = t
  BY AppendProperties
<1>2. DOMAIN r = 1..Len(s) + 1 /\ DOMAIN s = 1..Len(s) /\ Len(s) \in Nat
  BY <1>1
<1> HIDE DEF r
<1>3. Elements(r) = {t} \cup Elements(s)
  <2>1. 1..Len(s) + 1 = 1..Len(s) \cup {Len(s) + 1}
    BY <1>2
  <2> QED  BY <1>1, <1>2, <2>1 DEF Elements
<1>4. ASSUME Distinct(s), t \notin Elements(s) PROVE Distinct(r)
  <2>1. \A k \in 1..Len(s) : s[k] # t
    BY <1>4, <1>2 DEF Elements
  <2> QED  BY <1>1, <1>2, <1>4, <2>1 DEF Distinct
<1> QED  BY <1>1, <1>3, <1>4 DEF r

\* back and pop_back split the last task off.
LEMMA PopBack ==
    ASSUME NEW S, NEW s \in Seq(S), s # <<>>
    PROVE  LET front == SubSeq(s, 1, Len(s) - 1) IN
           /\ front \in Seq(S) /\ s[Len(s)] \in S
           /\ Elements(s) = Elements(front) \cup {s[Len(s)]}
           /\ Distinct(s) => Distinct(front) /\ s[Len(s)] \notin Elements(front)
<1> DEFINE front == SubSeq(s, 1, Len(s) - 1)
<1>1. Len(s) \in Nat \ {0} /\ DOMAIN s = 1..Len(s) /\ \A i \in 1..Len(s) : s[i] \in S
  BY EmptySeq, LenProperties, ElementOfSeq
<1>2. front \in Seq(S) /\ Len(front) = Len(s) - 1
      /\ \A i \in 1..Len(s) - 1 : front[i] = s[i]
  <2>1. \A i \in 1..Len(s) - 1 : s[i] \in S
    BY <1>1
  <2>2. Len(s) - 1 \in Int /\ 1 \in Int
    BY <1>1
  <2>3. /\ front \in Seq(S)
        /\ Len(front) = IF 1 <= Len(s) - 1 THEN (Len(s) - 1) - 1 + 1 ELSE 0
        /\ \A i \in 1..(Len(s) - 1) - 1 + 1 : front[i] = s[1 + i - 1]
    BY <2>1, <2>2, SubSeqProperties
  <2> QED  BY <2>3, <1>1
<1>3. DOMAIN front = 1..Len(s) - 1
  BY <1>2
<1> HIDE DEF front
<1>4. Elements(s) = Elements(front) \cup {s[Len(s)]}
  <2>1. 1..Len(s) = 1..Len(s) - 1 \cup {Len(s)}
    BY <1>1
  <2> QED  BY <1>1, <1>2, <1>3, <2>1 DEF Elements
<1>5. ASSUME Distinct(s) PROVE Distinct(front) /\ s[Len(s)] \notin Elements(front)
  BY <1>1, <1>2, <1>3, <1>5 DEF Distinct, Elements
<1> QED  BY <1>1, <1>2, <1>4, <1>5 DEF front

-----------------------------------------------------------------------------
(* Type correctness, and the life of the worker threads. *)

Born     == {w \in Worker : pc[w] # "unborn"}
LeftLoop == {w \in Worker : pc[w] \in {"clear", "gone"}}

Lifecycle ==
    /\ owner = "setup" => cursor = 1 /\ pc = [w \in Worker |-> "unborn"]
    /\ owner = "emplace" => \A w \in Worker : pc[w] # "unborn" <=> w < cursor
    /\ owner = "init_state" => \A w \in Worker : pc[w] # "unborn" <=> w <= cursor
    /\ owner \notin {"setup", "emplace", "init_state"} => Born = Worker
    /\ owner # "setup" => num_workers_running = Cardinality(Worker \ LeftLoop)
    /\ \A w \in Worker : pc[w] = "clear" => \A v \in Worker \ {w} : pc[v] = "gone"
    /\ \A w \in Born \ workers : \A v \in Worker : pc[v] = "gone"
    /\ owner = "stopped" => workers = {}

IInv == TypeOK /\ Lifecycle /\ HoldsWhileWorking

\* The invariant holds before anything is started.
LEMMA InitIInv == Init => IInv
<1> SUFFICES ASSUME Init PROVE IInv
  OBVIOUS
<1>1. TypeOK
  <2>1. 1 \in Worker /\ 0 \in 0..NumWorkers
    BY NumWorkersAssumption DEF Worker
  <2>2. "unborn" \in WorkerPC /\ "setup" \in OwnerPC /\ "WORKING" \in WorkingState
    BY DEF WorkerPC, OwnerPC, WorkingState
  <2>3. /\ working_state \in [Worker -> WorkingState] /\ pc \in [Worker -> WorkerPC]
        /\ stop_requested \in [Worker -> BOOLEAN] /\ held \in [Worker -> Task \cup {NoTask}]
    BY <2>2 DEF Init
  <2>4. tasks \in Seq(Task)
    BY DEF Init
  <2> QED  BY <2>1, <2>2, <2>3, <2>4 DEF Init, TypeOK
<1>2. Lifecycle
  BY DEF Init, Lifecycle, Born, Worker
<1>3. HoldsWhileWorking
  BY DEF Init, HoldsWhileWorking
<1> QED  BY <1>1, <1>2, <1>3 DEF IInv

\* num_workers_running counts a finite set.
LEMMA WorkerFinite == IsFiniteSet(Worker) /\ \A S \in SUBSET Worker : IsFiniteSet(S)
<1>1. IsFiniteSet(Worker)
  BY NumWorkersAssumption, FS_Interval DEF Worker
<1> QED  BY <1>1, FS_Subset

\* A worker about to leave is counted; if the count is one, it is the only one left.
LEMMA CountAtExit ==
    ASSUME IInv, NEW w \in Worker, pc[w] = "exit"
    PROVE  /\ num_workers_running = Cardinality(Worker \ LeftLoop)
           /\ num_workers_running - 1 = Cardinality(Worker \ (LeftLoop \cup {w}))
           /\ num_workers_running \in Nat \ {0}
           /\ num_workers_running = 1 => Worker \ LeftLoop = {w}
<1> DEFINE S == Worker \ LeftLoop
<1>1. num_workers_running = Cardinality(S)
  BY DEF IInv, Lifecycle, Worker
<1>2. w \in S /\ IsFiniteSet(S) /\ S \ {w} = Worker \ (LeftLoop \cup {w})
  BY WorkerFinite DEF LeftLoop
<1>3. Cardinality(S) \in Nat /\ IsFiniteSet(S \ {w})
      /\ Cardinality(S \ {w}) = Cardinality(S) - 1 /\ Cardinality(S \ {w}) \in Nat
  BY <1>2, FS_CardinalityType, FS_RemoveElement
<1>4. ASSUME num_workers_running = 1 PROVE S = {w}
  <2>1. Cardinality(S \ {w}) = 0
    BY <1>1, <1>3, <1>4
  <2>2. S \ {w} = {}
    BY <1>3, <2>1, FS_EmptySet
  <2> QED  BY <1>2, <2>2
<1> QED  BY <1>1, <1>2, <1>3, <1>4

InLoop == WorkerPC \ {"unborn", "clear", "gone"}

\* A step of a worker that stays in its loop disturbs nothing of Lifecycle.
LEMMA LifecycleInLoop ==
    ASSUME IInv, NEW w \in Worker, pc[w] \in InLoop, NEW b \in InLoop,
           pc' = [pc EXCEPT ![w] = b], UNCHANGED <<workers, num_workers_running, owner, cursor>>
    PROVE  Lifecycle'
<1>1. \A v \in Worker : pc'[v] = IF v = w THEN b ELSE pc[v]
  BY DEF IInv, TypeOK
<1>2. b \notin {"unborn", "clear", "gone"} /\ pc[w] \notin {"unborn", "clear", "gone"}
  BY DEF InLoop
<1>3. Born' = Born /\ LeftLoop' = LeftLoop
  BY <1>1, <1>2 DEF Born, LeftLoop
<1>4. owner # "setup"
  BY <1>2 DEF IInv, Lifecycle
<1>5. /\ owner = "emplace" => \A v \in Worker : pc'[v] # "unborn" <=> v < cursor
      /\ owner = "init_state" => \A v \in Worker : pc'[v] # "unborn" <=> v <= cursor
  BY <1>1, <1>2 DEF IInv, Lifecycle
<1>6. \A u \in Worker : pc'[u] = "clear" => \A v \in Worker \ {u} : pc'[v] = "gone"
  BY <1>1, <1>2 DEF IInv, Lifecycle
<1>7. \A u \in Born \ workers : \A v \in Worker : pc'[v] = "gone"
  BY <1>1, <1>2 DEF IInv, Lifecycle
<1>8. Lifecycle
  BY DEF IInv
<1> QED  BY ONLY <1>3, <1>4, <1>5, <1>6, <1>7, <1>8,
                 UNCHANGED <<workers, num_workers_running, owner, cursor>> DEF Lifecycle

\* A step of the owner after the start that only moves it on disturbs nothing either.
LEMMA LifecycleOwner ==
    ASSUME IInv, UNCHANGED <<workers, num_workers_running, pc>>,
           owner \notin {"setup", "emplace", "init_state"},
           owner' \notin {"setup", "emplace", "init_state", "stopped"}
    PROVE  Lifecycle'
BY DEF IInv, Lifecycle, Born, LeftLoop

\* Every step keeps the types.
LEMMA TypeStep == IInv /\ [Next]_vars => TypeOK'
<1> SUFFICES ASSUME IInv, [Next]_vars PROVE TypeOK'
  OBVIOUS
<1> USE DEF queue, pool, local, history
<1>0. TypeOK
  BY DEF IInv
<1>1. ASSUME NEW t \in Task, Enqueue(t) PROVE tasks' \in Seq(Task) /\ added' \subseteq Task
  <2>1. tasks \in Seq(Task)
    BY <1>0 DEF TypeOK
  <2>2. <<t>> \o tasks \in Seq(Task) /\ Append(tasks, t) \in Seq(Task)
    BY <2>1, PushFront, PushBack
  <2> QED  BY <1>0, <1>1, <2>2 DEF TypeOK, Enqueue, addTask, addPriorityTask
<1>2. ASSUME forceClearQueue PROVE tasks' \in Seq(Task) /\ cleared' \subseteq Task
  <2>1. Elements(tasks) \subseteq Task
    BY <1>0, ElementOfSeq DEF TypeOK, Elements
  <2> QED  BY <1>0, <1>2, <2>1 DEF TypeOK, forceClearQueue
<1>3. CASE OwnerStep
  <2>1. ASSUME NEW t \in Task, AddInitial(t) PROVE TypeOK'
    BY <1>0, <1>1, <2>1 DEF TypeOK, AddInitial
  <2>2. CASE Startup
    <3>1. num_workers_running' \in 0..NumWorkers
      BY <2>2, NumWorkersAssumption DEF Startup
    <3> QED  BY <1>0, <2>2, <3>1 DEF TypeOK, Startup, OwnerGoto, OwnerPC
  <2>3. CASE Emplace
    BY <1>0, <2>3 DEF TypeOK, Emplace, OwnerGoto, OwnerPC, WorkerPC
  <2>4. CASE InitState
    <3>1. cursor' \in Worker
      BY <1>0, <2>4, NumWorkersAssumption DEF TypeOK, InitState, Worker
    <3> QED  BY <1>0, <2>4, <3>1 DEF TypeOK, InitState, OwnerGoto, OwnerPC, SetState, WorkingState
  <2>5. ASSUME NEW here \in OwnerPC, NEW next \in OwnerPC, Scan(here, next) PROVE TypeOK'
    <3>1. cursor' \in Worker
      BY <1>0, <2>5, NumWorkersAssumption DEF TypeOK, Scan, Worker
    <3>2. owner' \in OwnerPC /\ tasks_lock' \in BOOLEAN
      BY <1>0, <2>5 DEF TypeOK, Scan, OwnerGoto, OwnerPC
    <3> QED  BY <1>0, <2>5, <3>1, <3>2 DEF TypeOK, Scan
  <2>6. CASE ScanUnlocked
    BY <2>5, <2>6 DEF ScanUnlocked, OwnerPC
  <2>7. CASE LockTasks
    BY <1>0, <2>7 DEF TypeOK, LockTasks, OwnerGoto, OwnerPC
  <2>8. CASE ScanLocked
    BY <2>5, <2>8 DEF ScanLocked, OwnerPC
  <2>9. CASE TasksEmpty
    BY <1>0, <2>9 DEF TypeOK, TasksEmpty, OwnerGoto, OwnerPC
  <2>10. CASE ReadFailed
    BY <1>0, <2>10 DEF TypeOK, ReadFailed, OwnerGoto, OwnerPC
  <2>11. CASE WaitAgain
    BY <1>0, <2>11 DEF TypeOK, WaitAgain, OwnerGoto, OwnerPC
  <2>12. CASE Shutdown
    BY <1>0, <2>12 DEF TypeOK, Shutdown, OwnerGoto, OwnerPC
  <2>13. CASE RequestStop
    <3>1. cursor' \in Worker
      BY <1>0, <2>13, NumWorkersAssumption DEF TypeOK, RequestStop, Worker
    <3> QED  BY <1>0, <2>13, <3>1 DEF TypeOK, RequestStop, OwnerGoto, OwnerPC
  <2>14. CASE ForceClear
    BY <1>0, <1>2, <2>14 DEF TypeOK, ForceClear, OwnerGoto, OwnerPC
  <2>15. CASE NotRunning
    BY <1>0, <2>15 DEF TypeOK, NotRunning, OwnerGoto, OwnerPC
  <2> QED
    BY <1>3, <2>1, <2>2, <2>3, <2>4, <2>6, <2>7, <2>8, <2>9, <2>10, <2>11, <2>12, <2>13,
       <2>14, <2>15 DEF OwnerStep
<1>4. ASSUME NEW w \in Worker, WorkerStep(w) PROVE TypeOK'
  <2>0. ASSUME NEW a, NEW b \in WorkerPC, Goto(w, a, b) PROVE pc' \in [Worker -> WorkerPC]
    BY <1>0, <2>0 DEF TypeOK, Goto
  <2>1. CASE Top(w)
    BY <1>0, <2>1 DEF TypeOK, Top, Goto, WorkerPC
  <2>2. CASE Check(w)
    BY <1>0, <2>2 DEF TypeOK, Check, Goto, SetState, WorkerPC, WorkingState
  <2>3. CASE PeekEmpty(w)
    BY <1>0, <2>3 DEF TypeOK, PeekEmpty, Goto, WorkerPC
  <2>4. CASE PeekNonEmpty(w)
    BY <1>0, <2>4 DEF TypeOK, PeekNonEmpty, Goto, WorkerPC
  <2>5. CASE TakeNone(w)
    BY <1>0, <2>5 DEF TypeOK, TakeNone, Goto, WorkerPC
  <2>6. CASE Take(w)
    <3>1. tasks' \in Seq(Task) /\ tasks[Len(tasks)] \in Task
      BY <1>0, <2>6, PopBack DEF TypeOK, Take
    <3> QED  BY <1>0, <2>6, <3>1 DEF TypeOK, Take, Goto, WorkerPC
  <2>7. CASE FoundNone(w)
    BY <1>0, <2>7 DEF TypeOK, FoundNone, Goto, SetState, WorkerPC, WorkingState
  <2>8. CASE GotTask(w)
    BY <1>0, <2>8 DEF TypeOK, GotTask, Goto, SetState, WorkerPC, WorkingState
  <2>9. CASE Finish(w)
    <3>1. held[w] \in Task
      BY <1>0, <2>9 DEF IInv, TypeOK, HoldsWhileWorking, Finish, Goto
    <3> QED  BY <1>0, <2>9, <3>1 DEF TypeOK, Finish, Goto, WorkerPC
  <2>10. CASE Fail(w)
    BY <1>0, <2>10, TaskAssumption DEF TypeOK, Fail, Goto, WorkerPC
  <2>11. CASE signal_task_failed(w)
    BY <1>0, <1>2, <2>11 DEF TypeOK, signal_task_failed, Goto, WorkerPC
  <2>12. CASE AfterFailure(w)
    BY <1>0, <2>12 DEF TypeOK, AfterFailure, Goto, SetState, WorkerPC, WorkingState
  <2>13. CASE Exit(w)
    <3>1. num_workers_running' \in 0..NumWorkers
      <4>1. num_workers_running \in 0..NumWorkers /\ num_workers_running \in Nat \ {0}
        BY <1>0, <2>13, CountAtExit DEF TypeOK, Exit, Goto
      <4> QED  BY <2>13, <4>1, NumWorkersAssumption DEF Exit
    <3> QED  BY <1>0, <2>13, <3>1 DEF TypeOK, Exit, Goto, WorkerPC
  <2>14. CASE ClearWorkers(w)
    BY <1>0, <2>14 DEF TypeOK, ClearWorkers, Goto, WorkerPC
  <2>15. ASSUME NEW t \in Task, Spawn(w, t) PROVE TypeOK'
    BY <1>0, <1>1, <2>15 DEF TypeOK, Spawn
  <2> QED
    BY <1>4, <2>1, <2>2, <2>3, <2>4, <2>5, <2>6, <2>7, <2>8, <2>9, <2>10, <2>11, <2>12,
       <2>13, <2>14, <2>15 DEF WorkerStep
<1>5. CASE UNCHANGED vars
  BY <1>0, <1>5 DEF vars, TypeOK
<1> QED  BY <1>3, <1>4, <1>5 DEF Next

\* Every step keeps the count of running workers and the vector in agreement with
\* where the threads are.
LEMMA LifecycleStep == IInv /\ [Next]_vars => Lifecycle'
<1> SUFFICES ASSUME IInv, [Next]_vars PROVE Lifecycle'
  OBVIOUS
<1> USE DEF queue, pool, local, history
<1>0. TypeOK /\ Lifecycle
  BY DEF IInv
<1>1. CASE OwnerStep
  <2>1. ASSUME NEW t \in Task, AddInitial(t) PROVE Lifecycle'
    BY <1>0, <2>1 DEF Lifecycle, AddInitial, Born, LeftLoop
  <2>2. CASE Startup
    <3>1. \A w \in Worker : pc[w] = "unborn" /\ pc'[w] = "unborn"
      BY <1>0, <2>2 DEF Lifecycle, Startup, OwnerGoto
    <3>2. Worker \ LeftLoop' = Worker /\ Born' = {}
      BY <3>1 DEF LeftLoop, Born
    <3>3. num_workers_running' = Cardinality(Worker \ LeftLoop')
      <4>1. Cardinality(1..NumWorkers) = NumWorkers
        BY NumWorkersAssumption, FS_Interval
      <4> QED  BY <2>2, <3>2, <4>1 DEF Startup, Worker
    <3>4. cursor' = 1 /\ \A w \in Worker : ~(w < cursor')
      BY <1>0, <2>2, NumWorkersAssumption DEF Lifecycle, Startup, OwnerGoto, Worker
    <3> QED  BY <1>0, <2>2, <3>1, <3>2, <3>3, <3>4 DEF Lifecycle, Startup, OwnerGoto
  <2>3. CASE Emplace
    <3>1. pc[cursor] = "unborn" /\ cursor \in Worker
      BY <1>0, <2>3 DEF TypeOK, Lifecycle, Emplace, OwnerGoto, Worker
    <3>2. \A w \in Worker : pc'[w] = IF w = cursor THEN "top" ELSE pc[w]
      BY <1>0, <2>3 DEF TypeOK, Emplace
    <3>3. LeftLoop' = LeftLoop /\ Born' = Born \cup {cursor}
      BY <3>1, <3>2 DEF LeftLoop, Born
    <3>4. \A w \in Worker : pc[w] # "clear"
      BY <1>0, <3>1 DEF Lifecycle
    <3>5. Born \ workers = {}
      BY <1>0, <3>1 DEF Lifecycle
    <3>6. \A w \in Worker : pc'[w] # "unborn" <=> w <= cursor
      BY <1>0, <2>3, <3>1, <3>2 DEF Lifecycle, Emplace, OwnerGoto, Worker
    <3> QED  BY <1>0, <2>3, <3>2, <3>3, <3>4, <3>5, <3>6 DEF Lifecycle, Emplace, OwnerGoto
  <2>4. CASE InitState
    <3>1. /\ cursor \in 1..NumWorkers /\ NumWorkers \in Nat /\ pc' = pc /\ workers' = workers
          /\ num_workers_running' = num_workers_running /\ Born' = Born /\ LeftLoop' = LeftLoop
      BY <1>0, <2>4, NumWorkersAssumption DEF TypeOK, InitState, Worker, Born, LeftLoop
    <3>2. \A w \in Worker : pc[w] # "unborn" <=> w <= cursor
      BY <1>0, <2>4 DEF Lifecycle, InitState, OwnerGoto
    <3>3. CASE cursor = NumWorkers
      <4>1. Born = Worker
        BY <3>1, <3>2, <3>3 DEF Born, Worker
      <4> QED  BY <1>0, <2>4, <3>1, <3>3, <4>1 DEF Lifecycle, InitState, OwnerGoto
    <3>4. CASE cursor # NumWorkers
      <4>1. \A w \in Worker : pc[w] # "unborn" <=> w < cursor + 1
        BY <3>1, <3>2 DEF Worker
      <4> QED  BY <1>0, <2>4, <3>1, <3>4, <4>1 DEF Lifecycle, InitState, OwnerGoto
    <3> QED  BY <3>3, <3>4
  <2>5. ASSUME NEW here \in {"scan", "scan_locked"}, NEW next \in {"lock", "tasks_empty"},
               Scan(here, next)
        PROVE  Lifecycle'
    BY <2>5, LifecycleOwner DEF Scan, OwnerGoto
  <2>6. CASE ScanUnlocked \/ ScanLocked
    BY <2>5, <2>6 DEF ScanUnlocked, ScanLocked
  <2>7. CASE LockTasks \/ TasksEmpty \/ ReadFailed \/ WaitAgain
    BY <2>7, LifecycleOwner DEF LockTasks, TasksEmpty, ReadFailed, WaitAgain, OwnerGoto
  <2>8. CASE Shutdown \/ RequestStop \/ ForceClear
    BY <2>8, LifecycleOwner DEF Shutdown, RequestStop, ForceClear, OwnerGoto
  <2>9. CASE NotRunning
    BY <1>0, <2>9 DEF Lifecycle, NotRunning, OwnerGoto, Born, LeftLoop
  <2> QED
    BY <1>1, <2>1, <2>2, <2>3, <2>4, <2>6, <2>7, <2>8, <2>9 DEF OwnerStep
<1>2. ASSUME NEW w \in Worker, WorkerStep(w) PROVE Lifecycle'
  <2>0. ASSUME NEW a \in InLoop, NEW b \in InLoop, Goto(w, a, b),
               UNCHANGED <<workers, num_workers_running, owner, cursor>>
        PROVE  Lifecycle'
    BY <2>0, LifecycleInLoop DEF Goto
  <2>1. CASE Top(w) \/ Check(w) \/ PeekEmpty(w) \/ PeekNonEmpty(w)
    <3>1. CASE Top(w)
      <4>1. PICK b \in InLoop : Goto(w, "top", b)
        BY <3>1 DEF Top, InLoop, WorkerPC
      <4> QED  BY <2>0, <3>1, <4>1 DEF Top, InLoop, WorkerPC
    <3>2. CASE Check(w)
      BY <2>0, <3>2 DEF Check, InLoop, WorkerPC
    <3>3. CASE PeekEmpty(w)
      BY <2>0, <3>3 DEF PeekEmpty, InLoop, WorkerPC
    <3>4. CASE PeekNonEmpty(w)
      BY <2>0, <3>4 DEF PeekNonEmpty, InLoop, WorkerPC
    <3> QED  BY <2>1, <3>1, <3>2, <3>3, <3>4
  <2>2. CASE TakeNone(w) \/ Take(w) \/ FoundNone(w) \/ GotTask(w)
    <3>1. CASE TakeNone(w)
      BY <2>0, <3>1 DEF TakeNone, InLoop, WorkerPC
    <3>2. CASE Take(w)
      BY <2>0, <3>2 DEF Take, InLoop, WorkerPC
    <3>3. CASE FoundNone(w)
      BY <2>0, <3>3 DEF FoundNone, InLoop, WorkerPC
    <3>4. CASE GotTask(w)
      BY <2>0, <3>4 DEF GotTask, InLoop, WorkerPC
    <3> QED  BY <2>2, <3>1, <3>2, <3>3, <3>4
  <2>3. CASE Finish(w) \/ Fail(w) \/ signal_task_failed(w) \/ AfterFailure(w)
    <3>1. CASE Finish(w)
      BY <2>0, <3>1 DEF Finish, InLoop, WorkerPC
    <3>2. CASE Fail(w)
      BY <2>0, <3>2 DEF Fail, InLoop, WorkerPC
    <3>3. CASE signal_task_failed(w)
      BY <2>0, <3>3 DEF signal_task_failed, InLoop, WorkerPC
    <3>4. CASE AfterFailure(w)
      BY <2>0, <3>4 DEF AfterFailure, InLoop, WorkerPC
    <3> QED  BY <2>3, <3>1, <3>2, <3>3, <3>4
  <2>4. CASE Exit(w)
    <3>1. pc[w] = "exit" /\ owner' = owner /\ workers' = workers /\ cursor' = cursor
          /\ cleared' = cleared
      BY <2>4 DEF Exit, Goto
    <3>2. /\ num_workers_running' = Cardinality(Worker \ (LeftLoop \cup {w}))
          /\ num_workers_running = 1 => Worker \ LeftLoop = {w}
      BY <2>4, <3>1, CountAtExit DEF Exit
    <3>3. PICK b \in {"clear", "gone"} :
            /\ \A v \in Worker : pc'[v] = IF v = w THEN b ELSE pc[v]
            /\ b = "clear" => num_workers_running = 1
      BY <1>0, <2>4 DEF Exit, Goto, TypeOK
    <3>4. LeftLoop' = LeftLoop \cup {w} /\ Born' = Born
      BY <3>1, <3>3 DEF LeftLoop, Born
    <3>5. \A v \in Worker : pc[v] # "clear"
      BY <1>0, <3>1 DEF Lifecycle
    <3>6. ASSUME b = "clear" PROVE \A v \in Worker \ {w} : pc[v] = "gone"
      BY <3>2, <3>3, <3>5, <3>6 DEF LeftLoop
    <3>7. Born \ workers = {} /\ owner # "setup"
      BY <1>0, <3>1 DEF Lifecycle
    <3>8. \A v \in Worker : pc'[v] = "clear" => \A u \in Worker \ {v} : pc'[u] = "gone"
      BY <3>3, <3>5, <3>6
    <3>9. /\ owner = "emplace" => \A v \in Worker : pc'[v] # "unborn" <=> v < cursor
          /\ owner = "init_state" => \A v \in Worker : pc'[v] # "unborn" <=> v <= cursor
      BY <1>0, <3>1, <3>3 DEF Lifecycle
    <3> QED  BY ONLY <1>0, <3>1, <3>2, <3>4, <3>7, <3>8, <3>9 DEF Lifecycle
  <2>5. CASE ClearWorkers(w)
    <3>1. pc[w] = "clear" /\ owner' = owner /\ workers' = {} /\ cursor' = cursor
          /\ num_workers_running' = num_workers_running
      BY <2>5 DEF ClearWorkers, Goto
    <3>2. \A v \in Worker : pc'[v] = "gone" /\ pc[v] \in {"clear", "gone"}
      BY <1>0, <2>5, <3>1 DEF Lifecycle, ClearWorkers, Goto, TypeOK
    <3>3. LeftLoop' = LeftLoop /\ Born' = Born
      BY <3>2 DEF LeftLoop, Born
    <3> QED  BY <1>0, <3>1, <3>2, <3>3 DEF Lifecycle
  <2>6. ASSUME NEW t \in Task, Spawn(w, t) PROVE Lifecycle'
    <3>1. owner # "setup"
      BY <1>0, <2>6 DEF Spawn, Lifecycle
    <3> QED  BY <1>0, <2>6, <3>1 DEF Spawn, Lifecycle, Born, LeftLoop
  <2> QED
    BY <1>2, <2>1, <2>2, <2>3, <2>4, <2>5, <2>6 DEF WorkerStep
<1>3. CASE UNCHANGED vars
  BY <1>0, <1>3 DEF vars, Lifecycle, Born, LeftLoop
<1> QED  BY <1>1, <1>2, <1>3 DEF Next

\* Every step keeps the task of a worker with its place in the loop.
LEMMA HoldsStep == IInv /\ [Next]_vars => HoldsWhileWorking'
<1> SUFFICES ASSUME IInv, [Next]_vars PROVE HoldsWhileWorking'
  OBVIOUS
<1> USE DEF queue, pool, local, history
<1>0. TypeOK /\ HoldsWhileWorking /\ Lifecycle
  BY DEF IInv
<1>1. CASE OwnerStep
  <2>1. CASE UNCHANGED <<pc, held>>
    BY <1>0, <2>1 DEF HoldsWhileWorking
  <2>2. CASE Emplace
    <3>1. pc[cursor] = "unborn" /\ cursor \in Worker
      BY <1>0, <2>2 DEF TypeOK, Lifecycle, Emplace, OwnerGoto, Worker
    <3> QED  BY <1>0, <2>2, <3>1 DEF HoldsWhileWorking, Emplace, TypeOK
  <2>3. CASE ~Emplace
    BY <1>1, <2>1, <2>3 DEF OwnerStep, AddInitial, Startup, InitState, ScanUnlocked, Scan,
       LockTasks, ScanLocked, TasksEmpty, ReadFailed, WaitAgain, Shutdown, RequestStop,
       ForceClear, NotRunning
  <2> QED  BY <2>2, <2>3
<1>2. ASSUME NEW w \in Worker, WorkerStep(w) PROVE HoldsWhileWorking'
  <2>0. ASSUME NEW a, NEW b, Goto(w, a, b), held' = held,
               a \in {"got_task", "run"} <=> b \in {"got_task", "run"}
        PROVE  HoldsWhileWorking'
    BY <1>0, <2>0 DEF Goto, HoldsWhileWorking, TypeOK
  <2>1. CASE Top(w) \/ Check(w) \/ PeekEmpty(w) \/ PeekNonEmpty(w) \/ TakeNone(w)
    <3>1. CASE Top(w)
      BY <2>0, <3>1 DEF Top
    <3>2. CASE Check(w) \/ PeekEmpty(w) \/ PeekNonEmpty(w) \/ TakeNone(w)
      BY <2>0, <3>2 DEF Check, PeekEmpty, PeekNonEmpty, TakeNone
    <3> QED  BY <2>1, <3>1, <3>2
  <2>2. CASE Take(w)
    <3>1. tasks[Len(tasks)] \in Task
      BY <1>0, <2>2, PopBack DEF TypeOK, Take
    <3> QED  BY <1>0, <2>2, <3>1, TaskAssumption DEF Take, Goto, HoldsWhileWorking, TypeOK
  <2>3. CASE FoundNone(w) \/ GotTask(w) \/ signal_task_failed(w) \/ AfterFailure(w)
    BY <2>0, <2>3 DEF FoundNone, GotTask, signal_task_failed, AfterFailure
  <2>4. CASE Finish(w) \/ Fail(w)
    BY <1>0, <2>4 DEF Finish, Fail, Goto, HoldsWhileWorking, TypeOK
  <2>5. CASE Exit(w) \/ ClearWorkers(w)
    BY <2>0, <2>5 DEF Exit, ClearWorkers
  <2>6. ASSUME NEW t \in Task, Spawn(w, t) PROVE HoldsWhileWorking'
    BY <1>0, <2>6 DEF Spawn, HoldsWhileWorking
  <2> QED
    BY <1>2, <2>1, <2>2, <2>3, <2>4, <2>5, <2>6 DEF WorkerStep
<1>3. CASE UNCHANGED vars
  BY <1>0, <1>3 DEF vars, HoldsWhileWorking
<1> QED  BY <1>1, <1>2, <1>3 DEF Next

\* The inductive invariant of the queue.
THEOREM Invariance == Spec => []IInv
<1>1. IInv /\ [Next]_vars => IInv'
  BY TypeStep, LifecycleStep, HoldsStep DEF IInv
<1> QED  BY <1>1, InitIInv, PTL DEF Spec

\* Every variable keeps its type; num_workers_running never underflows.
THEOREM TypeCorrect == Spec => []TypeOK
BY Invariance, PTL DEF IInv

\* A worker holds a task exactly between get_task() and the end of the work function.
THEOREM HeldWhileWorking == Spec => []HoldsWhileWorking
BY Invariance, PTL DEF IInv

\* After shutdown() no worker thread is left, and the workers vector is emptied by the
\* last one only: for every number of workers.
THEOREM Quiet == Spec => []QuietOnceNotRunning
<1>1. IInv => QuietOnceNotRunning
  <2> SUFFICES ASSUME TypeOK, Lifecycle PROVE QuietOnceNotRunning
    BY DEF IInv
  <2>1. ASSUME owner = "stopped" PROVE \A w \in Worker : pc[w] = "gone"
    <3>1. Born = Worker /\ workers = {}
      BY <2>1 DEF Lifecycle
    <3> QED  BY <3>1 DEF Lifecycle
  <2>2. ASSUME NEW w \in Worker, w \notin workers, pc[w] # "unborn"
        PROVE  \A v \in Worker : pc[v] = "gone"
    BY <2>2 DEF Lifecycle, Born
  <2> QED  BY <2>1, <2>2 DEF QuietOnceNotRunning
<1> QED  BY <1>1, Invariance, PTL

-----------------------------------------------------------------------------
(* No task is lost, doubled or handed to two workers. *)

\* Every step keeps each task in exactly one place.
LEMMA OnePlaceStep == IInv /\ OnePlace /\ [Next]_vars => OnePlace'
<1> SUFFICES ASSUME IInv, OnePlace, [Next]_vars PROVE OnePlace'
  OBVIOUS
<1> USE DEF queue, pool, local, history
<1>0. TypeOK /\ HoldsWhileWorking /\ tasks \in Seq(Task)
  BY DEF IInv, TypeOK
<1>1. ASSUME UNCHANGED <<tasks, held, history>> PROVE OnePlace'
  BY <1>1 DEF OnePlace, HeldTasks, Elements
<1>2. ASSUME NEW t \in Task, Enqueue(t), UNCHANGED <<held, completed, cleared>>
      PROVE  OnePlace'
  <2>1. t \notin added /\ added' = added \cup {t} /\ Distinct(tasks)
        /\ t \notin Elements(tasks) /\ HeldTasks' = HeldTasks
    BY <1>2 DEF Enqueue, OnePlace, Distinct, HeldTasks
  <2>2. Elements(tasks') = {t} \cup Elements(tasks) /\ Distinct(tasks')
    <3>1. /\ Elements(<<t>> \o tasks) = {t} \cup Elements(tasks)
          /\ Distinct(<<t>> \o tasks)
      BY <1>0, <2>1, PushFront
    <3>2. /\ Elements(Append(tasks, t)) = {t} \cup Elements(tasks)
          /\ Distinct(Append(tasks, t))
      BY <1>0, <2>1, PushBack
    <3>3. tasks' = <<t>> \o tasks \/ tasks' = Append(tasks, t)
      BY <1>2 DEF Enqueue, addTask, addPriorityTask
    <3> QED  BY <3>1, <3>2, <3>3
  <2>3. /\ added' = Elements(tasks') \cup HeldTasks' \cup completed' \cup cleared'
        /\ Elements(tasks') \cap (HeldTasks' \cup completed' \cup cleared') = {}
        /\ HeldTasks' \cap (completed' \cup cleared') = {}
        /\ completed' \cap cleared' = {}
    BY <1>2, <2>1, <2>2 DEF OnePlace
  <2>4. \A i, j \in DOMAIN tasks' : tasks'[i] = tasks'[j] => i = j
    BY <2>2 DEF Distinct
  <2>5. \A v, w \in Worker : held'[v] = held'[w] /\ held'[v] # NoTask => v = w
    BY <1>2 DEF OnePlace
  <2> QED  BY <2>3, <2>4, <2>5 DEF OnePlace, Elements
<1>3. ASSUME forceClearQueue, UNCHANGED <<held, added, completed>> PROVE OnePlace'
  <2>1. Elements(tasks') = {} /\ tasks' = <<>> /\ cleared' = cleared \cup Elements(tasks)
        /\ HeldTasks' = HeldTasks /\ DOMAIN tasks' = {}
    BY <1>3 DEF forceClearQueue, Elements, HeldTasks
  <2>2. /\ added' = Elements(tasks') \cup HeldTasks' \cup completed' \cup cleared'
        /\ Elements(tasks') \cap (HeldTasks' \cup completed' \cup cleared') = {}
        /\ HeldTasks' \cap (completed' \cup cleared') = {}
        /\ completed' \cap cleared' = {}
    BY <1>3, <2>1 DEF OnePlace
  <2>3. \A v, w \in Worker : held'[v] = held'[w] /\ held'[v] # NoTask => v = w
    BY <1>3 DEF OnePlace
  <2> QED  BY <2>1, <2>2, <2>3 DEF OnePlace, Elements
<1>4. ASSUME NEW w \in Worker, Take(w) PROVE OnePlace'
  <2> DEFINE t == tasks[Len(tasks)]
  <2>1. /\ t \in Task /\ Elements(tasks) = Elements(tasks') \cup {t}
        /\ Distinct(tasks') /\ t \notin Elements(tasks')
    BY <1>0, <1>4, PopBack DEF Take, OnePlace, Distinct
  <2>2. held[w] = NoTask /\ \A v \in Worker : held'[v] = IF v = w THEN t ELSE held[v]
    BY <1>0, <1>4 DEF Take, Goto, HoldsWhileWorking, TypeOK
  <2>3. HeldTasks' = HeldTasks \cup {t} /\ t \notin HeldTasks
    BY <2>1, <2>2, TaskAssumption DEF HeldTasks, OnePlace
  <2>4. UNCHANGED history
    BY <1>4 DEF Take
  <2> HIDE DEF t
  <2>5. /\ added' = Elements(tasks') \cup HeldTasks' \cup completed' \cup cleared'
        /\ Elements(tasks') \cap (HeldTasks' \cup completed' \cup cleared') = {}
        /\ HeldTasks' \cap (completed' \cup cleared') = {}
        /\ completed' \cap cleared' = {}
    BY <2>1, <2>3, <2>4 DEF OnePlace
  <2>6. \A i, j \in DOMAIN tasks' : tasks'[i] = tasks'[j] => i = j
    BY <2>1 DEF Distinct
  <2>7. \A u, v \in Worker : held'[u] = held'[v] /\ held'[u] # NoTask => u = v
    BY <2>2, <2>3 DEF OnePlace, HeldTasks
  <2> QED  BY <2>5, <2>6, <2>7 DEF OnePlace, Elements
<1>5. ASSUME NEW w \in Worker, Finish(w) \/ Fail(w) PROVE OnePlace'
  <2> DEFINE t == held[w]
  <2>1. /\ \A v \in Worker : held'[v] = IF v = w THEN NoTask ELSE held[v]
        /\ completed' = completed \cup {t} /\ t # NoTask
        /\ UNCHANGED <<tasks, added, cleared>>
    BY <1>0, <1>5 DEF Finish, Fail, Goto, HoldsWhileWorking, TypeOK
  <2>2. HeldTasks' = HeldTasks \ {t} /\ t \in HeldTasks
    BY <2>1 DEF HeldTasks, OnePlace
  <2> HIDE DEF t
  <2>3. Elements(tasks') = Elements(tasks)
    BY <2>1 DEF Elements
  <2>4. /\ added' = Elements(tasks') \cup HeldTasks' \cup completed' \cup cleared'
        /\ Elements(tasks') \cap (HeldTasks' \cup completed' \cup cleared') = {}
        /\ HeldTasks' \cap (completed' \cup cleared') = {}
        /\ completed' \cap cleared' = {}
    BY <2>1, <2>2, <2>3 DEF OnePlace
  <2>5. /\ \A u, v \in Worker : held'[u] = held'[v] /\ held'[u] # NoTask => u = v
        /\ \A i, j \in DOMAIN tasks' : tasks'[i] = tasks'[j] => i = j
    BY <2>1 DEF OnePlace
  <2> QED  BY <2>4, <2>5 DEF OnePlace, Elements
<1>6. CASE OwnerStep
  BY <1>1, <1>2, <1>3, <1>6 DEF OwnerStep, AddInitial, Startup, Emplace, InitState,
     ScanUnlocked, Scan, LockTasks, ScanLocked, TasksEmpty, ReadFailed, WaitAgain, Shutdown,
     RequestStop, ForceClear, NotRunning
<1>7. ASSUME NEW w \in Worker, WorkerStep(w) PROVE OnePlace'
  <2>1. CASE Take(w) \/ Finish(w) \/ Fail(w)
    BY <1>4, <1>5, <2>1
  <2>2. CASE signal_task_failed(w) \/ \E t \in Task : Spawn(w, t)
    BY <1>2, <1>3, <2>2 DEF signal_task_failed, Spawn
  <2>3. CASE Top(w) \/ Check(w) \/ PeekEmpty(w) \/ PeekNonEmpty(w) \/ TakeNone(w)
             \/ FoundNone(w) \/ GotTask(w) \/ AfterFailure(w) \/ Exit(w) \/ ClearWorkers(w)
    BY <1>1, <2>3 DEF Top, Check, PeekEmpty, PeekNonEmpty, TakeNone, FoundNone, GotTask,
       AfterFailure, Exit, ClearWorkers
  <2> QED  BY <1>7, <2>1, <2>2, <2>3 DEF WorkerStep
<1>8. CASE UNCHANGED vars
  BY <1>1, <1>8 DEF vars
<1> QED  BY <1>6, <1>7, <1>8 DEF Next

\* Whatever the workers, the spawned tasks and the failures: a task is never given to
\* two workers, run twice or lost.
THEOREM EachTaskInOnePlace == Spec => []OnePlace
<1>1. Init => OnePlace
  BY DEF Init, OnePlace, HeldTasks, Elements
<1> QED  BY <1>1, OnePlaceStep, Invariance, PTL DEF Spec

\* The deque loses tasks to a failure or to shutdown() only.
THEOREM ClearedForAReason == Spec => []ClearedOnlyOnFailureOrShutdown
<1> DEFINE CInv == ClearedOnlyOnFailureOrShutdown /\ (owner = "setup" => cleared = {})
<1> USE DEF queue, pool, local, history
<1>1. Init => CInv
  BY DEF Init, ClearedOnlyOnFailureOrShutdown
<1>2. IInv /\ CInv /\ [Next]_vars => CInv'
  <2> SUFFICES ASSUME IInv, CInv, [Next]_vars PROVE CInv'
    OBVIOUS
  <2>1. CASE Startup
    BY <2>1 DEF Startup, OwnerGoto, ClearedOnlyOnFailureOrShutdown
  <2>2. CASE OwnerStep /\ ~Startup
    BY <2>2 DEF OwnerStep, AddInitial, Emplace, InitState, ScanUnlocked, Scan, LockTasks,
       ScanLocked, TasksEmpty, ReadFailed, WaitAgain, Shutdown, RequestStop, ForceClear,
       NotRunning, OwnerGoto, ClearedOnlyOnFailureOrShutdown
  <2>3. ASSUME NEW w \in Worker, signal_task_failed(w) PROVE CInv'
    <3>1. owner # "setup" /\ owner' = owner /\ task_failed' = TRUE
      BY <2>3 DEF IInv, Lifecycle, signal_task_failed, Goto
    <3> QED  BY <3>1 DEF ClearedOnlyOnFailureOrShutdown
  <2>4. ASSUME NEW w \in Worker, WorkerStep(w), ~signal_task_failed(w) PROVE CInv'
    BY <2>4 DEF WorkerStep, Top, Check, PeekEmpty, PeekNonEmpty, TakeNone, Take, FoundNone,
       GotTask, Spawn, Finish, Fail, AfterFailure, Exit, ClearWorkers,
       ClearedOnlyOnFailureOrShutdown
  <2>5. CASE UNCHANGED vars
    BY <2>5 DEF vars, ClearedOnlyOnFailureOrShutdown
  <2> QED  BY <2>1, <2>2, <2>3, <2>4, <2>5 DEF Next
<1>3. CInv => ClearedOnlyOnFailureOrShutdown
  OBVIOUS
<1> QED  BY <1>1, <1>2, <1>3, Invariance, PTL DEF Spec

-----------------------------------------------------------------------------
(* The order tasks come out in: the refinement of WorkQueue. *)

\* What a piece of a deque holds.
LEMMA Cut ==
    ASSUME NEW S, NEW s \in Seq(S), NEW m \in 1..Len(s) + 1, NEW n \in m - 1..Len(s)
    PROVE  /\ SubSeq(s, m, n) \in Seq(S) /\ Len(SubSeq(s, m, n)) = n - m + 1
           /\ \A i \in 1..n - m + 1 : SubSeq(s, m, n)[i] = s[m + i - 1]
<1>1. m \in Int /\ n \in Int /\ Len(s) \in Nat /\ \A i \in m..n : s[i] \in S
  BY LenProperties, ElementOfSeq
<1> DEFINE r == SubSeq(s, m, n)
<1>2. r \in Seq(S)
  BY <1>1, SubSeqProperties
<1>3. Len(r) = IF m <= n THEN n - m + 1 ELSE 0
  BY <1>1, SubSeqProperties
<1>4. \A i \in 1..n - m + 1 : r[i] = s[m + i - 1]
  BY <1>1, SubSeqProperties
<1> HIDE DEF r
<1>5. Len(r) = n - m + 1
  <2>1. m <= n \/ n - m + 1 = 0
    BY <1>1
  <2> QED  BY <1>3, <2>1
<1> QED  BY <1>2, <1>4, <1>5 DEF r

\* The normal tasks of a deque are the first n, the priority tasks the others.
SplitAt(s, n) == \A i \in 1..Len(s) : s[i] \in Priority <=> i > n

Sorted(s) == \E n \in 0..Len(s) : SplitAt(s, n)

\* The deque is always sorted.
InOrder == Sorted(tasks)

LEMMA SplitProperties ==
    ASSUME NEW s \in Seq(Task), NEW n \in 0..Len(s), SplitAt(s, n)
    PROVE  /\ Normals(s) = n
           /\ Fifo(s) \in Seq(Task) /\ Len(Fifo(s)) = n
           /\ \A i \in 1..n : Fifo(s)[i] = s[n + 1 - i]
           /\ Lifo(s) \in Seq(Task) /\ Len(Lifo(s)) = Len(s) - n
           /\ \A i \in 1..Len(s) - n : Lifo(s)[i] = s[n + i]
<1>0. /\ Len(s) \in Nat /\ DOMAIN s = 1..Len(s) /\ n \in Nat /\ n <= Len(s)
      /\ \A i \in 1..Len(s) : s[i] \in Task
  BY LenProperties, ElementOfSeq
<1>1. Normals(s) = n
  <2>1. {i \in DOMAIN s : s[i] \notin Priority} = 1..n
    BY <1>0 DEF SplitAt
  <2>2. Cardinality(1..n) = n
    BY <1>0, FS_Interval
  <2> QED  BY <2>1, <2>2 DEF Normals
<1>2. Fifo(s) = [i \in 1..n |-> s[n + 1 - i]]
  BY <1>1 DEF Fifo
<1>3. \A i \in 1..n : s[n + 1 - i] \in Task
  BY <1>0
<1>4. Fifo(s) \in Seq(Task) /\ Len(Fifo(s)) = n
  BY <1>0, <1>2, <1>3
<1>5. Lifo(s) = SubSeq(s, n + 1, Len(s))
  BY <1>1 DEF Lifo
<1>6. n + 1 \in 1..Len(s) + 1 /\ Len(s) \in (n + 1) - 1..Len(s)
  BY <1>0
<1>7. /\ Lifo(s) \in Seq(Task) /\ Len(Lifo(s)) = Len(s) - (n + 1) + 1
      /\ \A i \in 1..Len(s) - (n + 1) + 1 : Lifo(s)[i] = s[(n + 1) + i - 1]
  BY <1>5, <1>6, Cut
<1>8. Len(s) - (n + 1) + 1 = Len(s) - n /\ \A i \in Int : (n + 1) + i - 1 = n + i
  BY <1>0
<1>9. /\ Lifo(s) \in Seq(Task) /\ Len(Lifo(s)) = Len(s) - n
      /\ \A i \in 1..Len(s) - n : Lifo(s)[i] = s[n + i]
  BY <1>0, <1>7, <1>8
<1> QED  BY <1>1, <1>2, <1>4, <1>9

\* A normal task goes to the end of the queue of normal tasks.
LEMMA NormalAdded ==
    ASSUME NEW s \in Seq(Task), Sorted(s), NEW t \in Task \ Priority
    PROVE  LET r == <<t>> \o s IN
           Sorted(r) /\ Fifo(r) = Append(Fifo(s), t) /\ Lifo(r) = Lifo(s)
<1> DEFINE r == <<t>> \o s
<1>1. PICK n \in 0..Len(s) : SplitAt(s, n)
  BY DEF Sorted
<1>2. <<t>> \in Seq(Task) /\ Len(<<t>>) = 1 /\ <<t>>[1] = t
  OBVIOUS
<1>3. r \in Seq(Task) /\ Len(r) = Len(s) + 1
      /\ \A i \in 1..Len(s) + 1 : r[i] = IF i <= 1 THEN t ELSE s[i - 1]
  BY <1>2, ConcatProperties
<1> HIDE DEF r
<1>4. Len(s) \in Nat /\ n \in Nat /\ n <= Len(s) /\ n + 1 \in 0..Len(r)
  BY <1>3, LenProperties
<1>5. r[1] = t /\ \A i \in 2..Len(r) : i - 1 \in 1..Len(s) /\ r[i] = s[i - 1]
  BY <1>3, <1>4
<1>6. SplitAt(r, n + 1)
  <2> SUFFICES ASSUME NEW i \in 1..Len(r) PROVE r[i] \in Priority <=> i > n + 1
    BY DEF SplitAt
  <2>1. CASE i = 1
    BY <2>1, <1>4, <1>5
  <2>2. CASE i # 1
    <3>1. i \in 2..Len(r) /\ i - 1 \in 1..Len(s) /\ r[i] = s[i - 1]
      BY <2>2, <1>3, <1>4, <1>5
    <3>2. s[i - 1] \in Priority <=> i - 1 > n
      BY <1>1, <3>1 DEF SplitAt
    <3> QED  BY <3>1, <3>2, <1>4
  <2> QED  BY <2>1, <2>2
<1>7. /\ Fifo(s) \in Seq(Task) /\ Len(Fifo(s)) = n
      /\ \A i \in 1..n : Fifo(s)[i] = s[n + 1 - i]
      /\ Lifo(s) \in Seq(Task) /\ Len(Lifo(s)) = Len(s) - n
      /\ \A i \in 1..Len(s) - n : Lifo(s)[i] = s[n + i]
  BY <1>1, SplitProperties
<1>8. /\ Fifo(r) \in Seq(Task) /\ Len(Fifo(r)) = n + 1
      /\ \A i \in 1..n + 1 : Fifo(r)[i] = r[n + 2 - i]
      /\ Lifo(r) \in Seq(Task) /\ Len(Lifo(r)) = Len(s) - n
      /\ \A i \in 1..Len(s) - n : Lifo(r)[i] = r[n + 1 + i]
  <2>1. /\ Fifo(r) \in Seq(Task) /\ Len(Fifo(r)) = n + 1
        /\ \A i \in 1..n + 1 : Fifo(r)[i] = r[n + 1 + 1 - i]
        /\ Lifo(r) \in Seq(Task) /\ Len(Lifo(r)) = Len(r) - (n + 1)
        /\ \A i \in 1..Len(r) - (n + 1) : Lifo(r)[i] = r[n + 1 + i]
    BY <1>3, <1>4, <1>6, SplitProperties
  <2>2. Len(r) - (n + 1) = Len(s) - n
    BY <1>3, <1>4
  <2>3. \A i \in 1..n + 1 : n + 1 + 1 - i = n + 2 - i
    BY <1>4
  <2>4. \A i \in 1..n + 1 : Fifo(r)[i] = r[n + 2 - i]
    BY <2>1, <2>3
  <2> QED  BY <2>1, <2>2, <2>4
<1>9. Fifo(r) = Append(Fifo(s), t)
  <2>1. /\ Append(Fifo(s), t) \in Seq(Task) /\ Len(Append(Fifo(s), t)) = n + 1
        /\ \A i \in 1..n : Append(Fifo(s), t)[i] = s[n + 1 - i]
        /\ Append(Fifo(s), t)[n + 1] = t
    BY <1>7, AppendProperties
  <2>2. \A i \in 1..n + 1 : Fifo(r)[i] = Append(Fifo(s), t)[i]
    <3> SUFFICES ASSUME NEW i \in 1..n + 1 PROVE Fifo(r)[i] = Append(Fifo(s), t)[i]
      OBVIOUS
    <3>1. CASE i = n + 1
      BY <3>1, <1>4, <1>5, <1>8, <2>1
    <3>2. CASE i # n + 1
      <4>1. i \in 1..n /\ n + 2 - i \in 2..Len(r) /\ (n + 2 - i) - 1 = n + 1 - i
        BY <3>2, <1>3, <1>4
      <4>2. r[n + 2 - i] = s[n + 1 - i]
        BY <4>1, <1>5
      <4> QED  BY <4>1, <4>2, <1>8, <2>1
    <3> QED  BY <3>1, <3>2
  <2> QED  BY <1>8, <2>1, <2>2, SeqEqual
<1>10. Lifo(r) = Lifo(s)
  <2>1. \A i \in 1..Len(s) - n :
           n + 1 + i \in 2..Len(r) /\ (n + 1 + i) - 1 = n + i
    BY <1>3, <1>4
  <2>2. \A i \in 1..Len(s) - n : Lifo(r)[i] = Lifo(s)[i]
    BY <2>1, <1>5, <1>7, <1>8
  <2> QED  BY <1>7, <1>8, <2>2, SeqEqual
<1> QED  BY <1>4, <1>6, <1>9, <1>10 DEF Sorted, r

\* A priority task goes to the top of the stack of priority tasks.
LEMMA PriorityAdded ==
    ASSUME NEW s \in Seq(Task), Sorted(s), NEW t \in Priority, t \in Task
    PROVE  LET r == Append(s, t) IN
           Sorted(r) /\ Fifo(r) = Fifo(s) /\ Lifo(r) = Append(Lifo(s), t)
<1> DEFINE r == Append(s, t)
<1>1. PICK n \in 0..Len(s) : SplitAt(s, n)
  BY DEF Sorted
<1>2. /\ r \in Seq(Task) /\ Len(r) = Len(s) + 1
      /\ \A i \in 1..Len(s) : r[i] = s[i]
      /\ r[Len(s) + 1] = t
  BY AppendProperties
<1> HIDE DEF r
<1>3. Len(s) \in Nat /\ n \in Nat /\ n <= Len(s) /\ n \in 0..Len(r)
  BY <1>2, LenProperties
<1>4. SplitAt(r, n)
  BY <1>1, <1>2, <1>3 DEF SplitAt
<1>5. /\ Fifo(s) \in Seq(Task) /\ Len(Fifo(s)) = n
      /\ \A i \in 1..n : Fifo(s)[i] = s[n + 1 - i]
      /\ Lifo(s) \in Seq(Task) /\ Len(Lifo(s)) = Len(s) - n
      /\ \A i \in 1..Len(s) - n : Lifo(s)[i] = s[n + i]
  BY <1>1, SplitProperties
<1>6. /\ Fifo(r) \in Seq(Task) /\ Len(Fifo(r)) = n
      /\ \A i \in 1..n : Fifo(r)[i] = r[n + 1 - i]
      /\ Lifo(r) \in Seq(Task) /\ Len(Lifo(r)) = Len(r) - n
      /\ \A i \in 1..Len(r) - n : Lifo(r)[i] = r[n + i]
  BY <1>2, <1>3, <1>4, SplitProperties
<1>7. Fifo(r) = Fifo(s)
  <2>1. \A i \in 1..n : n + 1 - i \in 1..Len(s)
    BY <1>3
  <2>2. \A i \in 1..n : Fifo(r)[i] = Fifo(s)[i]
    BY <2>1, <1>2, <1>5, <1>6
  <2> QED  BY <1>5, <1>6, <2>2, SeqEqual
<1>8. Lifo(r) = Append(Lifo(s), t)
  <2> DEFINE m == Len(s) - n
  <2>0. m \in Nat /\ Len(r) - n = m + 1 /\ n + (m + 1) = Len(s) + 1
    BY <1>2, <1>3
  <2>1. /\ Append(Lifo(s), t) \in Seq(Task) /\ Len(Append(Lifo(s), t)) = m + 1
        /\ \A i \in 1..m : Append(Lifo(s), t)[i] = Lifo(s)[i]
        /\ Append(Lifo(s), t)[m + 1] = t
    BY <1>5, AppendProperties
  <2>2. \A i \in 1..m : n + i \in 1..Len(s)
    BY <1>3
  <2> HIDE DEF m
  <2>3. \A i \in 1..m + 1 : Lifo(r)[i] = Append(Lifo(s), t)[i]
    <3> SUFFICES ASSUME NEW i \in 1..m + 1 PROVE Lifo(r)[i] = Append(Lifo(s), t)[i]
      OBVIOUS
    <3>1. CASE i = m + 1
      <4>1. Lifo(r)[m + 1] = r[n + (m + 1)]
        BY <2>0, <1>6
      <4>2. r[n + (m + 1)] = t
        BY <2>0, <1>2
      <4> QED  BY <3>1, <4>1, <4>2, <2>1
    <3>2. CASE i # m + 1
      <4>1. i \in 1..m
        BY <3>2, <2>0
      <4> QED  BY <4>1, <2>0, <2>1, <2>2, <1>2, <1>5, <1>6 DEF m
    <3> QED  BY <3>1, <3>2
  <2> QED  BY <1>6, <2>0, <2>1, <2>3, SeqEqual
<1> QED  BY <1>3, <1>4, <1>7, <1>8 DEF Sorted, r

\* The back of the deque is the newest priority task, or else the oldest normal one.
LEMMA BackTaken ==
    ASSUME NEW s \in Seq(Task), Sorted(s), s # <<>>
    PROVE  LET r == SubSeq(s, 1, Len(s) - 1) IN
           /\ Sorted(r)
           /\ \/ /\ Lifo(s) # <<>> /\ Fifo(r) = Fifo(s)
                 /\ Lifo(r) = SubSeq(Lifo(s), 1, Len(Lifo(s)) - 1)
              \/ /\ Lifo(s) = <<>> /\ Fifo(s) # <<>> /\ Lifo(r) = Lifo(s)
                 /\ Fifo(r) = Tail(Fifo(s))
<1> DEFINE r == SubSeq(s, 1, Len(s) - 1)
<1>1. PICK n \in 0..Len(s) : SplitAt(s, n)
  BY DEF Sorted
<1>0. Len(s) \in Nat \ {0} /\ n \in Nat /\ n <= Len(s)
  BY EmptySeq, LenProperties
<1>2. r \in Seq(Task) /\ Len(r) = Len(s) - 1 /\ \A i \in 1..Len(s) - 1 : r[i] = s[i]
  <2>1. 1 \in 1..Len(s) + 1 /\ Len(s) - 1 \in 1 - 1..Len(s)
    BY <1>0
  <2>2. /\ r \in Seq(Task) /\ Len(r) = (Len(s) - 1) - 1 + 1
        /\ \A i \in 1..(Len(s) - 1) - 1 + 1 : r[i] = s[1 + i - 1]
    BY <2>1, Cut
  <2>3. (Len(s) - 1) - 1 + 1 = Len(s) - 1 /\ \A i \in Int : 1 + i - 1 = i
    BY <1>0
  <2> HIDE DEF r
  <2> QED  BY <2>2, <2>3
<1> HIDE DEF r
<1>3. /\ Fifo(s) \in Seq(Task) /\ Len(Fifo(s)) = n
      /\ \A i \in 1..n : Fifo(s)[i] = s[n + 1 - i]
      /\ Lifo(s) \in Seq(Task) /\ Len(Lifo(s)) = Len(s) - n
      /\ \A i \in 1..Len(s) - n : Lifo(s)[i] = s[n + i]
  BY <1>1, SplitProperties
<1>4. CASE n < Len(s)
  <2> DEFINE m == Len(s) - n
             l == SubSeq(Lifo(s), 1, Len(Lifo(s)) - 1)
  <2>0. m \in Nat \ {0} /\ n \in 0..Len(r) /\ Len(r) - n = m - 1 /\ Len(Lifo(s)) = m
        /\ m - 1 \in Nat
    BY <1>0, <1>2, <1>3, <1>4
  <2>1. SplitAt(r, n)
    BY <1>0, <1>1, <1>2, <1>4 DEF SplitAt
  <2>2. /\ Fifo(r) \in Seq(Task) /\ Len(Fifo(r)) = n
        /\ \A i \in 1..n : Fifo(r)[i] = r[n + 1 - i]
        /\ Lifo(r) \in Seq(Task) /\ Len(Lifo(r)) = m - 1
        /\ \A i \in 1..m - 1 : Lifo(r)[i] = r[n + i]
    <3>1. /\ Fifo(r) \in Seq(Task) /\ Len(Fifo(r)) = n
          /\ \A i \in 1..n : Fifo(r)[i] = r[n + 1 - i]
          /\ Lifo(r) \in Seq(Task) /\ Len(Lifo(r)) = Len(r) - n
          /\ \A i \in 1..Len(r) - n : Lifo(r)[i] = r[n + i]
      BY <1>2, <2>0, <2>1, SplitProperties
    <3>2. Len(r) - n = m - 1
      BY <2>0
    <3> HIDE DEF m
    <3> QED  BY <3>1, <3>2
  <2>3. Fifo(r) = Fifo(s)
    <3>1. \A i \in 1..n : n + 1 - i \in 1..Len(s) - 1
      BY <1>0, <1>4
    <3>2. \A i \in 1..n : Fifo(r)[i] = Fifo(s)[i]
      BY <3>1, <1>2, <1>3, <2>2
    <3> QED  BY <1>3, <2>2, <3>2, SeqEqual
  <2>4. l \in Seq(Task) /\ Len(l) = m - 1 /\ \A i \in 1..m - 1 : l[i] = Lifo(s)[i]
    <3>1. Len(Lifo(s)) - 1 = m - 1 /\ m - 1 \in 0..Len(Lifo(s))
      BY <2>0
    <3>2. /\ SubSeq(Lifo(s), 1, m - 1) \in Seq(Task) /\ Len(SubSeq(Lifo(s), 1, m - 1)) = m - 1
          /\ \A i \in 1..m - 1 : SubSeq(Lifo(s), 1, m - 1)[i] = Lifo(s)[i]
      BY <1>3, <3>1, SubSeqProperties
    <3> QED  BY <3>1, <3>2
  <2>5. Lifo(r) = l
    <3>1. \A i \in 1..m - 1 : n + i \in 1..Len(s) - 1 /\ i \in 1..m
      BY <1>0, <1>4
    <3> HIDE DEF l
    <3>2. \A i \in 1..m - 1 : Lifo(r)[i] = l[i]
      BY <3>1, <1>2, <1>3, <2>2, <2>4
    <3> QED  BY <2>2, <2>4, <3>2, SeqEqual
  <2>6. Lifo(s) # <<>>
    BY <2>0
  <2> QED  BY <2>0, <2>1, <2>3, <2>5, <2>6 DEF Sorted, r
<1>5. CASE n = Len(s)
  <2>0. n \in Nat \ {0} /\ n - 1 \in 0..Len(r) /\ Len(r) = n - 1 /\ n - 1 \in Nat
    BY <1>0, <1>2, <1>5
  <2>1. SplitAt(r, n - 1)
    BY <1>0, <1>1, <1>2, <1>5 DEF SplitAt
  <2>2. /\ Fifo(r) \in Seq(Task) /\ Len(Fifo(r)) = n - 1
        /\ \A i \in 1..n - 1 : Fifo(r)[i] = r[n - i]
        /\ Lifo(r) \in Seq(Task) /\ Len(Lifo(r)) = 0
    <3>1. /\ Fifo(r) \in Seq(Task) /\ Len(Fifo(r)) = n - 1
          /\ \A i \in 1..n - 1 : Fifo(r)[i] = r[n - 1 + 1 - i]
          /\ Lifo(r) \in Seq(Task) /\ Len(Lifo(r)) = Len(r) - (n - 1)
      BY <1>2, <2>0, <2>1, SplitProperties
    <3> QED  BY <3>1, <2>0
  <2>3. Lifo(s) = <<>> /\ Lifo(r) = <<>> /\ Fifo(s) # <<>>
    <3>1. Len(Lifo(s)) = 0 /\ Len(Fifo(s)) # 0
      BY <1>0, <1>3, <1>5
    <3> QED  BY <3>1, <1>3, <2>2, EmptySeq
  <2>4. /\ Tail(Fifo(s)) \in Seq(Task) /\ Len(Tail(Fifo(s))) = n - 1
        /\ \A i \in 1..n - 1 : Tail(Fifo(s))[i] = Fifo(s)[i + 1]
    BY <1>3, <2>3, HeadTailProperties
  <2>5. Fifo(r) = Tail(Fifo(s))
    <3>1. \A i \in 1..n - 1 : i + 1 \in 1..n /\ n + 1 - (i + 1) = n - i
                              /\ n - i \in 1..Len(s) - 1
      BY <2>0, <1>5
    <3>2. ASSUME NEW i \in 1..n - 1 PROVE Fifo(r)[i] = Tail(Fifo(s))[i]
      <4>1. Fifo(r)[i] = s[n - i]
        BY <3>1, <1>2, <2>2
      <4>2. Tail(Fifo(s))[i] = s[n + 1 - (i + 1)]
        BY <3>1, <1>3, <2>4
      <4> QED  BY <3>1, <4>1, <4>2
    <3> QED  BY <2>2, <2>4, <3>2, SeqEqual
  <2> QED  BY <2>0, <2>1, <2>3, <2>5 DEF Sorted, r
<1> QED  BY <1>0, <1>4, <1>5

LEMMA Emptied == Sorted(<<>>) /\ Fifo(<<>>) = <<>> /\ Lifo(<<>>) = <<>>
<1> DEFINE s == <<>>
<1>1. s \in Seq(Task) /\ Len(s) = 0 /\ 0 \in 0..Len(s) /\ SplitAt(s, 0)
  BY DEF SplitAt
<1> HIDE DEF s
<1>2. /\ Fifo(s) \in Seq(Task) /\ Len(Fifo(s)) = 0
      /\ Lifo(s) \in Seq(Task) /\ Len(Lifo(s)) = Len(s) - 0
  BY <1>1, SplitProperties
<1>3. Fifo(s) = <<>> /\ Lifo(s) = <<>>
  BY <1>1, <1>2, EmptySeq
<1> QED  BY <1>1, <1>3 DEF Sorted, s

\* What a step does to the deque, and that WorkQueue allows it.
LEMMA QueueStep ==
    IInv /\ InOrder /\ [Next]_vars =>
        InOrder' /\ [Promise!Next]_<<Fifo(tasks), Lifo(tasks), added>>
<1> SUFFICES ASSUME IInv, InOrder, [Next]_vars
             PROVE  InOrder' /\ [Promise!Next]_<<Fifo(tasks), Lifo(tasks), added>>
  OBVIOUS
<1> DEFINE Allowed == InOrder' /\ [Promise!Next]_<<Fifo(tasks), Lifo(tasks), added>>
<1> USE DEF queue, pool, local, history
<1>0. tasks \in Seq(Task) /\ Sorted(tasks)
  BY DEF IInv, TypeOK, InOrder
<1>1. ASSUME UNCHANGED <<tasks, added>> PROVE Allowed
  BY <1>0, <1>1 DEF InOrder
<1>2. ASSUME NEW t \in Task, Enqueue(t) PROVE Allowed
  <2>1. t \in Task \ added /\ added' = added \cup {t}
    BY <1>2 DEF Enqueue
  <2>2. CASE t \in Priority
    <3>1. tasks' = Append(tasks, t)
      BY <1>2, <2>2 DEF Enqueue, addPriorityTask
    <3>2. Sorted(tasks') /\ Fifo(tasks') = Fifo(tasks) /\ Lifo(tasks') = Append(Lifo(tasks), t)
      BY <1>0, <2>1, <2>2, <3>1, PriorityAdded
    <3>3. Promise!Insert
      BY <2>1, <2>2, <3>2 DEF Promise!Insert, Promise!AddPriority
    <3> QED  BY <3>2, <3>3 DEF InOrder, Promise!Next
  <2>3. CASE t \notin Priority
    <3>1. tasks' = <<t>> \o tasks
      BY <1>2, <2>3 DEF Enqueue, addTask
    <3>2. Sorted(tasks') /\ Fifo(tasks') = Append(Fifo(tasks), t) /\ Lifo(tasks') = Lifo(tasks)
      BY <1>0, <2>1, <2>3, <3>1, NormalAdded
    <3>3. Promise!Insert
      BY <2>1, <2>3, <3>2 DEF Promise!Insert, Promise!Add
    <3> QED  BY <3>2, <3>3 DEF InOrder, Promise!Next
  <2> QED  BY <2>2, <2>3
<1>3. ASSUME forceClearQueue, added' = added PROVE Allowed
  <2>1. Sorted(tasks') /\ Fifo(tasks') = <<>> /\ Lifo(tasks') = <<>>
    BY <1>3, Emptied DEF forceClearQueue
  <2>2. Promise!Clear
    BY <1>3, <2>1 DEF Promise!Clear
  <2> QED  BY <2>1, <2>2 DEF InOrder, Promise!Next
<1>4. ASSUME NEW w \in Worker, Take(w) PROVE Allowed
  <2>1. tasks # <<>> /\ tasks' = SubSeq(tasks, 1, Len(tasks) - 1) /\ added' = added
    BY <1>4 DEF Take
  <2>2. /\ Sorted(tasks')
        /\ \/ /\ Lifo(tasks) # <<>> /\ Fifo(tasks') = Fifo(tasks)
              /\ Lifo(tasks') = SubSeq(Lifo(tasks), 1, Len(Lifo(tasks)) - 1)
           \/ /\ Lifo(tasks) = <<>> /\ Fifo(tasks) # <<>> /\ Lifo(tasks') = Lifo(tasks)
              /\ Fifo(tasks') = Tail(Fifo(tasks))
    BY <1>0, <2>1, BackTaken
  <2>3. Promise!RemovePriority \/ Promise!RemoveOldest
    BY <2>1, <2>2 DEF Promise!RemovePriority, Promise!RemoveOldest
  <2> QED  BY <2>2, <2>3 DEF InOrder, Promise!Next
<1>5. CASE OwnerStep
  <2>1. CASE \E t \in Task : AddInitial(t)
    BY <1>2, <2>1 DEF AddInitial
  <2>2. CASE ForceClear
    BY <1>3, <2>2 DEF ForceClear
  <2>3. CASE Startup \/ Emplace \/ InitState \/ ScanUnlocked \/ LockTasks \/ ScanLocked
             \/ TasksEmpty \/ ReadFailed \/ WaitAgain \/ Shutdown \/ RequestStop
             \/ NotRunning
    <3>1. UNCHANGED <<tasks, added>>
      BY <2>3 DEF Startup, Emplace, InitState, ScanUnlocked, Scan, LockTasks, ScanLocked,
         TasksEmpty, ReadFailed, WaitAgain, Shutdown, RequestStop, NotRunning
    <3> QED  BY <1>1, <3>1
  <2> QED  BY <1>5, <2>1, <2>2, <2>3 DEF OwnerStep
<1>6. ASSUME NEW w \in Worker, WorkerStep(w) PROVE Allowed
  <2>1. CASE Take(w)
    BY <1>4, <2>1
  <2>2. CASE signal_task_failed(w) \/ \E t \in Task : Spawn(w, t)
    BY <1>2, <1>3, <2>2 DEF signal_task_failed, Spawn
  <2>3. CASE Top(w) \/ Check(w) \/ PeekEmpty(w) \/ PeekNonEmpty(w) \/ TakeNone(w)
             \/ FoundNone(w) \/ GotTask(w) \/ Finish(w) \/ Fail(w) \/ AfterFailure(w)
             \/ Exit(w) \/ ClearWorkers(w)
    <3>1. UNCHANGED <<tasks, added>>
      BY <2>3 DEF Top, Check, PeekEmpty, PeekNonEmpty, TakeNone, FoundNone, GotTask,
         Finish, Fail, AfterFailure, Exit, ClearWorkers
    <3> QED  BY <1>1, <3>1
  <2> QED  BY <1>6, <2>1, <2>2, <2>3 DEF WorkerStep
<1>7. CASE UNCHANGED vars
  BY <1>1, <1>7 DEF vars
<1> QED  BY <1>5, <1>6, <1>7 DEF Next, Allowed

\* For every number of workers and whatever they run, the deque hands tasks out in the
\* order WorkQueue promises: priority tasks first and newest first, then normal tasks
\* in the order they were added, each once.
THEOREM RefinesWorkQueue == Spec => ImplementsWorkQueue
<1>1. Init => InOrder /\ Promise!Init
  BY Emptied DEF Init, InOrder, Promise!Init
<1>2. IInv /\ InOrder /\ [Next]_vars =>
          InOrder' /\ [Promise!Next]_<<Fifo(tasks), Lifo(tasks), added>>
  BY QueueStep
<1> QED  BY <1>1, <1>2, Invariance, PTL DEF Spec, ImplementsWorkQueue, Promise!Spec
=============================================================================
