------------------------------ MODULE WorkQueue ------------------------------
(***************************************************************************)
(* What core::ThreadQueue promises the code that adds tasks to it and the  *)
(* worker that takes them: tasks added normally come out in the order they *)
(* were added, priority tasks come out before all of them and the newest   *)
(* first, each comes out once, and they only disappear together.           *)
(***************************************************************************)
EXTENDS Integers, Sequences

CONSTANTS Task, Priority

VARIABLES
    fifo,    \* normal tasks, oldest first
    lifo,    \* priority tasks, newest last
    seen     \* every task that was ever added

Init == fifo = <<>> /\ lifo = <<>> /\ seen = {}

Add(t) ==
    /\ t \notin Priority
    /\ fifo' = Append(fifo, t)
    /\ UNCHANGED lifo

AddPriority(t) ==
    /\ t \in Priority
    /\ lifo' = Append(lifo, t)
    /\ UNCHANGED fifo

\* A task is added once.
Insert ==
    \E t \in Task \ seen :
        /\ Add(t) \/ AddPriority(t)
        /\ seen' = seen \cup {t}

RemovePriority ==
    /\ lifo # <<>>
    /\ lifo' = SubSeq(lifo, 1, Len(lifo) - 1)
    /\ UNCHANGED <<fifo, seen>>

RemoveOldest ==
    /\ lifo = <<>> /\ fifo # <<>>
    /\ fifo' = Tail(fifo)
    /\ UNCHANGED <<lifo, seen>>

Clear ==
    /\ fifo' = <<>> /\ lifo' = <<>>
    /\ UNCHANGED seen

Next == Insert \/ RemovePriority \/ RemoveOldest \/ Clear

Spec == Init /\ [][Next]_<<fifo, lifo, seen>>
=============================================================================
