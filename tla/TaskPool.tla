------------------------------ MODULE TaskPool ------------------------------
(***************************************************************************)
(* What the thread pool promises its users, whatever its threads do: tasks *)
(* wait in the order in which they were added, each is started at most     *)
(* once, and only the destruction of the pool discards tasks that wait;    *)
(* no task starts after that.                                              *)
(***************************************************************************)
EXTENDS Naturals, Sequences

VARIABLES
    queue,        \* the tasks that wait, in the order of their addition
    running,      \* the tasks that were started and are not over
    submitted,    \* how many tasks were added
    halted        \* the pool is being destroyed

vars == <<queue, running, submitted, halted>>

\* The manager, task 0, is the first task
Init == queue = <<0>> /\ running = {} /\ submitted = 0 /\ halted = FALSE

Submit ==
    /\ queue' = Append(queue, submitted + 1)
    /\ submitted' = submitted + 1
    /\ UNCHANGED <<running, halted>>

Start ==
    /\ ~halted
    /\ queue # <<>>
    /\ running' = running \cup {Head(queue)}
    /\ queue' = Tail(queue)
    /\ UNCHANGED <<submitted, halted>>

\* A task returns or is cancelled
End ==
    /\ \E k \in running : running' = running \ {k}
    /\ UNCHANGED <<queue, submitted, halted>>

Halt ==
    /\ ~halted
    /\ halted' = TRUE
    /\ queue' = <<>>
    /\ UNCHANGED <<running, submitted>>

Next == Submit \/ Start \/ End \/ Halt

Spec == Init /\ [][Next]_vars

\* No task waits twice, or waits while it runs, and none is started or
\* waits that was not added: list_task holds the latest tasks in order.
StartedOnce ==
    /\ \A i \in 1 .. Len(queue) : queue[i] = submitted - Len(queue) + i
    /\ \A k \in running : k <= submitted - Len(queue)
=============================================================================
