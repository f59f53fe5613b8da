----------------------------- MODULE ThreadPool -----------------------------
(***************************************************************************)
(* The thread pool of src/src/pool/threadpool.c: the threads' routine, the *)
(* manager task that grows and shrinks the pool, pool_thread_task_add and  *)
(* pool_thread_del, at the grain of one access to shared memory per step   *)
(* wherever the code runs without p->mutex.                                *)
(*                                                                         *)
(* Processes are the caller of the pool (Main) and the threads it starts,  *)
(* numbered in creation order.  p->list_thread is kept as the doubly       *)
(* linked list it is, because threads unlink themselves from it unlocked.  *)
(* A counter's ++ or -- is a load into reg and a store, because each       *)
(* counter of the pool has an updater that does not hold the mutex.        *)
(***************************************************************************)
EXTENDS Integers, Sequences, FiniteSets

CONSTANTS
    MaxThreads,         \* bound: threads ever created, pthread_create's limit
    MaxTasks,           \* bound: tasks appended by users of the pool
    LongTasks,          \* tasks that run until they are cancelled
    THREAD_NUM_MIN, THREAD_NUM_MAX, THREAD_IDLE_MAX,
    THREAD_INTERVAL_CREATE, THREAD_INTERVAL_DESTROY,
    THREAD_INTERVAL_COND_SIGNAL, THREAD_QUIT_WAITTIME_MAX,
    MayDelete,          \* the pool's user may call pool_thread_del
    CreateMayFail,      \* malloc and pthread_create may fail in thread_add
    SpuriousWakeups     \* pthread_cond_wait may return unsignalled

ASSUME BoundsAssumption ==
    /\ MaxThreads \in Nat \ {0} /\ MaxTasks \in Nat /\ LongTasks \subseteq Nat
    /\ MayDelete \in BOOLEAN
    /\ CreateMayFail \in BOOLEAN /\ SpuriousWakeups \in BOOLEAN

ASSUME PoolAssumption ==
    /\ THREAD_NUM_MIN \in Nat \ {0} /\ THREAD_NUM_MAX \in Nat
    /\ THREAD_NUM_MIN < THREAD_NUM_MAX /\ THREAD_IDLE_MAX \in Nat
    /\ THREAD_INTERVAL_CREATE \in Nat \ {0}
    /\ THREAD_INTERVAL_DESTROY \in Nat \ {0}
    /\ THREAD_INTERVAL_COND_SIGNAL \in Nat \ {0}
    /\ THREAD_QUIT_WAITTIME_MAX \in Nat

Main     == 0                   \* pool_thread_new, then pool_thread_del
Threads  == 1 .. MaxThreads
Procs    == 0 .. MaxThreads
NULL     == -1
ListHead == 0                   \* the node p->list_thread
Nodes    == 0 .. MaxThreads
Links    == Nodes \cup {NULL}
Manager  == 0                   \* the first task appended; users' tasks are 1 ..

VARIABLES
    mutex,                                      \* holder of p->mutex, or NULL
    list_task, list_task_num, submitted, flag_halt,
    thread_num, idle_thread_num,
    nxt, prv,                                   \* the links of list_thread
    state, task, tlock, freed, cancel,          \* THREAD_T, cancel requested
    pc, reg, ptr, nb,       \* control, loaded counter, local t, loaded links
    interval, wait          \* the manager's countdowns, pool_thread_del's i

tasks    == <<list_task, list_task_num, submitted, flag_halt>>
counters == <<thread_num, idle_thread_num>>
lists    == <<nxt, prv>>
structs  == <<state, task, tlock, freed, cancel>>
timers   == <<interval, wait>>
locals   == <<reg, ptr, nb, interval, wait>>
vars == <<mutex, list_task, list_task_num, submitted, flag_halt, thread_num,
          idle_thread_num, nxt, prv, state, task, tlock, freed, cancel, pc, reg,
          ptr, nb, interval, wait>>

-----------------------------------------------------------------------------
WorkerPCs   == {"loop", "lock", "idle_inc", "cond_wait", "relock", "take",
                "idle_dec", "claim", "task", "add_lock"}
ManagerPCs  == {"m_top", "m_create", "m_create_idle", "m_destroy",
                "m_destroy_idle", "m_scan", "m_next", "m_recheck", "m_signal"}
AddPCs      == {"create", "reg_link", "reg_load", "reg_store"}
DelPCs      == {"d_cancel", "d_join", "d_unlink", "d_relink", "d_nload",
                "d_nstore", "d_iload", "d_istore", "d_free"}
ExitPCs     == {"x_nload", "x_nstore", "x_iload", "x_istore", "x_unlink",
                "x_relink", "x_free"}
DeadPCs     == {"exited", "canceled", "joined"}
MainPCs     == {"ready", "add_lock", "halt", "q_wait", "q_scan", "done",
                "failed", "crashed"} \cup AddPCs \cup DelPCs
ThreadPCs   == {"none"} \cup WorkerPCs \cup ManagerPCs \cup AddPCs \cup DelPCs
                        \cup ExitPCs \cup DeadPCs
PCsOf(p)    == IF p = Main THEN MainPCs ELSE ThreadPCs
CriticalPCs == {"idle_inc", "take", "idle_dec", "reg_load", "reg_store"}

Goto(p, l) == pc' = [pc EXCEPT ![p] = l]

\* n is the list head or a THREAD_T that is not freed; NULL is neither
Intact(n) == n # ListHead => n \in Threads /\ ~freed[n]

\* The list nodes and THREAD_Ts that p's next step reads or writes are intact
Safe(p) ==
    /\ pc[p] \in {"take", "claim", "task", "m_top", "x_nstore", "x_unlink",
                  "x_relink", "x_free"} => Intact(p)
    /\ pc[p] \in {"x_relink", "d_relink"} => Intact(nb[p][1]) /\ Intact(nb[p][2])
    /\ pc[p] \in {"d_cancel", "d_unlink", "d_relink", "d_nstore", "d_free",
                  "m_next", "m_recheck", "reg_link"} => Intact(ptr[p])
    /\ pc[p] = "d_cancel" => pc[ptr[p]] # "joined"  \* whose tid is gone
    /\ pc[p] = "reg_link" => Intact(prv[ListHead])
    /\ pc[p] = "m_scan" => Intact(nb[p][2])
    /\ pc[p] = "q_scan" => Intact(nxt[ListHead])

At(p, l) == pc[p] = l /\ pc[Main] # "crashed" /\ Safe(p)

\* Undefined behaviour: a freed THREAD_T or a NULL link is dereferenced
Crash(p) ==
    /\ pc[Main] # "crashed" /\ ~Safe(p)
    /\ pc[p] = "reg_link" => mutex = NULL
    /\ Goto(Main, "crashed")
    /\ UNCHANGED <<mutex, tasks, counters, lists, structs, locals>>

Waiters     == {t \in Threads : pc[t] = "cond_wait"}
LiveWaiters == {t \in Waiters : ~cancel[t]}

\* pthread_cond_signal from control state pcs: a waiter wakes, if there is
\* one; a waiter whose cancellation is pending need not take the signal
Signalled(pcs) ==
    {[pcs EXCEPT ![w] = "relock"] : w \in Waiters}
      \cup {pcs1 \in {pcs} : LiveWaiters = {}}

Broadcast(pcs) == [p \in Procs |-> IF p \in Waiters THEN "relock" ELSE pcs[p]]

-----------------------------------------------------------------------------
(* list_del, thread_num-- and idle_thread_num-- as p runs them on node t   *)

\* The reads of t->ptr.prev and t->ptr.next
Unlink(p, t, from, to) ==
    /\ At(p, from)
    /\ nb' = [nb EXCEPT ![p] = <<prv[t], nxt[t]>>]
    /\ Goto(p, to)
    /\ UNCHANGED <<mutex, tasks, counters, lists, structs, reg, ptr, timers>>

\* next->prev = prev, prev->next = next, and t's links are poisoned with NULL
Relink(p, t, from, to) ==
    /\ At(p, from)
    /\ prv' = [prv EXCEPT ![nb[p][2]] = nb[p][1], ![t] = NULL]
    /\ nxt' = [nxt EXCEPT ![nb[p][1]] = nb[p][2], ![t] = NULL]
    /\ nb' = [nb EXCEPT ![p] = <<NULL, NULL>>]
    /\ Goto(p, to)
    /\ UNCHANGED <<mutex, tasks, counters, structs, reg, ptr, timers>>

Load(p, from, to, counter) ==
    /\ At(p, from)
    /\ reg' = [reg EXCEPT ![p] = counter]
    /\ Goto(p, to)
    /\ UNCHANGED <<mutex, tasks, counters, lists, structs, ptr, nb, timers>>

NumLessKept(n) == n
NumLess(n) == n - 1

NumStore(p, from, to) ==
    /\ At(p, from)
    /\ thread_num' = NumLess(reg[p])
    /\ reg' = [reg EXCEPT ![p] = 0]
    /\ Goto(p, to)
    /\ UNCHANGED <<mutex, tasks, idle_thread_num, lists, structs, ptr, nb, timers>>

IdleStore(p, from, to) ==
    /\ At(p, from)
    /\ idle_thread_num' = reg[p] - 1
    /\ reg' = [reg EXCEPT ![p] = 0]
    /\ Goto(p, to)
    /\ UNCHANGED <<mutex, tasks, thread_num, lists, structs, ptr, nb, timers>>

-----------------------------------------------------------------------------
(* routine *)

\* while (!p->flag_halt), read without the mutex
Loop(t) ==
    /\ At(t, "loop")
    /\ Goto(t, IF flag_halt THEN "x_nload" ELSE "lock")
    /\ UNCHANGED <<mutex, tasks, counters, lists, structs, locals>>

\* pthread_mutex_lock and the load half of idle_thread_num++
Lock(t) ==
    /\ At(t, "lock") /\ mutex = NULL
    /\ mutex' = t
    /\ reg' = [reg EXCEPT ![t] = idle_thread_num]
    /\ Goto(t, "idle_inc")
    /\ UNCHANGED <<tasks, counters, lists, structs, ptr, nb, timers>>

\* The wait loop's test, with the mutex: wait, leave, or go on to take a task
Decide(t) ==
    \/ list_task = <<>> /\ ~flag_halt /\ mutex' = NULL /\ Goto(t, "cond_wait")
    \/ flag_halt /\ mutex' = NULL /\ Goto(t, "x_nload")
    \/ list_task # <<>> /\ ~flag_halt /\ mutex' = t /\ Goto(t, "take")

\* The store half of idle_thread_num++, then the test
IdleInc(t) ==
    /\ At(t, "idle_inc")
    /\ idle_thread_num' = reg[t] + 1
    /\ reg' = [reg EXCEPT ![t] = 0]
    /\ Decide(t)
    /\ UNCHANGED <<tasks, thread_num, lists, structs, ptr, nb, timers>>

\* pthread_cond_wait gets the mutex back, then the test again
Relock(t) ==
    /\ At(t, "relock") /\ mutex = NULL
    /\ Decide(t)
    /\ UNCHANGED <<tasks, counters, lists, structs, locals>>

\* pthread_cond_wait returns without a signal
SpuriousWakeup(t) ==
    /\ SpuriousWakeups
    /\ At(t, "cond_wait")
    /\ Goto(t, "relock")
    /\ UNCHANGED <<mutex, tasks, counters, lists, structs, locals>>

PoolCleanupMissing(t) == mutex' = t
PoolCleanup(t) == mutex' = NULL

\* A cancellation request acts in pthread_cond_wait: the mutex is taken again
\* and pool_cleanup releases it
CancelInWait(t) ==
    /\ At(t, "cond_wait") /\ cancel[t] /\ mutex = NULL
    /\ PoolCleanup(t)
    /\ Goto(t, "canceled")
    /\ UNCHANGED <<tasks, counters, lists, structs, locals>>

DequeueForgotten == UNCHANGED list_task
Dequeue == list_task' = Tail(list_task)

\* list_task_num--, t->mutex is locked, the first task leaves the list, and
\* the load half of idle_thread_num--
Take(t) ==
    /\ At(t, "take")
    /\ list_task_num' = IF list_task_num > 0 THEN list_task_num - 1 ELSE 0
    /\ task' = [task EXCEPT ![t] = Head(list_task)]
    /\ tlock' = [tlock EXCEPT ![t] = TRUE]
    /\ Dequeue
    /\ reg' = [reg EXCEPT ![t] = idle_thread_num]
    /\ Goto(t, "idle_dec")
    /\ UNCHANGED <<mutex, submitted, flag_halt, counters, lists, state, freed,
                   cancel, ptr, nb, timers>>

\* The store half of idle_thread_num--, pthread_mutex_unlock
IdleDec(t) ==
    /\ At(t, "idle_dec")
    /\ idle_thread_num' = reg[t] - 1
    /\ reg' = [reg EXCEPT ![t] = 0]
    /\ mutex' = NULL
    /\ Goto(t, "claim")
    /\ UNCHANGED <<tasks, thread_num, lists, structs, ptr, nb, timers>>

MarkBusyMissing(t) == UNCHANGED state
MarkBusy(t) == state' = [state EXCEPT ![t] = "BUSY"]

\* The thread marks itself busy and calls the task's function
Claim(t) ==
    /\ At(t, "claim")
    /\ MarkBusy(t)
    /\ Goto(t, IF task[t] = Manager THEN "m_top" ELSE "task")
    /\ UNCHANGED <<mutex, tasks, counters, lists, task, tlock, freed, cancel,
                   locals>>

\* The task's function returns: the task is freed, the thread is idle again
Finish(t) ==
    /\ \/ At(t, "task") /\ task[t] \notin LongTasks
       \/ At(t, "m_top") /\ flag_halt
    /\ task' = [task EXCEPT ![t] = NULL]
    /\ state' = [state EXCEPT ![t] = "IDLE"]
    /\ tlock' = [tlock EXCEPT ![t] = FALSE]
    /\ Goto(t, "loop")
    /\ UNCHANGED <<mutex, tasks, counters, lists, freed, cancel, locals>>

ThreadCleanupMissing(t) == UNCHANGED tlock
ThreadCleanup(t) == tlock' = [tlock EXCEPT ![t] = FALSE]

\* A cancellation request acts in the task's function (for the manager:
\* pthread_testcancel, sleep or pthread_join) and thread_cleanup runs
CancelInTask(t) ==
    /\ At(t, "task") \/ At(t, "m_top") \/ At(t, "d_join")
    /\ cancel[t]
    /\ ThreadCleanup(t)
    /\ ptr' = [ptr EXCEPT ![t] = NULL]
    /\ Goto(t, "canceled")
    /\ UNCHANGED <<mutex, tasks, counters, lists, state, task, freed, cancel,
                   reg, nb, timers>>

\* free(t) at the end of routine
ExitFree(t) ==
    /\ At(t, "x_free")
    /\ freed' = [freed EXCEPT ![t] = TRUE]
    /\ Goto(t, "exited")
    /\ UNCHANGED <<mutex, tasks, counters, lists, state, task, tlock, cancel,
                   locals>>

\* After the loop, all without p->mutex: thread_num--, idle_thread_num-- if
\* the thread is idle, list_del, free
Exit(t) ==
    \/ Load(t, "x_nload", "x_nstore", thread_num)
    \/ NumStore(t, "x_nstore", IF state[t] = "IDLE" THEN "x_iload" ELSE "x_unlink")
    \/ Load(t, "x_iload", "x_istore", idle_thread_num)
    \/ IdleStore(t, "x_istore", "x_unlink")
    \/ Unlink(t, t, "x_unlink", "x_relink")
    \/ Relink(t, t, "x_relink", "x_free")
    \/ ExitFree(t)

Worker(t) ==
    \/ Loop(t) \/ Lock(t) \/ IdleInc(t) \/ Relock(t) \/ CancelInWait(t)
    \/ Take(t) \/ IdleDec(t) \/ Claim(t) \/ Finish(t) \/ CancelInTask(t)
    \/ Exit(t)

-----------------------------------------------------------------------------
(* pool_thread_task_add, called by Main or by a running task *)

\* if (p->flag_halt) return, read without the mutex
TaskAddCheck(p) ==
    /\ At(p, "ready") \/ At(p, "task")
    /\ ~flag_halt
    /\ submitted + Cardinality({q \in Procs : pc[q] = "add_lock"}) < MaxTasks
    /\ Goto(p, "add_lock")
    /\ UNCHANGED <<mutex, tasks, counters, lists, structs, locals>>

TaskAddUnsignalled(pcs) == {pcs}
TaskAddSignal(pcs) == Signalled(pcs)

\* With the mutex: the task is appended, counted and signalled
TaskAdd(p) ==
    /\ At(p, "add_lock") /\ mutex = NULL
    /\ list_task' = Append(list_task, submitted + 1)
    /\ list_task_num' = list_task_num + 1
    /\ submitted' = submitted + 1
    /\ pc' \in TaskAddSignal([pc EXCEPT ![p] = IF p = Main THEN "ready" ELSE "task"])
    /\ UNCHANGED <<mutex, flag_halt, counters, lists, structs, locals>>

-----------------------------------------------------------------------------
(* thread_add, called by Main (pool_thread_new) or by the manager *)

AddReturns(p) == IF p = Main THEN "ready" ELSE "m_destroy"

\* pthread_create: the new thread runs at once, before it is registered
Create(p) ==
    /\ At(p, "create")
    /\ \E t \in Threads :
          /\ pc[t] = "none" /\ \A u \in 1 .. t - 1 : pc[u] # "none"
          /\ ptr' = [ptr EXCEPT ![p] = t]
          /\ pc' = [pc EXCEPT ![p] = "reg_link", ![t] = "loop"]
    /\ UNCHANGED <<mutex, tasks, counters, lists, structs, reg, nb, timers>>

CreateFails(p) ==
    /\ At(p, "create")
    /\ CreateMayFail \/ \A t \in Threads : pc[t] # "none"
    /\ Goto(p, IF p = Main THEN "failed" ELSE AddReturns(p))
    /\ UNCHANGED <<mutex, tasks, counters, lists, structs, locals>>

\* pthread_mutex_lock and list_add_tail(&t->ptr, &p->list_thread)
Register(p) ==
    /\ At(p, "reg_link") /\ mutex = NULL
    /\ mutex' = p
    /\ LET t == ptr[p]  last == prv[ListHead] IN
       /\ prv' = [prv EXCEPT ![ListHead] = t, ![t] = last]
       /\ nxt' = [nxt EXCEPT ![t] = ListHead, ![last] = t]
    /\ Goto(p, "reg_load")
    /\ UNCHANGED <<tasks, counters, structs, locals>>

\* The store half of thread_num++, pthread_mutex_unlock
Registered(p) ==
    /\ At(p, "reg_store")
    /\ thread_num' = reg[p] + 1
    /\ reg' = [reg EXCEPT ![p] = 0]
    /\ ptr' = [ptr EXCEPT ![p] = NULL]
    /\ mutex' = NULL
    /\ Goto(p, AddReturns(p))
    /\ UNCHANGED <<tasks, idle_thread_num, lists, structs, nb, timers>>

ThreadAdd(p) ==
    \/ Create(p) \/ CreateFails(p) \/ Register(p)
    \/ Load(p, "reg_load", "reg_store", thread_num) \/ Registered(p)

-----------------------------------------------------------------------------
(* thread_del on the thread ptr[p], by the manager (an idle thread) or by  *)
(* pool_thread_del (the first listed thread)                               *)

DelReturns(p) == IF p = Main THEN "q_scan" ELSE "m_signal"

RequestCancelMissing(t) == UNCHANGED cancel
RequestCancel(t) == cancel' = [cancel EXCEPT ![t] = TRUE]

\* While somebody else joins t, pthread_join returns EINVAL, which is logged
\* and passed over
JoinSkipped(t) == "d_unlink"
JoinEntered(t) == IF \E q \in Procs : pc[q] = "d_join" /\ ptr[q] = t
                  THEN "d_unlink" ELSE "d_join"

\* pthread_cancel and the call of pthread_join
Cancel(p) ==
    /\ At(p, "d_cancel")
    /\ RequestCancel(ptr[p])
    /\ Goto(p, JoinEntered(ptr[p]))
    /\ UNCHANGED <<mutex, tasks, counters, lists, state, task, tlock, freed,
                   locals>>

\* pthread_join returns: the victim was cancelled, or left by itself
Join(p) ==
    /\ At(p, "d_join")
    /\ pc[ptr[p]] \in {"exited", "canceled"}
    /\ pc' = [pc EXCEPT ![p] = "d_unlink", ![ptr[p]] = "joined"]
    /\ UNCHANGED <<mutex, tasks, counters, lists, structs, locals>>

\* The victim's task and then the victim's THREAD_T are freed
DelFree(p) ==
    /\ At(p, "d_free")
    /\ freed' = [freed EXCEPT ![ptr[p]] = TRUE]
    /\ task' = [task EXCEPT ![ptr[p]] = NULL]
    /\ ptr' = [ptr EXCEPT ![p] = NULL]
    /\ Goto(p, DelReturns(p))
    /\ UNCHANGED <<mutex, tasks, counters, lists, state, tlock, cancel, reg, nb,
                   timers>>

\* After the join, all without p->mutex: list_del, thread_num--,
\* idle_thread_num-- if the victim is idle, free
ThreadDel(p) ==
    \/ Cancel(p)
    \/ Join(p)
    \/ Unlink(p, ptr[p], "d_unlink", "d_relink")
    \/ Relink(p, ptr[p], "d_relink", "d_nload")
    \/ Load(p, "d_nload", "d_nstore", thread_num)
    \/ NumStore(p, "d_nstore", IF state[ptr[p]] = "IDLE" THEN "d_iload" ELSE "d_free")
    \/ Load(p, "d_iload", "d_istore", idle_thread_num)
    \/ IdleStore(p, "d_istore", "d_free")
    \/ DelFree(p)

-----------------------------------------------------------------------------
(* manager, the task that thread t runs; every test reads unlocked memory *)

\* The top of the loop, reached again after each sleep(1)
ManagerLoop(t) ==
    /\ At(t, "m_top")
    /\ ~flag_halt /\ ~cancel[t]
    /\ Goto(t, "m_create")
    /\ UNCHANGED <<mutex, tasks, counters, lists, structs, locals>>

BelowMaxOrAt == thread_num <= THREAD_NUM_MAX
BelowMax == thread_num < THREAD_NUM_MAX
AboveMinOrAt == thread_num >= THREAD_NUM_MIN
AboveMinByTwo == thread_num > THREAD_NUM_MIN + 1
AboveMin == thread_num > THREAD_NUM_MIN

StartsCreate(t) ==
    /\ interval' = [interval EXCEPT !.create = THREAD_INTERVAL_CREATE]
    /\ Goto(t, "create")

\* A thread is added when there are too few; when tasks wait, see who is idle
ManagerCreate(t) ==
    /\ At(t, "m_create")
    /\ LET due  == interval.create = 0 /\ BelowMax
           few  == thread_num < THREAD_NUM_MIN
           next == IF due /\ list_task # <<>> THEN "m_create_idle" ELSE "m_destroy"
       IN  \/ due /\ few /\ StartsCreate(t)
           \/ ~(due /\ few) /\ Goto(t, next) /\ UNCHANGED interval
    /\ UNCHANGED <<mutex, tasks, counters, lists, structs, reg, ptr, nb, wait>>

NobodyIdleLate == idle_thread_num < 0
NobodyIdle == idle_thread_num <= 0

\* Tasks wait: a thread is added if nobody is idle
ManagerCreateIdle(t) ==
    /\ At(t, "m_create_idle")
    /\ \/ NobodyIdle /\ StartsCreate(t)
       \/ ~NobodyIdle /\ Goto(t, "m_destroy") /\ UNCHANGED interval
    /\ UNCHANGED <<mutex, tasks, counters, lists, structs, reg, ptr, nb, wait>>

\* thread_del(p, 0) begins its search at the head of list_thread
StartsDestroy(t) ==
    /\ interval' = [interval EXCEPT !.destroy = THREAD_INTERVAL_DESTROY]
    /\ nb' = [nb EXCEPT ![t] = <<NULL, nxt[ListHead]>>]
    /\ Goto(t, "m_scan")

\* A thread is deleted when there are too many; when no task waits, see who
\* is idle
ManagerDestroy(t) ==
    /\ At(t, "m_destroy")
    /\ LET due  == interval.destroy <= 0 /\ AboveMin
           many == thread_num > THREAD_NUM_MAX
           next == IF due /\ list_task = <<>> THEN "m_destroy_idle" ELSE "m_signal"
       IN  \/ due /\ many /\ StartsDestroy(t)
           \/ ~(due /\ many) /\ Goto(t, next) /\ UNCHANGED <<nb, interval>>
    /\ UNCHANGED <<mutex, tasks, counters, lists, structs, reg, ptr, wait>>

\* No task waits: a thread is deleted if too many are idle
ManagerDestroyIdle(t) ==
    /\ At(t, "m_destroy_idle")
    /\ \/ idle_thread_num > THREAD_IDLE_MAX /\ StartsDestroy(t)
       \/ /\ idle_thread_num <= THREAD_IDLE_MAX
          /\ Goto(t, "m_signal")
          /\ UNCHANGED <<nb, interval>>
    /\ UNCHANGED <<mutex, tasks, counters, lists, structs, reg, ptr, wait>>

\* list_for_each: the local t stays on the first idle node, or on the last
Scan(t) ==
    /\ At(t, "m_scan")
    /\ LET node == nb[t][2] IN
       \/ node = ListHead /\ Goto(t, "m_recheck") /\ UNCHANGED ptr
       \/ /\ node # ListHead
          /\ ptr' = [ptr EXCEPT ![t] = node]
          /\ Goto(t, IF state[node] = "IDLE" THEN "m_recheck" ELSE "m_next")
    /\ nb' = [nb EXCEPT ![t] = <<NULL, NULL>>]
    /\ UNCHANGED <<mutex, tasks, counters, lists, structs, reg, timers>>

ScanNext(t) ==
    /\ At(t, "m_next")
    /\ nb' = [nb EXCEPT ![t] = <<NULL, nxt[ptr[t]]>>]
    /\ Goto(t, "m_scan")
    /\ UNCHANGED <<mutex, tasks, counters, lists, structs, reg, ptr, timers>>

\* if (t->state != THREAD_STATE_IDLE) return, else go on to cancel it
Recheck(t) ==
    /\ At(t, "m_recheck")
    /\ \/ state[ptr[t]] = "IDLE" /\ Goto(t, "d_cancel") /\ UNCHANGED ptr
       \/ /\ state[ptr[t]] # "IDLE"
          /\ Goto(t, DelReturns(t))
          /\ ptr' = [ptr EXCEPT ![t] = NULL]
    /\ UNCHANGED <<mutex, tasks, counters, lists, structs, reg, nb, timers>>

DecrementUnguarded(n) == n - 1
Decrement(n) == IF n > 0 THEN n - 1 ELSE n

\* pthread_cond_signal when a task and an idle thread wait, then the three
\* countdowns and sleep(1)
ManagerSignal(t) ==
    /\ At(t, "m_signal")
    /\ LET due  == interval.cond <= 0 /\ list_task # <<>> /\ idle_thread_num > 0
           cond == IF due THEN THREAD_INTERVAL_COND_SIGNAL ELSE interval.cond
           pcs  == [pc EXCEPT ![t] = "m_top"]
       IN  /\ pc' \in (IF due THEN Signalled(pcs) ELSE {pcs})
           /\ interval' = [create  |-> Decrement(interval.create),
                           destroy |-> Decrement(interval.destroy),
                           cond    |-> Decrement(cond)]
    /\ UNCHANGED <<mutex, tasks, counters, lists, structs, reg, ptr, nb, wait>>

ManagerStep(t) ==
    \/ ManagerLoop(t) \/ ManagerCreate(t) \/ ManagerCreateIdle(t)
    \/ ManagerDestroy(t) \/ ManagerDestroyIdle(t) \/ Scan(t) \/ ScanNext(t)
    \/ Recheck(t) \/ ManagerSignal(t)

-----------------------------------------------------------------------------
(* pool_thread_del, called by Main *)

Delete ==
    /\ MayDelete
    /\ At(Main, "ready")
    /\ Goto(Main, "halt")
    /\ UNCHANGED <<mutex, tasks, counters, lists, structs, locals>>

PurgeKeepsCount == list_task' = <<>> /\ UNCHANGED list_task_num
PurgeTasks == list_task' = <<>> /\ list_task_num' = 0

\* With the mutex: flag_halt, the task list is emptied, everybody is woken
Halt ==
    /\ At(Main, "halt") /\ mutex = NULL
    /\ flag_halt' = TRUE
    /\ PurgeTasks
    /\ pc' = Broadcast([pc EXCEPT ![Main] = "q_wait"])
    /\ UNCHANGED <<mutex, submitted, counters, lists, structs, locals>>

\* while (i-- > 0 && p->idle_thread_num > 0) sleep(1)
QuitWait ==
    /\ At(Main, "q_wait")
    /\ wait' = Decrement(wait)
    /\ Goto(Main, IF wait > 0 /\ idle_thread_num > 0 THEN "q_wait" ELSE "q_scan")
    /\ UNCHANGED <<mutex, tasks, counters, lists, structs, reg, ptr, nb, interval>>

\* A control point from which a thread still reads or writes the pool
UsesPool(t) == pc[t] \notin {"none", "x_free"} \cup DeadPCs

\* while (!list_empty(&p->list_thread)) thread_del(p, 1); then free(p), which
\* breaks every thread that still uses it
QuitScan ==
    /\ At(Main, "q_scan")
    /\ LET first == nxt[ListHead] IN
       \/ /\ first = ListHead
          /\ Goto(Main, IF \E t \in Threads : UsesPool(t) THEN "crashed" ELSE "done")
          /\ UNCHANGED ptr
       \/ /\ first # ListHead
          /\ ptr' = [ptr EXCEPT ![Main] = first]
          /\ Goto(Main, "d_cancel")
    /\ UNCHANGED <<mutex, tasks, counters, lists, structs, reg, nb, timers>>

MainStep == Halt \/ QuitWait \/ QuitScan \/ ThreadAdd(Main) \/ ThreadDel(Main)

-----------------------------------------------------------------------------
\* pool_thread_new up to thread_add: the manager is the only task
Init ==
    /\ mutex = NULL
    /\ list_task = <<Manager>> /\ list_task_num = 1 /\ submitted = 0
    /\ flag_halt = FALSE /\ thread_num = 0 /\ idle_thread_num = 0
    /\ nxt = [n \in Nodes |-> IF n = ListHead THEN ListHead ELSE NULL]
    /\ prv = nxt
    /\ state = [t \in Threads |-> "IDLE"]
    /\ task = [t \in Threads |-> NULL]
    /\ tlock = [t \in Threads |-> FALSE]
    /\ freed = [t \in Threads |-> FALSE]
    /\ cancel = [t \in Threads |-> FALSE]
    /\ pc = [p \in Procs |-> IF p = Main THEN "create" ELSE "none"]
    /\ reg = [p \in Procs |-> 0]
    /\ ptr = [p \in Procs |-> NULL]
    /\ nb = [p \in Procs |-> <<NULL, NULL>>]
    /\ interval = [create |-> 0, destroy |-> 0, cond |-> 0]
    /\ wait = THREAD_QUIT_WAITTIME_MAX

Thread(t) == Worker(t) \/ ManagerStep(t) \/ ThreadAdd(t) \/ ThreadDel(t)

\* The pool is gone, or the program is
Ended == pc[Main] \in {"done", "failed", "crashed"} /\ UNCHANGED vars

Next ==
    \/ MainStep \/ Delete \/ Ended
    \/ \E t \in Threads : Thread(t) \/ SpuriousWakeup(t)
    \/ \E p \in Procs : TaskAddCheck(p) \/ TaskAdd(p) \/ Crash(p)

Spec == Init /\ [][Next]_vars

\* Every thread and the caller keep running; calls of the pool and spurious
\* wakeups are nobody's duty.  A thread acts on a cancellation at the latest when it
\* enters pthread_cond_wait again, so wakeups cannot put it off for ever.
Fairness ==
    /\ WF_vars(MainStep)
    /\ \A t \in Threads : WF_vars(Thread(t)) /\ SF_vars(CancelInWait(t))
    /\ \A p \in Procs : WF_vars(TaskAdd(p)) /\ WF_vars(Crash(p))

FairSpec == Spec /\ Fairness

-----------------------------------------------------------------------------
(* What holds *)

\* Every variable keeps its type; the state of the program's memory
TypeOK ==
    /\ mutex \in Procs \cup {NULL}
    /\ list_task \in Seq(Nat) /\ list_task_num \in Nat /\ submitted \in Nat
    /\ flag_halt \in BOOLEAN /\ thread_num \in Int /\ idle_thread_num \in Int
    /\ nxt \in [Nodes -> Links] /\ prv \in [Nodes -> Links]
    /\ state \in [Threads -> {"IDLE", "BUSY"}]
    /\ task \in [Threads -> Nat \cup {NULL}]
    /\ tlock \in [Threads -> BOOLEAN] /\ freed \in [Threads -> BOOLEAN]
    /\ cancel \in [Threads -> BOOLEAN]
    /\ pc \in [Procs -> MainPCs \cup ThreadPCs]
    /\ \A p \in Procs : pc[p] \in PCsOf(p)
    /\ reg \in [Procs -> Int]
    /\ ptr \in [Procs -> Threads \cup {NULL}]
    /\ nb \in [Procs -> Links \X Links]
    /\ interval \in [create : Nat, destroy : Nat, cond : Nat]
    /\ wait \in Nat

\* p->mutex is held exactly by the process in the middle of a critical
\* section: a thread cancelled in pthread_cond_wait never takes it along
\* (pool_cleanup), and no return path of routine or thread_add keeps it.
MutexHolder ==
    pc[Main] # "crashed" => \A p \in Procs : mutex = p <=> pc[p] \in CriticalPCs

\* Whenever p->mutex is free, list_task_num is the length of list_task, over
\* every take, every addition and the purge of pool_thread_del.
TaskCount == mutex = NULL => list_task_num = Len(list_task)

\* Threads that will look at the task list before they wait again
Awake == {t \in Threads : pc[t] \in {"loop", "lock", "idle_inc", "relock", "take"}}

\* No wakeup is lost: while a thread sleeps on the condition and the pool is
\* not being destroyed, every waiting task has a thread of its own on the way
\* to the task list, also when waiters are cancelled as they are signalled.
NoLostWakeup ==
    ~flag_halt /\ LiveWaiters # {} => Len(list_task) <= Cardinality(Awake)

\* A thread that is over, or on its way out, has released its t->mutex
\* (thread_cleanup), so pthread_mutex_destroy never finds it locked.
ThreadMutexReleased ==
    \A t \in Threads : pc[t] \in ExitPCs \cup DeadPCs => ~tlock[t]

\* The manager never deletes its own thread, although thread_del reads the
\* threads' states without any lock.
ManagerSpared ==
    \A t \in Threads : pc[t] \in DelPCs => task[ptr[t]] # Manager

\* Until the pool is destroyed, thread_num counts the threads of list_thread
\* whenever no thread is being added or deleted: the unlocked -- of thread_del
\* never loses or doubles an update of a concurrent thread_add.
ThreadCount ==
    (~flag_halt /\ \A p \in Procs : pc[p] \notin AddPCs \cup DelPCs)
        => thread_num = Cardinality({t \in Threads : nxt[t] # NULL})

\* pool.h's limit on the number of threads holds until the pool is destroyed,
\* also while pool_thread_new and the manager both add threads.
WithinMax == ~flag_halt => thread_num <= THREAD_NUM_MAX

\* Once the pool has THREAD_NUM_MIN threads it never goes below until it is
\* destroyed, although the manager decides on a count it read unlocked.
KeepsMin ==
    [][~flag_halt' /\ thread_num >= THREAD_NUM_MIN
          => thread_num' >= THREAD_NUM_MIN]_vars

\* Until the pool is destroyed no step dereferences a freed THREAD_T or a
\* poisoned link, although thread_del walks and changes list_thread unlocked.
SafeUntilHalt == ~flag_halt => pc[Main] # "crashed"

TP == INSTANCE TaskPool WITH queue <- list_task, halted <- flag_halt,
                             running <- {task[t] : t \in Threads} \ {NULL}

\* The pool implements TaskPool: tasks start in the order of their addition,
\* each at most once, none after the pool began to be destroyed, and none is
\* lost but in the purge of pool_thread_del.
ImplementsTaskPool == TP!Spec

\* pool_thread_del comes to an end: cancelling, joining and waiting threads
\* never block one another.
HaltEnds == flag_halt ~> pc[Main] \in {"done", "crashed"}

-----------------------------------------------------------------------------
(* The manager's policy, which rests on a counter that may be wrong *)

\* idle_thread_num is the number of idle threads, whenever no thread is being
\* deleted and none holds p->mutex, until the pool is destroyed.  It need not be:
\* an update by thread_del, without the mutex, and one with it may overwrite each
\* other, and nothing corrects the counter later.
IdleCount ==
    (~flag_halt /\ mutex = NULL /\ \A p \in Procs : pc[p] \notin DelPCs)
        => idle_thread_num =
             Cardinality({t \in Threads : pc[t] \in {"cond_wait", "relock"}})

\* The bound on threads is used up, so that no thread can be created any more
OutOfThreads == \A t \in Threads : pc[t] # "none"

\* A waiting task is taken, unless the pool is destroyed first: when tasks wait and
\* no thread is idle the manager creates one (threadpool.c:218).  The code does not
\* keep it, with a counter that is too high.
TaskServed ==
    \A k \in 0 .. MaxTasks :
        (\E i \in DOMAIN list_task : list_task[i] = k)
            ~> \/ flag_halt \/ OutOfThreads
               \/ \A i \in DOMAIN list_task : list_task[i] # k

\* More than THREAD_IDLE_MAX threads do not sleep for ever while the pool is above
\* THREAD_NUM_MIN: the manager deletes some (threadpool.c:219).  The code does not
\* keep it, with a counter that is too low.
Shrinks ==
    thread_num > THREAD_NUM_MIN /\ Cardinality(Waiters) > THREAD_IDLE_MAX
        ~> \/ flag_halt \/ thread_num <= THREAD_NUM_MIN
           \/ Cardinality(Waiters) <= THREAD_IDLE_MAX

\* The counter is all that stands between the manager and its policy: with several
\* idle threads, busy ones and unlocked reads, a waiting task is taken as long as no
\* update of idle_thread_num was lost ...
ServedIfCounted == []IdleCount => TaskServed

\* ... and surplus idle threads are deleted.
ShrinksIfCounted == []IdleCount => Shrinks

-----------------------------------------------------------------------------
(* What the source says and the code does not keep *)

\* "Thread wasn't canceled (shouldn't happend!)": thread_del only joins
\* threads that its cancellation ended, never one that left by itself and
\* whose THREAD_T routine has freed.
JoinsOnlyCanceled ==
    [][\A t \in Threads : pc[t] = "exited" => pc'[t] = "exited"]_vars

\* pool_thread_task_add adds no task once the pool is being destroyed
NoTaskAfterHalt == flag_halt => list_task = <<>>

\* thread_del(p, 0) deletes an idle thread: the manager's deletions never end
\* a thread inside a task's function.
DeletesOnlyIdle ==
    [][\A t \in Threads : pc[t] = "task" /\ ~flag_halt => pc'[t] # "canceled"]_vars
=============================================================================
