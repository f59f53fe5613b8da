-------------------------- MODULE ThreadPoolProofs --------------------------
(***************************************************************************)
(* Proofs about ThreadPool, for every number of threads and tasks and all  *)
(* settings of the pool: its type invariant, mutual exclusion on p->mutex, *)
(* the count of waiting tasks, and that it implements TaskPool.            *)
(*                                                                         *)
(* Most steps are Quiet: a process moves to another control point, perhaps *)
(* into or out of p->mutex, and no task moves.  One lemma shows that quiet *)
(* steps keep the invariant; the steps that move a task, or decide that a  *)
(* thread may take one, are treated one by one.                            *)
(***************************************************************************)
EXTENDS ThreadPool, TLAPS

USE BoundsAssumption, PoolAssumption DEF Main, NULL, ListHead, Manager
USE DEF tasks, counters, lists, structs, timers, locals, Goto

-----------------------------------------------------------------------------
(* The inductive invariant *)

\* Control points of a thread that holds no task
EarlyPCs == {"none", "loop", "lock", "idle_inc", "cond_wait", "relock", "take"}

\* Control points of Main once flag_halt is set
HaltedPCs == {"q_wait", "q_scan", "done", "crashed"} \cup DelPCs

\* TypeOK is the conjunction of these two
PCTypeOK ==
    /\ pc \in [Procs -> MainPCs \cup ThreadPCs]
    /\ \A p \in Procs : pc[p] \in PCsOf(p)

DataTypeOK ==
    /\ mutex \in Procs \cup {NULL}
    /\ list_task \in Seq(Nat) /\ list_task_num \in Nat /\ submitted \in Nat
    /\ flag_halt \in BOOLEAN /\ thread_num \in Int /\ idle_thread_num \in Int
    /\ nxt \in [Nodes -> Links] /\ prv \in [Nodes -> Links]
    /\ state \in [Threads -> {"IDLE", "BUSY"}]
    /\ task \in [Threads -> Nat \cup {NULL}]
    /\ tlock \in [Threads -> BOOLEAN] /\ freed \in [Threads -> BOOLEAN]
    /\ cancel \in [Threads -> BOOLEAN]
    /\ reg \in [Procs -> Int]
    /\ ptr \in [Procs -> Threads \cup {NULL}]
    /\ nb \in [Procs -> Links \X Links]
    /\ interval \in [create : Nat, destroy : Nat, cond : Nat]
    /\ wait \in Nat

\* Between the wait loop's test and Take the mutex protects the answer
TakeReady ==
    \A t \in Threads : pc[t] = "take" => list_task # <<>> /\ ~flag_halt

HaltOnce   == flag_halt => pc[Main] \in HaltedPCs
CountExact == list_task_num = Len(list_task)

\* list_task holds the latest tasks, in the order of their numbers
InOrder ==
    /\ Len(list_task) <= submitted + 1
    /\ \A i \in 1 .. Len(list_task) :
          list_task[i] = submitted - Len(list_task) + i

\* A thread's task is older than every waiting task, and no other thread's
Taken == \A t \in Threads : task[t] <= submitted - Len(list_task)
Apart == \A t, u \in Threads : t # u /\ task[t] # NULL => task[t] # task[u]
Unassigned == \A t \in Threads : pc[t] \in EarlyPCs => task[t] = NULL

TaskInv == CountExact /\ InOrder /\ Taken /\ Apart
PoolInv == /\ PCTypeOK /\ DataTypeOK /\ MutexHolder /\ TakeReady /\ HaltOnce
           /\ TaskInv /\ Unassigned

\* The finite sets of the model, without the intervals they are defined by
LEMMA ProcFacts ==
    /\ Procs = Threads \cup {Main} /\ Nodes = Threads \cup {ListHead}
    /\ Main \notin Threads /\ NULL \notin Procs /\ Threads \subseteq Int
  BY DEF Procs, Nodes, Threads

\* The two halves of the type invariant
LEMMA TypeSplit == TypeOK <=> PCTypeOK /\ DataTypeOK
  BY DEF TypeOK, PCTypeOK, DataTypeOK

-----------------------------------------------------------------------------
(* Quiet steps *)

\* What thread_add, thread_del, pthread_cond_signal and _broadcast do to
\* the control of a thread that does not take the step itself
Stirred(q) ==
    \/ pc'[q] = pc[q]
    \/ pc[q] = "none" /\ pc'[q] = "loop"
    \/ pc[q] = "cond_wait" /\ pc'[q] = "relock"
    \/ pc[q] \in {"exited", "canceled"} /\ pc'[q] = "joined"

\* p moves to l; other threads may be started, woken or joined
Stirs(p, l) ==
    /\ pc' \in [Procs -> MainPCs \cup ThreadPCs]
    /\ pc'[p] = l
    /\ \A q \in Procs \ {p} : pc'[q] = pc[q] \/ (q \in Threads /\ Stirred(q))

MutexMove(p, l) ==
    \/ (pc[p] \in CriticalPCs <=> l \in CriticalPCs) /\ mutex' = mutex
    \/ /\ pc[p] \notin CriticalPCs /\ l \in CriticalPCs
       /\ mutex = NULL /\ mutex' = p
    \/ pc[p] \in CriticalPCs /\ l \notin CriticalPCs /\ mutex' = NULL

Move(p, l) ==
    /\ Goto(p, l) \/ Stirs(p, l)
    /\ l \in PCsOf(p) /\ pc[Main] # "crashed"
    /\ (p = Main /\ l = "crashed") \/ MutexMove(p, l)

\* A move to where nothing need be known, during which no task moves
Quiet(p, l) ==
    /\ Move(p, l)
    /\ l # "take" /\ UNCHANGED <<tasks, task>>
    /\ p \in Threads /\ l \in EarlyPCs => pc[p] \in EarlyPCs
    /\ p = Main /\ flag_halt => l \in HaltedPCs

\* A move of one process only is a special case
LEMMA MoveStirs ==
    ASSUME PoolInv, NEW p \in Procs, NEW l \in PCsOf(p), Goto(p, l)
    PROVE  Stirs(p, l)
  BY DEF PoolInv, PCTypeOK, PCsOf, Stirs, Stirred

\* What is said of the tasks alone stays true while they do not change
LEMMA TaskInvFrame ==
    ASSUME TaskInv, UNCHANGED <<tasks, task>>
    PROVE  TaskInv'
  BY DEF TaskInv, CountExact, InOrder, Taken, Apart

\* Moves keep the control points' type and mutual exclusion
LEMMA MoveKeeps ==
    ASSUME PoolInv, NEW p \in Procs, NEW l, Move(p, l)
    PROVE  PCTypeOK' /\ MutexHolder'
  <1>1. Stirs(p, l)
    BY MoveStirs DEF Move
  <1>2. PCTypeOK'
    <2>1. ASSUME NEW q \in Procs PROVE pc'[q] \in PCsOf(q)
      <3>1. CASE q = p
        BY <1>1, <3>1 DEF Move, Stirs
      <3>2. CASE q # p /\ pc'[q] = pc[q]
        BY <3>2 DEF PoolInv, PCTypeOK
      <3>3. CASE q # p /\ q \in Threads /\ Stirred(q)
        BY <3>3, ProcFacts
        DEF PoolInv, PCTypeOK, Stirred, PCsOf, ThreadPCs, WorkerPCs, DeadPCs
      <3> QED BY <1>1, <3>1, <3>2, <3>3 DEF Stirs
    <2> QED BY <1>1, <2>1 DEF PCTypeOK, PCsOf, Stirs
  <1>3. MutexHolder'
    <2>1. \A q \in Procs \ {p} : (pc[q] \in CriticalPCs <=> pc'[q] \in CriticalPCs)
      BY <1>1 DEF Stirs, Stirred, CriticalPCs
    <2>2. CASE p = Main /\ l = "crashed"
      BY <1>1, <2>2 DEF MutexHolder, Stirs
    <2>3. CASE MutexMove(p, l)
      BY <1>1, <2>1, <2>3, ProcFacts
      DEF PoolInv, MutexHolder, Move, MutexMove, Stirs
    <2> QED BY <2>2, <2>3 DEF Move
  <1> QED BY <1>2, <1>3

\* Quiet steps keep the invariant
LEMMA QuietKeeps ==
    ASSUME PoolInv, DataTypeOK', NEW p \in Procs, NEW l, Quiet(p, l)
    PROVE  PoolInv' /\ UNCHANGED <<tasks, task>>
  <1>1. PCTypeOK' /\ MutexHolder'
    BY MoveKeeps DEF Quiet
  <1>2. Stirs(p, l)
    BY MoveStirs DEF Quiet, Move
  <1>3. TakeReady' /\ HaltOnce' /\ Unassigned'
    BY <1>2, ProcFacts
    DEF PoolInv, TakeReady, HaltOnce, Unassigned, EarlyPCs, Quiet, Stirs, Stirred
  <1>4. TaskInv'
    BY TaskInvFrame DEF PoolInv, Quiet
  <1> QED BY <1>1, <1>3, <1>4 DEF PoolInv, Quiet

\* thread_del's search keeps a pair of links
LEMMA ScanTyped ==
    ASSUME DataTypeOK, NEW t,
           nb' = nb \/ \E n \in Nodes : nb' = [nb EXCEPT ![t] = <<NULL, nxt[n]>>]
    PROVE  nb' \in [Procs -> Links \X Links]
  <1>1. nb \in [Procs -> Links \X Links]
    BY DEF DataTypeOK
  <1>2. ASSUME NEW n \in Nodes, nb' = [nb EXCEPT ![t] = <<NULL, nxt[n]>>]
        PROVE  nb' \in [Procs -> Links \X Links]
    <2> DEFINE x == <<NULL, nxt[n]>>
    <2>1. x \in Links \X Links
      BY DEF DataTypeOK, Links
    <2>2. nb' = [nb EXCEPT ![t] = x]
      BY <1>2
    <2> HIDE DEF x
    <2> QED BY <1>1, <2>1, <2>2
  <1> QED BY <1>1, <1>2

\* pthread_cond_signal after a move
LEMMA SignalStirs ==
    ASSUME PoolInv, NEW p \in Procs, NEW l \in PCsOf(p), pc[p] # "cond_wait",
           pc' \in Signalled([pc EXCEPT ![p] = l])
    PROVE  Stirs(p, l)
  <1> DEFINE pcs == [pc EXCEPT ![p] = l]
  <1>1. /\ pcs \in [Procs -> MainPCs \cup ThreadPCs]
        /\ \A q \in Procs : pcs[q] = IF q = p THEN l ELSE pc[q]
    BY DEF PoolInv, PCTypeOK, PCsOf
  <1>0. "relock" \in ThreadPCs
    BY DEF ThreadPCs, WorkerPCs
  <1> HIDE DEF pcs
  <1>2. CASE pc' = pcs
    BY <1>1, <1>2 DEF Stirs, Stirred
  <1>3. ASSUME NEW w \in Waiters, pc' = [pcs EXCEPT ![w] = "relock"]
        PROVE  Stirs(p, l)
    <2>1. w \in Threads /\ w \in Procs /\ pc[w] = "cond_wait" /\ w # p
      BY <1>3, ProcFacts DEF Waiters
    <2> QED BY <1>0, <1>1, <1>3, <2>1 DEF Stirs, Stirred
  <1> QED BY <1>2, <1>3 DEF Signalled, pcs

\* pthread_cond_broadcast after a move
LEMMA BroadcastStirs ==
    ASSUME PoolInv, NEW p \in Procs, NEW l \in PCsOf(p), pc[p] # "cond_wait",
           pc' = Broadcast([pc EXCEPT ![p] = l])
    PROVE  Stirs(p, l)
  <1> DEFINE pcs == [pc EXCEPT ![p] = l]
  <1>1. /\ pcs \in [Procs -> MainPCs \cup ThreadPCs]
        /\ \A q \in Procs : pcs[q] = IF q = p THEN l ELSE pc[q]
    BY DEF PoolInv, PCTypeOK, PCsOf
  <1>2. "relock" \in ThreadPCs
    BY DEF ThreadPCs, WorkerPCs
  <1> HIDE DEF pcs
  <1>3. pc' = [q \in Procs |-> IF q \in Waiters THEN "relock" ELSE pcs[q]]
    BY DEF Broadcast, pcs
  <1> QED BY <1>1, <1>2, <1>3, ProcFacts DEF Waiters, Stirs, Stirred

-----------------------------------------------------------------------------
(* The quiet actions *)

\* routine, where no task moves
LEMMA RoutineKeeps ==
    ASSUME PoolInv, NEW t \in Threads,
           \/ Loop(t)
           \/ Lock(t)
           \/ SpuriousWakeup(t)
           \/ CancelInWait(t)
           \/ IdleDec(t)
           \/ Claim(t)
           \/ CancelInTask(t)
           \/ ExitFree(t)
    PROVE  PoolInv' /\ UNCHANGED <<tasks, task>>
  <1> USE ProcFacts
  <1>1. DataTypeOK'
    <2> USE DEF PoolInv, PCTypeOK, DataTypeOK, Links
    <2>1. CASE Loop(t)
      BY <2>1 DEF Loop
    <2>2. CASE Lock(t)
      BY <2>2 DEF Lock
    <2>3. CASE SpuriousWakeup(t)
      BY <2>3 DEF SpuriousWakeup
    <2>4. CASE CancelInWait(t)
      BY <2>4 DEF CancelInWait, PoolCleanup
    <2>5. CASE IdleDec(t)
      <3>1. idle_thread_num' \in Int /\ reg' \in [Procs -> Int]
        BY <2>5 DEF IdleDec
      <3>2. mutex' \in Procs \cup {NULL}
        BY <2>5 DEF IdleDec
      <3> QED BY <2>5, <3>1, <3>2 DEF IdleDec
    <2>6. CASE Claim(t)
      BY <2>6 DEF Claim, MarkBusy
    <2>7. CASE CancelInTask(t)
      BY <2>7 DEF CancelInTask, ThreadCleanup
    <2>8. CASE ExitFree(t)
      BY <2>8 DEF ExitFree
    <2> QED BY <2>1, <2>2, <2>3, <2>4, <2>5, <2>6, <2>7, <2>8
  <1>2. \E l : Quiet(t, l)
    <2> USE DEF PoolInv, PCTypeOK, HaltOnce, Quiet, Move, MutexMove, At, Safe,
               PCsOf, ThreadPCs, WorkerPCs, MainPCs, AddPCs, DelPCs, ExitPCs,
               ManagerPCs, DeadPCs, CriticalPCs, EarlyPCs, HaltedPCs
    <2>1. CASE Loop(t)
      <3>1. Quiet(t, IF flag_halt THEN "x_nload" ELSE "lock")
        BY <2>1 DEF Loop
      <3> QED BY <3>1
    <2>2. CASE Lock(t)
      <3>1. Quiet(t, "idle_inc")
        BY <2>2 DEF Lock
      <3> QED BY <3>1
    <2>3. CASE SpuriousWakeup(t)
      <3>1. Quiet(t, "relock")
        BY <2>3 DEF SpuriousWakeup
      <3> QED BY <3>1
    <2>4. CASE CancelInWait(t)
      <3>1. Quiet(t, "canceled")
        BY <2>4 DEF CancelInWait, PoolCleanup
      <3> QED BY <3>1
    <2>5. CASE IdleDec(t)
      <3>1. Quiet(t, "claim")
        BY <2>5 DEF IdleDec
      <3> QED BY <3>1
    <2>6. CASE Claim(t)
      <3>1. Quiet(t, IF task[t] = Manager THEN "m_top" ELSE "task")
        BY <2>6 DEF Claim, MarkBusy
      <3> QED BY <3>1
    <2>7. CASE CancelInTask(t)
      <3>1. Quiet(t, "canceled")
        BY <2>7 DEF CancelInTask, ThreadCleanup
      <3> QED BY <3>1
    <2>8. CASE ExitFree(t)
      <3>1. Quiet(t, "exited")
        BY <2>8 DEF ExitFree
      <3> QED BY <3>1
    <2> QED BY <2>1, <2>2, <2>3, <2>4, <2>5, <2>6, <2>7, <2>8
  <1> QED BY <1>1, <1>2, QuietKeeps

\* The counters' loads and stores
LEMMA CounterKeeps ==
    ASSUME PoolInv, NEW p \in Procs, NEW from, NEW to \in PCsOf(p),
           from \notin EarlyPCs, to \notin EarlyPCs,
           p = Main => (from \in HaltedPCs <=> to \in HaltedPCs),
           from \in CriticalPCs <=> to \in CriticalPCs,
           NEW c \in Int,
           \/ Load(p, from, to, c)
           \/ NumStore(p, from, to)
           \/ IdleStore(p, from, to)
    PROVE  PoolInv' /\ UNCHANGED <<tasks, task>>
  <1> USE ProcFacts
  <1>1. DataTypeOK'
    <2> USE DEF PoolInv, PCTypeOK, DataTypeOK, Links
    <2>1. CASE Load(p, from, to, c)
      BY <2>1 DEF Load
    <2>2. CASE NumStore(p, from, to)
      <3>1. thread_num' \in Int /\ reg' \in [Procs -> Int]
        BY <2>2 DEF NumStore, NumLess
      <3> QED BY <2>2, <3>1 DEF NumStore
    <2>3. CASE IdleStore(p, from, to)
      <3>1. idle_thread_num' \in Int /\ reg' \in [Procs -> Int]
        BY <2>3 DEF IdleStore
      <3> QED BY <2>3, <3>1 DEF IdleStore
    <2> QED BY <2>1, <2>2, <2>3
  <1>2. \E l : Quiet(p, l)
    <2> USE DEF PoolInv, PCTypeOK, HaltOnce, Quiet, Move, MutexMove, At, Safe,
               PCsOf, ThreadPCs, WorkerPCs, MainPCs, AddPCs, DelPCs, ExitPCs,
               ManagerPCs, DeadPCs, CriticalPCs, EarlyPCs, HaltedPCs
    <2>1. CASE Load(p, from, to, c)
      <3>1. Quiet(p, to)
        BY <2>1 DEF Load
      <3> QED BY <3>1
    <2>2. CASE NumStore(p, from, to)
      <3>1. Quiet(p, to)
        BY <2>2 DEF NumStore, NumLess
      <3> QED BY <3>1
    <2>3. CASE IdleStore(p, from, to)
      <3>1. Quiet(p, to)
        BY <2>3 DEF IdleStore
      <3> QED BY <3>1
    <2> QED BY <2>1, <2>2, <2>3
  <1> QED BY <1>1, <1>2, QuietKeeps

\* list_del
LEMMA ListKeeps ==
    ASSUME PoolInv, NEW p \in Procs, NEW t \in Threads, NEW from, NEW to \in PCsOf(p),
           from \notin EarlyPCs, to \notin EarlyPCs,
           p = Main => (from \in HaltedPCs <=> to \in HaltedPCs),
           from \notin CriticalPCs, to \notin CriticalPCs,
           Unlink(p, t, from, to) \/ Relink(p, t, from, to)
    PROVE  PoolInv' /\ UNCHANGED <<tasks, task>>
  <1> USE ProcFacts
  <1>1. DataTypeOK'
    <2> USE DEF PoolInv, PCTypeOK, DataTypeOK, Links
    <2>1. CASE Unlink(p, t, from, to)
      BY <2>1 DEF Unlink
    <2>2. CASE Relink(p, t, from, to)
      BY <2>2 DEF Relink
    <2> QED BY <2>1, <2>2
  <1>2. \E l : Quiet(p, l)
    <2> USE DEF PoolInv, PCTypeOK, HaltOnce, Quiet, Move, MutexMove, At, Safe,
               PCsOf, ThreadPCs, WorkerPCs, MainPCs, AddPCs, DelPCs, ExitPCs,
               ManagerPCs, DeadPCs, CriticalPCs, EarlyPCs, HaltedPCs
    <2>1. CASE Unlink(p, t, from, to)
      <3>1. Quiet(p, to)
        BY <2>1 DEF Unlink
      <3> QED BY <3>1
    <2>2. CASE Relink(p, t, from, to)
      <3>1. Quiet(p, to)
        BY <2>2 DEF Relink
      <3> QED BY <3>1
    <2> QED BY <2>1, <2>2
  <1> QED BY <1>1, <1>2, QuietKeeps

\* manager
LEMMA ManagerKeeps ==
    ASSUME PoolInv, NEW t \in Threads,
           \/ ManagerLoop(t)
           \/ ManagerCreate(t)
           \/ ManagerCreateIdle(t)
           \/ ManagerDestroy(t)
           \/ ManagerDestroyIdle(t)
           \/ Scan(t)
           \/ ScanNext(t)
           \/ Recheck(t)
           \/ ManagerSignal(t)
    PROVE  PoolInv' /\ UNCHANGED <<tasks, task>>
  <1> USE ProcFacts
  <1>1. DataTypeOK'
    <2> USE DEF PoolInv, PCTypeOK, DataTypeOK, Links
    <2>1. CASE ManagerLoop(t)
      BY <2>1 DEF ManagerLoop
    <2>2. CASE ManagerCreate(t)
      <3>1. interval' = interval \/ StartsCreate(t)
        BY <2>2 DEF ManagerCreate
      <3>2. interval' \in [create : Nat, destroy : Nat, cond : Nat]
        BY <3>1 DEF StartsCreate
      <3> QED BY <2>2, <3>2 DEF ManagerCreate
    <2>3. CASE ManagerCreateIdle(t)
      <3>1. interval' = interval \/ StartsCreate(t)
        BY <2>3 DEF ManagerCreateIdle
      <3>2. interval' \in [create : Nat, destroy : Nat, cond : Nat]
        BY <3>1 DEF StartsCreate
      <3> QED BY <2>3, <3>2 DEF ManagerCreateIdle
    <2>4. CASE ManagerDestroy(t)
      <3>1. nb' = nb \/ nb' = [nb EXCEPT ![t] = <<NULL, nxt[ListHead]>>]
        BY <2>4 DEF ManagerDestroy, StartsDestroy
      <3>2. nb' \in [Procs -> Links \X Links]
        BY <3>1, ScanTyped
      <3>3. interval' \in [create : Nat, destroy : Nat, cond : Nat]
        BY <2>4 DEF ManagerDestroy, StartsDestroy
      <3> QED BY <2>4, <3>2, <3>3 DEF ManagerDestroy, StartsDestroy
    <2>5. CASE ManagerDestroyIdle(t)
      <3>1. nb' = nb \/ nb' = [nb EXCEPT ![t] = <<NULL, nxt[ListHead]>>]
        BY <2>5 DEF ManagerDestroyIdle, StartsDestroy
      <3>2. nb' \in [Procs -> Links \X Links]
        BY <3>1, ScanTyped
      <3>3. interval' \in [create : Nat, destroy : Nat, cond : Nat]
        BY <2>5 DEF ManagerDestroyIdle, StartsDestroy
      <3> QED BY <2>5, <3>2, <3>3 DEF ManagerDestroyIdle, StartsDestroy
    <2>6. CASE Scan(t)
      BY <2>6 DEF Scan, At, Safe, Intact
    <2>7. CASE ScanNext(t)
      <3>1. ptr[t] \in Nodes
        BY <2>7 DEF ScanNext, At, Safe, Intact
      <3>2. nb' \in [Procs -> Links \X Links]
        BY <2>7, <3>1, ScanTyped DEF ScanNext
      <3> QED BY <2>7, <3>2 DEF ScanNext
    <2>8. CASE Recheck(t)
      BY <2>8 DEF Recheck, DelReturns
    <2>9. CASE ManagerSignal(t)
      <3>1. interval.create \in Nat /\ interval.destroy \in Nat /\ interval.cond \in Nat
        OBVIOUS
      <3>2. PICK cond \in Nat :
               interval' = [create  |-> Decrement(interval.create),
                            destroy |-> Decrement(interval.destroy),
                            cond    |-> Decrement(cond)]
        BY <2>9, <3>1 DEF ManagerSignal
      <3>3. \A n \in Nat : Decrement(n) \in Nat
        BY DEF Decrement
      <3>4. interval' \in [create : Nat, destroy : Nat, cond : Nat]
        BY <3>1, <3>2, <3>3
      <3> QED BY <2>9, <3>4 DEF ManagerSignal
    <2> QED BY <2>1, <2>2, <2>3, <2>4, <2>5, <2>6, <2>7, <2>8, <2>9
  <1>2. \E l : Quiet(t, l)
    <2> USE DEF PoolInv, PCTypeOK, HaltOnce, Quiet, Move, MutexMove, At, Safe,
               PCsOf, ThreadPCs, WorkerPCs, MainPCs, AddPCs, DelPCs, ExitPCs,
               ManagerPCs, DeadPCs, CriticalPCs, EarlyPCs, HaltedPCs
    <2>1. CASE ManagerLoop(t)
      <3>1. Quiet(t, "m_create")
        BY <2>1 DEF ManagerLoop
      <3> QED BY <3>1
    <2>2. CASE ManagerCreate(t)
      <3>1. Quiet(t, "create") \/ Quiet(t, "m_create_idle") \/ Quiet(t, "m_destroy")
        BY <2>2 DEF ManagerCreate, StartsCreate
      <3> QED BY <3>1
    <2>3. CASE ManagerCreateIdle(t)
      <3>1. Quiet(t, "create") \/ Quiet(t, "m_destroy")
        BY <2>3 DEF ManagerCreateIdle, StartsCreate
      <3> QED BY <3>1
    <2>4. CASE ManagerDestroy(t)
      <3>1. Quiet(t, "m_scan") \/ Quiet(t, "m_destroy_idle") \/ Quiet(t, "m_signal")
        BY <2>4 DEF ManagerDestroy, StartsDestroy
      <3> QED BY <3>1
    <2>5. CASE ManagerDestroyIdle(t)
      <3>1. Quiet(t, "m_scan") \/ Quiet(t, "m_signal")
        BY <2>5 DEF ManagerDestroyIdle, StartsDestroy
      <3> QED BY <3>1
    <2>6. CASE Scan(t)
      <3>1. Quiet(t, "m_recheck") \/ Quiet(t, "m_next")
        BY <2>6 DEF Scan
      <3> QED BY <3>1
    <2>7. CASE ScanNext(t)
      <3>1. Quiet(t, "m_scan")
        BY <2>7 DEF ScanNext
      <3> QED BY <3>1
    <2>8. CASE Recheck(t)
      <3>1. Quiet(t, "d_cancel") \/ Quiet(t, "m_signal")
        BY <2>8 DEF Recheck, DelReturns
      <3> QED BY <3>1
    <2>9. CASE ManagerSignal(t)
      <3>1. Quiet(t, "m_top")
        <4>1. pc' = [pc EXCEPT ![t] = "m_top"]
                \/ pc' \in Signalled([pc EXCEPT ![t] = "m_top"])
          BY <2>9 DEF ManagerSignal
        <4>2. pc[t] # "cond_wait" /\ "m_top" \in PCsOf(t)
          BY <2>9 DEF ManagerSignal
        <4>3. Stirs(t, "m_top")
          BY <4>1, <4>2, SignalStirs, MoveStirs
        <4> QED BY <2>9, <4>3 DEF ManagerSignal
      <3> QED BY <3>1
    <2> QED BY <2>1, <2>2, <2>3, <2>4, <2>5, <2>6, <2>7, <2>8, <2>9
  <1> QED BY <1>1, <1>2, QuietKeeps

\* thread_add, thread_del and pool_thread_task_add, where no task moves
LEMMA CallerKeeps ==
    ASSUME PoolInv, NEW p \in Procs,
           \/ TaskAddCheck(p)
           \/ Create(p)
           \/ CreateFails(p)
           \/ Register(p)
           \/ Registered(p)
           \/ Cancel(p)
           \/ Join(p)
    PROVE  PoolInv' /\ UNCHANGED <<tasks, task>>
  <1> USE ProcFacts
  <1>1. DataTypeOK'
    <2> USE DEF PoolInv, PCTypeOK, DataTypeOK, Links
    <2>1. CASE TaskAddCheck(p)
      BY <2>1 DEF TaskAddCheck
    <2>2. CASE Create(p)
      <3>1. ptr' \in [Procs -> Threads \cup {NULL}]
        BY <2>2 DEF Create
      <3> QED BY <2>2, <3>1 DEF Create
    <2>3. CASE CreateFails(p)
      BY <2>3 DEF CreateFails, AddReturns
    <2>4. CASE Register(p)
      BY <2>4 DEF Register
    <2>5. CASE Registered(p)
      <3>1. thread_num' \in Int /\ reg' \in [Procs -> Int]
        BY <2>5 DEF Registered
      <3>2. ptr' \in [Procs -> Threads \cup {NULL}]
        BY <2>5 DEF Registered
      <3> QED BY <2>5, <3>1, <3>2 DEF Registered
    <2>6. CASE Cancel(p)
      BY <2>6 DEF Cancel, RequestCancel, JoinEntered
    <2>7. CASE Join(p)
      BY <2>7 DEF Join
    <2> QED BY <2>1, <2>2, <2>3, <2>4, <2>5, <2>6, <2>7
  <1>2. \E l : Quiet(p, l)
    <2> USE DEF PoolInv, PCTypeOK, HaltOnce, Quiet, Move, MutexMove, At, Safe,
               PCsOf, ThreadPCs, WorkerPCs, MainPCs, AddPCs, DelPCs, ExitPCs,
               ManagerPCs, DeadPCs, CriticalPCs, EarlyPCs, HaltedPCs
    <2>1. CASE TaskAddCheck(p)
      <3>1. Quiet(p, "add_lock")
        BY <2>1 DEF TaskAddCheck
      <3> QED BY <3>1
    <2>2. CASE Create(p)
      <3>1. Quiet(p, "reg_link")
        <4>1. PICK t \in Threads :
                 pc[t] = "none" /\ pc' = [pc EXCEPT ![p] = "reg_link", ![t] = "loop"]
          BY <2>2 DEF Create
        <4>2. Stirs(p, "reg_link")
          BY <2>2, <4>1 DEF Create, Stirs, Stirred
        <4> QED BY <2>2, <4>2 DEF Create
      <3> QED BY <3>1
    <2>3. CASE CreateFails(p)
      <3>1. Quiet(p, IF p = Main THEN "failed" ELSE "m_destroy")
        BY <2>3 DEF CreateFails, AddReturns
      <3> QED BY <3>1
    <2>4. CASE Register(p)
      <3>1. Quiet(p, "reg_load")
        BY <2>4 DEF Register
      <3> QED BY <3>1
    <2>5. CASE Registered(p)
      <3>1. Quiet(p, AddReturns(p))
        BY <2>5 DEF Registered, AddReturns
      <3> QED BY <3>1
    <2>6. CASE Cancel(p)
      <3>1. Quiet(p, JoinEntered(ptr[p]))
        BY <2>6 DEF Cancel, RequestCancel, JoinEntered
      <3> QED BY <3>1
    <2>7. CASE Join(p)
      <3>1. Quiet(p, "d_unlink")
        <4>1. ptr[p] \in Threads \/ ptr[p] \notin Procs
          BY DEF DataTypeOK
        <4>2. Stirs(p, "d_unlink")
          BY <2>7, <4>1 DEF Join, Stirs, Stirred
        <4> QED BY <2>7, <4>2 DEF Join
      <3> QED BY <3>1
    <2> QED BY <2>1, <2>2, <2>3, <2>4, <2>5, <2>6, <2>7
  <1> QED BY <1>1, <1>2, QuietKeeps

\* pool_thread_del, where no task moves
LEMMA MainKeeps ==
    ASSUME PoolInv, \/ Delete
           \/ QuitWait
           \/ QuitScan
           \/ (\E q \in Procs : Crash(q))
    PROVE  PoolInv' /\ UNCHANGED <<tasks, task>>
  <1> USE ProcFacts
  <1>1. DataTypeOK'
    <2> USE DEF PoolInv, PCTypeOK, DataTypeOK, Links
    <2>1. CASE Delete
      BY <2>1 DEF Delete
    <2>2. CASE QuitWait
      BY <2>2 DEF QuitWait, Decrement
    <2>3. CASE QuitScan
      BY <2>3 DEF QuitScan, At, Safe, Intact
    <2>4. CASE (\E q \in Procs : Crash(q))
      <3>1. UNCHANGED <<mutex, tasks, counters, lists, structs, locals>>
        BY <2>4 DEF Crash
      <3> QED BY <3>1
    <2> QED BY <2>1, <2>2, <2>3, <2>4
  <1>2. \E l : Quiet(Main, l)
    <2> USE DEF PoolInv, PCTypeOK, HaltOnce, Quiet, Move, MutexMove, At, Safe,
               PCsOf, ThreadPCs, WorkerPCs, MainPCs, AddPCs, DelPCs, ExitPCs,
               ManagerPCs, DeadPCs, CriticalPCs, EarlyPCs, HaltedPCs
    <2>1. CASE Delete
      <3>1. Quiet(Main, "halt")
        BY <2>1 DEF Delete
      <3> QED BY <3>1
    <2>2. CASE QuitWait
      <3>1. Quiet(Main, "q_wait") \/ Quiet(Main, "q_scan")
        BY <2>2 DEF QuitWait, Decrement
      <3> QED BY <3>1
    <2>3. CASE QuitScan
      <3>1. Quiet(Main, "done") \/ Quiet(Main, "crashed") \/ Quiet(Main, "d_cancel")
        BY <2>3 DEF QuitScan
      <3> QED BY <3>1
    <2>4. CASE (\E q \in Procs : Crash(q))
      <3>1. Quiet(Main, "crashed")
        BY <2>4 DEF Crash
      <3> QED BY <3>1
    <2> QED BY <2>1, <2>2, <2>3, <2>4
  <1> QED BY <1>1, <1>2, QuietKeeps

-----------------------------------------------------------------------------
(* The steps that decide about a task or move one *)

\* A decision of the wait loop keeps the invariant
LEMMA DecideKeeps ==
    ASSUME PoolInv, DataTypeOK', NEW t \in Threads, Decide(t),
           At(t, "idle_inc") \/ (At(t, "relock") /\ mutex = NULL),
           UNCHANGED <<tasks, task>>
    PROVE  PoolInv'
  <1> USE ProcFacts
  <1>1. pc[t] \in EarlyPCs
    BY DEF At, EarlyPCs
  <1>2. CASE ~Goto(t, "take")
    <2>1. Quiet(t, "cond_wait") \/ Quiet(t, "x_nload")
      BY <1>1, <1>2
      DEF Decide, Quiet, Move, MutexMove, At, PCsOf, ThreadPCs, WorkerPCs,
          ExitPCs, CriticalPCs, EarlyPCs, PoolInv, MutexHolder
    <2> QED BY <2>1, QuietKeeps
  <1>3. CASE Goto(t, "take")
    <2>1. pc' = [q \in Procs |-> IF q = t THEN "take" ELSE pc[q]]
      BY <1>3 DEF PoolInv, PCTypeOK
    <2>2. list_task # <<>> /\ ~flag_halt /\ mutex' = t
      BY <2>1 DEF Decide, PoolInv, PCTypeOK
    <2>3. Move(t, "take")
      BY <1>3, <2>2
      DEF Move, MutexMove, At, PCsOf, ThreadPCs, WorkerPCs, CriticalPCs, PoolInv,
          MutexHolder
    <2>4. PCTypeOK' /\ MutexHolder'
      BY <2>3, MoveKeeps
    <2>5. TakeReady' /\ HaltOnce' /\ Unassigned'
      BY <1>1, <2>1, <2>2 DEF PoolInv, TakeReady, HaltOnce, Unassigned
    <2>6. TaskInv'
      BY TaskInvFrame DEF PoolInv
    <2> QED BY <2>4, <2>5, <2>6 DEF PoolInv
  <1> QED BY <1>2, <1>3

\* The two steps that decide
LEMMA WaitLoopKeeps ==
    ASSUME PoolInv, NEW t \in Threads, IdleInc(t) \/ Relock(t)
    PROVE  PoolInv' /\ UNCHANGED <<tasks, task>>
  <1>1. mutex' \in Procs \cup {NULL}
    BY ProcFacts DEF IdleInc, Relock, Decide
  <1>2. ASSUME IdleInc(t) PROVE DataTypeOK'
    <2>1. reg \in [Procs -> Int] /\ t \in Procs
      BY ProcFacts DEF PoolInv, DataTypeOK
    <2>2. idle_thread_num' \in Int /\ reg' \in [Procs -> Int]
      BY <1>2, <2>1 DEF IdleInc
    <2> QED BY <1>1, <1>2, <2>2 DEF IdleInc, PoolInv, DataTypeOK
  <1>3. ASSUME Relock(t) PROVE DataTypeOK'
    BY <1>1, <1>3 DEF Relock, PoolInv, DataTypeOK
  <1>4. DataTypeOK' /\ UNCHANGED <<tasks, task>>
    <2>1. UNCHANGED <<tasks, task>>
      BY DEF IdleInc, Relock
    <2> QED BY <1>2, <1>3, <2>1
  <1>5. Decide(t) /\ (At(t, "idle_inc") \/ (At(t, "relock") /\ mutex = NULL))
    BY DEF IdleInc, Relock
  <1> QED BY <1>4, <1>5, DecideKeeps

\* Take keeps the invariant and starts the first task
LEMMA TakeKeeps ==
    ASSUME PoolInv, NEW t \in Threads, Take(t)
    PROVE  PoolInv' /\ TP!Start
  <1> USE ProcFacts DEF Dequeue
  <1>1. list_task # <<>> /\ ~flag_halt /\ task[t] = NULL
    BY DEF Take, At, PoolInv, TakeReady, Unassigned, EarlyPCs
  <1>2. /\ list_task \in Seq(Nat) /\ Len(list_task) > 0
        /\ Head(list_task) = list_task[1] /\ Head(list_task) \in Nat
        /\ Head(list_task) = submitted - Len(list_task) + 1
    <2>1. list_task \in Seq(Nat) /\ list_task # <<>>
      BY <1>1 DEF PoolInv, DataTypeOK
    <2>2. /\ Len(list_task) \in Nat /\ Len(list_task) > 0
          /\ Head(list_task) = list_task[1] /\ list_task[1] \in Nat
      BY <2>1
    <2>3. list_task[1] = submitted - Len(list_task) + 1
      BY <2>2 DEF PoolInv, TaskInv, InOrder
    <2> QED BY <2>1, <2>2, <2>3
  <1>3. /\ list_task' \in Seq(Nat) /\ Len(list_task') = Len(list_task) - 1
        /\ \A i \in 1 .. Len(list_task') : list_task'[i] = list_task[i + 1]
    BY <1>2 DEF Take
  <1>4. task' = [u \in Threads |-> IF u = t THEN Head(list_task) ELSE task[u]]
    BY DEF Take, PoolInv, DataTypeOK
  <1>5. DataTypeOK'
    <2>1. list_task_num' \in Nat /\ reg' \in [Procs -> Int]
      BY DEF Take, PoolInv, DataTypeOK
    <2>2. task' \in [Threads -> Nat \cup {NULL}]
      BY <1>2, <1>4 DEF PoolInv, DataTypeOK
    <2>3. tlock' \in [Threads -> BOOLEAN]
      BY DEF Take, PoolInv, DataTypeOK
    <2> QED BY <1>3, <2>1, <2>2, <2>3 DEF Take, PoolInv, DataTypeOK
  <1>6. PCTypeOK' /\ MutexHolder'
    <2>1. Move(t, "idle_dec")
      BY DEF Take, Move, MutexMove, At, PCsOf, ThreadPCs, WorkerPCs, CriticalPCs
    <2> QED BY <2>1, MoveKeeps
  <1>7. TakeReady' /\ HaltOnce' /\ Unassigned'
    <2>1. pc' = [q \in Procs |-> IF q = t THEN "idle_dec" ELSE pc[q]]
      BY DEF Take, PoolInv, PCTypeOK
    <2>2. \A u \in Threads : u # t => pc[u] # "take"
      BY DEF Take, At, PoolInv, MutexHolder, CriticalPCs
    <2> QED
      BY <1>4, <2>1, <2>2
      DEF Take, PoolInv, TakeReady, HaltOnce, Unassigned, EarlyPCs
  <1>8. TaskInv'
    <2>1. CountExact'
      BY <1>2, <1>3 DEF Take, PoolInv, TaskInv, CountExact
    <2>2. InOrder'
      <3>1. /\ Len(list_task) \in Nat /\ submitted \in Nat
            /\ submitted' = submitted /\ Len(list_task) <= submitted + 1
        BY <1>2 DEF Take, PoolInv, DataTypeOK, TaskInv, InOrder
      <3>2. ASSUME NEW i \in 1 .. Len(list_task')
            PROVE  list_task'[i] = submitted' - Len(list_task') + i
        <4>1. i + 1 \in 1 .. Len(list_task) /\ list_task'[i] = list_task[i + 1]
          BY <1>3, <3>1
        <4>2. list_task[i + 1] = submitted - Len(list_task) + (i + 1)
          BY <4>1 DEF PoolInv, TaskInv, InOrder
        <4> QED BY <1>3, <3>1, <4>1, <4>2
      <3> QED BY <1>3, <3>1, <3>2 DEF InOrder
    <2>3. Taken'
      <3>1. submitted' - Len(list_task') = Head(list_task)
        BY <1>2, <1>3 DEF Take, PoolInv, DataTypeOK
      <3>2. \A u \in Threads : task[u] \in Int /\ task[u] <= Head(list_task)
        <4>1. ASSUME NEW u \in Threads
              PROVE  /\ task[u] \in Int /\ submitted \in Int
                     /\ task[u] <= submitted - Len(list_task)
          BY DEF PoolInv, DataTypeOK, TaskInv, Taken
        <4> QED BY <1>2, <4>1
      <3> QED BY <1>2, <1>4, <3>1, <3>2 DEF Taken
    <2>4. Apart'
      <3>1. \A u \in Threads : task[u] # Head(list_task)
        <4>1. \A u \in Threads :
                 task[u] \in Int /\ task[u] <= submitted - Len(list_task)
          BY DEF PoolInv, DataTypeOK, TaskInv, Taken
        <4>2. Len(list_task) \in Int /\ submitted \in Int
          BY <1>2 DEF PoolInv, DataTypeOK
        <4> QED BY <1>2, <4>1, <4>2
      <3> QED BY <1>4, <3>1 DEF PoolInv, TaskInv, Apart
    <2> QED BY <2>1, <2>2, <2>3, <2>4 DEF TaskInv
  <1>9. TP!Start
    <2>1. {task'[u] : u \in Threads} \ {NULL} =
            ({task[u] : u \in Threads} \ {NULL}) \cup {Head(list_task)}
      BY <1>1, <1>2, <1>4
    <2> QED BY <1>1, <2>1 DEF TP!Start, Take
  <1> QED BY <1>5, <1>6, <1>7, <1>8, <1>9 DEF PoolInv

\* The end of thread t's task, for routine's and for thread_del's free
LEMMA EndKeeps ==
    ASSUME PoolInv, NEW t \in Threads, UNCHANGED tasks,
           task' = [task EXCEPT ![t] = NULL]
    PROVE  TaskInv' /\ (TP!End \/ UNCHANGED TP!vars)
  <1>1. task' = [u \in Threads |-> IF u = t THEN NULL ELSE task[u]]
    BY DEF PoolInv, DataTypeOK
  <1>2. TaskInv'
    <2>1. NULL <= submitted - Len(list_task)
      BY DEF PoolInv, DataTypeOK, TaskInv, InOrder
    <2> QED BY <1>1, <2>1 DEF PoolInv, TaskInv, CountExact, InOrder, Taken,
           Apart
  <1>3. CASE task[t] = NULL
    <2>1. {task'[u] : u \in Threads} \ {NULL} = {task[u] : u \in Threads} \ {NULL}
      BY <1>1, <1>3
    <2> QED BY <1>2, <2>1 DEF TP!vars
  <1>4. CASE task[t] # NULL
    <2>1. {task'[u] : u \in Threads} \ {NULL} =
            ({task[u] : u \in Threads} \ {NULL}) \ {task[t]}
      BY <1>1 DEF PoolInv, TaskInv, Apart
    <2>2. task[t] \in {task[u] : u \in Threads} \ {NULL}
      BY <1>4
    <2>3. \E k \in {task[u] : u \in Threads} \ {NULL} :
             {task'[u] : u \in Threads} \ {NULL} =
               ({task[u] : u \in Threads} \ {NULL}) \ {k}
      BY <2>1, <2>2
    <2> QED BY <1>2, <2>3 DEF TP!End
  <1> QED BY <1>2, <1>3, <1>4

\* Finish keeps the invariant and ends the thread's task
LEMMA FinishKeeps ==
    ASSUME PoolInv, NEW t \in Threads, Finish(t)
    PROVE  PoolInv' /\ (TP!End \/ UNCHANGED TP!vars)
  <1> USE ProcFacts
  <1>1. DataTypeOK'
    BY DEF Finish, PoolInv, DataTypeOK
  <1>2. PCTypeOK' /\ MutexHolder'
    <2>1. Move(t, "loop")
      BY
      DEF Finish, Move, MutexMove, At, PCsOf, ThreadPCs, WorkerPCs, CriticalPCs
    <2> QED BY <2>1, MoveKeeps
  <1>3. TakeReady' /\ HaltOnce' /\ Unassigned'
    BY
    DEF Finish, PoolInv, PCTypeOK, DataTypeOK, TakeReady, HaltOnce, Unassigned
  <1>4. TaskInv' /\ (TP!End \/ UNCHANGED TP!vars)
    BY EndKeeps DEF Finish
  <1> QED BY <1>1, <1>2, <1>3, <1>4 DEF PoolInv

\* DelFree keeps the invariant and ends the victim's task, if it has one
LEMMA DelFreeKeeps ==
    ASSUME PoolInv, NEW p \in Procs, DelFree(p)
    PROVE  PoolInv' /\ (TP!End \/ UNCHANGED TP!vars)
  <1> USE ProcFacts
  <1> DEFINE l == IF p = Main THEN "q_scan" ELSE "m_signal"
  <1>1. ptr[p] \in Threads
    BY DEF DelFree, At, Safe, Intact, PoolInv, DataTypeOK, TaskInv, Apart
  <1>2. DataTypeOK'
    BY DEF DelFree, PoolInv, DataTypeOK
  <1>3. PCTypeOK' /\ MutexHolder'
    <2>1. Move(p, l)
      BY
      DEF DelFree, DelReturns, Move, MutexMove, At, PCsOf, ThreadPCs, MainPCs,
             ManagerPCs, CriticalPCs
    <2> QED BY <2>1, MoveKeeps
  <1>4. TakeReady' /\ HaltOnce' /\ Unassigned'
    BY
    DEF DelFree, DelReturns, PoolInv, PCTypeOK, DataTypeOK, TakeReady, HaltOnce,
           HaltedPCs, Unassigned, EarlyPCs
  <1>5. TaskInv' /\ (TP!End \/ UNCHANGED TP!vars)
    BY <1>1, EndKeeps DEF DelFree
  <1> QED BY <1>2, <1>3, <1>4, <1>5 DEF PoolInv

\* pool_thread_task_add keeps the invariant and submits a task
LEMMA TaskAddKeeps ==
    ASSUME PoolInv, NEW p \in Procs, TaskAdd(p)
    PROVE  PoolInv' /\ TP!Submit
  <1> USE ProcFacts
  <1> DEFINE l == IF p = Main THEN "ready" ELSE "task"
  <1>1. /\ list_task' \in Seq(Nat) /\ Len(list_task') = Len(list_task) + 1
        /\ list_task' # <<>>
        /\ \A i \in 1 .. Len(list_task') :
              list_task'[i] = IF i = Len(list_task') THEN submitted + 1
                                                     ELSE list_task[i]
    <2>1. list_task \in Seq(Nat) /\ submitted + 1 \in Nat
      BY DEF PoolInv, DataTypeOK
    <2> QED BY <2>1 DEF TaskAdd
  <1>2. DataTypeOK'
    <2>1. list_task_num' \in Nat /\ submitted' \in Nat
      BY DEF TaskAdd, PoolInv, DataTypeOK
    <2> QED BY <1>1, <2>1 DEF TaskAdd, PoolInv, DataTypeOK
  <1>3. Stirs(p, l)
    BY SignalStirs
    DEF TaskAdd, TaskAddSignal, At, PCsOf, MainPCs, ThreadPCs, WorkerPCs
  <1>4. PCTypeOK' /\ MutexHolder'
    <2>1. Move(p, l)
      BY <1>3
      DEF TaskAdd, Move, MutexMove, At, PCsOf, ThreadPCs, MainPCs, WorkerPCs,
                  CriticalPCs
    <2> QED BY <2>1, MoveKeeps
  <1>5. TakeReady' /\ HaltOnce' /\ Unassigned'
    <2>1. ~(p = Main /\ flag_halt)
      BY DEF TaskAdd, At, PoolInv, HaltOnce, HaltedPCs, DelPCs
    <2>2. HaltOnce'
      BY <1>3, <2>1, ProcFacts DEF TaskAdd, Stirs, PoolInv, HaltOnce
    <2>3. TakeReady'
      BY <1>1, <1>3 DEF TaskAdd, Stirs, Stirred, PoolInv, TakeReady
    <2>4. Unassigned'
      BY <1>3 DEF TaskAdd, Stirs, Stirred, PoolInv, Unassigned, EarlyPCs
    <2> QED BY <2>2, <2>3, <2>4
  <1>6. TaskInv'
    <2>1. CountExact' /\ InOrder'
      BY <1>1 DEF TaskAdd, PoolInv, DataTypeOK, TaskInv, CountExact, InOrder
    <2>2. Taken' /\ Apart'
      BY <1>1 DEF TaskAdd, PoolInv, DataTypeOK, TaskInv, Taken, Apart
    <2> QED BY <2>1, <2>2 DEF TaskInv
  <1>7. TP!Submit
    BY DEF TP!Submit, TaskAdd
  <1> QED BY <1>2, <1>4, <1>5, <1>6, <1>7 DEF PoolInv

\* The beginning of pool_thread_del keeps the invariant and halts TaskPool
LEMMA HaltKeeps ==
    ASSUME PoolInv, Halt
    PROVE  PoolInv' /\ TP!Halt
  <1> USE ProcFacts DEF PurgeTasks
  <1>1. list_task' = <<>> /\ list_task' \in Seq(Nat) /\ Len(list_task') = 0
    BY DEF Halt
  <1>2. DataTypeOK'
    BY <1>1 DEF Halt, PoolInv, DataTypeOK
  <1>3. Stirs(Main, "q_wait")
    BY BroadcastStirs DEF Halt, At, PCsOf, MainPCs
  <1>4. PCTypeOK' /\ MutexHolder'
    <2>1. Move(Main, "q_wait")
      BY <1>3 DEF Halt, Move, MutexMove, At, PCsOf, MainPCs, CriticalPCs
    <2> QED BY <2>1, MoveKeeps
  <1>5. TakeReady' /\ HaltOnce' /\ Unassigned'
    <2>1. \A t \in Threads : pc[t] # "take"
      BY DEF Halt, At, PoolInv, MutexHolder, CriticalPCs
    <2> QED
      BY <1>3, <2>1
      DEF Halt, Stirs, Stirred, PoolInv, TakeReady, HaltOnce, HaltedPCs, Unassigned,
          EarlyPCs
  <1>6. TaskInv'
    <2>1. list_task_num' = 0 /\ submitted' = submitted /\ task' = task
      BY DEF Halt
    <2>2. ASSUME NEW t \in Threads PROVE task[t] <= submitted
      <3>1. task[t] <= submitted - Len(list_task) /\ task[t] \in Int
        BY DEF PoolInv, DataTypeOK, TaskInv, Taken
      <3>2. Len(list_task) \in Nat /\ submitted \in Nat
        BY DEF PoolInv, DataTypeOK
      <3> QED BY <3>1, <3>2
    <2>3. submitted \in Nat /\ Apart
      BY DEF PoolInv, DataTypeOK, TaskInv
    <2> QED
      BY <1>1, <2>1, <2>2, <2>3 DEF TaskInv, CountExact, InOrder, Taken, Apart
  <1>7. TP!Halt
    BY <1>1 DEF TP!Halt, Halt, At, PoolInv, HaltOnce, HaltedPCs, DelPCs
  <1> QED BY <1>2, <1>4, <1>5, <1>6, <1>7 DEF PoolInv

-----------------------------------------------------------------------------
(* The theorems *)

\* The invariant holds when pool_thread_new has appended the manager, and the
\* pool is then an initial TaskPool
LEMMA InitHolds == Init => PoolInv /\ TP!Init
  <1> SUFFICES ASSUME Init PROVE PoolInv /\ TP!Init
    OBVIOUS
  <1> USE ProcFacts DEF Init
  <1>1. PCTypeOK
    BY DEF PCTypeOK, PCsOf, MainPCs, ThreadPCs, AddPCs
  <1>2. DataTypeOK
    <2>1. nxt \in [Nodes -> Links] /\ prv \in [Nodes -> Links]
      BY DEF Links
    <2>2. nb \in [Procs -> Links \X Links]
      BY DEF Links
    <2>3. list_task \in Seq(Nat)
      OBVIOUS
    <2>4. reg \in [Procs -> Int] /\ ptr \in [Procs -> Threads \cup {NULL}]
      OBVIOUS
    <2>5. interval \in [create : Nat, destroy : Nat, cond : Nat]
      OBVIOUS
    <2> QED BY <2>1, <2>2, <2>3, <2>4, <2>5 DEF DataTypeOK
  <1>3. MutexHolder /\ TakeReady /\ HaltOnce
    BY DEF MutexHolder, CriticalPCs, TakeReady, HaltOnce
  <1>4. TaskInv /\ Unassigned
    BY DEF TaskInv, CountExact, InOrder, Taken, Apart, Unassigned
  <1>5. TP!Init
    BY DEF TP!Init
  <1> QED BY <1>1, <1>2, <1>3, <1>4, <1>5 DEF PoolInv

\* A step that moves no task is a stutter of TaskPool
LEMMA QuietStutters ==
    UNCHANGED <<tasks, task>> => UNCHANGED TP!vars
  BY DEF TP!vars

\* The steps of a thread that exits, of thread_add and of thread_del
LEMMA ExitKeeps ==
    ASSUME PoolInv, NEW t \in Threads, Exit(t)
    PROVE  PoolInv' /\ UNCHANGED <<tasks, task>>
  <1> USE ProcFacts
      DEF PCsOf, ThreadPCs, ExitPCs, EarlyPCs, CriticalPCs
  <1>1. thread_num \in Int /\ idle_thread_num \in Int
    BY DEF PoolInv, DataTypeOK
  <1>2. CASE Load(t, "x_nload", "x_nstore", thread_num)
    BY <1>1, <1>2, CounterKeeps
  <1>3. CASE NumStore(t, "x_nstore",
                      IF state[t] = "IDLE" THEN "x_iload" ELSE "x_unlink")
    BY <1>1, <1>3, CounterKeeps
  <1>4. CASE Load(t, "x_iload", "x_istore", idle_thread_num)
    BY <1>1, <1>4, CounterKeeps
  <1>5. CASE IdleStore(t, "x_istore", "x_unlink")
    BY <1>1, <1>5, CounterKeeps
  <1>6. CASE Unlink(t, t, "x_unlink", "x_relink")
    BY <1>6, ListKeeps
  <1>7. CASE Relink(t, t, "x_relink", "x_free")
    BY <1>7, ListKeeps
  <1>8. CASE ExitFree(t)
    BY <1>8, RoutineKeeps
  <1> QED BY <1>2, <1>3, <1>4, <1>5, <1>6, <1>7, <1>8 DEF Exit

\* thread_add moves no task
LEMMA ThreadAddKeeps ==
    ASSUME PoolInv, NEW p \in Procs, ThreadAdd(p)
    PROVE  PoolInv' /\ UNCHANGED <<tasks, task>>
  <1>1. CASE Load(p, "reg_load", "reg_store", thread_num)
    <2>1. thread_num \in Int
      BY DEF PoolInv, DataTypeOK
    <2> QED
      BY <1>1, <2>1, CounterKeeps, ProcFacts
      DEF PCsOf, MainPCs, ThreadPCs, AddPCs, DelPCs, EarlyPCs, HaltedPCs, CriticalPCs
  <1> QED BY <1>1, CallerKeeps DEF ThreadAdd

\* thread_del ends at most the task of its victim
LEMMA ThreadDelKeeps ==
    ASSUME PoolInv, NEW p \in Procs, ThreadDel(p)
    PROVE  PoolInv' /\ (TP!End \/ UNCHANGED TP!vars)
  <1> DEFINE keeps == PoolInv' /\ UNCHANGED <<tasks, task>>
  <1> DEFINE next == IF state[ptr[p]] = "IDLE" THEN "d_iload" ELSE "d_free"
  <1>1. thread_num \in Int /\ idle_thread_num \in Int
    BY DEF PoolInv, DataTypeOK
  <1>2. /\ DelPCs \subseteq PCsOf(p) /\ DelPCs \subseteq HaltedPCs
        /\ \A l \in DelPCs : l \notin EarlyPCs /\ l \notin CriticalPCs
    BY DEF PCsOf, MainPCs, ThreadPCs, DelPCs, HaltedPCs, EarlyPCs, CriticalPCs
  <1>3. /\ "d_unlink" \in DelPCs /\ "d_relink" \in DelPCs /\ "d_nload" \in DelPCs
        /\ "d_nstore" \in DelPCs /\ "d_iload" \in DelPCs /\ "d_istore" \in DelPCs
        /\ "d_free" \in DelPCs /\ next \in DelPCs
    BY DEF DelPCs
  <1> HIDE DEF next
  <1>4. ASSUME Load(p, "d_nload", "d_nstore", thread_num) PROVE keeps
    BY <1>1, <1>2, <1>3, <1>4, CounterKeeps
  <1>5. ASSUME NumStore(p, "d_nstore", next) PROVE keeps
    BY <1>1, <1>2, <1>3, <1>5, CounterKeeps
  <1>6. ASSUME Load(p, "d_iload", "d_istore", idle_thread_num) PROVE keeps
    BY <1>1, <1>2, <1>3, <1>6, CounterKeeps
  <1>7. ASSUME IdleStore(p, "d_istore", "d_free") PROVE keeps
    BY <1>1, <1>2, <1>3, <1>7, CounterKeeps
  <1>8. ASSUME \/ Unlink(p, ptr[p], "d_unlink", "d_relink")
               \/ Relink(p, ptr[p], "d_relink", "d_nload")
        PROVE keeps
    <2>1. Intact(ptr[p])
      BY <1>8 DEF Unlink, Relink, At, Safe
    <2>2. ptr[p] \in Threads
      BY <2>1, ProcFacts DEF Intact, PoolInv, DataTypeOK
    <2> QED BY <1>2, <1>3, <1>8, <2>2, ListKeeps
  <1>9. ASSUME Cancel(p) \/ Join(p) PROVE keeps
    BY <1>9, CallerKeeps
  <1> QED
    BY <1>4, <1>5, <1>6, <1>7, <1>8, <1>9, DelFreeKeeps, QuietStutters
    DEF ThreadDel, next

\* Every step keeps the invariant and is a step or a stutter of TaskPool
LEMMA StepHolds ==
    PoolInv /\ [Next]_vars => PoolInv' /\ [TP!Next]_(TP!vars)
  <1> SUFFICES ASSUME PoolInv, [Next]_vars
               PROVE  PoolInv' /\ [TP!Next]_(TP!vars)
    OBVIOUS
  <1> DEFINE holds == PoolInv' /\ [TP!Next]_(TP!vars)
  <1> DEFINE keeps == PoolInv' /\ UNCHANGED <<tasks, task>>
  <1>0. keeps => holds
    BY QuietStutters
  <1>1. ASSUME Halt PROVE holds
    BY <1>1, HaltKeeps DEF TP!Next
  <1>2. ASSUME \/ QuitWait \/ QuitScan \/ Delete
               \/ \E p \in Procs : Crash(p)
        PROVE holds
    BY <1>0, <1>2, MainKeeps
  <1>3. ASSUME NEW p \in Procs, ThreadAdd(p) PROVE holds
    BY <1>0, <1>3, ThreadAddKeeps
  <1>4. ASSUME NEW p \in Procs, ThreadDel(p) PROVE holds
    BY <1>4, ThreadDelKeeps DEF TP!Next
  <1>5. ASSUME NEW p \in Procs, TaskAddCheck(p) PROVE holds
    BY <1>0, <1>5, CallerKeeps
  <1>6. ASSUME NEW p \in Procs, TaskAdd(p) PROVE holds
    BY <1>6, TaskAddKeeps DEF TP!Next
  <1>7. ASSUME NEW t \in Threads, SpuriousWakeup(t) PROVE holds
    BY <1>0, <1>7, RoutineKeeps
  <1>8. ASSUME NEW t \in Threads, ManagerStep(t) PROVE holds
    BY <1>0, <1>8, ManagerKeeps DEF ManagerStep
  <1>9. ASSUME NEW t \in Threads, Worker(t) PROVE holds
    <2>1. CASE Take(t)
      BY <2>1, TakeKeeps DEF TP!Next
    <2>2. CASE Finish(t)
      BY <2>2, FinishKeeps DEF TP!Next
    <2>3. CASE IdleInc(t) \/ Relock(t)
      BY <1>0, <2>3, WaitLoopKeeps
    <2>4. CASE Exit(t)
      BY <1>0, <2>4, ExitKeeps
    <2>5. CASE \/ Loop(t) \/ Lock(t) \/ CancelInWait(t) \/ IdleDec(t)
               \/ Claim(t) \/ CancelInTask(t)
      BY <1>0, <2>5, RoutineKeeps
    <2> QED BY <1>9, <2>1, <2>2, <2>3, <2>4, <2>5 DEF Worker
  <1>10. ASSUME UNCHANGED vars PROVE holds
    <2>1. PoolInv'
      BY <1>10
      DEF vars, PoolInv, PCTypeOK, DataTypeOK, MutexHolder, TakeReady, HaltOnce,
          TaskInv, CountExact, InOrder, Taken, Apart, Unassigned
    <2>2. UNCHANGED TP!vars
      BY <1>10 DEF vars, TP!vars
    <2> QED BY <2>1, <2>2
  <1> HIDE DEF holds
  <1>11. ASSUME MainStep PROVE holds
    BY <1>1, <1>2, <1>3, <1>4, <1>11, ProcFacts DEF MainStep
  <1>12. ASSUME NEW t \in Threads, Thread(t) PROVE holds
    BY <1>3, <1>4, <1>8, <1>9, <1>12, ProcFacts DEF Thread
  <1>13. ASSUME Next PROVE holds
    BY <1>2, <1>5, <1>6, <1>7, <1>10, <1>11, <1>12, <1>13 DEF Next, Ended
  <1> QED BY <1>10, <1>13 DEF holds

\* PoolInv is an invariant of the pool
LEMMA PoolInvariant == Spec => []PoolInv
  BY InitHolds, StepHolds, PTL DEF Spec

\* Every variable keeps its type, so no counter of tasks goes negative and no
\* thread reaches a control point of another role.
THEOREM TypeCorrect == Spec => []TypeOK
  <1>1. PoolInv => TypeOK
    BY TypeSplit DEF PoolInv
  <1> QED BY <1>1, PoolInvariant, PTL

\* p->mutex is held exactly by the process in the middle of a critical
\* section, whoever is cancelled, deleted or created meanwhile.
THEOREM MutualExclusion == Spec => []MutexHolder
  <1>1. PoolInv => MutexHolder
    BY DEF PoolInv
  <1> QED BY <1>1, PoolInvariant, PTL

\* list_task_num is the number of waiting tasks whenever p->mutex is free.
THEOREM TaskCounted == Spec => []TaskCount
  <1>1. PoolInv => TaskCount
    BY DEF PoolInv, TaskInv, CountExact, TaskCount
  <1> QED BY <1>1, PoolInvariant, PTL

\* The pool implements TaskPool, for any number of threads and tasks.
THEOREM Implementation == Spec => ImplementsTaskPool
  <1>1. Init => TP!Init
    BY InitHolds
  <1>2. PoolInv /\ [Next]_vars => [TP!Next]_(TP!vars)
    BY StepHolds
  <1> QED BY <1>1, <1>2, PoolInvariant, PTL DEF Spec, ImplementsTaskPool,
         TP!Spec

\* Tasks are numbered as they are added, so a task that waits was never
\* started, and no task waits in two places: list_task holds the latest tasks
\* in order, and every task some thread holds is older than these.
THEOREM TasksInOrder == Spec => []TP!StartedOnce
  <1>1. PoolInv => TP!StartedOnce
    BY DEF PoolInv, TaskInv, InOrder, Taken, TP!StartedOnce
  <1> QED BY <1>1, PoolInvariant, PTL
=============================================================================
