------------------------ MODULE ThreadPoolRoleProofs ------------------------
(***************************************************************************)
(* More proofs about ThreadPool: a thread's own mutex is released when it  *)
(* is over, the manager is spared by its own deletions, and no wakeup is   *)
(* lost.                                                                   *)
(*                                                                         *)
(* Most steps are Plain for the first two and Calm for the third: a        *)
(* process moves on, other threads are at most started, woken or joined,   *)
(* and what the invariants speak of stays.                                 *)
(***************************************************************************)
EXTENDS ThreadPoolProofs, FiniteSetTheorems

USE BoundsAssumption, PoolAssumption DEF Main, NULL, ListHead, Manager
USE DEF tasks, counters, lists, structs, timers, locals, Goto

-----------------------------------------------------------------------------
(* The inductive invariant, in addition to PoolInv *)

\* Control points of the thread that runs the manager, of a thread between Take
\* and the end of its task, and of Main after it joined a victim
ManagingPCs == ManagerPCs \cup AddPCs \cup DelPCs
LockedPCs   == {"idle_dec", "claim", "task", "add_lock"} \cup ManagingPCs
JoinedPCs   == DelPCs \ {"d_cancel", "d_join"}

LockHeld == \A t \in Threads : tlock[t] => pc[t] \in LockedPCs

\* Who is inside the manager has its task and marked itself busy before
ManagerBusy ==
    \A t \in Threads : pc[t] \in ManagingPCs => task[t] = Manager /\ state[t] = "BUSY"

\* thread_del's victim is another thread than the one that runs it
NotItself == \A t \in Threads : pc[t] \in DelPCs => ptr[t] \in Threads \ {t}

\* Main deletes threads only after it halted the pool
HaltedMain == pc[Main] \in {"q_wait", "q_scan", "done"} \cup DelPCs => flag_halt

\* If Main is about to free the manager, the manager is over
LastVictim ==
    \A u \in Threads :
        pc[Main] \in JoinedPCs /\ ptr[Main] = u /\ task[u] = Manager
            => pc[u] \in DeadPCs

RoleInv == LockHeld /\ ManagerBusy /\ NotItself /\ HaltedMain /\ LastVictim

-----------------------------------------------------------------------------
(* Plain and calm steps *)

Plain(p, l) ==
    /\ UNCHANGED <<state, task, tlock>>
    /\ flag_halt => flag_halt'
    /\ \A q \in Procs \ {p} : ptr'[q] = ptr[q]
    /\ p \in Threads =>
         /\ pc[p] \notin DeadPCs
         /\ pc[p] \in LockedPCs => l \in LockedPCs
         /\ l \in ManagingPCs => pc[p] \in ManagingPCs
         /\ l \in DelPCs => pc[p] \in DelPCs /\ ptr'[p] = ptr[p]
    /\ p = Main =>
         /\ l \in {"q_wait", "q_scan", "done"} \cup DelPCs => flag_halt'
         /\ l \in JoinedPCs => pc[p] \in JoinedPCs /\ ptr'[p] = ptr[p]

AwakePCs == {"loop", "lock", "idle_inc", "relock", "take"}

Calm(p, l) ==
    /\ list_task' = list_task
    /\ flag_halt' = flag_halt
    /\ \A t \in Threads : cancel[t] => cancel'[t]
    /\ p \in Threads =>
         /\ pc[p] \in AwakePCs => l \in AwakePCs \/ flag_halt \/ list_task = <<>>
         /\ l = "cond_wait" => list_task = <<>>

\* A step that leaves states, tasks and a thread's own mutex alone, and enters the
\* manager's and Main's control points only where Plain allows, keeps the roles.
LEMMA PlainKeeps ==
    ASSUME PoolInv, RoleInv, NEW p \in Procs, NEW l, Stirs(p, l), Plain(p, l)
    PROVE  RoleInv'
  <1> USE ProcFacts DEF RoleInv, Plain, Stirs, Stirred
  <1>1. LockHeld'
    BY DEF LockHeld, LockedPCs, ManagingPCs, ManagerPCs, AddPCs, DelPCs
  <1>2. ManagerBusy'
    BY DEF ManagerBusy, ManagingPCs, ManagerPCs, AddPCs, DelPCs
  <1>3. NotItself'
    BY DEF NotItself, DelPCs
  <1>4. HaltedMain'
    BY DEF HaltedMain
  <1>5. LastVictim'
    BY DEF LastVictim, DeadPCs
  <1> QED BY <1>1, <1>2, <1>3, <1>4, <1>5

\* Sets of threads are finite, so their cardinalities are numbers.
LEMMA AwakeFinite == IsFiniteSet(Threads) /\ \A S \in SUBSET Threads : IsFiniteSet(S)
  <1>1. IsFiniteSet(Threads) BY FS_Interval DEF Threads
  <1> QED BY <1>1, FS_Subset

\* A step that changes no task, cancels no thread and sends nobody to sleep beside a
\* task loses no wakeup.
LEMMA CalmKeeps ==
    ASSUME PoolInv, NoLostWakeup, NEW p \in Procs, NEW l, Stirs(p, l), Calm(p, l)
    PROVE  NoLostWakeup'
  <1> SUFFICES ASSUME ~flag_halt, LiveWaiters' # {}, list_task # <<>>
               PROVE  Len(list_task) <= Cardinality(Awake')
    <2>1. Len(<<>>) = 0 /\ Cardinality(Awake') \in Nat
      BY AwakeFinite, FS_CardinalityType DEF Awake
    <2> QED BY <2>1 DEF NoLostWakeup, Calm
  <1>1. LiveWaiters # {}
    BY ProcFacts DEF LiveWaiters, Waiters, Calm, Stirs, Stirred
  <1>2. Awake \subseteq Awake'
    BY ProcFacts DEF Awake, AwakePCs, Calm, Stirs, Stirred
  <1>3. Cardinality(Awake) <= Cardinality(Awake')
    BY <1>2, AwakeFinite, FS_Subset DEF Awake
  <1>4. /\ Len(list_task) \in Nat
        /\ Cardinality(Awake) \in Nat /\ Cardinality(Awake') \in Nat
    BY AwakeFinite, FS_CardinalityType DEF Awake, PoolInv, DataTypeOK
  <1> QED BY <1>1, <1>3, <1>4 DEF NoLostWakeup

-----------------------------------------------------------------------------
(* One lemma per action: where it goes, and that it is plain and calm *)

USE DEF PCsOf, MainPCs, ThreadPCs, WorkerPCs, ManagerPCs, AddPCs, DelPCs
USE DEF ExitPCs, DeadPCs

LEMMA LoopMoves ==
    ASSUME PoolInv, NEW t \in Threads, Loop(t)
    PROVE  /\ Stirs(t, IF flag_halt THEN "x_nload" ELSE "lock")
           /\ Plain(t, IF flag_halt THEN "x_nload" ELSE "lock")
           /\ Calm(t, IF flag_halt THEN "x_nload" ELSE "lock")
  <1> USE ProcFacts DEF PoolInv, PCTypeOK, DataTypeOK, At, Loop
  <1>1. Stirs(t, IF flag_halt THEN "x_nload" ELSE "lock") BY DEF Stirs, Stirred
  <1>2. Plain(t, IF flag_halt THEN "x_nload" ELSE "lock")
    BY DEF Plain, LockedPCs, ManagingPCs, JoinedPCs
  <1>3. Calm(t, IF flag_halt THEN "x_nload" ELSE "lock") BY DEF Calm, AwakePCs
  <1> QED BY <1>1, <1>2, <1>3

LEMMA LockMoves ==
    ASSUME PoolInv, NEW t \in Threads, Lock(t)
    PROVE  Stirs(t, "idle_inc") /\ Plain(t, "idle_inc") /\ Calm(t, "idle_inc")
  <1> USE ProcFacts DEF PoolInv, PCTypeOK, DataTypeOK, At, Lock
  <1>1. Stirs(t, "idle_inc") BY DEF Stirs, Stirred
  <1>2. Plain(t, "idle_inc") BY DEF Plain, LockedPCs, ManagingPCs, JoinedPCs
  <1>3. Calm(t, "idle_inc") BY DEF Calm, AwakePCs
  <1> QED BY <1>1, <1>2, <1>3

LEMMA SpuriousWakeupMoves ==
    ASSUME PoolInv, NEW t \in Threads, SpuriousWakeup(t)
    PROVE  Stirs(t, "relock") /\ Plain(t, "relock") /\ Calm(t, "relock")
  <1> USE ProcFacts DEF PoolInv, PCTypeOK, DataTypeOK, At, SpuriousWakeup
  <1>1. Stirs(t, "relock") BY DEF Stirs, Stirred
  <1>2. Plain(t, "relock") BY DEF Plain, LockedPCs, ManagingPCs, JoinedPCs
  <1>3. Calm(t, "relock") BY DEF Calm, AwakePCs
  <1> QED BY <1>1, <1>2, <1>3

LEMMA CancelInWaitMoves ==
    ASSUME PoolInv, NEW t \in Threads, CancelInWait(t)
    PROVE  Stirs(t, "canceled") /\ Plain(t, "canceled") /\ Calm(t, "canceled")
  <1> USE ProcFacts DEF PoolInv, PCTypeOK, DataTypeOK, At, CancelInWait, PoolCleanup
  <1>1. Stirs(t, "canceled") BY DEF Stirs, Stirred
  <1>2. Plain(t, "canceled") BY DEF Plain, LockedPCs, ManagingPCs, JoinedPCs
  <1>3. Calm(t, "canceled") BY DEF Calm, AwakePCs
  <1> QED BY <1>1, <1>2, <1>3

LEMMA IdleDecMoves ==
    ASSUME PoolInv, NEW t \in Threads, IdleDec(t)
    PROVE  Stirs(t, "claim") /\ Plain(t, "claim") /\ Calm(t, "claim")
  <1> USE ProcFacts DEF PoolInv, PCTypeOK, DataTypeOK, At, IdleDec
  <1>1. Stirs(t, "claim") BY DEF Stirs, Stirred
  <1>2. Plain(t, "claim") BY DEF Plain, LockedPCs, ManagingPCs, JoinedPCs
  <1>3. Calm(t, "claim") BY DEF Calm, AwakePCs
  <1> QED BY <1>1, <1>2, <1>3

LEMMA IdleIncMoves ==
    ASSUME PoolInv, NEW t \in Threads, IdleInc(t)
    PROVE  Stirs(t, pc'[t]) /\ Plain(t, pc'[t]) /\ Calm(t, pc'[t])
  <1> USE ProcFacts DEF PoolInv, PCTypeOK, DataTypeOK
  <1>0. /\ pc[t] = "idle_inc"
        /\ UNCHANGED <<state, task, tlock, list_task, flag_halt, cancel, ptr>>
        /\ \/ Goto(t, "cond_wait") /\ list_task = <<>>
           \/ Goto(t, "x_nload") /\ flag_halt
           \/ Goto(t, "take")
    BY DEF At, IdleInc, Decide
  <1>1. Stirs(t, pc'[t])
    <2>1. pc'[t] \in PCsOf(t) /\ Goto(t, pc'[t])
      BY <1>0
    <2> QED BY <2>1, MoveStirs
  <1>2. Plain(t, pc'[t]) BY <1>0 DEF Plain, LockedPCs, ManagingPCs, JoinedPCs
  <1>3. Calm(t, pc'[t]) BY <1>0 DEF Calm, AwakePCs
  <1> QED BY <1>1, <1>2, <1>3

LEMMA RelockMoves ==
    ASSUME PoolInv, NEW t \in Threads, Relock(t)
    PROVE  Stirs(t, pc'[t]) /\ Plain(t, pc'[t]) /\ Calm(t, pc'[t])
  <1> USE ProcFacts DEF PoolInv, PCTypeOK, DataTypeOK
  <1>0. /\ pc[t] = "relock"
        /\ UNCHANGED <<state, task, tlock, list_task, flag_halt, cancel, ptr>>
        /\ \/ Goto(t, "cond_wait") /\ list_task = <<>>
           \/ Goto(t, "x_nload") /\ flag_halt
           \/ Goto(t, "take")
    BY DEF At, Relock, Decide
  <1>1. Stirs(t, pc'[t])
    <2>1. pc'[t] \in PCsOf(t) /\ Goto(t, pc'[t])
      BY <1>0
    <2> QED BY <2>1, MoveStirs
  <1>2. Plain(t, pc'[t]) BY <1>0 DEF Plain, LockedPCs, ManagingPCs, JoinedPCs
  <1>3. Calm(t, pc'[t]) BY <1>0 DEF Calm, AwakePCs
  <1> QED BY <1>1, <1>2, <1>3

LEMMA ExitFreeMoves ==
    ASSUME PoolInv, NEW t \in Threads, ExitFree(t)
    PROVE  Stirs(t, "exited") /\ Plain(t, "exited") /\ Calm(t, "exited")
  <1> USE ProcFacts DEF PoolInv, PCTypeOK, DataTypeOK, At, ExitFree
  <1>1. Stirs(t, "exited") BY DEF Stirs, Stirred
  <1>2. Plain(t, "exited") BY DEF Plain, LockedPCs, ManagingPCs, JoinedPCs
  <1>3. Calm(t, "exited") BY DEF Calm, AwakePCs
  <1> QED BY <1>1, <1>2, <1>3

LEMMA ManagerLoopMoves ==
    ASSUME PoolInv, NEW t \in Threads, ManagerLoop(t)
    PROVE  Stirs(t, "m_create") /\ Plain(t, "m_create") /\ Calm(t, "m_create")
  <1> USE ProcFacts DEF PoolInv, PCTypeOK, DataTypeOK, At, ManagerLoop
  <1>1. Stirs(t, "m_create") BY DEF Stirs, Stirred
  <1>2. Plain(t, "m_create") BY DEF Plain, LockedPCs, ManagingPCs, JoinedPCs
  <1>3. Calm(t, "m_create") BY DEF Calm, AwakePCs
  <1> QED BY <1>1, <1>2, <1>3

LEMMA ManagerCreateMoves ==
    ASSUME PoolInv, NEW t \in Threads, ManagerCreate(t)
    PROVE  Stirs(t, pc'[t]) /\ Plain(t, pc'[t]) /\ Calm(t, pc'[t])
  <1> USE ProcFacts DEF PoolInv, PCTypeOK, DataTypeOK
  <1>0. /\ pc[t] = "m_create"
        /\ UNCHANGED <<state, task, tlock, list_task, flag_halt, cancel, ptr>>
        /\ \/ Goto(t, "create")
           \/ Goto(t, "m_create_idle")
           \/ Goto(t, "m_destroy")
    BY DEF At, ManagerCreate, StartsCreate
  <1>1. Stirs(t, pc'[t])
    <2>1. pc'[t] \in PCsOf(t) /\ Goto(t, pc'[t])
      BY <1>0
    <2> QED BY <2>1, MoveStirs
  <1>2. Plain(t, pc'[t]) BY <1>0 DEF Plain, LockedPCs, ManagingPCs, JoinedPCs
  <1>3. Calm(t, pc'[t]) BY <1>0 DEF Calm, AwakePCs
  <1> QED BY <1>1, <1>2, <1>3

LEMMA ManagerCreateIdleMoves ==
    ASSUME PoolInv, NEW t \in Threads, ManagerCreateIdle(t)
    PROVE  Stirs(t, pc'[t]) /\ Plain(t, pc'[t]) /\ Calm(t, pc'[t])
  <1> USE ProcFacts DEF PoolInv, PCTypeOK, DataTypeOK
  <1>0. /\ pc[t] = "m_create_idle"
        /\ UNCHANGED <<state, task, tlock, list_task, flag_halt, cancel, ptr>>
        /\ \/ Goto(t, "create")
           \/ Goto(t, "m_destroy")
    BY DEF At, ManagerCreateIdle, StartsCreate
  <1>1. Stirs(t, pc'[t])
    <2>1. pc'[t] \in PCsOf(t) /\ Goto(t, pc'[t])
      BY <1>0
    <2> QED BY <2>1, MoveStirs
  <1>2. Plain(t, pc'[t]) BY <1>0 DEF Plain, LockedPCs, ManagingPCs, JoinedPCs
  <1>3. Calm(t, pc'[t]) BY <1>0 DEF Calm, AwakePCs
  <1> QED BY <1>1, <1>2, <1>3

LEMMA ManagerDestroyMoves ==
    ASSUME PoolInv, NEW t \in Threads, ManagerDestroy(t)
    PROVE  Stirs(t, pc'[t]) /\ Plain(t, pc'[t]) /\ Calm(t, pc'[t])
  <1> USE ProcFacts DEF PoolInv, PCTypeOK, DataTypeOK
  <1>0. /\ pc[t] = "m_destroy"
        /\ UNCHANGED <<state, task, tlock, list_task, flag_halt, cancel, ptr>>
        /\ \/ Goto(t, "m_scan")
           \/ Goto(t, "m_destroy_idle")
           \/ Goto(t, "m_signal")
    BY DEF At, ManagerDestroy, StartsDestroy
  <1>1. Stirs(t, pc'[t])
    <2>1. pc'[t] \in PCsOf(t) /\ Goto(t, pc'[t])
      BY <1>0
    <2> QED BY <2>1, MoveStirs
  <1>2. Plain(t, pc'[t]) BY <1>0 DEF Plain, LockedPCs, ManagingPCs, JoinedPCs
  <1>3. Calm(t, pc'[t]) BY <1>0 DEF Calm, AwakePCs
  <1> QED BY <1>1, <1>2, <1>3

LEMMA ManagerDestroyIdleMoves ==
    ASSUME PoolInv, NEW t \in Threads, ManagerDestroyIdle(t)
    PROVE  Stirs(t, pc'[t]) /\ Plain(t, pc'[t]) /\ Calm(t, pc'[t])
  <1> USE ProcFacts DEF PoolInv, PCTypeOK, DataTypeOK
  <1>0. /\ pc[t] = "m_destroy_idle"
        /\ UNCHANGED <<state, task, tlock, list_task, flag_halt, cancel, ptr>>
        /\ \/ Goto(t, "m_scan")
           \/ Goto(t, "m_signal")
    BY DEF At, ManagerDestroyIdle, StartsDestroy
  <1>1. Stirs(t, pc'[t])
    <2>1. pc'[t] \in PCsOf(t) /\ Goto(t, pc'[t])
      BY <1>0
    <2> QED BY <2>1, MoveStirs
  <1>2. Plain(t, pc'[t]) BY <1>0 DEF Plain, LockedPCs, ManagingPCs, JoinedPCs
  <1>3. Calm(t, pc'[t]) BY <1>0 DEF Calm, AwakePCs
  <1> QED BY <1>1, <1>2, <1>3

LEMMA ScanMoves ==
    ASSUME PoolInv, NEW t \in Threads, Scan(t)
    PROVE  Stirs(t, pc'[t]) /\ Plain(t, pc'[t]) /\ Calm(t, pc'[t])
  <1> USE ProcFacts DEF PoolInv, PCTypeOK, DataTypeOK
  <1>0. /\ pc[t] = "m_scan"
        /\ UNCHANGED <<state, task, tlock, list_task, flag_halt, cancel>>
        /\ \A q \in Procs \ {t} : ptr'[q] = ptr[q]
        /\ \/ Goto(t, "m_recheck")
           \/ Goto(t, "m_next")
    BY DEF At, Scan
  <1>1. Stirs(t, pc'[t])
    <2>1. pc'[t] \in PCsOf(t) /\ Goto(t, pc'[t])
      BY <1>0
    <2> QED BY <2>1, MoveStirs
  <1>2. Plain(t, pc'[t]) BY <1>0 DEF Plain, LockedPCs, ManagingPCs, JoinedPCs
  <1>3. Calm(t, pc'[t]) BY <1>0 DEF Calm, AwakePCs
  <1> QED BY <1>1, <1>2, <1>3

LEMMA ScanNextMoves ==
    ASSUME PoolInv, NEW t \in Threads, ScanNext(t)
    PROVE  Stirs(t, "m_scan") /\ Plain(t, "m_scan") /\ Calm(t, "m_scan")
  <1> USE ProcFacts DEF PoolInv, PCTypeOK, DataTypeOK, At, ScanNext
  <1>1. Stirs(t, "m_scan") BY DEF Stirs, Stirred
  <1>2. Plain(t, "m_scan") BY DEF Plain, LockedPCs, ManagingPCs, JoinedPCs
  <1>3. Calm(t, "m_scan") BY DEF Calm, AwakePCs
  <1> QED BY <1>1, <1>2, <1>3

LEMMA ManagerSignalMoves ==
    ASSUME PoolInv, NEW t \in Threads, ManagerSignal(t)
    PROVE  Stirs(t, "m_top") /\ Plain(t, "m_top") /\ Calm(t, "m_top")
  <1> USE ProcFacts DEF PoolInv, PCTypeOK, DataTypeOK, At, ManagerSignal
  <1>1. Stirs(t, "m_top")
    <2>1. \/ pc' \in Signalled([pc EXCEPT ![t] = "m_top"]) \/ Goto(t, "m_top")
      OBVIOUS
    <2> QED BY <2>1, SignalStirs, MoveStirs
  <1>2. Plain(t, "m_top") BY DEF Plain, LockedPCs, ManagingPCs, JoinedPCs
  <1>3. Calm(t, "m_top") BY DEF Calm, AwakePCs
  <1> QED BY <1>1, <1>2, <1>3

LEMMA TaskAddCheckMoves ==
    ASSUME PoolInv, NEW p \in Procs, TaskAddCheck(p)
    PROVE  Stirs(p, "add_lock") /\ Plain(p, "add_lock") /\ Calm(p, "add_lock")
  <1> USE ProcFacts DEF PoolInv, PCTypeOK, DataTypeOK, At, TaskAddCheck
  <1>1. Stirs(p, "add_lock") BY DEF Stirs, Stirred
  <1>2. Plain(p, "add_lock") BY DEF Plain, LockedPCs, ManagingPCs, JoinedPCs
  <1>3. Calm(p, "add_lock") BY DEF Calm, AwakePCs
  <1> QED BY <1>1, <1>2, <1>3

LEMMA CreateMoves ==
    ASSUME PoolInv, NEW p \in Procs, Create(p)
    PROVE  Stirs(p, "reg_link") /\ Plain(p, "reg_link") /\ Calm(p, "reg_link")
  <1> USE ProcFacts DEF PoolInv, PCTypeOK, DataTypeOK, At, Create
  <1>1. Stirs(p, "reg_link")
    <2>1. PICK u \in Threads :
             pc[u] = "none" /\ pc' = [pc EXCEPT ![p] = "reg_link", ![u] = "loop"]
      OBVIOUS
    <2> QED BY <2>1 DEF Stirs, Stirred
  <1>2. Plain(p, "reg_link") BY DEF Plain, LockedPCs, ManagingPCs, JoinedPCs
  <1>3. Calm(p, "reg_link") BY DEF Calm, AwakePCs
  <1> QED BY <1>1, <1>2, <1>3

LEMMA CreateFailsMoves ==
    ASSUME PoolInv, NEW p \in Procs, CreateFails(p)
    PROVE  Stirs(p, pc'[p]) /\ Plain(p, pc'[p]) /\ Calm(p, pc'[p])
  <1> USE ProcFacts DEF PoolInv, PCTypeOK, DataTypeOK, At, CreateFails, AddReturns
  <1>1. Stirs(p, pc'[p]) BY DEF Stirs, Stirred
  <1>2. Plain(p, pc'[p]) BY DEF Plain, LockedPCs, ManagingPCs, JoinedPCs
  <1>3. Calm(p, pc'[p]) BY DEF Calm, AwakePCs
  <1> QED BY <1>1, <1>2, <1>3

LEMMA RegisterMoves ==
    ASSUME PoolInv, NEW p \in Procs, Register(p)
    PROVE  Stirs(p, "reg_load") /\ Plain(p, "reg_load") /\ Calm(p, "reg_load")
  <1> USE ProcFacts DEF PoolInv, PCTypeOK, DataTypeOK, At, Register
  <1>1. Stirs(p, "reg_load") BY DEF Stirs, Stirred
  <1>2. Plain(p, "reg_load") BY DEF Plain, LockedPCs, ManagingPCs, JoinedPCs
  <1>3. Calm(p, "reg_load") BY DEF Calm, AwakePCs
  <1> QED BY <1>1, <1>2, <1>3

LEMMA RegisteredMoves ==
    ASSUME PoolInv, NEW p \in Procs, Registered(p)
    PROVE  Stirs(p, pc'[p]) /\ Plain(p, pc'[p]) /\ Calm(p, pc'[p])
  <1> USE ProcFacts DEF PoolInv, PCTypeOK, DataTypeOK, At, Registered, AddReturns
  <1>1. Stirs(p, pc'[p]) BY DEF Stirs, Stirred
  <1>2. Plain(p, pc'[p]) BY DEF Plain, LockedPCs, ManagingPCs, JoinedPCs
  <1>3. Calm(p, pc'[p]) BY DEF Calm, AwakePCs
  <1> QED BY <1>1, <1>2, <1>3

LEMMA TaskAddMoves ==
    ASSUME PoolInv, NEW p \in Procs, TaskAdd(p)
    PROVE  \E l : Stirs(p, l) /\ Plain(p, l)
  <1> USE ProcFacts DEF PoolInv, PCTypeOK, DataTypeOK, At, TaskAdd, TaskAddSignal
  <1>1. Stirs(p, IF p = Main THEN "ready" ELSE "task")
    BY SignalStirs
  <1>2. Plain(p, IF p = Main THEN "ready" ELSE "task")
    BY DEF Plain, LockedPCs, ManagingPCs, JoinedPCs
  <1> QED BY <1>1, <1>2

LEMMA DeleteMoves ==
    ASSUME PoolInv, Delete
    PROVE  Stirs(Main, "halt") /\ Plain(Main, "halt") /\ Calm(Main, "halt")
  <1> USE ProcFacts DEF PoolInv, PCTypeOK, DataTypeOK, At, Delete
  <1>1. Stirs(Main, "halt") BY DEF Stirs, Stirred
  <1>2. Plain(Main, "halt") BY DEF Plain, LockedPCs, ManagingPCs, JoinedPCs
  <1>3. Calm(Main, "halt") BY DEF Calm, AwakePCs
  <1> QED BY <1>1, <1>2, <1>3

LEMMA QuitWaitMoves ==
    ASSUME PoolInv, HaltedMain, QuitWait
    PROVE  Stirs(Main, pc'[Main]) /\ Plain(Main, pc'[Main]) /\ Calm(Main, pc'[Main])
  <1> USE ProcFacts DEF PoolInv, PCTypeOK, DataTypeOK
  <1>0. /\ pc[Main] = "q_wait"
        /\ UNCHANGED <<state, task, tlock, list_task, flag_halt, cancel, ptr>>
        /\ flag_halt
        /\ \/ Goto(Main, "q_wait")
           \/ Goto(Main, "q_scan")
    BY DEF At, QuitWait, HaltedMain
  <1>1. Stirs(Main, pc'[Main])
    <2>1. pc'[Main] \in PCsOf(Main) /\ Goto(Main, pc'[Main])
      BY <1>0
    <2> QED BY <2>1, MoveStirs
  <1>2. Plain(Main, pc'[Main]) BY <1>0 DEF Plain, LockedPCs, ManagingPCs, JoinedPCs
  <1>3. Calm(Main, pc'[Main]) BY <1>0 DEF Calm, AwakePCs
  <1> QED BY <1>1, <1>2, <1>3

LEMMA QuitScanMoves ==
    ASSUME PoolInv, HaltedMain, QuitScan
    PROVE  Stirs(Main, pc'[Main]) /\ Plain(Main, pc'[Main]) /\ Calm(Main, pc'[Main])
  <1> USE ProcFacts DEF PoolInv, PCTypeOK, DataTypeOK
  <1>0. /\ pc[Main] = "q_scan"
        /\ UNCHANGED <<state, task, tlock, list_task, flag_halt, cancel>>
        /\ \A q \in Procs \ {Main} : ptr'[q] = ptr[q]
        /\ flag_halt
        /\ \/ Goto(Main, "crashed")
           \/ Goto(Main, "done")
           \/ Goto(Main, "d_cancel")
    BY DEF At, QuitScan, UsesPool, HaltedMain
  <1>1. Stirs(Main, pc'[Main])
    <2>1. pc'[Main] \in PCsOf(Main) /\ Goto(Main, pc'[Main])
      BY <1>0
    <2> QED BY <2>1, MoveStirs
  <1>2. Plain(Main, pc'[Main]) BY <1>0 DEF Plain, LockedPCs, ManagingPCs, JoinedPCs
  <1>3. Calm(Main, pc'[Main]) BY <1>0 DEF Calm, AwakePCs
  <1> QED BY <1>1, <1>2, <1>3

LEMMA HaltMoves ==
    ASSUME PoolInv, Halt
    PROVE  Stirs(Main, "q_wait") /\ Plain(Main, "q_wait")
  <1> USE ProcFacts DEF PoolInv, PCTypeOK, DataTypeOK, At, Halt, PurgeTasks,
      Broadcast, Waiters
  <1>1. Stirs(Main, "q_wait") BY DEF Stirs, Stirred
  <1>2. Plain(Main, "q_wait") BY DEF Plain, LockedPCs, ManagingPCs, JoinedPCs
  <1> QED BY <1>1, <1>2

LEMMA ClaimMoves ==
    ASSUME PoolInv, NEW t \in Threads, Claim(t)
    PROVE  Stirs(t, pc'[t]) /\ Calm(t, pc'[t])
  <1> USE ProcFacts DEF PoolInv, PCTypeOK, DataTypeOK, At, Claim, MarkBusy
  <1>1. Stirs(t, pc'[t]) BY DEF Stirs, Stirred
  <1>2. Calm(t, pc'[t]) BY DEF Calm, AwakePCs
  <1> QED BY <1>1, <1>2

LEMMA FinishMoves ==
    ASSUME PoolInv, NEW t \in Threads, Finish(t)
    PROVE  Stirs(t, "loop") /\ Calm(t, "loop")
  <1> USE ProcFacts DEF PoolInv, PCTypeOK, DataTypeOK, At, Finish
  <1>1. Stirs(t, "loop") BY DEF Stirs, Stirred
  <1>2. Calm(t, "loop") BY DEF Calm, AwakePCs
  <1> QED BY <1>1, <1>2

LEMMA CancelInTaskMoves ==
    ASSUME PoolInv, NEW t \in Threads, CancelInTask(t)
    PROVE  Stirs(t, "canceled") /\ Calm(t, "canceled")
  <1> USE ProcFacts DEF PoolInv, PCTypeOK, DataTypeOK, At, CancelInTask, ThreadCleanup
  <1>1. Stirs(t, "canceled") BY DEF Stirs, Stirred
  <1>2. Calm(t, "canceled") BY DEF Calm, AwakePCs
  <1> QED BY <1>1, <1>2

LEMMA RecheckMoves ==
    ASSUME PoolInv, NEW t \in Threads, Recheck(t)
    PROVE  Stirs(t, pc'[t]) /\ Calm(t, pc'[t])
  <1> USE ProcFacts DEF PoolInv, PCTypeOK, DataTypeOK
  <1>0. /\ pc[t] = "m_recheck"
        /\ UNCHANGED <<list_task, flag_halt, cancel>>
        /\ \/ Goto(t, "d_cancel")
           \/ Goto(t, "m_signal")
    BY DEF At, Recheck, DelReturns
  <1>1. Stirs(t, pc'[t])
    <2>1. pc'[t] \in PCsOf(t) /\ Goto(t, pc'[t])
      BY <1>0
    <2> QED BY <2>1, MoveStirs
  <1>2. Calm(t, pc'[t]) BY <1>0 DEF Calm, AwakePCs
  <1> QED BY <1>1, <1>2

LEMMA CancelMoves ==
    ASSUME PoolInv, NEW p \in Procs, Cancel(p)
    PROVE  Stirs(p, pc'[p]) /\ Calm(p, pc'[p])
  <1> USE ProcFacts DEF PoolInv, PCTypeOK, DataTypeOK, At, Cancel, RequestCancel,
      JoinEntered
  <1>1. Stirs(p, pc'[p]) BY DEF Stirs, Stirred
  <1>2. Calm(p, pc'[p]) BY DEF Calm, AwakePCs
  <1> QED BY <1>1, <1>2

LEMMA JoinMoves ==
    ASSUME PoolInv, NEW p \in Procs, Join(p)
    PROVE  Stirs(p, "d_unlink") /\ Calm(p, "d_unlink")
  <1> USE ProcFacts DEF PoolInv, PCTypeOK, DataTypeOK, At, Join
  <1>1. Stirs(p, "d_unlink") BY DEF Stirs, Stirred
  <1>2. Calm(p, "d_unlink") BY DEF Calm, AwakePCs
  <1> QED BY <1>1, <1>2

LEMMA DelFreeMoves ==
    ASSUME PoolInv, NEW p \in Procs, DelFree(p)
    PROVE  Stirs(p, pc'[p]) /\ Calm(p, pc'[p])
  <1> USE ProcFacts DEF PoolInv, PCTypeOK, DataTypeOK, At, DelFree, DelReturns
  <1>1. Stirs(p, pc'[p]) BY DEF Stirs, Stirred
  <1>2. Calm(p, pc'[p]) BY DEF Calm, AwakePCs
  <1> QED BY <1>1, <1>2

\* The counters and list_del
\* The steps on counters and links, shared by creation, deletion and exit.
LEMMA CounterMoves ==
    ASSUME PoolInv, NEW p \in Procs, NEW from, NEW to \in PCsOf(p), NEW u, NEW c,
           \/ p \in Threads /\ from \in ExitPCs /\ to \in ExitPCs
           \/ from \in DelPCs \ {"d_cancel"} /\ to \in JoinedPCs
              /\ (p = Main => flag_halt /\ from \in JoinedPCs)
           \/ from = "reg_load" /\ to = "reg_store",
           \/ Load(p, from, to, c) \/ NumStore(p, from, to) \/ IdleStore(p, from, to)
           \/ Unlink(p, u, from, to) \/ Relink(p, u, from, to)
    PROVE  Stirs(p, to) /\ Plain(p, to) /\ Calm(p, to)
  <1>1. /\ pc[p] = from /\ Goto(p, to)
        /\ UNCHANGED <<state, task, tlock, list_task, flag_halt, cancel, ptr>>
    BY DEF Load, NumStore, IdleStore, Unlink, Relink, At
  <1>2. Stirs(p, to)
    BY <1>1, MoveStirs
  <1>3. Plain(p, to) /\ Calm(p, to)
    BY <1>1, ProcFacts
    DEF Plain, Calm, AwakePCs, LockedPCs, ManagingPCs, JoinedPCs, ManagerPCs, AddPCs,
        DelPCs, ExitPCs, DeadPCs
  <1> QED BY <1>2, <1>3

LEMMA CrashMoves ==
    ASSUME PoolInv, NEW p \in Procs, Crash(p)
    PROVE  Stirs(Main, "crashed") /\ Plain(Main, "crashed") /\ Calm(Main, "crashed")
  <1> USE ProcFacts DEF Crash, PCsOf, MainPCs
  <1>1. Stirs(Main, "crashed") BY MoveStirs
  <1>2. Plain(Main, "crashed") BY DEF Plain, JoinedPCs, DelPCs
  <1>3. Calm(Main, "crashed") BY DEF Calm
  <1> QED BY <1>1, <1>2, <1>3

-----------------------------------------------------------------------------
(* Steps that are not plain *)

\* The steps that are not plain: a task is taken, claimed, ended or cancelled, or a
\* thread is chosen, cancelled, joined or freed.
LEMMA TakeRoles ==
    ASSUME PoolInv, RoleInv, NEW t \in Threads, Take(t)
    PROVE  RoleInv'
  <1> USE ProcFacts DEF PoolInv, PCTypeOK, DataTypeOK, RoleInv, At, Safe, Intact,
      Take, Dequeue
  <1>1. LockHeld' BY DEF LockHeld, LockedPCs, ManagingPCs
  <1>2. ManagerBusy' BY DEF ManagerBusy, ManagingPCs
  <1>3. NotItself' BY DEF NotItself
  <1>4. HaltedMain' BY DEF HaltedMain
  <1>5. LastVictim' BY DEF LastVictim, JoinedPCs, HaltedMain, TakeReady
  <1> QED BY <1>1, <1>2, <1>3, <1>4, <1>5

LEMMA ClaimRoles ==
    ASSUME PoolInv, RoleInv, NEW t \in Threads, Claim(t)
    PROVE  RoleInv'
  <1> USE ProcFacts DEF PoolInv, PCTypeOK, DataTypeOK, RoleInv, At, Safe, Intact,
      Claim, MarkBusy
  <1>1. LockHeld' BY DEF LockHeld, LockedPCs, ManagingPCs
  <1>2. ManagerBusy' BY DEF ManagerBusy, ManagingPCs
  <1>3. NotItself' BY DEF NotItself
  <1>4. HaltedMain' BY DEF HaltedMain
  <1>5. LastVictim' BY DEF LastVictim, JoinedPCs
  <1> QED BY <1>1, <1>2, <1>3, <1>4, <1>5

LEMMA FinishRoles ==
    ASSUME PoolInv, RoleInv, NEW t \in Threads, Finish(t)
    PROVE  RoleInv'
  <1> USE ProcFacts DEF PoolInv, PCTypeOK, DataTypeOK, RoleInv, At, Safe, Intact, Finish
  <1>1. LockHeld' BY DEF LockHeld, LockedPCs, ManagingPCs
  <1>2. ManagerBusy' BY DEF ManagerBusy, ManagingPCs
  <1>3. NotItself' BY DEF NotItself
  <1>4. HaltedMain' BY DEF HaltedMain
  <1>5. LastVictim' BY DEF LastVictim, JoinedPCs
  <1> QED BY <1>1, <1>2, <1>3, <1>4, <1>5

LEMMA CancelInTaskRoles ==
    ASSUME PoolInv, RoleInv, NEW t \in Threads, CancelInTask(t)
    PROVE  RoleInv'
  <1> USE ProcFacts DEF PoolInv, PCTypeOK, DataTypeOK, RoleInv, At, Safe, Intact,
      CancelInTask, ThreadCleanup
  <1>1. LockHeld' BY DEF LockHeld, LockedPCs, ManagingPCs
  <1>2. ManagerBusy' BY DEF ManagerBusy, ManagingPCs
  <1>3. NotItself' BY DEF NotItself
  <1>4. HaltedMain' BY DEF HaltedMain
  <1>5. LastVictim' BY DEF LastVictim, JoinedPCs
  <1> QED BY <1>1, <1>2, <1>3, <1>4, <1>5

LEMMA RecheckRoles ==
    ASSUME PoolInv, RoleInv, NEW t \in Threads, Recheck(t)
    PROVE  RoleInv'
  <1> USE ProcFacts DEF PoolInv, PCTypeOK, DataTypeOK, RoleInv, At, Safe, Intact,
      Recheck, DelReturns
  <1>1. LockHeld' BY DEF LockHeld, LockedPCs, ManagingPCs
  <1>2. ManagerBusy' BY DEF ManagerBusy, ManagingPCs
  <1>3. NotItself' BY DEF NotItself, ManagerBusy, ManagingPCs
  <1>4. HaltedMain' BY DEF HaltedMain
  <1>5. LastVictim' BY DEF LastVictim, JoinedPCs
  <1> QED BY <1>1, <1>2, <1>3, <1>4, <1>5

LEMMA CancelRoles ==
    ASSUME PoolInv, RoleInv, NEW p \in Procs, Cancel(p)
    PROVE  RoleInv'
  <1> USE ProcFacts DEF PoolInv, PCTypeOK, DataTypeOK, RoleInv, At, Safe, Intact,
      Cancel, RequestCancel, JoinEntered
  <1>1. LockHeld' BY DEF LockHeld, LockedPCs, ManagingPCs
  <1>2. ManagerBusy' BY DEF ManagerBusy, ManagingPCs
  <1>3. NotItself' BY DEF NotItself
  <1>4. HaltedMain' BY DEF HaltedMain
  <1>5. LastVictim'
    <2> SUFFICES ASSUME NEW u \in Threads, pc'[Main] \in JoinedPCs, ptr[Main] = u,
                        task[u] = Manager
                 PROVE  pc'[u] \in DeadPCs
      BY DEF LastVictim
    <2>1. CASE p = Main
      <3>1. PICK q \in Procs : pc[q] = "d_join" /\ ptr[q] = u
        BY <2>1 DEF JoinedPCs
      <3>2. q \in Threads /\ q # u /\ task[q] = Manager
        BY <2>1, <3>1 DEF NotItself, ManagerBusy, ManagingPCs
      <3> QED BY <3>2 DEF TaskInv, Apart
    <2>2. CASE p \in Threads
      BY <2>2 DEF LastVictim, JoinedPCs
    <2> QED BY <2>1, <2>2
  <1> QED BY <1>1, <1>2, <1>3, <1>4, <1>5

LEMMA JoinRoles ==
    ASSUME PoolInv, RoleInv, NEW p \in Procs, Join(p)
    PROVE  RoleInv'
  <1> USE ProcFacts DEF PoolInv, PCTypeOK, DataTypeOK, RoleInv, At, Safe, Intact, Join
  <1>1. LockHeld' BY DEF LockHeld, LockedPCs, ManagingPCs
  <1>2. ManagerBusy' BY DEF ManagerBusy, ManagingPCs
  <1>3. NotItself' BY DEF NotItself
  <1>4. HaltedMain' BY DEF HaltedMain
  <1>5. LastVictim' BY DEF LastVictim, JoinedPCs
  <1> QED BY <1>1, <1>2, <1>3, <1>4, <1>5

LEMMA DelFreeRoles ==
    ASSUME PoolInv, RoleInv, NEW p \in Procs, DelFree(p)
    PROVE  RoleInv'
  <1> USE ProcFacts DEF PoolInv, PCTypeOK, DataTypeOK, RoleInv, At, Safe, Intact,
      DelFree, DelReturns
  <1>1. LockHeld' BY DEF LockHeld, LockedPCs, ManagingPCs
  <1>2. ManagerBusy'
    <2> SUFFICES ASSUME NEW u \in Threads, pc'[u] \in ManagingPCs
                 PROVE  task'[u] = Manager /\ state[u] = "BUSY"
      BY DEF ManagerBusy
    <2>1. task[u] = Manager /\ state[u] = "BUSY" /\ pc[u] \in ManagingPCs
      BY DEF ManagerBusy, ManagingPCs
    <2>2. CASE p = Main
      <3>1. ptr[Main] # u
        BY <2>1, <2>2 DEF LastVictim, JoinedPCs, ManagingPCs
      <3> QED BY <2>1, <2>2, <3>1
    <2>3. CASE p \in Threads
      <3>1. task[p] = Manager /\ ptr[p] # p
        BY <2>3 DEF ManagerBusy, NotItself, ManagingPCs
      <3>2. u = p
        BY <2>1, <2>3, <3>1 DEF TaskInv, Apart
      <3> QED BY <2>1, <3>1, <3>2
    <2> QED BY <2>2, <2>3
  <1>3. NotItself' BY DEF NotItself
  <1>4. HaltedMain' BY DEF HaltedMain
  <1>5. LastVictim'
    BY DEF LastVictim, JoinedPCs, ManagerBusy, ManagingPCs, NotItself, TaskInv, Apart
  <1> QED BY <1>1, <1>2, <1>3, <1>4, <1>5

-----------------------------------------------------------------------------
(* Steps that are not calm *)

\* The thread that takes a task is one fewer on the way to the list, and so is
\* the task
\* Take removes a task and one awake thread with it.
LEMMA TakeWakes ==
    ASSUME PoolInv, NoLostWakeup, NEW t \in Threads, Take(t)
    PROVE  NoLostWakeup'
  <1> USE ProcFacts DEF Take, Dequeue, At
  <1>1. SUFFICES ASSUME ~flag_halt, LiveWaiters' # {}
                 PROVE  Len(list_task') <= Cardinality(Awake')
    BY DEF NoLostWakeup
  <1>2. LiveWaiters # {}
    BY <1>1 DEF LiveWaiters, Waiters, PoolInv, PCTypeOK
  <1>3. Awake' = Awake \ {t} /\ t \in Awake
    BY DEF Awake, PoolInv, PCTypeOK
  <1>4. Cardinality(Awake') = Cardinality(Awake) - 1 /\ Cardinality(Awake) \in Nat
    <2>1. IsFiniteSet(Awake)
      BY AwakeFinite DEF Awake
    <2> QED BY <1>3, <2>1, FS_RemoveElement, FS_CardinalityType
  <1>5. Len(list_task') = Len(list_task) - 1 /\ Len(list_task) \in Nat
    BY DEF PoolInv, DataTypeOK, TakeReady
  <1> QED BY <1>1, <1>2, <1>4, <1>5 DEF NoLostWakeup

\* An addition wakes one waiter for the task it appends, if any waits.
LEMMA TaskAddWakes ==
    ASSUME PoolInv, NoLostWakeup, NEW p \in Procs, TaskAdd(p)
    PROVE  NoLostWakeup'
  <1> USE ProcFacts DEF At
  <1> DEFINE l == IF p = Main THEN "ready" ELSE "task"
  <1> DEFINE pcs == [pc EXCEPT ![p] = l]
  <1>1. SUFFICES ASSUME ~flag_halt, LiveWaiters' # {}
                 PROVE  Len(list_task') <= Cardinality(Awake')
    BY DEF NoLostWakeup, TaskAdd
  <1>2. /\ pcs \in [Procs -> MainPCs \cup ThreadPCs] /\ pc[p] = "add_lock"
        /\ \A q \in Procs : pcs[q] = IF q = p THEN l ELSE pc[q]
    BY DEF PoolInv, PCTypeOK, TaskAdd, MainPCs, ThreadPCs, WorkerPCs
  <1>3. pc' \in Signalled(pcs) /\ cancel' = cancel
    BY DEF TaskAdd, TaskAddSignal
  <1>4. Len(list_task') = Len(list_task) + 1 /\ Len(list_task) \in Nat
    BY DEF PoolInv, DataTypeOK, TaskAdd
  <1> HIDE DEF pcs
  <1>5. PICK w \in Waiters : pc' = [pcs EXCEPT ![w] = "relock"]
    <2>1. ASSUME LiveWaiters = {}, pc' = pcs
          PROVE  FALSE
      BY <1>1, <1>2, <1>3, <2>1 DEF LiveWaiters, Waiters
    <2> QED BY <1>3, <2>1 DEF Signalled
  <1>6. w \in Threads /\ pc[w] = "cond_wait" /\ w # p
    BY <1>2 DEF Waiters
  <1>7. LiveWaiters # {}
    BY <1>1, <1>2, <1>3, <1>5, <1>6 DEF LiveWaiters, Waiters
  <1>8. Awake \cup {w} \subseteq Awake' /\ w \notin Awake
    BY <1>2, <1>5, <1>6 DEF Awake
  <1>9. /\ Cardinality(Awake \cup {w}) = Cardinality(Awake) + 1
        /\ Cardinality(Awake) \in Nat /\ IsFiniteSet(Awake) /\ IsFiniteSet(Awake')
    BY <1>8, AwakeFinite, FS_AddElement, FS_CardinalityType DEF Awake
  <1>10. /\ Cardinality(Awake \cup {w}) <= Cardinality(Awake')
         /\ Cardinality(Awake') \in Nat
    BY <1>8, <1>9, FS_Subset, FS_CardinalityType
  <1> QED BY <1>1, <1>4, <1>7, <1>9, <1>10 DEF NoLostWakeup

-----------------------------------------------------------------------------
(* The two invariants together, for every step *)

HIDE DEF PCsOf, MainPCs, ThreadPCs, WorkerPCs, ManagerPCs, AddPCs, DelPCs
HIDE DEF ExitPCs, DeadPCs

Kept == RoleInv /\ NoLostWakeup

LEMMA PlainCalmKeeps ==
    ASSUME PoolInv, Kept, NEW p \in Procs, NEW l, Stirs(p, l), Plain(p, l), Calm(p, l)
    PROVE  Kept'
  BY PlainKeeps, CalmKeeps DEF Kept

\* The invariant holds at first and every step keeps it.
LEMMA InitKept == Init => Kept
  <1> SUFFICES ASSUME Init PROVE Kept
    OBVIOUS
  <1>1. RoleInv
    BY ProcFacts
    DEF Init, RoleInv, LockHeld, ManagerBusy, NotItself, HaltedMain, LastVictim,
        LockedPCs, ManagingPCs, JoinedPCs, ManagerPCs, AddPCs, DelPCs
  <1>2. LiveWaiters = {}
    BY ProcFacts DEF Init, LiveWaiters, Waiters
  <1> QED BY <1>1, <1>2 DEF Kept, NoLostWakeup

LEMMA ThreadAddKept ==
    ASSUME PoolInv, Kept, NEW p \in Procs, ThreadAdd(p)
    PROVE  Kept'
  <1>1. CASE Create(p) BY <1>1, CreateMoves, PlainCalmKeeps
  <1>2. CASE CreateFails(p) BY <1>2, CreateFailsMoves, PlainCalmKeeps
  <1>3. CASE Register(p) BY <1>3, RegisterMoves, PlainCalmKeeps
  <1>4. CASE Registered(p) BY <1>4, RegisteredMoves, PlainCalmKeeps
  <1>5. CASE Load(p, "reg_load", "reg_store", thread_num)
    <2>1. "reg_store" \in PCsOf(p)
      BY DEF PCsOf, MainPCs, ThreadPCs, AddPCs
    <2> QED BY <1>5, <2>1, CounterMoves, PlainCalmKeeps
  <1> QED BY <1>1, <1>2, <1>3, <1>4, <1>5 DEF ThreadAdd

LEMMA ThreadDelKept ==
    ASSUME PoolInv, Kept, NEW p \in Procs, ThreadDel(p)
    PROVE  Kept'
  <1>1. CASE Cancel(p) BY <1>1, CancelRoles, CancelMoves, CalmKeeps DEF Kept
  <1>2. CASE Join(p) BY <1>2, JoinRoles, JoinMoves, CalmKeeps DEF Kept
  <1>3. CASE DelFree(p) BY <1>3, DelFreeRoles, DelFreeMoves, CalmKeeps DEF Kept
  <1>4. JoinedPCs \subseteq PCsOf(p) /\ JoinedPCs \subseteq DelPCs \ {"d_cancel"}
    BY DEF JoinedPCs, PCsOf, MainPCs, ThreadPCs, DelPCs
  <1>5. {"d_unlink", "d_relink", "d_nload", "d_nstore", "d_iload", "d_istore", "d_free"}
           \subseteq JoinedPCs
    BY DEF JoinedPCs, DelPCs
  <1>6. ASSUME NEW from \in JoinedPCs, NEW to \in JoinedPCs, NEW u, NEW c,
               \/ Load(p, from, to, c) \/ NumStore(p, from, to) \/ IdleStore(p, from, to)
               \/ Unlink(p, u, from, to) \/ Relink(p, u, from, to)
        PROVE  Kept'
    <2>1. pc[p] = from
      BY <1>6 DEF Load, NumStore, IdleStore, Unlink, Relink, At
    <2>2. p = Main => flag_halt
      BY <1>4, <2>1 DEF Kept, RoleInv, HaltedMain
    <2> QED BY <1>4, <1>6, <2>2, CounterMoves, PlainCalmKeeps
  <1> HIDE DEF Kept
  <1>7. CASE Unlink(p, ptr[p], "d_unlink", "d_relink") BY <1>5, <1>6, <1>7
  <1>8. CASE Relink(p, ptr[p], "d_relink", "d_nload") BY <1>5, <1>6, <1>8
  <1>9. CASE Load(p, "d_nload", "d_nstore", thread_num) BY <1>5, <1>6, <1>9
  <1>10. CASE NumStore(p, "d_nstore",
                       IF state[ptr[p]] = "IDLE" THEN "d_iload" ELSE "d_free")
    BY <1>5, <1>6, <1>10
  <1>11. CASE Load(p, "d_iload", "d_istore", idle_thread_num) BY <1>5, <1>6, <1>11
  <1>12. CASE IdleStore(p, "d_istore", "d_free") BY <1>5, <1>6, <1>12
  <1> QED BY <1>1, <1>2, <1>3, <1>7, <1>8, <1>9, <1>10, <1>11, <1>12 DEF ThreadDel

LEMMA ExitKept ==
    ASSUME PoolInv, Kept, NEW t \in Threads, Exit(t)
    PROVE  Kept'
  <1>1. CASE ExitFree(t) BY <1>1, ExitFreeMoves, PlainCalmKeeps, ProcFacts
  <1>2. t \in Procs /\ ExitPCs \subseteq PCsOf(t)
    BY ProcFacts DEF PCsOf, ThreadPCs
  <1>3. {"x_nload", "x_nstore", "x_iload", "x_istore", "x_unlink", "x_relink", "x_free"}
           \subseteq ExitPCs
    BY DEF ExitPCs
  <1>4. ASSUME NEW from \in ExitPCs, NEW to \in ExitPCs, NEW c,
               \/ Load(t, from, to, c) \/ NumStore(t, from, to) \/ IdleStore(t, from, to)
               \/ Unlink(t, t, from, to) \/ Relink(t, t, from, to)
        PROVE  Kept'
    BY <1>2, <1>4, CounterMoves, PlainCalmKeeps
  <1> HIDE DEF Kept
  <1>5. CASE Load(t, "x_nload", "x_nstore", thread_num) BY <1>3, <1>4, <1>5
  <1>6. CASE NumStore(t, "x_nstore",
                      IF state[t] = "IDLE" THEN "x_iload" ELSE "x_unlink")
    BY <1>3, <1>4, <1>6
  <1>7. CASE Load(t, "x_iload", "x_istore", idle_thread_num) BY <1>3, <1>4, <1>7
  <1>8. CASE IdleStore(t, "x_istore", "x_unlink") BY <1>3, <1>4, <1>8
  <1>9. CASE Unlink(t, t, "x_unlink", "x_relink") BY <1>3, <1>4, <1>9
  <1>10. CASE Relink(t, t, "x_relink", "x_free") BY <1>3, <1>4, <1>10
  <1> QED BY <1>1, <1>5, <1>6, <1>7, <1>8, <1>9, <1>10 DEF Exit

LEMMA WorkerKept ==
    ASSUME PoolInv, Kept, NEW t \in Threads, Worker(t)
    PROVE  Kept'
  <1> USE ProcFacts
  <1>1. CASE Loop(t) BY <1>1, LoopMoves, PlainCalmKeeps
  <1>2. CASE Lock(t) BY <1>2, LockMoves, PlainCalmKeeps
  <1>3. CASE IdleInc(t) BY <1>3, IdleIncMoves, PlainCalmKeeps
  <1>4. CASE Relock(t) BY <1>4, RelockMoves, PlainCalmKeeps
  <1>5. CASE CancelInWait(t) BY <1>5, CancelInWaitMoves, PlainCalmKeeps
  <1>6. CASE Take(t) BY <1>6, TakeRoles, TakeWakes DEF Kept
  <1>7. CASE IdleDec(t) BY <1>7, IdleDecMoves, PlainCalmKeeps
  <1>8. CASE Claim(t) BY <1>8, ClaimRoles, ClaimMoves, CalmKeeps DEF Kept
  <1>9. CASE Finish(t) BY <1>9, FinishRoles, FinishMoves, CalmKeeps DEF Kept
  <1>10. CASE CancelInTask(t)
    BY <1>10, CancelInTaskRoles, CancelInTaskMoves, CalmKeeps DEF Kept
  <1>11. CASE Exit(t) BY <1>11, ExitKept
  <1> QED BY <1>1, <1>2, <1>3, <1>4, <1>5, <1>6, <1>7, <1>8, <1>9, <1>10, <1>11
      DEF Worker

LEMMA ManagerKept ==
    ASSUME PoolInv, Kept, NEW t \in Threads, ManagerStep(t)
    PROVE  Kept'
  <1> USE ProcFacts
  <1>1. CASE ManagerLoop(t) BY <1>1, ManagerLoopMoves, PlainCalmKeeps
  <1>2. CASE ManagerCreate(t) BY <1>2, ManagerCreateMoves, PlainCalmKeeps
  <1>3. CASE ManagerCreateIdle(t) BY <1>3, ManagerCreateIdleMoves, PlainCalmKeeps
  <1>4. CASE ManagerDestroy(t) BY <1>4, ManagerDestroyMoves, PlainCalmKeeps
  <1>5. CASE ManagerDestroyIdle(t) BY <1>5, ManagerDestroyIdleMoves, PlainCalmKeeps
  <1>6. CASE Scan(t) BY <1>6, ScanMoves, PlainCalmKeeps
  <1>7. CASE ScanNext(t) BY <1>7, ScanNextMoves, PlainCalmKeeps
  <1>8. CASE Recheck(t) BY <1>8, RecheckRoles, RecheckMoves, CalmKeeps DEF Kept
  <1>9. CASE ManagerSignal(t) BY <1>9, ManagerSignalMoves, PlainCalmKeeps
  <1> QED BY <1>1, <1>2, <1>3, <1>4, <1>5, <1>6, <1>7, <1>8, <1>9 DEF ManagerStep

LEMMA StepKept == PoolInv /\ Kept /\ [Next]_vars => Kept'
  <1> SUFFICES ASSUME PoolInv, Kept, [Next]_vars PROVE Kept'
    OBVIOUS
  <1> USE ProcFacts
  <1>1. CASE Halt BY <1>1, HaltMoves, PlainKeeps DEF Kept, Halt, NoLostWakeup
  <1>2. CASE QuitWait BY <1>2, QuitWaitMoves, PlainCalmKeeps DEF Kept, RoleInv
  <1>3. CASE QuitScan BY <1>3, QuitScanMoves, PlainCalmKeeps DEF Kept, RoleInv
  <1>4. CASE Delete BY <1>4, DeleteMoves, PlainCalmKeeps
  <1>5. ASSUME NEW p \in Procs, ThreadAdd(p) PROVE Kept'
    BY <1>5, ThreadAddKept
  <1>6. ASSUME NEW p \in Procs, ThreadDel(p) PROVE Kept'
    BY <1>6, ThreadDelKept
  <1>7. ASSUME NEW t \in Threads, Worker(t) PROVE Kept'
    BY <1>7, WorkerKept
  <1>8. ASSUME NEW t \in Threads, ManagerStep(t) PROVE Kept'
    BY <1>8, ManagerKept
  <1>9. ASSUME NEW t \in Threads, SpuriousWakeup(t) PROVE Kept'
    BY <1>9, SpuriousWakeupMoves, PlainCalmKeeps
  <1>10. ASSUME NEW p \in Procs, TaskAddCheck(p) PROVE Kept'
    BY <1>10, TaskAddCheckMoves, PlainCalmKeeps
  <1>11. ASSUME NEW p \in Procs, TaskAdd(p) PROVE Kept'
    <2>1. RoleInv' BY <1>11, TaskAddMoves, PlainKeeps DEF Kept
    <2> QED BY <1>11, <2>1, TaskAddWakes DEF Kept
  <1>12. ASSUME NEW p \in Procs, Crash(p) PROVE Kept'
    BY <1>12, CrashMoves, PlainCalmKeeps
  <1>13. CASE UNCHANGED vars
    BY <1>13
    DEF vars, Kept, RoleInv, LockHeld, ManagerBusy, NotItself, HaltedMain, LastVictim,
        NoLostWakeup, LiveWaiters, Waiters, Awake
  <1> HIDE DEF Kept
  <1>14. CASE Next
    BY <1>1, <1>2, <1>3, <1>4, <1>5, <1>6, <1>7, <1>8, <1>9, <1>10, <1>11, <1>12, <1>13,
       <1>14
    DEF Next, MainStep, Thread, Ended
  <1> QED BY <1>13, <1>14

LEMMA RoleInvariant == Spec => [](PoolInv /\ Kept)
  <1>1. Init => Kept BY InitKept
  <1>2. PoolInv /\ Kept /\ [Next]_vars => Kept' BY StepKept
  <1> QED BY <1>1, <1>2, PoolInvariant, PTL DEF Spec

-----------------------------------------------------------------------------
(* The theorems *)

\* A thread that is over, or on its way out, has released its own mutex, wherever
\* it was cancelled.
THEOREM OwnMutexReleased == Spec => []ThreadMutexReleased
  <1>1. PoolInv /\ Kept => ThreadMutexReleased
    BY DEF Kept, RoleInv, LockHeld, LockedPCs, ManagingPCs, ManagerPCs, AddPCs, DelPCs,
           ExitPCs, DeadPCs, ThreadMutexReleased
  <1> QED BY <1>1, RoleInvariant, PTL

\* The manager, and in the end Main, may delete any thread, but the manager never
\* the one it runs in.
THEOREM ManagerNotDeleted == Spec => []ManagerSpared
  <1>1. PoolInv /\ Kept => ManagerSpared
    BY DEF Kept, RoleInv, ManagerBusy, NotItself, ManagingPCs, PoolInv, TaskInv, Apart,
           ManagerSpared
  <1> QED BY <1>1, RoleInvariant, PTL

\* No wakeup is lost, for any number of threads and tasks, whichever waiters are
\* cancelled.
THEOREM WakeupsKept == Spec => []NoLostWakeup
  <1> QED BY RoleInvariant, PTL DEF Kept
====
