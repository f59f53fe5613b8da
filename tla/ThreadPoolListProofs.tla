------------------------ MODULE ThreadPoolListProofs ------------------------
(***************************************************************************)
(* The last proofs about ThreadPool: until the pool is destroyed, its list *)
(* of threads is a list, thread_num counts it and stays within the limits, *)
(* and no step touches freed memory.                                       *)
(***************************************************************************)
EXTENDS ThreadPoolRoleProofs

USE BoundsAssumption, PoolAssumption DEF Main, NULL, ListHead, Manager
USE DEF tasks, counters, lists, structs, timers, locals, Goto

-----------------------------------------------------------------------------
(* The inductive invariant until flag_halt is set, in addition to PoolInv  *)
(* and RoleInv                                                             *)

\* Main is inside pool_thread_new
Building == pc[Main] \in AddPCs

MainPhase == pc[Main] \in {"ready", "add_lock", "halt", "failed"} \cup AddPCs
NoExit == \A t \in Threads : pc[t] \notin ExitPCs \cup {"exited"}

\* A thread from Take on holds a task; one in a user's task does not hold the manager
Holds ==
    \A t \in Threads :
        /\ pc[t] \in {"idle_dec", "claim"} => task[t] # NULL
        /\ pc[t] \in {"task", "add_lock"} => task[t] \notin {NULL, Manager}

\* Users have the pool only after pool_thread_new
Starting == Building => submitted = 0

\* How many threads there may be; while Main adds its thread the manager adds only
\* up to THREAD_NUM_MIN, as no task waits
Ceiling == IF Building THEN THREAD_NUM_MIN ELSE THREAD_NUM_MAX

DeletingPCs == {"m_destroy_idle", "m_scan", "m_next", "m_recheck"} \cup DelPCs
CountedPCs  == {"d_iload", "d_istore", "d_free"}

Limits ==
    /\ thread_num <= Ceiling
    /\ \A t \in Threads :
         /\ pc[t] \in AddPCs => thread_num < Ceiling
         /\ pc[t] = "m_create_idle" => ~Building /\ thread_num < THREAD_NUM_MAX
         /\ pc[t] \in DeletingPCs => ~Building
         /\ pc[t] \in DeletingPCs \ CountedPCs => thread_num > THREAD_NUM_MIN

\* thread_num counts the listed threads, but for one that is just added or removed
Members  == {t \in Threads : nxt[t] # NULL}
Removing == \E t \in Threads : pc[t] \in {"d_nload", "d_nstore"}
Adding   == \E p \in Procs : pc[p] \in {"reg_load", "reg_store"}
Counted  ==
    thread_num + (IF Adding THEN 1 ELSE 0)
        = Cardinality(Members) + (IF Removing THEN 1 ELSE 0)

\* What was loaded of thread_num is still its value
Loaded ==
    /\ \A p \in Procs : pc[p] = "reg_store" => reg[p] = thread_num
    /\ \A t \in Threads : pc[t] = "d_nstore" => reg[t] = thread_num

\* The list is doubly linked, and every chain of threads leaves its threads
Listed == Members \cup {ListHead}
Linked ==
    \A n \in Listed : /\ nxt[n] \in Listed /\ prv[n] \in Listed
                      /\ prv[nxt[n]] = n /\ nxt[prv[n]] = n
NoCycle == \A S \in SUBSET Members : S # {} => \E t \in S : nxt[t] \notin S

\* Only joined threads are freed; only the victims of thread_del are cancelled, and
\* only cancelled threads are over
Spared == \A t \in Threads : freed[t] => pc[t] = "joined"
Cancelled ==
    \A u \in Threads :
        /\ pc[u] \in DeadPCs => cancel[u]
        /\ cancel[u] => \/ freed[u]
                        \/ \E t \in Threads : /\ pc[t] \in DelPCs \ {"d_cancel"}
                                              /\ ptr[t] = u
        /\ freed[u] \/ pc[u] = "none" => u \notin Members

\* The manager's victim, listed up to where it is taken off the list
ListedPCs == {"d_cancel", "d_join", "d_unlink", "d_relink"}
Victim ==
    \A t \in Threads :
        /\ pc[t] \in DelPCs =>
             /\ ptr[t] \in Threads /\ ~freed[ptr[t]]
             /\ ptr[t] \in Members <=> pc[t] \in ListedPCs
        /\ pc[t] \in JoinedPCs => pc[ptr[t]] = "joined"
        /\ pc[t] = "d_relink" => nb[t] = <<prv[ptr[t]], nxt[ptr[t]]>>

\* The manager's search stays in the list
Search ==
    \A t \in Threads :
        /\ pc[t] \in {"m_next", "m_recheck"} => ptr[t] \in Members
        /\ pc[t] = "m_scan" => \/ nb[t][2] \in Members
                               \/ nb[t][2] = ListHead /\ ptr[t] \in Members

\* A new thread is not listed yet, and each of two new threads is another one
Fresh ==
    \A p \in Procs : pc[p] = "reg_link" =>
        /\ ptr[p] \in Threads \ Members /\ ~freed[ptr[p]] /\ pc[ptr[p]] # "none"
        /\ \A q \in Procs : pc[q] = "reg_link" /\ p # q => ptr[p] # ptr[q]

Control == MainPhase /\ NoExit /\ Holds /\ Starting
Numbers == Limits /\ Counted /\ Loaded
Chain   == Linked /\ NoCycle
Fates   == Spared /\ Cancelled /\ Victim /\ Search /\ Fresh
Service == Control /\ Numbers /\ Chain /\ Fates

USE DEF ListedPCs

\* At most one thread is inside the manager
OneManager ==
    \A t, u \in Threads : pc[t] \in ManagingPCs /\ pc[u] \in ManagingPCs => t = u

\* Only one thread holds the manager as its task
LEMMA ManagerUnique == PoolInv /\ RoleInv => OneManager
  BY DEF PoolInv, TaskInv, Apart, RoleInv, ManagerBusy, OneManager

\* The list is finite
LEMMA MembersFinite == IsFiniteSet(Members) /\ Cardinality(Members) \in Nat
  <1>1. IsFiniteSet(Members) BY AwakeFinite DEF Members
  <1> QED BY <1>1, FS_CardinalityType

\* If there are more than THREAD_NUM_MIN threads, the list has a first one
LEMMA ListNotEmpty ==
    ASSUME PoolInv, OneManager, Counted, Linked, NoCycle, thread_num > THREAD_NUM_MIN,
           NEW t \in Threads, pc[t] \in {"m_destroy", "m_destroy_idle"}
    PROVE  nxt[ListHead] \in Members
  <1>1. ~Removing
    BY DEF Removing, OneManager, ManagingPCs, ManagerPCs, DelPCs
  <1>2. Members # {}
    BY <1>1, FS_EmptySet, MembersFinite DEF Counted, PoolInv, DataTypeOK, Adding
  <1>3. PICK u \in Members : nxt[u] \notin Members
    BY <1>2 DEF NoCycle
  <1>4. nxt[u] = ListHead /\ prv[ListHead] = u /\ u # ListHead
    BY <1>3, ProcFacts DEF Linked, Listed, Members
  <1> QED BY <1>4 DEF Linked, Listed

-----------------------------------------------------------------------------
(* Steady and still steps *)

RegPCs   == {"reg_load", "reg_store"}
NumPCs   == {"d_nload", "d_nstore"}
UserPCs  == {"task", "add_lock"}
BoundPCs == DelPCs \ {"d_cancel"}

\* A step that moves p and perhaps starts, wakes or joins other threads, frees no
\* thread, and leaves the list and thread_num alone
Steady(p, l) ==
    /\ Stirs(p, l)
    /\ UNCHANGED <<thread_num, nxt, prv, freed>>
    /\ \A q \in Procs \ {p} : UNCHANGED <<reg[q], ptr[q], nb[q]>>
    /\ \A u \in Threads \ {p} : task'[u] = task[u]
    /\ \A u \in Threads : \/ cancel'[u] = cancel[u]
                          \/ /\ cancel'[u] /\ ptr'[p] = u
                             /\ p \in Threads /\ l \in BoundPCs
    /\ submitted' = submitted \/ ~Building
    /\ pc[p] \in RegPCs <=> l \in RegPCs
    /\ pc[p] \in NumPCs <=> l \in NumPCs
    /\ l \in {"reg_store", "d_nstore"} => reg'[p] = thread_num
    /\ l = "reg_link" => /\ ptr'[p] \in Threads \ Members
                         /\ pc[ptr'[p]] = "none" /\ pc'[ptr'[p]] # "none"
    /\ p = Main => /\ l \in {"ready", "add_lock", "halt", "failed"} \cup AddPCs
                   /\ l \in AddPCs => pc[p] \in AddPCs
    /\ p \in Threads =>
         /\ l \in {"idle_dec", "claim"} => task'[p] # NULL
         /\ l \in UserPCs => task'[p] \notin {NULL, Manager}
         /\ l \notin ExitPCs \cup {"exited", "joined", "none"}
         /\ l \in DeadPCs => cancel[p]
         /\ pc[p] # "joined"
         /\ pc[p] \in BoundPCs => l \in BoundPCs /\ ptr'[p] = ptr[p]

\* A steady step to where the manager neither adds nor deletes
Still(p, l) ==
    /\ Steady(p, l)
    /\ p \in Threads => l \notin AddPCs \cup DeletingPCs \cup {"m_create_idle"}

\* A steady step keeps all of Service that does not depend on where it takes the
\* manager
LEMMA SteadyServes ==
    ASSUME PoolInv, Service, NEW p \in Procs, NEW l, Steady(p, l)
    PROVE  /\ Control' /\ Counted' /\ Loaded' /\ Chain' /\ Spared' /\ Cancelled'
           /\ Fresh'
  <1> USE ProcFacts
      DEF PoolInv, PCTypeOK, DataTypeOK, Service, Control, Numbers, Chain, Fates,
          Steady, Stirs, Stirred, RegPCs, NumPCs, DelPCs, AddPCs, ExitPCs, DeadPCs
  <1>1. MainPhase' BY DEF MainPhase
  <1>2. NoExit' BY DEF NoExit
  <1>3. Holds'
    <2>1. \A t \in Threads \ {p} :
             pc'[t] \in {"idle_dec", "claim", "task", "add_lock"} => pc'[t] = pc[t]
      OBVIOUS
    <2>2. ASSUME NEW t \in Threads
          PROVE  /\ pc'[t] \in {"idle_dec", "claim"} => task'[t] # NULL
                 /\ pc'[t] \in {"task", "add_lock"} => task'[t] \notin {NULL, Manager}
      <3>1. CASE t = p BY <3>1 DEF UserPCs
      <3>2. CASE t # p BY <2>1, <3>2 DEF Holds
      <3> QED BY <3>1, <3>2
    <2> QED BY <2>2 DEF Holds
  <1>4. Starting' BY DEF Starting, Building
  <1>5. Counted'
    <2>1. Adding' <=> Adding BY DEF Adding
    <2>2. Removing' <=> Removing BY DEF Removing
    <2> QED BY <2>1, <2>2 DEF Counted, Members
  <1>6. Loaded'
    <2>1. \A q \in Procs \ {p} : pc'[q] \in {"reg_store", "d_nstore"} => pc'[q] = pc[q]
      OBVIOUS
    <2> QED BY <2>1 DEF Loaded
  <1>7. Linked' BY DEF Linked, Listed, Members
  <1>8. NoCycle' BY DEF NoCycle, Members
  <1>9. Spared' BY DEF Spared
  <1>10. Cancelled'
    <2> SUFFICES ASSUME NEW u \in Threads
                 PROVE  /\ pc'[u] \in DeadPCs => cancel'[u]
                        /\ cancel'[u] => \/ freed[u]
                                        \/ \E t \in Threads : /\ pc'[t] \in BoundPCs
                                                              /\ ptr'[t] = u
                        /\ freed[u] \/ pc'[u] = "none" => u \notin Members
      BY DEF Cancelled, Members, BoundPCs
    <2>1. pc'[u] \in DeadPCs => cancel'[u]
      <3>1. CASE u = p BY <3>1
      <3>2. CASE u # p BY <3>2 DEF Cancelled
      <3> QED BY <3>1, <3>2
    <2>2. freed[u] \/ pc'[u] = "none" => u \notin Members BY DEF Cancelled
    <2>3. ASSUME NEW t \in Threads, pc[t] \in BoundPCs, ptr[t] = u
          PROVE  pc'[t] \in BoundPCs /\ ptr'[t] = u
      <3>1. CASE t = p BY <2>3, <3>1
      <3>2. CASE t # p BY <2>3, <3>2 DEF BoundPCs
      <3> QED BY <3>1, <3>2
    <2> QED BY <2>1, <2>2, <2>3 DEF Cancelled, BoundPCs
  <1>11. Fresh'
    <2> SUFFICES ASSUME NEW q \in Procs, pc'[q] = "reg_link"
                 PROVE  /\ ptr'[q] \in Threads \ Members
                        /\ ~freed[ptr'[q]] /\ pc'[ptr'[q]] # "none"
                        /\ \A r \in Procs : pc'[r] = "reg_link" /\ q # r
                                            => ptr'[q] # ptr'[r]
      BY DEF Fresh, Members
    <2>1. \A r \in Procs \ {p} :
             pc'[r] = "reg_link" => pc[r] = "reg_link" /\ ptr'[r] = ptr[r]
      OBVIOUS
    <2>2. \A u \in Threads : pc[u] # "none" => pc'[u] # "none"
      OBVIOUS
    <2>3. \A r \in Procs \ {p} :
             pc'[r] = "reg_link" => ptr[r] \in Threads \ Members /\ ~freed[ptr[r]]
                                    /\ pc[ptr[r]] # "none"
      BY <2>1 DEF Fresh
    <2>4. q = p => ~freed[ptr'[q]]
      BY DEF Spared
    <2>5. /\ ~freed[ptr'[q]] /\ pc'[ptr'[q]] # "none" /\ ptr'[q] \in Threads \ Members
      <3>1. CASE q = p BY <2>4, <3>1
      <3>2. CASE q # p
        <4>1. ptr'[q] = ptr[q] BY <2>1, <3>2
        <4>2. ptr[q] \in Threads \ Members /\ ~freed[ptr[q]] /\ pc[ptr[q]] # "none"
          BY <2>3, <3>2
        <4> QED BY <2>2, <4>1, <4>2
      <3> QED BY <3>1, <3>2
    <2>6. ASSUME NEW r \in Procs, pc'[r] = "reg_link", q # r PROVE ptr'[q] # ptr'[r]
      <3>1. CASE q # p /\ r # p BY <2>1, <2>6, <3>1 DEF Fresh
      <3>2. CASE q = p \/ r = p BY <2>1, <2>3, <2>6, <3>2
      <3> QED BY <3>1, <3>2
    <2> QED BY <2>5, <2>6
  <1> QED BY <1>1, <1>2, <1>3, <1>4, <1>5, <1>6, <1>7, <1>8, <1>9, <1>10, <1>11

\* A still step keeps Service
LEMMA StillServes ==
    ASSUME PoolInv, Service, NEW p \in Procs, NEW l, Still(p, l)
    PROVE  Service'
  <1> USE ProcFacts
      DEF PoolInv, PCTypeOK, DataTypeOK, Service, Control, Numbers, Chain, Fates
  <1>1. \A t \in Threads :
           pc'[t] \in AddPCs \cup DeletingPCs \cup {"m_create_idle"}
               => pc'[t] = pc[t] /\ UNCHANGED <<ptr[t], nb[t]>>
    <2> SUFFICES ASSUME NEW t \in Threads,
                        pc'[t] \in AddPCs \cup DeletingPCs \cup {"m_create_idle"}
                 PROVE  pc'[t] = pc[t] /\ UNCHANGED <<ptr[t], nb[t]>>
      OBVIOUS
    <2>1. t # p BY DEF Still, Steady, Stirs
    <2>2. pc'[t] = pc[t] \/ Stirred(t) BY <2>1 DEF Still, Steady, Stirs
    <2>3. pc'[t] = pc[t] BY <2>2 DEF Stirred, AddPCs, DelPCs, DeletingPCs
    <2> QED BY <2>1, <2>3 DEF Still, Steady
  <1>2. /\ UNCHANGED <<thread_num, nxt, prv, freed>> /\ Members' = Members
        /\ Building' => Building
    BY DEF Still, Steady, Stirs, Members, Building, AddPCs
  <1>3. Ceiling <= Ceiling' /\ Ceiling \in Nat /\ Ceiling' \in Nat
    BY <1>2 DEF Ceiling
  <1>4. Limits'
    BY <1>1, <1>2, <1>3 DEF Limits, DeletingPCs
  <1>5. \A u \in Threads : pc[u] = "joined" => pc'[u] = "joined"
    BY DEF Still, Steady, Stirs, Stirred
  <1>6. Victim'
    <2> SUFFICES ASSUME NEW t \in Threads, pc'[t] \in DelPCs
                 PROVE  /\ ptr'[t] \in Threads /\ ~freed'[ptr'[t]]
                        /\ ptr'[t] \in Members <=> pc'[t] \in ListedPCs
                        /\ pc'[t] \in JoinedPCs => pc'[ptr'[t]] = "joined"
                        /\ pc'[t] = "d_relink"
                              => nb'[t] = <<prv'[ptr'[t]], nxt'[ptr'[t]]>>
      BY <1>2 DEF Victim, JoinedPCs, DelPCs
    <2>1. pc'[t] = pc[t] /\ UNCHANGED <<ptr[t], nb[t]>>
      BY <1>1 DEF DeletingPCs
    <2> QED BY <1>2, <1>5, <2>1 DEF Victim
  <1>7. Search'
    BY <1>1, <1>2 DEF Search, DeletingPCs
  <1> QED BY <1>4, <1>6, <1>7, SteadyServes DEF Still

-----------------------------------------------------------------------------
(* The manager's steady steps *)

\* What the invariant says of the manager t at control point l, after a steady step
MayGo(t, l) ==
    /\ l \in AddPCs => thread_num < Ceiling
    /\ l = "m_create_idle" => ~Building /\ thread_num < THREAD_NUM_MAX
    /\ l \in DeletingPCs => ~Building
    /\ l \in DeletingPCs \ CountedPCs => thread_num > THREAD_NUM_MIN
    /\ l \in {"m_next", "m_recheck"} => ptr'[t] \in Members
    /\ l = "m_scan" => \/ nb'[t][2] \in Members
                       \/ nb'[t][2] = ListHead /\ ptr'[t] \in Members
    /\ l \in DelPCs =>
         /\ ptr'[t] \in Threads /\ ~freed[ptr'[t]]
         /\ ptr'[t] \in Members <=> l \in ListedPCs
    /\ l \in JoinedPCs => pc'[ptr'[t]] = "joined"
    /\ l = "d_relink" => nb'[t] = <<prv[ptr'[t]], nxt[ptr'[t]]>>

\* A steady step of the manager keeps Service if the manager may go where it goes
LEMMA ManagerServes ==
    ASSUME PoolInv, Service, NEW t \in Threads, NEW l, Steady(t, l), MayGo(t, l)
    PROVE  Service'
  <1> USE ProcFacts DEF PoolInv, PCTypeOK, DataTypeOK, Service, Numbers, Chain, Fates
  <1>1. /\ UNCHANGED <<thread_num, nxt, prv, freed>> /\ pc'[t] = l
        /\ Members' = Members /\ (Building' <=> Building)
    BY DEF Steady, Stirs, Members, Building, AddPCs, MainPhase, Control
  <1>2. \A u \in Threads \ {t} :
           pc'[u] \in AddPCs \cup DeletingPCs \cup {"m_create_idle"}
               => pc'[u] = pc[u] /\ UNCHANGED <<ptr[u], nb[u]>>
    <2> SUFFICES ASSUME NEW u \in Threads \ {t},
                        pc'[u] \in AddPCs \cup DeletingPCs \cup {"m_create_idle"}
                 PROVE  pc'[u] = pc[u] /\ UNCHANGED <<ptr[u], nb[u]>>
      OBVIOUS
    <2>1. pc'[u] = pc[u] \/ Stirred(u) BY DEF Steady, Stirs
    <2>2. pc'[u] = pc[u] BY <2>1 DEF Stirred, AddPCs, DelPCs, DeletingPCs
    <2> QED BY <2>2 DEF Steady
  <1>3. \A u \in Threads : pc[u] = "joined" => pc'[u] = "joined"
    BY DEF Steady, Stirs, Stirred
  <1>4. Limits'
    <2>1. Ceiling' = Ceiling BY <1>1 DEF Ceiling
    <2> QED BY <1>1, <1>2, <2>1 DEF Limits, DeletingPCs, MayGo
  <1>5. Victim'
    <2> SUFFICES ASSUME NEW u \in Threads, pc'[u] \in DelPCs
                 PROVE  /\ ptr'[u] \in Threads /\ ~freed'[ptr'[u]]
                        /\ ptr'[u] \in Members <=> pc'[u] \in ListedPCs
                        /\ pc'[u] \in JoinedPCs => pc'[ptr'[u]] = "joined"
                        /\ pc'[u] = "d_relink"
                              => nb'[u] = <<prv'[ptr'[u]], nxt'[ptr'[u]]>>
      BY <1>1 DEF Victim, JoinedPCs, DelPCs
    <2>1. CASE u = t BY <1>1, <1>3, <2>1 DEF MayGo
    <2>2. CASE u # t
      <3>1. pc'[u] = pc[u] /\ UNCHANGED <<ptr[u], nb[u]>>
        BY <1>2, <2>2 DEF DeletingPCs
      <3> QED BY <1>1, <1>3, <3>1 DEF Victim
    <2> QED BY <2>1, <2>2
  <1>6. Search'
    BY <1>1, <1>2 DEF Search, DeletingPCs, MayGo
  <1> QED BY <1>4, <1>5, <1>6, SteadyServes

-----------------------------------------------------------------------------
(* The still steps *)

USE DEF PCsOf, MainPCs, ThreadPCs, WorkerPCs, ManagerPCs, AddPCs, DelPCs
USE DEF ExitPCs, DeadPCs

\* Until flag_halt is set the steps of a worker are still
LEMMA WorkerStill ==
    ASSUME PoolInv, RoleInv, OneManager, Service, ~flag_halt, NEW t \in Threads,
           \/ Loop(t) \/ Lock(t) \/ IdleInc(t) \/ Relock(t) \/ SpuriousWakeup(t)
           \/ CancelInWait(t) \/ IdleDec(t) \/ Claim(t) \/ ManagerLoop(t)
           \/ TaskAddCheck(t) \/ Take(t) \/ Finish(t) \/ CancelInTask(t)
    PROVE  Service'
  <1> DEFINE l == pc'[t]
  <1> USE ProcFacts DEF PoolInv, PCTypeOK, DataTypeOK, At
  <1>1. SUFFICES Still(t, l)
    BY StillServes
  <1> USE DEF Still, Steady, Stirs, Stirred, RegPCs, NumPCs, UserPCs, BoundPCs,
              DeletingPCs
  <1>2. CASE Loop(t) BY <1>2 DEF Loop
  <1>3. CASE Lock(t) BY <1>3 DEF Lock
  <1>4. CASE IdleInc(t)
    <2>1. /\ pc[t] = "idle_inc" /\ (Goto(t, "cond_wait") \/ Goto(t, "take"))
          /\ UNCHANGED <<submitted, thread_num, nxt, prv, task, freed, cancel>>
          /\ \A q \in Procs \ {t} : UNCHANGED <<reg[q], ptr[q], nb[q]>>
      BY <1>4 DEF IdleInc, Decide
    <2>2. CASE Goto(t, "cond_wait") BY <2>1, <2>2
    <2>3. CASE Goto(t, "take") BY <2>1, <2>3
    <2> QED BY <2>1, <2>2, <2>3
  <1>5. CASE Relock(t)
    <2>1. /\ pc[t] = "relock" /\ (Goto(t, "cond_wait") \/ Goto(t, "take"))
          /\ UNCHANGED <<submitted, thread_num, nxt, prv, task, freed, cancel>>
          /\ \A q \in Procs \ {t} : UNCHANGED <<reg[q], ptr[q], nb[q]>>
      BY <1>5 DEF Relock, Decide
    <2>2. CASE Goto(t, "cond_wait") BY <2>1, <2>2
    <2>3. CASE Goto(t, "take") BY <2>1, <2>3
    <2> QED BY <2>1, <2>2, <2>3
  <1>6. CASE SpuriousWakeup(t) BY <1>6 DEF SpuriousWakeup
  <1>7. CASE CancelInWait(t) BY <1>7 DEF CancelInWait
  <1>8. CASE IdleDec(t) BY <1>8 DEF IdleDec, Service, Control, Holds
  <1>9. CASE Claim(t) BY <1>9 DEF Claim, Service, Control, Holds
  <1>10. CASE ManagerLoop(t) BY <1>10 DEF ManagerLoop
  <1>11. CASE TaskAddCheck(t) BY <1>11 DEF TaskAddCheck, Service, Control, Holds
  <1>12. CASE Take(t)
    <2>1. task'[t] # NULL /\ pc[t] = "take" /\ Goto(t, "idle_dec")
      BY <1>12 DEF Take, TakeReady, TaskInv, InOrder, CountExact
    <2> QED BY <1>12, <2>1 DEF Take
  <1>13. CASE Finish(t) BY <1>13 DEF Finish
  <1>14. CASE CancelInTask(t)
    <2>1. cancel[t] /\ pc[t] \in {"task", "m_top", "d_join"} /\ Goto(t, "canceled")
      BY <1>14 DEF CancelInTask
    <2>2. PICK u \in Threads : pc[u] \in BoundPCs /\ ptr[u] = t
      BY <2>1 DEF Service, Fates, Cancelled, Spared
    <2>3. pc[t] = "task"
      BY <2>1, <2>2 DEF RoleInv, NotItself, OneManager, ManagingPCs
    <2> QED BY <1>14, <2>1, <2>3 DEF CancelInTask
  <1> QED BY <1>2, <1>3, <1>4, <1>5, <1>6, <1>7, <1>8, <1>9, <1>10, <1>11, <1>12,
             <1>13, <1>14

\* So is the manager's last step
LEMMA SignalStill ==
    ASSUME PoolInv, Service, NEW t \in Threads, ManagerSignal(t)
    PROVE  Service'
  <1> USE ProcFacts DEF PoolInv, PCTypeOK, DataTypeOK, At, ManagerSignal
  <1> DEFINE pcs == [pc EXCEPT ![t] = "m_top"]
  <1>1. \/ \E w \in Waiters : pc' = [pcs EXCEPT ![w] = "relock"]
        \/ pc' = pcs
    BY DEF Signalled
  <1>2. Stirs(t, "m_top")
    BY <1>1, SignalStirs, MoveStirs
  <1>3. \A q \in Threads : pc[q] \in {"exited", "canceled"} => pc'[q] = pc[q]
    BY <1>1 DEF Waiters
  <1>4. Still(t, "m_top")
    BY <1>2, <1>3 DEF Still, Steady, RegPCs, NumPCs, UserPCs, BoundPCs, DeletingPCs
  <1> QED BY <1>4, StillServes

\* So are Main's steps that do not add a thread
LEMMA MainStill ==
    ASSUME PoolInv, Service, ~flag_halt,
           \/ TaskAddCheck(Main) \/ Delete \/ CreateFails(Main)
           \/ Load(Main, "reg_load", "reg_store", thread_num)
    PROVE  Service'
  <1> DEFINE l == pc'[Main]
  <1> USE ProcFacts DEF PoolInv, PCTypeOK, DataTypeOK, At
  <1>1. SUFFICES Still(Main, l)
    BY StillServes
  <1> USE DEF Still, Steady, Stirs, Stirred, RegPCs, NumPCs, UserPCs, BoundPCs,
              DeletingPCs
  <1>2. CASE TaskAddCheck(Main) BY <1>2 DEF TaskAddCheck
  <1>3. CASE Delete BY <1>3 DEF Delete
  <1>4. CASE CreateFails(Main) BY <1>4 DEF CreateFails
  <1>5. CASE Load(Main, "reg_load", "reg_store", thread_num) BY <1>5 DEF Load
  <1> QED BY <1>2, <1>3, <1>4, <1>5

\* So is the second half of pool_task_add
LEMMA TaskAddStill ==
    ASSUME PoolInv, Service, NEW p \in Procs, TaskAdd(p)
    PROVE  Service'
  <1> DEFINE l == IF p = Main THEN "ready" ELSE "task"
  <1> USE ProcFacts DEF PoolInv, PCTypeOK, DataTypeOK
  <1>1. /\ pc[p] = "add_lock" /\ pc' \in Signalled([pc EXCEPT ![p] = l])
        /\ UNCHANGED <<thread_num, nxt, prv, task, freed, cancel, reg, ptr, nb>>
    BY DEF At, TaskAdd, TaskAddSignal
  <1>2. Stirs(p, l)
    BY <1>1, SignalStirs
  <1>3. ~Building
    <2>1. CASE p = Main BY <1>1, <2>1 DEF Building
    <2>2. CASE p \in Threads
      <3>1. submitted # 0
        BY <1>1, <2>2 DEF Service, Control, Holds, TaskInv, Taken
      <3> QED BY <3>1 DEF Service, Control, Starting
    <2> QED BY <2>1, <2>2
  <1>4. p \in Threads => task[p] \notin {NULL, Manager}
    BY <1>1 DEF Service, Control, Holds
  <1>5. Still(p, l)
    BY <1>1, <1>2, <1>3, <1>4
    DEF Still, Steady, RegPCs, NumPCs, UserPCs, BoundPCs, DeletingPCs
  <1> QED BY <1>5, StillServes

\* The manager's decisions and its search through the list
LEMMA ManagerSteady ==
    ASSUME PoolInv, RoleInv, OneManager, Service, ~flag_halt, NEW t \in Threads,
           \/ ManagerCreate(t) \/ ManagerCreateIdle(t) \/ ManagerDestroy(t)
           \/ ManagerDestroyIdle(t) \/ Scan(t) \/ ScanNext(t) \/ Recheck(t)
           \/ CreateFails(t)
    PROVE  Service'
  <1> DEFINE l == pc'[t]
             Frame == /\ UNCHANGED <<submitted, thread_num, nxt, prv>>
                      /\ UNCHANGED <<task, freed, cancel, reg>>
                      /\ \A q \in Procs \ {t} : UNCHANGED <<ptr[q], nb[q]>>
                      /\ Goto(t, l)
  <1> USE ProcFacts DEF PoolInv, PCTypeOK, DataTypeOK
  <1> SUFFICES Steady(t, l) /\ MayGo(t, l)
    BY ManagerServes
  <1>1. ASSUME Frame, pc[t] \in ManagerPCs \cup {"create"},
               l \in (ManagerPCs \ {"m_top"}) \cup {"create", "d_cancel"}
        PROVE  Steady(t, l)
    <2>1. l \in PCsOf(t)
      BY <1>1
    <2>2. Stirs(t, l)
      BY <1>1, <2>1, MoveStirs
    <2> QED BY <1>1, <2>2 DEF Steady, RegPCs, NumPCs, UserPCs, BoundPCs
  <1>2. CASE ManagerCreate(t)
    <2>1. Frame /\ pc[t] = "m_create" BY <1>2 DEF ManagerCreate, At, StartsCreate
    <2>2. \/ l = "create" /\ thread_num < THREAD_NUM_MIN
          \/ l = "m_create_idle" /\ list_task # <<>> /\ thread_num < THREAD_NUM_MAX
          \/ l = "m_destroy"
      BY <1>2, <2>1 DEF ManagerCreate, At, StartsCreate, BelowMax
    <2>3. list_task # <<>> => ~Building
      BY <2>1 DEF Service, Control, Starting, TaskInv, Taken, RoleInv, ManagerBusy,
                  ManagingPCs
    <2>4. thread_num < THREAD_NUM_MIN => thread_num < Ceiling
      BY DEF Ceiling
    <2>5. MayGo(t, l)
      BY <2>2, <2>3, <2>4 DEF MayGo, DeletingPCs, JoinedPCs
    <2> QED BY <1>1, <2>1, <2>2, <2>5
  <1>3. CASE ManagerCreateIdle(t)
    <2>1. Frame /\ pc[t] = "m_create_idle" /\ l \in {"create", "m_destroy"}
      BY <1>3 DEF ManagerCreateIdle, At, StartsCreate
    <2>2. MayGo(t, l)
      BY <2>1 DEF MayGo, DeletingPCs, JoinedPCs, Service, Numbers, Limits, Ceiling
    <2> QED BY <1>1, <2>1, <2>2
  <1>4. ASSUME pc[t] \in {"m_destroy", "m_destroy_idle"}, thread_num > THREAD_NUM_MIN
        PROVE  ~Building /\ nxt[ListHead] \in Members
    <2>1. ~Building
      BY <1>4 DEF Service, Numbers, Limits, Ceiling
    <2>2. nxt[ListHead] \in Members
      BY <1>4, ListNotEmpty DEF Service, Numbers, Chain
    <2> QED BY <2>1, <2>2
  <1>5. CASE ManagerDestroy(t)
    <2>1. Frame /\ pc[t] = "m_destroy"
      BY <1>5 DEF ManagerDestroy, At, StartsDestroy
    <2>2. \/ l = "m_scan" /\ thread_num > THREAD_NUM_MIN /\ nb'[t][2] = nxt[ListHead]
          \/ l = "m_destroy_idle" /\ thread_num > THREAD_NUM_MIN
          \/ l = "m_signal"
      <3>1. CASE StartsDestroy(t) /\ AboveMin
        BY <2>1, <3>1 DEF StartsDestroy, AboveMin
      <3>2. CASE Goto(t, "m_destroy_idle") /\ AboveMin
        BY <2>1, <3>2 DEF AboveMin
      <3>3. CASE Goto(t, "m_signal")
        BY <2>1, <3>3
      <3> QED BY <1>5, <3>1, <3>2, <3>3 DEF ManagerDestroy
    <2>3. MayGo(t, l)
      BY <1>4, <2>1, <2>2 DEF MayGo, DeletingPCs, JoinedPCs
    <2> QED BY <1>1, <2>1, <2>2, <2>3
  <1>6. CASE ManagerDestroyIdle(t)
    <2>1. Frame /\ pc[t] = "m_destroy_idle"
      BY <1>6 DEF ManagerDestroyIdle, At, StartsDestroy
    <2>2. \/ l = "m_scan" /\ nb'[t][2] = nxt[ListHead]
          \/ l = "m_signal"
      <3>1. CASE StartsDestroy(t)
        BY <2>1, <3>1 DEF StartsDestroy
      <3>2. CASE Goto(t, "m_signal")
        BY <2>1, <3>2
      <3> QED BY <1>6, <3>1, <3>2 DEF ManagerDestroyIdle
    <2>3. thread_num > THREAD_NUM_MIN
      BY <2>1 DEF Service, Numbers, Limits, DeletingPCs, CountedPCs
    <2>4. MayGo(t, l)
      BY <1>4, <2>1, <2>2, <2>3 DEF MayGo, DeletingPCs, JoinedPCs
    <2> QED BY <1>1, <2>1, <2>2, <2>4
  <1>7. ASSUME pc[t] \in {"m_scan", "m_next", "m_recheck"}
        PROVE  ~Building /\ thread_num > THREAD_NUM_MIN
    BY <1>7 DEF Service, Numbers, Limits, DeletingPCs, CountedPCs
  <1>8. CASE Scan(t)
    <2>1. Frame /\ pc[t] = "m_scan"
      BY <1>8 DEF Scan, At
    <2>2. /\ l \in {"m_recheck", "m_next"}
          /\ \/ l = "m_recheck" /\ nb[t][2] = ListHead /\ ptr' = ptr
             \/ nb[t][2] # ListHead /\ ptr'[t] = nb[t][2]
      BY <1>8, <2>1 DEF Scan, At
    <2>3. ptr'[t] \in Members
      BY <2>1, <2>2 DEF Service, Fates, Search, Members
    <2>4. MayGo(t, l)
      BY <1>7, <2>1, <2>2, <2>3 DEF MayGo, DeletingPCs, JoinedPCs
    <2> QED BY <1>1, <2>1, <2>2, <2>4
  <1>9. CASE ScanNext(t)
    <2>1. Frame /\ pc[t] = "m_next" /\ l = "m_scan" /\ ptr' = ptr
      BY <1>9 DEF ScanNext, At
    <2>2. nb'[t][2] = nxt[ptr[t]]
      BY <1>9 DEF ScanNext
    <2>3. ptr[t] \in Members
      BY <2>1 DEF Service, Fates, Search
    <2>4. nb'[t][2] \in Members \cup {ListHead}
      BY <2>2, <2>3 DEF Service, Chain, Linked, Listed
    <2>5. MayGo(t, l)
      BY <1>7, <2>1, <2>3, <2>4 DEF MayGo, DeletingPCs, JoinedPCs
    <2> QED BY <1>1, <2>1, <2>5
  <1>10. CASE Recheck(t)
    <2>1. Frame /\ pc[t] = "m_recheck"
      BY <1>10 DEF Recheck, At, DelReturns
    <2>2. \/ l = "d_cancel" /\ ptr' = ptr
          \/ l = "m_signal"
      BY <1>10, <2>1 DEF Recheck, At, DelReturns
    <2>3. ptr[t] \in Threads /\ ptr[t] \in Members /\ ~freed[ptr[t]]
      BY <2>1 DEF Service, Fates, Search, Cancelled, Members
    <2>4. MayGo(t, l)
      BY <1>7, <2>1, <2>2, <2>3 DEF MayGo, DeletingPCs, JoinedPCs
    <2> QED BY <1>1, <2>1, <2>2, <2>4
  <1>11. CASE CreateFails(t)
    <2>1. Frame /\ pc[t] = "create" /\ l = "m_destroy"
      BY <1>11 DEF CreateFails, At, AddReturns
    <2>2. MayGo(t, l)
      BY <2>1 DEF MayGo, DeletingPCs, JoinedPCs
    <2> QED BY <1>1, <2>1, <2>2
  <1> QED BY <1>2, <1>3, <1>5, <1>6, <1>8, <1>9, <1>10, <1>11

\* The steps of thread_del that leave the list and thread_num alone
LEMMA DeleteSteady ==
    ASSUME PoolInv, RoleInv, OneManager, Service, NEW t \in Threads,
           \/ Cancel(t) \/ Join(t)
           \/ Unlink(t, ptr[t], "d_unlink", "d_relink")
           \/ Load(t, "d_nload", "d_nstore", thread_num)
           \/ Load(t, "d_iload", "d_istore", idle_thread_num)
           \/ IdleStore(t, "d_istore", "d_free")
    PROVE  Service'
  <1> DEFINE l == pc'[t]
             Frame == /\ UNCHANGED <<submitted, thread_num, nxt, prv, task, freed>>
                      /\ \A q \in Procs \ {t} : UNCHANGED <<reg[q], ptr[q], nb[q]>>
                      /\ ptr' = ptr
             Quietly == cancel' = cancel /\ Goto(t, l)
             Number == l = "d_nstore" => reg'[t] = thread_num
  <1> USE ProcFacts DEF PoolInv, PCTypeOK, DataTypeOK
  <1> SUFFICES Steady(t, l) /\ MayGo(t, l)
    BY ManagerServes
  <1>1. ASSUME Frame, Quietly, Number, pc[t] \in BoundPCs, l \in BoundPCs,
               pc[t] \in NumPCs <=> l \in NumPCs
        PROVE  Steady(t, l)
    <2>1. Stirs(t, l)
      BY <1>1, MoveStirs DEF BoundPCs
    <2> QED BY <1>1, <2>1 DEF Steady, UserPCs, BoundPCs, RegPCs
  <1>2. pc[t] \in DelPCs =>
          /\ ~Building /\ ptr[t] \in Threads \ {t} /\ ~freed[ptr[t]]
          /\ pc[t] \notin CountedPCs => thread_num > THREAD_NUM_MIN
          /\ ptr[t] \in Members <=> pc[t] \in ListedPCs
          /\ pc[t] \in JoinedPCs => pc[ptr[t]] = "joined"
    BY DEF Service, Numbers, Fates, Limits, Victim, DeletingPCs, JoinedPCs, CountedPCs,
           RoleInv, NotItself
  <1>3. CASE Cancel(t)
    <2>1. /\ Frame /\ pc[t] = "d_cancel" /\ cancel' = [cancel EXCEPT ![ptr[t]] = TRUE]
          /\ Goto(t, JoinEntered(ptr[t])) /\ reg' = reg
      BY <1>3 DEF Cancel, At, RequestCancel
    <2>2. l = "d_join" /\ Goto(t, "d_join")
      BY <2>1 DEF JoinEntered, OneManager, ManagingPCs, Service, Control, MainPhase
    <2>3. Stirs(t, l)
      BY <2>2, MoveStirs
    <2>4. \A u \in Threads : cancel'[u] = cancel[u] \/ (cancel'[u] /\ u = ptr'[t])
      BY <1>2, <2>1
    <2>5. Steady(t, l)
      BY <2>1, <2>2, <2>3, <2>4 DEF Steady, UserPCs, BoundPCs, RegPCs, NumPCs
    <2>6. MayGo(t, l)
      BY <1>2, <2>1, <2>2 DEF MayGo, DeletingPCs, JoinedPCs, CountedPCs
    <2> QED BY <2>5, <2>6
  <1>4. CASE Join(t)
    <2>1. /\ Frame /\ pc[t] = "d_join" /\ cancel' = cancel /\ reg' = reg
          /\ pc[ptr[t]] \in {"exited", "canceled"}
          /\ pc' = [pc EXCEPT ![t] = "d_unlink", ![ptr[t]] = "joined"]
      BY <1>4 DEF Join, At
    <2>2. l = "d_unlink" /\ Stirs(t, l)
      BY <1>2, <2>1 DEF Stirs, Stirred
    <2>3. Steady(t, l)
      BY <1>2, <2>1, <2>2 DEF Steady, UserPCs, BoundPCs, RegPCs, NumPCs
    <2>4. MayGo(t, l)
      BY <1>2, <2>1, <2>2 DEF MayGo, DeletingPCs, JoinedPCs, CountedPCs
    <2> QED BY <2>3, <2>4
  <1>5. CASE Unlink(t, ptr[t], "d_unlink", "d_relink")
    <2>1. /\ Frame /\ Quietly /\ pc[t] = "d_unlink" /\ l = "d_relink"
          /\ nb'[t] = <<prv[ptr[t]], nxt[ptr[t]]>>
      BY <1>5 DEF Unlink, At
    <2>2. MayGo(t, l)
      BY <1>2, <2>1 DEF MayGo, DeletingPCs, JoinedPCs, CountedPCs
    <2> QED BY <1>1, <2>1, <2>2 DEF BoundPCs, NumPCs
  <1>6. CASE Load(t, "d_nload", "d_nstore", thread_num)
    <2>1. /\ Frame /\ Quietly /\ pc[t] = "d_nload" /\ l = "d_nstore"
          /\ reg'[t] = thread_num
      BY <1>6 DEF Load, At
    <2>2. MayGo(t, l)
      BY <1>2, <2>1 DEF MayGo, DeletingPCs, JoinedPCs, CountedPCs
    <2> QED BY <1>1, <2>1, <2>2 DEF BoundPCs, NumPCs
  <1>7. CASE Load(t, "d_iload", "d_istore", idle_thread_num)
    <2>1. Frame /\ Quietly /\ pc[t] = "d_iload" /\ l = "d_istore"
      BY <1>7 DEF Load, At
    <2>2. MayGo(t, l)
      BY <1>2, <2>1 DEF MayGo, DeletingPCs, JoinedPCs, CountedPCs
    <2> QED BY <1>1, <2>1, <2>2 DEF BoundPCs, NumPCs
  <1>8. CASE IdleStore(t, "d_istore", "d_free")
    <2>1. Frame /\ Quietly /\ pc[t] = "d_istore" /\ l = "d_free"
      BY <1>8 DEF IdleStore, At
    <2>2. MayGo(t, l)
      BY <1>2, <2>1 DEF MayGo, DeletingPCs, JoinedPCs, CountedPCs
    <2> QED BY <1>1, <2>1, <2>2 DEF BoundPCs, NumPCs
  <1> QED BY <1>3, <1>4, <1>5, <1>6, <1>7, <1>8

\* A thread that is just created is not listed
LEMMA CreateSteady ==
    ASSUME PoolInv, Service, NEW p \in Procs, Create(p)
    PROVE  Service'
  <1> USE ProcFacts DEF PoolInv, PCTypeOK, DataTypeOK
  <1>1. PICK u \in Threads : /\ pc[u] = "none" /\ ptr' = [ptr EXCEPT ![p] = u]
                             /\ pc' = [pc EXCEPT ![p] = "reg_link", ![u] = "loop"]
    BY DEF Create
  <1>2. /\ pc[p] = "create" /\ p # u
        /\ UNCHANGED <<submitted, thread_num, nxt, prv, task, freed, cancel, reg, nb>>
    BY <1>1 DEF Create, At
  <1>3. Stirs(p, "reg_link")
    BY <1>1, <1>2 DEF Stirs, Stirred
  <1>4. u \notin Members
    BY <1>1 DEF Service, Fates, Cancelled
  <1>5. Steady(p, "reg_link")
    BY <1>1, <1>2, <1>3, <1>4 DEF Steady, UserPCs, BoundPCs, RegPCs, NumPCs
  <1>6. CASE p = Main
    BY <1>5, <1>6, StillServes DEF Still
  <1>7. CASE p \in Threads
    <2>1. MayGo(p, "reg_link")
      BY <1>2, <1>7 DEF MayGo, DeletingPCs, JoinedPCs, Service, Numbers, Limits
    <2> QED BY <1>5, <1>7, <2>1, ManagerServes
  <1> QED BY <1>6, <1>7

\* The manager loads thread_num to count its new thread
LEMMA RegLoadSteady ==
    ASSUME PoolInv, Service, NEW t \in Threads,
           Load(t, "reg_load", "reg_store", thread_num)
    PROVE  Service'
  <1> USE ProcFacts DEF PoolInv, PCTypeOK, DataTypeOK, Load, At
  <1>1. Stirs(t, "reg_store")
    BY MoveStirs
  <1>2. Steady(t, "reg_store")
    BY <1>1 DEF Steady, UserPCs, BoundPCs, RegPCs, NumPCs
  <1>3. MayGo(t, "reg_store")
    BY DEF MayGo, DeletingPCs, JoinedPCs, Service, Numbers, Limits
  <1> QED BY <1>2, <1>3, ManagerServes

-----------------------------------------------------------------------------
(* The steps that change the list, thread_num or freed *)

\* thread_del takes its victim out of thread_num
LEMMA NumStoreServes ==
    ASSUME PoolInv, RoleInv, OneManager, Service, NEW t \in Threads,
           NumStore(t, "d_nstore",
                    IF state[ptr[t]] = "IDLE" THEN "d_iload" ELSE "d_free")
    PROVE  Service'
  <1> DEFINE l == IF state[ptr[t]] = "IDLE" THEN "d_iload" ELSE "d_free"
  <1> USE ProcFacts DEF PoolInv, PCTypeOK, DataTypeOK, Service, Control, Numbers, Chain,
                        Fates
  <1>1. /\ pc[t] = "d_nstore" /\ Goto(t, l) /\ thread_num' = reg[t] - 1
        /\ \A q \in Procs \ {t} : reg'[q] = reg[q]
        /\ UNCHANGED <<submitted, nxt, prv, task, freed, cancel, ptr, nb>>
    BY DEF NumStore, NumLess, At
  <1> HIDE DEF l
  <1>2. l \in {"d_iload", "d_free"}
    BY DEF l
  <1>3. /\ thread_num' = thread_num - 1 /\ ~Building
        /\ \A u \in Threads \ {t} : pc[u] \notin ManagingPCs
    BY <1>1 DEF Loaded, Limits, DeletingPCs, OneManager, ManagingPCs
  <1>4. /\ pc'[t] = l /\ \A q \in Procs \ {t} : pc'[q] = pc[q]
        /\ \A u \in Threads \ {t} : pc'[u] \notin ManagingPCs
        /\ Members' = Members /\ ~Building'
    BY <1>1, <1>2, <1>3 DEF Members, Building
  <1>5. Control'
    BY <1>1, <1>2, <1>4 DEF MainPhase, NoExit, Holds, Starting
  <1>6. Limits'
    BY <1>2, <1>3, <1>4
    DEF Limits, Ceiling, DeletingPCs, CountedPCs, ManagingPCs
  <1>7. Counted'
    <2>1. Adding' <=> Adding BY <1>1, <1>2, <1>4 DEF Adding
    <2>2. Removing BY <1>1 DEF Removing
    <2>3. ~Removing' BY <1>2, <1>4 DEF Removing, ManagingPCs
    <2> QED BY <1>3, <1>4, <2>1, <2>2, <2>3, MembersFinite DEF Counted
  <1>8. Loaded'
    BY <1>1, <1>2, <1>3, <1>4
    DEF Loaded, ManagingPCs, MainPhase, Building
  <1>9. Chain'
    BY <1>1, <1>4 DEF Linked, Listed, NoCycle
  <1>10. Spared' /\ Cancelled'
    BY <1>1, <1>2, <1>4 DEF Spared, Cancelled, BoundPCs
  <1>11. Victim'
    BY <1>1, <1>2, <1>4 DEF Victim, JoinedPCs, ManagingPCs
  <1>12. Search' /\ Fresh'
    BY <1>1, <1>2, <1>4 DEF Search, Fresh, ManagingPCs
  <1> QED BY <1>5, <1>6, <1>7, <1>8, <1>9, <1>10, <1>11, <1>12

\* thread_del frees its victim
LEMMA DelFreeServes ==
    ASSUME PoolInv, RoleInv, OneManager, Service, NEW t \in Threads, DelFree(t)
    PROVE  Service'
  <1> USE ProcFacts DEF PoolInv, PCTypeOK, DataTypeOK, Service, Control, Numbers, Chain,
                        Fates
  <1> DEFINE v == ptr[t]
  <1>1. /\ pc[t] = "d_free" /\ Goto(t, "m_signal")
        /\ freed' = [freed EXCEPT ![v] = TRUE] /\ task' = [task EXCEPT ![v] = NULL]
        /\ \A q \in Procs \ {t} : ptr'[q] = ptr[q]
        /\ UNCHANGED <<submitted, thread_num, nxt, prv, cancel, reg, nb>>
    BY DEF DelFree, DelReturns, At
  <1>2. v \in Threads \ {t} /\ pc[v] = "joined" /\ v \notin Members
    BY <1>1 DEF Victim, JoinedPCs, RoleInv, NotItself
  <1> HIDE DEF v
  <1>3. ~Building /\ \A u \in Threads \ {t} : pc[u] \notin ManagingPCs
    BY <1>1 DEF Limits, DeletingPCs, OneManager, ManagingPCs
  <1>4. /\ pc'[t] = "m_signal" /\ \A q \in Procs \ {t} : pc'[q] = pc[q]
        /\ \A u \in Threads \ {t} : pc'[u] \notin ManagingPCs
        /\ Members' = Members /\ ~Building'
    BY <1>1, <1>3 DEF Members, Building
  <1>5. Control'
    BY <1>1, <1>2, <1>4 DEF MainPhase, NoExit, Holds, Starting
  <1>6. Limits'
    BY <1>1, <1>3, <1>4 DEF Limits, Ceiling, DeletingPCs, ManagingPCs
  <1>7. Counted'
    <2>1. Adding' <=> Adding BY <1>1, <1>4 DEF Adding
    <2>2. Removing' <=> Removing BY <1>1, <1>4 DEF Removing
    <2> QED BY <1>1, <1>4, <2>1, <2>2 DEF Counted
  <1>8. Loaded'
    BY <1>1, <1>4 DEF Loaded
  <1>9. Chain'
    BY <1>1, <1>4 DEF Linked, Listed, NoCycle
  <1>10. Spared'
    BY <1>1, <1>2, <1>4 DEF Spared
  <1>11. Cancelled'
    <2> SUFFICES ASSUME NEW u \in Threads
                 PROVE  /\ pc'[u] \in DeadPCs => cancel[u]
                        /\ cancel[u] => \/ freed'[u]
                                        \/ \E s \in Threads : /\ pc'[s] \in BoundPCs
                                                              /\ ptr'[s] = u
                        /\ freed'[u] \/ pc'[u] = "none" => u \notin Members
      BY <1>1, <1>4 DEF Cancelled, BoundPCs
    <2>1. CASE u = v
      BY <1>1, <1>2, <1>4, <2>1 DEF Cancelled
    <2>2. CASE u # v
      <3>1. freed'[u] = freed[u] BY <1>1, <2>2
      <3>2. ASSUME NEW s \in Threads, pc[s] \in BoundPCs, ptr[s] = u
            PROVE  pc'[s] \in BoundPCs /\ ptr'[s] = u
        BY <1>1, <1>4, <2>2, <3>2 DEF v
      <3>3. cancel[u] => freed[u] \/ \E s \in Threads : pc[s] \in BoundPCs /\ ptr[s] = u
        BY DEF Cancelled, BoundPCs
      <3>4. pc'[u] \in DeadPCs => cancel[u]
        BY <1>1, <1>4 DEF Cancelled
      <3>5. freed[u] \/ pc'[u] = "none" => u \notin Members
        BY <1>1, <1>4 DEF Cancelled
      <3> QED BY <3>1, <3>2, <3>3, <3>4, <3>5
    <2> QED BY <2>1, <2>2
  <1>12. Victim' /\ Search'
    BY <1>1, <1>4 DEF Victim, Search, JoinedPCs, ManagingPCs
  <1>13. Fresh'
    BY <1>1, <1>4 DEF Fresh, ManagingPCs, Building
  <1> QED BY <1>5, <1>6, <1>7, <1>8, <1>9, <1>10, <1>11, <1>12, <1>13

\* thread_add counts the thread it listed
LEMMA RegisteredServes ==
    ASSUME PoolInv, RoleInv, OneManager, Service, NEW p \in Procs, Registered(p)
    PROVE  Service'
  <1> USE ProcFacts DEF PoolInv, PCTypeOK, DataTypeOK, Service, Control, Numbers, Chain,
                        Fates
  <1> DEFINE l == AddReturns(p)
  <1>1. /\ pc[p] = "reg_store" /\ Goto(p, l) /\ thread_num' = reg[p] + 1
        /\ \A q \in Procs \ {p} : ptr'[q] = ptr[q] /\ reg'[q] = reg[q]
        /\ UNCHANGED <<submitted, nxt, prv, task, freed, cancel, nb>>
    BY DEF Registered, At
  <1>2. l = IF p = Main THEN "ready" ELSE "m_destroy"
    BY DEF AddReturns
  <1> HIDE DEF l
  <1>3. thread_num' = thread_num + 1
    BY <1>1 DEF Loaded
  <1>4. /\ pc'[p] = l /\ \A q \in Procs \ {p} : pc'[q] = pc[q]
        /\ Members' = Members
    BY <1>1, <1>2 DEF Members
  <1>5. \A q \in Procs \ {p} : pc[q] \notin RegPCs
    <2>1. pc[Main] # "crashed" BY DEF MainPhase
    <2> QED BY <1>1, <2>1 DEF MutexHolder, CriticalPCs, RegPCs
  <1>6. \A u \in Threads : pc[u] \notin DelPCs \cup {"m_create_idle"}
    BY <1>1 DEF Limits, OneManager, ManagingPCs, DeletingPCs, Building
  <1>7. \A u \in Threads : pc'[u] \notin DeletingPCs \cup {"m_create_idle"}
    BY <1>1, <1>2, <1>4 DEF Limits, OneManager, ManagingPCs, DeletingPCs, Building
  <1>8. Control'
    BY <1>1, <1>2, <1>4 DEF MainPhase, NoExit, Holds, Starting, Building
  <1>9. Limits'
    <2>1. CASE p = Main
      BY <1>1, <1>2, <1>3, <1>4, <1>7, <2>1 DEF Limits, Ceiling, Building
    <2>2. CASE p \in Threads
      <3>1. Building' <=> Building BY <1>4, <2>2 DEF Building
      <3>2. thread_num < Ceiling BY <1>1, <2>2 DEF Limits
      <3>3. \A u \in Threads : pc'[u] \notin AddPCs
        BY <1>1, <1>2, <1>4, <2>2 DEF OneManager, ManagingPCs
      <3> QED BY <1>3, <1>7, <3>1, <3>2, <3>3 DEF Limits, Ceiling
    <2> QED BY <2>1, <2>2
  <1>10. Counted'
    <2>1. Adding BY <1>1 DEF Adding
    <2>2. ~Adding' BY <1>2, <1>4, <1>5 DEF Adding, RegPCs
    <2>3. Removing' <=> Removing BY <1>1, <1>2, <1>4 DEF Removing
    <2> QED BY <1>3, <1>4, <2>1, <2>2, <2>3, MembersFinite DEF Counted
  <1>11. Loaded'
    BY <1>1, <1>2, <1>4, <1>5, <1>6 DEF Loaded, RegPCs
  <1>12. Chain'
    BY <1>1, <1>4 DEF Linked, Listed, NoCycle
  <1>13. Spared' /\ Cancelled'
    BY <1>1, <1>2, <1>4, <1>6 DEF Spared, Cancelled
  <1>14. Victim' /\ Search'
    BY <1>2, <1>4, <1>6, <1>7 DEF Victim, Search, JoinedPCs, DeletingPCs
  <1>15. Fresh'
    BY <1>1, <1>2, <1>4 DEF Fresh
  <1> QED BY <1>8, <1>9, <1>10, <1>11, <1>12, <1>13, <1>14, <1>15

\* thread_add puts its thread at the end of the list
LEMMA RegisterServes ==
    ASSUME PoolInv, RoleInv, OneManager, Service, NEW p \in Procs, Register(p)
    PROVE  Service'
  <1> USE ProcFacts DEF PoolInv, PCTypeOK, DataTypeOK, Service, Control, Numbers, Chain,
                        Fates
  <1> DEFINE n    == ptr[p]
             last == prv[ListHead]
  <1>1. /\ pc[p] = "reg_link" /\ mutex = NULL /\ Goto(p, "reg_load")
        /\ prv' = [prv EXCEPT ![ListHead] = n, ![n] = last]
        /\ nxt' = [nxt EXCEPT ![n] = ListHead, ![last] = n]
        /\ UNCHANGED <<submitted, thread_num, task, freed, cancel, reg, ptr, nb>>
    BY DEF Register, At
  <1>2. n \in Threads \ Members /\ ~freed[n] /\ pc[n] # "none"
    BY <1>1 DEF Fresh
  <1>3. /\ ListHead \in Listed /\ last \in Listed /\ nxt[last] = ListHead
        /\ Listed \subseteq Nodes
    BY DEF Linked, Listed, Members
  <1>4. \A q \in Procs : pc[q] = "reg_link" /\ q # p => ptr[q] # n
    BY <1>1 DEF Fresh
  <1> HIDE DEF n, last
  <1>5. n # last /\ n # ListHead /\ n \notin Listed /\ ListHead # NULL
    BY <1>2, <1>3 DEF Listed
  <1>6. /\ nxt'[n] = ListHead /\ nxt'[last] = n
        /\ \A m \in Nodes \ {n, last} : nxt'[m] = nxt[m]
        /\ prv'[n] = last /\ prv'[ListHead] = n
        /\ \A m \in Nodes \ {n, ListHead} : prv'[m] = prv[m]
    BY <1>1, <1>2, <1>3, <1>5
  <1>7. Members' = Members \cup {n} /\ Listed' = Listed \cup {n}
    <2>1. \A t \in Threads : nxt'[t] # NULL <=> nxt[t] # NULL \/ t = n
      BY <1>2, <1>3, <1>5, <1>6
    <2>2. Members' = Members \cup {n}
      BY <1>2, <2>1 DEF Members
    <2> QED BY <2>2 DEF Listed
  <1>8. /\ pc'[p] = "reg_load" /\ \A q \in Procs \ {p} : pc'[q] = pc[q]
        /\ Building' <=> Building
    BY <1>1 DEF Building
  <1>9. \A q \in Procs : pc[q] \notin RegPCs
    <2>1. pc[Main] # "crashed" BY DEF MainPhase
    <2> QED BY <1>1, <2>1 DEF MutexHolder, CriticalPCs, RegPCs
  <1>10. \A u \in Threads : pc[u] \notin DelPCs
    BY <1>1 DEF Limits, OneManager, ManagingPCs, DeletingPCs, Building
  <1>11. Control'
    BY <1>1, <1>8 DEF MainPhase, NoExit, Holds, Starting
  <1>12. Limits'
    BY <1>1, <1>8 DEF Limits, Ceiling, DeletingPCs
  <1>13. Counted'
    <2>1. Adding' /\ ~Adding BY <1>8, <1>9 DEF Adding, RegPCs
    <2>2. ~Removing' /\ ~Removing BY <1>8, <1>10 DEF Removing, MainPhase
    <2>3. Cardinality(Members') = Cardinality(Members) + 1
      BY <1>2, <1>7, MembersFinite, FS_AddElement
    <2> QED BY <1>1, <2>1, <2>2, <2>3, MembersFinite DEF Counted
  <1>14. Loaded'
    BY <1>1, <1>8 DEF Loaded
  <1>15. Linked'
    <2> SUFFICES ASSUME NEW m \in Listed \cup {n}
                 PROVE  /\ nxt'[m] \in Listed \cup {n} /\ prv'[m] \in Listed \cup {n}
                        /\ prv'[nxt'[m]] = m /\ nxt'[prv'[m]] = m
      BY <1>7 DEF Linked
    <2>1. CASE m = n BY <1>3, <1>5, <1>6, <2>1
    <2>2. CASE m # n
      <3>1. /\ m \in Listed /\ m \in Nodes /\ nxt[m] \in Listed /\ prv[m] \in Listed
            /\ prv[nxt[m]] = m /\ nxt[prv[m]] = m
        BY <1>3, <2>2 DEF Linked
      <3>2. nxt'[m] \in Listed \cup {n} /\ prv'[nxt'[m]] = m
        <4>1. CASE m = last BY <1>3, <1>5, <1>6, <4>1
        <4>2. CASE m # last
          <5>1. nxt[m] # ListHead BY <3>1, <4>2 DEF last
          <5>2. nxt'[m] = nxt[m] BY <1>6, <2>2, <3>1, <4>2
          <5>3. nxt[m] \in Nodes \ {n, ListHead} BY <1>3, <1>5, <3>1, <5>1
          <5>4. prv'[nxt[m]] = prv[nxt[m]] BY <1>6, <5>3
          <5> QED BY <3>1, <5>2, <5>4
        <4> QED BY <4>1, <4>2
      <3>3. prv'[m] \in Listed \cup {n} /\ nxt'[prv'[m]] = m
        <4>1. CASE m = ListHead BY <1>6, <4>1
        <4>2. CASE m # ListHead
          <5>1. prv[m] # last BY <1>3, <3>1, <4>2
          <5>2. prv'[m] = prv[m] BY <1>6, <2>2, <3>1, <4>2
          <5>3. prv[m] \in Nodes \ {n, last} BY <1>3, <1>5, <3>1, <5>1
          <5>4. nxt'[prv[m]] = nxt[prv[m]] BY <1>6, <5>3
          <5> QED BY <3>1, <5>2, <5>4
        <4> QED BY <4>1, <4>2
      <3> QED BY <3>2, <3>3
    <2> QED BY <2>1, <2>2
  <1>16. NoCycle'
    <2> SUFFICES ASSUME NEW S \in SUBSET (Members \cup {n}), S # {}
                 PROVE  \E t \in S : nxt'[t] \notin S
      BY <1>7 DEF NoCycle
    <2>1. ListHead \notin S /\ S \subseteq Nodes
      BY <1>2 DEF Members
    <2>2. CASE n \in S
      BY <1>6, <2>1, <2>2
    <2>3. CASE n \notin S
      <3>1. PICK t \in S : nxt[t] \notin S
        BY <2>3 DEF NoCycle
      <3> QED BY <1>6, <2>1, <2>3, <3>1
    <2> QED BY <2>2, <2>3
  <1>17. Spared'
    BY <1>1, <1>8 DEF Spared
  <1>18. Cancelled'
    BY <1>1, <1>2, <1>7, <1>8, <1>10 DEF Cancelled
  <1>19. Victim' /\ Search'
    BY <1>1, <1>7, <1>8, <1>10 DEF Victim, Search, JoinedPCs
  <1>20. Fresh'
    BY <1>1, <1>4, <1>7, <1>8 DEF Fresh
  <1> QED BY <1>11, <1>12, <1>13, <1>14, <1>15, <1>16, <1>17, <1>18, <1>19, <1>20

\* What is left when v was taken from between a and b
LEMMA TakenOff ==
    ASSUME NEW v \in Members, NEW a \in Listed, NEW b \in Listed, a # v, b # v,
           DOMAIN nxt = Nodes, DOMAIN prv = Nodes, Listed \subseteq Nodes, NULL \notin Listed,
           prv' = [prv EXCEPT ![b] = a, ![v] = NULL],
           nxt' = [nxt EXCEPT ![a] = b, ![v] = NULL]
    PROVE  /\ nxt'[v] = NULL /\ nxt'[a] = b
           /\ \A m \in Nodes \ {v, a} : nxt'[m] = nxt[m]
           /\ prv'[b] = a /\ \A m \in Nodes \ {v, b} : prv'[m] = prv[m]
           /\ Members' = Members \ {v} /\ Listed' = Listed \ {v}
  <1>1. v \in Threads /\ v \in Nodes /\ a \in Nodes /\ b \in Nodes /\ b # NULL
    BY DEF Members, Listed
  <1>2. /\ nxt'[v] = NULL /\ nxt'[a] = b
        /\ \A m \in Nodes \ {v, a} : nxt'[m] = nxt[m]
        /\ prv'[b] = a /\ \A m \in Nodes \ {v, b} : prv'[m] = prv[m]
    BY <1>1
  <1>3. \A u \in Threads : nxt'[u] # NULL <=> nxt[u] # NULL /\ u # v
    <2>1. a \in Threads => nxt[a] # NULL
      BY ProcFacts DEF Members, Listed
    <2>2. Threads \subseteq Nodes
      BY ProcFacts
    <2> QED BY <1>1, <1>2, <2>1, <2>2
  <1>4. Members' = Members \ {v}
    BY <1>3 DEF Members
  <1>5. v # ListHead
    BY ProcFacts, <1>1 DEF ListHead, Threads, Main
  <1> QED BY <1>2, <1>4, <1>5 DEF Listed

\* thread_del takes its victim off the list
LEMMA RelinkServes ==
    ASSUME PoolInv, RoleInv, OneManager, Service, NEW t \in Threads,
           Relink(t, ptr[t], "d_relink", "d_nload")
    PROVE  Service'
  <1> USE ProcFacts DEF PoolInv, PCTypeOK, DataTypeOK, Service, Control, Numbers, Chain,
                        Fates
  <1> DEFINE v    == ptr[t]
             prev == prv[v]
             next == nxt[v]
  <1>1. /\ pc[t] = "d_relink" /\ Goto(t, "d_nload") /\ nb[t] = <<prev, next>>
        /\ prv' = [prv EXCEPT ![nb[t][2]] = nb[t][1], ![v] = NULL]
        /\ nxt' = [nxt EXCEPT ![nb[t][1]] = nb[t][2], ![v] = NULL]
        /\ UNCHANGED <<submitted, thread_num, task, freed, cancel, reg, ptr>>
    BY DEF Relink, At, Victim
  <1>2. v \in Members /\ v \in Threads /\ ~freed[v] /\ pc[v] = "joined"
    BY <1>1 DEF Victim, JoinedPCs
  <1>3. /\ prev \in Listed /\ next \in Listed /\ nxt[prev] = v /\ prv[next] = v
        /\ Listed \subseteq Nodes /\ v \in Listed /\ NULL \notin Listed
    BY <1>2 DEF Linked, Listed, Members
  <1>4. next # v /\ prev # v
    <2>1. {v} \in SUBSET Members /\ {v} # {} BY <1>2
    <2>2. PICK u \in {v} : nxt[u] \notin {v} BY <2>1 DEF NoCycle
    <2>3. next # v BY <2>2
    <2> QED BY <1>3, <2>3
  <1> HIDE DEF v, prev, next
  <1>5. /\ nxt'[v] = NULL /\ nxt'[prev] = next
        /\ \A m \in Nodes \ {v, prev} : nxt'[m] = nxt[m]
        /\ prv'[next] = prev /\ \A m \in Nodes \ {v, next} : prv'[m] = prv[m]
        /\ Members' = Members \ {v} /\ Listed' = Listed \ {v}
    <2>1. /\ prv' = [prv EXCEPT ![next] = prev, ![v] = NULL]
          /\ nxt' = [nxt EXCEPT ![prev] = next, ![v] = NULL]
      BY <1>1
    <2>2. DOMAIN nxt = Nodes /\ DOMAIN prv = Nodes
      OBVIOUS
    <2> QED BY <1>2, <1>3, <1>4, <2>1, <2>2, TakenOff
  <1>6. Members' = Members \ {v} /\ Listed' = Listed \ {v}
    BY <1>5
  <1>7. ~Building /\ \A u \in Threads \ {t} : pc[u] \notin ManagingPCs
    BY <1>1 DEF Limits, DeletingPCs, OneManager, ManagingPCs
  <1>8. /\ pc'[t] = "d_nload" /\ \A q \in Procs \ {t} : pc'[q] = pc[q]
        /\ \A u \in Threads \ {t} : pc'[u] \notin ManagingPCs
        /\ ~Building'
    BY <1>1, <1>7 DEF Building
  <1>9. Control'
    BY <1>1, <1>8 DEF MainPhase, NoExit, Holds, Starting
  <1>10. Limits'
    BY <1>1, <1>7, <1>8 DEF Limits, Ceiling, DeletingPCs, CountedPCs, ManagingPCs
  <1>11. Counted'
    <2>1. Adding' <=> Adding BY <1>1, <1>8 DEF Adding
    <2>2. ~Removing BY <1>1, <1>7 DEF Removing, ManagingPCs
    <2>3. Removing' BY <1>8 DEF Removing
    <2>4. Cardinality(Members') = Cardinality(Members) - 1
      BY <1>2, <1>6, MembersFinite, FS_RemoveElement
    <2> QED BY <1>1, <2>1, <2>2, <2>3, <2>4, MembersFinite DEF Counted
  <1>12. Loaded'
    BY <1>1, <1>8 DEF Loaded
  <1>13. Linked'
    <2> SUFFICES ASSUME NEW m \in Listed \ {v}
                 PROVE  /\ nxt'[m] \in Listed \ {v} /\ prv'[m] \in Listed \ {v}
                        /\ prv'[nxt'[m]] = m /\ nxt'[prv'[m]] = m
      BY <1>6 DEF Linked
    <2>1. /\ m \in Nodes /\ nxt[m] \in Listed /\ prv[m] \in Listed
          /\ prv[nxt[m]] = m /\ nxt[prv[m]] = m
      BY <1>3 DEF Linked
    <2>2. nxt'[m] \in Listed \ {v} /\ prv'[nxt'[m]] = m
      <3>1. CASE m = prev BY <1>3, <1>4, <1>5, <3>1
      <3>2. CASE m # prev
        <4>1. nxt[m] # v /\ nxt[m] # next
          <5>1. nxt[m] # v BY <2>1, <3>2 DEF prev
          <5>2. nxt[m] # next BY <1>3, <2>1
          <5> QED BY <5>1, <5>2
        <4>2. nxt'[m] = nxt[m] BY <1>5, <2>1, <3>2
        <4> QED BY <1>3, <1>5, <2>1, <4>1, <4>2
      <3> QED BY <3>1, <3>2
    <2>3. prv'[m] \in Listed \ {v} /\ nxt'[prv'[m]] = m
      <3>1. CASE m = next BY <1>3, <1>4, <1>5, <3>1
      <3>2. CASE m # next
        <4>1. prv[m] # v /\ prv[m] # prev
          <5>1. prv[m] # v BY <2>1, <3>2 DEF next
          <5>2. prv[m] # prev BY <1>3, <2>1
          <5> QED BY <5>1, <5>2
        <4>2. prv'[m] = prv[m] BY <1>5, <2>1, <3>2
        <4> QED BY <1>3, <1>5, <2>1, <4>1, <4>2
      <3> QED BY <3>1, <3>2
    <2> QED BY <2>2, <2>3
  <1>14. NoCycle'
    <2> SUFFICES ASSUME NEW S \in SUBSET (Members \ {v}), S # {}
                 PROVE  \E u \in S : nxt'[u] \notin S
      BY <1>6 DEF NoCycle
    <2>1. S \subseteq Nodes /\ v \notin S
      BY DEF Members
    <2>2. CASE prev \notin S
      <3>1. PICK u \in S : nxt[u] \notin S
        BY DEF NoCycle
      <3> QED BY <1>5, <2>1, <2>2, <3>1
    <2>3. CASE prev \in S
      <3>1. PICK u \in S \cup {v} : nxt[u] \notin S \cup {v}
        BY <1>2 DEF NoCycle
      <3>2. CASE u = v
        BY <1>5, <2>3, <3>1, <3>2 DEF next
      <3>3. CASE u # v
        <4>1. u # prev BY <1>3, <3>1
        <4> QED BY <1>5, <2>1, <3>1, <3>3, <4>1
      <3> QED BY <3>2, <3>3
    <2> QED BY <2>2, <2>3
  <1>15. Spared'
    BY <1>1, <1>8 DEF Spared
  <1>16. Cancelled'
    BY <1>1, <1>6, <1>8 DEF Cancelled
  <1>17. Victim' /\ Search'
    BY <1>1, <1>2, <1>6, <1>8 DEF Victim, Search, JoinedPCs, ManagingPCs, v
  <1>18. Fresh'
    BY <1>8 DEF Fresh, ManagingPCs, Building
  <1> QED BY <1>9, <1>10, <1>11, <1>12, <1>13, <1>14, <1>15, <1>16, <1>17, <1>18

-----------------------------------------------------------------------------
(* Every step before flag_halt is set *)

\* No process is about to touch freed memory
LEMMA ServiceSafe ==
    ASSUME PoolInv, OneManager, Service, NEW p \in Procs
    PROVE  Safe(p)
  <1> USE ProcFacts DEF PoolInv, PCTypeOK, DataTypeOK, Service, Control, Chain, Fates
  <1>1. \A n \in Listed : Intact(n)
    BY DEF Intact, Listed, Members, Cancelled
  <1>2. CASE p = Main
    <2>1. pc[p] = "reg_link" => Intact(ptr[p]) /\ Intact(prv[ListHead])
      BY <1>1 DEF Fresh, Intact, Linked, Listed
    <2> QED BY <1>2, <2>1 DEF MainPhase, Safe
  <1>3. CASE p \in Threads
    <2>1. pc[p] \in {"take", "claim", "task", "m_top"} => Intact(p)
      BY <1>3 DEF Spared, Intact
    <2>2. pc[p] = "d_relink" => Intact(nb[p][1]) /\ Intact(nb[p][2])
      BY <1>1, <1>3 DEF Victim, Linked, Listed
    <2>3. pc[p] \in {"d_cancel", "d_unlink", "d_relink", "d_nstore", "d_free"}
             => Intact(ptr[p])
      BY <1>3 DEF Victim, Intact
    <2>4. pc[p] \in {"m_next", "m_recheck"} => Intact(ptr[p])
      BY <1>1, <1>3 DEF Search, Listed
    <2>5. pc[p] = "reg_link" => Intact(ptr[p]) /\ Intact(prv[ListHead])
      BY <1>1 DEF Fresh, Intact, Linked, Listed
    <2>6. pc[p] = "d_cancel" => pc[ptr[p]] # "joined"
      BY <1>3 DEF Victim, Cancelled, OneManager, ManagingPCs
    <2>7. pc[p] = "m_scan" => Intact(nb[p][2])
      BY <1>1, <1>3 DEF Search, Listed
    <2>8. pc[p] \notin ExitPCs \cup {"q_scan"}
      BY <1>3 DEF NoExit
    <2> QED BY <2>1, <2>2, <2>3, <2>4, <2>5, <2>6, <2>7, <2>8 DEF Safe
  <1> QED BY <1>2, <1>3

\* The initial states
LEMMA InitServes == Init => Service
  <1> SUFFICES ASSUME Init PROVE Service
    OBVIOUS
  <1> USE ProcFacts DEF Init
  <1>1. Members = {} /\ Listed = {ListHead}
    BY DEF Members, Listed
  <1>2. Control
    BY DEF Control, MainPhase, NoExit, Holds, Starting
  <1>3. Numbers
    <2>1. Limits
      BY DEF Limits, Ceiling, DeletingPCs, CountedPCs, Building
    <2>2. ~Adding /\ ~Removing
      BY DEF Adding, Removing
    <2> QED BY <1>1, <2>1, <2>2, FS_EmptySet DEF Numbers, Counted, Loaded
  <1>4. Chain
    BY <1>1 DEF Chain, Linked, NoCycle
  <1>5. Fates
    BY <1>1 DEF Fates, Spared, Cancelled, Victim, Search, Fresh, JoinedPCs
  <1> QED BY <1>2, <1>3, <1>4, <1>5 DEF Service

\* Every step that does not set flag_halt
LEMMA StepServes ==
    ASSUME PoolInv, RoleInv, Service, ~flag_halt, [Next]_vars
    PROVE  flag_halt' \/ Service'
  <1> USE ProcFacts, ManagerUnique
  <1>1. \A p \in Procs : Safe(p)
    BY ServiceSafe
  <1>2. ASSUME NEW t \in Threads, Worker(t) PROVE Service'
    <2>1. ~Exit(t)
      BY DEF Exit, Load, NumStore, IdleStore, Unlink, Relink, ExitFree, At, Service,
             Control, NoExit
    <2> QED BY <1>2, <2>1, WorkerStill DEF Worker
  <1>3. ASSUME NEW t \in Threads, ManagerStep(t) PROVE Service'
    BY <1>3, WorkerStill, SignalStill, ManagerSteady DEF ManagerStep
  <1>4. ASSUME NEW p \in Procs, ThreadAdd(p) PROVE Service'
    BY <1>4, CreateSteady, MainStill, ManagerSteady, RegisterServes, RegLoadSteady,
       RegisteredServes
    DEF ThreadAdd
  <1>5. ASSUME NEW p \in Procs, ThreadDel(p) PROVE Service'
    <2>1. p \in Threads
      BY <1>5 DEF ThreadDel, Cancel, Join, DelFree, Load, NumStore, IdleStore, Unlink,
                  Relink, At, Service, Control, MainPhase
    <2> QED BY <1>5, <2>1, DeleteSteady, RelinkServes, NumStoreServes, DelFreeServes
        DEF ThreadDel
  <1>6. CASE MainStep
    <2>1. ~QuitWait /\ ~QuitScan
      BY DEF QuitWait, QuitScan, At, Service, Control, MainPhase
    <2>2. Halt => flag_halt'
      BY DEF Halt
    <2> QED BY <1>4, <1>5, <1>6, <2>1, <2>2 DEF MainStep
  <1>7. CASE Delete
    BY <1>7, MainStill
  <1>8. ASSUME NEW t \in Threads, SpuriousWakeup(t) PROVE Service'
    BY <1>8, WorkerStill
  <1>9. ASSUME NEW p \in Procs, TaskAddCheck(p) PROVE Service'
    BY <1>9, WorkerStill, MainStill
  <1>10. ASSUME NEW p \in Procs, TaskAdd(p) PROVE Service'
    BY <1>10, TaskAddStill
  <1>11. \A p \in Procs : ~Crash(p)
    BY <1>1 DEF Crash
  <1>12. CASE UNCHANGED vars
    BY <1>12
    DEF vars, Service, Control, MainPhase, NoExit, Holds, Starting, Numbers, Limits,
        Ceiling, Building, Counted, Adding, Removing, Loaded, Chain, Linked, NoCycle,
        Listed, Members, Fates, Spared, Cancelled, Victim, Search, Fresh
  <1> QED BY <1>2, <1>3, <1>4, <1>5, <1>6, <1>7, <1>8, <1>9, <1>10, <1>11, <1>12
      DEF Next, Thread, Ended

\* flag_halt is never reset
LEMMA HaltStays == flag_halt /\ [Next]_vars => flag_halt'
  <1> SUFFICES ASSUME flag_halt, [Next]_vars PROVE flag_halt'
    OBVIOUS
  <1>1. ASSUME NEW t \in Threads, Worker(t) PROVE flag_halt'
    BY <1>1 DEF Worker, Loop, Lock, IdleInc, Relock, CancelInWait, Take, IdleDec, Claim,
                Finish, CancelInTask, Exit, Load, NumStore, IdleStore, Unlink, Relink,
                ExitFree
  <1>2. ASSUME NEW t \in Threads, ManagerStep(t) PROVE flag_halt'
    BY <1>2 DEF ManagerStep, ManagerLoop, ManagerCreate, ManagerCreateIdle,
                ManagerDestroy, ManagerDestroyIdle, Scan, ScanNext, Recheck,
                ManagerSignal
  <1>3. ASSUME NEW p \in Procs, ThreadAdd(p) PROVE flag_halt'
    BY <1>3 DEF ThreadAdd, Create, CreateFails, Register, Load, Registered
  <1>4. ASSUME NEW p \in Procs, ThreadDel(p) PROVE flag_halt'
    BY <1>4 DEF ThreadDel, Cancel, Join, Unlink, Relink, Load, NumStore, IdleStore,
                DelFree
  <1>5. ASSUME NEW p \in Procs, TaskAddCheck(p) \/ TaskAdd(p) \/ Crash(p)
        PROVE  flag_halt'
    BY <1>5 DEF TaskAddCheck, TaskAdd, Crash
  <1>6. ASSUME NEW t \in Threads, SpuriousWakeup(t) PROVE flag_halt'
    BY <1>6 DEF SpuriousWakeup
  <1>7. CASE MainStep
    BY <1>3, <1>4, <1>7, ProcFacts DEF MainStep, Halt, QuitWait, QuitScan
  <1>8. CASE Delete \/ UNCHANGED vars
    BY <1>8 DEF Delete, vars
  <1> QED BY <1>1, <1>2, <1>3, <1>4, <1>5, <1>6, <1>7, <1>8, ProcFacts
      DEF Next, Thread, Ended

ServiceInv == ~flag_halt => Service

\* The invariant
LEMMA ServiceInvariant == Spec => [](PoolInv /\ RoleInv /\ ServiceInv)
  <1>1. Init => ServiceInv
    BY InitServes DEF ServiceInv
  <1>2. PoolInv /\ RoleInv /\ ServiceInv /\ [Next]_vars => ServiceInv'
    BY StepServes, HaltStays DEF ServiceInv
  <1>3. Kept => RoleInv
    BY DEF Kept
  <1> QED BY <1>1, <1>2, <1>3, RoleInvariant, PTL DEF Spec

\* While the pool is in service thread_num never falls below the minimum
LEMMA StepKeepsMin ==
    ASSUME PoolInv, RoleInv, Service, ~flag_halt, [Next]_vars,
           thread_num >= THREAD_NUM_MIN
    PROVE  thread_num' >= THREAD_NUM_MIN
  <1> USE ProcFacts DEF PoolInv, DataTypeOK
  <1> SUFFICES \/ thread_num' = thread_num \/ thread_num' = thread_num + 1
               \/ thread_num' = thread_num - 1 /\ thread_num > THREAD_NUM_MIN
    OBVIOUS
  <1>1. ASSUME NEW t \in Threads, Worker(t) PROVE thread_num' = thread_num
    <2>1. ~Exit(t)
      BY DEF Exit, Load, NumStore, IdleStore, Unlink, Relink, ExitFree, At, Service,
             Control, NoExit
    <2> QED BY <1>1, <2>1
        DEF Worker, Loop, Lock, IdleInc, Relock, CancelInWait, Take, IdleDec, Claim,
            Finish, CancelInTask
  <1>2. ASSUME NEW t \in Threads, ManagerStep(t) PROVE thread_num' = thread_num
    BY <1>2 DEF ManagerStep, ManagerLoop, ManagerCreate, ManagerCreateIdle,
                ManagerDestroy, ManagerDestroyIdle, Scan, ScanNext, Recheck,
                ManagerSignal
  <1>3. ASSUME NEW p \in Procs, ThreadAdd(p)
        PROVE  thread_num' = thread_num \/ thread_num' = thread_num + 1
    <2>1. CASE Registered(p)
      BY <2>1 DEF Registered, At, Service, Numbers, Loaded
    <2> QED BY <1>3, <2>1 DEF ThreadAdd, Create, CreateFails, Register, Load
  <1>4. ASSUME NEW p \in Procs, ThreadDel(p)
        PROVE  \/ thread_num' = thread_num
               \/ thread_num' = thread_num - 1 /\ thread_num > THREAD_NUM_MIN
    <2>1. CASE NumStore(p, "d_nstore",
                        IF state[ptr[p]] = "IDLE" THEN "d_iload" ELSE "d_free")
      <3>1. pc[p] = "d_nstore" /\ thread_num' = reg[p] - 1
        BY <2>1 DEF NumStore, NumLess, At
      <3>2. p \in Threads
        BY <3>1 DEF Service, Control, MainPhase
      <3> QED BY <3>1, <3>2
          DEF Service, Numbers, Loaded, Limits, DeletingPCs, CountedPCs
    <2> QED BY <1>4, <2>1 DEF ThreadDel, Cancel, Join, Unlink, Relink, Load, IdleStore,
                              DelFree
  <1>5. ASSUME NEW p \in Procs, TaskAddCheck(p) \/ TaskAdd(p) \/ Crash(p)
        PROVE  thread_num' = thread_num
    BY <1>5 DEF TaskAddCheck, TaskAdd, Crash
  <1>6. ASSUME NEW t \in Threads, SpuriousWakeup(t) PROVE thread_num' = thread_num
    BY <1>6 DEF SpuriousWakeup
  <1>7. CASE Halt \/ QuitWait \/ QuitScan \/ Delete \/ UNCHANGED vars
    BY <1>7 DEF Halt, QuitWait, QuitScan, Delete, vars
  <1> QED BY <1>1, <1>2, <1>3, <1>4, <1>5, <1>6, <1>7
      DEF Next, MainStep, Thread, Ended

-----------------------------------------------------------------------------
(* The theorems *)

\* Until it is destroyed, the pool touches no freed THREAD_T and no poisoned link,
\* although the manager walks and changes list_thread without the mutex.
THEOREM NoUseAfterFree == Spec => []SafeUntilHalt
  <1>1. ServiceInv => SafeUntilHalt
    BY DEF ServiceInv, Service, Control, MainPhase, SafeUntilHalt, AddPCs
  <1> QED BY <1>1, ServiceInvariant, PTL

\* The unlocked updates of thread_num never lose or double one another: until the
\* pool is destroyed it counts the listed threads.
THEOREM ThreadsCounted == Spec => []ThreadCount
  <1>1. PoolInv /\ ServiceInv => ThreadCount
    BY MembersFinite, ProcFacts
    DEF PoolInv, DataTypeOK, ServiceInv, Service, Numbers, Counted, Adding, Removing,
        Members, ThreadCount, AddPCs, DelPCs
  <1> QED BY <1>1, ServiceInvariant, PTL

\* Neither pool_thread_new nor the manager takes the pool above THREAD_NUM_MAX, also
\* while both add threads.
THEOREM NeverAboveMax == Spec => []WithinMax
  <1>1. PoolInv /\ ServiceInv => WithinMax
    BY DEF PoolInv, DataTypeOK, ServiceInv, Service, Numbers, Limits, Ceiling, WithinMax
  <1> QED BY <1>1, ServiceInvariant, PTL

\* Once there are THREAD_NUM_MIN threads the manager never deletes one too many.
THEOREM NeverBelowMin == Spec => KeepsMin
  <1>1. PoolInv /\ RoleInv /\ ServiceInv /\ [Next]_vars
          => [~flag_halt' /\ thread_num >= THREAD_NUM_MIN
                 => thread_num' >= THREAD_NUM_MIN]_vars
    BY StepKeepsMin, HaltStays DEF ServiceInv
  <1> QED BY <1>1, ServiceInvariant, PTL DEF Spec, KeepsMin
=============================================================================
