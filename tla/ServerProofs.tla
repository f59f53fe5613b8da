---------------------------- MODULE ServerProofs ----------------------------
(***************************************************************************)
(* Proofs about Server, for all values of its constants: TypeOK, AcceptDue *)
(* and NoDescriptorLeak are invariants, and no link stays busy without a   *)
(* task as long as no link has two tasks: SoleTaskUnmarks.  The argument   *)
(* for the last is about the task that the loop added before it marks the  *)
(* link (Firm): unless it is cancelled, nobody leaves that link idle.      *)
(***************************************************************************)
EXTENDS Server, TLAPS

\* Where a task that runs function f can be
Fits(f, l) ==
    \/ f = "manager" /\ l = "manager"
    \/ f = "server"  /\ l \in {"loop", "wait", "events", "add", "mark", "del", "close", "free"}
    \/ f = "accept"  /\ l \in {"accept", "register", "refuse"}
    \/ f = "link"    /\ l \in {"head", "read", "write", "postproc", "idle", "del", "close", "free"}

\* Tasks start in the order of their numbers, none twice, each is where its function
\* can be, and a link task has a link
TasksFit ==
    /\ Pool!StartedOnce
    /\ \A k \in running : Fits(func[k], pc[k])
    /\ \A k \in Tasks \ running : pc[k] \in {"none", "over", "cancelled"}
    /\ \A k \in Tasks : pc[k] # "none" => k <= submitted - Len(queue)
    /\ \A i \in 1 .. Len(queue) : func[queue[i]] # "none"
    /\ \A k \in Tasks : func[k] = "link" => info[k] # None

\* Only the first task is the loop, and only while it handles events are there some
OneLoop ==
    /\ \A k \in Tasks : func[k] = "server" => k = 1
    /\ batch # {} => halted \/ (1 \in running /\ func[1] = "server"
                                /\ pc[1] \notin {"loop", "wait"})

\* Before the server is made to run there is at most the loop, at its start
NotYet ==
    orders = 0 =>
        /\ state = "STOP" /\ batch = {}
        /\ \A k \in running : pc[k] \in {"manager", "loop"}
        /\ \A k \in Tasks : func[k] \in {"none", "manager", "server"}

\* A connection in the queue is there once and has no link yet
Queued ==
    /\ \A l \in Links : phase[l] = "new" => mem[l] = "none"
    /\ \A i \in 1 .. Len(backlog) :
           mem[backlog[i]] = "none" /\ phase[backlog[i]] \in {"queued", "aborted"}
    /\ \A i, j \in 1 .. Len(backlog) : backlog[i] = backlog[j] => i = j

\* The accept task k is about to close the descriptor of l, or was cancelled before
Refuses(k, l) == func[k] = "accept" /\ info[k] = l /\ pc[k] \in {"refuse", "cancelled"}

\* A connection with a descriptor was accepted and has that descriptor, and its link is
\* live or the connection is refused; the one that a task registers or refuses was
\* accepted, and has no link if it is refused; a task that is about to free a link has
\* closed its descriptor
Owned ==
    /\ \A f \in Fds : conn[f] # None =>
           /\ phase[conn[f]] \in {"open", "closed"} /\ fd_peer[conn[f]] = f
           /\ mem[conn[f]] = "live" \/ \E k \in Tasks : Refuses(k, conn[f])
    /\ \A k \in running : pc[k] \in {"register", "refuse"} =>
           phase[info[k]] \in {"open", "closed"}
    /\ \A k \in running : pc[k] = "refuse" => mem[info[k]] # "live"
    /\ \A k \in running : pc[k] = "free" => \A f \in Fds : conn[f] # info[k]

\* AcceptDue, already before the server is made to run
Accepting == \E k \in Tasks :
    func[k] = "accept" /\ (k \in running \/ \E i \in 1 .. Len(queue) : queue[i] = k)
Due ==
    (/\ orders = 0 \/ (orders = 1 /\ state = "RUNNING")
     /\ ~halted /\ backlog # <<>> /\ ~missed)
    => knock \/ Knock \in batch \/ Accepting

Inv == TypeOK /\ TasksFit /\ OneLoop /\ NotYet /\ Queued /\ Owned /\ Due

-----------------------------------------------------------------------------
(* The pool's steps *)

LEMMA Bounds ==
    /\ MaxTasks \in Nat /\ MaxLinks \in Nat /\ MaxFds \in Nat /\ MaxBytes \in Nat
    /\ MaxOrders \in Nat /\ HaltTasks \in Nat /\ BUFSIZE \in Nat
    /\ None = 0 /\ None \notin Links /\ None \notin Fds
BY ServerAssumption DEF None, Links, Fds

\* What a new element at the end of a sequence does
LEMMA Appended ==
    ASSUME NEW S, NEW s \in Seq(S), NEW x \in S
    PROVE  /\ Append(s, x) \in Seq(S) /\ Len(Append(s, x)) = Len(s) + 1
           /\ Len(s) + 1 \in 1 .. Len(Append(s, x)) /\ Append(s, x)[Len(s) + 1] = x
           /\ \A i \in 1 .. Len(s) : /\ i \in 1 .. Len(Append(s, x))
                                     /\ Append(s, x)[i] = s[i] /\ s[i] \in S
           /\ \A i \in 1 .. Len(Append(s, x)) : i \in 1 .. Len(s) \/ i = Len(s) + 1
           /\ Append(s, x) # <<>>
OBVIOUS

\* What taking the first element does
LEMMA Taken ==
    ASSUME NEW S, NEW s \in Seq(S), s # <<>>
    PROVE  /\ Head(s) \in S /\ Head(s) = s[1] /\ 1 \in 1 .. Len(s)
           /\ Tail(s) \in Seq(S) /\ Len(Tail(s)) = Len(s) - 1
           /\ \A i \in 1 .. Len(Tail(s)) : /\ Tail(s)[i] = s[i + 1] /\ i + 1 \in 1 .. Len(s)
                                           /\ Tail(s)[i] \in S
           /\ \A i \in 1 .. Len(s) :
                  i = 1 \/ (i - 1 \in 1 .. Len(Tail(s)) /\ Tail(s)[i - 1] = s[i])
OBVIOUS

\* Adding a task puts it at the end, with a number nobody had
LEMMA Submits ==
    ASSUME TaskTypes, TasksFit, NEW f \in {"server", "accept", "link"},
           NEW l \in Links \cup {None}, AddTask(f, l)
    PROVE  /\ queue' \in Seq(Tasks) /\ submitted' \in Tasks
           /\ running' = running /\ halted' = halted
           /\ func' \in [Tasks -> {"none", "manager", "server", "accept", "link"}]
           /\ info' \in [Tasks -> Links \cup {None}]
           /\ Pool!StartedOnce'
           /\ \A i \in 1 .. Len(queue') : func'[queue'[i]] # "none"
           /\ \A k \in running : func'[k] = func[k] /\ info'[k] = info[k]
           /\ \A k \in Tasks : \/ func'[k] = func[k] /\ info'[k] = info[k]
                               \/ ~halted /\ k = submitted + 1 /\ func'[k] = f /\ info'[k] = l
           /\ submitted' - Len(queue') = submitted - Len(queue)
           /\ \A k \in Tasks : pc[k] # "none" => func'[k] = func[k] /\ info'[k] = info[k]
           /\ Accepting => Accepting'
           /\ ~halted /\ f = "accept" => Accepting'
  <1> USE Bounds DEF Tasks
  <1>1. CASE halted
    BY <1>1 DEF pool, Accepting, AddTask, TaskTypes, TasksFit, Pool!StartedOnce
  <1>2. CASE ~halted
    <2> DEFINE n == submitted + 1
    <2>1. /\ n \in Tasks /\ submitted' = n /\ queue' = Append(queue, n)
          /\ running' = running /\ halted' = halted
          /\ func' = [func EXCEPT ![n] = f] /\ info' = [info EXCEPT ![n] = l]
      BY <1>2 DEF Pool!Submit, AddTask, TaskTypes
    <2>2. /\ queue \in Seq(Tasks) /\ running \subseteq Tasks /\ submitted \in Nat
          /\ func \in [Tasks -> {"none", "manager", "server", "accept", "link"}]
          /\ info \in [Tasks -> Links \cup {None}]
      BY DEF TaskTypes
    <2> HIDE DEF n
    <2>3. /\ queue' \in Seq(Tasks) /\ Len(queue') = Len(queue) + 1
          /\ queue'[Len(queue) + 1] = n /\ Len(queue) + 1 \in 1 .. Len(queue')
          /\ \A i \in 1 .. Len(queue) : i \in 1 .. Len(queue') /\ queue'[i] = queue[i]
                                        /\ queue[i] \in Tasks
          /\ \A i \in 1 .. Len(queue') : i \in 1 .. Len(queue) \/ i = Len(queue) + 1
      BY <2>1, <2>2, Appended
    <2>4. /\ \A i \in 1 .. Len(queue) : queue[i] # n
          /\ n \notin running
      BY <2>2 DEF TasksFit, Pool!StartedOnce, n
    <2>5. Pool!StartedOnce'
      BY <2>1, <2>2, <2>3, <2>4 DEF TasksFit, Pool!StartedOnce, n
    <2>6. \A i \in 1 .. Len(queue') : func'[queue'[i]] # "none"
      BY <2>1, <2>2, <2>3 DEF TasksFit
    <2>7. Accepting => Accepting'
      BY <2>1, <2>2, <2>3, <2>4 DEF Accepting
    <2>8. f = "accept" => Accepting'
      BY <2>1, <2>2, <2>3 DEF Accepting
    <2>9. n = submitted + 1
      BY DEF n
    <2>10. submitted' - Len(queue') = submitted - Len(queue) /\ pc[n] = "none"
      <3>1. Len(queue) \in Nat /\ submitted \in Nat /\ n \in Nat
        BY <2>2, <2>9
      <3>2. ~(n <= submitted - Len(queue))
        BY <3>1, <2>9
      <3> QED BY <3>1, <3>2, <2>1, <2>3, <2>9 DEF TasksFit
    <2> QED BY <1>2, <2>1, <2>2, <2>3, <2>4, <2>5, <2>6, <2>7, <2>8, <2>9, <2>10
  <1> QED BY <1>1, <1>2

\* Starting the first task leaves the others where they are
LEMMA Starts ==
    ASSUME TaskTypes, TasksFit, Pool!Start, UNCHANGED <<func, info>>
    PROVE  /\ queue' \in Seq(Tasks) /\ submitted' = submitted /\ halted' = halted
           /\ Head(queue) \in Tasks /\ func[Head(queue)] # "none"
           /\ Head(queue) \notin running /\ pc[Head(queue)] = "none"
           /\ running' = running \cup {Head(queue)}
           /\ Head(queue) = submitted' - Len(queue')
           /\ \A k \in Tasks :
                  k <= submitted - Len(queue) => k <= submitted' - Len(queue')
           /\ Pool!StartedOnce'
           /\ \A i \in 1 .. Len(queue') : func'[queue'[i]] # "none"
           /\ Accepting => Accepting'
  <1>1. /\ queue \in Seq(Tasks) /\ queue # <<>> /\ queue' = Tail(queue)
        /\ running \subseteq Tasks /\ running' = running \cup {Head(queue)}
        /\ submitted' = submitted /\ halted' = halted
        /\ func' = func
    BY DEF TaskTypes, Pool!Start
  <1>2. /\ Head(queue) \in Tasks /\ Head(queue) = queue[1] /\ 1 \in 1 .. Len(queue)
        /\ queue' \in Seq(Tasks) /\ Len(queue') = Len(queue) - 1 /\ Len(queue) \in Nat
        /\ \A i \in 1 .. Len(queue') : queue'[i] = queue[i + 1] /\ i + 1 \in 1 .. Len(queue)
        /\ \A i \in 1 .. Len(queue) :
               i = 1 \/ (i - 1 \in 1 .. Len(queue') /\ queue'[i - 1] = queue[i])
    BY <1>1, Taken
  <1> DEFINE h == Head(queue)
  <1>3. /\ submitted \in Nat /\ h \in Nat /\ running \subseteq Nat
        /\ \A i \in 1 .. Len(queue) : queue[i] = submitted - Len(queue) + i
        /\ \A k \in running : k <= submitted - Len(queue)
    BY <1>1, <1>2, Bounds DEF TasksFit, Pool!StartedOnce, TaskTypes, Tasks
  <1>4. h = submitted - Len(queue) + 1
    BY <1>2, <1>3
  <1>5. h \notin running
    BY <1>2, <1>3, <1>4
  <1>6. Pool!StartedOnce'
    <2>1. \A i \in 1 .. Len(queue') : queue'[i] = submitted' - Len(queue') + i
      BY <1>1, <1>2, <1>3
    <2>2. \A k \in running' : k <= submitted' - Len(queue')
      BY <1>1, <1>2, <1>3, <1>4
    <2> QED BY <2>1, <2>2 DEF Pool!StartedOnce
  <1>7. Accepting => Accepting'
    <2> SUFFICES ASSUME NEW k \in Tasks, func[k] = "accept",
                        k \in running \/ \E i \in 1 .. Len(queue) : queue[i] = k
                 PROVE  k \in running' \/ \E i \in 1 .. Len(queue') : queue'[i] = k
      BY <1>1 DEF Accepting
    <2> QED BY <1>1, <1>2
  <1>8. /\ func[h] # "none"
        /\ \A i \in 1 .. Len(queue') : func'[queue'[i]] # "none"
    BY <1>1, <1>2 DEF TasksFit
  <1>9. pc[h] = "none"
    BY <1>2, <1>3, <1>4 DEF TasksFit
  <1>10. h = submitted' - Len(queue') /\ submitted - Len(queue) <= submitted' - Len(queue')
    BY <1>1, <1>2, <1>3, <1>4
  <1>11. \A k \in Tasks : k <= submitted - Len(queue) => k <= submitted' - Len(queue')
    BY <1>1, <1>2, <1>3, <1>10, Bounds DEF Tasks
  <1> QED BY <1>1, <1>2, <1>5, <1>6, <1>7, <1>8, <1>9, <1>10, <1>11

\* The end of a task leaves the others where they are
LEMMA Returns ==
    ASSUME TaskTypes, TasksFit, NEW k \in running, Return(k)
    PROVE  /\ TaskTypes' /\ TasksFit'
           /\ queue' = queue /\ submitted' = submitted /\ halted' = halted
           /\ running' = running \ {k} /\ pc'[k] = "over" /\ info'[k] = None
           /\ func'[k] = "none"
           /\ \A j \in Tasks \ {k} : func'[j] = func[j] /\ pc'[j] = pc[j] /\ info'[j] = info[j]
           /\ func[k] # "accept" /\ Accepting => Accepting'
  <1>1. /\ queue' = queue /\ submitted' = submitted /\ halted' = halted
        /\ running' = running \ {k} /\ k \in Tasks /\ running \subseteq Tasks
        /\ pc' = [pc EXCEPT ![k] = "over"] /\ func' = [func EXCEPT ![k] = "none"]
        /\ info' = [info EXCEPT ![k] = None] /\ buf' = [buf EXCEPT ![k] = 0]
    BY DEF Return, Pool!End, Goto, TaskTypes
  <1>2. TaskTypes'
    BY <1>1, Bounds DEF TaskTypes
  <1>3. \A i \in 1 .. Len(queue) : queue[i] # k /\ queue[i] \in Tasks
    <2>1. /\ submitted \in Nat /\ k \in Nat /\ queue \in Seq(Tasks)
          /\ \A i \in 1 .. Len(queue) : queue[i] = submitted - Len(queue) + i
          /\ k <= submitted - Len(queue)
      BY Bounds DEF TasksFit, Pool!StartedOnce, TaskTypes, Tasks
    <2>2. Len(queue) \in Nat /\ \A i \in 1 .. Len(queue) : queue[i] \in Tasks
      BY <2>1
    <2> QED BY <2>1, <2>2
  <1>4. TasksFit'
    <2>1. Pool!StartedOnce'
      BY <1>1 DEF TasksFit, Pool!StartedOnce
    <2>2. /\ \A j \in running' : Fits(func'[j], pc'[j])
          /\ \A j \in Tasks \ running' : pc'[j] \in {"none", "over", "cancelled"}
          /\ \A j \in Tasks : func'[j] = "link" => info'[j] # None
      BY <1>1 DEF TasksFit, TaskTypes
    <2>3. \A i \in 1 .. Len(queue') : func'[queue'[i]] # "none"
      BY <1>1, <1>3 DEF TasksFit, TaskTypes
    <2>4. \A j \in Tasks : pc'[j] # "none" => j <= submitted' - Len(queue')
      BY <1>1 DEF TasksFit, TaskTypes, Pool!StartedOnce
    <2> QED BY <2>1, <2>2, <2>3, <2>4 DEF TasksFit
  <1>5. func[k] # "accept" /\ Accepting => Accepting'
    BY <1>1 DEF Accepting, TaskTypes
  <1> QED BY <1>1, <1>2, <1>4, <1>5 DEF TaskTypes

\* ... and the parts of the invariant that are about all tasks stay true
LEMMA ReturnsKeep ==
    ASSUME TaskTypes, TasksFit, HeldMade, OneLoop, NotYet, NEW k \in running, Return(k),
           UNCHANGED <<batch, data, orders, state>>,
           halted \/ func[k] # "server" \/ pc[k] = "loop",
           \A l \in Links : mem[l] # "none" => mem'[l] # "none",
           ServerTypes, EpollTypes
    PROVE  HeldMade' /\ OneLoop' /\ NotYet'
  <1>1. /\ running' = running \ {k} /\ k \in Tasks /\ running \subseteq Tasks
        /\ pc'[k] = "over" /\ info'[k] = None /\ func'[k] = "none" /\ halted' = halted
        /\ \A j \in Tasks \ {k} : func'[j] = func[j] /\ pc'[j] = pc[j] /\ info'[j] = info[j]
    BY Returns DEF TaskTypes
  <1>2. HeldMade'
    <2>1. \A j \in Tasks : (pc'[j] \in {"register", "refuse"} \/ UsesInfo(j)') => info'[j] # None
      BY <1>1 DEF HeldMade, UsesInfo
    <2>2. ASSUME NEW j \in Tasks, info'[j] # None
          PROVE  \/ mem'[info'[j]] # "none"
                 \/ func'[j] = "accept" /\ pc'[j] \in {"refuse", "cancelled"}
      <3>1. /\ j # k /\ info'[j] = info[j] /\ info[j] \in Links
            /\ func'[j] = func[j] /\ pc'[j] = pc[j]
        BY <1>1, <2>2 DEF TaskTypes
      <3> QED BY <2>2, <3>1 DEF HeldMade
    <2>3. \A e \in batch' : e.link # None => mem'[e.link] # "none"
      BY DEF HeldMade, ServerTypes
    <2>4. \A c \in Links : data'[c] # None => mem'[data'[c]] # "none"
      BY DEF HeldMade, EpollTypes
    <2> QED BY <2>1, <2>2, <2>3, <2>4 DEF HeldMade, UsesInfo
  <1>3. OneLoop'
    BY <1>1 DEF OneLoop
  <1>4. NotYet'
    <2>1. \A j \in running' : pc'[j] = pc[j] /\ j \in running
      BY <1>1
    <2>2. \A j \in Tasks : func'[j] = func[j] \/ func'[j] = "none"
      BY <1>1
    <2> QED BY <2>1, <2>2 DEF NotYet
  <1> QED BY <1>2, <1>3, <1>4

\* Adding a task keeps them too, whether the loop then goes on to mark the link or not
LEMMA SubmitsKeep ==
    ASSUME TaskTypes, TasksFit, HeldMade, OneLoop, ServerTypes, EpollTypes,
           NEW f \in {"server", "accept", "link"}, NEW l \in Links \cup {None}, AddTask(f, l),
           f = "link" => l # None, f = "server" => submitted = 0,
           l # None => mem[l] # "none",
           \/ pc' = pc
           \/ \E k \in running : Goto(k, "mark") /\ func[k] = "server" /\ info[k] # None,
           buf' = buf, batch' \subseteq batch, UNCHANGED <<mem, data>>
    PROVE  TaskTypes' /\ TasksFit' /\ HeldMade' /\ OneLoop'
  <1>1. /\ queue' \in Seq(Tasks) /\ submitted' \in Tasks
        /\ running' = running /\ running \subseteq Tasks /\ halted' = halted
        /\ func' \in [Tasks -> {"none", "manager", "server", "accept", "link"}]
        /\ info' \in [Tasks -> Links \cup {None}]
        /\ Pool!StartedOnce'
        /\ \A i \in 1 .. Len(queue') : func'[queue'[i]] # "none"
        /\ \A k \in running : func'[k] = func[k] /\ info'[k] = info[k]
        /\ \A k \in Tasks : \/ func'[k] = func[k] /\ info'[k] = info[k]
                            \/ ~halted /\ k = submitted + 1 /\ func'[k] = f /\ info'[k] = l
        /\ submitted' - Len(queue') = submitted - Len(queue)
        /\ \A k \in Tasks : pc[k] # "none" => func'[k] = func[k] /\ info'[k] = info[k]
    BY Submits DEF TaskTypes
  <1>2. /\ pc' \in [Tasks -> {"none", "manager", "loop", "wait", "events", "add", "mark",
                              "accept", "register", "refuse", "head", "read", "write", "postproc",
                              "idle", "del", "close", "free", "over",
                              "cancelled"}]
        /\ \A j \in Tasks \ running : pc'[j] = pc[j]
        /\ \A j \in running :
               pc'[j] = pc[j] \/ (pc'[j] = "mark" /\ func[j] = "server" /\ info[j] # None)
    <2>1. CASE pc' = pc BY <2>1 DEF TaskTypes
    <2>2. ASSUME NEW k \in running, Goto(k, "mark"), func[k] = "server", info[k] # None
          PROVE  /\ pc' \in [Tasks -> {"none", "manager", "loop", "wait", "events", "add", "mark",
                              "accept", "register", "refuse", "head", "read", "write", "postproc",
                              "idle", "del", "close", "free", "over",
                              "cancelled"}]
                 /\ \A j \in Tasks \ running : pc'[j] = pc[j]
                 /\ \A j \in running : pc'[j] = pc[j]
                        \/ (pc'[j] = "mark" /\ func[j] = "server" /\ info[j] # None)
      <3>1. pc' = [pc EXCEPT ![k] = "mark"] BY <2>2 DEF Goto
      <3> QED BY <1>1, <2>2, <3>1 DEF TaskTypes
    <2> QED BY <2>1, <2>2
  <1>3. TaskTypes'
    BY <1>1, <1>2 DEF TaskTypes
  <1>4. TasksFit'
    <2>1. \A k \in running' : Fits(func'[k], pc'[k])
      BY <1>1, <1>2 DEF TasksFit, Fits
    <2>2. \A k \in Tasks \ running' : pc'[k] \in {"none", "over", "cancelled"}
      BY <1>1, <1>2 DEF TasksFit
    <2>3. \A k \in Tasks : func'[k] = "link" => info'[k] # None
      BY <1>1 DEF TasksFit
    <2>4. \A k \in Tasks : pc'[k] # "none" => k <= submitted' - Len(queue')
      BY <1>1, <1>2 DEF TasksFit, Pool!StartedOnce
    <2> QED BY <1>1, <2>1, <2>2, <2>3, <2>4 DEF TasksFit
  <1>5. HeldMade'
    <2>1. \A j \in Tasks : (pc'[j] \in {"register", "refuse"} \/ UsesInfo(j)') => info'[j] # None
      <3> SUFFICES ASSUME NEW j \in Tasks, pc'[j] \in {"register", "refuse"} \/ UsesInfo(j)'
                   PROVE  info'[j] # None
        OBVIOUS
      <3>1. j \in running
        BY <1>2 DEF TasksFit, UsesInfo
      <3> QED BY <3>1, <1>1, <1>2 DEF HeldMade, UsesInfo
    <2>2. ASSUME NEW j \in Tasks, info'[j] # None
          PROVE  \/ mem'[info'[j]] # "none"
                 \/ func'[j] = "accept" /\ pc'[j] \in {"refuse", "cancelled"}
      <3>1. CASE info'[j] = info[j]
        <4>1. CASE mem[info[j]] # "none"
          BY <3>1, <4>1
        <4>2. CASE func[j] = "accept" /\ pc[j] \in {"refuse", "cancelled"}
          <5>1. func'[j] = "accept" /\ (j \in running => func[j] # "server")
            BY <1>1, <4>2
          <5>2. pc'[j] = pc[j]
            <6>1. CASE j \notin running
              BY <6>1, <1>2
            <6>2. ASSUME j \in running, pc'[j] = "mark", pc' # pc PROVE FALSE
              BY <1>1, <4>2, <5>1, <6>2 DEF Goto, TaskTypes
            <6> QED BY <6>1, <6>2, <1>2
          <5> QED BY <5>1, <5>2, <4>2
        <4> QED BY <2>2, <3>1, <4>1, <4>2 DEF HeldMade
      <3>2. CASE info'[j] = l
        BY <2>2, <3>2
      <3> QED BY <3>1, <3>2, <1>1
    <2>3. /\ \A e \in batch' : e.link # None => mem'[e.link] # "none"
          /\ \A c \in Links : data'[c] # None => mem'[data'[c]] # "none"
      BY DEF HeldMade
    <2> QED BY <2>1, <2>2, <2>3 DEF HeldMade, UsesInfo
  <1>6. OneLoop'
    <2>1. \A k \in Tasks : func'[k] = "server" => k = 1
      BY <1>1 DEF OneLoop
    <2>2. batch' # {} => halted \/ (1 \in running /\ func'[1] = "server"
                                  /\ pc'[1] \notin {"loop", "wait"})
      BY <1>1, <1>2 DEF OneLoop
    <2> QED BY <1>1, <2>1, <2>2 DEF OneLoop
  <1> QED BY <1>3, <1>4, <1>5, <1>6

\* Moving one task to a place that fits, with the link it has or none, keeps them too
LEMMA Moves ==
    ASSUME TaskTypes, HeldMade, NEW k \in Tasks, NEW l, Goto(k, l), func' = func,
           info'[k] = None \/ pc[k] \notin {"refuse", "cancelled"},
           info' = info \/ info' = [info EXCEPT ![k] = None],
           UNCHANGED <<batch, data, mem>>,
           l \in {"register", "refuse", "add", "mark", "read", "write", "postproc", "idle", "del",
                  "close", "free"} => info'[k] # None
    PROVE  HeldMade'
  <1>1. /\ info' \in [Tasks -> Links \cup {None}] /\ pc'[k] = l
        /\ \A j \in Tasks \ {k} : pc'[j] = pc[j] /\ info'[j] = info[j]
        /\ info'[k] = info[k] \/ info'[k] = None
    BY DEF Goto, TaskTypes
  <1>2. \A j \in Tasks : (pc'[j] \in {"register", "refuse"} \/ UsesInfo(j)') => info'[j] # None
    BY <1>1 DEF HeldMade, UsesInfo
  <1>3. \A j \in Tasks : info'[j] # None =>
            \/ mem'[info'[j]] # "none"
            \/ func'[j] = "accept" /\ pc'[j] \in {"refuse", "cancelled"}
    BY <1>1 DEF HeldMade
  <1> QED BY <1>2, <1>3 DEF HeldMade, UsesInfo

\* What is said about descriptors stays true if the tasks that refuse a connection, or
\* did, go on to, and no other comes to free a link or to refuse one
LEMMA OwnedStays ==
    ASSUME Owned, UNCHANGED <<conn, phase, mem, fd_peer>>,
           \A j \in Tasks : pc[j] \in {"refuse", "cancelled"} =>
               /\ func'[j] = func[j] /\ info'[j] = info[j]
               /\ pc'[j] \in {"refuse", "cancelled"},
           \A j \in running' : pc'[j] \in {"free", "register", "refuse"} =>
               j \in running /\ pc[j] = pc'[j] /\ info'[j] = info[j]
    PROVE  Owned'
  <1>1. \A f \in Fds : \A k \in Tasks : Refuses(k, conn[f]) => Refuses(k, conn[f])'
    BY DEF Refuses
  <1> QED BY <1>1 DEF Owned

LEMMA OwnedMoves ==
    ASSUME Owned, TaskTypes, TasksFit, NEW k \in running, pc[k] # "refuse",
           NEW l, l \notin {"free", "register", "refuse"}, Goto(k, l),
           UNCHANGED <<conn, phase, mem, fd_peer, func, running>>,
           \A j \in Tasks \ {k} : info'[j] = info[j]
    PROVE  Owned'
  <1>1. /\ pc'[k] = l /\ running \subseteq Tasks /\ pc[k] # "cancelled"
        /\ \A j \in Tasks \ {k} : pc'[j] = pc[j]
    BY DEF Goto, TaskTypes, TasksFit, Fits
  <1> QED BY <1>1, OwnedStays

LEMMA OwnedReturns ==
    ASSUME Owned, TaskTypes, TasksFit, NEW k \in running, pc[k] # "refuse", Return(k),
           UNCHANGED <<conn, phase, mem, fd_peer>>
    PROVE  Owned'
  <1>1. /\ pc'[k] = "over" /\ running' = running \ {k} /\ running \subseteq Tasks
        /\ pc[k] # "cancelled"
        /\ \A j \in Tasks \ {k} : func'[j] = func[j] /\ pc'[j] = pc[j] /\ info'[j] = info[j]
    BY Returns DEF TaskTypes, TasksFit, Fits
  <1> QED BY <1>1, OwnedStays

LEMMA OwnedSubmits ==
    ASSUME Owned, TaskTypes, TasksFit, NEW f \in {"server", "accept", "link"},
           NEW l \in Links \cup {None}, AddTask(f, l),
           UNCHANGED <<conn, phase, mem, fd_peer, pc>>
    PROVE  Owned'
  <1>1. /\ running' = running /\ running \subseteq Tasks
        /\ \A k \in Tasks : pc[k] # "none" => func'[k] = func[k] /\ info'[k] = info[k]
    BY Submits DEF TaskTypes
  <1> QED BY <1>1, OwnedStays

LEMMA OwnedPhase ==
    ASSUME Owned, HeldMade, TaskTypes, PeerTypes,
           UNCHANGED <<conn, mem, fd_peer, func, info, pc, running>>,
           \A x \in Links : phase[x] \in {"open", "closed"} => phase'[x] \in {"open", "closed"}
    PROVE  Owned'
  <1>1. \A f \in Fds : conn[f] # None => conn[f] \in Links
    BY DEF PeerTypes
  <1>2. \A k \in running : pc[k] \in {"register", "refuse"} => info[k] \in Links
    BY DEF HeldMade, TaskTypes
  <1> QED BY <1>1, <1>2 DEF Owned, Refuses

\* A link without a descriptor is freed
LEMMA OwnedFrees ==
    ASSUME Owned, TaskTypes, PeerTypes, HeldMade, TasksFit, NEW k \in running, NEW l \in Links,
           pc[k] = "free", \A f \in Fds : conn[f] # l, UNCHANGED <<conn, phase>>,
           mem'[l] = "freed",
           \A x \in Links : x # l => mem'[x] = mem[x] /\ fd_peer'[x] = fd_peer[x],
           running' \subseteq running, pc'[k] \in {"events", "over"},
           \A j \in Tasks \ {k} : func'[j] = func[j] /\ pc'[j] = pc[j] /\ info'[j] = info[j]
    PROVE  Owned'
  <1>1. /\ \A f \in Fds : conn[f] # None => conn[f] \in Links
        /\ \A j \in running : pc[j] \in {"register", "refuse"} => info[j] \in Links
        /\ running \subseteq Tasks
    BY DEF PeerTypes, HeldMade, TaskTypes
  <1>2. \A x \in Links : \A j \in Tasks : Refuses(j, x) => Refuses(j, x)'
    BY DEF Refuses
  <1>3. \A j \in running' : pc'[j] \in {"register", "refuse", "free"} =>
            j \in running /\ pc[j] = pc'[j] /\ info'[j] = info[j]
    BY <1>1
  <1>4. \A f \in Fds : conn'[f] # None =>
            /\ phase'[conn'[f]] \in {"open", "closed"} /\ fd_peer'[conn'[f]] = f
            /\ mem'[conn'[f]] = "live" \/ \E j \in Tasks : Refuses(j, conn[f])'
    BY <1>1, <1>2 DEF Owned
  <1>5. \A j \in running' : pc'[j] = "refuse" => mem'[info'[j]] # "live"
    BY <1>1, <1>3 DEF Owned
  <1> QED BY <1>3, <1>4, <1>5 DEF Owned

\* A task that goes on to a place that fits still fits
LEMMA FitMoves ==
    ASSUME TaskTypes, TasksFit, NEW k \in running, NEW l, Goto(k, l), Fits(func[k], l),
           UNCHANGED <<queue, running, submitted, func>>,
           \A j \in Tasks : func[j] = "link" => info'[j] # None
    PROVE  TasksFit'
  <1>1. /\ pc'[k] = l /\ \A j \in Tasks \ {k} : pc'[j] = pc[j]
        /\ running \subseteq Tasks /\ k \in Tasks
    BY DEF Goto, TaskTypes
  <1>2. \A j \in running' : Fits(func'[j], pc'[j])
    BY <1>1 DEF TasksFit
  <1>3. \A j \in Tasks \ running' : pc'[j] \in {"none", "over", "cancelled"}
    BY <1>1 DEF TasksFit
  <1>4. \A j \in Tasks : pc'[j] # "none" => j <= submitted' - Len(queue')
    BY <1>1 DEF TasksFit, Fits
  <1> QED BY <1>2, <1>3, <1>4 DEF TasksFit, Pool!StartedOnce

\* If only task k, which neither refuses nor was cancelled, gets another link, one that
\* was made, still only those that refuse one or did have one that was not made
LEMMA HeldInfo ==
    ASSUME HeldMade, TaskTypes, NEW k \in Tasks, pc[k] \notin {"refuse", "cancelled"},
           func' = func, \A x \in Links : mem[x] # "none" => mem'[x] # "none",
           \A j \in Tasks \ {k} : pc'[j] = pc[j] /\ info'[j] = info[j],
           info'[k] # None => mem'[info'[k]] # "none"
    PROVE  \A j \in Tasks : info'[j] # None =>
               mem'[info'[j]] # "none"
               \/ (func'[j] = "accept" /\ pc'[j] \in {"refuse", "cancelled"})
  <1> SUFFICES ASSUME NEW j \in Tasks \ {k}, info'[j] # None
               PROVE  mem'[info'[j]] # "none"
                      \/ (func'[j] = "accept" /\ pc'[j] \in {"refuse", "cancelled"})
    OBVIOUS
  <1>1. info[j] \in Links /\ info'[j] = info[j] /\ pc'[j] = pc[j]
    BY DEF TaskTypes
  <1> QED BY <1>1 DEF HeldMade

-----------------------------------------------------------------------------
(* What epoll_ctl and close change *)

LEMMA Registers ==
    ASSUME EpollTypes, NEW c \in Links, NEW l \in Links, NEW t \in {"ET", "LT"},
           Registered(c, l, t), UNCHANGED <<backlog, knock, missed>>
    PROVE  EpollTypes' /\ \A x \in Links : data'[x] = data[x] \/ data'[x] = l
  <1>1. /\ watch' = [watch EXCEPT ![c] = t] /\ edge' = [edge EXCEPT ![c] = Events(c) # {}]
        /\ data' = [data EXCEPT ![c] = l] /\ l # None
    BY Bounds DEF Registered
  <1>2. /\ watch' \in [Links -> {"no", "ET", "LT"}] /\ edge' \in [Links -> BOOLEAN]
        /\ data' \in [Links -> Links \cup {None}]
    BY <1>1 DEF EpollTypes
  <1>3. \A x \in Links : (edge'[x] => watch'[x] # "no") /\ (watch'[x] # "no" => data'[x] # None)
    BY <1>1 DEF EpollTypes
  <1> QED BY <1>1, <1>2, <1>3 DEF EpollTypes

LEMMA Modifies ==
    ASSUME EpollTypes, PeerTypes, LinkTypes, NEW l \in Links, NEW t \in {"ET", "LT"},
           Modify(l, t) \/ UNCHANGED <<watch, edge, data>>, UNCHANGED <<backlog, knock, missed>>
    PROVE  EpollTypes' /\ \A x \in Links : data'[x] = data[x] \/ data'[x] = l
  <1> DEFINE c == conn[fd_peer[l]]
  <1>1. c \in Links \cup {None}
    BY DEF LinkTypes, PeerTypes
  <1>2. CASE c # None /\ Registered(c, l, t)
    BY <1>1, <1>2, Registers
  <1>3. CASE UNCHANGED <<watch, edge, data>>
    BY <1>3 DEF EpollTypes
  <1> QED BY <1>2, <1>3 DEF Modify

LEMMA Closes ==
    ASSUME EpollTypes, PeerTypes, TaskTypes, NEW k \in Tasks, Close(k),
           fd_peer[info[k]] \in Fds \cup {None}, UNCHANGED <<backlog, knock, missed>>
    PROVE  /\ PeerTypes' /\ EpollTypes'
           /\ conn'[fd_peer[info[k]]] = None
           /\ \A f \in Fds : conn'[f] = None \/ conn'[f] = conn[f]
           /\ \A l \in Links : phase'[l] = phase[l] \/ (phase'[l] = "closed" /\ l = Conn(k))
           /\ \A x \in Links : data'[x] = data[x] \/ data'[x] = None
  <1> DEFINE g == fd_peer[info[k]]
             c == Conn(k)
  <1>1. c = conn[g] /\ c \in Links \cup {None}
    BY DEF PeerTypes, Conn
  <1>2. CASE c = None
    <2>1. UNCHANGED <<peer, watch, edge, data>>
      BY <1>2 DEF Close
    <2> QED BY <2>1, <1>1, <1>2 DEF peer, PeerTypes, EpollTypes
  <1>3. CASE c # None
    <2>1. /\ phase' = [phase EXCEPT ![c] = "closed"] /\ conn' = [conn EXCEPT ![g] = None]
          /\ sent' = [sent EXCEPT ![c] = 0] /\ inbox' = [inbox EXCEPT ![c] = 0]
          /\ fin' = [fin EXCEPT ![c] = FALSE] /\ err' = [err EXCEPT ![c] = FALSE]
          /\ watch' = [watch EXCEPT ![c] = "no"] /\ edge' = [edge EXCEPT ![c] = FALSE]
          /\ data' = [data EXCEPT ![c] = None]
      BY <1>3 DEF Close
    <2>2. c \in Links
      BY <1>1, <1>3
    <2> HIDE DEF c, g
    <2>3. PeerTypes'
      <3>1. conn' \in [Fds \cup {None} -> Links \cup {None}] /\ conn'[None] = None
        BY <2>1 DEF PeerTypes
      <3>2. phase' \in [Links -> {"new", "queued", "aborted", "open", "closed"}]
        BY <2>1, <2>2 DEF PeerTypes
      <3>3. /\ sent' \in [Links -> 0 .. MaxBytes] /\ inbox' \in [Links -> 0 .. MaxBytes]
            /\ \A l \in Links : inbox'[l] <= sent'[l]
        BY <2>1, <2>2, Bounds DEF PeerTypes
      <3>4. fin' \in [Links -> BOOLEAN] /\ err' \in [Links -> BOOLEAN]
        BY <2>1, <2>2 DEF PeerTypes
      <3> QED BY <3>1, <3>2, <3>3, <3>4 DEF PeerTypes
    <2>4. EpollTypes'
      <3>1. /\ watch' \in [Links -> {"no", "ET", "LT"}] /\ edge' \in [Links -> BOOLEAN]
            /\ data' \in [Links -> Links \cup {None}]
        BY <2>1, <2>2 DEF EpollTypes
      <3>2. \A x \in Links : (edge'[x] => watch'[x] # "no")
                             /\ (watch'[x] # "no" => data'[x] # None)
        BY <2>1, <2>2 DEF EpollTypes
      <3> QED BY <3>1, <3>2 DEF EpollTypes
    <2>5. conn'[g] = None /\ \A f \in Fds : conn'[f] = None \/ conn'[f] = conn[f]
      BY <2>1, <1>1 DEF PeerTypes, g
    <2>6. \A l \in Links : phase'[l] = phase[l] \/ (phase'[l] = "closed" /\ l = c)
      BY <2>1, <2>2 DEF PeerTypes
    <2>7. \A x \in Links : data'[x] = data[x] \/ data'[x] = None
      BY <2>1, <2>2 DEF EpollTypes
    <2> QED BY <2>3, <2>4, <2>5, <2>6, <2>7 DEF c, g
  <1> QED BY <1>2, <1>3

-----------------------------------------------------------------------------
(* Every action keeps the invariant *)


\* A part of the invariant whose variables do not change stays true
LEMMA Untouched ==
    /\ TaskTypes /\ UNCHANGED << queue, running, submitted, halted, func, info, pc, buf
        >> => TaskTypes'
    /\ ServerTypes /\ UNCHANGED << state, orders, batch, g_processor_type_cur, crashed
        >> => ServerTypes'
    /\ LinkTypes /\ UNCHANGED << mem, lstate, fd_peer >> => LinkTypes'
    /\ PeerTypes /\ UNCHANGED << conn, phase, sent, inbox, fin, err >> => PeerTypes'
    /\ EpollTypes /\ UNCHANGED << backlog, knock, missed, watch, edge, data >> => EpollTypes'
    /\ HeldMade /\ UNCHANGED << func, pc, info, mem, batch, data >> => HeldMade'
    /\ TasksFit /\ UNCHANGED << queue, running, submitted, func, pc, info
        >> => TasksFit'
    /\ OneLoop /\ UNCHANGED << func, batch, halted, running, pc >> => OneLoop'
    /\ NotYet /\ UNCHANGED << orders, state, batch, running, pc, func >> => NotYet'
    /\ Queued /\ UNCHANGED << phase, mem, backlog >> => Queued'
    /\ Owned /\ UNCHANGED << conn, phase, mem, fd_peer, running, func, pc, info >> => Owned'
    /\ Due /\ UNCHANGED << orders, state, halted, backlog, knock, missed, batch, func,
        running, queue >> => Due'
  <1>1. TaskTypes /\ UNCHANGED << queue, running, submitted, halted, func, info, pc, buf
        >> => TaskTypes'
    BY DEF TaskTypes
  <1>2. ServerTypes /\ UNCHANGED << state, orders, batch, g_processor_type_cur, crashed
        >> => ServerTypes'
    BY DEF ServerTypes, Knock, States
  <1>3. LinkTypes /\ UNCHANGED << mem, lstate, fd_peer >> => LinkTypes'
    BY DEF LinkTypes
  <1>4. PeerTypes /\ UNCHANGED << conn, phase, sent, inbox, fin, err >> => PeerTypes'
    BY DEF PeerTypes
  <1>5. EpollTypes /\ UNCHANGED << backlog, knock, missed, watch, edge, data >> => EpollTypes'
    BY DEF EpollTypes
  <1>6. HeldMade /\ UNCHANGED << func, pc, info, mem, batch, data >> => HeldMade'
    BY DEF HeldMade, UsesInfo
  <1>7. TasksFit /\ UNCHANGED << queue, running, submitted, func, pc, info >> => TasksFit'
    BY DEF TasksFit, Fits, Pool!StartedOnce
  <1>8. OneLoop /\ UNCHANGED << func, batch, halted, running, pc >> => OneLoop'
    BY DEF OneLoop
  <1>9. NotYet /\ UNCHANGED << orders, state, batch, running, pc, func >> => NotYet'
    BY DEF NotYet
  <1>10. Queued /\ UNCHANGED << phase, mem, backlog >> => Queued'
    BY DEF Queued
  <1>11. Owned /\ UNCHANGED << conn, phase, mem, fd_peer, running, func, pc, info >> => Owned'
    BY DEF Owned, Refuses
  <1>12. Due /\ UNCHANGED << orders, state, halted, backlog, knock, missed, batch, func, running,
        queue >> => Due'
    BY DEF Due, Accepting
  <1> QED BY <1>1, <1>2, <1>3, <1>4, <1>5, <1>6, <1>7, <1>8, <1>9, <1>10, <1>11, <1>12

LEMMA StartTaskKeeps == ASSUME Inv, StartTask PROVE Inv'
  <1> USE Bounds DEF Inv, TypeOK
  <1>1. UNCHANGED << submitted, halted, func, info, buf, state, orders, batch,
          g_processor_type_cur, crashed, mem, lstate, fd_peer, conn, phase, sent, inbox,
          fin, err, backlog, knock, missed, watch, edge, data >>
    BY DEF StartTask, Pool!Start, epoll, link, peer, pool, server, task
  <1>2. ServerTypes' /\ LinkTypes' /\ PeerTypes' /\ EpollTypes' /\ Queued'
    BY <1>1, Untouched
  <1>3. Pool!Start /\ UNCHANGED <<func, info>> /\ Goto(Head(queue), Entry(func[Head(queue)]))
    BY DEF StartTask
  <1>4. TaskTypes'
    BY <1>1, <1>3, Starts DEF TaskTypes, Goto, Entry
  <1>5. HeldMade'
    <2> DEFINE h == Head(queue)
    <2>1. /\ h \in Tasks /\ UNCHANGED <<func, info, mem, batch, data>>
          /\ func[h] \in {"manager", "server", "accept", "link"} /\ pc[h] = "none"
          /\ Goto(h, Entry(func[h]))
      BY <1>1, <1>3, Starts DEF TaskTypes
    <2>2. Entry(func[h]) \in {"manager", "loop", "accept", "head"}
      BY <2>1 DEF Entry, TaskTypes
    <2> HIDE DEF h
    <2> QED BY <2>1, <2>2, Moves
  <1>6. TasksFit'
    <2> DEFINE h == Head(queue)
    <2>1. /\ h \in Tasks /\ func[h] # "none" /\ h \notin running
          /\ running' = running \cup {h} /\ h = submitted' - Len(queue')
          /\ Pool!StartedOnce' /\ \A i \in 1 .. Len(queue') : func'[queue'[i]] # "none"
          /\ \A j \in Tasks : j <= submitted - Len(queue) => j <= submitted' - Len(queue')
          /\ pc' = [pc EXCEPT ![h] = Entry(func[h])]
      BY <1>1, <1>3, Starts DEF Goto
    <2> HIDE DEF h
    <2>2. Fits(func[h], Entry(func[h])) /\ pc'[h] = Entry(func[h])
      BY <2>1 DEF Fits, Entry, TaskTypes
    <2>3. \A j \in Tasks \ {h} : pc'[j] = pc[j]
      BY <2>1 DEF TaskTypes
    <2>4. \A j \in running' : Fits(func'[j], pc'[j])
      BY <1>1, <2>1, <2>2, <2>3 DEF TasksFit, TaskTypes
    <2>5. \A j \in Tasks \ running' : pc'[j] \in {"none", "over", "cancelled"}
      BY <2>1, <2>3 DEF TasksFit
    <2>6. \A j \in Tasks : pc'[j] # "none" => j <= submitted' - Len(queue')
      <3> SUFFICES ASSUME NEW j \in Tasks, pc'[j] # "none", j # h
                   PROVE  j <= submitted' - Len(queue')
        BY <2>1, Starts, <1>1, <1>3 DEF TaskTypes, Tasks
      <3> QED BY <2>1, <2>3 DEF TasksFit
    <2> QED BY <1>1, <2>1, <2>4, <2>5, <2>6 DEF TasksFit
  <1>7. OneLoop'
    BY <1>1, <1>3, Starts DEF OneLoop, Goto
  <1>8. NotYet'
    BY <1>1, <1>3, Starts DEF NotYet, TaskTypes, Goto, Entry
  <1>9. Owned'
    <2> DEFINE h == Head(queue)
    <2>1. /\ running' = running \cup {h} /\ h \in Tasks /\ pc[h] = "none" /\ func[h] # "none"
          /\ pc' = [pc EXCEPT ![h] = Entry(func[h])] /\ running \subseteq Tasks
      BY <1>1, <1>3, Starts DEF Goto, TaskTypes
    <2>2. pc'[h] \in {"manager", "loop", "accept", "head"}
      BY <2>1 DEF TaskTypes, Entry
    <2> HIDE DEF h
    <2>3. \A j \in Tasks \ {h} : pc'[j] = pc[j]
      BY <2>1 DEF TaskTypes
    <2> QED BY <1>1, <2>1, <2>2, <2>3, OwnedStays
  <1>10. Due'
    BY <1>1, <1>3, Starts DEF Due, Accepting
  <1> QED BY <1>2, <1>4, <1>5, <1>6, <1>7, <1>8, <1>9, <1>10

LEMMA CancelTaskKeeps == ASSUME NEW k \in Tasks, Inv, CancelTask(k) PROVE Inv'
  <1> USE Bounds DEF Inv, TypeOK
  <1>1. UNCHANGED << queue, submitted, halted, func, info, state, orders,
          g_processor_type_cur, crashed, mem, lstate, fd_peer, conn, phase, sent, inbox,
          fin, err, backlog, knock, watch, edge, data >>
    BY DEF CancelTask, link, peer, Pool!End
  <1>2. LinkTypes' /\ PeerTypes' /\ Queued'
    BY <1>1, Untouched
  <1>3. /\ k \in running /\ running' = running \ {k} /\ running \subseteq Tasks
        /\ pc'[k] = "cancelled" /\ \A j \in Tasks \ {k} : pc'[j] = pc[j]
        /\ func[k] = "server" => batch' = {}
        /\ func[k] # "server" => batch' = batch
        /\ missed' \in BOOLEAN /\ (missed => missed')
        /\ func[k] \in {"server", "accept"} => missed'
    BY DEF CancelTask, Pool!End, Goto, TaskTypes, EpollTypes
  <1>4. TaskTypes'
    BY <1>1, <1>3 DEF CancelTask, Goto, TaskTypes
  <1>5. ServerTypes' /\ EpollTypes'
    BY <1>1, <1>3 DEF ServerTypes, EpollTypes, Knock
  <1>6. HeldMade'
    BY <1>1, <1>3 DEF HeldMade, UsesInfo
  <1>7. TasksFit'
    <2>1. \A j \in running' : Fits(func'[j], pc'[j])
      BY <1>1, <1>3 DEF TasksFit
    <2>2. \A j \in Tasks \ running' : pc'[j] \in {"none", "over", "cancelled"}
      BY <1>3 DEF TasksFit
    <2>3. \A j \in Tasks : pc'[j] # "none" => j <= submitted' - Len(queue')
      BY <1>1, <1>3 DEF TasksFit, Pool!StartedOnce
    <2> QED BY <1>1, <1>3, <2>1, <2>2, <2>3 DEF TasksFit, Pool!StartedOnce
  <1>8. OneLoop'
    BY <1>1, <1>3 DEF OneLoop
  <1>9. NotYet'
    BY <1>1, <1>3 DEF NotYet
  <1>10. Owned'
    BY <1>1, <1>3, OwnedStays
  <1>11. Due'
    <2> SUFFICES ASSUME ~missed', Accepting PROVE Accepting'
      BY <1>1, <1>3 DEF Due
    <2>1. PICK j \in Tasks : /\ func[j] = "accept"
                             /\ j \in running \/ \E i \in 1 .. Len(queue) : queue[i] = j
      BY DEF Accepting
    <2>2. j # k /\ func'[j] = "accept"
      BY <1>1, <1>3, <2>1
    <2> QED BY <1>1, <1>3, <2>1, <2>2 DEF Accepting
  <1> QED BY <1>2, <1>4, <1>5, <1>6, <1>7, <1>8, <1>9, <1>10, <1>11

LEMMA HaltKeeps == ASSUME Inv, Halt PROVE Inv'
  <1> USE Bounds DEF Inv, TypeOK
  <1>1. UNCHANGED << running, submitted, func, info, pc, buf, state, orders, batch,
          g_processor_type_cur, crashed, mem, lstate, fd_peer, conn, phase, sent, inbox,
          fin, err, backlog, knock, missed, watch, edge, data >>
    BY DEF Halt, Pool!Halt, epoll, link, peer, pool, server, task
  <1>2. ServerTypes' /\ LinkTypes' /\ PeerTypes' /\ EpollTypes' /\ HeldMade' /\
        NotYet' /\ Queued' /\ Owned'
    BY <1>1, Untouched
  <1>3. TaskTypes'
    BY <1>1 DEF Halt, Pool!Halt, TaskTypes
  <1>4. TasksFit'
    BY <1>1 DEF Halt, Pool!Halt, TasksFit, Fits, Pool!StartedOnce, TaskTypes
  <1>5. OneLoop'
    BY <1>1 DEF Halt, Pool!Halt, OneLoop
  <1>6. Due'
    BY <1>1 DEF Halt, Pool!Halt, Due, Accepting
  <1> QED BY <1>2, <1>3, <1>4, <1>5, <1>6

LEMMA SvrStartKeeps == ASSUME Inv, SvrStart PROVE Inv'
  <1> USE Bounds DEF Inv, TypeOK
  <1>1. UNCHANGED << running, halted, pc, buf, state, orders, batch,
          g_processor_type_cur, crashed, mem, lstate, fd_peer, conn, phase, sent, inbox,
          fin, err, backlog, knock, missed, watch, edge, data >>
    BY DEF SvrStart, AddTask, epoll, link, peer, pool, server, task, Pool!Submit
  <1>2. ServerTypes' /\ LinkTypes' /\ PeerTypes' /\ EpollTypes' /\ Queued'
    BY <1>1, Untouched
  <1>3. AddTask("server", None)
    BY DEF SvrStart
  <1>4. TaskTypes' /\ TasksFit' /\ HeldMade' /\ OneLoop'
    BY <1>1, <1>3, SubmitsKeep DEF SvrStart, Handled, HeldMade
  <1>5. NotYet'
    BY <1>1, <1>3, Submits DEF NotYet
  <1>6. Owned'
    BY <1>1, <1>3, OwnedSubmits
  <1>7. Due'
    BY <1>1, <1>3, Submits DEF Due, Accepting
  <1> QED BY <1>2, <1>3, <1>4, <1>5, <1>6, <1>7

LEMMA SetStateKeeps == ASSUME NEW s \in States, Inv, SetState(s) PROVE Inv'
  <1> USE Bounds DEF Inv, TypeOK
  <1>1. UNCHANGED << queue, running, submitted, halted, func, info, pc, buf, batch,
          g_processor_type_cur, crashed, mem, lstate, fd_peer, conn, phase, sent, inbox,
          fin, err, backlog, knock, missed, watch, edge, data >>
    BY DEF SetState, epoll, link, peer, pool, server, task
  <1>2. TaskTypes' /\ LinkTypes' /\ PeerTypes' /\ EpollTypes' /\ HeldMade' /\
        TasksFit' /\ OneLoop' /\ Queued' /\ Owned'
    BY <1>1, Untouched
  <1>3. ServerTypes'
    BY <1>1 DEF SetState, ServerTypes, Knock, States
  <1>4. NotYet'
    BY <1>1 DEF SetState, NotYet, ServerTypes
  <1>5. Due'
    BY <1>1 DEF SetState, Due, Accepting, ServerTypes
  <1> QED BY <1>2, <1>3, <1>4, <1>5

LEMMA ConnectKeeps == ASSUME NEW l \in Links, Inv, Connect(l) PROVE Inv'
  <1> USE Bounds DEF Inv, TypeOK
  <1>1. UNCHANGED << queue, running, submitted, halted, func, info, pc, buf, state,
          orders, batch, g_processor_type_cur, crashed, mem, lstate, fd_peer, conn,
          sent, inbox, fin, err, watch, edge, data >>
    BY DEF Connect, epoll, link, peer, pool, server, task
  <1>2. TaskTypes' /\ ServerTypes' /\ LinkTypes' /\ HeldMade' /\ TasksFit' /\
        OneLoop' /\ NotYet'
    BY <1>1, Untouched
  <1>3. PeerTypes'
    BY <1>1 DEF Connect, PeerTypes
  <1>4. EpollTypes'
    <2>1. backlog' = Append(backlog, l) /\ knock' = TRUE /\ missed' = FALSE
      BY DEF Connect
    <2>2. backlog' \in Seq(Links)
      BY <2>1 DEF EpollTypes
    <2> QED BY <1>1, <2>1, <2>2 DEF EpollTypes
  <1>5. Queued'
    <2>1. /\ phase[l] = "new" /\ phase' = [phase EXCEPT ![l] = "queued"]
          /\ backlog' = Append(backlog, l) /\ mem' = mem
      BY <1>1 DEF Connect
    <2>2. \A i \in 1 .. Len(backlog) : backlog[i] # l
      BY <2>1 DEF Queued
    <2>3. /\ backlog'[Len(backlog) + 1] = l
          /\ \A i \in 1 .. Len(backlog) : backlog'[i] = backlog[i] /\ backlog[i] \in Links
          /\ \A i \in 1 .. Len(backlog') : i \in 1 .. Len(backlog) \/ i = Len(backlog) + 1
      BY <2>1, Appended DEF EpollTypes
    <2>4. \A x \in Links : phase'[x] = "new" => mem'[x] = "none"
      BY <2>1 DEF Queued, PeerTypes
    <2>5. \A i \in 1 .. Len(backlog') :
              mem'[backlog'[i]] = "none" /\ phase'[backlog'[i]] \in {"queued", "aborted"}
      BY <2>1, <2>2, <2>3 DEF Queued, PeerTypes
    <2>6. \A i, j \in 1 .. Len(backlog') : backlog'[i] = backlog'[j] => i = j
      BY <2>2, <2>3 DEF Queued
    <2> QED BY <2>4, <2>5, <2>6 DEF Queued
  <1>6. Owned'
    <2>1. \A x \in Links : phase[x] \in {"open", "closed"} => phase'[x] \in {"open", "closed"}
      BY DEF Connect, PeerTypes
    <2> QED BY <1>1, <2>1, OwnedPhase
  <1>7. Due'
    BY <1>1 DEF Connect, Due, Accepting
  <1> QED BY <1>2, <1>3, <1>4, <1>5, <1>6, <1>7

LEMMA AbortKeeps == ASSUME NEW l \in Links, Inv, Abort(l) PROVE Inv'
  <1> USE Bounds DEF Inv, TypeOK
  <1>1. UNCHANGED << queue, running, submitted, halted, func, info, pc, buf, state,
          orders, batch, g_processor_type_cur, crashed, mem, lstate, fd_peer, conn,
          sent, inbox, fin, err, backlog, knock, missed, watch, edge, data >>
    BY DEF Abort, epoll, link, peer, pool, server, task
  <1>2. TaskTypes' /\ ServerTypes' /\ LinkTypes' /\ EpollTypes' /\ HeldMade' /\
        TasksFit' /\ OneLoop' /\ NotYet'
    BY <1>1, Untouched
  <1>3. PeerTypes'
    BY <1>1 DEF Abort, PeerTypes
  <1>4. Queued'
    BY <1>1 DEF Abort, Queued
  <1>5. Owned'
    <2>1. \A x \in Links : phase[x] \in {"open", "closed"} => phase'[x] \in {"open", "closed"}
      BY DEF Abort, PeerTypes
    <2> QED BY <1>1, <2>1, OwnedPhase
  <1>6. Due'
    BY <1>1 DEF Abort, Due, Accepting
  <1> QED BY <1>2, <1>3, <1>4, <1>5, <1>6

LEMMA SendKeeps == ASSUME NEW l \in Links, Inv, Send(l) PROVE Inv'
  <1> USE Bounds DEF Inv, TypeOK
  <1>1. UNCHANGED << queue, running, submitted, halted, func, info, pc, buf, state,
          orders, batch, g_processor_type_cur, crashed, mem, lstate, fd_peer, conn,
          phase, fin, err, backlog, knock, missed, watch, data >>
    BY DEF Send, epoll, link, peer, pool, server, task
  <1>2. TaskTypes' /\ ServerTypes' /\ LinkTypes' /\ HeldMade' /\ TasksFit' /\
        OneLoop' /\ NotYet' /\ Queued' /\ Owned' /\ Due'
    BY <1>1, Untouched
  <1>3. PeerTypes'
    BY <1>1 DEF Send, PeerTypes
  <1>4. EpollTypes'
    BY <1>1 DEF Send, Raise, EpollTypes
  <1> QED BY <1>2, <1>3, <1>4

LEMMA FinKeeps == ASSUME NEW l \in Links, Inv, Fin(l) PROVE Inv'
  <1> USE Bounds DEF Inv, TypeOK
  <1>1. UNCHANGED << queue, running, submitted, halted, func, info, pc, buf, state,
          orders, batch, g_processor_type_cur, crashed, mem, lstate, fd_peer, conn,
          phase, sent, inbox, err, backlog, knock, missed, watch, data >>
    BY DEF Fin, epoll, link, peer, pool, server, task
  <1>2. TaskTypes' /\ ServerTypes' /\ LinkTypes' /\ HeldMade' /\ TasksFit' /\
        OneLoop' /\ NotYet' /\ Queued' /\ Owned' /\ Due'
    BY <1>1, Untouched
  <1>3. PeerTypes'
    BY <1>1 DEF Fin, PeerTypes
  <1>4. EpollTypes'
    BY <1>1 DEF Fin, Raise, EpollTypes
  <1> QED BY <1>2, <1>3, <1>4

LEMMA BreakKeeps == ASSUME NEW l \in Links, Inv, Break(l) PROVE Inv'
  <1> USE Bounds DEF Inv, TypeOK
  <1>1. UNCHANGED << queue, running, submitted, halted, func, info, pc, buf, state,
          orders, batch, g_processor_type_cur, crashed, mem, lstate, fd_peer, conn,
          phase, sent, inbox, fin, backlog, knock, missed, watch, data >>
    BY DEF Break, epoll, link, peer, pool, server, task
  <1>2. TaskTypes' /\ ServerTypes' /\ LinkTypes' /\ HeldMade' /\ TasksFit' /\
        OneLoop' /\ NotYet' /\ Queued' /\ Owned' /\ Due'
    BY <1>1, Untouched
  <1>3. PeerTypes'
    BY <1>1 DEF Break, PeerTypes
  <1>4. EpollTypes'
    BY <1>1 DEF Break, Raise, EpollTypes
  <1> QED BY <1>2, <1>3, <1>4

LEMMA LoopOnKeeps == ASSUME NEW k \in Tasks, Inv, Loop(k), state # "STOP", ~halted PROVE
    Inv'
  <1> USE Bounds DEF Inv, TypeOK
  <1>1. UNCHANGED << queue, running, submitted, halted, func, info, buf, state, orders,
          batch, g_processor_type_cur, crashed, mem, lstate, fd_peer, conn, phase, sent,
          inbox, fin, err, backlog, knock, missed, watch, edge, data >>
    BY DEF Loop, epoll, link, peer, pool, server, task
  <1>2. ServerTypes' /\ LinkTypes' /\ PeerTypes' /\ EpollTypes' /\ Queued' /\ Due'
    BY <1>1, Untouched
  <1>3. TaskTypes'
    BY <1>1 DEF Loop, Goto, TaskTypes
  <1>4. HeldMade'
    <2>1. k \in running /\ pc[k] = "loop" /\ \E l \in {"wait"} : Goto(k, l)
      BY DEF Loop, At
    <2>2. info' = info \/ info' = [info EXCEPT ![k] = None]
      BY <1>1 DEF Loop
    <2> QED BY <1>1, <2>1, <2>2, Moves
  <1>5. TasksFit'
    <2>1. k \in running /\ Goto(k, "wait") /\ Fits(func[k], "wait")
      BY <1>1 DEF Loop, At, TasksFit, Fits, Takes
    <2>2. \A j \in Tasks : func[j] = "link" => info'[j] # None
      BY <1>1, <2>1 DEF Loop, At, TasksFit, Fits, TaskTypes, Takes
    <2> QED BY <1>1, <2>1, <2>2, FitMoves
  <1>6. OneLoop'
    BY <1>1 DEF Loop, Goto, OneLoop, TaskTypes, At
  <1>7. NotYet'
    BY <1>1 DEF NotYet
  <1>8. Owned'
    BY <1>1, OwnedMoves DEF Loop, At, TaskTypes
  <1> QED BY <1>2, <1>3, <1>4, <1>5, <1>6, <1>7, <1>8

LEMMA LoopEndsKeeps == ASSUME NEW k \in Tasks, Inv, Loop(k), state = "STOP" \/ halted
    PROVE Inv'
  <1> USE Bounds DEF Inv, TypeOK
  <1>1. UNCHANGED << queue, submitted, halted, state, orders, batch,
          g_processor_type_cur, crashed, mem, lstate, fd_peer, conn, phase, sent, inbox,
          fin, err, backlog, knock, missed, watch, edge, data >>
    BY DEF Loop, epoll, link, peer, pool, server, Return, Pool!End, Goto
  <1>2. ServerTypes' /\ LinkTypes' /\ PeerTypes' /\ EpollTypes' /\ Queued'
    BY <1>1, Untouched
  <1>3. k \in running /\ Return(k)
    BY DEF Loop, At
  <1>4. halted \/ func[k] # "server" \/ pc[k] = "loop"
    BY DEF Loop, At, TasksFit, Fits
  <1>5. \A l \in Links : mem[l] # "none" => mem'[l] # "none"
    BY <1>1
  <1>6. TaskTypes' /\ TasksFit' /\ HeldMade' /\ OneLoop' /\ NotYet'
    BY <1>1, <1>3, <1>4, <1>5, Returns, ReturnsKeep
  <1>7. Owned'
    BY <1>1, <1>3, OwnedReturns DEF Loop, At
  <1>8. Due'
    <2>1. func[k] # "accept"
      BY DEF Loop, At, TasksFit, Fits
    <2>2. Accepting => Accepting'
      BY <1>1, <1>3, Returns, <1>4, <1>5, <2>1
    <2> QED BY <1>1, <2>2 DEF Due
  <1> QED BY <1>2, <1>4, <1>5, <1>6, <1>7, <1>8

LEMMA EpollWaitKeeps == ASSUME NEW k \in Tasks, Inv, EpollWait(k) PROVE Inv'
  <1> USE Bounds DEF Inv, TypeOK
  <1>1. UNCHANGED << queue, running, submitted, halted, func, info, buf, state, orders,
          g_processor_type_cur, crashed, mem, lstate, fd_peer, conn, phase, sent, inbox,
          fin, err, backlog, missed, watch, data >>
    BY DEF EpollWait, epoll, link, peer, pool, server, task
  <1>2. LinkTypes' /\ PeerTypes' /\ Queued'
    BY <1>1, Untouched
  <1>3. TaskTypes'
    BY <1>1 DEF EpollWait, Goto, TaskTypes
  <1>4. ServerTypes'
    BY <1>1 DEF EpollWait, Ready, Knock, ServerTypes, States, EpollTypes
  <1>5. EpollTypes'
    BY <1>1 DEF EpollWait, EpollTypes
  <1>6. HeldMade'
    <2>1. k \in running /\ k \in Tasks /\ pc[k] = "wait" /\ pc' = [pc EXCEPT ![k] = "events"]
      BY DEF EpollWait, At, Goto
    <2>2. \A j \in Tasks : (pc'[j] \in {"register", "refuse"} \/ UsesInfo(j)') => info'[j] # None
      BY <1>1, <2>1 DEF HeldMade, UsesInfo, TaskTypes
    <2>3. \A j \in Tasks \ {k} : pc'[j] = pc[j] /\ info'[j] = info[j]
      BY <1>1, <2>1 DEF TaskTypes
    <2>4. info'[k] # None => mem'[info'[k]] # "none"
      BY <1>1, <2>1 DEF HeldMade
    <2>5. \A j \in Tasks : info'[j] # None =>
              mem'[info'[j]] # "none"
              \/ (func'[j] = "accept" /\ pc'[j] \in {"refuse", "cancelled"})
      BY <1>1, <2>1, <2>3, <2>4, HeldInfo
    <2>6. /\ \A e \in batch' : e.link # None => mem'[e.link] # "none"
          /\ \A c \in Links : data'[c] # None => mem'[data'[c]] # "none"
      BY <1>1 DEF EpollWait, Ready, Knock, HeldMade
    <2> QED BY <2>2, <2>5, <2>6 DEF HeldMade, UsesInfo
  <1>7. TasksFit'
    <2>1. k \in running /\ Goto(k, "events") /\ Fits(func[k], "events")
      BY <1>1 DEF EpollWait, At, TasksFit, Fits, Takes
    <2>2. \A j \in Tasks : func[j] = "link" => info'[j] # None
      BY <1>1, <2>1 DEF EpollWait, At, TasksFit, Fits, TaskTypes, Takes
    <2> QED BY <1>1, <2>1, <2>2, FitMoves
  <1>8. OneLoop'
    BY <1>1 DEF EpollWait, Goto, OneLoop, TaskTypes, TasksFit, Fits, At
  <1>9. NotYet'
    BY <1>1 DEF EpollWait, NotYet, At
  <1>10. Owned'
    BY <1>1, OwnedMoves DEF EpollWait, At, TaskTypes
  <1>11. Due'
    <2>1. batch = {} \/ halted
      BY DEF EpollWait, At, TasksFit, Fits, OneLoop
    <2>2. knock /\ backlog # <<>> => Knock \in batch'
      BY DEF EpollWait
    <2> QED BY <1>1, <2>1, <2>2 DEF Due, Accepting
  <1> QED BY <1>2, <1>3, <1>4, <1>5, <1>6, <1>7, <1>8, <1>9, <1>10, <1>11

LEMMA EventsDoneKeeps == ASSUME NEW k \in Tasks, Inv, EventsDone(k) PROVE Inv'
  <1> USE Bounds DEF Inv, TypeOK
  <1>1. UNCHANGED << queue, running, submitted, halted, func, info, buf, state, orders,
          batch, g_processor_type_cur, crashed, mem, lstate, fd_peer, conn, phase, sent,
          inbox, fin, err, backlog, knock, missed, watch, edge, data >>
    BY DEF EventsDone, epoll, link, peer, pool, server, task
  <1>2. ServerTypes' /\ LinkTypes' /\ PeerTypes' /\ EpollTypes' /\ Queued' /\ Due'
    BY <1>1, Untouched
  <1>3. TaskTypes'
    BY <1>1 DEF EventsDone, Goto, TaskTypes
  <1>4. HeldMade'
    <2>1. k \in running /\ pc[k] = "events" /\ \E l \in {"loop"} : Goto(k, l)
      BY DEF EventsDone, At
    <2>2. info' = info \/ info' = [info EXCEPT ![k] = None]
      BY <1>1 DEF EventsDone
    <2> QED BY <1>1, <2>1, <2>2, Moves
  <1>5. TasksFit'
    <2>1. k \in running /\ Goto(k, "loop") /\ Fits(func[k], "loop")
      BY <1>1 DEF EventsDone, At, TasksFit, Fits, Takes
    <2>2. \A j \in Tasks : func[j] = "link" => info'[j] # None
      BY <1>1, <2>1 DEF EventsDone, At, TasksFit, Fits, TaskTypes, Takes
    <2> QED BY <1>1, <2>1, <2>2, FitMoves
  <1>6. OneLoop'
    BY <1>1 DEF EventsDone, OneLoop
  <1>7. NotYet'
    BY <1>1 DEF EventsDone, Goto, NotYet
  <1>8. Owned'
    BY <1>1, OwnedMoves DEF EventsDone, At, TaskTypes
  <1> QED BY <1>2, <1>3, <1>4, <1>5, <1>6, <1>7, <1>8

LEMMA AcceptEventKeeps == ASSUME NEW k \in Tasks, NEW e \in batch, Inv, AcceptEvent(k,
    e) PROVE Inv'
  <1> USE Bounds DEF Inv, TypeOK
  <1>1. UNCHANGED << running, halted, pc, buf, state, orders, g_processor_type_cur,
          crashed, mem, lstate, fd_peer, conn, phase, sent, inbox, fin, err, backlog,
          knock, missed, watch, edge, data >>
    BY DEF AcceptEvent, AddTask, Handled, epoll, link, peer, pool, server, task,
           Pool!Submit
  <1>2. LinkTypes' /\ PeerTypes' /\ EpollTypes' /\ Queued'
    BY <1>1, Untouched
  <1>3. AddTask("accept", None)
    BY DEF AcceptEvent
  <1>4. TaskTypes' /\ TasksFit' /\ HeldMade' /\ OneLoop'
    BY <1>1, <1>3, SubmitsKeep DEF AcceptEvent, Handled, HeldMade
  <1>5. ServerTypes'
    BY <1>1 DEF AcceptEvent, Handled, ServerTypes, Knock, States
  <1>6. NotYet'
    BY <1>1 DEF NotYet
  <1>7. Owned'
    BY <1>1, <1>3, OwnedSubmits
  <1>8. Due'
    BY <1>1, <1>3, Submits DEF Due, Accepting
  <1> QED BY <1>2, <1>3, <1>4, <1>5, <1>6, <1>7, <1>8

LEMMA AcceptEventFailsKeeps == ASSUME NEW k \in Tasks, NEW e \in batch, Inv,
    AcceptEventFails(k, e) PROVE Inv'
  <1> USE Bounds DEF Inv, TypeOK
  <1>1. UNCHANGED << queue, running, submitted, halted, func, info, pc, buf, state, orders,
          g_processor_type_cur, crashed, mem, lstate, fd_peer, conn, phase, sent, inbox, fin, err,
          backlog, knock, watch, edge, data >>
    BY DEF AcceptEventFails, Handled, link, peer, pool, task
  <1>2. batch' \subseteq batch /\ missed' = TRUE
    BY DEF AcceptEventFails, Handled
  <1>3. TaskTypes' /\ LinkTypes' /\ PeerTypes' /\ TasksFit' /\ Queued' /\ Owned'
    BY <1>1, Untouched
  <1>4. ServerTypes' /\ EpollTypes'
    BY <1>1, <1>2 DEF ServerTypes, EpollTypes, Knock
  <1>5. HeldMade' /\ OneLoop' /\ NotYet' /\ Due'
    BY <1>1, <1>2 DEF HeldMade, UsesInfo, OneLoop, NotYet, Due
  <1> QED BY <1>3, <1>4, <1>5

LEMMA BusyEventKeeps == ASSUME NEW k \in Tasks, NEW e \in batch, Inv, BusyEvent(k, e)
    PROVE Inv'
  <1> USE Bounds DEF Inv, TypeOK
  <1>1. UNCHANGED << queue, running, submitted, halted, func, info, pc, buf, state,
          orders, g_processor_type_cur, crashed, mem, lstate, fd_peer, conn, phase,
          sent, inbox, fin, err, backlog, knock, missed >>
    BY DEF BusyEvent, Modify, Registered, Handled, epoll, link, peer, pool, server, task
  <1>2. TaskTypes' /\ LinkTypes' /\ PeerTypes' /\ TasksFit' /\ Queued' /\ Owned'
    BY <1>1, Untouched
  <1>3. ServerTypes'
    BY <1>1 DEF BusyEvent, Handled, ServerTypes, Knock, States
  <1>4. EpollTypes' /\ \A c \in Links : data'[c] = data[c] \/ data'[c] = e.link
    <2>1. e.link \in Links
      BY DEF BusyEvent, ServerTypes
    <2>2. Modify(e.link, "LT") \/ UNCHANGED <<watch, edge, data>>
      BY DEF BusyEvent
    <2> QED BY <1>1, <2>1, <2>2, Modifies
  <1>5. HeldMade'
    <2>1. batch' \subseteq batch /\ mem[e.link] = "live"
      BY DEF BusyEvent, Handled
    <2> QED BY <1>1, <1>4, <2>1 DEF HeldMade, UsesInfo
  <1>6. OneLoop'
    BY <1>1 DEF OneLoop
  <1>7. NotYet'
    BY <1>1 DEF NotYet
  <1>8. Due'
    BY <1>1 DEF BusyEvent, Handled, Due, Accepting, Knock
  <1> QED BY <1>2, <1>3, <1>4, <1>5, <1>6, <1>7, <1>8

LEMMA LinkEventKeeps == ASSUME NEW k \in Tasks, NEW e \in batch, Inv, LinkEvent(k, e)
    PROVE Inv'
  <1> USE Bounds DEF Inv, TypeOK
  <1>1. UNCHANGED << queue, running, submitted, halted, func, buf, state, orders,
          g_processor_type_cur, crashed, mem, lstate, fd_peer, conn, phase, sent, inbox,
          fin, err, backlog, knock, missed >>
    BY DEF LinkEvent, Modify, Registered, Handled, epoll, link, peer, pool, server, task
  <1>2. LinkTypes' /\ PeerTypes' /\ Queued'
    BY <1>1, Untouched
  <1>3. TaskTypes'
    BY <1>1 DEF LinkEvent, Goto, TaskTypes, ServerTypes
  <1>4. ServerTypes'
    BY <1>1 DEF LinkEvent, Handled, ServerTypes, Knock, States
  <1>5. EpollTypes' /\ \A c \in Links : data'[c] = data[c] \/ data'[c] = e.link
    <2>1. e.link \in Links
      BY DEF LinkEvent, ServerTypes
    <2>2. Modify(e.link, "ET") \/ UNCHANGED <<watch, edge, data>>
      BY DEF LinkEvent
    <2> QED BY <1>1, <2>1, <2>2, Modifies
  <1>6. HeldMade'
    <2>1. /\ batch' \subseteq batch /\ mem[e.link] = "live" /\ e.link \in Links
          /\ k \in running /\ pc[k] = "events"
      BY DEF LinkEvent, Handled, ServerTypes, At
    <2>2. info' = [info EXCEPT ![k] = e.link] /\ pc' = [pc EXCEPT ![k] = "add"]
      BY DEF LinkEvent, Goto
    <2>3. \A j \in Tasks : (pc'[j] \in {"register", "refuse"} \/ UsesInfo(j)') => info'[j] # None
      BY <2>1, <2>2 DEF HeldMade, UsesInfo, TaskTypes
    <2>4. /\ \A j \in Tasks \ {k} : pc'[j] = pc[j] /\ info'[j] = info[j]
          /\ info'[k] = e.link
      BY <2>2 DEF TaskTypes
    <2>5. \A j \in Tasks : info'[j] # None =>
              mem'[info'[j]] # "none"
              \/ (func'[j] = "accept" /\ pc'[j] \in {"refuse", "cancelled"})
      BY <1>1, <2>1, <2>4, HeldInfo
    <2>6. /\ \A x \in batch' : x.link # None => mem'[x.link] # "none"
          /\ \A c \in Links : data'[c] # None => mem'[data'[c]] # "none"
      BY <1>1, <1>5, <2>1 DEF HeldMade
    <2> QED BY <2>3, <2>5, <2>6 DEF HeldMade, UsesInfo
  <1>7. TasksFit'
    <2>1. k \in running /\ Goto(k, "add") /\ Fits(func[k], "add")
      BY <1>1 DEF LinkEvent, At, TasksFit, Fits, Takes
    <2>2. \A j \in Tasks : func[j] = "link" => info'[j] # None
      BY <1>1, <2>1 DEF LinkEvent, At, TasksFit, Fits, TaskTypes, Takes
    <2> QED BY <1>1, <2>1, <2>2, FitMoves
  <1>8. OneLoop'
    BY <1>1 DEF LinkEvent, Goto, OneLoop
  <1>9. NotYet'
    BY <1>1 DEF NotYet
  <1>10. Owned'
    BY <1>1, OwnedMoves DEF LinkEvent, At, TaskTypes
  <1>11. Due'
    BY <1>1 DEF LinkEvent, Handled, Due, Accepting, Knock
  <1> QED BY <1>2, <1>3, <1>4, <1>5, <1>6, <1>7, <1>8, <1>9, <1>10, <1>11

LEMMA AddProcessKeeps == ASSUME NEW k \in Tasks, Inv, AddProcess(k) PROVE Inv'
  <1> USE Bounds DEF Inv, TypeOK
  <1>1. UNCHANGED << running, halted, buf, state, orders, batch, g_processor_type_cur,
          crashed, mem, lstate, fd_peer, conn, phase, sent, inbox, fin, err, backlog,
          knock, missed, watch, edge, data >>
    BY DEF AddProcess, AddTask, epoll, link, peer, pool, server, task, Pool!Submit
  <1>2. ServerTypes' /\ LinkTypes' /\ PeerTypes' /\ EpollTypes' /\ Queued'
    BY <1>1, Untouched
  <1>3. AddTask("link", info[k]) /\ info[k] \in Links /\ func[k] = "server" /\ k \in running
    BY DEF AddProcess, At, HeldMade, UsesInfo, TaskTypes, TasksFit, Fits
  <1>4. TaskTypes' /\ TasksFit' /\ HeldMade' /\ OneLoop'
    BY <1>1, <1>3, SubmitsKeep DEF AddProcess, Handled, HeldMade
  <1>5. NotYet'
    BY <1>1 DEF AddProcess, NotYet, At
  <1>6. Owned'
    <2>1. /\ running' = running /\ running \subseteq Tasks
          /\ \A j \in Tasks : pc[j] # "none" => func'[j] = func[j] /\ info'[j] = info[j]
      BY <1>3, Submits DEF TaskTypes
    <2>2. pc[k] = "add" /\ pc'[k] = "mark" /\ \A j \in Tasks \ {k} : pc'[j] = pc[j]
      BY DEF AddProcess, At, Goto, TaskTypes
    <2> QED BY <1>1, <2>1, <2>2, OwnedStays
  <1>7. Due'
    BY <1>1, <1>3, Submits DEF Due, Accepting
  <1> QED BY <1>2, <1>3, <1>4, <1>5, <1>6, <1>7

LEMMA AddProcessFailsKeeps == ASSUME NEW k \in Tasks, Inv, AddProcessFails(k) PROVE Inv'
  <1> USE Bounds DEF Inv, TypeOK
  <1>1. UNCHANGED << queue, running, submitted, halted, func, buf, state, orders, batch,
          g_processor_type_cur, crashed, mem, lstate, fd_peer, conn, phase, sent, inbox,
          fin, err, backlog, knock, missed, watch, edge, data >>
    BY DEF AddProcessFails, epoll, link, peer, pool, server, task
  <1>2. ServerTypes' /\ LinkTypes' /\ PeerTypes' /\ EpollTypes' /\ Queued' /\ Due'
    BY <1>1, Untouched
  <1>3. TaskTypes'
    BY <1>1 DEF AddProcessFails, Goto, TaskTypes
  <1>4. HeldMade'
    <2>1. k \in running /\ pc[k] = "add" /\ \E l \in {"events"} : Goto(k, l)
      BY DEF AddProcessFails, At
    <2>2. info' = info \/ info' = [info EXCEPT ![k] = None]
      BY <1>1 DEF AddProcessFails
    <2> QED BY <1>1, <2>1, <2>2, Moves
  <1>5. TasksFit'
    <2>1. k \in running /\ Goto(k, "events") /\ Fits(func[k], "events")
      BY <1>1 DEF AddProcessFails, At, TasksFit, Fits, Takes
    <2>2. \A j \in Tasks : func[j] = "link" => info'[j] # None
      BY <1>1, <2>1 DEF AddProcessFails, At, TasksFit, Fits, TaskTypes, Takes
    <2> QED BY <1>1, <2>1, <2>2, FitMoves
  <1>6. OneLoop'
    BY <1>1 DEF AddProcessFails, Goto, OneLoop
  <1>7. NotYet'
    BY <1>1 DEF AddProcessFails, NotYet, At
  <1>8. Owned'
    BY <1>1, OwnedMoves DEF AddProcessFails, At, TaskTypes
  <1> QED BY <1>2, <1>3, <1>4, <1>5, <1>6, <1>7, <1>8

LEMMA MarkBusyKeeps == ASSUME NEW k \in Tasks, Inv, MarkBusy(k) PROVE Inv'
  <1> USE Bounds DEF Inv, TypeOK
  <1>1. UNCHANGED << queue, running, submitted, halted, func, buf, state, orders, batch,
          g_processor_type_cur, crashed, mem, fd_peer, conn, phase, sent, inbox, fin,
          err, backlog, knock, missed, watch, edge, data >>
    BY DEF MarkBusy, epoll, link, peer, pool, server, task
  <1>2. ServerTypes' /\ PeerTypes' /\ EpollTypes' /\ Queued' /\ Due'
    BY <1>1, Untouched
  <1>3. TaskTypes'
    BY <1>1 DEF MarkBusy, Goto, TaskTypes
  <1>4. LinkTypes'
    BY <1>1 DEF MarkBusy, LinkTypes
  <1>5. HeldMade'
    <2>1. k \in running /\ pc[k] = "mark" /\ \E l \in {"events"} : Goto(k, l)
      BY DEF MarkBusy, At
    <2>2. info' = info \/ info' = [info EXCEPT ![k] = None]
      BY <1>1 DEF MarkBusy
    <2> QED BY <1>1, <2>1, <2>2, Moves
  <1>6. TasksFit'
    <2>1. k \in running /\ Goto(k, "events") /\ Fits(func[k], "events")
      BY <1>1 DEF MarkBusy, At, TasksFit, Fits, Takes
    <2>2. \A j \in Tasks : func[j] = "link" => info'[j] # None
      BY <1>1, <2>1 DEF MarkBusy, At, TasksFit, Fits, TaskTypes, Takes
    <2> QED BY <1>1, <2>1, <2>2, FitMoves
  <1>7. OneLoop'
    BY <1>1 DEF MarkBusy, Goto, OneLoop
  <1>8. NotYet'
    BY <1>1 DEF MarkBusy, NotYet, At
  <1>9. Owned'
    BY <1>1, OwnedMoves DEF MarkBusy, At, TaskTypes
  <1> QED BY <1>2, <1>3, <1>4, <1>5, <1>6, <1>7, <1>8, <1>9

LEMMA ErrorEventKeeps == ASSUME NEW k \in Tasks, NEW e \in batch, Inv, ErrorEvent(k, e)
    PROVE Inv'
  <1> USE Bounds DEF Inv, TypeOK
  <1>1. UNCHANGED << queue, running, submitted, halted, func, buf, state, orders,
          g_processor_type_cur, crashed, mem, lstate, fd_peer, conn, phase, sent, inbox,
          fin, err, backlog, knock, missed, watch, edge, data >>
    BY DEF ErrorEvent, Handled, epoll, link, peer, pool, server, task
  <1>2. LinkTypes' /\ PeerTypes' /\ EpollTypes' /\ Queued'
    BY <1>1, Untouched
  <1>3. TaskTypes'
    BY <1>1 DEF ErrorEvent, Goto, TaskTypes, ServerTypes
  <1>4. ServerTypes'
    BY <1>1 DEF ErrorEvent, Handled, ServerTypes, Knock, States
  <1>5. HeldMade'
    <2>1. /\ batch' \subseteq batch /\ "IN" \notin e.events
          /\ k \in running /\ pc[k] = "events"
      BY DEF ErrorEvent, Handled, At
    <2>2. info' = [info EXCEPT ![k] = e.link] /\ pc' = [pc EXCEPT ![k] = "del"]
      BY DEF ErrorEvent, Goto
    <2>3. e.link \in Links /\ mem[e.link] # "none"
      BY <2>1, Bounds DEF ServerTypes, Knock, HeldMade
    <2>4. /\ \A j \in Tasks \ {k} : pc'[j] = pc[j] /\ info'[j] = info[j]
          /\ info'[k] = e.link
      BY <2>2 DEF TaskTypes
    <2>5. \A j \in Tasks : (pc'[j] \in {"register", "refuse"} \/ UsesInfo(j)') => info'[j] # None
      BY <2>3, <2>4 DEF HeldMade, UsesInfo
    <2>6. \A j \in Tasks : info'[j] # None =>
              mem'[info'[j]] # "none"
              \/ (func'[j] = "accept" /\ pc'[j] \in {"refuse", "cancelled"})
      BY <1>1, <2>1, <2>3, <2>4, HeldInfo
    <2> QED BY <1>1, <2>1, <2>5, <2>6 DEF HeldMade, UsesInfo
  <1>6. TasksFit'
    <2>1. k \in running /\ Goto(k, "del") /\ Fits(func[k], "del")
      BY <1>1 DEF ErrorEvent, At, TasksFit, Fits, Takes
    <2>2. \A j \in Tasks : func[j] = "link" => info'[j] # None
      BY <1>1, <2>1 DEF ErrorEvent, At, TasksFit, Fits, TaskTypes, Takes
    <2> QED BY <1>1, <2>1, <2>2, FitMoves
  <1>7. OneLoop'
    BY <1>1 DEF ErrorEvent, Goto, OneLoop
  <1>8. NotYet'
    BY <1>1 DEF NotYet
  <1>9. Owned'
    BY <1>1, OwnedMoves DEF ErrorEvent, At, TaskTypes
  <1>10. Due'
    BY <1>1 DEF ErrorEvent, Handled, Due, Accepting, Knock
  <1> QED BY <1>2, <1>3, <1>4, <1>5, <1>6, <1>7, <1>8, <1>9, <1>10

LEMMA AcceptOverKeeps == ASSUME NEW k \in Tasks, Inv, AcceptOver(k) PROVE Inv'
  <1> USE Bounds DEF Inv, TypeOK
  <1>1. UNCHANGED << queue, submitted, halted, state, orders, batch,
          g_processor_type_cur, crashed, mem, lstate, fd_peer, conn, phase, sent, inbox,
          fin, err, backlog, knock, missed, watch, edge, data >>
    BY DEF AcceptOver, epoll, link, peer, pool, server, Return, Pool!End, Goto
  <1>2. ServerTypes' /\ LinkTypes' /\ PeerTypes' /\ EpollTypes' /\ Queued'
    BY <1>1, Untouched
  <1>3. k \in running /\ Return(k)
    BY DEF AcceptOver, At
  <1>4. halted \/ func[k] # "server" \/ pc[k] = "loop"
    BY DEF AcceptOver, At, TasksFit, Fits
  <1>5. \A l \in Links : mem[l] # "none" => mem'[l] # "none"
    BY <1>1
  <1>6. TaskTypes' /\ TasksFit' /\ HeldMade' /\ OneLoop' /\ NotYet'
    BY <1>1, <1>3, <1>4, <1>5, Returns, ReturnsKeep
  <1>7. Owned'
    BY <1>1, <1>3, OwnedReturns DEF AcceptOver, At
  <1>8. Due'
    BY <1>1 DEF AcceptOver, Working, Due, Accepting, NotYet, At
  <1> QED BY <1>2, <1>4, <1>5, <1>6, <1>7, <1>8

LEMMA AcceptAbortedKeeps == ASSUME NEW k \in Tasks, Inv, AcceptAborted(k) PROVE Inv'
  <1> USE Bounds DEF Inv, TypeOK
  <1>1. UNCHANGED << queue, submitted, halted, state, orders, batch,
          g_processor_type_cur, crashed, mem, lstate, fd_peer, conn, phase, sent, inbox,
          fin, err, knock, watch, edge, data >>
    BY DEF AcceptAborted, Takes, epoll, link, peer, pool, server, Return, Pool!End, Goto
  <1>2. ServerTypes' /\ LinkTypes' /\ PeerTypes'
    BY <1>1, Untouched
  <1>3. k \in running /\ Return(k)
    BY DEF AcceptAborted, At, Takes
  <1>4. halted \/ func[k] # "server" \/ pc[k] = "loop"
    BY DEF AcceptAborted, At, TasksFit, Fits, Takes
  <1>5. \A l \in Links : mem[l] # "none" => mem'[l] # "none"
    BY <1>1
  <1>6. TaskTypes' /\ TasksFit' /\ HeldMade' /\ OneLoop' /\ NotYet'
    BY <1>1, <1>3, <1>4, <1>5, Returns, ReturnsKeep
  <1>7. EpollTypes'
    BY <1>1 DEF AcceptAborted, Takes, EpollTypes
  <1>8. Queued'
    BY <1>1, <1>3 DEF AcceptAborted, Takes, Queued, EpollTypes, Owned, At
  <1>9. Owned'
    BY <1>1, <1>3, OwnedReturns DEF AcceptAborted, Takes, At
  <1>10. Due'
    <2>1. ~missed' => backlog' = <<>>
      BY DEF AcceptAborted, Takes
    <2> QED BY <2>1 DEF Due
  <1> QED BY <1>2, <1>4, <1>5, <1>6, <1>7, <1>8, <1>9, <1>10

\* A task takes a connection from the queue
LEMMA TakesKeep ==
    ASSUME NEW k \in Tasks, Inv, Takes(k), NEW l, l = Head(backlog), NEW f, Lowest(f),
           phase[l] # "aborted", NEW p \in {"register", "refuse"}, Goto(k, p),
           phase' = [phase EXCEPT ![l] = "open"], conn' = [conn EXCEPT ![f] = l],
           fd_peer' = [fd_peer EXCEPT ![l] = f], info' = [info EXCEPT ![k] = l],
           \/ p = "register" /\ mem' = [mem EXCEPT ![l] = "live"]
              /\ lstate' = [lstate EXCEPT ![l] = "IDLE"]
           \/ p = "refuse" /\ mem' = mem /\ lstate' = lstate,
           UNCHANGED <<pool, func, buf, server, sent, inbox, fin, err, knock, missed,
                       watch, edge, data>>
    PROVE  Inv'
  <1> USE Bounds DEF Inv, TypeOK
  <1>1. UNCHANGED << queue, running, submitted, halted, func, buf, state, orders, batch,
          g_processor_type_cur, crashed, sent, inbox, fin, err, knock, missed, watch, edge, data
          >>
    BY DEF pool, server
  <1>2. /\ k \in running /\ pc[k] = "accept" /\ backlog # <<>> /\ backlog' = Tail(backlog)
        /\ f \in Fds /\ conn[f] = None /\ func[k] = "accept" /\ state = "RUNNING"
    BY DEF Takes, At, Lowest, FreeFds, TasksFit, Fits, Working
  <1>3. /\ l \in Links /\ 1 \in 1 .. Len(backlog) /\ l = backlog[1]
        /\ backlog' \in Seq(Links) /\ Len(backlog') = Len(backlog) - 1 /\ Len(backlog) \in Nat
        /\ \A i \in 1 .. Len(backlog') : backlog'[i] = backlog[i + 1] /\ i + 1 \in 1 .. Len(backlog)
    BY <1>2, Taken DEF EpollTypes
  <1>4. mem[l] = "none" /\ phase[l] = "queued" /\ \A i \in 1 .. Len(backlog') : backlog'[i] # l
    BY <1>3 DEF Queued
  <1>5. /\ pc'[k] = p /\ info'[k] = l /\ running \subseteq Tasks
        /\ \A j \in Tasks \ {k} : pc'[j] = pc[j] /\ info'[j] = info[j]
    BY DEF Goto, TaskTypes
  <1>6. /\ phase'[l] = "open" /\ fd_peer'[l] = f /\ conn'[f] = l
        /\ mem'[l] = IF p = "register" THEN "live" ELSE "none"
        /\ \A x \in Links : x # l => /\ phase'[x] = phase[x] /\ mem'[x] = mem[x]
                                       /\ fd_peer'[x] = fd_peer[x]
        /\ \A g \in Fds : g # f => conn'[g] = conn[g]
        /\ \A g \in Fds : conn[g] # None => conn[g] \in Links
    BY <1>2, <1>3, <1>4 DEF PeerTypes, LinkTypes
  <1>7. ServerTypes'
    BY <1>1, Untouched
  <1>8. TaskTypes'
    BY <1>1, <1>3 DEF Goto, TaskTypes
  <1>9. LinkTypes'
    <2>1. /\ mem' \in [Links -> {"none", "live", "freed"}]
          /\ lstate' \in [Links -> {"IDLE", "BUSY", "DISCONNECT"}]
          /\ fd_peer' \in [Links -> Fds \cup {None}]
      BY <1>2, <1>3 DEF LinkTypes
    <2>2. \A x \in Links : mem'[x] = "live" => fd_peer'[x] # None
      BY <1>2, <1>6 DEF LinkTypes
    <2> QED BY <2>1, <2>2 DEF LinkTypes
  <1>10. PeerTypes'
    BY <1>1, <1>2, <1>3 DEF PeerTypes
  <1>11. EpollTypes'
    BY <1>1, <1>3 DEF EpollTypes
  <1>12. HeldMade'
    <2>1. \A j \in Tasks : (pc'[j] \in {"register", "refuse"} \/ UsesInfo(j)') => info'[j] # None
      BY <1>3, <1>5 DEF HeldMade, UsesInfo
    <2>2. ASSUME NEW j \in Tasks, info'[j] # None
          PROVE  mem'[info'[j]] # "none"
                 \/ (func'[j] = "accept" /\ pc'[j] \in {"refuse", "cancelled"})
      <3>1. CASE j = k
        BY <3>1, <1>1, <1>2, <1>5, <1>6
      <3>2. CASE j # k
        <4>1. info'[j] = info[j] /\ info[j] \in Links /\ pc'[j] = pc[j]
          BY <2>2, <3>2, <1>5 DEF TaskTypes
        <4> QED BY <2>2, <4>1, <1>1, <1>4, <1>6 DEF HeldMade
      <3> QED BY <3>1, <3>2
    <2>3. /\ \A e \in batch' : e.link # None => mem'[e.link] # "none"
          /\ \A c \in Links : data'[c] # None => mem'[data'[c]] # "none"
      BY <1>1, <1>4, <1>6 DEF HeldMade, ServerTypes, EpollTypes
    <2> QED BY <2>1, <2>2, <2>3 DEF HeldMade, UsesInfo
  <1>13. TasksFit'
    <2>1. Fits(func[k], p)
      BY <1>2 DEF Fits
    <2>2. \A j \in Tasks : func[j] = "link" => info'[j] # None
      BY <1>2, <1>5 DEF TasksFit
    <2> QED BY <1>1, <1>2, <2>1, <2>2, FitMoves
  <1>14. OneLoop'
    BY <1>1, <1>2, <1>5 DEF OneLoop
  <1>15. NotYet'
    BY <1>1, <1>2 DEF NotYet
  <1>16. Queued'
    <2>1. \A x \in Links : phase'[x] = "new" => mem'[x] = "none"
      BY <1>6 DEF Queued
    <2>2. \A i \in 1 .. Len(backlog') :
              mem'[backlog'[i]] = "none" /\ phase'[backlog'[i]] \in {"queued", "aborted"}
      <3> SUFFICES ASSUME NEW i \in 1 .. Len(backlog')
                   PROVE  mem'[backlog'[i]] = "none" /\ phase'[backlog'[i]] \in {"queued", "aborted"}
        OBVIOUS
      <3>1. backlog'[i] \in Links /\ backlog'[i] # l /\ backlog'[i] = backlog[i + 1]
            /\ i + 1 \in 1 .. Len(backlog)
        BY <1>3, <1>4
      <3> QED BY <3>1, <1>6 DEF Queued
    <2>3. \A i, j \in 1 .. Len(backlog') : backlog'[i] = backlog'[j] => i = j
      <3> SUFFICES ASSUME NEW i \in 1 .. Len(backlog'), NEW j \in 1 .. Len(backlog'),
                          backlog'[i] = backlog'[j]
                   PROVE  i = j
        OBVIOUS
      <3>1. i + 1 = j + 1
        BY <1>3 DEF Queued
      <3> QED BY <3>1
    <2> QED BY <2>1, <2>2, <2>3 DEF Queued
  <1>17. Owned'
    <2>1. \A j \in running \ {k} : pc[j] \in {"register", "refuse"} => info[j] \in Links /\ info[j] # l
      <3>1. \A j \in running : pc[j] \in {"register", "refuse"} => phase[info[j]] # "queued"
        BY DEF Owned
      <3> QED BY <1>4, <1>5, <3>1 DEF HeldMade, TaskTypes
    <2>2. \A g \in Fds : conn[g] # None => conn[g] # l
      BY <1>4 DEF Owned
    <2>3. ASSUME NEW g \in Fds, conn'[g] # None
          PROVE  /\ phase'[conn'[g]] \in {"open", "closed"} /\ fd_peer'[conn'[g]] = g
                 /\ mem'[conn'[g]] = "live" \/ \E j \in Tasks : Refuses(j, conn[g])'
      <3>1. CASE g = f
        <4>1. p = "refuse" => Refuses(k, l)'
          BY <1>1, <1>2, <1>5 DEF Refuses
        <4> QED BY <3>1, <4>1, <1>6
      <3>2. CASE g # f
        <4>1. conn'[g] = conn[g] /\ conn[g] \in Links /\ conn[g] # l
          BY <3>2, <2>2, <2>3, <1>6
        <4>2. \A j \in Tasks : Refuses(j, conn[g]) => Refuses(j, conn[g])'
          BY <4>1, <1>1, <1>2, <1>5 DEF Refuses
        <4> QED BY <4>1, <4>2, <1>6, <2>3 DEF Owned
      <3> QED BY <3>1, <3>2
    <2>4. /\ \A j \in running' : pc'[j] \in {"register", "refuse"} =>
                 phase'[info'[j]] \in {"open", "closed"}
          /\ \A j \in running' : pc'[j] = "refuse" => mem'[info'[j]] # "live"
      BY <1>1, <1>5, <1>6, <2>1 DEF Owned
    <2>5. \A j \in running' : pc'[j] = "free" => \A g \in Fds : conn'[g] # info'[j]
      <3> SUFFICES ASSUME NEW j \in running, pc'[j] = "free", NEW g \in Fds
                   PROVE  conn'[g] # info'[j]
        BY <1>1
      <3>1. j # k /\ pc[j] = "free" /\ info'[j] = info[j] /\ j \in Tasks
        BY <1>5
      <3>2. info[j] # l
        BY <3>1, <1>3, <1>4 DEF HeldMade
      <3> QED BY <3>1, <3>2, <1>6 DEF Owned
    <2> QED BY <2>3, <2>4, <2>5 DEF Owned
  <1>18. Due'
    BY <1>1, <1>2 DEF Due, Accepting
  <1> QED BY <1>7, <1>8, <1>9, <1>10, <1>11, <1>12, <1>13, <1>14, <1>15, <1>16, <1>17, <1>18

LEMMA AcceptFailsKeeps == ASSUME NEW k \in Tasks, Inv, AcceptFails(k) PROVE Inv'
  <1>1. PICK f \in Fds : AcceptFails(k)!(f)
    BY DEF AcceptFails
  <1> QED BY <1>1, TakesKeep

LEMMA AcceptLinkKeeps == ASSUME NEW k \in Tasks, Inv, AcceptLink(k) PROVE Inv'
  <1>1. PICK f \in Fds : AcceptLink(k)!(f)
    BY DEF AcceptLink
  <1> QED BY <1>1, TakesKeep

LEMMA RegisterLinkKeeps == ASSUME NEW k \in Tasks, Inv, RegisterLink(k) PROVE Inv'
  <1> USE Bounds DEF Inv, TypeOK
  <1> DEFINE l == info[k]
  <1>a. /\ l \in Links /\ mem[l] # "none" /\ k \in running /\ pc[k] = "register"
        /\ pc' = [pc EXCEPT ![k] = "accept"] /\ info' = [info EXCEPT ![k] = None]
        /\ fd_peer[l] \in Fds \cup {None}
    BY DEF RegisterLink, At, HeldMade, TaskTypes, LinkTypes, Goto
  <1>b. Conn(k) \in Links /\ Registered(Conn(k), l, "ET")
    BY <1>a DEF RegisterLink, CanRegister, Conn, PeerTypes
  <1>1. UNCHANGED << queue, running, submitted, halted, func, buf, state, orders, batch,
          g_processor_type_cur, crashed, mem, lstate, fd_peer, conn, phase, sent, inbox,
          fin, err, backlog, knock, missed >>
    BY DEF RegisterLink, epoll, link, peer, pool, server, task
  <1>2. ServerTypes' /\ LinkTypes' /\ PeerTypes' /\ Queued' /\ Due'
    BY <1>1, Untouched
  <1>3. TaskTypes'
    BY <1>1 DEF RegisterLink, Goto, TaskTypes
  <1>4. EpollTypes' /\ \A c \in Links : data'[c] = data[c] \/ data'[c] = l
    BY <1>1, <1>a, <1>b, Registers
  <1>5. HeldMade'
    <2>1. \A j \in Tasks : (pc'[j] \in {"register", "refuse"} \/ UsesInfo(j)') => info'[j] # None
      BY <1>1, <1>a DEF HeldMade, UsesInfo, TaskTypes
    <2>2. pc[k] = "register" /\ info'[k] = None
          /\ \A j \in Tasks \ {k} : pc'[j] = pc[j] /\ info'[j] = info[j]
      BY <1>a DEF RegisterLink, At, TaskTypes
    <2>3. \A j \in Tasks : info'[j] # None =>
              mem'[info'[j]] # "none"
              \/ (func'[j] = "accept" /\ pc'[j] \in {"refuse", "cancelled"})
      BY <1>1, <2>2, HeldInfo
    <2>4. \A c \in Links : data'[c] # None => mem'[data'[c]] # "none"
      BY <1>1, <1>4, <1>a DEF HeldMade
    <2>5. \A e \in batch' : e.link # None => mem'[e.link] # "none"
      BY <1>1 DEF HeldMade
    <2> QED BY <2>1, <2>3, <2>4, <2>5 DEF HeldMade, UsesInfo
  <1>6. TasksFit'
    <2>1. k \in running /\ Goto(k, "accept") /\ Fits(func[k], "accept")
      BY <1>1 DEF RegisterLink, At, TasksFit, Fits, Takes
    <2>2. \A j \in Tasks : func[j] = "link" => info'[j] # None
      BY <1>1, <2>1 DEF RegisterLink, At, TasksFit, Fits, TaskTypes, Takes
    <2> QED BY <1>1, <2>1, <2>2, FitMoves
  <1>7. OneLoop'
    BY <1>1 DEF RegisterLink, Goto, OneLoop
  <1>8. NotYet'
    BY <1>1 DEF RegisterLink, NotYet, At
  <1>9. Owned'
    BY <1>1, <1>a, OwnedMoves DEF RegisterLink, TaskTypes
  <1> QED BY <1>2, <1>3, <1>4, <1>5, <1>6, <1>7, <1>8, <1>9

LEMMA RegisterFailsKeeps == ASSUME NEW k \in Tasks, Inv, RegisterFails(k) PROVE Inv'
  <1> USE Bounds DEF Inv, TypeOK
  <1> DEFINE l == info[k]
  <1>a. /\ l \in Links /\ k \in running /\ pc[k] = "register"
        /\ pc' = [pc EXCEPT ![k] = "refuse"] /\ func[k] = "accept" /\ Goto(k, "refuse")
        /\ mem' = [mem EXCEPT ![l] = "freed"] /\ lstate' = [lstate EXCEPT ![l] = "IDLE"]
        /\ mem[l] # "none" /\ phase[l] \in {"open", "closed"}
    <2>1. /\ k \in running /\ pc[k] = "register" /\ Goto(k, "refuse")
          /\ mem' = [mem EXCEPT ![l] = "freed"] /\ lstate' = [lstate EXCEPT ![l] = "IDLE"]
      BY DEF RegisterFails, At
    <2>2. func[k] = "accept" /\ phase[l] \in {"open", "closed"}
      BY <2>1 DEF TasksFit, Fits, Owned
    <2>3. l \in Links /\ mem[l] # "none"
      BY <2>1 DEF HeldMade, TaskTypes
    <2> QED BY <2>1, <2>2, <2>3 DEF Goto
  <1>1. UNCHANGED << queue, running, submitted, halted, func, info, buf, state, orders, batch,
          g_processor_type_cur, crashed, fd_peer, conn, phase, sent, inbox, fin, err, backlog,
          knock, missed, watch, edge, data >>
    BY DEF RegisterFails, epoll, pool, server, task, peer
  <1>2. ServerTypes' /\ PeerTypes' /\ EpollTypes' /\ Due'
    BY <1>1, Untouched
  <1>3. TaskTypes'
    BY <1>1, <1>a DEF TaskTypes
  <1> HIDE DEF l
  <1>4. /\ mem'[l] = "freed" /\ \A x \in Links : x # l => mem'[x] = mem[x]
        /\ pc'[k] = "refuse" /\ \A j \in Tasks \ {k} : pc'[j] = pc[j]
    BY <1>a DEF LinkTypes, TaskTypes
  <1>5. LinkTypes'
    BY <1>1, <1>a DEF LinkTypes
  <1>6. HeldMade'
    <2>1. \A j \in Tasks : (pc'[j] \in {"register", "refuse"} \/ UsesInfo(j)') => info'[j] # None
      BY <1>1, <1>4, <1>a DEF HeldMade, UsesInfo
    <2>2. \A x \in Links : mem[x] # "none" => mem'[x] # "none"
      BY <1>4
    <2>3. info'[k] # None => mem'[info'[k]] # "none"
      BY <1>1, <1>4 DEF l
    <2>4. \A j \in Tasks : info'[j] # None =>
              mem'[info'[j]] # "none"
              \/ (func'[j] = "accept" /\ pc'[j] \in {"refuse", "cancelled"})
      BY <1>1, <1>4, <1>a, <2>2, <2>3, HeldInfo
    <2>5. /\ \A e \in batch' : e.link # None => mem'[e.link] # "none"
          /\ \A c \in Links : data'[c] # None => mem'[data'[c]] # "none"
      BY <1>1, <2>2 DEF HeldMade, ServerTypes, EpollTypes
    <2> QED BY <2>1, <2>4, <2>5 DEF HeldMade, UsesInfo
  <1>7. TasksFit'
    <2>1. Fits(func[k], "refuse")
      BY <1>a DEF Fits
    <2>2. \A j \in Tasks : func[j] = "link" => info'[j] # None
      BY <1>1 DEF TasksFit
    <2> QED BY <1>1, <1>a, <2>1, <2>2, FitMoves
  <1>8. OneLoop'
    BY <1>1, <1>4, <1>a DEF OneLoop
  <1>9. NotYet'
    BY <1>1, <1>a DEF NotYet
  <1>10. Queued'
    <2>1. \A x \in Links : phase'[x] = "new" => mem'[x] = "none"
      BY <1>1, <1>4, <1>a DEF Queued
    <2>2. \A i \in 1 .. Len(backlog) : backlog[i] \in Links /\ backlog[i] # l
      BY <1>a DEF Queued, EpollTypes
    <2> QED BY <1>1, <1>4, <2>1, <2>2 DEF Queued
  <1>11. Owned'
    <2>1. \A f \in Fds : conn[f] # None => conn[f] \in Links
      BY DEF PeerTypes
    <2>4. \A f \in Fds : conn'[f] # None =>
              /\ phase'[conn'[f]] \in {"open", "closed"} /\ fd_peer'[conn'[f]] = f
              /\ mem'[conn'[f]] = "live" \/ \E j \in Tasks : Refuses(j, conn[f])'
      <3> SUFFICES ASSUME NEW f \in Fds, conn[f] # None
                   PROVE  /\ phase[conn[f]] \in {"open", "closed"} /\ fd_peer[conn[f]] = f
                          /\ mem'[conn[f]] = "live" \/ \E j \in Tasks : Refuses(j, conn[f])'
        BY <1>1
      <3>1. CASE conn[f] = l
        <4>1. Refuses(k, conn[f])'
          BY <3>1, <1>1, <1>4, <1>a DEF Refuses, l
        <4> QED BY <4>1, <1>a DEF Owned
      <3>2. CASE conn[f] # l
        <4>1. conn[f] \in Links /\ mem'[conn[f]] = mem[conn[f]]
          BY <2>1, <3>2, <1>4
        <4>2. \A j \in Tasks : Refuses(j, conn[f]) => Refuses(j, conn[f])'
          BY <1>1, <1>4, <1>a DEF Refuses
        <4> QED BY <4>1, <4>2 DEF Owned
      <3> QED BY <3>1, <3>2
    <2>5. running \subseteq Tasks
      BY DEF TaskTypes
    <2>6. \A j \in running' : pc'[j] \in {"register", "refuse"} =>
              phase'[info'[j]] \in {"open", "closed"}
      BY <1>1, <1>4, <1>a, <2>5 DEF Owned, l
    <2>7. \A j \in running' : pc'[j] = "refuse" => mem'[info'[j]] # "live"
      <3> SUFFICES ASSUME NEW j \in running, pc'[j] = "refuse", info[j] # l
                   PROVE  mem'[info[j]] # "live"
        BY <1>1, <1>4
      <3>1. j # k /\ pc[j] = "refuse" /\ info[j] \in Links
        BY <1>4, <2>5 DEF HeldMade, TaskTypes, l
      <3> QED BY <3>1, <1>4 DEF Owned
    <2>8. \A j \in running' : pc'[j] = "free" => \A f \in Fds : conn'[f] # info'[j]
      BY <1>1, <1>4, <2>5 DEF Owned
    <2> QED BY <2>4, <2>6, <2>7, <2>8 DEF Owned
  <1> QED BY <1>2, <1>3, <1>5, <1>6, <1>7, <1>8, <1>9, <1>10, <1>11

LEMMA RefuseKeeps == ASSUME NEW k \in Tasks, Inv, Refuse(k) PROVE Inv'
  <1> USE Bounds DEF Inv, TypeOK
  <1> DEFINE l == info[k]
  <1>a. /\ l \in Links /\ k \in running /\ pc[k] = "refuse" /\ Goto(k, "accept") /\ Close(k)
        /\ pc' = [pc EXCEPT ![k] = "accept"] /\ info' = [info EXCEPT ![k] = None]
        /\ fd_peer' = [fd_peer EXCEPT ![l] = None] /\ fd_peer[l] \in Fds \cup {None}
        /\ mem[l] # "live" /\ func[k] = "accept"
    <2>1. /\ k \in running /\ pc[k] = "refuse" /\ Goto(k, "accept") /\ Close(k)
          /\ info' = [info EXCEPT ![k] = None] /\ fd_peer' = [fd_peer EXCEPT ![l] = None]
      BY DEF Refuse, At
    <2>2. func[k] = "accept" /\ mem[l] # "live"
      BY <2>1 DEF TasksFit, Fits, Owned
    <2>3. l \in Links /\ fd_peer[l] \in Fds \cup {None}
      BY <2>1 DEF HeldMade, TaskTypes, LinkTypes
    <2> QED BY <2>1, <2>2, <2>3 DEF Goto
  <1>1. UNCHANGED << queue, running, submitted, halted, func, buf, state, orders, batch,
          g_processor_type_cur, crashed, mem, lstate, backlog, knock, missed >>
    BY DEF Refuse, pool, server
  <1>b. /\ PeerTypes' /\ EpollTypes'
        /\ conn'[fd_peer[l]] = None
        /\ \A f \in Fds : conn'[f] = None \/ conn'[f] = conn[f]
        /\ \A x \in Links : phase'[x] = phase[x] \/ (phase'[x] = "closed" /\ x = Conn(k))
        /\ \A x \in Links : data'[x] = data[x] \/ data'[x] = None
    BY <1>a, <1>1, Closes
  <1>c. \A x \in Links : phase[x] \in {"new", "queued", "aborted"} => phase'[x] = phase[x]
    BY <1>a, <1>b DEF Owned, Conn, PeerTypes
  <1>2. ServerTypes' /\ Due'
    BY <1>1, Untouched
  <1>3. TaskTypes'
    BY <1>1, <1>a DEF TaskTypes
  <1> HIDE DEF l
  <1>4. /\ fd_peer'[l] = None /\ \A x \in Links : x # l => fd_peer'[x] = fd_peer[x]
        /\ pc'[k] = "accept" /\ info'[k] = None
        /\ \A j \in Tasks \ {k} : pc'[j] = pc[j] /\ info'[j] = info[j]
    BY <1>a DEF LinkTypes, TaskTypes
  <1>5. LinkTypes'
    <2>1. fd_peer' \in [Links -> Fds \cup {None}]
      BY <1>a DEF LinkTypes
    <2>2. \A x \in Links : mem'[x] = "live" => fd_peer'[x] # None
      BY <1>1, <1>a, <1>4 DEF LinkTypes
    <2> QED BY <1>1, <2>1, <2>2 DEF LinkTypes
  <1>6. HeldMade'
    <2>1. \A c \in Links : data'[c] # None => mem'[data'[c]] # "none"
      BY <1>1, <1>b DEF HeldMade
    <2>2. \A j \in Tasks : (pc'[j] \in {"register", "refuse"} \/ UsesInfo(j)') => info'[j] # None
      BY <1>4 DEF HeldMade, UsesInfo
    <2>3. \A j \in Tasks : info'[j] # None =>
              mem'[info'[j]] # "none"
              \/ (func'[j] = "accept" /\ pc'[j] \in {"refuse", "cancelled"})
      BY <1>1, <1>4 DEF HeldMade
    <2>4. \A e \in batch' : e.link # None => mem'[e.link] # "none"
      BY <1>1 DEF HeldMade
    <2> QED BY <2>1, <2>2, <2>3, <2>4 DEF HeldMade, UsesInfo
  <1>7. TasksFit'
    <2>1. Fits(func[k], "accept")
      BY <1>a DEF Fits
    <2>2. \A j \in Tasks : func[j] = "link" => info'[j] # None
      BY <1>4, <1>a DEF TasksFit
    <2> QED BY <1>1, <1>a, <2>1, <2>2, FitMoves
  <1>8. OneLoop'
    BY <1>1, <1>4, <1>a DEF OneLoop
  <1>9. NotYet'
    BY <1>1, <1>a DEF NotYet
  <1>10. Queued'
    <2>1. \A x \in Links : phase'[x] = "new" => mem'[x] = "none"
      BY <1>1, <1>b DEF Queued, PeerTypes
    <2>2. \A i \in 1 .. Len(backlog) :
              mem'[backlog[i]] = "none" /\ phase'[backlog[i]] \in {"queued", "aborted"}
      BY <1>1, <1>c DEF Queued, EpollTypes
    <2> QED BY <1>1, <2>1, <2>2 DEF Queued
  <1>11. Owned'
    <2>1. \A f \in Fds : conn'[f] # None =>
              /\ conn'[f] = conn[f] /\ conn[f] \in Links /\ f # fd_peer[l]
              /\ fd_peer[conn[f]] = f /\ conn[f] # l
      BY <1>b DEF PeerTypes, Owned
    <2>2. \A x \in Links : \A j \in Tasks : x # l /\ Refuses(j, x) => Refuses(j, x)'
      BY <1>1, <1>4 DEF Refuses, l
    <2>3. \A x \in Links : phase[x] \in {"open", "closed"} => phase'[x] \in {"open", "closed"}
      BY <1>b
    <2>4. \A f \in Fds : conn'[f] # None =>
              /\ phase'[conn'[f]] \in {"open", "closed"} /\ fd_peer'[conn'[f]] = f
              /\ mem'[conn'[f]] = "live" \/ \E j \in Tasks : Refuses(j, conn[f])'
      BY <1>1, <1>4, <2>1, <2>2, <2>3 DEF Owned
    <2>5. running \subseteq Tasks
      BY DEF TaskTypes
    <2>6. \A j \in running' : pc'[j] \in {"register", "refuse"} =>
              phase'[info'[j]] \in {"open", "closed"} /\ (pc'[j] = "refuse" => mem'[info'[j]] # "live")
      <3> SUFFICES ASSUME NEW j \in running, pc'[j] \in {"register", "refuse"}
                   PROVE  /\ phase'[info'[j]] \in {"open", "closed"}
                          /\ pc'[j] = "refuse" => mem'[info'[j]] # "live"
        BY <1>1
      <3>1. j # k /\ pc[j] = pc'[j] /\ info'[j] = info[j] /\ info[j] \in Links
        BY <1>4, <2>5 DEF HeldMade, TaskTypes
      <3> QED BY <3>1, <1>1, <2>3 DEF Owned
    <2>7. \A j \in running' : pc'[j] = "free" => \A f \in Fds : conn'[f] # info'[j]
      <3> SUFFICES ASSUME NEW j \in running, pc'[j] = "free", NEW f \in Fds
                   PROVE  conn'[f] # info'[j]
        BY <1>1
      <3>1. j # k /\ pc[j] = "free" /\ info'[j] = info[j] /\ info[j] # None
        BY <1>4, <2>5 DEF HeldMade, UsesInfo
      <3> QED BY <3>1, <2>1 DEF Owned
    <2> QED BY <2>4, <2>6, <2>7 DEF Owned
  <1> QED BY <1>2, <1>3, <1>b, <1>5, <1>6, <1>7, <1>8, <1>9, <1>10, <1>11

LEMMA ProcessTestKeeps == ASSUME NEW k \in Tasks, Inv, ProcessTest(k) PROVE Inv'
  <1> USE Bounds DEF Inv, TypeOK
  <1>1. UNCHANGED << queue, running, submitted, halted, func, info, buf, state, orders,
          batch, g_processor_type_cur, crashed, mem, lstate, fd_peer, conn, phase, sent,
          inbox, fin, err, backlog, knock, missed, watch, edge, data >>
    BY DEF ProcessTest, epoll, link, peer, pool, server, task
  <1>2. ServerTypes' /\ LinkTypes' /\ PeerTypes' /\ EpollTypes' /\ Queued' /\ Due'
    BY <1>1, Untouched
  <1>3. TaskTypes'
    BY <1>1 DEF ProcessTest, Goto, TaskTypes
  <1>4. HeldMade'
    <2>1. k \in running /\ pc[k] = "head" /\ \E l \in {"postproc", "read"} : Goto(k, l)
      BY DEF ProcessTest, At
    <2>2. info' = info \/ info' = [info EXCEPT ![k] = None]
      BY <1>1 DEF ProcessTest
    <2>3. info'[k] # None
      BY <1>1, <2>1 DEF HeldMade, UsesInfo, TasksFit, Fits, TaskTypes
    <2> QED BY <1>1, <2>1, <2>2, <2>3, Moves
  <1>5. TasksFit'
    <2>1. k \in running /\ \E l \in {"postproc", "read"} : Goto(k, l) /\ Fits(func[k], l)
      BY <1>1 DEF ProcessTest, At, TasksFit, Fits
    <2>2. \A j \in Tasks : func[j] = "link" => info'[j] # None
      BY <1>1, <2>1 DEF ProcessTest, At, TasksFit, Fits, TaskTypes, Takes
    <2> QED BY <1>1, <2>1, <2>2, FitMoves
  <1>6. OneLoop'
    BY <1>1 DEF ProcessTest, Goto, OneLoop
  <1>7. NotYet'
    BY <1>1 DEF ProcessTest, NotYet, At
  <1>8. Owned'
    BY <1>1, OwnedMoves DEF ProcessTest, At, TaskTypes
  <1> QED BY <1>2, <1>3, <1>4, <1>5, <1>6, <1>7, <1>8

LEMMA ReadKeeps == ASSUME NEW k \in Tasks, Inv, Read(k) PROVE Inv'
  <1> USE Bounds DEF Inv, TypeOK
  <1>1. UNCHANGED << queue, running, submitted, halted, func, info, pc, state, orders,
          batch, g_processor_type_cur, crashed, mem, lstate, fd_peer, conn, phase, sent,
          fin, err, backlog, knock, missed, watch, edge, data >>
    BY DEF Read, epoll, link, peer, pool, server, task
  <1>2. ServerTypes' /\ LinkTypes' /\ EpollTypes' /\ HeldMade' /\ TasksFit' /\
        OneLoop' /\ NotYet' /\ Queued' /\ Owned' /\ Due'
    BY <1>1, Untouched
  <1>3. TaskTypes' /\ PeerTypes'
    <2> DEFINE c == Conn(k)
               r == BUFSIZE - buf[k]
               n == IF inbox[c] < r THEN inbox[c] ELSE r
    <2>1. /\ c # None /\ buf[k] < BUFSIZE
          /\ buf' = [buf EXCEPT ![k] = buf[k] + n]
          /\ inbox' = [inbox EXCEPT ![c] = inbox[c] - n]
      BY DEF Read, CanRead
    <2>2. fd_peer[info[k]] \in Fds \cup {None}
      BY DEF Read, At, HeldMade, UsesInfo, TaskTypes, LinkTypes
    <2>3. c \in Links
      BY <2>1, <2>2 DEF Conn, PeerTypes
    <2>4. /\ buf[k] \in 0 .. BUFSIZE /\ inbox[c] \in 0 .. MaxBytes /\ sent[c] \in 0 .. MaxBytes
          /\ inbox[c] <= sent[c]
      BY <2>3 DEF TaskTypes, PeerTypes
    <2> HIDE DEF c
    <2>5. /\ buf[k] + n \in 0 .. BUFSIZE
          /\ inbox[c] - n \in 0 .. MaxBytes /\ inbox[c] - n <= sent[c]
      BY <2>1, <2>4, Bounds
    <2> HIDE DEF n, r
    <2>6. TaskTypes'
      BY <1>1, <2>1, <2>5 DEF TaskTypes
    <2>7. /\ inbox' \in [Links -> 0 .. MaxBytes]
          /\ \A l \in Links : inbox'[l] <= sent[l]
      BY <2>1, <2>3, <2>5 DEF PeerTypes
    <2> QED BY <1>1, <2>6, <2>7 DEF PeerTypes
  <1>4. PeerTypes'
    BY <1>3
  <1> QED BY <1>2, <1>3, <1>4

LEMMA ReadDoneKeeps == ASSUME NEW k \in Tasks, Inv, ReadDone(k) PROVE Inv'
  <1> USE Bounds DEF Inv, TypeOK
  <1>1. UNCHANGED << queue, running, submitted, halted, func, info, state, orders,
          batch, g_processor_type_cur, crashed, mem, fd_peer, conn, phase, sent, inbox,
          fin, err, backlog, knock, missed, watch, edge, data >>
    BY DEF ReadDone, epoll, link, peer, pool, server, task
  <1>2. ServerTypes' /\ PeerTypes' /\ EpollTypes' /\ Queued' /\ Due'
    BY <1>1, Untouched
  <1>3. TaskTypes'
    <2>1. /\ \E l \in {"head", "write", "postproc"} : pc' = [pc EXCEPT ![k] = l]
          /\ buf' = buf \/ buf' = [buf EXCEPT ![k] = 0]
      BY DEF ReadDone, Goto
    <2>2. buf' \in [Tasks -> 0 .. BUFSIZE]
      <3>1. 0 \in 0 .. BUFSIZE /\ buf \in [Tasks -> 0 .. BUFSIZE]
        BY Bounds DEF TaskTypes
      <3> QED BY <2>1, <3>1
    <2> QED BY <1>1, <2>1, <2>2 DEF TaskTypes
  <1>4. LinkTypes'
    <2>1. lstate' = lstate \/ lstate' = [lstate EXCEPT ![info[k]] = "DISCONNECT"]
      BY DEF ReadDone
    <2> QED BY <1>1, <2>1 DEF LinkTypes
  <1>5. HeldMade'
    <2>1. k \in running /\ pc[k] = "read" /\ \E l \in {"head", "write", "postproc"} : Goto(k, l)
      BY DEF ReadDone, At
    <2>2. info' = info \/ info' = [info EXCEPT ![k] = None]
      BY <1>1 DEF ReadDone
    <2>3. info'[k] # None
      BY <1>1, <2>1 DEF HeldMade, UsesInfo, TasksFit, Fits, TaskTypes
    <2> QED BY <1>1, <2>1, <2>2, <2>3, Moves
  <1>6. TasksFit'
    <2>1. k \in running /\ \E l \in {"head", "write", "postproc"} : Goto(k, l) /\ Fits(func[k], l)
      BY <1>1 DEF ReadDone, At, TasksFit, Fits
    <2>2. \A j \in Tasks : func[j] = "link" => info'[j] # None
      BY <1>1, <2>1 DEF ReadDone, At, TasksFit, Fits, TaskTypes, Takes
    <2> QED BY <1>1, <2>1, <2>2, FitMoves
  <1>7. OneLoop'
    BY <1>1 DEF ReadDone, Goto, OneLoop, TaskTypes
  <1>8. NotYet'
    BY <1>1 DEF ReadDone, NotYet, At
  <1>9. Owned'
    BY <1>1, OwnedMoves DEF ReadDone, At, TaskTypes
  <1> QED BY <1>2, <1>3, <1>4, <1>5, <1>6, <1>7, <1>8, <1>9

LEMMA WriteKeeps == ASSUME NEW k \in Tasks, Inv, Write(k) PROVE Inv'
  <1> USE Bounds DEF Inv, TypeOK
  <1>1. UNCHANGED << queue, running, submitted, halted, func, info, pc, state, orders,
          batch, g_processor_type_cur, crashed, mem, lstate, fd_peer, conn, phase, sent,
          inbox, fin, err, backlog, knock, missed, watch, edge, data >>
    BY DEF Write, epoll, link, peer, pool, server, task
  <1>2. ServerTypes' /\ LinkTypes' /\ PeerTypes' /\ EpollTypes' /\ HeldMade' /\
        TasksFit' /\ OneLoop' /\ NotYet' /\ Queued' /\ Owned' /\ Due'
    BY <1>1, Untouched
  <1>3. TaskTypes'
    BY <1>1 DEF Write, TaskTypes
  <1> QED BY <1>2, <1>3

LEMMA WriteDoneKeeps == ASSUME NEW k \in Tasks, Inv, WriteDone(k) PROVE Inv'
  <1> USE Bounds DEF Inv, TypeOK
  <1>1. UNCHANGED << queue, running, submitted, halted, func, info, state, orders,
          batch, g_processor_type_cur, crashed, mem, fd_peer, conn, phase, sent, inbox,
          fin, err, backlog, knock, missed, watch, edge, data >>
    BY DEF WriteDone, epoll, link, peer, pool, server, task
  <1>2. ServerTypes' /\ PeerTypes' /\ EpollTypes' /\ Queued' /\ Due'
    BY <1>1, Untouched
  <1>3. TaskTypes'
    <2>1. /\ pc' = [pc EXCEPT ![k] = "head"] \/ pc' = [pc EXCEPT ![k] = "postproc"]
          /\ buf' = buf \/ buf' = [buf EXCEPT ![k] = 0]
      BY DEF WriteDone, Goto
    <2>2. buf' \in [Tasks -> 0 .. BUFSIZE]
      <3>1. 0 \in 0 .. BUFSIZE /\ buf \in [Tasks -> 0 .. BUFSIZE]
        BY Bounds DEF TaskTypes
      <3> QED BY <2>1, <3>1
    <2> QED BY <1>1, <2>1, <2>2 DEF TaskTypes
  <1>4. LinkTypes'
    BY <1>1 DEF WriteDone, LinkTypes, At
  <1>5. HeldMade'
    <2>1. k \in running /\ pc[k] = "write" /\ \E l \in {"head", "postproc"} : Goto(k, l)
      BY DEF WriteDone, At
    <2>2. info' = info \/ info' = [info EXCEPT ![k] = None]
      BY <1>1 DEF WriteDone
    <2>3. info'[k] # None
      BY <1>1, <2>1 DEF HeldMade, UsesInfo, TasksFit, Fits, TaskTypes
    <2> QED BY <1>1, <2>1, <2>2, <2>3, Moves
  <1>6. TasksFit'
    <2>1. k \in running /\ \E l \in {"head", "postproc"} : Goto(k, l) /\ Fits(func[k], l)
      BY <1>1 DEF WriteDone, At, TasksFit, Fits
    <2>2. \A j \in Tasks : func[j] = "link" => info'[j] # None
      BY <1>1, <2>1 DEF WriteDone, At, TasksFit, Fits, TaskTypes, Takes
    <2> QED BY <1>1, <2>1, <2>2, FitMoves
  <1>7. OneLoop'
    BY <1>1 DEF WriteDone, Goto, OneLoop, TaskTypes
  <1>8. NotYet'
    BY <1>1 DEF WriteDone, NotYet, At
  <1>9. Owned'
    BY <1>1, OwnedMoves DEF WriteDone, At, TaskTypes
  <1> QED BY <1>2, <1>3, <1>4, <1>5, <1>6, <1>7, <1>8, <1>9

LEMMA PostprocKeeps == ASSUME NEW k \in Tasks, Inv, Postproc(k) PROVE Inv'
  <1> USE Bounds DEF Inv, TypeOK
  <1>1. UNCHANGED << queue, running, submitted, halted, func, info, buf, state, orders,
          batch, g_processor_type_cur, crashed, mem, lstate, fd_peer, conn, phase, sent,
          inbox, fin, err, backlog, knock, missed, watch, edge, data >>
    BY DEF Postproc, epoll, link, peer, pool, server, task
  <1>2. ServerTypes' /\ LinkTypes' /\ PeerTypes' /\ EpollTypes' /\ Queued' /\ Due'
    BY <1>1, Untouched
  <1>3. TaskTypes'
    BY <1>1 DEF Postproc, Goto, TaskTypes
  <1>4. HeldMade'
    <2>1. k \in running /\ pc[k] = "postproc" /\ \E l \in {"del", "idle"} : Goto(k, l)
      BY DEF Postproc, At
    <2>2. info' = info \/ info' = [info EXCEPT ![k] = None]
      BY <1>1 DEF Postproc
    <2>3. info'[k] # None
      BY <1>1, <2>1 DEF HeldMade, UsesInfo, TasksFit, Fits, TaskTypes
    <2> QED BY <1>1, <2>1, <2>2, <2>3, Moves
  <1>5. TasksFit'
    <2>1. k \in running /\ \E l \in {"del", "idle"} : Goto(k, l) /\ Fits(func[k], l)
      BY <1>1 DEF Postproc, At, TasksFit, Fits
    <2>2. \A j \in Tasks : func[j] = "link" => info'[j] # None
      BY <1>1, <2>1 DEF Postproc, At, TasksFit, Fits, TaskTypes, Takes
    <2> QED BY <1>1, <2>1, <2>2, FitMoves
  <1>6. OneLoop'
    BY <1>1 DEF Postproc, Goto, OneLoop
  <1>7. NotYet'
    BY <1>1 DEF Postproc, NotYet, At
  <1>8. Owned'
    BY <1>1, OwnedMoves DEF Postproc, At, TaskTypes
  <1> QED BY <1>2, <1>3, <1>4, <1>5, <1>6, <1>7, <1>8

LEMMA IdleKeeps == ASSUME NEW k \in Tasks, Inv, Idle(k) PROVE Inv'
  <1> USE Bounds DEF Inv, TypeOK
  <1>1. UNCHANGED << queue, submitted, halted, state, orders, batch,
          g_processor_type_cur, crashed, mem, fd_peer, conn, phase, sent, inbox, fin,
          err, backlog, knock, missed, watch, edge, data >>
    BY DEF Idle, epoll, link, peer, pool, server, Return, Pool!End, Goto
  <1>2. ServerTypes' /\ PeerTypes' /\ EpollTypes' /\ Queued'
    BY <1>1, Untouched
  <1>3. k \in running /\ Return(k)
    BY DEF Idle, At
  <1>4. halted \/ func[k] # "server" \/ pc[k] = "loop"
    BY DEF Idle, At, TasksFit, Fits
  <1>5. \A l \in Links : mem[l] # "none" => mem'[l] # "none"
    BY <1>1
  <1>6. TaskTypes' /\ TasksFit' /\ HeldMade' /\ OneLoop' /\ NotYet'
    BY <1>1, <1>3, <1>4, <1>5, Returns, ReturnsKeep
  <1>7. LinkTypes'
    <2>1. info[k] \in Links /\ lstate' = [lstate EXCEPT ![info[k]] = "IDLE"]
      BY DEF Idle, At, HeldMade, UsesInfo, TaskTypes
    <2> QED BY <1>1, <2>1 DEF LinkTypes
  <1>8. Owned'
    BY <1>1, <1>3, OwnedReturns DEF Idle, At
  <1>9. Due'
    <2>1. func[k] # "accept"
      BY DEF Idle, At, TasksFit, Fits
    <2>2. Accepting => Accepting'
      BY <1>1, <1>3, Returns, <1>4, <1>5, <2>1
    <2> QED BY <1>1, <2>2 DEF Due
  <1> QED BY <1>2, <1>4, <1>5, <1>6, <1>7, <1>8, <1>9

LEMMA UnregisterKeeps == ASSUME NEW k \in Tasks, Inv, Unregister(k) PROVE Inv'
  <1> USE Bounds DEF Inv, TypeOK
  <1>1. UNCHANGED << queue, running, submitted, halted, func, info, buf, state, orders,
          batch, g_processor_type_cur, crashed, mem, lstate, fd_peer, conn, phase, sent,
          inbox, fin, err, backlog, knock, missed, data >>
    BY DEF Unregister, epoll, link, peer, pool, server, task
  <1>2. ServerTypes' /\ LinkTypes' /\ PeerTypes' /\ Queued' /\ Due'
    BY <1>1, Untouched
  <1>3. TaskTypes'
    BY <1>1 DEF Unregister, Goto, TaskTypes
  <1>4. EpollTypes'
    BY <1>1 DEF Unregister, EpollTypes
  <1>5. HeldMade'
    <2>1. k \in running /\ pc[k] = "del" /\ \E l \in {"close"} : Goto(k, l)
      BY DEF Unregister, At
    <2>2. info' = info \/ info' = [info EXCEPT ![k] = None]
      BY <1>1 DEF Unregister
    <2>3. info'[k] # None
      BY <1>1, <2>1 DEF HeldMade, UsesInfo, TasksFit, Fits, TaskTypes
    <2> QED BY <1>1, <2>1, <2>2, <2>3, Moves
  <1>6. TasksFit'
    <2>1. k \in running /\ Goto(k, "close") /\ Fits(func[k], "close")
      BY <1>1 DEF Unregister, At, TasksFit, Fits, Takes
    <2>2. \A j \in Tasks : func[j] = "link" => info'[j] # None
      BY <1>1, <2>1 DEF Unregister, At, TasksFit, Fits, TaskTypes, Takes
    <2> QED BY <1>1, <2>1, <2>2, FitMoves
  <1>7. OneLoop'
    BY <1>1 DEF Unregister, Goto, OneLoop
  <1>8. NotYet'
    BY <1>1 DEF Unregister, NotYet, At
  <1>9. Owned'
    BY <1>1, OwnedMoves DEF Unregister, At, TaskTypes
  <1> QED BY <1>2, <1>3, <1>4, <1>5, <1>6, <1>7, <1>8, <1>9

LEMMA CloseFdKeeps == ASSUME NEW k \in Tasks, Inv, CloseFd(k) PROVE Inv'
  <1> USE Bounds DEF Inv, TypeOK
  <1> DEFINE l == info[k]
  <1>a. /\ l \in Links /\ k \in running /\ Close(k) /\ pc' = [pc EXCEPT ![k] = "free"]
        /\ fd_peer[l] \in Fds \cup {None}
    BY DEF CloseFd, At, HeldMade, UsesInfo, TaskTypes, LinkTypes, Goto
  <1>b. /\ PeerTypes' /\ EpollTypes'
        /\ conn'[fd_peer[l]] = None
        /\ \A f \in Fds : conn'[f] = None \/ conn'[f] = conn[f]
        /\ \A x \in Links : phase'[x] = phase[x] \/ (phase'[x] = "closed" /\ x = Conn(k))
        /\ \A x \in Links : data'[x] = data[x] \/ data'[x] = None
    BY <1>a, Closes DEF CloseFd
  <1>c. \A x \in Links : phase[x] \in {"new", "queued", "aborted"} => phase'[x] = phase[x]
    BY <1>a, <1>b DEF Owned, Conn, PeerTypes
  <1>1. UNCHANGED << queue, running, submitted, halted, func, info, buf, state, orders,
          batch, g_processor_type_cur, crashed, mem, lstate, fd_peer, backlog, knock, missed >>
    BY DEF CloseFd, Close, epoll, link, pool, server, task
  <1>2. ServerTypes' /\ LinkTypes' /\ Due'
    BY <1>1, Untouched
  <1>3. TaskTypes'
    BY <1>1 DEF CloseFd, Goto, TaskTypes
  <1>4. PeerTypes'
    BY <1>b
  <1>5. EpollTypes'
    BY <1>b
  <1>6. HeldMade'
    <2>1. \A j \in Tasks : (pc'[j] \in {"register", "refuse"} \/ UsesInfo(j)') => info'[j] # None
      BY <1>1, <1>a DEF HeldMade, UsesInfo, TaskTypes
    <2>2. \A c \in Links : data'[c] # None => mem'[data'[c]] # "none"
      BY <1>1, <1>b DEF HeldMade
    <2>3. pc[k] = "close" /\ \A j \in Tasks \ {k} : pc'[j] = pc[j] /\ info'[j] = info[j]
      BY <1>1, <1>a DEF CloseFd, At, TaskTypes
    <2>4. info'[k] # None => mem'[info'[k]] # "none"
      BY <1>1, <2>3 DEF HeldMade
    <2>5. \A j \in Tasks : info'[j] # None =>
              mem'[info'[j]] # "none"
              \/ (func'[j] = "accept" /\ pc'[j] \in {"refuse", "cancelled"})
      BY <1>1, <2>3, <2>4, HeldInfo
    <2>6. \A e \in batch' : e.link # None => mem'[e.link] # "none"
      BY <1>1 DEF HeldMade
    <2> QED BY <2>1, <2>2, <2>5, <2>6 DEF HeldMade, UsesInfo
  <1>7. TasksFit'
    <2>1. k \in running /\ Goto(k, "free") /\ Fits(func[k], "free")
      BY <1>1 DEF CloseFd, At, TasksFit, Fits, Takes
    <2>2. \A j \in Tasks : func[j] = "link" => info'[j] # None
      BY <1>1, <2>1 DEF CloseFd, At, TasksFit, Fits, TaskTypes, Takes
    <2> QED BY <1>1, <2>1, <2>2, FitMoves
  <1>8. OneLoop'
    BY <1>1 DEF CloseFd, Goto, OneLoop
  <1>9. NotYet'
    BY <1>1 DEF CloseFd, NotYet, At
  <1>10. Queued'
    <2>1. \A x \in Links : phase'[x] = "new" => mem'[x] = "none"
      BY <1>1, <1>b DEF Queued, PeerTypes
    <2>2. \A i \in 1 .. Len(backlog) :
              mem'[backlog[i]] = "none" /\ phase'[backlog[i]] \in {"queued", "aborted"}
      BY <1>1, <1>c DEF Queued, EpollTypes
    <2> QED BY <1>1, <2>1, <2>2 DEF Queued
  <1>11. Owned'
    <2> HIDE DEF l
    <2>1. \A f \in Fds : conn'[f] # None =>
              conn'[f] = conn[f] /\ conn[f] \in Links /\ f # fd_peer[l]
      BY <1>b DEF PeerTypes
    <2>2. \A f \in Fds : conn'[f] # l
      BY <1>a, <2>1, Bounds DEF Owned
    <2>3. pc[k] = "close" /\ pc'[k] = "free" /\ \A j \in Tasks \ {k} : pc'[j] = pc[j]
      BY <1>a DEF CloseFd, At, TaskTypes
    <2>4. \A x \in Links : \A j \in Tasks : Refuses(j, x) => Refuses(j, x)'
      BY <1>1, <2>3 DEF Refuses
    <2>5. \A x \in Links : phase[x] \in {"open", "closed"} => phase'[x] \in {"open", "closed"}
      BY <1>b
    <2>6. \A f \in Fds : conn'[f] # None =>
              /\ phase'[conn'[f]] \in {"open", "closed"} /\ fd_peer'[conn'[f]] = f
              /\ mem'[conn'[f]] = "live" \/ \E j \in Tasks : Refuses(j, conn[f])'
      BY <1>1, <2>1, <2>4, <2>5 DEF Owned
    <2>7. running \subseteq Tasks
      BY DEF TaskTypes
    <2>8. \A j \in running' : pc'[j] \in {"register", "refuse"} =>
              phase'[info'[j]] \in {"open", "closed"} /\ (pc'[j] = "refuse" => mem'[info'[j]] # "live")
      <3> SUFFICES ASSUME NEW j \in running, pc'[j] \in {"register", "refuse"}
                   PROVE  /\ phase'[info[j]] \in {"open", "closed"}
                          /\ pc'[j] = "refuse" => mem[info[j]] # "live"
        BY <1>1
      <3>1. j # k /\ pc[j] = pc'[j] /\ info[j] \in Links
        BY <2>3, <2>7 DEF HeldMade, TaskTypes
      <3> QED BY <3>1, <2>5 DEF Owned
    <2>9. \A j \in running' : pc'[j] = "free" => \A f \in Fds : conn'[f] # info'[j]
      <3> SUFFICES ASSUME NEW j \in running, pc'[j] = "free", NEW f \in Fds
                   PROVE  conn'[f] # info[j]
        BY <1>1
      <3>1. CASE j = k
        BY <3>1, <2>2 DEF l
      <3>2. CASE j # k
        <4>1. pc[j] = "free" /\ info[j] # None
          BY <3>2, <2>3, <2>7 DEF HeldMade, UsesInfo
        <4> QED BY <4>1, <2>1 DEF Owned
      <3> QED BY <3>1, <3>2
    <2> QED BY <2>6, <2>8, <2>9 DEF Owned
  <1> QED BY <1>2, <1>3, <1>4, <1>5, <1>6, <1>7, <1>8, <1>9, <1>10, <1>11

LEMMA FreeInfoEndsKeeps == ASSUME NEW k \in Tasks, Inv, FreeInfo(k), func[k] # "server"
    PROVE Inv'
  <1> USE Bounds DEF Inv, TypeOK
  <1>1. UNCHANGED << queue, submitted, halted, state, orders, batch,
          g_processor_type_cur, crashed, conn, phase, sent, inbox, fin, err, backlog,
          knock, missed, watch, edge, data >>
    BY DEF FreeInfo, Free, epoll, peer, pool, server, Return, Pool!End, Goto
  <1>2. ServerTypes' /\ PeerTypes' /\ EpollTypes'
    BY <1>1, Untouched
  <1>3. k \in running /\ Return(k)
    BY DEF FreeInfo, At
  <1>4. halted \/ func[k] # "server" \/ pc[k] = "loop"
    BY DEF FreeInfo, At, TasksFit, Fits
  <1>5. \A l \in Links : mem[l] # "none" => mem'[l] # "none"
    BY <1>1 DEF FreeInfo, Free, LinkTypes, At, HeldMade, TaskTypes
  <1>6. TaskTypes' /\ TasksFit' /\ HeldMade' /\ OneLoop' /\ NotYet'
    BY <1>1, <1>3, <1>4, <1>5, Returns, ReturnsKeep
  <1>7. LinkTypes'
    <2>1. /\ info[k] \in Links /\ mem' = [mem EXCEPT ![info[k]] = "freed"]
          /\ lstate' = [lstate EXCEPT ![info[k]] = "IDLE"]
          /\ fd_peer' = [fd_peer EXCEPT ![info[k]] = None]
      BY DEF FreeInfo, Free, At, HeldMade, UsesInfo, TaskTypes
    <2> QED BY <2>1 DEF LinkTypes
  <1>8. Queued'
    BY <1>1 DEF FreeInfo, Free, Queued, Owned, At
  <1>9. Owned'
    <2> DEFINE l == info[k]
    <2>1. /\ l \in Links /\ pc[k] = "free"
      BY DEF FreeInfo, At, HeldMade, UsesInfo, TaskTypes
    <2>2. \A x \in Links : x # l => mem'[x] = mem[x] /\ fd_peer'[x] = fd_peer[x]
      BY DEF FreeInfo, Free, LinkTypes
    <2>3. \A f \in Fds : conn[f] # l
      BY <1>3, <2>1 DEF Owned
    <2>4. /\ \A j \in Tasks \ {k} : func'[j] = func[j] /\ pc'[j] = pc[j] /\ info'[j] = info[j]
          /\ running' = running \ {k} /\ pc'[k] = "over"
      BY <1>3, Returns
    <2>5. mem'[l] = "freed"
      BY <2>1 DEF FreeInfo, Free, LinkTypes
    <2> HIDE DEF l
    <2> QED BY <1>1, <1>3, <2>1, <2>2, <2>3, <2>4, <2>5, OwnedFrees
  <1>10. Due'
    <2>1. func[k] # "accept"
      BY DEF FreeInfo, At, TasksFit, Fits
    <2>2. Accepting => Accepting'
      BY <1>1, <1>3, Returns, <1>4, <1>5, <2>1
    <2> QED BY <1>1, <2>2 DEF Due
  <1> QED BY <1>2, <1>4, <1>5, <1>6, <1>7, <1>8, <1>9, <1>10

LEMMA FreeInfoGoesOnKeeps == ASSUME NEW k \in Tasks, Inv, FreeInfo(k), func[k] =
    "server" PROVE Inv'
  <1> USE Bounds DEF Inv, TypeOK
  <1>1. UNCHANGED << queue, running, submitted, halted, func, buf, state, orders, batch,
          g_processor_type_cur, crashed, conn, phase, sent, inbox, fin, err, backlog,
          knock, missed, watch, edge, data >>
    BY DEF FreeInfo, Free, epoll, peer, pool, server, task
  <1>2. ServerTypes' /\ PeerTypes' /\ EpollTypes' /\ Due'
    BY <1>1, Untouched
  <1>3. TaskTypes'
    BY <1>1 DEF FreeInfo, Goto, TaskTypes, At
  <1>4. LinkTypes'
    BY <1>1 DEF FreeInfo, Free, LinkTypes
  <1>5. HeldMade'
    <2>1. \A l \in Links : mem[l] # "none" => mem'[l] # "none"
      BY DEF FreeInfo, Free, LinkTypes
    <2>2. /\ pc' = [pc EXCEPT ![k] = "events"] /\ info' = [info EXCEPT ![k] = None]
          /\ batch' = batch /\ data' = data /\ pc[k] = "free"
      BY <1>1 DEF FreeInfo, Goto, At
    <2>3. \A j \in Tasks : (pc'[j] \in {"register", "refuse"} \/ UsesInfo(j)') => info'[j] # None
      BY <2>2 DEF HeldMade, UsesInfo, TaskTypes
    <2>4. info'[k] = None /\ \A j \in Tasks \ {k} : pc'[j] = pc[j] /\ info'[j] = info[j]
      BY <2>2 DEF TaskTypes
    <2>5. \A j \in Tasks : info'[j] # None =>
              mem'[info'[j]] # "none"
              \/ (func'[j] = "accept" /\ pc'[j] \in {"refuse", "cancelled"})
      BY <1>1, <2>1, <2>2, <2>4, HeldInfo
    <2>6. /\ \A e \in batch' : e.link # None => mem'[e.link] # "none"
          /\ \A c \in Links : data'[c] # None => mem'[data'[c]] # "none"
      BY <2>1, <2>2 DEF HeldMade, ServerTypes, EpollTypes
    <2> QED BY <2>3, <2>5, <2>6 DEF HeldMade, UsesInfo
  <1>6. TasksFit'
    <2>1. k \in running /\ Goto(k, "events") /\ Fits(func[k], "events")
      BY <1>1 DEF FreeInfo, At, TasksFit, Fits
    <2>2. \A j \in Tasks : func[j] = "link" => info'[j] # None
      BY <1>1 DEF FreeInfo, TasksFit, TaskTypes
    <2> QED BY <1>1, <2>1, <2>2, FitMoves
  <1>7. OneLoop'
    BY <1>1 DEF FreeInfo, Goto, OneLoop, TaskTypes
  <1>8. NotYet'
    BY <1>1 DEF FreeInfo, NotYet, At
  <1>9. Queued'
    BY <1>1 DEF FreeInfo, Free, Queued, Owned, At
  <1>10. Owned'
    <2> DEFINE l == info[k]
    <2>1. /\ l \in Links /\ k \in running /\ pc[k] = "free"
      BY DEF FreeInfo, At, HeldMade, UsesInfo, TaskTypes
    <2>2. \A x \in Links : x # l => mem'[x] = mem[x] /\ fd_peer'[x] = fd_peer[x]
      BY DEF FreeInfo, Free, LinkTypes
    <2>3. \A f \in Fds : conn[f] # l
      BY <2>1 DEF Owned
    <2>4. \A j \in Tasks \ {k} : pc'[j] = pc[j] /\ info'[j] = info[j]
      BY DEF FreeInfo, Goto, TaskTypes
    <2>5. pc'[k] = "events" /\ mem'[l] = "freed"
      BY <2>1 DEF FreeInfo, Free, Goto, TaskTypes, LinkTypes
    <2> HIDE DEF l
    <2> QED BY <1>1, <2>1, <2>2, <2>3, <2>4, <2>5, OwnedFrees
  <1> QED BY <1>2, <1>3, <1>4, <1>5, <1>6, <1>7, <1>8, <1>9, <1>10

LEMMA StopKeeps == ASSUME Inv, Stop PROVE Inv'
  <1> USE Bounds DEF Inv, TypeOK
  <1>1. UNCHANGED << queue, running, submitted, halted, func, info, pc, buf, state,
          orders, batch, g_processor_type_cur, mem, lstate, fd_peer, conn, phase, sent,
          inbox, fin, err, backlog, knock, missed, watch, edge, data >>
    BY DEF Stop, epoll, link, peer, pool, server, task
  <1>2. TaskTypes' /\ LinkTypes' /\ PeerTypes' /\ EpollTypes' /\ HeldMade' /\
        TasksFit' /\ OneLoop' /\ NotYet' /\ Queued' /\ Owned' /\ Due'
    BY <1>1, Untouched
  <1>3. ServerTypes'
    BY <1>1 DEF Stop, ServerTypes, Knock, States
  <1> QED BY <1>2, <1>3

-----------------------------------------------------------------------------
(* The theorems *)

LEMMA InitInv == Init => Inv
  <1> SUFFICES ASSUME Init PROVE Inv
    OBVIOUS
  <1> USE Bounds DEF Init
  <1>1. TaskTypes /\ TasksFit
    <2>1. queue = <<0>> /\ 0 \in Tasks /\ submitted = 0 /\ running = {} /\ halted = FALSE
      BY DEF Pool!Init, Tasks
    <2>2. queue \in Seq(Tasks) /\ Len(queue) = 1 /\ queue[1] = 0
      BY <2>1
    <2>3. TaskTypes
      <3>1. 0 \in 0 .. BUFSIZE
        BY Bounds
      <3>2. buf \in [Tasks -> 0 .. BUFSIZE] /\ info \in [Tasks -> Links \cup {None}]
        BY <3>1
      <3>3. func \in [Tasks -> {"none", "manager", "server", "accept", "link"}]
        OBVIOUS
      <3>4. pc \in [Tasks -> {"none"}]
        OBVIOUS
      <3> QED BY <2>1, <2>2, <3>2, <3>3, <3>4 DEF TaskTypes
    <2>4. Pool!StartedOnce
      BY <2>1, <2>2 DEF Pool!StartedOnce
    <2>5. \A i \in 1 .. Len(queue) : func[queue[i]] # "none"
      BY <2>1, <2>2
    <2>6. \A k \in Tasks : pc[k] = "none" /\ func[k] # "link"
      OBVIOUS
    <2> QED BY <2>1, <2>3, <2>4, <2>5, <2>6 DEF TasksFit
  <1>2. ServerTypes /\ LinkTypes
    <2>1. ServerTypes
      <3>1. 0 \in 0 .. MaxOrders
        BY Bounds
      <3> QED BY <3>1 DEF ServerTypes, States
    <2>2. mem \in [Links -> {"none"}] /\ lstate \in [Links -> {"IDLE"}]
          /\ fd_peer \in [Links -> {None}]
      OBVIOUS
    <2> QED BY <2>1, <2>2 DEF LinkTypes
  <1>3. PeerTypes /\ EpollTypes
    <2>1. 0 \in 0 .. MaxBytes
      BY Bounds
    <2>2. /\ conn \in [Fds \cup {None} -> {None}] /\ phase \in [Links -> {"new"}]
          /\ sent \in [Links -> {0}] /\ inbox \in [Links -> {0}]
          /\ fin \in [Links -> {FALSE}] /\ err \in [Links -> {FALSE}]
      OBVIOUS
    <2>3. PeerTypes
      BY <2>1, <2>2 DEF PeerTypes
    <2>4. /\ watch \in [Links -> {"no"}] /\ edge \in [Links -> {FALSE}]
          /\ data \in [Links -> {None}] /\ backlog = <<>> /\ knock = FALSE /\ missed = FALSE
      OBVIOUS
    <2>5. EpollTypes
      <3>1. backlog \in Seq(Links)
        BY <2>4
      <3> QED BY <3>1, <2>4 DEF EpollTypes
    <2> QED BY <2>3, <2>5
  <1>4. HeldMade
    BY DEF HeldMade, UsesInfo
  <1>5. OneLoop /\ NotYet
    BY DEF OneLoop, NotYet, Pool!Init
  <1>6. Queued /\ Owned /\ Due
    BY DEF Queued, Owned, Due, Pool!Init
  <1> QED BY <1>1, <1>2, <1>3, <1>4, <1>5, <1>6 DEF Inv, TypeOK

LEMMA LoopKeeps == ASSUME NEW k \in Tasks, Inv, Loop(k) PROVE Inv'
BY LoopOnKeeps, LoopEndsKeeps

LEMMA FreeInfoKeeps == ASSUME NEW k \in Tasks, Inv, FreeInfo(k) PROVE Inv'
BY FreeInfoEndsKeeps, FreeInfoGoesOnKeeps

\* A step of a task
LEMMA TaskKeeps == ASSUME NEW k \in Tasks, Inv, TaskStep(k) PROVE Inv'
  <1>1. CASE ServerTask(k)
    BY <1>1, LoopKeeps, EpollWaitKeeps, EventsDoneKeeps, AddProcessKeeps, AddProcessFailsKeeps,
       MarkBusyKeeps, AcceptEventKeeps, AcceptEventFailsKeeps, BusyEventKeeps, LinkEventKeeps, ErrorEventKeeps
       DEF ServerTask
  <1>2. CASE AcceptTask(k)
    BY <1>2, AcceptOverKeeps, AcceptAbortedKeeps, AcceptFailsKeeps, AcceptLinkKeeps,
       RegisterLinkKeeps, RegisterFailsKeeps, RefuseKeeps DEF AcceptTask
  <1>3. CASE LinkTask(k)
    BY <1>3, ProcessTestKeeps, ReadKeeps, ReadDoneKeeps, WriteKeeps, WriteDoneKeeps,
       PostprocKeeps, IdleKeeps DEF LinkTask
  <1>4. CASE CloseLink(k)
    BY <1>4, UnregisterKeeps, CloseFdKeeps, FreeInfoKeeps DEF CloseLink
  <1>5. CASE Crash(k)
    BY <1>5, StopKeeps DEF Crash
  <1> QED BY <1>1, <1>2, <1>3, <1>4, <1>5 DEF TaskStep

LEMMA NextKeeps == ASSUME Inv, [Next]_vars PROVE Inv'
  <1>1. CASE StartTask \/ Halt \/ Owner
    BY <1>1, StartTaskKeeps, HaltKeeps, SvrStartKeeps, SetStateKeeps DEF Owner
  <1>2. CASE \E k \in Tasks : TaskStep(k) \/ CancelTask(k) \/ Killed(k)
    BY <1>2, TaskKeeps, CancelTaskKeeps, StopKeeps DEF Killed
  <1>3. CASE \E l \in Links : Peer(l)
    BY <1>3, ConnectKeeps, AbortKeeps, SendKeeps, FinKeeps, BreakKeeps DEF Peer
  <1>4. CASE UNCHANGED vars
    <2>1. UNCHANGED <<queue, running, submitted, halted, func, info, pc, buf, state, orders,
                      batch, g_processor_type_cur, crashed, mem, lstate, fd_peer, conn, phase,
                      sent, inbox, fin, err, backlog, knock, missed, watch, edge, data>>
      BY <1>4 DEF vars, pool, task, server, link, peer, epoll
    <2> QED BY <2>1, Untouched DEF Inv, TypeOK
  <1> QED BY <1>1, <1>2, <1>3, <1>4 DEF Next

LEMMA Invariant == Spec => []Inv
BY InitInv, NextKeeps, PTL DEF Spec

\* Every variable keeps its type, reads stay within a processor's buffer, and nobody
\* holds a link that was never allocated: for any number of links, tasks and bytes.
THEOREM TypeCorrect == Spec => []TypeOK
  <1>1. Inv => TypeOK
    BY DEF Inv
  <1> QED BY <1>1, Invariant, PTL

\* The edge-triggered listening socket (svr.c:200) loses no wakeup: a connection that
\* waits has an event that is due or in the loop's hands, or a task that is to accept it,
\* unless an accept task could not be added, was cancelled or stopped at an aborted
\* connection since it came.
THEOREM ConnectionsDue == Spec => []AcceptDue
  <1>1. Inv => AcceptDue
    <2> SUFFICES ASSUME Inv, state = "RUNNING", orders = 1, ~halted, ~missed, backlog # <<>>,
                        Accepting
                 PROVE  Pending("accept", None) \/ \E l \in Links : Pending("accept", l)
      BY DEF Inv, Due, AcceptDue
    <2>1. PICK k \in Tasks :
              func[k] = "accept" /\ (k \in running \/ \E i \in 1 .. Len(queue) : queue[i] = k)
      BY DEF Accepting
    <2>2. info[k] \in Links \cup {None}
      BY DEF Inv, TypeOK, TaskTypes
    <2> QED BY <2>1, <2>2 DEF Pending
  <1> QED BY <1>1, Invariant, PTL

\* Whatever the order of the steps of the loop and the tasks, a descriptor that is open
\* belongs to a link that is there, or to an accept task that is about to close it or
\* was cancelled when it was (svr.c:268-269): sock_close frees a link only after its
\* descriptor is closed (svr.c:63-65).
THEOREM NoLeak == Spec => []NoDescriptorLeak
  <1>1. Inv => NoDescriptorLeak
    BY DEF Inv, Owned, Refuses, NoDescriptorLeak
  <1> QED BY <1>1, Invariant, PTL

-----------------------------------------------------------------------------
(* Busy links *)

\* Task j waits or runs, is for a link or was cancelled, and is or was for link l
Waits(j) == j \in running \/ \E i \in 1 .. Len(queue) : queue[i] = j
Holds(j) == (func[j] = "link" /\ Waits(j)) \/ pc[j] = "cancelled"
Serves(j, l) == Holds(j) /\ info[j] = l

\* ... and will not leave the link idle: it has something to do still, it has
\* seen to it that the link is closed, or it does nothing any more
Firm(j, l) ==
    /\ Serves(j, l) /\ pc[j] # "idle"
    /\ pc[j] = "postproc" => lstate[l] = "DISCONNECT"

\* When the loop is about to mark a link, the task that it added is there, and it
\* will not leave the link idle; every link that is marked has a task
Marking ==
    \A k \in running :
        pc[k] = "mark" /\ mem[info[k]] = "live" => \E j \in Tasks : Firm(j, info[k])
Served ==
    \A l \in Links :
        mem[l] = "live" /\ lstate[l] = "BUSY" => \E j \in Tasks : Serves(j, l)
Busy == ~halted => Marking /\ Served

\* A step that keeps the tasks of links going, none of which becomes idle, and marks
\* no link busy
Quiet ==
    /\ halted => halted'
    /\ \A j \in Tasks : Holds(j) =>
           /\ Holds(j)' /\ info'[j] = info[j]
           /\ \/ pc'[j] = pc[j]
              \/ pc'[j] \notin {"idle", "postproc"}
              \/ pc'[j] = "postproc" /\ lstate'[info[j]] = "DISCONNECT"
              \/ pc'[j] = "idle" /\ pc[j] = "postproc" /\ lstate[info[j]] # "DISCONNECT"
    /\ \A l \in Links : mem'[l] = "live" =>
           \/ mem[l] = "live" /\ lstate'[l] \in {lstate[l], "DISCONNECT"}
           \/ mem[l] # "live" /\ lstate'[l] # "BUSY"
                /\ \A k \in running : pc[k] = "mark" => info[k] # l
    /\ \A k \in running' : pc'[k] = "mark" =>
           k \in running /\ pc[k] = "mark" /\ info'[k] = info[k]

LEMMA QuietKeeps == ASSUME Inv, Busy, Quiet PROVE Busy'
  <1> SUFFICES ASSUME ~halted' PROVE Marking' /\ Served'
    BY DEF Busy
  <1>1. Marking /\ Served /\ running \subseteq Tasks /\ info \in [Tasks -> Links \cup {None}]
    BY DEF Busy, Quiet, Inv, TypeOK, TaskTypes
  <1>2. Marking'
    <2> SUFFICES ASSUME NEW k \in running', pc'[k] = "mark", mem'[info'[k]] = "live"
                 PROVE  \E j \in Tasks : Firm(j, info[k])'
      BY DEF Marking, Quiet
    <2>1. /\ k \in running /\ k \in Tasks /\ pc[k] = "mark" /\ info'[k] = info[k]
          /\ info[k] \in Links
      BY <1>1 DEF Quiet, Inv, TypeOK, HeldMade, UsesInfo
    <2>2. mem[info[k]] = "live" /\ lstate'[info[k]] \in {lstate[info[k]], "DISCONNECT"}
      BY <2>1 DEF Quiet
    <2>3. PICK j \in Tasks : Firm(j, info[k])
      BY <1>1, <2>1, <2>2 DEF Marking
    <2>4. info'[j] = info[k] /\ Holds(j)'
      BY <2>3 DEF Firm, Serves, Quiet
    <2>5. pc'[j] # "idle" /\ (pc'[j] = "postproc" => lstate'[info[k]] = "DISCONNECT")
      BY <2>2, <2>3 DEF Firm, Serves, Quiet
    <2> QED BY <2>1, <2>4, <2>5 DEF Firm, Serves
  <1>3. Served'
    <2> SUFFICES ASSUME NEW l \in Links, mem'[l] = "live", lstate'[l] = "BUSY"
                 PROVE  \E j \in Tasks : Serves(j, l)'
      BY DEF Served
    <2>1. mem[l] = "live" /\ lstate[l] = "BUSY"
      BY DEF Quiet
    <2>2. PICK j \in Tasks : Serves(j, l)
      BY <1>1, <2>1 DEF Served
    <2> QED BY <2>2 DEF Serves, Quiet
  <1> QED BY <1>2, <1>3

-----------------------------------------------------------------------------
(* Quiet steps *)

\* A step that leaves the tasks and the links alone is quiet
LEMMA Still ==
    ASSUME UNCHANGED <<queue, running, func, info, pc, mem, lstate>>, halted => halted'
    PROVE  Quiet
BY DEF Quiet, Holds, Waits

\* ... and so is one with which a task only goes on
LEMMA Goes ==
    ASSUME Inv, NEW k \in running, NEW l, l \notin {"mark", "idle", "postproc"}, Goto(k, l),
           func' = func, \A j \in Tasks \ {k} : info'[j] = info[j],
           func[k] = "link" => info'[k] = info[k],
           UNCHANGED <<queue, running, halted, mem>>,
           \A x \in Links : lstate'[x] \in {lstate[x], "DISCONNECT"}
    PROVE  Quiet
  <1>1. /\ pc'[k] = l /\ pc[k] # "cancelled" /\ running \subseteq Tasks
        /\ \A j \in Tasks \ {k} : pc'[j] = pc[j]
    BY DEF Goto, Inv, TypeOK, TaskTypes, TasksFit, Fits
  <1>2. \A j \in Tasks : Holds(j) => Holds(j)' /\ info'[j] = info[j]
    BY <1>1 DEF Holds, Waits
  <1> QED BY <1>1, <1>2 DEF Quiet

\* The end of a task that does not belong to a link
LEMMA EndsElsewhere ==
    ASSUME Inv, NEW k \in running, func[k] # "link", Return(k), UNCHANGED <<mem, lstate>>
    PROVE  Quiet
  <1>1. /\ queue' = queue /\ halted' = halted /\ running' = running \ {k}
        /\ running \subseteq Tasks /\ pc'[k] = "over"
        /\ \A j \in Tasks \ {k} : func'[j] = func[j] /\ pc'[j] = pc[j] /\ info'[j] = info[j]
    BY Returns DEF Inv, TypeOK, TaskTypes
  <1>2. pc[k] # "cancelled"
    BY DEF Inv, TasksFit, Fits
  <1>3. \A j \in Tasks : Holds(j) => Holds(j)' /\ info'[j] = info[j] /\ pc'[j] = pc[j]
    BY <1>1, <1>2 DEF Holds, Waits
  <1> QED BY <1>1, <1>3 DEF Quiet

\* A task that is added waits beside the others
LEMMA Adds ==
    ASSUME Inv, NEW f \in {"server", "accept", "link"}, NEW l \in Links \cup {None},
           AddTask(f, l)
    PROVE  /\ \A j \in Tasks : func[j] = "link" /\ Waits(j) =>
                  func'[j] = "link" /\ info'[j] = info[j] /\ Waits(j)'
           /\ ~halted => \E n \in Tasks \ running :
                             func'[n] = f /\ info'[n] = l /\ Waits(n)'
           /\ halted' = halted /\ running' = running
           /\ \A k \in running : func'[k] = func[k] /\ info'[k] = info[k]
           /\ \A k \in Tasks : pc[k] = "cancelled" => info'[k] = info[k]
  <1> USE DEF Inv, TypeOK
  <1>0. \A k \in Tasks : pc[k] = "cancelled" => info'[k] = info[k]
    BY Submits
  <1>1. CASE halted
    BY <1>0, <1>1 DEF AddTask, pool, Waits
  <1>2. CASE ~halted
    <2>0. PICK n \in Tasks : n = submitted + 1
      BY <1>2, Bounds DEF Pool!Submit, AddTask, TaskTypes, Tasks
    <2>1. /\ queue' = Append(queue, n)
          /\ running' = running /\ halted' = halted
          /\ func' = [func EXCEPT ![n] = f] /\ info' = [info EXCEPT ![n] = l]
      BY <1>2, <2>0 DEF Pool!Submit, AddTask
    <2>2. /\ queue \in Seq(Tasks) /\ running \subseteq Tasks /\ submitted \in Nat
          /\ func \in [Tasks -> {"none", "manager", "server", "accept", "link"}]
          /\ info \in [Tasks -> Links \cup {None}]
      BY Bounds DEF TaskTypes, Tasks
    <2>3. /\ \A i \in 1 .. Len(queue) : queue[i] # n
          /\ n \notin running
      BY <2>0, <2>2 DEF TasksFit, Pool!StartedOnce, Tasks
    <2>4. /\ queue'[Len(queue) + 1] = n /\ Len(queue) + 1 \in 1 .. Len(queue')
          /\ \A i \in 1 .. Len(queue) : i \in 1 .. Len(queue') /\ queue'[i] = queue[i]
      BY <2>1, <2>2, Appended
    <2>5. ASSUME NEW j \in Tasks, func[j] = "link", Waits(j)
          PROVE  func'[j] = "link" /\ info'[j] = info[j] /\ Waits(j)'
      <3>1. j # n
        BY <2>3, <2>5 DEF Waits
      <3>2. Waits(j)'
        BY <2>1, <2>4, <2>5 DEF Waits
      <3> QED BY <2>1, <2>2, <2>5, <3>1, <3>2
    <2>6. func'[n] = f /\ info'[n] = l /\ Waits(n)'
      BY <2>1, <2>2, <2>4 DEF Waits
    <2>7. \A k \in running : func'[k] = func[k] /\ info'[k] = info[k]
      BY <2>1, <2>2, <2>3
    <2> QED BY <2>1, <2>3, <2>5, <2>6, <2>7, <1>0
  <1> QED BY <1>1, <1>2

-----------------------------------------------------------------------------
(* The steps that are not *)

\* The loop adds the task of a link and is about to mark the link
LEMMA AddProcessBusy == ASSUME NEW k \in Tasks, Inv, Busy, AddProcess(k) PROVE Busy'
  <1> SUFFICES ASSUME ~halted PROVE Marking' /\ Served'
    BY Adds DEF Busy, AddProcess, AddTask, Pool!Submit, pool
  <1>1. /\ k \in running /\ info[k] \in Links /\ AddTask("link", info[k])
        /\ pc' = [pc EXCEPT ![k] = "mark"] /\ lstate' = lstate /\ mem' = mem
        /\ DOMAIN pc = Tasks /\ running \subseteq Tasks
    BY DEF AddProcess, At, Inv, TypeOK, HeldMade, UsesInfo, TaskTypes, Goto, link
  <1>2. /\ \A j \in Tasks : func[j] = "link" /\ Waits(j) =>
               func'[j] = "link" /\ info'[j] = info[j] /\ Waits(j)'
        /\ running' = running
        /\ \A j \in running : func'[j] = func[j] /\ info'[j] = info[j]
        /\ \A j \in Tasks : pc[j] = "cancelled" => info'[j] = info[j]
    BY <1>1, Adds
  <1>a. \A j \in Tasks : Holds(j) => Holds(j)' /\ info'[j] = info[j]
    <2>1. pc[k] = "add"
      BY DEF AddProcess, At
    <2> QED BY <2>1, <1>1, <1>2 DEF Holds
  <1>3. PICK n \in Tasks \ running :
            func'[n] = "link" /\ info'[n] = info[k] /\ Waits(n)'
    BY <1>1, Adds
  <1>4. Firm(n, info[k])'
    <2>1. pc'[n] = pc[n] /\ pc[n] \in {"none", "over", "cancelled"}
      BY <1>1, <1>3 DEF Inv, TasksFit
    <2> QED BY <2>1, <1>1, <1>2, <1>3 DEF Firm, Serves, Holds
  <1>5. Marking'
    <2> SUFFICES ASSUME NEW j \in running, pc'[j] = "mark" PROVE \E i \in Tasks : Firm(i, info[j])'
      BY <1>2 DEF Marking
    <2>1. CASE j = k
      BY <2>1, <1>2, <1>3, <1>4
    <2>2. CASE j # k
      <3>1. pc[j] = "mark" /\ pc[k] = "add"
        BY <1>1, <2>2 DEF AddProcess, At
      <3> QED BY <3>1, <2>2, <1>1 DEF Inv, TasksFit, Fits, OneLoop
    <2> QED BY <2>1, <2>2
  <1>6. Served'
    <2> SUFFICES ASSUME NEW l \in Links, mem[l] = "live", lstate[l] = "BUSY"
                 PROVE  \E j \in Tasks : Serves(j, l)'
      BY <1>1 DEF Served
    <2>1. PICK j \in Tasks : Serves(j, l)
      BY DEF Busy, Served
    <2> QED BY <2>1, <1>a DEF Serves
  <1> QED BY <1>5, <1>6

\* The loop marks the link: its task is there
LEMMA MarkBusyBusy == ASSUME NEW k \in Tasks, Inv, Busy, MarkBusy(k) PROVE Busy'
  <1>a. /\ running \subseteq Tasks /\ DOMAIN pc = Tasks /\ DOMAIN info = Tasks
        /\ DOMAIN lstate = Links
    BY DEF Inv, TypeOK, TaskTypes, LinkTypes
  <1>b. k \in running /\ pc[k] = "mark" /\ mem[info[k]] = "live" /\ info[k] \in Links
    BY DEF MarkBusy, At, Inv, TypeOK, HeldMade, UsesInfo, TaskTypes
  <1>c. func[k] = "server"
    BY <1>b DEF Inv, TasksFit, Fits
  <1>d. /\ lstate' = [lstate EXCEPT ![info[k]] = "BUSY"] /\ mem' = mem
        /\ pc' = [pc EXCEPT ![k] = "events"] /\ info' = [info EXCEPT ![k] = None]
        /\ func' = func /\ queue' = queue /\ running' = running /\ halted' = halted
    BY DEF MarkBusy, Goto, pool
  <1>2. \A j \in running : pc'[j] # "mark"
    <2>1. \A j \in running : pc[j] = "mark" => j = k
      BY <1>a, <1>b, <1>c DEF Inv, TasksFit, Fits, OneLoop
    <2> QED BY <2>1, <1>a, <1>d
  <1>3. ~halted => \A l \in Links : mem[l] = "live" /\ lstate'[l] = "BUSY" =>
                       \E j \in Tasks : Serves(j, l)
    BY <1>a, <1>b, <1>d DEF Busy, Marking, Served, Firm
  <1>4. \A l \in Links, j \in Tasks : Serves(j, l) => Serves(j, l)'
    BY <1>a, <1>b, <1>c, <1>d DEF Serves, Holds, Waits
  <1> QED BY <1>d, <1>2, <1>3, <1>4 DEF Busy, Marking, Served

\* A task leaves its link idle: no other task has the link, so the loop is not about
\* to mark it
LEMMA IdleBusy == ASSUME NEW k \in Tasks, Inv, Busy, SoleTask, Idle(k) PROVE Busy'
  <1>1. /\ k \in running /\ pc[k] = "idle" /\ info[k] \in Links /\ Return(k) /\ mem' = mem
        /\ lstate' = [lstate EXCEPT ![info[k]] = "IDLE"]
        /\ func[k] = "link" /\ running \subseteq Tasks
        /\ DOMAIN lstate = Links
    <2>1. /\ k \in running /\ pc[k] = "idle" /\ info[k] \in Links
          /\ running \subseteq Tasks /\ DOMAIN lstate = Links
      BY DEF Idle, At, Inv, TypeOK, HeldMade, UsesInfo, TaskTypes, LinkTypes
    <2>2. func[k] = "link"
      BY <2>1 DEF Inv, TasksFit, Fits
    <2> QED BY <2>1, <2>2 DEF Idle
  <1>2. /\ queue' = queue /\ halted' = halted /\ running' = running \ {k}
        /\ pc'[k] = "over"
        /\ \A j \in Tasks \ {k} : func'[j] = func[j] /\ pc'[j] = pc[j] /\ info'[j] = info[j]
    BY <1>1, Returns DEF Inv, TypeOK
  <1> SUFFICES ASSUME ~halted PROVE Marking' /\ Served'
    BY <1>2 DEF Busy
  <1>3. ASSUME NEW j \in Tasks, NEW l \in Links, Serves(j, l), j # k
        PROVE  /\ Serves(j, l)' /\ pc'[j] = pc[j]
               /\ pc[j] = "postproc" => lstate'[l] = lstate[l]
    <2>1. pc[j] = "postproc" => j \in running /\ func[j] = "link"
      BY DEF Inv, TasksFit, Fits
    <2>2. l = info[k] => pc[j] # "postproc"
      BY <1>1, <1>3, <2>1 DEF Serves, SoleTask
    <2>3. pc[j] = "postproc" => lstate'[l] = lstate[l]
      BY <1>1, <2>2
    <2>4. Serves(j, l)' /\ pc'[j] = pc[j]
      BY <1>1, <1>2, <1>3 DEF Serves, Holds, Waits
    <2> QED BY <2>3, <2>4
  <1>4. Marking'
    <2> SUFFICES ASSUME NEW j \in running, j # k, pc[j] = "mark", mem[info[j]] = "live"
                 PROVE  \E i \in Tasks : Firm(i, info[j])'
      BY <1>1, <1>2 DEF Marking
    <2>1. info[j] \in Links /\ info'[j] = info[j]
      BY <1>1, <1>2 DEF Inv, TypeOK, TaskTypes, HeldMade, UsesInfo
    <2>2. PICK i \in Tasks : Firm(i, info[j])
      BY DEF Busy, Marking
    <2>3. i # k
      BY <1>1, <2>2 DEF Firm
    <2> QED BY <2>1, <2>2, <2>3, <1>3 DEF Firm
  <1>5. Served'
    <2> SUFFICES ASSUME NEW l \in Links, mem[l] = "live", lstate'[l] = "BUSY"
                 PROVE  \E j \in Tasks : Serves(j, l)'
      BY <1>1 DEF Served
    <2>1. l # info[k] /\ lstate[l] = "BUSY"
      BY <1>1
    <2>2. PICK j \in Tasks : Serves(j, l)
      BY <2>1 DEF Busy, Served
    <2>3. j # k
      BY <2>1, <2>2 DEF Serves
    <2> QED BY <2>2, <2>3, <1>3
  <1> QED BY <1>4, <1>5

\* A task or the loop frees a link: nobody asks for the mark of that one any more
LEMMA FreeInfoBusy == ASSUME NEW k \in Tasks, Inv, Busy, FreeInfo(k) PROVE Busy'
  <1>1. /\ k \in running /\ pc[k] = "free" /\ info[k] \in Links
        /\ mem' = [mem EXCEPT ![info[k]] = "freed"]
        /\ lstate' = [lstate EXCEPT ![info[k]] = "IDLE"]
        /\ running \subseteq Tasks /\ DOMAIN info = Tasks
        /\ DOMAIN lstate = Links /\ DOMAIN mem = Links
    BY DEF FreeInfo, Free, At, Inv, TypeOK, HeldMade, UsesInfo, TaskTypes, LinkTypes
  <1>2. /\ queue' = queue /\ halted' = halted /\ pc'[k] \in {"over", "events"}
        /\ running \ {k} \subseteq running' /\ running' \subseteq running
        /\ \A j \in Tasks \ {k} : func'[j] = func[j] /\ pc'[j] = pc[j] /\ info'[j] = info[j]
    <2>1. CASE func[k] = "server"
      BY <2>1, <1>1 DEF FreeInfo, Goto, pool, Inv, TypeOK, TaskTypes
    <2>2. CASE func[k] # "server"
      BY <2>2, <1>1, Returns DEF FreeInfo, Inv, TypeOK
    <2> QED BY <2>1, <2>2
  <1> SUFFICES ASSUME ~halted PROVE Marking' /\ Served'
    BY <1>2 DEF Busy
  <1>3. ASSUME NEW j \in Tasks, NEW l \in Links, Serves(j, l), l # info[k]
        PROVE  Serves(j, l)' /\ lstate'[l] = lstate[l] /\ mem'[l] = mem[l] /\ pc'[j] = pc[j]
    BY <1>1, <1>2, <1>3 DEF Serves, Holds, Waits
  <1>4. Marking'
    <2> SUFFICES ASSUME NEW j \in running, j # k, pc[j] = "mark", mem'[info[j]] = "live"
                 PROVE  \E i \in Tasks : Firm(i, info[j])'
      BY <1>1, <1>2 DEF Marking
    <2>1. info[j] \in Links /\ info'[j] = info[j] /\ info[j] # info[k]
      BY <1>1, <1>2 DEF Inv, TypeOK, TaskTypes, HeldMade, UsesInfo
    <2>2. PICK i \in Tasks : Firm(i, info[j])
      BY <1>1, <2>1 DEF Busy, Marking
    <2> QED BY <2>1, <2>2, <1>3 DEF Firm
  <1>5. Served'
    <2> SUFFICES ASSUME NEW l \in Links, mem'[l] = "live", lstate'[l] = "BUSY"
                 PROVE  \E j \in Tasks : Serves(j, l)'
      BY DEF Served
    <2>1. l # info[k] /\ lstate[l] = "BUSY" /\ mem[l] = "live"
      BY <1>1
    <2>2. PICK j \in Tasks : Serves(j, l)
      BY <2>1 DEF Busy, Served
    <2> QED BY <2>1, <2>2, <1>3
  <1> QED BY <1>4, <1>5

\* A task starts
LEMMA StartTaskBusy == ASSUME Inv, StartTask PROVE Quiet
  <1>1. /\ queue' = Tail(queue) /\ queue # <<>> /\ queue \in Seq(Tasks)
        /\ func' = func /\ info' = info /\ lstate' = lstate /\ mem' = mem
        /\ Goto(Head(queue), Entry(func[Head(queue)]))
    BY DEF StartTask, Pool!Start, link, Inv, TypeOK, TaskTypes
  <1>2. /\ running' = running \cup {Head(queue)} /\ halted' = halted
        /\ Head(queue) \in Tasks
    BY <1>1, Starts DEF StartTask, Inv, TypeOK
  <1>3. \A i \in 1 .. Len(queue) :
            i = 1 \/ (i - 1 \in 1 .. Len(Tail(queue)) /\ Tail(queue)[i - 1] = queue[i])
    BY <1>1, Taken
  <1>4. Head(queue) = queue[1]
    BY <1>1, Taken
  <1>5. \A j \in Tasks : Waits(j) => Waits(j)'
    BY <1>1, <1>2, <1>3, <1>4 DEF Waits
  <1>6. \A j \in Tasks : \/ pc'[j] = pc[j]
                         \/ pc'[j] \in {"loop", "head", func[j]} /\ pc[j] = "none"
    <2>1. pc[Head(queue)] = "none"
      BY <1>1, Starts DEF StartTask, Inv, TypeOK
    <2> QED BY <1>1, <1>2, <2>1 DEF Goto, Entry, Inv, TypeOK, TaskTypes
  <1>7. \A j \in running' : pc'[j] = "mark" => j \in running /\ pc[j] = "mark"
    BY <1>1, <1>2 DEF Goto, Entry, Inv, TypeOK, TaskTypes
  <1>8. \A j \in Tasks : func[j] # "idle" /\ func[j] # "postproc"
    BY DEF Inv, TypeOK, TaskTypes
  <1>9. \A j \in Tasks : Holds(j) => Holds(j)'
    BY <1>1, <1>5, <1>6 DEF Holds
  <1> QED BY <1>1, <1>2, <1>6, <1>7, <1>8, <1>9 DEF Quiet

\* The steps of the server's loop
LEMMA ServerTaskBusy == ASSUME NEW k \in Tasks, Inv, Busy, ServerTask(k) PROVE Busy'
  <1> USE DEF Inv, TypeOK
  <1>1. k \in running /\ func[k] # "link"
    BY DEF ServerTask, Loop, EpollWait, EventsDone, AddProcess, AddProcessFails, MarkBusy,
       AcceptEvent, AcceptEventFails, BusyEvent, LinkEvent, ErrorEvent, At, TasksFit, Fits
  <1>2. ASSUME Loop(k) PROVE Quiet
    <2>1. CASE state # "STOP" /\ ~halted
      BY <1>1, <1>2, <2>1, Goes DEF Loop, pool, link
    <2>2. CASE ~(state # "STOP" /\ ~halted)
      BY <1>1, <1>2, <2>2, EndsElsewhere DEF Loop, link
    <2> QED BY <2>1, <2>2
  <1>3. EpollWait(k) => Quiet
    BY <1>1, Goes DEF EpollWait, pool, link
  <1>4. EventsDone(k) => Quiet
    BY <1>1, Goes DEF EventsDone, pool, link
  <1>5. ASSUME AddProcessFails(k) PROVE Quiet
    <2>1. \A j \in Tasks \ {k} : info'[j] = info[j]
      BY <1>5 DEF AddProcessFails, TaskTypes
    <2> QED BY <1>1, <1>5, <2>1, Goes DEF AddProcessFails, pool, link
  <1>6. ASSUME NEW e \in batch, AcceptEvent(k, e) PROVE Quiet
    <2>1. AddTask("accept", None) /\ pc' = pc /\ mem' = mem /\ lstate' = lstate
      BY <1>6 DEF AcceptEvent, link
    <2>2. /\ \A j \in Tasks : func[j] = "link" /\ Waits(j) =>
                 func'[j] = "link" /\ info'[j] = info[j] /\ Waits(j)'
          /\ halted' = halted /\ running' = running
          /\ \A j \in running : info'[j] = info[j]
          /\ \A j \in Tasks : pc[j] = "cancelled" => info'[j] = info[j]
      BY <2>1, Adds
    <2>3. \A j \in Tasks : Holds(j) => Holds(j)' /\ info'[j] = info[j]
      BY <2>1, <2>2 DEF Holds
    <2> QED BY <2>1, <2>2, <2>3 DEF Quiet
  <1>7. ASSUME NEW e \in batch, BusyEvent(k, e) PROVE Quiet
    BY <1>7, Still DEF BusyEvent, pool, task, link
  <1>8. ASSUME NEW e \in batch, LinkEvent(k, e) PROVE Quiet
    <2>1. \A j \in Tasks \ {k} : info'[j] = info[j]
      BY <1>8 DEF LinkEvent, TaskTypes
    <2> QED BY <1>1, <1>8, <2>1, Goes DEF LinkEvent, pool, link
  <1>9. ASSUME NEW e \in batch, ErrorEvent(k, e) PROVE Quiet
    <2>1. \A j \in Tasks \ {k} : info'[j] = info[j]
      BY <1>9 DEF ErrorEvent, TaskTypes
    <2> QED BY <1>1, <1>9, <2>1, Goes DEF ErrorEvent, pool, link
  <1>10. ASSUME NEW e \in batch, AcceptEventFails(k, e) PROVE Quiet
    BY <1>10, Still DEF AcceptEventFails, pool, task, link
  <1> QED BY <1>2, <1>3, <1>4, <1>5, <1>6, <1>7, <1>8, <1>9, <1>10, QuietKeeps, AddProcessBusy,
             MarkBusyBusy DEF ServerTask

\* The steps of accept tasks
LEMMA AcceptTaskQuiet == ASSUME NEW k \in Tasks, Inv, AcceptTask(k) PROVE Quiet
  <1> USE DEF Inv, TypeOK
  <1>1. /\ k \in running /\ func[k] # "link" /\ pc[k] # "cancelled"
        /\ running \subseteq Tasks /\ DOMAIN pc = Tasks /\ DOMAIN info = Tasks
        /\ DOMAIN mem = Links /\ DOMAIN lstate = Links
    BY DEF AcceptTask, AcceptOver, AcceptAborted, AcceptFails, AcceptLink, RegisterLink,
       RegisterFails, Refuse, Takes, At, TasksFit, Fits, TaskTypes, LinkTypes
  <1>2. AcceptOver(k) \/ AcceptAborted(k) => Quiet
    BY <1>1, EndsElsewhere DEF AcceptOver, AcceptAborted, link
  <1>3. ASSUME \/ AcceptFails(k) \/ RegisterLink(k) \/ Refuse(k) PROVE Quiet
    <2>1. /\ \E l \in {"accept", "refuse"} : Goto(k, l)
          /\ \E x \in Links \cup {None} : info' = [info EXCEPT ![k] = x]
          /\ queue' = queue /\ running' = running /\ halted' = halted /\ func' = func
          /\ mem' = mem /\ lstate' = lstate
      <3>1. Takes(k) => Head(backlog) \in Links
        BY Taken DEF Takes, EpollTypes
      <3> QED BY <1>3, <3>1 DEF AcceptFails, RegisterLink, Refuse, pool, link
    <2>2. \A j \in Tasks \ {k} : info'[j] = info[j]
      BY <2>1, <1>1
    <2> QED BY <1>1, <2>1, <2>2, Goes
  <1>4. ASSUME AcceptLink(k) PROVE Quiet
    <2> DEFINE l == Head(backlog)
    <2>1. /\ l \in Links /\ mem[l] = "none" /\ pc' = [pc EXCEPT ![k] = "register"]
          /\ mem' = [mem EXCEPT ![l] = "live"] /\ lstate' = [lstate EXCEPT ![l] = "IDLE"]
          /\ info' = [info EXCEPT ![k] = l]
          /\ queue' = queue /\ running' = running /\ halted' = halted /\ func' = func
      BY <1>4, Taken DEF AcceptLink, Takes, EpollTypes, Queued, Goto, pool
    <2>2. \A j \in running : pc[j] = "mark" => info[j] # l
      BY <1>1, <2>1, Bounds DEF HeldMade
    <2> HIDE DEF l
    <2>3. \A x \in Links : mem'[x] = "live" =>
              \/ mem[x] = "live" /\ lstate'[x] \in {lstate[x], "DISCONNECT"}
              \/ /\ mem[x] # "live" /\ lstate'[x] # "BUSY"
                 /\ \A j \in running : pc[j] = "mark" => info[j] # x
      BY <1>1, <2>1, <2>2
    <2>4. pc'[k] = "register" /\ \A j \in Tasks \ {k} : pc'[j] = pc[j] /\ info'[j] = info[j]
      BY <1>1, <2>1
    <2>5. \A j \in Tasks : Holds(j) => Holds(j)' /\ info'[j] = info[j] /\ pc'[j] = pc[j]
      BY <1>1, <2>1, <2>4 DEF Holds, Waits
    <2> QED BY <1>1, <2>1, <2>3, <2>4, <2>5 DEF Quiet
  <1>5. ASSUME RegisterFails(k) PROVE Quiet
    <2>1. /\ pc' = [pc EXCEPT ![k] = "refuse"] /\ info' = info
          /\ mem' = [mem EXCEPT ![info[k]] = "freed"]
          /\ lstate' = [lstate EXCEPT ![info[k]] = "IDLE"]
          /\ queue' = queue /\ running' = running /\ halted' = halted /\ func' = func
      BY <1>5 DEF RegisterFails, Goto, pool
    <2>2. \A x \in Links : mem'[x] = "live" =>
              mem[x] = "live" /\ lstate'[x] \in {lstate[x], "DISCONNECT"}
      BY <1>1, <2>1
    <2>3. pc'[k] = "refuse" /\ \A j \in Tasks \ {k} : pc'[j] = pc[j]
      BY <1>1, <2>1
    <2>4. \A j \in Tasks : Holds(j) => Holds(j)' /\ info'[j] = info[j] /\ pc'[j] = pc[j]
      BY <1>1, <2>1, <2>3 DEF Holds, Waits
    <2> QED BY <1>1, <2>1, <2>2, <2>3, <2>4 DEF Quiet
  <1> QED BY <1>2, <1>3, <1>4, <1>5 DEF AcceptTask

LEMMA LinkTaskBusy ==
    ASSUME NEW k \in Tasks, Inv, Busy, SoleTask, LinkTask(k)
    PROVE  Busy'
  <1> USE DEF Inv, TypeOK
  <1>1. /\ k \in running /\ running \subseteq Tasks /\ DOMAIN pc = Tasks
        /\ DOMAIN lstate = Links
    BY DEF LinkTask, ProcessTest, Read, ReadDone, Write, WriteDone, Postproc, Idle, At,
       TaskTypes, LinkTypes
  <1>9. pc[k] # "cancelled"
    BY <1>1 DEF TasksFit, Fits
  <1>2. ASSUME ProcessTest(k), ~halted PROVE Quiet
    BY <1>1, <1>2, Goes DEF ProcessTest, pool, link
  <1>3. ASSUME ProcessTest(k), halted PROVE Busy'
    BY <1>3 DEF ProcessTest, pool, Busy
  <1>4. Read(k) \/ Write(k) => Quiet
    BY Still DEF Read, Write, pool, link
  <1>5. ASSUME ReadDone(k), buf[k] > 0 PROVE Quiet
    <2>1. \E l \in {"head", "write"} : Goto(k, l)
      BY <1>5 DEF ReadDone
    <2> QED BY <1>1, <1>5, <2>1, Goes DEF ReadDone, pool
  <1>6. ASSUME WriteDone(k), buf[k] = 0 PROVE Quiet
    BY <1>1, <1>6, Goes DEF WriteDone, pool
  <1>7. ASSUME \/ ReadDone(k) /\ ~(buf[k] > 0)
               \/ WriteDone(k) /\ buf[k] # 0
        PROVE  Quiet
    <2>1. /\ lstate' = [lstate EXCEPT ![info[k]] = "DISCONNECT"]
          /\ pc' = [pc EXCEPT ![k] = "postproc"] /\ info' = info
          /\ queue' = queue /\ running' = running /\ halted' = halted /\ func' = func
          /\ mem' = mem
      BY <1>7 DEF ReadDone, WriteDone, Goto, pool
    <2>2. info[k] \in Links
      BY <1>1, <1>7 DEF ReadDone, WriteDone, At, HeldMade, UsesInfo, TaskTypes
    <2>3. \A x \in Links : lstate'[x] \in {lstate[x], "DISCONNECT"}
      BY <1>1, <2>1, <2>2
    <2>4. /\ \A j \in Tasks \ {k} : pc'[j] = pc[j]
          /\ pc'[k] = "postproc" /\ lstate'[info[k]] = "DISCONNECT"
      BY <1>1, <2>1, <2>2
    <2>5. \A j \in Tasks : Holds(j) => Holds(j)'
      BY <1>1, <1>9, <2>1, <2>4 DEF Holds, Waits
    <2> QED BY <1>1, <2>1, <2>3, <2>4, <2>5 DEF Quiet
  <1>8. ASSUME Postproc(k) PROVE Quiet
    <2>1. /\ \/ pc' = [pc EXCEPT ![k] = "del"]
             \/ lstate[info[k]] # "DISCONNECT" /\ pc' = [pc EXCEPT ![k] = "idle"]
          /\ pc[k] = "postproc"
          /\ queue' = queue /\ running' = running /\ halted' = halted /\ func' = func
          /\ info' = info /\ mem' = mem /\ lstate' = lstate
      BY <1>8 DEF Postproc, At, Goto, pool, link
    <2>2. \A j \in Tasks : Holds(j) => Holds(j)'
      BY <1>1, <1>9, <2>1 DEF Holds, Waits
    <2> QED BY <1>1, <2>1, <2>2 DEF Quiet
  <1> QED BY <1>2, <1>3, <1>4, <1>5, <1>6, <1>7, <1>8, QuietKeeps, IdleBusy DEF LinkTask

\* Closing a link, by its task or by the loop
LEMMA CloseLinkBusy == ASSUME NEW k \in Tasks, Inv, Busy, CloseLink(k) PROVE Busy'
  <1>1. Unregister(k) => Quiet
    BY Goes DEF Unregister, At, pool, link
  <1>2. CloseFd(k) => Quiet
    BY Goes DEF CloseFd, At, pool, link
  <1> QED BY <1>1, <1>2, FreeInfoBusy, QuietKeeps DEF CloseLink

\* Every step keeps what is said about links that are marked busy, as long as no link
\* has two tasks before it
LEMMA NextBusy == ASSUME Inv, Busy, SoleTask, [Next]_vars PROVE Busy'
  <1>1. ASSUME NEW k \in Tasks, TaskStep(k) PROVE Busy'
    <2>1. Crash(k) => Quiet
      BY Still DEF Crash, Stop, pool, task, link
    <2> QED BY <1>1, <2>1, QuietKeeps, ServerTaskBusy, AcceptTaskQuiet, LinkTaskBusy,
               CloseLinkBusy DEF TaskStep
  <1>2. ASSUME NEW k \in Tasks, CancelTask(k) PROVE Quiet
    <2>1. /\ queue' = queue /\ halted' = halted /\ running' = running \ {k}
          /\ func' = func /\ info' = info /\ mem' = mem /\ lstate' = lstate
          /\ pc'[k] = "cancelled" /\ \A j \in Tasks \ {k} : pc'[j] = pc[j]
      BY <1>2 DEF CancelTask, Pool!End, Goto, link, Inv, TypeOK, TaskTypes
    <2>2. \A j \in Tasks : Holds(j) => Holds(j)'
      BY <2>1 DEF Holds, Waits
    <2>3. running \subseteq Tasks
      BY DEF Inv, TypeOK, TaskTypes
    <2> QED BY <2>1, <2>2, <2>3 DEF Quiet
  <1>3. Halt => Busy'
    BY DEF Halt, Pool!Halt, Busy
  <1>4. StartTask => Busy'
    BY StartTaskBusy, QuietKeeps
  <1>5. ASSUME SvrStart PROVE Quiet
    <2>1. AddTask("server", None) /\ pc' = pc /\ mem' = mem /\ lstate' = lstate
      BY <1>5 DEF SvrStart, link
    <2>2. /\ \A j \in Tasks : func[j] = "link" /\ Waits(j) =>
                 func'[j] = "link" /\ info'[j] = info[j] /\ Waits(j)'
          /\ halted' = halted /\ running' = running
          /\ \A j \in running : info'[j] = info[j]
          /\ \A j \in Tasks : pc[j] = "cancelled" => info'[j] = info[j]
      BY <2>1, Adds
    <2>3. \A j \in Tasks : Holds(j) => Holds(j)' /\ info'[j] = info[j]
      BY <2>1, <2>2 DEF Holds
    <2> QED BY <2>1, <2>2, <2>3 DEF Quiet, Inv, TypeOK, TaskTypes
  <1>6. ASSUME NEW s \in States, SetState(s) PROVE Quiet
    BY <1>6, Still DEF SetState, pool, task, link
  <1>7. ASSUME NEW l \in Links, Peer(l) PROVE Quiet
    BY <1>7, Still DEF Peer, Connect, Abort, Send, Fin, Break, pool, task, link
  <1>8. ASSUME NEW k \in Tasks, Killed(k) PROVE Quiet
    BY <1>8, Still DEF Killed, Stop, pool, task, link
  <1>9. UNCHANGED vars => Quiet
    BY Still DEF vars, pool, task, link
  <1> QED BY <1>1, <1>2, <1>3, <1>4, <1>5, <1>6, <1>7, <1>8, <1>9, QuietKeeps
      DEF Next, Owner

\* While no link has two tasks, a link that the loop marks busy after it added a task
\* (svr.c:328-331) has a task still, even if that task has long begun, or had one that the
\* pool cancelled: nothing else makes the loop pass over a link for ever.
THEOREM BusyLinksServed == Spec => SoleTaskUnmarks
  <1>1. Init => Busy
    BY DEF Init, Busy, Marking, Served, Pool!Init
  <1>2. Inv /\ Busy /\ SoleTask /\ [Next]_vars => Busy'
    BY NextBusy
  <1>3. Inv /\ Busy => BusyHasTask
    BY DEF Inv, Busy, Served, Serves, Holds, Waits, BusyHasTask, Pending
  <1> QED BY <1>1, <1>2, <1>3, Invariant, PTL DEF Spec, SoleTaskUnmarks
=============================================================================
