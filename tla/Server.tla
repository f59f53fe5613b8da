------------------------------- MODULE Server -------------------------------
(***************************************************************************)
(* The server of src/src/sock/svr.c and the processors of                  *)
(* src/src/processor.  A task of the thread pool, sock_server_routine,     *)
(* waits for epoll events; for new connections it adds a task sock_accept  *)
(* to the pool, and for a link with something to read a task that reads,   *)
(* answers, and closes the link when its state says so.                    *)
(*                                                                         *)
(* The pool is TaskPool, which ThreadPool implements: whatever adds,       *)
(* starts or ends a task here, or destroys the pool, is an action of       *)
(* TaskPool.  Sockets and epoll are the kernel's, modelled from their use. *)
(* A link's info structure is named by its connection; a descriptor is a   *)
(* number that the kernel uses again.  Of the bytes only the number counts.*)
(***************************************************************************)
EXTENDS Integers, Sequences, FiniteSets

CONSTANTS
    MaxLinks,       \* bound: connections that peers make
    MaxFds,         \* descriptors for connections
    MaxBytes,       \* bound: bytes that a peer sends on one connection
    MaxTasks,       \* bound: tasks that the server adds to the pool
    MaxOrders,      \* bound: changes of the server's state
    Orders,         \* bound: which changes, as pairs of states
    HaltTasks,      \* bound: the pool is destroyed before more tasks were added, or never
    BUFSIZE,        \* a processor's buffer
    ProcessTypes,   \* the possible values of g_processor_type_cur
    Talking,        \* connections on which the peer sends
    Closing,        \* connections that the peer may close
    Aborting,       \* connections that may be aborted before they are accepted
    Breaking,       \* connections that may fail and leave nothing to read
    Failing,        \* calls that may fail, each with its connection or, for the
                    \* task that accepts, None: "accept", "register", "task_add"
    Cancelling,     \* tasks that the pool's manager may cancel, by their numbers
    ArgIsAddress    \* tasks get the server's address as argument (see SvrStart)

ASSUME ServerAssumption ==
    /\ {MaxLinks, MaxFds, MaxBytes, MaxTasks, MaxOrders, HaltTasks} \subseteq Nat
    /\ BUFSIZE \in Nat \ {0}
    /\ Orders \subseteq {"STOP", "RUNNING", "SUSPEND"} \X {"STOP", "RUNNING", "SUSPEND"}
    /\ ProcessTypes \subseteq {"null", "zero", "random", "echo"}
    /\ ArgIsAddress \in BOOLEAN

Links == 1 .. MaxLinks
Fds   == 1 .. MaxFds
Tasks == 0 .. MaxTasks
None  == 0
States == {"STOP", "RUNNING", "SUSPEND"}    \* SOCK_SVR_STATE_E

VARIABLES
    queue, running, submitted, halted,  \* the pool, as in TaskPool
    func, info, pc, buf,    \* a task: function, link, where it is, bytes in its buffer
    state, orders,          \* the server: SOCK_SVR_STATE_E, how often it was set
    batch,                  \* events[] of sock_server_routine, those still to handle
    mem, lstate, fd_peer,   \* a link's info: none, live or freed; two of its fields,
                            \* the second also for sock_accept's fd without an info
    g_processor_type_cur, crashed,
    conn,                   \* which connection a descriptor stands for, if any
    phase, sent, inbox, fin, err,   \* a connection: bytes sent and unread, its end
    backlog, knock,         \* the listening socket: connections, an event is due
    missed,                 \* history: since the last arrival, accepting was given up
    watch, edge, data       \* epoll: a connection's trigger, whether it is listed as
                            \* ready, and the link that it is registered with

pool   == <<queue, running, submitted, halted>>
task   == <<func, info, pc, buf>>
server == <<state, orders, batch, g_processor_type_cur, crashed>>
link   == <<mem, lstate, fd_peer>>
peer   == <<conn, phase, sent, inbox, fin, err>>
epoll  == <<backlog, knock, missed, watch, edge, data>>
vars   == <<pool, task, server, link, peer, epoll>>

Pool == INSTANCE TaskPool  \* what ThreadPool implements

Init ==
    /\ Pool!Init
    /\ func = [k \in Tasks |-> IF k = 0 THEN "manager" ELSE "none"]
    /\ info = [k \in Tasks |-> None] /\ buf = [k \in Tasks |-> 0]
    /\ pc = [k \in Tasks |-> "none"]
    /\ state = "STOP" /\ orders = 0 /\ batch = {}
    /\ g_processor_type_cur \in ProcessTypes /\ crashed = FALSE
    /\ mem = [l \in Links |-> "none"] /\ lstate = [l \in Links |-> "IDLE"]
    /\ fd_peer = [l \in Links |-> None]
    /\ conn = [f \in Fds \cup {None} |-> None]
    /\ phase = [l \in Links |-> "new"]
    /\ sent = [l \in Links |-> 0] /\ inbox = [l \in Links |-> 0]
    /\ fin = [l \in Links |-> FALSE] /\ err = [l \in Links |-> FALSE]
    /\ backlog = <<>> /\ knock = FALSE /\ missed = FALSE
    /\ watch = [l \in Links |-> "no"] /\ edge = [l \in Links |-> FALSE]
    /\ data = [l \in Links |-> None]

-----------------------------------------------------------------------------
(* Tasks *)

Goto(k, l) == pc' = [pc EXCEPT ![k] = l]

\* Task k is at l and goes on
At(k, l) == k \in running /\ pc[k] = l /\ ~crashed

\* The function of task k returns
Return(k) ==
    /\ Pool!End /\ running' = running \ {k}
    /\ Goto(k, "over")
    /\ func' = [func EXCEPT ![k] = "none"]
    /\ info' = [info EXCEPT ![k] = None] /\ buf' = [buf EXCEPT ![k] = 0]

\* pool_thread_task_add; once the pool is being destroyed it adds nothing and
\* returns no error
AddTask(f, l) ==
    IF halted THEN UNCHANGED <<pool, func, info>>
    ELSE /\ submitted < MaxTasks
         /\ Pool!Submit
         /\ func' = [func EXCEPT ![submitted + 1] = f]
         /\ info' = [info EXCEPT ![submitted + 1] = l]

\* Where a function begins; the manager and sock_accept are named for their loops
Entry(f) == IF f = "server" THEN "loop" ELSE IF f = "link" THEN "head" ELSE f

StartTask ==
    /\ Pool!Start /\ ~crashed
    /\ Goto(Head(queue), Entry(func[Head(queue)]))
    /\ UNCHANGED <<func, info, buf, server, link, peer, epoll>>

\* Where a thread acts on a cancellation: pthread_testcancel, sleep, epoll_wait,
\* accept, read, write, and close, which may have closed the descriptor already
CancellationPoints ==
    {"manager", "loop", "wait", "events", "accept", "refuse", "read", "write", "close", "free"}

\* pool_thread_del cancels whatever runs.  While the pool is in service its manager
\* cancels a thread that was idle when it looked (threadpool.c:175) and that may have
\* taken any task by now.  What the task knew stays in func and info as history.
CancelTask(k) ==
    /\ k \in running /\ pc[k] \in CancellationPoints /\ ~crashed
    /\ halted \/ k \in Cancelling
    /\ Pool!End /\ running' = running \ {k}
    /\ Goto(k, "cancelled")
    /\ buf' = [buf EXCEPT ![k] = 0]
    /\ batch' = IF func[k] = "server" THEN {} ELSE batch
    /\ missed' = (missed \/ func[k] \in {"server", "accept"})
    /\ UNCHANGED <<func, info, state, orders, g_processor_type_cur, crashed, link, peer,
                   backlog, knock, watch, edge, data>>

Halt ==
    /\ submitted \in 1 .. HaltTasks /\ Pool!Halt /\ ~crashed
    /\ UNCHANGED <<task, server, link, peer, epoll>>

\* while(state == RUNNING && pool_thread_run(...)) of the accept, read and
\* write loops
Working == state = "RUNNING" /\ ~halted

-----------------------------------------------------------------------------
(* The owner of the server *)

\* sock_svr_start.  As written, the task's argument is not the address of the
\* server but a copy of its first bytes, which the task takes for one (Crash);
\* with ArgIsAddress the server starts as the comment at svr.c:221 means it.
\* sock_svr_stop only frees the caller's variable: nothing of the server changes.
SvrStart ==
    /\ submitted = 0 /\ ~crashed
    /\ AddTask("server", None)
    /\ UNCHANGED <<pc, buf, state, orders, batch, g_processor_type_cur, crashed,
                   link, peer, epoll>>

\* No code in src sets the state that the loops test; its owner does
SetState(s) ==
    /\ orders < MaxOrders /\ <<state, s>> \in Orders /\ ~crashed
    /\ state' = s /\ orders' = orders + 1
    /\ UNCHANGED <<pool, task, batch, g_processor_type_cur, crashed,
                   link, peer, epoll>>

-----------------------------------------------------------------------------
(* Peers and the kernel *)

Readable(l) == inbox[l] > 0 \/ fin[l]

\* Something happened on l: epoll lists it as ready
Raise(l) == edge' = [edge EXCEPT ![l] = watch[l] # "no"]

Connect(l) ==
    /\ submitted # 0 /\ phase[l] = "new" /\ ~crashed
    /\ \A k \in Links : k < l => phase[k] # "new"
    /\ phase' = [phase EXCEPT ![l] = "queued"]
    /\ backlog' = Append(backlog, l) /\ knock' = TRUE /\ missed' = FALSE
    /\ UNCHANGED <<pool, task, server, link, conn, sent, inbox, fin, err, watch, edge, data>>

Abort(l) ==
    /\ l \in Aborting /\ phase[l] = "queued" /\ ~crashed
    /\ phase' = [phase EXCEPT ![l] = "aborted"]
    /\ UNCHANGED <<pool, task, server, link, conn, sent, inbox, fin, err, epoll>>

Send(l) ==
    /\ phase[l] \in {"queued", "open"} /\ ~fin[l] /\ ~err[l] /\ ~crashed
    /\ l \in Talking /\ sent[l] < MaxBytes
    /\ sent' = [sent EXCEPT ![l] = sent[l] + 1]
    /\ inbox' = [inbox EXCEPT ![l] = inbox[l] + 1]
    /\ Raise(l)
    /\ UNCHANGED <<pool, task, server, link, conn, phase, fin, err,
                   backlog, knock, missed, watch, data>>

\* The peer closes its end
Fin(l) ==
    /\ l \in Closing /\ phase[l] \in {"queued", "open"} /\ ~fin[l] /\ ~err[l] /\ ~crashed
    /\ fin' = [fin EXCEPT ![l] = TRUE]
    /\ Raise(l)
    /\ UNCHANGED <<pool, task, server, link, conn, phase, sent, inbox, err,
                   backlog, knock, missed, watch, data>>

\* An error that leaves nothing to read
Break(l) ==
    /\ l \in Breaking /\ phase[l] = "open" /\ ~Readable(l) /\ ~err[l] /\ ~crashed
    /\ err' = [err EXCEPT ![l] = TRUE]
    /\ Raise(l)
    /\ UNCHANGED <<pool, task, server, link, conn, phase, sent, inbox, fin,
                   backlog, knock, missed, watch, data>>

-----------------------------------------------------------------------------
(* sock_server_routine *)

\* For WindsDown: the loop does not look at the server's state
LoopUntilHalt(k) ==
    /\ At(k, "loop") /\ ArgIsAddress
    /\ IF ~halted THEN Goto(k, "wait") /\ UNCHANGED <<pool, func, info, buf>> ELSE Return(k)
    /\ UNCHANGED <<server, link, peer, epoll>>

\* while(state != STOP && pool_thread_run(...)); in state SUSPEND the loop only
\* sleeps before it goes on
Loop(k) ==
    /\ At(k, "loop") /\ ArgIsAddress
    /\ IF state # "STOP" /\ ~halted THEN Goto(k, "wait") /\ UNCHANGED <<pool, func, info, buf>>
                                    ELSE Return(k)
    /\ UNCHANGED <<server, link, peer, epoll>>

Knock == [conn |-> None, link |-> None, events |-> {"IN"}]
Events(l) == (IF Readable(l) THEN {"IN"} ELSE {}) \cup (IF err[l] THEN {"ERR"} ELSE {})
Ready == {l \in Links : edge[l] /\ Events(l) # {}}

\* epoll_wait: what is listed as ready, and still is, or nothing after 500 ms.
\* Edge-triggered entries leave the list; EPOLLET is not among the events.
EpollWait(k) ==
    /\ At(k, "wait")
    /\ batch' = {[conn |-> c, link |-> data[c], events |-> Events(c)] : c \in Ready}
                   \cup IF knock /\ backlog # <<>> THEN {Knock} ELSE {}
    /\ edge' = [l \in Links |-> l \in Ready /\ watch[l] = "LT"]
    /\ knock' = FALSE
    /\ Goto(k, "events")
    /\ UNCHANGED <<pool, func, info, buf, state, orders, g_processor_type_cur,
                   crashed, link, peer, backlog, missed, watch, data>>

EventsDone(k) ==
    /\ At(k, "events") /\ batch = {}
    /\ Goto(k, "loop")
    /\ UNCHANGED <<pool, func, info, buf, server, link, peer, epoll>>

Handled(e) ==
    /\ batch' = batch \ {e}
    /\ UNCHANGED <<state, orders, g_processor_type_cur, crashed>>

AcceptEvent(k, e) ==
    /\ At(k, "events") /\ e.link = None
    /\ AddTask("accept", None)
    /\ Handled(e)
    /\ UNCHANGED <<pc, buf, link, peer, epoll>>

\* pool_thread_task_add fails: nobody looks at its result, and the event is gone
AcceptEventFails(k, e) ==
    /\ At(k, "events") /\ e.link = None /\ <<"task_add", None>> \in Failing
    /\ missed' = TRUE
    /\ Handled(e)
    /\ UNCHANGED <<pool, task, link, peer, backlog, knock, watch, edge, data>>

\* For TypeOK: e.data.ptr is not set
RegisteredWithoutData(c, l, t) ==
    /\ watch' = [watch EXCEPT ![c] = t]
    /\ edge' = [edge EXCEPT ![c] = Events(c) # {}]
    /\ UNCHANGED data

\* epoll_ctl ADD or MOD for connection c: from now on its trigger is t and its
\* events come with link l; it is listed if it is ready already
Registered(c, l, t) ==
    /\ watch' = [watch EXCEPT ![c] = t]
    /\ edge' = [edge EXCEPT ![c] = Events(c) # {}]
    /\ data' = [data EXCEPT ![c] = l]

\* epoll_ctl MOD, which goes by the descriptor, whatever it stands for by now
Modify(l, t) ==
    LET c == conn[fd_peer[l]] IN
    IF c # None /\ watch[c] # "no" THEN Registered(c, l, t)
                                  ELSE UNCHANGED <<watch, edge, data>>

\* Another task has the link: it is to become level-triggered
BusyEvent(k, e) ==
    /\ At(k, "events") /\ "IN" \in e.events /\ e.link # None
    /\ mem[e.link] = "live" /\ lstate[e.link] = "BUSY"
    /\ IF "ET" \in e.events THEN Modify(e.link, "LT") ELSE UNCHANGED <<watch, edge, data>>
    /\ Handled(e)
    /\ UNCHANGED <<pool, task, link, peer, backlog, knock, missed>>

\* The link is edge-triggered again, and gets a task
LinkEvent(k, e) ==
    /\ At(k, "events") /\ "IN" \in e.events /\ e.link # None
    /\ mem[e.link] = "live" /\ lstate[e.link] # "BUSY"
    /\ IF "ET" \notin e.events THEN Modify(e.link, "ET") ELSE UNCHANGED <<watch, edge, data>>
    /\ info' = [info EXCEPT ![k] = e.link]
    /\ Goto(k, "add")
    /\ Handled(e)
    /\ UNCHANGED <<pool, func, buf, link, peer, backlog, knock, missed>>

AddProcess(k) ==
    /\ At(k, "add") /\ mem[info[k]] = "live"
    /\ AddTask("link", info[k])
    /\ Goto(k, "mark")
    /\ UNCHANGED <<buf, server, link, peer, epoll>>

AddProcessFails(k) ==
    /\ At(k, "add") /\ mem[info[k]] = "live" /\ <<"task_add", info[k]>> \in Failing
    /\ Goto(k, "events")
    /\ info' = [info EXCEPT ![k] = None]
    /\ UNCHANGED <<pool, func, buf, server, link, peer, epoll>>

MarkBusy(k) ==
    /\ At(k, "mark") /\ mem[info[k]] = "live"
    /\ lstate' = [lstate EXCEPT ![info[k]] = "BUSY"]
    /\ Goto(k, "events")
    /\ info' = [info EXCEPT ![k] = None]
    /\ UNCHANGED <<pool, func, buf, server, mem, fd_peer, peer, epoll>>

\* EPOLLERR without EPOLLIN: the loop closes the link
ErrorEvent(k, e) ==
    /\ At(k, "events") /\ "IN" \notin e.events
    /\ info' = [info EXCEPT ![k] = e.link]
    /\ Goto(k, "del")
    /\ Handled(e)
    /\ UNCHANGED <<pool, func, buf, link, peer, epoll>>

-----------------------------------------------------------------------------
(* sock_accept *)

FreeFds == {f \in Fds : conn[f] = None}
Lowest(f) == f \in FreeFds /\ \A g \in FreeFds : f <= g

\* accept() takes the oldest connection.  Without a free descriptor it fails and
\* the task tries again at once, which is no step.
Takes(k) ==
    /\ At(k, "accept") /\ ArgIsAddress /\ Working
    /\ backlog # <<>> /\ FreeFds # {}
    /\ backlog' = Tail(backlog)

\* The server stops or there is no connection left: the task ends
AcceptOver(k) ==
    /\ At(k, "accept") /\ ArgIsAddress
    /\ ~Working \/ (backlog = <<>> /\ FreeFds # {})
    /\ Return(k)
    /\ UNCHANGED <<server, link, peer, epoll>>

\* ECONNABORTED ends it as well, whatever else waits
AcceptAborted(k) ==
    /\ Takes(k) /\ phase[Head(backlog)] = "aborted"
    /\ missed' = (missed \/ Tail(backlog) # <<>>)
    /\ Return(k)
    /\ UNCHANGED <<server, link, peer, knock, watch, edge, data>>

\* fcntl or malloc fails: the connection is to be closed and the next one tried
AcceptFails(k) == \E f \in Fds :
    LET l == Head(backlog) IN
    /\ Lowest(f)
    /\ Takes(k) /\ phase[l] # "aborted" /\ <<"accept", l>> \in Failing
    /\ phase' = [phase EXCEPT ![l] = "open"]
    /\ conn' = [conn EXCEPT ![f] = l]
    /\ fd_peer' = [fd_peer EXCEPT ![l] = f]
    /\ info' = [info EXCEPT ![k] = l]
    /\ Goto(k, "refuse")
    /\ UNCHANGED <<pool, func, buf, server, mem, lstate, sent, inbox, fin, err,
                   knock, missed, watch, edge, data>>

AcceptLink(k) == \E f \in Fds :
    LET l == Head(backlog) IN
    /\ Lowest(f)
    /\ Takes(k) /\ phase[l] # "aborted"
    /\ phase' = [phase EXCEPT ![l] = "open"]
    /\ conn' = [conn EXCEPT ![f] = l]
    /\ mem' = [mem EXCEPT ![l] = "live"]
    /\ lstate' = [lstate EXCEPT ![l] = "IDLE"]
    /\ fd_peer' = [fd_peer EXCEPT ![l] = f]
    /\ info' = [info EXCEPT ![k] = l]
    /\ Goto(k, "register")
    /\ UNCHANGED <<pool, func, buf, server, sent, inbox, fin, err,
                   knock, missed, watch, edge, data>>

\* The connection that the descriptor of task k's link stands for, or None
Conn(k) == conn[fd_peer[info[k]]]

\* close() of the descriptor of task k's link: the kernel forgets the connection
Close(k) ==
    LET c == Conn(k) IN
    IF c = None THEN UNCHANGED <<peer, watch, edge, data>>
    ELSE /\ phase' = [phase EXCEPT ![c] = "closed"]
         /\ conn' = [conn EXCEPT ![fd_peer[info[k]]] = None]
         /\ sent' = [sent EXCEPT ![c] = 0] /\ inbox' = [inbox EXCEPT ![c] = 0]
         /\ fin' = [fin EXCEPT ![c] = FALSE] /\ err' = [err EXCEPT ![c] = FALSE]
         /\ watch' = [watch EXCEPT ![c] = "no"]
         /\ edge' = [edge EXCEPT ![c] = FALSE]
         /\ data' = [data EXCEPT ![c] = None]

\* free(): nobody reads the contents any more (Crash)
Free(l) ==
    /\ mem' = [mem EXCEPT ![l] = "freed"]
    /\ lstate' = [lstate EXCEPT ![l] = "IDLE"] /\ fd_peer' = [fd_peer EXCEPT ![l] = None]

CanRegister(k) == Conn(k) # None /\ watch[Conn(k)] = "no"

\* epoll_ctl ADD
RegisterLink(k) ==
    /\ At(k, "register") /\ CanRegister(k)
    /\ Registered(Conn(k), info[k], "ET")
    /\ info' = [info EXCEPT ![k] = None]
    /\ Goto(k, "accept")
    /\ UNCHANGED <<pool, func, buf, server, link, peer, backlog, knock, missed>>

\* It fails: the link goes, and then its descriptor
RegisterFails(k) ==
    /\ At(k, "register") /\ (~CanRegister(k) \/ <<"register", info[k]>> \in Failing)
    /\ mem' = [mem EXCEPT ![info[k]] = "freed"]
    /\ lstate' = [lstate EXCEPT ![info[k]] = "IDLE"]
    /\ Goto(k, "refuse")
    /\ UNCHANGED <<pool, func, info, buf, server, fd_peer, peer, epoll>>

\* For AcceptDue and AllAccepted: break where it should be continue
RefuseBreaks(k) ==
    /\ At(k, "refuse")
    /\ Close(k)
    /\ fd_peer' = [fd_peer EXCEPT ![info[k]] = None]
    /\ Return(k)
    /\ UNCHANGED <<server, mem, lstate, backlog, knock, missed>>

\* close(fd) and on to the next connection
Refuse(k) ==
    /\ At(k, "refuse")
    /\ Close(k)
    /\ fd_peer' = [fd_peer EXCEPT ![info[k]] = None]
    /\ info' = [info EXCEPT ![k] = None]
    /\ Goto(k, "accept")
    /\ UNCHANGED <<pool, func, buf, server, mem, lstate, backlog, knock, missed>>

-----------------------------------------------------------------------------
(* The processors, with sock_read and sock_write *)

ProcessTest(k) ==
    /\ At(k, "head")
    /\ Goto(k, IF halted THEN "postproc" ELSE "read")
    /\ UNCHANGED <<pool, func, info, buf, server, link, peer, epoll>>

CanRead(k) == Working /\ buf[k] < BUFSIZE /\ Conn(k) # None /\ inbox[Conn(k)] > 0

\* One read; what is there, as far as it fits
Read(k) ==
    LET c == Conn(k) IN
    /\ At(k, "read") /\ mem[info[k]] = "live"
    /\ CanRead(k)
    /\ LET n == IF inbox[c] < BUFSIZE - buf[k] THEN inbox[c] ELSE BUFSIZE - buf[k] IN
       /\ buf' = [buf EXCEPT ![k] = buf[k] + n]
       /\ inbox' = [inbox EXCEPT ![c] = inbox[c] - n]
    /\ UNCHANGED <<pool, func, info, pc, server, link, conn, phase, sent, fin, err, epoll>>

\* For SoleTaskUnmarks: only what sock.h:31 calls an error marks the link, not a lack of data
ReadDoneUnmarked(k) ==
    /\ At(k, "read") /\ mem[info[k]] = "live" /\ ~CanRead(k)
    /\ IF buf[k] > 0
       THEN Goto(k, "write") /\ UNCHANGED lstate
       ELSE /\ Goto(k, "postproc")
            /\ lstate' = [lstate EXCEPT ![info[k]] =
                             IF Conn(k) = None \/ fin[Conn(k)] THEN "DISCONNECT" ELSE @]
    /\ UNCHANGED <<pool, func, info, buf, server, mem, fd_peer, peer, epoll>>

\* sock_read returns what it has; without any it marks the link, whether the
\* peer closed, an error came or there is just nothing to read
ReadDone(k) ==
    /\ At(k, "read") /\ mem[info[k]] = "live" /\ ~CanRead(k)
    /\ IF buf[k] > 0
       THEN /\ UNCHANGED lstate
            /\ IF g_processor_type_cur = "null"
               THEN Goto(k, "head") /\ buf' = [buf EXCEPT ![k] = 0]
               ELSE Goto(k, "write") /\ UNCHANGED buf
       ELSE /\ lstate' = [lstate EXCEPT ![info[k]] = "DISCONNECT"]
            /\ Goto(k, "postproc") /\ UNCHANGED buf
    /\ UNCHANGED <<pool, func, info, server, mem, fd_peer, peer, epoll>>

\* One write; buf counts what is left
Write(k) ==
    /\ At(k, "write") /\ mem[info[k]] = "live"
    /\ Working /\ buf[k] > 0 /\ Conn(k) # None
    /\ \E n \in 1 .. buf[k] : buf' = [buf EXCEPT ![k] = buf[k] - n]
    /\ UNCHANGED <<pool, func, info, pc, server, link, peer, epoll>>

\* sock_write has written everything, or cannot go on and marks the link
WriteDone(k) ==
    /\ At(k, "write") /\ mem[info[k]] = "live"
    /\ IF buf[k] = 0
       THEN Goto(k, "head") /\ UNCHANGED <<lstate, buf>>
       ELSE /\ lstate' = [lstate EXCEPT ![info[k]] = "DISCONNECT"]
            /\ buf' = [buf EXCEPT ![k] = 0]
            /\ Goto(k, "postproc")
    /\ UNCHANGED <<pool, func, info, server, mem, fd_peer, peer, epoll>>

\* sock_postprocess(info, SOCK_LINK_STATE_IDLE): the test, and then either
\* sock_close or the new state
Postproc(k) ==
    /\ At(k, "postproc") /\ mem[info[k]] = "live"
    /\ Goto(k, IF lstate[info[k]] = "DISCONNECT" THEN "del" ELSE "idle")
    /\ UNCHANGED <<pool, func, info, buf, server, link, peer, epoll>>

Idle(k) ==
    /\ At(k, "idle") /\ mem[info[k]] = "live"
    /\ lstate' = [lstate EXCEPT ![info[k]] = "IDLE"]
    /\ Return(k)
    /\ UNCHANGED <<server, mem, fd_peer, peer, epoll>>

-----------------------------------------------------------------------------
(* sock_close: epoll_ctl DEL, close, free *)

\* For NoDescriptorLeak: sock_close goes on to free() if epoll_ctl fails
UnregisterOrFree(k) ==
    /\ At(k, "del") /\ mem[info[k]] = "live"
    /\ watch' = [c \in Links |-> IF c = Conn(k) THEN "no" ELSE watch[c]]
    /\ edge' = [c \in Links |-> c # Conn(k) /\ edge[c]]
    /\ Goto(k, IF Conn(k) # None /\ watch[Conn(k)] = "no" THEN "free" ELSE "close")
    /\ UNCHANGED <<pool, func, info, buf, server, link, peer, backlog, knock, missed, data>>

Unregister(k) ==
    /\ At(k, "del") /\ mem[info[k]] = "live"
    /\ watch' = [c \in Links |-> IF c = Conn(k) THEN "no" ELSE watch[c]]
    /\ edge' = [c \in Links |-> c # Conn(k) /\ edge[c]]
    /\ Goto(k, "close")
    /\ UNCHANGED <<pool, func, info, buf, server, link, peer, backlog, knock, missed, data>>

CloseFd(k) ==
    /\ At(k, "close") /\ mem[info[k]] = "live"
    /\ Close(k)
    /\ Goto(k, "free")
    /\ UNCHANGED <<pool, func, info, buf, server, link, backlog, knock, missed>>

FreeInfo(k) ==
    /\ At(k, "free") /\ mem[info[k]] = "live"
    /\ Free(info[k])
    /\ IF func[k] = "server"
       THEN Goto(k, "events") /\ info' = [info EXCEPT ![k] = None] /\ UNCHANGED <<pool, func, buf>>
       ELSE Return(k)
    /\ UNCHANGED <<server, peer, epoll>>

-----------------------------------------------------------------------------
(* The end of the program *)

\* The next step of task k reads or writes the structure of a link
UsesInfo(k) ==
    pc[k] \in {"add", "mark", "read", "write", "postproc", "idle", "del", "close", "free"}

\* ... one that has been freed.  Anything may happen then, and the model stops.
UsesFreed(k) ==
    \/ UsesInfo(k) /\ mem[info[k]] = "freed"
    \/ /\ pc[k] = "events"
       /\ \E e \in batch : e.link # None /\ "IN" \in e.events /\ mem[e.link] = "freed"

\* A task that takes a port number for the address of the server
WrongArgument(k) == ~ArgIsAddress /\ pc[k] \in {"loop", "accept"}

Stop ==
    /\ crashed' = TRUE
    /\ UNCHANGED <<pool, task, state, orders, batch, g_processor_type_cur,
                   link, peer, epoll>>

Crash(k) == k \in running /\ ~crashed /\ (UsesFreed(k) \/ WrongArgument(k)) /\ Stop

\* Nobody ignores SIGPIPE: writing to a peer that is gone may end the program
Killed(k) ==
    /\ At(k, "write") /\ mem[info[k]] = "live"
    /\ Conn(k) # None /\ fin[Conn(k)]
    /\ Stop

-----------------------------------------------------------------------------
ServerTask(k) ==
    \/ Loop(k) \/ EpollWait(k) \/ EventsDone(k)
    \/ AddProcess(k) \/ AddProcessFails(k) \/ MarkBusy(k)
    \/ \E e \in batch : AcceptEvent(k, e) \/ AcceptEventFails(k, e) \/ BusyEvent(k, e)
                           \/ LinkEvent(k, e) \/ ErrorEvent(k, e)

AcceptTask(k) ==
    \/ AcceptOver(k) \/ AcceptAborted(k) \/ AcceptFails(k) \/ AcceptLink(k)
    \/ RegisterLink(k) \/ RegisterFails(k) \/ Refuse(k)

LinkTask(k) ==
    \/ ProcessTest(k) \/ Read(k) \/ ReadDone(k) \/ Write(k) \/ WriteDone(k)
    \/ Postproc(k) \/ Idle(k)

CloseLink(k) == Unregister(k) \/ CloseFd(k) \/ FreeInfo(k)

TaskStep(k) ==
    ServerTask(k) \/ AcceptTask(k) \/ LinkTask(k) \/ CloseLink(k) \/ Crash(k)

Owner == SvrStart \/ \E s \in States : SetState(s)

Peer(l) == Connect(l) \/ Abort(l) \/ Send(l) \/ Fin(l) \/ Break(l)

Next ==
    \/ StartTask \/ Halt
    \/ \E k \in Tasks : TaskStep(k) \/ CancelTask(k) \/ Killed(k)
    \/ Owner \/ \E l \in Links : Peer(l)

Spec == Init /\ [][Next]_vars

\* The loop's thread
LoopStep == \E k \in running : func[k] = "server" /\ TaskStep(k)

\* The pool's other threads: they start a task that waits, or go on with one
WorkStep == StartTask \/ \E k \in running : func[k] # "server" /\ TaskStep(k)

\* The loop goes round for ever, every other task is short: the scheduler neglects
\* neither the loop nor all others.  That is less than the fairness to each thread
\* that it gives, and enough.  Nobody has to connect, send, close, give the server a
\* state, cancel a task or destroy the pool.
FairSpec == Spec /\ WF_vars(LoopStep) /\ WF_vars(WorkStep)

-----------------------------------------------------------------------------
(* Properties *)

\* A task of kind f that waits or runs, for link l
Pending(f, l) ==
    \E k \in Tasks :
        /\ func[k] = f /\ info[k] = l
        /\ k \in running \/ \E i \in 1 .. Len(queue) : queue[i] = k

TaskTypes ==
    /\ queue \in Seq(Tasks) /\ running \subseteq Tasks
    /\ submitted \in Tasks /\ halted \in BOOLEAN
    /\ func \in [Tasks -> {"none", "manager", "server", "accept", "link"}]
    /\ info \in [Tasks -> Links \cup {None}]
    /\ pc \in [Tasks -> {"none", "manager", "loop", "wait", "events", "add", "mark",
                         "accept", "register", "refuse", "head", "read", "write",
                         "postproc", "idle", "del", "close", "free", "over", "cancelled"}]
    /\ buf \in [Tasks -> 0 .. BUFSIZE]

ServerTypes ==
    /\ state \in States /\ orders \in 0 .. MaxOrders
    /\ g_processor_type_cur \in ProcessTypes /\ crashed \in BOOLEAN
    /\ \A e \in batch : /\ e.conn \in Links \cup {None} /\ e.link \in Links \cup {None}
                        /\ e.link = None => e = Knock

LinkTypes ==
    /\ mem \in [Links -> {"none", "live", "freed"}]
    /\ lstate \in [Links -> {"IDLE", "BUSY", "DISCONNECT"}]
    /\ fd_peer \in [Links -> Fds \cup {None}]
    /\ \A l \in Links : mem[l] = "live" => fd_peer[l] # None

PeerTypes ==
    /\ conn \in [Fds \cup {None} -> Links \cup {None}] /\ conn[None] = None
    /\ phase \in [Links -> {"new", "queued", "aborted", "open", "closed"}]
    /\ sent \in [Links -> 0 .. MaxBytes] /\ inbox \in [Links -> 0 .. MaxBytes]
    /\ \A l \in Links : inbox[l] <= sent[l]
    /\ fin \in [Links -> BOOLEAN] /\ err \in [Links -> BOOLEAN]

EpollTypes ==
    /\ backlog \in Seq(Links) /\ knock \in BOOLEAN /\ missed \in BOOLEAN
    /\ watch \in [Links -> {"no", "ET", "LT"}] /\ edge \in [Links -> BOOLEAN]
    /\ data \in [Links -> Links \cup {None}]
    /\ \A c \in Links : (edge[c] => watch[c] # "no") /\ (watch[c] # "no" => data[c] # None)

\* Nobody holds a link whose structure was never allocated: no task that is about
\* to use one, no event and no entry of epoll.  A task that only closes a descriptor
\* need not have one.
HeldMade ==
    /\ \A k \in Tasks : pc[k] \in {"register", "refuse"} \/ UsesInfo(k) => info[k] # None
    /\ \A k \in Tasks : info[k] # None =>
           mem[info[k]] # "none" \/ (func[k] = "accept" /\ pc[k] \in {"refuse", "cancelled"})
    /\ \A e \in batch : e.link # None => mem[e.link] # "none"
    /\ \A c \in Links : data[c] # None => mem[data[c]] # "none"

\* Every variable has a value of its type, a read never exceeds a processor's
\* buffer (svr.c:80-85), and whoever holds a link holds one that was made.
TypeOK ==
    TaskTypes /\ ServerTypes /\ LinkTypes /\ PeerTypes /\ EpollTypes /\ HeldMade

\* The listening socket is edge-triggered (svr.c:200): an arrival is reported once.
\* Still no connection is left waiting without somebody about to accept it: an
\* event that epoll_wait is due to report, one that it did report and the loop has
\* not handled, or a task that runs or waits in the pool.  This holds while the
\* server was made to run and nobody changed its state since, nobody destroys the
\* pool, and since the last arrival no accepting was given up: no accept task could
\* not be added (svr.c:295) or was cancelled, nor the loop, and none ended at an
\* aborted connection before others (svr.c:233).
AcceptDue ==
    (state = "RUNNING" /\ orders = 1 /\ ~halted /\ ~missed)
    => (backlog # <<>> => \/ knock \/ Knock \in batch \/ Pending("accept", None)
                          \/ \E l \in Links : Pending("accept", l))

\* A link that is marked busy has a task that will unmark it or close it: the mark is
\* for a link whose data is being dealt with (sock.h:23), and the loop passes over
\* the events of such a link, so that one that stays busy is never served again.
\* Only a task that the pool cancelled can leave one behind.
BusyHasTask ==
    \A l \in Links :
        (mem[l] = "live" /\ lstate[l] = "BUSY" /\ ~halted /\ ~crashed)
        => \/ Pending("link", l)
           \/ \E k \in Tasks : info[k] = l /\ pc[k] \in {"del", "close", "free", "cancelled"}

\* No two tasks that wait or run have the same link.  The loop adds a second one when
\* a task has marked the link as disconnected and not closed it yet (svr.c:302).
SoleTask ==
    \A j, k \in running \cup {queue[i] : i \in 1 .. Len(queue)} :
        func[j] = "link" /\ func[k] = "link" /\ info[j] = info[k] => j = k

\* As long as no link has two tasks, no link stays busy without one unless its task was
\* cancelled, although the loop writes the mark after it has added the task
\* (svr.c:328-331), when that task may have read all there was: a task that finds
\* nothing to read closes the link.
SoleTaskUnmarks == []SoleTask => []BusyHasTask

\* The structure of a link is not freed before its descriptor is closed
\* (svr.c:60-66), whatever the order of two tasks and the loop, so no open descriptor
\* is forgotten: but an accept that could not make the link or register it has the
\* descriptor without the structure (svr.c:243, 250, 268-269), and is about to close
\* it, or was cancelled in close() and has left it open for ever.
NoDescriptorLeak ==
    \A f \in Fds : conn[f] # None =>
        \/ mem[conn[f]] = "live"
        \/ \E k \in Tasks : /\ func[k] = "accept" /\ info[k] = conn[f]
                             /\ pc[k] \in {"refuse", "cancelled"}

\* What excuses the server from serving: the end of the program or the pool, an
\* order other than to run, and the bound on tasks
Excused == crashed \/ halted \/ orders > 1 \/ submitted = MaxTasks

\* Connections that arrive while the loop of a running server is there are all
\* accepted, also when one arrives while an accept task is about to end
\* (svr.c:228-240), unless accepting was given up since the last arrival, as in
\* AcceptDue.
AllAccepted ==
    (/\ backlog # <<>> /\ state = "RUNNING" /\ orders = 1
     /\ \E k \in running : pc[k] = "wait")
    ~> backlog = <<>> \/ missed \/ Excused

\* Once the server is stopped for good or the pool is being destroyed, the server's
\* tasks end by themselves, whatever their links do: every loop tests one of the two
\* (svr.c:80, 110, 228, 283), and a cancellation is not needed.
WindsDown ==
    halted \/ (state = "STOP" /\ orders = MaxOrders)
        ~> crashed \/ running \subseteq {0} \/ submitted = MaxTasks

\* Data that arrives while another task has the link is read, as the loop's comment
\* promises (svr.c:303-304), as long as the link is open and the server runs.
DataServed ==
    \A l \in Links :
        (/\ phase[l] = "open" /\ watch[l] # "no" /\ inbox[l] > 0
         /\ state = "RUNNING" /\ orders = 1 /\ \E k \in running : pc[k] = "wait")
        ~> inbox[l] = 0 \/ phase[l] = "closed" \/ Excused
=============================================================================
