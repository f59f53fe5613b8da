------------------------------ MODULE BufQueue ------------------------------
(***************************************************************************)
(* The buffer queue of src/src/utility/buffer/buf_queue.c: a ring of bytes *)
(* in shared memory that threads append messages to and read from, with a  *)
(* semaphore around every look at the ring.  A writer that finds no space  *)
(* lets go of the semaphore, sleeps for a second and looks again, at most  *)
(* waittime times, or for ever with waittime -1.                           *)
(*                                                                         *)
(* The semaphore is a POSIX semaphore of value 1 (bio_sem.c).  Time is not *)
(* modelled: a sleep may take any time.                                    *)
(***************************************************************************)
EXTENDS Integers, Sequences, FiniteSets

CONSTANTS
    Size,           \* q->size; the pointers' arithmetic stays below 2^32
    Writers, Readers,
    AppendLengths,  \* the lengths with which buf_queue_append is called
    ReadLengths,    \* the lengths with which buf_queue_read is called
    Waittimes,      \* the finite waiting times, in seconds
    MaxCalls        \* bound: accepted calls of buf_queue_append

ASSUME SizeAssumption == Size \in Nat \ {0}
ASSUME CallsAssumption ==
    /\ Writers \cap Readers = {}
    /\ AppendLengths \subseteq Nat /\ ReadLengths \subseteq Nat
    /\ Waittimes \subseteq Nat /\ MaxCalls \in Nat

Callers == Writers \cup Readers
Cells   == 0 .. Size - 1

VARIABLES
    hdl,                    \* the queue exists
    sem,                    \* value of q->hdl_sem
    addr, ptr_w, ptr_r,     \* the ring
    pc, msg, waittime,      \* append: control, buf, the parameter counted down
    length, buf,            \* read: the length wanted, the bytes copied so far
    calls

ring   == <<addr, ptr_w, ptr_r>>
params == <<msg, waittime, length, buf>>
vars   == <<hdl, sem, addr, ptr_w, ptr_r, pc, msg, waittime, length, buf, calls>>

AppendPCs   == {"append", "advance", "posted", "timeout", "retry"}
ReadPCs     == {"read", "read_done"}
CriticalPCs == AppendPCs \cup ReadPCs \cup {"size"}
WaitPCs     == {"append_wait", "read_wait", "size_wait"}

Forever == -1

Goto(p, l) == pc' = [pc EXCEPT ![p] = l]

-----------------------------------------------------------------------------
(* The calls *)

\* buf_queue_new
Init ==
    /\ hdl = TRUE /\ sem = 1
    /\ addr = [i \in Cells |-> <<>>] /\ ptr_w = 0 /\ ptr_r = 0
    /\ pc = [p \in Callers |-> "idle"]
    /\ msg = [p \in Callers |-> <<>>] /\ waittime = [p \in Callers |-> 0]
    /\ length = [p \in Callers |-> 0] /\ buf = [p \in Callers |-> <<>>]
    /\ calls = 0

GoodLength(n) == n < Size - 1

\* The n bytes of call k are told apart by their number
Message(k, n) == [i \in 1 .. n |-> <<k, i>>]
Messages == {Message(k, n) : k \in 1 .. MaxCalls, n \in AppendLengths}

AppendCall(p) ==
    /\ pc[p] = "idle" /\ hdl /\ calls < MaxCalls
    /\ \E n \in AppendLengths, w \in Waittimes \cup {Forever} :
          /\ GoodLength(n)
          /\ msg' = [msg EXCEPT ![p] = Message(calls + 1, n)]
          /\ waittime' = [waittime EXCEPT ![p] = w]
    /\ calls' = calls + 1
    /\ Goto(p, "append_wait")
    /\ UNCHANGED <<hdl, sem, ring, length, buf>>

ReadCall(p) ==
    /\ pc[p] = "idle" /\ hdl
    /\ \E n \in ReadLengths :
          GoodLength(n) /\ length' = [length EXCEPT ![p] = n]
    /\ Goto(p, "read_wait")
    /\ UNCHANGED <<hdl, sem, ring, msg, waittime, buf, calls>>

SizeCall(p) ==
    /\ pc[p] = "idle" /\ hdl
    /\ Goto(p, "size_wait")
    /\ UNCHANGED <<hdl, sem, ring, params, calls>>

\* A call that is refused: no handle, a length the ring cannot take (or no
\* buffer, or a waittime below -1)
BadCall(p) ==
    /\ pc[p] = "idle"
    /\ ~hdl \/ \E n \in AppendLengths \cup ReadLengths : ~GoodLength(n)
    /\ UNCHANGED vars

\* bio_sem()->wait(-1, q->hdl_sem)
Wait(p) ==
    /\ pc[p] \in WaitPCs /\ sem > 0
    /\ sem' = sem - 1
    /\ Goto(p, CASE pc[p] = "append_wait" -> "append"
                 [] pc[p] = "read_wait"   -> "read"
                 [] pc[p] = "size_wait"   -> "size")
    /\ UNCHANGED <<hdl, ring, params, calls>>

-----------------------------------------------------------------------------
(* buf_queue_append, with the semaphore *)

ptr_a(p) == (ptr_w + Len(msg[p])) % Size

ContiguousWhenUsed(a) == ptr_w < a /\ (ptr_r < ptr_w \/ ptr_r > a)
Contiguous(a) == ptr_w < a /\ (ptr_r <= ptr_w \/ ptr_r > a)
WrappedOnto(a) == ptr_r <= ptr_w /\ ptr_r >= a
Wrapped(a)    == ptr_r <= ptr_w /\ ptr_r > a
HasRoom(p)    == Contiguous(ptr_a(p)) \/ Wrapped(ptr_a(p))

\* memmove of m to the cells from i on
Stored(cells, i, m) ==
    [j \in Cells |-> IF j \in i .. i + Len(m) - 1 THEN m[j - i + 1] ELSE cells[j]]

\* The message is copied, in two parts if it runs over the end of the ring
Copy(p) ==
    /\ pc[p] = "append" /\ HasRoom(p)
    /\ LET m == msg[p]  left == Size - ptr_w IN
       addr' = IF Contiguous(ptr_a(p)) THEN Stored(addr, ptr_w, m)
               ELSE Stored(Stored(addr, ptr_w, SubSeq(m, 1, left)),
                           0, SubSeq(m, left + 1, Len(m)))
    /\ Goto(p, "advance")
    /\ UNCHANGED <<hdl, sem, ptr_w, ptr_r, params, calls>>

\* q->ptr_w = ptr_a
Advance(p) ==
    /\ pc[p] = "advance"
    /\ ptr_w' = ptr_a(p)
    /\ Goto(p, "posted")
    /\ UNCHANGED <<hdl, sem, addr, ptr_r, params, calls>>

\* No space: give up, or count the attempt and retry
NoRoom(p) ==
    /\ pc[p] = "append" /\ ~HasRoom(p)
    /\ \/ waittime[p] = Forever /\ Goto(p, "retry") /\ UNCHANGED waittime
       \/ /\ waittime[p] # Forever
          /\ Goto(p, IF waittime[p] <= 0 THEN "timeout" ELSE "retry")
          /\ waittime' = [waittime EXCEPT ![p] = waittime[p] - 1]
    /\ UNCHANGED <<hdl, sem, ring, msg, length, buf, calls>>

-----------------------------------------------------------------------------
(* buf_queue_read, with the semaphore *)

NextCellLate(i) == IF i + 1 > Size THEN 0 ELSE i + 1
NextCell(i) == IF i + 1 >= Size THEN 0 ELSE i + 1

More(p) == ptr_r # ptr_w /\ Len(buf[p]) < length[p]

ReadByte(p) ==
    /\ pc[p] = "read" /\ More(p)
    /\ buf' = [buf EXCEPT ![p] = Append(buf[p], addr[ptr_r])]
    /\ ptr_r' = NextCell(ptr_r)
    /\ UNCHANGED <<hdl, sem, addr, ptr_w, pc, msg, waittime, length, calls>>

ReadDone(p) ==
    /\ pc[p] = "read" /\ ~More(p)
    /\ Goto(p, "read_done")
    /\ UNCHANGED <<hdl, sem, ring, params, calls>>

-----------------------------------------------------------------------------
ReleaseMissing == UNCHANGED sem
Release == sem' = sem + 1

\* bio_sem()->post(q->hdl_sem); the call returns, or sleeps before it retries
Post(p) ==
    /\ pc[p] \in {"posted", "timeout", "retry", "read_done", "size"}
    /\ Release
    /\ IF pc[p] = "retry" THEN Goto(p, "sleep") /\ UNCHANGED params
       ELSE /\ Goto(p, "idle")
            /\ msg' = [msg EXCEPT ![p] = <<>>]
            /\ waittime' = [waittime EXCEPT ![p] = 0]
            /\ length' = [length EXCEPT ![p] = 0]
            /\ buf' = [buf EXCEPT ![p] = <<>>]
    /\ UNCHANGED <<hdl, ring, calls>>

\* sleep(1) is over
Awake(p) ==
    /\ pc[p] = "sleep"
    /\ Goto(p, "append_wait")
    /\ UNCHANGED <<hdl, sem, ring, params, calls>>

\* buf_queue_del; the callers see to it that no call is in progress
Delete ==
    /\ hdl /\ \A p \in Callers : pc[p] = "idle"
    /\ hdl' = FALSE
    /\ UNCHANGED <<sem, ring, pc, params, calls>>

-----------------------------------------------------------------------------
\* What a call does after it was made
Work(p) ==
    \/ Copy(p) \/ Advance(p) \/ NoRoom(p)
    \/ ReadByte(p) \/ ReadDone(p) \/ Post(p) \/ Awake(p)

Next ==
    \/ \E p \in Writers : AppendCall(p)
    \/ \E p \in Readers : ReadCall(p)
    \/ \E p \in Callers : SizeCall(p) \/ BadCall(p) \/ Wait(p) \/ Work(p)
    \/ Delete

Spec == Init /\ [][Next]_vars

\* Calls go on, a waiter for the semaphore is served, and somebody reads
Fairness ==
    /\ \A p \in Callers : WF_vars(Work(p)) /\ SF_vars(Wait(p))
    /\ \A p \in Readers : SF_vars(ReadCall(p))

FairSpec == Spec /\ Fairness

-----------------------------------------------------------------------------
\* Every variable keeps its type; the pointers stay inside the ring
TypeOK ==
    /\ hdl \in BOOLEAN /\ sem \in Nat /\ calls \in Nat
    /\ ptr_w \in Cells /\ ptr_r \in Cells /\ DOMAIN addr = Cells
    /\ pc \in [Callers -> CriticalPCs \cup WaitPCs \cup {"idle", "sleep"}]
    /\ waittime \in [Callers -> Nat \cup {-1}] /\ length \in [Callers -> Nat]
    /\ \A p \in Callers : Len(msg[p]) < Size /\ Len(buf[p]) < Size

\* At most one caller looks at the ring, and the semaphore is posted exactly
\* once on every path of append, read and size, so nobody waits for nobody.
SemHeld == sem + Cardinality({p \in Callers : pc[p] \in CriticalPCs}) = 1

\* The bytes between the pointers, oldest first
Unread == [k \in 1 .. (ptr_w + Size - ptr_r) % Size |-> addr[(ptr_r + k - 1) % Size]]

\* A read happens when its last byte is copied: until then the bytes it has
\* copied are still in the queue
Copied ==
    LET reading == {p \in Callers : pc[p] = "read"} IN
    IF reading = {} THEN <<>> ELSE buf[CHOOSE p \in reading : TRUE]

BQ == INSTANCE ByteQueue WITH
    Capacity <- Size - 1,
    Messages <- Messages,
    Wants <- ReadLengths,
    queue <- Copied \o Unread,
    msg   <- [p \in Callers |-> IF pc[p] \in {"posted", "timeout"} THEN <<>> ELSE msg[p]],
    want  <- [p \in Callers |-> IF pc[p] = "read_done" THEN 0 ELSE length[p]],
    buf   <- [p \in Callers |-> IF pc[p] = "read_done" THEN buf[p] ELSE <<>>]

\* The ring implements ByteQueue: messages enter in one piece and exactly when
\* Size - 1 bytes leave room for them, no unread byte is overwritten, and reads
\* return the bytes in order, as many as are there, also over the ring's end.
ImplementsByteQueue == BQ!Spec

\* An append comes to an end: with a finite waittime it gives up, and one that
\* waits for ever gets its space once the readers have made room, wherever in
\* the ring the pointers then stand.  (MaxCalls makes the other writers stop:
\* nothing in the code keeps them from taking the space first for ever.)
AppendEnds == \A p \in Writers : pc[p] # "idle" ~> pc[p] = "idle"
=============================================================================
