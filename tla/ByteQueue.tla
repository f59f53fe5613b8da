------------------------------ MODULE ByteQueue ------------------------------
(***************************************************************************)
(* What the buffer queue promises its callers: a bounded queue of bytes.   *)
(* A message enters in one piece or, when it does not fit, not at all; a   *)
(* read takes the oldest bytes, as many as there are and are wanted.       *)
(***************************************************************************)
EXTENDS Naturals, Sequences

CONSTANTS
    Callers, Capacity,
    Messages,   \* what a caller may append
    Wants       \* how many bytes a caller may ask for

VARIABLES
    queue,      \* the bytes that wait, oldest first
    msg,        \* the message a caller wants to append, or <<>>
    want,       \* how many bytes a caller wants to read, or 0
    buf         \* the bytes a caller's read has returned

vars == <<queue, msg, want, buf>>

Init ==
    /\ queue = <<>>
    /\ msg = [p \in Callers |-> <<>>]
    /\ want = [p \in Callers |-> 0]
    /\ buf = [p \in Callers |-> <<>>]

Ready(p) == msg[p] = <<>> /\ want[p] = 0 /\ buf[p] = <<>>

CallAppend(p) ==
    /\ Ready(p)
    /\ \E m \in Messages : msg' = [msg EXCEPT ![p] = m]
    /\ UNCHANGED <<queue, want, buf>>

CallRead(p) ==
    /\ Ready(p)
    /\ \E n \in Wants : want' = [want EXCEPT ![p] = n]
    /\ UNCHANGED <<queue, msg, buf>>

Fits(m) == Len(queue) + Len(m) <= Capacity

Enter(p) ==
    /\ msg[p] # <<>> /\ Fits(msg[p])
    /\ queue' = queue \o msg[p]
    /\ msg' = [msg EXCEPT ![p] = <<>>]
    /\ UNCHANGED <<want, buf>>

\* An append gives up waiting for space
GiveUp(p) ==
    /\ msg[p] # <<>> /\ ~Fits(msg[p])
    /\ msg' = [msg EXCEPT ![p] = <<>>]
    /\ UNCHANGED <<queue, want, buf>>

Read(p) ==
    LET n == IF want[p] <= Len(queue) THEN want[p] ELSE Len(queue) IN
    /\ want[p] > 0
    /\ buf' = [buf EXCEPT ![p] = SubSeq(queue, 1, n)]
    /\ queue' = SubSeq(queue, n + 1, Len(queue))
    /\ want' = [want EXCEPT ![p] = 0]
    /\ UNCHANGED msg

\* The caller has used the bytes it read
Use(p) ==
    /\ buf' = [buf EXCEPT ![p] = <<>>]
    /\ UNCHANGED <<queue, msg, want>>

Next == \E p \in Callers :
    CallAppend(p) \/ CallRead(p) \/ Enter(p) \/ GiveUp(p) \/ Read(p) \/ Use(p)

Spec == Init /\ [][Next]_vars
=============================================================================
