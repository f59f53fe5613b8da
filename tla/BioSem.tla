------------------------------- MODULE BioSem -------------------------------
(***************************************************************************)
(* The deadline of a timed wait for a semaphore (src/src/bio/bio_sem.c).   *)
(* sem_timedwait takes a point of time, in seconds and nanoseconds; the    *)
(* code computes it from time(), which knows full seconds only.  The waits *)
(* without a limit are part of BufQueue.                                   *)
(***************************************************************************)
EXTENDS Integers, TLAPS

\* time(NULL), at a time in milliseconds
time(now) == now \div 1000

\* unix_sem_wait with wait > 0, in milliseconds
Deadline(now, wait) ==
    [tv_sec  |-> time(now) + (wait \div 1000),
     tv_nsec |-> (wait % 1000) * 1000000]

\* When sem_timedwait gives up, in milliseconds
Expires(t) == t.tv_sec * 1000 + t.tv_nsec \div 1000000

-----------------------------------------------------------------------------
LEMMA Parts ==
    ASSUME NEW n \in Nat
    PROVE  /\ n \div 1000 \in Nat /\ n % 1000 \in 0 .. 999
           /\ n = (n \div 1000) * 1000 + (n % 1000)
  BY SMT

\* The deadline is one that sem_timedwait accepts, for every time asked for
\* (bio_sem.c:22): it would refuse a tv_nsec of a second or more with EINVAL.
THEOREM DeadlineWellFormed ==
    ASSUME NEW now \in Nat, NEW wait \in Nat \ {0}
    PROVE  /\ Deadline(now, wait).tv_sec \in Nat
           /\ 0 <= Deadline(now, wait).tv_nsec /\ Deadline(now, wait).tv_nsec < 1000 * 1000000
  <1>1. wait % 1000 \in 0 .. 999 /\ wait \div 1000 \in Nat /\ now \div 1000 \in Nat
    BY Parts
  <1> DEFINE m == wait % 1000
  <1>2. Deadline(now, wait).tv_sec = (now \div 1000) + (wait \div 1000)
    BY SMT DEF Deadline, time
  <1>3. Deadline(now, wait).tv_nsec = m * 1000000
    BY SMT DEF Deadline
  <1>4. m \in 0 .. 999 BY <1>1
  <1> HIDE DEF m
  <1>5. 0 <= m * 1000000 /\ m * 1000000 < 1000 * 1000000 BY <1>4, SMT
  <1> QED BY <1>1, <1>2, <1>3, <1>5, SMT

\* A timed wait ends early by the part of the current second that has passed, and
\* never late (bio_sem.c:21): a wait that is not longer than that part does not
\* wait at all, although the semaphore may be posted within the time asked for.
THEOREM DeadlineEarly ==
    ASSUME NEW now \in Nat, NEW wait \in Nat \ {0}
    PROVE  /\ Expires(Deadline(now, wait)) = now + wait - (now % 1000)
           /\ Expires(Deadline(now, wait)) \in now + wait - 999 .. now + wait
           /\ (wait <= (now % 1000)) <=> Expires(Deadline(now, wait)) <= now
  <1> DEFINE s == now \div 1000
             r == now % 1000
             d == wait \div 1000
             m == wait % 1000
  <1>1. s \in Nat /\ r \in 0 .. 999 /\ now = s * 1000 + r BY Parts
  <1>2. d \in Nat /\ m \in 0 .. 999 /\ wait = d * 1000 + m BY Parts
  <1>3. Expires(Deadline(now, wait)) = (s + d) * 1000 + (m * 1000000) \div 1000000
    BY SMT DEF Expires, Deadline, time
  <1> HIDE DEF s, r, d, m
  <1>4. (m * 1000000) \div 1000000 = m BY <1>2, SMT
  <1>5. Expires(Deadline(now, wait)) = now + wait - r
    BY <1>1, <1>2, <1>3, <1>4, SMT
  <1>6. /\ now + wait - r \in now + wait - 999 .. now + wait
        /\ (wait <= r) <=> now + wait - r <= now
    BY <1>1, SMT
  <1>7. r = now % 1000 BY DEF r
  <1> QED BY <1>5, <1>6, <1>7
=============================================================================
