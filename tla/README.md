# ctserver: specifications and proofs

ctserver is a TCP/TLS test server in C: an epoll loop accepts connections and
hands every accept and every readable link to a thread pool, whose tasks read
from the link, process the bytes (echo, discard, random, zero) and write them
back.  Beside it live a few utilities: a byte queue between threads, ini files,
CRC-32, and wrappers of semaphores, shared memory and files.

This directory holds TLA+ modules of the parts with logic of their own, the
configurations that TLC checks them with, and proofs that TLAPS checks.  Paths
of sources are relative to the repository (`src/src/pool/threadpool.c` is
written `threadpool.c` where nothing else is meant).

    cd tla
    tlc -workers 2 -config pool_safety.cfg MCThreadPool.tla     # a run
    tlapm ThreadPoolProofs.tla                                  # proofs

The runs are those of `MCThreadPool` (`pool_*.cfg`), `MCBufQueue` (`queue_*.cfg`),
`MCServer` (`server_*.cfg`) and `MCConfIni` (`conf_*.cfg`); proofs are in
`ThreadPoolProofs`, `ThreadPoolRoleProofs`, `ThreadPoolListProofs`,
`BufQueueProofs`, `ServerProofs`, `ConfIniProofs`, `ConfFileProofs` and `BioSem`.

`PROJECT.json` is the index: components, runs, the source lines of every
definition, findings, hazards, theorems, and for each property a plausible bug
that the property's run would find.

## 1. Inventory

| Component | State it keeps | Operations | Talks to | Hard behaviour |
|---|---|---|---|---|
| **Thread pool** `src/src/pool/` | `list_thread`, `list_task` and their counters, `flag_halt`, one mutex and one condition; a `THREAD_T` per thread | `pool_thread_new`, `pool_thread_task_add`, `pool_thread_del`; inside: `routine`, `manager`, `thread_add`, `thread_del` | users' tasks (callbacks), pthreads | cancellation, unlocked reads and writes, a manager that is itself a task, threads that free themselves |
| **Buffer queue** `utility/buffer/` | ring in shared memory, two offsets, a semaphore | new, del, append, read, size | semaphore, shared memory | wrapping, full against empty, waiting for space |
| **Server and links** `sock/svr.c` | epoll set, listening link, list of links with a state each | start, stop; tasks accept, read, write, process | thread pool, processors, OpenSSL | tasks and the loop share a link; edge- and level-triggered events |
| **Processors** `processor/` | per link: left-over bytes | read, write, process callbacks | server's tasks | none of their own |
| **Semaphore** `bio/bio_sem.c` | a `sem_t` | new, del, wait, post, val | pthreads | deadline of a timed wait |
| **Ini files** `utility/conf/conf_ini.c` | lists of sections and keys | load, clean, get | files | scanning at a line's end, escapes, repeated keys |
| **CRC** `utility/crc/crc32.c` | none | init, update, finish, calc | none | equality with the bitwise definition |
| Shared memory, files, terminal `bio/` | handles | wrappers | the OS | none of their own |
| Program frame `core/` | options | `main_init`, `option_parse`, `main_process` (empty) | all of the above | none |
| Lists `inc/list/list.h` | none of its own | `list_del`, `list_add_tail`, ... | pool, server, ini files | safe only if nobody else touches the links |

What makes each of them correct:

- *Thread pool.*  Tasks start in the order of their addition, once each, none
  after the pool's destruction began; the mutex is never left locked by a thread
  that is cancelled; no wakeup is lost; counters agree with the lists; the
  manager keeps the number of threads within its limits, never deletes itself
  or a busy thread; nobody touches freed memory; destruction terminates.
- *Buffer queue.*  Messages enter whole or not at all, unread bytes are never
  overwritten, bytes come out in order; the semaphore is given back on every
  path; a waiting append ends.
- *Server and links.*  Every connection that arrives reaches a task that accepts
  it; a link that is marked busy has a task; its descriptor is closed before its
  structure is freed; data that arrived is read; the tasks end when the server
  stops or the pool is destroyed.
- *Semaphore.*  A timed wait does not end before its time.
- *Ini files.*  Neither a line nor a scan leaves the buffer; every loaded value can be
  found; clean frees everything once.
- *CRC.*  Table and bitwise update agree on 32 bits, over every split of the
  data.

The hazards behind these, each at its line, are listed in `PROJECT.json`.

## 2. Plan

| Step | Modules | State |
|---|---|---|
| 1. Thread pool: everything else runs on it, and all concurrency is there | `ThreadPool`, abstract `TaskPool`, `MCThreadPool` | done |
| 2. Its type invariant, mutual exclusion, task count and refinement proved | `ThreadPoolProofs` | done |
| 3. Buffer queue | `BufQueue`, abstract `ByteQueue`, `MCBufQueue` | done |
| 4. Server loop, accept and link tasks over the abstract pool: `Server` instantiates `TaskPool`, which `ThreadPool` implements | `Server`, `MCServer` | done |
| 5. Proofs about the buffer queue (ring, free space, semaphore, refinement) and about the server (types, due accepts, descriptors) | `BufQueueProofs`, `ServerProofs` | done |
| 6. The pool's other safety properties proved: the roles and wakeups, then the linked list, its count and its limits | `ThreadPoolRoleProofs`, `ThreadPoolListProofs` | done |
| 7. Configuration files, against what a file means, values by the rules of `conf_ini.h` | `ConfIni`, abstract `ConfFile`, `MCConfIni` | done |
| 8. The semaphore's deadline as arithmetic on seconds and nanoseconds | `BioSem` | done |
| 9. Proofs about the links that are marked busy, and about the loading of files: memory and the scan of a value | `ServerProofs`, `ConfIniProofs`, `ConfFileProofs` | done |
| 10. The refinement of `ConfFile` proved | `ConfFileProofs` | done |

Modules that are proved about use no RECURSIVE operator; sizes, limits and
inputs are CONSTANTS with named assumptions.

## 3. The thread pool

### 3.1 `ThreadPool`

Processes are `Main` (0), which calls `pool_thread_new` and later
`pool_thread_del`, and threads `1 .. MaxThreads`, numbered in the order of their
creation.  `pc` says where each of them is; the prefixes of the labels name the
function (`x_` the end of `routine`, `d_` `thread_del`, `reg_` the registration in
`thread_add`, `m_` `manager`, `q_` the end of `pool_thread_del`).

| Code | Model |
|---|---|
| `p->mutex` | `mutex`, its holder |
| `p->list_task`, `list_task_num` | `list_task` (task numbers; 0 is the manager, users' tasks are 1, 2, ...), `list_task_num` |
| `p->list_thread`, `t->ptr` | `nxt`, `prv` on nodes; node 0 is the list head, `NULL` a poisoned or unset link |
| `t->state`, `t->task`, `t->mutex`, `free(t)` | `state`, `task`, `tlock`, `freed` |
| a cancellation request | `cancel` |
| a counter's value between its load and its store | `reg` |
| the local `t` of `thread_add`, `thread_del` | `ptr` |
| links read by `list_del` or by the search | `nb` |
| `interval_create`, `_destroy`, `_cond_signal`; `i` of `pool_thread_del` | `interval`, `wait` |

Actions and functions: `Worker` is `routine` with its two cleanup handlers;
`TaskAddCheck`, `TaskAdd` are `pool_thread_task_add`, called by `Main` or by a
running task; `ThreadAdd` and `ThreadDel` are `thread_add` and `thread_del`, run by
`Main` or by the manager; `ManagerStep` is the task `manager`; `Delete`, `Halt`,
`QuitWait`, `QuitScan` are `pool_thread_del`.

**Grain.**  Under the mutex a step runs up to the next access that races with
code outside the mutex.  Outside the mutex a step is one access to shared
memory.  Hence

- `idle_thread_num++`, `--`, `thread_num++`, `--` are a load and a store each, as
  each of the two counters has an updater without the mutex (`thread_del`, the end
  of `routine`);
- `list_del` is two steps (the reads of the two links, then the four writes).
  `list_add_tail` is one step, taken with the mutex; it can interleave
  with the two halves of an unlocked `list_del`, not with each of its writes;
- the manager reads `thread_num` once for each of its two decisions and
  `idle_thread_num` in a step of its own; the thread search reads the state and the
  next link of each node in separate steps;
- three short stretches without the mutex are one step each: the four writes of
  `list_del`, what `routine` does after a task's function returned, and the
  manager's signal with its test (a wakeup too many is harmless, one too few is
  repeated).

**Undefined behaviour.**  A step that would dereference a freed `THREAD_T` or a
`NULL` link cannot be taken; instead `Crash` moves `Main` to `crashed` and the
program stops.  `free(p)` while some thread still uses the pool goes to `crashed`
too.  The properties are stated to mean something before such an end, and
`SafeUntilHalt` says that it can only come after the destruction began.

**pthreads**, modelled from their use: `pthread_cond_wait` releases the mutex,
sleeps, and takes it again; `pthread_cond_signal` wakes one waiter, any one, and a
waiter with a pending cancellation may or may not consume it;
spurious wakeups are an action that a constant switches on.  Cancellation is
deferred: it acts in `pthread_cond_wait`, in a task's function, and, for the
manager, in `pthread_testcancel`, `sleep` and `pthread_join`.  `pthread_join` returns
once the thread is over; a second joiner gets an error at once.

**Left out.**  Time: `sleep(1)` may take any time.  Logging, and cancellation points
inside logging calls.  The uninitialised `ret` in `thread_del`, which only decides a
warning.  Failures of `malloc` and of the lock in `pool_thread_task_add` and
`pool_thread_new`: the pool is not changed then, so to the pool it is as if nobody had
called.  What a caller makes of the error is modelled with the caller (the server,
5.1).  Two callers of `pool_thread_del`.

### 3.2 `TaskPool`

The promise to users: a queue, the set of running tasks, and whether
the pool is being destroyed.  `Start` takes the head, and only before `Halt`, which
discards the queue.  `ThreadPool` implements it with `queue <- list_task`,
`halted <- flag_halt` and `running` the tasks the threads hold (`t->task`).
`Submit` is allowed after `Halt`, because the code allows it (finding 2).

### 3.3 Runs

| Run | Instance | Shows |
|---|---|---|
| `pool_safety` | a pool in service: 5 thread numbers, MIN 2, MAX 3, 2 user tasks, one of which runs for ever, spurious wakeups; no destruction | `TypeOK`, `NoLostWakeup`, `ManagerSpared`, `ThreadCount`, `SafeUntilHalt`, `KeepsMin`, `ImplementsTaskPool`; `ServedIfCounted`, `ShrinksIfCounted`: as long as `idle_thread_num` is right, a waiting task is taken and surplus sleepers are deleted |
| `pool_limits` | destruction at any moment: 4 thread numbers, MIN 1, MAX 2, 2 user tasks, one of which runs for ever, failing creation, spurious wakeups | `MutexHolder`, `TaskCount`, `ThreadMutexReleased`, `WithinMax`, `SafeUntilHalt`, `ImplementsTaskPool`, and `HaltEnds`: `pool_thread_del` terminates |
| `pool_starved` | 4 thread numbers, MIN 1, MAX 3: two threads beside the manager | finding 3: `TaskServed` fails |
| `pool_join`, `pool_halt_add`, `pool_delete_busy` | 2 or 3 threads | findings 1, 2 and 4 |

**Bounds.**  `MaxThreads` bounds the threads ever created, and `pthread_create`
fails beyond it; `MaxTasks` bounds users' tasks.  The code's constants (MIN 4, MAX
32, idle 4, intervals 2, 16 and 4 s, waiting time 8 s, `pool.h:9-15`) are scaled down so that all thresholds are crossed with few threads:
the pool grows to MIN, grows for a task, shrinks and regrows.  Every race found is
between two or three parties (a thread, the manager, `Main`).  More thread
numbers than MAX let threads be deleted and created again.  `MayDelete` says
whether the pool's user ever destroys it: destruction multiplies the states by a
hundred, so the runs about a pool in service switch it off and are large, and
`pool_limits`, which has it, is small.  Serving and
shrinking need at least two threads beside the manager: with one, a lost update of
`idle_thread_num` cannot do any harm.  `TaskServed` excuses a pool that has used up all
its thread numbers (`OutOfThreads`): that nobody can be created any more
is the bound's doing and not the code's.

**Fairness.**  Weak fairness of every thread (`Thread(t)`), of `Main` while it is
inside a function of the pool (`MainStep`), of an addition that was begun
(`TaskAdd`), and of a crash that is due; strong fairness of a thread's acting on its
cancellation in `pthread_cond_wait` (`CancelInWait`), since it does so at the latest when
it enters the wait again, however often it is woken.  This is what a scheduler that lets each
runnable thread run gives; the mutex is released after finitely many
steps, and no property relies on a particular thread being preferred.  Nobody is
obliged to add a task, to destroy the pool, to finish a task in `LongTasks`, or to
wake spuriously.

### 3.4 What the code does not keep

1. `pool_join` (`threadpool.c:188`).  `thread_del` holds a pointer to a thread while
   it joins it.  During `pool_thread_del` that thread may leave `routine` by itself,
   which unlinks and frees its `THREAD_T`; the join succeeds, and `thread_del` unlinks and
   frees the same memory again.  The comment at line 193 says it should not happen.
2. `pool_halt_add` (`threadpool.c:290`).  `flag_halt` is tested before the mutex is taken,
   so a task can be appended to the list that `pool_thread_del` has just emptied.
3. `pool_starved` (`threadpool.c:198`).  `idle_thread_num--` without the mutex races
   with `++` and `--` of `routine` under it, and nothing corrects the counter later.  If
   `thread_del` and a thread that takes a task both load the same value, one
   decrement is lost: the counter stays above zero with nobody idle, the manager's test
   `idle_thread_num <= 0` (line 234) never holds again, and a task waits for ever
   although the pool could grow (the comment at line 218 says it creates a thread
   then).  If a `++` is lost the counter is too low and surplus sleepers are never deleted
   (`Shrinks`, line 219).  Both need two threads beside the manager.  What holds is
   conditional: as long as the counter is right whenever nobody is changing it (`IdleCount`)
   tasks are served and the pool shrinks, which is
   `ServedIfCounted` and `ShrinksIfCounted`.
4. `pool_delete_busy` (`threadpool.c:179`).  A thread becomes BUSY only after it
   released the mutex, so the manager may choose a thread that has a task, and
   cancel it inside the task's function.  The server suffers from it (5.3).

### 3.5 Proofs: `ThreadPoolProofs`, `ThreadPoolRoleProofs`, `ThreadPoolListProofs`

All safety properties that the passing runs check, and the refinement, are proved for
every number of threads and tasks and all settings, from `BoundsAssumption` and
`PoolAssumption` alone:

| Theorem | Statement |
|---|---|
| `TypeCorrect` | `Spec => []TypeOK` |
| `MutualExclusion` | `Spec => []MutexHolder` |
| `TaskCounted` | `Spec => []TaskCount` |
| `TasksInOrder` | `Spec => []TP!StartedOnce`: the list holds the latest tasks in the order of their numbers, every task a thread holds is older |
| `Implementation` | `Spec => ImplementsTaskPool` |
| `OwnMutexReleased` | `Spec => []ThreadMutexReleased` |
| `ManagerNotDeleted` | `Spec => []ManagerSpared` |
| `WakeupsKept` | `Spec => []NoLostWakeup` |
| `NoUseAfterFree` | `Spec => []SafeUntilHalt` |
| `ThreadsCounted` | `Spec => []ThreadCount` |
| `NeverAboveMax` | `Spec => []WithinMax` |
| `NeverBelowMin` | `Spec => KeepsMin` |

None of these is inductive alone.  The inductive invariant `PoolInv` adds

- `TakeReady`: between the wait loop's test and `Take` the list is not empty and the
  pool is not halted, which holds because every step that changes either
  needs the mutex, and the thread at `take` has it (`MutexHolder`);
- `HaltOnce`: once `flag_halt` is set, `Main` is past `Halt`, so it is set once;
- `Unassigned`: a thread that has not taken a task holds none, so that `Take`
  overwrites nothing;
- `CountExact`, `InOrder`, `Taken`, `Apart`: the count is exact, the list holds the
  latest task numbers in order, threads hold older ones, no two threads the
  same.  `Apart` is what makes the end of a task a single `End` of `TaskPool`.

Most steps are `Quiet`: one process moves to another control point, perhaps
entering or leaving the mutex, and no task moves.  One lemma shows that a quiet
step keeps `PoolInv`, and each action has a lemma that says it is quiet, or, for
`Take`, `Finish`, `TaskAdd`, `DelFree`, `Halt` and the wait loop's test, a proof of
its own.  `PoolInv` itself was model-checked on the instance of `pool_limits`
before it was proved.  The refinement theorem uses the same division: quiet steps
stutter, the others map to `Submit`, `Start`, `End` or `Halt`.

`ThreadPoolRoleProofs` adds `RoleInv`: a thread's own mutex is locked only from
`Take` to the end of its task (`LockHeld`); who is inside the manager has the manager
as its task and marked itself BUSY before (`ManagerBusy`), so the search for an idle
thread passes it by and `thread_del` never runs on the thread itself (`NotItself`);
`Main` deletes only what it halted (`HaltedMain`), and if it is about to free the
manager's thread, that thread is over (`LastVictim`).  `NoLostWakeup` is inductive with
these; its proof is about the two steps that take away an awake thread (`Take`, which
also takes a task, and a wait that is begun, which finds no task) and the one that adds
a task, which signals a waiter if there is one.

`ThreadPoolListProofs` is about the pool until `flag_halt` is set (`ServiceInv`), as
destruction does break the list (finding 1).  Its invariant `Service` has four parts:

- `Control`: `Main` is not deleting, no thread has left `routine`, whoever runs a
  user's task is not the manager, and while `Main` is inside `pool_thread_new` no
  task was added;
- `Numbers`: `thread_num` plus a thread just linked equals the length of the list plus
  one just unlinked (`Counted`), the values loaded of `thread_num` are still its values
  (`Loaded`), and how many threads there may be at each control point (`Limits`).
  While `Main` still registers its thread the manager adds only up to
  `THREAD_NUM_MIN`, which is why two unlocked additions cannot exceed
  `THREAD_NUM_MAX`;
- `Chain`: links are mutual (`Linked`), and every nonempty set of listed threads is left by
  some link (`NoCycle`), a form of "the list is one ring through `list_thread`" that needs
  no induction: it gives the manager's search a first thread, and shows that the
  neighbours of a victim are others than the victim;
- `Fates`: only joined threads are freed, only the manager's victims are cancelled,
  victim, search and new thread are in the list or off it as the control point says.

Most steps are `Steady` (list, `thread_num` and `freed` stay); for these one lemma proves
all of `Service` but what depends on where the manager goes, which `MayGo` says.  The
five steps that change the list, its count or `freed` are proved one by one.  `ServiceSafe`
concludes that every dereference is of intact memory.  Both invariants were model-checked
on the instances of `pool_safety` and `pool_limits` before they were proved.

**Only model-checked.**  Liveness (`ServedIfCounted`, `ShrinksIfCounted`, `HaltEnds`), which
is beyond the prover.

## 4. The buffer queue

### 4.1 `BufQueue` and `ByteQueue`

`BufQueue` is `buf_queue.c` with any number of writing and reading threads.
`addr`, `ptr_w`, `ptr_r` are the ring; `sem` the value of its semaphore;
`msg` and `waittime` the parameters of `buf_queue_append` (`waittime` is counted down by the
code), `length` and `buf` those of `buf_queue_read`.  Each call first takes the semaphore
(`Wait`), then works on the ring (`Copy`, `Advance`; `ReadByte` for each byte,
`ReadDone`) and gives the semaphore back (`Post`).  An append that finds no room either gives
up or posts, sleeps and waits for the semaphore again (`NoRoom`, `Post`, `Awake`).
Copying and reading are separate steps, so exclusion comes from the semaphore
and not from the model's grain.  Calls with bad parameters return without effect.

`ByteQueue` is a bounded queue of bytes with capacity `Size - 1`: a message enters whole
exactly if it fits, an append gives up only if it does not, a read takes as many of the oldest
bytes as there are and are wanted.  In the refinement the bytes that a
read in progress has copied still belong to the queue; they leave it when the read ends.

Bytes are pairs of message number and position, so that any loss, repetition,
mixture or overwriting shows.  The ring's size is assumed below 2^31, where the
code's `unsigned int` arithmetic does not wrap.  Not modelled: a semaphore wait
interrupted by a signal, the choice of the temporary file's name
in `buf_queue_new`, and deletion during a call (`Delete` waits until none is in
progress, which the code leaves to its callers).

### 4.2 Runs

| Run | Instance | Shows |
|---|---|---|
| `queue_ring` | size 5, 2 writers, 1 reader, messages of 1 and 3 bytes (4 is refused), reads of 2 and 3, 3 messages | `ImplementsByteQueue`, `SemHeld`, `TypeOK`, and `AppendEnds`: every append returns |

Three messages of up to three bytes go almost twice around the ring of five, so that
both pointers wrap, messages and reads are cut in two at the ring's end, and the ring is
exactly full.  `Waittimes` holds the finite times; waiting for ever is always among the
choices.

`AppendEnds` assumes that calls in progress go on (weak fairness), that a waiter for a
semaphore that is free again and again gets it (strong fairness), and that some reader
keeps reading, without which waiting for ever is what was asked for.
`MaxCalls` makes the other writers stop; with a writer that never stops, a
waiting one may starve, since the code has no queue of writers.

An append of length 0 is accepted by the parameter check but by neither
free-space test; with `AppendLengths` holding 0, `AppendEnds` fails.  As no text says
what should happen, the runs leave it out and the hazard list names it.

### 4.3 Proofs: `BufQueueProofs`

For every ring size, number of threads and set of lengths:

| Theorem | Statement |
|---|---|
| `FreeSpaceExact` | the tests of `buf_queue.c:98-113` accept a length exactly if it is positive and less than the number of unoccupied cells |
| `TypeCorrect` | `Spec => []TypeOK`: both offsets stay in the ring, nothing is copied past its end |
| `Semaphore` | `Spec => []SemHeld`: at most one thread is between its wait and its post, and none when the value is 1 |
| `Implementation` | `Spec => ImplementsByteQueue` |

The inductive invariant `Inv` has five parts.  `Types` and `Short` bound the state.
`Exclusive` is the semaphore's use as a lock: its value and the one thread in the
ring add up to 1, so that what a thread has tested stays true until it posts.
`Params` says what a call's parameters are while it runs.  `Filled` is why splitting
a copy from the advance of `ptr_w` is safe: between the two the message lies in cells
that are free, in order, so that the advance adds exactly the message to what is unread.

The refinement views the ring as a queue, the unread cells from `ptr_r` to `ptr_w`.  The
lemmas `UnreadIs`, `UnreadSame`, `UnreadGrows` and `UnreadShrinks` say how that sequence
follows the offsets, also around the ring's end; one lemma for each action
(`AppendCallMaps` to `StepMaps`) maps it to an action of `ByteQueue` or to a
stutter.  `FreeSpaceExact` yields the guard of the abstract append, and that giving
up means that the message does not fit.

`AppendEnds` is a liveness property and is only model-checked.

### 4.4 `BioSem`

The deadline of a timed wait is the current second, without its fraction, plus the
time asked for (`bio_sem.c:21-22`).  `DeadlineWellFormed`: its nanoseconds are always
below a second, so that `sem_timedwait` accepts it.  `DeadlineEarly`: it lies before the
time asked for by exactly the part of the current second that has passed, up to 999 ms, and
never after; a wait no longer than that part does not wait at all.  Nothing in
`src/` waits with a limit (the queue passes -1), so there is no run: the result is about the
function's arithmetic.

## 5. The server

### 5.1 `Server`

The module is `sock/svr.c` with the callbacks of `processor/`.  Everything runs in
tasks of the pool, and the pool is an instance of `TaskPool`: a task is added with
`Submit`, begun with `Start`, returns with `End`, and the pool is destroyed with `Halt`.  Since
`ThreadPool` implements `TaskPool` (proved), the server is modelled on what the
pool really does: tasks begin in the order of their addition and run
concurrently, in any interleaving, and a task added during the destruction may be dropped.
A task also ends (`End`) when the pool cancels its thread.

| Code | Model |
|---|---|
| the pool's list, its running tasks, `flag_halt` | `queue`, `running`, `submitted`, `halted` (of `TaskPool`) |
| a task's function, its argument, where it is, the bytes in its buffer | `func`, `info`, `pc`, `buf` |
| `svr->state` | `state`; `orders` counts its changes |
| `events[]` in `sock_server_routine` | `batch`, the events not handled yet |
| a link's `SOCK_INFO_LINK_T` | `mem` (allocated, freed), `lstate` (`link->state`), `fd_peer` |
| `g_processor_type_cur` | the same |
| descriptors, connections | `conn` (what a descriptor stands for now), `phase`, `sent`, `inbox`, `fin`, `err` |
| the listening socket | `backlog`, `knock` (its edge-triggered event is due) |
| epoll's entries | `watch` (trigger), `edge` (is listed as ready), `data` (the link it was registered with) |

`ServerTask` is `sock_server_routine`: `Loop`, `EpollWait`, and for each event
`AcceptEvent` or `AcceptEventFails`, `BusyEvent`, `LinkEvent` with `AddProcess` and `MarkBusy`, or
`ErrorEvent`.  `AcceptTask` is `sock_accept`, `LinkTask` a processor's callback with
`sock_read`, `sock_write` and `sock_postprocess`, and `CloseLink` is `sock_close`, run by a
link task or by the loop.

**Grain.**  Nothing in `svr.c` takes a lock.  A step is one system call or one access to
state that another task or the loop shares: testing a link's state and adding
its task are separate steps, marking it busy is a third; `sock_close` is three steps
(`epoll_ctl`, `close`, `free`), the two halves of `sock_postprocess` are two, and a
registration that fails is two as well, `free(info)` (`RegisterFails`) and then `close(fd)`
(`Refuse`), as after a failing `fcntl` or `malloc` (`AcceptFails`).

**Failing additions.**  `pool_thread_task_add` may fail.  For a link's task the loop leaves
the link unmarked (`AddProcessFails`); for the accept task it ignores the result, and the
event is gone (`AcceptEventFails`).  `missed` is a history variable: since the last
arrival, accepting was given up.

**Cancellation.**  `CancelTask` ends a task at a cancellation point (`CancellationPoints`:
`pthread_testcancel`, `sleep`, `epoll_wait`, `accept`, `read`, `write`, `close`).
`pool_thread_del` may do it to any task once the pool is being destroyed; before that, the pool's
manager may, as it can choose a thread that has just taken a task (finding 4 of the
pool).  `Cancelling` bounds which tasks the manager chooses.  What a cancelled task had in hand
stays in `func` and `info` as history.  Cancellation points inside the debug output are left out.

**External.**  Peers connect, abort, send, close, and break (an error that leaves
nothing to read).  `accept`, `epoll_wait` and `epoll_ctl` are modelled from their use:
an edge-triggered entry is reported once for each arrival, a level-triggered one as
long as there is something; the events reported hold `EPOLLIN` and `EPOLLERR`, never
`EPOLLET`; descriptors are used again, lowest first; `epoll_ctl` on a descriptor affects
whatever it stands for by then.  A blocking send is left out: sockets accept what is
written, in parts.  TLS changes how bytes are framed and is not modelled.

**Undefined behaviour.**  A step that would use a freed link cannot be taken; `Crash` ends the
model instead.  So does `Killed`: nobody in `src/` ignores SIGPIPE, so a write to a
peer that is gone may end the program.  No property promises that these do not
happen, because they do.

**Two facts about the code as it is.**  No code in `src/` sets the server's state to
RUNNING, which all its loops test; `SetState` is the owner of the structure.  And
`sock_svr_start` and the loop give their tasks, as argument, not the address of the
server but its first bytes; the comment at `svr.c:221` says that an address is meant.  The
constant `ArgIsAddress` chooses: FALSE is the code as written, in which the first step
of the server's task is `Crash` and nothing else can be said; the runs use TRUE, the program with the argument that the comment means.

### 5.2 Runs

| Run | Instance | Shows |
|---|---|---|
| `server_links` | 2 connections and descriptors, 4 tasks, 1 byte, echo; connection 1 talks, closes and breaks, connection 2 may be aborted before it is accepted; accepting, registering and adding either kind of task may fail; the loop and an accept or link task may be cancelled in service; the server runs, stops or is suspended, and the pool may be destroyed early | `TypeOK`, `AcceptDue`, `SoleTaskUnmarks`, `NoDescriptorLeak`, `AllAccepted`, `WindsDown` |
| `server_busy` | 1 connection, 2 bytes, a buffer of 1, processor null, 5 tasks | finding: `BusyHasTask` |
| `server_unread` | 1 connection, 2 bytes, a buffer of 1, processors null and echo, 5 tasks | finding: `DataServed` |

**Bounds.**  The four tasks are the loop, two others at work and one more that waits
or is added late; two tasks and the loop are the parties to every race here.  Two
connections let one end while the other is accepted, and two descriptors let a
closed one be used again by the other connection.  One byte and one talking connection
suffice for the races between arrival, reading and closing; two bytes with a buffer of one are
needed for data that is left, which `server_unread` has.  `Cancelling = {1, 3}` lets the
manager cancel the loop and whatever the third task is, an accept or a link task.  `MaxOrders` and
`HaltTasks` limit when the state changes and when the pool is destroyed.
`MaxTasks` bounds additions: beyond it the loop stands still, so the
liveness properties excuse a system that has used all its tasks.

**Fairness.**  `FairSpec` has weak fairness of the loop's steps and of the other tasks'
steps taken together (`LoopStep`, `WorkStep`), which is less than
the fairness to each thread that a scheduler gives, and enough.  Peers and owners owe nothing.

### 5.3 What the code does not keep

`server_unread` (`svr.c:305`).  The comment at `svr.c:303-304` says that data that
arrives while another task has the link is received by switching the link to
level-triggered.  The switch is made only if the event has `EPOLLET` set, which
`epoll_wait` never reports, so it is never made: a byte that arrives while the link is
busy, after the task's last read, is not reported again, and nobody reads it.

`server_busy` (`svr.c:331`).  `sock.h:23` says of the state BUSY that data is being
exchanged.  A task that finds nothing to read marks its link DISCONNECT and closes it
some steps later (`svr.c:97`).  An event in between makes the loop add a second task
and write BUSY over that mark.  Now neither task sees the mark; each sets the link IDLE as
it ends, and the loop, which marks the link after it has added a task, may be the last
to write: the link is BUSY, no task has it, and all its later events are passed over.
It takes five tasks, so `server_links` with its four does not reach it.  As long as
each link has one task at a time the mark is right: that is
`SoleTaskUnmarks` (if `SoleTask` always held, so would `BusyHasTask`), which is
checked and proved.

The link gets to IDLE in `server_unread` by the same overwriting: the task that finds nothing to
read marks the link DISCONNECT, and the loop's late BUSY (`MarkBusy`) removes that mark.

One more disagreement with a text has no run.  `sock.h:31-33` gives `read` three results,
data, "No data" (0) and an error, and closes the link on an error;
`processor.h:15-24` lets a processor read until it gets 0 and keep an incomplete packet for the next
read event.  But `sock_read` marks the link DISCONNECT in all cases without data
(`svr.c:97`), also when there merely is nothing to read yet, and `sock_postprocess` closes
it: a link is closed after each answer, and no packet can be completed by a later event.
`ReadDone` does as the code does, and no property claims otherwise.

What the pool's cancellations and failing calls leave behind is part of the model, and
the properties except exactly it:

- *Connections.*  If the accept task is not added (`svr.c:295`, the result is ignored), or is
  cancelled, or ends at an aborted connection while others wait (`svr.c:233`),
  nobody looks at the queue before the next arrival.  `AcceptDue` and `AllAccepted` hold unless
  `missed`.
- *Links.*  A link task that is cancelled in `read` or `write` leaves its link BUSY without a
  task, and the loop passes over it from then on.  `BusyHasTask` counts the link of a
  cancelled task as lost, not as served.
- *Descriptors.*  `sock_accept` frees the structure of a link that it cannot register and
  then closes its descriptor (`svr.c:268-269`); `close` is a cancellation point, so the
  descriptor may stay open for ever.  So may one of lines 243 and 250.  `NoDescriptorLeak`
  names the accept tasks that are about to close, or were cancelled there.

Other things one might expect are not kept either, without a text that promises them;
the hazard list names their lines.  Two tasks may have one link, and the loop closes a
link on an error while a task uses it.

### 5.4 Proofs: `ServerProofs`

For all values of the constants, from `ServerAssumption`:

| Theorem | Statement |
|---|---|
| `TypeCorrect` | `Spec => []TypeOK`, with `HeldMade`: nobody holds a link that was never allocated |
| `ConnectionsDue` | `Spec => []AcceptDue` |
| `NoLeak` | `Spec => []NoDescriptorLeak` |
| `BusyLinksServed` | `Spec => SoleTaskUnmarks`, that is `[]SoleTask => []BusyHasTask` |

The first three share the inductive invariant `Inv`, which was model-checked first.  `AcceptDue` rests
on who may take an event away: `OneLoop` says that only the first task is the
loop, and that events exist only while it handles them, so that `EpollWait` never
overwrites some; `NotYet` excludes accept tasks before the server is made to run,
since such a task would return without accepting; `Due` states the promise from the
start on.  A failed addition, and the cancellation of an accept task or of
the loop, set `missed`, which `Due` excuses until the next arrival.  `NoDescriptorLeak` rests
on `Queued` (a waiting connection has no link) and `Owned`: a connection with a descriptor
has a live link with that very descriptor or an accept task that is to close it, or was
cancelled there (`Refuses`), and whoever is about to free a link in `sock_close` has closed
it.  `TasksFit` ties a task's function to
the places it can be at.  Each action has its lemma, with one step for each part of `Inv`.

`BusyLinksServed` is about the window between the addition of a link's task and the
loop's mark.  Its invariant `Busy` says that a marked link has a task (`Served`) and that
the loop, at the mark, finds the task it added there or one that was cancelled, and that
this task will not leave the link idle (`Marking`, `Firm`): it has something to do still, or it saw to it
that the link is closed.  Most steps are `Quiet`: they take no task away and mark no link busy.
The assumption that no link has two tasks is used where a task sets a link idle, which
would undo another task's mark.  Closing needs no such assumption: a link that is
freed is not live.

The liveness properties (`AllAccepted`, `WindsDown`) are only model-checked.

## 6. Configuration files

### 6.1 `ConfIni` and `ConfFile`

`ConfFile` is what a file means: headers begin an entry, settings give its keys values.
What belongs to a value is as the comments of `conf_ini.h` say: comments count unless
they are quoted or escaped.  Which lines are headers and settings, and their names, is
as in the code (see below).  It works on whole lines.

`ConfIni` is `conf_ini.c`: `conf_ini_load` reads a line into a buffer
(`Read`), decides what it is (`ini_line_read`, `ini_line_is_section`,
`ini_line_is_keyval`), and stores it (`AddSection`, `AddKeyval`) in blocks of memory that may
be refused (`AddSectionFails`, `AddKeyvalFails`).  The buffer is modelled with the
characters that are left behind a string's end, since trimming moves strings and the scan
of a value can step over an end.  `Clean` is `conf_ini_clean`.  It reads the next entry from the node
it has just freed: `CleanAstray` is that read going wrong, after which the model stops.
A line that does not fit the buffer with its newline and a zero (`Fits`) is written behind
it, or has no end: `Overrun`, after which the model stops as well.

**Quotes and escapes outside values.**  `conf_ini.h:13-20` says that marks between paired
quotation marks are void and that an escaped character is an ordinary one, and does not
confine this to values.  The code looks for quotes and escapes in values only
(`ini_value_analyze`); the tests for headers and settings take the first mark of each
kind whatever is around it (`conf_ini.c:58-84`).  So `"k;"=v` is no setting, `a\=b=v` sets the
key `a\` to `b=v`, and `["a;b"]` is no header.  `ConfFile` follows the code here, and
`ImplementsConfFile` does not speak of these rules outside of values.

Facts that the model shows and no text contradicts: a key set twice
loses the first value's memory; a header with an empty
name is skipped and the previous section goes on; any section whose name contains
a table's name is that table's; a failed load keeps what it has stored.

Left out: one of the three quotation marks that the code knows, which are treated alike, and
a last line that ends with the file and has no newline.  `conf_ini_save` is an
empty function.

### 6.2 Runs

`conf_load` loads files of three lines, any sequence of 176 different ones: settings with all values of up to three characters among a
plain one, comment, escape and both quotation marks, some longer, and headers, broken
headers, unknown sections and keys, blanks, and one that is too long for the buffer of ten.  With four blocks of memory there are two
entries, in one table or in two, and values, some replaced.  It shows `HeldOnce` (nothing
freed is reachable, nothing reachable twice), `ScanStays` (the scan ends within the
line's zeros), `LosesOnlyReplaced`, and `ImplementsConfFile`.  A scan depends on one
line only, so three lines suffice for it; they also give header, setting and a
second setting of the same key.

`conf_long` is a finding (`conf_ini.c:103`), `ExcessIgnored`: `conf_ini.h:58` says that a line must not be
longer than 4096 bytes and that the part beyond is ignored.  `ini_line_read` writes
characters into the buffer until a newline or the end of the file comes, and nothing
compares their number with the size of the buffer.  What `conf_load` shows, and what is proved, is
about loads whose lines fit.

### 6.3 Proofs: `ConfIniProofs`, `ConfFileProofs`

For any tables, any lines (of any length), any number of blocks and any failures, from
two assumptions: `ConfAssumption` says what kind of values the constants are, and
`TextAssumption` that lines contain no zero.  The latter is needed by the refinement only: to
the C code a line ends at its first zero, to `ConfFile` it does not.

| Theorem | Statement |
|---|---|
| `TypeCorrect` | `Spec => []TypeOK`: keys go to an entry of the table whose section was read last |
| `FreedOnce` | `Spec => []HeldOnce` |
| `LostWhenReplaced` | `Spec => LosesOnlyReplaced` |
| `ScanInBounds` | `Spec => []ScanStays` |
| `Implementation` | `Spec => ImplementsConfFile`, the refinement |

The first three share the inductive invariant `Inv`.  `Apart` is `HeldOnce` one
block at a time: an entry is allocated and at one place of one list, a value is allocated,
no entry, and of one key of one entry.  It is kept by an allocation because what
`malloc` returns is free, and nothing free is held.  That needs `Loading` (there is
a free block while a line is due, and no current table outside of a load, so that
`Clean` cannot take the entry that gets the next key) and `Stored` (what lists and keys
hold are blocks).  `OthersStay` is the heart of the proof about `Clean`: what
other tables' entries hold is not among what is freed.

`ScanInBounds` rests on what trimming and cutting never touch: `Lined` says that behind a
line of `n` characters there is its newline, or a zero in its place, and then zeros.
`TrimKeeps` and `CutKeeps` show that it survives both, wherever they are applied.
`ScanStops` concludes that the scan, which may step over the end of its string after an
escape, cannot step over the first of those zeros: from each place it goes to a later
one that is at most there.  The scan is a recursive function, so the proof first shows that
such a function exists (`Backwards`), then that its results are the body's, and then that
no place has a result beyond that zero.  Both are inductions from the buffer's end; they
are done by taking the least place from which on a function exists, and the greatest
with a wrong result (`Least`, `Greatest`), as the induction theorems are out of reach.

`Implementation` needs what trimming, cutting and scanning compute for every line, and not
only what they leave alone.  Its argument goes from the buffer to the file:

- *Strings.*  `Reads(b, o, s)` says that the buffer `b` holds the string `s` at `o`.
  `TrimReads` shows that `str_trim` turns `s` into `Stripped(s)`, and `StillReads` and `Cuts` that
  what is done to one string leaves the others.  Behind the new end of a
  trimmed string there are blanks up to a zero (`Vacant`, `TrimLeaves`): what a
  scan meets that steps over the end.
- *Modes.*  `ConfFile` reads a value from left to right, each character in a mode that
  the characters before it leave; the code jumps from place to place, over an
  escaped character and to the end of a quotation.  `ScanCuts` joins them: the
  places that the scan visits are those that follow a character in mode `plain`, it cuts
  at the first comment, and from vacant places it finds none.  It takes the greatest place
  where this fails; `Quoted` and `PairIs` make the jump over a quotation one
  step of it.
- *Lines.*  `Headed`, `Named`, `KeyValue` show that kind, section name, key and value of a
  line in the buffer are those of `ConfFile`.  The code finds a header before
  it looks for `=`, and a line's newline goes when it is trimmed, so that `LineIs` compares
  the order of the marks in two different strings (`Foremost`, `FirstRanked`).
- *Steps.*  Two more inductive invariants: `Filled` (a line that is due is in the buffer) and
  `Shaped` (an entry has the keys of its table, and the entry that gets keys is
  the latest of its table).  `SectionShown`, `KeyvalShown`, `CleanShown` say what
  changes in lists and blocks look like as contents; an addition changes
  no other entry because of `Apart`.  `NextFile` maps each action: `Read` to `Read`, a
  section, known or not, to `TakeHeader`, a key that is stored to `TakeSetting`, skipped lines
  to `Skip`, the ends of a load, failures too, to `Stop`, `Clean` to `Clean`; the
  others stutter.

There is no liveness in this part, and no property of it is only model-checked.

## 7. Not modelled

- *CRC-32* is a pure function of its input with a table of constants; equality with
  the bitwise definition is a matter of a test, not of steps.
- *Shared memory* (`bio_shm.c`) is a wrapper that is called once.  Reading it shows that
  failing `ftruncate` and `mmap` leave the descriptor open, as does the success of the
  SHM kind, and that the default case frees the structure and continues.
- *Semaphore*: `sem_trywait` and reading the value, single calls.
- *Files and terminal, program frame*: wrappers and option parsing without shared state;
  `main_process` is empty.
- *Tests* under `src/test` are interactive menus, read for how operations are used.
- *Third-party code*: memwatch and the headers of OpenSSL.  They are most of the
  repository: of its 41,096 lines of C about 2,800 are its own, so that the modelled share of the whole stays small.
