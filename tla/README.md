# Verification of the synchronisation core of the NetBSD kernel

The repository is the source collection of a book on code reading: the NetBSD
operating system, the X Window System, Apache, Perl, hsqldb, ACE, Cocoon,
Catalina, ArgoUML and a number of smaller programs stand side by side in it.
This project takes the program whose own logic is concurrent, small and central,
the NetBSD kernel (`src/netbsdsrc/sys/kern`), and in it the mechanisms on
which processes wait for one another. The rest of the tree is listed below and
in `PROJECT.json`, with the reason why it is left out.

All paths `kern/...`, `sys/...` and `vm/...` below are under
`src/netbsdsrc/sys/`.

## The system

### How the kernel runs

The kernel of this tree runs on one processor and does not preempt a process
inside the kernel. A process keeps the processor until it calls `mi_switch`,
which it does in `tsleep` and `sleep`, when it is stopped by a signal (`stop` then
`mi_switch`), and on its way back to user mode. Interrupts can come at any
moment that `spl*` does not exclude; the clock interrupt expires timeouts, device
interrupts call `wakeup`. What a process does between two switches is therefore
one step, and the interleavings that can go wrong are those over a switch: a
wake-up makes a sleeper runnable, and until the sleeper has its turn any number
of other processes may run. All models have this granularity: **one action is
what a system call, or an entry from an interrupt, does up to its next sleep
or its end.**

### Components, their state and how they interact

| Component | State | Operations | Interacts with | What is hard | What makes it correct |
|---|---|---|---|---|---|
| Lock manager, `kern/kern_lock.c` | `struct lock`: flags, three counters, the holder | `lockmgr` with eight request types, four external flags and an interlock; `lockstatus` | sleeps with `tsleep`, wakes with `wakeup`; callers are the vnode layer and the VM maps | up to two waits in a row in one request; a request that falls through from upgrade to exclusive; drains that wait for waiters; errors after a wait | exclusion, exact counters, nobody asleep on a free lock, an accepted upgrade comes first, a drained lock is empty |
| Sleep queues, `kern/kern_synch.c` | the queues, `p_wchan`, `p_stat`, `P_SINTR`, `P_TIMEOUT` | `tsleep`, `sleep`, `wakeup`, `unsleep`, `setrunnable`, `endtsleep`, `mi_switch` | callouts, signals, swapping, and everybody who waits | a stop inside `tsleep` before the sleep; wake-up, timeout and signal racing one another | no wake-up lost, no timeout ends another sleep, the result of `tsleep` is true |
| Signals, `kern/kern_sig.c` | `p_siglist`, the stop state | `psignal`, `issignal` (CURSIG), `stop`, `sigexit` | ends or suspends sleeps, tells the parent with SIGCHLD and `wakeup` | CONT deletes stops and the reverse; a stopped process may be asleep underneath | only SIGCONT resumes, a stopped sleeper goes back to sleep |
| Callouts and the clock, `kern/kern_clock.c` | the delta list `calltodo`, `callfree` | `timeout`, `untimeout`, `hardclock`, `softclock` | calls `endtsleep` and the others' timeouts | an entry is off the list and not yet called; times that went below 0 | each call is made when its own delay is over, unless it is removed first, however late `softclock` is |
| Swapping, `vm/vm_glue.c` | `P_INMEM`, `p_swtime` | `scheduler`, `swapout_threads`, `swapin`, `swapout` | runs on the sleep queues, woken by `setrunnable` | the scheduler sleeps after a scan that found nothing | a runnable process comes back into memory |
| System V semaphores, `kern/sysv_sem.c` | `sema[]`, the pool `sem[]`, `semtot`, `semu_list`, `semlock_holder` | `semget`, `semop`, `semctl`, `semconfig`, `semexit` | `tsleep`/`wakeup` on the set, `copyin` that may fault, exit | vectors that must be atomic, pointers into a pool that is moved, undo at exit, a lock over the whole facility | a vector all or nothing, exact counts of waiters, no missed wake-up, no panic at exit |
| System V messages and shared memory, `kern/sysv_msg.c`, `kern/sysv_shm.c` | queues, headers and segments on free lists; segments with SHMSEG_REMOVED, SHMSEG_WANTED | `msgsnd`, `msgrcv`, `msgctl`; `shmat`, `shmdt`, `shmget`, `shmctl` | as above | the queue is locked while its sender sleeps for segments; allocation that sleeps | no message lost or torn, segments counted |
| Advisory locks, `kern/vfs_lockf.c` | per file a list of locks, in order for each owner, each with its blocked requests | `lf_advlock` | `tsleep`; looks at `p_wchan` of others | splitting, merging and taking over ranges; requests that move or are woken with them; deadlock detection | a lock per byte and owner, no sleeper left behind, no cycle of waiters |
| Buffer cache, `kern/vfs_bio.c`, with `vflushbuf` of `kern/vfs_subr.c` | buffers with B_BUSY, B_WANTED, B_DELWRI, hash and free lists, `v_numoutput` | `getblk`, `bread`, `breadn`, `bwrite`, `bdwrite`, `bawrite`, `brelse`, `getnewbuf`, `biowait`, `biodone`, `vflushbuf` | the disk interrupt | sleeps in `getnewbuf` while the same block is entered by another; releases from the interrupt; a buffer that is written while it is on its free list | one buffer per block, every buffer in one place, the contents those written last, a flush that misses nothing |
| Vnode life cycle and name cache, `kern/vfs_subr.c`, `kern/vfs_cache.c` | `v_usecount`, `v_holdcnt`, VXLOCK, VXWANT, free lists; `v_id` | `getnewvnode`, `vget`, `vref`, `vput`, `vrele`, `vclean`, `vgone` | the lock manager | a vnode cleaned while somebody waits for it | never used after it was cleaned |
| Processes, `kern/kern_fork.c`, `kern_exit.c` | the tree of processes, zombies | `fork`, `vfork`, `exit1`, `wait4` | signals, `semexit` | exit racing wait, reparenting | each child is waited for once |
| Select, `kern/sys_generic.c` | P_SELECT, `nselcoll`, `si_pid` | `selscan`, `selrecord`, `selwakeup` | drivers and sockets | readiness between the scan and the sleep | no wake-up missed |
| Unix-domain sockets, `kern/uipc_usrreq.c` | files in flight | `unp_gc`, `unp_internalize`, `unp_discard` | sockets and descriptors | cycles of sockets that hold one another | only garbage is freed |

`PROJECT.json` has the full list, with the components that are not modelled and
why: the remaining parts of `kern/` are configuration, arithmetic or output with
little state; the virtual memory, the file systems, the network protocols and the
machines are each a project of their own or are tied to hardware; user programs
are sequential in the main; and the other programs of the tree have no connection
to the kernel.

### Hazards

`PROJECT.json` lists 40 hazards by line, with the properties that are about them. A
property shows a hazard going wrong only as far as its run goes. Where the code does go
wrong, the run leaves that case out, since the property is false with it: this is so of
the LK_EXCLUPGRADE that is refused (`kern_lock.c:250`), the sleepers that a failed writer
leaves (`:341`), the assertion of `wakeup` (`kern_synch.c:525`), the SIGCONT that takes a
caught SIGTSTP away (`kern_sig.c:604`), and most of the semaphores (`sysv_sem.c:612`, `:628`,
`:682`, `:703`, `:157`, `:278`). The note of each such hazard says which part of it is checked
and which is not; what the code does there is described under "Where the code does not
do what its text suggests". Five hazards have no property: three
because their parts are planned only, the vnode life cycle, the swapper and select; the
assertion of `wakeup`, about which there is a theorem; and the signal that ends a `semop`
(`:682`), since all there is to say of the counts then is that the code gets them wrong.

Four more are left out of that list because nothing modelled tells them apart: a set's
index is checked against `semmsl`, the limit of the semaphores of one set, and not
against `semmni` (`kern/sysv_sem.c:313`); `semval` is 16 bits and wraps (`:642`); the
freeze of `semconfig` is looked at once per call and not after its sleeps (`:675`); and
`hzto` computes in 32 bits.

## The modules

| Module | What it is |
|---|---|
| `SharedExclusiveLock` | what a lock promises: a readers-writer lock with promised upgrades and a drain |
| `Lockmgr` | `kern_lock.c`, one lock; implements `SharedExclusiveLock` |
| `LockmgrProofs` | the theorems about `Lockmgr`, that it implements `SharedExclusiveLock` and that no wake-up is lost among them |
| `SleepQueue` | `kern_synch.c` with the signals, the timeouts and the swapping that act on a sleep |
| `SleepQueueProofs` | the theorems about `SleepQueue` |
| `SemaphoreSets` | what System V semaphores promise: vectors that are atomic, and undo |
| `SysVSem` | `sysv_sem.c`; implements `SemaphoreSets` |
| `SysVSemProofs` | the theorems about `SysVSem` |
| `Recursion` | lemmas about functions that are defined by recursion over numbers |
| `Timeouts` | what timeouts promise: a bag of calls, each with the ticks it has left |
| `Callout` | the callout queue of `kern_clock.c`; implements `Timeouts` |
| `CalloutProofs` | the theorems about `Callout`, that it implements `Timeouts` among them |
| `ByteLocks` | what advisory locks promise: a lock for each byte and owner, set and cleared by ranges |
| `AdvisoryLock` | `vfs_lockf.c`, one file; implements `ByteLocks` |
| `AdvisoryLockProofs` | the theorems about `AdvisoryLock`, and the lemmas about the passes over a list of locks they rest on |
| `BlockStore` | what a cache promises: blocks that contain what was written last, and a disk with some of it |
| `BufferCache` | `vfs_bio.c` and `vflushbuf`, one vnode; implements `BlockStore` |
| `BufferCacheProofs` | the theorems about `BufferCache`, and the lemmas about lists, flags, wake-ups and places of buffers they rest on |
| `BufferCacheRefinement` | the proof that `BufferCache` implements `BlockStore` |
| `MCLockmgr`, `MCSleepQueue`, `MCSysVSem`, `MCCallout`, `MCAdvisoryLock`, `MCBufferCache` | the instances for TLC |

A definition whose name begins with `Bad` is not part of the model and nothing
uses it. Each is the definition that follows it with one plausible mistake, and
each property has one that it rules out: with the mistake in place TLC finds the
property violated in the very run that otherwise passes.

### Lockmgr

| Model | Code |
|---|---|
| `lk` | `lk_flags`, `lk_sharecount`, `lk_waitcount`, `lk_exclusivecount`, `lk_lockholder` |
| `at[p]` | the `tsleep` that p is in: of a shared request, an upgrade, the first or second wait of an exclusive request, a drain; or `"out"` |
| `wchan[p]` | what it sleeps on: the lock, the address of its flags (drain), nothing once it is woken, `"intr"` once a signal or a timeout ended the sleep |
| `opts[p]` | LK_NOWAIT, LK_SLEEPFAIL, LK_CANRECURSE, LK_REENABLE of the request |
| `panicked` | which `panic` was reached |
| `shares`, `excls` | ghosts: the holds that callers have been given and have not given back |

`Shared`, `Upgrade` (both upgrades), `Exclusive`, `Downgrade`, `Release` and `Drain`
are the calls; `Resume` and `ResumeDrain` are the rest of a call after a sleep,
`EndTsleep` and `Signal` the end of a sleep without a wake-up. The macros ACQUIRE
and the fall-through from upgrade to exclusive are operators (`AcquireShared`,
`AcquireUpgrade`, `AcquireExcl1`, `AcquireExcl2`) that the first part of a call and the
part after a sleep share, in the way the code's loop does. `Return`, `Sleep` and
`Grant` are the three ways a step ends. The callers keep the protocol of
`sys/lock.h`: they release, downgrade and upgrade only what they hold, do not ask
for the exclusive hold over a shared one, and one of them drains at a time. A
process can have several shared holds by a downgrade of a recursive exclusive one.
A request on a lock that is draining or drained is not excluded
(`UseAfterDrain`): the code looks for it and panics.

`lk_interlock`, `LK_INTERLOCK` and `PAUSE` have no effect on one processor and are
left out, and so are the panics over callers that break the protocol
("locking against myself" and the like), the deadlock of one process with itself,
and `lockmgr_printinfo`. One lock is modelled, since no lock looks at another.

The refinement: readers are the processes with a shared hold, the writer is
`lk_lockholder` when there is an exclusive hold, the promise belongs to the process
that waits in its upgrade, waiting are the sleepers on the lock, and the lock is
closed when LK_DRAINING or LK_DRAINED is set. The specification says in two
screens what `lockmgr` means: in particular that nobody comes between an upgrade
that was accepted and its exclusive hold, and nobody into a closed lock.

### SleepQueue

| Model | Code |
|---|---|
| `proc[p].stat`, `wchan`, `siglist`, `inmem` | `p_stat`, `p_wchan`, `p_siglist`, P_INMEM |
| `proc[p].sintr`, `timedout` | P_SINTR, P_TIMEOUT |
| `proc[p].pc` | which `mi_switch` p is in: that of `tsleep`, that of a stop before the sleep (`"stop1"`), after it (`"stop2"`) or on the way to user mode (`"ustop"`) |
| `proc[p].catch`, `timo` | the arguments of its `tsleep` |
| `proc[p].ret`, `woken` | ghosts: what its last `tsleep` returned, and whether a `wakeup` met it there |
| `timer` | the processes for which `endtsleep` is in `calltodo` |
| `firing` | the process whose `endtsleep` `softclock` has taken off the list and not called yet |
| `panicked` | `panic: wakeup` |

`Tsleep` is `tsleep` and `sleep` up to the switch, with the first CURSIG in it;
`Resume` is what follows the return of `mi_switch`, whichever it is; `UserReturn` is
`issignal` and `sendsig` on the way out of the kernel; `WakeupEvent`, `Psignal`,
`Softclock` and `Endtsleep` come from other processes or from interrupts;
`Swapout` and `Swapin` are the daemon's. The functions of the code that change a
process (`unsleep`, `setrunnable`, `wakeup`, `stop`, the parts of `psignal`) are operators
from one state of the processes to the next, so that an action composes them in
the order in which the code calls them.

A parent that is modelled gets SIGCHLD and is woken when its child stops. Two
signals with their default action (stop, continue) and two that are caught stand
for all others; a signal that is ignored changes nothing. A pending SIGCONT has
no effect other than to be dropped and is not recorded. Which runnable process
`mi_switch` takes is left open, so priorities do not appear. `Lookup` gives each
identifier its queue: identifiers may share one, that of `&proc0` included, as the hash
makes them, and `wakeup` tests every process of the queue before it compares identifiers.

### SysVSem

| Model | Code |
|---|---|
| `sema[id]` | `struct semid_ds`: SEM_ALLOC, the sequence number, `sem_base` as an index, `sem_nsems` |
| `sem[j]` | the pool: `semval`, `semncnt`, `semzcnt` |
| `semtot` | `semtot` |
| `undo[p][id][n]`, `semu` | the entries of the undo structures, and who has one |
| `holder` | `semlock_holder` |
| `call[p]` | which sleep the process is in, and what it has kept over it: identifier, vector, position, and the pointer `semptr` |
| `panicked` | a panic of `semexit` |

`Semget`, `Rmid`, `Setval`, `Setall`, `Freeze`, `Thaw`, `Semop` and `Semexit` are the calls;
`SemopCopied`, `SemopWoken`, `SemopInterrupted`, `SetvalCopied`, `SetallArg`, `SetallCopied`
and `SemexitThawed` are what comes after a sleep, in `tsleep`, in `copyin` or for the
thaw. Everything that changes nothing is left out: GETVAL and its kind, IPC_STAT,
permissions, keys, rejected calls. Who waits in `semlock` has done nothing yet and is
not different from one who has not called (`MayEnter`).

`semundo_clear` for one semaphore goes through the entries of each structure and
stops at the first one for the set (`sysv_sem.c:278`); the order of the entries
within a structure is not in the model, so `UndoCleared` allows each outcome that
some order has.

The refinement: the set in a slot is the function of its values found in the pool at
its base, and `owed` is `undo`. SETALL changes its values one by one over sleeps, on
purpose of the code, so it is not part of the run that checks the refinement.

### Callout

| Model | Code |
|---|---|
| `calltodo` | the list `calltodo`: of each callout the function with its argument, and `c_time`, the difference to the one before |
| `NCallout`, `panicked` | the structures there are (`callfree` has those that are not in the list), `panic: timeout table full` |
| `calling` | the function that `softclock` has taken off the list and is calling |

`Timeout` and `Untimeout` walk the list at splhigh and are one action each; `Hardclock`
is the part of `hardclock` that counts down, `Softclock` the take from the head of the
list, `Return` the end of the call. While a call is made anything else may happen, the
same `timeout` and `untimeout` from the function itself included. `Delta` is the rule on
which all sums rest: an event that is overdue has a time of 0 or below and counts for
nothing. `Place`, `Insert`, `Delete` and `CountDown` are the four walks.

The refinement: each entry stands for a call with the sum of the deltas up to it as the
ticks it has left, or its own time if it is overdue. The abstract specification has a
bag and no list, so that it says without differences that each call is due after its own
delay and the longest due is made first. What `c_time` a cancelled or inserted entry
leaves to its neighbour, the one thing the code has to get right, does not appear in it.

### AdvisoryLock

| Model | Code |
|---|---|
| `locks` | the list `*head`: of each lock its owner `lf_id`, F_POSIX, the type, the range, and its list of blocked requests `lf_block` |
| `at[p]` | `p_wchan` is set (`"asleep"`), is not any more (`"ready"`), or the process is in the MALLOC of `lf_split`, called by `lf_setlock` (`"malloc"`) or by `lf_clearlock` (`"unmalloc"`) |
| `req[p]`, `next[p]` | the request that p is in `lf_setlock` with, and what its `lf_next` names: the lock on whose list it is, a lock that was freed, or nothing |
| `sig[p]` | the sleep is to end with EINTR |
| `broken` | a lock was used after it was freed |

`SetLock` is `lf_setlock` up to its sleep or return, `Retry` its loop after a wake-up,
`GiveUp` its end after a signal with the search of the list that `lf_next` leads to;
`ClearLock` is `lf_clearlock`; `ClearWaits`, `ClearSplits`, `WaitForMemory` and
`GetMemory` are the two calls of `lf_split` with a MALLOC that sleeps. The six cases of
`lf_findoverlap` are told apart by what is left of a lock on either side of a range
(`LeftOf`, `RightOf`), as is done with all that hangs on them in `SetCase`, which
`SetPasses` applies to one lock of the list after another. `Chain` is the walk of the
deadlock detection from process to lock to process, at most `maxlockdepth` steps.

The requests are small sets given in `MCAdvisoryLock`: the whole file, its two parts,
and ranges inside them. Left out are F_GETLK and requests without F_WAIT, which change
nothing that others see, the conversion of `l_whence` to offsets in `lf_advlock`, and a
negative `l_len`, whose "result is undefined" (`fcntl.2:243-245`).

### BufferCache

| Model | Code |
|---|---|
| `cache.flags[x]` | `b_flags`: B_BUSY, B_WANTED, B_DONE, B_DELWRI, B_ASYNC, B_AGE, B_READ, B_ERROR, B_VFLUSH |
| `cache.hash[x]` | `b_lblkno` and `b_vp`, the hash chain; none for an invalid buffer (B_INVAL) |
| `cache.data[x]`, `disk` | the memory of the buffer, the blocks of the disk |
| `cache.lru`, `cache.age` | BQ_LRU and BQ_AGE |
| `cache.io` | the buffers that the driver has; those without B_READ are `v_numoutput` |
| `cache.needbuffer`, `cache.wait[p]` | `needbuffer`; the identifier p sleeps on |
| `pc`, `call`, `bp`, `cpu` | where a process is, what `getblk` was called for, the buffer it has, and who has the processor |
| `owed`, `written` | ghosts: the writes that a flush must have seen end, and what was last written to each block |

A process runs until it sleeps, and `biodone` comes at any moment outside splbio. So
that the interrupt can come between two sections at splbio and no other process can, an
action is what lies between two such moments, and `cpu` names the process that goes on.
`Bread`, `BeginWrite`, `Release`, `Bdwrite`, `Bawrite`, `Bwrite` and `Flush` are the
calls; `Getblk`, `Getnewbuf`, `Breadn`, `Biowait`, `FlushNext` and `FlushWait` their
parts; `Biodone` is the interrupt. `Brelse`, `StartWrite`, `StartRead`, `Bremfree` and
the others are operators from one state of the cache to the next that the actions
compose in the code's order.

Left out: sizes (`allocbuf`, `geteblk`, the EMPTY queue), B_LOCKED, B_CALL, B_NOCACHE
and B_INVAL set by a file system, MNT_ASYNC, statistics, other vnodes than one, and
indirect blocks in `vflushbuf`. VOP_STRATEGY does not sleep.

The refinement: a block contains the data of its buffer if that may be returned by
`bread`, is dirty or being written, and else what the disk has. `BlockStore` says that
this is always what was last written, and that the disk changes only to it.

## What the runs show

Twelve runs. The eleven that pass:

| Run | Instance | Shows |
|---|---|---|
| `lockmgr_full` | four processes with symmetry, all requests and flags, signals and timeouts, recursion to 2; 75,889 states | exclusion (`MutualExclusion`), the counters (`CountsAgree`), an empty lock after a drain (`DrainedIdle`), a drain that hears of it when the lock comes to rest, whatever requests fail (`DrainTold`), the flags that bar others have an owner (`BarsHaveOwner`), and the implementation of `SharedExclusiveLock` (`AbstractSpec`) |
| `lockmgr_live` | four processes, all requests that wait but LK_EXCLUPGRADE, no polls, failures, signals and timeouts, fair; 19,026 states | nobody sleeps on a free lock (`NoStranded`), an accepted writer and upgrade are served (`WriterServed`, `UpgradeServed`), every sleeper is woken again (`SleeperWoken`); requests that fail can leave sleepers behind, see below |
| `sleepqueue_full` | a child and its parent, one event, all signals, swapping, the child's address on the queue of `&proc0`; 1,595,616 states | who sleeps is on a queue and who is on a queue sleeps or is stopped (`SleepersWakeable`), no callout outlives its sleep (`TimerOwned`), only SIGCONT ends a stop (`StopHolds`; there is no SIGKILL); the panic of `wakeup` is reached and ends the behaviour |
| `sleepqueue_live` | two processes without parents, no caught stop signal, no swapping, fair; 83,500 states | `tsleep` returns what happened (`ReturnTellsWhy`), a timed sleep ends (`TimedSleepEnds`), who was awakened returns (`WokenReturns`) |
| `sem_sets` | two processes, two slots, a pool of three, one undo structure with one entry; removal, SETVAL, vectors of one and two operations that poll, wait or lack an undo entry, the last two after an operation that was performed; exit, freeze, signals; 47,866 states | sets stay side by side in the pool (`PoolPacked`), undo entries are for semaphores that exist (`UndoFits`), and `SemaphoreSets` is implemented (`AtomicSets`), under the conditions of the theorem `VectorsAreAtomic`: no EFBIG after a performed operation, undo for one semaphore of a set, no SETALL |
| `sem_wait` | three processes, one set of two; SETVAL, SETALL, exit, freeze, faults; 22,261 states | the counts of waiters are exact (`CountsAgree`), nobody sleeps whose vector could be performed (`NoMissedWakeup`) |
| `callout` | two functions, delays of 0, 1, 2 and 4 ticks, four structures, `softclock` up to two ticks late, fair; 22,557 states | the list of differences implements `Timeouts` (`KeepsPromise`), and what is scheduled is called in the end (`CalledInTheEnd`) |
| `lockf_posix` | POSIX locks of three processes, five kinds of locks and two of unlocks, signals; 139,049 states | the list implements `ByteLocks` (`KeepsPromise`), who sleeps is on the list of a lock in its way (`NoMissedWakeup`), nobody sleeps in a circle (`NoDeadlock`) |
| `lockf_mixed` | two processes with an open file they share and flock, one with POSIX locks, MALLOC that sleeps, signals, fair; 1,237 states | a request is on one list from its sleep to its end (`OnItsList`), and all are served when no new ones come (`AllServed`) |
| `buf_full` | two processes, one of which reads ahead, flushes, two buffers, three blocks and two values, with symmetry; 605,926 states | every buffer is in one place (`OnePlace`), a block has one buffer (`OneBuffer`), nobody misses a wake-up (`NoMissedWakeup`), all while transfers succeed; a flush misses no write (`FlushedAll`), and `BlockStore` is implemented (`Coherent`) |
| `buf_live` | the same with transfers that fail, without flushes and symmetry, one value, fair; 248,276 states | who sleeps for a buffer, a transfer or any buffer is woken in the end (`SleeperWoken`) |

One ends in a counterexample, a disagreement of the code with its own comment:

| Run | What happens |
|---|---|
| `lockf_freed` | A new lock that contains an old one of the same owner takes over the requests blocked on it and frees it (`vfs_lockf.c:341-350`), but `lf_next` of each request, set at its sleep to "remember who blocked us (for deadlock detection)" (`:237`), goes on naming the old one. The next search for a deadlock, or the request itself when a signal ends its sleep, reads the freed structure. |

`broken` stops the model at that point, so what the other runs show of advisory locks
holds up to it. The states of `lockmgr_full` include those that follow a panic's cause
in the same way: the machine stops there, and exclusion holds in a model that can panic
because the panic is what keeps the second writer out.

### Where the code does not do what its text suggests

Modelling brought up the following. They have no run of their own. Those of the first
three groups are in the model: most show as soon as the corresponding switch of a run is
on, which is why some runs leave something out.

*Lock manager and sleep queues*

- The second wait of an exclusive request does not look at LK_HAVE_EXCL
  (`kern_lock.c:339`). Woken together with the upgrade that goes before it, it finds
  LK_WANT_UPGRADE clear and the count of readers 0 and takes the lock too: "panic:
  lockmgr: non-zero exclusive count".
- LK_EXCLUPGRADE behind another upgrade gives up its shared hold without a wake-up
  (`:250`). If it was the last reader, the upgrade sleeps on a free lock.
- An upgrade with LK_NOWAIT compares `lk_sharecount > 1` after it took off its own hold
  (`:274`), and sleeps when one other reader is left; refused, it has
  given up its hold and does not wake the upgrade before it.
- An exclusive request with LK_SLEEPFAIL, or one that is interrupted, in its second wait
  clears LK_WANT_EXCL (`:341`) and wakes nobody that slept on the flag; an upgrade that
  fails does the same with LK_WANT_UPGRADE (`:287`).
- A caught SIGTSTP ends a sleep, a SIGCONT removes the signal before the process runs,
  and `tsleep` returns 0 though nobody called `wakeup` (`kern_sig.c:604`).
- `wakeup` panics over a process that is on its queue and not asleep yet, where another
  identifier shares the queue of `&proc0`: `tsleep` stops in CURSIG (`kern_synch.c:345`),
  tells the parent, and the parent is swapped out.

*System V semaphores*

- A vector that names a semaphore beyond the set returns EFBIG with its first operations
  performed (`sysv_sem.c:612`).
- IPC_RMID of a lower set moves the pool under the `semptr` that a sleeping `semop`
  keeps (`:703-707`): it decrements a count that is not its own.
- While a process waits in `semexit` for the thaw, its empty undo structure is given
  away (`:157-169`), and it panics at `:881`.
- A vector that waits for 0 after a decrement of its own is rolled back and counted
  in `semzcnt`, but a decrement that makes the vector possible need not bring the
  value to 0 and then wakes nobody (`:628`).
- A signal ends `semop` without `semncnt--` or `semzcnt--` (`:682`).
- A set that is removed while `copyin` of `semop` sleeps is operated on all the same
  (`:587`), and `semexit` panics over the undo entry.
- A `semop` that is woken while another process has frozen the facility goes on (`:675`).

*Advisory locks*

- `lf_split` may sleep for memory (`vfs_lockf.c:705`) after the search for locks in the
  way. Another process can set a lock meanwhile, and an exclusive and a shared lock then
  lie on the same bytes. `lf_clearlock` wakes the requests on a lock before that sleep
  (`:424` to `:438`), and those that are blocked on it during the sleep are not woken
  when it shrinks. `lockf_mixed` therefore claims neither the promise of `ByteLocks` nor
  `NoMissedWakeup`.
- "Since flock style locks cover the whole file, there is no chance for deadlock"
  (`:192-194`) holds for flock locks of one file. A process that has a file under
  `flock` and asks for a POSIX lock on it is another owner then and waits for itself;
  and over two files processes may wait for each other's flock locks.
- A circle of more processes than `maxlockdepth` is not found either.

*Buffer cache*

- `getnewbuf` starts the delayed write of the buffer it finds (`vfs_bio.c:763`) and
  `getblk` looks again only if that returned NULL. Where VOP_STRATEGY sleeps (NFS, or a
  driver that waits for a resource), it is a new `getnewbuf` from `start` that returns a
  buffer, and the block may have come into the hash in between (`:596`): two buffers for
  one block. The model's VOP_STRATEGY does not sleep.
- `vflushbuf` goes round without a sleep while a dirty buffer is held by another process
  and no output is in progress (`vfs_subr.c:584-587`): that process never runs.
  `buf_live` has no flush for that reason.
- As many processes as there are buffers, each with a buffer in `breadn` and in `getblk`
  for the next, wait for one another.
- The data of a delayed write that fails are lost: `brelse` makes the buffer invalid.

*Outside the models*

- "Delta times less than 14 hours can be computed exactly" (`kern_clock.c:821`): the
  branch it describes ends at 2146 seconds (`:829`).
- The lists of locks are called sorted by their start (`sys/lockf.h`), which they are
  for each owner only; the code relies on no more.

### Bounds

- *Processes.* Four are what the lock manager needs for its longest chains: a
  reader, an upgrade, a second upgrade that becomes a writer, and a drain. Two are
  enough for the sleep queues, where processes meet only through signals to the
  parent and shared queues. Three semaphore processes make a waker and two waiters
  whose vectors depend on one another.
- `MaxRecurse = 2`: two exclusive holds are the least that a downgrade or release can
  count wrongly.
- `MaxVal`, `MaxCnt`: no vector takes a value beyond 1 or 2, which is where waiting and not
  waiting differ; nobody joins a wait with as many waiters as there are processes.
  The 16-bit fields wrap at 65536 in the model as in the code (`u16`), and the runs stay
  far below.
- `MaxSeq`: how often a slot is used; the second use is what a stale identifier meets.
- A pool of three and sets of one and two: a set can be refused for want of room,
  and one can lie above another when that goes. One undo structure with one entry:
  both shortages occur. SETVAL has one value, 1, so that a value that falls is the work
  of a vector or of an end, and an operation that is not rolled back cannot pass for a
  SETVAL.
- `NCallout = 4`, `MaxLate = 2` and delays to 4: two overdue events with two to come, an
  event between two others, two in the same tick, and a full table. `MaxLate` bounds how
  far the clock runs ahead of `softclock`; nothing in the code does.
- Three bytes for advisory locks: two, and one that stands for all up to EOF. A lock can
  contain another with a rest on the left, on the right and on both sides, and have
  others before and after it. Three processes make a circle that is found only on the
  second step of the detection, and `maxlockdepth` is 3 (50 in the code).
- Two buffers for three blocks: `getnewbuf` has to take a buffer of another block, one
  that is dirty, and none. Two processes and the interrupt are what meets at a buffer;
  the theorems have any number.

Symmetry over the processes is used in the safety runs alone. `CHECK_DEADLOCK FALSE` stands
where the system may stop by rights: a panic stops the machine; callers of a
drained lock have nothing left to do but what panics; semaphore processes may all wait
for one another, by what the user programs do;
a full callout table panics; and `broken` stops the model of advisory locks.

### Fairness

*Lock manager.* A process that was woken runs in the end (weak fairness of `Resume` and
`ResumeDrain`: nobody takes the wake-up back), and callers do not keep a lock for ever: they
release, and each has no hold now and again. The second is an assumption about the
callers, without which no writer is ever served; nothing is assumed about requests.
Overtaking is not excluded: between its wake-up and its turn a request can find that
others came first, so only requests that have been accepted (LK_WANT_EXCL,
LK_WANT_UPGRADE) are claimed to be served, and the others to be woken.

*Sleep queues.* The clock ticks and the callouts are served in the order of their times:
`Softclock` is strongly fair, since a sleep that is ended and begun anew in between
takes the entry off and puts it back, and `Endtsleep`, which nothing can take back,
weakly. The scheduler gives each runnable process the processor in the end, though
interrupts and stops may come in between: `Resume` is strongly fair. The swapper brings
a runnable process in again: weak fairness of `Swapin`.

*Callouts.* The clock ticks, the software interrupt is served and the functions that are
called return: weak fairness of `Hardclock`, `Softclock` and `Return`. No more is
needed, since nothing but `untimeout` takes a call that is due off the list again.

*Advisory locks.* A process that sleeps no more runs (weak fairness of `Run`), and
processes give up all their locks in the end, as they do at their exit (`ClearAll`).
That no new requests come is an assumption of `AllServed` itself: with them a request
can be overtaken for ever.

*Buffer cache.* Transfers end, with or without an error (`Biodone`); a process that can
run does (`Run`); and who holds a buffer lets it go (`Finish`): callers of `bread` do no
more than that. With two processes weak fairness is enough; with more, a process can be
overtaken in `getblk` again and again, though not be left asleep.

## What is proved

`LockmgrProofs` (any finite set of processes, any set of request types and flags, any
bound on recursion, with or without signals and timeouts):

- `Invariant`: the record of the lock counts the holds and the sleepers exactly.
- `TypeCorrect`: `Spec => []TypeOK`.
- `Exclusion`, `Counts`, `Drained`: `MutualExclusion`, `CountsAgree` and `DrainedIdle`
  always hold.

`MutualExclusion` is not inductive: a release decides by `lk_exclusivecount` which kind
of hold it takes off, a grant by the counters who may come in, and a process that wakes
up subtracts itself from `lk_waitcount`. The inductive invariant `IInv` therefore ties
the record to the ghosts: `LockOK` says that the counters are the cardinalities of the
sets, that the exclusive holds are those of the holder and have the ranks below the
exclusive count, that LK_HAVE_EXCL is set just when there are such holds, and that there
are no readers then; sleepers hold nothing; and a lock that is draining or drained has
neither readers nor sleepers. All that a request does after its entry or its wake-up
happens with the caller already taken off the count, a state between two states: `Ready`
describes it, and the lemmas `ReturnStep`, `SleepStep` and `GrantStep` show that each of
the three ways a step ends leads from `Ready` back to `IInv`. Each request then has a
lemma of its own that splits it into those.

The second part, for the same constants: `BarsOwned`, `Spec => []BarsHaveOwner`, and
`LockImplements`, `Spec => AbstractSpec`. The promise of the abstract lock is kept by
LK_WANT_UPGRADE, so the invariant is `IInv` with `BarsHaveOwner`: each of the two flags
that bar others is set just while one process sleeps in the wait that will clear it. A
request sets and clears these flags in the middle of its step and may fall through from
one wait into the next. `Bars(F, p, s)` says that the flags F would have their owners if
p were at s, and each part of a request has a lemma that takes it from where the request
stands to where it sleeps or returns. One more fact is needed for the last release: who
drained the lock has one exclusive hold (`Once`), so the lock is not reopened while it is
still held. The steps of the abstract lock are restated in terms of what it sees
(`Waits`, `Refuses`, `Shares`, `Promises`, `Owns`, `Closes`, `Downgrades`, `Leaves`), and
each way a request can end is shown to be one of them or to change nothing seen.

`NobodyStranded` is `Spec => []NoStranded`, for all sets of processes if requests
do not fail, poll or ask for LK_EXCLUPGRADE (`NoFailures`); with those it is false, as
described above. `NoStranded` says only that somebody holds the lock or runs,
which a step does not preserve by itself. The invariant adds that each sleeper has a
reason that the lock shows (`Reason`, `AllJustified`): readers, a writer, or a flag of one
who waits before it. `Still` follows the other sleepers through the parts of a step:
whatever takes a reason away, the last reader that leaves, the release of a writer, the
grant that clears LK_WANT_UPGRADE, either wakes all who sleep on the lock or leaves
another reason. A flag is a reason that leads on, because by `BarsHaveOwner` its owner
sleeps itself, and its reason is a hold.

A drain is better off: `DrainsTold`, `Spec => []DrainTold`, has no condition. Its sleep is
on the flags of the lock, and what it waits for is that nobody holds, wants or waits for
the lock. Every way out of `lockmgr` but the return of a drain ends in the test of LK_WAITDRAIN
(`:417-422`), failures included, and one that goes to sleep keeps the lock from being
at rest (`ReturnTells`, `SleepTells`); a wake-up in the middle of a request takes nobody out of
its sleep on the flags (`WokenSleeps`).

`SleepQueueProofs` (any processes, parents, events, signals and sharing of queues, with
and without swapping):

- `Invariance`, `TypeCorrect`: `Spec => []IInv` and `Spec => []TypeOK`.
- `SleepersOnQueues`, `CalloutsOwned`, `StopsHold`: `SleepersWakeable`, `TimerOwned` and
  the action property `StopHolds` always hold.
- `TellsWhy`: `ReturnTellsWhy` holds if no stop signal is caught (`NoTstp`); with one it
  is false, as described above.
- `PanicsOverItself`: for every sharing of queues, `wakeup` panics only within a `tsleep`
  that is stopped by its look at the signals, wakes the swapper for the parent, and is on
  an identifier that shares the queue of `&proc0`; the process it meets there is the one
  that calls `tsleep`. All other wake-ups find who they should.

A process changes its own record step by step through `tsleep`, while others may act on
it between any two of them. What they do, wake-ups, signals, the swapper, a child that
stops and tells its parent, is always of one kind (`Nudge`): they take it off its queue
for a reason that is recorded, stop it, continue it, swap it or send it a signal. A record
that was `Sound` stays so, however many nudges come together. `Sound` says what is known
within a `tsleep` (`Inside`: it is on its queue, or there is a wake-up, a timeout or a
signal for which it is over) and after it (`Outside`), and `Timed` ties the callout to
the sleep of its process. The path of the process itself through its checks, a stop and
its return is followed by `Working`, one lemma for each part of `tsleep`.

`SysVSemProofs` (all sizes of the pool and the tables, all vectors, any processes):

- `PoolStaysPacked`: `Spec => []PoolPacked`, without any condition. Inductive are the
  types of the slots and the statement itself, with the fact that no set is empty
  (`PoolInv`): with it a removal moves just the sets above the hole, and the one that
  lies there cannot be mistaken for one that begins at the same place.
- `TypeCorrect`, `UndosFit`: `TypeOK` and `UndoFits` always hold if there are not both
  removals and page faults in `copyin` (`Settled`).
- `CountsAreRight`: `CountsAgree` always holds if no set is removed and no sleep
  interrupted (`Undisturbed`), for no more processes than 16 bits can count
  (`FewProcesses`; PID_MAX is 30000).
- `NobodyIsForgotten`: `NoMissedWakeup` always holds under these conditions, if values
  fit 16 bits (`Fits16`), vectors name only semaphores of the set (`InRange`), and no
  operation that waits for 0 follows one of the same vector that takes from the same
  semaphore (`ZeroFirst`).
- `VectorsAreAtomic`: `Spec /\ []NoOverrun => AtomicSets`, the refinement of
  `SemaphoreSets`, under the conditions `Orderly`: `Settled` and `Fits16`; no SETALL,
  which sets one value after the other; a vector with an operation on a semaphore that
  the set does not have begins with one (`Whole`); and where SETVAL is used, the vectors
  with undo name one semaphore only (`OneOwed`). `NoOverrun` says that a value and what a
  process owes to it never exceed 16 bits together: `semexit` adds the two.

None of the conditions is there for the sake of the proof. Each excludes something the
code gets wrong, which is listed among its disagreements above; TLC finds the property
violated as soon as `ZeroFirst` or `InRange` is dropped. With a vector (-2, 0) asleep on
a value of 3 for instance, a -1 of another process makes it possible and wakes nobody;
and a vector that is abandoned with EFBIG keeps what its first operations added, and
leaves before `do_wakeup` is looked at (`:612`). `Whole` excludes the same line,
`OneOwed` the search of `semundo_clear` that ends at the first entry for the set
(`:269-280`), and `NoOverrun` the value that wraps (`:930`). All of `Orderly`,
`NoOverrun` and the inductive invariant hold in the run `sem_sets`.

The invariants are built one on another. `TInv` is the pool, the types of all fields and
`UndoFits`: a value is written where an entry of the undo structures says only if the
entry is within its set. `CInv` adds that each process asleep in `semop` points into its
own set (`InPlace`) and that the counts are the cardinalities of the sets of those who
wait (`Counted`). In the middle of a step of p, p is on no count: `Counted` is therefore
stated of a pool, a state of the calls and a set of processes, and the two ways to leave
`semop`, to sleep and to return, are shown to complete it. `BInv` adds that each sleeper
is at an operation that cannot be performed (`Blocked`), or a SETALL is under way. What
makes one performable is a larger value, or one that falls to 0, and `do_wakeup` sees
either if somebody is counted there: this is where the counts are needed, and why a
wrong count loses wake-ups. That all a vector does to one semaphore is told by its sum
before each operation is shown by induction along the vector, with `Recursion`.

The refinement goes by kinds of steps. `TryKinds` shows that an attempt to perform a
vector changes no value (`Quiet`), or performs all of it on the values of its set, those
of the other sets untouched (`Operated`), and one lemma for each step of `SemaphoreSets`
that the step of the code is that one: `OperateMaps`, `SemgetMaps`, `RmidMaps`, where
the values move in the pool and stay the same, `SetValMaps` and `EndMaps`, where every
value meets at most one entry because the sets lie apart. `SInv` is `TInv` with the sizes
of the sets, the SETVALs that sleep in `copyin`, and the semaphores that can be owed
anything (`OwedOnly`), for which `OneCleared` needs `OneOwed`.

`CalloutProofs` (any functions, delays, size of the table and lateness of `softclock`):

- `TypeCorrect`: `Spec => []TypeOK`; it is inductive, and contains the form of the list
  that the walks rely on: what is due is in front, the longest due first.
- `QueueImplements`: `Spec => KeepsPromise`, the refinement of `Timeouts`.

The list is seen as two lists, of times and of their sums (`Sums`), in which an event
that is due counts for nothing. `InsertTimes`, `DeleteTimes` and `TickTimes` say what an
insertion, a removal and a tick do to the sums: those of all other callouts are what
they were, or, after a tick, each one less, overdue or not; and the list keeps its form
(`Formed`). `InOrder` derives from the form that the list is in the order of the
deadlines, so the head is the call that `Timeouts` would make and the first match of
`untimeout` the one it would cancel. `BagInserted` takes this from lists to bags, by
counting: a list with one element more at any place has the bag with one element more.
The walk of `timeout` is shown to end at a place where some of the ticks are left
(`PlaceFacts`), for which its time is positive and comes off the next one's.

`AdvisoryLockProofs` (any finite set of processes, any open files, requests and ranges):

- `Invariant`, `TypeCorrect`: `Spec => []IInv` and `Spec => []TypeOK`. `TypeOK` says that
  the locks of one owner do not overlap and lie on the list in order.
- `RequestsListed`: `OnItsList` always holds. Neither it nor the two above depend on
  whether `lf_split` sleeps.
- `WakeupsKept`: `NoMissedWakeup` always holds if it does not (`MallocSleeps = FALSE`);
  otherwise it is false, as described above.
- `DeadlockAvoided`: `NoDeadlock` always holds if all requests are for POSIX locks and
  `maxlockdepth` is at least the number of the other processes. Circles with flock
  locks and longer ones are not found, as described above.
- `PromiseKept`: `Spec => KeepsPromise`, the refinement of `ByteLocks`, if `lf_split` does
  not sleep. If it does, another lock may be granted between the look at the list and
  the grant.

The list is rewritten in passes, and most of the proof is about one lock of a pass.
`SetOrder` says that what has been seen of the list is in order, lies before all that is
to come, and has the new lock in its place; `Kept` says that each request blocked on what
has been seen was woken, or is blocked, once, on a lock of the same owner that covers all
that the old one did with no weaker type (`Serves`). Each small operation of a pass
(`Keep`, `Wake`, `Link`, `Take`, `Add`) has a lemma for each of the two, `SetCaseKeeps`
puts them together for the cases of an overlap, and `UpTo` takes them along the list.

What a step of p does to the others is then always of one kind (`Effect`): it leaves
their requests on locks of the same owners, or wakes them. `IInv` adds the types and, for
each process, that its `lf_next`, its sleep and the lists agree (`Fine`). That no wake-up
is missed follows from `Serves`, and from the lock in the way that p has found when it
goes to sleep (`SleepsFor`). For the deadlocks, a step changes for whom p waits and
for nobody else. If it closed a circle, the chain that `Deadlock` followed from the new
owner would have stayed among the sleepers of that circle without coming to p. As it is
at least as long as there are others it came somewhere twice, so a circle without p was
there before (`ChainCloses`). The ownership may pass to other structures as often as it
likes: what is followed is the owner.

The refinement is about what the list holds on each byte (`Has`). What a pass has done to
the locks that it has seen is stated once more, now in bytes: others have what they had,
the owner has what it had outside of the range (`Elsewhere`), and the new lock, once it
is placed, is on all of the range (`Laid`), or nothing is left there (`Clean`). As the
locks of an owner are in order it has at most one on a byte (`HasOne`), so a whole pass
writes one type on one range (`Written`). `ByteStep` says that of every step, and
`PromiseStep` that such a step is one of `ByteLocks`: the guard of `Set` follows on the
range from `GetBlock` (`NoConflict`), and on the bytes that the owner had anyway from the
invariant that no two owners exclude one another (`Exclusive`).

`BufferCacheProofs` (any processes, any finite set of buffers, any blocks and values,
any set of processes that read ahead, with and without flushes and failing transfers):

- `Invariance`: `Spec => []IInv`.
- `TypeCorrect`, `EveryBufferInOnePlace`, `OneBufferPerBlock`, `WakeupsNotMissed`,
  `FlushesAll`: `TypeOK`, `OnePlace`, `OneBuffer`, `NoMissedWakeup` and `FlushedAll`
  always hold.

None of these is inductive alone. `OneBuffer` needs that the process which goes round in
`getnewbuf` has kept the processor since it found no buffer of its block, and that none
has one now. Where a buffer goes when it is released depends on who has it, and whether
a wake-up is owed on whether it is busy. `IInv` is the types, `Held`, and a `Good` for
each process. `Held` is about the buffers: each is busy just when a process or an
asynchronous transfer has it, is on a free list just when it is not busy or `vflushbuf`
writes it, has the flags of its place, and no two have the same block. `Good` is about a
process: what it was called for and the buffer it has are those of the place it is at,
this buffer is in a transfer or done, it sleeps only on what will come, and what its
flush still has to see (`owed`) is dirty or being written. Almost every step moves one
buffer, and the proof is built around that: `Touch` says what a step may do to its
buffer so that all *other* processes stay `Good` (`OthersGood`), and `brelse`, `biodone`
and each call have a lemma that shows where the buffer comes to be, that `Touch` holds,
and where the process has come to. The free lists and the wake-ups have
lemmas of their own before that.

`BufferCacheRefinement`: `CacheIsMemory`, `Spec => Coherent`, for the same constants while
no transfer fails (`IoErrors = FALSE`; with errors `brelse` throws away what was to be
written, and the property is false). What the blocks contain, as the refinement mapping
says it, is what the cache shows over the disk (`Shown`). Nearly all steps leave alone
what each buffer shows (`Keeps`), so they are steps in which the store does nothing; the
holder's writes are `Write` and the end of a transfer is `Sync`. What remains is the
reuse of a buffer for another block, which drops what it shows: it does no harm because
a valid buffer that is neither dirty nor in a transfer has what is on the disk (`Fresh`),
and the inductive invariant is `IInv` with `Fresh`.

`Recursion` has what three of these need of functions defined by recursion, and of sums
along a vector or a list: a function that satisfies the equations of an iteration exists
(`Iteration`), and what holds at 0 and goes from each number to the next holds up to the
end (`UpTo`). Both are proved from the least counterexample, as statements about sets of
numbers and not about operators.

The assumptions are those on the constants, stated by name in the modules; TLC
evaluates them in each run. Nothing else is assumed but what is said above of
`NoFailures`, `IoErrors`, `NoTstp`, `MallocSleeps`, the depth of the search, and the conditions on the semaphores.

Only model-checked is everything about liveness: `WriterServed`, `UpgradeServed`,
`TimedSleepEnds`, `WokenReturns`, `CalledInTheEnd`, `AllServed` and the two properties
`SleeperWoken`. They rest on fairness, and with it on ENABLED, which the prover does not
reason about. Every other property of the passing runs is a theorem.

## What is not modelled

Within the components: permissions, keys and the calls that only read; SIGKILL, masks,
`ptrace`, core dumps and the delivery of signals to the user's stack; priorities and run
queues; multiprocessor spinning, which this kernel compiles away; the choice of the
process that is swapped; `hzto`, profiling and the time of day; F_GETLK and requests for
advisory locks that do not wait; in the buffer cache, what is listed under it above. A
set that is gone when SETVAL, SETALL or a vector comes back from `copyin` is written to
all the same by the code, possibly past the pool; the runs have no removals and faults
together.

The components are not composed into one model: `Lockmgr`, `SysVSem`, `AdvisoryLock` and
`BufferCache` use a sleep that ends by a wake-up, or where the code allows it by a
signal or a timeout, which is what `SleepQueue` shows of `tsleep` (but for the spurious
return above), and `SleepQueue` uses a timeout that is called once or cancelled, which
is what `Callout` shows.

The other components are listed in `PROJECT.json` with the reasons.

## Plan

What is left, in this order; each part with an abstract specification where it has one
worth stating.

1. `Swapper` (`vm_glue.c`), composed with the wake-ups of `SleepQueue`: a process that
   became runnable is brought in.
2. The vnode life cycle (`vfs_subr.c`) with the lock of `Lockmgr` in its abstract form.
3. `SysVMsg`, `SysVShm`; `Select`; the collector of unix-domain sockets; exit and wait; the
   name cache; the extent map as an algorithm against a reference definition.
4. `SleepQueue` with `Timeouts` in place of its set `timer`; `BufferCache` with a
   VOP_STRATEGY that sleeps.

Proofs, along with it: the invariants of each of these, as for the modules above.
