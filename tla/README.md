# F-Stack: a TLA+ development of its adapters and its clock

F-Stack runs the FreeBSD network stack in user space on DPDK. Its LD_PRELOAD
adapter (`adapter/syscall`) lets unmodified applications use the stack: a
preloaded library turns their socket calls into requests in shared memory, and
the *fstack instance*, a process of its own, executes them. That is where
F-Stack's own concurrency is: several processes and threads, spinlocks and
semaphores in shared memory, timeouts, fork, exit and an optional lock-free ring.
This development models it, checks the models with TLC, and proves with TLAPS, for
instances of any size, every safety property and refinement that it checks. It also
models two parts whose difficulty is re-entrance rather than parallelism: the
callout wheel that drives the timers of the stack (`lib/ff_kern_timeout.c`), whose
handlers change the list that is being walked, and the scheduler of the micro
threads (`adapter/micro_thread`), whose threads move between its lists at every
switch.

## 1. Inventory

| Component (source) | State | Operations | What is hard |
|---|---|---|---|
| Semaphore IPC (`ff_hook_syscall.c`, `ff_socket_ops.c`) | per context: `status`, `lock`, `ops`/`args`, `result`/`error`, `wait_sem`; per process: `need_alarm_sem` | `SYSCALL`, `epoll_wait` (two builds), `kevent`, `alarm_event_sem`, `ff_handle_socket_ops` | dirty reads, one semaphore for all threads, timeouts racing answers, requests that are executed again |
| Context zone (`ff_so_zone.c`, `ff_hook_fork`, `ff_adapter_exit`, `ff_handle_each_context`) | zone `lock`, `count`, `free`, `idx`, `inuse`; per context `lock`, `refcount`, `forking` | attach, fork, detach, the rounds of fstack | fork before the reference is counted, two locks in both orders, starvation, killed processes |
| Ring IPC (`ff_ring_ipc.c`, `ff_ring_submit_and_wait`) | `req_ring`, `sc->completion`, `sc->result` | submit and wait, burst, answer, alarm | no lock, the request of a timed-out wait stays queued |
| Hooked calls (`ff_hook_syscall.c`) | thread-local argument blocks, descriptor offset `ff_kernel_max_fd` | about 35 calls: copy in, `SYSCALL`, copy out | descriptor spaces, iovecs that are reused, `select` bitmaps |
| Initialisation (`ff_adapter_init`) | `inited`, `proc_inited`, `worker_id`, `worker_id_lock` | initialise, per process and per thread | early returns that keep the lock |
| fstack-side handlers (`ff_socket_ops.c`) | table of bound sockets, `sem_flag` | one per call | a global table of fixed size |
| Callouts (`lib/ff_kern_timeout.c`) | per stack thread: buckets, `cc_softticks`, `cc_next`, `cc_bucket`; per callout `c_time`, flags; the global `ticks` | `callout_reset`, `callout_stop`, `callout_tick`, `softclock` | handlers that arm and stop callouts of the bucket being walked, a clock that wraps and is moved by another thread |
| Rest of the glue library (`lib/`) | FreeBSD's kernel state, KNI, dispatch rings | epoll on kqueue, packet I/O | mostly sequential: one loop per core |
| Micro threads (`adapter/micro_thread`) | run, io-wait, sleep, pending and sub-thread lists, thread pool, table of descriptors, heap of wake-up times | start, exit, sleep, wait for descriptors, notify, join, the daemon's loop | a thread in two lists or in none, pointers to objects on the stack of a waiting thread, timeouts racing events, starvation |
| Tools, applications, DPDK, FreeBSD | third-party | - | not F-Stack's own logic |

How they interact: an application thread fills an argument block in shared
memory, writes a pointer to it into *its* context (in the default PIPELINE mode
all threads of a process share one; a forked child shares its parent's), sets the
status to `FF_SC_REQ` and waits. The fstack instance goes round the attached
contexts in every turn of its main loop, with the zone lock held, executes
requests and answers with `FF_SC_REP`; a thread in `epoll_wait` or `kevent`
sleeps on the semaphore of the context and is posted. With `FF_USE_RING_IPC` the
context travels through a single-producer ring and the answer is a flag.

What makes them correct: a context serves one call at a time; the handler never
works for a call that has returned; a call returns its own result; an answered
sleeper is woken; every call returns that has no reason to wait; a context is
never freed while a process uses it, and is freed in the end; fstack sees every
attached context; nobody deadlocks on the two kinds of locks. A callout fires once
for each time it is armed, not early, not after it was stopped, and in the end. A
micro thread is in exactly one list, a join waits for every sub thread, the table of
descriptors never leads to a dead object, and whoever can run or has waited long
enough does run.

The two other parts stand beside that: a stack thread's main loop calls
`callout_tick` from a DPDK timer, its handlers are the stack's own (TCP timers and
others), and `ticks` is moved by the main thread. The micro threads are an
alternative adapter, linked into an application that runs the stack in its own
process; the scheduler's daemon thread polls a kqueue of the stack.

## 2. Modules

| Module | What it is |
|---|---|
| `SyscallRpc` | Abstract service: what an application is promised, whatever the IPC. |
| `SemIpc` | The semaphore IPC, step by step; implements `SyscallRpc`. |
| `SoContext` | The zone: attach, fork, exit, kill, and fstack's rounds. |
| `RingIpc` | The ring IPC. |
| `Timers` | Abstract callouts: what the code that arms one is promised. |
| `CallWheel` | The callout wheel of one thread; implements `Timers`. |
| `HeapList` | The binary heap of the micro threads, as operators. |
| `SleepQueue` | The heap as the scheduler uses it. |
| `MicroThread` | The scheduler, its thread pool and its descriptor table. |
| `MCSemIpc`, `MCSoContext`, `MCRingIpc`, `MCCallWheel`, `MCMicroThread` | Instances for TLC. |
| `SemIpc_proofs` | Inductive invariant; types, one owner, safe handler. |
| `SemIpcWakeup_proofs` | Semaphore: no lost wakeup, alarms, change lists, token bound. |
| `SemIpcReply_proofs` | Own results; the refinement of `SyscallRpc`. |
| `RingIpc_proofs` | The ring: types, served waits, exclusive access, own results. |
| `SoContext_proofs` | The zone: types, free counter, references, no early free, no leak, complete rounds. |
| `CallWheel_proofs` | The wheel: types, the walk, no callout left behind; the refinement of `Timers`. |
| `MicroThreadHeap_proofs` | The heap: loops, places, order. |
| `MicroThread_proofs` | The scheduler: types, one list per thread, joins, slots. |

Operators named `BugX` in the component modules are slips somebody could make in
`X`. No action uses them. `PROJECT.json` lists, for every checked property, one
that must break it.

### SemIpc

Variables are the fields of the structures. The payload of a call is abstracted
to the thread it comes from: `args[c]` is the thread whose argument block
`sc->args` points to, `result[c]` is the sign of `sc->result` with the thread it
was computed for. What steers the protocol is kept: the kind of call, the sign
of its timeout, whether events are wanted, whether there is a change list.

| Action | Code |
|---|---|
| `Invoke` | a hook fills its argument block |
| `DirtyRead`, `SpinLock`, `RecheckIdle`, `RecheckRep` | `ACQUIRE_ZONE_LOCK`: dirty read, `rte_spinlock_lock`, real read (`_TRY_LOCK` goes back to the dirty read when the lock is taken, which adds no behaviour) |
| `Submit` | the request is written and `FF_SC_REQ` published, with `epoll_wait`'s and `kevent`'s reset of the result and `need_alarm_sem` |
| `TakeReply` | the end of `SYSCALL`, and one round of the polling `epoll_wait` |
| `SemTake`, `SemTimeout`, `SemError` | `sem_wait`/`sem_timedwait`: token, timeout, `EINTR` or `EINVAL` |
| `Finish` | everything under the lock after the wait, and `epoll_wait`'s retry |
| `AlarmLock`, `AlarmPost` | `alarm_event_sem` |
| `FsScan`, `FsTryLock`, `FsRecheck`, `FsHandle` | `ff_handle_each_context` and `ff_handle_socket_ops` |

Writes made under the lock are one step with the unlock: everybody else reads
these fields under the lock, except for the status, whose dirty reads are
checked again. Memory order is taken to be what `rte_spinlock` gives. A context
that is attached again keeps the semaphore and the result of its earlier user
(`ff_attach_so_context` resets neither), so `Init` allows up to `MaxDisturb` tokens and any
result. `executed`, `applied` and `disturbed` are history variables.

### SoContext

A process slot goes through `none`, `attach`, (`reg_call`), `run`, the fork and
the exit states. The body of `ff_attach_so_context` is one step, because it is
enclosed by the zone lock; `ff_detach_so_context` is two, because it waits for the
context's lock with the zone lock held. The requests that move a process through
its life in the thread-handle build (registration, fork, exit) are served by
`FsServe` when fstack's round visits the context. `Kill` ends a process outside
the adapter, without the destructor.

A process whose `ff_adapter_init` failed stays without a context. Its next
attempt would spin on `worker_id_lock`, which the failed one left locked; that is
the subject of a planned module.

### RingIpc

One application thread and one context, as the single-producer flag of the ring
demands, so the ring is a number of entries. `Fill` writes a call into the context,
`Clear`, `Enqueue`, `Complete`, `TimeOut` are `ff_ring_submit_and_wait`, `Dequeue`,
`HandlerStart`, `HandlerEnd`, `SendResponse` are fstack. `fresh` records whether
the handler has read the call that is now in the context, `cuts` counts the waits that
timed out. A burst asks for `FF_RING_SIZE` = 64 entries and has `objs[32]` to put them in
(`ff_socket_ops.c:654-657`). When more are queued the copy runs over the array, which is
undefined: fstack goes on (`Dequeue`) or stops for good (`Overrun`, `fsPc = "dead"`).

### CallWheel

| Action | Code |
|---|---|
| `Tick` | `ff_hardclock` of the main thread: `ticks++`, at any moment of a worker's walk |
| `ff_hardclock_worker`, `callout_tick` | the timer of the thread; one round of the loop over `cc_softticks` |
| `softclock`, `WalkOn` | the outer loop, and the walk over a bucket |
| `CallHandler`, `HandlerReturn` | `softclock_call_cc` up to `c_func`, and after it |
| `callout_reset`, `callout_stop` | `callout_reset_tick_on` with `callout_cc_add`; `_callout_stop_safe` |

The stack calls `callout_reset` and `callout_stop` from its own code and from inside
a handler, for any callout, the one that runs and the one `cc_next` points to
included. Wheel, lock and callouts belong to one thread (`cc_cpu` is `__thread`);
`CALLOUT_PROCESSED`, `CALLOUT_DFRMIGRATION` and `CALLOUT_LOCAL_ALLOC` are never set
in this build and callouts' locks are no-ops, so the branches on them are left out.
`c_time` and softclock's locals have a fixed value while nobody can read them, which
only merges states. A callout armed for `n` ticks fires when the clock has moved `n + 1`
times: the first of these may come at once, so `n` full ticks have passed.
`callout_cc_add` writes `cc_next` whenever the new callout falls into `cc_bucket`, also outside
a walk; the model keeps that, and `WalkStaysOnWheel` says why it does no harm.

### HeapList and SleepQueue

`heap.h` keeps an array and, in every entry, its own place in it; so does the
record of `HeapList`. The loops of `HeapUp` and `HeapDown` iterate one
round (`UpRound`, `DownRound`); a round that finds nothing to exchange changes nothing, which is how
a loop ends.

### MicroThread

`frame` is `MtFrame` with the threads' flags. `_iolist`, `_pend_list` and
`_sub_list` are the flags and `parent`; the order in them is never used.
`_runlist`, `_freelist` and the heap are sequences.

| Action | Code |
|---|---|
| `CreateThread`, `Exit` | `MtFrame::CreateThread` with `ThreadPool::AllocThread`; the end of `MicroThread::Run` with `WakeupParent` and `FreeThread` |
| `Sleep`, `WaitNotify`, `NotifyThread`, `SwapDaemonThread` | the calls of the same names |
| `ExecOne`, `ExecTwo` | `mt_exec_all_task`, with the give-back when the pool is empty |
| `KqueueSchedule`, `KqueueReturn` | the wait for a set of descriptors: `KqueueAdd` and the switch; `KqueueDel` after it |
| `KqueueAddFails` | `KqueueCtrlAdd` of two events whose second `EV_ADD` fails: the call returns an error and one knote stays |
| `Close` | `ff_close` of a descriptor, which removes its knotes in the kernel |
| `Tick` | the system clock |
| `Dispatch`, `RcvEvent`, `DispatchDone`, `WakeupOne`, `WakeupDone`, `DaemonNotify`, `DaemonSwitch` | one turn of the daemon's loop |

The objects that `_kqobj` points to live on the stack of the waiting thread. When
`EV_DELETE` fails in `KqueueDel`, because a close has removed the knote, the slot keeps
its pointer; `Stale(t)` is such a pointer. A later wait of the same thread may or may
not put its object at the same address, so both outcomes are in the model. Times
are relative to the system clock: `_realtime` is 1 from the constructor on
(`micro_thread.h:505`) and nothing clears it, so `GetLastClock` is `GetSystemMS`, the clock
moves at any time, and `SetLastClock` in the daemon's loop has no effect on wake-ups.
`gettimeofday` is taken not to go backwards. The events a thread receives, the reference counts
that only UDP sessions use, and calls that fail and leave nothing behind are left out.

## 3. Runs

| Run | Instance | What it shows |
|---|---|---|
| `sem_safety` | two threads, one context with up to two inherited tokens, six kinds of calls, two disturbances | all safety properties of `SemIpc`, and that it implements `SyscallRpc` |
| `sem_live` | a process and its forked child on one context, one disturbance, fair | `CallCompletes`, `AlarmWakes` |
| `sem_polling` | `FF_PRELOAD_POLLING_MODE`, two threads, fair | calls complete, and the protocol without the semaphore implements `SyscallRpc` |
| `zone` | four process slots, two contexts, one kill | counter, flags and references agree; no context is freed in use or leaks; rounds are complete |
| `zone_handle` | thread-handle build, two slots, two contexts, one kill, fair | the window of an idle round lets a waiting attach in, registrations are served, exits finish |
| `ring` | ring of four, `objs` of two places, four kinds of calls, three timeouts, two alarms, fair | the completion flag, the bound on stale entries, the return of plain calls, exclusive access and own results until a wait is cut short |
| `callwheel` | three callouts, two buckets, ticks modulo 8, fair | the walk survives every change of the wheel by a handler, no callout is left behind, the wheel implements `Timers`, a due callout fires |
| `micro_threads` | primordial thread, pool of two, one descriptor with two events, a clock that moves at any time, fair | one list per thread, joins, descriptor slots, no starvation by the run list, timeouts |
| `fork_handle` | violation | a parent waits for a child that is done |
| `ring_exclusive` | violation | the handler runs on a context the application is reusing |
| `ring_poll` | violation | `epoll_wait(0)` need not return |
| `heap_top` | violation | a thread that leaves the sleep heap can leave a top that is not the least |

Bounds. Two threads on one context are what every hazard of the semaphore IPC
needs: one that owns the context and one that wants it, and the previous call of a
thread supplies stale tokens and results. The theorems lift the bound. Two
disturbances (alarms or failed waits, `MaxDisturb`) let a stale token of each kind be
present at once. In the zone, four slots on two contexts allow two families that
fork and exit across each other and an attach that finds nothing free; `MaxRef`
bounds the references per context, `MaxKills` the kills. A ring of four entries
(three usable) is filled by three timed-out waits (`MaxCuts`), and two of them with the
entry of the next call already overrun an `objs` of two places (`ObjsMax`). That run does not check
deadlock: a thread that waits for an fstack that is dead spins for ever. Three callouts on two buckets are the
one that runs, the one `cc_next` points to, and one in the same bucket that belongs to
another round; ticks modulo 8 wrap within every longer behaviour, and `MaxLag` lets the
clock move twice while a handler runs. Of the delays, -1 is raised to 1, and 3 shares a
bucket with 1. Two threads of the pool beside the primordial one let a join have two
sub threads, a pool run empty and grow, and two threads meet at one
descriptor (the first allocation raises the default size to 2, so `FreeThread` never
deletes a thread here; a pool of three is out of TLC's reach, and that branch of `Trim` is
covered by the theorems only). `MaxStep` is the step of the clock, and
`MaxLate` how far it moves past the time of a sleeping thread; that descriptor has two events, so that one can arrive while the other is
waited for. The heap needs seven entries for the fault of `heap_top`: with six the heap
gets out of order, but every least entry still reaches the top. Process slots are
interchangeable, and the safety run of the zone uses that symmetry; runs with
liveness use none.

Fairness. fstack's main loop polls for ever: weak fairness of its steps, and its
drain time runs out (`FsLeave`, strong, because the window of an idle round can
come before it again and again). A thread inside a call keeps running: weak
fairness. No thread has to make a call, no signal has to come and no wait has to fail
(`RunStep` is a thread's step without `SemError`).

A spinlock without queue promises nothing to a waiter, and the zone lock is the one where it
shows: fstack gives it back and takes it again at once, which starved the process that attaches
(comment at `ff_socket_ops.c:724-727`, and the adapter's README). The code's answer is the
window of 728-732: a round that found no context in use gives the lock back and pauses.
`Fairness` of `SoContext` assumes just that: a process that meets the window again and again
gets the lock in it. Nothing is assumed of the gap between two calls, so `AttachReturns`
promises an attach only while no context is in use, and fails when the window is taken out
(`BugNeverIdle`). With a context in use the code promises nothing. The window also needs a drain time
longer than one round (`pkt_tx_delay` not 0): `FsWindow` is strongly fair. `ExitCompletes` is about locks
that are never given back and waits in a circle; it has its own premise, that a spinning process
gets a lock that is free again and again. In `SemIpc` the strong fairness of the steps that take a context's lock says
the same: there the other side is away for much longer than the waiter pauses
(fstack handles packets and timers between two calls of `ff_handle_each_context`).
`FsServe` is strongly fair because fstack skips a context whose lock is taken and
comes back in the next round.

`ClockStep` of a wheel is weakly fair: the main loop keeps
calling `rte_timer_manage`, and handlers return. In `MicroThread` the thread that runs
gives up the processor in the end (it is cooperative; one that does not stops everything),
the daemon goes on when it runs, a round of expired timers ends (`DaemonSwitch`, strong,
because each of its callbacks lets a notified thread run in between), and the clock
moves (`Tick`, strong only because `MaxLate` stops it now and then). `TimeoutWakes` is conditional on the daemon getting
turns: `ThreadSchdule` prefers the run list, so threads that notify each other for ever
keep the daemon, and with it every timeout, from running.

What the code does not promise, and the properties do not say: a plain call of one
thread waits as long as another thread of the process sleeps in `epoll_wait` without
time limit on the shared context; polling mode never answers `kevent`; a wait that ends by
a timeout drops the events fstack has fetched for it, and a kevent whose request is
taken back unseen loses its change list.

## 4. Findings

* **Fork with thread handles** (`fork_handle`). The parent sets `sc->forking = 1`
  (`ff_hook_syscall.c:2455`) after the fork, the child clears it when it is done
  (2485). A quick child clears it first, and the parent loops "until child fork done"
  for ever with the context's lock held.
* **Ring IPC after a timeout** (`ring_exclusive`). "No lock needed - SPSC dequeue guarantees
  mutual exclusion" (`ff_socket_ops.c:516`) holds only until a wait times out: the
  context stays in `req_ring`, and the handler works on it while the application fills
  it for the next call. Run `ring` shows that up to the first timeout or alarm the claim
  is true.
* **epoll_wait(0)** (`ring_poll`). Test FT-024 of the ring specification expects "Returns 0
  immediately"; the code retries while `timeout <= 0 && ret == 0` (2406).

* **The top of the sleep heap** (`heap_top`). `heap.h` calls itself a "minimum heap queue" and
  `WakeupTimeout` and `KqueueGetTimeout` look at the top alone, but `HeapDelete` lets the entry that
  takes the freed place only sink (301). When that entry is smaller than its new parent it would have to
  rise; with six sleepers the heap can get out of order, and two removals from the top and an insertion
  later the top is not the least. A thread then sleeps longer than it asked for. With up to three
  sleepers, as in `micro_threads`, it cannot happen.

Seen while modelling, without a run of their own: `callout_stop` of a normal callout from
its own handler looks at `cc_exec_entity[0]` while `softclock` runs everything with
`direct = 1`, so it does not see it running and leaves `CALLOUT_ACTIVE` set (`CallWheel`
has it so). In `kqueue_proxy.cpp`, `KqueueCtrlAdd` registers again only the events asked for after deleting
the old ones (210-229), and `revents` is not reset between two events of a round (389); `KqueueDispatch`
computes a timeout that `ff_kevent_do_each` ignores (`lib/ff_syscall_wrapper.c:2028-2049`): the daemon never
blocks. The argument blocks of the hooked calls are `__thread` pointers into shared memory that are allocated once
(`ff_hook_syscall.c:76-97`): a forked child inherits them, and shares them with the thread that forked it.
`SemIpc` gives every thread a block of its own.
`InsertSleep` ignores a full heap. A close of a descriptor that another thread waits for leaves its slot
occupied, and a failed second `EV_ADD` leaves a knote behind: `SlotsMatchWaits` excludes exactly these
descriptors, and `TimeoutWakes` covers the thread.

## 5. Proofs

The theorems about `SemIpc` hold for every `NCtx`, set of threads and processes, assignment of
contexts, subset of calls, both modes and every `MaxDisturb`, from the named
assumptions of `SemIpc` (constants have their types, names differ).

`SingleOwner` is not inductive: a thread that has checked the status under the
lock and then writes it must rely on nobody having written it since. The
inductive invariant `Inv` of `SemIpc_proofs` therefore adds

* `LockInv`: a thread, or fstack, is between lock and unlock exactly when the lock names it;
* `StatusInv`: what was read under the lock still holds until the unlock;
* `WaitInv`: only calls that sleep wait on the semaphore,

and there is one step per action in each of the preservation lemmas. From `Inv`:

| Theorem | Property |
|---|---|
| `TypeCorrect` | `TypeOK` |
| `MutualExclusion` | `SingleOwner` |
| `HandlerSafe` | `HandlerHasOwner` |
| `Wakeups` | `NoLostWakeup` (only the owner of a context waits on its semaphore) |
| `AlarmsHitSleepers` | `AlarmHasSleeper` |
| `ChangesAppliedOnce` | `ChangesOnce`, strengthened: a list that is still there has not been applied |
| `StaleTokensBounded` | `TokensBounded`, strengthened by the token an alarm is about to post and by a tighter bound for a thread that has left the semaphore |
| `RepliesAreOwn` | `OwnReply`, from `ReplyInv`: the result belongs to the owner once its request was executed, and is the reset 0 before |
| `Refinement` | `ImplementsRpc`: `Invoke` is `Begin`, `Submit` is `Ask`, `FsHandle` is `Execute`, `TakeReply` and `Finish` are `Return`, all else stutters |

The theorems about `SoContext` hold for every finite set of processes, every size of
the zone (a power of two up to 32, as `ff_set_max_so_context` demands), both builds and
any number of kills. None of the properties is inductive alone; `Inv` of
`SoContext_proofs` joins `TypeOK` and `FreeMatches` with

* `HoldInv`: whether a process holds a context follows from where it is, and a forking
  process has its context's lock, so a context has one fork at a time and nobody
  detaches it before the child is counted;
* `RefInv`: the holders are at most the references plus the child not counted yet, and
  exactly as many where nobody was killed and children share contexts; a context in use
  has at least one reference;
* `ZoneInv`: who has the zone lock, and that fstack's `tmp` is current while it does.

| Theorem | Property |
|---|---|
| `ZoneTypes` | `TypeOK` |
| `FreeCountExact` | `FreeMatches`; rests on `AttachFree`: the search from `idx` reaches every slot |
| `NeverFreedInUse` | `HeldInUse`: a holder means a reference, and detach frees only with the last one |
| `ReferencesCover` | `RefCovers` |
| `ContextsReturn` | `NoLeak`, from the exact half of `RefInv` |
| `RoundsComplete` | `ScanComplete`: `tmp` is the number in use, and a context has fewer than that below it |

The theorems about `RingIpc` hold for every size of the ring, every set of calls and any
number of timeouts and alarms. `TypeOK` and `WaitIsServed` are inductive together. `StaleBounded` is not: it needs
`StaleInv`, which counts an answer too. A thread gives up its entry by a timeout or an alarm, or because
fstack has set the flag, and then an entry is gone as well; so the entries in flight, with one more for a flag
that is set while the application submits or waits, stay within the cuts and the waiting call's own. The two properties that
hold until the first timeout or alarm rest on `TurnInv` (application and fstack alternate:
nothing is in flight, or one entry of a waiting application whose flag is clear, and nobody
sets the flag between its reset and the enqueue) and `ReplyInv` (one execution per submission,
whose result stays).

| Theorem | Property |
|---|---|
| `RingTypes` | `TypeOK` |
| `WaitsAreServed` | `WaitIsServed` |
| `StaleEntriesBounded` | `StaleBounded` |
| `ObjsOverflowNeedsCuts` | more than `ObjsMax` entries are queued only after at least `ObjsMax` timeouts and alarms |
| `RingExclusive` | `ExclusiveUntilDisturbed` |
| `RingReplies` | `OwnReplyUntilDisturbed` |

The theorems about `CallWheel` hold for every set of callouts, number of buckets and set of
delays, from the named assumptions: the tick counter can tell apart the times that are within
reach (`TickAssumption`: the longest delay and the lag of the walk together are less than a turn of
the counter, as with 32 bits and delays of at most 2^31; and the lag is at most half a turn, which is what the
signed comparison `cc_softticks - ticks < 0`, `Behind`, needs) and a turn of the counter is a whole
number of turns of the wheel (`SizeAssumption`). `NothingMissed` is not inductive: that no pending
time has been passed needs to know which times are ahead of a counter that wraps. The invariant
joins `TypeOK` and `WalkStaysOnWheel` (flags, `c_time` and the lists of the wheel agree, and the
rest of the walk is a tail of the bucket) with

* `ControlInv`: where `softclock` is, and that `cc_softticks` is one ahead of the tick being walked;
* `DueInv`: a pending callout is at most the longest delay plus the lag ahead of `cc_softticks`, or
  is due in the rest of the walk. This bound, sharper than the property, is what tells a time still
  to come from one just passed.

| Theorem | Property |
|---|---|
| `WheelInvariance` | the inductive invariant |
| `WheelTypes` | `TypeOK` |
| `WalkSafe` | `WalkStaysOnWheel` |
| `NoneLeftBehind` | `NothingMissed` |
| `WheelImplementsTimers` | `ImplementsTimers`: `CallHandler` is the firing, `HandlerReturn` the return, `callout_reset` and `callout_stop` arm and disarm, `Tick` moves time, all else stutters |

The theorems about `MicroThread` hold for every finite pool, set of descriptors and of timeouts.
`ThreadAssumption` says that a dangling pointer (`Stale`) is no live thread and that the names
differ. An action applies several operators of `MtFrame` one after the other, and between two of
them the invariant does not hold: a thread has left one list and is not in the next. The parts are
therefore stated of any frame `s`, with the set `X` of threads at hand (in no list) and the set `Z`
of threads that are being given sub threads or have just lost one, and each operator has a lemma that
says how it moves threads in and out of `X` and `Z`. `Inv` of `MicroThread_proofs` joins

* `FrameInv`: `Good(frame, X, {})`, `X` being the thread that runs. `Good` is `Fit` (flags, lists and heap agree),
  `IoSleeps` (who waits for input or output sleeps too) and `Joined` (who is pending has sub threads,
  and only those that live have a parent);
* `KqType` and `SlotsMatchWaits`;
* `DaemonInv`: the events of a round are all dealt out before another thread runs.

| Theorem | Property |
|---|---|
| `ThreadInvariance` | the inductive invariant |
| `ThreadTypes` | `TypeOK` |
| `OneListEach` | `OneList` |
| `JoinSafe` | `JoinWaitsForAll` |
| `SlotsSafe` | `SlotsMatchWaits` |

What the heap's loops compute takes induction. It is done with the least-number principle on the
rounds: `IterateReaches` says that what every round takes from `S[k]` to `S[k + 1]` holds after `n`
rounds. Entries stay in the heap and know their places whatever the order (`HeapPushOK`, `HeapDeleteOK`),
which is all the invariant needs, so that it holds in spite of the finding `heap_top`. About the order:

| Theorem | What it says |
|---|---|
| `TopLeast` | the top of a heap in order is the least entry |
| `PushKeepsOrder` | `HeapPush` keeps the order: the gap in it (`UpTo`) rises with the entry |
| `DeleteKeepsOrder` | `HeapDelete` keeps it where the entry it moves is not smaller than the parent of its new place |
| `SmallHeapsKeepOrder` | with at most five entries it always does |

The hypothesis of `DeleteKeepsOrder` is the case that the code does not handle, and five is the exact
limit: with six entries `heap_top`'s first step leaves the heap out of order.

Only model-checked: the liveness properties (`CallCompletes`, `AlarmWakes`, `AttachReturns`,
`ExitCompletes`, `SyscallReturns`, `DueFires`, `RunnableRuns`, `TimeoutWakes`), because fairness and
`ENABLED` are outside what the prover handles. The properties that fail have only their runs.

## 6. Not modelled

`FF_MULTI_SC` and `FF_THREAD_SOCKET` (one context per worker or thread: `SemIpc` with an
injective `CtxOf`, for which the theorems hold too), `FF_KERNEL_EVENT`, the copying
of arguments, `select`, several producers on the ring, eventfd waiting. A kill inside
the adapter and a signal handler that calls `alarm_event_sem` while its own thread
holds the lock are not modelled: both leave a spinlock locked, and nothing in the
code recovers from that. Of the callouts, `callout_drain` by the callout's own handler
and the migration between threads, which this build cannot start. Of the micro threads,
UDP sessions and pooled connections (they use the same waits and reference counts on the
slots), the hooked socket calls (a loop of a stack call and a wait each) and the
assembly of the context switch. Packet I/O, configuration, `lib/ff_epoll.c`
and the socket wrappers of the library are sequential code around third-party
interfaces. DPDK and FreeBSD are vendored. `PROJECT.json` gives the reason for each.

## 7. Plan

1. `AdapterInit`: `ff_adapter_init` with `worker_id_lock`, its early returns, and `FF_MULTI_SC`'s table.
2. `FdSpace`: kernel and F-Stack descriptors, `CHECK_FD_OWNERSHIP`, conversion, the kernel map of `FF_KERNEL_EVENT`.
3. `Iovec` and `Select`: share-memory iovecs of `readv`/`writev`, the split of `select`'s bitmaps, as functions checked against a reference.
4. `BoundTable`: the table of bound sockets of the fstack side.
5. The ring with several producers.
6. Composition: a zone whose contexts run `SemIpc`, so that detach and re-attach hand over stale tokens.
7. Proofs: every safety property that passes is proved. Left: that a heap in order stays so as the scheduler
   uses it with at most five sleepers, and the same for the modules above as they come.
8. `lib/ff_epoll.c` as functions.
