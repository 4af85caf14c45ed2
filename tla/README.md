# Verification of libdispatch

This directory specifies and verifies the concurrent core of **libdispatch
1271.40.12**, the implementation of Grand Central Dispatch kept under
`src/apple/iOS/libdispatch-1271.40.12/` (paths below are relative to its `src/`
directory).  It is the only program of the repository: the rest is a book of
notes and the node modules of the tool that renders it.

libdispatch is lock free almost everywhere.  A queue, a group, a semaphore or a
root queue is one or two machine words that are updated with compare-and-swap
loops, a multi-producer list whose producers may be preempted half way, and a
reference count that is taken late and dropped early.  What makes the code
hard is what happens between two of those atomic accesses.  So **one action of
these modules is one atomic access** to shared memory (a compare-and-swap loop
whose failed turns have no effect is one access), and whatever the code does
between two accesses belongs to the first of them.

Contents: [components](#components) · [plan](#plan) ·
[modules](#the-modules) · [runs](#the-runs) · [fairness](#fairness) ·
[proofs](#the-proofs) · [what the runs found](#what-the-runs-found) ·
[limits](#limits)

## Components

| component | state | operations | hard behaviour | correct when |
|---|---|---|---|---|
| **semaphore** (`semaphore.c` 1-180, `shims/lock.c`) | `dsema_value`, `dsema_orig`, lazily created kernel semaphore | create, signal, wait (now / timed / forever), dispose | timed wait that gives up while a signal counts it; racing creation of the port; overflow | no permit or wakeup lost or invented |
| **lane**: serial and concurrent queues (`queue.c`, `inline_internal.h`, `queue_internal.h`) | `dq_state` (suspend count, width, IN_BARRIER, PENDING_BARRIER, DIRTY, ENQUEUED, MAX_QOS, drain lock owner), item list, `do_ref_cnt` | async, barrier_async, sync, barrier_sync, suspend, resume, release; the drain, redirection, hand-over to waiters | all of them racing in one word; half linked pushes; hand-over of the lock to a thread that may not wait yet | barriers are exclusive, FIFO, nothing stranded, references add up |
| **group** (`semaphore.c` 180-355) | `dg_state` (generation, value, HAS_WAITERS, HAS_NOTIFS), notification list, references | enter, leave, wait, notify, dispose | reuse of the group between the leave that empties it and the wakeups it owes | waits and notifications wait for empty, once, and come |
| **root queue and threads** (`queue.c` 6284-6890, `event/workqueue.c`) | list with a MEDIATOR marker as its lock, `dgq_pending`, `dgq_thread_pool_size`, mediator semaphore | push, poke, drain_one, contended wait, worker thread, monitor | blind stores of producers against the marker; requests refused because one is pending; threads that time out | FIFO, each item once, requests and threads add up, no item without a thread |
| **once and gates** (`once.c`, `shims/lock.h`, `shims/lock.c`) | `dgo_once`: owner, waiters bit, quiescing generation, DONE | dispatch_once, broadcast, wait | a fast path without a barrier, made sound by a counter of quiescence | function ran once, and every return sees what it wrote |
| **unfair lock, thread event** (`shims/lock.h`, `shims/lock.c`) | one word each | lock, unlock, trylock; signal, wait | the waiters bit and the spurious wakeup | exclusion, no lost wakeup |
| **multi-producer lists** (`inline_internal.h` 1590-1700) | head, tail, links | push_update_tail / prev, pop_head, capture_snapshot, undo | a tail ahead of its links | order of the exchanges |
| **lane hierarchies, retargeting, activation, side suspend count** (`queue.c`) | `do_targetq`, `dq_side_suspend_cnt`, INACTIVE bits | set_target_queue, activate, suspend overflow | retargeting while items are queued | as lanes, over several words |
| **workloop** (`queue.c`) | per-QoS heads and tails, stealers, waiters | push, invoke, wakeup | order between buckets, stealing | highest QoS first, FIFO in a bucket |
| **apply** (`apply.c`) | shared index, todo, thread count | apply, worker, redirect | last one out frees | each index once, caller returns last |
| **block objects** (`queue.c`, `block.cpp`) | flags, group, `dbpd_performed` | create, perform, cancel, wait, notify | cancel or wait against perform | runs at most as promised |
| **sources and timers** (`source.c`, `event/event.c`) | flags, pending data, unote state, timer heap | install, merge, latch, cancel, reconfigure | an event in flight when it is cancelled | no event lost, cancel handler last and once |
| **mach channels** (`mach.c`) | send queue state | send, barrier, reconnect, cancel | a second drain lock | order of sends |
| **dispatch_io, dispatch_data** (`io.c`, `data.c`, `transform.c`) | operation lists, fd entries; immutable trees | read, write, stop, close; concat, subrange, map | stop against performing operations | each byte once, in order |
| **allocator** (`allocator.c`) | bitmaps and supermaps | alloc, free | two words updated one after the other | no slot handed out twice |
| **objects** (`object.c`), **blocks runtime** (`BlocksRuntime/runtime.c`) | two reference counts; one latching count | retain, release, weak retain | last release against a retain | disposed once |
| **firehose** (`firehose/`) | stream state, gate, ring | reserve, flush, allocate | writers behind a gate | chunks pushed once |
| **workgroup, eventlink** (`workgroup.c`, `eventlink.c`) | interval state machine; kernel object | start, update, finish; signal, wait | two intervals at once | legal order of calls |
| **main queue, manager queue, run loops** (`queue.c`) | as lanes, bound to a thread | push, drain, wakeup | the port of the run loop | as lanes |
| **event loop** (`event/event_kevent.c`) | muxnotes, deferred changes, Mach notifications | register, resume, unregister, poll, merge | a change kept back against one that is sent; an event on its way to who has left | what is registered is watched, and told |
| **vouchers** (`voucher.c`) | kernel vouchers with their references, a hash by kernel voucher | adopt, derive, send, find | found after the last release; published by another thread | found again while alive, nothing leaked |
| time, introspection, benchmark, Swift overlay | | | conversions, hooks, declarations | not modelled |

How they interact:

* `dispatch_async` pushes an item on a **lane**; a lane that gets work (or is
  made DIRTY) is itself pushed, once, on its target, in the end on a **root
  queue** (`_dispatch_queue_push_queue`); the root queue asks for a thread; the
  thread pops the lane and drains it under the drain lock kept in `dq_state`.
* `dispatch_sync` takes the lock or a unit of width directly, or queues a
  context that lives on the caller's stack and sleeps on a **thread event**
  until a drainer or another caller hands it the lock.
* a **group** counts work; when it becomes empty its notifications are pushed
  on their lanes; `dispatch_group_async` is an enter, an item and a leave; block
  objects, apply and io are clients of groups, lanes and semaphores.
* the threads of a root queue that is backed by a pool sleep on a
  **semaphore**; global state is created through **once**.
* the **manager queue** owns the event loop; **sources** hop between it and
  their target queue.

## Plan

Done: the primitives threads block on, lanes with their contract, suspension and
retargeting, groups, root queues, apply, block objects, sources and timers, the
event loop, dispatch I/O, data objects, the allocator, the log buffer and its
server, Mach channels, workloops and vouchers.  Left, in this order:

1. The main queue, the manager queue and run loops, with the cleanup of a thread
   that dies with work (`queue.c` from 6906); queue creation and attributes.
2. The codecs of `transform.c` as pure operators, `BlocksRuntime`.
3. The epoll back end of the event loop; workgroups and eventlinks;
   `dispatch_channel`; introspection.
4. Weak references of objects (`object.c`).

Theorems: done are the invariants of the semaphore, of the group and of root
queues, and the drain lock of the lane.  Left, in order: exclusion of the side lock,
what a return from `dispatch_once` has seen, the source's invariants.

## The modules

### Semaphore

The `USE_MACH_SEM` build.  `dsema_value` and `dsema_sema` are the fields of the
object; `pc`, `timeout` and `orig` are the position and the locals of each
thread; `kcount` and `kqueue` are the kernel semaphores, modelled from their use
(one may exist per creating thread; signals are stored or handed to the first
blocked thread; a wait may be interrupted, `KERN_ABORTED`, or time out).
`Signal` and `Wait` are the fast paths, `CheckCreated` and `PublishPort` the two
halves of `_dispatch_sema4_create`, `KernelWait`, `KernelAborted`,
`KernelTimedOut` the kernel call, `UndoRead` and `UndoCas` the loop by which a
timed out wait gives its decrement back or finds that a signal has already
counted it, `Dispose` the check on the last release.  `signalled` and `acquired`
are history.  `LongMax` is the width of the counter.

### DispatchLane and QueueContract

One lane of width `Width` (1 is a serial queue) that targets a root queue, its
client threads and the workers that drain it.  `dq_state` is a record of the
fields of the 64-bit word; each `os_atomic_rmw_loop` on it is one action that
writes the record the loop would write.  `dq_items` is the list in the order of
the tail exchanges and `linked` says which of the items can be reached from the
head yet, so that a preempted producer is visible.  `fr` is the stack frame of
each thread: where it is, and the locals that survive an access (the item, the
drain cursor `dc`, the part of the state the drainer owns, the wakeup flags).
`tokens` and `redirects` are what the lane has pushed on its target: itself, and
redirected items.

| actions | code |
|---|---|
| `Submit`, `ConcurrentPush`, `AcquireAsync`, `Push`, `NeedOverride`, `Link`, `WakeupProbe`, `Wakeup` | `_dispatch_async_f`, `_dispatch_lane_concurrent_push`, `_dispatch_continuation_redirect_push`, `_dispatch_lane_push`, `_dispatch_lane_wakeup`, `_dispatch_queue_wakeup` |
| `BarrierSync`, `SyncTail`, `ReserveSync`, `PushWaiter`, `LinkWaiter`, `WaiterWakeup`, `WaitReturns` | `_dispatch_barrier_sync_f_inline`, `_dispatch_sync_f_inline`, `_dispatch_queue_try_reserve_sync_width`, `__DISPATCH_WAIT_FOR_QUEUE__`, `_dispatch_lane_push_waiter` |
| `FastBarrierRan`, `SerialUnlock`, `BarrierRan`, `NonBarrierRan` | `_dispatch_lane_barrier_sync_invoke_and_complete`, `_dispatch_sync_complete_recurse`, `_dispatch_lane_non_barrier_complete` |
| `Suspend`, `SuspendRetain`, `Resume`, `ResumeState`, `Release` | `_dispatch_lane_suspend`, `_dispatch_lane_resume`, `_dispatch_queue_xref_dispose` |
| `BarrierComplete`, `CompleteHead`, `ClassComplete`, `WaiterPop`, `WaiterTransfer` | `_dispatch_lane_barrier_complete`, `_dispatch_lane_class_barrier_complete`, `_dispatch_lane_drain_barrier_waiter`, `_dispatch_barrier_waiter_redirect_or_wake` |
| `DropBarrier`, `NonBarrierTake`, `NonBarrierPop`, `NonBarrierUnlock`, `NonBarrierReload` | `_dispatch_lane_drain_non_barriers` |
| `RunRedirect`, `DrainTryLock`, `Drain` ... `DrainRan`, `DrainTryUnlock`, `InvokeFinish` | `_dispatch_async_redirect_invoke`, `_dispatch_queue_class_invoke`, `_dispatch_lane_drain`, `_dispatch_queue_drain_try_lock` / `_unlock`, `_dispatch_queue_invoke_finish` |

`QueueContract` is the abstract specification: items are submitted, start and
finish; an exclusive item runs alone; `order` holds the pairs of conflicting
submissions of which the first returned before the second began.
`KeepsContract` is the refinement (`INSTANCE QueueContract WITH ...`): every
step of the lane is a step of the contract or a stutter.  Its mapping drops the
pairs in `excused`, the one disorder the code allows (see `KeepsStrictFifo` below);
`KeepsStrictFifo` is the same mapping without that exception.

### DispatchGroup

`dg_state` is a record of the generation, the value and the two bits.  The
carry of the 64-bit addition in leave and the 32-bit subtraction in enter are
`Carry` and `Entered`; the counters wrap at `ValueMod` and `GenMod`.
`LeaveClear` is one turn of the compare-and-swap loop of
`dispatch_group_leave`; `Wake`, `Fire`, `WakeWaiters`, `WakeRelease` are
`_dispatch_group_wake`, which captures the list, submits the notifications,
wakes the address and drops the references; `Notify` to `NotifySet` are
`_dispatch_group_notify`; `Wait` to `WaitCheck` are `dispatch_group_wait` and
its kernel wait with spurious wakeups and timeouts.  Whether a waiter or a
notification has seen the group empty since its call is the history `since`.

### RootQueue

The list is kept on pointers: `dq_items_head`, `dq_items_tail`, `do_next`, with
the `Mediator` value that locks it.  `Push` and `PushLink` are the two halves of
a push; `PokeProbe` to `PokeTake` are `_dispatch_root_queue_poke` and its slow
path, of which every access to `dgq_pending`, the pool size and the mediator
semaphore is a step; `Drain`, `Restore`, `Look`, `TakeNext`, `TakeLast`,
`WaitNext`, `Run` are `_dispatch_root_queue_drain_one`; `Gone`, `Quiesced`,
`QuiescedTail`, `Mark`, `Out` are the contended wait with its two predicates;
`Begin`, `Park`, `TimedOut`, `Exit` are the threads of the kernel and of the
pool; `MonitorStalled` and `MonitorUnderused` are
`_dispatch_workq_monitor_pools`.  The kind of the queue, `dq`, is chosen in
`Init`: `kernel` (threads of the kernel's workqueue), `pool`, `overcommit`
(same, the request counter is added to), `monitored` (same, with the monitor
that extends the pool below zero).

The mediator semaphore is one step: `Semaphore` justifies that a signal wakes a
sleeper or leaves a permit.  A thread's start and its decrement of
`dgq_pending` are one step; nobody can see the difference, since a request that
has not begun and one that has begun and not yet been counted are both counted.

### SideLock, OnceGate

`SideLock` is the unfair lock of the ulock build as the side lock of a queue:
lock, trylock, unlock and their slow paths on one word, with a waker that only
tries the lock and leaves its override in the word (`DLOCK_FAILED_TRYLOCK_BIT`)
for the owner to apply.  `OnceGate` is `dispatch_once` with its gate over an
explicit order of stores: a write of the word carries the view of its writer, and a
load sees at least what the thread has to have seen.  Two builds: `tso`, and
`quiescent`, where the fast path has no barrier and the word is promoted to DONE
only when the kernel's counter shows that every CPU has passed a barrier.

### Apply, BlockObject

`Apply` has the caller and the threads it asked for as participants that share
the index, the count of iterations to do, and the count of threads whose last one
frees the state; the width taken from a chain of queues is given back at the
end.  `BlockObject` has the flags, the group and the queue of a block object
(`dbpd_*`) with callers of cancel, wait and perform.

### Source, TimerHeap, Timers

`Source` is a dispatch source with its unote: activation, registration, delivery
of data, cancel, cancel-and-wait, suspend, release; the kernel may defer the
deletion of a knote.  `Kinds` are the ways of delivery (direct, data, muxed).
`TimerHeap` is the heap of `event.c` with its growing and shrinking segments, on
the array the code uses (the indices of both heaps interleaved); `Timers` is
timer sources on two clocks, with the change of the calendar and the programming
of the kernel's timers, over an abstract minimum.

### EventLoop

The kevent back end: the manager queue's items, muxnotes and their unotes,
`_dispatch_kq_deferred_update` and `_dispatch_kq_immediate_update`, the poll with
its merge of events, Mach notifications.  The kernel's knotes are modelled from
the use the code makes of them.  `Plans` say what two clients register and what
happens; a rest state (nothing to do for anybody) is where the invariants
about watched and told are checked.

### IoChannel

Dispatch I/O on one file: channels with their queues, operations with water
marks and intervals, barriers, close and stop, the entry of the descriptor with its
references, streams with their source and disks with their ring of active
operations.  A record `io` holds all of it; one action is one block that runs on
one of the queues, or a call.  `Liberties` names what the code does not cope with
and the passing runs leave out (see [what was found](#what-the-runs-found)).

### Suspend, Workloop

`Suspend` is a lane or a source whose suspend count overflows into
`dq_side_suspend_cnt` at `2 * Half`, that is created inactive, activated, retargeted
and released, with the threads of two targets that drain it.  `Workloop` is a
workloop with buckets, its sync owners and waiters, the servicer, and the kernel's
half of the protocol (owner, thread request, notes) as the code uses it.

### Voucher

The vouchers of a process: external and internal references, the hash, derived
vouchers and the reference of the task to the names of kernel vouchers; a kernel
voucher is what it contains.  Threads run the scripts of `Plans`; every read of
`v_ipc_kvoucher` outside of the hash lock is a step.

### Allocator, DataObject

`Allocator`: the bitmaps and supermaps of the heaps, pages that are given back to
the system, and the cache of each thread in front.  `DataObject`: leaves,
concatenations and subranges as records of ranges, with two threads that may
flatten the same object; what each object stands for is kept beside as a sequence
of bytes.

### Firehose, FirehoseServer, Mach

`Firehose` is the buffer of the log shared with logd: streams with their gate,
the bank of slots, the two rings, the chunks with their count of writers, pushes
and notifications, logd's drain and its reading of a dead process' memory.
`FirehoseServer` is logd's side: clients in four lists, two drain queues,
quarantine, deaths and snapshots.  `Mach` is a Mach channel: its send queue with
its own lock word, the replies it waits for, barriers, a port that fills up,
cancellation and reconnection.

### The MC modules

Each run needs one module that gives the constants their values.
`MCPrimitives`, `MCLanes`, `MCQueues`, `MCCompletion`, `MCEvents`, `MCServices`
and `MCPorts` check several specifications in one search: the variable `object`
says which of them a behaviour is about.  One module is extended, the others
are instances that rename its variables or have their own.
Definitions commented "Faulty variant" take no part in any specification; each
is a plausible bug, and the property it is paired with in `PROJECT.json` does
fail when the bug is put in.

## The runs

All bounds are constants named in the modules, or the plans written out in the MC
modules.  State counts are those of the complete search.

| run | what is explored | states | shows |
|---|---|---|---|
| `primitives` | semaphore: 2 threads × 3 calls, 3-bit counter, 1 interruption; side lock: 3 threads, 4 calls; once: 2 threads × 2 calls on two memory models; allocator: 2 threads, 4 allocations, 2 heaps; data objects: 3 operations | 397 000 | permits and wakeups are conserved, crashes are deserved, one owner, overrides get through, initialization is seen, no continuation is given out twice, objects mean what they should; waiters return |
| `lanes` | serial lane: 2 clients × 2 calls, suspension; width 2: 3 clients | 751 000 | lock, enqueued bit, references, contract and liveness |
| `queues` | a lane of width 2, 3 clients, all kinds of items, 2 workers; the same suspended | 763 000 | the same for width and barriers |
| `root_live` | global queues of all kinds, 2 producers, 2 workers, lists of 1 and 2 items (`MCSpec` bounds them by kind) | 249 000 | pops are in order, requests and pool add up, items are stranded by slips only; every item runs unless a request slips, with the monitor every item |
| `completion` | group: 2 threads × 2 calls; apply: 3 iterations, 3 threads; block object: 2 waiters, 2 runs | 334 000 | waits and notifications wait for the end, and come; last one out frees |
| `events` | source of each kind with 2 clients, 2 events; heaps of 4 and 5 timers; one and two timer sources | 3 360 000 | no event lost or late, the heap is a heap, no period lost or told twice |
| `services` | channels of dispatch I/O, event loop, suspended lanes, workloops, vouchers: the plans of `MCServices` | 2 580 000 | data once and in order, barriers alone, what is registered is watched and told, counts balance, nothing left behind |
| `ports` | log buffer: 2 threads, rings of 4; log server: 2 clients; Mach channel: 2 clients, 3 messages | 2 180 000 | no tracepoint hidden or read twice, slots and gates given back, one death per client, order and fate of messages |
| `group_early`, `source_cancel`, `voucher_copies`, `suspend_over` | | | counterexamples, [below](#what-the-runs-found) |

Why these bounds are enough for what they look for:

* *Semaphore.* Two threads can be signaller and timed waiter, two creators of the
  port, two waiters; three calls each let a thread give up, be signalled late and
  come back.  The proofs cover any number of threads.
* *Lane.* The race of three parties is the shape of all the protocols: a
  drainer or completing thread, a thread that arrives in between, and one that is
  waiting or half way through a push.  `queues` has five threads, so that a
  second worker can pop a redirected item or the lane while the first completes a
  barrier.  Width 2 is the smallest that distinguishes a reservation
  (`Width - 1`) from both nothing and the full width.  Two calls per client
  on the serial lane give a client a past, which FIFO order needs, and let DIRTY and
  ENQUEUED be left over from an earlier streak.
* *Group.* Two threads suffice for a leave that races an enter, a notify, a wait
  or a release; a thread may run a call in the middle of the other's wake, and
  the group starts empty or entered by a third party.  The value counter
  overflows at 4; the generation does not wrap within the run (`GenMod` is above
  its reach): that a waiter sleeps through exactly 2^32 rounds is left out.
* *Root queue.* Two workers contend for the mediator while two producers push;
  lists of two items make the pop that leaves a successor and the request for two
  threads that has to be trimmed to a pool of one.  The proofs cover any number of
  threads, lists of any length and pools of any size; only liveness depends on these
  bounds.
* *Plans.* Where the calls have many shapes (I/O, event loop, suspend, workloop,
  vouchers, Mach, log) a run goes through a list of scripts, each for one way the
  operations meet: who registers what a second client unregisters, who suspends
  while the target changes, whose message meets a full port.  Within a
  script every interleaving of the threads, of the kernel's answers and of the
  events is explored.  Counters are set so low that they reach their limits:
  the suspend count at 4, a bank at 8, the identifiers of activities at 2, the
  bitmap at one continuation.

`NothingIsStranded` and `WidthIsAccounted` are not checked on concurrent lanes
under suspension with pending barriers because there they do not hold, see below.

## Fairness

`Semaphore`, `DispatchGroup`: weak fairness of the steps inside a call, per
thread.  A thread that has entered libdispatch and can go on is scheduled again;
nothing is assumed of the caller, of timeouts or of spurious wakeups.
`DispatchLane`: the same for clients and workers; that includes that a work
item returns and that the root queue finds a thread for what is on it.  No
client has to resume, so liveness is conditional on the queue not being
suspended for ever.  `RootQueue`: the same, plus that a thread that was asked
for begins to run (`_pthread_workqueue_addthreads` and the retry loop around
`pthread_create` promise no less) and that the monitor's timer fires.  Strong
fairness is not used: the compare-and-swap loops are single steps that always
succeed, which stands for the code's assumption that such loops are not starved.


## The proofs

`tlapm` checks them, for every value of the constants that satisfies the named
assumptions of the modules.

### SemaphoreProof

From `SemaphoreAssumption` (finitely many threads, a non-negative original value
within the width of the counter): `TypeCorrect`, `PermitsNeverExceeded`,
`WakeupsConserved` and `CrashesAreUnbalanced`.

The invariant is `IInv`: `TypeOK`, `PermitBound` and `WakeupsMatchWaiters`, with
three conjuncts that make them inductive.  `Conservation` says that the counter,
the permits taken and the threads in the slow wait add up to the original value
and the signals: without it a decrement that is given back could be given back
by somebody else.  `PortReady` and `QueueOK` say that threads post to and sleep on
the kernel semaphore only after its port was published, and that its queue holds
blocked threads, each once: without them a signal could go to a port nobody
sleeps on, or wake a thread that is not asleep.
The proof has one step per action; `Counting` turns what the action does to the
three sets of threads (slow, unserved, posting) into the two sums.

### DispatchLaneProof

From `LaneAssumption` (finitely many clients and workers, disjoint; a positive
width; the null value is no thread and no item): `LockHasOneOwner`, that
`LockHasItsOwner` always holds, and `EnqueuedAtMostOnce`, that `EnqueuedOnce`
does, for any number of threads, calls and suspensions.

Neither is inductive: the lock is not only taken and dropped with the state
word, it is given to a thread named by an item that was read from the list some
steps before, and that thread may be anywhere between its push and its sleep.
`IInv` (`LaneInvariant` proves it) says therefore

* `ListOK`, `TransferOK`: a waiter that is in the list, or has been popped for the
  hand-over, is in it once, and its caller still waits for it or is about to, and
  has not been signalled;
* `CursorOK`: the cursor of the thread that has the lock is the head of the list,
  from the moment it was read until it is popped, whatever is pushed behind it;
* `EventOK`: only a caller that waits is signalled, and one that was handed the
  lock does not have it already, although it may meanwhile be completing somebody
  else's barrier as a caller that found the lane free;
* `BarrierLeft`: the thread that hands width out has left IN_BARRIER, so that
  setting the bit again is how `_dispatch_lane_drain_non_barriers` sees that it
  got the barrier back and keeps the lock;
* `DrainerOK`, `ItemOK`: ENQUEUED is owned by drainers only, callers push what
  they submit;
* `Typed`, which is weaker than `TypeOK`: that no count goes below zero takes the
  accounting of width, suspensions and references, which is not proved.

`StillAwaited` to `WaitStep` are about the list and the signals (append, pop,
hand over, wake up), `LockKept`, `LockTaken`, `LockLeft` about the owner,
`EnqueuedStep` about the cardinality behind ENQUEUED; `QuietCase`, `EnterCase`,
`InsideCase`, `LeaveCase`, `ReturnCase`, `GotoCase`, `PushCase` and `PopCase` put
them together for the shapes an action can have; then there is one lemma per
action, and `StepInv`.  `IInv` was checked by TLC on the instances of
`lanes` and `queues` before it was proved.

### DispatchGroupProof

From `GroupAssumption` and `ServedAssumption` (finitely many threads and at least
one, which created the group; counters that wrap at any value from 2; a thread is
not a notification): `WaitsForEmptyHolds`, `NotifiedUnlessRacingHolds`,
`GroupIsSoundHolds` (type, references, and that a group is disposed of at rest) and `NothingIsLeftBehindHolds`.

The invariant `IInv` (`GroupInvariant`) ties the two things a group keeps, the word
and the list, although no step updates both:

* `EntersAreCounted`: the value is the number of enters that no leave matches, but for
  a group that is about to crash because the value wrapped;
* `ListHasKeeper`: a list that is not empty is announced by `HAS_NOTIFS`, or its first
  pusher is about to set the bit, or exactly one thread has cleared the bit and will
  take the list;
* `ListIsOrderly`: a notification is in one list once, and the head is linked by its
  pusher and nobody else, so that the wake may wait for the link;
* `EmptyIsSeen`: whoever is about to return 0 or to run a notification has seen the
  group empty, or the notification is in `racing`; a waiter that has not still finds its
  own generation and its `HAS_WAITERS` in the word;
* `BitsAreCleared`: bits are left on an empty group only while a leaver is on its way to
  clear them;
* `CallersOwn`, `RefsAreAccounted`: who is inside a call has a reference.

`NothingIsLeftBehindHolds` has a hypothesis, `[]GenerationsDiffer`: the generation a
waiter remembers does not come round again before its kernel wait compares it.  The
code cannot rule that out (the generation has 32 bits and a waiter may be preempted
for as long as it likes), and a waiter that meets its own generation again does sleep
on.  `WakersCome` is the invariant the proof adds under that hypothesis.

### RootQueueCounts and RootQueueProof

From `RootQueueAssumption` (finite and disjoint sets of threads, pools of at least one
thread, lists of at least one item) and `MarkersAssumption` (NULL, the mediator and
the items differ): `ThreadsAreAccountedHolds`, `PopsInOrderHolds`,
`StrandedOnlyBySlipsHolds`, all from `RootQueueInvariant`, whose `IInv` is

* `Core` (`RootQueueCounts`): `ThreadsAreAccounted` and where each thread can be: which
  steps only a queue with a pool takes, who holds an item or a mark, that permits are
  left only when nobody sleeps.  One lemma per action says what it does to the two sums
  (`dgq_pending` is requests, claims and marks; the pool is what is left, what was asked
  for and who is busy);
* `Shape` (`RootQueueProof`): the list, with the item that a worker is taking off still in
  front, is a chain of links.  A link may be missing (`LinkedTo`), and then exactly one
  producer owes it; the tail is its end (`LinksAreWhole`); the head is the first item, or
  a worker has it behind the mediator, or the producer that found the list empty has
  yet to write it (`HeadHasKeeper`); nobody holds what is in the list and no two
  workers hold the same (`ItemsAreOnce`).  This is what makes blind stores to the head
  and to `do_next` safe: the one that could be overwritten is always owed by one thread;
* `Served`: while there are items, and no request has slipped or the queue is of the kind
  for which that does not matter, somebody sees to them: a worker that will drain, an
  actor that will ask, a request on its way, a permit for a worker that will look for it,
  or a taker of threads that the pool cannot refuse.

`StrandedOnlyBySlipsHolds` follows, since at rest there is none of these.

### Only model-checked

Liveness (weak fairness and ENABLED are beyond the prover) and everything about the
modules that are not named here.

## What the runs found

Four runs expect a counterexample.  In each the code does something a comment,
header or manual page of the library rules out.

* `group_early`: `_dispatch_group_wake` captures the notification list in a
  separate step (`semaphore.c`:255).  A notification that is added in that window
  behind another one is submitted with it, although the group has been entered
  again.  The property of run `completion` excepts only the notifications that are
  added while some thread is between its decision to wake and its capture (`racing`).
* `source_cancel`: when the kernel defers the deletion of a knote, the source waits
  for an event to take it up; if it is suspended when that event comes, nothing
  takes it up after the resume, and the cancel handler never runs
  (`source.c`:985).
* `voucher_copies`: `_voucher_create_without_importance` reads `v_ipc_kvoucher`
  three times while another thread may publish it (`voucher.c`:623, 645, 655): the
  copy then loses the activity of the original, which
  `os/voucher_private.h`:129 promises to keep.
* `suspend_over`: the end of an activation and the wakeup that a concurrent resume
  asked for both consume the references of the activation (`queue.c`:3093): the
  source loses those of its creator.

The same models find the following, which no run repeats; the definition that
fails is named, and it is kept in its module.

* Lane, `KeepsStrictFifo`: a serial `dispatch_sync` takes its fast path when
  `dq_state` is idle and does not look at the list (`inline_internal.h`:1400).  If
  another thread has exchanged the tail but not yet woken the lane up, an item that
  the caller itself submitted before, behind that half finished push, is overtaken.
  This is what `excused` collects; `KeepsContract` shows that nothing else runs out
  of order.
* Lane, `NothingIsStranded` with suspension: a drain that stops for a barrier
  reserves `dq_width - 1` units and PENDING_BARRIER; if it is sent round again by
  DIRTY and the lane is suspended before it reaches the barrier again, the
  reservation is added a second time, the bit carries into the width
  (`inline_internal.h`:1528) and the lane is never runnable again.
* Root queue, `NothingIsStranded`: a thread that waits for the ends of the list to
  agree keeps the queue marked as pending until after its predicate has answered
  (`queue.c`:6503).  A push in between is refused its request because of the mark,
  and nobody looks at the list again.  The properties of `root_live`
  hold up to the first refusal of this kind (`slipped`); overcommit queues, and
  queues with the monitor in `root_live`, are not excepted.  A second way to the
  same end: the size of the pool is read before the loop that takes a thread from
  it (`queue.c`:6349).
* Source, with the `Liberties` "wait", "suspend" and "ack": cancel-and-wait against
  a suspension, and acknowledgements that come late, leave the source as
  `source_cancel` does.
* Timers, `PicksTheLatestTarget` (`event/event.c`:583-603): the comment at
  `event/event.c`:1162 promises the target that leaves least slack.
* Event loop, `RegisteredIsWatched` and `EveryUnoteIsTold` with other plans: a change
  kept back for a muxnote that was freed meets the muxnote that was made at once for
  the same identifier (`event/event_internal.h`:41-45 says it cannot), and an
  exit of a process that is a zombie already is not told to a second client
  (`event/event_kevent.c`:554-557).  Also seen: a notification that was narrowed is
  not called off (2842), and a dropped message leaves the notification disabled (3101).
* Dispatch I/O, `BarrierComes` with the liberty "badf": an operation the descriptor
  is not open for ends the operations of everybody on it (`io.c`:2124), and a barrier
  that waits for one that was never enqueued on a stream stays away
  (`dispatch/io.h`:458 says it runs); they end with error 0 and no data (`io.h`:333).
  Stopping a channel while others use the stream resumes its source too often.
* Mach channel, `WokenWhenLockDrops`: an unlock does not wake the channel for what
  was left in the queue although `mach.c`:2863 relies on it.  Also seen: ENQUEUED
  that is set by a late push keeps two references (1582), and a cancel while an
  event is needed does not probe (2049).
* Log buffer, `DeadAreReadOnce` (the comment at `firehose_buffer.c`:1234) and
  `GateIsGivenUp` (974, when logd is unloaded); log server: a client whose memory is
  corrupted is finalized although its channels are not cancelled
  (`firehose_server.c`:419).
* Workloop, `WaitersReturn`: the note of a waiter that was woken before it waited is
  left to it when it has already gone (`event/event_kevent.c`:2032), and
  `ServicerIsEnqueued` (`inline_internal.h`:1365).  Both rest on what the model
  assumes of the kernel.
* Suspend, `SuspendsAreBalanced` outside of the plans of `services`: an inactive
  source that is suspended past the width of the count and retargeted
  (`inline_internal.h`:1237), and a retargeting that suspends while the side count is
  being moved (`queue.c`:1676), lose half of the count.
* Allocator, `SkippedMapsAreFull` (`allocator_internal.h`:232): a map that is marked
  full in the supermap may have room.  Data objects: `dispatch_data_copy_region` of a
  flattened object (`dispatch/data.h`:231).
* Vouchers: a voucher made with a priority loses the mark that it has importance
  (`voucher.c`:596); the default voucher may be freed under a sender
  (`voucher_replace_default_voucher`); a persona copy with no adopted voucher, when the
  kernel fails, retains NULL (`voucher.c`:879); `_voucher_activity_swap` is declared
  with (old, new) and called with (new, old).

One observation that contradicts no text: a semaphore wait whose timeout has
expired, and which finds that a signal has already counted it, waits again
without a timeout (`semaphore.c`:132).  That signal is on its way, so it returns,
but not by its deadline; `SettledWaitersReturn` shows that it returns.

## Limits

* **Memory order.**  The models are sequentially consistent.  The orders the code
  asks for matter most to the once gate and the gate of firehose, which the plan
  models with an explicit store order.
* **Lane.**  One lane that targets a root queue (role `base_anon`), without
  retargeting, change of width, `async_and_wait`, activation, the side suspend
  count, or the crash on recursive sync.  There is one level of QoS: the bit `qos`
  says whether a push has to override, `ro` whether an override was received; the
  uncontended-sync bit is left out, as are the builds with
  `HAVE_PTHREAD_WORKQUEUE_QOS`.  The root queue is a bag: lanes and redirected
  items may be popped in any order, which allows more than `RootQueue` does.  A
  push on the root queue is merged with the update of the state word that
  decides it.  `Narrowing`, a constant, allows a drain to be interrupted after any
  item.
* **Group.**  The generation does not wrap within the runs.
* **Root queue.**  The loop that creates several threads is one step; the monitor
  takes its two decisions in a step each, the number of its rounds is bounded by
  `MaxTicks`, and it assumes that a call that has begun is over within its period
  of a second.  Items are not pushed a second time.  Deferred items of the kevent
  workqueue, QoS overrides and the creation of pthread root queues are left out.
* **Semaphore, side lock.**  The kernel semaphore and the ulock are modelled from
  their use.  The builds on POSIX and Windows semaphores and on futexes differ in
  the wrappers and are left out.
* **Suspend.**  The illegal mix of `dispatch_activate` and `dispatch_resume` on an
  inactive source is left out, and the bits of the quality of service.
* **Workloop, EventLoop, Voucher, Mach.**  The kernel's half is modelled from what
  the code relies on.  The workloop assumes that the kernel notices when a
  request names a former owner.
* **Log server.**  Clients, lists, deaths and snapshots; reading of the chunks is in
  `Firehose`.
* Definitions that runs share a search by (`object`) do not interact: the modules
  meet where one is the environment of another (a lane's root queue is a bag, a
  channel's source is a pair of flags), and each states what it assumes of it.
* Components of the table that have no module are left to the plan, except time,
  introspection, benchmark and the Swift overlay, which are conversions, hooks or
  declarations with no protocol of their own.
