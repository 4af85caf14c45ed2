---------------------------- MODULE DispatchLane ----------------------------
(***************************************************************************)
(* A dispatch queue created by dispatch_queue_create: a lane of width      *)
(* Width whose target is a root queue (src/queue.c, src/inline_internal.h, *)
(* src/queue_internal.h).  Width = 1 is a serial queue, Width > 1 a        *)
(* concurrent one.                                                         *)
(*                                                                         *)
(* All of the synchronisation is in dq_state, one 64-bit word updated by   *)
(* compare-and-swap loops, and in dq_items, a multi-producer list.  One    *)
(* action is one atomic access to either of them (a rmw loop is one        *)
(* access); what the code does between two accesses belongs to the first.  *)
(* The build is the portable one: no kernel workloops, no thread QoS, so   *)
(* that wakeups merge one QoS, the one the lane inherits from its target.  *)
(***************************************************************************)
EXTENDS Integers, Sequences, FiniteSets, Functions

LOCAL INSTANCE FiniteSetsExt  \* MapThenSumSet

CONSTANTS Clients,    \* threads that call the API; each holds a reference
          Workers,    \* root queue threads that drain the lane
          Width,      \* dq_width
          Kinds,      \* the calls the clients make, a subset of AllKinds
          MaxCalls,   \* bound: work submissions of each client
          MaxSuspend, \* bound: dispatch_suspend calls in all
          Narrowing,  \* whether a drain may be asked to narrow
          Null        \* the null pointer

AllKinds == {"async", "barrier_async", "sync", "barrier_sync"}
Threads == Clients \cup Workers

\* A submission: a continuation, or the dispatch_sync_context_s of a waiter.
Items == [by : Clients, n : 1 .. MaxCalls, kind : Kinds]

ASSUME LaneAssumption ==
  /\ IsFiniteSet(Clients) /\ IsFiniteSet(Workers)
  /\ Clients # {} /\ Clients \cap Workers = {}  \* somebody created the lane
  /\ Width \in Nat \ {0}
  /\ Kinds \subseteq AllKinds
  /\ MaxCalls \in Nat /\ MaxSuspend \in Nat /\ Narrowing \in BOOLEAN
  /\ Null \notin Threads \cup Items

VARIABLES
  dq_state,  \* the state word, as a record of its fields
  dq_items,  \* the item list, in the order of the exchanges of its tail
  linked,    \* items whose predecessor (or the head) already points to them
  tokens,    \* times the lane is enqueued on the root queue
  redirects, \* items redirected to the root queue
  fr,        \* the stack frame of each thread
  event,     \* dsc_event of each waiter: has it been signalled?
  refs,      \* do_ref_cnt, the internal reference count
  calls,     \* submissions made by each client
  suspends,  \* dispatch_suspend calls made
  held,      \* suspends that have returned and that no resume matches yet
  running, finished, \* history: items being run, items that ran
  order,     \* history: <<i, j>> when i and j conflict, i has not finished,
             \* and the call that submitted i returned before that of j began
  excused    \* history: the pairs of order that a barrier sync may break

vars == <<dq_state, dq_items, linked, tokens, redirects, fr, event, refs,
          calls, suspends, held, running, finished, order, excused>>

----------------------------------------------------------------------------
(* dq_state *)

\* sc: suspend count; w: used width; ib: IN_BARRIER; pb: PENDING_BARRIER;
\* d: DIRTY; enq: ENQUEUED; qos: MAX_QOS is not unspecified; ro:
\* RECEIVED_OVERRIDE; owner: the drain lock owner.
States == [sc : Nat, w : Nat, ib : BOOLEAN, pb : BOOLEAN, d : BOOLEAN,
           enq : BOOLEAN, qos : BOOLEAN, ro : BOOLEAN,
           owner : Threads \cup {Null}]

\* DISPATCH_QUEUE_STATE_INIT_VALUE
InitValue == [sc |-> 0, w |-> 0, ib |-> FALSE, pb |-> FALSE, d |-> FALSE,
              enq |-> FALSE, qos |-> FALSE, ro |-> FALSE, owner |-> Null]

\* Faulty variant: ENQUEUED does not stop a barrier sync.
IdleOrEnqueued(s) == s.owner = Null /\ s.sc = 0 /\ s.w = 0

\* _dispatch_queue_try_acquire_barrier_sync: the state must be exactly idle.
Idle(s) == s = InitValue

Suspended(s) == s.sc > 0
Runnable(s) == ~Suspended(s) /\ ~s.ib /\ s.w < Width
SyncRunnable(s) == ~Suspended(s) /\ ~s.ib
Locked(s) == s.owner # Null

\* Faulty variant: off by one.
BarrierFitsOne(s) == s.pb \/ s.w <= 1

\* _dq_state_has_pending_barrier(s) || s + pending_barrier_width < FULL_BIT
BarrierFits(s) == s.pb \/ s.w = 0

\* _dq_state_merge_qos on a base queue that is not a workloop.
MergeQos(s) == IF s.qos THEN s ELSE [s EXCEPT !.qos = TRUE, !.ro = TRUE]

\* Faulty variant: DIRTY does not make the fast unlock fail.
ContendedUnlessDirty(s) == Suspended(s) \/ s.enq \/ s.ro

\* fail_unlock_mask of _dispatch_lane_barrier_sync_invoke_and_complete.
Contended(s) == Suspended(s) \/ s.enq \/ s.d \/ s.ro

\* Faulty variant: PENDING_BARRIER survives the acquisition.
FullWidthPending(s, t) == [s EXCEPT !.w = Width, !.ib = TRUE, !.d = FALSE,
                                    !.owner = t]

\* The full width, IN_BARRIER and the drain lock.  Acquirers other than
\* non_barrier_complete keep only DISPATCH_QUEUE_DRAIN_PRESERVED_BITS_MASK.
FullWidth(s, t) == [s EXCEPT !.w = Width, !.ib = TRUE, !.pb = FALSE,
                             !.d = FALSE, !.owner = t]
TakeFull(s, t) == [FullWidth(s, t) EXCEPT !.ro = FALSE]

\* Faulty variant: the owner is not cleared.
UnlockKeepsOwner(s) == [s EXCEPT !.ro = FALSE]

\* DISPATCH_QUEUE_DRAIN_UNLOCK_MASK
Unlock(s) == [s EXCEPT !.owner = Null, !.ro = FALSE]

\* _dispatch_queue_try_acquire_async
AsyncFits(s) == Runnable(s) /\ ~s.d /\ ~s.pb

\* Faulty variant: the drainer does not look at the list again.
LooksOnce(s) == FALSE

\* Step 2 of the drainer's exit: DIRTY makes the unlock fail.
LooksAgain(s) == ~Suspended(s) /\ s.d

\* _dispatch_lane_non_barrier_complete_try_lock: the last width comes back and
\* a barrier (or anything) may run, else a dirty queue is put back on its target.
TryLock(old, new, t) ==
  IF (IF new.pb THEN new.w + 1 = Width ELSE new.w = 0) THEN FullWidth(new, t)
  ELSE IF old.d THEN [new EXCEPT !.enq = TRUE]
  ELSE new

----------------------------------------------------------------------------
(* Items and frames *)

IsWaiter(i) == i.kind \in {"sync", "barrier_sync"}

\* serial_drain || _dispatch_object_is_barrier(i)
Exclusive(i) == Width = 1 \/ i.kind \in {"barrier_async", "barrier_sync"}

PCs == {"idle", "gone", "concurrent_push", "acquire_async", "push", "link",
        "need_override", "wakeup_probe", "wakeup", "barrier_sync", "sync_tail",
        "reserve_sync", "push_waiter", "link_waiter", "link_first_waiter",
        "waiter_wakeup", "wait", "run_fast_barrier", "serial_unlock",
        "run_barrier", "run_reader", "run_redirect", "retain",
        "resume",
        "barrier_complete", "complete_head", "class_complete",
        "class_complete_enqueue", "waiter_pop", "waiter_transfer",
        "drop_barrier", "non_barrier_take", "non_barrier_pop",
        "non_barrier_unlock", "non_barrier_reload",
        "drain", "drain_check", "drain_take", "drain_next", "run_drain",
        "unlock_done", "unlock_wait", "invoke_finish"}

\* item: the argument or the item being run; dc: the drain cursor; ib, w, enq:
\* the part of dq_state the drainer owns; c2, dirty: DISPATCH_WAKEUP_CONSUME_2
\* and DISPATCH_WAKEUP_MAKE_DIRTY; waits: the call goes on to wait for its dsc_event.
NoFrame == [pc |-> "idle", item |-> Null, dc |-> Null, ib |-> FALSE, w |-> 0,
            enq |-> FALSE, c2 |-> FALSE, dirty |-> FALSE, waits |-> FALSE]

At(t, p) == fr[t].pc = p
SetFrame(t, f) == fr' = [fr EXCEPT ![t] = f]
Goto(t, p) == fr' = [fr EXCEPT ![t].pc = p]

\* The end of a chain of tail calls.
Return(t) ==
  SetFrame(t, IF fr[t].waits
              THEN [NoFrame EXCEPT !.pc = "wait", !.item = fr[t].item]
              ELSE NoFrame)

\* Faulty variant: the reference is consumed even when none was taken.
ConsumeAlways(t) == refs' = refs - 2

\* _dispatch_release_2 when the wakeup consumes a reference.
Consume(t) == refs' = IF fr[t].c2 THEN refs - 2 ELSE refs

\* _dispatch_queue_pop_head spins until the next item, if any, is linked.
PopReady == Len(dq_items) > 1 => dq_items[2] \in linked
NextItem == IF Len(dq_items) = 1 THEN Null ELSE dq_items[2]
PopHead ==
  /\ PopReady
  /\ dq_items' = Tail(dq_items)
  /\ linked' = linked \ {Head(dq_items)}

\* _dispatch_queue_get_head spins until the head is linked.
HeadReady == dq_items # <<>> /\ Head(dq_items) \in linked

Init ==
  /\ dq_state = InitValue
  /\ dq_items = <<>>
  /\ linked = {}
  /\ tokens = 0
  /\ redirects = {}
  /\ fr = [t \in Threads |-> NoFrame]
  /\ event = [t \in Clients |-> FALSE]
  /\ refs = 1
  /\ calls = [t \in Clients |-> 0]
  /\ suspends = 0
  /\ held = 0
  /\ running = {}
  /\ finished = {}
  /\ order = {}
  /\ excused = {}

queue == <<dq_items, linked>>
root == <<tokens, redirects>>
client == <<calls, suspends, held>>
history == <<running, finished, order, excused>>

StartItem(i) == running' = running \cup {i} /\ UNCHANGED <<finished, order, excused>>

FinishItem(i) ==
  /\ running' = running \ {i}
  /\ finished' = finished \cup {i}
  /\ order' = {pair \in order : pair[1] # i}
  /\ excused' = {pair \in excused : pair[1] # i}

\* The items whose submission has begun, and those whose submission has
\* returned while they wait for their turn or run.
Submitted ==
  (finished \cup running \cup redirects \cup Range(dq_items)
     \cup {fr[t].item : t \in Clients}) \ {Null}
Returned == Submitted \ ({fr[t].item : t \in Clients} \cup finished)

\* Items in the list behind one whose push has not returned yet.  That push
\* owes the lane the wakeup that covers all of them.
Uncovered ==
  {dq_items[n] : n \in {n \in 2 .. Len(dq_items) :
                          \E m \in 1 .. n - 1 : dq_items[m] \notin Returned}}

----------------------------------------------------------------------------
(* Asynchronous submission *)

\* A client starts a call that submits work.
FirstStep(i) ==
  CASE i.kind = "async" /\ Width > 1 -> "concurrent_push"
    [] i.kind = "async" /\ Width = 1 -> "push"
    [] i.kind = "barrier_async" -> "push"
    [] i.kind = "sync" /\ Width > 1 -> "sync_tail"
    [] i.kind = "barrier_sync" \/ (i.kind = "sync" /\ Width = 1) -> "barrier_sync"

Submit(t) ==
  /\ At(t, "idle") /\ calls[t] < MaxCalls
  /\ calls' = [calls EXCEPT ![t] = @ + 1]
  /\ \E k \in Kinds :
       LET i == [by |-> t, n |-> calls[t] + 1, kind |-> k] IN
       /\ SetFrame(t, [NoFrame EXCEPT !.item = i, !.pc = FirstStep(i)])
       /\ order' = order \cup
            {<<j, i>> : j \in {j \in Returned : Exclusive(i) \/ Exclusive(j)}}
       /\ excused' = excused \cup
            {<<j, i>> : j \in IF IsWaiter(i) /\ Exclusive(i)
                              THEN Returned \cap Uncovered ELSE {}}
  /\ UNCHANGED <<dq_state, queue, root, event, refs, suspends, held, running,
                 finished>>

\* _dispatch_lane_concurrent_push: nothing may be ahead in dq_items ...
ConcurrentPush(t) ==
  /\ At(t, "concurrent_push")
  /\ Goto(t, IF dq_items = <<>> THEN "acquire_async" ELSE "push")
  /\ UNCHANGED <<dq_state, queue, root, event, refs, client, history>>

\* ... and then a unit of width sends the item straight to the root queue,
\* in a redirection that retains the lane.
AcquireAsync(t) ==
  /\ At(t, "acquire_async")
  /\ \/ /\ AsyncFits(dq_state)
        /\ dq_state' = [dq_state EXCEPT !.w = @ + 1]
        /\ redirects' = redirects \cup {fr[t].item}
        /\ refs' = refs + 2
        /\ Return(t)
     \/ /\ ~AsyncFits(dq_state)
        /\ Goto(t, "push")
        /\ UNCHANGED <<dq_state, redirects, refs>>
  /\ UNCHANGED <<queue, tokens, event, client, history>>

\* _dispatch_lane_push exchanges the tail, and retains the lane for the wakeup
\* before the item becomes reachable.
Push(t) ==
  LET first == dq_items = <<>> IN
  /\ At(t, "push")
  /\ dq_items' = Append(dq_items, fr[t].item)
  /\ refs' = IF first THEN refs + 2 ELSE refs
  /\ SetFrame(t, [fr[t] EXCEPT !.pc = IF first THEN "link" ELSE "need_override",
                               !.c2 = first, !.dirty = first])
  /\ UNCHANGED <<dq_state, linked, root, event, client, history>>

\* _dispatch_queue_need_override: behind another item, wake the lane up only
\* if no wakeup has merged its QoS yet.
NeedOverride(t) ==
  /\ At(t, "need_override")
  /\ SetFrame(t, [fr[t] EXCEPT !.pc = "link", !.c2 = ~dq_state.qos])
  /\ refs' = IF dq_state.qos THEN refs ELSE refs + 2
  /\ UNCHANGED <<dq_state, queue, root, event, client, history>>

Link(t) ==
  /\ At(t, "link")
  /\ linked' = linked \cup {fr[t].item}
  /\ IF fr[t].c2 THEN Goto(t, "wakeup_probe") ELSE Return(t)
  /\ UNCHANGED <<dq_state, dq_items, root, event, refs, client, history>>

\* _dispatch_lane_wakeup: wake the target only when the tail is not null.
WakeupProbe(t) ==
  /\ At(t, "wakeup_probe")
  /\ \/ /\ dq_items # <<>>
        /\ Goto(t, "wakeup")
        /\ UNCHANGED refs
     \/ /\ dq_items = <<>>
        /\ Consume(t)
        /\ Return(t)
  /\ UNCHANGED <<dq_state, queue, root, event, client, history>>

\* _dispatch_queue_wakeup: merge the QoS, set ENQUEUED if it was not and push
\* the lane on its target, which takes over the reference.
Wakeup(t) ==
  LET new == [MergeQos(dq_state) EXCEPT !.enq = @ \/ ~Suspended(dq_state),
                                        !.d = @ \/ fr[t].dirty]
      enqueue == new.enq # dq_state.enq
  IN  /\ At(t, "wakeup")
      /\ dq_state' = new
      /\ tokens' = IF enqueue THEN tokens + 1 ELSE tokens
      /\ IF enqueue THEN UNCHANGED refs ELSE Consume(t)
      /\ Return(t)
      /\ UNCHANGED <<queue, redirects, event, client, history>>

----------------------------------------------------------------------------
(* Synchronous submission *)

\* _dispatch_barrier_sync_f_inline.
BarrierSync(t) ==
  /\ At(t, "barrier_sync")
  /\ \/ /\ Idle(dq_state)
        /\ dq_state' = TakeFull(dq_state, t)
        /\ Goto(t, "run_fast_barrier")
        /\ StartItem(fr[t].item)
     \/ /\ ~Idle(dq_state)
        /\ SetFrame(t, [fr[t] EXCEPT !.pc = "push_waiter", !.waits = TRUE])
        /\ UNCHANGED <<dq_state, history>>
  /\ UNCHANGED <<queue, root, event, refs, client>>

\* _dispatch_queue_try_reserve_sync_width: first the tail ...
SyncTail(t) ==
  /\ At(t, "sync_tail")
  /\ SetFrame(t, IF dq_items = <<>>
                 THEN [fr[t] EXCEPT !.pc = "reserve_sync"]
                 ELSE [fr[t] EXCEPT !.pc = "push_waiter", !.waits = TRUE])
  /\ UNCHANGED <<dq_state, queue, root, event, refs, client, history>>

\* ... then one unit of width, which readers may take beyond the limit.
ReserveSync(t) ==
  LET fits == SyncRunnable(dq_state) /\ ~dq_state.d /\ ~dq_state.pb
  IN  /\ At(t, "reserve_sync")
      /\ \/ /\ fits
            /\ dq_state' = [dq_state EXCEPT !.w = @ + 1]
            /\ Goto(t, "run_reader")
            /\ StartItem(fr[t].item)
         \/ /\ ~fits
            /\ SetFrame(t, [fr[t] EXCEPT !.pc = "push_waiter", !.waits = TRUE])
            /\ UNCHANGED <<dq_state, history>>
      /\ UNCHANGED <<queue, root, event, refs, client>>

\* _dispatch_lane_push_waiter, from __DISPATCH_WAIT_FOR_QUEUE__: the waiter
\* does not retain the lane.
PushWaiter(t) ==
  /\ At(t, "push_waiter")
  /\ dq_items' = Append(dq_items, fr[t].item)
  /\ Goto(t, IF dq_items = <<>> THEN "link_first_waiter" ELSE "link_waiter")
  /\ UNCHANGED <<dq_state, linked, root, event, refs, client, history>>

LinkWaiter(t) ==
  /\ linked' = linked \cup {fr[t].item}
  /\ \/ At(t, "link_first_waiter") /\ Goto(t, "waiter_wakeup")
     \/ At(t, "link_waiter") /\ Return(t)
  /\ UNCHANGED <<dq_state, dq_items, root, event, refs, client, history>>

\* The first waiter of an empty list takes the barrier lock itself if it is
\* free, and hands it to whoever is now at the head of the list.
WaiterWakeup(t) ==
  LET take == ~Locked(dq_state) /\ Runnable(dq_state) /\ BarrierFits(dq_state)
  IN  /\ At(t, "waiter_wakeup")
      /\ dq_state' = IF take THEN TakeFull(dq_state, t)
                     ELSE [dq_state EXCEPT !.d = TRUE]
      /\ IF take THEN Goto(t, "barrier_complete") ELSE Return(t)
      /\ UNCHANGED <<queue, root, event, refs, client, history>>

\* _dispatch_thread_event_wait returns and the caller runs its function.
WaitReturns(t) ==
  /\ At(t, "wait")
  /\ event[t]
  /\ event' = [event EXCEPT ![t] = FALSE]
  /\ SetFrame(t, [fr[t] EXCEPT !.pc = IF Exclusive(fr[t].item)
                                      THEN "run_barrier" ELSE "run_reader"])
  /\ StartItem(fr[t].item)
  /\ UNCHANGED <<dq_state, queue, root, refs, client>>

\* _dispatch_lane_barrier_sync_invoke_and_complete after its callout.
FastBarrierRan(t) ==
  /\ At(t, "run_fast_barrier")
  /\ FinishItem(fr[t].item)
  /\ SetFrame(t, [NoFrame EXCEPT !.pc = IF dq_items # <<>> \/ Width > 1
                                        THEN "barrier_complete"
                                        ELSE "serial_unlock"])
  /\ UNCHANGED <<dq_state, queue, root, event, refs, client>>

SerialUnlock(t) ==
  /\ At(t, "serial_unlock")
  /\ \/ /\ Contended(dq_state)
        /\ Goto(t, "barrier_complete")
        /\ UNCHANGED dq_state
     \/ /\ ~Contended(dq_state)
        /\ dq_state' = [Unlock(dq_state) EXCEPT !.w = @ - Width, !.ib = FALSE,
                                                !.qos = FALSE]
        /\ Return(t)
  /\ UNCHANGED <<queue, root, event, refs, client, history>>

\* _dispatch_sync_complete_recurse for a barrier waiter.
BarrierRan(t) ==
  /\ At(t, "run_barrier")
  /\ FinishItem(fr[t].item)
  /\ SetFrame(t, [NoFrame EXCEPT !.pc = "barrier_complete"])
  /\ UNCHANGED <<dq_state, queue, root, event, refs, client>>

----------------------------------------------------------------------------
(* Giving back one unit of width *)

\* _dispatch_lane_non_barrier_complete_finish: go on to complete the barrier
\* that was acquired, or push the lane, or drop the reference.
NonBarrierFinish(t, f, old, new) ==
  \/ /\ new.ib # old.ib
     /\ SetFrame(t, [f EXCEPT !.pc = "barrier_complete"])
     /\ UNCHANGED <<tokens, refs>>
  \/ /\ new.ib = old.ib /\ new.enq # old.enq
     /\ tokens' = tokens + 1
     /\ refs' = IF f.c2 THEN refs ELSE refs + 2
     /\ Return(t)
  \/ /\ new.ib = old.ib /\ new.enq = old.enq
     /\ refs' = IF f.c2 THEN refs - 2 ELSE refs
     /\ Return(t)
     /\ UNCHANGED tokens

\* _dispatch_lane_non_barrier_complete, after a reader or after a redirected
\* item, whose redirection had retained the lane.
NonBarrierRan(t) ==
  LET less == [dq_state EXCEPT !.w = @ - 1]
      new == IF Locked(dq_state) THEN [less EXCEPT !.d = TRUE]
             ELSE IF Runnable(less) THEN TryLock(dq_state, less, t)
             ELSE less
      f == [NoFrame EXCEPT !.c2 = At(t, "run_redirect")]
  IN  /\ At(t, "run_reader") \/ At(t, "run_redirect")
      /\ FinishItem(fr[t].item)
      /\ dq_state' = new
      /\ NonBarrierFinish(t, f, dq_state, new)
      /\ UNCHANGED <<queue, redirects, event, client>>

----------------------------------------------------------------------------
(* dispatch_suspend and dispatch_resume *)

Suspend(t) ==
  /\ At(t, "idle") /\ suspends < MaxSuspend
  /\ suspends' = suspends + 1
  /\ dq_state' = [dq_state EXCEPT !.sc = @ + 1]
  /\ IF Suspended(dq_state)
     THEN held' = held + 1 /\ UNCHANGED fr
     ELSE Goto(t, "retain") /\ UNCHANGED held
  /\ UNCHANGED <<queue, root, event, refs, calls, history>>

\* Faulty variant: dispatch_suspend does not retain.
SuspendForgets(t) ==
  /\ At(t, "retain")
  /\ held' = held + 1
  /\ Return(t)
  /\ UNCHANGED <<dq_state, queue, root, event, refs, calls, suspends, history>>

\* The first suspend retains the lane, until the last resume.
SuspendRetain(t) ==
  /\ At(t, "retain")
  /\ refs' = refs + 2
  /\ held' = held + 1
  /\ Return(t)
  /\ UNCHANGED <<dq_state, queue, root, event, calls, suspends, history>>

\* A client may resume what a suspend that has returned suspended.
Resume(t) ==
  /\ At(t, "idle") /\ held > 0
  /\ held' = held - 1
  /\ Goto(t, "resume")
  /\ UNCHANGED <<dq_state, queue, root, event, refs, calls, suspends, history>>

\* _dispatch_lane_resume: leave DIRTY to whoever holds the lock or the width,
\* or take the barrier lock, or wake the lane up.
ResumeState(t) ==
  LET less == [dq_state EXCEPT !.sc = @ - 1]
      take == Runnable(less) /\ ~Locked(less) /\ BarrierFits(less)
      new == IF ~Runnable(less) \/ Locked(less) THEN [less EXCEPT !.d = TRUE]
             ELSE IF take THEN TakeFull(less, t)
             ELSE [Unlock(less) EXCEPT !.qos = FALSE]
      f == [NoFrame EXCEPT !.c2 = TRUE]
  IN  /\ At(t, "resume")
      /\ dq_state' = new
      /\ \/ /\ Suspended(new)
            /\ Return(t)
            /\ UNCHANGED refs
         \/ /\ ~Suspended(new) /\ take
            /\ SetFrame(t, [f EXCEPT !.pc = "barrier_complete"])
            /\ UNCHANGED refs
         \/ /\ ~Suspended(new) /\ ~take /\ ~Runnable(new)
            /\ refs' = refs - 2
            /\ Return(t)
         \/ /\ ~take /\ Runnable(new)
            /\ SetFrame(t, [f EXCEPT !.pc = "wakeup_probe"])
            /\ UNCHANGED refs
      /\ UNCHANGED <<queue, root, event, client, history>>

\* dispatch_release: the queue may not be suspended when the last one is made.
Release(t) ==
  LET last == \A u \in Clients \ {t} : At(u, "gone")
  IN  /\ At(t, "idle")
      /\ last => held = 0
      /\ Goto(t, "gone")
      /\ refs' = IF last THEN refs - 1 ELSE refs
      /\ UNCHANGED <<dq_state, queue, root, event, client, history>>

----------------------------------------------------------------------------
(* Giving back the barrier *)

\* _dispatch_lane_barrier_complete: what is next?
BarrierComplete(t) ==
  /\ At(t, "barrier_complete")
  /\ Goto(t, IF dq_items # <<>> /\ ~Suspended(dq_state)
             THEN "complete_head" ELSE "class_complete")
  /\ UNCHANGED <<dq_state, queue, root, event, refs, client, history>>

CompleteHead(t) ==
  LET h == Head(dq_items) IN
  /\ At(t, "complete_head")
  /\ HeadReady
  /\ \/ /\ Exclusive(h) /\ IsWaiter(h)
        /\ SetFrame(t, [fr[t] EXCEPT !.pc = "waiter_pop", !.dc = h])
        /\ UNCHANGED refs
     \/ /\ ~Exclusive(h)
        /\ SetFrame(t, [fr[t] EXCEPT !.pc = "drop_barrier", !.dc = h])
        /\ UNCHANGED refs
     \/ /\ Exclusive(h) /\ ~IsWaiter(h)
        /\ refs' = IF fr[t].c2 THEN refs ELSE refs + 2
        /\ SetFrame(t, [fr[t] EXCEPT !.pc = "class_complete_enqueue",
                                     !.c2 = TRUE])
  /\ UNCHANGED <<dq_state, queue, root, event, client, history>>

\* _dispatch_lane_class_barrier_complete: unlock, unless DIRTY says that the
\* list must be looked at again.
ClassComplete(t, from, enqueue) ==
  LET free == [Unlock(dq_state) EXCEPT !.w = @ - Width, !.ib = FALSE]
      new == IF Suspended(dq_state) THEN free
             ELSE IF enqueue THEN [free EXCEPT !.enq = TRUE]
             ELSE [free EXCEPT !.qos = FALSE]
  IN  /\ At(t, from)
      /\ \/ /\ ~enqueue /\ LooksAgain(dq_state)
            /\ dq_state' = [dq_state EXCEPT !.d = FALSE]
            /\ Goto(t, "barrier_complete")
            /\ UNCHANGED <<tokens, refs>>
         \/ /\ enqueue \/ ~LooksAgain(dq_state)
            /\ dq_state' = new
            /\ IF new.enq # dq_state.enq
               THEN tokens' = tokens + 1 /\ UNCHANGED refs
               ELSE Consume(t) /\ UNCHANGED tokens
            /\ Return(t)
      /\ UNCHANGED <<queue, redirects, event, client, history>>

\* _dispatch_lane_drain_barrier_waiter: pop the waiter ...
WaiterPop(t) ==
  /\ At(t, "waiter_pop")
  /\ PopHead
  /\ Goto(t, "waiter_transfer")
  /\ UNCHANGED <<dq_state, root, event, refs, client, history>>

\* ... make it the owner of the lock, with the width that goes with it, and
\* signal it.  The thread borrows the waiter's reference from here.
WaiterTransfer(t) ==
  LET waiter == fr[t].dc.by IN
  /\ At(t, "waiter_transfer")
  /\ dq_state' = [Unlock(dq_state) EXCEPT !.owner = waiter, !.d = FALSE,
                                          !.enq = @ /\ ~fr[t].enq]
  /\ Consume(t)
  /\ event' = [event EXCEPT ![waiter] = TRUE]
  /\ Return(t)
  /\ UNCHANGED <<queue, root, client, history>>

----------------------------------------------------------------------------
(* _dispatch_lane_drain_non_barriers *)

\* Leave the barrier and keep the full width.
DropBarrier(t) ==
  /\ At(t, "drop_barrier")
  /\ dq_state' = [dq_state EXCEPT !.ib = FALSE]
  /\ SetFrame(t, [fr[t] EXCEPT !.pc = "non_barrier_take", !.w = Width])
  /\ UNCHANGED <<queue, root, event, refs, client, history>>

\* One unit of width for fr[t].dc: an owned one, or a new one, which only a
\* waiter may take beyond the limit.
NonBarrierTake(t) ==
  LET f == fr[t] IN
  /\ At(t, "non_barrier_take")
  /\ \/ /\ f.w > 0
        /\ SetFrame(t, [f EXCEPT !.pc = "non_barrier_pop", !.w = @ - 1])
        /\ UNCHANGED dq_state
     \/ /\ f.w = 0 /\ (IsWaiter(f.dc) \/ AsyncFits(dq_state))
        /\ dq_state' = [dq_state EXCEPT !.w = @ + 1]
        /\ SetFrame(t, [f EXCEPT !.pc = "non_barrier_pop"])
     \/ /\ f.w = 0 /\ ~IsWaiter(f.dc) /\ ~AsyncFits(dq_state)
        /\ SetFrame(t, [f EXCEPT !.pc = "non_barrier_unlock"])
        /\ UNCHANGED dq_state
  /\ UNCHANGED <<queue, root, event, refs, client, history>>

\* Faulty variant: the redirection does not retain the lane.
HandOverUnretained(i) ==
  /\ IF IsWaiter(i)
     THEN event' = [event EXCEPT ![i.by] = TRUE] /\ UNCHANGED redirects
     ELSE redirects' = redirects \cup {i} /\ UNCHANGED event
  /\ UNCHANGED refs

\* Hand the popped item its unit of width: wake the reader up, or push a
\* redirection, which retains the lane, on the root queue.
HandOver(i) ==
  IF IsWaiter(i)
  THEN /\ event' = [event EXCEPT ![i.by] = TRUE]
       /\ UNCHANGED <<redirects, refs>>
  ELSE /\ redirects' = redirects \cup {i}
       /\ refs' = refs + 2
       /\ UNCHANGED event

NonBarrierPop(t) ==
  LET next == NextItem IN
  /\ At(t, "non_barrier_pop")
  /\ PopHead
  /\ HandOver(fr[t].dc)
  /\ SetFrame(t, [fr[t] EXCEPT !.dc = next,
                    !.pc = IF next # Null /\ ~Exclusive(next)
                           THEN "non_barrier_take" ELSE "non_barrier_unlock"])
  /\ UNCHANGED <<dq_state, tokens, client, history>>

\* Faulty variant: ENQUEUED outlives the drain.
GiveBackEnqueued(s, f) ==
  LET keep == Width > 1 /\ f.dc # Null /\ Exclusive(f.dc)
  IN  [Unlock(s) EXCEPT !.w = @ - f.w + IF keep THEN Width - 1 ELSE 0,
                        !.pb = @ # keep, !.ib = @ /\ ~f.ib]

\* The drainer's part of the state is subtracted from it.  When the next item,
\* dc, is a barrier, PENDING_BARRIER and Width - 1 units are kept
\* (_dispatch_queue_adjust_owned): PENDING_BARRIER is the bit below the width,
\* so that keeping it a second time carries into the width.
GiveBack(s, f) ==
  LET keep == Width > 1 /\ f.dc # Null /\ Exclusive(f.dc)
  IN  [Unlock(s) EXCEPT
         !.w = @ - f.w + IF keep THEN Width - 1 + (IF s.pb THEN 1 ELSE 0) ELSE 0,
         !.pb = @ # keep,
         !.ib = @ /\ ~f.ib,
         !.enq = @ /\ ~f.enq]

NonBarrierUnlock(t) ==
  LET f == fr[t]
      free == [GiveBack(dq_state, f) EXCEPT !.d = FALSE]
      new == IF f.dc # Null
             THEN TryLock(dq_state, [free EXCEPT !.d = TRUE], t)
             ELSE free
  IN  /\ At(t, "non_barrier_unlock")
      /\ \/ /\ f.dc = Null /\ dq_state.d
            /\ dq_state' = [dq_state EXCEPT !.d = FALSE]
            /\ Goto(t, "non_barrier_reload")
            /\ UNCHANGED <<tokens, refs>>
         \/ /\ f.dc # Null \/ ~dq_state.d
            /\ dq_state' = new
            /\ NonBarrierFinish(t, [f EXCEPT !.dc = Null, !.w = 0],
                                dq_state, new)
      /\ UNCHANGED <<queue, redirects, event, client, history>>

\* A plain load of dq_items_head, which may be null.
NonBarrierReload(t) ==
  LET next == IF HeadReady THEN Head(dq_items) ELSE Null IN
  /\ At(t, "non_barrier_reload")
  /\ SetFrame(t, [fr[t] EXCEPT !.dc = next,
                    !.pc = IF next # Null /\ ~Exclusive(next)
                           THEN "non_barrier_take" ELSE "non_barrier_unlock"])
  /\ UNCHANGED <<dq_state, queue, root, event, refs, client, history>>

----------------------------------------------------------------------------
(* The drain: _dispatch_queue_class_invoke on a worker *)

\* A worker pops a redirected item and runs it.
RunRedirect(t) ==
  /\ At(t, "idle")
  /\ \E i \in redirects :
       /\ redirects' = redirects \ {i}
       /\ SetFrame(t, [NoFrame EXCEPT !.pc = "run_redirect", !.item = i])
       /\ StartItem(i)
  /\ UNCHANGED <<dq_state, queue, tokens, event, refs, client>>

\* A worker pops the lane: _dispatch_queue_drain_try_lock, which takes all of
\* the width that is left, or clears ENQUEUED.
DrainTryLock(t) ==
  LET s == dq_state
      lockable == Runnable(s) /\ ~Locked(s)
      barrier == BarrierFits(s)
  IN  /\ At(t, "idle") /\ tokens > 0
      /\ tokens' = tokens - 1
      /\ \/ /\ lockable
            /\ dq_state' = [TakeFull(s, t) EXCEPT !.ib = barrier]
            /\ SetFrame(t, [NoFrame EXCEPT !.pc = "drain", !.ib = barrier,
                              !.w = Width - s.w, !.enq = TRUE, !.c2 = TRUE])
            /\ UNCHANGED refs
         \/ /\ ~lockable
            /\ dq_state' = [s EXCEPT !.enq = ~@]
            /\ refs' = refs - 2
            /\ UNCHANGED fr
      /\ UNCHANGED <<queue, redirects, event, client, history>>

\* _dispatch_lane_drain: owning IN_BARRIER means owning the full width.
Drain(t) ==
  LET f == fr[t] IN
  /\ At(t, "drain")
  /\ \/ /\ dq_items = <<>>
        /\ SetFrame(t, [f EXCEPT !.pc = "unlock_done"])
     \/ /\ HeadReady
        /\ SetFrame(t, [f EXCEPT !.pc = "drain_check", !.dc = Head(dq_items),
                                 !.ib = f.ib \/ Width = 1,
                                 !.w = IF f.ib \/ Width = 1 THEN Width ELSE @])
  /\ UNCHANGED <<dq_state, queue, root, event, refs, client, history>>

\* The bottom of the loop: the next item, if any, and whether to narrow.
DrainNext(t) ==
  LET f == fr[t]
      next == IF f.dc # Null THEN f.dc ELSE Head(dq_items)
  IN  /\ At(t, "drain_next")
      /\ \/ /\ f.dc = Null /\ dq_items = <<>>
            /\ Goto(t, "unlock_done")
         \/ /\ f.dc # Null \/ HeadReady
            /\ SetFrame(t, [f EXCEPT !.pc = "drain_check", !.dc = next])
         \/ /\ f.dc # Null \/ HeadReady
            /\ Narrowing
            /\ SetFrame(t, [f EXCEPT !.pc = "invoke_finish", !.dc = next])
      /\ UNCHANGED <<dq_state, queue, root, event, refs, client, history>>

\* The drain stops before an item when the lane is suspended.
DrainCheck(t) ==
  /\ At(t, "drain_check")
  /\ Goto(t, IF Suspended(dq_state) THEN "invoke_finish" ELSE "drain_take")
  /\ UNCHANGED <<dq_state, queue, root, event, refs, client, history>>

\* A barrier met while owning less than the barrier:
\* _dispatch_queue_try_upgrade_full_width.
DrainUpgrade(t) ==
  LET f == fr[t]
      s == dq_state
      reserved == [s EXCEPT !.w = @ - f.w + IF s.pb THEN 0 ELSE Width - 1,
                            !.pb = TRUE, !.d = FALSE]
  IN  /\ At(t, "drain_take") /\ Exclusive(f.dc) /\ ~f.ib
      /\ \/ /\ Runnable(reserved)
            /\ dq_state' = [reserved EXCEPT !.w = @ + 1, !.ib = TRUE, !.pb = FALSE]
            /\ SetFrame(t, [f EXCEPT !.ib = TRUE, !.w = Width])
         \/ /\ ~Runnable(reserved)
            /\ dq_state' = reserved
            /\ SetFrame(t, [f EXCEPT !.pc = "unlock_wait", !.dc = Null, !.w = 0])
      /\ UNCHANGED <<queue, root, event, refs, client, history>>

\* A barrier met while owning the barrier: hand the lock to a waiter through
\* _dispatch_queue_invoke_finish, or pop the item and run it here.
DrainBarrier(t) ==
  LET f == fr[t]
      next == NextItem
  IN  /\ At(t, "drain_take") /\ Exclusive(f.dc) /\ f.ib
      /\ \/ /\ IsWaiter(f.dc)
            /\ Goto(t, "waiter_pop")
            /\ UNCHANGED <<queue, history>>
         \/ /\ ~IsWaiter(f.dc)
            /\ PopHead
            /\ SetFrame(t, [f EXCEPT !.pc = "run_drain", !.item = f.dc,
                                     !.dc = next])
            /\ StartItem(f.dc)
      /\ UNCHANGED <<dq_state, root, event, refs, client>>

\* A reader or a redirected item: leave the barrier, or find a unit of width
\* for it, or stop without width, or hand a unit over.
DrainNonBarrier(t) ==
  LET f == fr[t]
      next == NextItem
  IN  /\ At(t, "drain_take") /\ ~Exclusive(f.dc)
      /\ \/ /\ f.ib
            /\ dq_state' = [dq_state EXCEPT !.ib = FALSE]
            /\ SetFrame(t, [f EXCEPT !.ib = FALSE, !.w = Width])
            /\ UNCHANGED <<queue, redirects, event, refs>>
         \/ /\ ~f.ib /\ f.w = 0 /\ (IsWaiter(f.dc) \/ AsyncFits(dq_state))
            /\ dq_state' = [dq_state EXCEPT !.w = @ + 1]
            /\ SetFrame(t, [f EXCEPT !.w = 1])
            /\ UNCHANGED <<queue, redirects, event, refs>>
         \/ /\ ~f.ib /\ f.w = 0 /\ ~IsWaiter(f.dc) /\ ~AsyncFits(dq_state)
            /\ SetFrame(t, [f EXCEPT !.pc = "unlock_wait", !.dc = Null])
            /\ UNCHANGED <<dq_state, queue, redirects, event, refs>>
         \/ /\ ~f.ib /\ f.w > 0
            /\ PopHead
            /\ HandOver(f.dc)
            /\ SetFrame(t, [f EXCEPT !.pc = "drain_next", !.dc = next,
                                     !.w = @ - 1])
            /\ UNCHANGED dq_state
      /\ UNCHANGED <<tokens, client, history>>

DrainRan(t) ==
  /\ At(t, "run_drain")
  /\ FinishItem(fr[t].item)
  /\ SetFrame(t, [fr[t] EXCEPT !.pc = "drain_next", !.item = Null])
  /\ UNCHANGED <<dq_state, queue, root, event, refs, client>>

\* _dispatch_queue_drain_try_unlock: a dirty lane that is not suspended is
\* drained again; a drain that stopped without width leaves DIRTY behind.
DrainTryUnlock(t, from, done) ==
  LET free == GiveBack(dq_state, fr[t])
  IN  /\ At(t, from)
      /\ \/ /\ LooksAgain(dq_state)
            /\ dq_state' = [dq_state EXCEPT !.d = FALSE]
            /\ Goto(t, "drain")
            /\ UNCHANGED refs
         \/ /\ ~LooksAgain(dq_state)
            /\ dq_state' = IF Suspended(dq_state) THEN free
                           ELSE IF done THEN [free EXCEPT !.qos = FALSE]
                           ELSE [free EXCEPT !.d = TRUE]
            /\ Consume(t)
            /\ Return(t)
      /\ UNCHANGED <<queue, root, event, client, history>>

\* _dispatch_queue_invoke_finish: leave the lane dirty, and enqueued unless it
\* is suspended or out of width.
InvokeFinish(t) ==
  LET free == [GiveBack(dq_state, fr[t]) EXCEPT !.d = TRUE]
      enqueue == Runnable(free) /\ ~free.enq
  IN  /\ At(t, "invoke_finish")
      /\ dq_state' = [free EXCEPT !.enq = @ \/ enqueue]
      /\ IF enqueue THEN tokens' = tokens + 1 /\ UNCHANGED refs
         ELSE Consume(t) /\ UNCHANGED tokens
      /\ Return(t)
      /\ UNCHANGED <<queue, redirects, event, client, history>>

----------------------------------------------------------------------------

\* A step inside a call; nothing in it is up to the caller.
ClientStep(t) ==
  \/ ConcurrentPush(t) \/ AcquireAsync(t)
  \/ Push(t) \/ NeedOverride(t) \/ Link(t) \/ WakeupProbe(t) \/ Wakeup(t)
  \/ BarrierSync(t) \/ SyncTail(t) \/ ReserveSync(t)
  \/ PushWaiter(t) \/ LinkWaiter(t) \/ WaiterWakeup(t) \/ WaitReturns(t)
  \/ FastBarrierRan(t) \/ SerialUnlock(t) \/ BarrierRan(t)
  \/ SuspendRetain(t) \/ ResumeState(t)

\* Completion code that clients and workers share.
SharedStep(t) ==
  \/ NonBarrierRan(t)
  \/ BarrierComplete(t) \/ CompleteHead(t)
  \/ ClassComplete(t, "class_complete", FALSE)
  \/ ClassComplete(t, "class_complete_enqueue", TRUE)
  \/ WaiterPop(t) \/ WaiterTransfer(t)
  \/ DropBarrier(t) \/ NonBarrierTake(t) \/ NonBarrierPop(t)
  \/ NonBarrierUnlock(t) \/ NonBarrierReload(t)

WorkerStep(t) ==
  \/ RunRedirect(t) \/ DrainTryLock(t)
  \/ Drain(t) \/ DrainNext(t) \/ DrainCheck(t)
  \/ DrainUpgrade(t) \/ DrainBarrier(t) \/ DrainNonBarrier(t) \/ DrainRan(t)
  \/ DrainTryUnlock(t, "unlock_done", TRUE)
  \/ DrainTryUnlock(t, "unlock_wait", FALSE)
  \/ InvokeFinish(t)

Next ==
  \/ \E t \in Clients :
       \/ Submit(t) \/ Suspend(t) \/ Resume(t) \/ Release(t)
       \/ ClientStep(t) \/ SharedStep(t)
  \/ \E t \in Workers : WorkerStep(t) \/ SharedStep(t)

Spec == Init /\ [][Next]_vars

\* Threads inside libdispatch run, blocks return, and the root queue has
\* threads for what is pushed on it.  No caller has to call, resume or release.
FairSpec ==
  /\ Spec
  /\ \A t \in Clients : WF_vars(ClientStep(t) \/ SharedStep(t))
  /\ \A t \in Workers : WF_vars(WorkerStep(t) \/ SharedStep(t))

----------------------------------------------------------------------------
(* Properties *)

TypeOK ==
  /\ dq_state \in States
  /\ dq_items \in Seq(Items)
  /\ linked \subseteq Items
  /\ tokens \in Nat
  /\ redirects \subseteq Items
  /\ \A t \in Threads :
       /\ fr[t].pc \in PCs
       /\ fr[t].item \in Items \cup {Null}
       /\ fr[t].dc \in Items \cup {Null}
       /\ fr[t].w \in 0 .. Width
       /\ {fr[t].ib, fr[t].enq, fr[t].c2, fr[t].dirty, fr[t].waits} \subseteq BOOLEAN
  /\ event \in [Clients -> BOOLEAN]
  /\ refs \in Nat
  /\ calls \in [Clients -> 0 .. MaxCalls]
  /\ suspends \in 0 .. MaxSuspend
  /\ held \in 0 .. MaxSuspend
  /\ running \subseteq Items
  /\ finished \subseteq Items

\* The lane keeps the promise of a queue to its clients.
Contract == INSTANCE QueueContract
              WITH submitted <- Submitted, order <- order \ excused,
                   ExclusiveItems <- {i \in Items : Exclusive(i)}

\* Barriers exclude everything else, items run once, and submissions that
\* conflict run first in first out, across fast paths, hand-offs, redirections
\* and reacquisitions of the lock; but a barrier sync may overtake an item that
\* is still behind another caller's unfinished push.
KeepsContract == Contract!Spec

StrictContract == INSTANCE QueueContract
                    WITH submitted <- Submitted,
                         ExclusiveItems <- {i \in Items : Exclusive(i)}

\* The same without the exception, as dispatch/queue.h and the manual page say
\* it: what a thread submits after an earlier submission of its own returned
\* runs after it.
KeepsStrictFifo == StrictContract!Spec

\* The steps in which a thread has the drain lock: it completes a barrier,
\* drains, or is a waiter to which the lock was handed.
BarrierPCs == {"run_fast_barrier", "serial_unlock", "run_barrier",
               "barrier_complete", "complete_head", "class_complete",
               "class_complete_enqueue", "waiter_pop", "waiter_transfer",
               "drop_barrier"}
NonBarrierPCs == {"non_barrier_take", "non_barrier_pop", "non_barrier_unlock",
                  "non_barrier_reload"}
DrainPCs == {"drain", "drain_check", "drain_take", "drain_next", "run_drain",
             "unlock_done", "unlock_wait", "invoke_finish"}

\* A waiter may be popped and signalled before it gets round to waiting.
Woken(t) == t \in Clients /\ event[t]

HasLock(t) ==
  \/ fr[t].pc \in BarrierPCs \cup NonBarrierPCs \cup DrainPCs
  \/ Woken(t) /\ Exclusive(fr[t].item)

\* The drain lock has the owner the state word names, and no other: a lock
\* handed to a waiter is not also released, nor taken again, by the thread that
\* handed it over.
LockHasItsOwner == \A t \in Threads : dq_state.owner = t <=> HasLock(t)

\* The width thread t has to give back: what its frame owns and, when it has
\* been signalled, what it was handed (it may have popped itself).
WidthOf(t) ==
  (CASE fr[t].pc \in BarrierPCs -> Width
     [] fr[t].pc \in {"run_reader", "run_redirect"} -> 1
     [] fr[t].pc = "non_barrier_pop" -> fr[t].w + 1
     [] fr[t].pc \in NonBarrierPCs \ {"non_barrier_pop"} -> fr[t].w
     [] fr[t].pc \in DrainPCs -> IF fr[t].ib THEN Width ELSE fr[t].w
     [] OTHER -> 0)
  + IF ~Woken(t) THEN 0 ELSE IF Exclusive(fr[t].item) THEN Width ELSE 1

\* Every unit of width in use belongs to a thread, a redirected item or the
\* reservation of the pending barrier: none leaks (the queue would never be
\* idle again) and none is given back twice.
WidthIsAccounted ==
  dq_state.w = Cardinality(UNION {{t} \X (1 .. WidthOf(t)) : t \in Threads})
                 + Cardinality(redirects) + IF dq_state.pb THEN Width - 1 ELSE 0

\* ENQUEUED is set exactly while the lane is on its target queue once, or
\* drained by the thread that popped it.
EnqueuedOnce ==
  tokens + Cardinality({t \in Workers : fr[t].enq}) =
    IF dq_state.enq THEN 1 ELSE 0

\* Everything that will touch the lane later holds a reference: the clients,
\* the suspension, its place on the target queue, the redirected items and the
\* calls that consume one.  A waiter borrows that of its client.
RefsAreAccounted ==
  refs = (IF \A t \in Clients : At(t, "gone") THEN 0 ELSE 1)
         + 2 * ((IF Suspended(dq_state) THEN 1 ELSE 0)
                - Cardinality({t \in Clients : At(t, "retain")})
                + tokens + Cardinality(redirects)
                + Cardinality({t \in Threads :
                                 fr[t].c2 \/ At(t, "run_redirect")}))

AtRest ==
  /\ tokens = 0 /\ redirects = {}
  /\ \A t \in Threads : fr[t].pc \in {"idle", "gone", "wait"}
  /\ \A t \in Clients : ~event[t]

\* No lost wakeup: when nothing is left to happen by itself and the lane is not
\* suspended, nothing is left in the list, no caller waits, and the state word
\* is idle but for DIRTY and MAX_QOS, which any acquirer of the lock resets.
NothingIsStranded ==
  AtRest /\ ~Suspended(dq_state) =>
    /\ dq_items = <<>>
    /\ \A t \in Clients : ~At(t, "wait")
    /\ [dq_state EXCEPT !.d = FALSE, !.qos = FALSE] = InitValue

\* The last reference goes away only when nobody will use the lane again, and
\* then _dispatch_lane_class_dispose finds neither items nor a locked or
\* corrupt state.
DisposedAtRest ==
  refs = 0 => AtRest /\ dq_items = <<>>
                     /\ [dq_state EXCEPT !.d = FALSE, !.qos = FALSE] = InitValue

\* Every call has returned and every submission has run.
AllRan ==
  /\ \A t \in Clients : fr[t].pc \in {"idle", "gone"}
  /\ Cardinality(finished) = MapThenSumSet(LAMBDA t : calls[t], Clients)

\* Every submission eventually runs and every call returns, if the lane is not
\* suspended for ever.
AllWorkRuns == <>[](~Suspended(dq_state)) => <>[]AllRan
=============================================================================
