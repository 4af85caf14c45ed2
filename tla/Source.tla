------------------------------- MODULE Source -------------------------------
(* A dispatch source (source.c) with its unote (event/event_kevent.c) and   *)
(* the wakeup, resume and invoke paths of the queue it is (queue.c).        *)
(*                                                                          *)
(* A source is a queue of width 1 that is enqueued on its target queue, or, *)
(* for what must be done next to the event loop, on the manager queue.      *)
(* Whoever drains it looks at its state and does the first thing that is    *)
(* due: install, register, acknowledge a deletion, call the event handler,  *)
(* unregister, call the cancel handler, re-arm.  Wakeups look at the same   *)
(* state to find the queue where that is to be done.                        *)
(*                                                                          *)
(* kind is "data" for custom sources (dispatch_source_merge_data), "direct" *)
(* for a knote of its own that is disabled when delivered (EV_DISPATCH) and *)
(* that a thread of the kevent workqueue delivers, "muxed" for a shared     *)
(* note that the manager thread delivers.  Timers are in module Timers.     *)
(* Items of the source's own list (set_handler after the activation) and    *)
(* workloops as target are left out, priorities too.                        *)
EXTENDS Integers, FiniteSets

CONSTANTS
  Clients,      \* threads that use the source
  Kinds,        \* kinds of source
  MaxEvents,    \* bound: events posted or data merged
  MaxSuspends,  \* bound: calls of dispatch_suspend
  Liberties     \* what clients may do that the code does not cope with:
                \* "suspend": suspend a source that is being activated,
                \* "cancel": suspend it while it is being cancelled,
                \* "wait": cancel and wait before it has been installed,
                \* "ack": cancel and wait while the kernel acknowledges a deletion

VARIABLES
  kind,
  q,         \* dq_state: owner, dirty, enq, susp (suspend count), inactive
  dqf,       \* dq_atomic_flags
  du,        \* du_state of the unote
  knote,     \* the kernel's half: state, and whether a deletion is deferred
  pending,   \* ds_pending_data
  ds,        \* ds_is_installed, ds_latched, the handlers
  refs,      \* do_ref_cnt
  act,       \* what each thread is doing
  env        \* of the clients and for the properties

sourceVars == <<kind, q, dqf, du, knote, pending, ds, refs, act, env>>

Worker == "worker"      \* drains the target queue
Manager == "manager"    \* drains the manager queue, delivers muxed events
Events == "events"      \* delivers the events of direct knotes
Actors == Clients \cup {Worker, Manager, Events}
None == "none"

Idle == [pc |-> "idle", ret |-> "idle", tq |-> "none", wake |-> {}, dqf |-> {},
         starve |-> FALSE]

At(t, pc) == act[t].pc = pc
Goto(t, pc) == act' = [act EXCEPT ![t].pc = pc]
Done(t) == act' = [act EXCEPT ![t] = Idle]

\* dx_wakeup(ds, flags), and go on at ret.
Wake(t, flags, ret) ==
  act' = [act EXCEPT ![t] = [Idle EXCEPT !.pc = "wakeup", !.wake = flags, !.ret = ret]]

Cancelled(flags) == flags \cap {"canceled", "released"} # {}
Suspended(s) == s.susp > 0 \/ s.inactive # "no"
Runnable(s) == ~Suspended(s)
NeedsRearm == "registered" \in du /\ du \cap {"armed", "delete"} = {}
Dkq == IF kind = "muxed" THEN "mgr" ELSE "target"
Queue(t) == IF t = Manager THEN "mgr" ELSE "target"

SourceInit ==
  /\ kind \in Kinds
  /\ q = [owner |-> None, dirty |-> FALSE, enq |-> "no", susp |-> 0,
          inactive |-> "inactive"]
  /\ dqf = {} /\ du = {} /\ pending = 0
  /\ knote = [state |-> "none", deferred |-> FALSE]
  /\ \E h \in {{"event"}, {"event", "registration", "cancel"}} :
       ds = [installed |-> FALSE, latched |-> FALSE, handlers |-> h]
  /\ refs = 4
  /\ act = [t \in Actors |-> Idle]
  /\ env = [xref |-> TRUE, posted |-> 0, suspends |-> 0, owed |-> 0, crash |-> "no",
            waited |-> "no", cancelRuns |-> 0, acked |-> FALSE]

-----------------------------------------------------------------------------
(* Wakeups: where is the next thing to be done?                             *)

\* Faulty variant: nobody is sent for the acknowledgment of a deletion.
WakeTargetUnasked(flags) ==
  IF ~ds.installed THEN Dkq
  ELSE IF \/ "registration" \in ds.handlers
          \/ ~Cancelled(dqf) /\ pending > 0 THEN "target"
  ELSE IF Cancelled(dqf) /\ "deleted" \notin dqf
       THEN IF "needs_event" \in dqf THEN "none" ELSE Dkq
  ELSE IF Cancelled(dqf) /\ ds.handlers # {} THEN "target"
  ELSE IF ~Cancelled(dqf) /\ NeedsRearm THEN Dkq ELSE "none"

\* _dispatch_source_wakeup: the tests are in the order of the invocation.
WakeTarget(flags) ==
  IF ~ds.installed THEN Dkq
  ELSE IF \/ "registration" \in ds.handlers
          \/ "delete" \in du
          \/ ~Cancelled(dqf) /\ pending > 0 THEN "target"
  ELSE IF Cancelled(dqf) /\ "deleted" \notin dqf
       THEN IF "needs_event" \in dqf /\ "event" \notin flags THEN "none" ELSE Dkq
  ELSE IF Cancelled(dqf) /\ ds.handlers # {} THEN "target"
  ELSE IF ~Cancelled(dqf) /\ NeedsRearm THEN Dkq ELSE "none"

\* The state is read, and a wakeup that enqueues keeps the source alive.
Wakeup(t) ==
  /\ At(t, "wakeup")
  /\ LET tq == WakeTarget(act[t].wake)
         keep == tq # "none" /\ "consume" \notin act[t].wake
     IN /\ act' = [act EXCEPT ![t].pc = "enqueue", ![t].tq = tq,
                   ![t].wake = IF keep THEN @ \cup {"consume"} ELSE @]
        /\ refs' = IF keep THEN refs + 2 ELSE refs
  /\ UNCHANGED <<kind, q, dqf, du, knote, pending, ds, env>>

\* _dispatch_queue_wakeup: whoever sets the enqueued bit pushes the source.
MayEnqueue(s, tq) ==
  /\ ~Suspended(s) /\ s.enq = "no"
  /\ s.owner = None \/ tq # "mgr"

Woken(flags, tq) ==
  LET s == IF "clear" \in flags /\ q.inactive = "activating"
             THEN [q EXCEPT !.inactive = "no"] ELSE q
  IN [s EXCEPT !.enq = IF MayEnqueue(s, tq) THEN tq ELSE @,
               !.dirty = @ \/ "dirty" \in flags]

Returned(t) == act' = [act EXCEPT ![t] = [Idle EXCEPT !.pc = act[t].ret]]
Consumed(t, enqueued) ==
  refs' = IF ~enqueued /\ "consume" \in act[t].wake THEN refs - 2 ELSE refs

Enqueue(t) ==
  /\ At(t, "enqueue") /\ "complete" \notin act[t].wake
  /\ q' = IF act[t].tq = "none" THEN q ELSE Woken(act[t].wake, act[t].tq)
  /\ Consumed(t, q'.enq # q.enq)
  /\ Returned(t)
  /\ UNCHANGED <<kind, dqf, du, knote, pending, ds, env>>

\* _dispatch_lane_class_barrier_complete: the thread that holds the drain lock
\* gives it back with the wakeup, or looks again when somebody left a note.
BarrierComplete(t) ==
  /\ At(t, "enqueue") /\ "complete" \in act[t].wake
  /\ LET tq == act[t].tq
         again == tq = "none" /\ ~Suspended(q) /\ q.dirty
         enqueue == tq # "none" /\ ~Suspended(q) /\ q.enq = "no"
     IN IF again
          THEN /\ q' = [q EXCEPT !.dirty = FALSE]
               /\ Goto(t, "wakeup")
               /\ UNCHANGED refs
          ELSE /\ q' = [q EXCEPT !.owner = None, !.enq = IF enqueue THEN tq ELSE @]
               /\ Consumed(t, enqueue)
               /\ Returned(t)
  /\ UNCHANGED <<kind, dqf, du, knote, pending, ds, env>>

-----------------------------------------------------------------------------
(* The unote                                                                *)

\* _dispatch_unote_register.  A knote may fire as soon as it is there, so the
\* state of the unote is set before; the registration of a knote may fail.
Register(ok) ==
  /\ kind = "data" => ok
  /\ ds' = [ds EXCEPT !.installed = TRUE]
  /\ du' = IF ok THEN {"registered", "armed"} ELSE {}
  /\ knote' = IF ok /\ kind # "data" THEN [knote EXCEPT !.state = "enabled"] ELSE knote

\* What an unregistration does: whether it succeeds, the unote, the knote.
Gone == [ok |-> TRUE, du |-> {}, knote |-> [state |-> "none", deferred |-> FALSE],
         crash |-> "no"]
NotYet(must) == [ok |-> FALSE, du |-> du, knote |-> knote,
                 crash |-> IF must THEN "Unregistration failed" ELSE "no"]

\* _dispatch_unote_unregister_direct.  The kernel deletes an enabled knote, and a
\* disabled one when it is enabled with the same call; otherwise an event is on
\* its way and the deletion is deferred to it (EINPROGRESS).
UnregisterDirect(opts) ==
  LET enable == "armed" \notin du
      must == enable \/ "must" \in opts
  IN IF "delete" \in du /\ "ack" \notin opts THEN NotYet("must" \in opts)
     ELSE IF du = {"delete"} THEN [Gone EXCEPT !.knote = knote]
     ELSE IF ~enable /\ "probe" \notin opts THEN NotYet(must)
     ELSE IF knote.state = "none" THEN [Gone EXCEPT !.crash = "ENOENT"]
     ELSE IF knote.state = "enabled" \/ (enable /\ knote.state = "disabled") THEN Gone
     ELSE [NotYet(must) EXCEPT !.knote.deferred = TRUE]

\* _dispatch_unote_unregister: custom and muxed unotes always go at once.
Unregister(opts) ==
  IF du = {} THEN [Gone EXCEPT !.knote = knote]
  ELSE IF kind = "direct" THEN UnregisterDirect(opts) ELSE Gone

Crash(what) == env' = [env EXCEPT !.crash = IF what = "no" THEN @ ELSE what]

\* _dispatch_source_refs_unregister, up to the flags.
RefsUnregister(t, opts, next) ==
  LET u == Unregister(opts)
  IN /\ du' = u.du /\ knote' = u.knote /\ Crash(u.crash)
     /\ act' = [act EXCEPT ![t].pc = IF u.ok THEN "finalize" ELSE "deferred",
                           ![t].ret = next]
     /\ UNCHANGED <<kind, q, dqf, pending, ds, refs>>

\* _dispatch_source_refs_finalize_unregistration: threads that wait for the
\* deletion sleep on the flags and are woken if they left their mark.
Finalize(t) ==
  /\ At(t, "finalize")
  /\ dqf' = (dqf \cup {"deleted"}) \ {"needs_event", "cancel_waiter"}
  /\ Crash(IF "deleted" \in dqf THEN "Source finalized twice" ELSE "no")
  /\ refs' = refs - 1
  /\ act' = [c \in Actors |->
               IF c = t THEN [Idle EXCEPT !.pc = act[t].ret, !.tq = act[t].tq]
               ELSE IF act[c].pc = "asleep" /\ "cancel_waiter" \in dqf
                      THEN [act[c] EXCEPT !.pc = "waitLoop"] ELSE act[c]]
  /\ UNCHANGED <<kind, q, du, knote, pending, ds>>

\* The deletion is deferred: nothing more to do before the next event.
Deferred(t) ==
  /\ At(t, "deferred")
  /\ dqf' = IF "deleted" \in dqf THEN dqf ELSE dqf \cup {"needs_event"}
  /\ act' = [act EXCEPT ![t] = [Idle EXCEPT !.pc = act[t].ret]]
  /\ UNCHANGED <<kind, q, du, knote, pending, ds, refs, env>>

-----------------------------------------------------------------------------
(* Events                                                                   *)

\* dispatch_source_merge_data, on a custom source.
MergeData(c) ==
  /\ At(c, "idle") /\ env.xref /\ kind = "data" /\ env.posted < MaxEvents
  /\ IF Cancelled(dqf)
       THEN env' = [env EXCEPT !.posted = @ + 1] /\ Done(c)
       ELSE env' = [env EXCEPT !.posted = @ + 1, !.owed = @ + 1] /\ Goto(c, "add")
  /\ UNCHANGED <<kind, q, dqf, du, knote, pending, ds, refs>>

Add(c) ==
  /\ At(c, "add")
  /\ pending' = pending + 1
  /\ Wake(c, {"dirty"}, "idle")
  /\ UNCHANGED <<kind, q, dqf, du, knote, ds, refs, env>>

\* External: the kernel takes an event of an enabled knote.
Deliverer == IF kind = "muxed" THEN Manager ELSE Events

Fire ==
  /\ At(Deliverer, "idle") /\ knote.state = "enabled" /\ env.posted < MaxEvents
  /\ env' = [env EXCEPT !.posted = @ + 1, !.owed = @ + 1]
  /\ knote' = IF kind = "muxed" THEN knote ELSE [knote EXCEPT !.state = "delivering"]
  /\ Goto(Deliverer, "deliver")
  /\ UNCHANGED <<kind, q, dqf, du, pending, ds, refs>>

\* External: it hands the event out, and disables a direct knote (EV_DISPATCH).
\* If the deletion was asked for meanwhile it may acknowledge that with the event.
Acks == knote.deferred /\ ("ack" \in Liberties \/ env.waited = "no")
EventFlags ==
  IF kind = "muxed" THEN {"plain", "oneshot"}
  ELSE {"dispatch", "oneshot", "vanished"} \cup (IF Acks THEN {"delete"} ELSE {})

Deliver ==
  /\ At(Deliverer, "deliver")
  /\ \E flag \in EventFlags :
       /\ act' = [act EXCEPT ![Deliverer].pc = "merge", ![Deliverer].wake = {flag}]
       /\ knote' = IF kind = "muxed"
                     THEN IF flag = "oneshot" THEN Gone.knote ELSE knote
                   ELSE IF flag = "delete" THEN Gone.knote
                   ELSE [knote EXCEPT !.state = "disabled"]
       /\ env' = [env EXCEPT !.acked = @ \/ flag = "delete"]
  /\ UNCHANGED <<kind, q, dqf, du, pending, ds, refs>>

\* _dispatch_kevent_merge: the data, under references of its own since the flags
\* that follow allow others to dispose of the source.
Merge ==
  /\ At(Deliverer, "merge")
  /\ refs' = refs + 2
  /\ pending' = pending + 1
  /\ Goto(Deliverer, "mergeFlags")
  /\ UNCHANGED <<kind, q, dqf, du, knote, ds, env>>

\* _dispatch_kevent_merge_ev_flags.
Flag(t) == CHOOSE flag \in act[t].wake : TRUE

MergeFlags ==
  /\ At(Deliverer, "mergeFlags")
  /\ LET flag == Flag(Deliverer)
     IN du' = CASE flag = "plain" -> du
                [] flag = "oneshot" /\ kind = "muxed" -> Unregister({"ack", "must"}).du
                [] flag = "delete" -> {"delete"}
                [] flag = "dispatch" -> du \ {"armed"}
                [] OTHER -> (du \cup {"delete"}) \ {"armed"}
  /\ Crash(IF kind = "direct" /\ du = {} THEN "Written concurrently" ELSE "no")
  /\ Goto(Deliverer, "mergeEvt")
  /\ UNCHANGED <<kind, q, dqf, knote, pending, ds, refs>>

\* _dispatch_source_merge_evt.
WakeMerged == Wake(Deliverer, {"event", "clear", "consume", "dirty"}, "idle")

MergeEvt ==
  /\ At(Deliverer, "mergeEvt")
  /\ LET vanished == Flag(Deliverer) = "vanished"
     IN IF kind = "muxed" /\ du = {}
          THEN /\ act' = [act EXCEPT ![Deliverer].pc = "finalize", ![Deliverer].ret = "merged"]
               /\ UNCHANGED <<pending, env>>
          ELSE /\ pending' = IF vanished THEN 0 ELSE pending
               /\ env' = IF vanished THEN [env EXCEPT !.owed = @ - pending] ELSE env
               /\ WakeMerged
  /\ UNCHANGED <<kind, q, dqf, du, knote, ds, refs>>

Merged ==
  /\ At(Deliverer, "merged")
  /\ WakeMerged
  /\ UNCHANGED <<kind, q, dqf, du, knote, pending, ds, refs, env>>

-----------------------------------------------------------------------------
(* Calls of the clients                                                     *)

\* dispatch_activate, and dispatch_resume of an inactive source.
Activating == [q EXCEPT !.inactive = IF q.susp > 0 THEN "activated" ELSE "activating"]

Activate(c) ==
  /\ At(c, "idle") \/ At(c, "waitActivate")
  /\ At(c, "idle") => env.xref /\ q.inactive = "inactive" /\ env.waited = "no"
  /\ LET next == IF At(c, "idle") THEN "idle" ELSE "waitLoop"
         mine == q.inactive = "inactive" /\ q.susp = 0
     IN /\ q' = IF q.inactive = "inactive" THEN Activating ELSE q
        /\ act' = [act EXCEPT ![c] = [Idle EXCEPT !.pc = IF mine THEN "activate" ELSE next,
                                                  !.tq = next]]
  /\ UNCHANGED <<kind, dqf, du, knote, pending, ds, refs, env>>

\* _dispatch_source_activate.  A direct source whose target hierarchy is settled
\* is installed by the activation itself, others when they are first invoked.
SourceActivate(t) ==
  /\ At(t, "activate")
  /\ IF "canceled" \in dqf
       THEN /\ ds' = [ds EXCEPT !.installed = TRUE]
            /\ act' = [act EXCEPT ![t].pc = "finalize", ![t].ret = "activated"]
            /\ UNCHANGED <<du, knote>>
       ELSE \/ /\ Goto(t, "activated")
               /\ UNCHANGED <<du, knote, ds>>
            \/ /\ kind # "muxed" /\ ~ds.installed
               /\ \E ok \in BOOLEAN :
                    /\ Register(ok)
                    /\ act' = [act EXCEPT ![t].pc = IF ok THEN "activated" ELSE "finalize",
                                          ![t].ret = "activated"]
  /\ UNCHANGED <<kind, q, dqf, pending, refs, env>>

\* The end of _dispatch_lane_resume, with the new state s: a source that is no
\* longer suspended is woken with the references of the suspension, unless the
\* thread that holds its lock will see that it is dirty.
Resumed(t, s, next) ==
  /\ q' = [s EXCEPT !.dirty = @ \/ Suspended(s) \/ s.owner # None]
  /\ refs' = IF ~Suspended(s) /\ s.owner # None THEN refs - 2 ELSE refs
  /\ IF Suspended(s) \/ s.owner # None
       THEN act' = [act EXCEPT ![t] = [Idle EXCEPT !.pc = next]]
       ELSE Wake(t, {"consume"}, next)

\* An activation whose state an event has cleared only releases the references.
ActivationDone(t) ==
  /\ At(t, "activated")
  /\ LET next == act[t].tq
     IN IF q.inactive = "no"
          THEN /\ refs' = refs - 2 /\ UNCHANGED q
               /\ act' = [act EXCEPT ![t] = [Idle EXCEPT !.pc = next]]
          ELSE Resumed(t, [q EXCEPT !.inactive = "no"], next)
  /\ UNCHANGED <<kind, dqf, du, knote, pending, ds, env>>

BeingCancelled == "canceled" \in dqf \/ \E t \in Clients : At(t, "cancel")

\* dispatch_suspend: the first suspension retains.
Suspend(c) ==
  /\ At(c, "idle") /\ env.xref /\ env.suspends < MaxSuspends /\ env.waited = "no"
  /\ "suspend" \in Liberties \/ q.inactive # "activating"
  /\ "cancel" \in Liberties \/ ~BeingCancelled
  /\ q' = [q EXCEPT !.susp = @ + 1]
  /\ env' = [env EXCEPT !.suspends = @ + 1]
  /\ refs' = IF Suspended(q) THEN refs ELSE refs + 2
  /\ UNCHANGED <<kind, dqf, du, knote, pending, ds, act>>

\* dispatch_resume: the last one of an activated source goes on to activate it.
Resume(c) ==
  /\ At(c, "idle") /\ q.susp > 0
  /\ LET s == [q EXCEPT !.susp = @ - 1]
     IN IF s.susp = 0 /\ s.inactive = "activated"
          THEN /\ q' = [s EXCEPT !.inactive = "activating"]
               /\ act' = [act EXCEPT ![c] = [Idle EXCEPT !.pc = "activate", !.tq = "idle"]]
               /\ UNCHANGED refs
          ELSE Resumed(c, s, "idle")
  /\ UNCHANGED <<kind, dqf, du, knote, pending, ds, env>>

\* dispatch_source_cancel: only who sets the flag wakes the source.
Cancel(c) ==
  /\ At(c, "idle") /\ env.xref
  /\ "cancel" \in Liberties \/ q.susp = 0 \/ q.owner = None
  /\ refs' = refs + 2
  /\ Goto(c, "cancel")
  /\ "canceled" \notin dqf      \* bound: later calls change nothing
  /\ UNCHANGED <<kind, q, dqf, du, knote, pending, ds, env>>

\* Faulty variant: cancelling leaves no mark for the thread that drains the source.
SetCancelledClean(c) ==
  /\ At(c, "cancel")
  /\ dqf' = dqf \cup {"canceled"}
  /\ IF "canceled" \in dqf THEN /\ refs' = refs - 2 /\ Done(c)
                           ELSE /\ UNCHANGED refs
                                /\ Wake(c, {"consume"}, "idle")
  /\ UNCHANGED <<kind, q, du, knote, pending, ds, env>>

SetCancelled(c) ==
  /\ At(c, "cancel")
  /\ dqf' = dqf \cup {"canceled"}
  /\ IF "canceled" \in dqf THEN /\ refs' = refs - 2 /\ Done(c)
                           ELSE /\ UNCHANGED refs
                                /\ Wake(c, {"dirty", "consume"}, "idle")
  /\ UNCHANGED <<kind, q, du, knote, pending, ds, env>>

\* The last reference of the clients, to a source that is neither suspended nor
\* inactive and that nobody else uses.
XrefDispose(c) ==
  /\ env.xref /\ ~Suspended(q) /\ \A t \in Clients : At(t, "idle")
  /\ env' = [env EXCEPT !.xref = FALSE]
  /\ dqf' = dqf \cup {"released"}
  /\ Wake(c, {"dirty"}, "release")
  /\ UNCHANGED <<kind, q, du, knote, pending, ds, refs>>

Release(c) ==
  /\ At(c, "release")
  /\ refs' = refs - 1
  /\ Done(c)
  /\ UNCHANGED <<kind, q, dqf, du, knote, pending, ds, env>>

-----------------------------------------------------------------------------
(* dispatch_source_cancel_and_wait, on a source without a cancel handler    *)

BeingActivated == \E t \in Clients : act[t].pc \in {"activate", "activated"}

CancelAndWait(c) ==
  /\ At(c, "idle") /\ env.xref /\ q.susp = 0 /\ "cancel" \notin ds.handlers
  /\ ~BeingActivated
  /\ "ack" \in Liberties \/ ~env.acked
  /\ "wait" \in Liberties \/ ds.installed \/ q.inactive = "inactive"
  /\ "deleted" \notin dqf                        \* bound: otherwise it returns
  /\ env' = [env EXCEPT !.waited = "yes"]
  /\ LET wait == dqf \cap {"cancel_waiter", "needs_event"} # {} \/ kind = "muxed"
     IN /\ dqf' = dqf \cup {"canceled"} \cup (IF wait THEN {"cancel_waiter"} ELSE {})
        /\ IF wait THEN Wake(c, {"dirty"}, "waitActivate")
           ELSE act' = [act EXCEPT ![c] = [Idle EXCEPT !.pc = "waitLock", !.dqf = dqf]]
  /\ UNCHANGED <<kind, q, du, knote, pending, ds, refs>>

\* The drain lock is taken if it is free; otherwise its holder must look again,
\* unless the source had been cancelled before.
WaitLock(c) ==
  /\ At(c, "waitLock")
  /\ IF Runnable(q) /\ q.owner = None
       THEN /\ q' = [q EXCEPT !.owner = c, !.dirty = FALSE]
            /\ act' = [act EXCEPT ![c] = [Idle EXCEPT !.pc = "waitHeld"]]
       ELSE /\ q' = IF "canceled" \in act[c].dqf THEN q ELSE [q EXCEPT !.dirty = TRUE]
            /\ IF Suspended(q) THEN act' = [act EXCEPT ![c] = [Idle EXCEPT !.pc = "waitActivate"]]
                               ELSE Wake(c, {"dirty"}, "waitActivate")
  /\ UNCHANGED <<kind, dqf, du, knote, pending, ds, refs, env>>

\* With the lock held it does what the invocation does for a cancellation.
WaitHeld(c) ==
  /\ At(c, "waitHeld")
  /\ IF "deleted" \in dqf
       THEN /\ Goto(c, "waitCallout")
            /\ UNCHANGED <<kind, q, dqf, du, knote, pending, ds, refs, env>>
       ELSE RefsUnregister(c, {"ack", "probe"}, "waitCallout")

\* _dispatch_source_cancel_callout.
CancelCallout ==
  /\ ds' = [ds EXCEPT !.handlers = {}]
  /\ pending' = 0
  /\ env' = IF "cancel" \in ds.handlers /\ "canceled" \in dqf
              THEN [env EXCEPT !.cancelRuns = @ + 1] ELSE env

WaitCallout(c) ==
  /\ At(c, "waitCallout")
  /\ IF "deleted" \in dqf THEN CancelCallout ELSE UNCHANGED <<ds, pending, env>>
  /\ Wake(c, {"event", "complete"}, "waitLoop")
  /\ UNCHANGED <<kind, q, dqf, du, knote, refs>>

WaitLoop(c) ==
  /\ At(c, "waitLoop")
  /\ dqf' = IF "deleted" \in dqf THEN dqf ELSE dqf \cup {"cancel_waiter"}
  /\ IF "deleted" \in dqf THEN Done(c) /\ env' = [env EXCEPT !.waited = "returned"]
                          ELSE Goto(c, "wait") /\ UNCHANGED env
  /\ UNCHANGED <<kind, q, du, knote, pending, ds, refs>>

\* _dispatch_wait_on_address goes to sleep only on the flags that were read.
Wait(c) ==
  /\ At(c, "wait")
  /\ Goto(c, IF "cancel_waiter" \in dqf THEN "asleep" ELSE "waitLoop")
  /\ UNCHANGED <<kind, q, dqf, du, knote, pending, ds, refs, env>>

-----------------------------------------------------------------------------
(* The invocation: _dispatch_queue_class_invoke and _dispatch_source_invoke2 *)

\* _dispatch_queue_drain_try_lock by the thread the source was pushed to.
TryLock(t) ==
  /\ At(t, "idle") /\ q.enq = Queue(t)
  /\ IF Runnable(q) /\ q.owner = None
       THEN /\ q' = [q EXCEPT !.owner = t, !.dirty = FALSE]
            /\ Goto(t, "install") /\ UNCHANGED refs
       ELSE /\ q' = [q EXCEPT !.enq = "no"]
            /\ refs' = refs - 2 /\ UNCHANGED act
  /\ UNCHANGED <<kind, dqf, du, knote, pending, ds, env>>

\* The invocation ends: tq is "none" (all done), "wait" (for an event) or the
\* queue where it is to go on.
End(t, tq) ==
  act' = [act EXCEPT ![t] = [Idle EXCEPT !.tq = tq,
                               !.pc = IF tq \in {"none", "wait"} THEN "unlock" ELSE "finish"]]

Install(t) ==
  /\ At(t, "install")
  /\ IF ds.installed THEN Goto(t, "suspended") /\ UNCHANGED <<ds, du, knote>>
     ELSE IF Queue(t) # Dkq THEN End(t, Dkq) /\ UNCHANGED <<ds, du, knote>>
     ELSE \E ok \in BOOLEAN :
            /\ Register(ok)
            /\ act' = [act EXCEPT ![t].pc = IF ok THEN "suspended" ELSE "finalize",
                                  ![t].ret = "suspended"]
  /\ UNCHANGED <<kind, q, dqf, pending, refs, env>>

\* A source suspended meanwhile goes back to its target queue; otherwise the
\* registration handler is called, there.
Registration(t) ==
  /\ At(t, "suspended")
  /\ LET due == "registration" \in ds.handlers
     IN IF Suspended(q) \/ (due /\ Queue(t) # "target")
          THEN End(t, "target") /\ UNCHANGED ds
          ELSE /\ ds' = [ds EXCEPT !.handlers = @ \ {"registration"}]
               /\ Goto(t, "deleteAck")
  /\ UNCHANGED <<kind, q, dqf, du, knote, pending, refs, env>>

DeleteAck(t) ==
  /\ At(t, "deleteAck") /\ "delete" \in du
  /\ RefsUnregister(t, {"ack", "must"}, "pending")

Pending(t) ==
  /\ At(t, "pending") \/ (At(t, "deleteAck") /\ "delete" \notin du)
  /\ IF Cancelled(dqf) \/ pending = 0
       THEN act' = [act EXCEPT ![t].pc = "cancelled", ![t].dqf = dqf, ![t].starve = FALSE]
     ELSE IF Queue(t) = "target" THEN Goto(t, "latch") ELSE End(t, "target")
  /\ UNCHANGED <<kind, q, dqf, du, knote, pending, ds, refs, env>>

\* _dispatch_source_latch_and_call: the event handler gets what is pending now.
LatchAndCall(t) ==
  /\ At(t, "latch")
  /\ pending' = 0
  /\ env' = [env EXCEPT !.owed = @ - pending]
  /\ Goto(t, "handler")
  /\ UNCHANGED <<kind, q, dqf, du, knote, ds, refs>>

\* A source that triggers itself takes a round trip through its target queue.
Handled(t) ==
  /\ At(t, "handler")
  /\ ds' = [ds EXCEPT !.latched = TRUE]
  /\ act' = [act EXCEPT ![t].pc = "cancelled", ![t].dqf = dqf,
                        ![t].starve = dqf \cap {"canceled", "deleted"} = {}]
  /\ UNCHANGED <<kind, q, dqf, du, knote, pending, refs, env>>

\* What comes next depends on the flags as they were read after the handler.
MustUnregister(t) == Cancelled(act[t].dqf) /\ "deleted" \notin act[t].dqf

UnregisterCancelled(t) ==
  /\ At(t, "cancelled") /\ MustUnregister(t)
  /\ IF Queue(t) # Dkq
       THEN /\ End(t, Dkq)
            /\ UNCHANGED <<kind, q, dqf, du, knote, pending, ds, refs, env>>
       ELSE RefsUnregister(t, {"ack"} \cup (IF "needs_event" \in act[t].dqf
                                              THEN {} ELSE {"probe"}), "unregistered")

Unregistered(t) ==
  /\ At(t, "unregistered")
  /\ IF "deleted" \in dqf THEN act' = [act EXCEPT ![t].pc = "cancelled", ![t].dqf = dqf]
                          ELSE End(t, "wait")
  /\ UNCHANGED <<kind, q, dqf, du, knote, pending, ds, refs, env>>

\* What is left of a cancelled source is its cancel handler.
Callout(t) ==
  /\ At(t, "cancelled") /\ Cancelled(act[t].dqf) /\ "deleted" \in act[t].dqf
  /\ IF Queue(t) # "target" /\ ds.handlers # {}
       THEN End(t, "target") /\ UNCHANGED <<ds, pending, env>>
       ELSE End(t, "none") /\ CancelCallout
  /\ UNCHANGED <<kind, q, dqf, du, knote, refs>>

\* A direct source is resumed only when it has fired since it was last armed.
Latched == kind # "direct" \/ ds.latched

Rearm(t) ==
  /\ At(t, "cancelled") /\ ~Cancelled(act[t].dqf)
  /\ IF ~NeedsRearm THEN End(t, "none") /\ UNCHANGED <<du, knote, ds>>
     ELSE IF Suspended(q) THEN End(t, "target") /\ UNCHANGED <<du, knote, ds>>
     ELSE /\ IF Latched THEN /\ ds' = [ds EXCEPT !.latched = FALSE]
                             /\ du' = du \cup {"armed"}
                             /\ knote' = [knote EXCEPT !.state = "enabled"]
                        ELSE UNCHANGED <<du, knote, ds>>
          /\ End(t, IF act[t].starve THEN "target" ELSE "none")
  /\ UNCHANGED <<kind, q, dqf, pending, refs, env>>

\* _dispatch_queue_drain_try_unlock: a dirty source is looked at again, at once by
\* a worker of a root queue, through the queue it is drained from otherwise.
TryUnlock(t) ==
  /\ At(t, "unlock")
  /\ IF q.dirty /\ ~Suspended(q)
       THEN /\ q' = [q EXCEPT !.dirty = FALSE]
            /\ \/ t = Worker /\ act' = [act EXCEPT ![t] = [Idle EXCEPT !.pc = "install"]]
               \/ End(t, Queue(t))
            /\ UNCHANGED refs
       ELSE /\ q' = [q EXCEPT !.owner = None, !.enq = "no",
                              !.dirty = @ \/ (~Suspended(q) /\ act[t].tq = "wait")]
            /\ refs' = refs - 2
            /\ Done(t)
  /\ UNCHANGED <<kind, dqf, du, knote, pending, ds, env>>

\* _dispatch_queue_invoke_finish: enqueued again where it is to go on.
Finish(t) ==
  /\ At(t, "finish")
  /\ q' = [q EXCEPT !.owner = None, !.dirty = TRUE,
                    !.enq = IF Suspended(q) THEN "no" ELSE act[t].tq]
  /\ refs' = IF Suspended(q) THEN refs - 2 ELSE refs
  /\ Done(t)
  /\ UNCHANGED <<kind, dqf, du, knote, pending, ds, env>>

-----------------------------------------------------------------------------
Invoke(t) ==
  \/ TryLock(t) \/ Install(t) \/ Registration(t) \/ DeleteAck(t) \/ Pending(t)
  \/ LatchAndCall(t) \/ Handled(t) \/ UnregisterCancelled(t) \/ Unregistered(t)
  \/ Callout(t) \/ Rearm(t) \/ TryUnlock(t) \/ Finish(t)

Deliverers == Deliver \/ Merge \/ MergeFlags \/ MergeEvt \/ Merged

Inside(t) == Wakeup(t) \/ Enqueue(t) \/ BarrierComplete(t) \/ Finalize(t) \/ Deferred(t)

Call(c) ==
  \/ MergeData(c) \/ Activate(c) \/ Suspend(c) \/ Resume(c) \/ Cancel(c)
  \/ XrefDispose(c) \/ CancelAndWait(c)

InCall(c) ==
  \/ Add(c) \/ SourceActivate(c) \/ ActivationDone(c) \/ SetCancelled(c) \/ Release(c)
  \/ WaitLock(c) \/ WaitHeld(c) \/ WaitCallout(c) \/ WaitLoop(c) \/ Wait(c)
  \/ At(c, "waitActivate") /\ Activate(c)

SourceNext ==
  \/ \E c \in Clients : Call(c) \/ InCall(c)
  \/ \E t \in Actors : Inside(t)
  \/ \E t \in {Worker, Manager} : Invoke(t)
  \/ Fire \/ Deliverers

SourceSpec == SourceInit /\ [][SourceNext]_sourceVars

-----------------------------------------------------------------------------
(* Properties                                                               *)

\* The internal errors the code checks for never happen: a source is finalized
\* once, a deletion that must succeed does, the kernel knows the knote that is
\* deleted, and only one thread at a time writes the state of the unote.
NeverCrashes == env.crash = "no"

\* The cancel handler runs once, when neither the kernel nor a thread that
\* delivers knows the source any more, and no event handler runs afterwards.
CancelIsLast ==
  /\ env.cancelRuns <= 1
  /\ env.cancelRuns = 1 =>
       /\ du = {} /\ knote.state = "none"
       /\ \A t \in Actors : act[t].pc \notin {"latch", "handler", "deliver", "mergeFlags"}

AllIdle == q.enq = "no" /\ \A t \in Actors : At(t, "idle")

\* References are neither lost nor taken twice: while a thread is in a call, or
\* the source on a queue, it exists, and in the end it is disposed of.
SourceIsReferenced ==
  /\ refs >= 0
  /\ refs = 0 => AllIdle /\ ~env.xref
  /\ AllIdle /\ ~env.xref => refs = 0

\* What was merged is handed to the event handler, once, or still pending when
\* the source is cancelled or suspended: nothing gets lost between the delivery
\* and the exchange in the handler, nor is a source left unarmed that wants events.
NothingIsLost ==
  /\ pending <= env.owed
  /\ AllIdle /\ ~Suspended(q) /\ ~Cancelled(dqf) /\ "deleted" \notin dqf =>
       /\ env.owed = 0
       /\ "armed" \in du /\ (kind # "data" => knote.state = "enabled")

Quiet == q.enq = "no" /\ \A t \in Actors : act[t].pc \in {"idle", "asleep"}

\* A cancelled source that is neither suspended nor inactive gets unregistered, its
\* handlers are given up, and nobody sleeps for that any more: "The cancellation
\* handler (if specified) will be submitted to the source's target queue in response
\* to a call to dispatch_source_cancel()" (dispatch/source.h:444).
CancelIsNotForgotten ==
  Quiet /\ ~Suspended(q) /\ "canceled" \in dqf =>
    "deleted" \in dqf /\ ds.handlers = {} /\ AllIdle

\* "When this function returns, [...] the specified source has been unregistered and
\* it is safe to reclaim any system resource" (private/source_private.h:543).
UnregisteredForGood == env.waited = "returned" => du = {} /\ knote.state = "none"

\* All of it: what goes wrong with a source that is cancelled, suspended or released
\* while its events are delivered.
SourceIsSound ==
  NeverCrashes /\ CancelIsLast /\ SourceIsReferenced /\ NothingIsLost
  /\ CancelIsNotForgotten /\ UnregisteredForGood
=============================================================================
