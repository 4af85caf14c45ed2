------------------------------- MODULE Suspend -------------------------------
(* dispatch_suspend, dispatch_resume, dispatch_activate and                  *)
(* dispatch_set_target_queue on a serial lane or a source (queue.c,          *)
(* inline_internal.h): the suspend count, of which half at a time spills     *)
(* into a side counter under a lock of its own, the states of an activation, *)
(* and the target queue that a drain, a wakeup and a retargeting all read.   *)
(*                                                                           *)
(* One action is one atomic access.  The lock word keeps what a serial lane  *)
(* that no sync waiter uses needs of it: a locked lane has its full width    *)
(* in use.  What a kernel event asks of a source is an item like another.    *)
(* Each target queue is drained by one thread that bears its name.           *)
EXTENDS Integers, Sequences, FiniteSets, SequencesExt, FiniteSetsExt

CONSTANTS
  Clients,   \* threads that call the API
  Targets,   \* queues the lane can target
  Half,      \* DISPATCH_QUEUE_SUSPEND_HALF; the count in the lock word is below 2 * Half
  Null,
  Plans      \* a sequence of what is asked of a lane: whether it is a source, whether it is
             \* created inactive, its target, and the calls of each client

VARIABLES plan, lane, tokens, at

suspendVars == <<plan, lane, tokens, at>>

Threads == Clients \cup Targets
Plan == Plans[plan]
Source == Plan.source

Idle == [pc |-> "idle", call |-> 0, consume |-> FALSE, dirty |-> FALSE, clear |-> FALSE,
         full |-> FALSE, target |-> FALSE, to |-> Null, from |-> Null, item |-> Null]

\* A lane that is created active holds its target; an inactive one is retained by two
\* more until it is activated, and a source by one until it is deleted.
SuspendInit ==
  /\ plan \in DOMAIN Plans
  /\ lane = [sc |-> 0, side |-> FALSE, life |-> IF Plan.inactive THEN "inactive" ELSE "active",
             owner |-> Null, enq |-> FALSE, dirty |-> FALSE,
             count |-> 0, lock |-> Null,
             items |-> <<>>, tq |-> Plan.target, holds |-> <<Plan.target>>,
             refs |-> 1 + (IF Plan.inactive THEN 2 ELSE 0) + (IF Source THEN 1 ELSE 0),
             released |-> FALSE, crash |-> "no",
             owed |-> 0, more |-> 0, activated |-> 0, early |-> FALSE,
             set |-> 0, astray |-> FALSE]
  /\ tokens = [q \in Targets |-> 0]
  /\ at = [t \in Threads |-> Idle]

-----------------------------------------------------------------------------
(* The lock word. *)

Most == 2 * Half - 1

IsInactive(l) == l.life = "inactive"
Suspended(l) == l.sc > 0 \/ l.side \/ l.life # "active"
Runnable(l) == ~Suspended(l) /\ l.owner = Null

\* The state of a lane that nobody uses.
IsInitial(l) == l.sc = 0 /\ ~l.side /\ l.life = "active" /\ l.owner = Null /\ ~l.enq /\ ~l.dirty

\* DISPATCH_QUEUE_DRAIN_PRESERVED_BITS_MASK and DISPATCH_QUEUE_DRAIN_UNLOCK_MASK.
Locked(l, t) == [l EXCEPT !.owner = t, !.dirty = FALSE]
Unlocked(l) == [l EXCEPT !.owner = Null]

Crashed(l, if, what) == IF if THEN [l EXCEPT !.crash = what] ELSE l
Retain(l, n) == [l EXCEPT !.refs = @ + n]

\* The last release disposes of the lane, which must be at rest.
Release(l, n) ==
  LET new == [l EXCEPT !.refs = @ - n]
  IN Crashed(new, new.refs < 0 \/ (new.refs = 0 /\ (new.items # <<>> \/ Suspended(new) \/ new.owner # Null \/ new.enq)),
             "Release of a queue in use")

-----------------------------------------------------------------------------
(* Steps. *)

Call(t) == Plan.calls[t][at[t].call + 1]

\* Thread t goes from one program counter to another, with the rest of its frame.
Go(t, from, to) == at[t].pc = from /\ at' = [at EXCEPT ![t].pc = to]
GoWith(t, from, frame) == at[t].pc = from /\ at' = [at EXCEPT ![t] = frame]
Resting(t) == [Idle EXCEPT !.call = at[t].call + (IF t \in Clients THEN 1 ELSE 0)]
Done(t, from) == GoWith(t, from, Resting(t))

Frame(t, pc) == [at[t] EXCEPT !.pc = pc]

Returned(c) == at[c].pc = "idle" /\ at[c].call = Len(Plan.calls[c])

\* A client makes its next call: an event comes once the source is installed, and the
\* lane is released when the others no longer use it.
Begin(t) ==
  /\ at[t].pc = "idle" /\ at[t].call < Len(Plan.calls[t])
  /\ Call(t).op = "drop" => \A c \in Clients \ {t} : Returned(c)
  /\ Call(t).op = "event" => lane.activated > 0
  /\ at' = [at EXCEPT ![t].pc = Call(t).op]
  /\ UNCHANGED <<plan, lane, tokens>>

-----------------------------------------------------------------------------
(* dispatch_suspend: counts in the lock word, or moves half of what is there to the *)
(* side count. *)

SuspendLane(t) ==
  /\ UNCHANGED <<plan, tokens>>
  /\ \/ /\ lane.sc < Most
        /\ lane' = [lane EXCEPT !.sc = @ + 1, !.owed = @ + 1, !.more = IF Suspended(lane) THEN @ ELSE 0]
        /\ IF Suspended(lane) THEN Done(t, "suspend") ELSE Go(t, "suspend", "suspended")
     \/ /\ lane.sc = Most
        /\ Go(t, "suspend", "suspend_slow") /\ UNCHANGED lane

\* The lane lives until it is resumed.
SuspendRetain(t) == Done(t, "suspended") /\ lane' = Retain(lane, 2) /\ UNCHANGED <<plan, tokens>>

SideLock(t) ==
  /\ lane.lock = Null
  /\ lane' = [lane EXCEPT !.lock = t]
  /\ \/ Go(t, "suspend_slow", "transfer") \/ Go(t, "resume_slow", "transfer_back")
  /\ UNCHANGED <<plan, tokens>>

\* What is moved leaves one suspend more than there was, unless the count is too low by now.
Transfer(t) ==
  /\ \/ /\ lane.sc >= Half - 1
        /\ lane' = [lane EXCEPT !.sc = @ - (Half - 1), !.side = TRUE, !.owed = @ + 1]
        /\ Go(t, "transfer", "side_add")
     \/ /\ lane.sc < Half - 1
        /\ lane' = [lane EXCEPT !.lock = Null]
        /\ Go(t, "transfer", "suspend")
  /\ UNCHANGED <<plan, tokens>>

SideAdd(t) ==
  /\ Done(t, "side_add")
  /\ lane' = [lane EXCEPT !.count = @ + Half, !.lock = Null]
  /\ UNCHANGED <<plan, tokens>>


\* What a resume takes back of the side count, but the one it consumes.
Back(l) == [l EXCEPT !.sc = @ + Half - 1, !.side = l.count # Half, !.owed = @ - 1]

TransferBack(t) ==
  /\ \/ /\ lane.count > 0 /\ lane.sc + Half - 1 <= Most
        /\ lane' = Back(lane)
        /\ Go(t, "transfer_back", "side_sub")
     \/ /\ lane.count = 0 \/ lane.sc + Half - 1 > Most
        /\ lane' = [lane EXCEPT !.lock = Null]
        /\ Go(t, "transfer_back", "resume")
  /\ UNCHANGED <<plan, tokens>>

SideSub(t) ==
  /\ Done(t, "side_sub")
  /\ lane' = [lane EXCEPT !.count = @ - Half, !.lock = Null]
  /\ UNCHANGED <<plan, tokens>>

-----------------------------------------------------------------------------
(* dispatch_activate and dispatch_resume. *)

Activate(t) ==
  /\ UNCHANGED <<plan, tokens>>
  /\ \/ /\ ~IsInactive(lane) /\ Done(t, "activate") /\ UNCHANGED lane
     \/ /\ IsInactive(lane) /\ (lane.sc > 0 \/ lane.side)
        /\ Done(t, "activate") /\ lane' = [lane EXCEPT !.life = "activated"]
     \/ /\ IsInactive(lane) /\ lane.sc = 0 /\ ~lane.side
        /\ Go(t, "activate", "finalize") /\ lane' = [lane EXCEPT !.life = "activating"]

\* dq_activate: the priority is normalized and a source is installed.
Finalize(t) ==
  /\ Go(t, "finalize", "activation_done")
  /\ lane' = [lane EXCEPT !.activated = @ + 1]
  /\ UNCHANGED <<plan, tokens>>

\* What remains to be done when the lane is no longer suspended and was not locked for the
\* thread: wake it up, for the references of the suspended state.
WakeFrame(t, full) == [Idle EXCEPT !.pc = "probe", !.call = at[t].call, !.consume = TRUE, !.full = full]
ReleaseFrame(t) == [Idle EXCEPT !.pc = "release", !.call = at[t].call]

ActivationDone(t) ==
  LET new == [lane EXCEPT !.life = "active"]
  IN /\ \/ /\ lane.life = "active"
           /\ UNCHANGED lane /\ GoWith(t, "activation_done", ReleaseFrame(t))
        \/ /\ lane.life = "activating" /\ Suspended(new)
           /\ lane' = [new EXCEPT !.dirty = TRUE] /\ Done(t, "activation_done")
        \/ /\ lane.life = "activating" /\ ~Suspended(new) /\ ~Runnable(new)
           /\ lane' = [new EXCEPT !.dirty = TRUE] /\ GoWith(t, "activation_done", ReleaseFrame(t))
        \/ /\ lane.life = "activating" /\ Runnable(new)
           /\ lane' = new /\ GoWith(t, "activation_done", WakeFrame(t, FALSE))
     /\ UNCHANGED <<plan, tokens>>

\* One suspend less, in the lock word.
Less(l) == [l EXCEPT !.sc = @ - 1, !.owed = @ - 1]

\* Whether the last suspend is gone.
IsResumed(l) == ~Suspended(l)

Resume(t) ==
  LET new == Less(lane)
  IN /\ \/ /\ Source /\ IsInactive(lane) /\ lane.sc = 0 /\ ~lane.side
           /\ lane' = [lane EXCEPT !.life = "activating"] /\ Go(t, "resume", "finalize")
        \/ /\ lane.sc = 0 /\ lane.side
           /\ UNCHANGED lane /\ Go(t, "resume", "resume_slow")
        \/ /\ lane.sc = 0 /\ ~lane.side /\ ~(Source /\ IsInactive(lane))
           /\ lane' = Crashed(lane, TRUE, "Over-resume of an object") /\ Done(t, "resume")
        \/ /\ lane.sc > 0 /\ new.life = "activated" /\ new.sc = 0 /\ ~new.side
           /\ lane' = [new EXCEPT !.life = "activating"] /\ Go(t, "resume", "finalize")
        \/ /\ lane.sc > 0 /\ ~IsResumed(new) /\ ~(new.life = "activated" /\ new.sc = 0 /\ ~new.side)
           /\ lane' = [new EXCEPT !.dirty = TRUE] /\ Done(t, "resume")
        \/ /\ lane.sc > 0 /\ IsResumed(new) /\ new.owner # Null
           /\ lane' = [new EXCEPT !.dirty = TRUE] /\ GoWith(t, "resume", ReleaseFrame(t))
        \/ /\ lane.sc > 0 /\ IsResumed(new) /\ new.owner = Null
           /\ lane' = IF Source THEN new ELSE Locked(new, t)
           /\ GoWith(t, "resume", WakeFrame(t, ~Source))
     /\ UNCHANGED <<plan, tokens>>

-----------------------------------------------------------------------------
(* Pushes and wakeups. *)

\* The first item of an empty list retains the lane for the wakeup.
Push(t, item, from) ==
  LET new == [lane EXCEPT !.items = Append(@, item)]
  IN IF lane.items = <<>>
     THEN /\ lane' = Retain(new, 2)
          /\ GoWith(t, from, [WakeFrame(t, FALSE) EXCEPT !.dirty = TRUE])
     ELSE lane' = new /\ Done(t, from)

\* "after" is the number of retargetings that have returned.
Work(t) == [op |-> "work", to |-> Null, after |-> lane.set]

Async(t) == at[t].pc = "async" /\ Push(t, Work(t), "async") /\ UNCHANGED <<plan, tokens>>

\* An event is merged into what the source has to handle; the wakeup also ends an
\* activation that is not done yet.
Event(t) ==
  /\ GoWith(t, "event", [WakeFrame(t, FALSE) EXCEPT !.dirty = TRUE, !.clear = TRUE])
  /\ lane' = Retain([lane EXCEPT !.items = Append(@, Work(t))], 2)
  /\ UNCHANGED <<plan, tokens>>

\* The lane is woken up for its target when it has items; a thread that has it locked
\* unlocks it instead.
Probe(t) ==
  LET f == at[t]
      target == lane.items # <<>> /\ (f.full => ~Suspended(lane))
      pc == IF f.full THEN "complete" ELSE IF target THEN "wakeup" ELSE IF f.consume THEN "release" ELSE "done"
  IN /\ f.pc = "probe"
     /\ at' = [at EXCEPT ![t].pc = pc, ![t].target = target, ![t].consume = @ \/ target]
     /\ lane' = Retain(lane, IF target /\ ~f.consume THEN 2 ELSE 0)
     /\ UNCHANGED <<plan, tokens>>

\* DISPATCH_WAKEUP_CLEAR_ACTIVATING.
Woken(l, f) == IF f.clear /\ l.life = "activating" THEN [l EXCEPT !.life = "active"] ELSE l

Wakeup(t) ==
  LET f == at[t]
      new == Woken(lane, f)
      enqueue == ~Suspended(new) /\ ~lane.enq
  IN /\ lane' = [new EXCEPT !.enq = @ \/ enqueue, !.dirty = @ \/ f.dirty]
     /\ Go(t, "wakeup", IF enqueue THEN "read target" ELSE "release")
     /\ UNCHANGED <<plan, tokens>>

ReadTarget(t) ==
  /\ GoWith(t, "read target", [Frame(t, "enqueue") EXCEPT !.to = lane.tq])
  /\ UNCHANGED <<plan, lane, tokens>>

Enqueue(t) ==
  /\ Done(t, "enqueue")
  /\ tokens' = [tokens EXCEPT ![at[t].to] = @ + 1]
  /\ UNCHANGED <<plan, lane>>

ReleaseTwo(t) == Done(t, "release") /\ lane' = Release(lane, 2) /\ UNCHANGED <<plan, tokens>>
Finish(t) == Done(t, "done") /\ UNCHANGED <<plan, lane, tokens>>

\* _dispatch_lane_class_barrier_complete.
Complete(t) ==
  LET f == at[t]
      free == Unlocked(lane)
      end == IF f.consume THEN "release" ELSE "done"
  IN /\ \/ /\ Suspended(lane)
           /\ lane' = free /\ Go(t, "complete", end)
        \/ /\ ~Suspended(lane) /\ f.target
           /\ lane' = [free EXCEPT !.enq = TRUE]
           /\ GoWith(t, "complete", [Frame(t, IF lane.enq THEN end ELSE "enqueue") EXCEPT !.to = lane.tq])
        \/ /\ ~Suspended(lane) /\ ~f.target /\ lane.dirty
           /\ lane' = [lane EXCEPT !.dirty = FALSE] /\ Go(t, "complete", "probe")
        \/ /\ ~Suspended(lane) /\ ~f.target /\ ~lane.dirty
           /\ lane' = free /\ Go(t, "complete", end)
     /\ UNCHANGED <<plan, tokens>>

-----------------------------------------------------------------------------
(* dispatch_set_target_queue. *)

Holds(l, q) == [l EXCEPT !.holds = Append(@, q)]
LetsGo(l, q) == [l EXCEPT !.holds = RemoveFirst(@, q)]

\* The word is one larger in its count, whatever the count was.
TryInactive(l) == [l EXCEPT !.sc = (@ + 1) % (2 * Half), !.owed = @ + 1]

\* An inactive lane is suspended, so that it is not activated meanwhile.  An active one is
\* locked and suspended when nobody uses it, else an item changes its target.
SetTarget(t) ==
  LET to == Call(t).to
  IN /\ at[t].pc = "target"
     /\ \/ /\ IsInactive(lane)
           /\ lane' = Crashed(TryInactive(Holds(lane, to)), lane.side, "Too many calls to dispatch_suspend()")
           /\ Go(t, "target", "set inactive")
        \/ /\ ~IsInactive(lane)
           /\ lane' = Holds(lane, to) /\ Go(t, "target", "try")
     /\ UNCHANGED <<plan, tokens>>

NewTarget(l, to) == LetsGo([l EXCEPT !.tq = to], l.tq)

SetInactive(t) ==
  /\ Go(t, "set inactive", "resume")
  /\ lane' = [NewTarget(lane, Call(t).to) EXCEPT !.set = @ + 1]
  /\ UNCHANGED <<plan, tokens>>

TrySync(t) ==
  /\ at[t].pc = "try"
  /\ UNCHANGED <<plan, tokens>>
  /\ \/ /\ IsInitial(lane)
        /\ lane' = [Locked(lane, t) EXCEPT !.sc = 1, !.owed = @ + 1]
        /\ Go(t, "try", "retain")
     \/ /\ ~IsInitial(lane)
        /\ Push(t, [op |-> "target", to |-> Call(t).to, after |-> lane.set], "try")

TrySyncRetain(t) == Go(t, "retain", "set") /\ lane' = Retain(lane, 2) /\ UNCHANGED <<plan, tokens>>

\* The target changes under the side lock.
LegacySetTarget(t) ==
  /\ lane.lock = Null
  /\ Go(t, "set", "unsuspend")
  /\ lane' = NewTarget(lane, Call(t).to)
  /\ UNCHANGED <<plan, tokens>>

\* The count is one less, whatever it was.
Unsuspend(t) ==
  LET new == [lane EXCEPT !.sc = (@ - 1) % (2 * Half), !.owed = @ - 1, !.set = @ + 1]
  IN /\ lane' = new
     /\ GoWith(t, "unsuspend", [WakeFrame(t, TRUE) EXCEPT !.consume = ~Suspended(new)])
     /\ UNCHANGED <<plan, tokens>>

-----------------------------------------------------------------------------
(* The drain of the lane by the thread of a target queue. *)

TryLock(w) ==
  LET free == Runnable(lane)
  IN /\ tokens[w] > 0
     /\ tokens' = [tokens EXCEPT ![w] = @ - 1]
     /\ lane' = IF free THEN Locked(lane, w) ELSE [lane EXCEPT !.enq = FALSE]
     /\ Go(w, "idle", IF free THEN "invoke" ELSE "release")
     /\ UNCHANGED plan

\* _dispatch_lane_invoke2: the lane goes on to its target when it has another by now.
Invoke(w) ==
  /\ GoWith(w, "invoke", [Frame(w, IF lane.tq # w THEN "invoke finish" ELSE IF lane.items = <<>> THEN "unlock" ELSE "check")
                          EXCEPT !.to = lane.tq])
  /\ UNCHANGED <<plan, lane, tokens>>

\* A drain stops at a suspended lane and at one that has another target.
MayRun(l, w) == ~Suspended(l) /\ l.tq = w

Check(w) ==
  /\ GoWith(w, "check", IF MayRun(lane, w) THEN Frame(w, "pop")
                        ELSE [Frame(w, "invoke finish") EXCEPT !.to = lane.tq])
  /\ UNCHANGED <<plan, lane, tokens>>

\* The targets the lane had after n retargetings, and has had since.
TargetsSince(n) ==
  LET calls == [c \in Clients |-> SelectSeq(Plan.calls[c], LAMBDA k : k.op = "target")]
      who == CHOOSE c \in Clients : \A o \in Clients : Len(calls[c]) >= Len(calls[o])
  IN {IF i = 0 THEN Plan.target ELSE calls[who][i].to : i \in n..Len(calls[who])}

\* An item starts to run: "more" counts those that do while the lane is suspended,
\* "astray" and "early" remember one that runs on a target the lane had before it was
\* pushed, or before the lane is activated.
Pop(w) ==
  LET item == Head(lane.items)
  IN /\ at[w].pc = "pop"
     /\ lane' = [lane EXCEPT !.items = Tail(@), !.more = IF lane.owed > 0 THEN @ + 1 ELSE 0,
                             !.early = @ \/ (Plan.inactive /\ lane.activated = 0),
                             !.astray = @ \/ w \notin TargetsSince(item.after)]
     /\ GoWith(w, "pop", [Frame(w, IF item.op = "target" THEN "set item" ELSE "ran") EXCEPT !.item = item])
     /\ UNCHANGED <<plan, tokens>>

SetItem(w) ==
  /\ lane.lock = Null
  /\ Go(w, "set item", "ran")
  /\ lane' = [NewTarget(lane, at[w].item.to) EXCEPT !.set = @ + 1]
  /\ UNCHANGED <<plan, tokens>>

Ran(w) ==
  /\ GoWith(w, "ran", [Frame(w, IF lane.items = <<>> THEN "unlock" ELSE "check") EXCEPT !.item = Null])
  /\ UNCHANGED <<plan, lane, tokens>>

\* _dispatch_queue_drain_try_unlock: something was pushed if the lane is dirty.
TryUnlock(w) ==
  /\ UNCHANGED <<plan, tokens>>
  /\ \/ /\ ~Suspended(lane) /\ lane.dirty
        /\ lane' = [lane EXCEPT !.dirty = FALSE] /\ Go(w, "unlock", "invoke")
     \/ /\ Suspended(lane) \/ ~lane.dirty
        /\ lane' = [Unlocked(lane) EXCEPT !.enq = FALSE] /\ Go(w, "unlock", "release")

\* _dispatch_queue_invoke_finish: the lane is enqueued again unless it is suspended.
InvokeFinish(w) ==
  LET again == ~Suspended(lane)
  IN /\ lane' = [Unlocked(lane) EXCEPT !.enq = again, !.dirty = TRUE]
     /\ Go(w, "invoke finish", IF again THEN "enqueue" ELSE "release")
     /\ UNCHANGED <<plan, tokens>>

-----------------------------------------------------------------------------
(* dispatch_release. *)

XrefDispose(t) ==
  /\ Done(t, "drop")
  /\ lane' = [Crashed(Release(lane, 1), Suspended(lane), "Release of a suspended object") EXCEPT !.released = TRUE]
  /\ UNCHANGED <<plan, tokens>>

SuspendNext ==
  \/ \E t \in Clients :
       \/ Begin(t) \/ SuspendLane(t) \/ SuspendRetain(t) \/ SideLock(t) \/ Transfer(t) \/ SideAdd(t)
       \/ TransferBack(t) \/ SideSub(t) \/ Activate(t) \/ Finalize(t) \/ ActivationDone(t) \/ Resume(t)
       \/ Async(t) \/ Event(t) \/ SetTarget(t) \/ SetInactive(t)
       \/ TrySync(t) \/ TrySyncRetain(t) \/ LegacySetTarget(t) \/ Unsuspend(t) \/ XrefDispose(t)
  \/ \E t \in Threads :
       Probe(t) \/ Wakeup(t) \/ ReadTarget(t) \/ Enqueue(t) \/ ReleaseTwo(t) \/ Finish(t) \/ Complete(t)
  \/ \E w \in Targets :
       \/ TryLock(w) \/ Invoke(w) \/ Check(w) \/ Pop(w) \/ SetItem(w) \/ Ran(w) \/ TryUnlock(w) \/ InvokeFinish(w)

SuspendSpec == SuspendInit /\ [][SuspendNext]_suspendVars

-----------------------------------------------------------------------------
(* Properties. *)

\* Between transfers the two counts together are the suspends that are not resumed, and
\* the lock word tells whether there is a side count (queue.c, _dispatch_lane_suspend_slow).
SuspendsAreBalanced ==
  lane.lock = Null =>
    /\ lane.sc + lane.count = lane.owed
    /\ lane.side <=> lane.count > 0

Finished == (\A c \in Clients : Returned(c)) /\ \A q \in Targets : at[q].pc = "idle"

\* When nothing is left to do, a lane that is not suspended has run its items; it is
\* referenced once for its creator, once by a source that is not deleted and twice while
\* it is suspended, and holds its target (queue.c, "extend the queue life").
SuspendAtRest ==
  Finished /\ (\A q \in Targets : tokens[q] = 0) =>
    /\ Suspended(lane) \/ lane.items = <<>>
    /\ lane.owner = Null /\ ~lane.enq
    /\ lane.refs = (IF lane.released THEN 0 ELSE 1) + (IF Source THEN 1 ELSE 0) + (IF Suspended(lane) THEN 2 ELSE 0)
    /\ Len(lane.holds) = 1 + Cardinality({i \in DOMAIN lane.items : lane.items[i].op = "target"})
    /\ lane.tq \in ToSet(lane.holds)

\* The references of the creator, and of a source that is not deleted, are theirs to
\* release (queue.c, "We still need to consume the internal refcounts").
CreatorKeepsItsReference == lane.refs >= (IF lane.released THEN 0 ELSE 1) + (IF Source THEN 1 ELSE 0)

\* Legal calls do not crash; an item that is starting is all that runs of a lane once it
\* is suspended (dispatch/object.h); nothing runs before the activation; an item runs on a
\* target that the lane has had since the push; an activation is made once.
SuspendIsSound ==
  /\ lane.crash = "no"
  /\ SuspendsAreBalanced
  /\ SuspendAtRest
  /\ lane.more <= 1 /\ ~lane.early /\ ~lane.astray /\ lane.activated <= 1
=============================================================================
