------------------------------ MODULE Workloop ------------------------------
(* A workloop at the bottom of a hierarchy (queue.c, inline_internal.h) and  *)
(* the kernel object behind it (event_kevent.c): a queue with a list of      *)
(* items per QoS, whose lock word is also read by the kernel, which keeps a  *)
(* thread request for it, the owner it knows of, and a note for every thread *)
(* that waits for the lock or was handed it.                                 *)
(*                                                                           *)
(* Clients push items (async), take the lock for an item of a lane of theirs *)
(* that targets the workloop (sync), or wait for an item wherever it runs    *)
(* (dispatch_async_and_wait).  The servicer is the thread the kernel binds   *)
(* to the workloop.  The kernel drops an update whose copy of the lock word  *)
(* is stale, which is what keeps the two sides together.  The workloop is    *)
(* active and is not retargeted; a push on a list is one step.               *)
EXTENDS Integers, Sequences, FiniteSets, SequencesExt, FiniteSetsExt

CONSTANTS
  Clients, Servicer, Null,
  Qos,      \* the largest QoS: buckets 1 to Qos
  Plans     \* a sequence of what is asked of a workloop: for each item who submits it
            \* (Servicer for an item a kernel event brings), how and in which bucket

VARIABLES plan, wl, kq, at

workloopVars == <<plan, wl, kq, at>>

Threads == Clients \cup {Servicer}
Buckets == 1..Qos

Items == 1..Len(Plans[plan])
By(i) == Plans[plan][i].by
How(i) == Plans[plan][i].how
Bucket(i) == Plans[plan][i].qos

Unlocked == [owner |-> Null, unc |-> FALSE, wait |-> FALSE, enq |-> FALSE, dirty |-> FALSE, qos |-> 0]

Idle == [pc |-> "idle", item |-> 0, kevents |-> <<>>, then |-> "idle", drop |-> 0, more |-> FALSE,
         bucket |-> 0, target |-> FALSE, cancel |-> FALSE, ran |-> FALSE, after |-> "idle",
         hand |-> 0, back |-> "idle", todo |-> {}, error |-> Unlocked, delete |-> FALSE, update |-> FALSE, servicing |-> FALSE]

WorkloopInit ==
  /\ plan \in DOMAIN Plans
  /\ wl = [state |-> Unlocked, items |-> [q \in Buckets |-> <<>>], line |-> [q \in Buckets |-> <<>>],
           refs |-> 0, asked |-> {}, crash |-> "no", swapped |-> FALSE, left |-> FALSE]
  /\ kq = [request |-> FALSE, owner |-> Null, bound |-> FALSE,
           events |-> {i \in Items : By(i) = Servicer}, note |-> [t \in Threads |-> "none"]]
  /\ at = [t \in Threads |-> IF t = Servicer THEN [Idle EXCEPT !.pc = "parked"] ELSE Idle]

-----------------------------------------------------------------------------
(* The lock word, the lists and the references. *)

Crash(w, what, if) == IF if THEN [w EXCEPT !.crash = what] ELSE w
Retain(w, n) == [w EXCEPT !.refs = @ + n]
Release(w, n) == [Crash(w, "Over-release", w.refs < n) EXCEPT !.refs = @ - n]

\* _dq_state_merge_qos.
Merged(s, q) == [s EXCEPT !.qos = Max({@, q})]

\* Faulty variant: a thread request does not count.
NeedsOnlyForWaiters(s) == s.unc /\ s.wait

\* _dq_state_needs_ensure_ownership: the kernel may know of an owner that took the
\* lock without telling it.
NeedsEnsureOwnership(s) == s.unc /\ (s.wait \/ s.enq)

\* DISPATCH_QUEUE_DRAIN_UNLOCK_MASK: what goes with the owner.
Without(s) == [s EXCEPT !.owner = Null, !.unc = FALSE, !.wait = FALSE]

\* The lock is taken: DISPATCH_QUEUE_DRAIN_PRESERVED_BITS_MASK is what stays.
LockedBy(s, t, unc) == [s EXCEPT !.owner = t, !.unc = unc, !.wait = FALSE, !.dirty = FALSE]

Nonempty(w) == {q \in Buckets : w.items[q] # <<>>}

\* os_mpsc_push: the item goes to the end of the list of its bucket.
Pushed(w, i) == [w EXCEPT !.items[Bucket(i)] = Append(@, i), !.line[Bucket(i)] = Append(@, i)]

Popped(w, q) == [w EXCEPT !.items[q] = Tail(@)]

\* An item that went through a list starts to run; "swapped" remembers that it was
\* not its turn in its bucket.
Started(w, i) ==
  [w EXCEPT !.swapped = @ \/ w.line[Bucket(i)] = <<>> \/ Head(w.line[Bucket(i)]) # i,
            !.line[Bucket(i)] = SelectSeq(@, LAMBDA j : j # i)]

-----------------------------------------------------------------------------
(* kevent calls: a list of changes, made one after the other. *)

Change(op, s, t) == [op |-> op, state |-> s, tid |-> t]

\* _dispatch_kq_fill_workloop_event: the mask of the lock word a request is checked
\* against, and _dispatch_event_loop_get_action_for_state.  The owner is not in the mask
\* of "discover"; the kernel is taken to notice that it is not the one of the change.
Request(s) == Change(IF s.enq THEN "request" ELSE "leave", s, Null)

Current(c) ==
  CASE c.op = "request" -> /\ wl.state.enq = c.state.enq
                           /\ wl.state.qos = c.state.qos
                           /\ (c.state.unc => wl.state.unc)
    [] c.op \in {"leave", "leave if current"} -> wl.state.enq = c.state.enq
    [] c.op = "discover" -> /\ wl.state.wait = c.state.wait
                            /\ wl.state.unc = c.state.unc
                            /\ wl.state.owner = c.tid
    [] OTHER -> TRUE

\* What a change that is not stale does to the kernel object.
Applied(c, t) ==
  CASE c.op = "request" -> [kq EXCEPT !.request = TRUE,
                                      !.owner = IF c.state.unc THEN wl.state.owner ELSE @]
    [] c.op \in {"leave", "leave if current"} -> [kq EXCEPT !.request = FALSE]
    [] c.op \in {"wake", "discover"} -> [kq EXCEPT !.note[c.tid] = "woken", !.owner = wl.state.owner]
    [] c.op = "fake" -> [kq EXCEPT !.note[c.tid] = "woken"]
    [] c.op = "wait" -> [kq EXCEPT !.note[c.tid] = IF @ = "woken" THEN @ ELSE "waiting"]
    [] c.op = "end" -> [kq EXCEPT !.note[c.tid] = "none", !.owner = IF @ = t THEN Null ELSE @]

\* The next change of the list of t.  One that has to be retried comes back to the
\* servicer as an error; any other error is a crash.
Kevent(t) ==
  LET c == Head(at[t].kevents)
      rest == Tail(at[t].kevents)
      missing == c.op = "end" /\ kq.note[c.tid] = "none"
  IN /\ wl.crash = "no" /\ at[t].pc = "kevent"
     /\ kq' = IF Current(c) /\ ~missing THEN Applied(c, t) ELSE kq
     /\ wl' = LET w == Crash(wl, "Unexpected error from kevent", missing)
              IN IF rest = <<>> THEN Release(w, at[t].drop) ELSE w
     /\ at' = [at EXCEPT ![t].kevents = rest,
                         ![t].pc = IF rest = <<>> THEN at[t].then ELSE @,
                         ![t].drop = IF rest = <<>> THEN 0 ELSE @,
                         ![t].todo = IF c.op = "leave" /\ ~Current(c) THEN {"error"} ELSE @,
                         ![t].error = IF c.op = "leave" /\ ~Current(c) THEN wl.state ELSE @]
     /\ UNCHANGED plan

\* at[t] is about to make the changes cs, release n references and go to "then".
Calling(p, cs, n, then) ==
  [p EXCEPT !.pc = IF cs = <<>> THEN then ELSE "kevent", !.kevents = cs, !.drop = n, !.then = then]

Then(t, pc) == at' = [at EXCEPT ![t].pc = pc]

\* _dispatch_event_loop_ensure_ownership and _dispatch_queue_move_to_contended_sync.
EnsureOwnership(t, back) ==
  /\ at' = [at EXCEPT ![t] = [Calling(@, <<Change("wake", wl.state, t)>>, 0, "move") EXCEPT !.back = back]]
  /\ UNCHANGED <<wl, kq>>

MoveToContendedSync(t) ==
  /\ wl.crash = "no" /\ at[t].pc = "move"
  /\ wl' = [wl EXCEPT !.state.unc = FALSE, !.state.wait = FALSE]
  /\ at' = [at EXCEPT ![t].pc = at[t].back, ![t].back = "idle"]
  /\ UNCHANGED <<plan, kq>>

-----------------------------------------------------------------------------
(* The calls of the clients. *)

Call(c) ==
  /\ wl.crash = "no" /\ at[c].pc = "idle"
  /\ \E i \in Items :
       /\ By(i) = c /\ i \notin wl.asked
       /\ \A j \in Items : By(j) = c /\ j < i => j \in wl.asked
       /\ wl' = [wl EXCEPT !.asked = @ \cup {i}]
       /\ at' = [at EXCEPT ![c] = [Idle EXCEPT !.pc = IF How(i) = "async" THEN "push" ELSE "try",
                                               !.item = i]]
  /\ UNCHANGED <<plan, kq>>

\* _dispatch_workloop_push: the first of its bucket holds the workloop and wakes it.
Push(t) ==
  LET i == at[t].item
      first == wl.items[Bucket(i)] = <<>>
  IN /\ wl.crash = "no" /\ at[t].pc = "push"
     /\ wl' = IF first THEN Retain(Pushed(wl, i), 2) ELSE Pushed(wl, i)
     /\ Then(t, IF first THEN "wakeup" ELSE at[t].after)
     /\ UNCHANGED <<plan, kq>>

\* _dispatch_workloop_wakeup.  For the servicer _dispatch_event_loop_poke is Poked.
Enqueued(s, q) == [Merged(s, q) EXCEPT !.enq = TRUE, !.dirty = TRUE]

Wakeup(c) ==
  LET old == wl.state
      new == Enqueued(old, Bucket(at[c].item))
      poke == IF new.enq # old.enq \/ new.qos # old.qos THEN <<Request(new)>> ELSE <<>>
  IN /\ wl.crash = "no" /\ at[c].pc = "wakeup" /\ c # Servicer
     /\ wl' = IF poke = <<>> THEN Release([wl EXCEPT !.state = new], 2)
                             ELSE [wl EXCEPT !.state = new]
     /\ at' = [at EXCEPT ![c] = Calling(Idle, poke, IF new.enq = old.enq THEN 2 ELSE 1, "idle")]
     /\ UNCHANGED <<plan, kq>>

\* _dispatch_queue_try_acquire_barrier_sync: only when the lock word is idle.
TryAcquire(c) ==
  /\ wl.crash = "no" /\ at[c].pc = "try"
  /\ IF wl.state = Unlocked
     THEN wl' = [wl EXCEPT !.state = LockedBy(@, c, TRUE)] /\ Then(c, "run")
     ELSE UNCHANGED wl /\ Then(c, "prepare")
  /\ UNCHANGED <<plan, kq>>

\* _dispatch_wait_prepare.
WaitPrepare(c) ==
  /\ wl.crash = "no" /\ at[c].pc = "prepare"
  /\ wl' = [wl EXCEPT !.state.wait = @ \/ wl.state.unc]
  /\ Then(c, "push waiter")
  /\ UNCHANGED <<plan, kq>>

\* _dispatch_workloop_push_waiter.
PushWaiter(c) ==
  LET first == wl.items[Bucket(at[c].item)] = <<>>
  IN /\ wl.crash = "no" /\ at[c].pc = "push waiter"
     /\ wl' = Pushed(wl, at[c].item)
     /\ Then(c, IF first THEN "first" ELSE "wait")
     /\ UNCHANGED <<plan, kq>>

\* The first of its bucket leaves DIRTY, and takes the lock when nobody has it and the
\* servicer is not out: then it runs, if it is still at the head, or it completes.
FirstWaiter(c) ==
  LET i == at[c].item
      old == wl.state
      merged == [Merged(old, Bucket(i)) EXCEPT !.dirty = TRUE]
      takes == old.owner = Null /\ ~old.enq
      new == IF takes THEN LockedBy(merged, c, TRUE) ELSE merged
      head == wl.items[Bucket(i)] # <<>> /\ Head(wl.items[Bucket(i)]) = i
  IN /\ wl.crash = "no" /\ at[c].pc = "first"
     /\ IF takes /\ head
        THEN /\ wl' = Started(Popped([wl EXCEPT !.state = new], Bucket(i)), i)
             /\ Then(c, "run")
        ELSE /\ wl' = [wl EXCEPT !.state = new]
             /\ IF takes
                THEN at' = [at EXCEPT ![c].pc = "complete", ![c].after = "wait", ![c].bucket = Bucket(i)]
                ELSE at' = [at EXCEPT ![c] = Calling(@,
                       IF new.qos # old.qos /\ new.enq THEN <<Request(new)>> ELSE <<>>, 0, "wait")]
     /\ UNCHANGED <<plan, kq>>

\* _dispatch_event_loop_wait_for_ownership.
WaitForOwnership(c) ==
  LET s == wl.state
      first == IF s.owner = Null /\ s.enq THEN <<Request(s)>>
               ELSE IF s.wait THEN <<Change("discover", s, s.owner)>> ELSE <<>>
  IN /\ wl.crash = "no" /\ at[c].pc = "wait"
     /\ at' = [at EXCEPT ![c] = Calling([@ EXCEPT !.after = "idle"],
                                        Append(first, Change("wait", s, c)), 0, "blocked")]
     /\ UNCHANGED <<plan, wl, kq>>

\* The kernel lets the waiter go: its item ran elsewhere, or it has the lock.  It
\* deletes a note that was left for it (_dispatch_event_loop_cancel_waiter).
Woken(c) ==
  LET runs == IF at[c].ran THEN "idle" ELSE "run"
  IN /\ wl.crash = "no" /\ at[c].pc = "blocked" /\ kq.note[c] # "waiting"
     /\ at' = [at EXCEPT ![c] =
          IF @.cancel THEN [Calling(@, <<Change("end", wl.state, c)>>, 0, runs) EXCEPT !.cancel = FALSE]
          ELSE IF @.ran THEN Idle ELSE [@ EXCEPT !.pc = "run"]]
     /\ wl' = IF at[c].ran THEN wl ELSE IF kq.note[c] = "none" THEN Crash(wl, "Woken for nothing", TRUE)
              ELSE Started(wl, at[c].item)
     /\ UNCHANGED <<plan, kq>>

\* The item of a client ends: _dispatch_sync_complete_recurse.
Ran(c) ==
  /\ wl.crash = "no" /\ c \in Clients /\ at[c].pc = "run"
  /\ at' = [at EXCEPT ![c] = [Idle EXCEPT !.pc = "complete"]]
  /\ UNCHANGED <<plan, wl, kq>>

-----------------------------------------------------------------------------
(* The lock is given up. *)

\* _dispatch_workloop_barrier_complete: the waiter at the head of a bucket gets the lock
\* even if a higher bucket has an item that is not a waiter's.
IsWaiter(i) == How(i) \in {"sync", "wait"}
HeadWaiters(w) == {q \in Nonempty(w) : IsWaiter(Head(w.items[q]))}

BarrierComplete(c) ==
  LET waiters == HeadWaiters(wl)
      q == Max(waiters)
  IN /\ wl.crash = "no" /\ at[c].pc = "complete"
     /\ IF waiters # {}
        THEN /\ wl' = Popped(wl, q)
             /\ at' = [at EXCEPT ![c].pc = "handoff", ![c].hand = Head(wl.items[q]),
                                 ![c].more = Nonempty(Popped(wl, q)) # {}]
        ELSE LET target == Nonempty(wl) # {}
             IN /\ wl' = IF target THEN Retain(wl, 2) ELSE wl
                /\ at' = [at EXCEPT ![c].pc = "unlock", ![c].target = target]
     /\ UNCHANGED <<plan, kq>>

\* _dispatch_event_loop_end_ownership: what is told to the kernel.
EndOwnership(c, old, new) ==
  (IF new.enq THEN <<Change("request", new, Null)>>
   ELSE IF old.enq THEN <<Change("leave if current", new, Null)>> ELSE <<>>)
  \o (IF old.unc THEN <<>> ELSE <<Change("end", new, c)>>)

Surplus(consume, old, new) ==
  (IF consume THEN 2 ELSE 0) + (IF old.enq THEN 1 ELSE 0) - (IF new.enq THEN 1 ELSE 0)

Complete(c) ==
  LET old == wl.state
      target == at[c].target
      merged == Without(Merged(old, at[c].bucket))
      new == IF target THEN [merged EXCEPT !.enq = TRUE] ELSE [merged EXCEPT !.enq = FALSE, !.qos = 0]
  IN /\ wl.crash = "no" /\ c \in Clients /\ at[c].pc = "unlock"
     /\ IF NeedsEnsureOwnership(old) THEN EnsureOwnership(c, "unlock")
        ELSE /\ UNCHANGED kq
             /\ IF ~target /\ old.dirty
                THEN wl' = [wl EXCEPT !.state.dirty = FALSE] /\ Then(c, "complete")
                ELSE /\ wl' = [wl EXCEPT !.state = new, !.left = @ \/ (old.enq /\ ~new.enq)]
                     /\ at' = [at EXCEPT ![c] = Calling([@ EXCEPT !.target = FALSE, !.bucket = 0],
                          IF old.enq \/ new.enq \/ ~old.unc THEN EndOwnership(c, old, new) ELSE <<>>,
                          IF old.enq \/ new.enq \/ ~old.unc THEN Surplus(target, old, new) ELSE 0,
                          @.after)]
     /\ UNCHANGED plan

\* _dispatch_workloop_drain_barrier_waiter: the lock passes to the waiter "hand", already
\* off the list; _dispatch_barrier_waiter_redirect_or_wake settles the references.
Probe(t) ==
  /\ wl.crash = "no" /\ at[t].pc = "probe"
  /\ at' = [at EXCEPT ![t].pc = "handoff", ![t].more = @ \/ Nonempty(wl) # {}]
  /\ UNCHANGED <<plan, wl, kq>>

Handed(t, new) ==
  LET i == at[t].hand
      s == LockedBy(new, By(i), FALSE)
  IN IF at[t].more THEN s ELSE [s EXCEPT !.enq = FALSE, !.qos = 0]

\* _dispatch_event_loop_wake_owner.
WakeOwner(t, old, new) ==
  LET w == By(at[t].hand)
      wake == Change("wake", new, w)
      leave == Change("leave if current", new, Null)
  IN IF t = Servicer THEN <<IF new.enq THEN Request(new) ELSE leave, wake>>
     ELSE (IF old.enq # new.enq THEN <<leave>> ELSE <<>>) \o <<wake>>
          \o (IF old.unc THEN <<>> ELSE <<Change("end", old, t)>>)

HandOff(t) ==
  LET old == wl.state
      new == Handed(t, old)
      surplus == IF t = Servicer THEN (IF new.enq THEN 1 ELSE 2)
                 ELSE IF old.enq /\ ~new.enq THEN 1 ELSE 0
      p == [at[t] EXCEPT !.hand = 0, !.more = FALSE, !.bucket = 0]
  IN /\ wl.crash = "no" /\ at[t].pc = "handoff"
     /\ IF NeedsEnsureOwnership(old) THEN EnsureOwnership(t, "probe")
        ELSE /\ UNCHANGED kq
             /\ IF ~at[t].more /\ old.dirty
                THEN wl' = [wl EXCEPT !.state.dirty = FALSE] /\ Then(t, "probe")
                ELSE /\ wl' = Release([wl EXCEPT !.state = new, !.left = @ \/ (t # Servicer /\ old.enq /\ ~new.enq)], surplus)
                     /\ at' = [at EXCEPT ![t] =
                          Calling(IF t = Servicer THEN [p EXCEPT !.delete = FALSE, !.update = FALSE] ELSE p,
                                  WakeOwner(t, old, new), 0, IF t = Servicer THEN "return" ELSE p.after)]
     /\ UNCHANGED plan

-----------------------------------------------------------------------------
(* The servicer: _dispatch_workloop_worker_thread. *)

\* The kernel binds a thread when there is something to deliver and nobody it knows of
\* owns the workloop.
Bind ==
  LET event == kq.events \cap {i \in Items : i \notin wl.asked}
  IN /\ wl.crash = "no" /\ at[Servicer].pc = "parked" /\ kq.owner = Null
     /\ \E e \in {{}} \cup {{i} : i \in event} :
          LET todo == (IF kq.request THEN {"request"} ELSE {}) \cup (IF e # {} THEN {"event"} ELSE {})
          IN /\ todo # {}
             /\ wl' = [wl EXCEPT !.asked = @ \cup e]
             /\ kq' = [kq EXCEPT !.bound = TRUE, !.events = @ \ e]
             /\ at' = [at EXCEPT ![Servicer] =
                  [Idle EXCEPT !.pc = "merge", !.todo = todo, !.item = IF e = {} THEN 0 ELSE CHOOSE i \in e : TRUE]]
     /\ UNCHANGED plan

\* _dispatch_event_loop_merge, then _dispatch_root_queue_drain_deferred_wlh if something
\* was stashed.
Merge ==
  LET p == at[Servicer]
      stashed == [p EXCEPT !.delete = TRUE]
  IN /\ wl.crash = "no" /\ p.pc = "merge"
     /\ IF p.todo = {}
        THEN /\ UNCHANGED wl
             /\ at' = [at EXCEPT ![Servicer] = IF p.delete THEN [p EXCEPT !.pc = "lock", !.servicing = TRUE]
                                               ELSE Calling(p, p.kevents, 0, "return")]
        ELSE \E x \in p.todo :
               LET q == [p EXCEPT !.todo = @ \ {x}]
               IN CASE x = "event" ->
                         at' = [at EXCEPT ![Servicer] = [q EXCEPT !.pc = "push", !.after = "merge"]] /\ UNCHANGED wl
                    [] x = "request" \/ (x = "error" /\ q.error.enq /\ q.error.owner = Null) ->
                         IF p.delete THEN at' = [at EXCEPT ![Servicer] = q] /\ UNCHANGED wl
                         ELSE /\ at' = [at EXCEPT ![Servicer] = [q EXCEPT !.delete = TRUE, !.error = Unlocked]]
                              /\ wl' = Retain(wl, 1)
                    [] OTHER ->
                         at' = [at EXCEPT ![Servicer] = [q EXCEPT !.kevents = <<Request(q.error)>>, !.error = Unlocked]]
                         /\ UNCHANGED wl
     /\ UNCHANGED <<plan, kq>>

\* A wakeup by the servicer: _dispatch_kevent_workloop_poke_self.
Poked(p, enqueues, new) ==
  LET override == ~enqueues
  IN IF p.servicing THEN [state |-> Calling([p EXCEPT !.update = FALSE], <<Request(new)>>, 2, p.after), refs |-> 0]
     ELSE IF p.delete THEN [state |-> [p EXCEPT !.pc = p.after], refs |-> -2]
     ELSE [state |-> [p EXCEPT !.pc = p.after, !.delete = TRUE, !.update = TRUE],
           refs |-> IF override THEN -1 ELSE 0]

WakeupSelf ==
  LET p == at[Servicer]
      old == wl.state
      new == Enqueued(old, Bucket(p.item))
      changes == new.enq # old.enq \/ new.qos # old.qos
      poked == IF changes THEN Poked(p, new.enq # old.enq, new)
               ELSE [state |-> [p EXCEPT !.pc = p.after], refs |-> -2]
      asserts == changes /\ new.enq # old.enq /\ (p.servicing \/ p.delete)
  IN /\ wl.crash = "no" /\ p.pc = "wakeup"
     /\ wl' = Release(Crash([wl EXCEPT !.state = new], "A wakeup of a stashed workloop", asserts), 0 - poked.refs)
     /\ at' = [at EXCEPT ![Servicer] = [poked.state EXCEPT !.item = 0, !.after = "idle"]]
     /\ UNCHANGED <<plan, kq>>

\* _dispatch_event_loop_leave_deferred: the changes made on the way back to the kernel.
LeaveDeferred(p, s) ==
  Calling([p EXCEPT !.delete = FALSE, !.update = FALSE],
          (IF s.wait THEN <<Change("discover", s, s.owner)>> ELSE <<>>) \o <<Request(s)>>, 0, "return")

\* _dispatch_queue_drain_try_lock_wlh: a sync owner the kernel does not know of is told
\* that it will have to wake somebody.
TryLock ==
  LET p == at[Servicer]
      old == wl.state
      locked == old.owner # Null
      new == IF ~locked THEN LockedBy(old, Servicer, FALSE)
             ELSE [old EXCEPT !.wait = @ \/ old.unc]
  IN /\ wl.crash = "no" /\ p.pc = "lock"
     /\ wl' = LET w == Crash([wl EXCEPT !.state = new], "Invalid wlh state", ~old.enq)
              IN IF locked THEN Release(w, 1) ELSE w
     /\ at' = [at EXCEPT ![Servicer] = IF locked THEN LeaveDeferred(p, new) ELSE [p EXCEPT !.pc = "drain"]]
     /\ UNCHANGED <<plan, kq>>

\* _dispatch_workloop_invoke2: the highest bucket with an item, once the QoS of the lock
\* word is no higher; a change of it is told to the kernel.
Drain ==
  LET p == at[Servicer]
      q == Max(Nonempty(wl))
      lowers == wl.state.qos > q
  IN /\ wl.crash = "no" /\ p.pc = "drain"
     /\ IF Nonempty(wl) = {} THEN Then(Servicer, "unlock drain") /\ UNCHANGED wl
        ELSE IF lowers /\ wl.state.dirty
             THEN wl' = [wl EXCEPT !.state.dirty = FALSE] /\ UNCHANGED at
        ELSE /\ wl' = IF lowers THEN [wl EXCEPT !.state.qos = q] ELSE wl
             /\ at' = [at EXCEPT ![Servicer].bucket = q, ![Servicer].update = @ \/ lowers,
                                 ![Servicer].pc = IF lowers THEN "update" ELSE "next"]
     /\ UNCHANGED <<plan, kq>>

\* _dispatch_return_to_kernel, _dispatch_event_loop_drain: the new QoS is told, and
\* events that are pending are delivered.
ReturnToKernel ==
  LET p == at[Servicer]
  IN /\ wl.crash = "no" /\ p.pc = "update"
     /\ at' = [at EXCEPT ![Servicer] = IF p.update THEN Calling([p EXCEPT !.update = FALSE], <<Request(wl.state)>>, 0, "deliver")
                                       ELSE [p EXCEPT !.pc = "deliver"]]
     /\ UNCHANGED <<plan, wl, kq>>

Deliver ==
  LET event == kq.events
  IN /\ wl.crash = "no" /\ at[Servicer].pc = "deliver"
     /\ IF event = {} THEN Then(Servicer, "next") /\ UNCHANGED <<wl, kq>>
        ELSE \E i \in event :
               /\ wl' = [wl EXCEPT !.asked = @ \cup {i}]
               /\ kq' = [kq EXCEPT !.events = @ \ {i}]
               /\ at' = [at EXCEPT ![Servicer].pc = "push", ![Servicer].item = i, ![Servicer].after = "deliver"]
     /\ UNCHANGED plan

\* The item at the head of the bucket: a sync waiter is handed the lock
\* (_dispatch_queue_invoke_finish), any other item runs here.
ServeHead ==
  LET p == at[Servicer]
      q == p.bucket
      i == Head(wl.items[q])
      w == Popped(wl, q)
  IN /\ wl.crash = "no" /\ p.pc = "next"
     /\ IF How(i) = "sync"
        THEN /\ wl' = w
             /\ at' = [at EXCEPT ![Servicer].pc = "handoff", ![Servicer].hand = i,
                                 ![Servicer].more = Nonempty(w) # {}]
        ELSE /\ wl' = Started(w, i)
             /\ at' = [at EXCEPT ![Servicer].pc = "run", ![Servicer].item = i,
                                 ![Servicer].more = w.items[q] # <<>>]
     /\ UNCHANGED <<plan, kq>>

\* The item ends.  A client that waits for it is let go, and the drain stays in the bucket
\* unless something more urgent has come.
RanHere ==
  LET p == at[Servicer]
      pc == IF p.more /\ wl.state.qos <= p.bucket THEN "next" ELSE "drain"
      q == [p EXCEPT !.item = 0, !.more = FALSE]
  IN /\ wl.crash = "no" /\ p.pc = "run"
     /\ at' = [at EXCEPT ![Servicer] = IF How(p.item) = "wait" THEN [q EXCEPT !.pc = "cancel", !.hand = p.item, !.after = pc]
                                       ELSE [q EXCEPT !.pc = pc],
                         ![By(p.item)] = IF How(p.item) = "wait" THEN [@ EXCEPT !.ran = TRUE] ELSE @]
     /\ UNCHANGED <<plan, wl, kq>>

\* _dispatch_event_loop_cancel_waiter: the note of the waiter is deleted, or left for it
\* to delete when it is not there yet.
CancelWaiter ==
  LET p == at[Servicer]
      c == By(p.hand)
      missing == kq.note[c] = "none"
      q == [p EXCEPT !.hand = 0, !.after = "idle"]
  IN /\ wl.crash = "no" /\ p.pc = "cancel"
     /\ kq' = [kq EXCEPT !.note[c] = "none"]
     /\ at' = [at EXCEPT ![c].cancel = missing,
                         ![Servicer] = Calling(q, IF missing THEN <<Change("fake", wl.state, c)>> ELSE <<>>, 0, p.after)]
     /\ UNCHANGED <<plan, wl>>

\* _dispatch_queue_drain_try_unlock.
TryUnlock ==
  LET old == wl.state
  IN /\ wl.crash = "no" /\ at[Servicer].pc = "unlock drain"
     /\ IF old.dirty
        THEN wl' = [wl EXCEPT !.state.dirty = FALSE] /\ Then(Servicer, "drain")
        ELSE /\ wl' = Release(Crash([wl EXCEPT !.state = [Without(old) EXCEPT !.enq = FALSE, !.qos = 0]],
                                    "Not enqueued", ~old.enq), 2)
             /\ Then(Servicer, "drained")
     /\ UNCHANGED <<plan, kq>>

\* One last look before the thread request goes: whoever enqueued the workloop since
\* holds it for a request that is this one.
Drained ==
  /\ wl.crash = "no" /\ at[Servicer].pc = "drained"
  /\ IF wl.state.enq
     THEN wl' = Retain(wl, 1) /\ Then(Servicer, "lock")
     ELSE UNCHANGED wl /\ at' = [at EXCEPT ![Servicer] = LeaveDeferred(@, wl.state)]
  /\ UNCHANGED <<plan, kq>>

\* Back in the kernel: a change that failed is delivered at once.
Return ==
  LET p == at[Servicer]
  IN /\ wl.crash = "no" /\ p.pc = "return"
     /\ at' = [at EXCEPT ![Servicer] = IF p.todo = {} THEN [Idle EXCEPT !.pc = "parked"]
                                       ELSE [Idle EXCEPT !.pc = "merge", !.todo = p.todo, !.error = p.error]]
     /\ kq' = [kq EXCEPT !.bound = p.todo # {}]
     /\ UNCHANGED <<plan, wl>>

Service == Bind \/ Merge \/ WakeupSelf \/ TryLock \/ Drain \/ ReturnToKernel \/ Deliver \/ ServeHead
           \/ RanHere \/ CancelWaiter \/ TryUnlock \/ Drained \/ Return

WorkloopNext ==
  \/ \E t \in Threads : Kevent(t) \/ MoveToContendedSync(t) \/ Push(t) \/ Probe(t) \/ HandOff(t)
  \/ \E c \in Clients : Call(c) \/ Wakeup(c) \/ TryAcquire(c) \/ WaitPrepare(c) \/ PushWaiter(c)
                        \/ FirstWaiter(c) \/ WaitForOwnership(c) \/ Woken(c) \/ Ran(c)
                        \/ BarrierComplete(c) \/ Complete(c)
  \/ Service

WorkloopSpec == WorkloopInit /\ [][WorkloopNext]_workloopVars

-----------------------------------------------------------------------------

Running(t) == at[t].pc = "run"

\* An item of the workloop runs on one thread at a time, whoever runs it.
OneItemAtATime == \A t, u \in Threads : Running(t) /\ Running(u) => t = u

\* Nothing happens by itself any more.
CanBind == kq.owner = Null /\ (kq.request \/ kq.events # {})

Quiet == /\ \A c \in Clients : at[c].pc = "idle" \/ (at[c].pc = "blocked" /\ kq.note[c] = "waiting")
         /\ at[Servicer].pc = "parked" /\ ~CanBind

\* Then no item, no lock, no reference, no thread request and no note is left, and
\* nobody waits but a client whose item already ran elsewhere (see WaitersReturn).
WorkloopAtRest ==
  Quiet => /\ \A c \in Clients : at[c].pc = "idle" \/ (at[c].ran /\ at[c].cancel)
           /\ Nonempty(wl) = {} /\ wl.state = Unlocked /\ wl.refs = 0
           /\ ~kq.request /\ kq.owner = Null
           /\ \A t \in Threads : kq.note[t] = "none" \/ at[t].pc = "blocked"

\* Clients that are not in a call may release the workloop: once nothing else holds it
\* _dispatch_workloop_dispose finds it unlocked and empty.
WorkloopIsHeld ==
  (wl.refs = 0 /\ \A c \in Clients : at[c].pc = "idle") => wl.state = Unlocked /\ Nonempty(wl) = {}

\* The two sides agree: items run one at a time and in order within a bucket, no change
\* fails that may not, no reference is released twice, and nothing is left behind.  The
\* servicer may find that a sync owner took the enqueued bit away (see ServicerIsEnqueued).
WorkloopIsSound ==
  /\ wl.crash = "no" \/ (wl.crash = "Invalid wlh state" /\ wl.left)
  /\ wl.crash = "no" => ~wl.swapped /\ OneItemAtATime /\ WorkloopAtRest /\ WorkloopIsHeld

\* dispatch_async_and_wait returns: the responsibility for a note that was posted before
\* the wait passes to the waiter.
WaitersReturn == wl.crash = "no" /\ Quiet => \A c \in Clients : at[c].pc = "idle"

\* The servicer that found the workloop enqueued finds it so when it takes the lock.
ServicerIsEnqueued == wl.crash # "Invalid wlh state"

=============================================================================
