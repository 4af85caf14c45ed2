--------------------------- MODULE DispatchGroup ---------------------------
(***************************************************************************)
(* dispatch_group_t (src/semaphore.c, src/semaphore_internal.h).           *)
(*                                                                         *)
(* One 64-bit word holds the generation, the number of enters that have    *)
(* not been left, and two bits: HAS_WAITERS, set by threads that block on  *)
(* the generation, and HAS_NOTIFS, whose clearing makes a thread the one   *)
(* that fires the notifications.  dispatch_group_enter works on the low    *)
(* half only; the carry of dispatch_group_leave bumps the generation when  *)
(* the value comes back to 0.  Notifications wait in a multi-producer list *)
(* that is filled before the bit is set and captured after it is cleared.  *)
(***************************************************************************)
EXTENDS Integers, Sequences, FiniteSets, Functions

CONSTANTS Threads,
          MaxCalls,  \* bound: enter, notify and wait calls of each thread
          ValueMod,  \* 2^30: the value counter wraps around
          GenMod     \* 2^32: so does the generation

ASSUME GroupAssumption ==
  /\ IsFiniteSet(Threads) /\ Threads # {}  \* somebody creates the group
  /\ MaxCalls \in Nat
  /\ ValueMod \in Nat \ {0, 1} /\ GenMod \in Nat \ {0, 1}

\* The continuation of one dispatch_group_notify call.
Notifs == [by : Threads, n : 1 .. MaxCalls]

ASSUME ServedAssumption == Notifs \cap Threads = {}

VARIABLES
  dg_state,   \* the word, as a record of its fields
  dg_notify,  \* the list, in the order of the exchanges of its tail
  linked,     \* notifications their predecessor, or the head, points to
  pc,         \* where each thread is
  old,        \* local "old_state" of leave and group_wake, "gen" of wait_slow
  drops,      \* whether group_wake was called with needs_release
  snapshot,   \* the notifications a thread has captured and not submitted yet
  timeout,    \* the timeout argument of the thread's wait
  refs,       \* do_ref_cnt; all clients together own one
  owns,       \* whether the thread still owns its external reference
  calls,      \* calls made by each thread
  inside,     \* history: enters that have returned and are not left yet
  since,      \* history: waiting threads and pending notifications that have
              \* seen the group empty since their call began
  racing,     \* history: pending notifications begun while a wake was on its way
  early,      \* history: kinds of calls served without having seen it empty
  life        \* "live" or the DISPATCH_CLIENT_CRASH that was hit

vars == <<dg_state, dg_notify, linked, pc, old, drops, snapshot, timeout,
          refs, owns, calls, inside, since, racing, early, life>>

States == [value : 0 .. ValueMod - 1, gen : 0 .. GenMod - 1,
           waiters : BOOLEAN, notifs : BOOLEAN]

InitValue(n) == [value |-> n, gen |-> 0, waiters |-> FALSE, notifs |-> FALSE]

list == <<dg_notify, linked, snapshot>>
client == <<owns, calls, inside>>
history == <<since, racing, early>>

WaitPCs == {"wait_kernel", "wait_blocked", "wait_check", "wait_expired"}

PCs == {"idle", "enter_retain", "leave_clear", "wake", "fire", "wake_waiters",
        "wake_release", "notify_retain", "notify_link_first", "notify_link",
        "notify_set"} \cup WaitPCs

\* dispatch_group_create, or _dispatch_group_create_and_enter with count 1.
Init ==
  /\ \E n \in {0, 1} :
       /\ dg_state = InitValue(n)
       /\ refs = 1 + n
       /\ inside = n
  /\ dg_notify = <<>> /\ linked = {}
  /\ pc = [t \in Threads |-> "idle"]
  /\ old = [t \in Threads |-> InitValue(0)]
  /\ drops = [t \in Threads |-> FALSE]
  /\ snapshot = [t \in Threads |-> <<>>]
  /\ timeout = [t \in Threads |-> "forever"]
  /\ owns = [t \in Threads |-> TRUE]
  /\ calls = [t \in Threads |-> 0]
  /\ since = {} /\ racing = {} /\ early = {}
  /\ life = "live"

At(t, p) == life = "live" /\ pc[t] = p
Goto(t, p) == pc' = [pc EXCEPT ![t] = p]

\* The call returns and its locals are gone.
Return(t) ==
  /\ Goto(t, "idle")
  /\ old' = [old EXCEPT ![t] = InitValue(0)]
  /\ drops' = [drops EXCEPT ![t] = FALSE]
  /\ timeout' = [timeout EXCEPT ![t] = "forever"]

\* A thread that owns a reference starts a call.
Call(t) ==
  /\ At(t, "idle")
  /\ owns[t]
  /\ calls[t] < MaxCalls
  /\ calls' = [calls EXCEPT ![t] = @ + 1]

----------------------------------------------------------------------------
(* dispatch_group_enter *)

\* Faulty variant: the counter runs into the generation.
EnteredWide(s) == [s EXCEPT !.value = @ + 1]

\* Faulty variant: the subtraction borrows from the generation.
EnteredBorrow(s) ==
  [s EXCEPT !.value = (@ + 1) % ValueMod,
            !.gen = IF s.value = 0 THEN (@ - 1) % GenMod ELSE @]

\* The subtraction is done on the low half of the word.
Entered(s) == [s EXCEPT !.value = (@ + 1) % ValueMod]

Enter(t) ==
  /\ Call(t)
  /\ dg_state' = Entered(dg_state)
  /\ \/ /\ dg_state.value = 0
        /\ Goto(t, "enter_retain")
        /\ UNCHANGED <<inside, life>>
     \/ /\ dg_state.value \in 1 .. ValueMod - 2
        /\ inside' = inside + 1
        /\ UNCHANGED <<pc, life>>
     \/ /\ dg_state.value = ValueMod - 1
        /\ life' = "enter_crash"
        /\ UNCHANGED <<pc, inside>>
  /\ UNCHANGED <<list, old, drops, timeout, refs, owns, history>>

\* The first enter retains the group on behalf of all of them.
EnterRetain(t) ==
  /\ At(t, "enter_retain")
  /\ refs' = refs + 1
  /\ inside' = inside + 1
  /\ Goto(t, "idle")
  /\ UNCHANGED <<dg_state, list, old, drops, timeout, owns, calls, history, life>>

----------------------------------------------------------------------------
(* dispatch_group_leave and _dispatch_group_wake *)

\* What the carry of the 64-bit addition does when the last enter is left.
Carry(s) == [s EXCEPT !.value = 0, !.gen = (@ + 1) % GenMod]

Waiting == {t \in Threads : pc[t] \in WaitPCs}
Pending == Range(dg_notify) \cup UNION {Range(snapshot[t]) : t \in Threads}

\* Balances an enter that has returned.  The caller needs no reference of its
\* own: a block of dispatch_group_async has none.
LeaveBalanced(t) ==
  /\ At(t, "idle")
  /\ inside > 0
  /\ inside' = inside - 1
  /\ \/ /\ dg_state.value = 1
        /\ dg_state' = Carry(dg_state)
        /\ old' = [old EXCEPT ![t] = dg_state']
        /\ drops' = [drops EXCEPT ![t] = TRUE]
        /\ since' = since \cup Waiting \cup Pending
        /\ Goto(t, "leave_clear")
     \/ /\ dg_state.value > 1
        /\ dg_state' = [dg_state EXCEPT !.value = @ - 1]
        /\ UNCHANGED <<pc, old, drops, since>>
  /\ UNCHANGED <<list, timeout, refs, owns, calls, racing, early, life>>

\* A leave that finds the value 0 wraps it around and crashes.
LeaveUnbalanced(t) ==
  /\ At(t, "idle")
  /\ owns[t] \/ inside > 0
  /\ dg_state.value = 0
  /\ dg_state' = [dg_state EXCEPT !.value = ValueMod - 1]
  /\ life' = "leave_crash"
  /\ UNCHANGED <<list, pc, old, drops, timeout, refs, client, history>>

Leave(t) == LeaveBalanced(t) \/ LeaveUnbalanced(t)

\* Faulty variant: clears HAS_WAITERS although the group was entered again.
ClearedAll(s) == [s EXCEPT !.notifs = FALSE, !.waiters = FALSE]

\* The bits this thread takes upon itself.  HAS_WAITERS stays when the group
\* was entered again: nobody knows for which generation they wait.
Cleared(s) ==
  IF s.value = 0 THEN [s EXCEPT !.notifs = FALSE, !.waiters = FALSE]
                 ELSE [s EXCEPT !.notifs = FALSE]

\* One turn of the compare-and-swap loop.
LeaveClear(t) ==
  /\ At(t, "leave_clear")
  /\ \/ /\ Cleared(old[t]) = old[t]
        /\ Goto(t, "wake")
        /\ UNCHANGED <<dg_state, old>>
     \/ /\ Cleared(old[t]) # old[t] /\ dg_state = old[t]
        /\ dg_state' = Cleared(old[t])
        /\ Goto(t, "wake")
        /\ UNCHANGED old
     \/ /\ Cleared(old[t]) # old[t] /\ dg_state # old[t]
        /\ old' = [old EXCEPT ![t] = dg_state]
        /\ UNCHANGED <<dg_state, pc>>
  /\ UNCHANGED <<list, drops, timeout, refs, client, history, life>>

\* os_mpsc_capture_snapshot, which waits for the head to be linked.
Wake(t) ==
  /\ At(t, "wake")
  /\ \/ /\ old[t].notifs
        /\ dg_notify # <<>> /\ Head(dg_notify) \in linked
        /\ snapshot' = [snapshot EXCEPT ![t] = dg_notify]
        /\ dg_notify' = <<>>
        /\ Goto(t, "fire")
     \/ /\ ~old[t].notifs
        /\ Goto(t, "wake_waiters")
        /\ UNCHANGED <<dg_notify, snapshot>>
  /\ UNCHANGED <<dg_state, linked, old, drops, timeout, refs, client, history,
                 life>>

\* One turn of the loop that submits the notifications to their queues; the
\* link of the next one may still be missing.
Fire(t) ==
  LET d == Head(snapshot[t]) IN
  /\ At(t, "fire")
  /\ Len(snapshot[t]) > 1 => snapshot[t][2] \in linked
  /\ snapshot' = [snapshot EXCEPT ![t] = Tail(@)]
  /\ linked' = linked \ {d}
  /\ early' = IF d \in since THEN early
              ELSE early \cup {IF d \in racing THEN "racing" ELSE "notify"}
  /\ since' = since \ {d}
  /\ racing' = racing \ {d}
  /\ Goto(t, IF Len(snapshot[t]) = 1 THEN "wake_waiters" ELSE "fire")
  /\ UNCHANGED <<dg_state, dg_notify, old, drops, timeout, refs, client, life>>

\* _dispatch_wake_by_address wakes every thread in the kernel wait.
WakeWaiters(t) ==
  /\ At(t, "wake_waiters")
  /\ pc' = [u \in Threads |->
              IF u = t THEN "wake_release"
              ELSE IF old[t].waiters /\ pc[u] = "wait_blocked" THEN "wait_check"
              ELSE pc[u]]
  /\ UNCHANGED <<dg_state, list, old, drops, timeout, refs, client, history, life>>

\* Faulty variant: forgets the reference of the notifications.
WakeReleaseOne(t) ==
  /\ At(t, "wake_release")
  /\ refs' = refs - (IF drops[t] THEN 1 ELSE 0)
  /\ Return(t)
  /\ UNCHANGED <<dg_state, list, client, history, life>>

\* _dispatch_release_n: the reference of the enters and that of the list.
WakeRelease(t) ==
  /\ At(t, "wake_release")
  /\ refs' = refs - (IF drops[t] THEN 1 ELSE 0) - (IF old[t].notifs THEN 1 ELSE 0)
  /\ Return(t)
  /\ UNCHANGED <<dg_state, list, client, history, life>>

----------------------------------------------------------------------------
(* dispatch_group_notify *)

\* The exchange of the tail.
Notify(t) ==
  LET d == [by |-> t, n |-> calls[t] + 1] IN
  /\ Call(t)
  /\ dg_notify' = Append(dg_notify, d)
  /\ since' = IF dg_state.value = 0 THEN since \cup {d} ELSE since
  /\ racing' = IF \E u \in Threads : pc[u] \in {"leave_clear", "wake"}
                THEN racing \cup {d} ELSE racing
  /\ Goto(t, IF dg_notify = <<>> THEN "notify_retain" ELSE "notify_link")
  /\ UNCHANGED <<dg_state, linked, snapshot, old, drops, timeout, refs, owns,
                 inside, early, life>>

\* A list that was empty retains the group.
NotifyRetain(t) ==
  /\ At(t, "notify_retain")
  /\ refs' = refs + 1
  /\ Goto(t, "notify_link_first")
  /\ UNCHANGED <<dg_state, list, old, drops, timeout, client, history, life>>

\* os_mpsc_push_update_prev.
NotifyLink(t, from, to) ==
  /\ At(t, from)
  /\ linked' = linked \cup {[by |-> t, n |-> calls[t]]}
  /\ Goto(t, to)
  /\ UNCHANGED <<dg_state, dg_notify, snapshot, old, drops, timeout, refs, client,
                 history, life>>

\* Faulty variant: an empty group does not fire at once.
QuietNever(s) == FALSE

\* Faulty variant: an entered group without bits counts as empty.
QuietUnmarked(s) == ~s.waiters /\ ~s.notifs

\* (uint32_t)old_state == 0: no enter and neither bit.
Quiet(s) == s.value = 0 /\ ~s.waiters /\ ~s.notifs

\* Sets HAS_NOTIFS, or fires when the group is empty and nobody else will.
NotifySet(t) ==
  /\ At(t, "notify_set")
  /\ \/ /\ Quiet(dg_state)
        /\ old' = [old EXCEPT ![t] = [dg_state EXCEPT !.notifs = TRUE]]
        /\ drops' = [drops EXCEPT ![t] = FALSE]
        /\ Goto(t, "wake")
        /\ UNCHANGED dg_state
     \/ /\ ~Quiet(dg_state)
        /\ dg_state' = [dg_state EXCEPT !.notifs = TRUE]
        /\ Goto(t, "idle")
        /\ UNCHANGED <<old, drops>>
  /\ UNCHANGED <<list, timeout, refs, client, history, life>>

----------------------------------------------------------------------------
(* dispatch_group_wait *)

Timeouts == {"now", "forever", "timed"}

\* An empty group returns 0 and a timeout of 0 the timeout; otherwise
\* HAS_WAITERS is set and the generation remembered in one step.
Wait(t, to) ==
  /\ Call(t)
  /\ \/ /\ dg_state.value = 0 \/ to = "now"
        /\ UNCHANGED <<dg_state, pc, old, timeout>>
     \/ /\ dg_state.value # 0 /\ to # "now"
        /\ dg_state' = [dg_state EXCEPT !.waiters = TRUE]
        /\ old' = [old EXCEPT ![t] = dg_state']
        /\ timeout' = [timeout EXCEPT ![t] = to]
        /\ Goto(t, "wait_kernel")
  /\ UNCHANGED <<list, drops, refs, owns, inside, history, life>>

\* _dispatch_wait_on_address blocks if the generation is still the one given.
WaitKernel(t) ==
  /\ At(t, "wait_kernel")
  /\ Goto(t, IF dg_state.gen = old[t].gen THEN "wait_blocked" ELSE "wait_check")
  /\ UNCHANGED <<dg_state, list, old, drops, timeout, refs, client, history, life>>

\* ETIMEDOUT, from the kernel or because the time has already passed.
WaitTimedOut(t) ==
  /\ At(t, "wait_kernel") \/ At(t, "wait_blocked")
  /\ timeout[t] = "timed"
  /\ Goto(t, "wait_expired")
  /\ UNCHANGED <<dg_state, list, old, drops, timeout, refs, client, history, life>>

\* EINTR and the like.
WaitInterrupted(t) ==
  /\ At(t, "wait_blocked")
  /\ Goto(t, "wait_check")
  /\ UNCHANGED <<dg_state, list, old, drops, timeout, refs, client, history, life>>

\* Faulty variant: any return of the kernel wait but a timeout is a success.
ChangedAlways(t) == pc[t] = "wait_check" \/ dg_state.gen # old[t].gen

\* Has the generation changed?
Changed(t) == dg_state.gen # old[t].gen

\* The rest of the loop of wait_slow: 0, the timeout, or another turn.
WaitCheck(t) ==
  /\ At(t, "wait_check") \/ At(t, "wait_expired")
  /\ \/ /\ Changed(t)
        /\ early' = IF t \in since THEN early ELSE early \cup {"wait"}
        /\ since' = since \ {t}
        /\ Return(t)
     \/ /\ ~Changed(t) /\ pc[t] = "wait_expired"
        /\ since' = since \ {t}
        /\ Return(t)
        /\ UNCHANGED early
     \/ /\ ~Changed(t) /\ pc[t] = "wait_check"
        /\ Goto(t, "wait_kernel")
        /\ UNCHANGED <<old, drops, timeout, since, early>>
  /\ UNCHANGED <<dg_state, list, refs, client, racing, life>>

----------------------------------------------------------------------------

\* dispatch_release: the last external reference gives the internal one back.
Release(t) ==
  /\ At(t, "idle")
  /\ owns[t]
  /\ owns' = [owns EXCEPT ![t] = FALSE]
  /\ refs' = IF \A u \in Threads : ~owns'[u] THEN refs - 1 ELSE refs
  /\ UNCHANGED <<dg_state, list, pc, old, drops, timeout, calls, inside, history,
                 life>>

\* The steps of a call that has begun and is not up to the clock.
Progress(t) ==
  \/ EnterRetain(t)
  \/ LeaveClear(t) \/ Wake(t) \/ Fire(t) \/ WakeWaiters(t) \/ WakeRelease(t)
  \/ NotifyRetain(t)
  \/ NotifyLink(t, "notify_link_first", "notify_set")
  \/ NotifyLink(t, "notify_link", "idle")
  \/ NotifySet(t)
  \/ WaitKernel(t) \/ WaitCheck(t)

Next ==
  \E t \in Threads :
    \/ Enter(t) \/ Leave(t) \/ Notify(t)
    \/ \E to \in Timeouts : Wait(t, to)
    \/ WaitTimedOut(t) \/ WaitInterrupted(t)
    \/ Release(t)
    \/ Progress(t)

Spec == Init /\ [][Next]_vars

\* A thread inside a call keeps running; no call is ever forced.
Fairness == \A t \in Threads : WF_vars(Progress(t))

FairSpec == Spec /\ Fairness

----------------------------------------------------------------------------
(* Properties *)

TypeOK ==
  /\ dg_state \in States
  /\ dg_notify \in Seq(Notifs) /\ linked \subseteq Notifs
  /\ pc \in [Threads -> PCs]
  /\ old \in [Threads -> States]
  /\ drops \in [Threads -> BOOLEAN]
  /\ snapshot \in [Threads -> Seq(Notifs)]
  /\ timeout \in [Threads -> Timeouts]
  /\ refs \in Nat
  /\ owns \in [Threads -> BOOLEAN]
  /\ calls \in [Threads -> 0 .. MaxCalls]
  /\ inside \in Nat
  /\ since \subseteq Notifs \cup Threads
  /\ racing \subseteq Notifs
  /\ early \subseteq {"wait", "notify", "racing"}
  /\ life \in {"live", "enter_crash", "leave_crash"}

\* A wait returns 0 only if the group was empty at some time during the call,
\* through interrupted kernel waits, timeouts and reuse of the group.
WaitsForEmpty == "wait" \notin early

\* A notification is submitted only after the group was empty at some time
\* since the call, unless the call began while a thread that had emptied the
\* group before was about to take the notifications.
NotifiedUnlessRacing == "notify" \notin early

\* What dispatch/group.h says of every notification: it is submitted "once all
\* blocks associated with the dispatch group have completed".  The code does
\* not ensure it.  Whoever emptied the group clears HAS_NOTIFS and captures the
\* list later, together with the notifications of callers who have entered the
\* group again in the meantime.
NotifiedWhenEmpty == early \cap {"notify", "racing"} = {}

\* The references add up: the clients own one, the enters one, every thread
\* that has left last its own until it releases it, and every list one, from
\* its first notification to the end of the wake that captured it.
RefsAreAccounted ==
  life = "live" =>
    refs = (IF \E t \in Threads : owns[t] THEN 1 ELSE 0)
           + (IF dg_state.value > 0 THEN 1 ELSE 0)
           + (IF dg_notify # <<>> THEN 1 ELSE 0)
           + Cardinality({t \in Threads : drops[t] /\
                pc[t] \in {"leave_clear", "wake", "fire", "wake_waiters",
                           "wake_release"}})
           + Cardinality({t \in Threads : old[t].notifs /\
                pc[t] \in {"fire", "wake_waiters", "wake_release"}})
           - Cardinality({t \in Threads :
                pc[t] \in {"enter_retain", "notify_retain"}})

\* The last reference goes only when the group is at rest, and then
\* _dispatch_group_dispose does not crash; nor does a leave that balances an
\* enter.
DisposedAtRest ==
  /\ life = "leave_crash" => inside = 0
  /\ refs = 0 => /\ Quiet(dg_state)
                 /\ Pending = {}
                 /\ \A t \in Threads : pc[t] = "idle"

\* The references of a group add up, and the last one goes only when the group is
\* at rest; leaves that balance an enter never crash.
GroupIsSound == TypeOK /\ RefsAreAccounted /\ DisposedAtRest

\* No lost wakeup: once the group is empty and nobody is in the middle of a
\* call, no thread is left in the kernel, no notification in the list and
\* neither bit in the word.
NothingIsLeftBehind ==
  /\ life = "live"
  /\ dg_state.value = 0
  /\ \A t \in Threads : pc[t] \in {"idle", "wait_blocked"}
  => /\ Quiet(dg_state)
     /\ Pending = {}
     /\ \A t \in Threads : pc[t] = "idle"

\* A wait that has seen the group empty returns, even if the group is entered
\* again before the waiter gets to look.
WaitersReturn ==
  \A t \in Threads :
    pc[t] \in WaitPCs /\ t \in since ~> pc[t] \notin WaitPCs \/ life # "live"

\* Notifications do not get stuck behind one another: once the group stays
\* empty, all of them are submitted.
NotificationsFire ==
  <>[](dg_state.value = 0) => <>[](Pending = {} \/ life # "live")
=============================================================================
