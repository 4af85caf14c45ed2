------------------------------ MODULE EventLoop ------------------------------
(* The manager queue and its event loop over kqueue (queue.c,                *)
(* event/event_kevent.c, event/event.c): clients push jobs onto the manager  *)
(* queue and poke its kernel queue; the manager registers, rearms and        *)
(* unregisters unotes that share a muxnote for what they watch, defers the   *)
(* kernel's changes until it returns to the kernel, and merges events into   *)
(* every unote of a muxnote.  Mach port notifications are requested one by   *)
(* one and come back as messages.                                            *)
(*                                                                           *)
(* Everything but a push runs on the manager, whose job or event is one      *)
(* action; the kernel and the clients run beside it.  What a unote watches   *)
(* is of a kind: "clear" (a signal: what happened is forgotten once told),   *)
(* "proc" (its exit is told once, and its knote is gone), "dispatch" (data   *)
(* on a descriptor: told and disabled until rearmed) or "port" (a mach port  *)
(* that has room, or is dead).  The kernel is external.                      *)
EXTENDS Integers, Sequences, FiniteSets, SequencesExt, FiniteSetsExt, Functions

CONSTANTS
  Clients,     \* threads that push jobs onto the manager queue
  Worker,      \* the thread that runs the handlers of descriptors
  Null,
  MaxEvents,   \* ddi_maxevents: changes kept before they are sent to the kernel
  Batch,       \* events one call of kevent returns
  Plans        \* a sequence of what is watched, what happens to it and what is asked

VARIABLES plan, loop, mgr, at

loopVars == <<plan, loop, mgr, at>>

Plan == Plans[plan]
Idents == DOMAIN Plan.kinds
Unotes == DOMAIN Plan.unotes
Kind(i) == Plan.kinds[i]
Ident(u) == Plan.unotes[u].ident
Flags(u) == Plan.unotes[u].fflags   \* du_fflags
Standing(i) == IF Kind(i) = "proc" THEN {"exit"} ELSE {}   \* dst_fflags
Threads == Clients \cup {Worker}

\* Blocks of memory a muxnote for an ident can be given: a block that was freed comes back
\* to the same ident, unless the plan lets it have another.
Blocks == UNION {Plan.blocks[i] : i \in Idents}

NoNote == [ident |-> Null, fflags |-> {}, del |-> FALSE, list |-> <<>>, data |-> {}, armed |-> FALSE]
NoKnote == [on |-> FALSE, udata |-> Null, fflags |-> {}, enabled |-> FALSE, fired |-> {}]

\* The manager's kqueue is created with its EVFILT_USER knote, and the notify port
\* with its unote.
LoopInit ==
  /\ plan \in DOMAIN Plans
  /\ loop = [notes |-> [a \in Blocks |-> NoNote],
             unotes |-> [u \in Unotes |-> [note |-> Null, armed |-> FALSE, told |-> FALSE]],
             ddi |-> <<>>,
             knotes |-> [i \in Idents |-> NoKnote],
             level |-> [i \in Idents |-> FALSE],
             ports |-> [i \in Idents |-> [alive |-> TRUE, full |-> FALSE, req |-> FALSE,
                                          armed |-> FALSE]],
             msgs |-> <<>>, notify |-> TRUE, user |-> FALSE,
             due |-> [u \in Unotes |-> {}], waiting |-> {}, fired |-> {},
             happened |-> {}, crash |-> "no"]
  /\ mgr = [pc |-> "wait", batch |-> <<>>, items |-> <<>>, locked |-> Plan.mode = "thread",
            dirty |-> FALSE]
  /\ at = [t \in Threads |-> [pc |-> "idle", next |-> 1, job |-> Null]]

-----------------------------------------------------------------------------
(* The kernel's half: one knote for an ident, whoever's udata it bears.      *)

\* What is wrong with a change, and what it makes of the knotes. A change of an ident that
\* is "user" or "notify" triggers the poke or rearms the notify port.
Errno(s, ch) ==
  IF ch.ident \notin Idents THEN "no"
  ELSE IF ch.del \/ ~ch.add THEN IF s.knotes[ch.ident].on THEN "no" ELSE "ENOENT"
  ELSE IF Kind(ch.ident) = "proc" /\ ~s.ports[ch.ident].alive THEN "ESRCH" ELSE "no"

Apply(s, ch) ==
  IF ch.ident = "user" THEN [s EXCEPT !.user = TRUE]
  ELSE IF ch.ident = "notify" THEN [s EXCEPT !.notify = TRUE]
  ELSE IF Errno(s, ch) # "no" THEN s
  ELSE IF ch.del THEN [s EXCEPT !.knotes[ch.ident] = NoKnote]
  ELSE [s EXCEPT !.knotes[ch.ident] =
          [on |-> TRUE, udata |-> ch.udata, fflags |-> ch.fflags, enabled |-> TRUE,
           fired |-> @.fired \cap ch.fflags]]

ApplyAll(s, changes) == FoldLeft(Apply, s, changes)

\* What one more call of kevent could return, each event with what delivering it does.
KnoteReady(s, i) ==
  LET k == s.knotes[i] IN k.on /\ k.enabled /\ (k.fired # {} \/ (Kind(i) = "dispatch" /\ s.level[i]))

Ready(s) == {i \in Idents : KnoteReady(s, i)}
            \cup (IF s.user THEN {"user"} ELSE {})
            \cup (IF s.notify /\ s.msgs # <<>> THEN {"notify"} ELSE {})

Event(s, i) ==
  CASE i = "user"   -> [ident |-> i, udata |-> Null, fflags |-> {}, oneshot |-> FALSE, about |-> Null]
    [] i = "notify" -> [ident |-> i, udata |-> Null, fflags |-> {Head(s.msgs).what}, oneshot |-> FALSE,
                        about |-> Head(s.msgs).ident]
    [] OTHER -> LET k == s.knotes[i]
                IN  [ident |-> i, udata |-> k.udata, fflags |-> k.fired,
                     oneshot |-> "exit" \in k.fired, about |-> Null]

Deliver(s, i) ==
  CASE i = "user"   -> [s EXCEPT !.user = FALSE]
    [] i = "notify" -> [s EXCEPT !.notify = FALSE, !.msgs = Tail(@)]
    [] OTHER -> IF "exit" \in s.knotes[i].fired THEN [s EXCEPT !.knotes[i] = NoKnote]
                ELSE [s EXCEPT !.knotes[i].fired = {},
                               !.knotes[i].enabled = Kind(i) # "dispatch"]

\* mach_port_request_notification: a request for a name that is dead is answered at once.
Request(s, i) ==
  IF s.ports[i].alive THEN [s EXCEPT !.ports[i].req = TRUE, !.ports[i].armed = FALSE]
  ELSE [s EXCEPT !.msgs = Append(@, [ident |-> i, what |-> "dead"])]

-----------------------------------------------------------------------------
(* Changes the manager keeps until it returns to the kernel.                 *)

FindSlot(s, ch) == SelectInSeq(s.ddi, LAMBDA d : d.ident = ch.ident /\ d.udata = ch.udata)

\* _dispatch_kq_deferred_discard_slot: the last change takes the place.
DiscardSlot(s, k) ==
  IF k = 0 THEN s ELSE [s EXCEPT !.ddi = Front([s.ddi EXCEPT ![k] = Last(s.ddi)])]

DeferredUpdate(s, ch) ==
  LET k == FindSlot(s, ch)
  IN  IF k # 0 THEN [s EXCEPT !.ddi[k] = ch]
      ELSE IF Len(s.ddi) = MaxEvents THEN [ApplyAll(s, s.ddi) EXCEPT !.ddi = <<ch>>]
      ELSE [s EXCEPT !.ddi = Append(@, ch)]

\* Faulty variant: a change of the same knote that is still kept is sent later.
ImmediateKeepsSlot(s, ch) == Apply(s, ch)

\* _dispatch_kq_immediate_update: what was kept for the knote is out of date.
ImmediateUpdate(s, ch) == Apply(DiscardSlot(s, FindSlot(s, ch)), ch)

Trigger == [ident |-> "user", udata |-> Null, fflags |-> {}, del |-> FALSE, add |-> FALSE]
Enable  == [ident |-> "notify", udata |-> Null, fflags |-> {}, del |-> FALSE, add |-> FALSE]

\* The change a muxnote's own kevent asks for.
Change(s, a, add) ==
  [ident |-> s.notes[a].ident, udata |-> a, fflags |-> s.notes[a].fflags,
   del |-> s.notes[a].del, add |-> add]

-----------------------------------------------------------------------------
(* Muxnotes.                                                                 *)

Find(s, i) == CHOOSE a \in Blocks \cup {Null} :
                IF \E b \in Blocks : s.notes[b].ident = i THEN a # Null /\ s.notes[a].ident = i
                ELSE a = Null

\* _dispatch_mach_notify_update: asks for a notification, or calls the request off, when
\* what is wanted of the port becomes something or nothing.
NotifyUpdate(s, a, new, del) ==
  LET n    == s.notes[a]
      data == (n.data \cup new \cup n.fflags) \ del
      s1   == [s EXCEPT !.notes[a].data = data]
  IN  IF data # {} /\ n.data = {} THEN Request(s1, n.ident)
      ELSE IF data = {} /\ n.data # {} THEN [s1 EXCEPT !.ports[n.ident].req = FALSE,
                                                       !.ports[n.ident].armed = FALSE]
      ELSE s1

\* _dispatch_mach_send_update.
MachSendUpdate(s, a) ==
  LET n == s.notes[a]
  IN  IF n.del THEN NotifyUpdate(s, a, {}, n.fflags) ELSE NotifyUpdate(s, a, n.fflags, {})

\* The unote joins the muxnote's list, at its head; what it watches may be gone already.
Join(s, u, a) ==
  [s EXCEPT !.notes[a].list = <<u>> \o @,
            !.due[u] = IF s.ports[Ident(u)].alive THEN {} ELSE Flags(u) \cap {"dead", "exit"},
            !.unotes[u] = [note |-> a, armed |-> TRUE, told |-> s.notes[a].armed]]

\* _dispatch_kevent_drain, of the error a process that is gone gives: an exit is made up.
\* The muxnote has no unote yet that could be told.
Synthesize(s, a) == [s EXCEPT !.notes[a].del = TRUE]

\* _dispatch_unote_register_muxed, with a block for a muxnote if it takes one.
RegisterMuxed(s, u, a) ==
  LET i  == Ident(u)
      b  == Find(s, i)
      more == Flags(u) \ s.notes[b].fflags
      wide == [s EXCEPT !.notes[b].fflags = @ \cup more]
      new  == [s EXCEPT !.notes[a] = [NoNote EXCEPT !.ident = i,
                                            !.fflags = Flags(u) \cup Standing(i)]]
      ch   == IF b # Null THEN Change(wide, b, FALSE) ELSE Change(new, a, TRUE)
  IN  IF b # Null
      THEN IF more = {} THEN Join(s, u, b)
           ELSE IF Kind(i) = "port" THEN Join(MachSendUpdate(wide, b), u, b)
           ELSE IF Errno(s, ch) # "no" THEN DiscardSlot(s, FindSlot(s, ch))
           ELSE Join(ImmediateUpdate(wide, ch), u, b)
      ELSE IF Kind(i) = "port" THEN Join(MachSendUpdate(new, a), u, a)
           ELSE IF Errno(s, ch) = "ESRCH" THEN Join(Synthesize(ImmediateUpdate(new, ch), a), u, a)
           ELSE Join(ImmediateUpdate(new, ch), u, a)

\* _dispatch_unote_resume_muxed.
ResumeMuxed(s, u) ==
  LET a  == s.unotes[u].note
      s1 == [s EXCEPT !.unotes[u].armed = TRUE]
  IN  IF Kind(Ident(u)) = "port" THEN MachSendUpdate(s1, a)
      ELSE DeferredUpdate(s1, Change(s1, a, FALSE))

\* _dispatch_unote_unregister_muxed: the last unote deletes the knote and frees the muxnote;
\* another narrows what is watched to what the rest asks for.
UnregisterMuxed(s, u) ==
  LET a    == s.unotes[u].note
      n    == s.notes[a]
      rest == SelectSeq(n.list, LAMBDA v : v # u)
      left == Standing(n.ident) \cup UNION {Flags(v) : v \in ToSet(rest)}
      last == rest = <<>>
      s1   == [s EXCEPT !.unotes[u] = [note |-> Null, armed |-> FALSE, told |-> FALSE],
                        !.due[u] = {}, !.waiting = @ \ {u}, !.fired = @ \ {u},
                        !.notes[a].list = rest, !.notes[a].del = @ \/ last,
                        !.notes[a].fflags = IF last THEN @ ELSE @ \cap left]
      s2   == IF (last /\ n.del) \/ (~last /\ n.fflags \subseteq left) THEN s1
              ELSE IF Kind(n.ident) = "port" THEN MachSendUpdate(s1, a)
              ELSE DeferredUpdate(s1, Change(s1, a, FALSE))
  IN  IF last THEN [s2 EXCEPT !.notes[a] = NoNote] ELSE s2

\* _dispatch_mach_notification_set_armed: every unote of the port is to be told.
SetArmed(s, u) ==
  LET a == s.unotes[u].note
  IN  [s EXCEPT !.notes[a].armed = TRUE,
                !.unotes = [v \in Unotes |-> IF v \in ToSet(s.notes[a].list)
                                             THEN [@[v] EXCEPT !.told = TRUE] ELSE @[v]]]

\* A mach channel sends: a message takes the room the port has, or the send times out and
\* asks the kernel for a word once there is room.
Send(s, u) ==
  LET i == Ident(u)
  IN  IF ~s.ports[i].alive THEN [s EXCEPT !.waiting = @ \ {u}]
      ELSE IF ~s.ports[i].full
      THEN [s EXCEPT !.ports[i].full = TRUE, !.waiting = @ \ {u}]
      ELSE SetArmed([s EXCEPT !.ports[i].armed = s.ports[i].req, !.waiting = @ \cup {u}], u)

-----------------------------------------------------------------------------
(* Events.                                                                   *)

\* _dispatch_kevent_merge_muxed: every unote of the muxnote is told; a handler of data has
\* yet to rearm its unote; an event that comes once unregisters every unote.
MergeMuxed(s, ke) ==
  LET One(t, u) ==
        LET t1 == [t EXCEPT !.due[u] = @ \ ke.fflags]
        IN  IF ke.oneshot THEN UnregisterMuxed(t1, u)
            ELSE IF Kind(ke.ident) = "dispatch"
            THEN [t1 EXCEPT !.unotes[u].armed = FALSE, !.fired = @ \cup {u}]
            ELSE t1
  IN  FoldLeft(One, [s EXCEPT !.notes[ke.udata].del = @ \/ ke.oneshot], s.notes[ke.udata].list)

\* _dispatch_mach_notify_merge: the notification is asked for again, unless the port is
\* gone, and every unote that asks for what came is told; a channel that is told there is
\* room sends at once, and when that takes the room the rest keep waiting.
NotifyMerge(s, i, what) ==
  LET a     == Find(s, i)
      final == what = "dead"
      none  == [s EXCEPT !.notes[a].data = {}]
      s1    == IF final THEN [none EXCEPT !.notes[a].del = TRUE] ELSE NotifyUpdate(none, a, {what}, {})
      One(t, u) ==
        IF t.notes[a].armed THEN t
        ELSE LET t1 == [t EXCEPT !.unotes[u].told = FALSE]
             IN  IF final THEN UnregisterMuxed(t1, u)
                 ELSE IF what \in Flags(u) /\ u \in t.waiting THEN Send(t1, u)
                 ELSE t1
  IN  IF a = Null THEN s
      ELSE FoldLeft(One, [s1 EXCEPT !.notes[a].armed = FALSE], s.notes[a].list)

\* _dispatch_kevent_drain: an event names the muxnote it is for, or is a message to the
\* notify port, whose unote is rearmed once it is handled.
DrainEvent(s, ke) ==
  IF ke.ident = "user" THEN s
  ELSE IF ke.ident = "notify"
  THEN LET what == CHOOSE w \in ke.fflags : TRUE
       IN  DeferredUpdate(NotifyMerge(s, ke.about, what), Enable)
  ELSE IF s.notes[ke.udata].ident # ke.ident THEN [s EXCEPT !.crash = "freed muxnote"]
  ELSE MergeMuxed(s, ke)

-----------------------------------------------------------------------------
(* Pushing onto the manager queue.                                           *)

Script(t) == IF t \in Clients THEN Plan.scripts[t] ELSE <<>>

\* The tail is exchanged; whoever finds the queue empty has it woken.
Push(t, job) ==
  /\ mgr' = [mgr EXCEPT !.items = Append(@, job)]
  /\ at' = [at EXCEPT ![t] = [pc |-> IF mgr.items = <<>> THEN "dirty" ELSE "idle",
                             next |-> @.next + 1, job |-> job]]

ClientPushes(c) ==
  /\ at[c].pc = "idle" /\ at[c].next <= Len(Script(c))
  /\ Push(c, Script(c)[at[c].next])
  /\ UNCHANGED <<plan, loop>>

\* A handler takes what there is to read; its source then asks the manager to rearm it.
HandlerReturns(u) ==
  /\ at[Worker].pc = "idle" /\ u \in loop.fired
  /\ loop' = [loop EXCEPT !.fired = @ \ {u}, !.level[Ident(u)] = FALSE]
  /\ Push(Worker, [op |-> "resume", u |-> u])
  /\ UNCHANGED plan

MarkDirty(t) ==
  /\ at[t].pc = "dirty"
  /\ mgr' = [mgr EXCEPT !.dirty = TRUE]
  /\ at' = [at EXCEPT ![t].pc = "poke"]
  /\ UNCHANGED <<plan, loop>>

\* _dispatch_event_loop_poke, from another thread: the kernel is told at once.
Poke(t) ==
  /\ at[t].pc = "poke"
  /\ loop' = Apply(loop, Trigger)
  /\ at' = [at EXCEPT ![t].pc = "idle"]
  /\ UNCHANGED <<plan, mgr>>

-----------------------------------------------------------------------------
(* The manager.                                                              *)

\* kevent returns: in the manager's own thread, or as a thread the kernel makes.
Wake ==
  /\ mgr.pc = "wait"
  /\ \E S \in SUBSET Ready(loop) :
       /\ S # {} /\ Cardinality(S) <= Batch
       /\ LET order == SetToSeq(S) IN
          /\ loop' = [FoldLeft(Deliver, loop, order) EXCEPT
                        !.crash = IF Plan.mode = "workq" /\ mgr.locked
                                  THEN "Locking the manager should not fail" ELSE @]
          /\ mgr' = [mgr EXCEPT !.pc = "merge", !.locked = TRUE,
                                !.batch = [k \in DOMAIN order |-> Event(loop, order[k])]]
  /\ UNCHANGED <<plan, at>>

MergeEvent ==
  /\ mgr.pc = "merge"
  /\ loop' = DrainEvent(loop, Head(mgr.batch))
  /\ mgr' = [mgr EXCEPT !.batch = Tail(@), !.pc = IF Len(mgr.batch) = 1 THEN "drain" ELSE "merge"]
  /\ UNCHANGED <<plan, at>>

\* The manager queue's drain takes one item. What pushes onto the queue from the manager
\* itself marks it dirty and does not poke.
RunJob ==
  /\ mgr.pc = "drain" /\ mgr.items # <<>>
  /\ LET job == Head(mgr.items)
         on  == loop.unotes[job.u].note # Null
         more == IF job.op = "again" THEN <<[op |-> job.then, u |-> job.u]>> ELSE <<>>
     IN  /\ mgr' = [mgr EXCEPT !.items = Tail(@) \o more,
                               !.dirty = @ \/ (more # <<>> /\ Tail(mgr.items) = <<>>)]
         /\ \/ /\ job.op = "register" /\ ~on
               /\ \E a \in IF Find(loop, Ident(job.u)) # Null THEN {Null}
                           ELSE {b \in Plan.blocks[Ident(job.u)] : loop.notes[b].ident = Null} :
                    loop' = RegisterMuxed(loop, job.u, a)
            \/ /\ job.op = "unregister" /\ on
               /\ loop' = UnregisterMuxed(loop, job.u)
            \/ /\ job.op = "resume" /\ on /\ ~loop.unotes[job.u].armed
               /\ loop' = ResumeMuxed(loop, job.u)
            \/ /\ job.op = "send" /\ on
               /\ loop' = Send(loop, job.u)
            \/ /\ \/ job.op = "again"
                  \/ job.op \in {"unregister", "send", "resume"} /\ ~on
                  \/ job.op = "resume" /\ loop.unotes[job.u].armed
               /\ loop' = loop
  /\ UNCHANGED <<plan, at>>

\* The queue is empty; a timer that is due then may push a job, from the manager itself.
Drained ==
  /\ mgr.pc = "drain" /\ mgr.items = <<>>
  /\ \E due \in {{}} \cup (IF 0 \in loop.happened THEN {} ELSE {Plan.timer}) :
       /\ loop' = [loop EXCEPT !.happened = IF due = {} THEN @ ELSE @ \cup {0}]
       /\ mgr' = [mgr EXCEPT !.pc = IF Plan.mode = "thread" THEN "submit" ELSE "unlock",
                             !.items = SetToSeq(due), !.dirty = @ \/ due # {}]
  /\ UNCHANGED <<plan, at>>

\* _dispatch_wlh_worker_thread_reset: what was pushed meanwhile makes the manager come back.
Unlock ==
  /\ mgr.pc = "unlock"
  /\ mgr' = [mgr EXCEPT !.pc = "submit", !.locked = FALSE, !.dirty = FALSE]
  /\ loop' = IF mgr.dirty THEN DeferredUpdate(loop, Trigger) ELSE loop
  /\ UNCHANGED <<plan, at>>

\* The changes that were kept go to the kernel. The manager's own thread does not sleep
\* when the queue has items again.
Submit ==
  /\ mgr.pc = "submit"
  /\ loop' = [ApplyAll(loop, loop.ddi) EXCEPT !.ddi = <<>>]
  /\ mgr' = [mgr EXCEPT !.pc = IF Plan.mode = "thread" /\ mgr.items # <<>> THEN "drain" ELSE "wait"]
  /\ UNCHANGED <<plan, at>>

-----------------------------------------------------------------------------
(* What happens to what is watched (external).                               *)

Joined == {u \in Unotes : loop.unotes[u].note # Null}

\* A process exits while it is watched, unless the plan is about one that is gone before.

Happen(k) ==
  /\ k \in DOMAIN Plan.happens \ loop.happened
  /\ LET i    == Plan.happens[k].ident
         what == Plan.happens[k].what
         owed == [u \in Unotes |-> IF /\ loop.unotes[u].note # Null /\ Ident(u) = i
                                      /\ what \in Flags(u) \ {"possible"}
                                   THEN loop.due[u] \cup {what} ELSE loop.due[u]]
         s    == [loop EXCEPT !.happened = @ \cup {k}, !.due = owed]
         p    == loop.ports[i]
     IN  /\ what = "exit" /\ ~Plan.zombie => \A u \in Unotes : Ident(u) = i => u \in Joined
         /\ loop' =
           CASE Kind(i) = "dispatch" -> [s EXCEPT !.level[i] = TRUE]
             [] Kind(i) \in {"clear", "proc"} ->
                  [s EXCEPT !.ports[i].alive = what # "exit",
                            !.knotes[i].fired = @ \cup ({what} \cap loop.knotes[i].fflags)]
             [] what = "possible" ->
                  [s EXCEPT !.ports[i] = [p EXCEPT !.full = FALSE, !.armed = FALSE, !.req = @ /\ ~p.armed],
                            !.msgs = IF p.armed THEN Append(@, [ident |-> i, what |-> what]) ELSE @]
             [] what = "dead" ->
                  [s EXCEPT !.ports[i] = [alive |-> FALSE, full |-> FALSE, req |-> FALSE, armed |-> FALSE],
                            !.msgs = IF p.req THEN Append(@, [ident |-> i, what |-> what]) ELSE @]
  /\ UNCHANGED <<plan, mgr, at>>

LoopNext ==
  \/ \E c \in Clients : ClientPushes(c)
  \/ \E u \in Unotes : HandlerReturns(u)
  \/ \E t \in Threads : MarkDirty(t) \/ Poke(t)
  \/ Wake \/ MergeEvent \/ RunJob \/ Drained \/ Unlock \/ Submit
  \/ \E k \in DOMAIN Plan.happens : Happen(k)

LoopSpec == LoopInit /\ [][LoopNext]_loopVars

-----------------------------------------------------------------------------
Rest ==
  /\ mgr.pc = "wait" /\ Ready(loop) = {} /\ loop.fired = {}
  /\ \A t \in Threads : at[t].pc = "idle" /\ at[t].next > Len(Script(t))

\* While the manager sleeps with nothing to wake it, no job waits.
NoJobIsStranded == Rest => mgr.items = <<>>

\* Then every unote that is registered is watched: the kernel has the knote of its ident,
\* with its muxnote's address, every flag it asks for, and enabled if it is armed.
RegisteredIsWatched ==
  Rest => \A u \in Joined : Kind(Ident(u)) # "port" =>
            LET k == loop.knotes[Ident(u)]
            IN  k.on /\ k.udata = loop.unotes[u].note /\ Flags(u) \subseteq k.fflags
                /\ (loop.unotes[u].armed => k.enabled)

\* Then the kernel watches nothing that nobody asked for.
WatchedIsRegistered ==
  Rest => \A i \in Idents : loop.knotes[i].on => Find(loop, i) # Null

\* Then every unote was told what happened to what it watches while it was registered.
EveryUnoteIsTold == Rest => \A u \in Unotes : loop.due[u] = {}

\* Then a channel that waits for room waits for a port that is full, and the kernel knows.
WaitersAreArmed ==
  Rest => \A u \in loop.waiting :
            loop.ports[Ident(u)].full /\ loop.ports[Ident(u)].armed /\ loop.unotes[u].told

LoopIsSound ==
  /\ loop.crash = "no"
  /\ NoJobIsStranded /\ RegisteredIsWatched /\ WatchedIsRegistered
  /\ EveryUnoteIsTold /\ WaitersAreArmed

=============================================================================
