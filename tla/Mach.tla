-------------------------------- MODULE Mach --------------------------------
(* A mach channel (mach.c): its queue of messages to send with the lock word *)
(* of its own, the list of replies that are expected, the receive right, the *)
(* notification that the port of the peer has room again, and the queue of   *)
(* events for the handler, which is a lane drained on the target queue or,   *)
(* for what only the manager may do, on the manager queue.                   *)
(*                                                                           *)
(* Clients, the thread that serves the target queue and the manager send     *)
(* concurrently: whoever takes the lock word drains the send queue.  A push  *)
(* on the lane of the channel and the wakeup it makes are one step here      *)
(* (DispatchLane has them apart); a wakeup of the channel for any other      *)
(* reason looks first and wakes later.  All messages have one QoS.           *)
EXTENDS Integers, Sequences, SequencesExt, FiniteSets

CONSTANTS
  Clients, Worker, Manager,  \* threads
  Messages,                  \* bounds: messages and barriers there will be
  Null,
  Plans       \* a sequence of what is done with a channel: the calls of each client,
              \* the kind of each message ("oneway", "reply", "wait", "answer", "checkin"),
              \* whether it starts out installed, how many messages will come in, how
              \* often the port of the peer fills up, if it dies and if the peer answers

VARIABLES plan, mach, at

machVars == <<plan, mach, at>>

Actors == Clients \cup {Worker, Manager}

Kind(m) == Plans[plan].kind[m]

Idle == [pc |-> "idle", i |-> 1, item |-> Null, empty |-> FALSE, old |-> Null,
         barriers |-> FALSE, ret |-> "idle", tq |-> "none", consume |-> FALSE,
         dirty |-> FALSE, event |-> FALSE, retq |-> "none", canceled |-> FALSE]

MachInit ==
  /\ plan \in DOMAIN Plans
  /\ at = [t \in Actors |-> Idle]
  /\ mach = [sq |-> <<>>, owner |-> Null, dirty |-> FALSE, pending |-> FALSE, enqueued |-> FALSE,
             disconnect_cnt |-> 0, disconnected |-> FALSE, canceled |-> FALSE,
             needs_event |-> FALSE, deleted |-> FALSE, needs_mgr |-> FALSE,
             send |-> TRUE, checkin |-> Plans[plan].checkin, installed |-> Plans[plan].installed,
             unote |-> FALSE, armed |-> FALSE, notify |-> "no",
             recv |-> IF Plans[plan].installed THEN "armed" ELSE "no", local |-> TRUE,
             replies |-> {}, reply |-> [m \in Messages |-> "no"],
             missed |-> FALSE, rq |-> <<>>, lane |-> [enq |-> IF Plans[plan].installed THEN "no" ELSE "target",
                                    running |-> FALSE, dirty |-> FALSE],
             refs |-> IF Plans[plan].installed THEN 2 ELSE 4,
             connected |-> FALSE, cancels |-> 0,
             env |-> [port |-> "free", fills |-> Plans[plan].fills, dies |-> Plans[plan].dies,
                      arrivals |-> Plans[plan].arrivals, event |-> "no"],
             wire |-> <<>>, pushed |-> <<>>, crash |-> "no",
             fate |-> [m \in Messages |-> 0], answers |-> [m \in Messages |-> 0]]

Crash(w, what, if) == IF if THEN [w EXCEPT !.crash = what] ELSE w

\* _dispatch_retain and _dispatch_release of the channel.
Retain(w, n) == [Crash(w, "Use after free", w.refs = 0) EXCEPT !.refs = @ + n]
Release(w, n) == [Crash(w, "Over-release", w.refs < n) EXCEPT !.refs = @ - n]

\* _dispatch_queue_wakeup: the channel goes to a queue unless it is on one or
\* being drained.  Being on a queue takes two references.
Woken(w, tq, dirty, consume) ==
  LET newly == tq # "none" /\ w.lane.enq = "no"
      alive == Crash(w, "Use after free", w.refs = 0)
      set == [alive EXCEPT !.lane.enq = IF newly THEN tq ELSE @,
                           !.lane.dirty = @ \/ (tq # "none" /\ dirty)]
      held == IF newly THEN Retain(set, 2) ELSE set
  IN IF consume THEN Release(held, 2) ELSE held

\* _dispatch_mach_wakeup: who has to look after the channel, if anybody.
Target(w, event) ==
  LET sending == w.disconnect_cnt > 0 \/ ~w.armed
      mgr == IF w.disconnect_cnt > 0 THEN w.unote ELSE w.needs_mgr
  IN IF ~w.installed \/ w.rq # <<>> THEN "target"
     ELSE IF w.sq # <<>> THEN IF w.owner # Null \/ ~sending THEN "none"
                              ELSE IF mgr THEN "mgr" ELSE "target"
     ELSE IF w.canceled /\ w.cancels = 0 /\ (event \/ ~w.needs_event) THEN "target" ELSE "none"

\* A wakeup, or a drain of the channel, that finds the send lock taken leaves what
\* there may be to send to whoever has it.
Missed(w) == [w EXCEPT !.missed = @ \/ (w.installed /\ w.owner # Null)]

Wakes(w, event, dirty, consume) == Woken(Missed(w), Target(w, event), dirty, consume)

\* dm_push: an event for the handler, or the right to run a send barrier.
Push(w, item) ==
  IF w.rq = <<>> THEN Woken([w EXCEPT !.rq = <<item>>], "target", TRUE, FALSE)
  ELSE [w EXCEPT !.rq = Append(@, item)]

-----------------------------------------------------------------------------
(* The end of messages and of replies                                       *)

\* _dispatch_mach_msg_create_reply_disconnected: who waits for the reply with a
\* port of the thread finds it gone, an asynchronous reply is told to the handler.
NoReply(w, m) ==
  CASE Kind(m) = "wait" -> [w EXCEPT !.reply[m] = "dead"]
    [] Kind(m) = "reply" -> Push([w EXCEPT !.reply[m] = "no"], <<"noreply", m>>)
    [] OTHER -> w

\* _dispatch_mach_msg_not_sent.
NotSent(w, m) ==
  LET told == Push(w, <<"not sent", m>>)
  IN IF Kind(m) = "reply" THEN NoReply(told, m) ELSE Push(NoReply(w, m), <<"not sent", m>>)

\* _dispatch_mach_reply_unregister with DMRU_CANCEL, of each expected reply: one whose
\* event is on its way stays; so does one that may not even be tried.
Unregisters(w, m) ==
  Kind(m) = "wait" \/ (w.reply[m] = "armed" /\ ~w.needs_event)

RECURSIVE CancelReplies(_, _)
CancelReplies(w, ms) ==
  IF ms = {} THEN w
  ELSE LET m == CHOOSE x \in ms : TRUE
       IN CancelReplies(NoReply([w EXCEPT !.replies = @ \ {m}], m), ms \ {m})

\* _dispatch_mach_reconnect_invoke: gives up the send right, the check-in message
\* and the expected replies, then takes the new ones unless replies remain.
Reconnected(w, x) ==
  LET quiet == [w EXCEPT !.unote = FALSE, !.armed = FALSE, !.needs_mgr = FALSE,
                         !.notify = IF w.unote THEN "no" ELSE @]
      gone == IF w.send THEN Push([quiet EXCEPT !.send = FALSE], <<"disconnected", "send">>)
              ELSE quiet
      back == IF w.checkin = Null THEN gone
              ELSE NotSent([gone EXCEPT !.checkin = Null], w.checkin)
      done == CancelReplies(back, {m \in back.replies : Unregisters(back, m)})
      cut == x = "cancel" \/ done.disconnected
      less == [done EXCEPT !.disconnect_cnt = @ - 1, !.disconnected = cut]
  IN IF done.replies # {} THEN done
     ELSE IF ~cut THEN [less EXCEPT !.send = TRUE, !.checkin = x, !.env.port = "free"]
     ELSE IF x \in {"cancel", Null} THEN less
     ELSE NotSent(Push(less, <<"disconnected", "new">>), x)

\* mach_msg and what follows it in _dispatch_mach_msg_send: the result says if the
\* message is out of the queue, and if the port of the peer was dead.
Transmit(w, t, m) ==
  LET mgr == t = Manager /\ Kind(m) # "answer"
      watched == IF mgr THEN [w EXCEPT !.unote = TRUE] ELSE w
      full == IF mgr THEN [watched EXCEPT !.armed = TRUE, !.notify = "armed"]
              ELSE [watched EXCEPT !.needs_mgr = TRUE]
      expected == Kind(m) \in {"reply", "wait"} /\ w.env.port = "free"
      out == [watched EXCEPT
                !.wire = IF w.env.port = "free" THEN Append(@, m) ELSE @,
                !.replies = IF expected THEN @ \cup {m} ELSE @,
                !.reply[m] = IF ~expected THEN @ ELSE IF Kind(m) = "reply" THEN "armed" ELSE "waiting"]
      quiet == [out EXCEPT !.unote = FALSE, !.armed = FALSE, !.notify = "no"]
      stuck == (mgr /\ w.armed) \/ (w.env.port = "full" /\ Kind(m) # "answer")
  IN [ok |-> ~stuck, dead |-> w.env.port = "dead",
      w |-> IF mgr /\ w.armed THEN watched ELSE IF stuck THEN full
            ELSE IF m = w.checkin /\ out.unote THEN quiet ELSE out]

\* What the handler is told of a message that is out of the queue.
Returned(r, m, immediate) ==
  LET w == IF r.dead /\ Kind(m) = "wait" THEN NoReply(r.w, m) ELSE r.w
      told == IF immediate THEN [w EXCEPT !.fate[m] = @ + 1] ELSE Push(w, <<"sent", m>>)
  IN IF ~r.ok THEN r
     ELSE [r EXCEPT !.w = IF r.dead /\ Kind(m) = "reply" THEN NoReply(told, m) ELSE told]

\* _dispatch_mach_msg_send: the check-in message goes first; a notification can
\* only be given up on the manager queue.
Send(w, t, m, immediate) ==
  LET v == [w EXCEPT !.needs_mgr = FALSE]
      first == Returned(Transmit(v, t, w.checkin), w.checkin, FALSE)
      then == [first.w EXCEPT !.checkin = Null]
  IN IF Kind(m) = "answer" THEN Returned(Transmit(w, t, m), m, immediate)
     ELSE IF w.checkin = Null THEN Returned(Transmit(v, t, m), m, immediate)
     ELSE IF w.unote /\ t # Manager THEN [ok |-> FALSE, w |-> [v EXCEPT !.needs_mgr = TRUE]]
     ELSE IF ~first.ok THEN first
     ELSE Returned(Transmit(then, t, m), m, immediate)

-----------------------------------------------------------------------------
(* The handler                                                              *)

\* An event for the handler, on the target queue: _dispatch_mach_msg_invoke_with_mach.
\* A message that comes in after the channel was cancelled is dropped.
Told(w, item) ==
  LET v == [w EXCEPT !.connected = TRUE]
  IN CASE item[1] \in {"sent", "not sent", "barrier"} -> [v EXCEPT !.fate[item[2]] = @ + 1]
       [] item[1] \in {"answer", "noreply"} -> [v EXCEPT !.answers[item[2]] = @ + 1]
       [] item[1] = "received" -> Crash(v, "A message after the cancel handler",
                                        ~w.canceled /\ w.cancels > 0)
       [] OTHER -> v

\* _dispatch_mach_cancel_invoke.
CancelHandler(w) == [w EXCEPT !.connected = TRUE, !.cancels = @ + 1]

\* _dispatch_mach_cancel: the receive right goes unless an event is on its way; the
\* result says if all is gone.
Cancel(w) ==
  LET goes == w.recv \in {"armed", "disarmed", "deleted"} /\ (w.recv = "armed" => ~w.needs_event)
      tried == [w EXCEPT !.recv = IF @ = "inflight" /\ ~w.needs_event THEN "deleting" ELSE @]
      v == IF ~w.local \/ w.recv = "no" THEN [w EXCEPT !.local = FALSE]
           ELSE IF goes THEN Push([w EXCEPT !.recv = "no", !.local = FALSE],
                                  <<"disconnected", "receive">>)
           ELSE tried
      gone == w.disconnected /\ w.disconnect_cnt = 0 /\ ~v.local
  IN [gone |-> gone,
      w |-> IF gone THEN Release(Crash([v EXCEPT !.deleted = TRUE, !.needs_event = FALSE],
                                       "Corrupt channel state", w.deleted), 1)
            ELSE [v EXCEPT !.needs_event = TRUE]]

-----------------------------------------------------------------------------
(* Sending                                                                  *)

Goto(t, changes) == at' = [at EXCEPT ![t] = changes]

\* What a thread does when its part of the send queue is done.
Back(t) == [at[t] EXCEPT !.pc = at[t].ret, !.item = Null, !.empty = FALSE, !.old = Null,
                         !.barriers = FALSE, !.ret = "idle", !.tq = "none",
                         !.consume = FALSE, !.dirty = FALSE, !.event = FALSE]

\* _dispatch_mach_wakeup, called with these flags.
WakesUp(t, dirty, event, consume) ==
  [Back(t) EXCEPT !.pc = "wake", !.ret = at[t].ret, !.dirty = dirty, !.event = event,
                  !.consume = consume]

\* os_mpsc_push_update_tail, and the references of _dispatch_mach_send_push (tries
\* is FALSE) and of _dispatch_mach_send_push_and_trydrain; then is the thread after it.
PushSend(t, item, tries, then) ==
  LET empty == mach.sq = <<>>
      n == IF tries THEN IF empty THEN 2 ELSE 0 ELSE IF empty THEN 4 ELSE 2
      cut == tries /\ (mach.disconnect_cnt > 0 \/ mach.canceled)
      pushed == [mach EXCEPT !.sq = Append(@, item), !.pushed = Append(@, item[2])]
  IN /\ mach' = IF n = 0 THEN pushed ELSE Retain(pushed, n)
     /\ Goto(t, [then EXCEPT !.item = item, !.empty = empty,
                             !.pc = IF cut THEN "leave" ELSE IF tries THEN "try" ELSE "push"])

\* The lock word with the flags of an item that came to an empty queue.
Flagged(w, t) ==
  LET e == at[t].empty
  IN [w EXCEPT !.dirty = @ \/ e, !.enqueued = @ \/ e,
               !.pending = @ \/ (e /\ at[t].item[1] = "barrier" /\ at[t].pc = "push")]

Locked(w, t) == [w EXCEPT !.owner = t, !.dirty = FALSE, !.pending = FALSE, !.missed = FALSE]

\* _dispatch_mach_send_push.
StatePush(t) ==
  LET w == Flagged(mach, t)
      e == at[t].empty
      kept == IF e /\ mach.enqueued THEN Release(w, 2) ELSE w
      barrier == e /\ at[t].item[1] = "barrier"
  IN /\ at[t].pc = "push"
     /\ IF mach.owner # Null THEN mach' = Release(kept, 2) /\ Goto(t, Back(t))
        ELSE IF barrier THEN mach' = Release(Push(kept, <<"drain", Null>>), 2) /\ Goto(t, Back(t))
        ELSE IF e \/ mach.disconnect_cnt > 0 \/ mach.canceled \/ mach.pending
          THEN mach' = kept /\ Goto(t, WakesUp(t, e, FALSE, TRUE))
        ELSE mach' = Release(kept, 2) /\ Goto(t, Back(t))

\* _dispatch_mach_send_push_and_trydrain on a channel that is being disconnected.
StateLeave(t) ==
  /\ at[t].pc = "leave"
  /\ mach' = Flagged(mach, t)
  /\ Goto(t, WakesUp(t, at[t].empty, FALSE, at[t].empty /\ mach.enqueued))

\* _dispatch_mach_send_push_and_trydrain: takes the lock word if it can.  A message
\* behind others does not even try if it does not raise the QoS in the lock word.
StateTry(t) ==
  LET free == mach.owner = Null /\ ~mach.pending
      flagged == Flagged(mach, t)
      w == IF free THEN Locked(flagged, t) ELSE flagged
      extra == at[t].empty /\ mach.enqueued
      first == at[t].empty /\ mach.sq # <<>> /\ at[t].item = Head(mach.sq)
  IN /\ at[t].pc = "try"
     /\ IF ~at[t].empty /\ mach.enqueued THEN UNCHANGED mach /\ Goto(t, Back(t))
        ELSE IF free
          THEN /\ mach' = IF extra THEN Release(w, 2) ELSE w
               /\ Goto(t, [Back(t) EXCEPT !.pc = "pop", !.ret = at[t].ret,
                                          !.old = IF first THEN at[t].old ELSE Null])
        ELSE IF mach.owner # Null
          THEN mach' = (IF extra THEN Release(w, 2) ELSE w) /\ Goto(t, Back(t))
        ELSE IF at[t].empty
          THEN mach' = w /\ Goto(t, WakesUp(t, TRUE, FALSE, extra))
        ELSE mach' = w /\ Goto(t, Back(t))

\* _dispatch_mach_wakeup looks, then _dispatch_queue_wakeup wakes.
Look(t) ==
  /\ at[t].pc = "wake"
  /\ Goto(t, [at[t] EXCEPT !.pc = "woken", !.tq = Target(mach, at[t].event)])
  /\ mach' = Crash(Missed(mach), "Use after free", mach.refs = 0)

Wake(t) ==
  /\ at[t].pc = "woken"
  /\ mach' = Woken(mach, at[t].tq, at[t].dirty, at[t].consume)
  /\ Goto(t, Back(t))

\* _dispatch_mach_send_invoke, at the point where a thread means to drain.
Invoked(w, t, needsBarrier, barriers, dirty, ret) ==
  LET free == w.owner = Null /\ (w.pending = needsBarrier \/ (barriers /\ ~needsBarrier))
      in == [at[t] EXCEPT !.pc = "pop", !.barriers = barriers, !.ret = ret]
  IN IF free THEN mach' = Locked(w, t) /\ Goto(t, in)
     ELSE /\ mach' = [w EXCEPT !.dirty = @ \/ dirty]
          /\ Goto(t, [in EXCEPT !.pc = ret, !.barriers = FALSE, !.ret = "idle"])

-----------------------------------------------------------------------------
(* _dispatch_mach_send_drain                                                *)

\* Takes the first item, or sees that there is none.
Pop(t) ==
  /\ at[t].pc = "pop"
  /\ IF mach.sq = <<>> THEN UNCHANGED mach /\ Goto(t, [at[t] EXCEPT !.pc = "unlock"])
     ELSE /\ mach' = [mach EXCEPT !.sq = Tail(@)]
          /\ Goto(t, [at[t] EXCEPT !.pc = "act", !.item = Head(mach.sq)])

\* Faulty variant: the lock word is given up although it is dirty.
UnlockAnyway(t) ==
  LET open == [mach EXCEPT !.owner = Null, !.dirty = FALSE, !.pending = FALSE, !.enqueued = FALSE]
  IN /\ at[t].pc = "unlock"
     /\ mach' = IF mach.enqueued THEN Release(open, 2) ELSE open
     /\ Goto(t, Back(t))

\* The queue is empty: the lock word is given up unless it is dirty.
Unlock(t) ==
  LET open == [mach EXCEPT !.owner = Null, !.dirty = FALSE, !.pending = FALSE, !.enqueued = FALSE]
      ends == mach.disconnected /\ mach.cancels = 0
      dirty == at[t].dirty \/ ends
  IN /\ at[t].pc = "unlock"
     /\ IF mach.dirty
          THEN /\ mach' = [mach EXCEPT !.dirty = FALSE, !.pending = FALSE]
               /\ Goto(t, [at[t] EXCEPT !.pc = "pop"])
        ELSE IF dirty THEN mach' = open /\ Goto(t, WakesUp(t, TRUE, ends, mach.enqueued))
        ELSE /\ mach' = IF mach.enqueued THEN Release(open, 2) ELSE open
             /\ Goto(t, Back(t))

Act(t) ==
  LET item == at[t].item
      m == item[2]
      immediate == at[t].old = m
      next == [at[t] EXCEPT !.pc = "pop", !.item = Null, !.old = Null]
      undo(w) == [at[t] EXCEPT !.pc = "undo", !.dirty = @ \/ w.needs_mgr, !.old = Null]
      sent == Send(mach, t, m, immediate)
      w == Reconnected(mach, m)
  IN /\ at[t].pc = "act"
     /\ \/ /\ item[1] = "barrier"
           /\ IF at[t].barriers THEN mach' = Told(mach, item) /\ Goto(t, next)
              ELSE UNCHANGED mach /\ Goto(t, [undo(mach) EXCEPT !.dirty = at[t].dirty])
        \/ /\ item[1] = "reconnect"
           /\ IF mach.unote /\ t # Manager
                THEN mach' = [mach EXCEPT !.needs_mgr = TRUE] /\ Goto(t, undo(mach'))
              ELSE IF w.disconnect_cnt = mach.disconnect_cnt
                THEN mach' = w /\ Goto(t, [undo(w) EXCEPT !.dirty = at[t].dirty])
              ELSE mach' = w /\ Goto(t, next)
        \/ /\ item[1] = "msg"
           /\ IF mach.disconnect_cnt > 0 \/ mach.canceled
                THEN mach' = NotSent(mach, m) /\ Goto(t, next)
              ELSE IF sent.ok THEN mach' = sent.w /\ Goto(t, next)
              ELSE mach' = sent.w /\ Goto(t, undo(sent.w))

\* What could not be done goes back to the front.
Undo(t) ==
  /\ at[t].pc = "undo"
  /\ mach' = [mach EXCEPT !.sq = <<at[t].item>> \o @]
  /\ Goto(t, [at[t] EXCEPT !.pc = "partial"])

\* Gives up the lock with an item left, unless something new has come.
Partial(t) ==
  LET barrier == at[t].item[1] = "barrier"
      left == [mach EXCEPT !.owner = Null, !.dirty = TRUE, !.pending = @ \/ barrier]
  IN /\ at[t].pc = "partial"
     /\ IF mach.dirty /\ ~barrier
          THEN /\ mach' = [mach EXCEPT !.dirty = FALSE, !.pending = FALSE]
               /\ Goto(t, [at[t] EXCEPT !.pc = "pop", !.item = Null])
        ELSE IF left.pending THEN mach' = Push(left, <<"drain", Null>>) /\ Goto(t, Back(t))
        ELSE /\ mach' = left
             /\ Goto(t, IF at[t].dirty THEN WakesUp(t, TRUE, FALSE, FALSE) ELSE Back(t))

-----------------------------------------------------------------------------
(* _dispatch_mach_invoke2, on the target queue or on the manager queue      *)

LockLane(t) ==
  LET w == [mach EXCEPT !.lane.running = TRUE, !.lane.dirty = FALSE]
  IN /\ at[t].pc = "idle"
     /\ ~mach.lane.running
     /\ mach.lane.enq = IF t = Worker THEN "target" ELSE "mgr"
     /\ mach' = IF mach.installed \/ t = Manager THEN w
                ELSE [w EXCEPT !.installed = TRUE,
                               !.recv = IF mach.canceled \/ ~mach.local THEN "no" ELSE "armed"]
     /\ Goto(t, IF mach.installed \/ t = Worker THEN [Idle EXCEPT !.pc = "rq"]
                ELSE [Idle EXCEPT !.pc = "finish", !.retq = "target"])

\* The events for the handler, drained on the target queue only; then the receive
\* right is armed again.
Drain(t) ==
  LET item == Head(mach.rq)
      w == [mach EXCEPT !.rq = Tail(@)]
      left == mach.rq # <<>>
      rearm == ~left /\ ~mach.canceled /\ mach.recv = "disarmed"
  IN /\ at[t].pc = "rq"
     /\ IF left /\ t = Worker
          THEN IF item[1] = "drain" THEN Invoked(w, t, TRUE, TRUE, FALSE, "rq")
               ELSE mach' = Told(w, item) /\ UNCHANGED at
        ELSE /\ mach' = IF rearm THEN [mach EXCEPT !.recv = "armed"] ELSE mach
             /\ Goto(t, [at[t] EXCEPT !.pc = "sends", !.canceled = mach.canceled,
                                      !.retq = IF left THEN "target" ELSE "none"])

Or(retq, tq) == IF retq = "none" THEN tq ELSE retq

\* The send queue, unless a notification will come for it.
Sends(t) ==
  LET mgr == IF mach.disconnect_cnt > 0 THEN mach.unote ELSE mach.needs_mgr
      waits == mach.armed /\ mach.disconnect_cnt = 0
  IN /\ at[t].pc = "sends"
     /\ IF mach.sq = <<>> THEN mach' = Missed(mach) /\ Goto(t, [at[t] EXCEPT !.pc = "cancel"])
        ELSE IF waits
          THEN UNCHANGED mach /\ Goto(t, [at[t] EXCEPT !.pc = "cancel", !.retq = Or(@, "wait")])
        ELSE IF mgr /\ t # Manager
          THEN UNCHANGED mach /\ Goto(t, [at[t] EXCEPT !.pc = "finish", !.retq = Or(@, "mgr")])
        ELSE Invoked(Missed(mach), t, FALSE, t = Worker, FALSE, "sent")

Sent(t) ==
  LET retq == IF mach.rq # <<>> THEN Or(at[t].retq, "target") ELSE at[t].retq
  IN /\ at[t].pc = "sent"
     /\ Goto(t, [at[t] EXCEPT !.pc = "cancel",
                              !.retq = IF mach.sq # <<>> THEN Or(retq, "wait") ELSE retq])
     /\ UNCHANGED mach

Cancels(t) ==
  LET c == Cancel(mach)
      w == IF mach.deleted THEN mach ELSE c.w
      finish(retq) == [at[t] EXCEPT !.pc = "finish", !.retq = retq]
  IN /\ at[t].pc = "cancel"
     /\ IF ~at[t].canceled THEN UNCHANGED mach /\ Goto(t, finish(at[t].retq))
        ELSE IF ~mach.deleted /\ ~c.gone THEN mach' = w /\ Goto(t, finish(Or(at[t].retq, "wait")))
        ELSE IF mach.cancels > 0 THEN mach' = w /\ Goto(t, finish(at[t].retq))
        ELSE IF t = Manager THEN mach' = w /\ Goto(t, finish(Or(at[t].retq, "target")))
        ELSE IF w.rq # <<>> THEN mach' = w /\ Goto(t, [at[t] EXCEPT !.pc = "rq"])
        ELSE mach' = CancelHandler(w) /\ Goto(t, finish(at[t].retq))

\* _dispatch_queue_class_invoke: unlocks the lane unless it is dirty, or hands it on.
Finish(t) ==
  LET retq == at[t].retq
      done == retq \in {"none", "wait"}
      off == [mach EXCEPT !.lane = [enq |-> "no", running |-> FALSE, dirty |-> retq = "wait"]]
  IN /\ at[t].pc = "finish"
     /\ IF done /\ mach.lane.dirty
          THEN /\ mach' = [mach EXCEPT !.lane.dirty = FALSE]
               /\ Goto(t, [Idle EXCEPT !.pc = "rq"])
        ELSE /\ mach' = IF done THEN Release(off, 2)
                        ELSE [mach EXCEPT !.lane = [enq |-> retq, running |-> FALSE, dirty |-> TRUE]]
             /\ Goto(t, Idle)

-----------------------------------------------------------------------------
(* Events                                                                   *)

\* _dispatch_mach_notification_merge_evt, on the manager queue.
Notified ==
  LET t == Manager
      dead == mach.notify = "dead"
      w == [mach EXCEPT !.notify = "no", !.armed = FALSE, !.unote = @ /\ ~dead]
  IN /\ at[t].pc = "idle"
     /\ mach.notify \in {"fired", "dead"}
     /\ Invoked(Retain(w, 2), t, FALSE, FALSE, TRUE, "noted")

NotifiedEnd ==
  /\ at[Manager].pc = "noted"
  /\ mach' = Release(mach, 2)
  /\ Goto(Manager, Idle)

\* The peer and its port: it fills up, has room again, or dies; it sends messages
\* and replies.
Peer ==
  /\ \/ /\ mach.env.port = "free" /\ mach.env.fills > 0
        /\ mach' = [mach EXCEPT !.env.port = "full", !.env.fills = @ - 1]
     \/ /\ mach.env.port = "full"
        /\ mach' = [mach EXCEPT !.env.port = "free",
                                !.notify = IF @ = "armed" THEN "fired" ELSE @]
     \/ /\ mach.env.port # "dead" /\ mach.env.dies
        /\ mach' = [mach EXCEPT !.env.port = "dead", !.env.dies = FALSE,
                                !.notify = IF mach.unote THEN "dead" ELSE @]
     \/ /\ mach.recv = "armed" /\ mach.env.arrivals > 0
        /\ mach' = [mach EXCEPT !.recv = "inflight", !.env.arrivals = @ - 1]
     \/ /\ Plans[plan].answers
        /\ \E m \in Messages :
             /\ mach.reply[m] \in {"armed", "waiting"}
             /\ mach' = [mach EXCEPT !.reply[m] = IF @ = "armed" THEN "inflight" ELSE "come"]
  /\ UNCHANGED at

\* _dispatch_mach_merge_msg: looks if the channel is cancelled, and pushes later.
Merge ==
  /\ mach.recv \in {"inflight", "deleting"}
  /\ mach.env.event = "no"
  /\ mach' = Retain([mach EXCEPT !.recv = IF @ = "deleting" THEN "deleted" ELSE "disarmed",
                                 !.env.event = IF mach.canceled THEN "drop" ELSE "push"], 2)
  /\ UNCHANGED at

MergeEnd ==
  LET came == [mach EXCEPT !.env.event = "no"]
      w == IF mach.env.event = "push" THEN Push(came, <<"received", Null>>) ELSE came
  IN /\ mach.env.event # "no"
     /\ mach' = IF mach.recv = "deleted" THEN Wakes(w, TRUE, TRUE, TRUE)
                ELSE Release(w, 2)
     /\ UNCHANGED at

\* _dispatch_mach_reply_merge_msg.
ReplyMerge(m) ==
  /\ mach.reply[m] = "inflight"
  /\ mach' = LET w == Retain(mach, 2)
             IN IF mach.canceled THEN [w EXCEPT !.reply[m] = "dropped"]
                ELSE Push([w EXCEPT !.reply[m] = "answered"], <<"answer", m>>)
  /\ UNCHANGED at

\* _dispatch_mach_reply_unregister with DMRU_ASYNC_MERGE: wakes up a reconnect that
\* waits for the last reply.
ReplyUnregister(m) ==
  LET off == [mach EXCEPT !.replies = @ \ {m}, !.reply[m] = "no"]
      w == IF mach.reply[m] = "dropped" THEN NoReply(off, m) ELSE off
  IN /\ mach.reply[m] \in {"answered", "dropped"}
     /\ mach' = IF off.replies = {} /\ mach.disconnect_cnt > 0
                  THEN Wakes(w, FALSE, TRUE, TRUE)
                ELSE Release(w, 2)
     /\ UNCHANGED at

-----------------------------------------------------------------------------
(* Clients                                                                  *)

Call(t) == Plans[plan].calls[t][at[t].i]

Calling(t) == at[t].pc = "idle" /\ at[t].i <= Len(Plans[plan].calls[t])

After(t, ret) == [at[t] EXCEPT !.i = @ + 1, !.ret = ret]

\* _dispatch_mach_send_msg.  An answer to a send-once right needs no queue.
CallSend(t) ==
  LET m == Call(t)[2]
      result == Call(t)[1] = "result"
      direct == Kind(m) = "answer" /\ mach.disconnect_cnt = 0 /\ ~mach.canceled
      then == After(t, IF Kind(m) = "wait" THEN "recv" ELSE "idle")
  IN /\ Calling(t) /\ Call(t)[1] \in {"send", "result"}
     /\ IF direct THEN mach' = Send(mach, t, m, result).w /\ Goto(t, After(t, "idle"))
        ELSE PushSend(t, <<"msg", m>>, TRUE, [then EXCEPT !.old = IF result THEN m ELSE Null])

\* dispatch_mach_send_barrier and dispatch_mach_receive_barrier.
CallBarrier(t) ==
  /\ Calling(t)
  /\ \/ /\ Call(t)[1] = "barrier"
        /\ PushSend(t, <<"barrier", Call(t)[2]>>, FALSE, After(t, "idle"))
     \/ /\ Call(t)[1] = "receive barrier"
        /\ mach' = Push(mach, <<"barrier", Call(t)[2]>>)
        /\ Goto(t, After(t, "idle"))

\* dispatch_mach_cancel: the flag, then what dispatch_mach_reconnect does.
CallCancel(t) ==
  /\ Calling(t) /\ Call(t)[1] = "cancel"
  /\ IF mach.canceled THEN UNCHANGED mach /\ Goto(t, After(t, "idle"))
     ELSE mach' = Retain([mach EXCEPT !.canceled = TRUE], 1)
          /\ Goto(t, [at[t] EXCEPT !.pc = "reconnect"])

\* dispatch_mach_reconnect counts first and pushes then.
CallReconnect(t) ==
  /\ \/ Calling(t) /\ Call(t)[1] = "reconnect"
     \/ at[t].pc = "reconnect"
  /\ mach' = [mach EXCEPT !.disconnect_cnt = @ + 1]
  /\ Goto(t, [at[t] EXCEPT !.pc = "counted"])

PushReconnect(t) ==
  LET cancel == Call(t)[1] = "cancel"
  IN /\ at[t].pc = "counted"
     /\ PushSend(t, <<"reconnect", IF cancel THEN "cancel" ELSE Call(t)[2]>>, FALSE,
                 After(t, IF cancel THEN "release" ELSE "idle"))

\* The end of dispatch_mach_cancel, or the application's reference goes.
CallRelease(t) ==
  /\ \/ at[t].pc = "release"
     \/ /\ Calling(t) /\ Call(t)[1] = "release"
        /\ \A c \in Clients \ {t} : at[c].pc = "idle" /\ ~Calling(c)
  /\ mach' = Release(mach, 1)
  /\ Goto(t, IF at[t].pc = "release" THEN [at[t] EXCEPT !.pc = "idle", !.ret = "idle"]
             ELSE After(t, "idle"))

\* dispatch_mach_send_and_wait_for_reply, after the message is pushed: the reply
\* comes, or the port of the thread is destroyed because there will be none.
Receive(t) ==
  LET m == Plans[plan].calls[t][at[t].i - 1][2]
      w == [mach EXCEPT !.replies = IF mach.reply[m] = "come" THEN @ \ {m} ELSE @,
                        !.reply[m] = "done", !.answers[m] = @ + 1]
      used == m \in w.replies \/ <<"msg", m>> \in Range(w.sq)
              \/ \E u \in Actors : at[u].item = <<"msg", m>>
  IN /\ at[t].pc = "recv"
     /\ mach.reply[m] \in {"come", "dead"}
     /\ mach' = Crash(w, "The stack of a waiter is in use after it returned", used)
     /\ Goto(t, [at[t] EXCEPT !.pc = "idle", !.ret = "idle"])

\* What every thread may do that drains the send queue.
SendStep(t) ==
  StatePush(t) \/ StateLeave(t) \/ StateTry(t) \/ Look(t) \/ Wake(t)
  \/ Pop(t) \/ Unlock(t) \/ Act(t) \/ Undo(t) \/ Partial(t)

LaneStep(t) ==
  LockLane(t) \/ Drain(t) \/ Sends(t) \/ Sent(t) \/ Cancels(t) \/ Finish(t)

ClientStep(t) ==
  CallSend(t) \/ CallBarrier(t) \/ CallCancel(t) \/ CallReconnect(t) \/ PushReconnect(t)
  \/ CallRelease(t) \/ Receive(t)

MachNext ==
  /\ mach.crash = "no"
  /\ \/ \E t \in Actors : SendStep(t)
     \/ \E t \in {Worker, Manager} : LaneStep(t)
     \/ \E t \in Clients : ClientStep(t)
     \/ Notified \/ NotifiedEnd \/ Peer \/ Merge \/ MergeEnd
     \/ \E m \in Messages : ReplyMerge(m) \/ ReplyUnregister(m)
  /\ UNCHANGED plan

MachSpec == MachInit /\ [][MachNext]_machVars

-----------------------------------------------------------------------------
(* Properties                                                               *)

\* The channel is not used after its last reference is gone, nor the stack of a
\* thread that waits for a reply after it has it; nothing comes in after the
\* cancel handler has run.
MachNeverCrashes == mach.crash = "no"

\* Every message is given back once and every reply is told once, or that there
\* will be none; the cancel handler runs at most once.
FateIsTold ==
  /\ \A m \in Messages : mach.fate[m] <= 1 /\ mach.answers[m] <= 1
  /\ mach.cancels <= 1

\* Messages leave in the order they were pushed in, the check-in messages aside
\* and answers to send-once rights.
SentInOrder ==
  LET queued == SelectSeq(mach.wire, LAMBDA m : Kind(m) \notin {"checkin", "answer"})
      inOrder == SelectSeq(mach.pushed, LAMBDA m : m \in Range(queued))
  IN queued = inOrder

\* A send barrier runs after all that was pushed before it has been sent or given
\* back, and before anything pushed after it is sent.
BarrierIsBetween ==
  \A i, j \in DOMAIN mach.pushed :
    LET b == mach.pushed[i]
        m == mach.pushed[j]
        sent == m \in Range(mach.wire)
        held == \/ \E k \in DOMAIN mach.sq : mach.sq[k][2] = m
                \/ \E t \in Actors : at[t].pc \in {"act", "undo"} /\ at[t].item[2] = m
    IN /\ b \in Messages /\ Kind(b) = "barrier"
       => IF j < i THEN mach.fate[b] = 1 => ~held ELSE sent => mach.fate[b] = 1

\* No thread has anything to do.
Quiet ==
  /\ \A t \in Actors : at[t].pc \in {"idle", "recv"}
  /\ \A t \in Clients : ~Calling(t) \/ at[t].pc = "recv"
  /\ \A t \in Clients : at[t].pc = "recv" =>
       mach.reply[Plans[plan].calls[t][at[t].i - 1][2]] \notin {"come", "dead"}
  /\ mach.lane.enq = "no" /\ mach.notify \notin {"fired", "dead"}
  /\ mach.recv \notin {"inflight", "deleting"} /\ mach.env.event = "no"
  /\ \A m \in Messages : mach.reply[m] \notin {"inflight", "answered", "dropped"}

\* Something outside of the process may still come: room in the port of the peer, or
\* an asynchronous reply.
Expected ==
  \/ mach.armed /\ mach.notify = "armed" /\ mach.env.port # "free"
  \/ \E m \in Messages : mach.reply[m] = "armed"

\* When nobody has anything to do, no event is left for the handler; what is left to
\* send waits for something outside, or for a wakeup that was left to the holder of
\* the lock; if not, a cancelled channel has run its cancel handler, nobody waits for
\* a reply there, and only the application and the flag ENQUEUED hold references; a
\* message that was sent has been given back.
NothingIsStranded ==
  Quiet =>
    /\ mach.rq = <<>> /\ mach.owner = Null
    /\ mach.sq # <<>> => Expected \/ mach.missed
    /\ mach.canceled /\ ~Expected /\ ~mach.missed =>
         /\ mach.cancels = 1 /\ mach.sq = <<>> /\ mach.replies = {}
         /\ \A t \in Clients : at[t].pc # "recv"
         /\ mach.refs <= IF mach.enqueued THEN 3 ELSE 1
    /\ \A m \in Messages : mach.fate[m] = 0 =>
         \/ m \notin Range(mach.pushed) /\ m \notin Range(mach.wire)
         \/ m = mach.checkin
         \/ \E k \in DOMAIN mach.sq : mach.sq[k][2] = m

\* The channel is woken up when the send lock is dropped: what could be sent is not
\* left in the queue when nobody has anything to do.
WokenWhenLockDrops == Quiet /\ mach.sq # <<>> => Expected

MachIsSound ==
  MachNeverCrashes /\ FateIsTold /\ SentInOrder /\ BarrierIsBetween /\ NothingIsStranded
=============================================================================
