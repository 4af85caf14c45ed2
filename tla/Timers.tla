------------------------------- MODULE Timers -------------------------------
(* Timer sources: source.c and event/event.c.                               *)
(*                                                                          *)
(* The manager thread owns the heaps of armed timers, one for each clock,   *)
(* and one kernel timer for each heap.  It runs the timers that are due: it *)
(* counts the periods that have passed into ds_pending_data, wakes the      *)
(* source, and keeps the timer armed while its handler keeps up.  The       *)
(* source's target queue takes the count and calls the handler.  Neither    *)
(* takes a lock for that.  Who may count, and write dt_timer, is the matter *)
(* of the DISARMED marker in ds_pending_data: without it the manager, with  *)
(* it whoever takes the data.                                               *)
(*                                                                          *)
(* How sources are locked and woken is in module Source and coarser here;   *)
(* the order of the heap is in module TimerHeap.                            *)
EXTENDS Integers, FiniteSets

CONSTANTS
  Timers,
  Kinds,        \* of timer: "timer" (repeating or not), "after" (dispatch_after)
  Settings,     \* what dispatch_source_set_timer is called with
  Window,       \* _dispatch_kevent_coalescing_window
  MaxTime,      \* bound: the clocks stop
  MaxJumps,     \* bound: changes of the calendar
  MaxSets,      \* bound: calls of dispatch_source_set_timer, of all timers
  MaxSuspends   \* bound: calls of dispatch_suspend, of all timers

VARIABLES
  world,     \* uptime, how far the wall clock is ahead, calls so far
  kind,
  dt,        \* dt_timer, clock and unote state of each timer
  config,    \* dt_pending_config
  pending,   \* ds_pending_data: a count and the DISARMED marker
  src,       \* state of the source: lock, place, flags
  heap,      \* dirty bits, and of each heap whether it must be programmed, is armed
  kernel,    \* the kernel's timer of each clock
  doing,     \* what the manager and the thread of each target queue are doing
  told       \* for the properties

timerVars == <<world, kind, dt, config, pending, src, heap, kernel, doing, told>>

Clocks == {"uptime", "wall"}
Never == 1000               \* INT64_MAX, and UINT64_MAX where that is meant
Manager == "manager"
Actors == {Manager} \cup Timers     \* the thread of t's target queue is called t
None == "none"
NoData == [n |-> 0, marker |-> FALSE]
NoCache == [c \in Clocks |-> 0]
NoConfig == [clock |-> None, target |-> 0, deadline |-> 0, interval |-> 0]
NoTimer == [at |-> 0, leeway |-> 0]
Idle == [pc |-> "idle", t |-> None, tq |-> None, n |-> 0, marker |-> FALSE,
         flags |-> {}, starve |-> FALSE, nows |-> NoCache]

Clock(c) == IF c = "wall" THEN world.up + world.ahead ELSE world.up
Smaller(a, b) == IF a < b THEN a ELSE b

\* _dispatch_timer_config_create: the leeway of a repeating timer is at most half
\* its interval, and a timer that is put off forever keeps its clock.
ConfigCreate(t, s) ==
  LET target == IF s.delay = Never THEN Never ELSE Clock(s.clock) + s.delay
      leeway == IF s.interval < Never THEN Smaller(s.leeway, s.interval \div 2)
                                      ELSE s.leeway
  IN [clock |-> IF s.delay = Never THEN dt[t].clock ELSE s.clock, target |-> target,
      deadline |-> Smaller(target + leeway, Never), interval |-> s.interval]

TimersInit ==
  /\ world = [up |-> 1, ahead |-> 1, jumps |-> 0, notice |-> FALSE, sets |-> 0, susps |-> 0]
  /\ kind \in [Timers -> Kinds]
  /\ dt = [t \in Timers |->
             [clock |-> "uptime", deadline |-> IF kind[t] = "after" THEN 3 ELSE Never,
              target |-> IF kind[t] = "after" THEN 2 ELSE Never, interval |-> Never,
              armed |-> FALSE, registered |-> FALSE, ident |-> "uptime"]]
  /\ config = [t \in Timers |-> NoConfig]
  /\ pending = [t \in Timers |-> NoData]
  /\ src = [t \in Timers |->
              [inactive |-> TRUE, installed |-> FALSE, susp |-> 0, flags |-> {},
               handlers |-> TRUE, owner |-> None, dirty |-> FALSE, place |-> None]]
  /\ heap = [dirty |-> FALSE, program |-> {}, armed |-> {}]
  /\ kernel = [c \in Clocks |-> NoTimer]
  /\ doing = [a \in Actors |-> Idle]
  /\ told = [t \in Timers |-> [n |-> 0, from |-> dt[t].target, owned |-> 0,
                               wakes |-> 0]]

Suspended(t) == src[t].susp > 0 \/ src[t].inactive
Cancelled(flags) == flags \cap {"canceled", "released"} # {}
Goto(a, pc) == doing' = [doing EXCEPT ![a].pc = pc]
Done(a) == doing' = [doing EXCEPT ![a] = Idle]

-----------------------------------------------------------------------------
(* The heaps, with the timers as the manager has changed them in d.         *)

ArmedOn(d, c) == {t \in Timers : d[t].armed /\ d[t].clock = c}
IsMin(d, t, key) == \A u \in ArmedOn(d, d[t].clock) : d[t][key] <= d[u][key]
TouchesMin(d, t) == IsMin(d, t, "target") \/ IsMin(d, t, "deadline")

\* What arming, moving and disarming t does to the heap of its clock: it is dirty,
\* and it must be programmed if t was or becomes the next one.
Dirtied(h, old, d, t) ==
  [h EXCEPT !.dirty = TRUE,
            !.program = @ \cup (IF old[t].armed /\ TouchesMin(old, t)
                                  THEN {old[t].clock} ELSE {})
                          \cup (IF d[t].armed /\ TouchesMin(d, t)
                                  THEN {d[t].clock} ELSE {})]

\* _dispatch_timer_unote_needs_rearm.
MayArm(d, t) == ~Suspended(t) /\ d[t].ident # "canceled" /\ d[t].target < Never

\* _dispatch_timer_unote_resume, of a timer whose new parameters are in d: the
\* heap owns two references of an armed source.
Resume(d, t, n, from) ==
  LET e == [d EXCEPT ![t].armed = MayArm(d, t)]
      refs == (IF e[t].armed THEN 2 ELSE 0) - (IF dt[t].armed THEN 2 ELSE 0)
  IN /\ dt' = e
     /\ heap' = IF e[t].armed \/ dt[t].armed THEN Dirtied(heap, dt, e, t) ELSE heap
     /\ told' = [told EXCEPT ![t].owned = @ + refs, ![t].n = n, ![t].from = from]

\* _dispatch_timer_unote_configure: pending data of the old parameters is dropped,
\* an armed timer is moved.
Configure(t) ==
  LET c == config[t]
      d == [dt EXCEPT ![t] = [@ EXCEPT !.clock = c.clock, !.target = c.target,
                                       !.deadline = c.deadline, !.interval = c.interval]]
  IN /\ config' = [config EXCEPT ![t] = NoConfig]
     /\ pending' = [pending EXCEPT ![t] = NoData]
     /\ IF dt[t].armed THEN Resume(d, t, 0, c.target)
        ELSE /\ dt' = d /\ UNCHANGED heap
             /\ told' = [told EXCEPT ![t].n = 0, ![t].from = c.target]

\* _dispatch_timer_unote_compute_missed.
Missed(t, time) == (time - dt[t].target) \div dt[t].interval + 1
Pushed(t, missed) ==
  IF dt[t].interval < Never
    THEN [dt EXCEPT ![t].target = @ + missed * dt[t].interval,
                    ![t].deadline = @ + missed * dt[t].interval]
    ELSE [dt EXCEPT ![t].target = Never, ![t].deadline = Never]

-----------------------------------------------------------------------------
(* Wakeups and calls of clients: one thread calls for each timer            *)

NeedsRearm(t) ==
  \/ config[t] # NoConfig
  \/ dt[t].registered /\ ~dt[t].armed /\ dt[t].target < Never

\* _dispatch_source_wakeup.
WakeTarget(t) ==
  LET s == src[t]
  IN IF ~s.installed THEN "mgr"
     ELSE IF ~Cancelled(s.flags) /\ config[t] # NoConfig THEN "mgr"
     ELSE IF ~Cancelled(s.flags) /\ pending[t] # NoData THEN "target"
     ELSE IF Cancelled(s.flags) /\ "deleted" \notin s.flags
       THEN IF dt[t].armed THEN "mgr" ELSE "target"
     ELSE IF Cancelled(s.flags) /\ s.handlers THEN "target"
     ELSE IF ~Cancelled(s.flags) /\ NeedsRearm(t) THEN "mgr" ELSE None

\* _dispatch_queue_wakeup.
Woken(t, tq) ==
  LET free == src[t].owner = None \/ tq # "mgr"
      push == ~Suspended(t) /\ src[t].place = None /\ free
  IN IF tq = None THEN src
     ELSE [src EXCEPT ![t].dirty = TRUE, ![t].place = IF push THEN tq ELSE @]

Wakeup(t) ==
  /\ told[t].wakes > 0
  /\ told' = [told EXCEPT ![t].wakes = @ - 1]
  /\ src' = Woken(t, WakeTarget(t))
  /\ UNCHANGED <<world, kind, dt, config, pending, heap, kernel, doing>>

\* dispatch_source_set_timer.
SetTimer(t, s) ==
  /\ told[t].wakes = 0 /\ kind[t] = "timer" /\ world.sets < MaxSets
  /\ config' = [config EXCEPT ![t] = ConfigCreate(t, s)]
  /\ world' = [world EXCEPT !.sets = @ + 1]
  /\ told' = [told EXCEPT ![t].wakes = @ + 1]
  /\ UNCHANGED <<kind, dt, pending, src, heap, kernel, doing>>

\* dispatch_activate: the timer is registered at once if its target hierarchy is
\* settled, on the manager queue otherwise.
Register(t) ==
  /\ src' = [src EXCEPT ![t].installed = TRUE, ![t].inactive = FALSE]
  /\ IF config[t] # NoConfig
       THEN LET c == config[t]
            IN /\ dt' = [dt EXCEPT ![t] = [@ EXCEPT !.registered = TRUE, !.clock = c.clock,
                                !.target = c.target, !.deadline = c.deadline,
                                !.interval = c.interval]]
               /\ config' = [config EXCEPT ![t] = NoConfig]
               /\ pending' = [pending EXCEPT ![t] = NoData]
       ELSE dt' = [dt EXCEPT ![t].registered = TRUE] /\ UNCHANGED <<config, pending>>

From(t) == IF config[t] # NoConfig THEN config[t].target ELSE dt[t].target

Activate(t) ==
  /\ told[t].wakes = 0 /\ src[t].inactive /\ ~Cancelled(src[t].flags)
  /\ \/ /\ Register(t)
        /\ told' = [told EXCEPT ![t].wakes = @ + 1, ![t].from = From(t)]
     \/ /\ src' = [src EXCEPT ![t].inactive = FALSE]
        /\ told' = [told EXCEPT ![t].wakes = @ + 1]
        /\ UNCHANGED <<dt, config, pending>>
  /\ UNCHANGED <<world, kind, heap, kernel, doing>>

Suspend(t) ==
  /\ told[t].wakes = 0 /\ kind[t] = "timer" /\ src[t].susp = 0 /\ ~src[t].inactive
  /\ world.susps < MaxSuspends
  /\ src' = [src EXCEPT ![t].susp = 1]
  /\ world' = [world EXCEPT !.susps = @ + 1]
  /\ UNCHANGED <<kind, dt, config, pending, heap, kernel, doing, told>>

\* dispatch_resume leaves it to whoever has the lock, or wakes the source.
Resumed(t) ==
  /\ told[t].wakes = 0 /\ src[t].susp > 0
  /\ LET owned == src[t].owner # None
     IN /\ src' = [src EXCEPT ![t].susp = 0, ![t].dirty = @ \/ owned]
        /\ told' = [told EXCEPT ![t].wakes = IF owned THEN @ ELSE @ + 1]
  /\ UNCHANGED <<world, kind, dt, config, pending, heap, kernel, doing>>

Cancel(t) ==
  /\ told[t].wakes = 0 /\ kind[t] = "timer" /\ ~src[t].inactive /\ ~Cancelled(src[t].flags)
  /\ src' = [src EXCEPT ![t].flags = @ \cup {"canceled"}]
  /\ told' = [told EXCEPT ![t].wakes = @ + 1]
  /\ UNCHANGED <<world, kind, dt, config, pending, heap, kernel, doing>>

-----------------------------------------------------------------------------
(* External: time passes, somebody sets the calendar                        *)

Tick ==
  /\ world.up < MaxTime
  /\ world' = [world EXCEPT !.up = @ + 1]
  /\ UNCHANGED <<kind, dt, config, pending, src, heap, kernel, doing, told>>

\* The kernel tells whoever asked for it, with a message.
CalendarChange ==
  /\ world.jumps < MaxJumps
  /\ \E ahead \in {world.ahead - 1, world.ahead + 1} :
       world' = [world EXCEPT !.ahead = ahead, !.jumps = @ + 1, !.notice = TRUE]
  /\ UNCHANGED <<kind, dt, config, pending, src, heap, kernel, doing, told>>

-----------------------------------------------------------------------------
(* The manager: _dispatch_event_loop_drain_timers                           *)

ManagerIdle == doing[Manager].pc = "idle"

\* _dispatch_kevent_timer_drain: a kernel timer fires once.
KernelTimer(c) ==
  /\ ManagerIdle /\ kernel[c] # NoTimer
  /\ world.up >= kernel[c].at
  /\ kernel' = [kernel EXCEPT ![c] = NoTimer]
  /\ heap' = [heap EXCEPT !.dirty = TRUE, !.program = @ \cup {c}, !.armed = @ \ {c}]
  /\ UNCHANGED <<world, kind, dt, config, pending, src, doing, told>>

\* _dispatch_timers_calendar_change.
CalendarNotice ==
  /\ ManagerIdle /\ world.notice
  /\ world' = [world EXCEPT !.notice = FALSE]
  /\ heap' = [heap EXCEPT !.dirty = TRUE, !.program = @ \cup {"wall"}]
  /\ UNCHANGED <<kind, dt, config, pending, src, kernel, doing, told>>

DrainTimers ==
  /\ ManagerIdle /\ heap.dirty
  /\ doing' = [doing EXCEPT ![Manager] = [Idle EXCEPT !.pc = "run", !.tq = "uptime"]]
  /\ UNCHANGED <<world, kind, dt, config, pending, src, heap, kernel, told>>

\* The time of a clock is read once for a drain.
Cached(c) == IF doing[Manager].nows[c] = 0 THEN Clock(c) ELSE doing[Manager].nows[c]
Running(pc, t, n) ==
  doing' = [doing EXCEPT ![Manager].pc = pc, ![Manager].t = t, ![Manager].n = n,
                         ![Manager].nows[doing[Manager].tq] = Cached(doing[Manager].tq)]

Due(t) ==
  LET c == doing[Manager].tq
  IN t \in ArmedOn(dt, c) /\ IsMin(dt, t, "target") /\ dt[t].target <= Cached(c)

\* _dispatch_timer_unote_disarm.
Disarm(t, d) ==
  LET e == [d EXCEPT ![t].armed = FALSE]
  IN dt' = e /\ heap' = Dirtied(heap, dt, e, t)

\* _dispatch_timers_run, for a timer that is due.  One of dispatch_after is over.
RunAfter(t) ==
  /\ doing[Manager].pc = "run" /\ Due(t) /\ kind[t] = "after"
  /\ Disarm(t, [dt EXCEPT ![t].registered = FALSE])
  /\ pending' = [pending EXCEPT ![t] = [n |-> 1, marker |-> FALSE]]
  /\ Running("merge", t, 0)
  /\ UNCHANGED <<world, kind, config, src, kernel, told>>

RunConfigure(t) ==
  /\ doing[Manager].pc = "run" /\ Due(t) /\ kind[t] = "timer" /\ config[t] # NoConfig
  /\ Configure(t)
  /\ Running("run", None, 0)
  /\ UNCHANGED <<world, kind, src, kernel>>

\* The handler does not keep up: the timer leaves the heap, and is counted by
\* whoever takes the data.
RunBehind(t) ==
  /\ doing[Manager].pc = "run" /\ Due(t) /\ kind[t] = "timer" /\ config[t] = NoConfig
  /\ pending[t] # NoData
  /\ Disarm(t, dt)
  /\ Running("mark", t, 0)
  /\ UNCHANGED <<world, kind, config, pending, src, kernel, told>>

Mark ==
  /\ doing[Manager].pc = "mark"
  /\ pending' = [pending EXCEPT ![doing[Manager].t].marker = TRUE]
  /\ Goto(Manager, "merge")
  /\ UNCHANGED <<world, kind, dt, config, src, heap, kernel, told>>

\* Faulty variant: whether the handler keeps up is not looked at.
RunCountAlways(t) ==
  /\ doing[Manager].pc = "run" /\ Due(t) /\ kind[t] = "timer" /\ config[t] = NoConfig
  /\ LET missed == Missed(t, Cached(doing[Manager].tq))
         d == Pushed(t, missed)
         arm == MayArm(d, t)
     IN /\ IF arm THEN dt' = d /\ heap' = Dirtied(heap, dt, d, t) ELSE Disarm(t, d)
        /\ told' = [told EXCEPT ![t].owned = IF arm THEN @ + 2 ELSE @]
        /\ Running(IF arm THEN "store" ELSE "storeMarked", t, missed)
  /\ UNCHANGED <<world, kind, config, pending, src, kernel>>

\* It does: the periods are counted, and the timer stays armed if it can be.
RunCount(t) ==
  /\ doing[Manager].pc = "run" /\ Due(t) /\ kind[t] = "timer" /\ config[t] = NoConfig
  /\ pending[t] = NoData
  /\ LET missed == Missed(t, Cached(doing[Manager].tq))
         d == Pushed(t, missed)
         arm == MayArm(d, t)
     IN /\ IF arm THEN dt' = d /\ heap' = Dirtied(heap, dt, d, t) ELSE Disarm(t, d)
        /\ told' = [told EXCEPT ![t].owned = IF arm THEN @ + 2 ELSE @]
        /\ Running(IF arm THEN "store" ELSE "storeMarked", t, missed)
  /\ UNCHANGED <<world, kind, config, pending, src, kernel>>

Store ==
  /\ doing[Manager].pc \in {"store", "storeMarked"}
  /\ pending' = [pending EXCEPT ![doing[Manager].t] =
                   [n |-> doing[Manager].n, marker |-> doing[Manager].pc = "storeMarked"]]
  /\ doing' = [doing EXCEPT ![Manager].pc = "merge", ![Manager].n = 0]
  /\ UNCHANGED <<world, kind, dt, config, src, heap, kernel, told>>

\* _dispatch_source_merge_evt consumes two references.
Merge ==
  /\ doing[Manager].pc = "merge"
  /\ LET t == doing[Manager].t
     IN /\ src' = Woken(t, WakeTarget(t))
        /\ told' = [told EXCEPT ![t].owned = @ - 2]
  /\ doing' = [doing EXCEPT ![Manager].pc = "run", ![Manager].t = None]
  /\ UNCHANGED <<world, kind, dt, config, pending, heap, kernel>>

RunNext ==
  /\ doing[Manager].pc = "run" /\ \A t \in Timers : ~Due(t)
  /\ IF doing[Manager].tq = "uptime"
       THEN /\ doing' = [doing EXCEPT ![Manager].tq = "wall",
                ![Manager].nows["uptime"] =
                   IF ArmedOn(dt, "uptime") = {} THEN @ ELSE Cached("uptime")]
            /\ UNCHANGED heap
       ELSE /\ doing' = [doing EXCEPT ![Manager].pc = "program",
                ![Manager].nows["wall"] =
                   IF ArmedOn(dt, "wall") = {} THEN @ ELSE Cached("wall")]
            /\ heap' = [heap EXCEPT !.dirty = FALSE]
  /\ UNCHANGED <<world, kind, dt, config, pending, src, kernel, told>>

\* _dispatch_timers_get_delay: with several timers the target may be put off to
\* that of another one, which is not too near to the deadline.
Least(S) == CHOOSE x \in S : \A y \in S : x <= y
Targets(c) == {dt[t].target : t \in ArmedOn(dt, c)}
Deadline(c) == Least({dt[t].deadline : t \in ArmedOn(dt, c)})
Coalesced(c) ==
  LET target == Least(Targets(c))
      latest == {x \in Targets(c) : x <= Deadline(c) - Window}
  IN IF Cardinality(ArmedOn(dt, c)) > 1 /\ target + Window < Deadline(c)
       THEN latest ELSE {target}

\* _dispatch_timers_program: a heap with a timer that is due is drained again.
Overdue(c) == ArmedOn(dt, c) # {} /\ Least(Targets(c)) <= Cached(c)

\* _dispatch_event_loop_timer_program, for all clocks.
Program ==
  /\ doing[Manager].pc = "program"
  /\ LET set == {c \in heap.program : ArmedOn(dt, c) # {} /\ ~Overdue(c)}
         again == \E c \in heap.program : Overdue(c)
     IN /\ \E target \in [set -> UNION {Coalesced(c) : c \in set}] :
             /\ \A c \in set : target[c] \in Coalesced(c)
             /\ kernel' = [c \in Clocks |->
                   IF c \in set
                     THEN [at |-> world.up + (target[c] - Clock(c)),
                           leeway |-> Deadline(c) - target[c]]
                   ELSE IF c \in heap.program THEN NoTimer ELSE kernel[c]]
        /\ heap' = [dirty |-> again, program |-> {},
                    armed |-> (heap.armed \ heap.program) \cup set]
        /\ IF again THEN doing' = [doing EXCEPT ![Manager].pc = "run", ![Manager].tq = "uptime"]
                    ELSE Done(Manager)
  /\ UNCHANGED <<world, kind, dt, config, pending, src, told>>

-----------------------------------------------------------------------------
(* The invocation of t's source, by the manager or the target queue         *)

Place(a) == IF a = Manager THEN "mgr" ELSE "target"
Owns(a, t, pc) == src[t].owner = a /\ doing[a].t = t /\ doing[a].pc = pc

TryLock(a, t) ==
  /\ doing[a].pc = "idle" /\ src[t].place = Place(a) /\ a \in {Manager, t}
  /\ IF ~Suspended(t) /\ src[t].owner = None
       THEN /\ src' = [src EXCEPT ![t].owner = a, ![t].dirty = FALSE]
            /\ doing' = [doing EXCEPT ![a] = [Idle EXCEPT !.pc = "begin", !.t = t]]
       ELSE src' = [src EXCEPT ![t].place = None] /\ UNCHANGED doing
  /\ UNCHANGED <<world, kind, dt, config, pending, heap, kernel, told>>

End(a, tq) ==
  doing' = [doing EXCEPT ![a] = [Idle EXCEPT !.t = doing[a].t, !.tq = tq,
                                   !.pc = IF tq = None THEN "unlock" ELSE "finish"]]

\* What is to be done first: the source is installed and configured next to the
\* event loop, and the handler is called on the target queue.
Install(a, t) ==
  /\ Owns(a, t, "begin") /\ ~src[t].installed
  /\ IF a # Manager THEN End(a, "mgr") /\ UNCHANGED <<dt, config, pending, src, told>>
     ELSE /\ Register(t)
          /\ told' = [told EXCEPT ![t].from = From(t)]
          /\ UNCHANGED doing
  /\ UNCHANGED <<world, kind, heap, kernel>>

MustConfigure(t) == config[t] # NoConfig /\ ~Cancelled(src[t].flags)

InvokeConfigure(a, t) ==
  /\ Owns(a, t, "begin") /\ src[t].installed /\ ~Suspended(t) /\ MustConfigure(t)
  /\ IF a # Manager THEN End(a, "mgr") /\ UNCHANGED <<dt, config, pending, heap, told>>
                    ELSE Configure(t) /\ UNCHANGED doing
  /\ UNCHANGED <<world, kind, src, kernel>>

Pending(a, t) ==
  /\ Owns(a, t, "begin") /\ src[t].installed
  /\ IF Suspended(t) THEN End(a, "target")
     ELSE /\ ~MustConfigure(t)
          /\ IF Cancelled(src[t].flags) \/ pending[t] = NoData
               THEN doing' = [doing EXCEPT ![a].pc = "flags", ![a].flags = src[t].flags]
             ELSE IF a = Manager THEN End(a, "target") ELSE Goto(a, "latch")
  /\ UNCHANGED <<world, kind, dt, config, pending, src, heap, kernel, told>>

\* _dispatch_source_latch_and_call takes the count; under the marker it counts
\* itself.
Latch(a, t) ==
  /\ Owns(a, t, "latch")
  /\ pending' = [pending EXCEPT ![t] = NoData]
  /\ LET marker == pending[t].marker
     IN /\ told' = [told EXCEPT ![t].n = IF marker THEN @ ELSE @ + pending[t].n]
        /\ doing' = [doing EXCEPT ![a].pc = IF marker THEN "count" ELSE "handler",
                                  ![a].n = pending[t].n, ![a].marker = marker]
  /\ UNCHANGED <<world, kind, dt, config, src, heap, kernel>>

\* _dispatch_source_timer_data.
Count(a, t) ==
  /\ Owns(a, t, "count")
  /\ LET time == Clock(dt[t].clock)
         due == dt[t].target < Never /\ time >= dt[t].target
         missed == IF due THEN Missed(t, time) ELSE 0
     IN /\ dt' = IF due THEN Pushed(t, missed) ELSE dt
        /\ told' = [told EXCEPT ![t].n = @ + doing[a].n + missed]
  /\ doing' = [doing EXCEPT ![a].pc = "handler", ![a].n = 0]
  /\ UNCHANGED <<world, kind, config, pending, src, heap, kernel>>

\* After the handler new parameters are taken at once if the timer is ours; the
\* source of dispatch_after is released.
Handled(a, t) ==
  /\ Owns(a, t, "handler")
  /\ IF doing[a].marker /\ config[t] # NoConfig
       THEN Configure(t) ELSE UNCHANGED <<dt, config, pending, heap, told>>
  /\ src' = IF kind[t] # "after" THEN src
            ELSE [src EXCEPT ![t] = [@ EXCEPT !.flags = @ \cup {"released"},
                                              !.handlers = FALSE, !.dirty = TRUE]]
  /\ doing' = [doing EXCEPT ![a] = [Idle EXCEPT !.pc = "flags", !.t = t,
                  !.flags = src'[t].flags, !.starve = ~Cancelled(src'[t].flags)]]
  /\ UNCHANGED <<world, kind, kernel>>

\* A timer that is not armed is unregistered anywhere, an armed one by the manager.
Unregister(a, t) ==
  /\ Owns(a, t, "flags")
  /\ Cancelled(doing[a].flags) /\ "deleted" \notin doing[a].flags
  /\ IF dt[t].armed /\ a # Manager
       THEN End(a, "mgr") /\ UNCHANGED <<dt, heap, told, src>>
       ELSE /\ LET d == [dt EXCEPT ![t].registered = FALSE, ![t].ident = "canceled"]
               IN IF dt[t].armed THEN Disarm(t, d) ELSE dt' = d /\ UNCHANGED heap
            /\ told' = [told EXCEPT ![t].owned = IF dt[t].armed THEN @ - 2 ELSE @]
            /\ src' = [src EXCEPT ![t].flags = @ \cup {"deleted"}]
            /\ doing' = [doing EXCEPT ![a].flags = src'[t].flags]
  /\ UNCHANGED <<world, kind, config, pending, kernel>>

Callout(a, t) ==
  /\ Owns(a, t, "flags")
  /\ Cancelled(doing[a].flags) /\ "deleted" \in doing[a].flags
  /\ IF a = Manager /\ src[t].handlers
       THEN End(a, "target") /\ UNCHANGED <<pending, src>>
       ELSE /\ src' = [src EXCEPT ![t].handlers = FALSE]
            /\ pending' = [pending EXCEPT ![t] = NoData]
            /\ End(a, None)
  /\ UNCHANGED <<world, kind, dt, config, heap, kernel, told>>

Rearm(a, t) ==
  /\ Owns(a, t, "flags") /\ ~Cancelled(doing[a].flags)
  /\ IF ~NeedsRearm(t) THEN End(a, None) /\ UNCHANGED <<dt, heap, told>>
     ELSE IF a # Manager THEN End(a, "mgr") /\ UNCHANGED <<dt, heap, told>>
     ELSE IF Suspended(t) THEN End(a, "target") /\ UNCHANGED <<dt, heap, told>>
     ELSE Resume(dt, t, told[t].n, told[t].from) /\ End(a, None)
  /\ UNCHANGED <<world, kind, config, pending, src, kernel>>

Unlock(a, t) ==
  /\ Owns(a, t, "unlock")
  /\ IF src[t].dirty /\ ~Suspended(t)
       THEN /\ src' = [src EXCEPT ![t].dirty = FALSE]
            /\ \/ a # Manager /\ doing' = [doing EXCEPT ![a] = [Idle EXCEPT !.pc = "begin", !.t = t]]
               \/ End(a, Place(a))
       ELSE /\ src' = [src EXCEPT ![t].owner = None, ![t].place = None]
            /\ Done(a)
  /\ UNCHANGED <<world, kind, dt, config, pending, heap, kernel, told>>

Finish(a, t) ==
  /\ Owns(a, t, "finish")
  /\ src' = [src EXCEPT ![t].owner = None, ![t].dirty = TRUE,
                        ![t].place = IF Suspended(t) THEN None ELSE doing[a].tq]
  /\ Done(a)
  /\ UNCHANGED <<world, kind, dt, config, pending, heap, kernel, told>>

-----------------------------------------------------------------------------
ManagerStep ==
  \/ (\E c \in Clocks : KernelTimer(c)) \/ CalendarNotice \/ DrainTimers
  \/ (\E t \in Timers : RunAfter(t) \/ RunConfigure(t) \/ RunBehind(t) \/ RunCount(t))
  \/ Mark \/ Store \/ Merge \/ RunNext \/ Program

Invoke(a, t) ==
  \/ TryLock(a, t) \/ Install(a, t) \/ InvokeConfigure(a, t) \/ Pending(a, t)
  \/ Latch(a, t) \/ Count(a, t) \/ Handled(a, t) \/ Unregister(a, t)
  \/ Callout(a, t) \/ Rearm(a, t) \/ Unlock(a, t) \/ Finish(a, t)

Call(t) ==
  \/ (\E s \in Settings : SetTimer(t, s)) \/ Activate(t)
  \/ Suspend(t) \/ Resumed(t) \/ Cancel(t) \/ Wakeup(t)

TimersNext ==
  \/ ManagerStep \/ Tick \/ CalendarChange
  \/ \E t \in Timers : Call(t) \/ Invoke(Manager, t) \/ Invoke(t, t)

TimersSpec == TimersInit /\ [][TimersNext]_timerVars

-----------------------------------------------------------------------------
(* Properties                                                               *)

\* The periods that have passed according to the parameters of the timer, and
\* those told to the handler or on their way there.
Passed(t) ==
  IF told[t].from >= Never THEN 0
  ELSE IF dt[t].target >= Never THEN 1
  ELSE (dt[t].target - told[t].from) \div dt[t].interval

OnTheWay(t) ==
  pending[t].n + (IF doing[Manager].t = t THEN doing[Manager].n ELSE 0) + doing[t].n
Dead(t) == Cancelled(src[t].flags) \/ kind[t] = "after"

\* Every period is told to the handler once, whoever counts it: none is lost when
\* the timer leaves the heap, none counted twice, and none before its time.
PeriodsAreToldOnce ==
  \A t \in Timers : ~Dead(t) /\ doing[t].pc # "handler" =>
    /\ told[t].n + OnTheWay(t) = Passed(t)
    /\ Passed(t) > 0 /\ dt[t].clock = "uptime" =>
         world.up >= told[t].from + (Passed(t) - 1) * (IF dt[t].interval < Never
                                                         THEN dt[t].interval ELSE 0)

\* A timer of dispatch_after fires once.
AfterFiresOnce == \A t \in Timers : kind[t] = "after" => told[t].n <= 1

\* The heap owns two references of each armed source, of which it gives two away
\* with each event; one that is deleted is in no heap.
HeapOwnsItsTimers ==
  \A t \in Timers :
    /\ told[t].owned = (IF dt[t].armed THEN 2 ELSE 0)
         + (IF doing[Manager].t = t /\ doing[Manager].pc \in {"mark", "store", "storeMarked", "merge"}
              THEN 2 ELSE 0)
    /\ "deleted" \in src[t].flags => ~dt[t].armed /\ ~dt[t].registered

\* Who writes dt_timer is alone with it.
OneWriter ==
  \A t \in Timers : doing[t].pc = "count" \/ (doing[t].pc = "handler" /\ doing[t].marker) =>
    ~dt[t].armed /\ (doing[Manager].t = t => doing[Manager].pc \in {"merge"})

\* When all is quiet every timer that is set is in the heap, and nothing is left
\* for its handler, unless it is suspended or cancelled.
Quiet ==
  /\ ManagerIdle /\ ~heap.dirty /\ ~world.notice
  /\ \A t \in Timers : told[t].wakes = 0 /\ src[t].place = None /\ doing[t].pc = "idle"

NoTimerIsForgotten ==
  Quiet => \A t \in Timers : ~Suspended(t) /\ src[t].installed =>
    IF Cancelled(src[t].flags) THEN "deleted" \in src[t].flags /\ ~src[t].handlers
    ELSE /\ config[t] = NoConfig /\ pending[t] = NoData
         /\ dt[t].target < Never /\ dt[t].registered => dt[t].armed

\* The kernel's timer fires in time for the next deadline of each clock, and not
\* before the next target.
KernelTimerIsInTime ==
  /\ \A c \in Clocks : (kernel[c] # NoTimer) = (c \in heap.armed)
  /\ Quiet => \A c \in Clocks : ArmedOn(dt, c) # {} =>
       /\ kernel[c] # NoTimer
       /\ LET at == kernel[c].at + (Clock(c) - world.up)
          IN at >= Least(Targets(c)) /\ at + kernel[c].leeway <= Deadline(c)

\* All of it: the manager and the target queues share the timers without a lock.
TimersAreSound ==
  /\ PeriodsAreToldOnce /\ AfterFiresOnce /\ HeapOwnsItsTimers /\ OneWriter
  /\ NoTimerIsForgotten /\ KernelTimerIsInTime
=============================================================================
