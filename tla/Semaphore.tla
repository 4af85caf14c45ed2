----------------------------- MODULE Semaphore -----------------------------
(***************************************************************************)
(* dispatch_semaphore_t (src/semaphore.c) over the kernel semaphore that   *)
(* src/shims/lock.c wraps as _dispatch_sema4_t (the USE_MACH_SEM build).   *)
(*                                                                         *)
(* dsema_value counts permits when positive and waiting threads when       *)
(* negative.  The fast paths only touch dsema_value; a thread that drives  *)
(* it below zero parks on a kernel semaphore that is created lazily by     *)
(* whichever thread needs it first.                                        *)
(***************************************************************************)
EXTENDS Integers, Sequences, FiniteSets

LOCAL INSTANCE SequencesExt  \* RemoveAt

CONSTANTS Threads,   \* threads that call signal and wait
          Orig,      \* dsema_orig, the value given to dispatch_semaphore_create
          LongMax,   \* LONG_MAX of dsema_value; LongMin == -LongMax - 1
          MaxCalls,  \* bound: calls each thread makes
          MaxAborts, \* bound: KERN_ABORTED returns of the kernel waits
          NoPort     \* MACH_PORT_NULL

ASSUME SemaphoreAssumption ==
  /\ IsFiniteSet(Threads)
  /\ LongMax \in Nat /\ Orig \in 0 .. LongMax
  /\ Cardinality(Threads) <= LongMax  \* fewer threads than 2^63
  /\ MaxCalls \in Nat /\ MaxAborts \in Nat
  /\ NoPort \notin Threads

VARIABLES
  dsema_value, \* the atomic counter of the object
  dsema_sema,  \* the port published in the object, NoPort until created
  kcount,      \* kernel: stored signals of the semaphore each thread created
  kqueue,      \* kernel: its FIFO queue of blocked threads
  pc,          \* where each thread is in signal or wait
  timeout,     \* the timeout argument of the thread's wait
  orig,        \* local "orig" of _dispatch_semaphore_wait_slow
  calls,       \* calls made by each thread
  aborts,      \* kernel waits interrupted so far
  signalled,   \* history: increments made by dispatch_semaphore_signal
  acquired,    \* history: waits that returned 0
  life         \* "live", "disposed", or the DISPATCH_CLIENT_CRASH that was hit

vars == <<dsema_value, dsema_sema, kcount, kqueue, pc, timeout, orig, calls,
          aborts, signalled, acquired, life>>

LongMin == -LongMax - 1

\* Faulty variant: a counter that does not wrap around.
IncUnbounded(v) == v + 1

\* os_atomic_inc2o and os_atomic_dec2o on a long wrap around.
Inc(v) == IF v = LongMax THEN LongMin ELSE v + 1
Dec(v) == IF v = LongMin THEN LongMax ELSE v - 1

Timeouts == {"now", "forever", "timed"}

PCs == {"idle", "signal_create", "signal_cas", "signal_post",
        "wait_create", "wait_cas", "wait_enter", "wait_blocked", "wait_woken",
        "undo_read", "undo_cas"}

\* Threads that decremented dsema_value below zero and have neither consumed
\* a kernel signal nor taken their decrement back.
Unserved == {t \in Threads : pc[t] \in {"wait_create", "wait_cas",
                "wait_enter", "wait_blocked", "undo_read", "undo_cas"}}

\* Threads inside _dispatch_semaphore_wait_slow.
InWaitSlow(t) == t \in Unserved \/ pc[t] = "wait_woken"

\* Threads that made a non positive value out of dsema_value and still have to
\* post the kernel semaphore.
Posting == {t \in Threads :
              pc[t] \in {"signal_create", "signal_cas", "signal_post"}}

Init ==
  /\ dsema_value = Orig
  /\ dsema_sema = NoPort
  /\ kcount = [p \in Threads |-> 0]
  /\ kqueue = [p \in Threads |-> <<>>]
  /\ pc = [t \in Threads |-> "idle"]
  /\ timeout = [t \in Threads |-> "forever"]
  /\ orig = [t \in Threads |-> 0]
  /\ calls = [t \in Threads |-> 0]
  /\ aborts = 0
  /\ signalled = 0
  /\ acquired = 0
  /\ life = "live"

Goto(t, from, to) ==
  /\ life = "live"
  /\ pc[t] = from
  /\ pc' = [pc EXCEPT ![t] = to]

\* A thread starts another call.
Call(t) ==
  /\ life = "live"
  /\ pc[t] = "idle"
  /\ calls[t] < MaxCalls
  /\ calls' = [calls EXCEPT ![t] = @ + 1]

----------------------------------------------------------------------------
(* dispatch_semaphore_signal *)

\* The atomic increment, then: a positive result is the fast path, LONG_MIN is
\* the "Unbalanced call" crash, anything else goes to signal_slow.
Signal(t) ==
  /\ Call(t)
  /\ dsema_value' = Inc(dsema_value)
  /\ signalled' = signalled + 1
  /\ \/ /\ dsema_value' > 0
        /\ UNCHANGED <<pc, life>>
     \/ /\ dsema_value' = LongMin
        /\ life' = "signal_crash"
        /\ UNCHANGED pc
     \/ /\ dsema_value' \in LongMin + 1 .. 0
        /\ pc' = [pc EXCEPT ![t] = "signal_create"]
        /\ UNCHANGED life
  /\ UNCHANGED <<dsema_sema, kcount, kqueue, timeout, orig, aborts, acquired>>

\* _dispatch_sema4_create: is the port there already?
CheckCreated(t, from, cas, done) ==
  /\ Goto(t, from, IF dsema_sema = NoPort THEN cas ELSE done)
  /\ UNCHANGED <<dsema_value, dsema_sema, kcount, kqueue, timeout, orig, calls,
                 aborts, signalled, acquired, life>>

\* Faulty variant: a plain store instead of the compare-and-swap.
PublishPortLast(t, from, done) ==
  /\ Goto(t, from, done)
  /\ dsema_sema' = t
  /\ UNCHANGED <<dsema_value, kcount, kqueue, timeout, orig, calls, aborts,
                 signalled, acquired, life>>

\* _dispatch_sema4_create_slow: publish the semaphore this thread created, or
\* destroy it when another thread published one in the meantime.
PublishPort(t, from, done) ==
  /\ Goto(t, from, done)
  /\ dsema_sema' = IF dsema_sema = NoPort THEN t ELSE dsema_sema
  /\ UNCHANGED <<dsema_value, kcount, kqueue, timeout, orig, calls, aborts,
                 signalled, acquired, life>>

\* semaphore_signal: hand the signal to the first blocked thread or store it.
SignalSlow(t) ==
  LET p == dsema_sema
      sleeping == kqueue[p] # <<>>
  IN  /\ life = "live"
      /\ pc[t] = "signal_post"
      /\ \/ /\ sleeping
            /\ pc' = [pc EXCEPT ![t] = "idle", ![Head(kqueue[p])] = "wait_woken"]
            /\ kqueue' = [kqueue EXCEPT ![p] = Tail(@)]
            /\ UNCHANGED kcount
         \/ /\ ~sleeping
            /\ pc' = [pc EXCEPT ![t] = "idle"]
            /\ kcount' = [kcount EXCEPT ![p] = @ + 1]
            /\ UNCHANGED kqueue
      /\ UNCHANGED <<dsema_value, dsema_sema, timeout, orig, calls, aborts,
                     signalled, acquired, life>>

----------------------------------------------------------------------------
(* dispatch_semaphore_wait *)

\* The atomic decrement; a non negative result is the fast path.
Wait(t, to) ==
  /\ Call(t)
  /\ dsema_value' = Dec(dsema_value)
  /\ timeout' = [timeout EXCEPT ![t] = to]
  /\ \/ /\ dsema_value' >= 0
        /\ acquired' = acquired + 1
        /\ UNCHANGED pc
     \/ /\ dsema_value' < 0
        /\ pc' = [pc EXCEPT ![t] = "wait_create"]
        /\ UNCHANGED acquired
  /\ UNCHANGED <<dsema_sema, kcount, kqueue, orig, aborts, signalled, life>>

\* The switch on the timeout: DISPATCH_TIME_NOW goes straight to the undo loop.
AfterCreate(t) == IF timeout[t] = "now" THEN "undo_read" ELSE "wait_enter"

\* semaphore_wait and semaphore_timedwait: take a stored signal or block.
KernelWait(t) ==
  LET p == dsema_sema IN
  /\ life = "live"
  /\ pc[t] = "wait_enter"
  /\ \/ /\ kcount[p] > 0
        /\ kcount' = [kcount EXCEPT ![p] = @ - 1]
        /\ pc' = [pc EXCEPT ![t] = "wait_woken"]
        /\ UNCHANGED kqueue
     \/ /\ kcount[p] = 0
        /\ kqueue' = [kqueue EXCEPT ![p] = Append(@, t)]
        /\ pc' = [pc EXCEPT ![t] = "wait_blocked"]
        /\ UNCHANGED kcount
  /\ UNCHANGED <<dsema_value, dsema_sema, timeout, orig, calls, aborts,
                 signalled, acquired, life>>

LeaveQueue(t) ==
  \E i \in DOMAIN kqueue[dsema_sema] :
    /\ kqueue[dsema_sema][i] = t
    /\ kqueue' = [kqueue EXCEPT ![dsema_sema] = RemoveAt(@, i)]

\* KERN_ABORTED: the do-while loops of sema4_wait and sema4_timedwait re-enter.
KernelAborted(t) ==
  /\ Goto(t, "wait_blocked", "wait_enter")
  /\ aborts < MaxAborts
  /\ aborts' = aborts + 1
  /\ LeaveQueue(t)
  /\ UNCHANGED <<dsema_value, dsema_sema, kcount, timeout, orig, calls,
                 signalled, acquired, life>>

\* KERN_OPERATION_TIMED_OUT: fall through to the undo of the fast path.
KernelTimedOut(t) ==
  /\ timeout[t] = "timed"
  /\ Goto(t, "wait_blocked", "undo_read")
  /\ LeaveQueue(t)
  /\ UNCHANGED <<dsema_value, dsema_sema, kcount, timeout, orig, calls, aborts,
                 signalled, acquired, life>>

\* orig = dsema->dsema_value, outside of the loop.
UndoRead(t) ==
  /\ Goto(t, "undo_read", "undo_cas")
  /\ orig' = [orig EXCEPT ![t] = dsema_value]
  /\ UNCHANGED <<dsema_value, dsema_sema, kcount, kqueue, timeout, calls,
                 aborts, signalled, acquired, life>>

\* Faulty variant: the decrement is taken back whatever the signals did.
UndoCasBlind(t) ==
  /\ Goto(t, "undo_cas", "idle")
  /\ dsema_value' = Inc(dsema_value)
  /\ UNCHANGED <<dsema_sema, kcount, kqueue, timeout, orig, calls, aborts,
                 signalled, acquired, life>>

\* One turn of the compare-and-swap loop: take the decrement back and return
\* the timeout, reload after a failed swap, or, when a signal has already
\* counted this thread (orig >= 0), drain the wakeup that is on its way.
UndoCas(t) ==
  /\ life = "live"
  /\ pc[t] = "undo_cas"
  /\ \/ /\ orig[t] < 0 /\ dsema_value = orig[t]
        /\ dsema_value' = orig[t] + 1
        /\ pc' = [pc EXCEPT ![t] = "idle"]
        /\ UNCHANGED <<orig, timeout>>
     \/ /\ orig[t] < 0 /\ dsema_value # orig[t]
        /\ orig' = [orig EXCEPT ![t] = dsema_value]
        /\ UNCHANGED <<dsema_value, pc, timeout>>
     \/ /\ orig[t] >= 0
        /\ pc' = [pc EXCEPT ![t] = "wait_enter"]
        /\ timeout' = [timeout EXCEPT ![t] = "forever"]
        /\ UNCHANGED <<dsema_value, orig>>
  /\ UNCHANGED <<dsema_sema, kcount, kqueue, calls, aborts, signalled,
                 acquired, life>>

\* The kernel wait returned KERN_SUCCESS: wait_slow returns 0.
WaitReturns(t) ==
  /\ Goto(t, "wait_woken", "idle")
  /\ acquired' = acquired + 1
  /\ UNCHANGED <<dsema_value, dsema_sema, kcount, kqueue, timeout, orig, calls,
                 aborts, signalled, life>>

----------------------------------------------------------------------------
(* _dispatch_semaphore_dispose *)

\* Faulty variant: <= for <.
DisposeOffByOne ==
  /\ life = "live"
  /\ \A t \in Threads : pc[t] = "idle"
  /\ life' = IF dsema_value <= Orig THEN "dispose_crash" ELSE "disposed"
  /\ UNCHANGED <<dsema_value, dsema_sema, kcount, kqueue, pc, timeout, orig,
                 calls, aborts, signalled, acquired>>

\* The last reference goes away, which the caller may do once no thread is in
\* a call.  A value below the original one crashes: "Semaphore object
\* deallocated while in use".
Dispose ==
  /\ life = "live"
  /\ \A t \in Threads : pc[t] = "idle"
  /\ life' = IF dsema_value < Orig THEN "dispose_crash" ELSE "disposed"
  /\ UNCHANGED <<dsema_value, dsema_sema, kcount, kqueue, pc, timeout, orig,
                 calls, aborts, signalled, acquired>>

----------------------------------------------------------------------------

\* The steps of a call that has begun and is not up to the caller or the clock.
Progress(t) ==
  \/ CheckCreated(t, "signal_create", "signal_cas", "signal_post")
  \/ PublishPort(t, "signal_cas", "signal_post")
  \/ SignalSlow(t)
  \/ CheckCreated(t, "wait_create", "wait_cas", AfterCreate(t))
  \/ PublishPort(t, "wait_cas", AfterCreate(t))
  \/ KernelWait(t)
  \/ UndoRead(t)
  \/ UndoCas(t)
  \/ WaitReturns(t)

Next ==
  \/ \E t \in Threads :
       \/ Signal(t)
       \/ \E to \in Timeouts : Wait(t, to)
       \/ KernelAborted(t)
       \/ KernelTimedOut(t)
       \/ Progress(t)
  \/ Dispose

Spec == Init /\ [][Next]_vars

\* A thread inside a call keeps running; nothing forces a new call, a timeout
\* or an interruption.
Fairness == \A t \in Threads : WF_vars(Progress(t))

FairSpec == Spec /\ Fairness

----------------------------------------------------------------------------
(* Properties *)

TypeOK ==
  /\ dsema_value \in LongMin .. LongMax
  /\ dsema_sema \in Threads \cup {NoPort}
  /\ kcount \in [Threads -> Nat]
  /\ kqueue \in [Threads -> Seq(Threads)]
  /\ pc \in [Threads -> PCs]
  /\ timeout \in [Threads -> Timeouts]
  /\ orig \in [Threads -> LongMin .. LongMax]
  /\ calls \in [Threads -> Nat]
  /\ aborts \in Nat
  /\ signalled \in Nat
  /\ acquired \in Nat
  /\ life \in {"live", "disposed", "signal_crash", "dispose_crash"}

\* No wait succeeds without a permit: the waits that returned 0 never exceed
\* the initial value plus the signals, whatever races between a timed wait
\* that gives up (the undo loop) and the signal that had already counted it.
PermitBound == acquired <= Orig + signalled

Shortage == IF dsema_value < 0 THEN -dsema_value ELSE 0

Stored == IF dsema_sema = NoPort THEN 0 ELSE kcount[dsema_sema]

\* No wakeup is lost or invented: the threads parked (or about to park) in
\* wait_slow are exactly those the counter shows as waiting plus those for
\* which a kernel signal is stored or is about to be posted.
WakeupsMatchWaiters ==
  life = "live" =>
    Cardinality(Unserved) = Shortage + Stored + Cardinality(Posting)

\* The two crashes blame the caller only when the caller is at fault: signal
\* crashes when the signals ran past LONG_MAX, dispose when more waits than
\* signals succeeded.  A timed wait that gave up never counts as a wait.
CrashIsUnbalanced ==
  /\ life = "signal_crash" => Orig + signalled - acquired > LongMax
  /\ life = "dispose_crash" => acquired > signalled
  /\ life = "disposed" => acquired <= signalled

\* The lazily created kernel semaphore is published once: two threads that
\* race through _dispatch_sema4_create never end up on two semaphores.
PortIsPublishedOnce ==
  [][dsema_sema # NoPort => dsema_sema' = dsema_sema]_vars

\* When the signals have caught up with the waits for good, every thread leaves
\* the slow path: a timed out thread that drains the pending wakeup with a
\* FOREVER wait does not hang.
SettledWaitersReturn ==
  <>[](dsema_value >= 0) => []<>(\A t \in Threads : ~InWaitSlow(t))
=============================================================================
