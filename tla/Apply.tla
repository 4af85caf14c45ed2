-------------------------------- MODULE Apply --------------------------------
(***************************************************************************)
(* dispatch_apply_f (src/apply.c): the caller and the threads it asks the  *)
(* root queue for share the iterations through da_index; the one that      *)
(* finishes the last wakes the caller through a thread event (shims/lock.h,*)
(* shims/lock.c), and the last one to leave frees the shared state.  A     *)
(* queue that is not a root queue is asked for width, and so is every      *)
(* queue between it and the root (_dispatch_apply_redirect).               *)
(***************************************************************************)
EXTENDS Integers, FiniteSets

LOCAL INSTANCE FiniteSetsExt  \* Min, MapThenSumSet

CONSTANTS MaxIterations, \* bound: da_iterations
          MaxThreads,    \* bound: _dispatch_qos_max_parallelism
          MaxDepth,      \* bound: queues between the caller's and the root
          MaxWidth       \* bound: width that is free in each

Caller == 0
Participants == 0 .. MaxThreads - 1
Workers == Participants \ {Caller}

VARIABLES
  da_iterations, da_index, da_todo, da_thr_cnt,
  dte_value, \* the thread event: UINT32_MAX is -1
  free,      \* width free in each queue from the caller's down to the root's
  level,     \* the queue _dispatch_apply_redirect looks at
  da_width,  \* local of redirect: threads beyond the caller
  pc,
  idx, done, \* locals of invoke2
  freed,     \* whether da is back with the allocator
  ran,       \* history: how often each iteration ran
  taken      \* history: width reserved in each queue

vars == <<da_iterations, da_index, da_todo, da_thr_cnt, dte_value, free, level,
          da_width, pc, idx, done, freed, ran, taken>>

shared == <<da_iterations, da_index, da_todo, da_thr_cnt, dte_value, freed>>
redirect == <<free, level, da_width, taken>>
locals == <<idx, done>>

Depth == Cardinality(DOMAIN free)

WorkerPCs == {"none", "queued"}

CallerPCs == {"idle", "redirect", "serial", "push", "wait", "wait_load", "wait_kernel",
              "asleep", "destroy", "relinquish"}

InvokePCs == {"fetch", "callout", "todo", "signal", "wake", "drop", "returned"}

Init ==
  /\ da_iterations = 0 /\ da_index = 0 /\ da_todo = 0 /\ da_thr_cnt = 0
  /\ dte_value = 0
  /\ free = <<>> /\ taken = <<>> /\ level = 1 /\ da_width = 0
  /\ pc = [p \in Participants |-> IF p = Caller THEN "idle" ELSE "none"]
  /\ idx = [p \in Participants |-> 0] /\ done = [p \in Participants |-> 0]
  /\ freed = FALSE
  /\ ran = [i \in 0 .. MaxIterations - 1 |-> 0]

Goto(p, from, to) == pc[p] = from /\ pc' = [pc EXCEPT ![p] = to]

\* dispatch_apply_f: a thread per iteration at most; a serial queue, or a single
\* thread, takes the serial path.
Call ==
  \E iterations \in 1 .. MaxIterations, threads \in 1 .. MaxThreads,
     depth \in 0 .. MaxDepth, serial \in BOOLEAN :
    LET count == Min({threads, iterations}) IN
    /\ Goto(Caller, "idle", IF serial \/ count = 1 THEN "serial"
                            ELSE IF depth > 0 THEN "redirect" ELSE "push")
    /\ da_iterations' = iterations /\ da_todo' = iterations
    /\ da_thr_cnt' = count /\ da_width' = count - 1
    /\ free' \in [1 .. depth -> 0 .. MaxWidth]
    /\ taken' = [q \in 1 .. depth |-> 0]
    /\ UNCHANGED <<da_index, dte_value, freed, level, locals, ran>>

----------------------------------------------------------------------------
(* _dispatch_apply_redirect *)

\* _dispatch_queue_relinquish_width from the caller's queue to stop_dq.
Relinquish(stop, n) ==
  /\ free' = [q \in DOMAIN free |-> IF q < stop THEN free[q] + n ELSE free[q]]
  /\ taken' = [q \in DOMAIN free |-> IF q < stop THEN taken[q] - n ELSE taken[q]]

\* Faulty variant: what the queues above gave too much is kept.
ReserveKeeps ==
  LET width == Min({free[level], da_width})
  IN  /\ level <= Depth
      /\ free' = [free EXCEPT ![level] = @ - width]
      /\ taken' = [taken EXCEPT ![level] = @ + width]
      /\ da_width' = width
      /\ da_thr_cnt' = da_thr_cnt - (da_width - width)
      /\ Goto(Caller, "redirect", IF width = 0 THEN "serial" ELSE "redirect")
      /\ level' = level + 1
      /\ UNCHANGED <<da_iterations, da_index, da_todo, dte_value, freed, locals,
                     ran>>

\* One queue of the loop: reserve what it has, give back what the queues above
\* it gave too much, and run the iterations here when nothing is left.
Reserve ==
  LET width == Min({free[level], da_width})
      excess == da_width - width
  IN  /\ level <= Depth
      /\ free' = [q \in DOMAIN free |-> IF q = level THEN free[q] - width
                                        ELSE IF q < level THEN free[q] + excess
                                        ELSE free[q]]
      /\ taken' = [q \in DOMAIN free |-> IF q = level THEN taken[q] + width
                                         ELSE IF q < level THEN taken[q] - excess
                                         ELSE taken[q]]
      /\ da_width' = width
      /\ da_thr_cnt' = IF width = 0 THEN da_thr_cnt ELSE da_thr_cnt - excess
      /\ Goto(Caller, "redirect", IF width = 0 THEN "serial" ELSE "redirect")
      /\ level' = level + 1
      /\ UNCHANGED <<da_iterations, da_index, da_todo, dte_value, freed, locals,
                     ran>>

ReservedAll ==
  /\ level > Depth
  /\ Goto(Caller, "redirect", "push")
  /\ UNCHANGED <<shared, redirect, locals, ran>>

\* _dispatch_apply_serial: all iterations in order, then da is freed.
Serial ==
  /\ Goto(Caller, "serial", "returned")
  /\ ran' = [i \in DOMAIN ran |-> IF i < da_iterations THEN ran[i] + 1 ELSE ran[i]]
  /\ freed' = TRUE
  /\ UNCHANGED <<da_iterations, da_index, da_todo, da_thr_cnt, dte_value,
                 redirect, locals>>

\* _dispatch_apply_f pushes a continuation for every thread but its own.
Push ==
  /\ pc[Caller] = "push"
  /\ pc' = [p \in Participants |-> IF p = Caller THEN "fetch"
                                   ELSE IF p < da_thr_cnt THEN "queued" ELSE pc[p]]
  /\ UNCHANGED <<shared, redirect, locals, ran>>

\* The width goes back after the caller's own share, in dispatch_apply_f.
Return ==
  /\ Goto(Caller, "relinquish", "returned")
  /\ IF level > 1 THEN Relinquish(Depth + 1, da_width)
                  ELSE UNCHANGED <<free, taken>>
  /\ UNCHANGED <<shared, level, da_width, locals, ran>>

----------------------------------------------------------------------------
(* _dispatch_apply_invoke2 *)

\* A thread of the root queue begins to run a continuation.
Begin(p) ==
  /\ Goto(p, "queued", "fetch")
  /\ UNCHANGED <<shared, redirect, locals, ran>>

\* Where a participant goes that has no iteration left.
Out(p) == IF p = Caller THEN "wait" ELSE "drop"

\* The increments of da_index, the first and the one after each callout.
Fetch(p) ==
  /\ Goto(p, "fetch", IF da_index < da_iterations THEN "callout"
                      ELSE IF done[p] = 0 THEN Out(p) ELSE "todo")
  /\ da_index' = da_index + 1
  /\ idx' = [idx EXCEPT ![p] = IF da_index < da_iterations THEN da_index ELSE 0]
  /\ UNCHANGED <<da_iterations, da_todo, da_thr_cnt, dte_value, freed, redirect,
                 done, ran>>

Callout(p) ==
  /\ Goto(p, "callout", "fetch")
  /\ ran' = [ran EXCEPT ![idx[p]] = @ + 1]
  /\ done' = [done EXCEPT ![p] = @ + 1]
  /\ UNCHANGED <<shared, redirect, idx>>

\* os_atomic_sub2o(da, da_todo, done).
FinishTodo(p) ==
  /\ Goto(p, "todo", IF da_todo = done[p] THEN "signal" ELSE Out(p))
  /\ da_todo' = da_todo - done[p]
  /\ done' = [done EXCEPT ![p] = 0]
  /\ UNCHANGED <<da_iterations, da_index, da_thr_cnt, dte_value, freed,
                 redirect, idx, ran>>

\* _dispatch_thread_event_signal: the waiter has to be woken unless it has not
\* come yet.
EventSignal(p) ==
  /\ Goto(p, "signal", IF dte_value = 0 THEN Out(p) ELSE "wake")
  /\ dte_value' = dte_value + 1
  /\ UNCHANGED <<da_iterations, da_index, da_todo, da_thr_cnt, freed, redirect,
                 locals, ran>>

\* _dispatch_thread_event_signal_slow.
EventWake(p) ==
  /\ pc[p] = "wake"
  /\ pc' = [pc EXCEPT ![p] = Out(p),
                      ![Caller] = IF @ = "asleep" THEN "wait_load"
                                  ELSE IF p = Caller THEN Out(p) ELSE @]
  /\ UNCHANGED <<shared, redirect, locals, ran>>

\* _dispatch_thread_event_wait.
EventWait ==
  /\ Goto(Caller, "wait", IF dte_value = 1 THEN "destroy" ELSE "wait_load")
  /\ dte_value' = dte_value - 1
  /\ UNCHANGED <<da_iterations, da_index, da_todo, da_thr_cnt, freed, redirect,
                 locals, ran>>

\* _dispatch_thread_event_wait_slow: load the value, block while it is
\* UINT32_MAX, and look again after every wakeup.
EventLoad ==
  /\ Goto(Caller, "wait_load", IF dte_value = 0 THEN "destroy" ELSE "wait_kernel")
  /\ UNCHANGED <<shared, redirect, locals, ran>>

EventBlock ==
  /\ Goto(Caller, "wait_kernel", IF dte_value = -1 THEN "asleep" ELSE "wait_load")
  /\ UNCHANGED <<shared, redirect, locals, ran>>

\* EINTR, or a wakeup meant for the previous use of the address.
EventSpurious ==
  /\ Goto(Caller, "asleep", "wait_load")
  /\ UNCHANGED <<shared, redirect, locals, ran>>

\* _dispatch_thread_event_destroy.
EventDestroy ==
  /\ Goto(Caller, "destroy", "drop")
  /\ UNCHANGED <<shared, redirect, locals, ran>>

\* Faulty variant: the caller frees da, being the one that waited for the rest.
DropCaller(p) ==
  /\ Goto(p, "drop", IF p = Caller THEN "relinquish" ELSE "returned")
  /\ da_thr_cnt' = da_thr_cnt - 1
  /\ freed' = (freed \/ p = Caller)
  /\ UNCHANGED <<da_iterations, da_index, da_todo, dte_value, redirect, locals,
                 ran>>

\* os_atomic_dec2o(da, da_thr_cnt): the last one frees da.
Drop(p) ==
  /\ Goto(p, "drop", IF p = Caller THEN "relinquish" ELSE "returned")
  /\ da_thr_cnt' = da_thr_cnt - 1
  /\ freed' = (freed \/ da_thr_cnt = 1)
  /\ UNCHANGED <<da_iterations, da_index, da_todo, dte_value, redirect, locals,
                 ran>>

----------------------------------------------------------------------------

CallerStep ==
  \/ Reserve \/ ReservedAll \/ Serial \/ Push \/ Return
  \/ EventWait \/ EventLoad \/ EventBlock \/ EventDestroy

Step(p) ==
  \/ Begin(p) \/ Fetch(p) \/ Callout(p) \/ FinishTodo(p)
  \/ EventSignal(p) \/ EventWake(p) \/ Drop(p)

Next == Call \/ CallerStep \/ EventSpurious \/ \E p \in Participants : Step(p)

Spec == Init /\ [][Next]_vars

\* The root queue runs every continuation (see RootQueue), and threads go on.
Fairness == WF_vars(CallerStep) /\ \A p \in Participants : WF_vars(Step(p))

----------------------------------------------------------------------------
(* Properties *)

TypeOK ==
  /\ da_iterations \in 0 .. MaxIterations /\ da_index \in Nat
  /\ da_todo \in 0 .. MaxIterations /\ da_thr_cnt \in 0 .. MaxThreads
  /\ dte_value \in -1 .. 1
  /\ \A q \in DOMAIN free : free[q] \in 0 .. MaxWidth
  /\ level \in 1 .. MaxDepth + 1 /\ da_width \in 0 .. MaxThreads
  /\ pc \in [Participants -> WorkerPCs \cup CallerPCs \cup InvokePCs]
  /\ idx \in [Participants -> 0 .. MaxIterations]
  /\ done \in [Participants -> 0 .. MaxIterations]
  /\ freed \in BOOLEAN
  /\ ran \in [0 .. MaxIterations - 1 -> 0 .. 1]

Returned == pc[Caller] = "returned"

\* Nobody touches what is gone: da after it was freed, the function and context
\* on the caller's stack after dispatch_apply returned; the wake of the caller
\* comes from a thread that still holds da.  It is freed in the end.
NothingIsUsedAfterFree ==
  /\ freed => \A p \in Participants : pc[p] \in {"none", "returned", "relinquish"}
  /\ Returned => \A p \in Participants : pc[p] # "callout"
  /\ (\A p \in Participants : pc[p] \in {"none", "returned"}) => freed

\* When dispatch_apply returns every iteration has run once, and the width it
\* took from the queues on the way to the root is free again.
ReturnsWhenAllRan ==
  /\ Returned => \A i \in 0 .. da_iterations - 1 : ran[i] = 1
  /\ Returned => \A q \in DOMAIN taken : taken[q] = 0
  /\ \A q \in DOMAIN taken : taken[q] >= 0

\* As many threads work on it as every queue gave width for, beside the caller.
WidthCoversThreads ==
  pc[Caller] \notin {"idle", "redirect", "serial", "returned"} /\ level > 1 =>
    \A q \in DOMAIN taken : taken[q] =
      Cardinality({p \in Workers : pc[p] # "none"})
      + (IF pc[Caller] = "push" THEN da_thr_cnt - 1 ELSE 0)

\* dispatch_apply returns.
ApplyReturns == pc[Caller] # "idle" ~> Returned
=============================================================================
