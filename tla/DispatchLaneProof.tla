-------------------------- MODULE DispatchLaneProof --------------------------
(***************************************************************************)
(* Proofs about DispatchLane for any number of clients, workers and calls, *)
(* any width and any number of suspensions: the drain lock has one owner,  *)
(* and the lane is enqueued on its target at most once.                    *)
(***************************************************************************)
EXTENDS DispatchLane, FiniteSetTheorems, SequenceTheorems, TLAPS

Words == [sc : Int, w : Int, ib : BOOLEAN, pb : BOOLEAN, d : BOOLEAN,
          enq : BOOLEAN, qos : BOOLEAN, ro : BOOLEAN,
          owner : Threads \cup {Null}]

Frames == [pc : PCs, item : Items \cup {Null}, dc : Items \cup {Null},
           ib : BOOLEAN, w : Int, enq : BOOLEAN, c2 : BOOLEAN,
           dirty : BOOLEAN, waits : BOOLEAN]

\* Weaker than TypeOK: that no count goes below zero takes the accounting of
\* suspensions, width and references.
Typed ==
  /\ dq_state \in Words
  /\ dq_items \in Seq(Items)
  /\ tokens \in Nat
  /\ redirects \subseteq Items
  /\ fr \in [Threads -> Frames]
  /\ event \in [Clients -> BOOLEAN]
  /\ calls \in [Clients -> 0 .. MaxCalls]

LockPCs == BarrierPCs \cup NonBarrierPCs \cup DrainPCs

\* Where a caller may be between the push of its waiter and its wait.  It may
\* have taken the barrier lock on the way.
QueuedPCs == {"link_waiter", "link_first_waiter", "waiter_wakeup",
              "barrier_complete", "complete_head", "class_complete",
              "class_complete_enqueue", "waiter_pop", "waiter_transfer",
              "drop_barrier"} \cup NonBarrierPCs

\* The thread waits for its event or will.
Waits(t) == fr[t].pc = "wait" \/ (fr[t].waits /\ fr[t].pc \in QueuedPCs)

\* The caller that submitted the waiter i has not been signalled.
Awaited(i) == fr[i.by].item = i /\ ~event[i.by] /\ Waits(i.by)

\* Callers are woken once, while they wait or are about to, and one that has
\* been handed the lock does not hold it already.
EventOK(t) ==
  t \in Clients /\ event[t] =>
    Waits(t) /\ (fr[t].pc \in LockPCs => ~Exclusive(fr[t].item))

\* Clients push what they submit.
ItemOK(t) ==
  /\ t \in Clients /\ fr[t].item # Null => fr[t].item.by = t
  /\ fr[t].pc \in {"concurrent_push", "acquire_async", "push"} =>
       fr[t].item # Null /\ ~IsWaiter(fr[t].item)
  /\ fr[t].pc \in {"barrier_sync", "sync_tail", "reserve_sync", "push_waiter"} =>
       fr[t].item # Null
  /\ fr[t].pc \in {"push_waiter", "link_waiter", "link_first_waiter",
                   "waiter_wakeup"} => fr[t].waits

\* The drain cursor of the thread that has the lock is the head of the list.
CursorOK(t) ==
  /\ \/ fr[t].pc \in {"waiter_pop", "drop_barrier", "non_barrier_take",
                      "non_barrier_pop", "drain_check", "drain_take"}
     \/ fr[t].pc \in {"run_drain", "drain_next"} /\ fr[t].dc # Null
     => dq_items # <<>> /\ fr[t].dc = Head(dq_items)
  /\ fr[t].pc \in {"waiter_pop", "waiter_transfer"} =>
       fr[t].dc # Null /\ IsWaiter(fr[t].dc) /\ Exclusive(fr[t].dc)
  /\ fr[t].pc \in {"drop_barrier", "non_barrier_take", "non_barrier_pop"} =>
       ~Exclusive(fr[t].dc)

\* The waiter to which the lock is about to be handed is still there.
TransferOK(t) ==
  fr[t].pc = "waiter_transfer" =>
    Awaited(fr[t].dc) /\ \A n \in 1 .. Len(dq_items) : dq_items[n] # fr[t].dc

\* A thread owns ENQUEUED from the pop of the lane to the end of its drain.
DrainerOK(t) ==
  fr[t].enq => t \in Workers /\ fr[t].pc \in DrainPCs \cup {"waiter_pop", "waiter_transfer"}

ThreadOK(t) ==
  EventOK(t) /\ ItemOK(t) /\ CursorOK(t) /\ TransferOK(t) /\ DrainerOK(t)

\* A waiter is in the list once and has not been woken.
ListOK ==
  \A n \in 1 .. Len(dq_items) :
    IsWaiter(dq_items[n]) =>
      /\ Awaited(dq_items[n])
      /\ \A m \in 1 .. Len(dq_items) : dq_items[m] = dq_items[n] => m = n

\* A thread that hands units of width out has left the barrier.
BarrierLeft == \A t \in Threads : fr[t].pc \in NonBarrierPCs => ~dq_state.ib

IInv ==
  /\ Typed
  /\ \A t \in Threads : ThreadOK(t)
  /\ ListOK
  /\ BarrierLeft
  /\ LockHasItsOwner
  /\ EnqueuedOnce

----------------------------------------------------------------------------
(* What a step of one thread leaves to the others *)

\* A waiter not yet signalled stays so through a step of any thread that leaves
\* its event alone and, if it is the waiter's own, keeps it waiting.
LEMMA StillAwaited ==
  ASSUME Typed, NEW i \in Items, Awaited(i),
         NEW t \in Threads, NEW g \in Frames, fr' = [fr EXCEPT ![t] = g],
         event'[i.by] = event[i.by],
         i.by = t => (Waits(t) => Waits(t)' /\ g.item = fr[t].item)
  PROVE  Awaited(i)'
<1>1. i.by \in Clients /\ i.by \in Threads
  BY DEF Items, Threads
<1>2. fr \in [Threads -> Frames]
  BY DEF Typed
<1>3. CASE i.by = t
  BY <1>1, <1>2, <1>3 DEF Awaited
<1>4. CASE i.by # t
  BY <1>1, <1>2, <1>4 DEF Awaited, Waits
<1> QED BY <1>3, <1>4

\* Only one thread holds the lock.
LEMMA OneOwner ==
  ASSUME LockHasItsOwner, NEW t \in Threads, NEW u \in Threads,
         HasLock(t), HasLock(u)
  PROVE  t = u
BY DEF LockHasItsOwner

\* The list and the events are left alone.
LEMMA LocalStep ==
  ASSUME IInv, NEW t \in Threads, NEW g \in Frames, fr' = [fr EXCEPT ![t] = g],
         UNCHANGED <<dq_items, event>>,
         Waits(t) => Waits(t)' /\ g.item = fr[t].item,
         ThreadOK(t)'
  PROVE  (\A u \in Threads : ThreadOK(u)') /\ ListOK'
<1>1. Typed /\ fr \in [Threads -> Frames] /\ dq_items \in Seq(Items)
  BY DEF IInv, Typed
<1>2. ASSUME NEW u \in Threads, u # t PROVE ThreadOK(u)'
  <2>1. ThreadOK(u) /\ fr'[u] = fr[u]
    BY <1>1, <1>2 DEF IInv
  <2>2. EventOK(u)' /\ ItemOK(u)' /\ CursorOK(u)' /\ DrainerOK(u)'
    BY <2>1 DEF ThreadOK, EventOK, ItemOK, CursorOK, DrainerOK, Waits
  <2>3. TransferOK(u)'
    <3>1. SUFFICES ASSUME fr[u].pc = "waiter_transfer" PROVE TransferOK(u)'
      BY <2>1 DEF TransferOK
    <3>2. fr[u].dc \in Items
      BY <1>1, <2>1, <3>1 DEF Frames, ThreadOK, CursorOK
    <3>3. Awaited(fr[u].dc)'
      BY <1>1, <2>1, <3>1, <3>2, StillAwaited DEF ThreadOK, TransferOK
    <3> QED BY <2>1, <3>1, <3>3 DEF ThreadOK, TransferOK
  <2> QED BY <2>2, <2>3 DEF ThreadOK
<1>3. ListOK'
  <2>1. SUFFICES ASSUME NEW n \in 1 .. Len(dq_items), IsWaiter(dq_items[n])
                 PROVE  Awaited(dq_items[n])'
    BY <2>1 DEF IInv, ListOK
  <2>2. dq_items[n] \in Items
    BY <1>1, ElementOfSeq
  <2> QED BY <1>1, <2>1, <2>2, StillAwaited DEF IInv, ListOK
<1> QED BY <1>2, <1>3

\* An item is appended to the list.
LEMMA AppendStep ==
  ASSUME IInv, NEW t \in Threads, NEW g \in Frames, fr' = [fr EXCEPT ![t] = g],
         NEW x \in Items, dq_items' = Append(dq_items, x), event' = event,
         IsWaiter(x) => ~Awaited(x) /\ Awaited(x)',
         Waits(t) => Waits(t)' /\ g.item = fr[t].item,
         ThreadOK(t)'
  PROVE  (\A u \in Threads : ThreadOK(u)') /\ ListOK'
<1>1. Typed /\ fr \in [Threads -> Frames] /\ dq_items \in Seq(Items)
  BY DEF IInv, Typed
<1> DEFINE L == Len(dq_items)
<1>2. /\ L \in Nat /\ Len(dq_items') = L + 1
      /\ \A n \in 1 .. L : dq_items'[n] = dq_items[n]
      /\ dq_items'[L + 1] = x
      /\ dq_items # <<>> => Head(dq_items') = Head(dq_items)
      /\ dq_items' # <<>>
  BY <1>1, LenProperties, AppendProperties
<1>3. ASSUME NEW i \in Items, Awaited(i) PROVE Awaited(i)'
  BY <1>1, <1>3, StillAwaited
<1>4. ASSUME NEW u \in Threads, u # t PROVE ThreadOK(u)'
  <2>1. ThreadOK(u) /\ fr'[u] = fr[u]
    BY <1>1, <1>4 DEF IInv
  <2>2. EventOK(u)' /\ ItemOK(u)' /\ CursorOK(u)' /\ DrainerOK(u)'
    BY <1>2, <2>1 DEF ThreadOK, EventOK, ItemOK, CursorOK, DrainerOK, Waits
  <2>3. TransferOK(u)'
    <3>1. SUFFICES ASSUME fr[u].pc = "waiter_transfer" PROVE TransferOK(u)'
      BY <2>1 DEF TransferOK
    <3>2. fr[u].dc \in Items /\ IsWaiter(fr[u].dc) /\ Awaited(fr[u].dc)
      BY <1>1, <2>1, <3>1 DEF Frames, ThreadOK, CursorOK, TransferOK
    <3>3. fr[u].dc # x
      BY <3>2
    <3>4. \A n \in 1 .. L : dq_items[n] # fr[u].dc
      BY <2>1, <3>1 DEF ThreadOK, TransferOK
    <3>5. \A n \in 1 .. L + 1 : dq_items'[n] # fr[u].dc
      BY <1>2, <3>3, <3>4
    <3> QED BY <1>2, <1>3, <2>1, <3>2, <3>5 DEF TransferOK
  <2> QED BY <2>2, <2>3 DEF ThreadOK
<1>5. ListOK'
  <2>1. SUFFICES ASSUME NEW n \in 1 .. L + 1, NEW i, i = dq_items'[n], IsWaiter(i)
                 PROVE  /\ Awaited(i)'
                        /\ \A m \in 1 .. L + 1 : dq_items'[m] = i => m = n
    BY <1>2, <2>1 DEF ListOK, Awaited, Waits
  <2>2. ASSUME NEW k \in 1 .. L, IsWaiter(dq_items[k])
        PROVE  /\ dq_items[k] \in Items /\ Awaited(dq_items[k])
               /\ dq_items[k] # x
               /\ \A m \in 1 .. L : dq_items[m] = dq_items[k] => m = k
    <3>1. dq_items[k] \in Items
      BY <1>1, ElementOfSeq
    <3> QED BY <2>2, <3>1 DEF IInv, ListOK
  <2>3. CASE n \in 1 .. L
    BY <1>2, <1>3, <2>1, <2>2, <2>3
  <2>4. CASE n = L + 1
    BY <1>2, <2>1, <2>2, <2>4
  <2> QED BY <1>2, <2>3, <2>4
<1> QED BY <1>4, <1>5

\* The thread that has the lock pops the head of the list, and may wake the
\* reader that submitted it.
LEMMA PopStep ==
  ASSUME IInv, NEW t \in Threads, NEW g \in Frames, fr' = [fr EXCEPT ![t] = g],
         fr[t].pc \in LockPCs, dq_items # <<>>, dq_items' = Tail(dq_items),
         NEW h, h = Head(dq_items),
         \/ event' = event
         \/ /\ event' = [event EXCEPT ![h.by] = TRUE]
            /\ IsWaiter(h) /\ ~Exclusive(h),
         Waits(t) => Waits(t)' /\ g.item = fr[t].item,
         ThreadOK(t)'
  PROVE  (\A u \in Threads : ThreadOK(u)') /\ ListOK'
<1>1. Typed /\ fr \in [Threads -> Frames] /\ dq_items \in Seq(Items)
      /\ event \in [Clients -> BOOLEAN]
  BY DEF IInv, Typed
<1> DEFINE L == Len(dq_items)
<1>2. /\ L \in Nat \ {0} /\ Len(dq_items') = L - 1
      /\ \A n \in 1 .. L - 1 : dq_items'[n] = dq_items[n + 1]
      /\ h = dq_items[1] /\ h \in Items
  BY <1>1, LenProperties, HeadTailProperties, ElementOfSeq, EmptySeq
<1>3. IsWaiter(h) => Awaited(h)
  BY <1>2 DEF IInv, ListOK
<1>4. ASSUME NEW u \in Threads, u # t PROVE ThreadOK(u)'
  <2>1. ThreadOK(u) /\ fr'[u] = fr[u]
    BY <1>1, <1>4 DEF IInv
  <2>2. fr[u].pc \notin LockPCs
    BY <1>4, OneOwner DEF IInv, HasLock, LockPCs
  <2>3. ItemOK(u)' /\ CursorOK(u)' /\ DrainerOK(u)' /\ TransferOK(u)'
    BY <2>1, <2>2 DEF ThreadOK, ItemOK, CursorOK, DrainerOK, TransferOK,
         LockPCs, BarrierPCs, NonBarrierPCs, DrainPCs
  <2>4. EventOK(u)'
    <3>1. CASE u \in Clients /\ event'[u] # event[u]
      <4>1. u = h.by /\ IsWaiter(h)
        BY <1>1, <3>1
      <4>2. Waits(u) /\ fr[u].pc \notin LockPCs
        BY <1>3, <2>2, <4>1 DEF Awaited
      <4> QED BY <2>1, <4>2 DEF EventOK, Waits
    <3>2. CASE ~(u \in Clients /\ event'[u] # event[u])
      BY <2>1, <3>2 DEF ThreadOK, EventOK, Waits
    <3> QED BY <3>1, <3>2
  <2> QED BY <2>3, <2>4 DEF ThreadOK
<1>5. ListOK'
  <2>1. SUFFICES ASSUME NEW n \in 1 .. L - 1, NEW i, i = dq_items'[n], IsWaiter(i)
                 PROVE  /\ Awaited(i)'
                        /\ \A m \in 1 .. L - 1 : dq_items'[m] = i => m = n
    BY <1>2, <2>1 DEF ListOK, Awaited, Waits
  <2>2. n + 1 \in 1 .. L /\ i = dq_items[n + 1]
    BY <1>2, <2>1
  <2>3. /\ i \in Items /\ Awaited(i)
        /\ \A m \in 1 .. L : dq_items[m] = i => m = n + 1
    BY <1>1, <2>1, <2>2, ElementOfSeq DEF IInv, ListOK
  <2>4. h # i
    BY <1>2, <2>3
  <2>5. i.by \in Clients /\ (IsWaiter(h) => h.by # i.by)
    BY <1>3, <2>3, <2>4 DEF Awaited, Items
  <2>6. event'[i.by] = event[i.by]
    BY <1>1, <2>5
  <2>7. Awaited(i)'
    BY <1>1, <2>3, <2>6, StillAwaited
  <2>8. ASSUME NEW m \in 1 .. L - 1, dq_items'[m] = i PROVE m = n
    <3>1. m + 1 \in 1 .. L /\ dq_items[m + 1] = i
      BY <1>2, <2>2, <2>8
    <3> QED BY <2>3, <3>1
  <2> QED BY <2>2, <2>7, <2>8
<1> QED BY <1>4, <1>5

\* The thread that has the lock hands it to the waiter it has popped.
LEMMA TransferStep ==
  ASSUME IInv, NEW t \in Threads, NEW g \in Frames, fr' = [fr EXCEPT ![t] = g],
         fr[t].pc = "waiter_transfer", dq_items' = dq_items,
         event' = [event EXCEPT ![fr[t].dc.by] = TRUE],
         Waits(t) => Waits(t)' /\ g.item = fr[t].item,
         ThreadOK(t)'
  PROVE  (\A u \in Threads : ThreadOK(u)') /\ ListOK'
<1> DEFINE h == fr[t].dc
<1>1. /\ Typed /\ fr \in [Threads -> Frames] /\ dq_items \in Seq(Items)
      /\ event \in [Clients -> BOOLEAN]
      /\ ThreadOK(t)
  BY DEF IInv, Typed
<1>2. /\ Awaited(h) /\ h \in Items /\ h.by \in Clients
      /\ \A n \in 1 .. Len(dq_items) : dq_items[n] # h
  BY <1>1 DEF ThreadOK, TransferOK, CursorOK, Frames, Items
<1>3. ASSUME NEW u \in Threads, u # t PROVE ThreadOK(u)'
  <2>1. ThreadOK(u) /\ fr'[u] = fr[u]
    BY <1>1, <1>3 DEF IInv
  <2>2. fr[u].pc \notin LockPCs
    BY <1>3, OneOwner DEF IInv, HasLock, LockPCs, BarrierPCs
  <2>3. ItemOK(u)' /\ CursorOK(u)' /\ DrainerOK(u)' /\ TransferOK(u)'
    BY <2>1, <2>2 DEF ThreadOK, ItemOK, CursorOK, DrainerOK, TransferOK,
         LockPCs, BarrierPCs, NonBarrierPCs, DrainPCs
  <2>4. EventOK(u)'
    <3>1. CASE u = h.by
      <4>1. /\ Waits(u) /\ fr[u].pc \notin LockPCs
        BY <1>2, <2>2, <3>1 DEF Awaited
      <4> QED BY <2>1, <4>1 DEF EventOK, Waits
    <3>2. CASE u # h.by
      BY <1>1, <2>1, <3>2 DEF ThreadOK, EventOK, Waits
    <3> QED BY <3>1, <3>2
  <2> QED BY <2>3, <2>4 DEF ThreadOK
<1>4. ListOK'
  <2>1. SUFFICES ASSUME NEW n \in 1 .. Len(dq_items), NEW i, i = dq_items[n],
                        IsWaiter(i)
                 PROVE  Awaited(i)'
    BY <2>1 DEF IInv, ListOK
  <2>2. i \in Items /\ i.by \in Clients /\ Awaited(i) /\ i # h
    <3>1. i \in Items
      BY <1>1, <2>1, ElementOfSeq
    <3> QED BY <1>2, <2>1, <3>1 DEF IInv, ListOK, Items
  <2>3. i.by # h.by
    BY <1>2, <2>2 DEF Awaited
  <2>4. event'[i.by] = event[i.by]
    BY <1>1, <2>2, <2>3
  <2> QED BY <1>1, <2>2, <2>4, StillAwaited
<1> QED BY <1>3, <1>4

\* A caller that was signalled returns from its wait.
LEMMA WaitStep ==
  ASSUME IInv, NEW t \in Clients, NEW g \in Frames, fr' = [fr EXCEPT ![t] = g],
         event[t], dq_items' = dq_items, event' = [event EXCEPT ![t] = FALSE],
         ThreadOK(t)'
  PROVE  (\A u \in Threads : ThreadOK(u)') /\ ListOK'
<1>1. /\ Typed /\ fr \in [Threads -> Frames] /\ dq_items \in Seq(Items)
      /\ event \in [Clients -> BOOLEAN] /\ t \in Threads
  BY DEF IInv, Typed, Threads
<1>2. ASSUME NEW i \in Items, Awaited(i) PROVE Awaited(i)'
  <2>1. i.by \in Clients /\ i.by # t
    BY <1>2 DEF Awaited, Items
  <2>2. event'[i.by] = event[i.by]
    BY <1>1, <2>1
  <2> QED BY <1>1, <1>2, <2>1, <2>2, StillAwaited
<1>3. ASSUME NEW u \in Threads, u # t PROVE ThreadOK(u)'
  <2>1. ThreadOK(u) /\ fr'[u] = fr[u]
    BY <1>1, <1>3 DEF IInv
  <2>2. EventOK(u)' /\ ItemOK(u)' /\ CursorOK(u)' /\ DrainerOK(u)'
    BY <1>1, <1>3, <2>1 DEF ThreadOK, EventOK, ItemOK, CursorOK, DrainerOK, Waits
  <2>3. TransferOK(u)'
    <3>1. SUFFICES ASSUME fr[u].pc = "waiter_transfer" PROVE TransferOK(u)'
      BY <2>1 DEF TransferOK
    <3>2. fr[u].dc \in Items
      BY <1>1, <2>1, <3>1 DEF Frames, ThreadOK, CursorOK
    <3>3. Awaited(fr[u].dc)'
      BY <1>2, <2>1, <3>1, <3>2 DEF ThreadOK, TransferOK
    <3> QED BY <2>1, <3>1, <3>3 DEF ThreadOK, TransferOK
  <2> QED BY <2>2, <2>3 DEF ThreadOK
<1>4. ListOK'
  <2>1. SUFFICES ASSUME NEW n \in 1 .. Len(dq_items), IsWaiter(dq_items[n])
                 PROVE  Awaited(dq_items[n])'
    BY <2>1 DEF IInv, ListOK
  <2>2. dq_items[n] \in Items
    BY <1>1, ElementOfSeq
  <2> QED BY <1>2, <2>1, <2>2 DEF IInv, ListOK
<1> QED BY <1>3, <1>4

----------------------------------------------------------------------------
(* The lock *)

\* The step neither takes the lock nor gives it back.
LEMMA LockKept ==
  ASSUME IInv, NEW t \in Threads, NEW g \in Frames, fr' = [fr EXCEPT ![t] = g],
         event' = event, dq_state'.owner = dq_state.owner,
         HasLock(t)' <=> HasLock(t)
  PROVE  LockHasItsOwner'
<1>1. fr \in [Threads -> Frames] /\ LockHasItsOwner
  BY DEF IInv, Typed
<1>2. ASSUME NEW u \in Threads, u # t PROVE HasLock(u)' <=> HasLock(u)
  BY <1>1, <1>2 DEF HasLock, Woken
<1> QED BY <1>1, <1>2 DEF LockHasItsOwner

\* The step takes the lock, which was free.
LEMMA LockTaken ==
  ASSUME IInv, NEW t \in Threads, NEW g \in Frames, fr' = [fr EXCEPT ![t] = g],
         event' = event, dq_state.owner = Null, dq_state'.owner = t, HasLock(t)'
  PROVE  LockHasItsOwner'
<1>1. fr \in [Threads -> Frames] /\ LockHasItsOwner /\ Null \notin Threads
  BY LaneAssumption DEF IInv, Typed
<1>2. ASSUME NEW u \in Threads, u # t PROVE ~HasLock(u)'
  <2>1. ~HasLock(u)
    BY <1>1 DEF LockHasItsOwner
  <2> QED BY <1>1, <1>2, <2>1 DEF HasLock, Woken
<1> QED BY <1>1, <1>2 DEF LockHasItsOwner

\* The step gives the lock back.
LEMMA LockLeft ==
  ASSUME IInv, NEW t \in Threads, NEW g \in Frames, fr' = [fr EXCEPT ![t] = g],
         event' = event, HasLock(t), dq_state'.owner = Null, ~HasLock(t)'
  PROVE  LockHasItsOwner'
<1>1. fr \in [Threads -> Frames] /\ LockHasItsOwner /\ Null \notin Threads
  BY LaneAssumption DEF IInv, Typed
<1>2. ASSUME NEW u \in Threads, u # t PROVE ~HasLock(u)'
  <2>1. ~HasLock(u)
    BY <1>1, <1>2, OneOwner
  <2> QED BY <1>1, <1>2, <2>1 DEF HasLock, Woken
<1> QED BY <1>1, <1>2 DEF LockHasItsOwner

----------------------------------------------------------------------------
(* ENQUEUED *)

Drainers == {u \in Workers : fr[u].enq}

One(b) == IF b THEN 1 ELSE 0

\* What EnqueuedOnce says, without cardinalities.
LEMMA EnqueuedFacts ==
  ASSUME IInv
  PROVE  /\ IsFiniteSet(Drainers)
         /\ tokens \in Nat /\ Cardinality(Drainers) \in Nat
         /\ tokens + Cardinality(Drainers) = One(dq_state.enq)
         /\ dq_state.enq \in BOOLEAN
         /\ \A t \in Threads : fr[t].enq => dq_state.enq /\ tokens = 0
         /\ tokens > 0 => tokens = 1 /\ dq_state.enq /\ \A t \in Threads : ~fr[t].enq
<1>1. /\ tokens \in Nat /\ dq_state.enq \in BOOLEAN
      /\ \A t \in Threads : ThreadOK(t)
      /\ tokens + Cardinality(Drainers) = One(dq_state.enq)
  BY DEF IInv, Typed, Words, EnqueuedOnce, Drainers, One
<1>2. IsFiniteSet(Drainers) /\ Cardinality(Drainers) \in Nat
  BY LaneAssumption, FS_Subset, FS_CardinalityType DEF Drainers
<1>3. ASSUME NEW t \in Threads, fr[t].enq PROVE dq_state.enq /\ tokens = 0
  <2>1. t \in Drainers
    BY <1>1, <1>3 DEF ThreadOK, DrainerOK, Drainers
  <2>2. Cardinality(Drainers) # 0
    BY <1>2, <2>1, FS_EmptySet
  <2> QED BY <1>1, <1>2, <2>2 DEF One
<1> QED BY <1>1, <1>2, <1>3 DEF One

\* A step that changes tokens, ENQUEUED and who owns it by the same amount.
LEMMA EnqueuedStep ==
  ASSUME IInv, NEW t \in Threads, NEW g \in Frames, fr' = [fr EXCEPT ![t] = g],
         g.enq => t \in Workers, tokens' \in Nat, dq_state' \in Words,
         tokens' + One(g.enq) + One(dq_state.enq)
           = tokens + One(fr[t].enq) + One(dq_state'.enq)
  PROVE  EnqueuedOnce'
<1>1. /\ fr \in [Threads -> Frames] /\ ThreadOK(t) /\ dq_state \in Words
      /\ Drainers \in SUBSET Workers /\ Workers \subseteq Threads
  BY DEF IInv, Typed, Drainers, Threads
<1>2. /\ tokens \in Nat /\ Cardinality(Drainers) \in Nat /\ IsFiniteSet(Drainers)
      /\ tokens + Cardinality(Drainers) = One(dq_state.enq)
  BY EnqueuedFacts
<1>3. fr[t].enq \in BOOLEAN /\ g.enq \in BOOLEAN
      /\ dq_state.enq \in BOOLEAN /\ dq_state'.enq \in BOOLEAN
  BY <1>1 DEF Frames, Words
<1>4. fr[t].enq <=> t \in Drainers
  BY <1>1 DEF ThreadOK, DrainerOK, Drainers
<1>5. /\ Drainers' = IF g.enq THEN Drainers \cup {t} ELSE Drainers \ {t}
  BY <1>1 DEF Drainers
<1>6. Cardinality(Drainers') = Cardinality(Drainers) + One(g.enq) - One(fr[t].enq)
  <2>1. CASE g.enq /\ fr[t].enq
    <3>1. Drainers' = Drainers
      BY <1>4, <1>5, <2>1
    <3> QED BY <1>2, <2>1, <3>1 DEF One
  <2>2. CASE g.enq /\ ~fr[t].enq
    <3>1. Cardinality(Drainers \cup {t}) = Cardinality(Drainers) + 1
      BY <1>2, <1>4, <2>2, FS_AddElement
    <3> QED BY <1>2, <1>5, <2>2, <3>1 DEF One
  <2>3. CASE ~g.enq /\ fr[t].enq
    <3>1. Cardinality(Drainers \ {t}) = Cardinality(Drainers) - 1
      BY <1>2, <1>4, <2>3, FS_RemoveElement
    <3> QED BY <1>2, <1>5, <2>3, <3>1 DEF One
  <2>4. CASE ~g.enq /\ ~fr[t].enq
    <3>1. Drainers' = Drainers
      BY <1>4, <1>5, <2>4
    <3> QED BY <1>2, <2>4, <3>1 DEF One
  <2> QED BY <1>3, <2>1, <2>2, <2>3, <2>4
<1>7. tokens' + Cardinality(Drainers') = One(dq_state'.enq)
  <2>1. /\ One(g.enq) \in Nat /\ One(fr[t].enq) \in Nat
        /\ One(dq_state.enq) \in Nat /\ One(dq_state'.enq) \in Nat
    BY DEF One
  <2> HIDE DEF Drainers
  <2> QED BY <1>2, <1>6, <2>1
<1> QED BY <1>7 DEF EnqueuedOnce, Drainers, One

----------------------------------------------------------------------------
(* The invariant after a step *)

\* The variables of Typed that a step changes without regard to the others.
Kept ==
  /\ dq_state' \in Words /\ tokens' \in Nat /\ redirects' \subseteq Items
  /\ calls' \in [Clients -> 0 .. MaxCalls]

\* ENQUEUED, and the places that own it, change together.
EnqueuedMoves(t) ==
  tokens' + One(fr'[t].enq) + One(dq_state.enq)
    = tokens + One(fr[t].enq) + One(dq_state'.enq)

KeepsWait(t) == Waits(t) => Waits(t)' /\ fr'[t].item = fr[t].item

\* A thread there neither waits nor has the lock.
FreePCs == {"idle", "gone", "concurrent_push", "acquire_async", "push", "link",
            "need_override", "wakeup_probe", "wakeup", "barrier_sync",
            "sync_tail", "reserve_sync", "push_waiter", "run_reader",
            "run_redirect", "retain", "resume"}

\* Updates of one field keep a state word and a frame in their types.
LEMMA WordFields ==
  \A s \in Words :
    /\ \A x \in Int : [s EXCEPT !.sc = x] \in Words /\ [s EXCEPT !.w = x] \in Words
    /\ \A x \in BOOLEAN :
         /\ [s EXCEPT !.ib = x] \in Words /\ [s EXCEPT !.pb = x] \in Words
         /\ [s EXCEPT !.d = x] \in Words /\ [s EXCEPT !.enq = x] \in Words
         /\ [s EXCEPT !.qos = x] \in Words /\ [s EXCEPT !.ro = x] \in Words
    /\ \A x \in Threads \cup {Null} : [s EXCEPT !.owner = x] \in Words
BY DEF Words

\* The same for the fields of a thread's frame.
LEMMA FrameFields ==
  \A f \in Frames :
    /\ \A x \in PCs : [f EXCEPT !.pc = x] \in Frames
    /\ \A x \in Items \cup {Null} :
         [f EXCEPT !.item = x] \in Frames /\ [f EXCEPT !.dc = x] \in Frames
    /\ \A x \in Int : [f EXCEPT !.w = x] \in Frames
    /\ \A x \in BOOLEAN :
         /\ [f EXCEPT !.ib = x] \in Frames /\ [f EXCEPT !.enq = x] \in Frames
         /\ [f EXCEPT !.c2 = x] \in Frames /\ [f EXCEPT !.dirty = x] \in Frames
         /\ [f EXCEPT !.waits = x] \in Frames
BY DEF Frames

\* The control points that are named below.
LEMMA Points ==
  /\ FreePCs \subseteq PCs /\ QueuedPCs \subseteq PCs /\ LockPCs \subseteq PCs
  /\ "wait" \in PCs /\ TRUE \in BOOLEAN /\ FALSE \in BOOLEAN
BY DEF PCs, FreePCs, QueuedPCs, LockPCs, BarrierPCs, NonBarrierPCs, DrainPCs

\* The frame of a thread outside the API.
LEMMA NoFrameFacts ==
  /\ NoFrame \in Frames /\ NoFrame.pc = "idle" /\ NoFrame.item = Null
  /\ ~NoFrame.enq /\ ~NoFrame.waits
  /\ "wait" \in PCs
BY DEF NoFrame, Frames, PCs

\* What IInv says of the thread that makes a step.
LEMMA ThreadFacts ==
  ASSUME IInv, NEW t \in Threads
  PROVE  /\ fr \in [Threads -> Frames] /\ fr[t] \in Frames /\ dq_state \in Words
         /\ dq_items \in Seq(Items) /\ tokens \in Nat
         /\ event \in [Clients -> BOOLEAN]
         /\ calls \in [Clients -> 0 .. MaxCalls] /\ redirects \subseteq Items
         /\ ThreadOK(t) /\ (dq_state.owner = t <=> HasLock(t))
         /\ t # Null /\ Null \notin Items /\ Width \in Nat \ {0}
         /\ (fr[t].enq => dq_state.enq /\ tokens = 0)
<1>1. Typed /\ ThreadOK(t) /\ LockHasItsOwner
  BY DEF IInv
<1>2. fr[t].enq => dq_state.enq /\ tokens = 0
  BY EnqueuedFacts
<1> QED BY <1>1, <1>2, LaneAssumption DEF Typed, LockHasItsOwner

\* Only a thread that has the lock, or takes it, changes IN_BARRIER.
LEMMA BarrierLeftStep ==
  ASSUME IInv, NEW t \in Threads, NEW g \in Frames, fr' = [fr EXCEPT ![t] = g],
         \/ dq_state'.ib = dq_state.ib
         \/ HasLock(t)
         \/ dq_state.owner = Null,
         g.pc \in NonBarrierPCs => ~dq_state'.ib
  PROVE  BarrierLeft'
<1>1. SUFFICES ASSUME NEW u \in Threads, fr'[u].pc \in NonBarrierPCs, u # t
               PROVE  ~dq_state'.ib
  BY ThreadFacts DEF BarrierLeft
<1>2. fr[u].pc \in NonBarrierPCs /\ u # Null /\ (dq_state.owner = u <=> HasLock(u))
  BY <1>1, ThreadFacts
<1>3. HasLock(u) /\ ~dq_state.ib
  BY <1>2 DEF HasLock, IInv, BarrierLeft
<1>4. dq_state'.ib = dq_state.ib
  BY <1>1, <1>2, <1>3, OneOwner DEF IInv
<1> QED BY <1>3, <1>4

\* The step leaves the list and the events alone.
LEMMA LocalCase ==
  ASSUME IInv, NEW t \in Threads, NEW g \in Frames, fr' = [fr EXCEPT ![t] = g],
         UNCHANGED <<dq_items, event>>, Kept, ThreadOK(t)', KeepsWait(t),
         \/ dq_state'.owner = dq_state.owner /\ (HasLock(t)' <=> HasLock(t))
         \/ dq_state.owner = Null /\ dq_state'.owner = t /\ HasLock(t)'
         \/ HasLock(t) /\ dq_state'.owner = Null /\ ~HasLock(t)',
         EnqueuedMoves(t),
         dq_state'.ib = dq_state.ib \/ HasLock(t) \/ dq_state.owner = Null,
         g.pc \in NonBarrierPCs => ~dq_state'.ib
  PROVE  IInv'
<1>1. fr'[t] = g /\ Typed'
  BY DEF IInv, Typed, Kept
<1>2. (\A u \in Threads : ThreadOK(u)') /\ ListOK'
  BY <1>1, LocalStep DEF KeepsWait
<1>3. LockHasItsOwner'
  BY LockKept, LockTaken, LockLeft
<1>4. g.enq => t \in Workers
  BY <1>1 DEF ThreadOK, DrainerOK
<1>5. EnqueuedOnce'
  BY <1>1, <1>4, EnqueuedStep DEF EnqueuedMoves, Kept
<1>6. BarrierLeft'
  BY BarrierLeftStep
<1> QED BY <1>1, <1>2, <1>3, <1>5, <1>6 DEF IInv

\* A thread there owns nothing of the lane.
LEMMA FreeFacts ==
  ASSUME IInv, NEW t \in Threads, fr[t].pc \in FreePCs
  PROVE  ~fr[t].enq /\ ~HasLock(t) /\ ~Waits(t) /\ dq_state.owner # t
<1>1. ThreadOK(t) /\ (dq_state.owner = t <=> HasLock(t))
  BY ThreadFacts
<1>2. fr[t].pc \notin LockPCs \cup QueuedPCs \cup {"wait"}
  BY DEF FreePCs, LockPCs, QueuedPCs, BarrierPCs, NonBarrierPCs, DrainPCs
<1>3. ~Waits(t) /\ ~Woken(t)
  BY <1>1, <1>2 DEF Waits, ThreadOK, EventOK, Woken
<1>4. ~fr[t].enq
  BY <1>1, <1>2 DEF ThreadOK, DrainerOK, LockPCs, BarrierPCs
<1> QED BY <1>1, <1>2, <1>3, <1>4 DEF HasLock, LockPCs

\* A thread without the lock stays without it.
LEMMA QuietCase ==
  ASSUME IInv, NEW t \in Threads, NEW g \in Frames, fr' = [fr EXCEPT ![t] = g],
         fr[t].pc \in FreePCs, g.pc \in FreePCs \cup {"wait"}, ~g.enq,
         UNCHANGED <<dq_items, event>>, Kept, dq_state'.owner = dq_state.owner,
         dq_state'.ib = dq_state.ib,
         tokens' + One(dq_state.enq) = tokens + One(dq_state'.enq), ItemOK(t)'
  PROVE  IInv'
<1>1. fr'[t] = g /\ ThreadOK(t)
  BY ThreadFacts
<1>2. fr[t].pc \notin LockPCs \cup QueuedPCs \cup {"wait"} /\ g.pc \notin LockPCs /\ g.pc \notin NonBarrierPCs
  BY DEF FreePCs, LockPCs, QueuedPCs, BarrierPCs, NonBarrierPCs, DrainPCs
<1>3. ~Waits(t) /\ ~Woken(t) /\ ~Woken(t)'
  BY <1>1, <1>2 DEF Waits, ThreadOK, EventOK, Woken
<1>4. EventOK(t)' /\ CursorOK(t)' /\ TransferOK(t)' /\ DrainerOK(t)'
  BY <1>1, <1>2, <1>3 DEF EventOK, Woken, CursorOK, TransferOK, DrainerOK,
     LockPCs, BarrierPCs, NonBarrierPCs, DrainPCs
<1>5. ~HasLock(t) /\ ~HasLock(t)'
  BY <1>1, <1>2, <1>3 DEF HasLock, LockPCs
<1>6. EnqueuedMoves(t)
  <2>1. One(fr'[t].enq) = 0 /\ One(fr[t].enq) = 0
    BY <1>1, FreeFacts DEF One
  <2>2. tokens \in Nat /\ tokens' \in Nat /\ One(dq_state.enq) \in Nat /\ One(dq_state'.enq) \in Nat
    BY ThreadFacts DEF One, Kept
  <2> QED BY <2>1, <2>2 DEF EnqueuedMoves
<1> QED BY <1>3, <1>2, <1>4, <1>5, <1>6, LocalCase DEF KeepsWait, ThreadOK

\* A thread takes the lock, which was free.
LEMMA EnterCase ==
  ASSUME IInv, NEW t \in Threads, NEW g \in Frames, fr' = [fr EXCEPT ![t] = g],
         fr[t].pc \in FreePCs, g.pc \in {"run_fast_barrier", "barrier_complete", "drain"},
         UNCHANGED <<dq_items, event>>, Kept,
         dq_state.owner = Null, dq_state'.owner = t,
         EnqueuedMoves(t), ItemOK(t)', DrainerOK(t)'
  PROVE  IInv'
<1>1. fr'[t] = g /\ ThreadOK(t)
  BY ThreadFacts
<1>2. fr[t].pc \notin LockPCs \cup QueuedPCs \cup {"wait"} /\ g.pc \in LockPCs /\ g.pc \notin NonBarrierPCs
  BY DEF FreePCs, LockPCs, QueuedPCs, BarrierPCs, NonBarrierPCs, DrainPCs
<1>3. ~Waits(t) /\ ~Woken(t) /\ ~Woken(t)'
  BY <1>1, <1>2 DEF Waits, ThreadOK, EventOK, Woken
<1>4. EventOK(t)' /\ CursorOK(t)' /\ TransferOK(t)'
  BY <1>1, <1>2, <1>3 DEF EventOK, Woken, CursorOK, TransferOK
<1>5. HasLock(t)'
  BY <1>1, <1>2 DEF HasLock, LockPCs
<1> QED BY <1>2, <1>3, <1>4, <1>5, LocalCase DEF KeepsWait, ThreadOK

\* A thread keeps the lock and leaves the list alone.
LEMMA InsideCase ==
  ASSUME IInv, NEW t \in Threads, NEW g \in Frames, fr' = [fr EXCEPT ![t] = g],
         fr[t].pc \in LockPCs, g.pc \in LockPCs, KeepsWait(t),
         UNCHANGED <<dq_items, event>>, Kept, dq_state'.owner = dq_state.owner,
         EnqueuedMoves(t), g.pc \in NonBarrierPCs => ~dq_state'.ib,
         ItemOK(t)', CursorOK(t)', TransferOK(t)', DrainerOK(t)'
  PROVE  IInv'
<1>1. fr'[t] = g /\ ThreadOK(t)
  BY ThreadFacts
<1>2. EventOK(t)'
  BY <1>1 DEF EventOK, ThreadOK, KeepsWait
<1>3. HasLock(t) /\ HasLock(t)'
  BY <1>1 DEF HasLock, LockPCs
<1> QED BY <1>2, <1>3, LocalCase DEF ThreadOK

\* The frame of a thread that returns.
LEMMA ReturnFrame ==
  ASSUME IInv, NEW t \in Threads, Return(t)
  PROVE  \E g \in Frames :
           /\ fr' = [fr EXCEPT ![t] = g] /\ fr'[t] = g /\ ~g.enq
           /\ \/ fr[t].waits /\ g.pc = "wait" /\ g.item = fr[t].item
              \/ ~fr[t].waits /\ g.pc = "idle" /\ g.item = Null
<1> DEFINE w == [NoFrame EXCEPT !.pc = "wait", !.item = fr[t].item]
<1>1. fr \in [Threads -> Frames] /\ fr[t] \in Frames /\ fr[t].item \in Items \cup {Null}
  BY ThreadFacts DEF Frames
<1>2. w \in Frames /\ ~w.enq /\ w.pc = "wait" /\ w.item = fr[t].item
  <2>1. w \in Frames
    BY <1>1, NoFrameFacts, FrameFields, Zenon
  <2> QED BY <2>1 DEF NoFrame
<1>3. NoFrame \in Frames /\ ~NoFrame.enq /\ NoFrame.pc = "idle" /\ NoFrame.item = Null
  BY NoFrameFacts
<1>4. fr' = [fr EXCEPT ![t] = IF fr[t].waits THEN w ELSE NoFrame]
  BY DEF Return, SetFrame
<1> HIDE DEF w
<1>5. CASE fr[t].waits
  BY <1>1, <1>2, <1>4, <1>5
<1>6. CASE ~fr[t].waits
  BY <1>1, <1>3, <1>4, <1>6
<1> QED BY <1>5, <1>6

\* A thread gives the lock back and returns.
LEMMA LeaveCase ==
  ASSUME IInv, NEW t \in Threads, Return(t), fr[t].pc \in LockPCs,
         UNCHANGED <<dq_items, event>>, Kept, dq_state'.owner = Null,
         tokens' + One(dq_state.enq) = tokens + One(fr[t].enq) + One(dq_state'.enq)
  PROVE  IInv'
<1>1. PICK g \in Frames :
           /\ fr' = [fr EXCEPT ![t] = g] /\ fr'[t] = g /\ ~g.enq
           /\ \/ fr[t].waits /\ g.pc = "wait" /\ g.item = fr[t].item
              \/ ~fr[t].waits /\ g.pc = "idle" /\ g.item = Null
  BY ReturnFrame
<1>2. ThreadOK(t) /\ fr[t].pc # "wait"
  BY ThreadFacts DEF LockPCs, BarrierPCs, NonBarrierPCs, DrainPCs
<1>3. KeepsWait(t)
  BY <1>1, <1>2 DEF KeepsWait, Waits
<1>4. EventOK(t)' /\ ItemOK(t)' /\ CursorOK(t)' /\ TransferOK(t)' /\ DrainerOK(t)'
  BY <1>1, <1>2, <1>3 DEF KeepsWait, ThreadOK, EventOK, ItemOK, CursorOK,
     TransferOK, DrainerOK, LockPCs, BarrierPCs, NonBarrierPCs, DrainPCs
<1>5. HasLock(t)
  BY DEF HasLock, LockPCs
<1>6. ~HasLock(t)'
  BY <1>1, <1>2, <1>3 DEF HasLock, KeepsWait, Woken, ThreadOK, EventOK,
     BarrierPCs, NonBarrierPCs, DrainPCs
<1>7. EnqueuedMoves(t)
  <2>1. One(fr'[t].enq) = 0
    BY <1>1 DEF One
  <2>2. tokens' \in Nat /\ One(dq_state.enq) \in Nat
    BY DEF One, Kept
  <2> QED BY <2>1, <2>2 DEF EnqueuedMoves
<1>8. g.pc \notin NonBarrierPCs
  BY <1>1 DEF NonBarrierPCs
<1> QED BY <1>1, <1>3, <1>4, <1>5, <1>6, <1>7, <1>8, LocalCase DEF ThreadOK

\* A thread without the lock returns.
LEMMA ReturnCase ==
  ASSUME IInv, NEW t \in Threads, Return(t), fr[t].pc \in FreePCs,
         UNCHANGED <<dq_items, event>>, Kept, dq_state'.owner = dq_state.owner,
         dq_state'.ib = dq_state.ib,
         tokens' + One(dq_state.enq) = tokens + One(dq_state'.enq)
  PROVE  IInv'
<1>1. PICK g \in Frames :
           /\ fr' = [fr EXCEPT ![t] = g] /\ fr'[t] = g /\ ~g.enq
           /\ \/ fr[t].waits /\ g.pc = "wait" /\ g.item = fr[t].item
              \/ ~fr[t].waits /\ g.pc = "idle" /\ g.item = Null
  BY ReturnFrame
<1>2. ItemOK(t)'
  BY <1>1, ThreadFacts DEF ItemOK, ThreadOK
<1> QED BY <1>1, <1>2, QuietCase DEF FreePCs

\* A thread goes on to another step with the same frame.
LEMMA GotoFrame ==
  ASSUME IInv, NEW t \in Threads, NEW p \in PCs, Goto(t, p)
  PROVE  \E g \in Frames :
           /\ fr' = [fr EXCEPT ![t] = g] /\ fr'[t] = g /\ g.pc = p
           /\ g.item = fr[t].item /\ g.dc = fr[t].dc /\ g.enq = fr[t].enq
           /\ g.waits = fr[t].waits /\ g.c2 = fr[t].c2
<1> DEFINE g == [fr[t] EXCEPT !.pc = p]
<1>1. fr \in [Threads -> Frames] /\ fr[t] \in Frames
  BY ThreadFacts
<1>2. /\ g \in Frames /\ g.pc = p
      /\ g.item = fr[t].item /\ g.dc = fr[t].dc /\ g.enq = fr[t].enq
      /\ g.waits = fr[t].waits /\ g.c2 = fr[t].c2
  BY <1>1 DEF Frames
<1>3. fr' = [fr EXCEPT ![t] = g]
  BY DEF Goto
<1> HIDE DEF g
<1> QED BY <1>1, <1>2, <1>3

----------------------------------------------------------------------------
(* Asynchronous submission *)

\* A thread without the lock goes on to a step that says nothing of its item.
LEMMA GotoCase ==
  ASSUME IInv, NEW t \in Threads, NEW p \in FreePCs \ {"push_waiter"}, Goto(t, p),
         fr[t].pc \in FreePCs, UNCHANGED <<dq_items, event>>, Kept,
         dq_state'.owner = dq_state.owner,
         dq_state'.ib = dq_state.ib, dq_state'.enq = dq_state.enq,
         tokens' = tokens,
         p \in {"concurrent_push", "acquire_async", "push"} =>
           fr[t].item # Null /\ ~IsWaiter(fr[t].item),
         p \in {"barrier_sync", "sync_tail", "reserve_sync"} => fr[t].item # Null
  PROVE  IInv'
<1>1. PICK g \in Frames :
           /\ fr' = [fr EXCEPT ![t] = g] /\ fr'[t] = g /\ g.pc = p
           /\ g.item = fr[t].item /\ g.dc = fr[t].dc /\ g.enq = fr[t].enq
           /\ g.waits = fr[t].waits /\ g.c2 = fr[t].c2
  BY GotoFrame, Points
<1>2. ItemOK(t)'
  BY <1>1, ThreadFacts DEF ItemOK, ThreadOK, FreePCs
<1> QED BY <1>1, <1>2, FreeFacts, QuietCase

\* _dispatch_lane_concurrent_push only chooses where to go on.
LEMMA ConcurrentPushStep ==
  ASSUME IInv, NEW t \in Threads, ConcurrentPush(t) PROVE IInv'
<1>1. Kept
  BY ThreadFacts DEF ConcurrentPush, Kept, root, client
<1>2. fr[t].item # Null /\ ~IsWaiter(fr[t].item)
  BY ThreadFacts DEF ConcurrentPush, At, ThreadOK, ItemOK
<1>3. fr[t].pc \in FreePCs /\ "acquire_async" \in FreePCs /\ "push" \in FreePCs
  BY DEF ConcurrentPush, At, FreePCs
<1> QED BY <1>1, <1>2, <1>3, GotoCase DEF ConcurrentPush, queue, root

\* Width for a redirected item is taken without the lock.
LEMMA AcquireAsyncStep ==
  ASSUME IInv, NEW t \in Threads, AcquireAsync(t) PROVE IInv'
<1>1. /\ fr[t].item # Null /\ ~IsWaiter(fr[t].item) /\ fr[t].item \in Items
      /\ dq_state \in Words /\ dq_state.w + 1 \in Int
  BY ThreadFacts DEF AcquireAsync, At, ThreadOK, ItemOK, Frames, Words
<1>2. fr[t].pc \in FreePCs /\ "push" \in FreePCs
  BY DEF AcquireAsync, At, FreePCs
<1>3. CASE AsyncFits(dq_state)
  <2>1. Return(t) /\ UNCHANGED <<tokens, dq_items, event>>
    BY <1>3 DEF AcquireAsync, queue
  <2> DEFINE s == [dq_state EXCEPT !.w = @ + 1]
  <2>2. s \in Words /\ s.owner = dq_state.owner /\ s.enq = dq_state.enq
      /\ s.ib = dq_state.ib
    BY <1>1 DEF Words
  <2>3. dq_state' = s
    BY <1>3 DEF AcquireAsync
  <2> HIDE DEF s
  <2>4. Kept
    BY <1>1, <1>3, <2>1, <2>2, <2>3, ThreadFacts DEF AcquireAsync, Kept, client
  <2> QED BY <1>2, <2>1, <2>2, <2>3, <2>4, ReturnCase
<1>4. CASE ~AsyncFits(dq_state)
  <2>1. Goto(t, "push") /\ UNCHANGED <<dq_state, tokens, dq_items, event, redirects, calls>>
    BY <1>4 DEF AcquireAsync, queue, client
  <2>2. Kept
    BY <2>1, ThreadFacts DEF Kept
  <2> QED BY <1>1, <1>2, <2>1, <2>2, GotoCase
<1> QED BY <1>3, <1>4

\* A client pushes its item.
LEMMA PushCase ==
  ASSUME IInv, NEW t \in Clients, NEW g \in Frames, fr' = [fr EXCEPT ![t] = g],
         g.item = fr[t].item, g.enq = fr[t].enq, g.waits = fr[t].waits,
         dq_items' = Append(dq_items, fr[t].item),
         UNCHANGED <<dq_state, event, tokens, redirects, calls>>,
         \/ fr[t].pc = "push" /\ g.pc \in {"link", "need_override"}
         \/ fr[t].pc = "push_waiter" /\ g.pc \in {"link_waiter", "link_first_waiter"}
  PROVE  IInv'
<1> DEFINE x == fr[t].item
<1>1. t \in Threads /\ fr[t].pc \in FreePCs
  BY DEF Threads, FreePCs
<1>2. /\ fr'[t] = g /\ ThreadOK(t) /\ x \in Items /\ x.by = t
      /\ dq_items \in Seq(Items) /\ event \in [Clients -> BOOLEAN]
  BY <1>1, ThreadFacts DEF ThreadOK, ItemOK, Frames
<1>3. ~fr[t].enq /\ ~HasLock(t) /\ ~Waits(t) /\ ~Woken(t)
  BY <1>1, <1>2, FreeFacts DEF ThreadOK, EventOK, Woken
<1>4. Typed'
  <2>1. dq_items' \in Seq(Items)
    BY <1>2, AppendProperties
  <2> QED BY <1>1, <2>1 DEF IInv, Typed
<1>5. EventOK(t)' /\ ItemOK(t)' /\ CursorOK(t)' /\ TransferOK(t)' /\ DrainerOK(t)'
  BY <1>2, <1>3 DEF ThreadOK, EventOK, Woken, ItemOK, CursorOK, TransferOK, DrainerOK
<1>6. IsWaiter(x) => ~Awaited(x) /\ Awaited(x)'
  BY <1>2, <1>3 DEF Awaited, ThreadOK, ItemOK, Waits, QueuedPCs, Woken
<1>7. (\A u \in Threads : ThreadOK(u)') /\ ListOK'
  BY <1>1, <1>2, <1>3, <1>5, <1>6, AppendStep DEF ThreadOK
<1>8. ~HasLock(t)'
  BY <1>2, <1>3 DEF HasLock, Woken, BarrierPCs, NonBarrierPCs, DrainPCs
<1>9. LockHasItsOwner'
  BY <1>1, <1>3, <1>8, LockKept
<1>10. EnqueuedOnce'
  BY <1>1, <1>3, <1>4, EnqueuedStep DEF Typed
<1>11. g.pc \notin NonBarrierPCs
  BY DEF NonBarrierPCs
<1>12. BarrierLeft'
  BY <1>1, <1>11, BarrierLeftStep
<1> QED BY <1>4, <1>7, <1>9, <1>10, <1>12 DEF IInv

\* dispatch_async appends an item for which nobody waits.
LEMMA PushStep ==
  ASSUME IInv, NEW t \in Clients, Push(t) PROVE IInv'
<1> DEFINE first == dq_items = <<>>
           p == IF first THEN "link" ELSE "need_override"
           g == [fr[t] EXCEPT !.pc = p, !.c2 = first, !.dirty = first]
<1>1. t \in Threads
  BY DEF Threads
<1>2. fr[t] \in Frames /\ p \in PCs /\ first \in BOOLEAN
  BY <1>1, ThreadFacts DEF PCs
<1>3. g \in Frames
  BY <1>2, FrameFields, Zenon
<1>4. g.pc = p /\ g.item = fr[t].item /\ g.enq = fr[t].enq /\ g.waits = fr[t].waits
  BY <1>2 DEF Frames
<1>5. /\ fr' = [fr EXCEPT ![t] = g] /\ fr[t].pc = "push"
      /\ dq_items' = Append(dq_items, fr[t].item)
      /\ UNCHANGED <<dq_state, event, tokens, redirects, calls>>
  BY DEF Push, SetFrame, At, root, client
<1> HIDE DEF g
<1> QED BY <1>3, <1>4, <1>5, PushCase

\* Reading the QoS bit changes nothing.
LEMMA NeedOverrideStep ==
  ASSUME IInv, NEW t \in Threads, NeedOverride(t) PROVE IInv'
<1> DEFINE c == ~dq_state.qos
           g == [fr[t] EXCEPT !.pc = "link", !.c2 = c]
<1>1. fr[t] \in Frames /\ "link" \in PCs /\ c \in BOOLEAN
  BY ThreadFacts DEF PCs
<1>2. g \in Frames
  BY <1>1, FrameFields, Zenon
<1>3. g.pc = "link" /\ g.item = fr[t].item /\ g.enq = fr[t].enq /\ g.waits = fr[t].waits
  BY <1>1 DEF Frames
<1>4. /\ fr' = [fr EXCEPT ![t] = g] /\ fr[t].pc = "need_override"
      /\ UNCHANGED <<dq_state, dq_items, event, tokens, redirects, calls>>
  BY DEF NeedOverride, SetFrame, At, root, client, queue
<1> HIDE DEF g
<1>5. fr'[t] = g /\ fr[t].pc \in FreePCs /\ g.pc \in FreePCs /\ ~g.enq
  BY <1>3, <1>4, FreeFacts, ThreadFacts DEF FreePCs
<1>6. ItemOK(t)' /\ Kept
  BY <1>3, <1>4, <1>5, ThreadFacts DEF ItemOK, ThreadOK, Kept
<1> QED BY <1>2, <1>4, <1>5, <1>6, QuietCase

\* Linking an item changes neither the lock nor the order of the list.
LEMMA LinkStep ==
  ASSUME IInv, NEW t \in Threads, Link(t) PROVE IInv'
<1>1. fr[t].pc \in FreePCs /\ "wakeup_probe" \in FreePCs
  BY DEF Link, At, FreePCs
<1>2. /\ UNCHANGED <<dq_state, dq_items, event, tokens, redirects, calls>>
      /\ Goto(t, "wakeup_probe") \/ Return(t)
  BY DEF Link, root, client
<1>3. Kept
  BY <1>2, ThreadFacts DEF Kept
<1> QED BY <1>1, <1>2, <1>3, GotoCase, ReturnCase

\* The probe only decides whether to wake the lane up.
LEMMA WakeupProbeStep ==
  ASSUME IInv, NEW t \in Threads, WakeupProbe(t) PROVE IInv'
<1>1. fr[t].pc \in FreePCs /\ "wakeup" \in FreePCs
  BY DEF WakeupProbe, At, FreePCs
<1>2. /\ UNCHANGED <<dq_state, dq_items, event, tokens, redirects, calls>>
      /\ Goto(t, "wakeup") \/ Return(t)
  BY DEF WakeupProbe, root, client, queue
<1>3. Kept
  BY <1>2, ThreadFacts DEF Kept
<1> QED BY <1>1, <1>2, <1>3, GotoCase, ReturnCase

\* A wakeup enqueues the lane when it sets ENQUEUED, and only then.
LEMMA WakeupStep ==
  ASSUME IInv, NEW t \in Threads, Wakeup(t) PROVE IInv'
<1> DEFINE m == MergeQos(dq_state)
           new == [m EXCEPT !.enq = @ \/ ~Suspended(dq_state),
                            !.d = @ \/ fr[t].dirty]
<1>1. dq_state \in Words /\ fr[t] \in Frames /\ tokens \in Nat
  BY ThreadFacts
<1>2. m \in Words /\ m.owner = dq_state.owner /\ m.enq = dq_state.enq
      /\ m.ib = dq_state.ib
  <2>1. CASE dq_state.qos
    BY <1>1, <2>1 DEF MergeQos
  <2>2. CASE ~dq_state.qos
    <3>1. [dq_state EXCEPT !.qos = TRUE, !.ro = TRUE] \in Words
      BY <1>1, Points, WordFields, Zenon
    <3> QED BY <1>1, <2>2, <3>1 DEF MergeQos, Words
  <2> QED BY <2>1, <2>2
<1> HIDE DEF m
<1>3. new \in Words
  <2> DEFINE e == m.enq \/ ~Suspended(dq_state)
             d == m.d \/ fr[t].dirty
  <2>1. e \in BOOLEAN /\ d \in BOOLEAN /\ new = [m EXCEPT !.enq = e, !.d = d]
    OBVIOUS
  <2> HIDE DEF e, d, new
  <2> QED BY <1>2, <2>1, WordFields, Zenon
<1>4. new.owner = dq_state.owner /\ new.ib = dq_state.ib /\ (dq_state.enq => new.enq)
      /\ new.enq \in BOOLEAN /\ dq_state.enq \in BOOLEAN
  BY <1>1, <1>2, <1>3 DEF Words
<1>5. /\ dq_state' = new /\ Return(t) /\ fr[t].pc \in FreePCs
      /\ tokens' = (IF new.enq # dq_state.enq THEN tokens + 1 ELSE tokens)
      /\ UNCHANGED <<dq_items, event, redirects, calls>>
  BY DEF Wakeup, m, At, client, queue, FreePCs
<1> HIDE DEF new
<1>6. Kept /\ tokens' + One(dq_state.enq) = tokens + One(dq_state'.enq)
  BY <1>1, <1>3, <1>4, <1>5, ThreadFacts DEF Kept, One
<1> QED BY <1>4, <1>5, <1>6, ReturnCase

----------------------------------------------------------------------------
(* Synchronous submission, suspension *)

\* Taking the full width makes t the owner and leaves ENQUEUED alone.
LEMMA TakeFullFacts ==
  ASSUME NEW s \in Words, NEW t \in Threads
  PROVE  LET n == TakeFull(s, t) IN
           n \in Words /\ n.owner = t /\ n.enq = s.enq /\ n.sc = s.sc
<1> DEFINE m == FullWidth(s, t)
<1>1. Width \in Int
  BY LaneAssumption
<1>2. m \in Words /\ m.owner = t /\ m.enq = s.enq /\ m.sc = s.sc
  <2>1. [s EXCEPT !.w = Width, !.ib = TRUE, !.pb = FALSE, !.d = FALSE, !.owner = t]
          \in Words
    BY <1>1, Points, WordFields, Zenon
  <2> QED BY <2>1 DEF FullWidth, Words
<1> HIDE DEF m
<1>3. [m EXCEPT !.ro = FALSE] \in Words
  BY <1>2, Points, WordFields
<1> QED BY <1>2, <1>3 DEF TakeFull, m, Words

\* Unlocking clears the owner and leaves ENQUEUED and IN_BARRIER alone.
LEMMA UnlockFacts ==
  ASSUME NEW s \in Words
  PROVE  LET n == Unlock(s) IN
           /\ n \in Words /\ n.owner = Null /\ n.enq = s.enq /\ n.sc = s.sc
           /\ n.ib = s.ib /\ n.w = s.w /\ n.pb = s.pb /\ n.d = s.d
<1>1. Null \in Threads \cup {Null}
  OBVIOUS
<1>2. [s EXCEPT !.owner = Null, !.ro = FALSE] \in Words
  BY <1>1, Points, WordFields, Zenon
<1> QED BY <1>2 DEF Unlock, Words

\* A thread starts to run its barrier, having taken the lock, or goes on to
\* complete one.
LEMMA EnterGoto ==
  ASSUME IInv, NEW t \in Threads, NEW p \in {"run_fast_barrier", "barrier_complete"},
         Goto(t, p), fr[t].pc \in FreePCs, UNCHANGED <<dq_items, event, tokens>>, Kept,
         dq_state.owner = Null, dq_state'.owner = t, dq_state'.enq = dq_state.enq
  PROVE  IInv'
<1>1. p \in LockPCs
  BY DEF LockPCs, BarrierPCs
<1>2. PICK g \in Frames :
           /\ fr' = [fr EXCEPT ![t] = g] /\ fr'[t] = g /\ g.pc = p
           /\ g.item = fr[t].item /\ g.dc = fr[t].dc /\ g.enq = fr[t].enq
           /\ g.waits = fr[t].waits /\ g.c2 = fr[t].c2
  BY <1>1, GotoFrame, Points
<1>3. ItemOK(t)' /\ DrainerOK(t)' /\ EnqueuedMoves(t)
  BY <1>2, FreeFacts, ThreadFacts DEF ItemOK, ThreadOK, DrainerOK, EnqueuedMoves
<1> QED BY <1>2, <1>3, EnterCase

\* A caller that finds the lane busy becomes a waiter.
LEMMA QueueUpCase ==
  ASSUME IInv, NEW t \in Threads, fr[t].pc \in {"barrier_sync", "sync_tail", "reserve_sync"},
         fr' = [fr EXCEPT ![t] = [fr[t] EXCEPT !.pc = "push_waiter", !.waits = TRUE]],
         UNCHANGED <<dq_state, dq_items, event, tokens, redirects, calls>>
  PROVE  IInv'
<1> DEFINE g == [fr[t] EXCEPT !.pc = "push_waiter", !.waits = TRUE]
<1>1. fr[t] \in Frames /\ "push_waiter" \in PCs
  BY ThreadFacts DEF PCs
<1>2. g \in Frames
  BY <1>1, Points, FrameFields, Zenon
<1>3. g.pc = "push_waiter" /\ g.item = fr[t].item /\ g.enq = fr[t].enq /\ g.waits
  BY <1>1 DEF Frames
<1>4. fr' = [fr EXCEPT ![t] = g]
  OBVIOUS
<1> HIDE DEF g
<1>5. fr'[t] = g /\ fr[t].pc \in FreePCs /\ g.pc \in FreePCs
  BY <1>3, <1>4, ThreadFacts DEF FreePCs
<1>6. ~g.enq
  BY <1>3, <1>5, FreeFacts
<1>7. ItemOK(t)' /\ Kept
  BY <1>3, <1>5, ThreadFacts DEF ItemOK, ThreadOK, Kept
<1> QED BY <1>2, <1>4, <1>5, <1>6, <1>7, QuietCase

\* The fast path of a barrier sync takes the lock of an idle lane.
LEMMA BarrierSyncStep ==
  ASSUME IInv, NEW t \in Threads, BarrierSync(t) PROVE IInv'
<1>1. /\ fr[t].pc = "barrier_sync" /\ fr[t].pc \in FreePCs
      /\ UNCHANGED <<dq_items, event, tokens, redirects, calls>>
  BY DEF BarrierSync, At, FreePCs, queue, root, client
<1>2. CASE Idle(dq_state)
  <2> DEFINE n == TakeFull(dq_state, t)
  <2>1. n \in Words /\ n.owner = t /\ n.enq = dq_state.enq
    BY ThreadFacts, TakeFullFacts
  <2> HIDE DEF n
  <2>2. dq_state' = n /\ Goto(t, "run_fast_barrier")
    BY <1>2 DEF BarrierSync, n
  <2>3. dq_state.owner = Null
    BY <1>2 DEF Idle, InitValue
  <2>4. Kept
    BY <1>1, <2>1, <2>2, ThreadFacts DEF Kept
  <2> QED BY <1>1, <2>1, <2>2, <2>3, <2>4, EnterGoto
<1>3. CASE ~Idle(dq_state)
  BY <1>1, <1>3, QueueUpCase DEF BarrierSync, SetFrame
<1> QED BY <1>2, <1>3

\* The look at the tail chooses between width of its own and a waiter.
LEMMA SyncTailStep ==
  ASSUME IInv, NEW t \in Threads, SyncTail(t) PROVE IInv'
<1>1. /\ fr[t].pc = "sync_tail" /\ fr[t].pc \in FreePCs /\ "reserve_sync" \in FreePCs
      /\ UNCHANGED <<dq_state, dq_items, event, tokens, redirects, calls>>
  BY DEF SyncTail, At, FreePCs, queue, root, client
<1>2. CASE dq_items = <<>>
  <2>1. Goto(t, "reserve_sync")
    BY <1>2 DEF SyncTail, SetFrame, Goto
  <2>2. Kept /\ fr[t].item # Null
    BY <1>1, ThreadFacts DEF Kept, ThreadOK, ItemOK
  <2> QED BY <1>1, <2>1, <2>2, GotoCase
<1>3. CASE dq_items # <<>>
  BY <1>1, <1>3, QueueUpCase DEF SyncTail, SetFrame
<1> QED BY <1>2, <1>3

\* A reader reserves width without the lock.
LEMMA ReserveSyncStep ==
  ASSUME IInv, NEW t \in Threads, ReserveSync(t) PROVE IInv'
<1> DEFINE fits == SyncRunnable(dq_state) /\ ~dq_state.d /\ ~dq_state.pb
<1>1. /\ fr[t].pc = "reserve_sync" /\ fr[t].pc \in FreePCs /\ "run_reader" \in FreePCs
      /\ UNCHANGED <<dq_items, event, tokens, redirects, calls>>
  BY DEF ReserveSync, At, FreePCs, queue, root, client
<1> dq_state \in Words
  BY ThreadFacts
<1>2. CASE fits
  <2> DEFINE s == [dq_state EXCEPT !.w = @ + 1]
  <2>1. s \in Words /\ s.owner = dq_state.owner /\ s.enq = dq_state.enq
      /\ s.ib = dq_state.ib
    BY DEF Words
  <2>2. dq_state' = s /\ Goto(t, "run_reader")
    BY <1>2 DEF ReserveSync
  <2> HIDE DEF s
  <2>3. Kept
    BY <1>1, <2>1, <2>2, ThreadFacts DEF Kept
  <2> QED BY <1>1, <2>1, <2>2, <2>3, GotoCase
<1>3. CASE ~fits
  BY <1>1, <1>3, QueueUpCase DEF ReserveSync, SetFrame
<1> QED BY <1>2, <1>3

\* A caller appends the item it will wait for, once, before it is signalled.
LEMMA PushWaiterStep ==
  ASSUME IInv, NEW t \in Clients, PushWaiter(t) PROVE IInv'
<1> DEFINE p == IF dq_items = <<>> THEN "link_first_waiter" ELSE "link_waiter"
<1>1. t \in Threads /\ p \in PCs
  BY DEF Threads, PCs
<1>2. /\ Goto(t, p) /\ fr[t].pc = "push_waiter"
      /\ p \in {"link_waiter", "link_first_waiter"}
      /\ dq_items' = Append(dq_items, fr[t].item)
      /\ UNCHANGED <<dq_state, event, tokens, redirects, calls>>
  BY DEF PushWaiter, At, root, client
<1> HIDE DEF p
<1>3. PICK g \in Frames :
           /\ fr' = [fr EXCEPT ![t] = g] /\ fr'[t] = g /\ g.pc = p
           /\ g.item = fr[t].item /\ g.dc = fr[t].dc /\ g.enq = fr[t].enq
           /\ g.waits = fr[t].waits /\ g.c2 = fr[t].c2
  BY <1>1, <1>2, GotoFrame
<1> QED BY <1>2, <1>3, PushCase

\* A waiter whose item is in the list goes on towards its wait; it may have been
\* handed the lock in the meantime.
LEMMA WaitingCase ==
  ASSUME IInv, NEW t \in Threads, NEW g \in Frames, fr' = [fr EXCEPT ![t] = g],
         fr[t].pc \in {"link_waiter", "link_first_waiter", "waiter_wakeup"},
         g.pc = "wait" \/ (g.pc = "waiter_wakeup" /\ g.waits),
         g.item = fr[t].item, ~g.enq,
         UNCHANGED <<dq_items, event, tokens>>, Kept,
         dq_state'.owner = dq_state.owner,
         dq_state'.ib = dq_state.ib, dq_state'.enq = dq_state.enq
  PROVE  IInv'
<1>1. fr'[t] = g /\ ThreadOK(t) /\ ~fr[t].enq
  BY ThreadFacts DEF ThreadOK, DrainerOK, DrainPCs
<1>2. Waits(t)' /\ KeepsWait(t)
  BY <1>1 DEF Waits, QueuedPCs, KeepsWait
<1>3. EventOK(t)' /\ ItemOK(t)' /\ CursorOK(t)' /\ TransferOK(t)' /\ DrainerOK(t)'
  BY <1>1, <1>2 DEF ThreadOK, EventOK, ItemOK, CursorOK, TransferOK, DrainerOK,
     LockPCs, BarrierPCs, NonBarrierPCs, DrainPCs
<1>4. HasLock(t)' <=> HasLock(t)
  BY <1>1 DEF HasLock, Woken, BarrierPCs, NonBarrierPCs, DrainPCs
<1>5. One(fr'[t].enq) = 0 /\ One(fr[t].enq) = 0
  BY <1>1 DEF One
<1>6. EnqueuedMoves(t)
  BY <1>5 DEF EnqueuedMoves
<1>7. g.pc \notin NonBarrierPCs
  BY DEF NonBarrierPCs
<1> QED BY <1>2, <1>3, <1>4, <1>6, <1>7, LocalCase DEF ThreadOK

\* A caller that has pushed its waiter and leaves goes to its wait.
LEMMA WaitingReturn ==
  ASSUME IInv, NEW t \in Threads, Return(t), fr[t].pc \in {"link_waiter", "waiter_wakeup"},
         UNCHANGED <<dq_items, event, tokens>>, Kept,
         dq_state'.owner = dq_state.owner,
         dq_state'.ib = dq_state.ib, dq_state'.enq = dq_state.enq
  PROVE  IInv'
<1>1. fr[t].waits
  BY ThreadFacts DEF ThreadOK, ItemOK
<1>2. PICK g \in Frames :
           /\ fr' = [fr EXCEPT ![t] = g] /\ fr'[t] = g /\ ~g.enq
           /\ \/ fr[t].waits /\ g.pc = "wait" /\ g.item = fr[t].item
              \/ ~fr[t].waits /\ g.pc = "idle" /\ g.item = Null
  BY ReturnFrame
<1> QED BY <1>1, <1>2, WaitingCase

\* Linking a waiter leaves it in the list, not signalled.
LEMMA LinkWaiterStep ==
  ASSUME IInv, NEW t \in Threads, LinkWaiter(t) PROVE IInv'
<1>1. /\ UNCHANGED <<dq_state, dq_items, event, tokens, redirects, calls>>
      /\ \/ fr[t].pc = "link_first_waiter" /\ Goto(t, "waiter_wakeup")
         \/ fr[t].pc = "link_waiter" /\ Return(t)
  BY DEF LinkWaiter, At, root, client
<1>2. Kept
  BY <1>1, ThreadFacts DEF Kept
<1>3. CASE fr[t].pc = "link_first_waiter" /\ Goto(t, "waiter_wakeup")
  <2>1. fr[t].waits /\ ~fr[t].enq
    BY <1>3, ThreadFacts DEF ThreadOK, ItemOK, DrainerOK, DrainPCs
  <2>2. "waiter_wakeup" \in PCs
    BY DEF PCs
  <2>3. PICK g \in Frames :
           /\ fr' = [fr EXCEPT ![t] = g] /\ fr'[t] = g /\ g.pc = "waiter_wakeup"
           /\ g.item = fr[t].item /\ g.dc = fr[t].dc /\ g.enq = fr[t].enq
           /\ g.waits = fr[t].waits /\ g.c2 = fr[t].c2
    BY <1>3, <2>2, GotoFrame
  <2> QED BY <1>1, <1>2, <1>3, <2>1, <2>3, WaitingCase
<1> QED BY <1>1, <1>2, <1>3, WaitingReturn

\* The first waiter takes the lock of a free lane itself, or marks it dirty.
LEMMA WaiterWakeupStep ==
  ASSUME IInv, NEW t \in Threads, WaiterWakeup(t) PROVE IInv'
<1> DEFINE take == ~Locked(dq_state) /\ Runnable(dq_state) /\ BarrierFits(dq_state)
<1>1. /\ fr[t].pc = "waiter_wakeup" /\ dq_state \in Words
      /\ UNCHANGED <<dq_items, event, tokens, redirects, calls>>
  BY ThreadFacts DEF WaiterWakeup, At, queue, root, client
<1>2. CASE take
  <2> DEFINE n == TakeFull(dq_state, t)
  <2>1. n \in Words /\ n.owner = t /\ n.enq = dq_state.enq
    BY ThreadFacts, TakeFullFacts
  <2> HIDE DEF n
  <2>2. dq_state' = n /\ Goto(t, "barrier_complete") /\ dq_state.owner = Null
    BY <1>2 DEF WaiterWakeup, n, Locked
  <2>3. Kept
    BY <1>1, <2>1, <2>2, ThreadFacts DEF Kept
  <2>4. "barrier_complete" \in PCs
    BY DEF PCs
  <2>5. PICK g \in Frames :
           /\ fr' = [fr EXCEPT ![t] = g] /\ fr'[t] = g /\ g.pc = "barrier_complete"
           /\ g.item = fr[t].item /\ g.dc = fr[t].dc /\ g.enq = fr[t].enq
           /\ g.waits = fr[t].waits /\ g.c2 = fr[t].c2
    BY <2>2, <2>4, GotoFrame
  <2>6. ThreadOK(t) /\ fr[t].waits /\ ~fr[t].enq /\ ~HasLock(t)
    BY <1>1, <2>2, ThreadFacts DEF ThreadOK, ItemOK, DrainerOK, DrainPCs
  <2>7. Waits(t)' /\ KeepsWait(t)
    BY <2>5, <2>6 DEF Waits, QueuedPCs, KeepsWait
  <2>8. EventOK(t)' /\ ItemOK(t)' /\ CursorOK(t)' /\ TransferOK(t)' /\ DrainerOK(t)'
    BY <1>1, <2>5, <2>6, <2>7 DEF HasLock, Woken, ThreadOK, EventOK, ItemOK,
       CursorOK, TransferOK, DrainerOK
  <2>9. HasLock(t)' /\ EnqueuedMoves(t) /\ g.pc \notin NonBarrierPCs
    BY <1>1, <2>1, <2>2, <2>5 DEF HasLock, BarrierPCs, NonBarrierPCs, EnqueuedMoves
  <2> QED BY <1>1, <2>1, <2>2, <2>3, <2>5, <2>7, <2>8, <2>9, LocalCase DEF ThreadOK
<1>3. CASE ~take
  <2> DEFINE n == [dq_state EXCEPT !.d = TRUE]
  <2>1. n \in Words /\ n.owner = dq_state.owner /\ n.enq = dq_state.enq
      /\ n.ib = dq_state.ib
    BY <1>1 DEF Words
  <2> HIDE DEF n
  <2>2. dq_state' = n /\ Return(t)
    BY <1>3 DEF WaiterWakeup, n
  <2>3. Kept
    BY <1>1, <2>1, <2>2, ThreadFacts DEF Kept
  <2> QED BY <1>1, <2>1, <2>2, <2>3, WaitingReturn
<1> QED BY <1>2, <1>3

\* A signalled caller runs its block, with the lock if the item is exclusive.
LEMMA WaitReturnsStep ==
  ASSUME IInv, NEW t \in Clients, WaitReturns(t) PROVE IInv'
<1> DEFINE p == IF Exclusive(fr[t].item) THEN "run_barrier" ELSE "run_reader"
<1>1. t \in Threads /\ p \in PCs
  BY DEF Threads, PCs
<1>2. /\ fr[t].pc = "wait" /\ event[t] /\ event' = [event EXCEPT ![t] = FALSE]
      /\ UNCHANGED <<dq_state, dq_items, tokens, redirects, calls>>
      /\ Goto(t, p)
  BY DEF WaitReturns, At, queue, root, client, SetFrame, Goto
<1>3. p = IF Exclusive(fr[t].item) THEN "run_barrier" ELSE "run_reader"
  OBVIOUS
<1> HIDE DEF p
<1>4. PICK g \in Frames :
           /\ fr' = [fr EXCEPT ![t] = g] /\ fr'[t] = g /\ g.pc = p
           /\ g.item = fr[t].item /\ g.dc = fr[t].dc /\ g.enq = fr[t].enq
           /\ g.waits = fr[t].waits /\ g.c2 = fr[t].c2
  BY <1>1, <1>2, GotoFrame
<1>5. /\ event \in [Clients -> BOOLEAN] /\ ThreadOK(t) /\ fr \in [Threads -> Frames]
      /\ ~fr[t].enq
  BY <1>1, <1>2, ThreadFacts DEF ThreadOK, DrainerOK, DrainPCs
<1>6. ~event'[t] /\ Typed'
  BY <1>2, <1>4, <1>5 DEF IInv, Typed
<1>7. ThreadOK(t)'
  BY <1>2, <1>3, <1>4, <1>5, <1>6 DEF ThreadOK, EventOK, ItemOK, CursorOK,
     TransferOK, DrainerOK
<1>8. (\A u \in Threads : ThreadOK(u)') /\ ListOK'
  BY <1>2, <1>4, <1>7, WaitStep
<1>9. ASSUME NEW u \in Threads PROVE dq_state'.owner = u <=> HasLock(u)'
  <2>1. dq_state.owner = u <=> HasLock(u)
    BY ThreadFacts
  <2>2. CASE u = t
    BY <1>2, <1>3, <1>4, <1>6, <2>1, <2>2 DEF HasLock, Woken, BarrierPCs,
       NonBarrierPCs, DrainPCs
  <2>3. CASE u # t
    BY <1>2, <1>4, <1>5, <2>1, <2>3 DEF HasLock, Woken
  <2> QED BY <2>2, <2>3
<1>10. EnqueuedOnce'
  BY <1>1, <1>2, <1>4, <1>5, <1>6, EnqueuedStep DEF Typed
<1>11. g.pc \notin NonBarrierPCs
  BY <1>3, <1>4 DEF NonBarrierPCs
<1>12. BarrierLeft'
  BY <1>1, <1>2, <1>4, <1>11, BarrierLeftStep
<1> QED BY <1>6, <1>8, <1>9, <1>10, <1>12 DEF IInv, LockHasItsOwner

\* A thread that has run its barrier goes on to complete it.
LEMMA RanCase ==
  ASSUME IInv, NEW t \in Threads, NEW p \in {"barrier_complete", "serial_unlock"},
         fr' = [fr EXCEPT ![t] = [NoFrame EXCEPT !.pc = p]],
         fr[t].pc \in {"run_fast_barrier", "run_barrier"},
         UNCHANGED <<dq_state, dq_items, event, tokens, redirects, calls>>
  PROVE  IInv'
<1> DEFINE g == [NoFrame EXCEPT !.pc = p]
<1>1. g \in Frames /\ g.pc = p /\ g.item = Null /\ ~g.enq
  <2>1. p \in PCs
    BY DEF PCs
  <2> QED BY <2>1, NoFrameFacts DEF Frames
<1>2. fr' = [fr EXCEPT ![t] = g]
  OBVIOUS
<1> HIDE DEF g
<1>3. fr'[t] = g /\ ThreadOK(t) /\ ~fr[t].enq
  BY <1>2, ThreadFacts DEF ThreadOK, DrainerOK, DrainPCs
<1>4. KeepsWait(t) /\ fr[t].pc \in LockPCs /\ g.pc \in LockPCs
      /\ g.pc \notin NonBarrierPCs
  BY <1>1 DEF KeepsWait, Waits, QueuedPCs, NonBarrierPCs, LockPCs, BarrierPCs
<1>5. ItemOK(t)' /\ CursorOK(t)' /\ TransferOK(t)' /\ DrainerOK(t)' /\ Kept
  BY <1>1, <1>3, ThreadFacts DEF ItemOK, CursorOK, TransferOK, DrainerOK, Kept
<1>6. One(fr'[t].enq) = 0 /\ One(fr[t].enq) = 0
  BY <1>1, <1>3 DEF One
<1>7. EnqueuedMoves(t)
  BY <1>6 DEF EnqueuedMoves
<1> QED BY <1>1, <1>2, <1>4, <1>5, <1>7, InsideCase

\* After its block a fast barrier sync still has the lock.
LEMMA FastBarrierRanStep ==
  ASSUME IInv, NEW t \in Threads, FastBarrierRan(t) PROVE IInv'
<1> DEFINE p == IF dq_items # <<>> \/ Width > 1 THEN "barrier_complete"
                ELSE "serial_unlock"
<1>1. p \in {"barrier_complete", "serial_unlock"}
  OBVIOUS
<1>2. /\ fr' = [fr EXCEPT ![t] = [NoFrame EXCEPT !.pc = p]]
      /\ fr[t].pc = "run_fast_barrier"
      /\ UNCHANGED <<dq_state, dq_items, event, tokens, redirects, calls>>
  BY DEF FastBarrierRan, SetFrame, At, queue, root, client
<1> HIDE DEF p
<1> QED BY <1>1, <1>2, RanCase

\* A barrier sync to which the lock was handed completes it.
LEMMA BarrierRanStep ==
  ASSUME IInv, NEW t \in Threads, BarrierRan(t) PROVE IInv'
<1>1. /\ fr' = [fr EXCEPT ![t] = [NoFrame EXCEPT !.pc = "barrier_complete"]]
      /\ fr[t].pc = "run_barrier"
      /\ UNCHANGED <<dq_state, dq_items, event, tokens, redirects, calls>>
  BY DEF BarrierRan, SetFrame, At, queue, root, client
<1> QED BY <1>1, RanCase

\* A thread with the lock goes on to a step without a cursor.
LEMMA InsideGoto ==
  ASSUME IInv, NEW t \in Threads,
         NEW p \in {"barrier_complete", "complete_head", "class_complete",
                    "non_barrier_reload", "drain", "unlock_done", "invoke_finish"},
         Goto(t, p), fr[t].pc \in LockPCs,
         p \in {"barrier_complete", "complete_head", "class_complete",
                "non_barrier_reload"} => ~fr[t].enq,
         p = "non_barrier_reload" => ~dq_state'.ib,
         Waits(t) => p \in QueuedPCs,
         UNCHANGED <<dq_items, event, tokens>>, Kept,
         dq_state'.owner = dq_state.owner, dq_state'.enq = dq_state.enq
  PROVE  IInv'
<1>1. p \in LockPCs /\ p \in PCs
  BY DEF LockPCs, BarrierPCs, NonBarrierPCs, DrainPCs, PCs
<1>2. PICK g \in Frames :
           /\ fr' = [fr EXCEPT ![t] = g] /\ fr'[t] = g /\ g.pc = p
           /\ g.item = fr[t].item /\ g.dc = fr[t].dc /\ g.enq = fr[t].enq
           /\ g.waits = fr[t].waits /\ g.c2 = fr[t].c2
  BY <1>1, GotoFrame
<1>3. ThreadOK(t) /\ fr[t].pc # "wait"
  BY ThreadFacts DEF LockPCs, BarrierPCs, NonBarrierPCs, DrainPCs
<1>4. KeepsWait(t)
  BY <1>2, <1>3 DEF KeepsWait, Waits
<1>5. ItemOK(t)' /\ CursorOK(t)' /\ TransferOK(t)' /\ DrainerOK(t)'
  BY <1>2, <1>3 DEF ThreadOK, ItemOK, CursorOK, TransferOK, DrainerOK, DrainPCs
<1>6. p \in NonBarrierPCs => p = "non_barrier_reload"
  BY DEF NonBarrierPCs
<1> QED BY <1>1, <1>2, <1>4, <1>5, <1>6, InsideCase DEF EnqueuedMoves

\* The uncontended unlock of a serial lane gives the lock back, or completes.
LEMMA SerialUnlockStep ==
  ASSUME IInv, NEW t \in Threads, SerialUnlock(t) PROVE IInv'
<1>1. /\ fr[t].pc = "serial_unlock" /\ fr[t].pc \in LockPCs /\ dq_state \in Words
      /\ UNCHANGED <<dq_items, event, tokens, redirects, calls>>
      /\ ~fr[t].enq /\ ~Waits(t) /\ Width \in Int
  BY ThreadFacts DEF SerialUnlock, At, queue, root, client, LockPCs, BarrierPCs,
     ThreadOK, DrainerOK, DrainPCs, Waits, QueuedPCs, NonBarrierPCs
<1>2. CASE Contended(dq_state)
  <2>1. Goto(t, "barrier_complete") /\ dq_state' = dq_state
    BY <1>2 DEF SerialUnlock
  <2>2. Kept
    BY <1>1, <2>1, ThreadFacts DEF Kept
  <2> QED BY <1>1, <2>1, <2>2, InsideGoto
<1>3. CASE ~Contended(dq_state)
  <2> DEFINE u == Unlock(dq_state)
             w == u.w - Width
             n == [u EXCEPT !.w = w, !.ib = FALSE, !.qos = FALSE]
  <2>1. u \in Words /\ u.owner = Null /\ u.enq = dq_state.enq
    BY <1>1, UnlockFacts
  <2>2. dq_state' = n /\ Return(t)
    BY <1>3 DEF SerialUnlock
  <2> HIDE DEF u
  <2>3. w \in Int
    BY <1>1, <2>1 DEF Words
  <2> HIDE DEF w
  <2>4. n \in Words
    BY <2>1, <2>3, Points, WordFields, Zenon
  <2>5. n.owner = Null /\ n.enq = dq_state.enq
    BY <2>1, <2>4 DEF Words
  <2> HIDE DEF n
  <2>6. Kept
    BY <1>1, <2>2, <2>4, ThreadFacts DEF Kept
  <2>7. One(fr[t].enq) = 0 /\ tokens \in Nat /\ One(dq_state.enq) \in Nat
    BY <1>1, ThreadFacts DEF One
  <2>8. tokens' + One(dq_state.enq) = tokens + One(fr[t].enq) + One(dq_state'.enq)
    BY <1>1, <2>2, <2>5, <2>7
  <2> QED BY <1>1, <2>2, <2>5, <2>6, <2>8, LeaveCase
<1> QED BY <1>2, <1>3

\* The last unit of width comes back: the lock is taken, or the lane enqueued.
LEMMA TryLockFacts ==
  ASSUME NEW old \in Words, NEW s \in Words, NEW t \in Threads
  PROVE  LET n == TryLock(old, s, t) IN
           /\ n \in Words
           /\ \/ n.owner = t /\ n.ib /\ n.enq = s.enq
              \/ n.owner = s.owner /\ n.ib = s.ib /\ (s.enq => n.enq)
<1> DEFINE full == FullWidth(s, t)
           enq == [s EXCEPT !.enq = TRUE]
<1>1. Width \in Int
  BY LaneAssumption
<1>2. full \in Words /\ full.owner = t /\ full.ib /\ full.enq = s.enq
  <2>1. [s EXCEPT !.w = Width, !.ib = TRUE, !.pb = FALSE, !.d = FALSE, !.owner = t]
          \in Words
    BY <1>1, Points, WordFields, Zenon
  <2> QED BY <2>1 DEF FullWidth, Words
<1>3. enq \in Words /\ enq.owner = s.owner /\ enq.ib = s.ib /\ enq.enq
  BY DEF Words
<1>4. TryLock(old, s, t) = full \/ TryLock(old, s, t) = enq \/ TryLock(old, s, t) = s
  BY DEF TryLock
<1> HIDE DEF full, enq
<1> QED BY <1>2, <1>3, <1>4

\* A reader or a redirected item gives its width back and may take the lock.
LEMMA NonBarrierRanStep ==
  ASSUME IInv, NEW t \in Threads, NonBarrierRan(t) PROVE IInv'
<1> DEFINE w == dq_state.w - 1
           less == [dq_state EXCEPT !.w = w]
           dirty == [less EXCEPT !.d = TRUE]
           new == IF Locked(dq_state) THEN dirty
                  ELSE IF Runnable(less) THEN TryLock(dq_state, less, t)
                  ELSE less
           c == At(t, "run_redirect")
           g == [NoFrame EXCEPT !.c2 = c, !.pc = "barrier_complete"]
<1>1. /\ fr[t].pc \in FreePCs /\ dq_state \in Words /\ tokens \in Nat
      /\ c \in BOOLEAN
      /\ UNCHANGED <<dq_items, event, redirects, calls>>
      /\ dq_state' = new
      /\ \/ /\ new.ib # dq_state.ib
            /\ fr' = [fr EXCEPT ![t] = g]
            /\ tokens' = tokens
         \/ /\ new.ib = dq_state.ib /\ new.enq # dq_state.enq
            /\ tokens' = tokens + 1
            /\ Return(t)
         \/ /\ new.ib = dq_state.ib /\ new.enq = dq_state.enq
            /\ tokens' = tokens
            /\ Return(t)
  <2>1. fr[t].pc \in FreePCs /\ UNCHANGED <<dq_items, event, redirects, calls>>
    BY DEF NonBarrierRan, At, FreePCs, queue, client
  <2>2. dq_state \in Words /\ tokens \in Nat /\ c \in BOOLEAN
    BY ThreadFacts DEF At
  <2> QED BY <2>1, <2>2 DEF NonBarrierRan, NonBarrierFinish, SetFrame
<1>2. less \in Words /\ less.owner = dq_state.owner /\ less.ib = dq_state.ib
      /\ less.enq = dq_state.enq
  <2>1. w \in Int
    BY <1>1 DEF Words
  <2> HIDE DEF w
  <2> QED BY <1>1, <2>1 DEF Words
<1> HIDE DEF less
<1>3. dirty \in Words /\ dirty.owner = dq_state.owner /\ dirty.ib = dq_state.ib
      /\ dirty.enq = dq_state.enq
  BY <1>2 DEF Words
<1> HIDE DEF dirty
<1>4. /\ new \in Words
      /\ \/ dq_state.owner = Null /\ ~dq_state.ib /\ new.owner = t /\ new.ib
            /\ new.enq = dq_state.enq
         \/ new.owner = dq_state.owner /\ new.ib = dq_state.ib
            /\ (dq_state.enq => new.enq)
  <2>1. CASE Locked(dq_state)
    BY <1>3, <2>1
  <2>2. CASE ~Locked(dq_state) /\ Runnable(less)
    <3> DEFINE n == TryLock(dq_state, less, t)
    <3>1. /\ n \in Words
          /\ \/ n.owner = t /\ n.ib /\ n.enq = less.enq
             \/ n.owner = less.owner /\ n.ib = less.ib /\ (less.enq => n.enq)
      BY <1>1, <1>2, TryLockFacts
    <3>2. new = n /\ dq_state.owner = Null /\ ~less.ib
      BY <2>2 DEF Locked, Runnable
    <3> HIDE DEF n, new
    <3> QED BY <1>2, <3>1, <3>2
  <2>3. CASE ~Locked(dq_state) /\ ~Runnable(less)
    BY <1>2, <2>3
  <2> QED BY <2>1, <2>2, <2>3
<1> HIDE DEF new
<1>5. new.enq \in BOOLEAN /\ dq_state.enq \in BOOLEAN /\ new.ib \in BOOLEAN
      /\ dq_state.ib \in BOOLEAN
  BY <1>1, <1>4 DEF Words
<1>6. tokens' \in Nat /\ tokens' + One(dq_state.enq) = tokens + One(dq_state'.enq)
  BY <1>1, <1>4, <1>5 DEF One
<1>7. Kept
  BY <1>1, <1>4, <1>6, ThreadFacts DEF Kept
<1>8. CASE new.ib # dq_state.ib
  <2>1. g \in Frames
    <3>1. "barrier_complete" \in PCs
      BY DEF PCs
    <3> HIDE DEF c
    <3> QED BY <1>1, <3>1, NoFrameFacts, FrameFields, Zenon
  <2>2. g.pc = "barrier_complete" /\ g.item = Null /\ ~g.enq
    BY <2>1 DEF NoFrame
  <2>3. fr' = [fr EXCEPT ![t] = g] /\ tokens' = tokens
    BY <1>1, <1>8
  <2> HIDE DEF g
  <2>4. fr'[t] = g /\ ~fr[t].enq
    BY <1>1, <2>3, FreeFacts, ThreadFacts
  <2>5. One(fr'[t].enq) = 0 /\ One(fr[t].enq) = 0
    BY <2>2, <2>4 DEF One
  <2>6. EnqueuedMoves(t)
    BY <1>1, <1>4, <1>5, <1>8, <2>3, <2>5 DEF EnqueuedMoves
  <2>7. ItemOK(t)' /\ DrainerOK(t)'
    BY <2>2, <2>4 DEF ItemOK, DrainerOK
  <2> QED BY <1>1, <1>4, <1>7, <1>8, <2>1, <2>2, <2>3, <2>6, <2>7, EnterCase
<1>9. CASE new.ib = dq_state.ib
  BY <1>1, <1>4, <1>6, <1>7, <1>9, ReturnCase
<1> QED BY <1>8, <1>9

\* The retain of a suspension does not touch the lock.
LEMMA SuspendRetainStep ==
  ASSUME IInv, NEW t \in Threads, SuspendRetain(t) PROVE IInv'
<1>1. /\ fr[t].pc \in FreePCs /\ Return(t)
      /\ UNCHANGED <<dq_state, dq_items, event, tokens, redirects, calls>>
  BY DEF SuspendRetain, At, FreePCs, queue, root
<1>2. Kept
  BY <1>1, ThreadFacts DEF Kept
<1> QED BY <1>1, <1>2, ReturnCase

\* A resume begins outside the lock.
LEMMA ResumeStep ==
  ASSUME IInv, NEW t \in Threads, Resume(t) PROVE IInv'
<1>1. /\ fr[t].pc \in FreePCs /\ Goto(t, "resume") /\ "resume" \in FreePCs
      /\ UNCHANGED <<dq_state, dq_items, event, tokens, redirects, calls>>
  BY DEF Resume, At, FreePCs, queue, root
<1>2. Kept
  BY <1>1, ThreadFacts DEF Kept
<1> QED BY <1>1, <1>2, GotoCase

\* A client that gives its reference up leaves the lane.
LEMMA ReleaseStep ==
  ASSUME IInv, NEW t \in Threads, Release(t) PROVE IInv'
<1>1. /\ fr[t].pc \in FreePCs /\ Goto(t, "gone") /\ "gone" \in FreePCs
      /\ UNCHANGED <<dq_state, dq_items, event, tokens, redirects, calls>>
  BY DEF Release, At, FreePCs, queue, root, client
<1>2. Kept
  BY <1>1, ThreadFacts DEF Kept
<1> QED BY <1>1, <1>2, GotoCase

\* Suspending leaves the owner and ENQUEUED alone.
LEMMA SuspendStep ==
  ASSUME IInv, NEW t \in Threads, Suspend(t) PROVE IInv'
<1> DEFINE s == [dq_state EXCEPT !.sc = @ + 1]
<1> dq_state \in Words
  BY ThreadFacts
<1>1. s \in Words /\ s.owner = dq_state.owner /\ s.enq = dq_state.enq
      /\ s.ib = dq_state.ib
  BY DEF Words
<1>2. /\ fr[t].pc = "idle" /\ "retain" \in FreePCs /\ dq_state' = s
      /\ UNCHANGED <<dq_items, event, tokens, redirects, calls>>
      /\ fr' = fr \/ Goto(t, "retain")
  BY DEF Suspend, At, FreePCs, queue, root
<1> HIDE DEF s
<1>3. Kept /\ "idle" \in FreePCs
  BY <1>1, <1>2, ThreadFacts DEF Kept, FreePCs
<1>4. CASE Goto(t, "retain")
  BY <1>1, <1>2, <1>3, <1>4, GotoCase
<1>5. CASE fr' = fr
  <2>1. fr' = [fr EXCEPT ![t] = fr[t]] /\ fr[t] \in Frames
    BY <1>5, ThreadFacts
  <2>2. ItemOK(t)'
    BY <1>2, <1>5, ThreadFacts DEF ThreadOK, ItemOK
  <2> QED BY <1>1, <1>2, <1>3, <2>1, <2>2, FreeFacts, QuietCase
<1> QED BY <1>2, <1>4, <1>5

\* The last resume of a free lane takes its lock, or goes on to wake it up.
LEMMA ResumeStateStep ==
  ASSUME IInv, NEW t \in Threads, ResumeState(t) PROVE IInv'
<1> DEFINE c == dq_state.sc - 1
           less == [dq_state EXCEPT !.sc = c]
           take == Runnable(less) /\ ~Locked(less) /\ BarrierFits(less)
           dirty == [less EXCEPT !.d = TRUE]
           full == TakeFull(less, t)
           u == Unlock(less)
           open == [u EXCEPT !.qos = FALSE]
           new == IF ~Runnable(less) \/ Locked(less) THEN dirty
                  ELSE IF take THEN full ELSE open
           f == [NoFrame EXCEPT !.c2 = TRUE]
           g(p) == [f EXCEPT !.pc = p]
<1>1. /\ fr[t].pc \in FreePCs /\ dq_state \in Words
      /\ UNCHANGED <<dq_items, event, tokens, redirects, calls>>
      /\ dq_state' = new
      /\ \/ Suspended(new) /\ Return(t)
         \/ ~Suspended(new) /\ take /\ fr' = [fr EXCEPT ![t] = g("barrier_complete")]
         \/ ~take /\ Return(t)
         \/ ~take /\ fr' = [fr EXCEPT ![t] = g("wakeup_probe")]
  <2>1. fr[t].pc \in FreePCs /\ UNCHANGED <<dq_items, event, tokens, redirects, calls>>
    BY DEF ResumeState, At, FreePCs, queue, client, root
  <2>2. dq_state \in Words
    BY ThreadFacts
  <2> QED BY <2>1, <2>2 DEF ResumeState, SetFrame
<1>2. ASSUME NEW p \in {"barrier_complete", "wakeup_probe"}
      PROVE  g(p) \in Frames /\ g(p).pc = p /\ g(p).item = Null /\ ~g(p).enq
  <2>1. f \in Frames /\ f.item = Null /\ ~f.enq
    BY NoFrameFacts DEF Frames
  <2>2. p \in PCs
    BY DEF PCs
  <2> HIDE DEF f
  <2> QED BY <2>1, <2>2 DEF Frames
<1> HIDE DEF g
<1>3. less \in Words /\ less.owner = dq_state.owner /\ less.enq = dq_state.enq
      /\ less.ib = dq_state.ib
  <2>1. c \in Int
    BY <1>1 DEF Words
  <2> HIDE DEF c
  <2> QED BY <1>1, <2>1 DEF Words
<1> HIDE DEF less
<1>4. /\ dirty \in Words /\ dirty.owner = dq_state.owner /\ dirty.enq = dq_state.enq
      /\ dirty.ib = dq_state.ib
  BY <1>3 DEF Words
<1>5. full \in Words /\ full.owner = t /\ full.enq = dq_state.enq /\ full.sc = less.sc
  BY <1>3, TakeFullFacts
<1>6. /\ open \in Words /\ open.owner = Null /\ open.enq = dq_state.enq
      /\ open.ib = dq_state.ib
  <2>1. u \in Words /\ u.owner = Null /\ u.enq = less.enq /\ u.ib = less.ib
    BY <1>3, UnlockFacts
  <2> HIDE DEF u
  <2> QED BY <1>3, <2>1 DEF Words
<1> HIDE DEF dirty, full, open
<1>7. new \in Words /\ new.enq = dq_state.enq
  BY <1>4, <1>5, <1>6
<1>8. Kept
  BY <1>1, <1>7, ThreadFacts DEF Kept
<1>9. CASE take
  <2>1. new = full /\ dq_state.owner = Null /\ ~Suspended(new)
    BY <1>3, <1>5, <1>9 DEF Runnable, Locked, Suspended
  <2>2. fr' = [fr EXCEPT ![t] = g("barrier_complete")]
    BY <1>1, <1>9, <2>1
  <2>3. fr'[t] = g("barrier_complete") /\ ~fr[t].enq
    BY <1>1, <2>2, FreeFacts, ThreadFacts
  <2>4. One(fr'[t].enq) = 0 /\ One(fr[t].enq) = 0
    BY <1>2, <2>3 DEF One
  <2>5. EnqueuedMoves(t)
    BY <1>1, <1>7, <2>4 DEF EnqueuedMoves
  <2>6. ItemOK(t)' /\ DrainerOK(t)'
    BY <1>2, <2>3 DEF ItemOK, DrainerOK
  <2> QED BY <1>1, <1>2, <1>5, <1>8, <2>1, <2>2, <2>5, <2>6, EnterCase
<1>10. CASE ~take
  <2>1. new.owner = dq_state.owner /\ new.ib = dq_state.ib
    BY <1>3, <1>4, <1>6, <1>10 DEF Locked
  <2>2. CASE Return(t)
    BY <1>1, <1>7, <1>8, <2>1, <2>2, ReturnCase
  <2>3. CASE ~Return(t)
    <3>1. fr' = [fr EXCEPT ![t] = g("wakeup_probe")]
      BY <1>1, <1>10, <2>3
    <3>2. fr'[t] = g("wakeup_probe") /\ "wakeup_probe" \in FreePCs
      BY <3>1, ThreadFacts DEF FreePCs
    <3>3. ItemOK(t)'
      BY <1>2, <3>2 DEF ItemOK
    <3> QED BY <1>1, <1>2, <1>7, <1>8, <2>1, <3>1, <3>2, <3>3, QuietCase
  <2> QED BY <2>2, <2>3
<1> QED BY <1>9, <1>10

\* A new call starts with an item of its own, outside the lock.
LEMMA SubmitStep ==
  ASSUME IInv, NEW t \in Clients, Submit(t) PROVE IInv'
<1>1. /\ t \in Threads /\ fr[t].pc = "idle" /\ calls[t] < MaxCalls
      /\ calls' = [calls EXCEPT ![t] = calls[t] + 1]
      /\ UNCHANGED <<dq_state, dq_items, event, tokens, redirects>>
  BY DEF Submit, At, Threads, queue, root
<1>2. PICK k \in Kinds :
        fr' = [fr EXCEPT ![t] =
                 [NoFrame EXCEPT
                    !.item = [by |-> t, n |-> calls[t] + 1, kind |-> k],
                    !.pc = FirstStep([by |-> t, n |-> calls[t] + 1, kind |-> k])]]
  BY DEF Submit, SetFrame
<1> DEFINE i == [by |-> t, n |-> calls[t] + 1, kind |-> k]
           p == FirstStep(i)
           g == [NoFrame EXCEPT !.item = i, !.pc = p]
<1>3. calls[t] \in 0 .. MaxCalls /\ MaxCalls \in Nat /\ Width \in Nat \ {0}
      /\ k \in AllKinds
  BY <1>1, ThreadFacts, LaneAssumption
<1>4. calls[t] + 1 \in 1 .. MaxCalls /\ calls[t] + 1 \in 0 .. MaxCalls
  BY <1>1, <1>3
<1>5. i \in Items /\ i.by = t /\ i.kind = k
  BY <1>4 DEF Items
<1> HIDE DEF i
<1>6. /\ p \in {"concurrent_push", "push", "sync_tail", "barrier_sync"}
      /\ p \in {"concurrent_push", "push"} => ~IsWaiter(i)
  <2>1. \/ k = "async" /\ Width > 1 /\ p = "concurrent_push"
        \/ k = "async" /\ Width = 1 /\ p = "push"
        \/ k = "barrier_async" /\ p = "push"
        \/ k = "sync" /\ Width > 1 /\ p = "sync_tail"
        \/ k = "sync" /\ Width = 1 /\ p = "barrier_sync"
        \/ k = "barrier_sync" /\ p = "barrier_sync"
    BY <1>3, <1>5 DEF FirstStep, AllKinds
  <2> QED BY <1>5, <2>1 DEF IsWaiter
<1> HIDE DEF p
<1>7. p \in PCs /\ p \in FreePCs
  BY <1>6 DEF PCs, FreePCs
<1>8. g \in Frames
  BY <1>5, <1>7, NoFrameFacts, FrameFields, Zenon
<1>9. g.pc = p /\ g.item = i /\ ~g.enq
  BY <1>8 DEF NoFrame
<1>10. fr' = [fr EXCEPT ![t] = g]
  BY <1>2 DEF i, p
<1> HIDE DEF g
<1>11. fr'[t] = g /\ "idle" \in FreePCs /\ i # Null
  BY <1>1, <1>5, <1>10, ThreadFacts DEF FreePCs
<1>12. ItemOK(t)'
  BY <1>5, <1>6, <1>9, <1>11 DEF ItemOK
<1>13. Kept
  BY <1>1, <1>4, ThreadFacts DEF Kept
<1> QED BY <1>1, <1>7, <1>8, <1>9, <1>10, <1>11, <1>12, <1>13, QuietCase

----------------------------------------------------------------------------
(* Giving back the barrier, handing units of width out *)

\* A thread with the lock goes on to another step for the same item.
LEMMA InsideFrame ==
  ASSUME IInv, NEW t \in Threads, NEW g \in Frames, fr' = [fr EXCEPT ![t] = g],
         fr[t].pc \in LockPCs, g.pc \in LockPCs, g.item = fr[t].item,
         g.waits = fr[t].waits, g.enq = fr[t].enq, Waits(t) => g.pc \in QueuedPCs,
         g.enq => g.pc \in DrainPCs \cup {"waiter_pop", "waiter_transfer"},
         g.pc \in NonBarrierPCs => ~dq_state'.ib,
         UNCHANGED <<dq_items, event, tokens>>, Kept,
         dq_state'.owner = dq_state.owner, dq_state'.enq = dq_state.enq,
         CursorOK(t)', TransferOK(t)'
  PROVE  IInv'
<1>1. fr'[t] = g /\ ThreadOK(t) /\ fr[t].pc # "wait"
  BY ThreadFacts DEF LockPCs, BarrierPCs, NonBarrierPCs, DrainPCs
<1>2. g.pc \notin {"concurrent_push", "acquire_async", "push", "barrier_sync",
                   "sync_tail", "reserve_sync", "push_waiter", "link_waiter",
                   "link_first_waiter", "waiter_wakeup"}
  BY DEF LockPCs, BarrierPCs, NonBarrierPCs, DrainPCs
<1>3. KeepsWait(t) /\ ItemOK(t)' /\ DrainerOK(t)'
  BY <1>1, <1>2 DEF KeepsWait, Waits, ThreadOK, ItemOK, DrainerOK
<1> QED BY <1>1, <1>3, InsideCase DEF EnqueuedMoves

\* Likewise, but for the lock.
LEMMA PopCase ==
  ASSUME IInv, NEW t \in Threads, NEW g \in Frames, fr' = [fr EXCEPT ![t] = g],
         fr[t].pc \in LockPCs, g.pc \in LockPCs, KeepsWait(t),
         dq_items # <<>>, dq_items' = Tail(dq_items), NEW h, h = Head(dq_items),
         \/ event' = event
         \/ /\ event' = [event EXCEPT ![h.by] = TRUE]
            /\ IsWaiter(h) /\ ~Exclusive(h),
         Kept, dq_state'.owner = dq_state.owner, EnqueuedMoves(t),
         g.pc \in NonBarrierPCs => ~dq_state'.ib,
         ItemOK(t)', CursorOK(t)', TransferOK(t)', DrainerOK(t)'
  PROVE  IInv'
<1>1. /\ fr'[t] = g /\ ThreadOK(t) /\ fr \in [Threads -> Frames]
      /\ dq_items \in Seq(Items) /\ event \in [Clients -> BOOLEAN]
  BY ThreadFacts
<1>2. h \in Items /\ (IsWaiter(h) => Awaited(h)) /\ h.by \in Clients
  <2>1. Len(dq_items) \in Nat \ {0} /\ h = dq_items[1]
    BY <1>1, LenProperties, HeadTailProperties, EmptySeq
  <2>2. h \in Items
    BY <1>1, <2>1, ElementOfSeq
  <2> QED BY <2>1, <2>2 DEF IInv, ListOK, Items
<1>3. dq_items' \in Seq(Items) /\ event' \in [Clients -> BOOLEAN]
  <2>1. Tail(dq_items) \in Seq(Items)
    BY <1>1, HeadTailProperties
  <2> QED BY <1>1, <2>1
<1>4. Typed'
  BY <1>1, <1>3 DEF Typed, Kept
<1>5. EventOK(t)'
  <2>1. SUFFICES ASSUME t \in Clients, event'[t]
                 PROVE  Waits(t) /\ (fr[t].pc \in LockPCs => ~Exclusive(fr[t].item))
    BY <1>1, <2>1 DEF EventOK, KeepsWait
  <2>2. CASE event[t]
    BY <1>1, <2>1, <2>2 DEF ThreadOK, EventOK
  <2>3. CASE ~event[t]
    <3>1. h.by = t /\ IsWaiter(h) /\ ~Exclusive(h)
      BY <1>1, <2>1, <2>3
    <3> QED BY <1>2, <3>1 DEF Awaited
  <2> QED BY <2>2, <2>3
<1>6. (\A u \in Threads : ThreadOK(u)') /\ ListOK'
  BY <1>1, <1>5, PopStep DEF KeepsWait, ThreadOK
<1>7. ASSUME NEW u \in Threads PROVE dq_state'.owner = u <=> HasLock(u)'
  <2>1. dq_state.owner = u <=> HasLock(u)
    BY ThreadFacts
  <2>2. CASE u = t
    BY <1>1, <2>1, <2>2 DEF HasLock, LockPCs
  <2>3. CASE u # t
    <3>1. fr'[u] = fr[u]
      BY <1>1, <2>3
    <3>2. CASE u \in Clients /\ event'[u] # event[u]
      <4>1. h.by = u /\ IsWaiter(h) /\ ~Exclusive(h)
        BY <1>1, <3>2
      <4>2. ~Exclusive(fr[u].item)
        BY <1>2, <4>1 DEF Awaited
      <4> QED BY <2>1, <3>1, <4>2 DEF HasLock
    <3>3. CASE ~(u \in Clients /\ event'[u] # event[u])
      BY <2>1, <3>1, <3>3 DEF HasLock, Woken
    <3> QED BY <3>2, <3>3
  <2> QED BY <2>2, <2>3
<1>8. EnqueuedOnce'
  BY <1>1, EnqueuedStep DEF EnqueuedMoves, Kept, DrainerOK
<1>9. BarrierLeft'
  <2>1. HasLock(t)
    BY DEF HasLock, LockPCs
  <2> QED BY <2>1, BarrierLeftStep
<1> QED BY <1>4, <1>6, <1>7, <1>8, <1>9 DEF IInv, LockHasItsOwner

\* Completing a barrier keeps the lock while it looks at the list.
LEMMA BarrierCompleteStep ==
  ASSUME IInv, NEW t \in Threads, BarrierComplete(t) PROVE IInv'
<1> DEFINE p == IF dq_items # <<>> /\ ~Suspended(dq_state)
                THEN "complete_head" ELSE "class_complete"
<1>1. /\ fr[t].pc = "barrier_complete" /\ fr[t].pc \in LockPCs
      /\ UNCHANGED <<dq_state, dq_items, event, tokens, redirects, calls>>
      /\ Goto(t, p) /\ p \in {"complete_head", "class_complete"} /\ p \in QueuedPCs
  BY DEF BarrierComplete, At, queue, root, client, LockPCs, BarrierPCs, QueuedPCs
<1> HIDE DEF p
<1>2. ~fr[t].enq /\ Kept
  BY <1>1, ThreadFacts DEF ThreadOK, DrainerOK, DrainPCs, Kept
<1> QED BY <1>1, <1>2, InsideGoto

\* The head decides whether the lock goes to a waiter, to the readers or back.
LEMMA CompleteHeadStep ==
  ASSUME IInv, NEW t \in Threads, CompleteHead(t) PROVE IInv'
<1> DEFINE h == Head(dq_items)
           gpop == [fr[t] EXCEPT !.pc = "waiter_pop", !.dc = h]
           gdrop == [fr[t] EXCEPT !.pc = "drop_barrier", !.dc = h]
           genq == [fr[t] EXCEPT !.pc = "class_complete_enqueue", !.c2 = TRUE]
<1>1. /\ fr[t].pc = "complete_head" /\ dq_items # <<>>
      /\ UNCHANGED <<dq_state, dq_items, event, tokens, redirects, calls>>
      /\ \/ Exclusive(h) /\ IsWaiter(h) /\ fr' = [fr EXCEPT ![t] = gpop]
         \/ ~Exclusive(h) /\ fr' = [fr EXCEPT ![t] = gdrop]
         \/ fr' = [fr EXCEPT ![t] = genq]
  BY DEF CompleteHead, At, queue, root, client, SetFrame, HeadReady
<1>2. fr[t] \in Frames /\ dq_items \in Seq(Items) /\ ~fr[t].enq /\ Null \notin Items
  BY <1>1, ThreadFacts DEF ThreadOK, DrainerOK, DrainPCs
<1>3. h \in Items
  BY <1>1, <1>2, HeadTailProperties
<1>4. {"waiter_pop", "drop_barrier", "class_complete_enqueue"} \subseteq PCs
  BY DEF PCs
<1> HIDE DEF h
<1>5. PICK g \in Frames :
        /\ fr' = [fr EXCEPT ![t] = g] /\ g.item = fr[t].item
        /\ g.waits = fr[t].waits /\ g.enq = fr[t].enq
        /\ \/ g.pc = "waiter_pop" /\ g.dc = h /\ Exclusive(h) /\ IsWaiter(h)
           \/ g.pc = "drop_barrier" /\ g.dc = h /\ ~Exclusive(h)
           \/ g.pc = "class_complete_enqueue"
  <2>1. gpop \in Frames /\ gdrop \in Frames
    BY <1>2, <1>3, <1>4, FrameFields, Zenon
  <2>2. genq \in Frames
    BY <1>2, <1>4, Points, FrameFields, Zenon
  <2>3. /\ gpop.item = fr[t].item /\ gpop.waits = fr[t].waits /\ gpop.enq = fr[t].enq
        /\ gpop.pc = "waiter_pop" /\ gpop.dc = h
    BY <1>2 DEF Frames
  <2>4. /\ gdrop.item = fr[t].item /\ gdrop.waits = fr[t].waits /\ gdrop.enq = fr[t].enq
        /\ gdrop.pc = "drop_barrier" /\ gdrop.dc = h
    BY <1>2 DEF Frames
  <2>5. /\ genq.item = fr[t].item /\ genq.waits = fr[t].waits /\ genq.enq = fr[t].enq
        /\ genq.pc = "class_complete_enqueue"
    BY <1>2 DEF Frames
  <2> HIDE DEF gpop, gdrop, genq
  <2> QED BY <1>1, <2>1, <2>2, <2>3, <2>4, <2>5
<1>6. fr'[t] = g
  BY <1>5, ThreadFacts
<1>7. CursorOK(t)' /\ TransferOK(t)' /\ Kept
  BY <1>1, <1>2, <1>3, <1>5, <1>6, ThreadFacts DEF CursorOK, TransferOK, Kept, h
<1>8. /\ fr[t].pc \in LockPCs /\ g.pc \in LockPCs /\ g.pc \in QueuedPCs
      /\ g.pc \notin NonBarrierPCs
  BY <1>1, <1>5 DEF LockPCs, BarrierPCs, QueuedPCs, NonBarrierPCs
<1> QED BY <1>1, <1>2, <1>5, <1>7, <1>8, InsideFrame

\* The lock is given back, and the lane enqueued when ENQUEUED becomes set.
LEMMA ClassCompleteStep ==
  ASSUME IInv, NEW t \in Threads, NEW enqueue \in BOOLEAN,
         NEW from \in {"class_complete", "class_complete_enqueue"},
         ClassComplete(t, from, enqueue)
  PROVE  IInv'
<1> DEFINE u == Unlock(dq_state)
           w == u.w - Width
           free == [u EXCEPT !.w = w, !.ib = FALSE]
           fenq == [free EXCEPT !.enq = TRUE]
           fqos == [free EXCEPT !.qos = FALSE]
           clean == [dq_state EXCEPT !.d = FALSE]
           new == IF Suspended(dq_state) THEN free ELSE IF enqueue THEN fenq ELSE fqos
<1>1. /\ fr[t].pc = from /\ UNCHANGED <<dq_items, event, redirects, calls>>
      /\ \/ dq_state' = clean /\ Goto(t, "barrier_complete") /\ tokens' = tokens
         \/ /\ dq_state' = new /\ Return(t)
            /\ tokens' = IF new.enq # dq_state.enq THEN tokens + 1 ELSE tokens
  BY DEF ClassComplete, At, queue, client
<1>2. /\ dq_state \in Words /\ tokens \in Nat /\ ~fr[t].enq /\ Width \in Int
      /\ fr[t].pc \in LockPCs
  BY <1>1, ThreadFacts DEF ThreadOK, DrainerOK, DrainPCs, LockPCs, BarrierPCs
<1>3. u \in Words /\ u.owner = Null /\ u.enq = dq_state.enq
  BY <1>2, UnlockFacts
<1> HIDE DEF u
<1>4. w \in Int
  BY <1>2, <1>3 DEF Words
<1> HIDE DEF w
<1>5. free \in Words
  BY <1>3, <1>4, Points, WordFields, Zenon
<1>6. free.owner = Null /\ free.enq = dq_state.enq
  BY <1>3, <1>5 DEF Words
<1> HIDE DEF free
<1>7. /\ fenq \in Words /\ fenq.owner = Null /\ fenq.enq
      /\ fqos \in Words /\ fqos.owner = Null /\ fqos.enq = dq_state.enq
      /\ clean \in Words /\ clean.owner = dq_state.owner /\ clean.enq = dq_state.enq
  BY <1>2, <1>5, <1>6 DEF Words
<1> HIDE DEF fenq, fqos, clean
<1>8. new \in Words /\ new.owner = Null /\ (dq_state.enq => new.enq)
      /\ new.enq \in BOOLEAN /\ dq_state.enq \in BOOLEAN
  BY <1>2, <1>5, <1>6, <1>7 DEF Words
<1> HIDE DEF new
<1>9. CASE dq_state' = clean /\ Goto(t, "barrier_complete") /\ tokens' = tokens
  <2>1. Kept /\ "barrier_complete" \in QueuedPCs
    BY <1>1, <1>7, <1>9, ThreadFacts DEF Kept, QueuedPCs
  <2> QED BY <1>1, <1>2, <1>7, <1>9, <2>1, InsideGoto
<1>10. CASE /\ dq_state' = new /\ Return(t)
            /\ tokens' = IF new.enq # dq_state.enq THEN tokens + 1 ELSE tokens
  <2>1. tokens' \in Nat /\ One(fr[t].enq) = 0
        /\ tokens' + One(dq_state.enq) = tokens + One(dq_state'.enq)
    BY <1>2, <1>8, <1>10 DEF One
  <2>2. Kept
    BY <1>1, <1>8, <1>10, <2>1, ThreadFacts DEF Kept
  <2>3. tokens' + One(dq_state.enq) = tokens + One(fr[t].enq) + One(dq_state'.enq)
    BY <1>2, <2>1
  <2> QED BY <1>1, <1>2, <1>8, <1>10, <2>2, <2>3, LeaveCase
<1> QED BY <1>1, <1>9, <1>10

\* What a pop leaves.
LEMMA PopFacts ==
  ASSUME IInv, dq_items # <<>>
  PROVE  LET h == Head(dq_items)
             rest == Tail(dq_items)
         IN  /\ h \in Items /\ rest \in Seq(Items)
             /\ NextItem = Null => rest = <<>>
             /\ NextItem # Null => rest # <<>> /\ Head(rest) = NextItem
             /\ NextItem \in Items \cup {Null}
             /\ IsWaiter(h) => /\ Awaited(h)
                               /\ \A n \in 1 .. Len(rest) : rest[n] # h
<1> DEFINE L == Len(dq_items)
           h == Head(dq_items)
           rest == Tail(dq_items)
<1>1. dq_items \in Seq(Items)
  BY DEF IInv, Typed
<1>2. /\ L \in Nat \ {0} /\ h = dq_items[1] /\ rest \in Seq(Items)
      /\ Len(rest) = L - 1 /\ \A n \in 1 .. L - 1 : rest[n] = dq_items[n + 1]
  BY <1>1, LenProperties, HeadTailProperties, EmptySeq
<1>3. h \in Items /\ (L # 1 => dq_items[2] \in Items)
  BY <1>1, <1>2, ElementOfSeq
<1>4. Null \notin Items
  BY LaneAssumption
<1> HIDE DEF rest, L, h
<1>5. L = 1 => rest = <<>>
  BY <1>2, EmptySeq
<1>6. L # 1 => rest # <<>> /\ Head(rest) = dq_items[2]
  <2>1. SUFFICES ASSUME L # 1 PROVE rest # <<>> /\ Head(rest) = dq_items[2]
    OBVIOUS
  <2>2. rest # <<>>
    BY <1>2, <2>1, EmptySeq
  <2>3. Head(rest) = rest[1]
    BY <1>2, <2>2, HeadTailProperties
  <2>4. 1 \in 1 .. L - 1 /\ rest[1] = dq_items[1 + 1]
    BY <1>2, <2>1
  <2> QED BY <2>2, <2>3, <2>4
<1>7. IsWaiter(h) => Awaited(h) /\ \A n \in 1 .. L - 1 : rest[n] # h
  BY <1>2 DEF IInv, ListOK, L
<1>8. NextItem = IF L = 1 THEN Null ELSE dq_items[2]
  BY DEF NextItem, L
<1> QED BY <1>2, <1>3, <1>4, <1>5, <1>6, <1>7, <1>8 DEF rest, h

\* The waiter popped by the owner is still the caller that waits for it.
LEMMA WaiterPopStep ==
  ASSUME IInv, NEW t \in Threads, WaiterPop(t) PROVE IInv'
<1>1. /\ fr[t].pc = "waiter_pop" /\ dq_items' = Tail(dq_items)
      /\ UNCHANGED <<dq_state, event, tokens, redirects, calls>>
      /\ Goto(t, "waiter_transfer") /\ "waiter_transfer" \in PCs
  BY DEF WaiterPop, PopHead, At, root, client, PCs
<1>2. PICK g \in Frames :
           /\ fr' = [fr EXCEPT ![t] = g] /\ fr'[t] = g /\ g.pc = "waiter_transfer"
           /\ g.item = fr[t].item /\ g.dc = fr[t].dc /\ g.enq = fr[t].enq
           /\ g.waits = fr[t].waits /\ g.c2 = fr[t].c2
  BY <1>1, GotoFrame
<1>3. ThreadOK(t)
  BY ThreadFacts
<1> PICK h : h = Head(dq_items)
  OBVIOUS
<1>4. /\ dq_items # <<>> /\ fr[t].dc = h /\ IsWaiter(h) /\ Exclusive(h)
      /\ fr[t].dc # Null
  BY <1>1, <1>3 DEF ThreadOK, CursorOK
<1>5. /\ h \in Items /\ Awaited(h)
      /\ \A n \in 1 .. Len(dq_items') : dq_items'[n] # h
  BY <1>1, <1>4, PopFacts
<1>7. KeepsWait(t)
  BY <1>1, <1>2 DEF KeepsWait, Waits, QueuedPCs
<1>8. Awaited(h)'
  BY <1>1, <1>2, <1>5, <1>7, StillAwaited DEF IInv, KeepsWait
<1>9. ItemOK(t)' /\ CursorOK(t)' /\ TransferOK(t)' /\ DrainerOK(t)'
  BY <1>1, <1>2, <1>3, <1>4, <1>5, <1>8 DEF ThreadOK, ItemOK, CursorOK,
     TransferOK, DrainerOK
<1>10. Kept /\ EnqueuedMoves(t)
  BY <1>1, <1>2, ThreadFacts DEF Kept, EnqueuedMoves
<1>11. fr[t].pc \in LockPCs /\ g.pc \in LockPCs /\ g.pc \notin NonBarrierPCs
  BY <1>1, <1>2 DEF LockPCs, BarrierPCs, NonBarrierPCs
<1> QED BY <1>1, <1>2, <1>4, <1>7, <1>9, <1>10, <1>11, PopCase

\* The lock goes from its owner to the popped waiter, which does not have it
\* already; a drainer's ENQUEUED goes with its drain.
LEMMA WaiterTransferStep ==
  ASSUME IInv, NEW t \in Threads, WaiterTransfer(t) PROVE IInv'
<1> DEFINE h == fr[t].dc
           u == Unlock(dq_state)
           e == u.enq /\ ~fr[t].enq
           new == [u EXCEPT !.owner = h.by, !.d = FALSE, !.enq = e]
<1>1. /\ fr[t].pc = "waiter_transfer" /\ Return(t)
      /\ UNCHANGED <<dq_items, tokens, redirects, calls>>
      /\ event' = [event EXCEPT ![h.by] = TRUE]
      /\ dq_state' = new
  BY DEF WaiterTransfer, queue, root, client, At
<1>2. /\ ThreadOK(t) /\ dq_state \in Words /\ fr[t] \in Frames
      /\ event \in [Clients -> BOOLEAN] /\ fr \in [Threads -> Frames]
      /\ t # Null /\ (dq_state.owner = t <=> HasLock(t))
  BY ThreadFacts
<1>3. /\ Awaited(h) /\ h \in Items /\ IsWaiter(h) /\ Exclusive(h)
      /\ h.by \in Clients /\ h.by \in Threads
  BY <1>1, <1>2 DEF ThreadOK, TransferOK, CursorOK, Frames, Items, Threads
<1>4. HasLock(t) /\ dq_state.owner = t
  BY <1>1, <1>2 DEF HasLock, BarrierPCs
<1>5. PICK g \in Frames :
           /\ fr' = [fr EXCEPT ![t] = g] /\ fr'[t] = g /\ ~g.enq
           /\ \/ fr[t].waits /\ g.pc = "wait" /\ g.item = fr[t].item
              \/ ~fr[t].waits /\ g.pc = "idle" /\ g.item = Null
  BY <1>1, ReturnFrame
<1>6. KeepsWait(t)
  BY <1>1, <1>5 DEF KeepsWait, Waits
<1>7. u \in Words /\ u.enq = dq_state.enq /\ u.ib = dq_state.ib
  BY <1>2, UnlockFacts
<1> HIDE DEF u
<1>8. e \in BOOLEAN /\ e = (dq_state.enq /\ ~fr[t].enq)
  BY <1>7
<1> HIDE DEF e
<1>9. new \in Words
  <2>1. h.by \in Threads \cup {Null}
    BY <1>3
  <2> QED BY <1>7, <1>8, <2>1, Points, WordFields, Zenon
<1>10. new.owner = h.by /\ new.enq = e
  BY <1>7, <1>9 DEF Words
<1> HIDE DEF new
<1>11. Typed'
  BY <1>1, <1>2, <1>5, <1>9 DEF IInv, Typed
<1>12. EventOK(t)'
  <2>1. SUFFICES ASSUME t \in Clients, event'[t] PROVE Waits(t)
    BY <1>5, <1>6, <2>1 DEF EventOK, KeepsWait, LockPCs, BarrierPCs,
       NonBarrierPCs, DrainPCs
  <2> QED BY <1>1, <1>2, <1>3, <2>1 DEF ThreadOK, EventOK, Awaited
<1>13. ItemOK(t)' /\ CursorOK(t)' /\ TransferOK(t)' /\ DrainerOK(t)'
  BY <1>2, <1>5 DEF ThreadOK, ItemOK, CursorOK, TransferOK, DrainerOK
<1>14. (\A v \in Threads : ThreadOK(v)') /\ ListOK'
  BY <1>1, <1>5, <1>6, <1>12, <1>13, TransferStep DEF KeepsWait, ThreadOK
<1>15. ASSUME NEW v \in Threads PROVE new.owner = v <=> HasLock(v)'
  <2>1. CASE v = h.by
    <3>1. event'[v] /\ fr'[v].item = h
      BY <1>1, <1>2, <1>3, <1>5, <1>6, <2>1 DEF Awaited, KeepsWait
    <3> QED BY <1>3, <1>10, <2>1, <3>1 DEF HasLock, Woken
  <2>2. CASE v # h.by /\ v = t
    <3>1. ~(Woken(t)' /\ Exclusive(fr'[t].item))
      BY <1>1, <1>2, <1>3, <1>6, <2>2 DEF Woken, ThreadOK, EventOK, KeepsWait,
         LockPCs, BarrierPCs
    <3> QED BY <1>5, <1>10, <2>2, <3>1 DEF HasLock, BarrierPCs, NonBarrierPCs, DrainPCs
  <2>3. CASE v # h.by /\ v # t
    <3>1. ~HasLock(v)
      BY <1>4, <2>3, OneOwner DEF IInv
    <3>2. fr'[v] = fr[v] /\ (v \in Clients => event'[v] = event[v])
      BY <1>1, <1>2, <1>5, <2>3
    <3> QED BY <1>10, <2>3, <3>1, <3>2 DEF HasLock, Woken
  <2> QED BY <2>1, <2>2, <2>3
<1>16. EnqueuedOnce'
  <2>1. /\ One(g.enq) = 0
        /\ One(dq_state.enq) = One(fr[t].enq) + One(dq_state'.enq)
    BY <1>1, <1>2, <1>5, <1>8, <1>10, ThreadFacts DEF One, Words, Frames
  <2>2. tokens' \in Nat /\ tokens' = tokens /\ tokens \in Nat
        /\ One(fr[t].enq) \in Nat /\ One(dq_state'.enq) \in Nat
    BY <1>1, ThreadFacts DEF One
  <2>3. tokens' + One(g.enq) + One(dq_state.enq)
          = tokens + One(fr[t].enq) + One(dq_state'.enq)
    BY <2>1, <2>2
  <2> QED BY <1>1, <1>5, <1>9, <2>2, <2>3, EnqueuedStep
<1>17. BarrierLeft'
  <2>1. g.pc \notin NonBarrierPCs
    BY <1>5 DEF NonBarrierPCs
  <2> QED BY <1>4, <1>5, <2>1, BarrierLeftStep
<1> QED BY <1>1, <1>11, <1>14, <1>15, <1>16, <1>17 DEF IInv, LockHasItsOwner

\* The thread that will hand width out leaves the barrier and keeps the lock.
LEMMA DropBarrierStep ==
  ASSUME IInv, NEW t \in Threads, DropBarrier(t) PROVE IInv'
<1> DEFINE s == [dq_state EXCEPT !.ib = FALSE]
           g == [fr[t] EXCEPT !.pc = "non_barrier_take", !.w = Width]
<1>1. /\ fr[t].pc = "drop_barrier" /\ dq_state' = s /\ fr' = [fr EXCEPT ![t] = g]
      /\ UNCHANGED <<dq_items, event, tokens, redirects, calls>>
  BY DEF DropBarrier, SetFrame, At, queue, root, client
<1>2. dq_state \in Words /\ fr[t] \in Frames /\ Width \in Int /\ ThreadOK(t)
      /\ "non_barrier_take" \in PCs
  BY ThreadFacts DEF PCs
<1>3. s \in Words /\ s.owner = dq_state.owner /\ s.enq = dq_state.enq /\ ~s.ib
  BY <1>2 DEF Words
<1>4. g \in Frames
  BY <1>2, FrameFields, Zenon
<1>5. /\ g.pc = "non_barrier_take" /\ g.item = fr[t].item /\ g.dc = fr[t].dc
      /\ g.waits = fr[t].waits /\ g.enq = fr[t].enq
  BY <1>2 DEF Frames
<1> HIDE DEF s, g
<1>6. fr'[t] = g
  BY <1>1, ThreadFacts
<1>7. CursorOK(t)' /\ TransferOK(t)' /\ Kept /\ ~g.enq
  BY <1>1, <1>2, <1>3, <1>5, <1>6, ThreadFacts DEF ThreadOK, CursorOK, TransferOK,
     DrainerOK, DrainPCs, Kept
<1>8. fr[t].pc \in LockPCs /\ g.pc \in LockPCs /\ g.pc \in QueuedPCs
  BY <1>1, <1>5 DEF LockPCs, BarrierPCs, QueuedPCs, NonBarrierPCs
<1> QED BY <1>1, <1>3, <1>4, <1>5, <1>7, <1>8, InsideFrame

\* The drainer gives back what it owns.
LEMMA GiveBackFacts ==
  ASSUME NEW s \in Words, NEW f \in Frames
  PROVE  LET n == GiveBack(s, f) IN
           /\ n \in Words /\ n.owner = Null /\ n.enq = (s.enq /\ ~f.enq)
           /\ n.ib = (s.ib /\ ~f.ib)
<1> DEFINE keep == Width > 1 /\ f.dc # Null /\ Exclusive(f.dc)
           u == Unlock(s)
           w == u.w - f.w + IF keep THEN Width - 1 + (IF s.pb THEN 1 ELSE 0) ELSE 0
           pb == u.pb # keep
           ib == u.ib /\ ~f.ib
           enq == u.enq /\ ~f.enq
           n == [u EXCEPT !.w = w, !.pb = pb, !.ib = ib, !.enq = enq]
<1>1. Width \in Int /\ f.w \in Int
  BY LaneAssumption DEF Frames
<1>2. u \in Words /\ u.owner = Null /\ u.enq = s.enq /\ u.ib = s.ib /\ u.w \in Int
  BY UnlockFacts DEF Words
<1>3. GiveBack(s, f) = n
  BY DEF GiveBack
<1> HIDE DEF u, keep
<1>4. w \in Int
  <2> DEFINE x == IF keep THEN Width - 1 + (IF s.pb THEN 1 ELSE 0) ELSE 0
  <2>1. x \in Int
    BY <1>1
  <2> HIDE DEF x
  <2>2. w = u.w - f.w + x
    BY DEF x
  <2> HIDE DEF w
  <2> QED BY <1>1, <1>2, <2>1, <2>2
<1>5. pb \in BOOLEAN /\ ib \in BOOLEAN /\ enq \in BOOLEAN
      /\ ib = (s.ib /\ ~f.ib) /\ enq = (s.enq /\ ~f.enq)
  BY <1>2
<1> HIDE DEF w, pb, ib, enq
<1>6. n \in Words
  BY <1>2, <1>4, <1>5, WordFields, Zenon
<1>7. n.owner = Null /\ n.enq = enq /\ n.ib = ib
  BY <1>2, <1>6 DEF Words
<1> QED BY <1>3, <1>5, <1>6, <1>7

\* While a thread hands units of width out, it has the lock but not IN_BARRIER.
LEMMA NonBarrierFacts ==
  ASSUME IInv, NEW t \in Threads, fr[t].pc \in NonBarrierPCs
  PROVE  /\ ~fr[t].enq /\ ~dq_state.ib /\ dq_state.owner = t
         /\ fr[t].pc \in LockPCs /\ fr[t].pc \in QueuedPCs
<1>1. ThreadOK(t) /\ (dq_state.owner = t <=> HasLock(t)) /\ ~dq_state.ib
  BY ThreadFacts DEF IInv, BarrierLeft
<1>2. ~fr[t].enq
  BY <1>1 DEF ThreadOK, DrainerOK, NonBarrierPCs, DrainPCs
<1> QED BY <1>1, <1>2 DEF HasLock, LockPCs, QueuedPCs

\* A unit of width for the head keeps the lock.
LEMMA NonBarrierTakeStep ==
  ASSUME IInv, NEW t \in Threads, NonBarrierTake(t) PROVE IInv'
<1> DEFINE f == fr[t]
           s == [dq_state EXCEPT !.w = @ + 1]
           w == f.w - 1
           g1 == [f EXCEPT !.pc = "non_barrier_pop", !.w = w]
           g2 == [f EXCEPT !.pc = "non_barrier_pop"]
           g3 == [f EXCEPT !.pc = "non_barrier_unlock"]
<1>1. /\ f.pc = "non_barrier_take"
      /\ UNCHANGED <<dq_items, event, tokens, redirects, calls>>
      /\ dq_state' = dq_state \/ dq_state' = s
      /\ \/ fr' = [fr EXCEPT ![t] = g1]
         \/ fr' = [fr EXCEPT ![t] = g2]
         \/ fr' = [fr EXCEPT ![t] = g3]
  BY DEF NonBarrierTake, SetFrame, At, queue, root, client
<1>2. f \in Frames /\ dq_state \in Words /\ f.w \in Int /\ ThreadOK(t)
      /\ fr \in [Threads -> Frames]
  BY ThreadFacts DEF Frames
<1>3. s \in Words /\ s.owner = dq_state.owner /\ s.enq = dq_state.enq
      /\ s.ib = dq_state.ib
  BY <1>2 DEF Words
<1>4. "non_barrier_pop" \in PCs /\ "non_barrier_unlock" \in PCs /\ w \in Int
  BY <1>2 DEF PCs
<1> HIDE DEF s, w
<1>5. g1 \in Frames
  <2> HIDE DEF f
  <2> QED BY <1>2, <1>4, FrameFields, Zenon
<1>6. /\ g1.pc = "non_barrier_pop" /\ g1.item = f.item /\ g1.dc = f.dc
      /\ g1.enq = f.enq /\ g1.waits = f.waits
  BY <1>2 DEF Frames
<1>7. /\ g2 \in Frames /\ g2.pc = "non_barrier_pop" /\ g2.item = f.item
      /\ g2.dc = f.dc /\ g2.enq = f.enq /\ g2.waits = f.waits
  BY <1>2, <1>4 DEF Frames
<1>8. /\ g3 \in Frames /\ g3.pc = "non_barrier_unlock" /\ g3.item = f.item
      /\ g3.dc = f.dc /\ g3.enq = f.enq /\ g3.waits = f.waits
  BY <1>2, <1>4 DEF Frames
<1>9. PICK g \in Frames :
        /\ fr' = [fr EXCEPT ![t] = g] /\ g.item = f.item /\ g.dc = f.dc
        /\ g.enq = f.enq /\ g.waits = f.waits
        /\ g.pc \in {"non_barrier_pop", "non_barrier_unlock"}
  <2> HIDE DEF g1, g2, g3
  <2> QED BY <1>1, <1>5, <1>6, <1>7, <1>8
<1>10. fr'[t] = g
  BY <1>2, <1>9
<1>11. CursorOK(t)' /\ TransferOK(t)'
  BY <1>1, <1>2, <1>9, <1>10 DEF ThreadOK, CursorOK, TransferOK
<1>12. /\ ~f.enq /\ ~dq_state.ib /\ f.pc \in LockPCs
       /\ g.pc \in LockPCs /\ g.pc \in QueuedPCs
  BY <1>1, <1>9, NonBarrierFacts DEF NonBarrierPCs, LockPCs, QueuedPCs
<1>13. Kept
  BY <1>1, <1>2, <1>3, ThreadFacts DEF Kept
<1> QED BY <1>1, <1>3, <1>9, <1>11, <1>12, <1>13, InsideFrame

\* The owner pops the head and wakes its reader, which had not been signalled.
LEMMA NonBarrierPopStep ==
  ASSUME IInv, NEW t \in Threads, NonBarrierPop(t) PROVE IInv'
<1> DEFINE f == fr[t]
           next == NextItem
           p == IF next # Null /\ ~Exclusive(next) THEN "non_barrier_take"
                ELSE "non_barrier_unlock"
           G == [f EXCEPT !.dc = next, !.pc = p]
<1>1. /\ f.pc = "non_barrier_pop" /\ f.pc \in NonBarrierPCs
      /\ dq_items' = Tail(dq_items) /\ UNCHANGED <<dq_state, tokens, calls>>
      /\ fr' = [fr EXCEPT ![t] = G]
      /\ HandOver(f.dc)
  BY DEF NonBarrierPop, SetFrame, PopHead, At, client, NonBarrierPCs
<1>2. f \in Frames /\ ThreadOK(t) /\ fr \in [Threads -> Frames]
      /\ redirects \subseteq Items
  BY ThreadFacts
<1> PICK h : h = Head(dq_items)
  OBVIOUS
<1>3. dq_items # <<>> /\ f.dc = h /\ ~Exclusive(h)
  BY <1>1, <1>2 DEF ThreadOK, CursorOK
<1>4. /\ h \in Items /\ next \in Items \cup {Null}
      /\ next # Null => dq_items' # <<>> /\ Head(dq_items') = next
  BY <1>1, <1>3, PopFacts
<1>5. /\ \/ event' = event
         \/ event' = [event EXCEPT ![h.by] = TRUE] /\ IsWaiter(h)
      /\ redirects' \subseteq Items
  BY <1>1, <1>2, <1>3, <1>4 DEF HandOver
<1>6. p \in {"non_barrier_take", "non_barrier_unlock"} /\ p \in PCs
      /\ (p = "non_barrier_take" => next # Null /\ ~Exclusive(next))
  BY DEF PCs
<1> HIDE DEF p, next
<1>7. PICK g \in Frames :
        /\ fr' = [fr EXCEPT ![t] = g] /\ g.item = f.item /\ g.dc = next
        /\ g.enq = f.enq /\ g.waits = f.waits /\ g.pc = p
  <2>1. G \in Frames
    <3> HIDE DEF f
    <3> QED BY <1>2, <1>4, <1>6, FrameFields, Zenon
  <2>2. /\ G.item = f.item /\ G.dc = next
        /\ G.enq = f.enq /\ G.waits = f.waits /\ G.pc = p
    BY <1>2 DEF Frames
  <2> HIDE DEF G
  <2> QED BY <1>1, <2>1, <2>2
<1>8. fr'[t] = g
  BY <1>2, <1>7
<1>9. /\ ~f.enq /\ ~dq_state.ib /\ f.pc \in LockPCs /\ f.pc \in QueuedPCs
      /\ g.pc \in LockPCs /\ g.pc \in QueuedPCs /\ f.pc # "wait"
  BY <1>1, <1>6, <1>7, NonBarrierFacts DEF NonBarrierPCs, LockPCs, QueuedPCs
<1>10. KeepsWait(t)
  BY <1>7, <1>8, <1>9 DEF KeepsWait, Waits
<1>11. ItemOK(t)' /\ CursorOK(t)' /\ TransferOK(t)' /\ DrainerOK(t)'
  BY <1>1, <1>2, <1>4, <1>6, <1>7, <1>8, <1>9 DEF ThreadOK, ItemOK, CursorOK,
     TransferOK, DrainerOK
<1>12. Kept /\ EnqueuedMoves(t)
  BY <1>1, <1>5, <1>7, <1>8, ThreadFacts DEF Kept, EnqueuedMoves
<1> QED BY <1>1, <1>3, <1>5, <1>7, <1>9, <1>10, <1>11, <1>12, PopCase

\* The next cursor is the head of the list, or null.
LEMMA NonBarrierReloadStep ==
  ASSUME IInv, NEW t \in Threads, NonBarrierReload(t) PROVE IInv'
<1> DEFINE f == fr[t]
           next == IF HeadReady THEN Head(dq_items) ELSE Null
           p == IF next # Null /\ ~Exclusive(next) THEN "non_barrier_take"
                ELSE "non_barrier_unlock"
           G == [f EXCEPT !.dc = next, !.pc = p]
<1>1. /\ f.pc = "non_barrier_reload" /\ f.pc \in NonBarrierPCs
      /\ UNCHANGED <<dq_state, dq_items, event, tokens, redirects, calls>>
      /\ fr' = [fr EXCEPT ![t] = G]
  BY DEF NonBarrierReload, SetFrame, At, queue, root, client, NonBarrierPCs
<1>2. f \in Frames /\ ThreadOK(t) /\ fr \in [Threads -> Frames]
      /\ dq_items \in Seq(Items)
  BY ThreadFacts
<1>3. /\ next \in Items \cup {Null}
      /\ next # Null => dq_items # <<>> /\ Head(dq_items) = next
  BY <1>2, HeadTailProperties DEF HeadReady
<1>4. p \in {"non_barrier_take", "non_barrier_unlock"} /\ p \in PCs
      /\ (p = "non_barrier_take" => next # Null /\ ~Exclusive(next))
  BY DEF PCs
<1> HIDE DEF p, next
<1>5. PICK g \in Frames :
        /\ fr' = [fr EXCEPT ![t] = g] /\ g.item = f.item /\ g.dc = next
        /\ g.enq = f.enq /\ g.waits = f.waits /\ g.pc = p
  <2>1. G \in Frames
    <3> HIDE DEF f
    <3> QED BY <1>2, <1>3, <1>4, FrameFields, Zenon
  <2>2. /\ G.item = f.item /\ G.dc = next
        /\ G.enq = f.enq /\ G.waits = f.waits /\ G.pc = p
    BY <1>2 DEF Frames
  <2> HIDE DEF G
  <2> QED BY <1>1, <2>1, <2>2
<1>6. fr'[t] = g
  BY <1>2, <1>5
<1>7. CursorOK(t)' /\ TransferOK(t)' /\ Kept
  BY <1>1, <1>3, <1>4, <1>5, <1>6, ThreadFacts DEF CursorOK, TransferOK, Kept
<1>8. /\ ~f.enq /\ ~dq_state.ib /\ f.pc \in LockPCs
      /\ g.pc \in LockPCs /\ g.pc \in QueuedPCs
  BY <1>1, <1>4, <1>5, NonBarrierFacts DEF NonBarrierPCs, LockPCs, QueuedPCs
<1> QED BY <1>1, <1>5, <1>7, <1>8, InsideFrame

\* The thread that handed width out gives the lock back, looks again, or takes
\* the barrier.
LEMMA NonBarrierUnlockStep ==
  ASSUME IInv, NEW t \in Threads, NonBarrierUnlock(t) PROVE IInv'
<1> DEFINE f == fr[t]
           back == GiveBack(dq_state, f)
           free == [back EXCEPT !.d = FALSE]
           dirty == [free EXCEPT !.d = TRUE]
           new == IF f.dc # Null THEN TryLock(dq_state, dirty, t) ELSE free
           clean == [dq_state EXCEPT !.d = FALSE]
           h == [f EXCEPT !.dc = Null, !.w = 0]
           G == [h EXCEPT !.pc = "barrier_complete"]
<1>1. /\ f.pc = "non_barrier_unlock" /\ f.pc \in NonBarrierPCs
      /\ UNCHANGED <<dq_items, event, redirects, calls>>
      /\ \/ dq_state' = clean /\ Goto(t, "non_barrier_reload") /\ tokens' = tokens
         \/ /\ dq_state' = new
            /\ \/ /\ new.ib # dq_state.ib
                  /\ fr' = [fr EXCEPT ![t] = G]
                  /\ tokens' = tokens
               \/ /\ new.ib = dq_state.ib /\ new.enq # dq_state.enq
                  /\ tokens' = tokens + 1
                  /\ Return(t)
               \/ /\ new.ib = dq_state.ib /\ new.enq = dq_state.enq
                  /\ tokens' = tokens
                  /\ Return(t)
  BY DEF NonBarrierUnlock, NonBarrierFinish, SetFrame, At, queue, client, NonBarrierPCs
<1>2. /\ f \in Frames /\ dq_state \in Words /\ ThreadOK(t) /\ tokens \in Nat
      /\ fr \in [Threads -> Frames]
  BY ThreadFacts
<1>3. ~f.enq /\ ~dq_state.ib /\ dq_state.owner = t
      /\ f.pc \in LockPCs /\ f.pc \in QueuedPCs
  BY <1>1, NonBarrierFacts
<1>4. /\ clean \in Words /\ clean.owner = dq_state.owner /\ clean.enq = dq_state.enq
      /\ clean.ib = dq_state.ib
  BY <1>2 DEF Words
<1>5. back \in Words /\ back.owner = Null /\ back.enq = dq_state.enq /\ ~back.ib
  BY <1>2, <1>3, GiveBackFacts DEF Words
<1> HIDE DEF back
<1>6. free \in Words /\ free.owner = Null /\ free.enq = dq_state.enq /\ ~free.ib
  BY <1>5 DEF Words
<1> HIDE DEF free
<1>7. dirty \in Words /\ dirty.owner = Null /\ dirty.enq = dq_state.enq /\ ~dirty.ib
  BY <1>6 DEF Words
<1> HIDE DEF dirty, clean
<1>8. /\ new \in Words
      /\ \/ new.owner = t /\ new.ib /\ new.enq = dq_state.enq
         \/ new.owner = Null /\ ~new.ib /\ (dq_state.enq => new.enq)
  <2>1. CASE f.dc = Null
    BY <1>6, <2>1
  <2>2. CASE f.dc # Null
    <3> DEFINE n == TryLock(dq_state, dirty, t)
    <3>1. /\ n \in Words
          /\ \/ n.owner = t /\ n.ib /\ n.enq = dirty.enq
             \/ n.owner = dirty.owner /\ n.ib = dirty.ib /\ (dirty.enq => n.enq)
      BY <1>2, <1>7, TryLockFacts
    <3>2. new = n
      BY <2>2
    <3> HIDE DEF n, new
    <3> QED BY <1>7, <3>1, <3>2
  <2> QED BY <2>1, <2>2
<1> HIDE DEF new
<1>9. new.enq \in BOOLEAN /\ dq_state.enq \in BOOLEAN /\ new.ib \in BOOLEAN
      /\ dq_state.ib \in BOOLEAN
  BY <1>2, <1>8 DEF Words
<1>10. CASE dq_state' = clean /\ Goto(t, "non_barrier_reload") /\ tokens' = tokens
  <2>1. Kept /\ "non_barrier_reload" \in QueuedPCs
    BY <1>1, <1>4, <1>10, ThreadFacts DEF Kept, QueuedPCs, NonBarrierPCs
  <2> QED BY <1>1, <1>3, <1>4, <1>10, <2>1, InsideGoto
<1>11. CASE dq_state' = new /\ new.ib # dq_state.ib /\ fr' = [fr EXCEPT ![t] = G]
            /\ tokens' = tokens
  <2>1. h \in Frames /\ h.item = f.item /\ h.enq = f.enq /\ h.waits = f.waits
    <3>1. h \in Frames
      <4>1. Null \in Items \cup {Null} /\ 0 \in Int
        OBVIOUS
      <4> HIDE DEF f
      <4> QED BY <1>2, <4>1, FrameFields, Zenon
    <3> QED BY <1>2, <3>1 DEF Frames
  <2> HIDE DEF h
  <2>2. /\ G \in Frames /\ G.item = f.item /\ G.enq = f.enq /\ G.waits = f.waits
        /\ G.pc = "barrier_complete"
    <3>1. "barrier_complete" \in PCs
      BY DEF PCs
    <3> QED BY <2>1, <3>1 DEF Frames
  <2> HIDE DEF G
  <2>3. fr'[t] = G
    BY <1>2, <1>11
  <2>4. CursorOK(t)' /\ TransferOK(t)' /\ Kept
    BY <1>1, <1>8, <1>11, <2>2, <2>3, ThreadFacts DEF CursorOK, TransferOK, Kept
  <2>5. G.pc \in LockPCs /\ G.pc \in QueuedPCs /\ G.pc \notin NonBarrierPCs
    BY <2>2 DEF LockPCs, BarrierPCs, QueuedPCs, NonBarrierPCs
  <2> QED BY <1>1, <1>3, <1>8, <1>9, <1>11, <2>2, <2>4, <2>5, InsideFrame
<1>12. CASE /\ dq_state' = new /\ new.ib = dq_state.ib /\ Return(t)
            /\ tokens' = IF new.enq # dq_state.enq THEN tokens + 1 ELSE tokens
  <2>1. new.owner = Null /\ (dq_state.enq => new.enq)
    BY <1>3, <1>8, <1>12
  <2>2. tokens' \in Nat /\ One(f.enq) = 0
        /\ tokens' + One(dq_state.enq) = tokens + One(dq_state'.enq)
    BY <1>2, <1>3, <1>9, <1>12, <2>1 DEF One
  <2>3. tokens' + One(dq_state.enq) = tokens + One(f.enq) + One(dq_state'.enq)
    BY <1>2, <2>2
  <2>4. Kept
    BY <1>1, <1>8, <1>12, <2>2, ThreadFacts DEF Kept
  <2> QED BY <1>1, <1>3, <1>12, <2>1, <2>3, <2>4, LeaveCase
<1> QED BY <1>1, <1>10, <1>11, <1>12

----------------------------------------------------------------------------
(* The drain *)

\* A worker that runs a redirected item does not have the lock.
LEMMA RunRedirectStep ==
  ASSUME IInv, NEW t \in Workers, RunRedirect(t) PROVE IInv'
<1>1. t \in Threads /\ t \notin Clients
  BY LaneAssumption DEF Threads
<1>2. PICK i \in redirects :
        /\ redirects' = redirects \ {i}
        /\ fr' = [fr EXCEPT ![t] = [NoFrame EXCEPT !.pc = "run_redirect", !.item = i]]
  BY DEF RunRedirect, SetFrame
<1> DEFINE g == [NoFrame EXCEPT !.pc = "run_redirect", !.item = i]
<1>3. /\ fr[t].pc = "idle" /\ UNCHANGED <<dq_state, dq_items, event, tokens, calls>>
  BY DEF RunRedirect, At, queue, client
<1>4. redirects \subseteq Items /\ fr \in [Threads -> Frames]
  BY <1>1, ThreadFacts
<1>5. i \in Items \cup {Null} /\ "run_redirect" \in PCs
  BY <1>4 DEF PCs
<1>6. g \in Frames
  BY <1>5, NoFrameFacts, FrameFields, Zenon
<1>7. g.pc = "run_redirect" /\ g.item = i /\ ~g.enq
  BY <1>6 DEF NoFrame
<1>8. fr' = [fr EXCEPT ![t] = g]
  BY <1>2
<1> HIDE DEF g
<1>9. fr'[t] = g /\ Kept
  BY <1>1, <1>2, <1>3, <1>4, <1>8, ThreadFacts DEF Kept
<1>10. ItemOK(t)' /\ g.pc \in FreePCs /\ fr[t].pc \in FreePCs
  BY <1>1, <1>3, <1>7, <1>9 DEF ItemOK, FreePCs
<1> QED BY <1>1, <1>3, <1>6, <1>7, <1>8, <1>9, <1>10, QuietCase

\* The popped lane is either locked, its ENQUEUED going to the drainer, or left
\* with ENQUEUED cleared.
LEMMA DrainTryLockStep ==
  ASSUME IInv, NEW t \in Workers, DrainTryLock(t) PROVE IInv'
<1> DEFINE lockable == Runnable(dq_state) /\ ~Locked(dq_state)
           barrier == BarrierFits(dq_state)
           full == TakeFull(dq_state, t)
           n == [full EXCEPT !.ib = barrier]
           w == Width - dq_state.w
           g == [NoFrame EXCEPT !.pc = "drain", !.ib = barrier, !.w = w,
                                !.enq = TRUE, !.c2 = TRUE]
           e == ~dq_state.enq
           skip == [dq_state EXCEPT !.enq = e]
<1>1. t \in Threads
  BY DEF Threads
<1>2. /\ fr[t].pc = "idle" /\ fr[t].pc \in FreePCs /\ tokens > 0
      /\ tokens' = tokens - 1
      /\ UNCHANGED <<dq_items, event, redirects, calls>>
      /\ \/ lockable /\ dq_state' = n /\ fr' = [fr EXCEPT ![t] = g]
         \/ dq_state' = skip /\ fr' = fr
  BY DEF DrainTryLock, At, SetFrame, queue, client, FreePCs
<1>3. /\ dq_state \in Words /\ tokens \in Nat /\ Width \in Int
      /\ fr \in [Threads -> Frames] /\ fr[t] \in Frames
  BY <1>1, ThreadFacts
<1>4. ~fr[t].enq /\ tokens = 1 /\ dq_state.enq
  BY <1>1, <1>2, <1>3, FreeFacts, EnqueuedFacts
<1>5. CASE lockable /\ dq_state' = n /\ fr' = [fr EXCEPT ![t] = g]
  <2>1. dq_state.owner = Null
    BY <1>5 DEF Locked
  <2>2. full \in Words /\ full.owner = t /\ full.enq = dq_state.enq
    BY <1>1, <1>3, TakeFullFacts
  <2>3. barrier \in BOOLEAN
    BY <1>3 DEF BarrierFits, Words
  <2> HIDE DEF full, barrier
  <2>4. n \in Words /\ n.owner = t /\ n.enq = dq_state.enq
    BY <2>2, <2>3 DEF Words
  <2> HIDE DEF n
  <2>5. g \in Frames /\ g.pc = "drain" /\ g.item = Null /\ g.enq
    <3>1. w \in Int /\ "drain" \in PCs
      BY <1>3 DEF Words, PCs
    <3> HIDE DEF w
    <3>2. g \in Frames
      BY <2>3, <3>1, Points, NoFrameFacts, FrameFields, Zenon
    <3> QED BY <3>2 DEF NoFrame
  <2> HIDE DEF g
  <2>6. fr'[t] = g
    BY <1>1, <1>3, <1>5
  <2>7. ItemOK(t)' /\ DrainerOK(t)'
    BY <2>5, <2>6 DEF ItemOK, DrainerOK, DrainPCs
  <2>8. Kept
    BY <1>1, <1>2, <1>4, <1>5, <2>4, ThreadFacts DEF Kept
  <2>9. EnqueuedMoves(t)
    <3>1. One(fr'[t].enq) = 1 /\ One(fr[t].enq) = 0 /\ One(dq_state.enq) = 1
          /\ One(dq_state'.enq) = 1
      BY <1>4, <1>5, <2>4, <2>5, <2>6 DEF One
    <3>2. tokens = 1 /\ tokens' = 0
      BY <1>2, <1>4
    <3> QED BY <3>1, <3>2 DEF EnqueuedMoves
  <2> QED BY <1>1, <1>2, <1>5, <2>1, <2>4, <2>5, <2>7, <2>8, <2>9, EnterCase
<1>6. CASE dq_state' = skip /\ fr' = fr
  <2>1. /\ skip \in Words /\ skip.owner = dq_state.owner /\ ~skip.enq
        /\ skip.ib = dq_state.ib
    <3>1. e \in BOOLEAN /\ ~e
      BY <1>4
    <3> HIDE DEF e
    <3>2. skip \in Words
      BY <1>3, <3>1, WordFields, Zenon
    <3> QED BY <1>3, <3>1, <3>2 DEF Words
  <2> HIDE DEF skip
  <2>2. Kept
    BY <1>1, <1>2, <1>4, <1>6, <2>1, ThreadFacts DEF Kept
  <2>3. tokens' + One(dq_state.enq) = tokens + One(dq_state'.enq)
    BY <1>2, <1>4, <1>6, <2>1 DEF One
  <2>4. fr' = [fr EXCEPT ![t] = fr[t]]
    BY <1>3, <1>6
  <2>5. ItemOK(t)'
    BY <1>1, <1>6, ThreadFacts DEF ThreadOK, ItemOK
  <2> QED BY <1>1, <1>2, <1>3, <1>4, <1>6, <2>1, <2>2, <2>3, <2>4, <2>5, QuietCase
<1> QED BY <1>2, <1>5, <1>6

\* A thread that drains has the lock and does not wait.
LEMMA DrainFacts ==
  ASSUME IInv, NEW t \in Threads, fr[t].pc \in DrainPCs
  PROVE  /\ dq_state.owner = t /\ fr[t].pc \in LockPCs /\ ~Waits(t)
         /\ HasLock(t)
<1>1. dq_state.owner = t <=> HasLock(t)
  BY ThreadFacts
<1>2. fr[t].pc \in LockPCs /\ HasLock(t)
  BY DEF HasLock, LockPCs
<1>3. ~Waits(t)
  BY DEF Waits, QueuedPCs, DrainPCs, NonBarrierPCs
<1> QED BY <1>1, <1>2, <1>3

\* The drain starts at the head of the list.
LEMMA DrainStep ==
  ASSUME IInv, NEW t \in Workers, Drain(t) PROVE IInv'
<1> DEFINE f == fr[t]
           head == Head(dq_items)
           ib == f.ib \/ Width = 1
           w == IF ib THEN Width ELSE f.w
           G == [f EXCEPT !.pc = "drain_check", !.dc = head, !.ib = ib, !.w = w]
           D == [f EXCEPT !.pc = "unlock_done"]
<1>1. t \in Threads
  BY DEF Threads
<1>2. /\ f.pc = "drain"
      /\ UNCHANGED <<dq_state, dq_items, event, tokens, redirects, calls>>
      /\ \/ fr' = [fr EXCEPT ![t] = D]
         \/ fr' = [fr EXCEPT ![t] = G] /\ dq_items # <<>>
  BY DEF Drain, SetFrame, At, queue, root, client, HeadReady
<1>3. f \in Frames /\ fr \in [Threads -> Frames] /\ dq_items \in Seq(Items)
      /\ Width \in Int
  BY <1>1, ThreadFacts
<1>4. dq_state.owner = t /\ f.pc \in LockPCs /\ ~Waits(t)
  BY <1>1, <1>2, DrainFacts DEF DrainPCs
<1>5. Kept
  BY <1>1, <1>2, ThreadFacts DEF Kept
<1>6. CASE fr' = [fr EXCEPT ![t] = D]
  <2>1. Goto(t, "unlock_done")
    BY <1>6 DEF Goto, SetFrame
  <2> QED BY <1>1, <1>2, <1>4, <1>5, <2>1, InsideGoto
<1>7. CASE fr' = [fr EXCEPT ![t] = G] /\ dq_items # <<>>
  <2>1. PICK h : h = head
    OBVIOUS
  <2>2. h \in Items
    BY <1>3, <1>7, <2>1, HeadTailProperties
  <2>3. ib \in BOOLEAN /\ w \in Int /\ "drain_check" \in PCs /\ f.enq \in BOOLEAN
    BY <1>3 DEF Frames, PCs
  <2> HIDE DEF ib, w, head
  <2>4. PICK g \in Frames :
          /\ fr' = [fr EXCEPT ![t] = g] /\ g.item = f.item /\ g.dc = h
          /\ g.enq = f.enq /\ g.waits = f.waits /\ g.pc = "drain_check"
    <3>1. G \in Frames
      <4>1. head \in Items \cup {Null}
        BY <2>1, <2>2
      <4> HIDE DEF f
      <4> QED BY <1>3, <2>3, <4>1, FrameFields, Zenon
    <3>2. /\ G.item = f.item /\ G.dc = h
          /\ G.enq = f.enq /\ G.waits = f.waits /\ G.pc = "drain_check"
      BY <1>3, <2>1 DEF Frames
    <3> HIDE DEF G
    <3> QED BY <1>7, <3>1, <3>2
  <2>5. fr'[t] = g
    BY <1>1, <1>3, <2>4
  <2>6. CursorOK(t)' /\ TransferOK(t)'
    BY <1>2, <1>7, <2>1, <2>4, <2>5 DEF CursorOK, TransferOK, head
  <2>7. g.pc \in LockPCs /\ g.pc \in DrainPCs /\ g.pc \notin NonBarrierPCs
    BY <2>4 DEF LockPCs, DrainPCs, NonBarrierPCs
  <2> QED BY <1>1, <1>2, <1>4, <1>5, <2>4, <2>6, <2>7, InsideFrame
<1> QED BY <1>2, <1>6, <1>7

\* The drain goes on at the head of the list.
LEMMA DrainNextStep ==
  ASSUME IInv, NEW t \in Workers, DrainNext(t) PROVE IInv'
<1> DEFINE f == fr[t]
           next == IF f.dc # Null THEN f.dc ELSE Head(dq_items)
<1>1. t \in Threads
  BY DEF Threads
<1>2. /\ f.pc = "drain_next"
      /\ UNCHANGED <<dq_state, dq_items, event, tokens, redirects, calls>>
      /\ \/ Goto(t, "unlock_done")
         \/ \E p \in {"drain_check", "invoke_finish"} :
              /\ fr' = [fr EXCEPT ![t] = [f EXCEPT !.pc = p, !.dc = next]]
              /\ f.dc # Null \/ dq_items # <<>>
  BY DEF DrainNext, SetFrame, At, queue, root, client, HeadReady
<1>3. f \in Frames /\ fr \in [Threads -> Frames] /\ dq_items \in Seq(Items)
      /\ ThreadOK(t)
  BY <1>1, ThreadFacts
<1>4. dq_state.owner = t /\ f.pc \in LockPCs /\ ~Waits(t)
  BY <1>1, <1>2, DrainFacts DEF DrainPCs
<1>5. Kept
  BY <1>1, <1>2, ThreadFacts DEF Kept
<1>6. CASE Goto(t, "unlock_done")
  BY <1>1, <1>2, <1>4, <1>5, <1>6, InsideGoto
<1>7. ASSUME NEW p \in {"drain_check", "invoke_finish"},
             fr' = [fr EXCEPT ![t] = [f EXCEPT !.pc = p, !.dc = next]],
             f.dc # Null \/ dq_items # <<>>
      PROVE  IInv'
  <2> DEFINE G == [f EXCEPT !.pc = p, !.dc = next]
  <2>1. dq_items # <<>> /\ next = Head(dq_items)
    BY <1>2, <1>3, <1>7 DEF ThreadOK, CursorOK
  <2>2. next \in Items
    BY <1>3, <2>1, HeadTailProperties
  <2>3. p \in PCs /\ f.enq \in BOOLEAN
    BY <1>3, <1>7 DEF Frames, PCs
  <2>4. PICK h : h = next
    OBVIOUS
  <2> HIDE DEF next
  <2>5. PICK g \in Frames :
          /\ fr' = [fr EXCEPT ![t] = g] /\ g.item = f.item /\ g.dc = h
          /\ g.enq = f.enq /\ g.waits = f.waits /\ g.pc = p
    <3>1. G \in Frames
      <4> HIDE DEF f
      <4> QED BY <1>3, <2>2, <2>3, FrameFields, Zenon
    <3>2. /\ G.item = f.item /\ G.dc = h
          /\ G.enq = f.enq /\ G.waits = f.waits /\ G.pc = p
      BY <1>3, <2>4 DEF Frames
    <3>3. fr' = [fr EXCEPT ![t] = G]
      BY <1>7
    <3> HIDE DEF G
    <3> QED BY <3>1, <3>2, <3>3
  <2>6. fr'[t] = g
    BY <1>1, <1>3, <2>5
  <2>7. CursorOK(t)' /\ TransferOK(t)'
    BY <1>2, <2>1, <2>4, <2>5, <2>6 DEF CursorOK, TransferOK
  <2>8. g.pc \in LockPCs /\ g.pc \in DrainPCs /\ g.pc \notin NonBarrierPCs
    BY <1>7, <2>5 DEF LockPCs, DrainPCs, NonBarrierPCs
  <2> QED BY <1>1, <1>2, <1>4, <1>5, <2>5, <2>7, <2>8, InsideFrame
<1> QED BY <1>2, <1>6, <1>7

\* The check for a suspension keeps the lock and the cursor.
LEMMA DrainCheckStep ==
  ASSUME IInv, NEW t \in Workers, DrainCheck(t) PROVE IInv'
<1>1. t \in Threads
  BY DEF Threads
<1>2. /\ fr[t].pc = "drain_check"
      /\ UNCHANGED <<dq_state, dq_items, event, tokens, redirects, calls>>
      /\ Goto(t, "invoke_finish") \/ Goto(t, "drain_take")
  BY DEF DrainCheck, At, queue, root, client
<1>3. dq_state.owner = t /\ fr[t].pc \in LockPCs /\ ~Waits(t)
  BY <1>1, <1>2, DrainFacts DEF DrainPCs
<1>4. Kept /\ ThreadOK(t)
  BY <1>1, <1>2, ThreadFacts DEF Kept
<1>5. CASE Goto(t, "invoke_finish")
  BY <1>1, <1>2, <1>3, <1>4, <1>5, InsideGoto
<1>6. CASE Goto(t, "drain_take")
  <2>1. "drain_take" \in PCs
    BY DEF PCs
  <2>2. PICK g \in Frames :
           /\ fr' = [fr EXCEPT ![t] = g] /\ fr'[t] = g /\ g.pc = "drain_take"
           /\ g.item = fr[t].item /\ g.dc = fr[t].dc /\ g.enq = fr[t].enq
           /\ g.waits = fr[t].waits /\ g.c2 = fr[t].c2
    BY <1>1, <1>6, <2>1, GotoFrame
  <2>3. CursorOK(t)' /\ TransferOK(t)'
    BY <1>2, <1>4, <2>2 DEF ThreadOK, CursorOK, TransferOK
  <2>4. g.pc \in LockPCs /\ g.pc \in DrainPCs /\ g.pc \notin NonBarrierPCs
    BY <2>2 DEF LockPCs, DrainPCs, NonBarrierPCs
  <2> QED BY <1>1, <1>2, <1>3, <1>4, <2>2, <2>3, <2>4, InsideFrame
<1> QED BY <1>2, <1>5, <1>6

\* The upgrade to the full width keeps the lock, whether it succeeds or not.
LEMMA DrainUpgradeStep ==
  ASSUME IInv, NEW t \in Workers, DrainUpgrade(t) PROVE IInv'
<1> DEFINE f == fr[t]
           w == dq_state.w - f.w + IF dq_state.pb THEN 0 ELSE Width - 1
           reserved == [dq_state EXCEPT !.w = w, !.pb = TRUE, !.d = FALSE]
           w2 == reserved.w + 1
           locked == [reserved EXCEPT !.w = w2, !.ib = TRUE, !.pb = FALSE]
           G == [f EXCEPT !.ib = TRUE, !.w = Width]
           D == [f EXCEPT !.pc = "unlock_wait", !.dc = Null, !.w = 0]
<1>1. t \in Threads
  BY DEF Threads
<1>2. /\ f.pc = "drain_take"
      /\ UNCHANGED <<dq_items, event, tokens, redirects, calls>>
      /\ \/ dq_state' = locked /\ fr' = [fr EXCEPT ![t] = G]
         \/ dq_state' = reserved /\ fr' = [fr EXCEPT ![t] = D]
  BY DEF DrainUpgrade, SetFrame, At, queue, root, client
<1>3. /\ f \in Frames /\ fr \in [Threads -> Frames] /\ dq_state \in Words
      /\ Width \in Int /\ ThreadOK(t)
  BY <1>1, ThreadFacts
<1>4. dq_state.owner = t /\ f.pc \in LockPCs /\ ~Waits(t)
  BY <1>1, <1>2, DrainFacts DEF DrainPCs
<1>5. w \in Int
  BY <1>3 DEF Words, Frames
<1> HIDE DEF w
<1>6. reserved \in Words /\ reserved.owner = dq_state.owner /\ reserved.enq = dq_state.enq
  <2>1. reserved \in Words
    BY <1>3, <1>5, Points, WordFields, Zenon
  <2> QED BY <1>3, <2>1 DEF Words
<1> HIDE DEF reserved
<1>7. w2 \in Int
  BY <1>6 DEF Words
<1> HIDE DEF w2
<1>8. locked \in Words /\ locked.owner = dq_state.owner /\ locked.enq = dq_state.enq
  <2>1. locked \in Words
    BY <1>6, <1>7, Points, WordFields, Zenon
  <2> QED BY <1>6, <2>1 DEF Words
<1> HIDE DEF locked
<1>9. PICK g \in Frames :
        /\ fr' = [fr EXCEPT ![t] = g] /\ g.item = f.item
        /\ g.enq = f.enq /\ g.waits = f.waits
        /\ \/ g.pc = "drain_take" /\ g.dc = f.dc
           \/ g.pc = "unlock_wait" /\ g.dc = Null
  <2>1. /\ G \in Frames /\ G.item = f.item /\ G.dc = f.dc
        /\ G.enq = f.enq /\ G.waits = f.waits /\ G.pc = f.pc
    <3>1. G \in Frames
      <4> HIDE DEF f
      <4> QED BY <1>3, Points, FrameFields, Zenon
    <3> QED BY <1>3, <3>1 DEF Frames
  <2>2. /\ D \in Frames /\ D.item = f.item /\ D.dc = Null
        /\ D.enq = f.enq /\ D.waits = f.waits /\ D.pc = "unlock_wait"
    <3>1. D \in Frames
      <4>1. Null \in Items \cup {Null} /\ 0 \in Int /\ "unlock_wait" \in PCs
        BY DEF PCs
      <4> HIDE DEF f
      <4> QED BY <1>3, <4>1, FrameFields, Zenon
    <3> QED BY <1>3, <3>1 DEF Frames
  <2> HIDE DEF G, D
  <2> QED BY <1>2, <2>1, <2>2
<1>10. fr'[t] = g
  BY <1>1, <1>3, <1>9
<1>11. CursorOK(t)' /\ TransferOK(t)'
  BY <1>2, <1>3, <1>9, <1>10 DEF ThreadOK, CursorOK, TransferOK
<1>12. g.pc \in LockPCs /\ g.pc \in DrainPCs /\ g.pc \notin NonBarrierPCs
  BY <1>9 DEF LockPCs, DrainPCs, NonBarrierPCs
<1>13. Kept
  BY <1>1, <1>2, <1>6, <1>8, ThreadFacts DEF Kept
<1>14. dq_state'.owner = dq_state.owner /\ dq_state'.enq = dq_state.enq
  BY <1>2, <1>6, <1>8
<1> QED BY <1>1, <1>2, <1>4, <1>9, <1>11, <1>12, <1>13, <1>14, InsideFrame

\* The drainer runs a barrier itself, or goes on to hand the lock to its waiter.
LEMMA DrainBarrierStep ==
  ASSUME IInv, NEW t \in Workers, DrainBarrier(t) PROVE IInv'
<1> DEFINE f == fr[t]
           next == NextItem
           cursor == f.dc
           G == [f EXCEPT !.pc = "run_drain", !.item = cursor, !.dc = next]
<1>1. t \in Threads /\ t \notin Clients
  BY LaneAssumption DEF Threads
<1>2. /\ f.pc = "drain_take" /\ Exclusive(f.dc)
      /\ UNCHANGED <<dq_state, event, tokens, redirects, calls>>
      /\ \/ /\ IsWaiter(f.dc) /\ Goto(t, "waiter_pop") /\ dq_items' = dq_items
         \/ /\ ~IsWaiter(f.dc) /\ dq_items' = Tail(dq_items)
            /\ fr' = [fr EXCEPT ![t] = G]
  BY DEF DrainBarrier, SetFrame, PopHead, At, queue, root, client
<1>3. /\ f \in Frames /\ fr \in [Threads -> Frames] /\ ThreadOK(t)
      /\ Null \notin Items
  BY <1>1, ThreadFacts
<1>4. dq_state.owner = t /\ f.pc \in LockPCs /\ ~Waits(t)
  BY <1>1, <1>2, DrainFacts DEF DrainPCs
<1> PICK h : h = Head(dq_items)
  OBVIOUS
<1>5. dq_items # <<>> /\ f.dc = h
  BY <1>2, <1>3 DEF ThreadOK, CursorOK
<1>6. /\ h \in Items /\ next \in Items \cup {Null}
      /\ next # Null => Tail(dq_items) # <<>> /\ Head(Tail(dq_items)) = next
  BY <1>5, PopFacts
<1>7. Kept
  BY <1>1, <1>2, ThreadFacts DEF Kept
<1>8. CASE IsWaiter(f.dc) /\ Goto(t, "waiter_pop") /\ dq_items' = dq_items
  <2>1. "waiter_pop" \in PCs
    BY DEF PCs
  <2>2. PICK g \in Frames :
           /\ fr' = [fr EXCEPT ![t] = g] /\ fr'[t] = g /\ g.pc = "waiter_pop"
           /\ g.item = fr[t].item /\ g.dc = fr[t].dc /\ g.enq = fr[t].enq
           /\ g.waits = fr[t].waits /\ g.c2 = fr[t].c2
    BY <1>1, <1>8, <2>1, GotoFrame
  <2>3. CursorOK(t)' /\ TransferOK(t)'
    BY <1>2, <1>3, <1>5, <1>6, <1>8, <2>2 DEF CursorOK, TransferOK
  <2>4. g.pc \in LockPCs /\ g.pc \notin NonBarrierPCs
    BY <2>2 DEF LockPCs, BarrierPCs, NonBarrierPCs
  <2> QED BY <1>1, <1>2, <1>4, <1>7, <1>8, <2>2, <2>3, <2>4, InsideFrame
<1>9. CASE dq_items' = Tail(dq_items) /\ fr' = [fr EXCEPT ![t] = G]
  <2> HIDE DEF next
  <2>1. PICK g \in Frames :
          /\ fr' = [fr EXCEPT ![t] = g] /\ g.item = h /\ g.dc = next
          /\ g.enq = f.enq /\ g.waits = f.waits /\ g.pc = "run_drain"
    <3>1. cursor \in Items \cup {Null} /\ "run_drain" \in PCs
      BY <1>5, <1>6 DEF PCs
    <3>2. G \in Frames
      <4> HIDE DEF f, cursor
      <4> QED BY <1>3, <1>6, <3>1, FrameFields, Zenon
    <3>3. /\ G.item = h /\ G.dc = next
          /\ G.enq = f.enq /\ G.waits = f.waits /\ G.pc = "run_drain"
      BY <1>3, <1>5, <3>2 DEF Frames
    <3> HIDE DEF G
    <3> QED BY <1>9, <3>2, <3>3
  <2>2. fr'[t] = g
    BY <1>1, <1>3, <2>1
  <2>3. /\ g.pc \in LockPCs /\ g.pc \in DrainPCs /\ g.pc \notin NonBarrierPCs
    BY <2>1 DEF LockPCs, DrainPCs, NonBarrierPCs
  <2>4. ItemOK(t)' /\ CursorOK(t)' /\ TransferOK(t)' /\ DrainerOK(t)'
    BY <1>1, <1>3, <1>6, <1>9, <2>1, <2>2, <2>3
       DEF ThreadOK, ItemOK, CursorOK, TransferOK, DrainerOK
  <2>5. KeepsWait(t) /\ EnqueuedMoves(t)
    BY <1>2, <1>4, <2>1, <2>2 DEF KeepsWait, EnqueuedMoves
  <2> QED BY <1>1, <1>2, <1>4, <1>5, <1>7, <1>9, <2>1, <2>3, <2>4, <2>5, PopCase
<1> QED BY <1>2, <1>8, <1>9

\* After an item the drainer still has the lock and the next cursor.
LEMMA DrainRanStep ==
  ASSUME IInv, NEW t \in Workers, DrainRan(t) PROVE IInv'
<1> DEFINE f == fr[t]
           G == [f EXCEPT !.pc = "drain_next", !.item = Null]
<1>1. t \in Threads /\ t \notin Clients
  BY LaneAssumption DEF Threads
<1>2. /\ f.pc = "run_drain" /\ fr' = [fr EXCEPT ![t] = G]
      /\ UNCHANGED <<dq_state, dq_items, event, tokens, redirects, calls>>
  BY DEF DrainRan, SetFrame, At, queue, root, client
<1>3. /\ f \in Frames /\ fr \in [Threads -> Frames] /\ ThreadOK(t)
  BY <1>1, ThreadFacts
<1>4. dq_state.owner = t /\ f.pc \in LockPCs /\ ~Waits(t)
  BY <1>1, <1>2, DrainFacts DEF DrainPCs
<1>5. PICK g \in Frames :
        /\ fr' = [fr EXCEPT ![t] = g] /\ g.item = Null /\ g.dc = f.dc
        /\ g.enq = f.enq /\ g.waits = f.waits /\ g.pc = "drain_next"
  <2>1. G \in Frames
    <3>1. Null \in Items \cup {Null} /\ "drain_next" \in PCs
      BY DEF PCs
    <3> HIDE DEF f
    <3> QED BY <1>3, <3>1, FrameFields, Zenon
  <2>2. /\ G.item = Null /\ G.dc = f.dc
        /\ G.enq = f.enq /\ G.waits = f.waits /\ G.pc = "drain_next"
    BY <1>3, <2>1 DEF Frames
  <2> HIDE DEF G
  <2> QED BY <1>2, <2>1, <2>2
<1>6. fr'[t] = g
  BY <1>1, <1>3, <1>5
<1>7. /\ g.pc \in LockPCs /\ g.pc \in DrainPCs /\ g.pc \notin NonBarrierPCs
  BY <1>5 DEF LockPCs, DrainPCs, NonBarrierPCs
<1>8. ItemOK(t)' /\ CursorOK(t)' /\ TransferOK(t)' /\ DrainerOK(t)'
  BY <1>1, <1>2, <1>3, <1>5, <1>6, <1>7
     DEF ThreadOK, ItemOK, CursorOK, TransferOK, DrainerOK
<1>9. KeepsWait(t) /\ EnqueuedMoves(t) /\ Kept
  BY <1>1, <1>2, <1>4, <1>5, <1>6, ThreadFacts DEF KeepsWait, EnqueuedMoves, Kept
<1> QED BY <1>1, <1>2, <1>4, <1>5, <1>7, <1>8, <1>9, InsideCase

\* The drainer leaves the barrier, widens, stops, or hands the head its width.
LEMMA DrainNonBarrierStep ==
  ASSUME IInv, NEW t \in Workers, DrainNonBarrier(t) PROVE IInv'
<1> DEFINE f == fr[t]
           next == NextItem
           w == dq_state.w + 1
           v == f.w - 1
           open == [dq_state EXCEPT !.ib = FALSE]
           more == [dq_state EXCEPT !.w = w]
           A == [f EXCEPT !.ib = FALSE, !.w = Width]
           B == [f EXCEPT !.w = 1]
           C == [f EXCEPT !.pc = "unlock_wait", !.dc = Null]
           G == [f EXCEPT !.pc = "drain_next", !.dc = next, !.w = v]
<1>1. t \in Threads /\ t \notin Clients
  BY LaneAssumption DEF Threads
<1>2. /\ f.pc = "drain_take" /\ ~Exclusive(f.dc) /\ UNCHANGED <<tokens, calls>>
      /\ \/ /\ dq_state' \in {dq_state, open, more}
            /\ \E F \in {A, B, C} : fr' = [fr EXCEPT ![t] = F]
            /\ UNCHANGED <<dq_items, redirects, event>>
         \/ /\ fr' = [fr EXCEPT ![t] = G] /\ dq_items' = Tail(dq_items)
            /\ HandOver(f.dc) /\ UNCHANGED dq_state
  BY DEF DrainNonBarrier, SetFrame, PopHead, At, queue, client
<1>3. /\ f \in Frames /\ fr \in [Threads -> Frames] /\ ThreadOK(t)
      /\ Null \notin Items /\ dq_state \in Words /\ Width \in Int
      /\ redirects \subseteq Items
  BY <1>1, ThreadFacts
<1>4. dq_state.owner = t /\ f.pc \in LockPCs /\ ~Waits(t)
  BY <1>1, <1>2, DrainFacts DEF DrainPCs
<1> PICK h : h = Head(dq_items)
  OBVIOUS
<1>5. dq_items # <<>> /\ f.dc = h
  BY <1>2, <1>3 DEF ThreadOK, CursorOK
<1>6. /\ h \in Items /\ next \in Items \cup {Null}
      /\ next # Null => Tail(dq_items) # <<>> /\ Head(Tail(dq_items)) = next
  BY <1>5, PopFacts
<1> HIDE DEF next
<1>7. w \in Int /\ v \in Int /\ 1 \in Int /\ Null \in Items \cup {Null}
      /\ "unlock_wait" \in PCs /\ "drain_next" \in PCs
  BY <1>3 DEF Words, Frames, PCs
<1> HIDE DEF w, v
<1>8. CASE /\ dq_state' \in {dq_state, open, more}
           /\ \E F \in {A, B, C} : fr' = [fr EXCEPT ![t] = F]
           /\ UNCHANGED <<dq_items, redirects, event>>
  <2>1. /\ dq_state' \in Words /\ dq_state'.owner = dq_state.owner
        /\ dq_state'.enq = dq_state.enq
    <3>1. open \in Words /\ open.owner = dq_state.owner /\ open.enq = dq_state.enq
      BY <1>3 DEF Words
    <3>2. more \in Words /\ more.owner = dq_state.owner /\ more.enq = dq_state.enq
      BY <1>3, <1>7 DEF Words
    <3> HIDE DEF open, more
    <3> QED BY <1>3, <1>8, <3>1, <3>2
  <2>2. PICK g \in Frames :
          /\ fr' = [fr EXCEPT ![t] = g] /\ g.item = f.item
          /\ g.enq = f.enq /\ g.waits = f.waits
          /\ \/ g.pc = "drain_take" /\ g.dc = h
             \/ g.pc = "unlock_wait" /\ g.dc = Null
    <3>1. /\ A \in Frames /\ A.item = f.item /\ A.dc = h
          /\ A.enq = f.enq /\ A.waits = f.waits /\ A.pc = "drain_take"
      <4>1. A \in Frames
        <5> HIDE DEF f
        <5> QED BY <1>3, Points, FrameFields, Zenon
      <4> QED BY <1>2, <1>3, <1>5, <4>1 DEF Frames
    <3>2. /\ B \in Frames /\ B.item = f.item /\ B.dc = h
          /\ B.enq = f.enq /\ B.waits = f.waits /\ B.pc = "drain_take"
      BY <1>2, <1>3, <1>5 DEF Frames
    <3>3. /\ C \in Frames /\ C.item = f.item /\ C.dc = Null
          /\ C.enq = f.enq /\ C.waits = f.waits /\ C.pc = "unlock_wait"
      <4>1. C \in Frames
        <5> HIDE DEF f
        <5> QED BY <1>3, <1>7, FrameFields, Zenon
      <4> QED BY <1>3, <4>1 DEF Frames
    <3> HIDE DEF A, B, C
    <3> QED BY <1>8, <3>1, <3>2, <3>3
  <2>3. fr'[t] = g
    BY <1>1, <1>3, <2>2
  <2>4. CursorOK(t)' /\ TransferOK(t)'
    BY <1>5, <1>8, <2>2, <2>3 DEF CursorOK, TransferOK
  <2>5. g.pc \in LockPCs /\ g.pc \in DrainPCs /\ g.pc \notin NonBarrierPCs
    BY <2>2 DEF LockPCs, DrainPCs, NonBarrierPCs
  <2>6. Kept
    BY <1>1, <1>2, <1>8, <2>1, ThreadFacts DEF Kept
  <2> QED BY <1>1, <1>2, <1>4, <1>8, <2>1, <2>2, <2>4, <2>5, <2>6, InsideFrame
<1>9. CASE /\ fr' = [fr EXCEPT ![t] = G] /\ dq_items' = Tail(dq_items)
           /\ HandOver(f.dc) /\ UNCHANGED dq_state
  <2>1. PICK g \in Frames :
          /\ fr' = [fr EXCEPT ![t] = g] /\ g.item = f.item /\ g.dc = next
          /\ g.enq = f.enq /\ g.waits = f.waits /\ g.pc = "drain_next"
    <3>1. G \in Frames
      <4> HIDE DEF f
      <4> QED BY <1>3, <1>6, <1>7, FrameFields, Zenon
    <3>2. /\ G.item = f.item /\ G.dc = next
          /\ G.enq = f.enq /\ G.waits = f.waits /\ G.pc = "drain_next"
      BY <1>3, <3>1 DEF Frames
    <3> HIDE DEF G
    <3> QED BY <1>9, <3>1, <3>2
  <2>2. fr'[t] = g
    BY <1>1, <1>3, <2>1
  <2>3. /\ \/ event' = event
           \/ event' = [event EXCEPT ![h.by] = TRUE] /\ IsWaiter(h)
        /\ redirects' \subseteq Items
    BY <1>3, <1>5, <1>6, <1>9 DEF HandOver
  <2>4. g.pc \in LockPCs /\ g.pc \in DrainPCs /\ g.pc \notin NonBarrierPCs
    BY <2>1 DEF LockPCs, DrainPCs, NonBarrierPCs
  <2>5. ItemOK(t)' /\ CursorOK(t)' /\ TransferOK(t)' /\ DrainerOK(t)'
    BY <1>1, <1>3, <1>6, <1>9, <2>1, <2>2, <2>4
       DEF ThreadOK, ItemOK, CursorOK, TransferOK, DrainerOK
  <2>6. KeepsWait(t) /\ EnqueuedMoves(t) /\ Kept
    BY <1>1, <1>2, <1>4, <1>9, <2>1, <2>2, <2>3, ThreadFacts
       DEF KeepsWait, EnqueuedMoves, Kept
  <2>7. ~Exclusive(h)
    BY <1>2, <1>5
  <2> QED BY <1>1, <1>4, <1>5, <1>9, <2>1, <2>3, <2>4, <2>5, <2>6, <2>7, PopCase
<1> QED BY <1>2, <1>8, <1>9

\* The end of the drain drops the lock and the drainer's ENQUEUED together, or
\* nothing.
LEMMA DrainTryUnlockStep ==
  ASSUME IInv, NEW t \in Workers, NEW from \in {"unlock_done", "unlock_wait"},
         NEW done \in BOOLEAN, DrainTryUnlock(t, from, done)
  PROVE  IInv'
<1> DEFINE f == fr[t]
           back == GiveBack(dq_state, f)
           quiet == [back EXCEPT !.qos = FALSE]
           dirty == [back EXCEPT !.d = TRUE]
           clean == [dq_state EXCEPT !.d = FALSE]
<1>1. t \in Threads
  BY DEF Threads
<1>2. /\ f.pc = from /\ UNCHANGED <<dq_items, event, tokens, redirects, calls>>
      /\ \/ dq_state' = clean /\ Goto(t, "drain")
         \/ dq_state' \in {back, quiet, dirty} /\ Return(t)
  BY DEF DrainTryUnlock, At, queue, root, client
<1>3. f \in Frames /\ dq_state \in Words /\ tokens \in Nat
      /\ (f.enq => dq_state.enq)
  BY <1>1, ThreadFacts
<1>4. dq_state.owner = t /\ f.pc \in LockPCs /\ ~Waits(t)
  BY <1>1, <1>2, DrainFacts DEF DrainPCs
<1>5. clean \in Words /\ clean.owner = dq_state.owner /\ clean.enq = dq_state.enq
  BY <1>3 DEF Words
<1>6. back \in Words /\ back.owner = Null /\ back.enq = (dq_state.enq /\ ~f.enq)
  BY <1>3, GiveBackFacts
<1> HIDE DEF back, clean
<1>7. quiet \in Words /\ quiet.owner = Null /\ quiet.enq = back.enq
  BY <1>6 DEF Words
<1>8. dirty \in Words /\ dirty.owner = Null /\ dirty.enq = back.enq
  BY <1>6 DEF Words
<1> HIDE DEF quiet, dirty
<1>9. CASE dq_state' = clean /\ Goto(t, "drain")
  <2>1. Kept
    BY <1>1, <1>2, <1>5, <1>9, ThreadFacts DEF Kept
  <2> QED BY <1>1, <1>2, <1>4, <1>5, <1>9, <2>1, InsideGoto
<1>10. CASE dq_state' \in {back, quiet, dirty} /\ Return(t)
  <2>1. /\ dq_state' \in Words /\ dq_state'.owner = Null
        /\ dq_state'.enq = (dq_state.enq /\ ~f.enq)
    BY <1>6, <1>7, <1>8, <1>10
  <2>2. One(dq_state.enq) = One(f.enq) + One(dq_state'.enq)
    BY <1>3, <2>1 DEF One, Frames, Words
  <2>3. tokens' + One(dq_state.enq) = tokens + One(f.enq) + One(dq_state'.enq)
    <3>1. One(f.enq) \in Nat /\ One(dq_state'.enq) \in Nat /\ tokens' = tokens
      BY <1>2 DEF One
    <3> QED BY <1>3, <2>2, <3>1
  <2>4. Kept
    BY <1>1, <1>2, <2>1, ThreadFacts DEF Kept
  <2> QED BY <1>1, <1>2, <1>4, <1>10, <2>1, <2>3, <2>4, LeaveCase
<1> QED BY <1>2, <1>9, <1>10

\* An interrupted drain drops the lock and enqueues the lane once, or not.
LEMMA InvokeFinishStep ==
  ASSUME IInv, NEW t \in Workers, InvokeFinish(t) PROVE IInv'
<1> DEFINE f == fr[t]
           back == GiveBack(dq_state, f)
           free == [back EXCEPT !.d = TRUE]
           enqueue == Runnable(free) /\ ~free.enq
           enq == free.enq \/ enqueue
           new == [free EXCEPT !.enq = enq]
<1>1. t \in Threads
  BY DEF Threads
<1>2. /\ f.pc = "invoke_finish" /\ UNCHANGED <<dq_items, event, redirects, calls>>
      /\ dq_state' = new /\ Return(t)
      /\ IF enqueue THEN tokens' = tokens + 1 ELSE tokens' = tokens
  BY DEF InvokeFinish, At, queue, client
<1>3. f \in Frames /\ dq_state \in Words /\ tokens \in Nat
      /\ (f.enq => dq_state.enq)
  BY <1>1, ThreadFacts
<1>4. dq_state.owner = t /\ f.pc \in LockPCs /\ ~Waits(t)
  BY <1>1, <1>2, DrainFacts DEF DrainPCs
<1>5. back \in Words /\ back.owner = Null /\ back.enq = (dq_state.enq /\ ~f.enq)
  BY <1>3, GiveBackFacts
<1> HIDE DEF back
<1>6. free \in Words /\ free.owner = Null /\ free.enq = (dq_state.enq /\ ~f.enq)
  BY <1>5 DEF Words
<1> HIDE DEF free
<1>7. enqueue \in BOOLEAN /\ (enqueue => ~free.enq)
  BY <1>6 DEF Runnable, Suspended, Words
<1> HIDE DEF enqueue
<1>8. enq \in BOOLEAN /\ enq = (free.enq \/ enqueue)
  BY <1>6, <1>7 DEF Words
<1> HIDE DEF enq
<1>9. new \in Words /\ new.owner = Null /\ new.enq = enq
  BY <1>6, <1>8 DEF Words
<1> HIDE DEF new
<1>10. One(dq_state.enq) = One(f.enq) + One(free.enq)
  BY <1>3, <1>6 DEF One, Frames, Words
<1>11. One(enq) = One(free.enq) + One(enqueue)
  BY <1>6, <1>7, <1>8 DEF One, Words
<1>12. tokens' = tokens + One(enqueue) /\ tokens' \in Nat
  BY <1>2, <1>3, <1>7 DEF One
<1>13. tokens' + One(dq_state.enq) = tokens + One(f.enq) + One(dq_state'.enq)
  <2>1. /\ One(f.enq) \in Nat /\ One(free.enq) \in Nat /\ One(enqueue) \in Nat
        /\ One(dq_state'.enq) = One(enq)
    BY <1>2, <1>9 DEF One
  <2> QED BY <1>3, <1>10, <1>11, <1>12, <2>1
<1>14. Kept
  BY <1>1, <1>2, <1>9, <1>12, ThreadFacts DEF Kept
<1> QED BY <1>1, <1>2, <1>4, <1>9, <1>13, <1>14, LeaveCase

----------------------------------------------------------------------------
(* The theorems *)

\* No thread has begun a call, and the state word names no owner.
LEMMA InitInv == Init => IInv
<1> SUFFICES ASSUME Init PROVE IInv
  OBVIOUS
<1>1. /\ dq_state = InitValue /\ dq_items = <<>> /\ tokens = 0 /\ redirects = {}
      /\ fr = [t \in Threads |-> NoFrame]
      /\ event = [t \in Clients |-> FALSE] /\ calls = [t \in Clients |-> 0]
  BY DEF Init
<1>2. /\ InitValue \in Words /\ InitValue.owner = Null /\ ~InitValue.enq
  BY DEF InitValue, Words
<1>3. Typed
  <2>1. calls \in [Clients -> 0 .. MaxCalls]
    BY <1>1, LaneAssumption
  <2>2. fr \in [Threads -> Frames]
    BY <1>1, NoFrameFacts
  <2> QED BY <1>1, <1>2, <2>1, <2>2, EmptySeq DEF Typed
<1>4. ASSUME NEW t \in Threads
      PROVE  /\ fr[t].pc = "idle" /\ fr[t].item = Null /\ ~fr[t].enq
             /\ ~Woken(t)
  BY <1>1, NoFrameFacts DEF Woken
<1>5. ASSUME NEW t \in Threads PROVE ThreadOK(t)
  BY <1>4 DEF ThreadOK, EventOK, ItemOK, CursorOK, TransferOK, DrainerOK, Woken
<1>6. ListOK
  BY <1>1, EmptySeq DEF ListOK
<1>7. BarrierLeft /\ LockHasItsOwner
  <2>1. ASSUME NEW t \in Threads PROVE fr[t].pc \notin LockPCs /\ ~HasLock(t) /\ t # Null
    BY <1>4, LaneAssumption DEF LockPCs, HasLock, BarrierPCs, NonBarrierPCs, DrainPCs
  <2> QED BY <1>1, <1>2, <2>1 DEF BarrierLeft, LockHasItsOwner, LockPCs
<1>8. EnqueuedOnce
  <2>1. {t \in Workers : fr[t].enq} = {}
    BY <1>4 DEF Threads
  <2>2. Cardinality({t \in Workers : fr[t].enq}) = 0
    BY <2>1, FS_EmptySet
  <2>3. tokens = 0 /\ ~dq_state.enq
    BY <1>1, <1>2
  <2> QED BY <2>2, <2>3 DEF EnqueuedOnce
<1> QED BY <1>3, <1>5, <1>6, <1>7, <1>8 DEF IInv

\* Every step of a client, of a worker, or of neither, keeps the invariant.
LEMMA StepInv == IInv /\ [Next]_vars => IInv'
<1> SUFFICES ASSUME IInv, [Next]_vars PROVE IInv'
  OBVIOUS
<1>1. CASE UNCHANGED vars
  <2>1. UNCHANGED <<dq_state, dq_items, tokens, redirects, fr, event, calls>>
    BY <1>1 DEF vars
  <2> QED BY <2>1 DEF IInv, Typed, ThreadOK, EventOK, ItemOK, CursorOK, TransferOK,
             DrainerOK, Awaited, Waits, ListOK, BarrierLeft, LockHasItsOwner, HasLock,
             Woken, EnqueuedOnce
<1>2. ASSUME NEW t \in Threads, SharedStep(t) PROVE IInv'
  <2>1. CASE ClassComplete(t, "class_complete", FALSE)
             \/ ClassComplete(t, "class_complete_enqueue", TRUE)
    BY <2>1, ClassCompleteStep
  <2> QED BY <1>2, <2>1, NonBarrierRanStep, BarrierCompleteStep, CompleteHeadStep,
          WaiterPopStep, WaiterTransferStep, DropBarrierStep, NonBarrierTakeStep,
          NonBarrierPopStep, NonBarrierUnlockStep, NonBarrierReloadStep DEF SharedStep
<1>3. ASSUME NEW t \in Clients, ClientStep(t) PROVE IInv'
  <2>1. t \in Threads
    BY DEF Threads
  <2> QED BY <1>3, <2>1, ConcurrentPushStep, AcquireAsyncStep, PushStep,
          NeedOverrideStep, LinkStep, WakeupProbeStep, WakeupStep, BarrierSyncStep,
          SyncTailStep, ReserveSyncStep, PushWaiterStep, LinkWaiterStep,
          WaiterWakeupStep, WaitReturnsStep, FastBarrierRanStep, SerialUnlockStep,
          BarrierRanStep, SuspendRetainStep, ResumeStateStep DEF ClientStep
<1>4. ASSUME NEW t \in Clients, Submit(t) \/ Suspend(t) \/ Resume(t) \/ Release(t)
      PROVE  IInv'
  <2>1. t \in Threads
    BY DEF Threads
  <2> QED BY <1>4, <2>1, SubmitStep, SuspendStep, ResumeStep, ReleaseStep
<1>5. ASSUME NEW t \in Workers, WorkerStep(t) PROVE IInv'
  <2>1. CASE DrainTryUnlock(t, "unlock_done", TRUE)
             \/ DrainTryUnlock(t, "unlock_wait", FALSE)
    BY <2>1, DrainTryUnlockStep
  <2> QED BY <1>5, <2>1, RunRedirectStep, DrainTryLockStep, DrainStep, DrainNextStep,
          DrainCheckStep, DrainUpgradeStep, DrainBarrierStep, DrainNonBarrierStep,
          DrainRanStep, InvokeFinishStep DEF WorkerStep
<1>6. Clients \subseteq Threads /\ Workers \subseteq Threads
  BY DEF Threads
<1> QED BY <1>1, <1>2, <1>3, <1>4, <1>5, <1>6 DEF Next

\* What a thread that fetches the drain lock, holds it, hands it over or waits
\* for it relies on, in every reachable state: the invariant.
THEOREM LaneInvariant == Spec => []IInv
BY InitInv, StepInv, PTL DEF Spec

\* The drain lock is held by the thread the state word names and by nobody
\* else, whichever of the completion, hand-over, transfer and drain paths gave
\* it away or took it.
THEOREM LockHasOneOwner == Spec => []LockHasItsOwner
<1>1. IInv => LockHasItsOwner
  BY DEF IInv
<1> QED BY <1>1, LaneInvariant, PTL

\* ENQUEUED stands for one place on the root queue, or one drainer that owns
\* it: no two wakeups enqueue the lane, and none is consumed twice.
THEOREM EnqueuedAtMostOnce == Spec => []EnqueuedOnce
<1>1. IInv => EnqueuedOnce
  BY DEF IInv
<1> QED BY <1>1, LaneInvariant, PTL
=============================================================================
