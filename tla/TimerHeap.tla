----------------------------- MODULE TimerHeap -----------------------------
(* The heap of timers (event/event.c): two binary min-heaps interleaved in *)
(* one array, by target at the even and by deadline at the odd indices,    *)
(* that grows by segments.  The first two slots are in the structure       *)
(* itself, the others in segments whose sizes double, and the last slots   *)
(* of the newest segment point to the older ones.                          *)
(*                                                                         *)
(* A timer is inserted, moved or removed after its keys have changed, as   *)
(* the code does; clients see the heap between two of these operations.    *)
EXTENDS Integers

CONSTANTS
  Timers,
  Keys,         \* functions from the heaps to a target and a deadline
  Null,
  Capacity0     \* DISPATCH_HEAP_INIT_SEGMENT_CAPACITY, a power of two

VARIABLES
  dth,          \* the heap, with dt_heap_entry of its timers
  key           \* dt_timer of every timer

heapVars == <<dth, key>>

TargetId == 0
DeadlineId == 1
IdCount == 2
HeapIds == {TargetId, DeadlineId}
InvalidId == -1

\* The number of slots of a segment, and of all slots that hold timers.
SegmentCapacity(seg) == IF seg = 0 THEN Capacity0 ELSE Capacity0 * 2^(seg - 1)
HeapCapacity(segments) ==
  IF segments = 0 THEN 2 ELSE 2 + Capacity0 * 2^(segments - 1) - (segments - 1)

SomeKey == CHOOSE k \in Keys : TRUE   \* of a timer that is not armed

HeapInit ==
  /\ dth = [count |-> 0, segments |-> 0, needs_program |-> FALSE,
            min |-> [id \in HeapIds |-> Null], seg |-> [s \in {} |-> Null],
            entry |-> [t \in Timers |-> [id \in HeapIds |-> InvalidId]]]
  /\ key = [t \in Timers |-> SomeKey]

Armed(t) == dth.entry[t][TargetId] # InvalidId

-----------------------------------------------------------------------------
(* Slots                                                                    *)

\* A new segment gets the pointers of the newest one, and one to that.
Grow(h) ==
  LET no == h.segments
      cap == SegmentCapacity(no)
      Content(i) == IF no = 0 \/ i < cap - no THEN Null
                    ELSE IF i = cap - no THEN no - 1
                    ELSE h.seg[no - 1][i - cap + SegmentCapacity(no - 1)]
  IN [h EXCEPT !.segments = no + 1,
               !.seg = [s \in 0 .. no |-> IF s = no THEN [i \in 0 .. cap - 1 |-> Content(i)]
                                                    ELSE @[s]]]

\* The newest segment goes, its pointers return to the one before.
Shrink(h) ==
  LET no == h.segments - 1
      cap == SegmentCapacity(no)
      prev == h.seg[no][cap - no]
      prevCap == SegmentCapacity(prev)
  IN [h EXCEPT !.segments = no,
               !.seg = [s \in 0 .. no - 1 |->
                          IF s # prev THEN @[s]
                          ELSE [i \in 0 .. prevCap - 1 |->
                                  IF i < prevCap - (no - 1) THEN @[s][i]
                                  ELSE h.seg[no][i - prevCap + cap]]]]

\* The segment of a slot follows from the first bit set in its index, where the
\* segment is from the newest one's pointers.
SegmentNo(i) == CHOOSE s \in 0 .. i : i < Capacity0 * 2^s /\ (s > 0 => i >= Capacity0 * 2^(s - 1))

Slot(h, idx) ==
  LET i == idx - IdCount
      no == SegmentNo(i)
      newest == h.segments - 1
  IN [seg |-> IF no = newest THEN newest
              ELSE h.seg[newest][SegmentCapacity(newest) - no - 1],
      off |-> IF no = 0 THEN i ELSE i - SegmentCapacity(no)]

Content(h, idx) ==
  IF idx < IdCount THEN h.min[idx] ELSE h.seg[Slot(h, idx).seg][Slot(h, idx).off]

Write(h, idx, x) ==
  IF idx < IdCount THEN [h EXCEPT !.min[idx] = x]
                   ELSE [h EXCEPT !.seg[Slot(h, idx).seg][Slot(h, idx).off] = x]

HeapId(idx) == idx % IdCount

\* Faulty variant: only a new target has the event loop programmed.
HeapSetTarget(h, t, idx) ==
  [Write(h, idx, t) EXCEPT !.entry[t][HeapId(idx)] = idx,
                           !.needs_program = @ \/ idx = TargetId]

\* _dispatch_timer_heap_set: who changes a minimum has the event loop program it.
HeapSet(h, t, idx) ==
  [Write(h, idx, t) EXCEPT !.entry[t][HeapId(idx)] = idx,
                           !.needs_program = @ \/ idx < IdCount]

-----------------------------------------------------------------------------
(* The order                                                                *)

Parent(idx) == 2 * ((idx - IdCount) \div 4) + HeapId(idx)
LeftChild(idx) == 2 * idx + IdCount - HeapId(idx)

\* The place of a timer above idx, or else below it, and the heap with the timers
\* in between moved by one.
RECURSIVE SiftUp(_, _, _, _)
RECURSIVE SiftDown(_, _, _, _)
SiftUp(h, k, t, idx) ==
  LET id == HeapId(idx)
      up == Content(h, Parent(idx))
  IN IF idx < IdCount \/ k[up][id] <= k[t][id] THEN [heap |-> h, idx |-> idx]
     ELSE SiftUp(HeapSet(h, up, idx), k, t, Parent(idx))

SiftDown(h, k, t, idx) ==
  LET id == HeapId(idx)
      left == LeftChild(idx)
      right == left + IdCount
      child == IF right < h.count /\ k[Content(h, left)][id] > k[Content(h, right)][id]
                 THEN right ELSE left
  IN IF left >= h.count \/ k[t][id] <= k[Content(h, child)][id]
       THEN [heap |-> h, idx |-> idx]
     ELSE SiftDown(HeapSet(h, Content(h, child), idx), k, t, child)

Resift(h, k, t, idx) ==
  LET up == SiftUp(h, k, t, idx)
      place == IF up.idx # idx THEN up ELSE SiftDown(h, k, t, idx)
  IN HeapSet(place.heap, t, place.idx)

\* The first timer is in both slots of the structure; others start at the end.
Insert(h, k, t) ==
  LET idx == h.count
      more == [h EXCEPT !.count = @ + IdCount]
      room == IF idx + IdCount > HeapCapacity(h.segments) THEN Grow(more) ELSE more
  IN IF idx = 0
       THEN [more EXCEPT !.needs_program = TRUE, !.entry[t] = [id \in HeapIds |-> id],
                         !.min = [id \in HeapIds |-> t]]
       ELSE Resift(Resift(room, k, t, idx + TargetId), k, t, idx + DeadlineId)

\* Faulty variant: the last timer stays where it is put.
ReplaceAsIs(h, k, t, id) ==
  LET last == Content(h, h.count + id)
      rest == Write(h, h.count + id, Null)
  IN IF last = t THEN rest ELSE HeapSet(rest, last, h.entry[t][id])

\* The last timer of each heap takes the place of the one that goes.
Replace(h, k, t, id) ==
  LET last == Content(h, h.count + id)
      rest == Write(h, h.count + id, Null)
  IN IF last = t THEN rest ELSE Resift(rest, k, last, h.entry[t][id])

Remove(h, k, t) ==
  LET less == [h EXCEPT !.count = @ - IdCount]
      both == Replace(Replace(less, k, t, TargetId), k, t, DeadlineId)
      fit == IF less.count <= HeapCapacity(h.segments - 1) THEN Shrink(both) ELSE both
      rest == IF less.count = 0
                THEN [less EXCEPT !.needs_program = TRUE, !.min = [id \in HeapIds |-> Null]]
                ELSE fit
  IN [rest EXCEPT !.entry[t] = [id \in HeapIds |-> InvalidId]]

Update(h, k, t) ==
  LET byTarget == Resift(h, k, t, h.entry[t][TargetId])
  IN Resift(byTarget, k, t, byTarget.entry[t][DeadlineId])

-----------------------------------------------------------------------------
(* The walk that looks for a target to which several timers can be delayed  *)

Shifted[n \in Nat] == IF n % 2 = 1 THEN Shifted[n \div 2] ELSE n

\* The next index in prefix order that is not below idx; 0 is the end.
WalkSkip(idx, count) ==
  LET id == HeapId(idx)
      even == idx - id
      from == IF even + IdCount = count THEN Parent(even) ELSE even
      to == Shifted[from + IdCount + IdCount - 1]
  IN IF to = 0 THEN 0 ELSE IdCount * to + id

WalkNext(idx, count) ==
  IF LeftChild(idx) < count THEN LeftChild(idx) ELSE WalkSkip(idx, count)

RECURSIVE WalkTargets(_, _, _, _)
WalkTargets(h, limit, idx, target) ==
  IF idx = 0 \/ idx >= h.count THEN target
  ELSE LET tmp == key[Content(h, idx)][TargetId]
       IN IF tmp > limit THEN WalkTargets(h, limit, WalkSkip(idx, h.count), target)
          ELSE WalkTargets(h, limit, WalkNext(idx, h.count), tmp)

MaxTargetBefore(limit) ==
  WalkTargets(dth, limit, LeftChild(TargetId), key[dth.min[TargetId]][TargetId])

-----------------------------------------------------------------------------
(* Operations                                                               *)

\* _dispatch_timer_unote_arm.
Arm(t, k) ==
  /\ key' = [key EXCEPT ![t] = k]
  /\ dth' = IF Armed(t) THEN Update(dth, key', t) ELSE Insert(dth, key', t)

\* _dispatch_timer_unote_disarm, of a timer whose keys may have changed to k.
Disarm(t, k) ==
  /\ Armed(t)
  /\ dth' = Remove(dth, [key EXCEPT ![t] = k], t)
  /\ key' = [key EXCEPT ![t] = SomeKey]

\* _dispatch_timers_program has looked at the minima.
Programmed ==
  /\ dth.needs_program
  /\ dth' = [dth EXCEPT !.needs_program = FALSE]
  /\ UNCHANGED key

HeapNext == (\E t \in Timers, k \in Keys : Arm(t, k) \/ Disarm(t, k)) \/ Programmed

HeapSpec == HeapInit /\ [][HeapNext]_heapVars

-----------------------------------------------------------------------------
(* Properties                                                               *)

ArmedTimers == {t \in Timers : Armed(t)}
InHeap(id) == {idx \in 0 .. dth.count - 1 : HeapId(idx) = id}

\* Every armed timer is where its entries say and nowhere else, no timer has
\* overwritten a pointer, and each heap is ordered by its key.
HeapIsOrdered ==
  /\ \A id \in HeapIds :
       /\ {Content(dth, idx) : idx \in InHeap(id)} = ArmedTimers
       /\ \A t \in ArmedTimers : Content(dth, dth.entry[t][id]) = t
       /\ \A idx \in InHeap(id) \ {id} :
            key[Content(dth, Parent(idx))][id] <= key[Content(dth, idx)][id]
  /\ \A t \in Timers \ ArmedTimers, id \in HeapIds : dth.entry[t][id] = InvalidId

\* The event loop hears of every change of the next target or deadline.
ProgramsTheMinimum ==
  \A id \in HeapIds :
    dth.min[id] # Null /\ dth'.min[id] # Null
      /\ key[dth.min[id]][id] # key'[dth'.min[id]][id] => dth'.needs_program

MinimumIsProgrammed == [][ProgramsTheMinimum]_heapVars

\* The walk finds a target of an armed timer, within the limit.
Limits == {k[DeadlineId] : k \in Keys}
Within(limit) == {key[t][TargetId] : t \in ArmedTimers} \cap (0 .. limit)

WalkIsWithinLimit ==
  \A limit \in Limits : Within(limit) # {} => MaxTargetBefore(limit) \in Within(limit)

\* The heap that the event loop relies on for the next timer.
HeapIsSound == HeapIsOrdered /\ WalkIsWithinLimit

\* The walk visits all of them: "picking the latest target that isn't too close
\* to the deadline" (event/event.c:1162).
PicksTheLatestTarget ==
  \A limit \in Limits :
    Within(limit) # {} => \A target \in Within(limit) : target <= MaxTargetBefore(limit)
=============================================================================
