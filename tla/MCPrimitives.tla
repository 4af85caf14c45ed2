---------------------------- MODULE MCPrimitives ----------------------------
(* Small instances for TLC of what threads of libdispatch block on (the    *)
(* semaphore, the side lock and the gate of dispatch_once) and of what     *)
(* they share: the allocator of continuations and data objects.  A         *)
(* behaviour is about one of them, the variable object says which; the     *)
(* others rest, the first three in their initial states.  The last two     *)
(* share their variables.                                                  *)
EXTENDS Semaphore, TLC

CONSTANTS t1, t2, t3, Nobody, Null, LockCalls, MaxQos, MaxGen, OnceCalls

VARIABLES
  object,
  \* of SideLock
  dul_lock, lockPc, value, next, cur, lockAsleep, lockCalls, dq_qos, qos,
  applied, excused,
  \* of OnceGate
  build, dgo_once, view, data, gen, mask, maskView, oncePc, old, counter,
  onceAsleep, onceCalls,
  \* of Allocator; DataObject renames some of them
  heaps, bits, supers, last, limit, cache, held, allocs, crash, at

MCThreads == {t1, t2}

lockVars == <<dul_lock, lockPc, value, next, cur, lockAsleep, lockCalls, dq_qos,
              qos, applied, excused>>
onceVars == <<build, dgo_once, view, data, gen, mask, maskView, oncePc, old,
              counter, onceAsleep, onceCalls>>
sharedVars == <<heaps, bits, supers, last, limit, cache, held, allocs, crash, at>>
blockingVars == <<vars, lockVars, onceVars>>

SL == INSTANCE SideLock WITH
        Threads <- {t1, t2, t3}, MaxCalls <- LockCalls,
        pc <- lockPc, asleep <- lockAsleep, calls <- lockCalls

OG == INSTANCE OnceGate WITH
        Builds <- {"tso", "quiescent"}, MaxCalls <- OnceCalls,
        pc <- oncePc, asleep <- onceAsleep, calls <- onceCalls

AL == INSTANCE Allocator WITH
        Threads <- {t1, t2}, Cpus <- {1}, Heaps <- 2, FirstMaps <- 1, Maps <- 2,
        PerPage <- 2, PerSuper <- 2, Bits <- 1, Limit <- 1, LowLimit <- 0,
        Allocs <- 4

DO == INSTANCE DataObject WITH
        Leaves <- <<<<1, 2>>, <<3>>>>, Calls <- 3,
        objs <- heaps, has <- bits, value <- supers, freed <- last,
        flattening <- limit, calls <- cache

AtRest ==
  /\ heaps = 0 /\ bits = 0 /\ supers = 0 /\ last = 0 /\ limit = 0 /\ cache = 0
  /\ held = 0 /\ allocs = 0 /\ crash = 0 /\ at = 0

MCInit ==
  /\ Init /\ SL!Init /\ OG!Init
  /\ \/ object \in {"semaphore", "side lock", "once"} /\ AtRest
     \/ object = "allocator" /\ AL!AllocInit
     \/ object = "data" /\ DO!DataInit /\ held = 0 /\ allocs = 0 /\ at = 0
  /\ object \notin {"semaphore", "side lock", "once"} => build = "tso"

MCNext ==
  \/ object = "semaphore" /\ Next /\ UNCHANGED <<object, lockVars, onceVars, sharedVars>>
  \/ object = "side lock" /\ SL!Next /\ UNCHANGED <<object, vars, onceVars, sharedVars>>
  \/ object = "once" /\ OG!Next /\ UNCHANGED <<object, vars, lockVars, sharedVars>>
  \/ object = "allocator" /\ AL!AllocNext /\ UNCHANGED <<object, blockingVars>>
  \/ object = "data" /\ DO!DataNext /\ UNCHANGED <<object, blockingVars, held, allocs, at>>

\* The fairness of each module, of the one the behaviour is about.
MCSpec ==
  /\ MCInit /\ [][MCNext]_<<object, blockingVars, sharedVars>>
  /\ \A t \in Threads : WF_vars(object = "semaphore" /\ Progress(t))
  /\ \A t \in {t1, t2, t3} : WF_lockVars(object = "side lock" /\ SL!Progress(t))
  /\ \A t \in Threads : WF_onceVars(object = "once" /\ OG!Progress(t))

\* The unfair lock has one owner, which its word names, and the override of the
\* last waker gets through even if that waker found the lock taken.
SideLockIsSound == SL!TypeOK /\ SL!OneOwner /\ SL!OverridesAreApplied

\* Whoever returns from dispatch_once sees what the initializer stored, with no
\* barrier in the fast path.
OnceIsSound == OG!TypeOK /\ OG!ReturnersSeeTheInit

\* A continuation is given to one caller at a time, heaps and pages agree with what
\* is in use, and what a data object stands for is what its client made of it, until
\* its last reference goes and each buffer is given back once.
StorageIsSound ==
  /\ object = "allocator" => AL!AllocatorIsSound
  /\ object = "data" => DO!DataIsSound

\* Waits on the semaphore return once the signals have caught up, callers of the
\* lock get it and callers of dispatch_once return.
WaitersReturn == SettledWaitersReturn /\ SL!LockersReturn /\ OG!CallersReturn
=============================================================================
