----------------------------- MODULE MCEvents -----------------------------
(* Small instances for TLC of what serves events: the source, the heap of  *)
(* timers (of four and of five timers) and the timer sources (one and two  *)
(* of them).                                                               *)
(* A behaviour is about one of these, the variable object says which; they  *)
(* share the variables of module Source, which the others rename.          *)
EXTENDS Source, TLC

CONSTANTS c1, c2, h1, h2, h3, h4, h5, t1, t2, Null, Capacity0

VARIABLE object

MCClients == {c1, c2}
Symmetry == Permutations(MCClients)

Keys == {k \in [{0, 1} -> 1 .. 2] : k[0] <= k[1]}

Four == INSTANCE TimerHeap WITH
          Timers <- {h1, h2, h3, h4}, dth <- q, key <- du

Five == INSTANCE TimerHeap WITH
          Timers <- {h1, h2, h3, h4, h5}, Keys <- {k \in Keys : k[0] = k[1]},
          dth <- q, key <- du

Setting(delay, interval, leeway, clock) ==
  [delay |-> delay, interval |-> interval, leeway |-> leeway, clock |-> clock]

One == INSTANCE Timers WITH
         Timers <- {t1}, Kinds <- {"timer", "after"},
         Settings <- {Setting(1, 1, 0, "uptime"), Setting(1, 2, 1, "wall")},
         Window <- 0, MaxTime <- 3, MaxJumps <- 1, MaxSets <- 1, MaxSuspends <- 1,
         world <- q, dt <- du, config <- knote, src <- ds, heap <- dqf,
         kernel <- refs, doing <- act, told <- env

Two == INSTANCE Timers WITH
         Timers <- {t1, t2}, Kinds <- {"timer", "after"},
         Settings <- {Setting(1, 2, 1, "uptime")},
         Window <- 0, MaxTime <- 3, MaxJumps <- 0, MaxSets <- 1, MaxSuspends <- 0,
         world <- q, dt <- du, config <- knote, src <- ds, heap <- dqf,
         kernel <- refs, doing <- act, told <- env

Unused == <<kind, dqf, knote, pending, ds, refs, act, env>>   \* by the heap

Rest ==
  /\ kind = 0 /\ dqf = 0 /\ knote = 0 /\ pending = 0
  /\ ds = 0 /\ refs = 0 /\ act = 0 /\ env = 0

MCInit ==
  \/ object = "source" /\ SourceInit
  \/ object = "heap" /\ Four!HeapInit /\ Rest
  \/ object = "large heap" /\ Five!HeapInit /\ Rest
  \/ object = "timer" /\ One!TimersInit
  \/ object = "timers" /\ Two!TimersInit

MCNext ==
  \/ object = "source" /\ SourceNext /\ UNCHANGED object
  \/ object = "heap" /\ Four!HeapNext /\ UNCHANGED <<object, Unused>>
  \/ object = "large heap" /\ Five!HeapNext /\ UNCHANGED <<object, Unused>>
  \/ object = "timer" /\ One!TimersNext /\ UNCHANGED object
  \/ object = "timers" /\ Two!TimersNext /\ UNCHANGED object

MCSpec == MCInit /\ [][MCNext]_<<object, sourceVars>>

\* Cancelling, suspending and releasing a source while events are delivered neither
\* loses events nor calls a handler too late nor frees it too early.
SourcesAreSound == object = "source" => SourceIsSound

\* The heap of timers is in order, and the event loop hears of a new minimum.
HeapIsSound ==
  /\ object = "heap" => Four!HeapIsSound
  /\ object = "large heap" => Five!HeapIsSound
MinimumIsProgrammed ==
  [][/\ object = "heap" => Four!ProgramsTheMinimum
     /\ object = "large heap" => Five!ProgramsTheMinimum]_<<object, sourceVars>>

\* No period of a timer is lost or told twice, and the kernel's timers are in time.
TimersAreSound ==
  /\ object = "timer" => One!TimersAreSound
  /\ object = "timers" => Two!TimersAreSound
=============================================================================
