------------------------------ MODULE MCQueues ------------------------------
(* Small instances for TLC of a lane of width 2 that several threads drain: *)
(* busy with submissions of every kind, or suspended while a barrier is     *)
(* pending.  A behaviour is about one of them, the variable object says     *)
(* which.                                                                   *)
EXTENDS DispatchLane, TLC

CONSTANTS c1, c2, c3, w1, w2

VARIABLE object

MCClients == {c1, c2, c3}
MCWorkers == {w1, w2}

Symmetry == Permutations(Clients) \cup Permutations(Workers)

MCInit == object \in {"busy", "paused"} /\ Init

\* The busy lane is not suspended; the other one is drained by one thread, and sees
\* barriers and readers only.
Case ==
  /\ object = "busy" => suspends = 0
  /\ object = "paused" =>
       /\ fr[w2].pc = "idle"
       /\ \A c \in Clients : fr[c].item # Null => fr[c].item.kind # "async"

MCNext == UNCHANGED object /\ Next /\ Case'

MCSpec == MCInit /\ [][MCNext]_<<object, vars>>

\* The width of a lane is neither lost nor given back twice by readers, barriers,
\* waiters and the reservation for a pending barrier, as long as nobody suspends it;
\* and nothing is left behind in it.
BusyLaneIsServed == object = "busy" => WidthIsAccounted /\ NothingIsStranded
=============================================================================
