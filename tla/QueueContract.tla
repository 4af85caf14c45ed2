--------------------------- MODULE QueueContract ---------------------------
(***************************************************************************)
(* What a dispatch queue promises to its clients, whatever its state word  *)
(* does: an item runs once, an exclusive item (any item of a serial queue, *)
(* a barrier of a concurrent one) runs alone, and items that conflict run  *)
(* in the order in which they were submitted.                              *)
(***************************************************************************)

CONSTANTS Items, ExclusiveItems

VARIABLES submitted, running, finished,
          order  \* <<i, j>>: j may not start before i, still unfinished, ends

vars == <<submitted, running, finished, order>>

Init ==
  /\ submitted = {}
  /\ running = {}
  /\ finished = {}
  /\ order = {}

\* i is submitted when the submissions of all of earlier have returned.
Submit(i) ==
  /\ i \notin submitted
  /\ submitted' = submitted \cup {i}
  /\ \E earlier \in SUBSET (submitted \ finished) :
       order' = order \cup (earlier \X {i})
  /\ UNCHANGED <<running, finished>>

Start(i) ==
  /\ i \in submitted \ (running \cup finished)
  /\ running \cap ExclusiveItems = {}
  /\ i \in ExclusiveItems => running = {}
  /\ \A j \in submitted : <<j, i>> \notin order
  /\ running' = running \cup {i}
  /\ UNCHANGED <<submitted, finished, order>>

Finish(i) ==
  /\ i \in running
  /\ running' = running \ {i}
  /\ finished' = finished \cup {i}
  /\ order' = {pair \in order : pair[1] # i}
  /\ UNCHANGED submitted

Next == \E i \in Items : Submit(i) \/ Start(i) \/ Finish(i)

Spec == Init /\ [][Next]_vars
=============================================================================
