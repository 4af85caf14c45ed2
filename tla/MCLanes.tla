------------------------------- MODULE MCLanes -------------------------------
(* Small instances of DispatchLane for TLC: a serial queue, with all that   *)
(* its two clients can do, and the liveness of a queue of width 2 with      *)
(* three clients.  The variable object says which one a behaviour is about; *)
(* they share their variables.                                              *)
EXTENDS DispatchLane

CONSTANTS c1, c2, c3, w1

VARIABLE object

MCClients == {c1, c2}
MCWorkers == {w1}

Wide == INSTANCE DispatchLane WITH
          Clients <- {c1, c2, c3}, Width <- 2, MaxCalls <- 1, MaxSuspend <- 0,
          Kinds <- {"barrier_async", "sync"}, Narrowing <- FALSE

MCInit ==
  \/ object = "serial" /\ Init
  \/ object = "wide" /\ Wide!Init

MCNext ==
  \/ object = "serial" /\ Next /\ UNCHANGED object
  \/ object = "wide" /\ Wide!Next /\ UNCHANGED object

\* The fairness of each, of the one the behaviour is about.
Runs(t) == object = "serial" /\ (ClientStep(t) \/ SharedStep(t))
RunsWide(t) == object = "wide" /\ (Wide!ClientStep(t) \/ Wide!SharedStep(t))
Works == object = "serial" /\ (WorkerStep(w1) \/ SharedStep(w1))
WorksWide == object = "wide" /\ (Wide!WorkerStep(w1) \/ Wide!SharedStep(w1))

MCSpec ==
  /\ MCInit /\ [][MCNext]_<<object, vars>>
  /\ \A t \in {c1, c2} : WF_vars(Runs(t) \/ RunsWide(t))
  /\ WF_vars(RunsWide(c3))
  /\ WF_vars(Works \/ WorksWide)

\* A serial queue has one owner and is enqueued once, its references add up, nothing
\* is left behind in it, and its last reference goes when it is at rest.
SerialLaneIsSound ==
  object = "serial" =>
    /\ LockHasItsOwner /\ EnqueuedOnce
    /\ RefsAreAccounted /\ NothingIsStranded /\ DisposedAtRest

\* Items of a serial queue run one at a time, in order.
SerialKeepsContract ==
  [][object = "serial" => Contract!Next \/ UNCHANGED Contract!vars]_vars

\* Every submission eventually runs and every call returns, if the lane is not
\* suspended for ever: a pending barrier starves neither itself nor the readers.
WorkRuns ==
  <>[](~Suspended(dq_state)) =>
    <>[](IF object = "serial" THEN AllRan ELSE Wide!AllRan)
=============================================================================
