\* A lane of width 2 with three clients, two threads and all kinds of submission;
\* one that is suspended once, with one thread.
CONSTANTS
  c1 = c1
  c2 = c2
  c3 = c3
  w1 = w1
  w2 = w2
  Null = Null
  Clients <- MCClients
  Workers <- MCWorkers
  Width = 2
  Kinds <- AllKinds
  MaxCalls = 1
  MaxSuspend = 1
  Narrowing = TRUE
SPECIFICATION MCSpec
SYMMETRY Symmetry
INVARIANTS
  TypeOK
  LockHasItsOwner
  EnqueuedOnce
  BusyLaneIsServed
  RefsAreAccounted
PROPERTIES
  KeepsContract
\* A queue without work is at rest.
CHECK_DEADLOCK FALSE
