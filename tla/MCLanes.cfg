\* A serial queue with two clients of two submissions each, one suspension and one
\* thread; a queue of width 2 with three clients of one submission each.
CONSTANTS
  c1 = c1
  c2 = c2
  c3 = c3
  w1 = w1
  Null = Null
  Clients <- MCClients
  Workers <- MCWorkers
  Width = 1
  Kinds = {"async", "sync"}
  MaxCalls = 2
  MaxSuspend = 1
  Narrowing = TRUE
SPECIFICATION MCSpec
INVARIANTS
  SerialLaneIsSound
PROPERTIES
  SerialKeepsContract
  WorkRuns
\* Clients may stop calling.
CHECK_DEADLOCK FALSE
