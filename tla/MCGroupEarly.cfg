\* What the header says of notifications.
CONSTANTS
  t1 = t1
  t2 = t2
  Threads <- MCThreads
  MaxCalls = 3
  ValueMod = 8
  GenMod = 8
SPECIFICATION Spec
INVARIANT NotifiedWhenEmpty
\* The threads may stop calling, and a crash stops all of them.
CHECK_DEADLOCK FALSE
