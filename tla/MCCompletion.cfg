\* A group with two threads that use it twice each, on a value counter that
\* overflows; an apply of up to three iterations and threads below up to two queues
\* of width two; a block object with two waiters, two waits and two runs.
CONSTANTS
  t1 = t1
  t2 = t2
  r1 = r1
  r2 = r2
  Threads <- MCThreads
  MaxCalls = 2
  ValueMod = 4
  GenMod = 8
  MaxIterations = 3
  MaxThreads = 3
  MaxDepth = 2
  MaxWidth = 2
  MaxWaits = 2
SPECIFICATION MCSpec
INVARIANTS
  WaitsForEmpty
  NotifiedUnlessRacing
  GroupIsSound
  NothingIsLeftBehind
  ApplyIsSound
  
PROPERTIES
  CompletionIsTold
\* The threads may stop calling, and a crash stops all of them.
CHECK_DEADLOCK FALSE
