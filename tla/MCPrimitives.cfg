\* A semaphore with two threads and a three-bit counter, so that signals overflow
\* it; a side lock with three threads and four calls in all; a gate with two
\* threads, two calls each and five quiescent periods.  Weak fairness of the steps
\* inside a call.
CONSTANTS
  t1 = t1
  t2 = t2
  t3 = t3
  Threads <- MCThreads
  NoPort = NoPort
  Nobody = Nobody
  Null = Null
  Orig = 1
  LongMax = 3
  MaxCalls = 3
  MaxAborts = 1
  LockCalls = 4
  MaxQos = 3
  MaxGen = 5
  OnceCalls = 2
SPECIFICATION MCSpec
INVARIANTS
  PermitBound
  WakeupsMatchWaiters
  TypeOK
  CrashIsUnbalanced
  SideLockIsSound
  OnceIsSound
  StorageIsSound
PROPERTIES
  PortIsPublishedOnce
  WaitersReturn
\* Every thread may stop after its last call or wait forever for a signal.
CHECK_DEADLOCK FALSE
