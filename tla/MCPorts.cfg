\* Two threads that log up to four tracepoints, into rings of four cells; two clients of
\* logd; a Mach channel with two clients and three messages.
CONSTANTS
  t1 = t1
  t2 = t2
  wk = wk
  kd = kd
  c1 = c1
  c2 = c2
  m1 = m1
  m2 = m2
  m3 = m3
  Threads <- MCThreads
  MemStream = MemStream
  IoStream = IoStream
  Null = Null
  Count = 4
  Prealloc = 1
  Room = 1
  Batch = 2
  LossMax = 4
  Letters = 2
  Base = 8
  Totals <- MCTotals
  Scripts <- MCScripts
  Channeled <- MCChannels
SPECIFICATION MCSpec
INVARIANTS
  LoggingIsSound
  MachChannelsAreSound
\* Threads stop after their last call.
CHECK_DEADLOCK FALSE
