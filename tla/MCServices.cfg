\* Up to two channels and three operations on a file, in the ways of MCUses; what two
\* clients watch, with two events at a time; the calls of three clients on a queue, with
\* a suspend count that overflows at four, and on a workloop; of three threads on
\* vouchers.
CONSTANTS
  c1 = c1
  c2 = c2
  e1 = e1
  e2 = e2
  o1 = o1
  o2 = o2
  o3 = o3
  k1 = k1
  k2 = k2
  k3 = k3
  th1 = th1
  th2 = th2
  th3 = th3
  q1 = q1
  q2 = q2
  wk = wk
  a1 = a1
  b1 = b1
  Null = Null
  Channels <- MCChannels
  Entries <- MCEntries
  Ops <- MCOps
  Dirs = {"read", "write"}
  Chunk = 2
  Depth = 2
  Uses <- MCUses
  Liberties = {}
  Watched <- MCWatched
  Suspends <- MCSuspends
  Workloops <- MCWorkloops
  Vouchers <- MCVouchers
  Objects = {"io", "loop", "suspend", "workloop", "voucher"}
SPECIFICATION MCSpec
INVARIANTS
  IoChannelsAreSound
  EventLoopIsSound
  
  VouchersAreSound
\* Clients may stop calling and events stop coming.
CHECK_DEADLOCK FALSE
