\* A voucher is copied while another thread gives it its own kernel voucher.
CONSTANTS
  c1 = c1
  c2 = c2
  e1 = e1
  e2 = e2
  o1 = o1
  o2 = o2
  o3 = o3
  k1 = k1
  k2 = k2
  k3 = k3
  th1 = th1
  th2 = th2
  th3 = th3
  q1 = q1
  q2 = q2
  wk = wk
  a1 = a1
  b1 = b1
  Null = Null
  Channels <- MCChannels
  Entries <- MCEntries
  Ops <- MCOps
  Dirs = {"read", "write"}
  Chunk = 2
  Depth = 2
  Uses <- MCUses
  Liberties = {}
  Watched <- MCWatched
  Suspends <- MCSuspends
  Workloops <- MCWorkloops
  Vouchers <- MCCopied
  Objects = {"voucher"}
SPECIFICATION MCSpec
INVARIANT CopiesKeepProperties
\* Clients may stop calling and events stop coming.
CHECK_DEADLOCK FALSE
