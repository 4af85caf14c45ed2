\* A source of each kind with two clients, two events and a suspension; heaps of
\* four and five timers in segments that start with four slots; a timer that is set
\* once, suspended and sees a change of the calendar, and two timers of which one is
\* set.
CONSTANTS
  c1 = c1
  c2 = c2
  h1 = h1
  h2 = h2
  h3 = h3
  h4 = h4
  h5 = h5
  t1 = t1
  t2 = t2
  Null = Null
  Capacity0 = 4
  Clients <- MCClients
  Kinds = {"direct", "data", "muxed"}
  MaxEvents = 2
  MaxSuspends = 1
  Liberties = {}
SPECIFICATION MCSpec
SYMMETRY Symmetry
INVARIANTS
  SourcesAreSound
  HeapIsSound
  TimersAreSound
PROPERTIES
  MinimumIsProgrammed
\* Clients may stop calling and events stop coming.
CHECK_DEADLOCK FALSE
