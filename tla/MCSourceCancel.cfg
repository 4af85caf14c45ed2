\* A source that is suspended while it is being cancelled.
CONSTANTS
  c1 = c1
  c2 = c2
  Clients <- MCClients
  Kinds = {"direct"}
  MaxEvents = 1
  MaxSuspends = 1
  Liberties = {"cancel"}
SPECIFICATION SourceSpec
SYMMETRY Symmetry
INVARIANT CancelIsNotForgotten
\* Clients may stop calling and events stop coming.
CHECK_DEADLOCK FALSE
