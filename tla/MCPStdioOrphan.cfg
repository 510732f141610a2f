SPECIFICATION Spec
CONSTANTS
  Calls = {p1, p2}
  Listings = {}
  Cancellable = {}
  Clients = {c1, c2}
  CanShutDown = FALSE
INVARIANT
  NoOrphan
CHECK_DEADLOCK FALSE
