SPECIFICATION FairSpec
CONSTANTS
  Calls = {p1, p2}
  Listings = {p2}
  Cancellable = {p1}
  Clients = {c1, c2}
  CanShutDown = TRUE
INVARIANTS
  TypeOK
  WaitsEnd
PROPERTIES
  ReaperSparesCalls
  OneSpeaks
  CallsReturn
  RegisteredReclaimed
CHECK_DEADLOCK FALSE
