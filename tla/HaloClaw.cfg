SPECIFICATION Spec
CONSTANTS
  d1 = d1
  d2 = d2
  d3 = d3
  c1 = c1
  c2 = c2
  Adapters = {a1, a2}
  Admins = {r1, r2}
  Boot = Boot
  Deliveries = {d1, d2, d3}
  EventOf <- EventsOf
  ChatOf <- ChatsOf
  Images = {d1, d2}
  Limit = 2
  MaxBoots = 1
  None = None
INVARIANTS TypeOK ToggledOnRuns
PROPERTIES HeardOnce KeepsConversation
SYMMETRY Symmetry
CHECK_DEADLOCK FALSE
