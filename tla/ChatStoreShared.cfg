SPECIFICATION Spec
CONSTANTS
  Chats = {c1, c2}
  Links = {l1, l2}
  Requests = {r1}
  Titles = {old, new}
  Texts = {before, after}
  FolderLimit = 1
  None = None
  NotYet = NotYet
  Gone = Gone
INVARIANT SharedIsSnapshot
CHECK_DEADLOCK FALSE
