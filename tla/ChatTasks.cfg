SPECIFICATION FairSpec
CONSTANTS
  Chats = {c1, c2}
  TaskIds = {t1, t2}
  Stoppers = {s1, s2}
  MaxDeltas = 2
  RealtimeSave = FALSE
INVARIANTS
  TypeOK
  RegistryInv
  HiddenReplySaved
  StoppedReplyKept
PROPERTIES
  ListingTells
  NoWriteAfterStop
  TasksLeave
  StopsAnswered
CHECK_DEADLOCK FALSE
