SPECIFICATION FairSpec
CONSTANTS
  w1 = w1
  w2 = w2
  w3 = w3
  s1 = s1
  s2 = s2
  Workers = {w1, w2, w3}
  Sessions = {s1, s2}
  Home <- HomeOf
  Models = {m1}
  Stalls = FALSE
  None = None
INVARIANTS
  TypeOK
  OneCleaner
  CleanerSurvives
  NotNewerThanReported
  AloneLosesNothing
PROPERTIES
  StaleUsageGoes
  ReporterListed
CHECK_DEADLOCK FALSE
