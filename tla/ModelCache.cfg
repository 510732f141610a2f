SPECIFICATION FairSpec
CONSTANTS
  Requests = {r1, r2}
  Tasks = {t1, t2}
  MaxSaves = 1
  MaxEpochs = 2
  None = None
INVARIANTS
  TypeOK
  ServedSinceAsked
  SingleFlight
  NobodyIsForgotten
PROPERTIES
  SettingsTakeEffect
CHECK_DEADLOCK FALSE
