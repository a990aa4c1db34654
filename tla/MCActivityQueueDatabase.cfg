SPECIFICATION FairSpec
CONSTANTS
  Activity = {a1, a2}
  Worker = {w1, w2}
  Runner = {w2}
  NoActivity = none
  DatabaseBackend = TRUE
  KeepTerminal = 1
  MaxFaults = 1
  MaxOwnerOps = 1
INVARIANTS
  TypeOK
  LeaseDiscipline
PROPERTIES
  OnlyLatestClaimantActs
  SettledResumesOnlyByClaim
  EventuallySettled
CHECK_DEADLOCK FALSE
