SPECIFICATION Spec
CONSTANTS
  Activity = {a1}
  Worker = {w1, w2}
  Runner = {}
  NoActivity = none
  DatabaseBackend = TRUE
  KeepTerminal = 1
  MaxFaults = 1
  MaxOwnerOps = 0
INVARIANTS
  SupersededOnlyAfterLapse
