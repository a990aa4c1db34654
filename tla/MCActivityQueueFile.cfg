SPECIFICATION Spec
CONSTANTS
  Activity = {a1, a2}
  Worker = {w1, w2}
  Runner = {w2}
  NoActivity = none
  DatabaseBackend = FALSE
  KeepTerminal = 1
  MaxFaults = 1
  MaxOwnerOps = 2
SYMMETRY ActivitySymmetry
INVARIANTS
  SupersededOnlyAfterLapse
PROPERTIES
  SettledByOwnerOnly
  KeepsLifecycle
