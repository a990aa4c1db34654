SPECIFICATION PageFairSpec
CONSTANTS
  reader = reader
  admin = admin
  o1 = o1
  o2 = o2
  Processes = {reader, admin}
  AdminProcess = admin
  Owners = {o1, o2}
  MaxChanges = 4
INVARIANTS PageTypeOK
PROPERTIES TakenDownIsNotCached CacheCatchesUp
CHECK_DEADLOCK FALSE
