SPECIFICATION FairSpec
CONSTANTS
  Instance = {i1, i2}
  Nobody = nobody
  Ghost = ghost
  MaxFaults = 3
INVARIANTS
  TypeOK
  Exclusive
PROPERTIES
  DueIsServed
