SPECIFICATION FairSpec
CONSTANTS
  Process = {p1, p2, p3}
  NoOne = nobody
  InContainers = FALSE
  MaxTries = 2
  MaxFaults = 2
INVARIANTS
  TypeOK
  ExclusiveUnlessRaced

  
