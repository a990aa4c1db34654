SPECIFICATION FairSpec
CONSTANTS
  Web = {r1, r2}
  Workers = {w1}
  Rows = {c1}
  Keys = {k1, k2}
  MaxStarts = 4
INVARIANTS TypeOK LeasableIsAccepted RevocationIsFinal
PROPERTY EveryRequestEnds
CHECK_DEADLOCK FALSE
