SPECIFICATION FairSpec
CONSTANTS
  c1 = c1
  Project = project
  Workers = {w1, w2}
  Credentials = {c1}
  Rpm <- MCRpm
  Tpm <- MCTpm
  Rpd <- MCRpd
  Slots <- MCSlots
  MaxCalls = 3
  MaxCutOff = 1
INVARIANTS TypeOK RunningWithinSlots RunningIsCharged SlotsAreOwned
PROPERTY SlotsReturn
CHECK_DEADLOCK FALSE
