SPECIFICATION FairSpec
CONSTANTS
  r1 = r1
  r2 = r2
  Runs = {r1, r2}
  Home <- OneProcess
  HasBlocks = TRUE
  MaxRaw = 2
  MaxRuns = 2
  MaxFaults = 1
INVARIANTS TypeOK CompleteIsStored OwnVersionIsStored InProgressIsRunning
PROPERTIES VersionsKept OneAtATime EveryRunEnds
CHECK_DEADLOCK FALSE
