\* Two calls that may overlap, two workers, both of which may die, shutdown.
CONSTANTS
  WorkerCount = 2
  Batches <- MCBatches
  MaxCalls = 2
  MaxDeaths = 2
SPECIFICATION FairSpec
INVARIANTS TypeOK NoSilentLoss
PROPERTIES KeepsPromise BatchReturns
CHECK_DEADLOCK FALSE
