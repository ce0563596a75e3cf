\* As MCSolverPool: does every awaited batch return?
CONSTANTS
  WorkerCount = 2
  Batches <- MCBatches
  MaxCalls = 2
  MaxDeaths = 2
SPECIFICATION FairSpec
PROPERTY AwaitsSettle
CHECK_DEADLOCK FALSE
