\* Both kinds of poll, two faults, polls without bound.
CONSTANTS
  MaxSettled = 3
  TrackedSets <- MCTrackedSets
  SkipThreshold = 2
  Overlap = 1
  LateWatchdog = TRUE
  MaxFaults = 2
SPECIFICATION FairSpec
INVARIANTS TypeOK GapCovered
PROPERTIES EverySettlementLands
