\* Two faults, two changes of the subscription, REST requests without bound.
CONSTANTS
  Assets <- MCAssets
  Levels <- MCLevels
  Streak = 2
  MaxMoves = 2
  MaxChanges = 2
  MaxFaults = 2
SPECIFICATION FairSpec
INVARIANTS TypeOK PublishedRight
PROPERTIES RepairArrives
CHECK_DEADLOCK FALSE
