\* Two events, startTracking and two more commands, one cross-check, a death.
CONSTANTS
  Markets <- MCMarkets
  Lists <- MCLists
  BatchMax = 2
  MaxEvents = 2
  MaxCommands = 3
  MayDie = TRUE
SPECIFICATION FairSpec
INVARIANTS TypeOK CommandsAddUp
PROPERTIES KeepsOrder RequestsSettle
CHECK_DEADLOCK FALSE
