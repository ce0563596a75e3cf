CONSTANTS
  a = a
  b = b
  quiet = quiet
  arb = arb
  oneVenue = oneVenue
  Comps <- MCComps
  Graphs <- MCGraphs
  Versions <- MCVersions
  ArbVersions <- MCArbVersions
  Venues <- MCVenues
  VenuesOf <- MCVenuesOf
  WorkerPool = FALSE
  Graded = TRUE
  MaxUpdates = 2
  MaxLosses = 0
  MaxRebuilds = 1
  MaxFaults = 1
SPECIFICATION FairSpec
CHECK_DEADLOCK FALSE
PROPERTIES
  EveryUpdateSeen
