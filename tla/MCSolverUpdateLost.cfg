CONSTANTS
  a = a
  b = b
  quiet = quiet
  arb = arb
  oneVenue = oneVenue
  Comps <- MCComps
  Graphs <- MCGraphs
  Versions <- MCVersions
  ArbVersions <- MCArbVersions
  Venues <- MCVenues
  VenuesOf <- MCVenuesOf
  WorkerPool = FALSE
  Graded = FALSE
  MaxUpdates = 3
  MaxLosses = 0
  MaxRebuilds = 0
  MaxFaults = 0
SPECIFICATION Spec
CHECK_DEADLOCK FALSE
INVARIANTS
  UpdateReachesSolve
