CONSTANTS
  a = a
  b = b
  quiet = quiet
  arb = arb
  oneVenue = oneVenue
  Comps <- MCComps
  Graphs <- MCGraphs
  Versions <- MCVersions
  ArbVersions <- MCArbVersions
  Venues <- MCVenues
  VenuesOf <- MCVenuesOf
  WorkerPool = TRUE
  Graded = FALSE
  MaxUpdates = 2
  MaxLosses = 2
  MaxRebuilds = 1
  MaxFaults = 1
SPECIFICATION Spec
SYMMETRY MCSymmetry
CHECK_DEADLOCK FALSE
INVARIANTS
  TypeOK
  NoLostWakeup
  UpdatesCovered
  DedupSound
PROPERTIES
  PreparesSoundOmega
