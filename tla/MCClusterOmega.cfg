\* Two changes of the tables, every reload, refresh and loss of quotes.
CONSTANTS
  Questions = {1, 2, 3, 4}
  Databases <- MCDatabases
  EdgePool <- MCEdges
  Fused <- MCFused
  Bids <- MCBids
  MaxStates = 7
  FacetCap = 3
  MaxEdits = 2
SPECIFICATION Spec
INVARIANTS TypeOK NoWorldLost BothValues SameReading RefutedStaysOut
