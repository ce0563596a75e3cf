SPECIFICATION Spec
CONSTANTS
  m1 = m1
  m2 = m2
  w1 = w1
  w2 = w2
  w3 = w3
  Null = Null
  NoWriter = NoWriter
  Markets <- MCMarkets
  Writers <- MCWriters
  Winners <- MCWinners
  Times <- MCTimes
  MaxCalls = 3
  MaxFaults = 1
INVARIANTS TypeOK OneCreated AnnouncedWinnerHolds WinnerAnnounced
PROPERTY RowSpec
