SPECIFICATION FairSpec
CONSTANTS
  t1 = t1
  t2 = t2
  s1 = s1
  s2 = s2
  NoSocket = NoSocket
  Tickers <- MCTickers
  Sockets <- MCSockets
  VerifyRest = TRUE
  MaxMoves = 2
  MaxChecks = 1
  MaxLosses = 1
  MaxDrops = 1
  MaxFaults = 1
  MaxChanges = 2
INVARIANTS TypeOK OneSocket OpenMeansSubscribed SequencedBooksExact FreshMeansFed
PROPERTY SubscribedCatchesUp
CHECK_DEADLOCK FALSE
