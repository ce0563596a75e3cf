\* Two markets, polls and reloads without bound.
CONSTANTS
  MarketIds <- MCMarkets
  Polymarket <- MCPolymarket
  Announced <- MCPolymarket
SPECIFICATION FairSpec
INVARIANTS EvictionTypeOK LiveMeansTracked
PROPERTIES NoRevival EvictedForGood
