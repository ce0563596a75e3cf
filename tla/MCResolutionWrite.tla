--------------------------- MODULE MCResolutionWrite ---------------------------
\* ResolutionWrite on two markets and three writers.
EXTENDS ResolutionWrite

CONSTANTS m1, m2, w1, w2, w3

MCMarkets == {m1, m2}
MCWriters == {w1, w2, w3}
MCWinners == {"Yes", "No"}
MCTimes == {"earlier", "later"}
=============================================================================
