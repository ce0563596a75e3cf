----------------------------- MODULE MCKalshiFeed -----------------------------
\* KalshiFeed on two markets and two sockets.
EXTENDS KalshiFeed

CONSTANTS t1, t2, s1, s2

MCTickers == {t1, t2}
MCSockets == {s1, s2}
=============================================================================
