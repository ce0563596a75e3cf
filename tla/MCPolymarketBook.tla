--------------------------- MODULE MCPolymarketBook ---------------------------
(* One asset with two price levels.                                          *)
EXTENDS PolymarketBook

MCAssets == {"yes"}
MCLevels == {"bid", "ask"}
=============================================================================
