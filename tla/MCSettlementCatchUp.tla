-------------------------- MODULE MCSettlementCatchUp --------------------------
(* Three settlements; the second market may be one that was never scraped.   *)
EXTENDS SettlementCatchUp

MCTrackedSets == {1..3, {1, 3}}
=============================================================================
