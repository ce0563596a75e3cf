--------------------------- MODULE MCSolverRuntime ---------------------------
(***************************************************************************)
(* Two components, a and b, under the numberings two successive calls of   *)
(* buildClusters can give them: both served in either order, or one of     *)
(* them left out.  Books are quiet or hold an arbitrage.  Nothing tells    *)
(* the components apart, so the safety run identifies states that differ   *)
(* by their exchange only.                                                 *)
(***************************************************************************)
EXTENDS SolverRuntime, TLC

CONSTANTS a, b, quiet, arb, oneVenue

MCComps == {a, b}
MCGraphs == {<<a, b>>, <<b, a>>, <<a>>, <<b>>}
MCSymmetry == Permutations(MCComps)
MCVersions == {quiet, arb}
MCArbVersions == {arb}
MCVenues == {oneVenue}
MCVenuesOf == [v \in MCVersions |-> oneVenue]
==============================================================================
