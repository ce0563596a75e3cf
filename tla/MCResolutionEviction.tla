------------------------ MODULE MCResolutionEviction ------------------------
(* One market of each kind: "p" waits for tokens and announces, "k" neither. *)
EXTENDS ResolutionEviction

MCMarkets == {"p", "k"}
MCPolymarket == {"p"}
=============================================================================
