----------------------------- MODULE MCSolverPool -----------------------------
(* Two workers; the batches give ties, a heavy LP at the end, and more LPs   *)
(* than workers.                                                             *)
EXTENDS SolverPool

MCBatches == {<<2>>, <<1, 1, 3>>}
=============================================================================
