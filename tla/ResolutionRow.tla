---------------------------- MODULE ResolutionRow ----------------------------
(***************************************************************************)
(* The write-once row behind packages/resolution-write: whoever writes it,  *)
(* resolved_at and winning_outcome are each filled in at most once and      *)
(* never change afterwards.  No writers, locks or transactions are left.    *)
(***************************************************************************)
CONSTANTS Markets, Winners, Times, Null

VARIABLES resolvedAt, winner

Init ==
  /\ resolvedAt = [m \in Markets |-> Null]
  /\ winner = [m \in Markets |-> Null]

\* COALESCE: the value that was there first stays.
First(old, new) == IF old # Null THEN old ELSE new

Fill(m, t, win) ==
  /\ resolvedAt' = [resolvedAt EXCEPT ![m] = First(@, t)]
  /\ winner' = [winner EXCEPT ![m] = First(@, win)]

Next ==
  \E m \in Markets, t \in Times, win \in Winners \cup {Null} : Fill(m, t, win)

Spec == Init /\ [][Next]_<<resolvedAt, winner>>
=============================================================================
