----------------------------- MODULE BatchPromise -----------------------------
(***************************************************************************)
(* What solver-pool.ts promises to the code that awaits solveBatch: every   *)
(* LP of a call is answered at most once, by its own solution or by an      *)
(* error, at its own place in the array.  Workers, jobs, chunks and         *)
(* messages are left out.                                                   *)
(***************************************************************************)
EXTENDS Naturals, Sequences

CONSTANT Sizes      \* numbers of LPs a call may have

VARIABLE result     \* per call, the sequence of its LPs' outcomes

Init == result = <<>>

Ask(n) == result' = Append(result, [i \in 1..n |-> "waiting"])

Kept(c, i) == result'[c][i] = result[c][i]
Settled(c, i) == result[c][i] = "waiting" /\ result'[c][i] \in {"solved", "error"}

\* Several LPs may be answered at once, of several calls.
Settle ==
  /\ DOMAIN result' = DOMAIN result
  /\ \A c \in DOMAIN result :
       /\ DOMAIN result'[c] = DOMAIN result[c]
       /\ \A i \in DOMAIN result[c] : Kept(c, i) \/ Settled(c, i)

Next == Settle \/ \E n \in Sizes : Ask(n)

Spec == Init /\ [][Next]_result
=============================================================================
