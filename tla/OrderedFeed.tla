------------------------------ MODULE OrderedFeed ------------------------------
(***************************************************************************)
(* What the host of the I/O thread promises to the solver: the events of    *)
(* the worker's manager reach its callbacks in the order they were emitted, *)
(* each once and none skipped.  Batches, timers, messages and commands are  *)
(* left out.                                                                *)
(***************************************************************************)
EXTENDS Naturals

VARIABLES
  emitted,     \* events are numbered as they are emitted
  delivered    \* those the callbacks have seen

Init == emitted = 0 /\ delivered = {}

Emit == emitted' = emitted + 1 /\ UNCHANGED delivered

\* Any number of further events, leaving no gap behind.
Deliver ==
  /\ delivered \subseteq delivered'
  /\ delivered' \subseteq 1..emitted
  /\ \A n \in delivered', k \in 1..emitted : k < n => k \in delivered'
  /\ UNCHANGED emitted

Spec == Init /\ [][Emit \/ Deliver]_<<emitted, delivered>>
=============================================================================
