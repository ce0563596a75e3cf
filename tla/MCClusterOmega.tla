---------------------------- MODULE MCClusterOmega ----------------------------
(* Four questions: a partition of two or three of them, a ladder, and edges  *)
(* that pin a question in some combinations and not in others.               *)
EXTENDS ClusterOmega

Set(id, type, slots, exhaustive) ==
  [id |-> id, type |-> type, slots |-> slots, exhaustive |-> exhaustive]
Edge(type, from, to) == [type |-> type, from |-> from, to |-> to, deterministic |-> TRUE]
Graph(sets, edges) == [live |-> 1..4, sets |-> sets, edges |-> edges, serial |-> 3]

Pair == Set(2, "categorical", <<1, 2>>, TRUE)
Triple == Set(2, "categorical", <<1, 2, 3>>, TRUE)
Ladder == Set(1, "threshold_series", <<3, 4>>, FALSE)

\* Whoever of the pair wins, question 3 is true.
Favourites == {Edge("strict_implication", 1, 3), Edge("strict_implication", 2, 3)}

\* Each side of the pair excludes question 3.
Clash == {Edge("mutual_exclusion", 1, 3), Edge("mutual_exclusion", 2, 3)}

MCEdges ==
  Favourites \cup
  {Edge("mutual_exclusion", 1, 4), Edge("mutual_exclusion", 2, 4), Edge("equivalence", 2, 4),
   [Edge("mutual_exclusion", 1, 3) EXCEPT !.deterministic = FALSE]}

\* A pair and a ladder, a triple, a pair within the triple, a pair whose repair succeeds, and
\* constraints without a world.
MCDatabases ==
  {Graph({Pair, Ladder}, {}), Graph({Triple}, {}), Graph({[Pair EXCEPT !.id = 1], Triple}, {}),
   Graph({Pair}, Favourites), Graph({Pair, Ladder}, Favourites \cup Clash)}
MCFused == {{3, 4}}
MCBids == {{}, {1, 2}, {1, 4}}
=============================================================================
