----------------------------- MODULE ClusterOmega -----------------------------
(***************************************************************************)
(* The possible worlds (Omega) of each cluster of the constraint graph, and *)
(* what happens to them while the graph is loaded, reloaded and refreshed:  *)
(* graph/loader.ts, graph/intra-set-containment-belt.ts,                    *)
(* graph/cluster-builder.ts, graph/enum-cache.ts, solver/omega-constraints  *)
(* .ts, solver/state-enumerator.ts and the finalize and liveness functions  *)
(* of solve-core.ts.                                                        *)
(*                                                                         *)
(* The solver buys a basket that pays in every world of a cluster.  A world *)
(* that exists and is missing here is a loss sold as arbitrage; a world too *)
(* many only costs recall.  Two readings of the same sets and edges are     *)
(* kept: the enumerated states, and the facets of the default LP.           *)
(*                                                                         *)
(* One load is one action: it reads one snapshot, and nothing else touches  *)
(* what it builds.  What a reload does to the state of the event loop is in *)
(* SolverRuntime.                                                           *)
(***************************************************************************)
EXTENDS Naturals, Sequences, FiniteSets, Functions

CONSTANTS
  Questions,      \* ids of questions
  Databases,      \* persisted graphs to start from
  EdgePool,       \* edges the pipeline may add and remove
  Fused,          \* pairs of questions one of which implies the other by its slug
  Bids,           \* sets of questions that may be bid high at the same time
  MaxStates,      \* config.solver.maxStates
  FacetCap,       \* config.solver.facetClusterQuestionCap
  MaxEdits        \* bound: changes of the persisted graph

Kinds == {"strict_implication", "mutual_exclusion", "equivalence"}

\* A question has one place in a set (UNIQUE (set_id, question_id)).
Sets == {s \in [id : Nat, type : {"categorical", "threshold_series"},
                slots : Seq(Questions), exhaustive : BOOLEAN] : IsInjective(s.slots)}
Edges == [type : Kinds \cup {"near_equivalence"}, from : Questions, to : Questions,
          deterministic : BOOLEAN]
Pairs(S) == {{p[1], p[2]} : p \in {x \in S \X S : x[1] # x[2]}}

\* The tables; serial is the sequence that outcome_sets.id comes from.
Tables == [live : SUBSET Questions, sets : SUBSET Sets, edges : SUBSET Edges, serial : Nat]

ASSUME OmegaAssumption ==
  /\ Questions \subseteq Nat /\ IsFiniteSet(Questions)
  /\ Databases \subseteq Tables
  /\ \A d \in Databases :
       /\ IsFiniteSet(d.sets)
       /\ \A s \in d.sets : s.id < d.serial
       /\ \A s, t \in d.sets : s.id = t.id => s = t
  /\ EdgePool \subseteq Edges
  /\ Fused \subseteq Pairs(Questions)
  /\ Bids \subseteq SUBSET Questions
  /\ MaxStates \in Nat /\ FacetCap \in Nat /\ MaxEdits \in Nat

VARIABLES
  db,         \* what the pipeline has persisted
  edits,      \* bound: changes made so far
  graph,      \* loadedGraph
  clusters,   \* of each cluster's members: its sets, states and flags
  latch,      \* refutedSetIds and refutedPairs
  cache,      \* EnumCache, by structure key
  source,     \* history: the database as the last load read it
  freed       \* history: pairs made exclusive by a set that the bids refuted, and the
              \* serial of the tables it was read from

vars == <<db, edits, graph, clusters, latch, cache, source, freed>>

Slots(s) == Range(s.slots)

-----------------------------------------------------------------------------
(* What sets and edges say of a world w.                                   *)

\* edgeIsHard; a self-edge is skipped where edges are interpreted.
Hard(edges) == {e \in edges : e.deterministic /\ e.type \in Kinds /\ e.from # e.to}

SatisfiesEdges(w, edges) ==
  \A e \in Hard(edges) :
    /\ e.type = "strict_implication" => (w[e.from] => w[e.to])
    /\ e.type = "mutual_exclusion" => ~(w[e.from] /\ w[e.to])
    /\ e.type = "equivalence" => w[e.from] = w[e.to]

AtMostOne(w, s) == \A q, r \in Slots(s) : w[q] /\ w[r] => q = r

\* The first slot is the hardest rung: who clears it clears the next ones.
Chained(w, s) == \A i \in 1..Len(s.slots) - 1 : w[s.slots[i]] => w[s.slots[i + 1]]

\* An exhaustive set with an unquoted slot counts as not exhaustive; a lone categorical slot
\* says nothing.
Satisfies(w, s, unquoted) ==
  /\ s.type = "threshold_series" => Chained(w, s)
  /\ s.type = "categorical" /\ Len(s.slots) >= 2 =>
       /\ AtMostOne(w, s)
       /\ s.exhaustive /\ Slots(s) \cap unquoted = {} => \E q \in Slots(s) : w[q]

\* The 0/1 points of the facets of interpretCluster and constraintsToFacets.
FacetWorlds(C, sets, edges, unquoted) ==
  {w \in [C -> BOOLEAN] : /\ \A s \in sets : Satisfies(w, s, unquoted)
                          /\ SatisfiesEdges(w, edges)}

\* Reference: what the persisted graph allows, resolved questions included.
PersistedWorlds(d) == FacetWorlds(Questions, d.sets, d.edges, {})

-----------------------------------------------------------------------------
(* The enumerator.                                                         *)

\* A set whose slots are a group of states: a lone categorical slot is free.
Grouped(s) == s.type = "threshold_series" \/ Len(s.slots) >= 2

OneHotStates(s, exhaustive) ==
  {[q \in Slots(s) |-> q = r] : r \in Slots(s)}
    \cup (IF exhaustive THEN {} ELSE {[q \in Slots(s) |-> FALSE]})

ChainStates(s) ==
  {[q \in Slots(s) |-> \E i \in DOMAIN s.slots : s.slots[i] = q /\ i > Len(s.slots) - cutoff] :
     cutoff \in 0..Len(s.slots)}

GroupStates(s) ==
  IF s.type = "threshold_series" THEN ChainStates(s) ELSE OneHotStates(s, s.exhaustive)

Free(C, sets) == C \ UNION {Slots(s) : s \in {t \in sets : Grouped(t)}}

\* cartesianProduct over the groups in the order of their ids: of two sets that share
\* a slot the later one has the last word on it.
Product(C, sets) ==
  {w \in [C -> BOOLEAN] :
    \A s \in {t \in sets : Grouped(t)} :
      LET own == {q \in Slots(s) :
                    \A t \in sets : Grouped(t) /\ t.id > s.id => q \notin Slots(t)}
      IN \E x \in GroupStates(s) : \A q \in own : w[q] = x[q]}

\* projectedStateCount: the ways to take a state of each group and values for the rest.
ProjectedStateCount(C, sets) ==
  LET groups == {s \in sets : Grouped(s)}
      choices == {f \in [groups -> UNION {GroupStates(s) : s \in groups}] :
                    \A s \in groups : f[s] \in GroupStates(s)}
  IN Cardinality(choices \X SUBSET Free(C, sets))

\* enumerateStatesMeta: nothing at all once the projection exceeds the cap.
Dropped(C, sets) == ProjectedStateCount(C, sets) > MaxStates

Enumerate(C, sets, edges) ==
  IF Dropped(C, sets) THEN {} ELSE {w \in Product(C, sets) : SatisfiesEdges(w, edges)}

\* Questions with the same value in every state; none if there is no state.
Pinned(C, states) ==
  {q \in C : states # {} /\ \A v, w \in states : v[q] = w[q]}

\* checkOmegaCompleteness: the exhaustive sets at, or one hard edge from, a pinned question.
Offending(C, sets, edges, states) ==
  LET pinned == Pinned(C, states)
      suspect == pinned \cup {q \in C : \E e \in Hard(edges) :
                   \E r \in pinned : {q, r} = {e.from, e.to}}
  IN {s.id : s \in {t \in sets : /\ t.type = "categorical" /\ t.exhaustive
                                 /\ Grouped(t) /\ Slots(t) \cap suspect # {}}}

Demote(sets, ids) ==
  {[s EXCEPT !.exhaustive = @ /\ ~(s.type = "categorical" /\ s.id \in ids)] : s \in sets}

-----------------------------------------------------------------------------
(* Clusters: connected components over edges of any kind, shared sets and   *)
(* suspect pairs.                                                           *)

\* The connected components of the nodes under the given links: the smallest sets that
\* contain every link they meet.
Components(nodes, links) ==
  LET closed == {S \in SUBSET nodes :
                   \A l \in links : l \subseteq nodes /\ l \cap S # {} => l \subseteq S}
  IN {S \in closed : S # {} /\ \A T \in closed : S \cap T # {} => S \subseteq T}

Ends(e) == {e.from, e.to}

\* buildClusters: the members of each cluster.
Members(g) ==
  Components(g.questions,
             {Ends(e) : e \in g.edges} \cup g.suspects \cup {Slots(s) : s \in g.sets})

SetsIn(g, C) == {s \in g.sets : Slots(s) \cap C # {}}
EdgesIn(g, C) == {e \in g.edges : Ends(e) \subseteq C}

-----------------------------------------------------------------------------
(* The finalize step of one cluster.                                        *)

Cluster(sets, edges, states, degenerate, relaxed, demoted) ==
  [sets |-> sets, edges |-> edges, states |-> states, degenerate |-> degenerate,
   relaxed |-> relaxed, demoted |-> demoted, mask |-> {}]

\* Mutant: a cluster that cannot be repaired is served as it is.
ServedPinned(C, sets, edges) ==
  LET states == Enumerate(C, sets, edges)
      offending == Offending(C, sets, edges, states)
      repaired == Enumerate(C, Demote(sets, offending), edges)
      sound == offending # {} /\ repaired # {} /\ Pinned(C, repaired) = {}
  IN IF sound THEN Cluster(Demote(sets, offending), edges, repaired, FALSE, FALSE, offending)
     ELSE Cluster(sets, edges, states, FALSE, FALSE, {})

\* repairOmegaCompleteness and the pin gate: a question that has one value in every state
\* makes the exhaustive sets around it suspect.  They are demoted; if that does not give
\* the question its other value, the cluster is degenerate and never solved.
Repaired(C, sets, edges) ==
  LET states == Enumerate(C, sets, edges)
      offending == Offending(C, sets, edges, states)
      repaired == Enumerate(C, Demote(sets, offending), edges)
  IN IF Pinned(C, states) = {} THEN Cluster(sets, edges, states, FALSE, FALSE, {})
     ELSE IF offending # {} /\ repaired # {} /\ Pinned(C, repaired) = {}
     THEN Cluster(Demote(sets, offending), edges, repaired, FALSE, FALSE, offending)
     ELSE Cluster(sets, edges, states, TRUE, FALSE, {})

\* enumerateAndRouteCluster: a dropped cluster is left to the facets, unless it is too large
\* or HiGHS calls its facets infeasible.
Finalized(C, sets, edges, infeasible) ==
  IF Dropped(C, sets)
  THEN LET relaxed == Cardinality(C) <= FacetCap
       IN Cluster(sets, edges, {}, relaxed /\ C \in infeasible, relaxed, {})
  ELSE Repaired(C, sets, edges)

\* Mutant: a question on its own is no cluster.
FinalizeLinked(g, infeasible) ==
  [C \in {D \in Members(g) : Cardinality(D) > 1} |->
     Finalized(C, SetsIn(g, C), EdgesIn(g, C), infeasible)]

\* finalizeClusters.
FinalizeAll(g, infeasible) ==
  [C \in Members(g) |-> Finalized(C, SetsIn(g, C), EdgesIn(g, C), infeasible)]

\* HiGHS finds any world there is; where there is none it may still find a fractional point.
Infeasible(g) ==
  SUBSET {C \in Members(g) : FacetWorlds(C, SetsIn(g, C), EdgesIn(g, C), {}) = {}}

-----------------------------------------------------------------------------
(* Loading: what is live, and the belt with its latch.                      *)

\* Mutant: a set that lost a slot still claims that one of the others wins.
KeepSumOne(s, live) == s.exhaustive

\* filterOutcomeSetSlotsToLive: a partition minus a member is no partition.
StillExhaustive(s, live) == s.exhaustive /\ Slots(s) \subseteq live

\* slotQuestionIds.filter: the live slots, in their order.
LiveSlots(slots, live) ==
  LET kept[n \in 0..Len(slots)] ==
        IF n = 0 THEN << >>
        ELSE IF slots[n] \in live THEN Append(kept[n - 1], slots[n])
        ELSE kept[n - 1]
  IN kept[Len(slots)]

LiveSets(d) ==
  {[s EXCEPT !.slots = LiveSlots(@, d.live),
             !.exhaustive = StillExhaustive(s, d.live)] :
     s \in {t \in d.sets : Slots(t) \cap d.live # {}}}

LoadConstraintGraph(d) ==
  [questions |-> d.live, sets |-> LiveSets(d),
   edges |-> {e \in d.edges : Ends(e) \subseteq d.live}, suspects |-> {}]

Mutexes(g) == {e \in g.edges : e.type = "mutual_exclusion" /\ e.from # e.to}

\* applyIntraSetContainmentBelt: a categorical set, or a component of mutex edges, goes when
\* it holds a fused pair or (the bids of a mutex cannot add up to much more than 1) two
\* questions that are bid high.  Its pairs become suspects, which keep its questions together.
Belt(g, high) ==
  LET fused(S) == Pairs(S) \cap Fused
      overbid(S) == IF Pairs(S \cap high) # {} THEN Pairs(S) ELSE {}
      refuting(S) == IF fused(S) # {} THEN fused(S) ELSE overbid(S)
      out == {s \in g.sets : s.type = "categorical" /\ refuting(Slots(s)) # {}}
      cliques == {K \in Components(UNION {Ends(e) : e \in Mutexes(g)}, {Ends(e) : e \in Mutexes(g)}) :
                    refuting(K) # {}}
      pairs == UNION ({refuting(Slots(s)) : s \in out} \cup {fused(K) \cup overbid(K) : K \in cliques})
  IN [graph |-> [g EXCEPT !.sets = @ \ out,
                          !.edges = @ \ {e \in Mutexes(g) : \E K \in cliques : e.from \in K},
                          !.suspects = @ \cup pairs],
      refuted |-> [sets |-> out, pairs |-> pairs]]

\* Mutant: refutations are forgotten.
Unlatched(g, l) == g

\* applyContainmentLatch.
Latched(g, l) ==
  [g EXCEPT !.sets = {s \in @ : s.id \notin l.sets},
            !.edges = {e \in @ : e.type = "mutual_exclusion" => Ends(e) \notin l.pairs},
            !.suspects = @ \cup l.pairs]

\* latchBeltResult.
Latch(l, refuted) ==
  [sets |-> l.sets \cup {s.id : s \in refuted.sets}, pairs |-> l.pairs \cup refuted.pairs]

\* loadConstraintGraph with its own pass of the belt, which sees no prices, then the latch
\* and the belt with the bids of now.
LoadBelted(d, l, high) == Belt(Latched(Belt(LoadConstraintGraph(d), {}).graph, l), high)

-----------------------------------------------------------------------------
(* The enumeration cache of the incremental reload.                         *)

\* How often each content occurs.
Tally(content) == [x \in Range(content) |-> Cardinality({y \in DOMAIN content : content[y] = x})]

SetTally(sets) == Tally([s \in sets |-> <<s.type, s.exhaustive, s.slots>>])

\* Mutant: the edges are left out of the key.
KeyOfSets(C, sets, edges) == [members |-> C, sets |-> SetTally(sets)]

\* structureKey: content only, no ids.
StructureKey(C, sets, edges) ==
  [members |-> C, sets |-> SetTally(sets),
   edges |-> Tally([e \in Hard(edges) |->
     <<e.type, IF e.type = "strict_implication" THEN <<e.from, e.to>> ELSE Ends(e)>>])]

\* A hit: the states and flags of the entry, its demotion replayed by set id.
FromCache(entry, sets, edges) ==
  Cluster(Demote(sets, entry.demoted), edges, entry.states, entry.degenerate,
          entry.relaxed, entry.demoted)

\* finalizeClustersIncremental: a hit for every key the cache has, and afterwards an entry
\* for exactly the clusters of this graph.
Incremental(g, infeasible) ==
  [C \in Members(g) |->
     LET sets == SetsIn(g, C)
         edges == EdgesIn(g, C)
         key == StructureKey(C, sets, edges)
     IN IF key \in DOMAIN cache THEN FromCache(cache[key], sets, edges)
        ELSE Finalized(C, sets, edges, infeasible)]

KeysOf(g) == {StructureKey(C, SetsIn(g, C), EdgesIn(g, C)) : C \in Members(g)}

Entries(g, served) ==
  [key \in KeysOf(g) |->
     IF key \in DOMAIN cache THEN cache[key]
     ELSE [x \in {"states", "degenerate", "relaxed", "demoted"} |-> served[key.members][x]]]

-----------------------------------------------------------------------------
(* The pipeline and the venues.                                             *)

Edit(d) ==
  /\ edits < MaxEdits
  /\ db' = d
  /\ edits' = edits + 1
  /\ UNCHANGED <<graph, clusters, latch, cache, source, freed>>

\* A market resolves or ends: its question is no longer live.
Resolve(q) == q \in db.live /\ Edit([db EXCEPT !.live = @ \ {q}])

\* The pipeline finds an edge, or archives it.
ToggleEdge(e) ==
  Edit([db EXCEPT !.edges = IF e \in @ THEN @ \ {e} ELSE @ \cup {e}])

\* The pipeline certifies a set as exhaustive, or takes it back.
Recertify(s) ==
  /\ s.type = "categorical"
  /\ Edit([db EXCEPT !.sets = (@ \ {s}) \cup {[s EXCEPT !.exhaustive = ~@]}])

\* The pipeline deletes a set and inserts one with the same slots.
Recreate(s) ==
  Edit([db EXCEPT !.sets = (@ \ {s}) \cup {[s EXCEPT !.id = db.serial]},
                  !.serial = @ + 1])

-----------------------------------------------------------------------------
(* The solver.                                                              *)

\* loadClusterGraph at start, before there are any prices.
Init ==
  /\ db \in Databases
  /\ edits = 0
  /\ latch = [sets |-> {}, pairs |-> {}]
  /\ graph = LoadBelted(db, latch, {}).graph
  /\ \E infeasible \in Infeasible(graph) : clusters = FinalizeAll(graph, infeasible)
  /\ cache = [key \in {} |-> 0]
  /\ source = db
  /\ freed = {}

\* The pairs that these sets make exclusive, as the tables d were read.
ExclusivePairs(sets, d) ==
  [pair : UNION {Pairs(Slots(s)) : s \in sets}, serial : {d.serial}]

\* loadClusterGraphIncremental, with the bids of the moment.
Reload(high) ==
  LET loaded == LoadBelted(db, latch, high)
  IN /\ graph' = loaded.graph
     /\ latch' = Latch(latch, loaded.refuted)
     /\ \E infeasible \in Infeasible(loaded.graph) :
          /\ clusters' = Incremental(loaded.graph, infeasible)
          /\ cache' = Entries(loaded.graph, clusters')
     /\ source' = db
     /\ freed' = freed \cup ExclusivePairs(loaded.refuted.sets, db)
     /\ UNCHANGED <<db, edits>>

\* refreshPriceBelt: the graph in memory, rebuilt if the belt or the latch took anything.
RefreshPriceBelt(high) ==
  LET belted == Belt(Latched(graph, latch), high)
  IN /\ <<belted.graph.sets, belted.graph.edges>> # <<graph.sets, graph.edges>>
     /\ graph' = belted.graph
     /\ latch' = Latch(latch, belted.refuted)
     /\ \E infeasible \in Infeasible(belted.graph) : clusters' = FinalizeAll(belted.graph, infeasible)
     /\ freed' = freed \cup ExclusivePairs(belted.refuted.sets, source)
     /\ UNCHANGED <<db, edits, cache, source>>

\* applyLivenessDemotion, when a cluster that may be solved is prepared: on a change of the
\* mask its states are enumerated again, from its sets as they are.
Prepare(C, unquoted) ==
  LET k == clusters[C]
      mask == {s.id : s \in {t \in k.sets : /\ t.type = "categorical" /\ t.exhaustive
                                            /\ Slots(t) \cap unquoted # {}}}
  IN /\ ~k.degenerate /\ ~k.relaxed
     /\ mask # k.mask
     /\ clusters' = [clusters EXCEPT ![C].mask = mask,
                                     ![C].states = Enumerate(C, Demote(k.sets, mask), k.edges)]
     /\ UNCHANGED <<db, edits, graph, latch, cache, source, freed>>

Next ==
  \/ \E q \in Questions : Resolve(q)
  \/ \E e \in EdgePool : ToggleEdge(e)
  \/ \E s \in db.sets : Recertify(s) \/ Recreate(s)
  \/ \E high \in Bids : Reload(high) \/ RefreshPriceBelt(high)
  \/ \E C \in DOMAIN clusters : \E unquoted \in SUBSET C : Prepare(C, unquoted)

Spec == Init /\ [][Next]_vars

-----------------------------------------------------------------------------
(* Properties.                                                              *)

\* Every cluster's states are assignments to its members, the clusters partition the loaded
\* questions, and the cache holds states of the clusters its keys name.
TypeOK ==
  /\ db \in Tables
  /\ edits \in 0..MaxEdits
  /\ UNION DOMAIN clusters = graph.questions
  /\ \A C, D \in DOMAIN clusters : C \cap D # {} => C = D
  /\ \A C \in DOMAIN clusters :
       /\ clusters[C].states \subseteq [C -> BOOLEAN]
       /\ {clusters[C].degenerate, clusters[C].relaxed} \subseteq BOOLEAN
       /\ clusters[C].mask \subseteq {s.id : s \in clusters[C].sets}
  /\ \A key \in DOMAIN cache : cache[key].states \subseteq [key.members -> BOOLEAN]
  /\ latch.pairs \subseteq Pairs(Questions)

\* The worlds the LP of a cluster ranges over, in either engine.
Readings(C, unquoted) ==
  {FacetWorlds(C, clusters[C].sets, clusters[C].edges, unquoted)}
    \cup (IF clusters[C].states = {} THEN {} ELSE {clusters[C].states})

\* Nothing between the database and the LP takes a world away: not the liveness filter, the
\* belt, the latch, the split into clusters, the cap, a repair, a cache hit or the demotion of
\* unquoted sets.  What the persisted graph allowed when it was read is a world of every
\* cluster, so a basket that pays in all of them pays.
NoWorldLost ==
  \A C \in DOMAIN clusters : \A omega \in Readings(C, {}) :
    {[q \in C |-> w[q]] : w \in PersistedWorlds(source)} \subseteq omega

Disjoint(sets) == \A s, t \in sets : Slots(s) \cap Slots(t) # {} => s = t

\* What the code takes for granted of a cluster: its sets share no slot, its constraints
\* have a world, and a demotion served from the cache names the sets that are there.
Regular(C) ==
  LET k == clusters[C]
  IN /\ Disjoint(k.sets)
     /\ FacetWorlds(C, k.sets, k.edges, {}) # {}
     /\ k.demoted \subseteq {s.id : s \in k.sets}

\* A regular cluster that may be solved, and is enumerated, shows every question with both
\* values, whatever is unquoted: otherwise one side of a market would pay for sure, whatever
\* the price.  (Of a dropped cluster the code only asks whether its facets are feasible.)
BothValues ==
  \A C \in DOMAIN clusters :
    Regular(C) /\ ~clusters[C].degenerate /\ ~Dropped(C, clusters[C].sets) =>
      \A unquoted \in SUBSET C : \A omega \in Readings(C, unquoted) : Pinned(C, omega) = {}

\* The states and the facets of a regular cluster describe the same worlds, after cache hits,
\* repairs, belts and changes of the mask.
SameReading ==
  \A C \in DOMAIN clusters :
    LET k == clusters[C]
    IN Regular(C) /\ k.states # {} =>
         k.states = FacetWorlds(C, Demote(k.sets, k.mask), k.edges, {})

\* What the bids have refuted is not believed again when the books have gone quiet: as long
\* as sets share no slot, a loaded set that was there when a pair was freed does not make
\* it exclusive, whatever resolved or was certified in the meantime.
RefutedStaysOut ==
  Disjoint(source.sets) =>
    \A s \in graph.sets, f \in freed :
      s.type = "categorical" /\ s.id < f.serial => ~(f.pair \subseteq Slots(s))
=============================================================================
