---------------------------- MODULE SolverRuntime ----------------------------
(***************************************************************************)
(* The event loop of the arb-solver daemon: services/arb-solver/src/       *)
(* index.ts with the cluster preparation of solve-core.ts.                 *)
(*                                                                         *)
(* A component is a connected component of the constraint graph: a set of  *)
(* questions with their markets.  buildClusters numbers the components     *)
(* from 0 each time it runs, so a cluster id means a component only under  *)
(* the graph now served.  The id-keyed maps (fingerprints, dual            *)
(* certificates, liveness masks) are right only while they were filled     *)
(* under that same graph; gen and cacheGen are history variables that say  *)
(* which graph is served and which one the maps were last cleared for.     *)
(*                                                                         *)
(* Node runs one callback at a time.  Every action below is one such turn: *)
(* the code between two awaits that really wait (a timer, the database, a  *)
(* worker thread).  In phase "run" and "apply" solveDirty goes on before    *)
(* any other callback: between two steps of its loop, or after an await    *)
(* that resolves in a microtask.  "yielded" is the setImmediate of the     *)
(* loop, taken every yieldEvery clusters, here after any number of them.   *)
(*                                                                         *)
(* The LP itself is abstract: which book versions admit an arbitrage is a  *)
(* constant, and what the audit then says of a portfolio is chosen freely. *)
(***************************************************************************)
EXTENDS Integers, Sequences, FiniteSets

CONSTANTS
  Comps,        \* components of the constraint graph
  Graphs,       \* numberings loadGraph can produce: functions id -> component
  Versions,     \* distinct top-of-book contents of a component
  ArbVersions,  \* the contents at which the component's LP has an arbitrage
  Venues,       \* (first leg platform, last leg platform) pairs
  VenuesOf,     \* the venue pair of the basket found at each content
  WorkerPool,   \* config.solver.workerPool: batch solve on worker threads
  Graded,       \* config.execution.gradedResidualChannel
  MaxUpdates,   \* bound: price updates
  MaxLosses,    \* bound: quotes lost to staleness or age, or returning from it
  MaxRebuilds,  \* bound: graph reloads and belt rebuilds together
  MaxFaults     \* bound: database errors

Ids == UNION {DOMAIN g : g \in Graphs}

ASSUME RuntimeAssumption ==
  /\ \A g \in Graphs : g \in [DOMAIN g -> Comps]
  /\ \A g \in Graphs : \A i, j \in DOMAIN g : g[i] = g[j] => i = j
  /\ Versions # {} /\ ArbVersions \subseteq Versions
  /\ VenuesOf \in [Versions -> Venues]
  /\ WorkerPool \in BOOLEAN
  /\ Graded \in BOOLEAN
  /\ {MaxUpdates, MaxLosses, MaxRebuilds, MaxFaults} \subseteq Nat

VARIABLES
  graph,        \* clusterById: the component each cluster id stands for
  gen,          \* history: how many graphs have been served
  cacheGen,     \* history: gen when the id-keyed maps were last cleared
  book,         \* priceCache, per component: content and how much is quoted
  late,         \* components with a quote that aged since the running tick began
  dirty,        \* dirtySet
  timer,        \* solveTimer # null
  solving,      \* the solving flag
  phase,        \* where the running solveDirty stands
  queue,        \* the part of toSolve not yet visited
  built,        \* LPs prepared and not yet processed
  masks,        \* livenessMasks: ids whose recorded mask demotes a set
  demoted,      \* ids whose Cluster.validStates were enumerated demoted
  lastSolve,    \* lastSolveFingerprint, with the LP it was recorded for
  certs,        \* dualCerts: the structure a stored certificate is for
  activeArbs,   \* keys of activeArbs
  rows,         \* arbitrage_opportunities of arb_type lp_solver
  gradedRows,   \* ids with a current lp_solver_graded row
  reload,       \* where the running reloadGraph stands
  solveError,   \* history: "Solve error" has been logged
  reloadError,  \* history: "graph reload FAILED" has been logged
  unseen,       \* history: components changed since a prepare last saw them
  used          \* steps used of each bound

graphVars  == <<graph, gen, cacheGen>>
books      == <<book, late>>
idVars     == <<masks, demoted, lastSolve, certs>>
solveVars  == <<solving, phase, queue, built>>
resultVars == <<activeArbs, rows, gradedRows>>
histVars   == <<solveError, reloadError, unseen, used>>
vars == <<graphVars, books, dirty, timer, solveVars, idVars, resultVars, reload, histVars>>

-----------------------------------------------------------------------------
(* full: every slot of the exhaustive sets is quoted.  aged: a slot is      *)
(* unquoted because its quote outlived the TTL.  partial: a slot is         *)
(* unquoted because its quote was marked stale or never came.  dark: fewer  *)
(* questions are quoted than quotedFractionSolveFloor asks for.             *)
Levels == {"full", "aged", "partial", "dark"}

None == [none |-> TRUE]

LP == [id : Ids, comp : Comps, gen : Nat, ver : Versions, level : Levels,
       late : BOOLEAN, demoted : BOOLEAN]

\* The part of an LP that structKey reads: its columns and state rows.
Structure(lp) == <<lp.comp, lp.gen, lp.late, lp.demoted>>

\* The part of an LP's inputs that clusterFingerprint reads, at the tick's time.
Fingerprint(lp) == <<lp.comp, lp.ver, lp.level>>

\* How much of a book is quoted by the clock of the running tick: solveDirty
\* takes the time once, for quoted fraction, mask and fingerprint.
Seen(c) == IF c \in late THEN "full" ELSE book[c].level

\* What buildForEngine would make of cluster i if its states are enumerated as
\* d says.  buildLegVariables reads the cache at its own time: a quote that is
\* late has no leg in the LP, though the tick counts it as quoted.
LpOf(i, d) ==
  [id |-> i, comp |-> graph[i], gen |-> gen, ver |-> book[graph[i]].ver,
   level |-> Seen(graph[i]), late |-> graph[i] \in late, demoted |-> d]

\* LPs that may have no arbitrage: the content has none, a demoted state space
\* has more states to hold in, or a late quote took a leg away.
MayLackArb(lp) == lp.ver \notin ArbVersions \/ lp.demoted \/ lp.late

ServedComps == {graph[i] : i \in DOMAIN graph}

\* Another callback may run now.
EventLoopFree == phase \notin {"run", "apply"}

Spend(what) == used' = [used EXCEPT ![what] = @ + 1]
Left(what, max) == used[what] < max

Init ==
  /\ graph \in Graphs
  /\ gen = 0 /\ cacheGen = 0
  /\ book = [c \in Comps |-> [ver |-> CHOOSE v \in Versions : TRUE, level |-> "dark"]]
  /\ late = {}
  /\ dirty = {} /\ timer = FALSE
  /\ solving = FALSE /\ phase = "idle" /\ queue = {} /\ built = <<>>
  /\ masks = {} /\ demoted = {}
  /\ lastSolve = [i \in Ids |-> None] /\ certs = [i \in Ids |-> None]
  /\ activeArbs = {} /\ rows = [k \in Ids \X Venues |-> "absent"] /\ gradedRows = {}
  /\ reload = "none"
  /\ solveError = FALSE /\ reloadError = FALSE /\ unseen = {}
  /\ used = [update |-> 0, loss |-> 0, rebuild |-> 0, fault |-> 0]

-----------------------------------------------------------------------------
(* Callbacks of the price feed.                                             *)

\* Mutant: scheduleSolve without its early return.
ScheduleUnguarded == timer' = TRUE

\* scheduleSolve: nothing while a solve runs, else (re)arm the debounce timer.
ScheduleSolve == timer' = (timer \/ ~solving)

\* onPriceUpdate with a content that priceCache.update reports as changed.
PriceUpdate(c, v, lv) ==
  /\ EventLoopFree
  /\ Left("update", MaxUpdates)
  /\ lv = "aged" => book[c].level = "aged"
  /\ book[c] # [ver |-> v, level |-> lv]
  /\ book' = [book EXCEPT ![c] = [ver |-> v, level |-> lv]]
  /\ late' = IF lv = "aged" THEN late ELSE late \ {c}
  /\ \/ /\ c \in ServedComps
        /\ dirty' = dirty \cup {i \in DOMAIN graph : graph[i] = c}
        /\ unseen' = unseen \cup {c}
        /\ ScheduleSolve
     \/ /\ c \notin ServedComps
        /\ UNCHANGED <<dirty, unseen, timer>>
  /\ Spend("update")
  /\ UNCHANGED <<graphVars, solveVars, idVars, resultVars, reload, solveError, reloadError>>

\* markStaleByIds (disconnect, resolution, resolution poll): quotes go, and
\* no cluster becomes dirty.
QuoteStale(c, lv) ==
  /\ EventLoopFree
  /\ Left("loss", MaxLosses)
  /\ \/ book[c].level \in {"full", "aged"} /\ lv \in {"partial", "dark"}
     \/ book[c].level = "partial" /\ lv = "dark"
  /\ book' = [book EXCEPT ![c].level = lv]
  /\ late' = late \ {c}
  /\ Spend("loss")
  /\ UNCHANGED <<graphVars, dirty, timer, solveVars, idVars, resultVars, reload,
                 solveError, reloadError, unseen>>

\* A quote passes the TTL that PriceCache.read applies.  This is no callback:
\* time goes on while solveDirty runs, and what ages in a tick is late for it.
\* Only the first quote a component loses is told apart.
QuoteAge(c) ==
  /\ Left("loss", MaxLosses)
  /\ book[c].level = "full"
  /\ book' = [book EXCEPT ![c].level = "aged"]
  /\ late' = IF solving THEN late \cup {c} ELSE late
  /\ Spend("loss")
  /\ UNCHANGED <<graphVars, dirty, timer, solveVars, idVars, resultVars, reload,
                 solveError, reloadError, unseen>>

\* A feed pushes an aged book again, unchanged: priceCache.update refreshes
\* lastUpdate and returns false, so the handler returns before dirtySet.add.
QuoteRefresh(c) ==
  /\ EventLoopFree
  /\ Left("loss", MaxLosses)
  /\ book[c].level = "aged"
  /\ book' = [book EXCEPT ![c].level = "full"]
  /\ late' = late \ {c}
  /\ Spend("loss")
  /\ UNCHANGED <<graphVars, dirty, timer, solveVars, idVars, resultVars, reload,
                 solveError, reloadError, unseen>>

-----------------------------------------------------------------------------
(* solveDirty.                                                              *)

\* The debounce timer fires.  The callback does not test solving.
TimerFires ==
  /\ EventLoopFree
  /\ timer
  /\ timer' = FALSE
  /\ \/ /\ dirty = {}
        /\ UNCHANGED <<dirty, solveVars>>
     \/ /\ dirty # {}
        /\ solving' = TRUE /\ phase' = "run" /\ queue' = dirty /\ built' = <<>>
        /\ dirty' = {}
  /\ UNCHANGED <<graphVars, books, idVars, resultVars, reload, histVars>>

\* A prepared LP goes to the batch, or is solved at once in the serial path.
Enqueue(lp) ==
  /\ built' = Append(built, lp)
  /\ phase' \in IF WorkerPool THEN {"run", "yielded"} ELSE {"apply"}

\* prepareClusterForSolve finds too few quotes and leaves every map alone.
SkipDark(i) ==
  /\ Seen(graph[i]) = "dark"
  /\ UNCHANGED <<idVars, built, phase, activeArbs>>

\* prepareClusterForSolve: demote or restore the states on a mask change,
\* dedup on the fingerprint, then build the LP or skip it on a certificate.
\* Late quotes may leave no leg to build an LP of.  A certificate skips only an
\* LP that has no arbitrage (skip-filter.ts).
PrepareQuoted(i) ==
  LET quoted == Seen(graph[i]) = "full"
      mask   == ~quoted
      moved  == ~(mask <=> i \in masks)
      states == (moved /\ mask) \/ (~moved /\ i \in demoted)
      lp     == LpOf(i, states)
      fresh  == IF moved THEN None ELSE lastSolve[i]
      cert   == IF moved THEN None ELSE certs[i]
      seen   == fresh # None /\ Fingerprint(fresh) = Fingerprint(lp)
  IN /\ Seen(graph[i]) # "dark"
     /\ masks' = IF mask THEN masks \cup {i} ELSE masks \ {i}
     /\ demoted' = IF states THEN demoted \cup {i} ELSE demoted \ {i}
     /\ certs' = [certs EXCEPT ![i] = cert]
     /\ \/ /\ seen
           /\ lastSolve' = [lastSolve EXCEPT ![i] = fresh]
           /\ UNCHANGED <<built, phase, activeArbs>>
        \/ /\ ~seen
           /\ lastSolve' = [lastSolve EXCEPT ![i] = lp]
           /\ \/ /\ Enqueue(lp)
                 /\ UNCHANGED activeArbs
              \/ /\ lp.late
                 /\ UNCHANGED <<built, phase, activeArbs>>
              \/ /\ cert # None /\ cert.struct = Structure(lp)
                 /\ MayLackArb(lp)
                 /\ activeArbs' = activeArbs \ {i}
                 /\ UNCHANGED <<built, phase>>

\* One turn of the loop over toSolve.  The id is looked up in the graph
\* served now, which is not always the graph it was made dirty under.
Prepare(i) ==
  /\ phase = "run"
  /\ i \in queue
  /\ queue' = queue \ {i}
  /\ \/ /\ i \notin DOMAIN graph
        /\ UNCHANGED <<idVars, built, phase, activeArbs, unseen>>
     \/ /\ i \in DOMAIN graph
        /\ unseen' = unseen \ {graph[i]}
        /\ SkipDark(i) \/ PrepareQuoted(i)
  /\ UNCHANGED <<graphVars, books, dirty, timer, solving, rows, gradedRows, reload,
                 solveError, reloadError, used>>

\* setImmediate hands the turn back to the loop over toSolve.
Resume ==
  /\ phase = "yielded"
  /\ phase' = "run"
  /\ UNCHANGED <<graphVars, books, dirty, timer, solving, queue, built, idVars,
                 resultVars, reload, histVars>>

\* Every LP of the tick is built; the pool takes the batch.
SubmitBatch ==
  /\ phase = "run" /\ queue = {} /\ built # <<>> /\ WorkerPool
  /\ phase' = "batch"
  /\ UNCHANGED <<graphVars, books, dirty, timer, solving, queue, built, idVars,
                 resultVars, reload, histVars>>

\* solverPool.solveBatch resolves.
BatchSettles ==
  /\ phase = "batch"
  /\ phase' = "apply"
  /\ UNCHANGED <<graphVars, books, dirty, timer, solving, queue, built, idVars,
                 resultVars, reload, histVars>>

\* Mutant: finally only clears the flag.
NoRearm == timer' = timer

\* The finally block, its flag cleared: scheduleSolve if something is dirty.
Rearm == timer' = (timer \/ dirty # {})

\* Drop the LP just handled and go on with the tick.
NextResult ==
  /\ built' = Tail(built)
  /\ phase' \in IF Tail(built) # <<>> THEN {"apply"}
               ELSE IF WorkerPool THEN {"run"} ELSE {"run", "yielded"}

Certificate(lp) == [struct |-> Structure(lp)]

\* refreshCert, then processResult up to its first await.  A solver error is
\* handled as "no arbitrage" and leaves no certificate.
ApplyResult ==
  LET lp == Head(built) IN
  /\ phase = "apply"
  /\ \/ /\ lp.ver \in ArbVersions
        /\ certs' = [certs EXCEPT ![lp.id] = Certificate(lp)]
        /\ activeArbs' = activeArbs \cup {lp.id}
        /\ phase' = "persist"
        /\ UNCHANGED built
     \/ /\ lp.ver \in ArbVersions                 \* grade blocked, or a tripwire
        /\ certs' = [certs EXCEPT ![lp.id] = Certificate(lp)]
        /\ activeArbs' = activeArbs \ {lp.id}
        /\ NextResult
     \/ /\ \/ /\ MayLackArb(lp)
              /\ certs' = [certs EXCEPT ![lp.id] = Certificate(lp)]
           \/ certs' = [certs EXCEPT ![lp.id] = None]
        /\ activeArbs' = activeArbs \ {lp.id}
        /\ \/ NextResult
           \/ /\ Graded
              /\ phase' = "graded"
              /\ UNCHANGED built
  /\ UNCHANGED <<graphVars, books, dirty, timer, solving, queue, masks, demoted,
                 lastSolve, rows, gradedRows, reload, histVars>>

\* solveDirty rejects: the rest of the tick is dropped, the error is logged,
\* and finally clears the flag and re-arms the timer if something is dirty.
\* The time of the tick is gone with it.
SolveRejects ==
  /\ solving' = FALSE /\ phase' = "idle" /\ queue' = {} /\ built' = <<>>
  /\ late' = {}
  /\ Rearm
  /\ solveError' = TRUE

\* persistOpportunity: a plain INSERT, which the unique key on
\* (arb_type, antecedent_platform, consequent_platform, strategy) may refuse.
PersistSettles ==
  LET lp == Head(built)
      key == <<lp.id, VenuesOf[lp.ver]>> IN
  /\ phase = "persist"
  /\ \/ /\ rows[key] = "absent"
        /\ rows' = [rows EXCEPT ![key] = "current"]
        /\ NextResult
        /\ UNCHANGED <<late, timer, solving, queue, solveError>>
     \/ /\ rows[key] # "absent"
        /\ SolveRejects
        /\ UNCHANGED rows
  /\ UNCHANGED <<graphVars, book, dirty, idVars, activeArbs, gradedRows, reload,
                 reloadError, unseen, used>>

\* persistGradedResidual: INSERT ... ON CONFLICT DO UPDATE.
GradedSettles ==
  /\ phase = "graded"
  /\ gradedRows' = gradedRows \cup {Head(built).id}
  /\ NextResult
  /\ UNCHANGED <<graphVars, books, dirty, timer, solving, queue, idVars, activeArbs,
                 rows, reload, histVars>>

\* The database refuses a write of the running tick.
PersistFails ==
  /\ phase \in {"persist", "graded"}
  /\ Left("fault", MaxFaults)
  /\ SolveRejects
  /\ Spend("fault")
  /\ UNCHANGED <<graphVars, book, dirty, idVars, resultVars, reload, reloadError, unseen>>

\* solveDirty returns, and finally runs.
SolveDone ==
  /\ phase = "run" /\ queue = {} /\ built = <<>>
  /\ solving' = FALSE /\ phase' = "idle"
  /\ late' = {}
  /\ Rearm
  /\ UNCHANGED <<graphVars, book, dirty, queue, built, idVars, resultVars, reload, histVars>>

-----------------------------------------------------------------------------
(* The graph.                                                               *)

\* Mutants of the next definition: a map survives the renumbering, nothing is
\* made dirty, or the wrong key is.
KeepMasks(g) ==
  /\ lastSolve' = [i \in Ids |-> None]
  /\ certs' = [i \in Ids |-> None]
  /\ dirty' = dirty \cup DOMAIN g
  /\ UNCHANGED masks
KeepFingerprints(g) ==
  /\ certs' = [i \in Ids |-> None]
  /\ masks' = {}
  /\ dirty' = dirty \cup DOMAIN g
  /\ UNCHANGED lastSolve
DirtyNothing(g) ==
  /\ lastSolve' = [i \in Ids |-> None]
  /\ certs' = [i \in Ids |-> None]
  /\ masks' = {}
  /\ UNCHANGED dirty
DirtyComponents(g) ==
  /\ lastSolve' = [i \in Ids |-> None]
  /\ certs' = [i \in Ids |-> None]
  /\ masks' = {}
  /\ dirty' = dirty \cup {g[i] : i \in DOMAIN g}

\* Every id-keyed map is dropped and every cluster made dirty.
ClearAndDirtyAll(g) ==
  /\ lastSolve' = [i \in Ids |-> None]
  /\ certs' = [i \in Ids |-> None]
  /\ masks' = {}
  /\ dirty' = dirty \cup DOMAIN g

\* The 120 s belt refresh frees a set or drops an edge: the same questions
\* are regrouped, all in one callback.
BeltRebuild(g) ==
  /\ EventLoopFree
  /\ ~solving
  /\ Left("rebuild", MaxRebuilds)
  /\ {g[i] : i \in DOMAIN g} = ServedComps
  /\ graph' = g
  /\ gen' = gen + 1 /\ cacheGen' = gen + 1
  /\ demoted' = {}
  /\ ClearAndDirtyAll(g)
  /\ timer' = (timer \/ dirty' # {})
  /\ Spend("rebuild")
  /\ UNCHANGED <<books, solveVars, resultVars, reload, solveError, reloadError, unseen>>

\* reloadGraph, up to the swap of clusters in loadGraph.  The 60 s poller waits
\* for nothing; two reloads that overlap are not modelled.
ReloadSwap(g) ==
  /\ EventLoopFree
  /\ reload = "none"
  /\ Left("rebuild", MaxRebuilds)
  /\ graph' = g
  /\ gen' = gen + 1
  /\ demoted' = {}
  /\ reload' = "loaded"
  /\ Spend("rebuild")
  /\ UNCHANGED <<cacheGen, books, dirty, timer, solveVars, masks, lastSolve, certs,
                 resultVars, solveError, reloadError, unseen>>

\* getMarketsToTrack answers: track and evict, then updateSubscriptions.
ReloadTrack ==
  /\ EventLoopFree
  /\ reload = "loaded"
  /\ book' = [c \in Comps |->
                IF c \in ServedComps THEN book[c] ELSE [book[c] EXCEPT !.level = "dark"]]
  /\ late' = late \cap ServedComps
  /\ unseen' = unseen \cap ServedComps
  /\ reload' = "tracked"
  /\ UNCHANGED <<graphVars, dirty, timer, solveVars, idVars, resultVars,
                 solveError, reloadError, used>>

\* expireStaleOpportunities(ids of the clusters served now).
ReloadExpire ==
  /\ EventLoopFree
  /\ reload = "tracked"
  /\ rows' = [k \in Ids \X Venues |->
                IF rows[k] = "current" /\ k[1] \notin DOMAIN graph THEN "expired" ELSE rows[k]]
  /\ gradedRows' = gradedRows \cap DOMAIN graph
  /\ reload' = "expired"
  /\ UNCHANGED <<graphVars, books, dirty, timer, solveVars, idVars, activeArbs, histVars>>

\* publishGraphReloaded has returned: the id-keyed maps are dropped at last.
ReloadFinish ==
  /\ EventLoopFree
  /\ reload = "expired"
  /\ cacheGen' = gen
  /\ ClearAndDirtyAll(graph)
  /\ timer' = (timer \/ (dirty' # {} /\ ~solving))
  /\ reload' = "none"
  /\ UNCHANGED <<graph, gen, books, solveVars, demoted, resultVars, histVars>>

\* updateSubscriptions or the UPDATE rejects: the poller logs it.  The other
\* awaits after the swap catch their errors.
ReloadFails ==
  /\ EventLoopFree
  /\ reload = "tracked"
  /\ Left("fault", MaxFaults)
  /\ reload' = "none"
  /\ reloadError' = TRUE
  /\ Spend("fault")
  /\ UNCHANGED <<graphVars, books, dirty, timer, solveVars, idVars, resultVars,
                 solveError, unseen>>

-----------------------------------------------------------------------------
FeedStep ==
  \E c \in Comps :
    \/ \E v \in Versions, lv \in Levels : PriceUpdate(c, v, lv)
    \/ \E lv \in Levels : QuoteStale(c, lv)
    \/ QuoteAge(c)
    \/ QuoteRefresh(c)

SolveStep ==
  \/ TimerFires
  \/ \E i \in Ids : Prepare(i)
  \/ Resume \/ SubmitBatch \/ BatchSettles \/ ApplyResult
  \/ PersistSettles \/ GradedSettles \/ SolveDone

ReloadStep == ReloadTrack \/ ReloadExpire \/ ReloadFinish

Next ==
  \/ FeedStep
  \/ SolveStep
  \/ PersistFails
  \/ \E g \in Graphs : BeltRebuild(g) \/ ReloadSwap(g)
  \/ ReloadStep
  \/ ReloadFails

Spec == Init /\ [][Next]_vars

\* Timers fire, worker threads answer and the database answers or refuses.
\* Nothing is assumed of the feed: it may stop at any time.
FairSpec == Spec /\ WF_vars(SolveStep) /\ WF_vars(ReloadStep)

-----------------------------------------------------------------------------
Phases == {"idle", "run", "yielded", "batch", "apply", "persist", "graded"}

\* Type invariant: the values the state of index.ts can take.
TypeOK ==
  /\ graph \in Graphs /\ gen \in Nat /\ cacheGen \in 0..gen
  /\ book \in [Comps -> [ver : Versions, level : Levels]] /\ late \subseteq Comps
  /\ dirty \subseteq Ids /\ timer \in BOOLEAN /\ solving \in BOOLEAN
  /\ phase \in Phases /\ queue \subseteq Ids /\ built \in Seq(LP)
  /\ masks \subseteq Ids /\ demoted \subseteq Ids
  /\ lastSolve \in [Ids -> LP \cup {None}]
  /\ certs \in [Ids -> [struct : Comps \X Nat \X BOOLEAN \X BOOLEAN] \cup {None}]
  /\ activeArbs \subseteq Ids
  /\ rows \in [Ids \X Venues -> {"absent", "current", "expired"}]
  /\ gradedRows \subseteq Ids
  /\ reload \in {"none", "loaded", "tracked", "expired"}
  /\ solveError \in BOOLEAN /\ reloadError \in BOOLEAN /\ unseen \subseteq Comps
  /\ used \in [{"update", "loss", "rebuild", "fault"} -> Nat]

\* A cluster left in dirtySet is never forgotten: either the debounce timer is
\* armed or a solve is running whose finally block will re-arm it.
\* scheduleSolve returns early while solving, so this rests on the order of
\* the flag, the clear of dirtySet and the finally block.
NoLostWakeup == dirty # {} => timer \/ solving

\* solveDirty never runs twice at once: the timer callback does not test
\* solving, so the timer must not be armed while a solve runs.
OneDrain ==
  /\ ~(timer /\ solving)
  /\ solving <=> phase # "idle"
  /\ ~solving => queue = {} /\ built = <<>>

\* A component whose books changed since a prepare last looked at it is still
\* waiting in dirtySet or in the running tick, under the id it has in the
\* graph served now, or a reload is under way that will make it dirty.  Only
\* a logged "Solve error" or "graph reload FAILED" breaks this.
UpdatesCovered ==
  ~solveError /\ ~reloadError /\ reload = "none" =>
    \A c \in unseen : \E i \in (dirty \cup queue) \cap DOMAIN graph : graph[i] = c

\* The maps were filled under the graph served now.
MapsCurrent == cacheGen = gen

\* A recorded liveness mask is never ahead of the states it stands for: were a
\* mask kept over a swap of clusters, the next tick would see no transition and
\* solve the full state space of a set that has an unquoted slot.
MasksMatchStates == MapsCurrent => masks \subseteq demoted

\* Whether prepareClusterForSolve would see a mask transition on cluster i.
MaskMoved(i) == ~(Seen(graph[i]) # "full" <=> i \in masks)

\* A tick that the fingerprint skips would have rendered the LP that was built
\* last: same component, same books, same states, same graph.  The two may
\* differ in the legs of a quote that aged in the tick building one of them,
\* which the fingerprint, read at the tick's time, still counts as quoted
\* (solve-core.ts:436, lp-builder.ts:115): such an LP is not built again when
\* the quote comes back unchanged.
DedupSound ==
  MapsCurrent =>
    \A i \in DOMAIN graph :
      LET lp == LpOf(i, i \in demoted) IN
      /\ lastSolve[i] # None /\ Fingerprint(lastSolve[i]) = Fingerprint(lp)
      /\ ~MaskMoved(i)
      => lastSolve[i] = [lp EXCEPT !.late = lastSolve[i].late]

\* An LP leaves prepareClusterForSolve with the demoted state space whenever
\* some slot of an exhaustive set was unquoted at the tick's time: otherwise the
\* LP would certify a basket over worlds that cannot all be priced.  A quote that
\* ages between that time and buildLP (lp.late) is not covered: it has no legs
\* in an LP whose states were enumerated as if it were quoted.
PreparesSoundOmega ==
  [][MapsCurrent /\ Len(built') > Len(built)
       => LET lp == built'[Len(built')] IN lp.level # "full" => lp.demoted]_vars

\* Every change of a book is eventually seen by a prepare, or its component
\* leaves the graph, unless an error was logged.
EveryUpdateSeen ==
  \A c \in Comps : c \in unseen ~> (c \notin unseen \/ solveError \/ reloadError)

-----------------------------------------------------------------------------
(* What comments and docs say of the daemon, and the code does not do.      *)

\* doc.md: on any price update the cluster is marked dirty, then solved.
UpdateReachesSolve ==
  ~reloadError /\ reload = "none" =>
    \A c \in unseen : \E i \in (dirty \cup queue) \cap DOMAIN graph : graph[i] = c
=============================================================================
