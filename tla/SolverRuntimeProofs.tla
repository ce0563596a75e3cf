------------------------- MODULE SolverRuntimeProofs -------------------------
(***************************************************************************)
(* Theorems about the arb-solver event loop, for any components, graphs,   *)
(* contents and bounds.                                                    *)
(***************************************************************************)
EXTENDS SolverRuntime, TLAPS

USE DEF EventLoopFree, Spend, Left, Levels, Phases

\* The ids a served graph uses are cluster ids, and stand for components.
LEMMA GraphFacts ==
  ASSUME NEW g \in Graphs
  PROVE  /\ DOMAIN g \subseteq Ids
         /\ \A i \in DOMAIN g : g[i] \in Comps
         /\ \A i, j \in DOMAIN g : g[i] = g[j] => i = j
BY RuntimeAssumption DEF Ids

\* The tick's clock shows a book at one of the levels.
LEMMA SeenType == ASSUME TypeOK, NEW c \in Comps PROVE Seen(c) \in Levels
BY DEF TypeOK, Seen

\* The LP built for a served cluster is an LP.
LEMMA LpOfType ==
  ASSUME TypeOK, NEW i \in DOMAIN graph, NEW d \in BOOLEAN
  PROVE  LpOf(i, d) \in LP
<1>1. graph \in Graphs BY DEF TypeOK
<1>2. i \in Ids /\ graph[i] \in Comps BY <1>1, GraphFacts
<1>3. Seen(graph[i]) \in Levels BY <1>2, SeenType
<1>. QED BY <1>2, <1>3 DEF TypeOK, LpOf, LP

\* What is left of the tick after a result is a sequence of LPs.
LEMMA TailType ==
  ASSUME TypeOK, built # <<>>
  PROVE  /\ Head(built) \in LP
         /\ Tail(built) \in Seq(LP)
         /\ Len(Tail(built)) = Len(built) - 1
BY DEF TypeOK

-----------------------------------------------------------------------------
\* Results are processed only while some LP is left to process.
BuiltNonEmpty == phase \in {"batch", "apply", "persist", "graded"} => built # <<>>

TInv == TypeOK /\ BuiltNonEmpty

\* The types hold at the start.
LEMMA TypeInit == Init => TInv
<1> SUFFICES ASSUME Init PROVE TInv OBVIOUS
<1>1. \E v \in Versions : TRUE BY RuntimeAssumption
<1>2. (CHOOSE v \in Versions : TRUE) \in Versions BY <1>1
<1>3. graph \in Graphs /\ gen \in Nat /\ cacheGen \in 0..gen
  BY DEF Init
<1>4. book \in [Comps -> [ver : Versions, level : Levels]]
  BY <1>2 DEF Init
<1>5. /\ lastSolve \in [Ids -> LP \cup {None}]
      /\ certs \in [Ids -> [struct : Comps \X Nat \X BOOLEAN \X BOOLEAN] \cup {None}]
      /\ rows \in [Ids \X Venues -> {"absent", "current", "expired"}]
  BY DEF Init
<1>6. used \in [{"update", "loss", "rebuild", "fault"} -> Nat]
  BY DEF Init
<1>7. built \in Seq(LP)
  BY DEF Init
<1>. QED BY <1>3, <1>4, <1>5, <1>6, <1>7 DEF Init, TInv, TypeOK, BuiltNonEmpty

\* A price, an age or a staleness keeps the types.
LEMMA TypeFeed == TInv /\ FeedStep => TInv'
<1> SUFFICES ASSUME TInv, FeedStep PROVE TInv' OBVIOUS
<1>9. PICK d \in Comps :
        \/ \E v \in Versions, lv \in Levels : PriceUpdate(d, v, lv)
        \/ \E lv \in Levels : QuoteStale(d, lv)
        \/ QuoteAge(d)
        \/ QuoteRefresh(d)
  BY Zenon DEF FeedStep
<1> USE DEF TInv, TypeOK, BuiltNonEmpty, graphVars, books, solveVars, idVars, resultVars, histVars
<1>0. DOMAIN graph \subseteq Ids BY GraphFacts
<1>1. ASSUME NEW v \in Versions, NEW lv \in Levels, PriceUpdate(d, v, lv)
      PROVE  TInv'
  <2>1. book' \in [Comps -> [ver : Versions, level : Levels]]
    BY <1>1 DEF PriceUpdate
  <2>2. dirty' \subseteq Ids /\ unseen' \subseteq Comps /\ timer' \in BOOLEAN
    BY <1>0, <1>1 DEF PriceUpdate, ScheduleSolve
  <2>3. used' \in [{"update", "loss", "rebuild", "fault"} -> Nat]
    BY <1>1 DEF PriceUpdate
  <2>. QED BY <1>1, <2>1, <2>2, <2>3 DEF PriceUpdate
<1>2. ASSUME NEW lv \in Levels, QuoteStale(d, lv) PROVE TInv'
  <2>1. book' \in [Comps -> [ver : Versions, level : Levels]]
    <3>1. book[d] \in [ver : Versions, level : Levels] OBVIOUS
    <3>2. [book[d] EXCEPT !.level = lv] \in [ver : Versions, level : Levels] BY <3>1
    <3>. QED BY <1>2, <3>2 DEF QuoteStale
  <2>. QED BY <1>2, <2>1 DEF QuoteStale
<1>3. CASE QuoteAge(d)
  <2>1. book' \in [Comps -> [ver : Versions, level : Levels]]
    BY <1>3 DEF QuoteAge
  <2>2. late' \subseteq Comps
    BY <1>3 DEF QuoteAge
  <2>. QED BY <1>3, <2>1, <2>2 DEF QuoteAge
<1>4. CASE QuoteRefresh(d)
  BY <1>4 DEF QuoteRefresh
<1>. QED BY <1>9, <1>1, <1>2, <1>3, <1>4

\* Preparing a cluster keeps the types.
LEMMA TypePrepare == ASSUME TInv, NEW i \in Ids, Prepare(i) PROVE TInv'
<1> USE DEF TInv, TypeOK, BuiltNonEmpty, graphVars, books, solveVars, idVars, resultVars, histVars
<1>1. CASE i \notin DOMAIN graph
  BY <1>1 DEF Prepare
<1>2. CASE i \in DOMAIN graph /\ SkipDark(i)
  BY <1>2 DEF Prepare, SkipDark
<1>3. CASE i \in DOMAIN graph /\ PrepareQuoted(i)
  <2> DEFINE mask   == ~(Seen(graph[i]) = "full")
             moved  == ~(mask <=> i \in masks)
             states == (moved /\ mask) \/ (~moved /\ i \in demoted)
             lp     == LpOf(i, states)
             fresh  == IF moved THEN None ELSE lastSolve[i]
             cert   == IF moved THEN None ELSE certs[i]
  <2>1. states \in BOOLEAN OBVIOUS
  <2>2. lp \in LP BY <1>3, <2>1, LpOfType
  <2>3. fresh \in LP \cup {None} OBVIOUS
  <2>4. cert \in [struct : Comps \X Nat \X BOOLEAN \X BOOLEAN] \cup {None} OBVIOUS
  <2>5. lastSolve' = [lastSolve EXCEPT ![i] = fresh] \/ lastSolve' = [lastSolve EXCEPT ![i] = lp]
    BY <1>3 DEF PrepareQuoted
  <2>6. certs' = [certs EXCEPT ![i] = cert]
    BY <1>3 DEF PrepareQuoted
  <2>7. \/ UNCHANGED <<built, phase>>
        \/ built' = Append(built, lp) /\ phase' \in {"run", "yielded", "apply"}
    BY <1>3 DEF PrepareQuoted, Enqueue
  <2>8. masks' \subseteq Ids /\ demoted' \subseteq Ids /\ activeArbs' \subseteq Ids
    BY <1>3 DEF PrepareQuoted
  <2>9. lastSolve' \in [Ids -> LP \cup {None}]
    BY <2>2, <2>3, <2>5
  <2>10. certs' \in [Ids -> [struct : Comps \X Nat \X BOOLEAN \X BOOLEAN] \cup {None}]
    BY <2>4, <2>6
  <2>11. built' \in Seq(LP) /\ phase' \in Phases /\ BuiltNonEmpty'
    <3> HIDE DEF lp
    <3>1. CASE UNCHANGED <<built, phase>>
      BY <3>1
    <3>2. CASE built' = Append(built, lp) /\ phase' \in {"run", "yielded", "apply"}
      <4>1. built' \in Seq(LP) /\ Len(built') = Len(built) + 1 BY <2>2, <3>2
      <4>2. built' # <<>> BY <4>1
      <4>. QED BY <3>2, <4>1, <4>2
    <3>. QED BY <2>7, <3>1, <3>2
  <2> HIDE DEF mask, moved, states, lp, fresh, cert
  <2>. QED BY <1>3, <2>8, <2>9, <2>10, <2>11 DEF Prepare
<1>. QED BY <1>1, <1>2, <1>3 DEF Prepare

\* A rejected tick leaves nothing to process.
LEMMA EmptyTick ==
  ASSUME SolveRejects
  PROVE  built' \in Seq(LP) /\ phase' \in Phases /\ BuiltNonEmpty'
<1>1. built' = <<>> /\ phase' = "idle" BY DEF SolveRejects
<1>2. built' \in Seq(LP) BY <1>1
<1>. QED BY <1>1, <1>2 DEF BuiltNonEmpty

\* A step of the tick other than preparing a cluster.
ResultStep ==
  \/ TimerFires \/ Resume \/ SubmitBatch \/ BatchSettles \/ ApplyResult
  \/ PersistSettles \/ GradedSettles \/ PersistFails \/ SolveDone

\* The rest of solveDirty keeps the types.
LEMMA TypeResult == TInv /\ ResultStep => TInv'
<1> SUFFICES ASSUME TInv, ResultStep PROVE TInv' OBVIOUS
<1> USE DEF TInv, TypeOK, BuiltNonEmpty, graphVars, books, solveVars, idVars, resultVars, histVars
<1>1. CASE TimerFires
  <2>1. CASE dirty = {}
    <3>1. UNCHANGED <<built, phase>> BY <2>1, <1>1 DEF TimerFires
    <3>. QED BY <3>1, <2>1, <1>1 DEF TimerFires
  <2>3. CASE dirty # {}
    <3>1. built' = <<>> /\ phase' = "run" BY <2>3, <1>1 DEF TimerFires
    <3>2. built' \in Seq(LP) BY <3>1
    <3>. QED BY <3>1, <3>2, <2>3, <1>1 DEF TimerFires
  <2>. QED BY <2>1, <2>3
<1>2. CASE Resume BY <1>2 DEF Resume
<1>3. CASE SubmitBatch BY <1>3 DEF SubmitBatch
<1>4. CASE BatchSettles BY <1>4 DEF BatchSettles
<1>5. CASE ApplyResult
  <2>1. built # <<>> BY <1>5 DEF ApplyResult
  <2>2. Head(built) \in LP /\ Tail(built) \in Seq(LP) BY <2>1, TailType
  <2>3. /\ Head(built).id \in Ids
        /\ Certificate(Head(built)) \in [struct : Comps \X Nat \X BOOLEAN \X BOOLEAN]
    BY <2>2 DEF LP, Certificate, Structure
  <2>4. certs' = [certs EXCEPT ![Head(built).id] = Certificate(Head(built))]
        \/ certs' = [certs EXCEPT ![Head(built).id] = None]
    BY <1>5 DEF ApplyResult
  <2>5. certs' \in [Ids -> [struct : Comps \X Nat \X BOOLEAN \X BOOLEAN] \cup {None}]
    BY <2>3, <2>4
  <2>6. activeArbs' \subseteq Ids BY <1>5, <2>3 DEF ApplyResult
  <2>7. \/ NextResult
        \/ phase' \in {"persist", "graded"} /\ UNCHANGED built
    BY <1>5 DEF ApplyResult
  <2>8. built' \in Seq(LP) /\ phase' \in Phases /\ BuiltNonEmpty'
    BY <2>1, <2>2, <2>7 DEF NextResult
  <2>. QED BY <1>5, <2>5, <2>6, <2>8 DEF ApplyResult
<1>6. CASE PersistSettles
  <2>1. built # <<>> BY <1>6 DEF PersistSettles
  <2>2. Head(built) \in LP /\ Tail(built) \in Seq(LP) BY <2>1, TailType
  <2>3. rows' \in [Ids \X Venues -> {"absent", "current", "expired"}]
    BY <1>6 DEF PersistSettles
  <2>4. NextResult \/ SolveRejects BY <1>6 DEF PersistSettles
  <2>5. built' \in Seq(LP) /\ phase' \in Phases /\ BuiltNonEmpty'
    <3>1. CASE NextResult BY <2>1, <2>2, <3>1 DEF NextResult
    <3>2. CASE SolveRejects BY <3>2, EmptyTick
    <3>. QED BY <2>4, <3>1, <3>2
  <2>. QED BY <1>6, <2>3, <2>5 DEF PersistSettles, SolveRejects, Rearm
<1>7. CASE GradedSettles
  <2>1. built # <<>> BY <1>7 DEF GradedSettles
  <2>2. Head(built) \in LP /\ Tail(built) \in Seq(LP) BY <2>1, TailType
  <2>3. Head(built).id \in Ids BY <2>2 DEF LP
  <2>4. built' \in Seq(LP) /\ phase' \in Phases /\ BuiltNonEmpty'
    BY <1>7, <2>1, <2>2 DEF GradedSettles, NextResult
  <2>. QED BY <1>7, <2>3, <2>4 DEF GradedSettles
<1>8. CASE PersistFails
  <2>1. built' \in Seq(LP) /\ phase' \in Phases /\ BuiltNonEmpty'
    BY <1>8, EmptyTick DEF PersistFails
  <2>2. /\ timer' \in BOOLEAN /\ solving' \in BOOLEAN /\ queue' \subseteq Ids
        /\ solveError' \in BOOLEAN /\ late' \subseteq Comps
    BY <1>8 DEF PersistFails, SolveRejects, Rearm
  <2>3. used' \in [{"update", "loss", "rebuild", "fault"} -> Nat]
    BY <1>8 DEF PersistFails
  <2>. QED BY <1>8, <2>1, <2>2, <2>3 DEF PersistFails
<1>9. CASE SolveDone BY <1>9 DEF SolveDone, Rearm
<1>. QED BY <1>1, <1>2, <1>3, <1>4, <1>5, <1>6, <1>7, <1>8, <1>9 DEF ResultStep

\* A step that changes the graph or runs reloadGraph.
GraphStep ==
  \/ \E g \in Graphs : BeltRebuild(g) \/ ReloadSwap(g)
  \/ ReloadStep \/ ReloadFails

\* Belt rebuilds and reloads keep the types.
LEMMA TypeGraph == TInv /\ GraphStep => TInv'
<1> SUFFICES ASSUME TInv, GraphStep PROVE TInv' OBVIOUS
<1> USE DEF TInv, TypeOK, BuiltNonEmpty, graphVars, books, solveVars, idVars, resultVars, histVars
<1>0. DOMAIN graph \subseteq Ids BY GraphFacts
<1>1. ASSUME NEW g \in Graphs, BeltRebuild(g) PROVE TInv'
  <2>1. DOMAIN g \subseteq Ids BY GraphFacts
  <2>. QED BY <1>1, <2>1 DEF BeltRebuild, ClearAndDirtyAll
<1>2. ASSUME NEW g \in Graphs, ReloadSwap(g) PROVE TInv'
  BY <1>2 DEF ReloadSwap
<1>3. CASE ReloadTrack
  <2>1. book' \in [Comps -> [ver : Versions, level : Levels]]
    BY <1>3 DEF ReloadTrack
  <2>. QED BY <1>3, <2>1 DEF ReloadTrack
<1>4. CASE ReloadExpire
  <2>1. rows' \in [Ids \X Venues -> {"absent", "current", "expired"}]
    BY <1>4 DEF ReloadExpire
  <2>. QED BY <1>4, <2>1 DEF ReloadExpire
<1>5. CASE ReloadFinish BY <1>0, <1>5 DEF ReloadFinish, ClearAndDirtyAll
<1>6. CASE ReloadFails BY <1>6 DEF ReloadFails
<1>. QED BY <1>1, <1>2, <1>3, <1>4, <1>5, <1>6 DEF GraphStep, ReloadStep

\* A step of the feed only touches the books, and dirties clusters through
\* scheduleSolve.
LEMMA FeedParts ==
  ASSUME FeedStep
  PROVE  /\ UNCHANGED <<graphVars, solveVars, idVars, resultVars, reload, solveError, reloadError>>
         /\ \/ UNCHANGED <<dirty, timer, unseen>>
            \/ \E c \in ServedComps :
                 /\ dirty' = dirty \cup {i \in DOMAIN graph : graph[i] = c}
                 /\ unseen' = unseen \cup {c}
                 /\ ScheduleSolve
<1>9. PICK d \in Comps :
        \/ \E v \in Versions, lv \in Levels : PriceUpdate(d, v, lv)
        \/ \E lv \in Levels : QuoteStale(d, lv)
        \/ QuoteAge(d)
        \/ QuoteRefresh(d)
  BY Zenon DEF FeedStep
<1>1. ASSUME NEW v \in Versions, NEW lv \in Levels, PriceUpdate(d, v, lv)
      PROVE  /\ UNCHANGED <<graphVars, solveVars, idVars, resultVars, reload, solveError, reloadError>>
             /\ \/ UNCHANGED <<dirty, timer, unseen>>
                \/ /\ d \in ServedComps
                   /\ dirty' = dirty \cup {i \in DOMAIN graph : graph[i] = d}
                   /\ unseen' = unseen \cup {d}
                   /\ ScheduleSolve
  BY <1>1, Zenon DEF PriceUpdate
<1>2. ASSUME NEW lv \in Levels, QuoteStale(d, lv)
      PROVE  UNCHANGED <<graphVars, solveVars, idVars, resultVars, reload, solveError,
                         reloadError, dirty, timer, unseen>>
  BY <1>2 DEF QuoteStale
<1>3. CASE QuoteAge(d) BY <1>3 DEF QuoteAge
<1>4. CASE QuoteRefresh(d) BY <1>4 DEF QuoteRefresh
<1>. QED BY <1>9, <1>1, <1>2, <1>3, <1>4

\* Every step is one of the four kinds.
LEMMA NextSteps ==
  Next => FeedStep \/ (\E i \in Ids : Prepare(i)) \/ ResultStep \/ GraphStep
BY DEF Next, SolveStep, ResultStep, GraphStep

\* A step that changes nothing keeps the types.
LEMMA TypeStutter == TInv /\ UNCHANGED vars => TInv'
BY DEF TInv, TypeOK, BuiltNonEmpty, vars, graphVars, books, solveVars, idVars, resultVars, histVars

-----------------------------------------------------------------------------
(* The wakeup protocol of dirtySet, solveTimer and solving.                 *)

DrainInv == OneDrain /\ NoLostWakeup

\* Every step keeps the wakeup protocol.
LEMMA DrainStep ==
  ASSUME TInv, DrainInv, [Next]_vars PROVE DrainInv'
<1> USE DEF DrainInv, OneDrain, NoLostWakeup, graphVars, books, solveVars, idVars, resultVars, histVars
<1>1. CASE FeedStep
  <2>1. /\ UNCHANGED <<solving, phase, queue, built>>
        /\ UNCHANGED <<dirty, timer>> \/ ScheduleSolve
    BY <1>1, FeedParts
  <2>2. CASE UNCHANGED <<dirty, timer>> BY <2>1, <2>2
  <2>3. CASE ScheduleSolve
    <3>1. timer' <=> timer \/ ~solving BY <2>3 DEF ScheduleSolve
    <3>. QED BY <2>1, <3>1
  <2>. QED BY <2>1, <2>2, <2>3
<1>2. CASE \E i \in Ids : Prepare(i)
  <2>1. PICK i \in Ids : Prepare(i) BY <1>2
  <2>2. phase = "run" /\ UNCHANGED <<dirty, timer, solving>>
    BY <2>1 DEF Prepare
  <2>3. phase' \in {"run", "yielded", "apply"}
    BY <2>1, <2>2 DEF Prepare, SkipDark, PrepareQuoted, Enqueue
  <2>. QED BY <2>2, <2>3
<1>3. CASE ResultStep
  <2>1. CASE TimerFires BY <2>1 DEF TimerFires
  <2>2. CASE Resume \/ SubmitBatch \/ BatchSettles
    BY <2>2 DEF Resume, SubmitBatch, BatchSettles
  <2>3. CASE ApplyResult
    <3>1. phase = "apply" /\ UNCHANGED <<dirty, timer, solving, queue>>
      BY <2>3 DEF ApplyResult
    <3>2. phase' # "idle" BY <2>3 DEF ApplyResult, NextResult
    <3>. QED BY <3>1, <3>2
  <2>4. CASE PersistSettles
    <3>1. CASE NextResult /\ UNCHANGED <<dirty, timer, solving, queue>>
      BY <2>4, <3>1 DEF PersistSettles, NextResult
    <3>2. CASE SolveRejects /\ UNCHANGED dirty
      BY <3>2 DEF SolveRejects, Rearm
    <3>. QED BY <2>4, <3>1, <3>2 DEF PersistSettles
  <2>5. CASE GradedSettles BY <2>5 DEF GradedSettles, NextResult
  <2>6. CASE PersistFails BY <2>6 DEF PersistFails, SolveRejects, Rearm
  <2>7. CASE SolveDone BY <2>7 DEF SolveDone, Rearm
  <2>. QED BY <1>3, <2>1, <2>2, <2>3, <2>4, <2>5, <2>6, <2>7 DEF ResultStep
<1>4. CASE GraphStep
  <2>1. CASE \E g \in Graphs : BeltRebuild(g)
    <3>1. /\ UNCHANGED <<solving, phase, queue, built>>
          /\ ~solving
          /\ timer' = (timer \/ dirty' # {})
      BY <2>1, Zenon DEF BeltRebuild
    <3>. QED BY <3>1
  <2>2. CASE \E g \in Graphs : ReloadSwap(g) BY <2>2 DEF ReloadSwap
  <2>3. CASE ReloadStep
    <3>1. CASE UNCHANGED <<dirty, timer, solving, phase, queue, built>> BY <3>1
    <3>2. CASE ReloadFinish
      <4>1. /\ UNCHANGED <<solving, phase, queue, built>>
            /\ timer' = (timer \/ (dirty' # {} /\ ~solving))
        BY <3>2 DEF ReloadFinish
      <4>. QED BY <4>1
    <3>. QED BY <2>3, <3>1, <3>2 DEF ReloadStep, ReloadTrack, ReloadExpire
  <2>4. CASE ReloadFails BY <2>4 DEF ReloadFails
  <2>. QED BY <1>4, <2>1, <2>2, <2>3, <2>4 DEF GraphStep
<1>5. CASE UNCHANGED vars
  BY <1>5 DEF vars
<1>. QED BY <1>1, <1>2, <1>3, <1>4, <1>5, NextSteps

-----------------------------------------------------------------------------
(* Updates are kept until a prepare has looked at them.                     *)

\* Once a reload has pruned the price cache, only served components can have
\* changes nobody looked at.
UnseenServed ==
  ~solveError /\ ~reloadError /\ reload \in {"tracked", "expired"} => unseen \subseteq ServedComps

CoverInv == UpdatesCovered /\ UnseenServed

\* Every step keeps unseen components queued.
LEMMA CoverStep ==
  ASSUME TInv, DrainInv, CoverInv, [Next]_vars PROVE CoverInv'
<1> USE DEF CoverInv, UpdatesCovered, UnseenServed, ServedComps,
            graphVars, books, solveVars, idVars, resultVars, histVars
<1>1. CASE FeedStep
  <2>1. /\ UNCHANGED <<graph, queue, reload, solveError, reloadError>>
        /\ \/ UNCHANGED <<dirty, unseen>>
           \/ \E c \in ServedComps :
                /\ dirty' = dirty \cup {i \in DOMAIN graph : graph[i] = c}
                /\ unseen' = unseen \cup {c}
    BY <1>1, FeedParts
  <2>. QED BY <2>1
<1>2. ASSUME NEW i \in Ids, Prepare(i) PROVE CoverInv'
  <2>1. /\ queue' = queue \ {i}
        /\ UNCHANGED <<graph, dirty, reload, solveError, reloadError>>
    BY <1>2 DEF Prepare
  <2>2. \/ i \notin DOMAIN graph /\ unseen' = unseen
        \/ i \in DOMAIN graph /\ unseen' = unseen \ {graph[i]}
    BY <1>2 DEF Prepare
  <2>. QED BY <2>1, <2>2
<1>3. CASE ResultStep
  <2>1. CASE TimerFires BY <2>1 DEF TimerFires, DrainInv, OneDrain
  <2>2. CASE Resume \/ SubmitBatch \/ BatchSettles
    BY <2>2 DEF Resume, SubmitBatch, BatchSettles
  <2>3. CASE ApplyResult BY <2>3 DEF ApplyResult
  <2>4. CASE PersistSettles BY <2>4 DEF PersistSettles, SolveRejects
  <2>5. CASE GradedSettles BY <2>5 DEF GradedSettles
  <2>6. CASE PersistFails BY <2>6 DEF PersistFails, SolveRejects
  <2>7. CASE SolveDone BY <2>7 DEF SolveDone
  <2>. QED BY <1>3, <2>1, <2>2, <2>3, <2>4, <2>5, <2>6, <2>7 DEF ResultStep
<1>4. CASE GraphStep
  <2>1. ASSUME NEW g \in Graphs, BeltRebuild(g) PROVE CoverInv'
    <3>1. /\ graph' = g /\ dirty' = dirty \cup DOMAIN g /\ queue' = queue
          /\ UNCHANGED <<reload, solveError, reloadError, unseen>>
          /\ {g[i] : i \in DOMAIN g} = {graph[i] : i \in DOMAIN graph}
      BY <2>1 DEF BeltRebuild, ClearAndDirtyAll
    <3>2. ASSUME NEW c \in unseen, c \in {graph[i] : i \in DOMAIN graph}
          PROVE  \E i \in (dirty' \cup queue') \cap DOMAIN graph' : graph'[i] = c
      BY <3>1, <3>2
    <3>3. UpdatesCovered'
      BY <3>1, <3>2
    <3>. QED BY <3>1, <3>3
  <2>2. ASSUME NEW g \in Graphs, ReloadSwap(g) PROVE CoverInv'
    BY <2>2 DEF ReloadSwap
  <2>3. CASE ReloadTrack BY <2>3 DEF ReloadTrack
  <2>4. CASE ReloadExpire BY <2>4 DEF ReloadExpire
  <2>5. CASE ReloadFinish BY <2>5 DEF ReloadFinish, ClearAndDirtyAll
  <2>6. CASE ReloadFails BY <2>6 DEF ReloadFails
  <2>. QED BY <1>4, <2>1, <2>2, <2>3, <2>4, <2>5, <2>6 DEF GraphStep, ReloadStep
<1>5. CASE UNCHANGED vars
  BY <1>5 DEF vars
<1>. QED BY <1>1, <1>2, <1>3, <1>4, <1>5, NextSteps

-----------------------------------------------------------------------------
(* The id-keyed maps and the clusters they speak of.                        *)

\* What a fingerprint recorded under the served graph stands for: the states
\* and the mask have not moved since.
RecordedLpCurrent ==
  \A i \in DOMAIN graph :
    lastSolve[i] # None =>
      /\ lastSolve[i].id = i /\ lastSolve[i].comp = graph[i] /\ lastSolve[i].gen = gen
      /\ lastSolve[i].demoted <=> i \in demoted
      /\ lastSolve[i].level # "full" <=> i \in masks

MapInv == MapsCurrent => masks \subseteq demoted /\ RecordedLpCurrent

\* The parts of a prepare that looks at the LP, spelled out.
LEMMA PrepareParts ==
  ASSUME TInv, NEW i \in DOMAIN graph, PrepareQuoted(i)
  PROVE  LET mask   == Seen(graph[i]) # "full"
             moved  == ~(mask <=> i \in masks)
             states == (moved /\ mask) \/ (~moved /\ i \in demoted)
         IN /\ masks' = IF mask THEN masks \cup {i} ELSE masks \ {i}
            /\ demoted' = IF states THEN demoted \cup {i} ELSE demoted \ {i}
            /\ \/ lastSolve' = [lastSolve EXCEPT ![i] = LpOf(i, states)]
               \/ moved /\ lastSolve' = [lastSolve EXCEPT ![i] = None]
               \/ ~moved /\ lastSolve' = lastSolve
            /\ \/ UNCHANGED built
               \/ built' = Append(built, LpOf(i, states))
<1>1. lastSolve \in [Ids -> LP \cup {None}] BY DEF TInv, TypeOK
<1>. QED BY <1>1 DEF PrepareQuoted, Enqueue

\* Preparing a cluster keeps its mask and its recorded LP in step with its states.
LEMMA MapPrepare ==
  ASSUME TInv, MapInv, NEW i \in Ids, Prepare(i) PROVE MapInv'
<1> USE DEF MapInv, MapsCurrent, RecordedLpCurrent
<1>0. UNCHANGED graphVars BY DEF Prepare
<1>1. CASE UNCHANGED idVars BY <1>0, <1>1 DEF graphVars, idVars
<1>2. CASE i \in DOMAIN graph /\ PrepareQuoted(i)
  <2> DEFINE mask   == Seen(graph[i]) # "full"
             moved  == ~(mask <=> i \in masks)
             states == (moved /\ mask) \/ (~moved /\ i \in demoted)
  <2>1. /\ masks' = IF mask THEN masks \cup {i} ELSE masks \ {i}
        /\ demoted' = IF states THEN demoted \cup {i} ELSE demoted \ {i}
        /\ \/ lastSolve' = [lastSolve EXCEPT ![i] = LpOf(i, states)]
           \/ moved /\ lastSolve' = [lastSolve EXCEPT ![i] = None]
           \/ ~moved /\ lastSolve' = lastSolve
    BY <1>2, PrepareParts
  <2>2. lastSolve \in [Ids -> LP \cup {None}] /\ graph \in Graphs BY DEF TInv, TypeOK
  <2>3. DOMAIN graph \subseteq Ids BY <2>2, GraphFacts
  <2>4. states \in BOOLEAN OBVIOUS
  <2>5. /\ LpOf(i, states).id = i /\ LpOf(i, states).comp = graph[i]
        /\ LpOf(i, states).gen = gen /\ LpOf(i, states).demoted = states
        /\ LpOf(i, states).level = Seen(graph[i])
    BY DEF LpOf
  <2>6. graph' = graph /\ gen' = gen /\ cacheGen' = cacheGen BY <1>0 DEF graphVars
  <2>7. ASSUME MapsCurrent PROVE masks' \subseteq demoted'
    BY <2>1, <2>7
  <2>8. ASSUME MapsCurrent, NEW j \in DOMAIN graph, j # i, lastSolve'[j] # None
        PROVE  /\ lastSolve'[j].id = j /\ lastSolve'[j].comp = graph[j] /\ lastSolve'[j].gen = gen
               /\ lastSolve'[j].demoted <=> j \in demoted'
               /\ lastSolve'[j].level # "full" <=> j \in masks'
    <3>1. lastSolve'[j] = lastSolve[j] BY <2>1, <2>2, <2>3, <2>8
    <3>2. (j \in demoted' <=> j \in demoted) /\ (j \in masks' <=> j \in masks) BY <2>1, <2>8
    <3>. QED BY <2>8, <3>1, <3>2
  <2>9. ASSUME MapsCurrent, lastSolve'[i] # None
        PROVE  /\ lastSolve'[i].id = i /\ lastSolve'[i].comp = graph[i] /\ lastSolve'[i].gen = gen
               /\ lastSolve'[i].demoted <=> i \in demoted'
               /\ lastSolve'[i].level # "full" <=> i \in masks'
    <3>1. (i \in demoted' <=> states) /\ (i \in masks' <=> mask) BY <2>1
    <3>2. CASE lastSolve' = [lastSolve EXCEPT ![i] = LpOf(i, states)]
      <4>1. lastSolve'[i] = LpOf(i, states) BY <2>2, <3>2
      <4>. QED BY <2>5, <3>1, <4>1
    <3>3. CASE ~moved /\ lastSolve' = lastSolve
      <4>1. (i \in demoted' <=> i \in demoted) /\ (i \in masks' <=> i \in masks) BY <3>1, <3>3
      <4>. QED BY <1>2, <2>9, <3>3, <4>1
    <3>4. lastSolve' # [lastSolve EXCEPT ![i] = None] BY <2>2, <2>9
    <3>. QED BY <2>1, <3>2, <3>3, <3>4
  <2> HIDE DEF mask, moved, states
  <2>. QED BY <2>6, <2>7, <2>8, <2>9
<1>. QED BY <1>1, <1>2 DEF Prepare, SkipDark

\* Every step keeps the maps of the served graph in step with its clusters.
LEMMA MapStep ==
  ASSUME TInv, MapInv, [Next]_vars PROVE MapInv'
<1> USE DEF MapInv, MapsCurrent, RecordedLpCurrent,
            graphVars, books, solveVars, idVars, resultVars, histVars
<1>1. CASE FeedStep
  BY <1>1, FeedParts
<1>2. CASE \E i \in Ids : Prepare(i) BY <1>2, MapPrepare
<1>3. CASE ResultStep
  <2>1. UNCHANGED <<graph, gen, cacheGen, masks, demoted, lastSolve>>
    BY <1>3 DEF ResultStep, TimerFires, Resume, SubmitBatch, BatchSettles, ApplyResult,
                PersistSettles, GradedSettles, PersistFails, SolveDone
  <2>. QED BY <2>1
<1>4. CASE GraphStep
  <2>0. DOMAIN graph \subseteq Ids /\ gen \in Nat /\ cacheGen \in 0..gen
    BY GraphFacts DEF TInv, TypeOK
  <2>1. ASSUME NEW g \in Graphs, BeltRebuild(g) PROVE MapInv'
    <3>1. DOMAIN g \subseteq Ids BY GraphFacts
    <3>2. graph' = g /\ masks' = {} /\ lastSolve' = [i \in Ids |-> None]
      BY <2>1 DEF BeltRebuild, ClearAndDirtyAll
    <3>. QED BY <3>1, <3>2
  <2>2. ASSUME NEW g \in Graphs, ReloadSwap(g) PROVE MapInv'
    <3>1. cacheGen' # gen' BY <2>0, <2>2 DEF ReloadSwap
    <3>. QED BY <3>1
  <2>3. CASE ReloadTrack BY <2>3 DEF ReloadTrack
  <2>4. CASE ReloadExpire BY <2>4 DEF ReloadExpire
  <2>5. CASE ReloadFinish
    <3>1. graph' = graph /\ masks' = {} /\ lastSolve' = [i \in Ids |-> None]
      BY <2>5 DEF ReloadFinish, ClearAndDirtyAll
    <3>. QED BY <2>0, <3>1
  <2>6. CASE ReloadFails BY <2>6 DEF ReloadFails
  <2>. QED BY <1>4, <2>1, <2>2, <2>3, <2>4, <2>5, <2>6 DEF GraphStep, ReloadStep
<1>5. CASE UNCHANGED vars
  BY <1>5 DEF vars
<1>. QED BY <1>1, <1>2, <1>3, <1>4, <1>5, NextSteps

-----------------------------------------------------------------------------
\* The inductive invariant of the event loop.
IInv == TInv /\ DrainInv /\ CoverInv /\ MapInv

\* The invariant holds at the start.
LEMMA InvInit == Init => IInv
<1> SUFFICES ASSUME Init PROVE IInv OBVIOUS
<1>1. TInv BY TypeInit
<1>2. DOMAIN graph \subseteq Ids BY GraphFacts DEF Init
<1>3. DrainInv BY DEF Init, DrainInv, OneDrain, NoLostWakeup
<1>4. CoverInv BY DEF Init, CoverInv, UpdatesCovered, UnseenServed
<1>5. MapInv BY <1>2 DEF Init, MapInv, RecordedLpCurrent
<1>. QED BY <1>1, <1>3, <1>4, <1>5 DEF IInv

\* Every step keeps the types.
LEMMA TypeStep == ASSUME TInv, [Next]_vars PROVE TInv'
BY NextSteps, TypeFeed, TypePrepare, TypeResult, TypeGraph, TypeStutter

\* Every step keeps the invariant.
LEMMA InvStep == IInv /\ [Next]_vars => IInv'
BY TypeStep, DrainStep, CoverStep, MapStep DEF IInv

\* index.ts: types, wakeups, queued updates and maps stay consistent in every
\* state of the event loop.
THEOREM InductiveInvariant == Spec => []IInv
BY InvInit, InvStep, PTL DEF Spec

\* index.ts: the state of the event loop keeps its types.
THEOREM TypeCorrect == Spec => []TypeOK
<1>1. IInv => TypeOK BY DEF IInv, TInv
<1>. QED BY <1>1, InductiveInvariant, PTL

\* index.ts scheduleSolve and its callers: a dirty cluster always has an armed
\* timer or a running solve that will look at dirtySet when it ends.
THEOREM NoWakeupIsLost == Spec => []NoLostWakeup
<1>1. IInv => NoLostWakeup BY DEF IInv, DrainInv
<1>. QED BY <1>1, InductiveInvariant, PTL

\* index.ts: solveDirty never runs twice at once.
THEOREM OneDrainAtATime == Spec => []OneDrain
<1>1. IInv => OneDrain BY DEF IInv, DrainInv
<1>. QED BY <1>1, InductiveInvariant, PTL

\* index.ts: without a logged error, a changed component stays queued, under
\* the id it has in the served graph, until a prepare looks at it.
THEOREM UpdatesStayCovered == Spec => []UpdatesCovered
<1>1. IInv => UpdatesCovered BY DEF IInv, CoverInv
<1>. QED BY <1>1, InductiveInvariant, PTL

\* solve-core.ts applyLivenessDemotion: a recorded mask never runs ahead of the
\* states of the cluster served under that id.
THEOREM MasksMatch == Spec => []MasksMatchStates
<1>1. IInv => MasksMatchStates BY DEF IInv, MapInv, MasksMatchStates
<1>. QED BY <1>1, InductiveInvariant, PTL

\* solve-core.ts serialDedup: the fingerprint skips only an LP equal to the
\* one it was recorded for, up to legs of a quote that aged within a tick.
THEOREM DedupIsSound == Spec => []DedupSound
<1>1. ASSUME IInv PROVE DedupSound
  <2> SUFFICES ASSUME MapsCurrent, NEW i \in DOMAIN graph,
                      lastSolve[i] # None,
                      Fingerprint(lastSolve[i]) = Fingerprint(LpOf(i, i \in demoted)),
                      ~MaskMoved(i)
               PROVE  lastSolve[i] = [LpOf(i, i \in demoted) EXCEPT !.late = lastSolve[i].late]
    BY DEF DedupSound
  <2>1. i \in Ids BY <1>1, GraphFacts DEF IInv, TInv, TypeOK
  <2>2. lastSolve[i] \in LP BY <1>1, <2>1 DEF IInv, TInv, TypeOK
  <2>3. LpOf(i, i \in demoted) \in LP
    <3>1. (i \in demoted) \in BOOLEAN OBVIOUS
    <3>. QED BY <1>1, <3>1, LpOfType DEF IInv, TInv
  <2>4. /\ lastSolve[i].id = i /\ lastSolve[i].comp = graph[i] /\ lastSolve[i].gen = gen
        /\ lastSolve[i].demoted <=> i \in demoted
    BY <1>1 DEF IInv, MapInv, RecordedLpCurrent
  <2>5. lastSolve[i].ver = book[graph[i]].ver /\ lastSolve[i].level = Seen(graph[i])
    BY DEF Fingerprint, LpOf
  <2>. QED BY <2>2, <2>3, <2>4, <2>5 DEF LpOf, LP
<1>2. IInv => DedupSound BY <1>1
<1>. QED BY <1>2, InductiveInvariant, PTL

\* solve-core.ts prepareClusterForSolve: while the maps belong to the served
\* graph, no LP with a slot that is unquoted at the tick's time is built over
\* the full state space.
THEOREM SoundOmegaPrepared == Spec => PreparesSoundOmega
<1> DEFINE Sound == MapsCurrent /\ Len(built') > Len(built)
                      => LET lp == built'[Len(built')] IN lp.level # "full" => lp.demoted
<1>1. ASSUME IInv, Next PROVE Sound
  <2> SUFFICES ASSUME MapsCurrent, Len(built') > Len(built)
               PROVE  built'[Len(built')].level # "full" => built'[Len(built')].demoted
    OBVIOUS
  <2> USE DEF graphVars, books, solveVars, idVars, resultVars, histVars
  <2>0. built \in Seq(LP) /\ MapInv /\ TInv BY <1>1 DEF IInv, TInv, TypeOK
  <2>1. CASE \E i \in Ids : Prepare(i)
    <3>1. PICK i \in Ids : Prepare(i) BY <2>1
    <3>2. i \in DOMAIN graph /\ PrepareQuoted(i)
      BY <2>0, <3>1 DEF Prepare, SkipDark
    <3> DEFINE mask   == Seen(graph[i]) # "full"
               moved  == ~(mask <=> i \in masks)
               states == (moved /\ mask) \/ (~moved /\ i \in demoted)
    <3>3. built' = Append(built, LpOf(i, states))
      <4>1. UNCHANGED built \/ built' = Append(built, LpOf(i, states))
        BY <2>0, <3>2, PrepareParts
      <4>. QED BY <2>0, <4>1
    <3>4. built'[Len(built')] = LpOf(i, states)
      <4> HIDE DEF states
      <4>1. LpOf(i, states) \in LP
        BY <2>0, <3>2, LpOfType, states \in BOOLEAN DEF TInv, states
      <4>. QED BY <2>0, <3>3, <4>1
    <3>5. mask => states BY <2>0 DEF MapInv
    <3>6. LpOf(i, states).level = Seen(graph[i]) /\ LpOf(i, states).demoted = states
      BY DEF LpOf
    <3>7. CASE states
      <4>1. LpOf(i, states).demoted = TRUE BY <3>6, <3>7
      <4>. QED BY <3>4, <4>1
    <3>8. CASE ~states BY <3>4, <3>5, <3>6, <3>8
    <3>. QED BY <3>7, <3>8
  <2>2. CASE FeedStep \/ GraphStep
    <3>1. built' = built
      BY <2>2 DEF FeedStep, PriceUpdate, QuoteStale, QuoteAge, QuoteRefresh, GraphStep,
                  BeltRebuild, ReloadSwap, ReloadStep, ReloadTrack, ReloadExpire,
                  ReloadFinish, ReloadFails
    <3>. QED BY <2>0, <3>1
  <2>3. CASE ResultStep
    <3>1. \/ built' = built \/ built' = <<>>
          \/ built # <<>> /\ built' = Tail(built)
      BY <1>1, <2>3 DEF IInv, TInv, BuiltNonEmpty, ResultStep, TimerFires, Resume,
                  SubmitBatch, BatchSettles, ApplyResult, PersistSettles, GradedSettles,
                  PersistFails, SolveDone, NextResult, SolveRejects
    <3>. QED BY <2>0, <3>1
  <2>. QED BY <1>1, <2>1, <2>2, <2>3, NextSteps
<1>2. IInv /\ [Next]_vars => [Sound]_vars BY <1>1
<1>. QED BY <1>2, InductiveInvariant, PTL DEF Spec, PreparesSoundOmega
=============================================================================
