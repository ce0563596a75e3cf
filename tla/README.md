# Verification of prediction-markets-arb

TLA+ specifications of the stateful core of this repository, the TLC
configurations that check them on small instances, and TLAPS proofs of their
main safety properties for every value of the constants.

The repository finds arbitrage between prediction markets. Three services and an
event bus share one PostgreSQL database: *ingestion* scrapes markets and watches
their lifecycle, the *pipeline* normalises and links them, and the *arb-solver*
loads the resulting constraint graph, follows live order books and solves a
linear program per connected component. Nothing places orders: the result of a
run is the table `arbitrage_opportunities`. What can go wrong silently is
therefore of three kinds: an update that never reaches a solve, a solve over
inputs that do not belong together (books, numbering, state space), and a
resolution missed, or recorded or announced wrongly. These are the subjects of
the modules.

Paths below are relative to `src/`; `solver/…`, `clob/…`, `index.ts` without a
prefix are under `services/arb-solver/src/`.

## 1. Inventory

### Components, their state and operations

| Component | State | Operations | What makes it correct |
| --- | --- | --- | --- |
| solver event loop `index.ts`, `solve-core.ts` | `dirtySet`, `solveTimer`, `solving`, `clusters` and its indexes, `lastSolveFingerprint`, `livenessMasks`, `dualCerts`, `activeArbs` | `onPriceUpdate`, `scheduleSolve`, `solveDirty`, `processResult`, belt refresh, `reloadGraph` | no update is forgotten, one solve at a time, id-keyed maps never outlive the numbering, no LP over an unsound state space |
| persistence `persistence.ts` | `arbitrage_opportunities`, `market_prices` | INSERT, graded upsert, expire, price write | what is current is what is detected |
| price cache `clob/price-cache.ts` | per-market book, `lastUpdate`, `stale`, `changedAt` | `update`, `markStaleByIds`, `read`, `evict` | a stale or aged quote never reaches an LP |
| fingerprint, skip filter `solver/cluster-fingerprint.ts`, `solver/skip-filter.ts` | none (pure), maps in `index.ts` | fingerprint, structure key, dual bound | a skip never hides a different LP |
| CLOB manager `clob/manager.ts`, `clob/token-map.ts` | `trackedMarkets` | `startTracking`, `updateSubscriptions`, `unsubscribeMarket`, routing | the tracked set is what the graph asks for |
| sharded adapter skeleton `clob/adapters/base-sharded.ts` | per shard: `ids`, `conn`, `reconnectTimer`, `keepaliveTimer` | `start`, `subscribe`, `unsubscribe`, `connect`, open, close, `scheduleReconnect`, `stop` | one socket per shard, everything assigned is subscribed, a dropped shard is stale and returns |
| Kalshi adapter `clob/adapters/kalshi.ts` | `yesBids`, `noBids`, `expectedSeq`, checks in flight | snapshot, delta, `checkSeq`, `resyncShard`, REST cross-check | a sequenced book is one the exchange had |
| Polymarket adapter `clob/adapters/polymarket.ts` | `books`, `snapshotReceived`, `bestMismatchStreak`, `lastResyncAt`, requests in flight | book, price_change, REST resync, fallback resubscription | a published book is the exchange's, though nothing is numbered; a wrong one is repaired |
| Predict, Limitless adapters | — | whole books; socket.io rejoin | a rejoin asks for everything again |
| IO thread `clob/io-thread/*` | `pending` on both sides, `cmdQueue`, `draining`, `crosscheckPending` | batch, urgent event, command, REST request, error, exit, `stopAll` | events keep their order; commands do not overlap and are answered |
| solver pool `solver/solver-pool.ts`, `solver/solve-worker.ts` | `pending`, `nextJobId`, `readyCount`, `terminated` | `solveBatch`, reply, ready, error, exit, `terminate` | each job settles at most once, with its own answer, and in the end |
| LP, enumeration, grading `solver/*` | `validStates` of a cluster | enumerate, repair, pin gate, liveness demotion | no world that can happen is missing; states and facets agree |
| constraint graph `graph/*` | `loadedGraph`, `ContainmentLatch`, `EnumCache` | `loadConstraintGraph`, belt, latch, `buildClusters`, cache hit and sweep | every filter only adds worlds; a refutation is not forgotten; a hit is what a fresh enumeration would give |
| identity sentinel `sentinel/*` | detectors, registry | observe, sweep | read by nobody |
| run monitor `run-monitor/*` | measurement, `EnumCache` | incremental reload | as the solver's |
| resolution write `packages/resolution-write` | two columns of `markets` | `writeResolution`, `publishResolved` | written once, announced correctly |
| pipeline upsert `services/pipeline/src/db/queries/markets.ts` | the same columns | `bulkUpsertMarkets` | does not undo the former |
| event bus `services/event-bus`, `packages/event-bus` | last event per type, SSE clients | publish, subscribe, `/last` | a restart loses no reload |
| lifecycle watchers `services/ingestion/src/lifecycle/*` | socket, `disconnectedAt`, refills under way | connect, close, watchdog, settlement, gap refill | the gap starts before what was missed; every settlement is written in the end |
| resolution monitor `services/ingestion/src/resolution-monitor.ts` | checkpoint (read from the table) | poll, early exit | it reaches what the push path lost |
| scrapers, pipeline stages, LLM client | cursors, caches | sequential | — |

### How they interact

* Adapters call back synchronously into `onPriceUpdate` (through the manager) and
  `markStaleByIds`. All of that, the timers and the continuations of awaits run
  on one Node event loop; what interleaves is the code between two awaits.
* `solveDirty` awaits worker threads, `setImmediate` and PostgreSQL. During each
  of these awaits, prices, staleness, the reload poller and the belt refresh run.
* `reloadGraph` replaces the clusters first and the maps keyed by cluster id last,
  with a query, subscriptions, an UPDATE and a publish between them.
* `writeAndPublishResolution` is called by every lifecycle watcher, by the gap
  refill, by the resolution monitor and by the solver, each in its own process.
  They meet in the row of the market only. The pipeline writes the same row
  without that package.
* With `config.clob.ioThread` the manager and its adapters run in a worker thread
  and talk to the solver through the messages of `clob/io-thread`; `IoThread`
  models that layer, `ResolutionEviction` the manager without it.
* The event bus carries `markets/resolved` and `graph_updated`. Nobody subscribes
  to `markets/resolved`; the solver polls both the bus and the table.

### Behaviours that are hard to test

The list with its lines is `hazards` in `PROJECT.json`. In short: updates during a
running solve; ids held across an await while a reload renumbers them; a mask and
the states it describes kept in two objects; a thrown INSERT in the middle of a
batch; a sequence gap while frames still arrive on the socket being closed;
reconnects started from three places; a market assigned to a connecting socket;
two writers that both read "not resolved"; a crash between COMMIT and publish; a
resolution written between two awaits of a reload, or after the poll that would
have seen it; a worker that dies with a batch, or between two; a REST book older
than the deltas applied while it was awaited; an event that overtakes a batch; a
second disconnect before the first gap was refilled; a quote that ages between a
tick's `now` and the LP built in it.

## 2. Modules

| Module | Models |
| --- | --- |
| `SolverRuntime` | the event loop: `index.ts` with `prepareClusterForSolve`, `processResult`, persistence |
| `SolverPool` | `solver-pool.ts` and its workers, between `solveBatch` and its promises |
| `BatchPromise` | abstract: every LP of a call is answered at most once, at its place |
| `KalshiFeed` | one shard: `base-sharded.ts` and `kalshi.ts`, with the staleness it drives |
| `PolymarketBook` | one shard: `polymarket.ts`, with the REST resync |
| `IoThread` | `io-host.ts` and `io-worker-main.ts` with the messages between them |
| `OrderedFeed` | abstract: events reach the callbacks in order, none skipped |
| `ResolutionEviction` | the resolution poll, `handleResolutionEvent`, the reload's load, gate and subscriptions, `ClobManager`, on the rows other processes write |
| `ClusterOmega` | the possible worlds of clusters: loader filters, belt and latch, components, enumeration, repair, cache, liveness demotion |
| `ResolutionWrite` | concurrent `writeAndPublishResolution` and `bulkUpsertMarkets` |
| `ResolutionRow` | abstract: a row whose two columns are written once |
| `SettlementCatchUp` | a lifecycle watcher with its gap refill, and the resolution monitor behind it |
| `SolverRuntimeProofs`, `SolverPoolProofs`, `KalshiFeedProofs`, `PolymarketBookProofs`, `IoThreadProofs`, `SettlementCatchUpProofs`, `ClusterOmegaProofs` | the theorems of these modules |
| `ResolutionProofs` | the theorems of `ResolutionWrite` and of `ResolutionEviction` |
| `MC…` | the small instances |

Three modules implement an abstract one: `SolverPool` implements `BatchPromise`
(`KeepsPromise`, with the mapping `Outcomes`), `IoThread` implements `OrderedFeed`
(`KeepsOrder`) and `ResolutionWrite` implements `ResolutionRow` (`RowSpec`). The
modules meet where the code does: `SolverPool` is the await that
`SolverRuntime.BatchSettles` takes for granted; `KalshiFeed` and `PolymarketBook`
drive the staleness that `SolverRuntime.QuoteStale` and `ResolutionEviction` only
choose; the rows that `ResolutionEviction.OtherWrites` chooses are those of
`ResolutionWrite`, and `SettlementCatchUp` says when they are written. `ClusterOmega`
says what the state spaces contain of which `SolverRuntime` only knows whether they
are demoted.

`map` in `PROJECT.json` gives the source lines of every definition. Definitions
commented as *mutants* are deliberately wrong variants of the definition after
them; they are used in no specification.

### SolverRuntime

One action is one turn of the event loop, that is, the code between two awaits that
really wait. `phase` says where the running `solveDirty` stands:

| phase | in the code |
| --- | --- |
| `idle` | not running |
| `run` | in the loop over `toSolve`; no other callback can run |
| `yielded` | after `setImmediate` (every `yieldEvery` clusters) |
| `batch` | awaiting `solverPool.solveBatch` |
| `apply` | about to handle the first LP of `built`; no other callback can run |
| `persist`, `graded` | awaiting the INSERT, or the graded upsert |

| State | In the code |
| --- | --- |
| `graph` | `clusterById`; a cluster id is a name for a component only under one numbering |
| `dirty`, `timer`, `solving`, `queue`, `built` | `dirtySet`, `solveTimer`, `solving`, the rest of `toSolve`, the batch |
| `masks`, `demoted` | `livenessMasks` (entries that demote a set); whose `validStates` are enumerated demoted |
| `lastSolve`, `certs` | `lastSolveFingerprint`, `dualCerts` |
| `book` | the price cache per component: content, and `full`, `aged`, `partial` or `dark` |
| `late` | quotes that passed their TTL after the running `solveDirty` took its `now` |
| `rows`, `gradedRows`, `activeArbs` | the table by its unique key, and the map |
| `reload` | which await `reloadGraph` is at |

`gen`, `cacheGen`, `unseen`, `solveError` and `reloadError` are history: they say
which graph is served, which one the maps were last cleared for, which
components changed since a prepare last looked at them, and which errors were
logged. No guard reads the last three.

Main abstractions. The LP is a constant set of contents that admit an arbitrage;
grade, ε-tripwires and solver errors are choices. Losing a quote for age and for
staleness differ, because an unchanged push revives the former and does not make
the cluster dirty. A tick has two clocks: mask, quoted fraction, fingerprint and demotion
use the `now` of its start, `buildLP` reads the cache at `Date.now()`
(`solve-core.ts:436`, `lp-builder.ts:115-117`). A quote may age at any moment; during a tick
it goes into `late`, the tick goes on seeing it (`Seen`), and an LP built from then on has
no legs for it (`lp.late`), so that it may have no arbitrage (`MayLackArb`) and a
structure of its own. The worker pool answers every batch (`SolverPool` says when it
does). The batch phase also covers the facet engine, whose LPs are solved by
other code but are gathered and applied the same way.
`staleOnDisconnect` has its default. Only resolved and disconnected markets lose
quotes; `ResolutionEviction` has the resolution poll itself. Reloads do not overlap:
the poller is a `setInterval` of 60 s, so two would overlap only if one took
longer than that. The expiry UPDATEs are one step.

### SolverPool, BatchPromise

A job is an LP under a process-wide number. `SolveBatch` is the whole call up to its
`await`: numbering, `pending`, longest-processing-time chunking, one message per
worker. A worker takes one chunk at a time (`Solve`) and posts one reply. Node's
worker threads are external: a worker may die at any moment (`Dies`) with or without
an `error` event, and its exit is delivered after what it had posted. The exit handler
acts on nonzero codes only (`solver-pool.ts:72`): after an exit with code 0 (`Deaths`)
`OnExit` changes nothing, the jobs of that worker stay pending, and a gate still closed
stays closed. `Settle` is `settle`: results whose job is no longer pending are
ignored. `FailAllPending` is what every other death does to *all* jobs, those of healthy
workers included; their replies come later and find nothing. `stranded` is history:
the jobs no event will settle, posted to a worker whose exit had been handled or
unanswered by one that exited with code 0. The solution of an LP is
`"solved"` or `"error"`; costs are abstracted to small numbers.

### KalshiFeed

A book is a number of changes and a flag: *exact* while every change up to the
number was applied once, in order. The exchange, the network and the transport are
external: frames arrive in order on a socket, may be lost, and go on arriving
while a socket closes (`ws.close()` starts a handshake). A frame that does not parse
is lost like one that never came (`FrameLost`). One whose handler throws after `checkSeq`
is swallowed by the same `catch`, but its number has been counted (`HandlerThrows`): the
book misses it without a gap, or has it while the price cache does not. `expected = 0` is
`expectedSeq = null`. `TimerFires`, `Opens`, `Closes`, `Deliver`,
`Subscribe`, `Unsubscribe` and `Stop` are the handlers of the skeleton with the
hooks Kalshi overrides; `CheckStarts` … `Reanchor` are the turns of the REST
cross-check. One shard: shards share nothing but the running flag and the
price cache, and ids are never moved between them. Ping and pong are left out: the
code sends pings and waits for no answer.

### PolymarketBook

Nothing is numbered. A `book` frame is the whole book, a `price_change` sets one level
to an absolute size and states the server's best prices, so what matters is *which*
sizes a book has: the size of a level is the number of its changes, and a frame
carries the book at the exchange when it was sent. `TakeChange` is one change of
`handlePriceChange` with all it calls: `emitBest`, which does not publish a crossed
book, and `verifyAgainstServerBest` with its streak. That a book is crossed or that
its best prices differ is a choice open only while the book differs from the
exchange's. `Resyncs` is the cooldown, `RestReads` the moment the REST server reads
its book, `RestAnswers` the rest of `resyncAsset` after its await, `RestFails` its
fallback. Connecting and `stop()` are those of `KalshiFeed`; a shard is open or
down. Three histories: `astray`, the books that lost a frame or took a REST answer
older than a frame applied, or whose connection was closed, meanwhile; `sure` on a
request, that nothing came between; `owed`, the resyncs that have not ended.
Left out: the opt-in hash bootstrap, ladders, the book-health census. REST resync
has its default (on).

### IoThread, OrderedFeed

Both threads are there with the port between them. Events are numbered as the manager
emits them; a price goes to the batch (`EmitPrice`, with `ScheduleFlush` and the flush
at the limit), a staleness or resolution event flushes and posts
(`FlushThenPost`). `Begin`, `Finish` and `CommandFails` are the command queue:
`drainCommands` returns at once while draining. Cross-check requests ride beside it.
`Dies` and the delivery of `error` and `exit` are external. `late` is history: requests
posted after the exit was handled. Left out: the occupancy histogram and
`crosscheckDiag`, which are logged only, and what commands do inside the manager
(`ResolutionEviction`).

### ResolutionEviction

Per market the row, the cache entry and whether it is tracked; the poll, the event
handler and the reload each as the turns between their awaits. The poll compares
`resolved_at`, the time of the *event*, with the time of the last poll, so time is
an age: since the last watermark, since the one before, older. `Dating` is what the
writers put into `resolved_at`. `reload` has the steps load, gate (with the failing
query, which lets everything through), and the token query of Polymarket, after which
`Subscribes` records what is tracked. `missed` is history: a query that failed, or an
answer that found the market in a reload's hands. Other processes write rows when
they like. Overlapping reloads are left out, as in `SolverRuntime`.

### SettlementCatchUp

Markets are numbered in the order they settle, and a time is the number settled by
then. `conn` has four states of a connection because nothing is pushed before the
subscription is active and no disconnect time is on record then, and a fifth, `gone`: a
`connect()` that rejects without a close event, as when the auth headers cannot be made,
is logged and never tried again (`ConnectRejects`). `NotedGap` is `??=`. `FirstUnseen` is
`disconnectedAt` less the minute the refill adds; `TooLate` is the Kalshi watchdog,
whose 60 s of silence plus a ping interval of 10 s can exceed that minute.
`lost` is history: what the push path lost, each time by a cause the model names. The
monitor is two kinds of poll, chosen at the start: *newest* (`pollKalshi`,
`pollPredict`: newest first, ends after `SKIP_THRESHOLD` known markets in a row) and
*watermark* (`pollPolymarket`: from the newest row less an overlap). The page caps
(20 of the refill, 50 of a poll) are not reached; two refills from the same start are
one; a market is tracked or not for a whole behaviour. The Limitless watcher and
poll, which ask per market, are left out.

### ClusterOmega

The module is about data more than about interleaving: *Omega*, the set of worlds of a
cluster. A basket is an arbitrage if it pays in each of them, so a world too many costs
an opportunity and a world too few sells a loss as one. There are two readings, and
both are kept: the enumerated `states` (`vrep` and `hybrid` engines, tripwires) and the
facets, of which `FacetWorlds` is the set of 0/1 points (the default engine).

| State | In the code |
| --- | --- |
| `db` | `questions`, `outcome_sets`, `outcome_set_slots`, `implication_edges` |
| `graph` | `loadedGraph` with its `duplicateSuspectPairs` |
| `clusters` | per set of members: `outcomeSets`, `edges`, `validStates`, `degenerate`, `relaxed`, `omegaCompletenessDemotedSetIds`, the entry of `livenessMasks` |
| `latch`, `cache` | `ContainmentLatch`, `EnumCache` |

A load is one action: it reads one snapshot and computes. `Reload` is
`loadClusterGraphIncremental`, which the run monitor uses; `index.ts` calls
`loadClusterGraph`, the same with an empty cache. `RefreshPriceBelt` and `Prepare` (the
liveness demotion) are the two things that change clusters between loads. `Resolve`,
`ToggleEdge`, `Recertify` and `Recreate` are what Stage 4 and the resolutions do to the
tables; that they come one at a time, each between two loads, is an abstraction:
Stage 4 rewrites its tables statement by statement, and a load in the middle of that
is not modelled. `source` and `freed` are history: the tables as last read, and the
pairs that a set freed by the bids had made exclusive, each with the next set id of the
tables it was read from (`serial`, the sequence behind `outcome_sets.id`).

Data. A question with a slug that implies another's is in `Fused`. Best bids are a set
of questions bid high: two of them exceed 1 plus the slack, one and any number of
others do not. Confidence, basis risk and `near_equivalence` only connect questions.
`cartesianProduct` lets a later group overwrite a shared question, and so does
`Product`. A dropped cluster gets its facets checked by HiGHS, which answers
*infeasible* only if there is no world (`Infeasible`). The cap of 20 000 facets, the
duplicate gate, the independent-bundle belt, the zero-overlap tell and sets of type
*tournament* or *bundle*, whose slots are free, are left out.

### ResolutionWrite

A call is `Select` (the locked SELECT with its early returns), then
`UpdateAndCommit` or `Aborts`, then `Publish` or `PublishLost`. Transactions are
READ COMMITTED and PostgreSQL's row lock is modelled as such. The pipeline's upsert
is one statement: it waits for the lock and publishes nothing. `Resolved` and
`FillRow` are the guards and the SET clause shared by both. `resolution_source`,
`status` and `updated_at` are left out.

## 3. Runs

| Run | Shows |
| --- | --- |
| `solver_pool` | with worker threads, two components, four numberings, two updates, two losses, one reload or belt rebuild and one database error, the safety properties of the loop |
| `solver_serial` | the serial path with the graded channel under fairness: `EveryUpdateSeen` |
| `pool_jobs` | two calls that may overlap, two workers that may both die in each of the three ways, shutdown: the pool's invariants, its refinement and `BatchReturns` |
| `kalshi_feed` | two markets, two sockets, a frame lost or thrown away, the cross-check on: the four safety properties and `SubscribedCatchesUp` |
| `polymarket_book` | one asset with two levels, two faults, two subscription changes, any number of REST requests: published books, repairs |
| `io_thread` | two events, three commands, one request, a death: order, commands, settlement |
| `eviction` | a market that announces and one that does not, polls and reloads without bound: the three eviction properties |
| `catch_up` | three settlements, one perhaps untracked, two faults (one may end the watcher's attempts to connect), both kinds of poll: the gap window, the monitor |
| `omega` | four questions; a pair with a ladder, a triple, a pair within a triple, a pair whose repair succeeds, constraints without a world; six edges; high bids on two pairs; two changes of the tables: the four properties of the worlds |
| `resolution_write` | three writers, two markets, two winners, two timestamps: the invariants and the refinement `RowSpec` |
| `solver_update_lost` | finding 1 |
| `pool_hang` | finding 2 |

### Properties

**Event loop.** `NoLostWakeup` (dirty implies an armed timer or a running solve):
`scheduleSolve` ignores calls while solving, so this rests on where `finally` clears
the flag and re-arms. `UpdatesCovered` says more: a changed component is queued
*under the id it has now*, also when its id changed while it was queued.
`EveryUpdateSeen` is the liveness side. `DedupSound` and `PreparesSoundOmega` are about
ids, maps and state spaces: a fingerprint skips an equal LP only, and no LP with a
slot unquoted at the start of its tick is built over the full state space. Both are
about the tick's `now`: a quote that ages between it and `buildLP` leaves an LP without
its legs whose fingerprint has it, over states prepared with it. `DedupSound` excepts
those legs and nothing else (the LP skipped and the one recorded differ in `late` at most),
and `PreparesSoundOmega` reads `level` as the tick saw it. They are claimed while
`cacheGen = gen`; the window of a reload in which they fail is bounded by
`ReloadFinish` (section 5). `OneDrain` and `MasksMatchStates` are the parts of the
inductive invariant below them and are proved, not run.

**Solver pool.** `NoSilentLoss`: a job that is awaited and not stranded has something left
that will settle it. `KeepsPromise`: the refinement. `BatchReturns`: every call returns,
unless one of its jobs is stranded or the pool was terminated. So a crash in any state is
covered, one already handled when the call is made and an exit with code 0 are not.

**Kalshi.** `OneSocket`, `OpenMeansSubscribed`, `SequencedBooksExact`, `FreshMeansFed`
and `SubscribedCatchesUp`: a shard never has two sockets (else every delta is
applied twice), subscribes late assignments, has only exact books while its
sequenced connection is open, serves nothing fresh behind a closed socket, and
catches up with the exchange. What they except is what sequence numbers cannot show: a
lost frame that no later frame follows (`SubscribedCatchesUp`), and a frame whose handler
threw after it was counted (both, `from = "lapsed"` and `lossy`).

**Polymarket.** `PublishedRight`: each level of a published book that is not astray has
the size of the exchange, or the change to it is on the wire. It is why deltas wait for
the founding snapshot and why a close clears the flags. `FreshMeansFed`, that
behind a closed socket only a late REST answer keeps a quote fresh, is proved and not run.
`RepairArrives`: a resync ends in a new book or in the loss of the frame that carried it.

**IO thread.** `KeepsOrder`: the refinement; an event never overtakes the batch.
`CommandsAddUp`: once all commands are acknowledged the worker tracks what they add up
to. `RequestsSettle`: nothing waits for ever for a dead worker unless it was posted after
the exit was handled.

**Eviction.** `EvictedForGood`: a resolution the poll can still see ends the subscription
and no reload undoes that. `NoRevival`: a reload does not subscribe a market that was
resolved before it began. `LiveMeansTracked`: whatever ends a subscription takes the
quote out, too.

**Catching up.** `GapCovered`: through any order of drops, failed attempts, refills and
crashes, a settlement has its row, is in hand, lies behind a gap's start, or was lost
to a named cause. `EverySettlementLands`: the monitor writes what the push path lost,
unless it is `Buried`.

**Worlds.** `NoWorldLost`: whatever is filtered, freed, latched, split, repaired, cached or
demoted, each cluster keeps every world the tables allowed when they were read, also the
worlds of questions that are no longer live. `BothValues`: a question of a solvable
cluster is true in one world and false in another, whatever is unquoted, since otherwise
the other side of it is free money. Dropped clusters are excepted: the code only asks
whether their facets are feasible. `SameReading`: states and facets describe the same
worlds. Both are claimed of clusters that are `Regular`: whose sets share no slot, whose
constraints have a world, and whose cached demotion names the sets that are there; the
code takes each of these for granted, and `BothValues` fails without any of them (section
5). `RefutedStaysOut`: while the persisted sets share no slot, no loaded set that was there
when the bids freed a pair makes that pair exclusive. Each freed pair carries the value that
the sequence of set ids had, which tells the sets that were there from those that came later.
`NoWorldLost` needs none of these conditions.

**Rows.** `OneCreated`, `AnnouncedWinnerHolds`, `WinnerAnnounced`: one call reports
`created`; a winner that is announced is the row's; a winner filled in by a call is
announced unless a crash or the bus lost the event. Only the winner is compared: an
`amended` event carries the `resolvedAt` of its call, which may differ from the row's.

Each `TypeOK` also states the structural facts the module's proofs start from.

### Bounds

All bounds are constants spent by named actions, and limit how often the environment
acts, never what the code does in response.

* *SolverRuntime*: two components and numberings `<<a, b>>`, `<<b, a>>`, `<<a>>`,
  `<<b>>` are enough for an id to survive, to change hands and to vanish. They are
  closed under exchanging the components, so the safety run may take `MCSymmetry`. Two contents make a
  cluster go from quiet to arbitrage and back. One reload gives every interleaving of
  its four turns with a tick; a second one is covered by the proofs, which know no bound.
* *SolverPool*: batches `<<2>>` and `<<1, 1, 3>>` have ties, a heavy LP at the end and
  more LPs than workers; two calls overlap; with both workers dead nothing is left.
* *KalshiFeed*: two sockets let a new one coexist with a closing one; two markets let
  one market's frame reveal the other's gap.
* *PolymarketBook*: two levels, one delivered and one still missing; two faults, so
  that a frame is lost before and after a close. Assets share nothing but the socket.
* *IoThread*: a batch limit of two, so that a batch can be full and not.
* *ResolutionEviction*: polls and reloads are not bounded; markets share nothing but
  the poll, the reload and its gate.
* *SettlementCatchUp*: three settlements are one more than the threshold of two; two
  faults make a gap within a gap. Polls are not bounded.
* *ClusterOmega*: four questions hold a set, a ladder and an edge into each. `MaxStates` of
  7 is between the states of a repaired and of an unrepaired cluster and makes some drop;
  `FacetCap` of 3 makes some of those too large for the facets.
* *ResolutionWrite*: three writers are one more than a conflict needs.

Deadlock is checked for the writers, the eviction and the catching up, where a lock, a
poll or a timer chain must always go on; the others are quiet once the environment is. (In `ClusterOmega` a reload is always possible.)

### Fairness

Weak fairness of what the runtime drives; none of faults, losses, subscriptions
or the exchange, except where it answers a request.

* `SolverRuntime`: the solve and the reload. An armed timer fires, a worker answers,
  the database answers (it may refuse). The timer is pushed back by every update, so
  the assumption includes that the feed pauses for `debounceMs` (10 ms) now and then.
* `SolverPool`: a worker that is up takes its messages or dies, and the main thread
  handles the events of each worker.
* `KalshiFeed`: timers fire, a connecting socket opens, a closing one closes, frames
  arrive. A connecting socket may also be dropped, within the bound.
* `PolymarketBook`: a shard that is down connects, frames arrive, the exchange sends
  the snapshot it was asked for, a request ends (in an answer or a failure).
* `IoThread`: the worker loads, its timer and command loop run, a command ends, the
  host handles messages.
* `ResolutionEviction`: `main` goes on, the 60 s interval fires, queries end, a
  handler ends. Nothing is assumed of reloads.
* `SettlementCatchUp`: received frames are handled, the watchdog of a dead connection
  and the reconnect timer fire, REST answers when faults stop, the monitor's timer chain
  goes on.
* `ResolutionWrite` and `ClusterOmega` state no liveness.

## 4. Proofs

Checked by `tlapm`, for every value of the constants that satisfies the assumption
named in each module. Each argument is: the inductive invariant holds initially,
every action keeps it, and it implies the property.

**SolverRuntimeProofs.** Assumption `RuntimeAssumption`: a numbering is an
injective function into components; there is a content; bounds are naturals. The
inductive invariant is `TInv /\ DrainInv /\ CoverInv /\ MapInv`:

* `TInv` is `TypeOK` and *there is an LP at hand while results are handled*;
* `DrainInv` is `NoLostWakeup /\ OneDrain`; neither is inductive alone, since
  `ScheduleSolve` keeps the first only through the second;
* `CoverInv` adds to `UpdatesCovered` that once a reload has pruned the cache only
  served components are unseen; without that, `ReloadFinish` could not cover them;
* `MapInv` adds to `MasksMatchStates` what a recorded fingerprint stands for
  (`RecordedLpCurrent`): the component, numbering, states and mask of now. A
  fingerprint does not name the states, so `DedupSound` needs it. It is
  silent on `late`, which changes with the clock alone.

Theorems: `TypeCorrect`, `NoWakeupIsLost`, `OneDrainAtATime`, `UpdatesStayCovered`,
`MasksMatch`, `DedupIsSound` and the action property `SoundOmegaPrepared`.

**SolverPoolProofs.** `PoolAssumption`: at least one worker; batches are sequences of
naturals. `NothingSilentlyLost` needs that a pending job that is not stranded is in an
inbox, in an outbox or with a worker whose crash is still to be reported. `PoolKeepsPromise` needs
that job numbers of different calls are disjoint (`NumbersInv`) and that what is
under a job number in a message is the LP of that number (`AddressInv`); then each
step is a `Settle`, an `Ask` or a stutter of `BatchPromise`.

**KalshiFeedProofs.** `FeedAssumption`: finitely many tickers; the closed socket is no
socket. The invariant is `TypeOK /\ SafeInv /\ SeqInv`. `SafeInv`: only a socket that
is up carries frames, and the live one is the one the shard knows. `SeqInv` ties the
baseline to the wire: sequence numbers grow along it, consecutive frames of a ticker
are linked by one change, the first frame after the baseline continues the book, and
the newest version at the exchange is on the wire or in the book. A book whose frame was
thrown away has lapsed and leaves the chain (`LapsedIs`, `StreamTakes`). Theorems:
`TypeCorrect`, `OneSocketOnly`, `OpenIsSubscribed`, `BooksExact`, `FreshQuotesFed`.

**PolymarketBookProofs.** `BookAssumption`: naturals, `Streak` positive. Without
sequence numbers the invariant is about what is *still to come*: `Complete(w, n, a, b,
T)` says that what book `b` of asset `a` lacks of `T` is on the wire `w` behind place
`n`. It holds of every frame for the place it is at (`WireInv`), of every REST answer
that is `sure` (`RestInv`) and of every founded book that is not astray (`BookInv`)
for the whole wire. An append keeps it because the change that makes a book out of date
is the one appended; taking the head keeps it because the head is applied or its
asset is not complete. Theorems: `TypeCorrect`, `BooksRight`, `QuotesFed`.

**IoThreadProofs.** `IoAssumption`. The invariant `InOrder` puts delivered, posted and
batched events in a row without a gap. `CommandInv` follows every command while the
worker has not died: one without an answer is in exactly one place (on its way, queued,
in hand, or answered on its way back), and, unless one failed, the tracked markets are
the wanted ones but for the commands that are queued or in hand, the last word on a market
being the last of them that concerns it. Theorems: `TypeCorrect`, `CommandsAdd`, and
`FeedKept`, the refinement of `OrderedFeed`.

**SettlementCatchUpProofs.** `CatchUpAssumption`. `GapKept`: a disconnect time is on
record while a connection is being replaced and not while one is up; with it `GapCovered` is
inductive. Theorems: `TypeCorrect`, `GapsCovered`.

**ResolutionProofs.** The writers: assumption `WriteAssumption`: `Null` is no winner and no
time, `NoWriter` is no writer. The inductive invariant adds to the checked
properties: a call in `update` holds its row, and what it read is still true (`LockInv`),
a winner is never without a date (`DatedInv`), `created` is 0 while the row is
undated (`CreatedInv`), and a call about to publish a winner has the winner of the
row (`PendingHolds`). `CreatedOnce` fails without the lock clause: two writers would
both hold *not resolved*. Theorems: `TypeCorrect`, `CreatedOnce`,
`AnnouncementsHold`, `WinnersAnnounced`, and `WritersImplementRow`: the
concurrent system implements `ResolutionRow`, each step a `Fill` or a stutter.

The way out of the solver, `ResolutionEviction`: no assumption beyond `Polymarket` and `Announced` being markets. `ReloadInv` says what a reload has in
hand at each await: from the load on, no candidate was resolved when it began.
Theorems: `EvictionTypeCorrect`, `LiveQuotesTracked`, `ResolvedNotRevived`.

**ClusterOmegaProofs.** `OmegaAssumption`: finitely many questions; the tables start with
finitely many sets, each with an id of its own below the sequence. (That a question has one
place in a set is part of `Sets`, as it is a key of the table.) Four layers:

* *What one load makes of the tables.* `GraphsOf(d)` are the graphs with no set, slot or edge
  that the tables `d` do not have; the loader, the belt and the latch stay within them
  (`LoadedGraph`, `BeltFacts`, `LatchedGraph`). What a set says holds of its live part
  (`LiveSetSatisfied`), components cover the questions and no link leaves one
  (`ComponentFacts`): so a persisted world is a world of every cluster (`GraphWorlds`).
* *The two readings.* Whatever the sets, the states, if there are any, contain the worlds of
  the facets (`EnumerateComplete`); if no two sets share a slot they are the same
  (`EnumerateSame`). A ladder with a cleared rung has cleared all that follow (`ChainedFar`),
  and its states are its cutoffs (`GroupComplete`, `GroupSound`).
* *The cache.* Equal keys mean equal contents with equal counts (`KeyContents`). Between
  sets that share no slot this is a bijection, so the cap drops both or neither
  (`DroppedSame`) and a demotion replayed by id demotes the same contents
  (`ReplayedDemotion`). The last needs `Kin`: the sets an entry was made from agree in type
  and slots with whatever set of the present tables has their id.
* *The state.* The inductive invariant `Inv` says that the graph is one of the tables last
  read, that each cluster is `ClusterOK` for the sets and edges the graph gives it, that each
  cache entry is `EntryOf` sets that are `Kin` to the present tables (`CacheOK`), that no
  loaded set is latched, and that each freed pair is still in a set of the tables, which is
  latched or newer (`Remembered`). `Later`, which relates the tables of now to those last
  read, is needed because a refresh of the belt frees pairs of the old tables while the
  pipeline goes on.

The properties as they are checked are not inductive: `SameReading` says nothing of a cache
entry until it is hit, and `BothValues` nothing of a cluster while its facets have no world.
Theorems: `TypeCorrect`, `NoWorldIsLost`, `EnumerateSame`, `ReadingsAgree`,
`BothValuesShown`, `RefutedIsKeptOut`. `NatInduct` is induction for a set of naturals, by
way of its least missing member; it carries the proofs about `LiveSlots`, a recursive
function, and about ladders.

**Only model-checked:** liveness, which is beyond the prover: `EveryUpdateSeen`,
`BatchReturns`, `SubscribedCatchesUp`, `RepairArrives`, `RequestsSettle`, `EvictedForGood`
and `EverySettlementLands`. Every invariant, action property and refinement that a run
checks is also proved.

## 5. Findings

1. **An update can be lost** (`solver_update_lost`). `persistOpportunity` is a plain
   INSERT and the table has a unique key. The second detection of a basket makes
   `solveDirty` reject; `dirtySet` was emptied before, the handler only logs, so the
   clusters of that tick not yet reached wait for their next price.
2. **A batch waits for a dead worker** (`pool_hang`). A worker that died stays in
   `this.workers`; the next call posts it a chunk and awaits it for good, with
   `solving` set. The run's property grants that no worker exits with code 0, which the
   handler ignores (`solver-pool.ts:72`): jobs out at such a worker are not settled
   either, nor is `ready()` if it had not reported. The worker's own code never exits so.

Further divergences met while modelling, each in the models as the code has it, with no
run of its own:

* The poll's watermark is the time of the last poll, and it is compared with the time of
  the event, not of the write: a row committed late is seen by no poll, although
  `docs/graph-clob-architecture.md:212` lists the poll as an eviction trigger.
  `EvictedForGood` speaks of rows the next poll can see.
* The enumeration cache is addressed by content without set ids and stores a demotion as
  set ids (`solve-core.ts:317`). A hit for a set that was deleted and inserted again keeps
  Σ=1 beside repaired states, and the facets pin what the repair had freed. Only the run
  monitor reloads through the cache.
* Constraints that exclude every world are not degenerate: both gates look at clusters
  with states (`solve-core.ts:160,167`; the comment says such a cluster is never
  solved). When a slot of its exhaustive set loses its quote, the relaxed worlds pin
  questions, and the cluster is solved.
* A set the bids refuted is remembered by id (`intra-set-containment-belt.ts:66`) and
  believed again when it returns under another one.
* Of two sets that share slots the enumerator overwrites the first (`state-enumerator.ts:190`),
  the facets keep both (`facet-lp.ts:40` says that they describe the same polytope). A pair
  within a triple, both exhaustive, pins the third question in the facets, and the
  completeness check, which looks at the states, does not see it.
* Between the swap of clusters and the clear of `livenessMasks` at the end of
  `reloadGraph`, a tick can build an LP over the states of another cluster
  (`vrep` and `hybrid` engines).
* A reload expires rows whose cluster id has no cluster, and `persistence.ts:109` says
  opportunities "no longer detected".
* An LP is built on a later clock than its mask and its fingerprint
  (`solve-core.ts:436`): one that lost the legs of a quote which aged in between is recorded
  as if it had them, and when the quote returns unchanged the cluster is skipped
  (`cluster-fingerprint.ts`), though its LP would be another one.
* A lifecycle `connect()` that rejects before there is a socket is logged by
  `scheduleReconnect` and not retried (`base-watcher.ts:116-118`, `kalshi-lifecycle.ts:78-84`):
  the watcher's push path is over, and only the monitor is left.
* A Kalshi frame whose handler throws has had its sequence number counted
  (`kalshi.ts:144-164`): the book misses a change and no gap shows it.
* After a Kalshi sequence gap the frames that still arrive on the closing socket are
  applied to the partial book and published (`kalshi.ts:236`; `base.ts:98-101` speaks of
  closing that window).
* `writeResolution` returns `amended` for a second call without a winner, which fills in
  nothing (`docs/CONTRACTS.md:166`).
* `IoHost.stopAll` on a worker whose death was handled posts a command nobody answers
  and does not return (`io-host.ts:177`; its comment says shutdown cannot hang).
* A Polymarket REST answer awaited across a close founds the book again, with its flag
  and its quote (`polymarket.ts:112` says the close clears them); a mismatch found
  during the cooldown resets its streak and is dropped.
* The monitor "catches the rest within `interval`" (`resolution-monitor.ts:5-6`), but a
  settlement behind `SKIP_THRESHOLD` known ones, or behind a newer row that another
  process wrote, is reached by no poll: `Buried` in `SettlementCatchUp`.

## 6. Not modelled, and what is left

Out of scope: building and solving the LP and the grading tables (floating-point
optimisation, pure), the identity sentinel and the measurements of the run
monitor (nothing depends on them), scrapers, pipeline stages and the LLM client
(sequential, mostly text).

Most lines of the repository are in that list. The stages of the pipeline alone
(`stage1-normalize`, `stage3-events`, `stage4-events`, the entity knowledge base and
the soundness regression scripts) are tables of regular expressions, series names and
guards over market titles, each a pure function of a string and a row: a model that
abstracts the strings has nothing left, and one that keeps them is the program again.
The modules here therefore cover a small share of the lines and most of the code that
keeps state across an await, a message, a connection or a process.

Left, in this order:

1. `ReloadPoller`: the last event per type on the bus, its restart, and the timestamps
   the solver compares; overlapping reloads.
2. The Limitless watcher and poll, and the socket.io rejoin of `limitless.ts`.
3. `persistOpportunity` and the expiry as a module of rows with an abstract
   specification of *what is detected is current*.
4. Rate limiter and single-flight of the LLM client.
