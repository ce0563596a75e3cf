-------------------------- MODULE ResolutionEviction --------------------------
(***************************************************************************)
(* How a resolved market leaves the solver: the resolution poll and         *)
(* handleResolutionEvent of index.ts, reloadGraph with the live gate, and   *)
(* ClobManager with the adapters in the same thread.                        *)
(*                                                                         *)
(* The poll compares resolved_at, the time of the EVENT, with the time of   *)
(* the last poll, so time is kept as an age: 0 for an event since the last  *)
(* watermark, 1 for one since the watermark before, 2 for an older one.     *)
(* Outside the solver, the ingestion processes write rows when they like.   *)
(*                                                                         *)
(* The specification's own names carry the name of the component, so that a *)
(* module can extend this one and ResolutionWrite.                          *)
(***************************************************************************)
EXTENDS Naturals, FiniteSets

CONSTANTS
  MarketIds,     \* ids of the markets the solver may track
  Polymarket,    \* markets whose subscription asks the database for tokens first
  Announced      \* markets whose socket announces a resolution

ASSUME EvictionAssumption ==
  /\ Polymarket \subseteq MarketIds
  /\ Announced \subseteq MarketIds

VARIABLES
  settled,   \* markets whose outcome is known on the platform
  age,       \* age of the event, or of resolved_at once the row has it
  row,       \* "open", "undecided" (resolved_at alone) or "resolved"
  up,        \* main() has started the poll
  cache,     \* price cache entry: "none", "empty", "live" or "stale"
  tracked,   \* trackedMarkets, which the adapters subscribe to
  handler,   \* handleResolutionEvent: "none", "write" or "evict"
  poll,      \* the resolution poll
  reload,    \* reloadGraph
  missed     \* history: markets a failed query kept the solver from evicting

db   == <<settled, age, row>>
evictionVars == <<db, up, cache, tracked, handler, poll, reload, missed>>

-----------------------------------------------------------------------------
Quiet == [at |-> "idle", ids |-> {}]

\* known: history, the rows with resolved_at when the reload began, and from
\* the load on those of them that are candidates.
NoReload == [at |-> "idle", cand |-> {}, add |-> {}, known |-> {}]

HasTime(m) == row[m] # "open"

EvictionInit ==
  /\ settled = {}
  /\ age = [m \in MarketIds |-> 0]
  /\ row = [m \in MarketIds |-> "open"]
  /\ up = FALSE
  /\ tracked \in SUBSET MarketIds
  /\ cache = [m \in MarketIds |-> IF m \in tracked THEN "empty" ELSE "none"]
  /\ handler = [m \in MarketIds |-> "none"]
  /\ poll = Quiet
  /\ reload = NoReload
  /\ missed = {}

-----------------------------------------------------------------------------
(* The platform and the other processes.                                   *)

Settles(m) ==
  /\ m \notin settled
  /\ settled' = settled \cup {m}
  /\ UNCHANGED <<age, row, up, cache, tracked, handler, poll, reload, missed>>

\* What a writer puts into resolved_at: the time of the event, the present
\* when the source gives no time, or a time of long ago (Predict's creation
\* date stands in for its resolution date).
Dating(m) == {age[m], 0, 2}

\* A watcher, the gap refill or the resolution monitor commits.
OtherWrites(m) ==
  /\ m \in settled /\ row[m] # "resolved"
  /\ \E with \in {"undecided", "resolved"} :
       /\ with # row[m]
       /\ row' = [row EXCEPT ![m] = with]
  /\ IF HasTime(m) THEN UNCHANGED age
     ELSE \E a \in Dating(m) : age' = [age EXCEPT ![m] = a]
  /\ UNCHANGED <<settled, up, cache, tracked, handler, poll, reload, missed>>

-----------------------------------------------------------------------------
(* Eviction: markStaleByIds, then unsubscribeMarket for each.               *)

\* Mutant: unsubscribed, and the quote left as it is.
UnsubscribeOnly(ids) ==
  /\ tracked' = tracked \ ids
  /\ UNCHANGED cache

Evict(ids) ==
  /\ tracked' = tracked \ ids
  /\ cache' = [m \in MarketIds |->
                 IF m \in ids /\ cache[m] # "none" THEN "stale" ELSE cache[m]]

\* handleResolutionEvent up to the write.  Duplicates of an event are
\* answered 'already_resolved'.
Announce(m) ==
  /\ up /\ m \in Announced \cap settled \cap tracked
  /\ handler[m] = "none"
  /\ handler' = [handler EXCEPT ![m] = "write"]
  /\ UNCHANGED <<db, up, cache, tracked, poll, reload, missed>>

\* Only 'created' and 'amended' go on to the eviction.
OnOutcome(m) == IF row[m] = "resolved" THEN "none" ELSE "evict"

HandlerWrites(m) ==
  /\ handler[m] = "write"
  /\ handler' = [handler EXCEPT ![m] = OnOutcome(m)]
  /\ IF row[m] = "resolved" THEN UNCHANGED row
     ELSE \E with \in {"undecided", "resolved"} : row' = [row EXCEPT ![m] = with]
  /\ IF HasTime(m) THEN UNCHANGED age
     ELSE \E a \in {age[m], 0} : age' = [age EXCEPT ![m] = a]
  /\ UNCHANGED <<settled, up, cache, tracked, poll, reload, missed>>

HandlerFails(m) ==
  /\ handler[m] = "write"
  /\ handler' = [handler EXCEPT ![m] = "none"]
  /\ UNCHANGED <<db, up, cache, tracked, poll, reload, missed>>

HandlerEvicts(m) ==
  /\ handler[m] = "evict"
  /\ handler' = [handler EXCEPT ![m] = "none"]
  /\ Evict({m})
  /\ UNCHANGED <<db, up, poll, reload, missed>>

-----------------------------------------------------------------------------
(* The resolution poll.                                                    *)

\* lastResolutionPoll = new Date(): everything so far is before the watermark.
Watermark == age' = [m \in MarketIds |-> IF m \in settled /\ age[m] < 2
                                       THEN age[m] + 1 ELSE age[m]]

\* main() after startTracking: the first watermark.
Boot ==
  /\ ~up
  /\ up' = TRUE
  /\ Watermark
  /\ UNCHANGED <<settled, row, cache, tracked, handler, poll, reload, missed>>

\* A tick of the interval.  Bound: the query of the last tick has returned.
PollStarts ==
  /\ up /\ poll.at = "idle"
  /\ Watermark
  /\ poll' = [at |-> "asked", ids |-> {}]
  /\ UNCHANGED <<settled, row, up, cache, tracked, handler, reload, missed>>

\* Mutant: the query is given the watermark that has just been set.
SinceNow == {m \in MarketIds : HasTime(m) /\ age[m] = 0}

\* resolved_at > since, the watermark of the tick before.
SinceLast == {m \in MarketIds : HasTime(m) /\ age[m] <= 1}

PollQueries ==
  /\ poll.at = "asked"
  /\ poll' = [at |-> "rows", ids |-> SinceLast]
  /\ UNCHANGED <<db, up, cache, tracked, handler, reload, missed>>

\* The query rejects: the watermark has moved all the same.
PollFails ==
  /\ poll.at = "asked"
  /\ poll' = Quiet
  /\ missed' = missed \cup SinceLast
  /\ UNCHANGED <<db, up, cache, tracked, handler, reload>>

\* MarketIds a reload will subscribe without asking the database again.
InHand == IF reload.at = "answer" THEN reload.cand ELSE reload.add

\* unsubscribeMarket returns at once for a market that is not tracked yet.
PollEvicts ==
  /\ poll.at = "rows"
  /\ Evict(poll.ids)
  /\ poll' = Quiet
  /\ missed' = missed \cup (poll.ids \cap InHand)
  /\ UNCHANGED <<db, up, handler, reload>>

-----------------------------------------------------------------------------
(* reloadGraph.  Bound: one at a time.                                     *)

ReloadStarts ==
  /\ up /\ reload.at = "idle"
  /\ reload' = [NoReload EXCEPT !.at = "load", !.known = {m \in MarketIds : HasTime(m)}]
  /\ UNCHANGED <<db, up, cache, tracked, handler, poll, missed>>

\* Mutant: resolved markets are loaded, and let through, too.
AnyMarket(m) == TRUE

\* resolved_at IS NULL, in the loader's question query and in the gate's.
OpenInDb(m) == ~HasTime(m)

\* loadGraph: any questions the pipeline has published, of open markets.
ReloadLoads ==
  /\ reload.at = "load"
  /\ \E S \in SUBSET {m \in MarketIds : OpenInDb(m)} :
       reload' = [reload EXCEPT !.at = "gate", !.cand = S, !.known = @ \cap S]
  /\ UNCHANGED <<db, up, cache, tracked, handler, poll, missed>>

ReloadFails ==
  /\ reload.at = "load"
  /\ reload' = NoReload
  /\ UNCHANGED <<db, up, cache, tracked, handler, poll, missed>>

\* collectMarketsToTrack: the candidates are asked for once more.
GateQueries ==
  /\ reload.at = "gate"
  /\ reload' = [reload EXCEPT !.at = "answer", !.cand = {m \in @ : OpenInDb(m)}]
  /\ UNCHANGED <<db, up, cache, tracked, handler, poll, missed>>

\* The gate's query rejects: it fails open and keeps every candidate.
GateFails ==
  /\ reload.at = "gate"
  /\ reload' = [reload EXCEPT !.at = "answer"]
  /\ missed' = missed \cup {m \in reload.cand : HasTime(m)}
  /\ UNCHANGED <<db, up, cache, tracked, handler, poll>>

\* Mutant: the new markets are not entered.
EvictOnly(wanted) == [m \in MarketIds |-> IF m \in wanted THEN cache[m] ELSE "none"]

\* priceCache.track of every wanted market, and evict of every other.
CacheFor(wanted) ==
  [m \in MarketIds |-> IF m \notin wanted THEN "none"
                     ELSE IF cache[m] = "none" THEN "empty" ELSE cache[m]]

\* The cache, and updateSubscriptions up to its await: what
\* is no longer wanted goes, and what is new waits for its token map.
Tracks ==
  /\ reload.at = "answer"
  /\ LET new == reload.cand \ tracked
         later == new \cap Polymarket # {}
     IN /\ tracked' = (tracked \cap reload.cand) \cup (IF later THEN {} ELSE new)
        /\ reload' = IF later THEN [reload EXCEPT !.at = "expand", !.add = new] ELSE NoReload
  /\ cache' = CacheFor(reload.cand)
  /\ UNCHANGED <<db, up, handler, poll, missed>>

\* adapter.subscribe and trackSubs; a failed token map keeps the plain
\* subscription, so the answer does not matter here.
Subscribes ==
  /\ reload.at = "expand"
  /\ tracked' = tracked \cup reload.add
  /\ reload' = NoReload
  /\ UNCHANGED <<db, up, cache, handler, poll, missed>>

\* A price from a subscribed market: priceCache.update ends staleness, with a
\* quote or with the placeholder of an empty book.
PriceUpdate(m) ==
  /\ up /\ m \in tracked
  /\ \/ cache' = [cache EXCEPT ![m] = "live"]
     \/ cache' = [cache EXCEPT ![m] = IF @ = "live" THEN "stale" ELSE "empty"]
  /\ UNCHANGED <<db, up, tracked, handler, poll, reload, missed>>

-----------------------------------------------------------------------------
MarketStep(m) ==
  \/ Settles(m) \/ OtherWrites(m) \/ Announce(m)
  \/ HandlerWrites(m) \/ HandlerFails(m) \/ HandlerEvicts(m) \/ PriceUpdate(m)

PollStep == PollStarts \/ PollQueries \/ PollFails \/ PollEvicts

ReloadStep ==
  \/ ReloadStarts \/ ReloadLoads \/ ReloadFails
  \/ GateQueries \/ GateFails \/ Tracks \/ Subscribes

EvictionNext == Boot \/ PollStep \/ ReloadStep \/ \E m \in MarketIds : MarketStep(m)

EvictionSpec == EvictionInit /\ [][EvictionNext]_evictionVars

\* The timer ticks, a query returns or rejects, and a handler runs on.
\* Nothing obliges a reload to begin, a market to settle or a row to be written.
FairSpec ==
  /\ EvictionSpec
  /\ WF_evictionVars(Boot)
  /\ WF_evictionVars(PollStarts) /\ WF_evictionVars(PollQueries \/ PollFails) /\ WF_evictionVars(PollEvicts)
  /\ \A m \in MarketIds : WF_evictionVars(HandlerWrites(m) \/ HandlerFails(m))
                        /\ WF_evictionVars(HandlerEvicts(m))

-----------------------------------------------------------------------------
(* Properties.                                                             *)

\* Types, and: a tracked market has a cache entry, a reload has markets to add
\* only while it waits for their tokens (index.ts reloadGraph, main).
EvictionTypeOK ==
  /\ settled \subseteq MarketIds
  /\ age \in [MarketIds -> 0..2]
  /\ row \in [MarketIds -> {"open", "undecided", "resolved"}]
  /\ up \in BOOLEAN
  /\ cache \in [MarketIds -> {"none", "empty", "live", "stale"}]
  /\ tracked \subseteq MarketIds
  /\ handler \in [MarketIds -> {"none", "write", "evict"}]
  /\ poll \in [at : {"idle", "asked", "rows"}, ids : SUBSET MarketIds]
  /\ reload \in [at : {"idle", "load", "gate", "answer", "expand"},
                 cand : SUBSET MarketIds, add : SUBSET MarketIds, known : SUBSET MarketIds]
  /\ missed \subseteq MarketIds
  /\ \A m \in tracked : cache[m] # "none"
  /\ \A m \in reload.add : reload.at = "expand" /\ cache[m] # "none"

\* A resolved market is not subscribed again by a reload that began after its
\* resolution was written, even when the gate's query fails (graph/loader.ts,
\* live-gate.ts; an eviction that a later reload undid would last).
NoRevival == [][\A m \in tracked' \ tracked : m \notin reload.known]_evictionVars

\* A quote the LP may use belongs to a market whose feed is on: whatever ends
\* a subscription also takes the quote out (index.ts, the three callers of
\* unsubscribe; price-cache.ts markStaleByIds and evict).
LiveMeansTracked == \A m \in MarketIds : cache[m] = "live" => m \in tracked

\* resolved_at is in the row and lies after the last watermark.
Visible(m) == up /\ HasTime(m) /\ age[m] = 0

\* A resolution the poll can still see ends the subscription for good, unless
\* a query failed or the answer found the market in a reload's hands
\* (index.ts, the resolution poll; manager.ts unsubscribeMarket).
EvictedForGood ==
  \A m \in MarketIds : Visible(m) ~> ([](m \notin tracked) \/ m \in missed)
=============================================================================
