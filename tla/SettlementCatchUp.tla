--------------------------- MODULE SettlementCatchUp ---------------------------
(***************************************************************************)
(* How a settled market gets its resolution row in the ingestion service:   *)
(* the lifecycle watcher's push feed with its REST refill after every gap,  *)
(* and the resolution monitor that polls behind it.                         *)
(*                                                                         *)
(* Markets are numbered in the order they settle, which is also the order   *)
(* of every time the code compares: a time t stands for the markets settled *)
(* up to t.  KalshiLifecycleWatcher and PolymarketLifecycleWatcher share    *)
(* one shape; `poller' tells their two pollers apart.                       *)
(*                                                                         *)
(* Sources: services/ingestion/src/lifecycle/base-watcher.ts,               *)
(* kalshi-lifecycle.ts, polymarket-lifecycle.ts, gap-refill.ts,             *)
(* services/ingestion/src/resolution-monitor.ts and index.ts.               *)
(***************************************************************************)
EXTENDS Integers, FiniteSets

CONSTANTS
  MaxSettled,     \* bound: markets that settle in a behaviour
  TrackedSets,    \* choices of the markets that have a row in `markets'
  SkipThreshold,  \* known markets in a row that end a newest-first poll
  Overlap,        \* how far behind the newest row a watermark poll starts
  LateWatchdog,   \* silence may last longer than the refill overlaps (60 s)
  MaxFaults       \* bound: disconnects, failures and crashes together

ASSUME CatchUpAssumption ==
  /\ MaxSettled \in Nat /\ MaxFaults \in Nat
  /\ SkipThreshold \in Nat \ {0} /\ Overlap \in Nat
  /\ LateWatchdog \in BOOLEAN
  /\ \A T \in TrackedSets : T \subseteq 1..MaxSettled

Markets == 1..MaxSettled
Times == 0..MaxSettled

VARIABLES
  poller,    \* "newest" (pollKalshi, pollPredict) or "watermark" (pollPolymarket)
  inDb,      \* markets the resolution writer can find
  n,         \* how many have settled
  row,       \* markets with resolved_at
  conn,      \* "boot", "connecting", "open" (subscribe sent), "live", "gone"
  quiet,     \* the TCP connection is dead and no close event has come
  wire,      \* pushed on the socket, not received
  handling,  \* received, write not finished
  gap,       \* disconnectedAt, 60 s earlier: {} is null
  refills,   \* starts of the refills under way
  poll,      \* the monitor's poll under way
  lost,      \* history: what the push path lost, by a named cause
  faults

vars == <<poller, inDb, n, row, conn, quiet, wire, handling, gap, refills,
          poll, lost, faults>>
socket == <<conn, quiet, wire, gap>>
kind == <<poller, inDb>>

Idle == [on |-> FALSE, todo |-> {}, known |-> 0]

\* Types; only markets with a row in `markets' are written, only settled ones are
\* in hand, and a gap starts in the past.
TypeOK ==
  /\ poller \in {"newest", "watermark"}
  /\ inDb \subseteq Markets /\ row \subseteq inDb
  /\ n \in Times
  /\ conn \in {"boot", "connecting", "open", "live", "gone"}
  /\ quiet \in BOOLEAN
  /\ wire \subseteq 1..n /\ handling \subseteq 1..n /\ lost \subseteq 1..n
  /\ gap \subseteq 0..n /\ refills \subseteq 0..n
  /\ poll \in [on : BOOLEAN, todo : SUBSET Markets, known : Nat]
  /\ faults \in 0..MaxFaults

Init ==
  /\ poller \in {"newest", "watermark"}
  /\ inDb \in TrackedSets
  /\ n = 0 /\ row = {}
  /\ conn = "boot" /\ quiet = FALSE /\ wire = {} /\ gap = {}
  /\ handling = {} /\ refills = {}
  /\ poll = Idle
  /\ lost = {} /\ faults = 0

Fault == faults < MaxFaults /\ faults' = faults + 1

\* Mutant: a row for every market, tracked or not.
WriteAny(S) == row' = row \cup S

\* The resolution writer leaves a market without a `markets' row alone.
Write(S) == row' = row \cup (S \cap inDb)
Listed(since) == (since + 1)..n

---------------------------------------------------------------------------
(* The push feed *)

\* A frame goes out only to a subscription in force.  Before the first
\* connection of the process, and between the subscribe and its effect,
\* nothing is pushed and no disconnect time is on record; once the watcher is
\* gone, nothing reads the one there is.
Settles ==
  /\ n < MaxSettled
  /\ n' = n + 1
  /\ wire' = IF conn = "live" THEN wire \cup {n'} ELSE wire
  /\ lost' = IF conn \in {"boot", "open", "gone"} THEN lost \cup {n'} ELSE lost
  /\ UNCHANGED <<kind, row, conn, quiet, handling, gap, refills, poll, faults>>

Oldest(S) == CHOOSE m \in S : \A k \in S : m <= k

Receives ==
  /\ conn = "live" /\ ~quiet /\ wire # {}
  /\ wire' = wire \ {Oldest(wire)}
  /\ handling' = handling \cup {Oldest(wire)}
  /\ UNCHANGED <<kind, n, row, conn, quiet, gap, refills, poll, lost, faults>>

HandlerWrites(m) ==
  /\ m \in handling
  /\ handling' = handling \ {m}
  /\ Write({m})
  /\ UNCHANGED <<kind, n, socket, refills, poll, lost, faults>>

\* handleSettled(msg).catch logs; the frame is gone.
HandlerFails(m) ==
  /\ m \in handling /\ Fault
  /\ handling' = handling \ {m}
  /\ lost' = lost \cup {m}
  /\ UNCHANGED <<kind, n, row, socket, refills, poll>>

---------------------------------------------------------------------------
(* Losing and regaining the connection *)

\* What was on the wire of a working socket is less than 60 s old, so the
\* minute subtracted from disconnectedAt takes it in.
FirstUnseen == IF wire = {} THEN n ELSE Oldest(wire) - 1

\* After a silence the watchdog acts up to a ping interval past its timeout:
\* where the two add up to more than a minute, the start can be too late.
TooLate == quiet /\ LateWatchdog
GapStarts == IF TooLate THEN FirstUnseen..n ELSE {FirstUnseen}

\* Mutant: the latest disconnect counts.
LatestGap(since) == {since}

\* `disconnectedAt ??= new Date()': the first of several disconnects counts.
NotedGap(since) == IF gap = {} THEN {since} ELSE gap

Closes ==
  /\ conn \in {"open", "live"}
  /\ (quiet /\ UNCHANGED faults) \/ (~quiet /\ Fault)
  /\ \E since \in GapStarts :
       /\ gap' = NotedGap(since)
       /\ lost' = lost \cup {m \in wire : TooLate /\ m <= since}
  /\ conn' = "connecting" /\ quiet' = FALSE /\ wire' = {}
  /\ UNCHANGED <<kind, n, row, handling, refills, poll>>

DiesSilently ==
  /\ conn = "live" /\ ~quiet /\ Fault
  /\ quiet' = TRUE
  /\ UNCHANGED <<kind, n, row, conn, wire, handling, gap, refills, poll, lost>>

\* A refused or timed-out attempt emits `close' too.
ConnectFails ==
  /\ conn \in {"boot", "connecting"} /\ Fault
  /\ conn' = "connecting"
  /\ gap' = NotedGap(n)
  /\ UNCHANGED <<kind, n, row, quiet, wire, handling, refills, poll, lost>>

\* Kalshi's request cannot be signed: connect() rejects before there is a
\* socket to emit `close', the rejection is logged, and nothing tries again.
\* disconnectedAt stays, for no one to read.
ConnectRejects ==
  /\ poller = "newest"
  /\ conn \in {"boot", "connecting"} /\ Fault
  /\ conn' = "gone"
  /\ lost' = lost \cup {m \in 1..n : \E since \in gap : since < m}
  /\ UNCHANGED <<kind, n, row, quiet, wire, handling, gap, refills, poll>>

\* `open': subscribe, then handleReconnectRefill takes the gap.
Opens ==
  /\ conn \in {"boot", "connecting"}
  /\ conn' = "open"
  /\ refills' = refills \cup gap
  /\ gap' = {}
  /\ UNCHANGED <<kind, n, row, quiet, wire, handling, poll, lost, faults>>

SubscriptionActive ==
  /\ conn = "open"
  /\ conn' = "live"
  /\ UNCHANGED <<kind, n, row, quiet, wire, handling, gap, refills, poll, lost,
                 faults>>

---------------------------------------------------------------------------
(* The refill of a gap *)

RefillWrites(since) ==
  /\ since \in refills
  /\ refills' = refills \ {since}
  /\ Write(Listed(since))
  /\ UNCHANGED <<kind, n, socket, handling, poll, lost, faults>>

\* A failed page or write ends the listing where it is, `.catch(() => null)'.
RefillFails(since) ==
  /\ since \in refills /\ Fault
  /\ refills' = refills \ {since}
  /\ \E done \in SUBSET Listed(since) :
       /\ Write(done)
       /\ lost' = lost \cup (Listed(since) \ done)
  /\ UNCHANGED <<kind, n, socket, handling, poll>>

---------------------------------------------------------------------------
(* The resolution monitor: one poll at a time, the next one scheduled when   *)
(* the last has ended                                                        *)

\* getCheckpoint: the newest row, an hour back; a week back when there is none.
Checkpoint == IF row = {} THEN 0
              ELSE (CHOOSE m \in row : \A k \in row : k <= m) - Overlap

PollStarts ==
  /\ ~poll.on
  /\ poll' = [on |-> TRUE, known |-> 0,
              todo |-> IF poller = "newest" THEN 1..n
                       ELSE {m \in 1..n : m > Checkpoint}]
  /\ UNCHANGED <<kind, n, row, socket, handling, refills, lost, faults>>

\* Newest first, or in an order the API does not state.
NextListed(m) ==
  m \in poll.todo /\ (poller = "newest" => \A k \in poll.todo : k <= m)

\* Mutant: an untracked market is taken for a known one.
CountAll(m) == IF m \in inDb \ row THEN 0 ELSE poll.known + 1

\* The writer's outcome, and not a snapshot, says whether m was known.
Known(m) == IF m \notin inDb THEN poll.known
            ELSE IF m \in row THEN poll.known + 1 ELSE 0

PollWrites(m) ==
  /\ poll.on /\ NextListed(m)
  /\ Write({m})
  /\ poll' = IF poller = "newest" /\ Known(m) >= SkipThreshold THEN Idle
             ELSE [poll EXCEPT !.todo = @ \ {m}, !.known = Known(m)]
  /\ UNCHANGED <<kind, n, socket, handling, refills, lost, faults>>

PollEnds ==
  /\ poll.on /\ poll.todo = {}
  /\ poll' = Idle
  /\ UNCHANGED <<kind, n, row, socket, handling, refills, lost, faults>>

\* A page that cannot be fetched breaks the loop; a write that throws rejects
\* the poll.  What was written stays, and no checkpoint records the rest.
PollFails ==
  /\ poll.on /\ Fault
  /\ poll' = Idle
  /\ UNCHANGED <<kind, n, row, socket, handling, refills, lost>>

---------------------------------------------------------------------------
\* disconnectedAt lives in memory: a restart knows of no gap.
Crash ==
  /\ Fault
  /\ conn' = "boot" /\ quiet' = FALSE /\ wire' = {} /\ gap' = {}
  /\ handling' = {} /\ refills' = {} /\ poll' = Idle
  /\ lost' = 1..n
  /\ UNCHANGED <<kind, n, row>>

Next ==
  \/ Settles
  \/ Receives \/ \E m \in Markets : HandlerWrites(m) \/ HandlerFails(m)
  \/ Closes \/ DiesSilently \/ ConnectFails \/ ConnectRejects
  \/ Opens \/ SubscriptionActive
  \/ \E s \in Times : RefillWrites(s) \/ RefillFails(s)
  \/ PollStarts \/ (\E m \in Markets : PollWrites(m)) \/ PollEnds \/ PollFails
  \/ Crash

Spec == Init /\ [][Next]_vars

\* Received frames are handled, the watchdog and the reconnect timer fire, a
\* connection succeeds once attempts stop failing, REST answers, and the
\* monitor's timer chain never ends.
FairSpec ==
  /\ Spec
  /\ \A m \in Markets :
       WF_vars(HandlerWrites(m)) /\ WF_vars(PollWrites(m))
  /\ WF_vars(Receives) /\ WF_vars(quiet /\ Closes)
  /\ WF_vars(Opens) /\ WF_vars(SubscriptionActive)
  /\ \A s \in Times : WF_vars(RefillWrites(s))
  /\ WF_vars(PollStarts) /\ WF_vars(PollEnds)

---------------------------------------------------------------------------
(* What it is for *)

Settled == inDb \cap 1..n

\* The gaps that a refill lists or will list.
OpenGaps == refills \cup (IF conn = "gone" THEN {} ELSE gap)

\* Where the push path still has m in hand.
InHand(m) == m \in wire \cup handling \/ \E since \in OpenGaps : since < m

\* A settlement the watcher was subscribed for, or disconnected for, has its
\* row, or is in hand, whatever the order of drops, failed attempts and
\* reconnects: it is lost only by a cause the model names (a failed write, a
\* failed refill, a restart, the seconds before a subscription takes effect,
\* a silence longer than the overlap, a watcher that gave up connecting).
\* (base-watcher.ts handleReconnectRefill, the close and open handlers)
GapCovered == \A m \in Settled : m \in row \cup lost \/ InHand(m)

\* A poll that starts now will not come to m, and neither will a later one.
Buried(m) ==
  \/ /\ poller = "newest"
     /\ \E lo, hi \in (m + 1)..n :
          /\ inDb \cap lo..hi \subseteq row
          /\ Cardinality(inDb \cap lo..hi) >= SkipThreshold
  \/ /\ poller = "watermark"
     /\ \E k \in row : k - Overlap >= m

\* Whatever the push path loses, the monitor writes, unless the poll's way to
\* it is closed: by SKIP_THRESHOLD resolved markets in a row for the polls
\* that page newest-first, by a newer row for the one with a checkpoint.
\* (resolution-monitor.ts pollKalshi, pollPredict, pollPolymarket)
EverySettlementLands ==
  \A m \in Markets : (m \in Settled) ~> (m \in row \/ Buried(m))

=============================================================================
