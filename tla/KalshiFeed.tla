------------------------------ MODULE KalshiFeed ------------------------------
(***************************************************************************)
(* One shard of the Kalshi price adapter: the connection skeleton of        *)
(* clob/adapters/base-sharded.ts and the book reconstruction of             *)
(* clob/adapters/kalshi.ts, with the staleness flags it drives in the price *)
(* cache.                                                                   *)
(*                                                                         *)
(* A book is abstracted to the number of changes it contains.  The exchange *)
(* counts its own changes in truth; a snapshot frame carries that number, a *)
(* delta frame the number it leads to.  A local book is exact while every   *)
(* change up to its number has been applied once and in order; a delta that *)
(* does not continue it makes it a mixture that never existed.              *)
(*                                                                         *)
(* Frames travel in order on a socket, as on any WebSocket.  A frame is     *)
(* lost when the exchange skips it, when handleFrame cannot parse it, or    *)
(* when its handler throws: the number is spent, in the last case by the    *)
(* shard's own baseline, so that no gap shows.  The exchange takes a        *)
(* subscribe command at once; the latency is that of the frames it answers  *)
(* with.                                                                    *)
(***************************************************************************)
EXTENDS Integers, FiniteSets, Sequences, SequencesExt

CONSTANTS
  Tickers,     \* markets the daemon may subscribe
  Sockets,     \* sockets; one that has closed may be used again
  NoSocket,    \* shard.conn === null
  VerifyRest,  \* KALSHI_VERIFY_REST
  MaxMoves,    \* bound: changes of the books at the exchange
  MaxLosses,   \* bound: frames lost, or thrown away by their handler
  MaxDrops,    \* bound: sockets dropped by the network or the exchange
  MaxFaults,   \* bound: connection attempts that fail before a socket exists
  MaxChanges,  \* bound: markets subscribed or unsubscribed after start
  MaxChecks    \* bound: REST cross-checks

ASSUME FeedAssumption ==
  /\ IsFiniteSet(Tickers)
  /\ Sockets # {} /\ NoSocket \notin Sockets
  /\ VerifyRest \in BOOLEAN
  /\ {MaxMoves, MaxLosses, MaxDrops, MaxFaults, MaxChanges, MaxChecks} \subseteq Nat

VARIABLES
  truth,     \* external: changes of each book so far
  sock,      \* external: the transport's readyState
  wire,      \* external: frames sent on a socket and not yet delivered
  feeds,     \* external: tickers the exchange sends on a socket
  sent,      \* external: orderbook frames sent on a socket
  running,   \* this.running
  conn,      \* shard.conn
  timer,     \* shard.reconnectTimer # null
  ids,       \* shard.ids, and the keys of this.subscriptions
  expected,  \* shard.expectedSeq, 0 for null
  book,      \* yesBids and noBids of each ticker
  check,     \* the REST cross-check under way for each ticker
  fresh,     \* tickers whose price-cache entry is not stale
  lossy,     \* history: a frame was lost, or its handler threw, since the shard last connected
  used       \* steps used of each bound

network == <<truth, sock, wire, feeds, sent>>
shard   == <<running, conn, timer, ids, expected>>
books   == <<book, fresh>>
vars    == <<network, shard, books, check, lossy, used>>

-----------------------------------------------------------------------------
NoBook == [exact |-> FALSE, ver |-> 0, from |-> "none"]
Idle   == [phase |-> "idle", since |-> 0]

\* from: the book was last set by a snapshot of the shard's present
\* connection, or by the REST cross-check; a snapshot has lapsed when it is of
\* an earlier connection or a frame after it was thrown away.
Snapshot(v, from) == [exact |-> TRUE, ver |-> v, from |-> from]

\* handleDelta on a book: sizes are added, whatever the book holds.
Patched(b, v) ==
  IF b.exact /\ v = b.ver + 1
  THEN [b EXCEPT !.ver = v]
  ELSE [b EXCEPT !.exact = FALSE, !.ver = 0]

Spend(what) == used' = [used EXCEPT ![what] = @ + 1]
Left(what, max) == used[what] < max

Live(s) == sock[s] # "closed"

\* The state after start(): the first connect has been issued.
Init ==
  /\ truth = [t \in Tickers |-> 0]
  /\ conn = CHOOSE s \in Sockets : TRUE
  /\ sock = [s \in Sockets |-> IF s = conn THEN "connecting" ELSE "closed"]
  /\ wire = [s \in Sockets |-> <<>>]
  /\ feeds = [s \in Sockets |-> {}]
  /\ sent = [s \in Sockets |-> 0]
  /\ running = TRUE /\ timer = FALSE
  /\ ids \in SUBSET Tickers
  /\ expected = 0
  /\ book = [t \in Tickers |-> NoBook]
  /\ check = [t \in Tickers |-> Idle]
  /\ fresh = {}
  /\ lossy = FALSE
  /\ used = [move |-> 0, loss |-> 0, drop |-> 0, fault |-> 0, change |-> 0, check |-> 0]

-----------------------------------------------------------------------------
(* The exchange and the network (external).                                 *)

\* A book changes; the change goes out on every socket that feeds it.
BookMoves(t) ==
  LET to == {s \in Sockets : t \in feeds[s]}
      delta(s) == [kind |-> "delta", ticker |-> t, ver |-> truth[t] + 1, seq |-> sent[s] + 1]
  IN /\ Left("move", MaxMoves)
     /\ Spend("move")
     /\ truth' = [truth EXCEPT ![t] = @ + 1]
     /\ wire' = [s \in Sockets |-> IF s \in to THEN Append(wire[s], delta(s)) ELSE wire[s]]
     /\ sent' = [s \in Sockets |-> IF s \in to THEN sent[s] + 1 ELSE sent[s]]
     /\ UNCHANGED <<sock, feeds, shard, books, check, lossy>>

\* A frame is skipped by the exchange, or the catch of handleFrame drops it
\* before its number was looked at.
FrameLost(s) ==
  /\ wire[s] # <<>>
  /\ Left("loss", MaxLosses)
  /\ wire' = [wire EXCEPT ![s] = Tail(@)]
  /\ lossy' = TRUE
  /\ Spend("loss")
  /\ UNCHANGED <<truth, sock, feeds, sent, shard, books, check>>

-----------------------------------------------------------------------------
(* Connection lifecycle.                                                    *)

\* sendSubscribe on the shard's socket: the exchange answers with a snapshot
\* of every ticker named and feeds them from then on.
SendSubscribe(s, tickers) ==
  LET order == SetToSeq(tickers)
      frame(i) == [kind |-> "snapshot", ticker |-> order[i], ver |-> truth[order[i]],
                   seq |-> sent[s] + i]
  IN /\ feeds' = [feeds EXCEPT ![s] = @ \cup tickers]
     /\ wire' = [wire EXCEPT ![s] = @ \o [i \in 1..Len(order) |-> frame(i)]]
     /\ sent' = [sent EXCEPT ![s] = @ + Len(order)]

\* connect, when openSocket returns a socket: any that is not in use, for a
\* socket is known by nothing but its state.
OpenSocket(s) ==
  /\ sock' = [sock EXCEPT ![s] = "connecting"]
  /\ conn' = s
  /\ expected' = 0
  /\ book' = [t \in Tickers |->
                IF book[t].from = "current" THEN [book[t] EXCEPT !.from = "lapsed"] ELSE book[t]]
  /\ lossy' = FALSE
  /\ UNCHANGED used

\* connect, when buildConnectHeaders or openSocket throws.
ConnectThrows ==
  /\ Left("fault", MaxFaults)
  /\ timer' = TRUE
  /\ expected' \in {expected, 0}
  /\ conn' = NoSocket
  /\ Spend("fault")
  /\ UNCHANGED <<sock, book, lossy>>

\* The reconnect timer fires and calls connect.
TimerFires ==
  /\ timer
  /\ \/ /\ timer' = FALSE
        /\ \E s \in Sockets : ~Live(s)
        /\ OpenSocket(CHOOSE s \in Sockets : ~Live(s))
     \/ ConnectThrows
  /\ UNCHANGED <<truth, wire, feeds, sent, running, ids, check, fresh>>

\* handleOpen and onOpen: subscribe every id the shard has by now.
Opens(s) ==
  /\ sock[s] = "connecting"
  /\ sock' = [sock EXCEPT ![s] = "open"]
  /\ IF conn = s THEN SendSubscribe(s, ids) ELSE UNCHANGED <<wire, feeds, sent>>
  /\ UNCHANGED <<truth, shard, books, check, lossy, used>>

\* Mutants of the next definition: the staleness fan-out is forgotten, or the
\* shard does not reconnect.
CloseKeepsQuotes(s) ==
  /\ conn' = NoSocket
  /\ timer' = (timer \/ running)
  /\ UNCHANGED fresh
CloseGivesUp(s) ==
  /\ fresh' = fresh \ ids
  /\ conn' = NoSocket
  /\ UNCHANGED timer

\* handleClose: every book of the shard becomes stale, and the shard's socket
\* is forgotten whichever socket it was (onClose passes shard.conn itself).
HandleClose(s) ==
  /\ fresh' = fresh \ ids
  /\ conn' = NoSocket
  /\ timer' = (timer \/ running)

\* A socket closes.  What it had not delivered is gone.
Closes(s) ==
  /\ Live(s)
  /\ \/ /\ sock[s] = "closing"
        /\ UNCHANGED used
     \/ /\ sock[s] # "closing"
        /\ Left("drop", MaxDrops)
        /\ Spend("drop")
  /\ sock' = [sock EXCEPT ![s] = "closed"]
  /\ wire' = [wire EXCEPT ![s] = <<>>]
  /\ feeds' = [feeds EXCEPT ![s] = {}]
  /\ sent' = [sent EXCEPT ![s] = 0]
  /\ HandleClose(s)
  /\ UNCHANGED <<truth, running, ids, expected, book, check, lossy>>

\* ws.close on the shard's socket, if it has one.
CloseConn ==
  sock' = [s \in Sockets |-> IF s = conn /\ Live(s) THEN "closing" ELSE sock[s]]

Stop ==
  /\ running
  /\ running' = FALSE
  /\ timer' = FALSE
  /\ CloseConn
  /\ conn' = NoSocket
  /\ UNCHANGED <<truth, wire, feeds, sent, ids, expected, books, check, lossy, used>>

-----------------------------------------------------------------------------
(* Frames.                                                                  *)

\* checkSeq, its verdict.
InSequence(f) == expected = 0 \/ f.seq = expected

\* handleSnapshot and handleDelta: a market that is subscribed and, for a
\* delta, has a book.
Taken(f) == f.ticker \in ids /\ (f.kind = "snapshot" \/ book[f.ticker] # NoBook)

BookWith(f) ==
  [book EXCEPT ![f.ticker] = IF f.kind = "snapshot" THEN Snapshot(f.ver, "current")
                             ELSE Patched(@, f.ver)]

\* The book and the price update it emits.
ApplyFrame(f) ==
  IF Taken(f)
  THEN book' = BookWith(f) /\ fresh' = fresh \cup {f.ticker}
  ELSE UNCHANGED <<book, fresh>>

\* The handler throws and the catch of handleFrame swallows it: the book
\* misses the frame, or has it and the price cache does not.
HandlerThrows(f) ==
  /\ Left("loss", MaxLosses)
  /\ \/ book' = [book EXCEPT ![f.ticker].from = IF @ = "current" THEN "lapsed" ELSE @]
     \/ Taken(f) /\ book' = BookWith(f)
  /\ lossy' = TRUE
  /\ Spend("loss")
  /\ UNCHANGED fresh

\* Mutants of the next definition: the timer is armed although the close will
\* arm it again, or the baseline is reset to a number.
ResyncArms ==
  /\ expected' = 0
  /\ CloseConn
  /\ timer' = (timer \/ running)
ResyncBelow ==
  /\ expected' = -1
  /\ CloseConn
  /\ timer' = (timer \/ (conn = NoSocket /\ running))

\* resyncShard: forget the baseline and drop the socket.
ResyncShard ==
  /\ expected' = 0
  /\ CloseConn
  /\ timer' = (timer \/ (conn = NoSocket /\ running))

\* An orderbook frame arrives, also on a socket that is closing.
Deliver(s) ==
  LET f == Head(wire[s]) IN
  /\ wire[s] # <<>>
  /\ wire' = [wire EXCEPT ![s] = Tail(@)]
  /\ \/ /\ InSequence(f)
        /\ expected' = f.seq + 1
        /\ \/ ApplyFrame(f) /\ UNCHANGED <<lossy, used>>
           \/ HandlerThrows(f)
        /\ UNCHANGED <<sock, timer>>
     \/ /\ ~InSequence(f)
        /\ ResyncShard
        /\ UNCHANGED <<books, lossy, used>>
  /\ UNCHANGED <<truth, feeds, sent, running, conn, ids, check>>

-----------------------------------------------------------------------------
(* Calls of the daemon.                                                     *)

\* Mutant: the new id is left to the next reconnect.
AssignOnly(t) == UNCHANGED <<wire, feeds, sent>>

\* onAssignToOpenShard: a socket that is not open yet subscribes on opening.
AssignToShard(t) ==
  IF conn # NoSocket /\ sock[conn] = "open"
  THEN SendSubscribe(conn, {t})
  ELSE UNCHANGED <<wire, feeds, sent>>

\* subscribe, for a market the shard does not have.
Subscribe(t) ==
  /\ running
  /\ t \notin ids
  /\ Left("change", MaxChanges)
  /\ ids' = ids \cup {t}
  /\ AssignToShard(t)
  /\ Spend("change")
  /\ UNCHANGED <<truth, sock, running, conn, timer, expected, books, check, lossy>>

\* Mutant: the reconstructed book outlives its subscription.
KeepBook(t) == UNCHANGED book

DropBook(t) == book' = [book EXCEPT ![t] = NoBook]

\* unsubscribe: no command goes out, the exchange keeps sending.  The daemon
\* evicts the market from the price cache or marks it stale.
Unsubscribe(t) ==
  /\ t \in ids
  /\ Left("change", MaxChanges)
  /\ ids' = ids \ {t}
  /\ DropBook(t)
  /\ fresh' = fresh \ {t}
  /\ Spend("change")
  /\ UNCHANGED <<network, running, conn, timer, expected, check, lossy>>

-----------------------------------------------------------------------------
(* REST cross-check: fetch, compare, fetch again, compare, re-anchor.  The  *)
(* answer shows the book at some moment of the fetch.  Books that differ may *)
(* still agree within CROSSCHECK_TOLERANCE.                                 *)

CheckStarts(t) ==
  /\ VerifyRest /\ running
  /\ t \in ids
  /\ check[t] = Idle
  /\ Left("check", MaxChecks)
  /\ check' = [check EXCEPT ![t] = [phase |-> "compare", since |-> truth[t]]]
  /\ Spend("check")
  /\ UNCHANGED <<network, shard, books, lossy>>

\* No answer, or one that agrees.
CheckEnds(t) ==
  /\ check[t] # Idle
  /\ check' = [check EXCEPT ![t] = Idle]
  /\ UNCHANGED <<network, shard, books, lossy, used>>

Differs(t, v) == ~(book[t].exact /\ book[t].ver = v)

CheckRepeats(t) ==
  /\ check[t].phase = "compare"
  /\ \E v \in check[t].since..truth[t] : Differs(t, v)
  /\ check' = [check EXCEPT ![t] = [phase |-> "confirm", since |-> truth[t]]]
  /\ UNCHANGED <<network, shard, books, lossy, used>>

\* The divergence is confirmed: the second answer becomes the book.
Reanchor(t) ==
  /\ check[t].phase = "confirm"
  /\ \E v \in check[t].since..truth[t] :
       /\ Differs(t, v)
       /\ IF t \in ids
          THEN /\ book' = [book EXCEPT ![t] = Snapshot(v, "rest")]
               /\ fresh' = fresh \cup {t}
          ELSE UNCHANGED books
  /\ check' = [check EXCEPT ![t] = Idle]
  /\ UNCHANGED <<network, shard, lossy, used>>

-----------------------------------------------------------------------------
Next ==
  \/ \E t \in Tickers :
       \/ BookMoves(t) \/ Subscribe(t) \/ Unsubscribe(t)
       \/ CheckStarts(t) \/ CheckEnds(t) \/ CheckRepeats(t) \/ Reanchor(t)
  \/ \E s \in Sockets : FrameLost(s) \/ Opens(s) \/ Closes(s) \/ Deliver(s)
  \/ TimerFires
  \/ Stop

Spec == Init /\ [][Next]_vars

\* Timers fire, an upgrade request is answered, a closing handshake ends and
\* frames arrive.  Nothing is assumed of the exchange beyond that.
FairSpec ==
  /\ Spec
  /\ WF_vars(TimerFires)
  /\ \A s \in Sockets :
       WF_vars(Opens(s)) /\ WF_vars(Deliver(s)) /\ WF_vars(sock[s] = "closing" /\ Closes(s))

-----------------------------------------------------------------------------
Frame ==
  [kind : {"snapshot", "delta"}, ticker : Tickers, ver : Nat, seq : Nat \ {0}]

\* Type invariant: the values the state of the shard can take.
TypeOK ==
  /\ truth \in [Tickers -> Nat]
  /\ sock \in [Sockets -> {"closed", "connecting", "open", "closing"}]
  /\ wire \in [Sockets -> Seq(Frame)]
  /\ feeds \in [Sockets -> SUBSET Tickers]
  /\ sent \in [Sockets -> Nat]
  /\ running \in BOOLEAN /\ timer \in BOOLEAN
  /\ conn \in Sockets \cup {NoSocket}
  /\ ids \subseteq Tickers
  /\ expected \in Nat
  /\ book \in [Tickers -> [exact : BOOLEAN, ver : Nat,
                           from : {"none", "current", "lapsed", "rest"}]]
  /\ check \in [Tickers -> [phase : {"idle", "compare", "confirm"}, since : Nat]]
  /\ fresh \subseteq Tickers
  /\ lossy \in BOOLEAN
  /\ used \in [{"move", "loss", "drop", "fault", "change", "check"} -> Nat]

\* A shard never has two sockets: a second one would be subscribed to the same
\* tickers, deliver every delta twice into the one book they share, and break
\* the sequence baseline.  Reconnects start in handleClose, in resyncShard and
\* in a failed connect, and only the timer guard and the order of these calls
\* keep them apart.
OneSocket ==
  /\ \A r, s \in Sockets : Live(r) /\ Live(s) => r = s
  /\ timer => \A s \in Sockets : ~Live(s)

\* An open socket carries every id the shard has: one assigned while the
\* socket was connecting is picked up by onOpen, one assigned later is sent at
\* once, and a reconnect starts over.
OpenMeansSubscribed ==
  conn # NoSocket /\ sock[conn] = "open" => ids \subseteq feeds[conn]

\* A book rebuilt from a snapshot of the present connection is one the exchange
\* really had, until a gap makes the shard close that connection: whatever is
\* lost on the way, and however often the market was unsubscribed and
\* subscribed again.  Not once the handler threw on one of its frames after
\* the number was counted: no gap shows that.
SequencedBooksExact ==
  \A t \in Tickers :
    book[t].from = "current" /\ conn # NoSocket /\ sock[conn] = "open" => book[t].exact

\* A quote served as fresh comes from a connection that still is up, or from a
\* REST re-anchor: a book is never left fresh behind a closed socket.
FreshMeansFed ==
  \A t \in fresh \cap ids :
    book[t].from = "rest" \/ \E s \in Sockets : sock[s] \in {"open", "closing"}

CaughtUp(t) == t \in fresh /\ book[t].exact /\ book[t].ver = truth[t]

\* Every subscribed market is in the end served its true book, through drops,
\* failed connects and detected gaps.  Not if a frame of the present
\* connection was lost and no later one shows the gap, or its handler threw,
\* and not if the book was re-anchored from REST.
SubscribedCatchesUp ==
  \A t \in Tickers :
    t \in ids ~> (CaughtUp(t) \/ t \notin ids \/ ~running \/ lossy \/ book[t].from = "rest")

=============================================================================
