---------------------------- MODULE PolymarketBook ----------------------------
(***************************************************************************)
(* The order books of one Polymarket shard: clob/adapters/polymarket.ts on  *)
(* the skeleton of base-sharded.ts, with the REST resync that repairs a     *)
(* book the frames have led astray, and the quotes in the price cache.      *)
(*                                                                         *)
(* Frames carry no sequence numbers.  A book frame is the whole book; a     *)
(* price_change sets one level to an absolute size and states the server's  *)
(* best prices.  The size of a level is abstracted to its version, and a    *)
(* frame carries the book at the exchange when it was sent.                 *)
(*                                                                         *)
(* Connecting, reconnecting and stop() are those of KalshiFeed: here a      *)
(* shard is "open" or "down".                                              *)
(***************************************************************************)
EXTENDS Naturals, Sequences, FiniteSets

CONSTANTS
  Assets,        \* clob token ids; the two outcomes of a market are two assets
  Levels,        \* price levels
  Streak,        \* BEST_MISMATCH_STREAK
  MaxMoves,      \* bound: changes of each level at the exchange
  MaxChanges,    \* bound: assets subscribed or unsubscribed after start
  MaxFaults      \* bound: sockets dropped, frames lost and hashes that differ

ASSUME BookAssumption ==
  /\ Streak \in Nat \ {0}
  /\ MaxMoves \in Nat /\ MaxChanges \in Nat /\ MaxFaults \in Nat

VARIABLES
  truth,      \* external: the book of each asset at the exchange
  conn,       \* "open" or "down"
  wire,       \* external: frames sent and not yet delivered
  feeds,      \* external: assets whose changes are sent on the connection
  due,        \* external: assets whose founding snapshot is still to be sent
  subs,       \* subscriptions, and the shard's ids
  book,       \* this.books
  received,   \* snapshotReceived
  streak,     \* bestMismatchStreak
  cooling,    \* assets resynced within RESYNC_COOLDOWN_MS
  rest,       \* requests of fetchRestBook under way
  fresh,      \* assets whose quote in the price cache is not stale
  astray,     \* history: books that lost a frame or took a late answer
  owed,       \* history: assets with a resync that has not ended in a book,
              \* nor in the loss of one
  changes, faults

exchange == <<truth, conn, feeds>>
adapter  == <<subs, book, received, streak, fresh, astray>>
budget   == <<changes, faults>>
vars     == <<exchange, wire, due, adapter, cooling, rest, owed, budget>>

-----------------------------------------------------------------------------
Empty == [l \in Levels |-> 0]

BookFrame(a) == [kind |-> "book", asset |-> a, level |-> {}, truth |-> truth[a]]
Change(a, l, T) == [kind |-> "price_change", asset |-> a, level |-> {l}, truth |-> T]

\* sure: history; whatever the answer lacks is still on the wire.
Asked(a) == [asset |-> a, read |-> FALSE, book |-> Empty, sure |-> FALSE]

\* A frame of the asset is gone: an answer read before it came lacks it.
Overtaken(R, a) == {IF r.asset = a THEN [r EXCEPT !.sure = FALSE] ELSE r : r \in R}

Fault == faults < MaxFaults /\ faults' = faults + 1

Init ==
  /\ truth = [a \in Assets |-> Empty]
  /\ conn = "down" /\ wire = <<>> /\ feeds = {} /\ due = {}
  /\ subs \in SUBSET Assets
  /\ book = [a \in Assets |-> Empty]
  /\ received = {} /\ fresh = {} /\ astray = {}
  /\ streak = [a \in Assets |-> 0]
  /\ cooling = {} /\ rest = {} /\ owed = {}
  /\ changes = 0 /\ faults = 0

-----------------------------------------------------------------------------
(* The exchange (external).                                                 *)

BookMoves(a, l) ==
  /\ truth[a][l] < MaxMoves
  /\ truth' = [truth EXCEPT ![a][l] = @ + 1]
  /\ wire' = IF a \in feeds THEN Append(wire, Change(a, l, truth'[a])) ELSE wire
  /\ UNCHANGED <<conn, feeds, due, adapter, cooling, rest, owed, budget>>

\* initial_dump: deltas may come before the snapshot, "the snapshot always
\* follows".
SnapshotSent(a) ==
  /\ a \in due
  /\ due' = due \ {a}
  /\ wire' = Append(wire, BookFrame(a))
  /\ UNCHANGED <<exchange, adapter, cooling, rest, owed, budget>>

\* A frame that handleFrame cannot parse is swallowed.
FrameLost ==
  /\ wire # <<>> /\ Fault
  /\ LET a == Head(wire).asset IN
     /\ astray' = astray \cup {a}
     /\ rest' = Overtaken(rest, a)
     /\ owed' = IF Head(wire).kind = "book" THEN owed \ {a} ELSE owed
  /\ wire' = Tail(wire)
  /\ UNCHANGED <<exchange, due, subs, book, received, streak, fresh, cooling, changes>>

-----------------------------------------------------------------------------
(* The connection.                                                         *)

\* sendSubscribe on an open socket.
SendSubscribe(ids) == feeds' = feeds \cup ids /\ due' = due \cup ids

\* handleOpen, onOpen: everything the shard has.
Opens ==
  /\ conn = "down"
  /\ conn' = "open"
  /\ SendSubscribe(subs)
  /\ UNCHANGED <<truth, wire, adapter, cooling, rest, owed, budget>>

\* Mutant: the flags survive the close.
KeepFlags == UNCHANGED received

\* onShardClose.
ClearFlags == received' = received \ subs

\* emitConnectionStale.
QuotesStale == fresh' = fresh \ subs

\* handleClose.
Closes ==
  /\ conn = "open" /\ Fault
  /\ conn' = "down"
  /\ wire' = <<>> /\ feeds' = {} /\ due' = {}
  /\ QuotesStale /\ ClearFlags
  /\ rest' = {[r EXCEPT !.sure = FALSE] : r \in rest}
  /\ UNCHANGED <<truth, subs, book, streak, astray, cooling, owed, changes>>

\* onAssignToOpenShard.
AssignToShard(a) ==
  IF conn = "open" THEN SendSubscribe({a}) ELSE UNCHANGED <<feeds, due>>

Subscribe(a) ==
  /\ a \notin subs /\ changes < MaxChanges
  /\ changes' = changes + 1
  /\ subs' = subs \cup {a}
  /\ AssignToShard(a)
  /\ UNCHANGED <<truth, conn, wire, book, received, streak, fresh, astray, cooling,
                 rest, owed, faults>>

\* Mutant: the book goes and the flag stays.
ForgetBook(a) == book' = [book EXCEPT ![a] = Empty] /\ UNCHANGED received

Forget(a) == book' = [book EXCEPT ![a] = Empty] /\ received' = received \ {a}

\* unsubscribe tells the exchange nothing: its frames go on coming.  The
\* callers take the quote out of the cache.
Unsubscribe(a) ==
  /\ a \in subs /\ changes < MaxChanges
  /\ changes' = changes + 1
  /\ subs' = subs \ {a}
  /\ Forget(a)
  /\ streak' = [streak EXCEPT ![a] = 0]
  /\ cooling' = cooling \ {a}
  /\ fresh' = fresh \ {a}
  /\ owed' = owed \ {a}
  /\ UNCHANGED <<exchange, wire, due, astray, rest, faults>>

-----------------------------------------------------------------------------
(* Frames.                                                                 *)

\* resyncAsset up to its fetch, at most one in the cooldown.
Resyncs(a) == a \notin cooling

\* handleBook.  The hash of a snapshot may differ from the one computed.
TakeBook(a, T) ==
  /\ book' = [book EXCEPT ![a] = T]
  /\ received' = received \cup {a}
  /\ fresh' = fresh \cup {a}
  /\ astray' = astray \ {a}
  /\ UNCHANGED streak
  /\ \/ /\ owed' = owed \ {a}
        /\ rest' = Overtaken(rest, a)
        /\ UNCHANGED <<cooling, faults>>
     \/ /\ Fault /\ Resyncs(a)
        /\ owed' = owed \cup {a}
        /\ rest' = Overtaken(rest, a) \cup {Asked(a)}
        /\ cooling' = cooling \cup {a}

\* verifyAgainstServerBest: what the streak becomes.  The best prices may
\* differ only when the books do, and may be missing from the frame.
Streaks(a, differs) ==
  {0, streak[a]} \cup (IF differs THEN {streak[a] + 1} ELSE {})

\* handlePriceChange of one change.  A crossed book is not published, and only
\* a book that is not the exchange's can be crossed.
TakeChange(a, l, T) ==
  LET new == [book[a] EXCEPT ![l] = T[l]] IN
  \E crossed \in {FALSE, new # T}, run \in Streaks(a, new # T) :
    /\ book' = [book EXCEPT ![a] = new]
    /\ fresh' = IF crossed THEN fresh ELSE fresh \cup {a}
    /\ streak' = [streak EXCEPT ![a] = IF run >= Streak THEN 0 ELSE run]
    /\ IF (crossed \/ run >= Streak) /\ Resyncs(a)
       THEN /\ rest' = Overtaken(rest, a) \cup {Asked(a)}
            /\ cooling' = cooling \cup {a}
            /\ owed' = owed \cup {a}
       ELSE rest' = Overtaken(rest, a) /\ UNCHANGED <<cooling, owed>>
    /\ UNCHANGED <<received, astray, faults>>

Ignore(a) ==
  /\ rest' = Overtaken(rest, a)
  /\ UNCHANGED <<book, received, streak, fresh, astray, cooling, owed, faults>>

\* handleFrame, handleMessage.  Deltas before the founding snapshot are dropped.
Deliver ==
  /\ wire # <<>>
  /\ wire' = Tail(wire)
  /\ LET f == Head(wire) IN
     IF f.asset \notin subs THEN Ignore(f.asset)
     ELSE IF f.kind = "book" THEN TakeBook(f.asset, f.truth)
     ELSE IF f.asset \in received THEN \E l \in f.level : TakeChange(f.asset, l, f.truth)
     ELSE Ignore(f.asset)
  /\ UNCHANGED <<exchange, due, subs, changes>>

-----------------------------------------------------------------------------
(* The REST resync.                                                        *)

\* The server reads its book for a request (external).
RestReads(r) ==
  /\ r \in rest /\ ~r.read
  /\ rest' = (rest \ {r}) \cup
       {[r EXCEPT !.read = TRUE, !.book = truth[r.asset], !.sure = r.asset \in feeds]}
  /\ UNCHANGED <<exchange, wire, due, adapter, cooling, owed, budget>>

\* applyRestBook, whatever happened while it was awaited.
RestAnswers(r) ==
  /\ r \in rest /\ r.read /\ r.asset \in subs
  /\ rest' = rest \ {r}
  /\ book' = [book EXCEPT ![r.asset] = r.book]
  /\ received' = received \cup {r.asset}
  /\ fresh' = fresh \cup {r.asset}
  /\ astray' = IF r.sure THEN astray \ {r.asset} ELSE astray \cup {r.asset}
  /\ owed' = owed \ {r.asset}
  /\ UNCHANGED <<exchange, wire, due, subs, streak, cooling, budget>>

\* Mutant: a failed request is the end of the resync.
GiveUp(a) == UNCHANGED <<feeds, due>>

WsResubscribe(a) ==
  IF a \in subs /\ conn = "open" THEN SendSubscribe({a}) ELSE UNCHANGED <<feeds, due>>

\* No answer, one that fails its hash, or one for an asset that is gone.
RestFails(r) ==
  /\ r \in rest
  /\ rest' = rest \ {r}
  /\ WsResubscribe(r.asset)
  /\ UNCHANGED <<truth, conn, wire, adapter, cooling, owed, budget>>

CoolsDown(a) ==
  /\ a \in cooling
  /\ cooling' = cooling \ {a}
  /\ UNCHANGED <<exchange, wire, due, adapter, rest, owed, budget>>

-----------------------------------------------------------------------------
RestEnds(a) == \E r \in rest : r.asset = a /\ (RestReads(r) \/ RestAnswers(r) \/ RestFails(r))

AssetStep(a) ==
  \/ \E l \in Levels : BookMoves(a, l)
  \/ SnapshotSent(a) \/ Subscribe(a) \/ Unsubscribe(a) \/ RestEnds(a) \/ CoolsDown(a)

Next == FrameLost \/ Opens \/ Closes \/ Deliver \/ \E a \in Assets : AssetStep(a)

Spec == Init /\ [][Next]_vars

\* A shard that is down connects in the end, the exchange sends the snapshot it
\* was asked for, frames arrive, and a request ends.
FairSpec ==
  /\ Spec
  /\ WF_vars(Opens) /\ WF_vars(Deliver)
  /\ \A a \in Assets : WF_vars(SnapshotSent(a)) /\ WF_vars(RestEnds(a))

-----------------------------------------------------------------------------
(* Properties.                                                             *)

Books == [Levels -> Nat]
Frames == [kind : {"book", "price_change"}, asset : Assets,
           level : {{}} \cup {{l} : l \in Levels}, truth : Books]
Requests == [asset : Assets, read : BOOLEAN, book : Books, sure : BOOLEAN]

\* Types; a price_change is of one level, a fresh quote has a founded book, and
\* only subscribed assets have one (polymarket.ts, unsubscribe).
TypeOK ==
  /\ truth \in [Assets -> Books]
  /\ conn \in {"open", "down"}
  /\ wire \in Seq(Frames)
  /\ feeds \subseteq Assets /\ due \subseteq feeds
  /\ subs \subseteq Assets
  /\ book \in [Assets -> Books]
  /\ fresh \subseteq received /\ received \subseteq subs
  /\ streak \in [Assets -> 0..(Streak - 1)]
  /\ cooling \subseteq Assets /\ owed \subseteq subs
  /\ rest \subseteq Requests
  /\ astray \subseteq Assets
  /\ changes \in 0..MaxChanges /\ faults \in 0..MaxFaults

\* The latest size of a level is on its way.
Coming(a, l) ==
  \E q \in DOMAIN wire :
    /\ wire[q].kind = "price_change" /\ wire[q].asset = a /\ l \in wire[q].level
    /\ wire[q].truth[l] = truth[a][l]

\* A published book is the exchange's but for frames that are still on the
\* wire: deltas only build on a snapshot of the same connection, "building on
\* a partial book would publish a wrong top-of-book" (polymarket.ts:250).  Only
\* a lost frame, or a REST answer older than a frame applied while it was
\* awaited, leads a book astray, and the next snapshot brings it back.
PublishedRight ==
  \A a \in fresh \ astray, l \in Levels : book[a][l] = truth[a][l] \/ Coming(a, l)

\* No quote is fresh behind a closed socket, but for one that a REST answer
\* awaited across the close has revived (base-sharded.ts handleClose).
FreshMeansFed == conn = "down" => fresh \subseteq astray

\* A resync ends in a new book: REST's, or the snapshot of the resubscription
\* when REST fails, or the next connection's, unless that frame is lost
\* (polymarket.ts resyncAsset).
RepairArrives == \A a \in Assets : (a \in owed) ~> (a \notin owed)
=============================================================================
