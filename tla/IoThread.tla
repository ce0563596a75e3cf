------------------------------- MODULE IoThread -------------------------------
(***************************************************************************)
(* The socket feeds in a thread of their own: clob/io-thread/io-host.ts on  *)
(* the main thread, io-worker-main.ts in the worker, and the MessagePort    *)
(* between them, as io-protocol.ts describes it.                            *)
(*                                                                         *)
(* The worker's ClobManager emits events, numbered here as they are         *)
(* emitted.  Prices gather in a batch; a staleness or a resolution goes out *)
(* at once, behind the batch.  Commands take the other way: a queue applied *)
(* one at a time, each answered with an ack or an error.                    *)
(***************************************************************************)
EXTENDS Naturals, Sequences, FiniteSets

CONSTANTS
  Markets,
  Lists,         \* what startTracking and updateSubscriptions may be given
  BatchMax,      \* IO_BATCH_MAX
  MaxEvents,     \* bound: events emitted
  MaxCommands,   \* bound: commands sent, startTracking and stopAll included
  MayDie         \* whether the worker may die by itself

ASSUME IoAssumption ==
  /\ Lists \subseteq SUBSET Markets
  /\ BatchMax \in Nat \ {0}
  /\ MaxEvents \in Nat /\ MaxCommands \in Nat
  /\ MayDie \in BOOLEAN

VARIABLES
  worker,      \* "loading", "up" or "dead"
  subs,        \* markets the worker's manager tracks
  emitted,     \* number of events emitted so far
  batch,       \* `pending` of the worker: prices not posted yet
  timer,       \* batchTimer is set
  port,        \* messages posted by the worker and not yet handled
  queue,       \* commands on their way to the worker or in its cmdQueue
  current,     \* commands being applied, with what they have still to add
  sent,        \* commands by cmdId
  promise,     \* of each command: "wait", "ok" or "failed"
  fetch,       \* one crosscheckFetch: "none", "wait", "answered", "book", "null"
  gate,        \* readyPromise: "waiting", "open" or "failed"
  notice,      \* events of the dead worker not yet handled
  terminated,
  wanted,      \* history: the subscriptions the commands add up to
  delivered,   \* history: events the callbacks have seen
  late         \* history: what was sent after the worker's exit was handled

feed    == <<emitted, batch, timer>>
control == <<subs, queue, current>>
asks    == <<sent, promise, wanted, late>>
vars    == <<worker, feed, control, port, asks, fetch, gate, notice, terminated, delivered>>

-----------------------------------------------------------------------------
Message(kind, ids, id) == [kind |-> kind, ids |-> ids, id |-> id]
Ready == Message("ready", {}, 0)
Events(ids) == Message("events", ids, 0)
Answer(kind, id) == Message(kind, {}, id)

Command(kind, markets) == [kind |-> kind, markets |-> markets]
Quitting == \E c \in DOMAIN sent : sent[c].kind = "stopAll"

Init ==
  /\ worker = "loading" /\ subs = {}
  /\ emitted = 0 /\ batch = {} /\ timer = FALSE
  /\ port = <<>> /\ queue = <<>> /\ current = {}
  /\ sent = <<>> /\ promise = <<>> /\ wanted = {} /\ late = {}
  /\ fetch = "none" /\ gate = "waiting" /\ notice = <<>> /\ terminated = FALSE
  /\ delivered = {}

-----------------------------------------------------------------------------
(* The worker's feed.                                                      *)

\* The module has loaded: manager, command loop and, last of all, the message.
BecomesReady ==
  /\ worker = "loading"
  /\ worker' = "up"
  /\ port' = Append(port, Ready)
  /\ UNCHANGED <<feed, control, asks, fetch, gate, notice, terminated, delivered>>

Flushed == IF batch = {} THEN port ELSE Append(port, Events(batch))

\* flushBatch.
FlushBatch == port' = Flushed /\ batch' = {} /\ timer' = FALSE

\* scheduleFlush.
ScheduleFlush == timer' = TRUE

\* onPriceUpdate.
EmitPrice ==
  /\ worker = "up" /\ subs # {} /\ emitted < MaxEvents
  /\ emitted' = emitted + 1
  /\ LET full == batch \cup {emitted + 1} IN
     IF Cardinality(full) >= BatchMax
     THEN port' = Append(port, Events(full)) /\ batch' = {} /\ timer' = FALSE
     ELSE ScheduleFlush /\ batch' = full /\ UNCHANGED port
  /\ UNCHANGED <<worker, control, asks, fetch, gate, notice, terminated, delivered>>

\* Mutant: posted at once, and the batch follows when its timer fires.
PostOnly(n) == port' = Append(port, Events({n})) /\ UNCHANGED <<batch, timer>>

FlushThenPost(n) == port' = Append(Flushed, Events({n})) /\ batch' = {} /\ timer' = FALSE

\* onConnectionStale and onMarketResolved.
EmitUrgent ==
  /\ worker = "up" /\ subs # {} /\ emitted < MaxEvents
  /\ emitted' = emitted + 1
  /\ FlushThenPost(emitted + 1)
  /\ UNCHANGED <<worker, control, asks, fetch, gate, notice, terminated, delivered>>

TimerFires ==
  /\ worker = "up" /\ timer
  /\ FlushBatch
  /\ UNCHANGED <<worker, emitted, control, asks, fetch, gate, notice, terminated, delivered>>

-----------------------------------------------------------------------------
(* The worker's commands: drainCommands, applyCommand and the manager.      *)

\* Mutant: every message starts its command at once.
AtOnce == TRUE

\* `draining`: one command, with one await, at a time.
NotDraining == current = {}

\* A command up to its await.  What is no longer wanted goes first; what is
\* new waits for the token map or the adapter.
Begin ==
  /\ worker = "up" /\ queue # <<>> /\ NotDraining
  /\ LET id == Head(queue)
         want == sent[id].markets
         drop == CASE sent[id].kind = "unsubscribeMarket" -> want
                   [] sent[id].kind = "updateSubscriptions" -> subs \ want
                   [] OTHER -> subs
         new  == IF sent[id].kind = "unsubscribeMarket" THEN {} ELSE want \ (subs \ drop)
     IN /\ subs' = subs \ drop
        /\ current' = current \cup {[id |-> id, add |-> new]}
  /\ queue' = Tail(queue)
  /\ UNCHANGED <<worker, feed, port, asks, fetch, gate, notice, terminated, delivered>>

\* The rest of it, and the ack; the last batch goes out before stopAll's.
Finish(c) ==
  /\ worker = "up" /\ c \in current
  /\ subs' = subs \cup c.add
  /\ current' = current \ {c}
  /\ IF sent[c.id].kind = "stopAll"
     THEN /\ port' = Append(Flushed, Answer("ack", c.id))
          /\ batch' = {} /\ timer' = FALSE
     ELSE port' = Append(port, Answer("ack", c.id)) /\ UNCHANGED <<batch, timer>>
  /\ UNCHANGED <<worker, emitted, queue, asks, fetch, gate, notice, terminated, delivered>>

\* The manager throws at its await.
CommandFails(c) ==
  /\ worker = "up" /\ c \in current
  /\ current' = current \ {c}
  /\ port' = Append(port, Answer("cmderr", c.id))
  /\ UNCHANGED <<worker, feed, subs, queue, asks, fetch, gate, notice, terminated, delivered>>

\* handleCrosscheckFetch, past the queue: a book, or null when the request fails.
AnswerFetch ==
  /\ worker = "up" /\ fetch = "wait"
  /\ fetch' = "answered"
  /\ port' = Append(port, Message("book", {}, 0))
  /\ UNCHANGED <<worker, feed, control, asks, gate, notice, terminated, delivered>>

\* An uncaught exception is an error and an exit, process.exit an exit alone.
Dies ==
  /\ MayDie /\ worker # "dead"
  /\ worker' = "dead"
  /\ notice' \in {<<"error", "exit">>, <<"exit">>}
  /\ UNCHANGED <<feed, control, port, asks, fetch, gate, terminated, delivered>>

-----------------------------------------------------------------------------
(* The host's requests.                                                    *)

Gone == worker = "dead" /\ notice = <<>>

\* sendCommand; postMessage to a dead worker goes nowhere.
Send(command) ==
  /\ Len(sent) < MaxCommands
  /\ sent' = Append(sent, command)
  /\ promise' = Append(promise, "wait")
  /\ queue' = IF worker = "dead" THEN queue ELSE Append(queue, Len(sent) + 1)
  /\ late' = IF Gone THEN late \cup {Len(sent) + 1} ELSE late
  /\ UNCHANGED <<worker, feed, subs, current, port, fetch, gate, notice, terminated, delivered>>

\* startTracking, which main() awaits before it does anything else.
StartTracking(S) ==
  /\ gate = "open" /\ sent = <<>>
  /\ Send(Command("startTracking", S))
  /\ wanted' = S

Running == sent # <<>> /\ promise[1] = "ok" /\ ~terminated

UpdateSubscriptions(S) ==
  /\ Running /\ ~Quitting
  /\ Send(Command("updateSubscriptions", S))
  /\ wanted' = S

UnsubscribeMarket(m) ==
  /\ Running
  /\ Send(Command("unsubscribeMarket", {m}))
  /\ wanted' = wanted \ {m}

\* shutdown() calls stopAll once.
StopAll ==
  /\ Running /\ ~Quitting
  /\ Send(Command("stopAll", {}))
  /\ wanted' = {}

\* stopAll goes on when the command is answered, either way.
StopReturns ==
  /\ ~terminated
  /\ \E c \in DOMAIN sent : sent[c].kind = "stopAll" /\ promise[c] # "wait"
  /\ terminated' = TRUE
  /\ worker' = "dead"
  /\ notice' = IF worker = "dead" THEN notice ELSE <<"exit">>
  /\ UNCHANGED <<feed, control, port, asks, fetch, gate, delivered>>

\* fetchRestBook.  Bound: one request.
FetchRestBook ==
  /\ Running /\ fetch = "none"
  /\ fetch' = "wait"
  /\ late' = IF Gone THEN late \cup {0} ELSE late
  /\ UNCHANGED <<worker, feed, control, port, sent, promise, wanted, gate, notice,
                 terminated, delivered>>

-----------------------------------------------------------------------------
(* The host's handlers.                                                    *)

Settled(id, as) ==
  IF promise[id] = "wait" THEN [promise EXCEPT ![id] = as] ELSE promise

OnMessage ==
  /\ port # <<>>
  /\ LET msg == Head(port) IN
     /\ delivered' = delivered \cup msg.ids
     /\ gate' = IF msg.kind = "ready" /\ gate = "waiting" THEN "open" ELSE gate
     /\ promise' = CASE msg.kind = "ack" -> Settled(msg.id, "ok")
                     [] msg.kind = "cmderr" -> Settled(msg.id, "failed")
                     [] OTHER -> promise
     /\ fetch' = IF msg.kind = "book" /\ fetch = "answered" THEN "book" ELSE fetch
  /\ port' = Tail(port)
  /\ UNCHANGED <<worker, feed, control, sent, wanted, late, notice, terminated>>

\* Mutant: the commands are failed, the cross-check requests are not.
FailCommands ==
  /\ promise' = [c \in DOMAIN promise |-> IF promise[c] = "wait" THEN "failed" ELSE promise[c]]
  /\ UNCHANGED fetch

\* failAllPending: commands reject, a cross-check request resolves with null.
FailAllPending ==
  /\ promise' = [c \in DOMAIN promise |-> IF promise[c] = "wait" THEN "failed" ELSE promise[c]]
  /\ fetch' = IF fetch \in {"wait", "answered"} THEN "null" ELSE fetch

OnError ==
  /\ notice # <<>> /\ Head(notice) = "error"
  /\ gate' = IF gate = "waiting" THEN "failed" ELSE gate
  /\ FailAllPending
  /\ notice' = Tail(notice)
  /\ UNCHANGED <<worker, feed, control, port, sent, wanted, late, terminated, delivered>>

\* The exit, with a code that is not zero, comes after the last message.
OnExit ==
  /\ notice # <<>> /\ Head(notice) = "exit" /\ port = <<>>
  /\ IF terminated THEN UNCHANGED <<gate, promise, fetch>>
     ELSE /\ gate' = IF gate = "waiting" THEN "failed" ELSE gate
          /\ FailAllPending
  /\ notice' = Tail(notice)
  /\ UNCHANGED <<worker, feed, control, port, sent, wanted, late, terminated, delivered>>

-----------------------------------------------------------------------------
FeedStep == EmitPrice \/ EmitUrgent \/ TimerFires
Progress(c) == Finish(c) \/ CommandFails(c)
HostRequest ==
  \/ \E S \in Lists : StartTracking(S) \/ UpdateSubscriptions(S)
  \/ \E m \in Markets : UnsubscribeMarket(m)
  \/ StopAll \/ FetchRestBook
HostHandler == OnMessage \/ OnError \/ OnExit

Next ==
  \/ BecomesReady \/ FeedStep \/ Begin \/ AnswerFetch \/ Dies
  \/ \E c \in current : Progress(c)
  \/ HostRequest \/ HostHandler \/ StopReturns

Spec == Init /\ [][Next]_vars

\* Both event loops turn, a set timer fires, and a request of the manager to
\* the network or to the database is answered or fails.
FairSpec ==
  /\ Spec
  /\ WF_vars(BecomesReady) /\ WF_vars(TimerFires) /\ WF_vars(Begin) /\ WF_vars(AnswerFetch)
  /\ WF_vars(\E c \in current : Progress(c))
  /\ WF_vars(HostHandler) /\ WF_vars(StopReturns)

-----------------------------------------------------------------------------
(* Properties.                                                             *)

Commands == [kind : {"startTracking", "updateSubscriptions", "unsubscribeMarket", "stopAll"},
             markets : SUBSET Markets]
Messages == [kind : {"ready", "events", "ack", "cmderr", "book"}, ids : SUBSET Nat, id : Nat]

\* Types; a batch that waits has its timer set and is below its limit, and no
\* two commands are being applied at once.
TypeOK ==
  /\ worker \in {"loading", "up", "dead"}
  /\ subs \subseteq Markets
  /\ emitted \in Nat
  /\ batch \subseteq 1..emitted
  /\ timer \in BOOLEAN /\ (batch # {} => timer)
  /\ port \in Seq(Messages)
  /\ sent \in Seq(Commands) /\ Len(promise) = Len(sent)
  /\ promise \in Seq({"wait", "ok", "failed"})
  /\ queue \in Seq(DOMAIN sent)
  /\ current \subseteq [id : DOMAIN sent, add : SUBSET Markets]
  /\ \A c, d \in current : c = d
  /\ fetch \in {"none", "wait", "answered", "book", "null"}
  /\ gate \in {"waiting", "open", "failed"}
  /\ notice \in {<<>>, <<"exit">>, <<"error", "exit">>}
  /\ terminated \in BOOLEAN
  /\ wanted \subseteq Markets
  /\ delivered \subseteq Nat /\ late \subseteq Nat

Feed == INSTANCE OrderedFeed

\* "A stale must never overtake an in-flight price for the same market"
\* (io-protocol.ts), and more: the host sees the manager's events as the
\* manager emitted them, whatever is batched and whenever the worker dies.
KeepsOrder == Feed!Spec

\* Commands are applied in the order they were sent and do not overlap: once
\* all are acknowledged the worker tracks what they add up to
\* (io-worker-main.ts, "a resolved-market unsubscribe must not race a
\* graph-reload re-subscribe").
CommandsAddUp ==
  worker = "up" /\ (\A c \in DOMAIN promise : promise[c] = "ok") => subs = wanted

Sent(c) == c \in DOMAIN sent
Answered(c) == Sent(c) /\ promise[c] # "wait"

\* Every command settles and every cross-check request resolves, whatever the
\* worker does, unless it was posted after the worker's exit was handled.
RequestsSettle ==
  /\ \A c \in 1..MaxCommands : Sent(c) ~> (Answered(c) \/ c \in late \/ terminated)
  /\ (fetch = "wait") ~> (fetch \in {"book", "null"} \/ 0 \in late \/ terminated)
=============================================================================
