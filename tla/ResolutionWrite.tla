---------------------------- MODULE ResolutionWrite ----------------------------
(***************************************************************************)
(* Concurrent resolution writes: packages/resolution-write/src/index.ts on  *)
(* the markets table, with the pipeline's bulk upsert writing the same      *)
(* columns, and the markets/resolved events that go to the event bus.       *)
(*                                                                         *)
(* A writer is a running call of writeAndPublishResolution: of a lifecycle  *)
(* watcher, the gap refill, the resolution monitor or the solver, each in a *)
(* process of its own.  Its transaction is READ COMMITTED, so every         *)
(* statement sees what is committed when it runs, and only the row lock of  *)
(* SELECT ... FOR UPDATE ties what the call read to what it updates.        *)
(***************************************************************************)
EXTENDS Integers

CONSTANTS
  Markets,
  Writers,
  Winners,    \* winning_outcome values
  Times,      \* resolved_at values
  Null,       \* SQL NULL
  NoWriter,   \* no one holds the row lock
  MaxCalls,   \* bound: calls made
  MaxFaults   \* bound: database errors, crashes and failed publishes together

ASSUME WriteAssumption ==
  /\ Null \notin Winners /\ Null \notin Times
  /\ NoWriter \notin Writers
  /\ MaxCalls \in Nat /\ MaxFaults \in Nat

VARIABLES
  known,       \* markets that have a row
  resolvedAt,  \* markets.resolved_at, committed
  winner,      \* markets.winning_outcome, committed
  lock,        \* holder of each row lock
  job,         \* the call each writer is in
  news,        \* markets/resolved events the bus took
  created,     \* history: calls that returned 'created'
  bySync,      \* history: markets whose winner the pipeline filled in
  unheard,     \* history: markets one of whose events was lost
  used         \* steps used of each bound

rows  == <<known, resolvedAt, winner>>
hist  == <<created, bySync, unheard>>
vars  == <<rows, lock, job, news, hist, used>>

-----------------------------------------------------------------------------
Input == [market : Markets, winning : Winners \cup {Null}, resolvedAt : Times]

\* A call that holds its row lock, or one that has committed and will publish.
\* was is was_resolved as the SELECT returned it.
Updating(in, was)   == [at |-> "update", in |-> in, was |-> was]
Publishing(in, was) == [at |-> "publish", in |-> in, was |-> was]
Idle == [at |-> "idle"]

Resolved(m) == resolvedAt[m] # Null /\ winner[m] # Null

Spend(what) == used' = [used EXCEPT ![what] = @ + 1]

Init ==
  /\ known \in SUBSET Markets
  /\ resolvedAt = [m \in Markets |-> Null]
  /\ winner = [m \in Markets |-> Null]
  /\ lock = [m \in Markets |-> NoWriter]
  /\ job = [w \in Writers |-> Idle]
  /\ news = {}
  /\ created = [m \in Markets |-> 0]
  /\ bySync = {} /\ unheard = {}
  /\ used = [call |-> 0, fault |-> 0]

\* Mutant: SELECT without FOR UPDATE.
SelectOnly(w, m) == UNCHANGED lock

\* FOR UPDATE.
LockRow(w, m) == lock' = [lock EXCEPT ![m] = w]

\* The SELECT of writeResolution and its two early returns, 'not_found' and
\* 'already_resolved'.  It waits while another transaction holds the row.
Select(w, in) ==
  LET m == in.market IN
  /\ job[w] = Idle
  /\ lock[m] = NoWriter
  /\ used.call < MaxCalls
  /\ IF m \in known /\ ~Resolved(m)
     THEN /\ LockRow(w, m)
          /\ job' = [job EXCEPT ![w] = Updating(in, resolvedAt[m] # Null)]
     ELSE UNCHANGED <<lock, job>>
  /\ Spend("call")
  /\ UNCHANGED <<rows, news, hist>>

\* Mutant: the later value wins.
Overwrite(old, new) == new

\* COALESCE(old, new).
Coalesce(old, new) == IF old # Null THEN old ELSE new

\* Mutant: $1 and $2 are swapped.
FillSwapped(m, t, win) ==
  /\ resolvedAt' = [resolvedAt EXCEPT ![m] = Coalesce(@, win)]
  /\ winner' = [winner EXCEPT ![m] = Coalesce(@, t)]

\* The SET clause of both writers.
FillRow(m, t, win) ==
  /\ resolvedAt' = [resolvedAt EXCEPT ![m] = Coalesce(@, t)]
  /\ winner' = [winner EXCEPT ![m] = Coalesce(@, win)]

\* Mutant: only a first resolution is news.
OnCreateOnly(w) == IF job[w].was THEN Idle ELSE Publishing(job[w].in, job[w].was)

\* writeAndPublishResolution publishes on 'created' and on 'amended'.
ThenPublish(w) == Publishing(job[w].in, job[w].was)

\* The UPDATE and the COMMIT that releases the row.  Its WHERE can miss only
\* if the row was completed since the SELECT.
UpdateAndCommit(w) ==
  LET m == job[w].in.market IN
  /\ job[w].at = "update"
  /\ lock' = [lock EXCEPT ![m] = NoWriter]
  /\ IF Resolved(m)
     THEN /\ job' = [job EXCEPT ![w] = Idle]
          /\ UNCHANGED <<resolvedAt, winner, created>>
     ELSE /\ FillRow(m, job[w].in.resolvedAt, job[w].in.winning)
          /\ created' = IF job[w].was THEN created ELSE [created EXCEPT ![m] = @ + 1]
          /\ job' = [job EXCEPT ![w] = ThenPublish(w)]
  /\ UNCHANGED <<known, news, bySync, unheard, used>>

\* The database refuses a statement, or the process dies: ROLLBACK.
Aborts(w) ==
  /\ job[w].at = "update"
  /\ used.fault < MaxFaults
  /\ lock' = [lock EXCEPT ![job[w].in.market] = NoWriter]
  /\ job' = [job EXCEPT ![w] = Idle]
  /\ Spend("fault")
  /\ UNCHANGED <<rows, news, hist>>

\* publishResolved: the payload is the input of the call, not the row.
Publish(w) ==
  LET in == job[w].in IN
  /\ job[w].at = "publish"
  /\ news' = news \cup {[market |-> in.market, winning |-> in.winning,
                         resolvedAt |-> in.resolvedAt, amended |-> job[w].was]}
  /\ job' = [job EXCEPT ![w] = Idle]
  /\ UNCHANGED <<rows, lock, hist, used>>

\* The bus is down and the error swallowed, or the process dies after COMMIT.
PublishLost(w) ==
  /\ job[w].at = "publish"
  /\ used.fault < MaxFaults
  /\ unheard' = unheard \cup {job[w].in.market}
  /\ job' = [job EXCEPT ![w] = Idle]
  /\ Spend("fault")
  /\ UNCHANGED <<rows, lock, news, created, bySync>>

\* bulkUpsertMarkets for a market whose payload proves a resolution: one
\* statement, which waits for the row lock and publishes nothing.
SyncUpsert(m, t, win) ==
  /\ lock[m] = NoWriter
  /\ known' = known \cup {m}
  /\ FillRow(m, t, win)
  /\ bySync' = IF winner[m] = Null /\ win # Null THEN bySync \cup {m} ELSE bySync
  /\ UNCHANGED <<lock, job, news, created, unheard, used>>

Next ==
  \/ \E w \in Writers :
       \/ \E in \in Input : Select(w, in)
       \/ UpdateAndCommit(w) \/ Aborts(w) \/ Publish(w) \/ PublishLost(w)
  \/ \E m \in Markets, t \in Times, win \in Winners \cup {Null} : SyncUpsert(m, t, win)

Spec == Init /\ [][Next]_vars

-----------------------------------------------------------------------------
Job == [at : {"update", "publish"}, in : Input, was : BOOLEAN]
News == [market : Markets, winning : Winners \cup {Null}, resolvedAt : Times, amended : BOOLEAN]

\* Type invariant: the values rows, calls and events can take.
TypeOK ==
  /\ known \subseteq Markets
  /\ resolvedAt \in [Markets -> Times \cup {Null}]
  /\ winner \in [Markets -> Winners \cup {Null}]
  /\ lock \in [Markets -> Writers \cup {NoWriter}]
  /\ job \in [Writers -> Job \cup {Idle}]
  /\ news \subseteq News
  /\ created \in [Markets -> Nat]
  /\ bySync \subseteq Markets /\ unheard \subseteq Markets
  /\ used \in [{"call", "fault"} -> Nat]

\* 'created' is returned for a market at most once, whatever the four kinds of
\* writers and the pipeline do at the same time: the comment of writeResolution
\* rests this on the row lock.
OneCreated == \A m \in Markets : created[m] <= 1

\* Events never contradict the database: a winner that was announced is the
\* winner of the row, for good.  The payload is the input of the call, so this
\* needs the call to be the one whose value COALESCE kept.
AnnouncedWinnerHolds ==
  \A e \in news : e.winning # Null => winner[e.market] = e.winning

\* A winner that a call filled in is announced or about to be, also when the
\* row had been resolved without a winner before.  A crash after the commit or
\* a dead bus loses the event, and what the pipeline writes is no event.
WinnerAnnounced ==
  \A m \in Markets :
    winner[m] # Null /\ m \notin bySync \cup unheard =>
      \/ \E e \in news : e.market = m /\ e.winning = winner[m]
      \/ \E w \in Writers :
           job[w].at = "publish" /\ job[w].in.market = m /\ job[w].in.winning = winner[m]

\* Together the writers and the pipeline implement the write-once row of
\* ResolutionRow: COALESCE keeps the first resolved_at and the first winner,
\* also when two statements read the row at different times.
Row == INSTANCE ResolutionRow
RowSpec == Row!Spec
=============================================================================
