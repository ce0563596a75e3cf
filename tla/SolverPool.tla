------------------------------ MODULE SolverPool ------------------------------
(***************************************************************************)
(* The pool of solver threads: solver/solver-pool.ts on the main thread and *)
(* solver/solve-worker.ts in each worker, with the messages between them.   *)
(*                                                                         *)
(* A job is an LP under a process-wide number.  solveBatch puts the jobs of *)
(* a call in `pending`, posts one chunk to each worker and awaits them all; *)
(* a reply settles its jobs, and so does the death of any worker.           *)
(* Node's worker threads are external: a worker handles one chunk at a      *)
(* time, may die at any moment, and its exit is reported after everything   *)
(* it has posted was delivered.                                             *)
(***************************************************************************)
EXTENDS Naturals, Sequences, FiniteSetsExt

CONSTANTS
  WorkerCount,   \* config.solver.workerCount
  Batches,       \* what callers pass: sequences of the LPs' estimated costs
  MaxCalls,      \* bound: calls of solveBatch
  MaxDeaths      \* bound: workers that die by themselves

ASSUME PoolAssumption ==
  /\ WorkerCount \in Nat \ {0}
  /\ Batches \subseteq Seq(Nat)
  /\ MaxCalls \in Nat /\ MaxDeaths \in Nat

Workers == 1..WorkerCount

VARIABLES
  nextJobId,   \* the job number to hand out next
  pending,     \* keys of the pending map
  calls,       \* calls of solveBatch: first job number, costs, worker of each LP
  answer,      \* what each settled job resolved with
  state,       \* of each worker: "loading", "up" or "dead"
  inbox,       \* chunks posted to a worker
  outbox,      \* messages posted by a worker and not yet handled
  notice,      \* events of a dead worker not yet handled, an exit with its code
  readied,     \* workers counted in readyCount
  gate,        \* readyPromise: "waiting", "open" or "failed"
  terminated,
  stranded     \* history: jobs no event will settle: posted to a worker whose exit
               \* was handled, or held by one when its exit with code 0 was

threads == <<state, inbox, outbox, notice>>
vars == <<nextJobId, pending, calls, answer, threads, readied, gate, terminated, stranded>>

-----------------------------------------------------------------------------
(* Messages.  An LP is named by its call and its place in it.              *)

Job(id, c, i) == [jobId |-> id, lp |-> <<c, i>>]
Ready == [ready |-> TRUE, results |-> {}]
Reply(results) == [ready |-> FALSE, results |-> results]

Init ==
  /\ nextJobId = 1
  /\ pending = {} /\ calls = <<>>
  /\ answer = [id \in {} |-> Ready]
  /\ state = [w \in Workers |-> "loading"]
  /\ inbox = [w \in Workers |-> <<>>]
  /\ outbox = [w \in Workers |-> <<>>]
  /\ notice = [w \in Workers |-> <<>>]
  /\ readied = {} /\ gate = "waiting"
  /\ terminated = FALSE
  /\ stranded = {}

-----------------------------------------------------------------------------
(* Longest processing time first: jobs by cost, dearest first and in input  *)
(* order among equals, each to the worker with the least load so far.       *)

Before(cost, i, j) == cost[i] > cost[j] \/ (cost[i] = cost[j] /\ i < j)

Load(cost, at, jobs, w) == MapThenSumSet(LAMBDA j : cost[j], {j \in jobs : at[j] = w})

LongestFirst(cost, at) ==
  \A i \in DOMAIN cost, w \in Workers :
    LET earlier == {j \in DOMAIN cost : Before(cost, j, i)}
        mine == Load(cost, at, earlier, at[i])
        other == Load(cost, at, earlier, w)
    IN mine < other \/ (mine = other /\ at[i] <= w)

\* Mutant: numbers are given in input order and read back in cost order.
ChunkByRank(c, first, cost, at, w) ==
  {Job(first + Cardinality({j \in DOMAIN cost : Before(cost, j, i)}), c, i) :
     i \in {j \in DOMAIN cost : at[j] = w}}

Chunk(c, first, cost, at, w) ==
  {Job(first + i - 1, c, i) : i \in {j \in DOMAIN cost : at[j] = w}}

Ids(first, cost) == {first + i - 1 : i \in DOMAIN cost}

\* solveBatch up to its await; postMessage to a dead worker goes nowhere.
\* main() awaits ready() before it solves anything.
SolveBatch(cost) ==
  /\ gate = "open" /\ Len(calls) < MaxCalls
  /\ \E at \in [DOMAIN cost -> Workers] :
       /\ LongestFirst(cost, at)
       /\ calls' = Append(calls, [first |-> nextJobId, cost |-> cost, at |-> at])
       /\ inbox' = [w \in Workers |->
            LET chunk == Chunk(Len(calls) + 1, nextJobId, cost, at, w)
            IN IF chunk = {} THEN inbox[w] ELSE Append(inbox[w], chunk)]
       /\ stranded' = stranded \cup
            {nextJobId + i - 1 : i \in {j \in DOMAIN cost :
               state[at[j]] = "dead" /\ notice[at[j]] = <<>>}}
  /\ pending' = pending \cup Ids(nextJobId, cost)
  /\ nextJobId' = nextJobId + Len(cost)
  /\ UNCHANGED <<answer, state, outbox, notice, readied, gate, terminated>>

-----------------------------------------------------------------------------
(* The worker thread.                                                      *)

BecomesReady(w) ==
  /\ state[w] = "loading"
  /\ state' = [state EXCEPT ![w] = "up"]
  /\ outbox' = [outbox EXCEPT ![w] = Append(@, Ready)]
  /\ UNCHANGED <<nextJobId, pending, calls, answer, inbox, notice, readied, gate,
                 terminated, stranded>>

Result(job, status) == [jobId |-> job.jobId, lp |-> job.lp, status |-> status]

\* The handler of one chunk.  An LP that makes the solver throw is answered
\* with an error, and the rest of the chunk is still solved.
Solve(w) ==
  /\ state[w] = "up" /\ inbox[w] # <<>>
  /\ \E bad \in SUBSET Head(inbox[w]) :
       outbox' = [outbox EXCEPT ![w] = Append(@, Reply(
         {Result(job, IF job \in bad THEN "Error" ELSE "Optimal") : job \in Head(inbox[w])}))]
  /\ inbox' = [inbox EXCEPT ![w] = Tail(@)]
  /\ UNCHANGED <<nextJobId, pending, calls, answer, state, notice, readied, gate,
                 terminated, stranded>>

\* How a worker dies by itself: an uncaught exception or lack of memory is an
\* error and an exit with code 1, anything else an exit alone, with code 0
\* ("exit 0") or another.
Deaths == {<<"error", "exit">>, <<"exit">>, <<"exit 0">>}

\* Chunks not handled are lost with the worker.
Dies(w) ==
  /\ state[w] # "dead"
  /\ Cardinality({v \in Workers : state[v] = "dead"}) < MaxDeaths
  /\ state' = [state EXCEPT ![w] = "dead"]
  /\ \E events \in Deaths : notice' = [notice EXCEPT ![w] = events]
  /\ UNCHANGED <<nextJobId, pending, calls, answer, inbox, outbox, readied, gate,
                 terminated, stranded>>

-----------------------------------------------------------------------------
(* The message, error and exit handlers of the pool.                       *)

OnReady(w) ==
  /\ outbox[w] # <<>> /\ Head(outbox[w]).ready
  /\ readied' = readied \cup {w}
  /\ gate' = IF gate = "waiting" /\ readied' = Workers THEN "open" ELSE gate
  /\ outbox' = [outbox EXCEPT ![w] = Tail(@)]
  /\ UNCHANGED <<nextJobId, pending, calls, answer, state, inbox, notice, terminated, stranded>>

Answered(results) == {r.jobId : r \in results} \cap pending

\* onReply: a job that is not pending was failed before; its result is dropped.
Settle(results) ==
  /\ pending' = pending \ Answered(results)
  /\ answer' = [id \in DOMAIN answer \cup Answered(results) |->
       IF id \in Answered(results)
       THEN CHOOSE r \in results : r.jobId = id ELSE answer[id]]

OnReply(w) ==
  /\ outbox[w] # <<>> /\ ~Head(outbox[w]).ready
  /\ Settle(Head(outbox[w]).results)
  /\ outbox' = [outbox EXCEPT ![w] = Tail(@)]
  /\ UNCHANGED <<nextJobId, calls, state, inbox, notice, readied, gate, terminated, stranded>>

\* Mutant: the promises are resolved and stay in the map.
FailButKeep ==
  /\ UNCHANGED pending
  /\ answer' = [id \in DOMAIN answer \cup pending |->
       IF id \in pending THEN [jobId |-> id, lp |-> <<>>, status |-> "Error"]
       ELSE answer[id]]

\* Every job that waits, whoever holds it, resolves with status Error.
FailAllPending ==
  /\ pending' = {}
  /\ answer' = [id \in DOMAIN answer \cup pending |->
       IF id \in pending THEN [jobId |-> id, lp |-> <<>>, status |-> "Error"]
       ELSE answer[id]]

RejectReady == gate' = IF gate = "waiting" THEN "failed" ELSE gate

OnError(w) ==
  /\ notice[w] # <<>> /\ Head(notice[w]) = "error"
  /\ RejectReady /\ FailAllPending
  /\ notice' = [notice EXCEPT ![w] = Tail(@)]
  /\ UNCHANGED <<nextJobId, calls, state, inbox, outbox, readied, terminated, stranded>>

\* Mutant: an exit only matters before the pool is ready.
ExitIgnored == RejectReady /\ UNCHANGED <<pending, answer>>

ExitFails == RejectReady /\ FailAllPending

\* Jobs in the chunks that a worker was posted and has not answered.
Unanswered(w) == UNION {{job.jobId : job \in inbox[w][n]} : n \in DOMAIN inbox[w]}

\* An exit with code 0 is no failure to the pool: ready() goes on waiting and
\* the jobs of that worker stay pending, with no other event to settle them.
OnExit(w) ==
  /\ notice[w] # <<>> /\ Head(notice[w]) \in {"exit", "exit 0"}
  /\ outbox[w] = <<>>
  /\ IF terminated \/ Head(notice[w]) = "exit 0"
     THEN UNCHANGED <<gate, pending, answer>> ELSE ExitFails
  /\ stranded' = IF Head(notice[w]) = "exit 0" THEN stranded \cup Unanswered(w) ELSE stranded
  /\ notice' = [notice EXCEPT ![w] = Tail(@)]
  /\ UNCHANGED <<nextJobId, calls, state, inbox, outbox, readied, terminated>>

\* terminate(), from the shutdown handler.  Node exits with code 1, which the
\* handler no longer looks at.
Terminate ==
  /\ gate = "open" /\ ~terminated
  /\ terminated' = TRUE
  /\ state' = [w \in Workers |-> "dead"]
  /\ notice' = [w \in Workers |-> IF state[w] = "dead" THEN notice[w] ELSE <<"exit">>]
  /\ UNCHANGED <<nextJobId, pending, calls, answer, inbox, outbox, readied, gate, stranded>>

-----------------------------------------------------------------------------
WorkerStep(w) == BecomesReady(w) \/ Solve(w)
PoolStep(w) == OnReady(w) \/ OnReply(w) \/ OnError(w) \/ OnExit(w)

Next ==
  \/ \E cost \in Batches : SolveBatch(cost)
  \/ \E w \in Workers : WorkerStep(w) \/ Dies(w) \/ PoolStep(w)
  \/ Terminate

Spec == Init /\ [][Next]_vars

\* A worker that lives handles its chunks, and Node delivers every event.
FairSpec == Spec /\ \A w \in Workers : WF_vars(WorkerStep(w)) /\ WF_vars(PoolStep(w))

-----------------------------------------------------------------------------
(* Properties.                                                             *)

Jobs == [jobId : Nat, lp : Nat \X Nat]
Results == [jobId : Nat, lp : Nat \X Nat, status : {"Optimal", "Error"}]
Messages == {Ready} \cup [ready : {FALSE}, results : SUBSET Results]
Calls == [first : Nat \ {0}, cost : Batches, at : Seq(Workers)]

\* Types of the variables; the jobs handed out are those that wait and those
\* that were answered, none both.
TypeOK ==
  /\ nextJobId \in Nat \ {0}
  /\ pending \subseteq 1..(nextJobId - 1)
  /\ DOMAIN answer = (1..(nextJobId - 1)) \ pending
  /\ calls \in Seq(Calls)
  /\ state \in [Workers -> {"loading", "up", "dead"}]
  /\ inbox \in [Workers -> Seq(SUBSET Jobs)]
  /\ outbox \in [Workers -> Seq(Messages)]
  /\ notice \in [Workers -> {<<>>} \cup Deaths]
  /\ readied \subseteq Workers
  /\ gate \in {"waiting", "open", "failed"}
  /\ terminated \in BOOLEAN
  /\ stranded \subseteq Nat

InInbox(id, w) == \E n \in DOMAIN inbox[w] : \E job \in inbox[w][n] : job.jobId = id
InOutbox(id, w) == \E n \in DOMAIN outbox[w] : \E r \in outbox[w][n].results : r.jobId = id

\* solver-pool.ts:64-66 and failAllPending: a job that is awaited has something
\* left that will settle it: a reply on its way, a worker that lives or whose
\* death is still to be reported.  Only the jobs that went to a worker known
\* dead, or were with one whose exit had code 0, have nothing.
NoSilentLoss ==
  terminated \/ \A id \in pending \ stranded : \E w \in Workers :
    \/ InOutbox(id, w)
    \/ InInbox(id, w) /\ (state[w] # "dead" \/ notice[w] # <<>>)

JobOf(c, i) == calls[c].first + i - 1

\* What the i-th promise of a call has resolved with.
Outcome(c, i) ==
  IF JobOf(c, i) \in pending THEN "waiting"
  ELSE IF answer[JobOf(c, i)].status = "Error" THEN "error"
  ELSE IF answer[JobOf(c, i)].lp = <<c, i>> THEN "solved" ELSE "mixed up"

Outcomes == [c \in DOMAIN calls |-> [i \in DOMAIN calls[c].cost |-> Outcome(c, i)]]

Promise == INSTANCE BatchPromise WITH
  Sizes <- {Len(cost) : cost \in Batches}, result <- Outcomes

\* Results come back in input order and each LP is answered once, whichever
\* worker held it and whatever died: the pool implements BatchPromise.
KeepsPromise == Promise!Spec

CallJobs(c) == Ids(calls[c].first, calls[c].cost)
Asked(c) == c \in DOMAIN calls
Returned(c) == Asked(c) /\ CallJobs(c) \cap pending = {}
Stranded(c) == Asked(c) /\ CallJobs(c) \cap stranded # {}

\* A batch returns, whichever workers die while it is out, unless one of its
\* jobs went to a worker that was dead already or was with one that exited
\* with code 0.
BatchReturns ==
  \A c \in 1..MaxCalls :
    Asked(c) ~> (Returned(c) \/ terminated \/ Stranded(c))

\* solver-pool.ts:64-66: a worker that dies "must not hang every awaiting solve".
\* Asked here of the deaths the handlers look at, those with another code than 0.
AwaitsSettle ==
  [](\A w \in Workers : notice[w] # <<"exit 0">>) =>
    \A c \in 1..MaxCalls : Asked(c) ~> (Returned(c) \/ terminated)
=============================================================================
