--------------------------- MODULE SolverPoolProofs ---------------------------
(***************************************************************************)
(* Proofs about SolverPool: no awaited job is silently lost, and the pool   *)
(* implements BatchPromise, for any number of workers, calls and deaths.    *)
(***************************************************************************)
EXTENDS SolverPool, TLAPS

(* Sequences used as queues.                                               *)

LEMMA AppendFacts ==
  ASSUME NEW S, NEW s \in Seq(S), NEW e \in S
  PROVE  /\ Append(s, e) \in Seq(S) /\ DOMAIN s \subseteq DOMAIN Append(s, e)
         /\ DOMAIN Append(s, e) = DOMAIN s \cup {Len(s) + 1} /\ Len(s) + 1 \notin DOMAIN s
         /\ \A n \in DOMAIN s : Append(s, e)[n] = s[n]
         /\ Append(s, e)[Len(s) + 1] = e
  OBVIOUS

LEMMA TailFacts ==
  ASSUME NEW S, NEW s \in Seq(S), s # <<>>
  PROVE  /\ Head(s) \in S /\ Tail(s) \in Seq(S)
         /\ \A n \in DOMAIN s : s[n] = Head(s) \/ (n - 1 \in DOMAIN Tail(s) /\ Tail(s)[n - 1] = s[n])
         /\ \A n \in DOMAIN Tail(s) : n + 1 \in DOMAIN s /\ Tail(s)[n] = s[n + 1]
         /\ 1 \in DOMAIN s /\ s[1] = Head(s)
  OBVIOUS

-----------------------------------------------------------------------------
(* Types, one lemma per step.                                              *)

LEMMA BatchShape ==
  ASSUME PoolAssumption, NEW cost \in Batches
  PROVE  /\ cost \in Seq(Nat) /\ Len(cost) \in Nat /\ DOMAIN cost = 1..Len(cost)
         /\ \A at \in [DOMAIN cost -> Workers] : at \in Seq(Workers)
  BY DEF PoolAssumption

LEMMA ChunkType ==
  ASSUME PoolAssumption, NEW cost \in Batches, NEW at \in [DOMAIN cost -> Workers],
         NEW c \in Nat, NEW first \in Nat \ {0}, NEW w \in Workers
  PROVE  Chunk(c, first, cost, at, w) \in SUBSET Jobs
  <1>1. DOMAIN cost \subseteq Nat \ {0}
    BY BatchShape
  <1>2. \A i \in DOMAIN cost : Job(first + i - 1, c, i) \in Jobs
    BY <1>1 DEF Job, Jobs
  <1> QED BY <1>2 DEF Chunk

LEMMA TypeInit == PoolAssumption /\ Init => TypeOK
  <1> SUFFICES ASSUME PoolAssumption, Init PROVE TypeOK
    OBVIOUS
  <1>1. DOMAIN answer = {} /\ 1..(nextJobId - 1) = {}
    BY DEF Init
  <1>2. inbox \in [Workers -> Seq(SUBSET Jobs)] /\ outbox \in [Workers -> Seq(Messages)]
    BY DEF Init
  <1>3. pending \subseteq 1..(nextJobId - 1) /\ DOMAIN answer = (1..(nextJobId - 1)) \ pending
    BY <1>1 DEF Init
  <1>4. calls \in Seq(Calls)
    BY DEF Init
  <1>5. /\ state \in [Workers -> {"loading", "up", "dead"}]
        /\ notice \in [Workers -> {<<>>} \cup Deaths]
    BY DEF Init
  <1>6. nextJobId \in Nat \ {0}
    BY DEF Init
  <1>7. /\ readied \subseteq Workers /\ gate \in {"waiting", "open", "failed"}
        /\ terminated \in BOOLEAN /\ stranded \subseteq Nat
    BY DEF Init
  <1> QED BY <1>2, <1>3, <1>4, <1>5, <1>6, <1>7 DEF TypeOK

LEMMA TypeSolveBatch ==
  ASSUME PoolAssumption, TypeOK, NEW cost \in Batches, SolveBatch(cost)
  PROVE  TypeOK'
  <1>1. PICK at \in [DOMAIN cost -> Workers] :
          /\ calls' = Append(calls, [first |-> nextJobId, cost |-> cost, at |-> at])
          /\ inbox' = [w \in Workers |->
               LET chunk == Chunk(Len(calls) + 1, nextJobId, cost, at, w)
               IN IF chunk = {} THEN inbox[w] ELSE Append(inbox[w], chunk)]
          /\ stranded' = stranded \cup
               {nextJobId + i - 1 : i \in {j \in DOMAIN cost :
                  state[at[j]] = "dead" /\ notice[at[j]] = <<>>}}
    BY DEF SolveBatch
  <1>2. /\ DOMAIN cost = 1..Len(cost) /\ Len(cost) \in Nat /\ at \in Seq(Workers)
    BY BatchShape
  <1>3. nextJobId' \in Nat \ {0} /\ nextJobId' = nextJobId + Len(cost)
    BY <1>2 DEF SolveBatch, TypeOK
  <1>4. Ids(nextJobId, cost) = nextJobId..(nextJobId + Len(cost) - 1)
    <2>1. \A id \in nextJobId..(nextJobId + Len(cost) - 1) :
            id - nextJobId + 1 \in DOMAIN cost /\ id = nextJobId + (id - nextJobId + 1) - 1
      BY <1>2 DEF TypeOK
    <2> QED BY <1>2, <2>1 DEF Ids, TypeOK
  <1>5. pending' \subseteq 1..(nextJobId' - 1)
    <2>1. pending' = pending \cup Ids(nextJobId, cost)
      BY DEF SolveBatch
    <2>2. pending \subseteq 1..(nextJobId - 1) /\ nextJobId \in Nat \ {0}
      BY DEF TypeOK
    <2>3. /\ 1..(nextJobId - 1) \subseteq 1..(nextJobId' - 1)
          /\ Ids(nextJobId, cost) \subseteq 1..(nextJobId' - 1)
      BY <1>2, <1>3, <1>4, <2>2
    <2> QED BY <2>1, <2>2, <2>3
  <1>6. DOMAIN answer' = (1..(nextJobId' - 1)) \ pending'
    <2>1. (1..(nextJobId' - 1)) = (1..(nextJobId - 1)) \cup Ids(nextJobId, cost)
      BY <1>2, <1>3, <1>4 DEF TypeOK
    <2>2. (1..(nextJobId - 1)) \cap Ids(nextJobId, cost) = {}
      BY <1>2, <1>3, <1>4 DEF TypeOK
    <2> QED BY <2>1, <2>2 DEF SolveBatch, TypeOK
  <1>7. calls' \in Seq(Calls)
    <2>1. [first |-> nextJobId, cost |-> cost, at |-> at] \in Calls
      BY <1>2 DEF TypeOK, Calls
    <2> QED BY <1>1, <2>1 DEF TypeOK
  <1>8. inbox' \in [Workers -> Seq(SUBSET Jobs)]
    <2>1. Len(calls) + 1 \in Nat
      BY DEF TypeOK
    <2>2. \A w \in Workers : Chunk(Len(calls) + 1, nextJobId, cost, at, w) \in SUBSET Jobs
      BY <2>1, ChunkType DEF TypeOK
    <2> QED BY <1>1, <2>2, AppendFacts DEF TypeOK
  <1>9. stranded' \subseteq Nat
    <2>1. \A i \in DOMAIN cost : nextJobId + i - 1 \in Nat
      BY <1>2 DEF TypeOK
    <2>2. stranded \subseteq Nat
      BY DEF TypeOK
    <2> QED BY <1>1, <2>1, <2>2
  <1> QED BY <1>3, <1>5, <1>6, <1>7, <1>8, <1>9 DEF SolveBatch, TypeOK

\* What Settle and FailAllPending do to the two variables they change.
LEMMA SettleType ==
  ASSUME TypeOK, NEW results, Settle(results)
  PROVE  pending' \subseteq pending /\ DOMAIN answer' = (1..(nextJobId - 1)) \ pending'
  BY DEF TypeOK, Settle, Answered

LEMMA FailType ==
  ASSUME TypeOK, FailAllPending
  PROVE  pending' = {} /\ DOMAIN answer' = (1..(nextJobId - 1)) \ pending'
  BY DEF TypeOK, FailAllPending

LEMMA NoticeTail ==
  ASSUME TypeOK, NEW w \in Workers, notice[w] # <<>>,
         notice' = [notice EXCEPT ![w] = Tail(@)]
  PROVE  notice' \in [Workers -> {<<>>} \cup Deaths]
  <1>1. Tail(<<"exit">>) = <<>>
    OBVIOUS
  <1>2. Tail(<<"error", "exit">>) = <<"exit">>
    OBVIOUS
  <1>3. Tail(<<"exit 0">>) = <<>>
    OBVIOUS
  <1>4. notice \in [Workers -> {<<>>} \cup Deaths]
    BY DEF TypeOK
  <1>5. notice[w] \in Deaths
    BY <1>4
  <1>6. Tail(notice[w]) \in {<<>>, <<"exit">>}
    BY <1>1, <1>2, <1>3, <1>5 DEF Deaths
  <1> QED BY <1>4, <1>6 DEF Deaths

LEMMA TypeStep == PoolAssumption /\ TypeOK /\ [Next]_vars => TypeOK'
  <1> SUFFICES ASSUME PoolAssumption, TypeOK, [Next]_vars PROVE TypeOK'
    OBVIOUS
  <1>0. CASE UNCHANGED vars
    BY <1>0 DEF TypeOK, vars, threads
  <1>1. ASSUME NEW cost \in Batches, SolveBatch(cost) PROVE TypeOK'
    BY <1>1, TypeSolveBatch
  <1>2. ASSUME NEW w \in Workers, BecomesReady(w) PROVE TypeOK'
    <2>1. Append(outbox[w], Ready) \in Seq(Messages)
      BY AppendFacts DEF TypeOK, Messages
    <2> QED BY <1>2, <2>1 DEF BecomesReady, TypeOK
  <1>3. ASSUME NEW w \in Workers, Solve(w) PROVE TypeOK'
    <2>1. PICK bad \in SUBSET Head(inbox[w]) : outbox' = [outbox EXCEPT ![w] = Append(@, Reply(
            {Result(job, IF job \in bad THEN "Error" ELSE "Optimal") : job \in Head(inbox[w])}))]
      BY <1>3 DEF Solve
    <2>2. Head(inbox[w]) \in SUBSET Jobs /\ Tail(inbox[w]) \in Seq(SUBSET Jobs)
      BY <1>3, TailFacts DEF Solve, TypeOK
    <2>3. \A job \in Jobs, s \in {"Error", "Optimal"} : Result(job, s) \in Results
      BY DEF Jobs, Results, Result
    <2>4. Reply({Result(job, IF job \in bad THEN "Error" ELSE "Optimal") :
                  job \in Head(inbox[w])}) \in Messages
      BY <2>2, <2>3 DEF Reply, Messages
    <2>5. outbox' \in [Workers -> Seq(Messages)]
      BY <2>1, <2>4, AppendFacts DEF TypeOK
    <2> QED BY <1>3, <2>2, <2>5 DEF Solve, TypeOK
  <1>4. ASSUME NEW w \in Workers, Dies(w) PROVE TypeOK'
    <2>1. PICK events \in Deaths :
            notice' = [notice EXCEPT ![w] = events]
      BY <1>4 DEF Dies
    <2>2. notice' \in [Workers -> {<<>>} \cup Deaths]
      BY <2>1 DEF TypeOK
    <2> QED BY <1>4, <2>2 DEF Dies, TypeOK
  <1>5. ASSUME NEW w \in Workers, OnReady(w) PROVE TypeOK'
    <2>1. outbox' \in [Workers -> Seq(Messages)]
      BY <1>5, TailFacts DEF OnReady, TypeOK
    <2> QED BY <1>5, <2>1 DEF OnReady, TypeOK
  <1>6. ASSUME NEW w \in Workers, OnReply(w) PROVE TypeOK'
    <2>1. outbox' \in [Workers -> Seq(Messages)]
      BY <1>6, TailFacts DEF OnReply, TypeOK
    <2> QED BY <1>6, <2>1, SettleType DEF OnReply, TypeOK
  <1>7. ASSUME NEW w \in Workers, OnError(w) PROVE TypeOK'
    <2>1. notice' \in [Workers -> {<<>>} \cup Deaths]
      BY <1>7, NoticeTail DEF OnError
    <2> QED BY <1>7, <2>1, FailType DEF OnError, RejectReady, TypeOK
  <1>8. ASSUME NEW w \in Workers, OnExit(w) PROVE TypeOK'
    <2>1. notice' \in [Workers -> {<<>>} \cup Deaths]
      BY <1>8, NoticeTail DEF OnExit
    <2>2. stranded' \subseteq Nat
      <3>1. \A n \in DOMAIN inbox[w] : \A job \in inbox[w][n] : job.jobId \in Nat
        <4>1. inbox[w] \in Seq(SUBSET Jobs)
          BY DEF TypeOK
        <4> QED BY <4>1 DEF Jobs
      <3>2. Unanswered(w) \subseteq Nat
        BY <3>1 DEF Unanswered
      <3> QED BY <1>8, <3>2 DEF OnExit, TypeOK
    <2> QED BY <1>8, <2>1, <2>2, FailType DEF OnExit, ExitFails, RejectReady, TypeOK
  <1>9. CASE Terminate
    <2>1. notice' \in [Workers -> {<<>>} \cup Deaths]
      <3>1. <<"exit">> \in Deaths
        BY DEF Deaths
      <3> QED BY <1>9, <3>1 DEF Terminate, TypeOK
    <2> QED BY <1>9, <2>1 DEF Terminate, TypeOK
  <1> QED BY <1>0, <1>1, <1>2, <1>3, <1>4, <1>5, <1>6, <1>7, <1>8, <1>9
        DEF Next, WorkerStep, PoolStep

\* Every variable keeps its type, and each job handed out is either awaited or
\* answered, never both.
THEOREM TypeCorrect == PoolAssumption => (Spec => []TypeOK)
  <1> SUFFICES ASSUME PoolAssumption PROVE Spec => []TypeOK
    OBVIOUS
  <1> QED BY TypeInit, TypeStep, PTL DEF Spec

-----------------------------------------------------------------------------
(* No awaited job is silently lost.                                        *)

Held(id, w) ==
  \/ InOutbox(id, w)
  \/ InInbox(id, w) /\ (state[w] # "dead" \/ notice[w] # <<>>)

\* A job keeps its place when the queue of its worker keeps it.
LEMMA HeldKept ==
  ASSUME NEW w, NEW id,
         \A n \in DOMAIN inbox[w] : n \in DOMAIN inbox'[w] /\ inbox'[w][n] = inbox[w][n],
         \A n \in DOMAIN outbox[w] : n \in DOMAIN outbox'[w] /\ outbox'[w][n] = outbox[w][n],
         state'[w] # "dead" \/ notice'[w] # <<>> \/ (state'[w] = state[w] /\ notice'[w] = notice[w])
  PROVE  Held(id, w) => Held(id, w)'
  BY DEF Held, InInbox, InOutbox

LEMMA HeldAfterTail ==
  ASSUME TypeOK, NEW w \in Workers, outbox[w] # <<>>, NEW v \in Workers, NEW id,
         outbox' = [outbox EXCEPT ![w] = Tail(@)],
         UNCHANGED <<inbox, state, notice>>,
         Held(id, v),
         ~ (v = w /\ \E r \in Head(outbox[w]).results : r.jobId = id)
  PROVE  Held(id, v)'
  <1>1. CASE v # w
    <2>1. outbox'[v] = outbox[v]
      BY <1>1 DEF TypeOK
    <2> QED BY <2>1 DEF Held, InInbox, InOutbox
  <1>2. CASE v = w
    <2>1. outbox'[w] = Tail(outbox[w]) /\ outbox[w] \in Seq(Messages)
      BY DEF TypeOK
    <2>2. \A n \in DOMAIN outbox[w] : outbox[w][n] = Head(outbox[w]) \/
            (n - 1 \in DOMAIN Tail(outbox[w]) /\ Tail(outbox[w])[n - 1] = outbox[w][n])
      BY <2>1, TailFacts
    <2>3. InOutbox(id, w) => InOutbox(id, w)'
      BY <1>2, <2>1, <2>2 DEF InOutbox
    <2>4. InInbox(id, w) => InInbox(id, w)'
      BY DEF InInbox
    <2> QED BY <1>2, <2>3, <2>4 DEF Held
  <1> QED BY <1>1, <1>2

LEMMA LossSolveBatch ==
  ASSUME PoolAssumption, TypeOK, NoSilentLoss, ~terminated,
         NEW cost \in Batches, SolveBatch(cost),
         NEW id \in pending' \ stranded'
  PROVE  \E w \in Workers : Held(id, w)'
  <1>1. PICK at \in [DOMAIN cost -> Workers] :
          /\ inbox' = [w \in Workers |->
               LET chunk == Chunk(Len(calls) + 1, nextJobId, cost, at, w)
               IN IF chunk = {} THEN inbox[w] ELSE Append(inbox[w], chunk)]
          /\ stranded' = stranded \cup
               {nextJobId + i - 1 : i \in {j \in DOMAIN cost :
                  state[at[j]] = "dead" /\ notice[at[j]] = <<>>}}
    BY DEF SolveBatch
  <1>2. \A w \in Workers : Chunk(Len(calls) + 1, nextJobId, cost, at, w) \in SUBSET Jobs
    <2>1. Len(calls) + 1 \in Nat
      BY DEF TypeOK
    <2> QED BY <2>1, ChunkType DEF TypeOK
  <1>3. UNCHANGED <<state, outbox, notice>>
    BY DEF SolveBatch
  <1>4. CASE id \in pending
    <2>1. PICK w \in Workers : Held(id, w)
      BY <1>1, <1>4 DEF NoSilentLoss, Held
    <2>2. \A n \in DOMAIN inbox[w] : n \in DOMAIN inbox'[w] /\ inbox'[w][n] = inbox[w][n]
      <3>1. inbox[w] \in Seq(SUBSET Jobs)
        BY DEF TypeOK
      <3> QED BY <1>1, <1>2, <3>1, AppendFacts
    <2> QED BY <1>3, <2>1, <2>2 DEF Held, InInbox, InOutbox
  <1>5. CASE id \in Ids(nextJobId, cost)
    <2>1. PICK i \in DOMAIN cost : id = nextJobId + i - 1
      BY <1>5 DEF Ids
    <2> DEFINE w == at[i]
               chunk == Chunk(Len(calls) + 1, nextJobId, cost, at, w)
    <2>2. w \in Workers
      BY <2>1
    <2>3. Job(id, Len(calls) + 1, i) \in chunk
      BY <2>1 DEF Chunk
    <2>4. inbox'[w] = Append(inbox[w], chunk)
      BY <1>1, <2>2, <2>3
    <2>5. InInbox(id, w)'
      <3>1. inbox[w] \in Seq(SUBSET Jobs) /\ chunk \in SUBSET Jobs
        BY <1>2, <2>2 DEF TypeOK
      <3>2. Len(inbox[w]) + 1 \in DOMAIN inbox'[w] /\ inbox'[w][Len(inbox[w]) + 1] = chunk
        BY <2>4, <3>1, AppendFacts
      <3>3. Job(id, Len(calls) + 1, i).jobId = id
        BY DEF Job
      <3> QED BY <2>3, <3>2, <3>3 DEF InInbox
    <2>6. state[w] # "dead" \/ notice[w] # <<>>
      BY <1>1, <2>1
    <2> QED BY <1>3, <2>2, <2>5, <2>6 DEF Held
  <1>6. pending' = pending \cup Ids(nextJobId, cost)
    BY DEF SolveBatch
  <1> QED BY <1>4, <1>5, <1>6

LEMMA LossStep ==
  PoolAssumption /\ TypeOK /\ NoSilentLoss /\ [Next]_vars => NoSilentLoss'
  <1> SUFFICES ASSUME PoolAssumption, TypeOK, NoSilentLoss, [Next]_vars, ~terminated',
                      NEW id \in pending' \ stranded'
               PROVE  \E w \in Workers : Held(id, w)'
    BY DEF NoSilentLoss, Held
  <1>0. CASE UNCHANGED vars
    BY <1>0 DEF vars, threads, NoSilentLoss, Held, InInbox, InOutbox
  <1>1. ASSUME NEW cost \in Batches, SolveBatch(cost) PROVE \E w \in Workers : Held(id, w)'
    BY <1>1, LossSolveBatch DEF SolveBatch
  <1>2. ASSUME NEW w \in Workers, BecomesReady(w) PROVE \E v \in Workers : Held(id, v)'
    <2>1. PICK v \in Workers : Held(id, v)
      BY <1>2 DEF BecomesReady, NoSilentLoss, Held
    <2>2. \A n \in DOMAIN outbox[v] : n \in DOMAIN outbox'[v] /\ outbox'[v][n] = outbox[v][n]
      <3>1. outbox[w] \in Seq(Messages) /\ Ready \in Messages
        BY DEF TypeOK, Messages
      <3>2. outbox' = [outbox EXCEPT ![w] = Append(@, Ready)] /\ DOMAIN outbox = Workers
        BY <1>2 DEF BecomesReady, TypeOK
      <3> QED BY <3>1, <3>2, AppendFacts
    <2>3. UNCHANGED <<inbox, notice>> /\ (state'[v] = state[v] \/ state'[v] # "dead")
      BY <1>2 DEF BecomesReady, TypeOK
    <2> QED BY <2>1, <2>2, <2>3, HeldKept
  <1>3. ASSUME NEW w \in Workers, Solve(w) PROVE \E v \in Workers : Held(id, v)'
    <2>1. PICK v \in Workers : Held(id, v)
      BY <1>3 DEF Solve, NoSilentLoss, Held
    <2>2. PICK bad \in SUBSET Head(inbox[w]) : outbox' = [outbox EXCEPT ![w] = Append(@, Reply(
            {Result(job, IF job \in bad THEN "Error" ELSE "Optimal") : job \in Head(inbox[w])}))]
      BY <1>3 DEF Solve
    <2> DEFINE results == {Result(job, IF job \in bad THEN "Error" ELSE "Optimal") :
                             job \in Head(inbox[w])}
    <2>3. /\ Head(inbox[w]) \in SUBSET Jobs /\ inbox' = [inbox EXCEPT ![w] = Tail(@)]
          /\ DOMAIN inbox = Workers /\ DOMAIN outbox = Workers
          /\ inbox[w] \in Seq(SUBSET Jobs) /\ inbox[w] # <<>> /\ outbox[w] \in Seq(Messages)
      BY <1>3, TailFacts DEF Solve, TypeOK
    <2>4. Reply(results) \in Messages
      BY <2>3 DEF Reply, Messages, Results, Result, Jobs
    <2>5. outbox'[w] = Append(outbox[w], Reply(results))
      BY <2>2, <2>3
    <2>6. /\ \A n \in DOMAIN outbox[v] : n \in DOMAIN outbox'[v] /\ outbox'[v][n] = outbox[v][n]
          /\ Len(outbox[w]) + 1 \in DOMAIN outbox'[w]
          /\ outbox'[w][Len(outbox[w]) + 1] = Reply(results)
      BY <2>2, <2>3, <2>4, <2>5, AppendFacts
    <2>7. CASE v # w
      <3>1. inbox'[v] = inbox[v] /\ UNCHANGED <<state, notice>>
        BY <1>3, <2>3, <2>7 DEF Solve
      <3> QED BY <2>1, <2>6, <3>1, HeldKept
    <2>8. CASE v = w
      <3>1. CASE InOutbox(id, w)
        BY <2>6, <2>8, <3>1 DEF Held, InOutbox
      <3>2. ASSUME NEW job \in Head(inbox[w]), job.jobId = id
            PROVE  InOutbox(id, w)'
        <4>0. \A s : Result(job, s).jobId = id
          BY <3>2 DEF Result
        <4>1. PICK r \in results : r.jobId = id
          <5> DEFINE r == Result(job, IF job \in bad THEN "Error" ELSE "Optimal")
          <5>1. r \in results
            BY <3>2
          <5>2. r.jobId = id
            BY <4>0
          <5> HIDE DEF r
          <5> QED BY <5>1, <5>2
        <4>2. Reply(results).results = results
          BY DEF Reply
        <4> QED BY <2>6, <4>1, <4>2 DEF InOutbox
      <3>3. CASE InInbox(id, w)
        <4>1. PICK n \in DOMAIN inbox[w] : \E job \in inbox[w][n] : job.jobId = id
          BY <3>3 DEF InInbox
        <4>2. CASE inbox[w][n] = Head(inbox[w])
          BY <3>2, <4>1, <4>2 DEF Held
        <4>3. CASE n - 1 \in DOMAIN Tail(inbox[w]) /\ Tail(inbox[w])[n - 1] = inbox[w][n]
          <5>1. inbox'[w] = Tail(inbox[w])
            BY <2>3
          <5>2. InInbox(id, w)'
            BY <4>1, <4>3, <5>1 DEF InInbox
          <5> QED BY <1>3, <5>2 DEF Held, Solve
        <4> QED BY <2>3, <4>1, <4>2, <4>3, TailFacts
      <3> QED BY <2>1, <2>8, <3>1, <3>3 DEF Held
    <2> QED BY <2>7, <2>8
  <1>4. ASSUME NEW w \in Workers, Dies(w) PROVE \E v \in Workers : Held(id, v)'
    <2>1. PICK v \in Workers : Held(id, v)
      BY <1>4 DEF Dies, NoSilentLoss, Held
    <2>2. PICK events \in Deaths :
            notice' = [notice EXCEPT ![w] = events]
      BY <1>4 DEF Dies
    <2>3. notice'[v] # <<>> \/ (state'[v] = state[v] /\ notice'[v] = notice[v])
      <3>1. <<"error", "exit">> # <<>> /\ <<"exit">> # <<>> /\ <<"exit 0">> # <<>>
        OBVIOUS
      <3>2. events # <<>>
        BY <3>1, Zenon DEF Deaths
      <3> QED BY <1>4, <2>2, <3>2 DEF Dies, TypeOK
    <2> QED BY <1>4, <2>1, <2>3, HeldKept DEF Dies
  <1>5. ASSUME NEW w \in Workers, OnReady(w) PROVE \E v \in Workers : Held(id, v)'
    <2>1. PICK v \in Workers : Held(id, v)
      BY <1>5 DEF OnReady, NoSilentLoss, Held
    <2>2. Head(outbox[w]).results = {}
      <3>1. Head(outbox[w]) \in Messages
        BY <1>5, TailFacts DEF OnReady, TypeOK
      <3>2. Head(outbox[w]).ready
        BY <1>5 DEF OnReady
      <3>3. Head(outbox[w]) \in [ready : {FALSE}, results : SUBSET Results] => ~Head(outbox[w]).ready
        OBVIOUS
      <3>4. Head(outbox[w]) = Ready
        BY <3>1, <3>2, <3>3 DEF Messages
      <3> QED BY <3>4 DEF Ready
    <2> QED BY <1>5, <2>1, <2>2, HeldAfterTail DEF OnReady
  <1>6. ASSUME NEW w \in Workers, OnReply(w) PROVE \E v \in Workers : Held(id, v)'
    <2>1. id \in pending /\ id \notin Answered(Head(outbox[w]).results)
      BY <1>6 DEF OnReply, Settle
    <2>2. PICK v \in Workers : Held(id, v)
      BY <1>6, <2>1 DEF OnReply, NoSilentLoss, Held
    <2>3. ~ \E r \in Head(outbox[w]).results : r.jobId = id
      BY <2>1 DEF Answered
    <2> QED BY <1>6, <2>2, <2>3, HeldAfterTail DEF OnReply
  <1>7. ASSUME NEW w \in Workers, OnError(w) PROVE \E v \in Workers : Held(id, v)'
    BY <1>7 DEF OnError, FailAllPending
  <1>8. ASSUME NEW w \in Workers, OnExit(w) PROVE \E v \in Workers : Held(id, v)'
    <2>1. CASE Head(notice[w]) # "exit 0"
      BY <1>8, <2>1 DEF OnExit, ExitFails, FailAllPending
    <2>2. CASE Head(notice[w]) = "exit 0"
      <3>1. /\ id \in pending \ stranded /\ id \notin Unanswered(w) /\ ~terminated
            /\ outbox[w] = <<>> /\ UNCHANGED <<state, inbox, outbox>>
        BY <1>8, <2>2 DEF OnExit
      <3>2. PICK v \in Workers : Held(id, v)
        BY <3>1 DEF NoSilentLoss, Held
      <3>3. v # w
        <4>1. ~InOutbox(id, w)
          BY <3>1 DEF InOutbox
        <4>2. ~InInbox(id, w)
          BY <3>1 DEF InInbox, Unanswered
        <4> QED BY <3>2, <4>1, <4>2 DEF Held
      <3>4. notice'[v] = notice[v]
        BY <1>8, <3>3 DEF OnExit, TypeOK
      <3> QED BY <3>1, <3>2, <3>4, HeldKept
    <2> QED BY <2>1, <2>2
  <1>9. CASE Terminate
    BY <1>9 DEF Terminate
  <1> QED BY <1>0, <1>1, <1>2, <1>3, <1>4, <1>5, <1>6, <1>7, <1>8, <1>9
        DEF Next, WorkerStep, PoolStep

\* Until shutdown, every awaited job has a reply, a living worker or an
\* unreported death to settle it, unless it was posted to a worker known dead
\* or was with one when its exit with code 0 was handled.
THEOREM NothingSilentlyLost == PoolAssumption => (Spec => []NoSilentLoss)
  <1> SUFFICES ASSUME PoolAssumption PROVE Spec => []NoSilentLoss
    OBVIOUS
  <1>1. Init => NoSilentLoss
    BY DEF Init, NoSilentLoss
  <1> QED BY <1>1, TypeCorrect, LossStep, PTL DEF Spec

-----------------------------------------------------------------------------
(* The pool implements BatchPromise.                                       *)

\* The numbers of a call lie after those of the calls before it.
NumbersInv ==
  \A c \in DOMAIN calls :
    /\ calls[c].first + Len(calls[c].cost) <= nextJobId
    /\ \A d \in DOMAIN calls : d > c => calls[c].first + Len(calls[c].cost) <= calls[d].first

\* A job or a result carries the LP that its number stands for.
Addressed(j) ==
  \E c \in DOMAIN calls : \E i \in DOMAIN calls[c].cost :
    j.jobId = JobOf(c, i) /\ j.lp = <<c, i>>

AddressInv ==
  /\ \A w \in Workers : \A n \in DOMAIN inbox[w] : \A j \in inbox[w][n] : Addressed(j)
  /\ \A w \in Workers : \A n \in DOMAIN outbox[w] :
       \A r \in outbox[w][n].results : Addressed(r) /\ r.status \in {"Optimal", "Error"}
  /\ \A id \in DOMAIN answer :
       \/ answer[id].status = "Error"
       \/ Addressed(answer[id]) /\ answer[id].jobId = id

PromiseInv == NumbersInv /\ AddressInv

LEMMA CallShape ==
  ASSUME PoolAssumption, TypeOK, NEW c \in DOMAIN calls
  PROVE  /\ c \in Nat /\ calls[c].first \in Nat \ {0} /\ Len(calls[c].cost) \in Nat
         /\ DOMAIN calls[c].cost = 1..Len(calls[c].cost)
         /\ \A i \in DOMAIN calls[c].cost : i \in Nat \ {0}
  <1>1. calls \in Seq(Calls)
    BY DEF TypeOK
  <1>2. c \in Nat /\ calls[c] \in Calls
    BY <1>1
  <1>3. calls[c].first \in Nat \ {0} /\ calls[c].cost \in Batches
    BY <1>2 DEF Calls
  <1> QED BY <1>2, <1>3, BatchShape

LEMMA Intervals ==
  ASSUME NEW a \in Nat, NEW m \in Nat, NEW i \in 1..m,
         NEW b \in Nat, NEW n \in Nat, NEW k \in 1..n, a + i - 1 = b + k - 1
  PROVE  ~ (a + m <= b) /\ ~ (b + n <= a)
  OBVIOUS

\* A number names one LP.
LEMMA OneNumber ==
  ASSUME PoolAssumption, TypeOK, NumbersInv,
         NEW c \in DOMAIN calls, NEW i \in DOMAIN calls[c].cost,
         NEW d \in DOMAIN calls, NEW k \in DOMAIN calls[d].cost,
         JobOf(c, i) = JobOf(d, k)
  PROVE  c = d /\ i = k
  <1>1. /\ c \in Nat /\ d \in Nat /\ i \in 1..Len(calls[c].cost) /\ k \in 1..Len(calls[d].cost)
        /\ calls[c].first \in Nat /\ Len(calls[c].cost) \in Nat
        /\ calls[d].first \in Nat /\ Len(calls[d].cost) \in Nat
    <2>1. /\ c \in Nat /\ i \in 1..Len(calls[c].cost)
          /\ calls[c].first \in Nat /\ Len(calls[c].cost) \in Nat
      BY CallShape
    <2>2. /\ d \in Nat /\ k \in 1..Len(calls[d].cost)
          /\ calls[d].first \in Nat /\ Len(calls[d].cost) \in Nat
      BY CallShape
    <2> QED BY <2>1, <2>2
  <1>2. d > c => calls[c].first + Len(calls[c].cost) <= calls[d].first
    BY DEF NumbersInv
  <1>3. c > d => calls[d].first + Len(calls[d].cost) <= calls[c].first
    BY DEF NumbersInv
  <1>4. calls[c].first + i - 1 = calls[d].first + k - 1
    BY DEF JobOf
  <1>5. ~ (d > c) /\ ~ (c > d)
    <2>1. /\ ~ (calls[c].first + Len(calls[c].cost) <= calls[d].first)
          /\ ~ (calls[d].first + Len(calls[d].cost) <= calls[c].first)
      BY <1>1, <1>4, Intervals
    <2> QED BY <1>2, <1>3, <2>1
  <1>6. c = d
    BY <1>1, <1>5
  <1> QED BY <1>1, <1>4, <1>6

\* A call's numbers were handed out.
LEMMA NumberKnown ==
  ASSUME PoolAssumption, TypeOK, NumbersInv,
         NEW c \in DOMAIN calls, NEW i \in DOMAIN calls[c].cost
  PROVE  JobOf(c, i) \in 1..(nextJobId - 1)
  <1>1. /\ calls[c].first \in Nat \ {0} /\ Len(calls[c].cost) \in Nat
        /\ i \in 1..Len(calls[c].cost)
    BY CallShape
  <1>2. calls[c].first + Len(calls[c].cost) <= nextJobId /\ nextJobId \in Nat
    BY DEF NumbersInv, TypeOK
  <1> QED BY <1>1, <1>2 DEF JobOf

\* What a call has got so far: the same numbers and costs in the next state.
CallsKept == \A c \in DOMAIN calls : c \in DOMAIN calls' /\ calls'[c] = calls[c]

LEMMA AddressKept ==
  ASSUME CallsKept, NEW j, Addressed(j) PROVE Addressed(j)'
  BY DEF CallsKept, Addressed, JobOf

LEMMA CallsGrow ==
  ASSUME PoolAssumption, TypeOK, [Next]_vars
  PROVE  CallsKept
  <1>1. ASSUME NEW cost \in Batches, SolveBatch(cost) PROVE CallsKept
    <2>1. PICK at \in [DOMAIN cost -> Workers] :
            calls' = Append(calls, [first |-> nextJobId, cost |-> cost, at |-> at])
      BY <1>1 DEF SolveBatch
    <2>2. [first |-> nextJobId, cost |-> cost, at |-> at] \in Calls
      BY BatchShape DEF TypeOK, Calls
    <2> QED BY <2>1, <2>2, AppendFacts DEF CallsKept, TypeOK
  <1>2. CASE UNCHANGED calls
    BY <1>2 DEF CallsKept
  <1> QED BY <1>1, <1>2 DEF Next, vars, WorkerStep, PoolStep, BecomesReady, Solve, Dies,
        OnReady, OnReply, OnError, OnExit, Terminate

LEMMA NumbersStep ==
  ASSUME PoolAssumption, TypeOK, NumbersInv, [Next]_vars
  PROVE  NumbersInv'
  <1>1. ASSUME NEW cost \in Batches, SolveBatch(cost) PROVE NumbersInv'
    <2> DEFINE call(at) == [first |-> nextJobId, cost |-> cost, at |-> at]
    <2>1. PICK at \in [DOMAIN cost -> Workers] : calls' = Append(calls, call(at))
      BY <1>1 DEF SolveBatch
    <2>2. call(at) \in Calls
      BY BatchShape DEF TypeOK, Calls
    <2> DEFINE n == Len(calls) + 1
    <2>3. /\ DOMAIN calls' = DOMAIN calls \cup {n} /\ n \notin DOMAIN calls
          /\ \A c \in DOMAIN calls : calls'[c] = calls[c]
          /\ calls'[n] = call(at)
      BY <2>1, <2>2, AppendFacts DEF TypeOK
    <2>4. n \in Nat /\ DOMAIN calls = 1..Len(calls) /\ \A c \in DOMAIN calls : c \in Nat /\ c < n
      BY DEF TypeOK
    <2>5. nextJobId' = nextJobId + Len(cost) /\ Len(cost) \in Nat /\ nextJobId \in Nat
      BY <1>1, BatchShape DEF SolveBatch, TypeOK
    <2>6. calls'[n].first = nextJobId /\ calls'[n].cost = cost
      BY <2>3
    <2>7. ASSUME NEW c \in DOMAIN calls
          PROVE  /\ calls'[c].first + Len(calls'[c].cost) <= nextJobId
                 /\ \A d \in DOMAIN calls : d > c =>
                      calls'[c].first + Len(calls'[c].cost) <= calls'[d].first
                 /\ calls'[c].first + Len(calls'[c].cost) \in Nat
      BY <2>3, CallShape DEF NumbersInv
    <2>8. ASSUME NEW c \in DOMAIN calls' PROVE
            /\ calls'[c].first + Len(calls'[c].cost) <= nextJobId'
            /\ \A d \in DOMAIN calls' : d > c =>
                 calls'[c].first + Len(calls'[c].cost) <= calls'[d].first
      <3>1. CASE c = n
        BY <2>3, <2>4, <2>5, <2>6, <3>1
      <3>2. CASE c \in DOMAIN calls
        <4>1. calls'[c].first + Len(calls'[c].cost) <= nextJobId'
          BY <2>5, <2>7, <3>2
        <4> QED BY <2>3, <2>6, <2>7, <3>2, <4>1
      <3> QED BY <2>3, <3>1, <3>2
    <2> QED BY <2>8 DEF NumbersInv
  <1>2. CASE UNCHANGED <<calls, nextJobId>>
    BY <1>2 DEF NumbersInv
  <1> QED BY <1>1, <1>2 DEF Next, vars, WorkerStep, PoolStep, BecomesReady, Solve, Dies,
        OnReady, OnReply, OnError, OnExit, Terminate

\* Chunks, replies and answers keep to their LPs.
LEMMA AddressStep ==
  ASSUME PoolAssumption, TypeOK, AddressInv, [Next]_vars
  PROVE  AddressInv'
  <1> USE CallsGrow
  <1> DEFINE InboxOk(w) == \A n \in DOMAIN inbox[w] : \A j \in inbox[w][n] : Addressed(j)
             ResultOk(r) == Addressed(r) /\ r.status \in {"Optimal", "Error"}
             OutboxOk(w) == \A n \in DOMAIN outbox[w] : \A r \in outbox[w][n].results : ResultOk(r)
             AnswerOk(id) == answer[id].status = "Error" \/ (Addressed(answer[id]) /\ answer[id].jobId = id)
  <1>0. /\ \A w \in Workers : InboxOk(w) /\ OutboxOk(w)
        /\ \A id \in DOMAIN answer : AnswerOk(id)
    BY DEF AddressInv
  <1>1. SUFFICES /\ \A w \in Workers : InboxOk(w)' /\ OutboxOk(w)'
                 /\ \A id \in DOMAIN answer' : AnswerOk(id)'
    BY DEF AddressInv
  <1>2. \A w \in Workers : inbox'[w] = inbox[w] => InboxOk(w)'
    BY <1>0, AddressKept
  <1>3. \A w \in Workers : outbox'[w] = outbox[w] => OutboxOk(w)'
    BY <1>0, AddressKept
  <1>4. answer' = answer => \A id \in DOMAIN answer' : AnswerOk(id)'
    BY <1>0, AddressKept
  <1>5. ASSUME NEW cost \in Batches, SolveBatch(cost)
        PROVE \A w \in Workers : InboxOk(w)'
    <2>1. PICK at \in [DOMAIN cost -> Workers] :
            /\ calls' = Append(calls, [first |-> nextJobId, cost |-> cost, at |-> at])
            /\ inbox' = [w \in Workers |->
                 LET chunk == Chunk(Len(calls) + 1, nextJobId, cost, at, w)
                 IN IF chunk = {} THEN inbox[w] ELSE Append(inbox[w], chunk)]
      BY <1>5 DEF SolveBatch
    <2> DEFINE n == Len(calls) + 1
               chunk(w) == Chunk(n, nextJobId, cost, at, w)
    <2>2. n \in DOMAIN calls' /\ calls'[n].first = nextJobId /\ calls'[n].cost = cost
      <3>1. [first |-> nextJobId, cost |-> cost, at |-> at] \in Calls
        BY BatchShape DEF TypeOK, Calls
      <3> QED BY <2>1, <3>1, AppendFacts DEF TypeOK
    <2>3. \A w \in Workers : \A j \in chunk(w) : Addressed(j)'
      BY <2>2 DEF Chunk, Job, Addressed, JobOf
    <2>4. \A w \in Workers : inbox[w] \in Seq(SUBSET Jobs) /\ chunk(w) \in SUBSET Jobs
      <3>1. n \in Nat /\ nextJobId \in Nat \ {0}
        BY DEF TypeOK
      <3> QED BY <3>1, ChunkType DEF TypeOK
    <2>5. ASSUME NEW w \in Workers PROVE InboxOk(w)'
      <3>1. CASE chunk(w) = {}
        BY <1>2, <2>1, <3>1
      <3>2. CASE chunk(w) # {}
        <4>1. inbox'[w] = Append(inbox[w], chunk(w))
          BY <2>1, <3>2
        <4>2. \A k \in DOMAIN inbox'[w] : inbox'[w][k] = chunk(w) \/
                (k \in DOMAIN inbox[w] /\ inbox'[w][k] = inbox[w][k])
          BY <2>4, <4>1, AppendFacts
        <4> QED BY <1>0, <2>3, <4>2, AddressKept
      <3> QED BY <3>1, <3>2
    <2> QED BY <2>5
  <1>6. ASSUME NEW w \in Workers, outbox[w] # <<>>, outbox' = [outbox EXCEPT ![w] = Tail(@)]
        PROVE  \A v \in Workers : OutboxOk(v)'
    <2>1. DOMAIN outbox = Workers /\ outbox[w] \in Seq(Messages)
      BY DEF TypeOK
    <2>2. \A n \in DOMAIN Tail(outbox[w]) : n + 1 \in DOMAIN outbox[w] /\
            Tail(outbox[w])[n] = outbox[w][n + 1]
      BY <1>6, <2>1, TailFacts
    <2>3. OutboxOk(w)'
      BY <1>0, <1>6, <2>1, <2>2, AddressKept
    <2>4. \A v \in Workers : v # w => outbox'[v] = outbox[v]
      BY <1>6, <2>1
    <2> QED BY <1>3, <2>3, <2>4
  <1>7. ASSUME FailAllPending PROVE \A id \in DOMAIN answer' : AnswerOk(id)'
    <2>1. ASSUME NEW id \in DOMAIN answer' PROVE AnswerOk(id)'
      <3>1. CASE id \in pending
        BY <1>7, <3>1 DEF FailAllPending
      <3>2. CASE id \notin pending
        <4>1. id \in DOMAIN answer /\ answer'[id] = answer[id]
          BY <1>7, <3>2 DEF FailAllPending
        <4> QED BY <1>0, <4>1, AddressKept
      <3> QED BY <3>1, <3>2
    <2> QED BY <2>1
  <1>8. CASE UNCHANGED vars
    BY <1>2, <1>3, <1>4, <1>8 DEF vars, threads
  <1>9. ASSUME NEW cost \in Batches, SolveBatch(cost) PROVE AddressInv'
    BY <1>3, <1>4, <1>5, <1>9 DEF SolveBatch, AddressInv
  <1>10. ASSUME NEW w \in Workers, BecomesReady(w) PROVE AddressInv'
    <2>1. DOMAIN outbox = Workers /\ outbox[w] \in Seq(Messages) /\ Ready \in Messages
      BY DEF TypeOK, Messages
    <2>2. outbox'[w] = Append(outbox[w], Ready) /\ \A v \in Workers : v # w => outbox'[v] = outbox[v]
      BY <1>10, <2>1 DEF BecomesReady
    <2>3. \A n \in DOMAIN outbox'[w] : outbox'[w][n] = Ready \/
            (n \in DOMAIN outbox[w] /\ outbox'[w][n] = outbox[w][n])
      BY <2>1, <2>2, AppendFacts
    <2>4. OutboxOk(w)'
      <3>1. Ready.results = {}
        BY DEF Ready
      <3> QED BY <1>0, <2>3, <3>1, AddressKept
    <2> QED BY <1>2, <1>3, <1>4, <1>10, <2>2, <2>4 DEF BecomesReady, AddressInv
  <1>11. ASSUME NEW w \in Workers, Solve(w) PROVE AddressInv'
    <2>1. PICK bad \in SUBSET Head(inbox[w]) : outbox' = [outbox EXCEPT ![w] = Append(@, Reply(
            {Result(job, IF job \in bad THEN "Error" ELSE "Optimal") : job \in Head(inbox[w])}))]
      BY <1>11 DEF Solve
    <2> DEFINE results == {Result(job, IF job \in bad THEN "Error" ELSE "Optimal") :
                             job \in Head(inbox[w])}
    <2>2. /\ inbox[w] \in Seq(SUBSET Jobs) /\ inbox[w] # <<>> /\ DOMAIN inbox = Workers
          /\ outbox[w] \in Seq(Messages) /\ DOMAIN outbox = Workers
          /\ inbox' = [inbox EXCEPT ![w] = Tail(@)]
      BY <1>11 DEF Solve, TypeOK
    <2>3. /\ Head(inbox[w]) \in SUBSET Jobs /\ 1 \in DOMAIN inbox[w] /\ inbox[w][1] = Head(inbox[w])
          /\ \A n \in DOMAIN Tail(inbox[w]) : n + 1 \in DOMAIN inbox[w] /\
               Tail(inbox[w])[n] = inbox[w][n + 1]
      BY <2>2, TailFacts
    <2>4. Reply(results) \in Messages
      BY <2>3 DEF Reply, Messages, Results, Result, Jobs
    <2>5. \A j \in Head(inbox[w]) : Addressed(j)
      BY <1>0, <2>3
    <2>6. \A j, s : Addressed(j) => Addressed(Result(j, s))
      BY DEF Addressed, Result
    <2>7. \A r \in results : ResultOk(r)
      BY <2>5, <2>6 DEF Result
    <2>8. InboxOk(w)' /\ \A v \in Workers : v # w => inbox'[v] = inbox[v]
      BY <1>0, <2>2, <2>3, AddressKept
    <2>9. OutboxOk(w)' /\ \A v \in Workers : v # w => outbox'[v] = outbox[v]
      <3>1. outbox'[w] = Append(outbox[w], Reply(results)) /\ Reply(results).results = results
        BY <2>1, <2>2 DEF Reply
      <3>2. \A n \in DOMAIN outbox'[w] : outbox'[w][n] = Reply(results) \/
              (n \in DOMAIN outbox[w] /\ outbox'[w][n] = outbox[w][n])
        BY <2>2, <2>4, <3>1, AppendFacts
      <3>3. ASSUME NEW n \in DOMAIN outbox'[w], NEW r \in outbox'[w][n].results PROVE ResultOk(r)'
        BY <1>0, <2>7, <3>1, <3>2, AddressKept
      <3> QED BY <2>1, <2>2, <3>3
    <2> QED BY <1>2, <1>3, <1>4, <1>11, <2>8, <2>9 DEF Solve, AddressInv
  <1>12. ASSUME NEW w \in Workers, Dies(w) PROVE AddressInv'
    BY <1>2, <1>3, <1>4, <1>12 DEF Dies, AddressInv
  <1>13. ASSUME NEW w \in Workers, OnReady(w) PROVE AddressInv'
    BY <1>2, <1>4, <1>6, <1>13 DEF OnReady, AddressInv
  <1>14. ASSUME NEW w \in Workers, OnReply(w) PROVE AddressInv'
    <2> DEFINE results == Head(outbox[w]).results
    <2>1. \A r \in results : ResultOk(r)
      <3>1. 1 \in DOMAIN outbox[w] /\ outbox[w][1] = Head(outbox[w])
        BY <1>14, TailFacts DEF OnReply, TypeOK
      <3> QED BY <1>0, <3>1
    <2>2. ASSUME NEW id \in DOMAIN answer' PROVE AnswerOk(id)'
      <3>1. CASE id \in Answered(results)
        <4>1. answer'[id] = CHOOSE r \in results : r.jobId = id
          BY <1>14, <3>1 DEF OnReply, Settle
        <4>2. \E r \in results : r.jobId = id
          BY <3>1 DEF Answered
        <4>3. answer'[id] \in results /\ answer'[id].jobId = id
          BY <4>1, <4>2
        <4> QED BY <2>1, <4>3, AddressKept
      <3>2. CASE id \notin Answered(results)
        <4>1. id \in DOMAIN answer /\ answer'[id] = answer[id]
          BY <1>14, <3>2 DEF OnReply, Settle
        <4> QED BY <1>0, <4>1, AddressKept
      <3> QED BY <3>1, <3>2
    <2> QED BY <1>2, <1>6, <1>14, <2>2 DEF OnReply, AddressInv
  <1>15. ASSUME NEW w \in Workers, OnError(w) PROVE AddressInv'
    BY <1>2, <1>3, <1>7, <1>15 DEF OnError, AddressInv
  <1>16. ASSUME NEW w \in Workers, OnExit(w) PROVE AddressInv'
    BY <1>2, <1>3, <1>4, <1>7, <1>16 DEF OnExit, ExitFails, AddressInv
  <1>17. CASE Terminate
    BY <1>2, <1>3, <1>4, <1>17 DEF Terminate, AddressInv
  <1>18. AddressInv'
    BY <1>8, <1>9, <1>10, <1>11, <1>12, <1>13, <1>14, <1>15, <1>16, <1>17, <1>2, <1>3, <1>4
       DEF Next, WorkerStep, PoolStep, vars, threads, AddressInv
  <1> QED BY <1>18 DEF AddressInv

\* A promise that no longer waits has an error or the solution of its own LP.
LEMMA OutcomeDecided ==
  ASSUME PoolAssumption, TypeOK, PromiseInv,
         NEW c \in DOMAIN calls, NEW i \in DOMAIN calls[c].cost,
         JobOf(c, i) \notin pending
  PROVE  JobOf(c, i) \in DOMAIN answer /\ Outcome(c, i) \in {"solved", "error"}
  <1> DEFINE id == JobOf(c, i)
  <1>1. id \in DOMAIN answer
    BY NumberKnown DEF PromiseInv, TypeOK
  <1>2. CASE answer[id].status = "Error"
    BY <1>1, <1>2 DEF Outcome
  <1>3. CASE Addressed(answer[id]) /\ answer[id].jobId = id
    <2>1. PICK d \in DOMAIN calls : \E k \in DOMAIN calls[d].cost :
            id = JobOf(d, k) /\ answer[id].lp = <<d, k>>
      BY <1>3 DEF Addressed
    <2>2. answer[id].lp = <<c, i>>
      BY <2>1, OneNumber DEF PromiseInv
    <2> QED BY <1>1, <2>2 DEF Outcome
  <1> QED BY <1>1, <1>2, <1>3 DEF PromiseInv, AddressInv

Decided ==
  \A c \in DOMAIN calls : \A i \in DOMAIN calls[c].cost :
    JobOf(c, i) \notin pending => Outcome(c, i) \in {"solved", "error"}

\* What was answered stays answered, with the same answer.
LEMMA AnswersKept ==
  ASSUME PoolAssumption, TypeOK, [Next]_vars
  PROVE  \A id \in DOMAIN answer : answer'[id] = answer[id] /\ id \notin pending'
  <1>0. \A id \in DOMAIN answer : id \notin pending /\ id \in 1..(nextJobId - 1)
    BY DEF TypeOK
  <1>1. ASSUME NEW cost \in Batches, SolveBatch(cost)
        PROVE  \A id \in DOMAIN answer : answer'[id] = answer[id] /\ id \notin pending'
    <2>1. \A id \in Ids(nextJobId, cost) : id \notin 1..(nextJobId - 1)
      BY BatchShape DEF Ids, TypeOK
    <2> QED BY <1>0, <1>1, <2>1 DEF SolveBatch
  <1>2. ASSUME NEW results, Settle(results)
        PROVE  \A id \in DOMAIN answer : answer'[id] = answer[id] /\ id \notin pending'
    BY <1>0, <1>2 DEF Settle, Answered
  <1>3. CASE FailAllPending
    BY <1>0, <1>3 DEF FailAllPending
  <1>4. CASE UNCHANGED <<answer, pending>>
    BY <1>0, <1>4
  <1> QED BY <1>1, <1>2, <1>3, <1>4 DEF Next, vars, WorkerStep, PoolStep, BecomesReady,
        Solve, Dies, OnReady, OnReply, OnError, OnExit, ExitFails, Terminate

LEMMA AskStep ==
  ASSUME PoolAssumption, TypeOK, PromiseInv, NEW cost \in Batches, SolveBatch(cost)
  PROVE  Promise!Ask(Len(cost))
  <1> DEFINE call(at) == [first |-> nextJobId, cost |-> cost, at |-> at]
  <1>0. PICK n \in Nat : n = Len(calls) + 1
    BY DEF TypeOK
  <1>1. PICK at \in [DOMAIN cost -> Workers] : calls' = Append(calls, call(at))
    BY DEF SolveBatch
  <1>2. call(at) \in Calls /\ DOMAIN cost = 1..Len(cost) /\ Len(cost) \in Nat
    BY BatchShape DEF TypeOK, Calls
  <1>3. /\ DOMAIN calls' = DOMAIN calls \cup {n} /\ n \notin DOMAIN calls
        /\ \A c \in DOMAIN calls : calls'[c] = calls[c]
        /\ calls'[n].first = nextJobId /\ calls'[n].cost = cost
    BY <1>0, <1>1, <1>2, AppendFacts DEF TypeOK
  <1>4. DOMAIN calls = 1..Len(calls) /\ Len(calls) \in Nat /\ DOMAIN calls' = 1..n
    BY <1>0, <1>1 DEF TypeOK
  <1>5. pending' = pending \cup Ids(nextJobId, cost) /\ answer' = answer
    BY DEF SolveBatch
  <1>6. ASSUME NEW c \in DOMAIN calls PROVE Outcomes'[c] = Outcomes[c]
    <2>1. ASSUME NEW i \in DOMAIN calls[c].cost PROVE Outcome(c, i)' = Outcome(c, i)
      <3>1. JobOf(c, i) \in 1..(nextJobId - 1)
        BY NumberKnown DEF PromiseInv
      <3>2. JobOf(c, i) \notin Ids(nextJobId, cost)
        BY <1>2, <3>1 DEF Ids, TypeOK
      <3>3. JobOf(c, i)' = JobOf(c, i)
        BY <1>3 DEF JobOf
      <3> QED BY <1>5, <3>2, <3>3 DEF Outcome
    <2> QED BY <1>3, <2>1 DEF Outcomes
  <1>7. Outcomes'[n] = [i \in 1..Len(cost) |-> "waiting"]
    <2>1. ASSUME NEW i \in 1..Len(cost) PROVE Outcome(n, i)' = "waiting"
      <3>1. JobOf(n, i)' \in Ids(nextJobId, cost)
        BY <1>2, <1>3 DEF JobOf, Ids
      <3> QED BY <1>5, <3>1 DEF Outcome
    <2> QED BY <1>2, <1>3, <2>1 DEF Outcomes
  <1>8. Outcomes' = Append(Outcomes, [i \in 1..Len(cost) |-> "waiting"])
    <2>1. DOMAIN Outcomes = 1..Len(calls) /\ Len(Outcomes) = Len(calls)
      BY <1>4 DEF Outcomes
    <2>2. Outcomes' = [c \in 1..n |-> Outcomes'[c]]
      BY <1>4 DEF Outcomes
    <2>3. Append(Outcomes, [i \in 1..Len(cost) |-> "waiting"])
            = [c \in 1..n |-> IF c \in 1..Len(calls) THEN Outcomes[c]
                              ELSE [i \in 1..Len(cost) |-> "waiting"]]
      BY <1>0, <1>4, <2>1
    <2>4. \A c \in 1..n : Outcomes'[c] = IF c \in 1..Len(calls) THEN Outcomes[c]
                              ELSE [i \in 1..Len(cost) |-> "waiting"]
      BY <1>0, <1>3, <1>4, <1>6, <1>7
    <2> QED BY <2>2, <2>3, <2>4
  <1> QED BY <1>8 DEF Promise!Ask

LEMMA SettleStep ==
  ASSUME PoolAssumption, TypeOK, PromiseInv, TypeOK', PromiseInv', [Next]_vars,
         Decided', UNCHANGED calls
  PROVE  Promise!Settle
  <1>1. ASSUME NEW c \in DOMAIN calls, NEW i \in DOMAIN calls[c].cost
        PROVE  \/ Outcome(c, i)' = Outcome(c, i)
               \/ Outcome(c, i) = "waiting" /\ Outcome(c, i)' \in {"solved", "error"}
    <2>1. JobOf(c, i)' = JobOf(c, i)
      BY DEF JobOf
    <2>2. JobOf(c, i) \notin pending' => Outcome(c, i)' \in {"solved", "error"}
      BY <2>1 DEF Decided
    <2>3. CASE JobOf(c, i) \in pending
      BY <2>1, <2>2, <2>3 DEF Outcome
    <2>4. CASE JobOf(c, i) \notin pending
      <3>1. JobOf(c, i) \in DOMAIN answer
        BY <2>4, OutcomeDecided
      <3>2. answer'[JobOf(c, i)] = answer[JobOf(c, i)] /\ JobOf(c, i) \notin pending'
        BY <3>1, AnswersKept
      <3> QED BY <2>1, <2>4, <3>2 DEF Outcome
    <2> QED BY <2>3, <2>4
  <1>2. /\ DOMAIN Outcomes = DOMAIN calls /\ DOMAIN Outcomes' = DOMAIN calls
        /\ \A c \in DOMAIN calls :
             /\ DOMAIN Outcomes[c] = DOMAIN calls[c].cost
             /\ DOMAIN Outcomes'[c] = DOMAIN calls[c].cost
             /\ \A i \in DOMAIN calls[c].cost :
                  Outcomes[c][i] = Outcome(c, i) /\ Outcomes'[c][i] = Outcome(c, i)'
    BY DEF Outcomes
  <1> QED BY <1>1, <1>2 DEF Promise!Settle, Promise!Kept, Promise!Settled

\* The pool implements BatchPromise: results in input order, each LP answered
\* at most once and by its own solution or an error, whatever dies and in
\* whatever order replies come.
THEOREM PoolKeepsPromise == PoolAssumption => (Spec => KeepsPromise)
  <1> SUFFICES ASSUME PoolAssumption PROVE Spec => KeepsPromise
    OBVIOUS
  <1>1. Init => PromiseInv /\ Promise!Init
    <2> SUFFICES ASSUME Init PROVE PromiseInv /\ Promise!Init
      OBVIOUS
    <2>1. /\ DOMAIN calls = {} /\ DOMAIN answer = {}
          /\ \A w \in Workers : DOMAIN inbox[w] = {} /\ DOMAIN outbox[w] = {}
      BY DEF Init
    <2>2. Outcomes = <<>>
      BY <2>1 DEF Outcomes
    <2> QED BY <2>1, <2>2 DEF PromiseInv, NumbersInv, AddressInv, Promise!Init
  <1>2. TypeOK /\ PromiseInv /\ [Next]_vars => PromiseInv'
    BY NumbersStep, AddressStep DEF PromiseInv
  <1>3. TypeOK /\ PromiseInv => Decided
    BY OutcomeDecided DEF Decided
  <1>4. TypeOK /\ PromiseInv /\ TypeOK' /\ PromiseInv' /\ Decided' /\ [Next]_vars
          => [Promise!Next]_Outcomes
    <2> SUFFICES ASSUME TypeOK, PromiseInv, TypeOK', PromiseInv', Decided', [Next]_vars
                 PROVE  [Promise!Next]_Outcomes
      OBVIOUS
    <2>1. ASSUME NEW cost \in Batches, SolveBatch(cost) PROVE Promise!Next
      <3>1. Len(cost) \in {Len(b) : b \in Batches}
        OBVIOUS
      <3> QED BY <2>1, <3>1, AskStep DEF Promise!Next
    <2>2. CASE UNCHANGED calls
      BY <2>2, SettleStep DEF Promise!Next
    <2> QED BY <2>1, <2>2 DEF Next, vars, WorkerStep, PoolStep, BecomesReady, Solve, Dies,
          OnReady, OnReply, OnError, OnExit, Terminate
  <1> QED BY <1>1, <1>2, <1>3, <1>4, TypeCorrect, PTL DEF Spec, KeepsPromise, Promise!Spec
=============================================================================
