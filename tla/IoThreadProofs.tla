---------------------------- MODULE IoThreadProofs ----------------------------
(***************************************************************************)
(* For any batch limit and any number of events, commands and markets: the  *)
(* state is well formed, the host's callbacks see the manager's events in   *)
(* order and without a gap, whenever the worker dies, and commands add up,  *)
(* however they overlap.                                                    *)
(***************************************************************************)
EXTENDS IoThread, TLAPS

Behind(A, B) == \A a \in A, b \in B : a < b

\* Delivered, then posted, then batched: the events in their order.
InOrder(p, d, b, e) ==
  /\ d \subseteq 1..e /\ b \subseteq 1..e
  /\ \A i \in DOMAIN p : p[i].ids \subseteq 1..e
  /\ Behind(d, b)
  /\ \A i \in DOMAIN p : Behind(d, p[i].ids) /\ Behind(p[i].ids, b)
  /\ \A i, j \in DOMAIN p : i < j => Behind(p[i].ids, p[j].ids)
  /\ \A n \in 1..e : n \in d \/ n \in b \/ \E i \in DOMAIN p : n \in p[i].ids

FeedInv == InOrder(port, delivered, batch, emitted)

-----------------------------------------------------------------------------
(* The four ways in which events move.                                     *)

\* The next event goes to the end of the batch.
LEMMA PushInOrder ==
  ASSUME NEW p \in Seq(Messages), NEW d, NEW b, NEW e \in Nat, InOrder(p, d, b, e)
  PROVE  InOrder(p, d, b \cup {e + 1}, e + 1)
<1>1. \A x \in 1..e : x \in 1..(e + 1) /\ x < e + 1
  OBVIOUS
<1>2. \A x \in 1..(e + 1) : x \in 1..e \/ x = e + 1
  OBVIOUS
<1>3. e + 1 \in 1..(e + 1)
  OBVIOUS
<1>4. Behind(d, b \cup {e + 1})
  BY <1>1 DEF InOrder, Behind
<1>5. \A i \in DOMAIN p : Behind(p[i].ids, b \cup {e + 1})
  BY <1>1 DEF InOrder, Behind
<1>6. d \subseteq 1..(e + 1) /\ b \cup {e + 1} \subseteq 1..(e + 1)
  BY <1>1, <1>3 DEF InOrder
<1>7. \A i \in DOMAIN p : p[i].ids \subseteq 1..(e + 1)
  BY <1>1 DEF InOrder
<1>8. \A n \in 1..(e + 1) : n \in d \/ n \in b \cup {e + 1} \/ \E i \in DOMAIN p : n \in p[i].ids
  BY <1>2 DEF InOrder
<1> QED BY <1>4, <1>5, <1>6, <1>7, <1>8 DEF InOrder

LEMMA AppendMessage ==
  ASSUME NEW p \in Seq(Messages), NEW msg \in Messages
  PROVE  /\ Append(p, msg) \in Seq(Messages)
         /\ DOMAIN Append(p, msg) = DOMAIN p \cup {Len(p) + 1}
         /\ \A i \in DOMAIN p : Append(p, msg)[i] = p[i] /\ i < Len(p) + 1
         /\ Append(p, msg)[Len(p) + 1] = msg
  OBVIOUS

\* The batch goes to the end of the port.
LEMMA PostInOrder ==
  ASSUME NEW p \in Seq(Messages), NEW d, NEW b, NEW e \in Nat, InOrder(p, d, b, e)
  PROVE  InOrder(Append(p, Events(b)), d, {}, e)
<1> DEFINE q == Append(p, Events(b))
<1>1. Events(b) \in Messages /\ Events(b).ids = b
  <2>1. b \in SUBSET Nat
    BY DEF InOrder
  <2> QED BY <2>1 DEF Events, Message, Messages
<1>2. /\ DOMAIN q = DOMAIN p \cup {Len(p) + 1}
      /\ \A i \in DOMAIN p : q[i] = p[i] /\ i < Len(p) + 1
      /\ q[Len(p) + 1].ids = b
  BY <1>1, AppendMessage
<1>3. DOMAIN p = 1..Len(p) /\ Len(p) \in Nat
  OBVIOUS
<1> HIDE DEF q
<1>4. \A i \in DOMAIN q : q[i].ids \subseteq 1..e
  BY <1>2 DEF InOrder
<1>5. \A i \in DOMAIN q : Behind(d, q[i].ids)
  BY <1>2 DEF InOrder
<1>6. \A i, j \in DOMAIN q : i < j => Behind(q[i].ids, q[j].ids)
  <2> SUFFICES ASSUME NEW i \in DOMAIN q, NEW j \in DOMAIN q, i < j
               PROVE  Behind(q[i].ids, q[j].ids)
    OBVIOUS
  <2>1. i \in DOMAIN p
    BY <1>2, <1>3
  <2>2. CASE j \in DOMAIN p
    BY <1>2, <2>1, <2>2 DEF InOrder
  <2>3. CASE j = Len(p) + 1
    BY <1>2, <2>1, <2>3 DEF InOrder
  <2> QED BY <1>2, <2>2, <2>3
<1>7. \A n \in 1..e : n \in d \/ \E i \in DOMAIN q : n \in q[i].ids
  <2> SUFFICES ASSUME NEW n \in 1..e PROVE n \in d \/ \E i \in DOMAIN q : n \in q[i].ids
    OBVIOUS
  <2>1. CASE n \in b
    BY <1>2, <2>1
  <2>2. CASE \E i \in DOMAIN p : n \in p[i].ids
    BY <1>2, <2>2
  <2> QED BY <2>1, <2>2 DEF InOrder
<1>8. \A i \in DOMAIN q : Behind(q[i].ids, {})
  BY DEF Behind
<1>9. Behind(d, {}) /\ d \subseteq 1..e
  BY DEF Behind, InOrder
<1> QED BY <1>4, <1>5, <1>6, <1>7, <1>8, <1>9 DEF InOrder, q

\* A message that carries no event changes nothing.
LEMMA OtherInOrder ==
  ASSUME NEW p \in Seq(Messages), NEW d, NEW b, NEW e \in Nat, InOrder(p, d, b, e),
         NEW msg \in Messages, msg.ids = {}
  PROVE  InOrder(Append(p, msg), d, b, e)
<1> DEFINE q == Append(p, msg)
<1>1. /\ DOMAIN q = DOMAIN p \cup {Len(p) + 1}
      /\ \A i \in DOMAIN p : q[i] = p[i] /\ i < Len(p) + 1
      /\ q[Len(p) + 1].ids = {}
  BY AppendMessage
<1> HIDE DEF q
<1>2. \A i \in DOMAIN q : (i \in DOMAIN p /\ q[i].ids = p[i].ids) \/ q[i].ids = {}
  BY <1>1
<1>3. \A i \in DOMAIN q : Behind(d, q[i].ids) /\ Behind(q[i].ids, b)
  BY <1>2 DEF InOrder, Behind
<1>4. \A i, j \in DOMAIN q : i < j => Behind(q[i].ids, q[j].ids)
  BY <1>2 DEF InOrder, Behind
<1>5. \A i \in DOMAIN q : q[i].ids \subseteq 1..e
  BY <1>2 DEF InOrder
<1>6. \A i \in DOMAIN p : i \in DOMAIN q /\ q[i].ids = p[i].ids
  BY <1>1
<1>7. \A n \in 1..e : n \in d \/ n \in b \/ \E i \in DOMAIN q : n \in q[i].ids
  BY <1>6 DEF InOrder
<1> QED BY <1>3, <1>4, <1>5, <1>7 DEF InOrder, q

LEMMA TailMessage ==
  ASSUME NEW p \in Seq(Messages), p # <<>>
  PROVE  /\ Tail(p) \in Seq(Messages) /\ Head(p) \in Messages /\ Head(p) = p[1]
         /\ 1 \in DOMAIN p
         /\ \A i \in DOMAIN Tail(p) : i + 1 \in DOMAIN p /\ Tail(p)[i] = p[i + 1] /\ 1 < i + 1
         /\ \A i \in DOMAIN p : i = 1 \/ (i - 1 \in DOMAIN Tail(p) /\ p[i] = Tail(p)[i - 1])
         /\ \A i \in DOMAIN Tail(p) : i \in Nat
  OBVIOUS

\* The oldest message reaches the callbacks.
LEMMA HandleInOrder ==
  ASSUME NEW p \in Seq(Messages), NEW d, NEW b, NEW e \in Nat, InOrder(p, d, b, e), p # <<>>
  PROVE  /\ InOrder(Tail(p), d \cup Head(p).ids, b, e)
         /\ \A n \in d \cup Head(p).ids, k \in 1..e : k < n => k \in d \cup Head(p).ids
<1> DEFINE q == Tail(p)
           h == Head(p).ids
<1>1. /\ h = p[1].ids /\ 1 \in DOMAIN p
      /\ \A i \in DOMAIN q : i + 1 \in DOMAIN p /\ q[i] = p[i + 1] /\ 1 < i + 1 /\ i \in Nat
      /\ \A i \in DOMAIN p : i = 1 \/ (i - 1 \in DOMAIN q /\ p[i] = q[i - 1])
  BY TailMessage
<1> HIDE DEF q, h
<1>2. h \subseteq 1..e /\ Behind(d, h) /\ Behind(h, b)
  BY <1>1 DEF InOrder
<1>3. d \cup h \subseteq 1..e /\ Behind(d \cup h, b)
  BY <1>2 DEF InOrder, Behind
<1>4. \A i \in DOMAIN q : Behind(h, q[i].ids) /\ Behind(d, q[i].ids)
  BY <1>1 DEF InOrder
<1>5. \A i \in DOMAIN q : Behind(d \cup h, q[i].ids)
  BY <1>4 DEF Behind
<1>6. \A i \in DOMAIN q : q[i].ids \subseteq 1..e /\ Behind(q[i].ids, b)
  BY <1>1 DEF InOrder
<1>7. \A i, j \in DOMAIN q : i < j => Behind(q[i].ids, q[j].ids)
  <2> SUFFICES ASSUME NEW i \in DOMAIN q, NEW j \in DOMAIN q, i < j
               PROVE  Behind(q[i].ids, q[j].ids)
    OBVIOUS
  <2>1. i + 1 < j + 1
    BY <1>1
  <2> QED BY <1>1, <2>1 DEF InOrder
<1>8. \A n \in 1..e : n \in d \cup h \/ n \in b \/ \E i \in DOMAIN q : n \in q[i].ids
  <2> SUFFICES ASSUME NEW n \in 1..e
               PROVE  n \in d \cup h \/ n \in b \/ \E i \in DOMAIN q : n \in q[i].ids
    OBVIOUS
  <2>1. CASE n \in d \/ n \in b
    BY <2>1
  <2>2. ASSUME NEW i \in DOMAIN p, n \in p[i].ids
        PROVE  n \in h \/ \E k \in DOMAIN q : n \in q[k].ids
    BY <1>1, <2>2
  <2> QED BY <2>1, <2>2 DEF InOrder
<1>9. InOrder(q, d \cup h, b, e)
  BY <1>2, <1>3, <1>5, <1>6, <1>7, <1>8 DEF InOrder
<1>10. ASSUME NEW n \in d \cup h, NEW k \in 1..e, k < n PROVE k \in d \cup h
  <2>1. n \in 1..e
    BY <1>3
  <2>2. ~(n < k)
    BY <1>10, <2>1
  <2>3. k \notin b
    BY <1>3, <2>2 DEF Behind
  <2>4. \A i \in DOMAIN q : k \notin q[i].ids
    BY <1>5, <2>2 DEF Behind
  <2> QED BY <1>8, <2>3, <2>4
<1> QED BY <1>9, <1>10 DEF q, h

-----------------------------------------------------------------------------
(* The feed through the steps of the two threads.                          *)

PortOK == port \in Seq(Messages)

LEMMA PlainMessages ==
  /\ Ready \in Messages /\ Ready.ids = {}
  /\ Message("book", {}, 0) \in Messages /\ Message("book", {}, 0).ids = {}
  /\ \A id \in Nat, kind \in {"ack", "cmderr"} :
       Answer(kind, id) \in Messages /\ Answer(kind, id).ids = {}
  BY DEF Ready, Message, Messages, Answer

LEMMA EventMessage == \A ids \in SUBSET Nat : Events(ids) \in Messages
  BY DEF Events, Message, Messages

\* flushBatch, on its own or ahead of another message.
LEMMA FlushedInOrder ==
  ASSUME PortOK, emitted \in Nat, FeedInv
  PROVE  Flushed \in Seq(Messages) /\ InOrder(Flushed, delivered, {}, emitted)
<1>1. Events(batch) \in Messages
  BY EventMessage DEF FeedInv, InOrder
<1>2. InOrder(Append(port, Events(batch)), delivered, {}, emitted)
  BY PostInOrder DEF PortOK, FeedInv
<1>3. CASE batch = {}
  BY <1>3 DEF Flushed, FeedInv, PortOK
<1>4. CASE batch # {}
  BY <1>1, <1>2, <1>4 DEF Flushed, PortOK
<1> QED BY <1>3, <1>4

Quiet == UNCHANGED <<port, delivered, batch, emitted>>

LEMMA FeedNext ==
  ASSUME TypeOK, FeedInv, [Next]_vars
  PROVE  PortOK' /\ FeedInv'
<1> USE DEF PortOK
<1>0. PortOK /\ emitted \in Nat /\ emitted + 1 \in Nat
  BY DEF TypeOK
<1>1. ASSUME Quiet PROVE PortOK' /\ FeedInv'
  BY <1>0, <1>1 DEF Quiet, FeedInv
<1>2. ASSUME NEW msg \in Messages, msg.ids = {}, port' = Append(port, msg),
             UNCHANGED <<delivered, batch, emitted>>
      PROVE  PortOK' /\ FeedInv'
  BY <1>0, <1>2, OtherInOrder, AppendMessage DEF FeedInv
<1>3. CASE FeedStep
  <2>1. InOrder(port, delivered, batch \cup {emitted + 1}, emitted + 1)
    BY <1>0, PushInOrder DEF FeedInv
  <2>2. CASE EmitPrice
    <3>1. CASE Cardinality(batch \cup {emitted + 1}) >= BatchMax
      <4>1. port' = Append(port, Events(batch \cup {emitted + 1})) /\ batch' = {}
            /\ emitted' = emitted + 1 /\ delivered' = delivered
        BY <2>2, <3>1 DEF EmitPrice
      <4>2. Events(batch \cup {emitted + 1}) \in Messages
        BY <2>1, EventMessage DEF InOrder
      <4> QED BY <1>0, <2>1, <4>1, <4>2, PostInOrder, AppendMessage DEF FeedInv
    <3>2. CASE ~(Cardinality(batch \cup {emitted + 1}) >= BatchMax)
      <4>1. port' = port /\ batch' = batch \cup {emitted + 1}
            /\ emitted' = emitted + 1 /\ delivered' = delivered
        BY <2>2, <3>2 DEF EmitPrice
      <4> QED BY <1>0, <2>1, <4>1 DEF FeedInv
    <3> QED BY <3>1, <3>2
  <2>3. CASE EmitUrgent
    <3>1. port' = Append(Flushed, Events({emitted + 1})) /\ batch' = {}
          /\ emitted' = emitted + 1 /\ delivered' = delivered
      BY <2>3 DEF EmitUrgent, FlushThenPost
    <3>2. Flushed \in Seq(Messages) /\ InOrder(Flushed, delivered, {}, emitted)
      BY <1>0, FlushedInOrder
    <3>3. InOrder(Flushed, delivered, {} \cup {emitted + 1}, emitted + 1)
      BY <1>0, <3>2, PushInOrder
    <3>4. InOrder(Flushed, delivered, {emitted + 1}, emitted + 1)
      BY <3>3
    <3>5. Events({emitted + 1}) \in Messages
      BY <1>0, EventMessage
    <3> HIDE DEF Flushed
    <3> QED BY <1>0, <3>1, <3>2, <3>4, <3>5, PostInOrder, AppendMessage DEF FeedInv
  <2>4. CASE TimerFires
    BY <1>0, <2>4, FlushedInOrder DEF TimerFires, FlushBatch, FeedInv
  <2> QED BY <1>3, <2>2, <2>3, <2>4 DEF FeedStep
<1>4. ASSUME NEW c \in current, Progress(c) PROVE PortOK' /\ FeedInv'
  <2>1. c.id \in Nat
    BY <1>4 DEF TypeOK
  <2>2. Answer("ack", c.id) \in Messages /\ Answer("ack", c.id).ids = {}
        /\ Answer("cmderr", c.id) \in Messages /\ Answer("cmderr", c.id).ids = {}
    BY <2>1, PlainMessages
  <2>3. CASE Finish(c) /\ sent[c.id].kind = "stopAll"
    <3>1. port' = Append(Flushed, Answer("ack", c.id)) /\ batch' = {}
          /\ emitted' = emitted /\ delivered' = delivered
      BY <2>3 DEF Finish
    <3>2. Flushed \in Seq(Messages) /\ InOrder(Flushed, delivered, {}, emitted)
      BY <1>0, FlushedInOrder
    <3> HIDE DEF Flushed
    <3> QED BY <1>0, <2>2, <3>1, <3>2, OtherInOrder, AppendMessage DEF FeedInv
  <2>4. CASE Finish(c) /\ sent[c.id].kind # "stopAll"
    BY <1>2, <2>2, <2>4 DEF Finish
  <2>5. CASE CommandFails(c)
    BY <1>2, <2>2, <2>5 DEF CommandFails, feed
  <2> QED BY <1>4, <2>3, <2>4, <2>5 DEF Progress
<1>5. CASE BecomesReady
  BY <1>2, <1>5, PlainMessages DEF BecomesReady, feed
<1>6. CASE AnswerFetch
  BY <1>2, <1>6, PlainMessages DEF AnswerFetch, feed
<1>7. CASE OnMessage
  <2>1. port # <<>> /\ port' = Tail(port) /\ delivered' = delivered \cup Head(port).ids
        /\ batch' = batch /\ emitted' = emitted
    BY <1>7 DEF OnMessage, feed
  <2> QED BY <1>0, <2>1, HandleInOrder, TailMessage DEF FeedInv
<1>8. CASE Begin \/ Dies \/ StopReturns \/ OnError \/ OnExit
  BY <1>1, <1>8 DEF Quiet, Begin, Dies, StopReturns, OnError, OnExit, feed
<1>9. CASE HostRequest
  BY <1>1, <1>9 DEF Quiet, HostRequest, StartTracking, UpdateSubscriptions, UnsubscribeMarket,
                    StopAll, FetchRestBook, Send, feed
<1>10. CASE UNCHANGED vars
  BY <1>1, <1>10 DEF Quiet, vars, feed
<1> QED BY <1>3, <1>4, <1>5, <1>6, <1>7, <1>8, <1>9, <1>10 DEF Next, HostHandler

-----------------------------------------------------------------------------
(* Types, apart from the feed's.                                           *)

FeedTypes ==
  emitted \in Nat /\ timer \in BOOLEAN /\ (batch # {} => timer)

WorkerTypes ==
  /\ worker \in {"loading", "up", "dead"}
  /\ notice \in {<<>>, <<"exit">>, <<"error", "exit">>}
  /\ terminated \in BOOLEAN
  /\ gate \in {"waiting", "open", "failed"}
  /\ fetch \in {"none", "wait", "answered", "book", "null"}
  /\ late \subseteq Nat

CommandTypes ==
  /\ sent \in Seq(Commands) /\ Len(promise) = Len(sent)
  /\ promise \in Seq({"wait", "ok", "failed"})
  /\ queue \in Seq(DOMAIN sent)
  /\ current \subseteq [id : DOMAIN sent, add : SUBSET Markets]
  /\ (\A c, d \in current : c = d)
  /\ subs \subseteq Markets /\ wanted \subseteq Markets

LEMMA SplitTypes ==
  PortOK /\ FeedInv /\ FeedTypes /\ WorkerTypes /\ CommandTypes => TypeOK
<1> SUFFICES ASSUME PortOK, FeedInv, FeedTypes, WorkerTypes, CommandTypes PROVE TypeOK
  OBVIOUS
<1>1. batch \subseteq 1..emitted /\ delivered \subseteq 1..emitted
  BY DEF FeedInv, InOrder
<1>2. delivered \subseteq Nat
  BY <1>1 DEF FeedTypes
<1> QED BY <1>1, <1>2 DEF TypeOK, PortOK, FeedTypes, WorkerTypes, CommandTypes

LEMMA FeedTypesNext == TypeOK /\ [Next]_vars => FeedTypes'
<1> SUFFICES ASSUME TypeOK, [Next]_vars PROVE FeedTypes'
  OBVIOUS
<1> USE DEF TypeOK, FeedTypes
<1>1. CASE FeedStep
  <2>1. emitted' \in {emitted, emitted + 1}
    BY <1>1 DEF FeedStep, EmitPrice, EmitUrgent, TimerFires
  <2>2. emitted' \in Nat
    BY <2>1
  <2>3. timer' = TRUE \/ (timer' = FALSE /\ batch' = {})
    BY <1>1, Zenon
       DEF FeedStep, EmitPrice, EmitUrgent, TimerFires, ScheduleFlush, FlushThenPost, FlushBatch
  <2>4. timer' \in BOOLEAN /\ (batch' # {} => timer')
    BY <2>3, Zenon
  <2> QED BY <2>2, <2>4
<1>2. ASSUME NEW c \in current, Progress(c) PROVE FeedTypes'
  BY <1>2 DEF Progress, Finish, CommandFails, feed
<1>3. CASE HostRequest
  BY <1>3 DEF HostRequest, StartTracking, UpdateSubscriptions, UnsubscribeMarket, StopAll,
              FetchRestBook, Send, feed
<1>4. CASE BecomesReady \/ AnswerFetch \/ OnMessage \/ Begin \/ Dies \/ StopReturns
           \/ OnError \/ OnExit \/ UNCHANGED vars
  BY <1>4 DEF BecomesReady, AnswerFetch, OnMessage, Begin, Dies, StopReturns, OnError, OnExit,
              vars, feed
<1> QED BY <1>1, <1>2, <1>3, <1>4 DEF Next, HostHandler

LEMMA NoticeTail ==
  ASSUME TypeOK, notice # <<>>, notice' = Tail(notice)
  PROVE  notice' \in {<<>>, <<"exit">>, <<"error", "exit">>}
<1>1. Tail(<<"exit">>) = <<>>
  OBVIOUS
<1>2. Tail(<<"error", "exit">>) = <<"exit">>
  OBVIOUS
<1> QED BY <1>1, <1>2 DEF TypeOK

LEMMA WorkerTypesNext == TypeOK /\ [Next]_vars => WorkerTypes'
<1> SUFFICES ASSUME TypeOK, [Next]_vars PROVE WorkerTypes'
  OBVIOUS
<1>1. WorkerTypes
  BY DEF TypeOK, WorkerTypes
<1>2. CASE FeedStep
  BY <1>1, <1>2 DEF FeedStep, EmitPrice, EmitUrgent, TimerFires, WorkerTypes, asks
<1>3. ASSUME NEW c \in current, Progress(c) PROVE WorkerTypes'
  BY <1>1, <1>3 DEF Progress, Finish, CommandFails, WorkerTypes, asks
<1>4. CASE HostRequest
  <2>1. CASE FetchRestBook
    BY <1>1, <2>1 DEF FetchRestBook, WorkerTypes
  <2>2. ASSUME NEW command, Send(command) PROVE WorkerTypes'
    <3>1. Len(sent) + 1 \in Nat
      BY DEF TypeOK
    <3> QED BY <1>1, <2>2, <3>1 DEF Send, WorkerTypes
  <2> QED BY <1>4, <2>1, <2>2 DEF HostRequest, StartTracking, UpdateSubscriptions,
                                  UnsubscribeMarket, StopAll
<1>5. CASE BecomesReady \/ AnswerFetch \/ Begin
  BY <1>1, <1>5 DEF BecomesReady, AnswerFetch, Begin, WorkerTypes, asks
<1>6. CASE OnMessage
  BY <1>1, <1>6 DEF OnMessage, WorkerTypes
<1>7. CASE Dies
  BY <1>1, <1>7 DEF Dies, WorkerTypes, asks
<1>8. CASE StopReturns
  BY <1>1, <1>8 DEF StopReturns, WorkerTypes, asks
<1>9. CASE OnError \/ OnExit
  <2>1. notice' \in {<<>>, <<"exit">>, <<"error", "exit">>}
    BY <1>9, NoticeTail DEF OnError, OnExit
  <2>2. fetch' \in {"none", "wait", "answered", "book", "null"}
    BY <1>1, <1>9 DEF OnError, OnExit, FailAllPending, WorkerTypes
  <2>3. gate' \in {"waiting", "open", "failed"}
    BY <1>1, <1>9 DEF OnError, OnExit, WorkerTypes
  <2>4. worker' = worker /\ terminated' = terminated /\ late' = late
    BY <1>9 DEF OnError, OnExit
  <2> QED BY <1>1, <2>1, <2>2, <2>3, <2>4 DEF WorkerTypes
<1>10. CASE UNCHANGED vars
  BY <1>1, <1>10 DEF vars, WorkerTypes, asks
<1> QED BY <1>2, <1>3, <1>4, <1>5, <1>6, <1>7, <1>8, <1>9, <1>10 DEF Next, HostHandler

LEMMA ArrayIsSeq ==
  ASSUME NEW n \in Nat, NEW S, NEW q \in [1..n -> S]
  PROVE  q \in Seq(S) /\ Len(q) = n
  OBVIOUS

LEMMA SeqUpdate ==
  ASSUME NEW S, NEW p \in Seq(S), NEW id, NEW as \in S, NEW q, q = [p EXCEPT ![id] = as]
  PROVE  q \in Seq(S) /\ Len(q) = Len(p)
<1>1. p \in [1..Len(p) -> S] /\ Len(p) \in Nat
  OBVIOUS
<1>2. q \in [1..Len(p) -> S]
  BY <1>1
<1> QED BY <1>1, <1>2, ArrayIsSeq

LEMMA PromiseMap ==
  ASSUME NEW p \in Seq({"wait", "ok", "failed"}), NEW q,
         q = [c \in DOMAIN p |-> IF p[c] = "wait" THEN "failed" ELSE p[c]]
  PROVE  q \in Seq({"wait", "ok", "failed"}) /\ Len(q) = Len(p)
<1>1. DOMAIN p = 1..Len(p) /\ Len(p) \in Nat
  OBVIOUS
<1>2. q \in [1..Len(p) -> {"wait", "ok", "failed"}]
  BY <1>1
<1> QED BY <1>1, <1>2

LEMMA SendTypes ==
  ASSUME CommandTypes, NEW command \in Commands, Send(command), wanted' \subseteq Markets
  PROVE  CommandTypes'
<1>1. /\ sent' \in Seq(Commands) /\ Len(promise') = Len(sent')
      /\ promise' \in Seq({"wait", "ok", "failed"})
  BY DEF CommandTypes, Send
<1>2. DOMAIN sent' = DOMAIN sent \cup {Len(sent) + 1}
  BY DEF CommandTypes, Send
<1>3. queue \in Seq(DOMAIN sent')
  BY <1>2 DEF CommandTypes
<1>4. queue' \in Seq(DOMAIN sent')
  <2>1. Len(sent) + 1 \in DOMAIN sent'
    BY <1>2
  <2>2. Append(queue, Len(sent) + 1) \in Seq(DOMAIN sent')
    BY <1>3, <2>1
  <2> QED BY <1>3, <2>2 DEF Send
<1>5. current' \subseteq [id : DOMAIN sent', add : SUBSET Markets]
  BY <1>2 DEF CommandTypes, Send
<1> QED BY <1>1, <1>4, <1>5 DEF CommandTypes, Send

LEMMA CommandTypesNext ==
  IoAssumption /\ TypeOK /\ [Next]_vars => CommandTypes'
<1> SUFFICES ASSUME IoAssumption, TypeOK, [Next]_vars PROVE CommandTypes'
  OBVIOUS
<1>1. CommandTypes
  BY DEF TypeOK, CommandTypes
<1>2. CASE FeedStep
  BY <1>1, <1>2 DEF FeedStep, EmitPrice, EmitUrgent, TimerFires, CommandTypes, asks, control
<1>3. ASSUME NEW c \in current, Progress(c) PROVE CommandTypes'
  <2>1. c.add \subseteq Markets
    BY <1>1, <1>3 DEF CommandTypes
  <2>2. /\ UNCHANGED <<sent, promise, wanted, queue>> /\ current' = current \ {c}
        /\ subs' \in {subs, subs \cup c.add}
    BY <1>3 DEF Progress, Finish, CommandFails, asks
  <2> QED BY <1>1, <2>1, <2>2 DEF CommandTypes
<1>4. CASE HostRequest
  <2>1. ASSUME NEW S \in Lists, StartTracking(S) PROVE CommandTypes'
    <3>1. S \subseteq Markets
      BY <2>1 DEF IoAssumption
    <3>2. Command("startTracking", S) \in Commands
      BY <3>1 DEF Command, Commands
    <3> QED BY <1>1, <2>1, <3>1, <3>2, SendTypes DEF StartTracking
  <2>2. ASSUME NEW S \in Lists, UpdateSubscriptions(S) PROVE CommandTypes'
    <3>1. S \subseteq Markets
      BY <2>2 DEF IoAssumption
    <3>2. Command("updateSubscriptions", S) \in Commands
      BY <3>1 DEF Command, Commands
    <3> QED BY <1>1, <2>2, <3>1, <3>2, SendTypes DEF UpdateSubscriptions
  <2>3. ASSUME NEW m \in Markets, UnsubscribeMarket(m) PROVE CommandTypes'
    <3>1. Command("unsubscribeMarket", {m}) \in Commands
      BY <2>3 DEF Command, Commands
    <3>2. wanted' \subseteq Markets
      BY <1>1, <2>3 DEF UnsubscribeMarket, CommandTypes
    <3> QED BY <1>1, <2>3, <3>1, <3>2, SendTypes DEF UnsubscribeMarket
  <2>4. CASE StopAll
    <3>1. Command("stopAll", {}) \in Commands
      BY DEF Command, Commands
    <3>2. wanted' \subseteq Markets
      BY <2>4 DEF StopAll
    <3> QED BY <1>1, <2>4, <3>1, <3>2, SendTypes DEF StopAll
  <2>5. CASE FetchRestBook
    BY <1>1, <2>5 DEF FetchRestBook, CommandTypes, control
  <2> QED BY <1>4, <2>1, <2>2, <2>3, <2>4, <2>5 DEF HostRequest
<1>5. CASE Begin
  <2> DEFINE id == Head(queue)
             want == sent[id].markets
             drop == CASE sent[id].kind = "unsubscribeMarket" -> want
                       [] sent[id].kind = "updateSubscriptions" -> subs \ want
                       [] OTHER -> subs
             new == IF sent[id].kind = "unsubscribeMarket" THEN {} ELSE want \ (subs \ drop)
  <2>1. id \in DOMAIN sent /\ Tail(queue) \in Seq(DOMAIN sent)
    BY <1>1, <1>5 DEF Begin, CommandTypes
  <2>2. sent[id] \in Commands
    BY <1>1, <2>1 DEF CommandTypes
  <2>3. want \subseteq Markets
    BY <2>2 DEF Commands
  <2>4. new \subseteq Markets
    BY <2>3
  <2>5. subs' = subs \ drop /\ current' = current \cup {[id |-> id, add |-> new]}
        /\ queue' = Tail(queue) /\ UNCHANGED <<sent, promise, wanted>> /\ current = {}
    BY <1>5 DEF Begin, NotDraining, asks
  <2> HIDE DEF id, new, drop
  <2>6. subs' \subseteq Markets
    BY <1>1, <2>5 DEF CommandTypes
  <2>7. current' \subseteq [id : DOMAIN sent, add : SUBSET Markets] /\ \A c, d \in current' : c = d
    BY <2>1, <2>4, <2>5
  <2> QED BY <1>1, <2>1, <2>5, <2>6, <2>7 DEF CommandTypes
<1>6. CASE OnMessage
  <2>1. \/ promise' = promise
        \/ promise' = [promise EXCEPT ![Head(port).id] = "ok"]
        \/ promise' = [promise EXCEPT ![Head(port).id] = "failed"]
    BY <1>6 DEF OnMessage, Settled
  <2>2. promise' \in Seq({"wait", "ok", "failed"}) /\ Len(promise') = Len(promise)
    <3> DEFINE S == {"wait", "ok", "failed"}
    <3>1. promise \in Seq(S) /\ "ok" \in S /\ "failed" \in S
      BY <1>1 DEF CommandTypes
    <3> HIDE DEF S
    <3>2. promise' \in Seq(S) /\ Len(promise') = Len(promise)
      BY <2>1, <3>1, SeqUpdate
    <3> QED BY <3>2 DEF S
  <2> QED BY <1>1, <1>6, <2>2 DEF OnMessage, CommandTypes, control
<1>7. CASE OnError \/ OnExit
  <2>1. promise' = promise
        \/ promise' = [c \in DOMAIN promise |-> IF promise[c] = "wait" THEN "failed" ELSE promise[c]]
    BY <1>7 DEF OnError, OnExit, FailAllPending
  <2>2. promise' \in Seq({"wait", "ok", "failed"}) /\ Len(promise') = Len(promise)
    BY <1>1, <2>1, PromiseMap DEF CommandTypes
  <2> QED BY <1>1, <1>7, <2>2 DEF OnError, OnExit, CommandTypes, control
<1>8. CASE BecomesReady \/ AnswerFetch \/ Dies \/ StopReturns \/ UNCHANGED vars
  BY <1>1, <1>8 DEF BecomesReady, AnswerFetch, Dies, StopReturns, vars, CommandTypes, asks, control
<1> QED BY <1>2, <1>3, <1>4, <1>5, <1>6, <1>7, <1>8 DEF Next, HostHandler

-----------------------------------------------------------------------------
(* The commands.  While the worker lives an unanswered command is in one    *)
(* place: queued, being applied, or answered by a message in the port.  As  *)
(* long as none has failed, the subscriptions, what the command in hand has *)
(* still to add and then the queue add up to wanted.                        *)

IsAnswer(msg) == msg.kind \in {"ack", "cmderr"}

Waits(id) == id \in DOMAIN sent /\ promise[id] = "wait"

OnePlace ==
  /\ \A i \in DOMAIN queue : Waits(queue[i])
  /\ \A c \in current : Waits(c.id)
  /\ \A i \in DOMAIN port : IsAnswer(port[i]) => Waits(port[i].id)
  /\ \A i, j \in DOMAIN queue : queue[i] = queue[j] => i = j
  /\ \A i \in DOMAIN queue, c \in current : queue[i] # c.id
  /\ \A i \in DOMAIN port : IsAnswer(port[i]) =>
       /\ \A j \in DOMAIN queue : queue[j] # port[i].id
       /\ \A c \in current : c.id # port[i].id
  /\ \A i, j \in DOMAIN port :
       IsAnswer(port[i]) /\ IsAnswer(port[j]) /\ port[i].id = port[j].id => i = j

\* No command has failed, as far as the worker knows.
Clean ==
  /\ \A c \in DOMAIN promise : promise[c] # "failed"
  /\ \A i \in DOMAIN port : port[i].kind # "cmderr"

\* What a command says of a market: the last one that concerns it decides.
IsList(id) == sent[id].kind # "unsubscribeMarket"
Concerns(id, m) == IsList(id) \/ m \in sent[id].markets
Wants(id, m) == IsList(id) /\ m \in sent[id].markets

Held(m) == m \in subs \/ \E c \in current : m \in c.add
Concerning(m) == {i \in DOMAIN queue : Concerns(queue[i], m)}

AddsUp ==
  \A m \in Markets :
    /\ Concerning(m) = {} => (m \in wanted <=> Held(m))
    /\ \A i \in Concerning(m) :
         (\A j \in Concerning(m) : j <= i) => (m \in wanted <=> Wants(queue[i], m))

CommandInv == worker # "dead" => notice = <<>> /\ OnePlace /\ (Clean => AddsUp)

-----------------------------------------------------------------------------
(* The commands through the steps of the two threads.                      *)

\* q is p with messages behind it that answer no command.
Extends(p, q) ==
  /\ \A i \in DOMAIN p : i \in DOMAIN q /\ q[i] = p[i]
  /\ \A i \in DOMAIN q : IsAnswer(q[i]) => i \in DOMAIN p

LEMMA ExtendsMore ==
  ASSUME NEW p \in Seq(Messages), NEW q \in Seq(Messages), Extends(p, q),
         NEW msg \in Messages, ~IsAnswer(msg)
  PROVE  Append(q, msg) \in Seq(Messages) /\ Extends(p, Append(q, msg))
<1>1. /\ Append(q, msg) \in Seq(Messages)
      /\ DOMAIN Append(q, msg) = DOMAIN q \cup {Len(q) + 1}
      /\ \A i \in DOMAIN q : Append(q, msg)[i] = q[i]
      /\ Append(q, msg)[Len(q) + 1] = msg
  BY AppendMessage
<1> QED BY <1>1 DEF Extends

LEMMA NoAnswer ==
  /\ ~IsAnswer(Ready) /\ ~IsAnswer(Message("book", {}, 0))
  /\ \A ids : ~IsAnswer(Events(ids))
  BY DEF IsAnswer, Ready, Events, Message

LEMMA FlushedExtends ==
  ASSUME TypeOK
  PROVE  Flushed \in Seq(Messages) /\ Extends(port, Flushed)
<1>1. port \in Seq(Messages) /\ Extends(port, port)
  BY DEF TypeOK, Extends
<1>2. Events(batch) \in Messages
  <2>1. batch \in SUBSET Nat
    BY DEF TypeOK
  <2> QED BY <2>1, EventMessage
<1> QED BY <1>1, <1>2, ExtendsMore, NoAnswer DEF Flushed

CommandState == <<subs, queue, current, sent, promise, wanted>>

\* A step of the feed.
LEMMA FeedKeepsCommands ==
  ASSUME OnePlace, Clean => AddsUp, UNCHANGED CommandState, Extends(port, port')
  PROVE  OnePlace' /\ (Clean' => AddsUp')
<1> USE DEF CommandState
<1>1. \A i \in DOMAIN port' : IsAnswer(port'[i]) => i \in DOMAIN port /\ port'[i] = port[i]
  BY DEF Extends
<1>2. OnePlace'
  BY <1>1 DEF OnePlace, Waits, IsAnswer
<1>3. Clean' => Clean
  BY DEF Clean, Extends
<1>4. AddsUp => AddsUp'
  BY DEF AddsUp, Concerning, Concerns, Wants, IsList, Held
<1> QED BY <1>2, <1>3, <1>4

\* The command in hand is answered; what it had to add is added unless it failed.
LEMMA AnswerKeepsCommands ==
  ASSUME TypeOK, OnePlace, Clean => AddsUp, NEW c \in current,
         NEW q \in Seq(Messages), Extends(port, q),
         NEW kind \in {"ack", "cmderr"}, port' = Append(q, Answer(kind, c.id)),
         current' = current \ {c}, UNCHANGED <<queue, sent, promise, wanted>>,
         kind = "ack" => subs' = subs \cup c.add
  PROVE  OnePlace' /\ (Clean' => AddsUp')
<1> DEFINE msg == Answer(kind, c.id)
<1>1. c.id \in Nat /\ current' = {} /\ c.id \in DOMAIN sent
  BY DEF TypeOK
<1>2. msg \in Messages /\ msg.kind = kind /\ msg.id = c.id
  BY <1>1 DEF Answer, Message, Messages
<1>3. /\ DOMAIN port' = DOMAIN q \cup {Len(q) + 1}
      /\ \A i \in DOMAIN q : port'[i] = q[i]
      /\ port'[Len(q) + 1] = msg
  BY <1>2, AppendMessage
<1> HIDE DEF msg
<1>4. \A i \in DOMAIN port : i \in DOMAIN port' /\ port'[i] = port[i]
  BY <1>3 DEF Extends
<1>5. \A i \in DOMAIN port' :
        IsAnswer(port'[i]) => (i \in DOMAIN port /\ port'[i] = port[i]) \/ (i = Len(q) + 1 /\ port'[i] = msg)
  BY <1>3 DEF Extends
<1>6. OnePlace'
  <2>1. (\A i \in DOMAIN port : IsAnswer(port[i]) => Waits(port[i].id))'
    BY <1>1, <1>2, <1>5 DEF OnePlace, Waits, IsAnswer
  <2>2. \A i \in DOMAIN port', j \in DOMAIN queue : IsAnswer(port'[i]) => queue[j] # port'[i].id
    BY <1>2, <1>5 DEF OnePlace
  <2>3. \A i, j \in DOMAIN port' :
          IsAnswer(port'[i]) /\ IsAnswer(port'[j]) /\ port'[i].id = port'[j].id => i = j
    BY <1>2, <1>5 DEF OnePlace
  <2>4. (\A i \in DOMAIN queue : Waits(queue[i]))'
    BY DEF OnePlace, Waits
  <2> QED BY <1>1, <2>1, <2>2, <2>3, <2>4 DEF OnePlace, IsAnswer
<1>7. CASE kind = "cmderr"
  <2>1. ~Clean'
    BY <1>2, <1>3, <1>7 DEF Clean
  <2> QED BY <1>6, <2>1
<1>8. CASE kind = "ack"
  <2>1. Clean' => Clean
    BY <1>4 DEF Clean
  <2>2. \A m : Held(m) <=> Held(m)'
    BY <1>1, <1>8 DEF Held, TypeOK
  <2>3. AddsUp => AddsUp'
    BY <2>2 DEF AddsUp, Concerning, Concerns, Wants, IsList
  <2> QED BY <1>6, <2>1, <2>3
<1> QED BY <1>7, <1>8

LEMMA AppendId ==
  ASSUME NEW S, NEW q \in Seq(S), NEW x
  PROVE  /\ DOMAIN Append(q, x) = DOMAIN q \cup {Len(q) + 1}
         /\ \A i \in DOMAIN q : Append(q, x)[i] = q[i] /\ i < Len(q) + 1 /\ i \in Nat
         /\ Append(q, x)[Len(q) + 1] = x
         /\ Len(q) + 1 \notin DOMAIN q /\ Len(q) + 1 \in Nat
  OBVIOUS

\* sendCommand to a live worker: the newest command has the last word.
LEMMA SendKeepsCommands ==
  ASSUME TypeOK, OnePlace, Clean => AddsUp, worker # "dead",
         NEW command \in Commands, Send(command),
         \A m \in Markets :
           m \in wanted' <=> IF command.kind # "unsubscribeMarket" \/ m \in command.markets
                             THEN command.kind # "unsubscribeMarket" /\ m \in command.markets
                             ELSE m \in wanted
  PROVE  OnePlace' /\ (Clean' => AddsUp')
<1>a. PICK new : new = Len(sent) + 1
  OBVIOUS
<1>b. PICK last : last = Len(queue) + 1
  OBVIOUS
<1>1. /\ sent \in Seq(Commands) /\ promise \in Seq({"wait", "ok", "failed"})
      /\ Len(promise) = Len(sent) /\ queue \in Seq(DOMAIN sent)
  BY DEF TypeOK
<1>2. /\ sent' = Append(sent, command) /\ promise' = Append(promise, "wait")
      /\ queue' = Append(queue, new) /\ UNCHANGED <<current, port, subs>>
  BY <1>a DEF Send
<1>3. /\ DOMAIN sent' = DOMAIN sent \cup {new} /\ DOMAIN promise' = DOMAIN promise \cup {new}
      /\ DOMAIN promise = DOMAIN sent
      /\ \A id \in DOMAIN sent : sent'[id] = sent[id] /\ promise'[id] = promise[id]
      /\ sent'[new] = command /\ promise'[new] = "wait" /\ new \notin DOMAIN sent
  BY <1>1, <1>2, <1>a, AppendId
<1>4. /\ DOMAIN queue' = DOMAIN queue \cup {last}
      /\ \A i \in DOMAIN queue : queue'[i] = queue[i] /\ i < last /\ i \in Nat
      /\ queue'[last] = new /\ last \notin DOMAIN queue /\ last \in Nat
  BY <1>1, <1>2, <1>b, AppendId
<1>5. \A i \in DOMAIN queue : queue[i] \in DOMAIN sent
  BY <1>1
<1>6. \A id : Waits(id) => Waits(id)'
  BY <1>3 DEF Waits
<1>7. Waits(new)'
  BY <1>3 DEF Waits
<1>8. OnePlace'
  <2>1. (\A i \in DOMAIN queue : Waits(queue[i]))'
    BY <1>3, <1>4, <1>5 DEF OnePlace, Waits
  <2>2. \A i, j \in DOMAIN queue' : queue'[i] = queue'[j] => i = j
    BY <1>3, <1>4, <1>5 DEF OnePlace
  <2>3. (\A c \in current : Waits(c.id))'
    BY <1>2, <1>3 DEF OnePlace, Waits
  <2>4. (\A i \in DOMAIN port : IsAnswer(port[i]) => Waits(port[i].id))'
    BY <1>2, <1>3 DEF OnePlace, Waits, IsAnswer
  <2>5. \A i \in DOMAIN queue', c \in current : queue'[i] # c.id
    BY <1>3, <1>4, <1>5 DEF OnePlace, Waits
  <2>6. \A i \in DOMAIN port : IsAnswer(port[i]) =>
          /\ \A j \in DOMAIN queue' : queue'[j] # port[i].id
          /\ \A c \in current : c.id # port[i].id
    BY <1>3, <1>4, <1>5 DEF OnePlace, Waits
  <2>7. \A i, j \in DOMAIN port :
          IsAnswer(port[i]) /\ IsAnswer(port[j]) /\ port[i].id = port[j].id => i = j
    BY DEF OnePlace
  <2> QED BY <1>2, <2>1, <2>2, <2>3, <2>4, <2>5, <2>6, <2>7 DEF OnePlace, IsAnswer
<1>9. Clean' => Clean
  BY <1>2, <1>3 DEF Clean
<1>10. ASSUME AddsUp PROVE AddsUp'
  <2> SUFFICES ASSUME NEW m \in Markets
               PROVE  /\ Concerning(m)' = {} => (m \in wanted' <=> Held(m)')
                      /\ \A i \in Concerning(m)' : (\A j \in Concerning(m)' : j <= i) =>
                           (m \in wanted' <=> Wants(queue[i], m)')
    BY DEF AddsUp
  <2> DEFINE says == command.kind # "unsubscribeMarket" \/ m \in command.markets
  <2>1. \A i \in DOMAIN queue : (i \in Concerning(m)' <=> i \in Concerning(m))
                                /\ (Wants(queue[i], m)' <=> Wants(queue[i], m))
    BY <1>3, <1>4, <1>5 DEF Concerning, Concerns, Wants, IsList
  <2>2. last \in Concerning(m)' <=> says
    BY <1>3, <1>4 DEF Concerning, Concerns, IsList
  <2>3. Concerning(m)' \subseteq DOMAIN queue \cup {last} /\ Concerning(m) \subseteq DOMAIN queue
    BY <1>4 DEF Concerning
  <2>4. CASE says
    <3>1. m \in wanted' <=> Wants(queue[last], m)'
      BY <1>3, <1>4, <2>4 DEF Wants, IsList
    <3>2. \A i \in Concerning(m)' : (\A j \in Concerning(m)' : j <= i) => i = last
      <4> SUFFICES ASSUME NEW i \in Concerning(m)', \A j \in Concerning(m)' : j <= i, i # last
                   PROVE  FALSE
        OBVIOUS
      <4>1. i \in DOMAIN queue /\ last <= i
        BY <2>2, <2>3, <2>4
      <4> QED BY <1>4, <4>1
    <3> QED BY <2>2, <2>4, <3>1, <3>2
  <2>5. CASE ~says
    <3>1. Concerning(m)' = Concerning(m)
      BY <2>1, <2>2, <2>3, <2>5
    <3>2. m \in wanted' <=> m \in wanted
      BY <2>5
    <3>3. Held(m)' <=> Held(m)
      BY <1>2 DEF Held
    <3> HIDE DEF says
    <3> QED BY <1>10, <2>1, <2>3, <3>1, <3>2, <3>3 DEF AddsUp
  <2> QED BY <2>4, <2>5
<1> QED BY <1>8, <1>9, <1>10

LEMMA TailId ==
  ASSUME NEW S, NEW q \in Seq(S), q # <<>>
  PROVE  /\ Head(q) = q[1] /\ 1 \in DOMAIN q
         /\ \A i \in DOMAIN Tail(q) : i + 1 \in DOMAIN q /\ Tail(q)[i] = q[i + 1] /\ i \in Nat
         /\ \A i \in DOMAIN q : i = 1 \/ (i - 1 \in DOMAIN Tail(q) /\ q[i] = Tail(q)[i - 1])
         /\ \A i \in DOMAIN q : i \in Nat /\ 1 <= i
  OBVIOUS

\* The first command leaves the queue and becomes the one in hand: what it
\* wants is then tracked or about to be added, and what it does not want is not.
LEMMA BeginKeepsCommands ==
  ASSUME TypeOK, OnePlace, Clean => AddsUp, Begin
  PROVE  OnePlace' /\ (Clean' => AddsUp')
<1>a. PICK id : id = Head(queue)
  OBVIOUS
<1> DEFINE want == sent[id].markets
           drop == CASE sent[id].kind = "unsubscribeMarket" -> want
                     [] sent[id].kind = "updateSubscriptions" -> subs \ want
                     [] OTHER -> subs
           new == IF sent[id].kind = "unsubscribeMarket" THEN {} ELSE want \ (subs \ drop)
<1>1. /\ queue \in Seq(DOMAIN sent) /\ queue # <<>> /\ queue' = Tail(queue)
      /\ UNCHANGED <<sent, promise, wanted, port>> /\ current = {}
      /\ subs' = subs \ drop /\ current' = {[id |-> id, add |-> new]}
  BY <1>a DEF TypeOK, Begin, NotDraining, asks
<1>2. /\ id = queue[1] /\ 1 \in DOMAIN queue /\ id \in DOMAIN sent
      /\ \A i \in DOMAIN queue' : i + 1 \in DOMAIN queue /\ queue'[i] = queue[i + 1] /\ i \in Nat
      /\ \A i \in DOMAIN queue : i = 1 \/ (i - 1 \in DOMAIN queue' /\ queue[i] = queue'[i - 1])
      /\ \A i \in DOMAIN queue : i \in Nat /\ 1 <= i
  BY <1>1, <1>a, TailId
<1>3. \A m : Held(m)' <=> IF Concerns(id, m) THEN Wants(id, m) ELSE Held(m)
  <2> SUFFICES ASSUME NEW m PROVE Held(m)' <=> IF Concerns(id, m) THEN Wants(id, m) ELSE Held(m)
    OBVIOUS
  <2>1. Held(m)' <=> (m \in subs /\ m \notin drop) \/ m \in new
    BY <1>1 DEF Held
  <2>2. Held(m) <=> m \in subs
    BY <1>1 DEF Held
  <2>3. CASE sent[id].kind = "unsubscribeMarket"
    <3>1. drop = want /\ new = {}
      BY <2>3
    <3> QED BY <2>1, <2>2, <2>3, <3>1 DEF Concerns, Wants, IsList
  <2>4. CASE sent[id].kind # "unsubscribeMarket"
    <3>1. new = want \ (subs \ drop) /\ (drop = subs \ want \/ drop = subs)
      BY <2>4
    <3> HIDE DEF new, drop
    <3> QED BY <2>1, <2>4, <3>1 DEF Concerns, Wants, IsList
  <2> QED BY <2>3, <2>4
<1> HIDE DEF new, drop
<1>4. OnePlace'
  <2>1. (\A i \in DOMAIN queue : Waits(queue[i]))' /\ (\A c \in current : Waits(c.id))'
    BY <1>1, <1>2 DEF OnePlace, Waits
  <2>2. \A i, j \in DOMAIN queue' : queue'[i] = queue'[j] => i = j
    <3> SUFFICES ASSUME NEW i \in DOMAIN queue', NEW j \in DOMAIN queue', queue'[i] = queue'[j]
                 PROVE  i = j
      OBVIOUS
    <3>1. i + 1 = j + 1
      BY <1>2 DEF OnePlace
    <3> QED BY <1>2, <3>1
  <2>3. \A i \in DOMAIN queue' : queue'[i] # id
    <3> SUFFICES ASSUME NEW i \in DOMAIN queue', queue'[i] = id PROVE FALSE
      OBVIOUS
    <3>1. i + 1 = 1 /\ i + 1 \in DOMAIN queue /\ i \in Nat /\ 1 <= i
      <4>1. i \in Nat /\ i + 1 = 1
        BY <1>2 DEF OnePlace
      <4>2. 1 <= i
        BY <1>1
      <4> QED BY <1>2, <4>1, <4>2
    <3> QED BY <3>1
  <2>4. \A i \in DOMAIN queue', c \in current' : queue'[i] # c.id
    BY <1>1, <2>3
  <2>5. \A i \in DOMAIN port : IsAnswer(port[i]) =>
          /\ \A j \in DOMAIN queue' : queue'[j] # port[i].id
          /\ \A c \in current' : c.id # port[i].id
    BY <1>1, <1>2 DEF OnePlace
  <2>6. (\A i \in DOMAIN port : IsAnswer(port[i]) => Waits(port[i].id))'
    BY <1>1 DEF OnePlace, Waits
  <2>7. \A i, j \in DOMAIN port :
          IsAnswer(port[i]) /\ IsAnswer(port[j]) /\ port[i].id = port[j].id => i = j
    BY DEF OnePlace
  <2> QED BY <1>1, <2>1, <2>2, <2>4, <2>5, <2>6, <2>7 DEF OnePlace, IsAnswer
<1>5. Clean' => Clean
  BY <1>1 DEF Clean
<1>6. ASSUME AddsUp PROVE AddsUp'
  <2> SUFFICES ASSUME NEW m \in Markets
               PROVE  /\ Concerning(m)' = {} => (m \in wanted <=> Held(m)')
                      /\ \A i \in Concerning(m)' : (\A j \in Concerning(m)' : j <= i) =>
                           (m \in wanted <=> Wants(queue[i], m)')
    BY <1>1 DEF AddsUp
  <2>1. \A i : i \in Concerning(m)' => i + 1 \in Concerning(m) /\ i \in Nat
    BY <1>1, <1>2 DEF Concerning, Concerns, IsList
  <2>2. \A i \in Concerning(m) : i = 1 \/ (i - 1 \in Concerning(m)' /\ i \in Nat)
    BY <1>1, <1>2 DEF Concerning, Concerns, IsList
  <2>3. \A i \in DOMAIN queue' : Wants(queue[i], m)' <=> Wants(queue[i + 1], m)
    BY <1>1, <1>2 DEF Wants, IsList
  <2>4. 1 \in Concerning(m) <=> Concerns(id, m)
    BY <1>2 DEF Concerning
  <2>5. ASSUME Concerning(m)' = {} PROVE m \in wanted <=> Held(m)'
    <3>1. Concerning(m) \subseteq {1}
      BY <2>2, <2>5
    <3>2. CASE Concerns(id, m)
      <4>1. 1 \in Concerning(m) /\ \A j \in Concerning(m) : j <= 1
        BY <2>4, <3>1, <3>2
      <4> QED BY <1>2, <1>3, <1>6, <3>2, <4>1 DEF AddsUp
    <3>3. CASE ~Concerns(id, m)
      <4>1. Concerning(m) = {}
        BY <2>4, <3>1, <3>3
      <4> QED BY <1>3, <1>6, <3>3, <4>1 DEF AddsUp
    <3> QED BY <3>2, <3>3
  <2>6. ASSUME NEW i \in Concerning(m)', \A j \in Concerning(m)' : j <= i
        PROVE  m \in wanted <=> Wants(queue[i], m)'
    <3>1. i + 1 \in Concerning(m) /\ i \in Nat /\ i \in DOMAIN queue'
      BY <2>1 DEF Concerning
    <3>2. \A j \in Concerning(m) : j <= i + 1
      <4> SUFFICES ASSUME NEW j \in Concerning(m), j # 1 PROVE j <= i + 1
        BY <3>1
      <4>1. j - 1 \in Concerning(m)' /\ j \in Nat
        BY <2>2
      <4>2. j - 1 <= i
        BY <2>6, <4>1
      <4> QED BY <3>1, <4>1, <4>2
    <3>3. m \in wanted <=> Wants(queue[i + 1], m)
      BY <1>6, <3>1, <3>2 DEF AddsUp
    <3> QED BY <2>3, <3>1, <3>3
  <2> QED BY <2>5, <2>6
<1> QED BY <1>4, <1>5, <1>6

\* An answer leaves the port and settles its promise.
LEMMA MessageKeepsCommands ==
  ASSUME TypeOK, OnePlace, Clean => AddsUp, OnMessage
  PROVE  OnePlace' /\ (Clean' => AddsUp')
<1>a. PICK msg : msg = Head(port)
  OBVIOUS
<1>1. /\ port \in Seq(Messages) /\ port # <<>> /\ port' = Tail(port)
      /\ UNCHANGED <<sent, wanted, queue, current, subs>>
      /\ promise \in Seq({"wait", "ok", "failed"}) /\ Len(promise) = Len(sent)
      /\ sent \in Seq(Commands)
  BY DEF TypeOK, OnMessage, control
<1>2. /\ msg = port[1] /\ 1 \in DOMAIN port
      /\ \A i \in DOMAIN port' : i + 1 \in DOMAIN port /\ port'[i] = port[i + 1] /\ i \in Nat /\ 1 <= i
      /\ \A i \in DOMAIN port : i = 1 \/ (i - 1 \in DOMAIN port' /\ port[i] = port'[i - 1])
  <2>1. \A i \in DOMAIN port' : 1 <= i
    BY <1>1
  <2> QED BY <1>1, <1>a, <2>1, TailId
<1>3. DOMAIN promise = DOMAIN sent
  BY <1>1
<1>4. IsAnswer(msg) => /\ Waits(msg.id)
                       /\ promise' = [promise EXCEPT ![msg.id] = IF msg.kind = "ack" THEN "ok" ELSE "failed"]
  <2> SUFFICES ASSUME IsAnswer(msg)
               PROVE  /\ Waits(msg.id)
                      /\ promise' = [promise EXCEPT ![msg.id] = IF msg.kind = "ack" THEN "ok" ELSE "failed"]
    OBVIOUS
  <2>1. Waits(msg.id)
    BY <1>2 DEF OnePlace
  <2> QED BY <1>a, <2>1 DEF OnMessage, Settled, Waits, IsAnswer
<1>5. ~IsAnswer(msg) => promise' = promise
  BY <1>a DEF OnMessage, IsAnswer
<1>6. DOMAIN promise' = DOMAIN promise /\ \A id : id # msg.id \/ ~IsAnswer(msg) => promise'[id] = promise[id] \/ id \notin DOMAIN promise
  BY <1>4, <1>5
<1>7. ASSUME NEW id, Waits(id), id # msg.id \/ ~IsAnswer(msg) PROVE Waits(id)'
  BY <1>1, <1>3, <1>6, <1>7 DEF Waits
<1>8. \A i \in DOMAIN port' : IsAnswer(port'[i]) /\ IsAnswer(msg) => port'[i].id # msg.id
  <2> SUFFICES ASSUME NEW i \in DOMAIN port', IsAnswer(port'[i]), IsAnswer(msg), port'[i].id = msg.id
               PROVE  FALSE
    OBVIOUS
  <2>1. i + 1 = 1 /\ i \in Nat /\ 1 <= i
    BY <1>2 DEF OnePlace
  <2> QED BY <2>1
<1>9. OnePlace'
  <2>1. (\A i \in DOMAIN port : IsAnswer(port[i]) => Waits(port[i].id))'
    <3> SUFFICES ASSUME NEW i \in DOMAIN port', IsAnswer(port'[i]) PROVE (Waits(port[i].id))'
      BY DEF IsAnswer
    <3>1. PICK id : id = port'[i].id
      OBVIOUS
    <3>2. Waits(id) /\ (id # msg.id \/ ~IsAnswer(msg))
      BY <1>2, <1>8, <3>1 DEF OnePlace
    <3>3. Waits(id)'
      BY <1>7, <3>2
    <3> QED BY <3>1, <3>3 DEF Waits
  <2>2. (\A i \in DOMAIN queue : Waits(queue[i]))'
    BY <1>1, <1>2, <1>3, <1>6 DEF OnePlace, Waits
  <2>3. (\A c \in current : Waits(c.id))'
    BY <1>1, <1>2, <1>3, <1>6 DEF OnePlace, Waits
  <2>4. \A i \in DOMAIN port' : IsAnswer(port'[i]) =>
          /\ \A j \in DOMAIN queue : queue[j] # port'[i].id
          /\ \A c \in current : c.id # port'[i].id
    BY <1>2 DEF OnePlace
  <2>5. \A i, j \in DOMAIN port' :
          IsAnswer(port'[i]) /\ IsAnswer(port'[j]) /\ port'[i].id = port'[j].id => i = j
    <3> SUFFICES ASSUME NEW i \in DOMAIN port', NEW j \in DOMAIN port', IsAnswer(port'[i]),
                        IsAnswer(port'[j]), port'[i].id = port'[j].id
                 PROVE  i = j
      OBVIOUS
    <3>1. i + 1 = j + 1 /\ i \in Nat /\ j \in Nat
      BY <1>2 DEF OnePlace
    <3> QED BY <3>1
  <2> QED BY <1>1, <2>1, <2>2, <2>3, <2>4, <2>5 DEF OnePlace, IsAnswer
<1>10. Clean' => Clean
  <2> SUFFICES ASSUME Clean' PROVE Clean
    OBVIOUS
  <2>1. msg.kind # "cmderr"
    <3> SUFFICES ASSUME msg.kind = "cmderr" PROVE FALSE
      OBVIOUS
    <3>1. IsAnswer(msg)
      BY DEF IsAnswer
    <3>2. msg.id \in DOMAIN promise /\ promise'[msg.id] = "failed"
      BY <1>3, <1>4, <3>1 DEF Waits
    <3> QED BY <1>6, <3>2 DEF Clean
  <2>2. \A i \in DOMAIN port : port[i].kind # "cmderr"
    BY <1>2, <2>1 DEF Clean
  <2>3. \A c \in DOMAIN promise : promise[c] # "failed"
    BY <1>4, <1>5, <1>6 DEF Clean, Waits
  <2> QED BY <2>2, <2>3 DEF Clean
<1>11. AddsUp => AddsUp'
  BY <1>1 DEF AddsUp, Concerning, Concerns, Wants, IsList, Held
<1> QED BY <1>9, <1>10, <1>11

LEMMA CommandInvNext ==
  ASSUME TypeOK, CommandInv, [Next]_vars
  PROVE  CommandInv'
<1> SUFFICES ASSUME worker' # "dead"
             PROVE  notice' = <<>> /\ OnePlace' /\ (Clean' => AddsUp')
  BY DEF CommandInv
<1>1. CASE UNCHANGED vars
  BY <1>1 DEF vars, asks, control, CommandInv, OnePlace, Waits, IsAnswer, Clean, AddsUp,
              Concerning, Concerns, Wants, IsList, Held
<1>2. CASE Next
  <2>1. worker # "dead" /\ notice = <<>> /\ notice' = <<>>
    <3>1. worker # "dead"
      BY <1>2 DEF Next, BecomesReady, FeedStep, EmitPrice, EmitUrgent, TimerFires, Begin,
                  AnswerFetch, Dies, Progress, Finish, CommandFails, HostRequest, StartTracking,
                  UpdateSubscriptions, UnsubscribeMarket, StopAll, FetchRestBook, Send,
                  HostHandler, OnMessage, OnError, OnExit, StopReturns
    <3>2. notice = <<>>
      BY <3>1 DEF CommandInv
    <3>3. notice' = notice
      BY <1>2, <3>2 DEF Next, BecomesReady, FeedStep, EmitPrice, EmitUrgent, TimerFires, Begin,
                  AnswerFetch, Dies, Progress, Finish, CommandFails, HostRequest, StartTracking,
                  UpdateSubscriptions, UnsubscribeMarket, StopAll, FetchRestBook, Send,
                  HostHandler, OnMessage, OnError, OnExit, StopReturns
    <3> QED BY <3>1, <3>2, <3>3
  <2>2. OnePlace /\ (Clean => AddsUp)
    BY <2>1 DEF CommandInv
  <2> SUFFICES OnePlace' /\ (Clean' => AddsUp')
    BY <2>1
  <2>3. port \in Seq(Messages) /\ Extends(port, port)
    BY DEF TypeOK, Extends
  <2>4. ASSUME UNCHANGED CommandState, Extends(port, port') PROVE OnePlace' /\ (Clean' => AddsUp')
    BY <2>2, <2>4, FeedKeepsCommands
  <2>5. CASE BecomesReady
    BY <2>3, <2>4, <2>5, ExtendsMore, NoAnswer, PlainMessages
       DEF BecomesReady, control, asks, CommandState
  <2>6. CASE AnswerFetch
    BY <2>3, <2>4, <2>6, ExtendsMore, NoAnswer, PlainMessages
       DEF AnswerFetch, control, asks, CommandState
  <2>7. CASE FeedStep
    <3>1. UNCHANGED CommandState
      BY <2>7 DEF FeedStep, EmitPrice, EmitUrgent, TimerFires, control, asks, CommandState
    <3>2. emitted + 1 \in Nat /\ batch \cup {emitted + 1} \in SUBSET Nat
      BY DEF TypeOK
    <3>3. Events(batch \cup {emitted + 1}) \in Messages /\ Events({emitted + 1}) \in Messages
      BY <3>2, EventMessage
    <3>4. CASE EmitPrice
      <4>1. port' = port \/ port' = Append(port, Events(batch \cup {emitted + 1}))
        BY <3>4 DEF EmitPrice
      <4> QED BY <2>3, <2>4, <3>1, <3>3, <4>1, ExtendsMore, NoAnswer
    <3>5. CASE EmitUrgent
      <4>1. port' = Append(Flushed, Events({emitted + 1}))
        BY <3>5 DEF EmitUrgent, FlushThenPost
      <4>2. Flushed \in Seq(Messages) /\ Extends(port, Flushed)
        BY FlushedExtends
      <4> HIDE DEF Flushed
      <4> QED BY <2>3, <2>4, <3>1, <3>3, <4>1, <4>2, ExtendsMore, NoAnswer
    <3>6. CASE TimerFires
      BY <2>4, <3>1, <3>6, FlushedExtends DEF TimerFires, FlushBatch
    <3> QED BY <2>7, <3>4, <3>5, <3>6 DEF FeedStep
  <2>8. ASSUME NEW c \in current, Progress(c) PROVE OnePlace' /\ (Clean' => AddsUp')
    <3>1. UNCHANGED <<queue, sent, promise, wanted>> /\ current' = current \ {c}
      BY <2>8 DEF Progress, Finish, CommandFails, asks
    <3>2. Flushed \in Seq(Messages) /\ Extends(port, Flushed)
      BY FlushedExtends
    <3>3. CASE Finish(c)
      <4>1. PICK q \in {port, Flushed} : port' = Append(q, Answer("ack", c.id))
        BY <3>3 DEF Finish
      <4>2. subs' = subs \cup c.add
        BY <3>3 DEF Finish
      <4> HIDE DEF Flushed
      <4> QED BY <2>2, <2>3, <2>8, <3>1, <3>2, <4>1, <4>2, AnswerKeepsCommands
    <3>4. CASE CommandFails(c)
      <4>1. port' = Append(port, Answer("cmderr", c.id))
        BY <3>4 DEF CommandFails
      <4> QED BY <2>2, <2>3, <2>8, <3>1, <4>1, AnswerKeepsCommands
    <3> QED BY <2>8, <3>3, <3>4 DEF Progress
  <2>9. CASE HostRequest
    <3>1. ASSUME NEW S \in Lists, StartTracking(S) \/ UpdateSubscriptions(S)
          PROVE  OnePlace' /\ (Clean' => AddsUp')
      <4>1. PICK kind \in {"startTracking", "updateSubscriptions"} : Send(Command(kind, S)) /\ wanted' = S
        BY <3>1 DEF StartTracking, UpdateSubscriptions
      <4>2. Command(kind, S) \in Commands
        BY <3>1, <4>1, IoAssumption DEF Command, Commands, IoAssumption
      <4>3. Command(kind, S).kind # "unsubscribeMarket" /\ Command(kind, S).markets = S
        BY <4>1 DEF Command
      <4> QED BY <2>1, <2>2, <4>1, <4>2, <4>3, SendKeepsCommands
    <3>2. ASSUME NEW m \in Markets, UnsubscribeMarket(m) PROVE OnePlace' /\ (Clean' => AddsUp')
      <4> DEFINE command == Command("unsubscribeMarket", {m})
      <4>1. Send(command) /\ wanted' = wanted \ {m}
        BY <3>2 DEF UnsubscribeMarket
      <4>2. command \in Commands /\ command.kind = "unsubscribeMarket" /\ command.markets = {m}
        BY DEF Command, Commands
      <4> HIDE DEF command
      <4> QED BY <2>1, <2>2, <4>1, <4>2, SendKeepsCommands
    <3>3. CASE StopAll
      <4> DEFINE command == Command("stopAll", {})
      <4>1. Send(command) /\ wanted' = {}
        BY <3>3 DEF StopAll
      <4>2. command \in Commands /\ command.kind = "stopAll" /\ command.markets = {}
        BY DEF Command, Commands
      <4> HIDE DEF command
      <4> QED BY <2>1, <2>2, <4>1, <4>2, SendKeepsCommands
    <3>4. CASE FetchRestBook
      BY <2>3, <2>4, <3>4 DEF FetchRestBook, control, CommandState
    <3> QED BY <2>9, <3>1, <3>2, <3>3, <3>4 DEF HostRequest
  <2>10. CASE Begin
    BY <2>2, <2>10, BeginKeepsCommands
  <2>11. CASE OnMessage
    BY <2>2, <2>11, MessageKeepsCommands
  <2>12. ~Dies /\ ~StopReturns /\ ~OnError /\ ~OnExit
    BY <2>1 DEF Dies, StopReturns, OnError, OnExit
  <2> QED BY <1>2, <2>5, <2>6, <2>7, <2>8, <2>9, <2>10, <2>11, <2>12 DEF Next, HostHandler
<1> QED BY <1>1, <1>2

-----------------------------------------------------------------------------
IInv == TypeOK /\ FeedInv /\ CommandInv

LEMMA InitInv == Init => IInv
<1> SUFFICES ASSUME Init PROVE IInv
  OBVIOUS
<1>1. FeedInv
  BY DEF Init, FeedInv, InOrder, Behind
<1>2. PortOK /\ FeedTypes
  <2>1. timer \in BOOLEAN /\ (batch # {} => timer)
    BY Zenon DEF Init
  <2>2. port \in Seq(Messages) /\ emitted \in Nat
    BY DEF Init
  <2> QED BY <2>1, <2>2 DEF PortOK, FeedTypes
<1>3. WorkerTypes
  BY DEF Init, WorkerTypes
<1>4. CommandTypes
  BY DEF Init, CommandTypes
<1>5. CommandInv
  <2>1. OnePlace /\ notice = <<>>
    BY DEF Init, OnePlace
  <2>2. \A m \in Markets : Concerning(m) = {} /\ (m \in wanted <=> Held(m))
    BY DEF Init, Concerning, Held
  <2> QED BY <2>1, <2>2 DEF CommandInv, AddsUp
<1> QED BY <1>1, <1>2, <1>3, <1>4, <1>5, SplitTypes DEF IInv

LEMMA NextInv == IoAssumption /\ IInv /\ [Next]_vars => IInv'
<1> SUFFICES ASSUME IoAssumption, IInv, [Next]_vars PROVE IInv'
  OBVIOUS
<1>1. PortOK' /\ FeedInv'
  BY FeedNext DEF IInv
<1>2. FeedTypes' /\ WorkerTypes' /\ CommandTypes'
  BY FeedTypesNext, WorkerTypesNext, CommandTypesNext DEF IInv
<1>3. TypeOK'
  BY <1>1, <1>2, SplitTypes, PTL
<1>4. CommandInv'
  BY CommandInvNext DEF IInv
<1> QED BY <1>1, <1>3, <1>4 DEF IInv

LEMMA Inductive == IoAssumption => (Spec => []IInv)
<1> SUFFICES ASSUME IoAssumption PROVE Spec => []IInv
  OBVIOUS
<1>1. IInv /\ [Next]_vars => IInv'
  BY NextInv
<1> QED BY <1>1, InitInv, PTL DEF Spec

\* Every variable keeps its type, and one command is applied at a time.
THEOREM TypeCorrect == IoAssumption => (Spec => []TypeOK)
<1>1. IInv => TypeOK
  BY DEF IInv
<1> QED BY <1>1, Inductive, PTL

\* Commands that overlap in the host do not overlap in the worker: once all are
\* acknowledged it tracks what they add up to (drainCommands of
\* io-worker-main.ts).  A command without an answer has its promise waiting, so
\* nothing is queued or in hand.
THEOREM CommandsAdd == IoAssumption => (Spec => []CommandsAddUp)
<1>1. ASSUME IInv, worker = "up", \A c \in DOMAIN promise : promise[c] = "ok"
      PROVE  subs = wanted
  <2>1. OnePlace /\ (Clean => AddsUp)
    BY <1>1 DEF IInv, CommandInv
  <2>2. /\ DOMAIN promise = DOMAIN sent /\ queue \in Seq(DOMAIN sent)
        /\ port \in Seq(Messages) /\ subs \subseteq Markets /\ wanted \subseteq Markets
    BY <1>1 DEF IInv, TypeOK
  <2>3. \A id : ~Waits(id)
    BY <1>1, <2>2 DEF Waits
  <2>4. DOMAIN queue = {} /\ current = {}
    BY <2>1, <2>3 DEF OnePlace
  <2>5. Clean
    BY <1>1, <2>1, <2>3 DEF Clean, OnePlace, IsAnswer
  <2>6. \A m \in Markets : m \in wanted <=> m \in subs
    BY <2>1, <2>4, <2>5 DEF AddsUp, Concerning, Held
  <2> QED BY <2>2, <2>6
<1>2. IInv => CommandsAddUp
  BY <1>1 DEF CommandsAddUp
<1> QED BY <1>2, Inductive, PTL

\* Only OnMessage delivers, and only the first message of the port.
LEMMA FeedSimulates ==
  ASSUME IInv, [Next]_vars
  PROVE  [Feed!Emit \/ Feed!Deliver]_<<emitted, delivered>>
<1> USE DEF Feed!Emit, Feed!Deliver
<1>1. CASE FeedStep
  BY <1>1 DEF FeedStep, EmitPrice, EmitUrgent, TimerFires
<1>2. ASSUME NEW c \in current, Progress(c) PROVE UNCHANGED <<emitted, delivered>>
  BY <1>2 DEF Progress, Finish, CommandFails, feed
<1>3. CASE HostRequest
  BY <1>3 DEF HostRequest, StartTracking, UpdateSubscriptions, UnsubscribeMarket, StopAll,
              FetchRestBook, Send, feed
<1>4. CASE OnMessage
  <2>1. port # <<>> /\ delivered' = delivered \cup Head(port).ids /\ emitted' = emitted
    BY <1>4 DEF OnMessage, feed
  <2>2. port \in Seq(Messages) /\ emitted \in Nat
    BY DEF IInv, TypeOK
  <2>3. /\ InOrder(Tail(port), delivered \cup Head(port).ids, batch, emitted)
        /\ \A n \in delivered \cup Head(port).ids, k \in 1..emitted :
             k < n => k \in delivered \cup Head(port).ids
    BY <2>1, <2>2, HandleInOrder DEF IInv, FeedInv
  <2> QED BY <2>1, <2>3 DEF InOrder
<1>5. CASE BecomesReady \/ AnswerFetch \/ Begin \/ Dies \/ StopReturns
           \/ OnError \/ OnExit \/ UNCHANGED vars
  BY <1>5 DEF BecomesReady, AnswerFetch, Begin, Dies, StopReturns, OnError, OnExit, vars, feed
<1> QED BY <1>1, <1>2, <1>3, <1>4, <1>5 DEF Next, HostHandler

\* The host implements the ordered feed.
THEOREM FeedKept == IoAssumption => (Spec => KeepsOrder)
<1>1. Init => Feed!Init
  BY DEF Init, Feed!Init
<1> QED BY <1>1, FeedSimulates, Inductive, PTL DEF Spec, KeepsOrder, Feed!Spec
=============================================================================
