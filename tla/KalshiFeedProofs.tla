--------------------------- MODULE KalshiFeedProofs ---------------------------
(***************************************************************************)
(* For any finite set of markets, any sockets and any bounds: a shard has    *)
(* one socket, subscribes what it was assigned, serves no fresh quote        *)
(* behind a closed socket, and its sequenced books are exact.                *)
(***************************************************************************)
EXTENDS KalshiFeed, FiniteSetTheorems, SequenceTheorems, TLAPS

Books == [exact : BOOLEAN, ver : Nat, from : {"none", "current", "lapsed", "rest"}]
Checks == [phase : {"idle", "compare", "confirm"}, since : Nat]
Uses == [{"move", "loss", "drop", "fault", "change", "check"} -> Nat]

\* Only a socket that is up carries frames.
WireInv ==
  \A s \in Sockets : sock[s] \in {"closed", "connecting"} =>
    wire[s] = <<>> /\ feeds[s] = {} /\ sent[s] = 0

\* The live socket is the one the shard knows, until stop().
LifeInv ==
  /\ OneSocket
  /\ running => \A s \in Sockets : Live(s) => conn = s

SubInv == OpenMeansSubscribed

FreshInv == fresh \subseteq ids /\ FreshMeansFed

-----------------------------------------------------------------------------
(* The frames of a subscribe command *)

LEMMA SetToSeqType ==
  ASSUME NEW S, IsFiniteSet(S)
  PROVE  SetToSeq(S) \in [1..Cardinality(S) -> S] /\ Cardinality(S) \in Nat
<1>1. Cardinality(S) \in Nat /\ ExistsBijection(1..Cardinality(S), S)
  BY FS_CardinalityType
<1>2. PICK f \in [1..Cardinality(S) -> S] : IsInjective(f)
  BY <1>1 DEF ExistsBijection, Bijection, Injection, IsInjective
<1> QED BY <1>1, <1>2 DEF SetToSeq

\* What sendSubscribe puts on the wire of s.
Snapshots(s, tickers) ==
  [i \in 1..Len(SetToSeq(tickers)) |->
     [kind |-> "snapshot", ticker |-> SetToSeq(tickers)[i],
      ver |-> truth[SetToSeq(tickers)[i]], seq |-> sent[s] + i]]

LEMMA SnapshotsType ==
  ASSUME FeedAssumption, TypeOK, NEW s \in Sockets, NEW T \in SUBSET Tickers
  PROVE  /\ Snapshots(s, T) \in Seq(Frame)
         /\ Len(Snapshots(s, T)) = Len(SetToSeq(T))
         /\ Len(SetToSeq(T)) \in Nat
         /\ \A i \in 1..Len(SetToSeq(T)) : SetToSeq(T)[i] \in T
<1> DEFINE order == SetToSeq(T)
<1>1. IsFiniteSet(T)
  BY FS_Subset DEF FeedAssumption
<1>2. order \in [1..Cardinality(T) -> T] /\ Cardinality(T) \in Nat
  BY <1>1, SetToSeqType
<1> HIDE DEF order
<1>3. Len(order) = Cardinality(T)
  BY <1>2
<1>4. \A i \in 1..Len(order) : order[i] \in T
  BY <1>2, <1>3
<1>5. \A i \in 1..Len(order) :
        [kind |-> "snapshot", ticker |-> order[i], ver |-> truth[order[i]], seq |-> sent[s] + i]
          \in Frame
  <2> TAKE i \in 1..Len(order)
  <2>1. order[i] \in Tickers
    BY <1>4
  <2>2. truth[order[i]] \in Nat
    BY <2>1 DEF TypeOK
  <2>3. i \in Nat \ {0} /\ sent[s] \in Nat
    BY <1>2, <1>3 DEF TypeOK
  <2>4. sent[s] + i \in Nat \ {0}
    BY <2>3
  <2> QED BY <2>1, <2>2, <2>4 DEF Frame
<1>6. [i \in 1..Len(order) |->
         [kind |-> "snapshot", ticker |-> order[i], ver |-> truth[order[i]], seq |-> sent[s] + i]]
           \in Seq(Frame)
  BY <1>2, <1>3, <1>5, IsASeq
<1>7. Len([i \in 1..Len(order) |->
         [kind |-> "snapshot", ticker |-> order[i], ver |-> truth[order[i]], seq |-> sent[s] + i]])
        = Len(order)
  BY <1>2, <1>3
<1> QED BY <1>2, <1>3, <1>4, <1>6, <1>7 DEF order, Snapshots

LEMMA SendSubscribeIs ==
  ASSUME NEW s, NEW T, SendSubscribe(s, T)
  PROVE  /\ feeds' = [feeds EXCEPT ![s] = @ \cup T]
         /\ wire' = [wire EXCEPT ![s] = @ \o Snapshots(s, T)]
         /\ sent' = [sent EXCEPT ![s] = @ + Len(SetToSeq(T))]
  BY DEF SendSubscribe, Snapshots
-----------------------------------------------------------------------------
(* Typing, one lemma for the frames and one for each kind of step *)

LEMMA SendTyped ==
  ASSUME FeedAssumption, TypeOK, NEW s \in Sockets, NEW T \in SUBSET Tickers,
         SendSubscribe(s, T)
  PROVE  /\ feeds' \in [Sockets -> SUBSET Tickers]
         /\ wire' \in [Sockets -> Seq(Frame)]
         /\ sent' \in [Sockets -> Nat]
<1>1. Snapshots(s, T) \in Seq(Frame) /\ Len(SetToSeq(T)) \in Nat
  BY SnapshotsType
<1>2. wire[s] \o Snapshots(s, T) \in Seq(Frame)
  BY <1>1, ConcatProperties DEF TypeOK
<1>3. /\ feeds' = [feeds EXCEPT ![s] = @ \cup T]
      /\ wire' = [wire EXCEPT ![s] = @ \o Snapshots(s, T)]
      /\ sent' = [sent EXCEPT ![s] = @ + Len(SetToSeq(T))]
  BY SendSubscribeIs
<1>4. feeds' \in [Sockets -> SUBSET Tickers]
  BY <1>3 DEF TypeOK
<1>5. wire' \in [Sockets -> Seq(Frame)]
  BY <1>2, <1>3 DEF TypeOK
<1>6. sent' \in [Sockets -> Nat]
  <2>1. sent \in [Sockets -> Nat]
    BY DEF TypeOK
  <2>2. sent[s] + Len(SetToSeq(T)) \in Nat
    BY <1>1, <2>1
  <2> QED BY <1>3, <2>1, <2>2
<1> QED BY <1>4, <1>5, <1>6

LEMMA SpendTyped ==
  ASSUME used \in Uses, NEW what \in {"move", "loss", "drop", "fault", "change", "check"},
         Spend(what)
  PROVE  used' \in Uses
  BY DEF Uses, Spend

LEMMA InitTyped == FeedAssumption /\ Init => TypeOK
<1> SUFFICES ASSUME FeedAssumption, Init PROVE TypeOK
  OBVIOUS
<1>1. conn \in Sockets
  BY Zenon DEF Init, FeedAssumption
<1>2. sock \in [Sockets -> {"closed", "connecting", "open", "closing"}]
  BY DEF Init
<1>3. wire \in [Sockets -> Seq(Frame)]
  BY EmptySeq DEF Init
<1>4. /\ truth \in [Tickers -> Nat] /\ feeds \in [Sockets -> SUBSET Tickers]
      /\ sent \in [Sockets -> Nat] /\ ids \subseteq Tickers /\ expected \in Nat
      /\ fresh \subseteq Tickers
  BY DEF Init
<1>5. book \in [Tickers -> Books] /\ check \in [Tickers -> Checks]
  BY DEF Init, NoBook, Idle, Books, Checks
<1>6. used \in Uses
  BY DEF Init, Uses
<1>7. running \in BOOLEAN /\ timer \in BOOLEAN /\ lossy \in BOOLEAN
  BY Zenon DEF Init
<1> QED BY <1>1, <1>2, <1>3, <1>4, <1>5, <1>6, <1>7 DEF TypeOK, Books, Checks, Uses

LEMMA ExchangeTyped ==
  ASSUME FeedAssumption, TypeOK,
         (\E t \in Tickers : BookMoves(t)) \/ (\E s \in Sockets : FrameLost(s))
  PROVE  TypeOK'
<1>1. ASSUME NEW t \in Tickers, BookMoves(t) PROVE TypeOK'
  <2> DEFINE to == {s \in Sockets : t \in feeds[s]}
             delta(s) == [kind |-> "delta", ticker |-> t, ver |-> truth[t] + 1, seq |-> sent[s] + 1]
  <2>0. truth \in [Tickers -> Nat] /\ sent \in [Sockets -> Nat]
    BY DEF TypeOK
  <2>1. truth' \in [Tickers -> Nat]
    <3>1. truth[t] + 1 \in Nat
      BY <2>0
    <3> QED BY <1>1, <2>0, <3>1 DEF BookMoves
  <2>2. sent' \in [Sockets -> Nat]
    <3>1. sent' = [s \in Sockets |-> IF s \in to THEN sent[s] + 1 ELSE sent[s]]
      BY <1>1 DEF BookMoves
    <3>2. \A s \in Sockets : sent[s] + 1 \in Nat
      BY <2>0
    <3> HIDE DEF to
    <3> QED BY <2>0, <3>1, <3>2
  <2>3. ASSUME NEW s \in Sockets PROVE delta(s) \in Frame
    <3>1. truth[t] + 1 \in Nat /\ sent[s] + 1 \in Nat \ {0}
      BY <2>0
    <3> QED BY <3>1 DEF Frame
  <2>4. ASSUME NEW s \in Sockets PROVE Append(wire[s], delta(s)) \in Seq(Frame)
    <3> HIDE DEF delta
    <3> QED BY <2>3, AppendProperties DEF TypeOK
  <2>5. wire' = [s \in Sockets |-> IF s \in to THEN Append(wire[s], delta(s)) ELSE wire[s]]
    BY <1>1 DEF BookMoves
  <2>6. wire' \in [Sockets -> Seq(Frame)]
    <3> HIDE DEF delta, to
    <3> QED BY <2>4, <2>5 DEF TypeOK
  <2>7. used' \in Uses
    BY <1>1, SpendTyped DEF BookMoves, TypeOK, Uses
  <2> QED BY <1>1, <2>1, <2>2, <2>6, <2>7 DEF BookMoves, TypeOK, Uses, shard, books
<1>2. ASSUME NEW s \in Sockets, FrameLost(s) PROVE TypeOK'
  <2>1. Tail(wire[s]) \in Seq(Frame)
    BY <1>2, HeadTailProperties DEF FrameLost, TypeOK
  <2>2. wire' \in [Sockets -> Seq(Frame)]
    BY <1>2, <2>1 DEF FrameLost, TypeOK
  <2>3. used' \in Uses
    BY <1>2, SpendTyped DEF FrameLost, TypeOK, Uses
  <2> QED BY <1>2, <2>2, <2>3 DEF FrameLost, TypeOK, Uses, shard, books
<1> QED BY <1>1, <1>2

LEMMA CloseConnTyped ==
  ASSUME TypeOK, CloseConn
  PROVE  sock' \in [Sockets -> {"closed", "connecting", "open", "closing"}]
  BY DEF TypeOK, CloseConn

LEMMA ConnectionTyped ==
  ASSUME FeedAssumption, TypeOK,
         TimerFires \/ Stop \/ \E s \in Sockets : Opens(s) \/ Closes(s)
  PROVE  TypeOK'
<1>1. CASE TimerFires
  <2>1. UNCHANGED <<truth, wire, feeds, sent, running, ids, check, fresh>>
    BY <1>1 DEF TimerFires
  <2>2. CASE \E s \in Sockets : ~Live(s) /\ timer' = FALSE /\ OpenSocket(CHOOSE r \in Sockets : ~Live(r))
    <3>1. PICK s \in Sockets : OpenSocket(s)
      BY <2>2, Zenon
    <3>2. sock' \in [Sockets -> {"closed", "connecting", "open", "closing"}] /\ conn' \in Sockets
      BY <3>1 DEF OpenSocket, TypeOK
    <3>3. book' \in [Tickers -> Books]
      <4>1. book \in [Tickers -> Books]
        BY DEF TypeOK, Books
      <4>2. \A t \in Tickers : book[t] \in Books /\ [book[t] EXCEPT !.from = "lapsed"] \in Books
        BY <4>1 DEF Books
      <4>3. book' = [t \in Tickers |->
                       IF book[t].from = "current" THEN [book[t] EXCEPT !.from = "lapsed"] ELSE book[t]]
        BY <3>1 DEF OpenSocket
      <4> QED BY <4>2, <4>3
    <3>4. expected' = 0 /\ lossy' \in BOOLEAN /\ used' = used /\ timer' \in BOOLEAN
      BY <2>2, <3>1 DEF OpenSocket
    <3> QED BY <2>1, <3>2, <3>3, <3>4 DEF TypeOK, Books
  <2>3. CASE ConnectThrows
    <3>1. used' \in Uses
      BY <2>3, SpendTyped DEF ConnectThrows, TypeOK, Uses
    <3>2. expected' \in Nat /\ timer' \in BOOLEAN
      BY <2>3 DEF ConnectThrows, TypeOK
    <3> QED BY <2>1, <2>3, <3>1, <3>2 DEF ConnectThrows, TypeOK, Uses
  <2> QED BY <1>1, <2>2, <2>3, Zenon DEF TimerFires
<1>2. CASE Stop
  <2>1. sock' \in [Sockets -> {"closed", "connecting", "open", "closing"}]
    BY <1>2, CloseConnTyped DEF Stop
  <2> QED BY <1>2, <2>1 DEF Stop, TypeOK, books
<1>3. ASSUME NEW s \in Sockets, Opens(s) PROVE TypeOK'
  <2>1. sock' \in [Sockets -> {"closed", "connecting", "open", "closing"}]
    BY <1>3 DEF Opens, TypeOK
  <2>2. /\ feeds' \in [Sockets -> SUBSET Tickers]
        /\ wire' \in [Sockets -> Seq(Frame)]
        /\ sent' \in [Sockets -> Nat]
    <3>1. CASE conn = s
      <4>1. SendSubscribe(s, ids) /\ ids \in SUBSET Tickers
        BY <1>3, <3>1 DEF Opens, TypeOK
      <4> QED BY <4>1, SendTyped
    <3>2. CASE conn # s
      BY <1>3, <3>2 DEF Opens, TypeOK
    <3> QED BY <3>1, <3>2
  <2> QED BY <1>3, <2>1, <2>2 DEF Opens, TypeOK, shard, books
<1>4. ASSUME NEW s \in Sockets, Closes(s) PROVE TypeOK'
  <2>1. used' \in Uses
    BY <1>4, SpendTyped DEF Closes, TypeOK, Uses
  <2>2. timer' \in BOOLEAN
    BY <1>4, Zenon DEF Closes, HandleClose, TypeOK
  <2>3. sock' \in [Sockets -> {"closed", "connecting", "open", "closing"}]
    BY <1>4 DEF Closes, TypeOK
  <2>4. wire' \in [Sockets -> Seq(Frame)]
    BY <1>4, EmptySeq DEF Closes, TypeOK
  <2>5. feeds' \in [Sockets -> SUBSET Tickers] /\ sent' \in [Sockets -> Nat]
    BY <1>4 DEF Closes, TypeOK
  <2>6. conn' = NoSocket /\ fresh' \subseteq Tickers
    BY <1>4 DEF Closes, HandleClose, TypeOK
  <2> QED BY <1>4, <2>1, <2>2, <2>3, <2>4, <2>5, <2>6 DEF Closes, TypeOK, Uses
<1> QED BY <1>1, <1>2, <1>3, <1>4

LEMMA PatchedTyped ==
  ASSUME NEW b \in Books, NEW v \in Nat
  PROVE  Patched(b, v) \in Books
  BY DEF Patched, Books

LEMMA SnapshotTyped ==
  ASSUME NEW v \in Nat, NEW from \in {"current", "rest"}
  PROVE  Snapshot(v, from) \in Books
  BY DEF Snapshot, Books

\* What a frame thrown away makes of the books.
Lapsed(f, b, c) == c = [b EXCEPT ![f.ticker].from = IF @ = "current" THEN "lapsed" ELSE @]

LEMMA LapsedIs ==
  ASSUME NEW f, f.ticker \in Tickers, NEW b \in [Tickers -> Books], NEW c, Lapsed(f, b, c)
  PROVE  /\ c \in [Tickers -> Books]
         /\ \A t \in Tickers : t # f.ticker => c[t] = b[t]
         /\ c[f.ticker].from # "current"
         /\ \A t \in Tickers : b[t].from # "current" => c[t] = b[t]
  BY DEF Lapsed, Books

LEMMA DeliverTyped ==
  ASSUME FeedAssumption, TypeOK, NEW s \in Sockets, Deliver(s)
  PROVE  TypeOK'
<1> DEFINE f == Head(wire[s])
<1>1. f \in Frame /\ Tail(wire[s]) \in Seq(Frame)
  BY HeadTailProperties DEF Deliver, TypeOK
<1>2. wire' \in [Sockets -> Seq(Frame)]
  BY <1>1 DEF Deliver, TypeOK
<1>3. UNCHANGED <<truth, feeds, sent, running, conn, ids, check>>
  BY DEF Deliver
<1>4. CASE /\ InSequence(f) /\ expected' = f.seq + 1 /\ UNCHANGED <<sock, timer>>
           /\ (ApplyFrame(f) /\ UNCHANGED <<lossy, used>>) \/ HandlerThrows(f)
  <2> HIDE DEF f
  <2>1. f.ticker \in Tickers /\ f.ver \in Nat /\ f.seq \in Nat
    BY <1>1 DEF Frame
  <2>2. book' \in [Tickers -> Books] /\ fresh' \subseteq Tickers
    <3>1. Snapshot(f.ver, "current") \in Books
      BY <2>1, SnapshotTyped
    <3>2. Patched(book[f.ticker], f.ver) \in Books
      BY <2>1, PatchedTyped DEF TypeOK, Books
    <3>3. book \in [Tickers -> Books] /\ fresh \subseteq Tickers
      BY DEF TypeOK, Books
    <3>4. \/ book' = book /\ fresh' = fresh
          \/ book' = [book EXCEPT ![f.ticker] = Snapshot(f.ver, "current")] /\ fresh' = fresh \cup {f.ticker}
          \/ book' = [book EXCEPT ![f.ticker] = Patched(@, f.ver)] /\ fresh' = fresh \cup {f.ticker}
          \/ fresh' = fresh /\ (book' = BookWith(f) \/ Lapsed(f, book, book'))
      BY <1>4 DEF ApplyFrame, HandlerThrows, BookWith, Lapsed
    <3>5. BookWith(f) \in [Tickers -> Books]
      BY <2>1, <3>1, <3>2, <3>3 DEF BookWith
    <3>6. Lapsed(f, book, book') => book' \in [Tickers -> Books]
      BY <2>1, <3>3, LapsedIs
    <3> QED BY <2>1, <3>1, <3>2, <3>3, <3>4, <3>5, <3>6
  <2>3. expected' \in Nat
    BY <1>4, <2>1
  <2>4. lossy' \in BOOLEAN /\ used' \in Uses
    <3>1. CASE UNCHANGED <<lossy, used>>
      BY <3>1 DEF TypeOK, Uses
    <3>2. CASE HandlerThrows(f)
      BY <3>2, SpendTyped DEF HandlerThrows, TypeOK, Uses
    <3> QED BY <1>4, <3>1, <3>2
  <2> QED BY <1>2, <1>3, <1>4, <2>2, <2>3, <2>4 DEF TypeOK, Books, Uses
<1>5. CASE ResyncShard /\ UNCHANGED <<books, lossy, used>>
  <2>1. sock' \in [Sockets -> {"closed", "connecting", "open", "closing"}]
    BY <1>5, CloseConnTyped DEF ResyncShard
  <2>2. timer' \in BOOLEAN
    BY <1>5, Zenon DEF ResyncShard, TypeOK
  <2>3. expected' = 0
    BY <1>5 DEF ResyncShard
  <2> QED BY <1>2, <1>3, <1>5, <2>1, <2>2, <2>3 DEF TypeOK, books
<1> QED BY <1>4, <1>5, Zenon DEF Deliver

LEMMA CallsTyped ==
  ASSUME FeedAssumption, TypeOK, NEW t \in Tickers,
         \/ Subscribe(t) \/ Unsubscribe(t)
         \/ CheckStarts(t) \/ CheckEnds(t) \/ CheckRepeats(t) \/ Reanchor(t)
  PROVE  TypeOK'
<1>1. CASE Subscribe(t)
  <2>1. used' \in Uses
    BY <1>1, SpendTyped DEF Subscribe, TypeOK, Uses
  <2>2. /\ feeds' \in [Sockets -> SUBSET Tickers]
        /\ wire' \in [Sockets -> Seq(Frame)]
        /\ sent' \in [Sockets -> Nat]
    <3>1. CASE conn # NoSocket /\ sock[conn] = "open"
      <4>1. conn \in Sockets /\ {t} \in SUBSET Tickers /\ SendSubscribe(conn, {t})
        BY <1>1, <3>1 DEF Subscribe, AssignToShard, TypeOK
      <4> QED BY <4>1, SendTyped
    <3>2. CASE ~(conn # NoSocket /\ sock[conn] = "open")
      BY <1>1, <3>2 DEF Subscribe, AssignToShard, TypeOK
    <3> QED BY <3>1, <3>2
  <2> QED BY <1>1, <2>1, <2>2 DEF Subscribe, TypeOK, Uses, books
<1>2. CASE Unsubscribe(t)
  <2>1. used' \in Uses
    BY <1>2, SpendTyped DEF Unsubscribe, TypeOK, Uses
  <2>2. book' \in [Tickers -> Books]
    BY <1>2 DEF Unsubscribe, DropBook, NoBook, TypeOK, Books
  <2> QED BY <1>2, <2>1, <2>2 DEF Unsubscribe, TypeOK, Uses, Books, network
<1>3. CASE CheckStarts(t)
  <2>1. used' \in Uses
    BY <1>3, SpendTyped DEF CheckStarts, TypeOK, Uses
  <2>2. check' \in [Tickers -> Checks]
    BY <1>3 DEF CheckStarts, TypeOK, Checks
  <2> QED BY <1>3, <2>1, <2>2 DEF CheckStarts, TypeOK, Uses, Checks, network, shard, books
<1>4. CASE CheckEnds(t)
  <2>1. check' \in [Tickers -> Checks]
    BY <1>4 DEF CheckEnds, Idle, TypeOK, Checks
  <2> QED BY <1>4, <2>1 DEF CheckEnds, TypeOK, Checks, network, shard, books
<1>5. CASE CheckRepeats(t)
  <2>1. check' \in [Tickers -> Checks]
    BY <1>5 DEF CheckRepeats, TypeOK, Checks
  <2> QED BY <1>5, <2>1 DEF CheckRepeats, TypeOK, Checks, network, shard, books
<1>6. CASE Reanchor(t)
  <2>1. check' \in [Tickers -> Checks]
    BY <1>6 DEF Reanchor, Idle, TypeOK, Checks
  <2>2. book' \in [Tickers -> Books] /\ fresh' \subseteq Tickers
    <3>1. PICK v \in check[t].since..truth[t] :
            IF t \in ids THEN /\ book' = [book EXCEPT ![t] = Snapshot(v, "rest")]
                             /\ fresh' = fresh \cup {t}
                        ELSE UNCHANGED books
      BY <1>6 DEF Reanchor
    <3>2. v \in Nat
      <4>1. check[t].since \in Nat /\ truth[t] \in Nat
        BY DEF TypeOK
      <4> QED BY <3>1, <4>1
    <3>3. Snapshot(v, "rest") \in Books
      BY <3>2, SnapshotTyped
    <3>4. book \in [Tickers -> Books] /\ fresh \subseteq Tickers
      BY DEF TypeOK, Books
    <3> QED BY <3>1, <3>3, <3>4 DEF books
  <2> QED BY <1>6, <2>1, <2>2 DEF Reanchor, TypeOK, Books, Checks, network, shard
<1> QED BY <1>1, <1>2, <1>3, <1>4, <1>5, <1>6

LEMMA NextTyped ==
  ASSUME FeedAssumption, TypeOK, [Next]_vars
  PROVE  TypeOK'
<1>1. CASE UNCHANGED vars
  BY <1>1 DEF vars, network, shard, books, TypeOK
<1>2. CASE Next
  BY <1>2, ExchangeTyped, ConnectionTyped, DeliverTyped, CallsTyped DEF Next
<1> QED BY <1>1, <1>2

-----------------------------------------------------------------------------
(* One socket *)

SafeInv == WireInv /\ LifeInv /\ SubInv /\ FreshInv

LEMMA InitSafe == FeedAssumption /\ Init => SafeInv
<1> SUFFICES ASSUME FeedAssumption, Init PROVE SafeInv
  OBVIOUS
<1>1. \A s \in Sockets : Live(s) => conn = s
  BY DEF Init, Live
<1>2. conn \in Sockets /\ sock[conn] = "connecting" /\ timer = FALSE /\ fresh = {}
  <2>1. conn \in Sockets
    BY Zenon DEF Init, FeedAssumption
  <2> QED BY <2>1 DEF Init
<1>3. WireInv
  BY DEF Init, WireInv
<1>4. LifeInv
  BY <1>1, <1>2 DEF LifeInv, OneSocket
<1>5. SubInv
  BY <1>2 DEF SubInv, OpenMeansSubscribed
<1>6. FreshInv
  BY <1>2 DEF FreshInv, FreshMeansFed
<1> QED BY <1>3, <1>4, <1>5, <1>6 DEF SafeInv

\* A frame can only arrive where a socket is up.
LEMMA FramesMeanUp ==
  ASSUME TypeOK, WireInv, NEW s \in Sockets, wire[s] # <<>> \/ feeds[s] # {}
  PROVE  sock[s] \in {"open", "closing"}
  BY DEF TypeOK, WireInv

LEMMA WireSafe ==
  ASSUME TypeOK, SafeInv, [Next]_vars
  PROVE  WireInv'
<1> USE DEF SafeInv
<1> SUFFICES ASSUME NEW s \in Sockets, sock'[s] \in {"closed", "connecting"}
             PROVE  wire'[s] = <<>> /\ feeds'[s] = {} /\ sent'[s] = 0
  BY DEF WireInv
<1>1. CASE UNCHANGED <<sock, wire, feeds, sent>>
  BY <1>1 DEF WireInv
<1>2. ASSUME NEW t \in Tickers, BookMoves(t) PROVE wire'[s] = <<>> /\ feeds'[s] = {} /\ sent'[s] = 0
  <2>1. sock[s] \in {"closed", "connecting"} /\ t \notin feeds[s]
    BY <1>2 DEF BookMoves, WireInv
  <2> QED BY <1>2, <2>1 DEF BookMoves, WireInv
<1>3. ASSUME NEW r \in Sockets, FrameLost(r) PROVE wire'[s] = <<>> /\ feeds'[s] = {} /\ sent'[s] = 0
  <2>1. s # r
    BY <1>3 DEF FrameLost, WireInv
  <2> QED BY <1>3, <2>1 DEF FrameLost, WireInv, TypeOK
<1>4. ASSUME NEW r \in Sockets, Opens(r) PROVE wire'[s] = <<>> /\ feeds'[s] = {} /\ sent'[s] = 0
  <2>1. s # r /\ sock[s] = sock'[s]
    BY <1>4 DEF Opens, TypeOK
  <2>2. wire'[s] = wire[s] /\ feeds'[s] = feeds[s] /\ sent'[s] = sent[s]
    BY <1>4, <2>1 DEF Opens, SendSubscribe, TypeOK
  <2> QED BY <2>1, <2>2 DEF WireInv
<1>5. ASSUME NEW r \in Sockets, Closes(r) PROVE wire'[s] = <<>> /\ feeds'[s] = {} /\ sent'[s] = 0
  BY <1>5 DEF Closes, WireInv, TypeOK
<1>6. ASSUME NEW r \in Sockets, Deliver(r) PROVE wire'[s] = <<>> /\ feeds'[s] = {} /\ sent'[s] = 0
  <2>1. sock[s] = sock'[s]
    BY <1>6 DEF Deliver, ResyncShard, CloseConn, TypeOK
  <2>2. s # r
    BY <1>6, <2>1 DEF Deliver, WireInv
  <2> QED BY <1>6, <2>1, <2>2 DEF Deliver, WireInv, TypeOK
<1>7. CASE TimerFires
  <2>1. CASE \E r \in Sockets : ~Live(r) /\ OpenSocket(CHOOSE q \in Sockets : ~Live(q))
    <3>1. PICK r \in Sockets : OpenSocket(r) /\ ~Live(r)
      BY <2>1, Zenon
    <3>2. sock[s] \in {"closed", "connecting"}
      BY <3>1 DEF OpenSocket, TypeOK, Live
    <3> QED BY <1>7, <3>2 DEF TimerFires, WireInv
  <2>2. CASE ConnectThrows
    BY <1>7, <2>2 DEF TimerFires, ConnectThrows, WireInv
  <2> QED BY <1>7, <2>1, <2>2, Zenon DEF TimerFires
<1>8. CASE Stop
  <2>1. sock[s] = sock'[s]
    BY <1>8 DEF Stop, CloseConn, TypeOK
  <2> QED BY <1>8, <2>1 DEF Stop, WireInv
<1>9. ASSUME NEW t \in Tickers, Subscribe(t) PROVE wire'[s] = <<>> /\ feeds'[s] = {} /\ sent'[s] = 0
  <2>1. sock[s] = sock'[s]
    BY <1>9 DEF Subscribe
  <2>2. wire'[s] = wire[s] /\ feeds'[s] = feeds[s] /\ sent'[s] = sent[s]
    BY <1>9, <2>1 DEF Subscribe, AssignToShard, SendSubscribe, TypeOK
  <2> QED BY <2>1, <2>2 DEF WireInv
<1>10. CASE \E t \in Tickers : Unsubscribe(t) \/ CheckStarts(t) \/ CheckEnds(t) \/ CheckRepeats(t) \/ Reanchor(t)
  BY <1>1, <1>10 DEF Unsubscribe, CheckStarts, CheckEnds, CheckRepeats, Reanchor, network
<1>11. CASE UNCHANGED vars
  BY <1>1, <1>11 DEF vars, network
<1> QED BY <1>2, <1>3, <1>4, <1>5, <1>6, <1>7, <1>8, <1>9, <1>10, <1>11 DEF Next

\* Nothing becomes live, the shard knows its socket, no timer is armed.
LEMMA LifeStays ==
  ASSUME LifeInv, \A s \in Sockets : Live(s)' => Live(s),
         running' => running /\ conn' = conn, timer' => timer
  PROVE  LifeInv'
  BY DEF LifeInv, OneSocket

LEMMA CloseConnLives ==
  ASSUME TypeOK, CloseConn, NEW s \in Sockets
  PROVE  Live(s)' <=> Live(s)
  BY DEF CloseConn, TypeOK, Live

LEMMA LifeSafe ==
  ASSUME FeedAssumption, TypeOK, SafeInv, [Next]_vars
  PROVE  LifeInv'
<1> USE DEF SafeInv
<1>1. CASE UNCHANGED <<sock, running, conn, timer>>
  BY <1>1 DEF LifeInv, OneSocket, Live
<1>2. ASSUME NEW s \in Sockets, Opens(s) PROVE LifeInv'
  <2>1. \A r \in Sockets : Live(r)' => Live(r)
    BY <1>2 DEF Opens, TypeOK, Live
  <2> QED BY <1>2, <2>1, LifeStays DEF Opens, shard
<1>3. ASSUME NEW s \in Sockets, Closes(s) PROVE LifeInv'
  <2>1. \A r \in Sockets : ~Live(r)'
    BY <1>3 DEF Closes, LifeInv, OneSocket, Live, TypeOK
  <2> QED BY <2>1 DEF LifeInv, OneSocket
<1>4. ASSUME NEW s \in Sockets, Deliver(s) PROVE LifeInv'
  <2>1. \A r \in Sockets : Live(r)' => Live(r)
    BY <1>4, CloseConnLives DEF Deliver, ResyncShard, Live
  <2>2. Live(s)
    BY <1>4, FramesMeanUp DEF Deliver, Live
  <2>3. running => conn # NoSocket
    BY <2>2 DEF LifeInv, FeedAssumption
  <2>4. timer' => timer
    BY <1>4, <2>3, Zenon DEF Deliver, ResyncShard
  <2> QED BY <1>4, <2>1, <2>4, LifeStays DEF Deliver
<1>5. CASE TimerFires
  <2>1. \A r \in Sockets : ~Live(r)
    BY <1>5 DEF TimerFires, LifeInv, OneSocket
  <2>2. CASE timer' = FALSE /\ \E r \in Sockets : ~Live(r) /\ OpenSocket(CHOOSE q \in Sockets : ~Live(q))
    <3>1. PICK r \in Sockets : OpenSocket(r)
      BY <2>2, Zenon
    <3>2. conn' = r /\ \A q \in Sockets : Live(q)' => q = r
      BY <2>1, <3>1 DEF OpenSocket, TypeOK, Live
    <3> QED BY <2>2, <3>2 DEF LifeInv, OneSocket
  <2>3. CASE ConnectThrows
    <3>1. \A r \in Sockets : ~Live(r)'
      BY <2>1, <2>3 DEF ConnectThrows, Live
    <3> QED BY <3>1 DEF LifeInv, OneSocket
  <2> QED BY <1>5, <2>2, <2>3, Zenon DEF TimerFires
<1>6. CASE Stop
  <2>1. \A r \in Sockets : Live(r)' => Live(r)
    BY <1>6, CloseConnLives DEF Stop
  <2> QED BY <1>6, <2>1, LifeStays DEF Stop
<1>7. CASE \E t \in Tickers : \/ BookMoves(t) \/ Subscribe(t) \/ Unsubscribe(t)
                            \/ CheckStarts(t) \/ CheckEnds(t) \/ CheckRepeats(t) \/ Reanchor(t)
  BY <1>1, <1>7 DEF BookMoves, Subscribe, Unsubscribe, CheckStarts, CheckEnds, CheckRepeats,
                    Reanchor, network, shard
<1>8. CASE \E s \in Sockets : FrameLost(s)
  BY <1>1, <1>8 DEF FrameLost, shard
<1>9. CASE UNCHANGED vars
  BY <1>1, <1>9 DEF vars, network, shard
<1> QED BY <1>2, <1>3, <1>4, <1>5, <1>6, <1>7, <1>8, <1>9 DEF Next

-----------------------------------------------------------------------------
(* Complete subscriptions *)

LEMMA SubSafe ==
  ASSUME FeedAssumption, TypeOK, SafeInv, [Next]_vars
  PROVE  SubInv'
<1> USE DEF SafeInv, SubInv
<1> SUFFICES ASSUME conn' # NoSocket, sock'[conn'] = "open"
             PROVE  ids' \subseteq feeds'[conn']
  BY DEF OpenMeansSubscribed
<1>1. CASE conn' = conn /\ sock[conn] = "open" /\ ids' \subseteq ids /\ feeds' = feeds
  BY <1>1 DEF OpenMeansSubscribed
<1>2. ASSUME NEW s \in Sockets, Opens(s) PROVE ids' \subseteq feeds'[conn']
  <2>1. conn' = conn /\ conn \in Sockets /\ ids' = ids
    BY <1>2 DEF Opens, shard, TypeOK
  <2>2. CASE conn = s
    BY <1>2, <2>1, <2>2 DEF Opens, SendSubscribe, TypeOK
  <2>3. CASE conn # s
    BY <1>2, <2>1, <2>3 DEF Opens, OpenMeansSubscribed, TypeOK
  <2> QED BY <2>2, <2>3
<1>3. ASSUME NEW s \in Sockets, Closes(s) PROVE ids' \subseteq feeds'[conn']
  BY <1>3 DEF Closes, HandleClose
<1>4. ASSUME NEW s \in Sockets, Deliver(s) PROVE ids' \subseteq feeds'[conn']
  <2>1. conn' = conn /\ ids' = ids /\ feeds' = feeds /\ conn \in Sockets
    BY <1>4 DEF Deliver, TypeOK
  <2>2. sock[conn] = "open"
    BY <1>4, <2>1 DEF Deliver, ResyncShard, CloseConn, TypeOK
  <2> QED BY <1>1, <2>1, <2>2
<1>5. CASE TimerFires
  <2>1. CASE \E r \in Sockets : ~Live(r) /\ OpenSocket(CHOOSE q \in Sockets : ~Live(q))
    <3>1. PICK r \in Sockets : OpenSocket(r)
      BY <2>1, Zenon
    <3> QED BY <3>1 DEF OpenSocket, TypeOK
  <2>2. CASE ConnectThrows
    BY <2>2 DEF ConnectThrows
  <2> QED BY <1>5, <2>1, <2>2, Zenon DEF TimerFires
<1>6. CASE Stop
  BY <1>6 DEF Stop
<1>7. ASSUME NEW t \in Tickers, Subscribe(t) PROVE ids' \subseteq feeds'[conn']
  <2>1. conn' = conn /\ conn \in Sockets /\ sock[conn] = "open" /\ ids' = ids \cup {t}
    BY <1>7 DEF Subscribe, TypeOK
  <2>2. ids \subseteq feeds[conn]
    BY <2>1 DEF OpenMeansSubscribed, FeedAssumption
  <2>3. feeds'[conn] = feeds[conn] \cup {t}
    BY <1>7, <2>1 DEF Subscribe, AssignToShard, SendSubscribe, TypeOK, FeedAssumption
  <2> QED BY <2>1, <2>2, <2>3
<1>8. CASE \E t \in Tickers : \/ BookMoves(t) \/ Unsubscribe(t)
                            \/ CheckStarts(t) \/ CheckEnds(t) \/ CheckRepeats(t) \/ Reanchor(t)
  BY <1>1, <1>8 DEF BookMoves, Unsubscribe, CheckStarts, CheckEnds, CheckRepeats,
                    Reanchor, network, shard
<1>9. CASE \E s \in Sockets : FrameLost(s)
  BY <1>1, <1>9 DEF FrameLost, shard
<1>10. CASE UNCHANGED vars
  BY <1>1, <1>10 DEF vars, network, shard
<1> QED BY <1>2, <1>3, <1>4, <1>5, <1>6, <1>7, <1>8, <1>9, <1>10 DEF Next

-----------------------------------------------------------------------------
(* Fresh quotes *)

LEMMA FreshSafe ==
  ASSUME FeedAssumption, TypeOK, SafeInv, [Next]_vars
  PROVE  FreshInv'
<1> USE DEF SafeInv, FreshInv
<1>0. book \in [Tickers -> Books] /\ fresh \subseteq Tickers /\ sock \in [Sockets -> {"closed", "connecting", "open", "closing"}]
  BY DEF TypeOK, Books
<1>1. CASE /\ UNCHANGED <<book, fresh>> /\ ids \subseteq ids'
           /\ \A s \in Sockets : sock[s] \in {"open", "closing"} => sock'[s] \in {"open", "closing"}
  BY <1>1 DEF FreshMeansFed
<1>2. ASSUME NEW s \in Sockets, Opens(s) PROVE FreshInv'
  BY <1>0, <1>1, <1>2 DEF Opens, shard, books
<1>3. ASSUME NEW s \in Sockets, Closes(s) PROVE FreshInv'
  BY <1>3 DEF Closes, HandleClose, FreshMeansFed
<1>4. ASSUME NEW s \in Sockets, Deliver(s) PROVE FreshInv'
  <2> DEFINE f == Head(wire[s])
  <2>1. sock[s] \in {"open", "closing"}
    BY <1>4, FramesMeanUp DEF Deliver
  <2>2. CASE (ApplyFrame(f) \/ HandlerThrows(f)) /\ UNCHANGED sock
    <3>1. ids' = ids /\ fresh' \subseteq ids
      BY <1>4, <2>2 DEF Deliver, ApplyFrame, Taken, HandlerThrows
    <3> QED BY <2>1, <2>2, <3>1 DEF FreshMeansFed
  <2>3. CASE ResyncShard /\ UNCHANGED books
    BY <1>0, <1>1, <1>4, <2>3 DEF Deliver, ResyncShard, CloseConn, Live, books
  <2> QED BY <1>4, <2>2, <2>3, Zenon DEF Deliver
<1>5. CASE TimerFires
  <2>1. \A r \in Sockets : ~Live(r)
    BY <1>5 DEF TimerFires, LifeInv, OneSocket
  <2>2. \A t \in fresh \cap ids : book[t].from = "rest"
    BY <2>1 DEF FreshMeansFed, Live
  <2>3. ids' = ids /\ fresh' = fresh
    BY <1>5 DEF TimerFires
  <2>4. \A t \in fresh \cap ids : book'[t].from = "rest"
    <3>1. CASE \E r \in Sockets : ~Live(r) /\ OpenSocket(CHOOSE q \in Sockets : ~Live(q))
      BY <1>0, <2>2, <3>1 DEF OpenSocket
    <3>2. CASE ConnectThrows
      BY <2>2, <3>2 DEF ConnectThrows
    <3> QED BY <1>5, <3>1, <3>2, Zenon DEF TimerFires
  <2> QED BY <2>3, <2>4 DEF FreshMeansFed
<1>6. CASE Stop
  BY <1>0, <1>1, <1>6 DEF Stop, CloseConn, Live, books
<1>7. ASSUME NEW t \in Tickers, Subscribe(t) PROVE FreshInv'
  BY <1>7, <1>1 DEF Subscribe, books
<1>8. ASSUME NEW t \in Tickers, Unsubscribe(t) PROVE FreshInv'
  <2>1. \A r \in fresh \ {t} : book'[r] = book[r]
    BY <1>0, <1>8 DEF Unsubscribe, DropBook
  <2> QED BY <1>8, <2>1 DEF Unsubscribe, FreshMeansFed, network
<1>9. ASSUME NEW t \in Tickers, Reanchor(t) PROVE FreshInv'
  <2>1. UNCHANGED <<sock, ids>>
    BY <1>9 DEF Reanchor, network, shard
  <2>2. CASE UNCHANGED books
    BY <1>1, <2>1, <2>2 DEF books
  <2>3. ASSUME NEW v, t \in ids, book' = [book EXCEPT ![t] = Snapshot(v, "rest")],
               fresh' = fresh \cup {t}
        PROVE  FreshInv'
    BY <1>0, <2>1, <2>3 DEF FreshMeansFed, Snapshot
  <2> QED BY <1>9, <2>2, <2>3 DEF Reanchor
<1>10. CASE \E t \in Tickers : BookMoves(t) \/ CheckStarts(t) \/ CheckEnds(t) \/ CheckRepeats(t)
  BY <1>1, <1>10 DEF BookMoves, CheckStarts, CheckEnds, CheckRepeats, network, shard, books
<1>11. CASE \E s \in Sockets : FrameLost(s)
  BY <1>1, <1>11 DEF FrameLost, shard, books
<1>12. CASE UNCHANGED vars
  BY <1>1, <1>12 DEF vars, network, shard, books
<1> QED BY <1>2, <1>3, <1>4, <1>5, <1>6, <1>7, <1>8, <1>9, <1>10, <1>11, <1>12 DEF Next

-----------------------------------------------------------------------------
(* Exact books.  What ties a book to the exchange is the sequence of frames  *)
(* between them: w on the wire, e expected next (0 for none), last the       *)
(* number given out last, b the books and tr the changes at the exchange.    *)

\* Sequence numbers grow by one at least: between two frames, from the
\* baseline to a frame, and from a frame to the last number given out;
SeqGrows(w, e, last) ==
  /\ \A i, j \in 1..Len(w) : i < j => w[j].seq - w[i].seq >= j - i
  /\ e # 0 => \A i \in 1..Len(w) : w[i].seq - e >= i - 1
  /\ \A i \in 1..Len(w) : last - w[i].seq >= Len(w) - i
  /\ e # 0 => last - e >= Len(w) - 1

\* frames of a market that follow one another with nothing missing in between
\* are consecutive changes;
FramesLinked(w) ==
  \A i, j \in 1..Len(w) :
    /\ i < j /\ w[i].ticker = w[j].ticker
    /\ \A k \in 1..Len(w) : i < k /\ k < j => w[k].ticker # w[j].ticker
    /\ w[j].seq - w[i].seq = j - i
    /\ w[j].kind = "delta"
    => w[j].ver = w[i].ver + 1

\* a book is continued by the first frame of its market;
BooksLinked(w, e, b) ==
  \A j \in 1..Len(w) :
    /\ b[w[j].ticker].from = "current"
    /\ \A k \in 1..Len(w) : k < j => w[k].ticker # w[j].ticker
    /\ w[j].seq - e = j - 1
    /\ w[j].kind = "delta"
    => w[j].ver = b[w[j].ticker].ver + 1

\* the last frame of a market shows its book at the exchange;
TruthOnWire(w, last, tr) ==
  \A i \in 1..Len(w) :
    /\ \A k \in 1..Len(w) : i < k => w[k].ticker # w[i].ticker
    /\ last - w[i].seq = Len(w) - i
    => w[i].ver = tr[w[i].ticker]

\* a book with no frame under way is the exchange's;
TruthInBook(w, e, last, b, tr) ==
  \A t \in Tickers :
    /\ b[t].from = "current"
    /\ \A k \in 1..Len(w) : w[k].ticker # t
    /\ last - e = Len(w) - 1
    => b[t].ver = tr[t]

\* and only subscribed markets have frames and books.
Sourced(w, e, b, fed, subs) ==
  /\ \A i \in 1..Len(w) : w[i].ticker \in fed
  /\ \A t \in Tickers : b[t].from = "current" => t \in subs \cap fed /\ b[t].exact
  /\ e = 0 => \A t \in Tickers : b[t].from # "current"

Stream(w, e, last, b, tr, fed, subs) ==
  /\ SeqGrows(w, e, last) /\ FramesLinked(w) /\ BooksLinked(w, e, b)
  /\ TruthOnWire(w, last, tr) /\ TruthInBook(w, e, last, b, tr)
  /\ Sourced(w, e, b, fed, subs)

SeqInv ==
  /\ conn # NoSocket /\ sock[conn] = "connecting" =>
       expected = 0 /\ \A t \in Tickers : book[t].from # "current"
  /\ conn # NoSocket /\ sock[conn] = "open" =>
       Stream(wire[conn], expected, sent[conn], book, truth, feeds[conn], ids)

\* The rest of a sequence that lost its first element.
LEMMA TailIndexes ==
  ASSUME NEW w \in Seq(Frame), w # <<>>, NEW u, u = Tail(w)
  PROVE  /\ Len(w) \in Nat \ {0} /\ Len(u) = Len(w) - 1
         /\ \A i \in 1..Len(u) : i + 1 \in 1..Len(w) /\ u[i] = w[i + 1]
         /\ \A k \in 1..Len(w) : k > 1 => k - 1 \in 1..Len(u) /\ u[k - 1] = w[k]
  BY HeadTailProperties

LEMMA FrameFields ==
  ASSUME NEW w \in Seq(Frame)
  PROVE  \A i \in 1..Len(w) : /\ w[i] \in Frame /\ w[i].seq \in Nat \ {0} /\ w[i].ver \in Nat
                              /\ w[i].ticker \in Tickers /\ w[i].kind \in {"snapshot", "delta"}
<1> TAKE i \in 1..Len(w)
<1>1. w[i] \in Frame
  BY ElementOfSeq
<1> QED BY <1>1 DEF Frame

\* Dropping the first frame, whatever becomes of it.
LEMMA TailLinked ==
  ASSUME NEW w \in Seq(Frame), w # <<>>, NEW u \in Seq(Frame), u = Tail(w),
         NEW last \in Nat, NEW tr
  PROVE  /\ FramesLinked(w) => FramesLinked(u)
         /\ TruthOnWire(w, last, tr) => TruthOnWire(u, last, tr)
<1>0. /\ Len(w) \in Nat \ {0} /\ Len(u) = Len(w) - 1
      /\ \A i \in 1..Len(u) : i + 1 \in 1..Len(w) /\ u[i] = w[i + 1]
      /\ \A k \in 1..Len(w) : k > 1 => k - 1 \in 1..Len(u) /\ u[k - 1] = w[k]
  BY TailIndexes
<1>1. ASSUME FramesLinked(w),
             NEW i \in 1..Len(u), NEW j \in 1..Len(u), i < j, u[i].ticker = u[j].ticker,
             \A k \in 1..Len(u) : i < k /\ k < j => u[k].ticker # u[j].ticker,
             u[j].seq - u[i].seq = j - i, u[j].kind = "delta"
      PROVE  u[j].ver = u[i].ver + 1
  <2>1. \A k \in 1..Len(w) : i + 1 < k /\ k < j + 1 => w[k].ticker # w[j + 1].ticker
    <3> TAKE k \in 1..Len(w)
    <3> HAVE i + 1 < k /\ k < j + 1
    <3>1. k - 1 \in 1..Len(u) /\ u[k - 1] = w[k] /\ i < k - 1 /\ k - 1 < j
      BY <1>0
    <3> QED BY <1>0, <1>1, <3>1
  <2>2. i + 1 \in 1..Len(w) /\ j + 1 \in 1..Len(w) /\ i + 1 < j + 1
    BY <1>0, <1>1
  <2>3. u[i] = w[i + 1] /\ u[j] = w[j + 1]
    BY <1>0
  <2>4. w[j + 1].seq - w[i + 1].seq = (j + 1) - (i + 1)
    BY <1>0, <1>1, <2>3
  <2> QED BY <1>1, <2>1, <2>2, <2>3, <2>4 DEF FramesLinked
<1>2. ASSUME TruthOnWire(w, last, tr), NEW i \in 1..Len(u),
             \A k \in 1..Len(u) : i < k => u[k].ticker # u[i].ticker,
             last - u[i].seq = Len(u) - i
      PROVE  u[i].ver = tr[u[i].ticker]
  <2>1. \A k \in 1..Len(w) : i + 1 < k => w[k].ticker # w[i + 1].ticker
    <3> TAKE k \in 1..Len(w)
    <3> HAVE i + 1 < k
    <3>1. k - 1 \in 1..Len(u) /\ u[k - 1] = w[k] /\ i < k - 1
      BY <1>0
    <3> QED BY <1>0, <1>2, <3>1
  <2>2. u[i] = w[i + 1] /\ i + 1 \in 1..Len(w)
    BY <1>0
  <2>3. last - w[i + 1].seq = Len(w) - (i + 1)
    BY <1>0, <1>2, <2>2
  <2> QED BY <2>1, <2>2, <2>3, <1>2 DEF TruthOnWire
<1>3. FramesLinked(w) => FramesLinked(u)
  BY <1>1 DEF FramesLinked
<1>4. TruthOnWire(w, last, tr) => TruthOnWire(u, last, tr)
  BY <1>2 DEF TruthOnWire
<1> QED BY <1>3, <1>4

\* A lost frame breaks every chain that went through it.
LEMMA StreamLoses ==
  ASSUME NEW w \in Seq(Frame), w # <<>>, NEW u \in Seq(Frame), u = Tail(w),
         NEW e \in Nat, NEW last \in Nat, NEW b \in [Tickers -> Books], NEW tr,
         NEW fed, NEW subs, Stream(w, e, last, b, tr, fed, subs)
  PROVE  Stream(u, e, last, b, tr, fed, subs)
<1> USE DEF Stream
<1>0. /\ Len(w) \in Nat \ {0} /\ Len(u) = Len(w) - 1
      /\ \A i \in 1..Len(u) : i + 1 \in 1..Len(w) /\ u[i] = w[i + 1]
      /\ \A k \in 1..Len(w) : k > 1 => k - 1 \in 1..Len(u) /\ u[k - 1] = w[k]
  BY TailIndexes
<1>f. \A i \in 1..Len(w) : w[i].seq \in Nat /\ w[i].ticker \in Tickers
  BY FrameFields
<1>1. SeqGrows(u, e, last)
  <2>1. \A i, j \in 1..Len(u) : i < j => u[j].seq - u[i].seq >= j - i
    <3> TAKE i, j \in 1..Len(u)
    <3> HAVE i < j
    <3>1. w[j + 1].seq - w[i + 1].seq >= (j + 1) - (i + 1)
      BY <1>0 DEF SeqGrows
    <3> QED BY <1>0, <1>f, <3>1
  <2>2. e # 0 => \A i \in 1..Len(u) : u[i].seq - e >= i
    <3> HAVE e # 0
    <3> TAKE i \in 1..Len(u)
    <3>1. w[i + 1].seq - e >= (i + 1) - 1
      BY <1>0 DEF SeqGrows
    <3> QED BY <1>0, <1>f, <3>1
  <2>3. \A i \in 1..Len(u) : last - u[i].seq >= Len(u) - i
    <3> TAKE i \in 1..Len(u)
    <3>1. last - w[i + 1].seq >= Len(w) - (i + 1)
      BY <1>0 DEF SeqGrows
    <3> QED BY <1>0, <1>f, <3>1
  <2>4. e # 0 => last - e >= Len(u)
    BY <1>0 DEF SeqGrows
  <2>5. \A i \in 1..Len(u) : u[i].seq \in Nat
    BY <1>0, <1>f
  <2> QED BY <1>0, <2>1, <2>2, <2>3, <2>4, <2>5 DEF SeqGrows
<1>2. FramesLinked(u) /\ TruthOnWire(u, last, tr)
  BY TailLinked
<1>3. BooksLinked(u, e, b)
  <2> SUFFICES ASSUME NEW j \in 1..Len(u), b[u[j].ticker].from = "current", u[j].seq - e = j - 1
               PROVE  FALSE
    BY DEF BooksLinked
  <2>1. e # 0
    BY <1>0, <1>f DEF Sourced
  <2>2. w[j + 1].seq - e >= (j + 1) - 1
    BY <1>0, <2>1 DEF SeqGrows
  <2> QED BY <1>0, <1>f, <2>2
<1>4. TruthInBook(u, e, last, b, tr)
  <2> SUFFICES ASSUME NEW t \in Tickers, b[t].from = "current", last - e = Len(u) - 1
               PROVE  FALSE
    BY DEF TruthInBook
  <2>1. e # 0
    BY DEF Sourced
  <2> QED BY <1>0, <2>1 DEF SeqGrows
<1>5. Sourced(u, e, b, fed, subs)
  BY <1>0 DEF Sourced
<1> QED BY <1>1, <1>2, <1>3, <1>4, <1>5

\* What applying the first frame makes of the books.
Applied(f, b, c, subs) ==
  IF f.ticker \in subs /\ (f.kind = "snapshot" \/ b[f.ticker] # NoBook)
  THEN c = [b EXCEPT ![f.ticker] = IF f.kind = "snapshot" THEN Snapshot(f.ver, "current")
                                   ELSE Patched(@, f.ver)]
  ELSE c = b

LEMMA AppliedIs ==
  ASSUME NEW f \in Frame, NEW b \in [Tickers -> Books], NEW c, NEW subs, Applied(f, b, c, subs),
         b[f.ticker].from = "current" =>
           f.ticker \in subs /\ b[f.ticker].exact /\ (f.kind = "delta" => f.ver = b[f.ticker].ver + 1)
  PROVE  /\ c \in [Tickers -> Books]
         /\ \A t \in Tickers : t # f.ticker => c[t] = b[t]
         /\ c[f.ticker].from = "current" =>
              f.ticker \in subs /\ c[f.ticker].exact /\ c[f.ticker].ver = f.ver
<1>1. f.ticker \in Tickers /\ f.ver \in Nat /\ f.kind \in {"snapshot", "delta"}
  BY DEF Frame
<1>2. CASE f.ticker \in subs /\ f.kind = "snapshot"
  <2>1. c = [b EXCEPT ![f.ticker] = Snapshot(f.ver, "current")]
    BY <1>2 DEF Applied
  <2>2. Snapshot(f.ver, "current") \in Books
    BY <1>1, SnapshotTyped
  <2> QED BY <1>1, <1>2, <2>1, <2>2 DEF Snapshot
<1>3. CASE f.ticker \in subs /\ f.kind = "delta" /\ b[f.ticker] # NoBook
  <2>1. c = [b EXCEPT ![f.ticker] = Patched(b[f.ticker], f.ver)]
    BY <1>3 DEF Applied
  <2>2. Patched(b[f.ticker], f.ver) \in Books
    BY <1>1, PatchedTyped
  <2>3. Patched(b[f.ticker], f.ver).from = b[f.ticker].from
    BY <1>1 DEF Patched, Books
  <2>4. b[f.ticker].from = "current" =>
          Patched(b[f.ticker], f.ver).exact /\ Patched(b[f.ticker], f.ver).ver = f.ver
    BY <1>1, <1>3 DEF Patched, Books
  <2> QED BY <1>1, <1>3, <2>1, <2>2, <2>3, <2>4
<1>4. CASE ~(f.ticker \in subs /\ (f.kind = "snapshot" \/ b[f.ticker] # NoBook))
  <2>1. c = b
    BY <1>4 DEF Applied
  <2>2. b[f.ticker].from # "current"
    BY <1>1, <1>4 DEF NoBook
  <2> QED BY <2>1, <2>2
<1> QED BY <1>1, <1>2, <1>3, <1>4

\* A frame in sequence moves the book to where the next one continues, or
\* leaves it out of what follows.
LEMMA StreamTakes ==
  ASSUME NEW w \in Seq(Frame), w # <<>>, NEW u \in Seq(Frame), u = Tail(w),
         NEW e \in Nat, NEW last \in Nat, NEW b \in [Tickers -> Books], NEW c, NEW tr,
         NEW fed, NEW subs, Stream(w, e, last, b, tr, fed, subs),
         e = 0 \/ w[1].seq = e, Applied(w[1], b, c, subs) \/ Lapsed(w[1], b, c)
  PROVE  Stream(u, w[1].seq + 1, last, c, tr, fed, subs)
<1> USE DEF Stream
<1> DEFINE f == w[1]
           d == f.seq + 1
<1>0. /\ Len(w) \in Nat \ {0} /\ Len(u) = Len(w) - 1
      /\ \A i \in 1..Len(u) : i + 1 \in 1..Len(w) /\ u[i] = w[i + 1]
      /\ \A k \in 1..Len(w) : k > 1 => k - 1 \in 1..Len(u) /\ u[k - 1] = w[k]
  BY TailIndexes
<1>f. \A i \in 1..Len(w) : w[i] \in Frame /\ w[i].seq \in Nat /\ w[i].ticker \in Tickers /\ w[i].ver \in Nat
  BY FrameFields
<1>g. 1 \in 1..Len(w) /\ f \in Frame /\ f.seq \in Nat /\ f.ticker \in Tickers /\ f.ver \in Nat
  BY <1>0, <1>f
<1>h. \A t \in Tickers : b[t].from = "current" => e # 0 /\ f.seq = e
  BY DEF Sourced
<1>a. /\ c \in [Tickers -> Books]
      /\ \A t \in Tickers : t # f.ticker => c[t] = b[t]
      /\ c[f.ticker].from = "current" =>
           f.ticker \in subs /\ c[f.ticker].exact /\ c[f.ticker].ver = f.ver
  <2>1. ASSUME b[f.ticker].from = "current"
        PROVE  f.ticker \in subs /\ b[f.ticker].exact /\ (f.kind = "delta" => f.ver = b[f.ticker].ver + 1)
    <3>1. f.ticker \in subs /\ b[f.ticker].exact
      BY <1>g, <2>1 DEF Sourced
    <3>2. f.seq - e = 1 - 1
      BY <1>g, <1>h, <2>1
    <3>3. \A k \in 1..Len(w) : k < 1 => w[k].ticker # w[1].ticker
      BY <1>0
    <3>4. f.kind = "delta" => f.ver = b[f.ticker].ver + 1
      BY <1>g, <2>1, <3>2, <3>3 DEF BooksLinked
    <3> QED BY <3>1, <3>4
  <2> HIDE DEF f
  <2>2. Applied(f, b, c, subs) \/ Lapsed(f, b, c)
    BY DEF f
  <2>3. CASE Applied(f, b, c, subs)
    BY <1>g, <2>1, <2>3, AppliedIs
  <2>4. CASE Lapsed(f, b, c)
    BY <1>g, <2>4, LapsedIs
  <2> QED BY <2>2, <2>3, <2>4
<1>1. SeqGrows(u, d, last)
  <2>1. \A i, j \in 1..Len(u) : i < j => u[j].seq - u[i].seq >= j - i
    <3> TAKE i, j \in 1..Len(u)
    <3> HAVE i < j
    <3>1. w[j + 1].seq - w[i + 1].seq >= (j + 1) - (i + 1)
      BY <1>0 DEF SeqGrows
    <3> QED BY <1>0, <1>f, <3>1
  <2>2. \A i \in 1..Len(u) : u[i].seq - d >= i - 1
    <3> TAKE i \in 1..Len(u)
    <3>1. w[i + 1].seq - w[1].seq >= (i + 1) - 1
      BY <1>0, <1>g DEF SeqGrows
    <3> QED BY <1>0, <1>f, <1>g, <3>1
  <2>3. \A i \in 1..Len(u) : last - u[i].seq >= Len(u) - i
    <3> TAKE i \in 1..Len(u)
    <3>1. last - w[i + 1].seq >= Len(w) - (i + 1)
      BY <1>0 DEF SeqGrows
    <3> QED BY <1>0, <1>f, <3>1
  <2>4. last - d >= Len(u) - 1
    <3>1. last - w[1].seq >= Len(w) - 1
      BY <1>g DEF SeqGrows
    <3> QED BY <1>0, <1>g, <3>1
  <2> QED BY <2>1, <2>2, <2>3, <2>4 DEF SeqGrows
<1>2. FramesLinked(u) /\ TruthOnWire(u, last, tr)
  BY TailLinked
<1>3. BooksLinked(u, d, c)
  <2> SUFFICES ASSUME NEW j \in 1..Len(u), c[u[j].ticker].from = "current",
                      \A k \in 1..Len(u) : k < j => u[k].ticker # u[j].ticker,
                      u[j].seq - d = j - 1, u[j].kind = "delta"
               PROVE  u[j].ver = c[u[j].ticker].ver + 1
    BY DEF BooksLinked
  <2>1. u[j] = w[j + 1] /\ j + 1 \in 1..Len(w) /\ 1 < j + 1 /\ u[j].ticker \in Tickers
    BY <1>0, <1>f
  <2>2. w[j + 1].seq - w[1].seq = (j + 1) - 1
    BY <1>0, <1>f, <1>g, <2>1
  <2>3. \A k \in 1..Len(w) : 1 < k /\ k < j + 1 => w[k].ticker # w[j + 1].ticker
    <3> TAKE k \in 1..Len(w)
    <3> HAVE 1 < k /\ k < j + 1
    <3>1. k - 1 \in 1..Len(u) /\ u[k - 1] = w[k] /\ k - 1 < j
      BY <1>0
    <3> QED BY <2>1, <3>1
  <2>4. CASE u[j].ticker = f.ticker
    <3>1. w[j + 1].ver = w[1].ver + 1
      BY <1>g, <2>1, <2>2, <2>3, <2>4 DEF FramesLinked
    <3> QED BY <1>a, <2>1, <2>4, <3>1
  <2>5. CASE u[j].ticker # f.ticker
    <3>1. c[u[j].ticker] = b[u[j].ticker]
      BY <1>a, <2>1, <2>5
    <3>2. f.seq = e
      BY <1>h, <2>1, <3>1
    <3>3. \A k \in 1..Len(w) : k < j + 1 => w[k].ticker # w[j + 1].ticker
      <4> TAKE k \in 1..Len(w)
      <4> HAVE k < j + 1
      <4>1. k = 1 \/ 1 < k
        BY <1>0
      <4> QED BY <2>1, <2>3, <2>5, <4>1
    <3> QED BY <2>1, <2>2, <3>1, <3>2, <3>3 DEF BooksLinked
  <2> QED BY <2>4, <2>5
<1>4. TruthInBook(u, d, last, c, tr)
  <2> SUFFICES ASSUME NEW t \in Tickers, c[t].from = "current",
                      \A k \in 1..Len(u) : u[k].ticker # t, last - d = Len(u) - 1
               PROVE  c[t].ver = tr[t]
    BY DEF TruthInBook
  <2>1. \A k \in 1..Len(w) : 1 < k => w[k].ticker # t
    BY <1>0
  <2>2. last - w[1].seq = Len(w) - 1
    BY <1>0, <1>g
  <2>3. CASE t = f.ticker
    <3>1. w[1].ver = tr[w[1].ticker]
      BY <1>g, <2>1, <2>2, <2>3 DEF TruthOnWire
    <3> QED BY <1>a, <2>3, <3>1
  <2>4. CASE t # f.ticker
    <3>1. c[t] = b[t]
      BY <1>a, <2>4
    <3>2. f.seq = e
      BY <1>h, <3>1
    <3>3. \A k \in 1..Len(w) : w[k].ticker # t
      <4> TAKE k \in 1..Len(w)
      <4>1. k = 1 \/ 1 < k
        BY <1>0
      <4> QED BY <2>1, <2>4, <4>1
    <3> QED BY <2>2, <3>1, <3>2, <3>3 DEF TruthInBook
  <2> QED BY <2>3, <2>4
<1>5. Sourced(u, d, c, fed, subs)
  <2>1. \A i \in 1..Len(u) : u[i].ticker \in fed
    BY <1>0 DEF Sourced
  <2>2. ASSUME NEW t \in Tickers, c[t].from = "current" PROVE t \in subs \cap fed /\ c[t].exact
    <3>1. CASE t = f.ticker
      BY <1>a, <1>g, <2>2, <3>1 DEF Sourced
    <3>2. CASE t # f.ticker
      BY <1>a, <2>2, <3>2 DEF Sourced
    <3> QED BY <3>1, <3>2
  <2>3. d # 0
    BY <1>g
  <2> QED BY <2>1, <2>2, <2>3 DEF Sourced
<1> QED BY <1>1, <1>2, <1>3, <1>4, <1>5

\* Frames z sent behind w, giving x: snapshots of a subscribe command, or one
\* delta.  next is the last number then given out, tr2 and fed2 what becomes of
\* the changes at the exchange and of the tickers it sends.
Follows(w, z, x, last, next, tr, tr2, fed, fed2) ==
  /\ w \in Seq(Frame) /\ z \in Seq(Frame) /\ x \in Seq(Frame)
  /\ last \in Nat /\ next \in Nat /\ next = last + Len(z)
  /\ fed \subseteq fed2
  /\ Len(w) \in Nat /\ Len(z) \in Nat /\ Len(x) = Len(w) + Len(z)
  /\ \A i \in 1..Len(w) : i \in 1..Len(x) /\ x[i] = w[i]
  /\ \A i \in 1..Len(z) : Len(w) + i \in 1..Len(x) /\ x[Len(w) + i] = z[i]
  /\ \A i \in 1..Len(z) : z[i].seq = last + i
  /\ \A i \in 1..Len(z) : z[i].ver = tr2[z[i].ticker]
  /\ \A i \in 1..Len(z) : z[i].ticker \in fed2
  /\ \A i \in 1..Len(z) : z[i].kind = "delta" => i = 1 /\ z[i].ver = tr[z[i].ticker] + 1
  /\ \A t \in fed : (\A i \in 1..Len(z) : z[i].ticker # t) => tr2[t] = tr[t]

LEMMA AppendIs ==
  ASSUME NEW w \in Seq(Frame), NEW d \in Frame, NEW x, x = Append(w, d)
  PROVE  /\ Len(w) \in Nat /\ Len(x) = Len(w) + 1 /\ x[Len(w) + 1] = d
         /\ \A i \in 1..Len(w) : i \in 1..Len(x) /\ x[i] = w[i]
  BY AppendProperties

LEMMA ConcatIs ==
  ASSUME NEW w \in Seq(Frame), NEW z \in Seq(Frame), NEW x, x = w \o z
  PROVE  /\ Len(w) \in Nat /\ Len(z) \in Nat /\ Len(x) = Len(w) + Len(z) /\ x \in Seq(Frame)
         /\ \A i \in 1..Len(w) : i \in 1..Len(x) /\ x[i] = w[i]
         /\ \A i \in 1..Len(z) : Len(w) + i \in 1..Len(x) /\ x[Len(w) + i] = z[i]
  BY ConcatProperties

LEMMA StreamGrows ==
  ASSUME NEW w, NEW z, NEW x, NEW e \in Nat, NEW last, NEW next, NEW b, NEW tr, NEW tr2,
         NEW fed, NEW fed2, NEW subs, NEW subs2, subs \subseteq subs2,
         Follows(w, z, x, last, next, tr, tr2, fed, fed2),
         Stream(w, e, last, b, tr, fed, subs)
  PROVE  Stream(x, e, next, b, tr2, fed2, subs2)
<1>p. PICK n, m : n = Len(w) /\ m = Len(z)
  OBVIOUS
<1>a. /\ w \in Seq(Frame) /\ z \in Seq(Frame) /\ x \in Seq(Frame)
      /\ last \in Nat /\ next \in Nat /\ next = last + m
      /\ fed \subseteq fed2
      /\ Len(w) = n /\ Len(z) = m
  BY <1>p DEF Follows
<1>z. /\ \A i \in 1..m : z[i].seq = last + i
      /\ \A i \in 1..m : z[i].ver = tr2[z[i].ticker]
      /\ \A i \in 1..m : z[i].ticker \in fed2
      /\ \A i \in 1..m : z[i].kind = "delta" => i = 1 /\ z[i].ver = tr[z[i].ticker] + 1
      /\ \A t \in fed : (\A i \in 1..m : z[i].ticker # t) => tr2[t] = tr[t]
  BY <1>p DEF Follows
<1> USE <1>a, <1>z DEF Stream
<1>0. /\ n \in Nat /\ m \in Nat /\ Len(x) = n + m
      /\ \A i \in 1..n : i \in 1..Len(x) /\ x[i] = w[i]
      /\ \A i \in 1..m : n + i \in 1..Len(x) /\ x[n + i] = z[i]
  BY <1>p DEF Follows
<1>s. \A j \in 1..Len(x) : j > n => j - n \in 1..m /\ x[j] = z[j - n] /\ x[j].seq = last + (j - n)
  <2> SUFFICES ASSUME NEW j \in 1..Len(x), j > n
               PROVE  j - n \in 1..m /\ x[j] = z[j - n] /\ x[j].seq = last + (j - n)
    OBVIOUS
  <2>1. j - n \in 1..m /\ n + (j - n) = j
    BY <1>0
  <2>2. x[n + (j - n)] = z[j - n]
    BY <1>0, <2>1
  <2>3. z[j - n].seq = last + (j - n)
    BY <2>1
  <2> QED BY <2>1, <2>2, <2>3
<1>c. \A j \in 1..Len(x) : j \in 1..n \/ j > n
  BY <1>0
<1>f. \A i \in 1..n : w[i].seq \in Nat /\ w[i].ticker \in Tickers
  BY FrameFields
<1>g. \A i \in 1..Len(x) : x[i].seq \in Nat /\ x[i].ticker \in Tickers
  BY FrameFields
<1>1. SeqGrows(x, e, next)
  <2>1. \A i, j \in 1..Len(x) : i < j => x[j].seq - x[i].seq >= j - i
    <3> SUFFICES ASSUME NEW i \in 1..Len(x), NEW j \in 1..Len(x), i < j
                 PROVE  x[j].seq - x[i].seq >= j - i
      OBVIOUS
    <3>1. CASE j \in 1..n
      <4>1. i \in 1..n
        BY <1>0, <3>1
      <4>2. w[j].seq - w[i].seq >= j - i
        BY <3>1, <4>1 DEF SeqGrows
      <4> QED BY <1>0, <3>1, <4>1, <4>2
    <3>2. CASE j > n /\ i \in 1..n
      <4>1. last - w[i].seq >= n - i
        BY <3>2 DEF SeqGrows
      <4>2. x[j].seq = last + (j - n) /\ x[i] = w[i]
        BY <1>0, <1>s, <3>2
      <4>3. w[i].seq \in Nat /\ x[j].seq - x[i].seq = last + (j - n) - w[i].seq
        BY <1>f, <3>2, <4>2
      <4>4. last \in Nat /\ n \in Nat /\ i \in Nat /\ j \in Nat
        BY <1>0, <3>2
      <4> HIDE <1>a, <1>z DEF Stream
      <4> QED BY <4>1, <4>3, <4>4
    <3>3. CASE j > n /\ i > n
      <4>1. x[j].seq = last + (j - n) /\ x[i].seq = last + (i - n)
        BY <1>0, <1>s, <3>3
      <4> QED BY <1>0, <4>1
    <3> QED BY <1>c, <3>1, <3>2, <3>3
  <2>2. e # 0 => \A i \in 1..Len(x) : x[i].seq - e >= i - 1
    <3> SUFFICES ASSUME e # 0, NEW i \in 1..Len(x) PROVE x[i].seq - e >= i - 1
      OBVIOUS
    <3>1. CASE i \in 1..n
      BY <1>0, <3>1 DEF SeqGrows
    <3>2. CASE i > n
      <4>1. last - e >= n - 1
        BY DEF SeqGrows
      <4>2. x[i].seq = last + (i - n)
        BY <1>0, <1>s, <3>2
      <4> QED BY <1>0, <4>1, <4>2
    <3> QED BY <1>c, <3>1, <3>2
  <2>3. \A i \in 1..Len(x) : next - x[i].seq >= Len(x) - i
    <3> TAKE i \in 1..Len(x)
    <3>1. CASE i \in 1..n
      <4>1. last - w[i].seq >= n - i
        BY <3>1 DEF SeqGrows
      <4> QED BY <1>0, <1>f, <3>1, <4>1
    <3>2. CASE i > n
      <4>2. x[i].seq = last + (i - n)
        BY <1>0, <1>s, <3>2
      <4> QED BY <1>0, <4>2
    <3> QED BY <1>c, <3>1, <3>2
  <2>4. e # 0 => next - e >= Len(x) - 1
    <3> HAVE e # 0
    <3>1. last - e >= n - 1
      BY DEF SeqGrows
    <3> QED BY <1>0, <3>1
  <2> QED BY <2>1, <2>2, <2>3, <2>4 DEF SeqGrows
<1>2. FramesLinked(x)
  <2> SUFFICES ASSUME NEW i \in 1..Len(x), NEW j \in 1..Len(x), i < j, x[i].ticker = x[j].ticker,
                      \A k \in 1..Len(x) : i < k /\ k < j => x[k].ticker # x[j].ticker,
                      x[j].seq - x[i].seq = j - i, x[j].kind = "delta"
               PROVE  x[j].ver = x[i].ver + 1
    BY DEF FramesLinked
  <2>1. CASE j \in 1..n
    <3>1. i \in 1..n /\ x[i] = w[i] /\ x[j] = w[j]
      BY <1>0, <2>1
    <3>2. \A k \in 1..n : i < k /\ k < j => w[k].ticker # w[j].ticker
      BY <1>0, <3>1
    <3>3. w[i].ticker = w[j].ticker /\ w[j].seq - w[i].seq = j - i /\ w[j].kind = "delta"
      BY <3>1
    <3>4. w[j].ver = w[i].ver + 1
      BY <2>1, <3>1, <3>2, <3>3 DEF FramesLinked
    <3> QED BY <3>1, <3>4
  <2>2. CASE j > n
    <3>1. j - n \in 1..m /\ x[j] = z[j - n] /\ x[j].seq = last + (j - n)
      BY <1>s, <2>2
    <3>2. j = n + 1 /\ x[j].ver = tr[x[j].ticker] + 1
      <4>1. z[j - n].kind = "delta"
        BY <3>1
      <4>2. j - n = 1 /\ z[j - n].ver = tr[z[j - n].ticker] + 1
        BY <3>1, <4>1
      <4>3. j = n + 1
        BY <1>0, <4>2
      <4> QED BY <3>1, <4>2, <4>3
    <3>3. i \in 1..n /\ x[i] = w[i]
      BY <1>0, <3>2
    <3>4. \A k \in 1..n : i < k => w[k].ticker # w[i].ticker
      BY <1>0, <3>2, <3>3
    <3>5. last - w[i].seq = n - i
      BY <1>0, <1>f, <3>1, <3>2, <3>3
    <3>6. w[i].ver = tr[w[i].ticker]
      BY <3>3, <3>4, <3>5 DEF TruthOnWire
    <3>7. x[i].ver = tr[x[j].ticker]
      BY <3>3, <3>6
    <3> QED BY <3>2, <3>7
  <2> QED BY <1>c, <2>1, <2>2
<1>3. BooksLinked(x, e, b)
  <2> SUFFICES ASSUME NEW j \in 1..Len(x), b[x[j].ticker].from = "current",
                      \A k \in 1..Len(x) : k < j => x[k].ticker # x[j].ticker,
                      x[j].seq - e = j - 1, x[j].kind = "delta"
               PROVE  x[j].ver = b[x[j].ticker].ver + 1
    BY DEF BooksLinked
  <2>1. CASE j \in 1..n
    <3>1. x[j] = w[j] /\ \A k \in 1..n : k < j => w[k].ticker # w[j].ticker
      BY <1>0, <2>1
    <3> QED BY <2>1, <3>1 DEF BooksLinked
  <2>2. CASE j > n
    <3>1. j - n \in 1..m /\ x[j] = z[j - n] /\ x[j].seq = last + (j - n)
      BY <1>s, <2>2
    <3>2. j = n + 1 /\ x[j].ver = tr[x[j].ticker] + 1
      <4>1. z[j - n].kind = "delta"
        BY <3>1
      <4>2. j - n = 1 /\ z[j - n].ver = tr[z[j - n].ticker] + 1
        BY <3>1, <4>1
      <4>3. j = n + 1
        BY <1>0, <4>2
      <4> QED BY <3>1, <4>2, <4>3
    <3>3. \A k \in 1..n : w[k].ticker # x[j].ticker
      BY <1>0, <3>2
    <3>4. last - e = n - 1
      BY <1>0, <3>1, <3>2
    <3>5. b[x[j].ticker].ver = tr[x[j].ticker]
      BY <1>g, <3>3, <3>4 DEF TruthInBook
    <3> QED BY <3>2, <3>5
  <2> QED BY <1>c, <2>1, <2>2
<1>4. TruthOnWire(x, next, tr2)
  <2> SUFFICES ASSUME NEW i \in 1..Len(x),
                      \A k \in 1..Len(x) : i < k => x[k].ticker # x[i].ticker,
                      next - x[i].seq = Len(x) - i
               PROVE  x[i].ver = tr2[x[i].ticker]
    BY DEF TruthOnWire
  <2>1. CASE i \in 1..n
    <3>1. x[i] = w[i] /\ \A k \in 1..n : i < k => w[k].ticker # w[i].ticker
      BY <1>0, <2>1
    <3>2. last - w[i].seq = n - i
      BY <1>0, <1>f, <2>1, <3>1
    <3>3. w[i].ver = tr[w[i].ticker]
      BY <2>1, <3>1, <3>2 DEF TruthOnWire
    <3>4. \A k \in 1..m : z[k].ticker # w[i].ticker
      <4> TAKE k \in 1..m
      <4>1. n + k \in 1..Len(x) /\ x[n + k] = z[k] /\ i < n + k
        BY <1>0, <2>1
      <4> QED BY <3>1, <4>1
    <3>5. w[i].ticker \in fed
      BY <2>1 DEF Sourced
    <3> QED BY <3>1, <3>3, <3>4, <3>5
  <2>2. CASE i > n
    BY <1>s, <2>2
  <2> QED BY <1>c, <2>1, <2>2
<1>5. TruthInBook(x, e, next, b, tr2)
  <2> SUFFICES ASSUME NEW t \in Tickers, b[t].from = "current",
                      \A k \in 1..Len(x) : x[k].ticker # t, next - e = Len(x) - 1
               PROVE  b[t].ver = tr2[t]
    BY DEF TruthInBook
  <2>1. (\A k \in 1..n : w[k].ticker # t) /\ (\A k \in 1..m : z[k].ticker # t)
    BY <1>0
  <2>2. last - e = n - 1
    BY <1>0
  <2>3. t \in fed
    BY DEF Sourced
  <2> QED BY <2>1, <2>2, <2>3 DEF TruthInBook
<1>6. Sourced(x, e, b, fed2, subs2)
  <2>1. \A i \in 1..Len(x) : x[i].ticker \in fed2
    <3> TAKE i \in 1..Len(x)
    <3>1. CASE i \in 1..n
      BY <1>0, <3>1 DEF Sourced
    <3>2. CASE i > n
      BY <1>s, <3>2
    <3> QED BY <1>c, <3>1, <3>2
  <2> QED BY <2>1 DEF Sourced
<1> QED BY <1>1, <1>2, <1>3, <1>4, <1>5, <1>6

\* Books that are dropped or set otherwise than by this connection.
LEMMA StreamForgets ==
  ASSUME NEW w \in Seq(Frame), NEW e, NEW last, NEW b, NEW c, NEW tr, NEW fed, NEW subs, NEW subs2,
         Stream(w, e, last, b, tr, fed, subs),
         \A t \in Tickers : c[t].from = "current" => c[t] = b[t] /\ t \in subs2
  PROVE  Stream(w, e, last, c, tr, fed, subs2)
<1> USE DEF Stream
<1>1. \A i \in 1..Len(w) : w[i].ticker \in Tickers
  BY FrameFields
<1>2. BooksLinked(w, e, c)
  BY <1>1 DEF BooksLinked
<1>3. TruthInBook(w, e, last, c, tr)
  BY DEF TruthInBook
<1>4. Sourced(w, e, c, fed, subs2)
  BY DEF Sourced
<1> QED BY <1>2, <1>3, <1>4

LEMMA StreamStarts ==
  ASSUME NEW b, NEW tr, NEW subs, \A t \in Tickers : b[t].from # "current"
  PROVE  Stream(<<>>, 0, 0, b, tr, {}, subs)
BY DEF Stream, SeqGrows, FramesLinked, BooksLinked, TruthOnWire, TruthInBook, Sourced

\* The answer to a subscribe command.
LEMMA StreamSubscribes ==
  ASSUME FeedAssumption, TypeOK, NEW s \in Sockets, NEW T \in SUBSET Tickers,
         SendSubscribe(s, T), NEW subs, NEW subs2, subs \subseteq subs2,
         Stream(wire[s], expected, sent[s], book, truth, feeds[s], subs)
  PROVE  Stream(wire'[s], expected, sent'[s], book, truth, feeds'[s], subs2)
<1> DEFINE w == wire[s]
           z == Snapshots(s, T)
           x == wire'[s]
           n == Len(w)
           m == Len(z)
<1>1. w \in Seq(Frame) /\ sent[s] \in Nat /\ feeds[s] \in SUBSET Tickers
  BY DEF TypeOK
<1>2. /\ z \in Seq(Frame) /\ m = Len(SetToSeq(T)) /\ m \in Nat
      /\ \A i \in 1..m : SetToSeq(T)[i] \in T
  BY SnapshotsType
<1>3. x = w \o z /\ sent'[s] = sent[s] + m /\ feeds'[s] = feeds[s] \cup T
  <2>1. /\ feeds' = [feeds EXCEPT ![s] = @ \cup T]
        /\ wire' = [wire EXCEPT ![s] = @ \o z]
        /\ sent' = [sent EXCEPT ![s] = @ + Len(SetToSeq(T))]
    BY SendSubscribeIs
  <2> QED BY <1>2, <2>1 DEF TypeOK
<1>4. \A i \in 1..m : /\ z[i].kind = "snapshot" /\ z[i].ticker \in T
                      /\ z[i].ver = truth[z[i].ticker] /\ z[i].seq = sent[s] + i
  BY <1>2 DEF Snapshots
<1>5. n \in Nat /\ sent'[s] \in Nat
  BY <1>1, <1>2, <1>3
<1> HIDE DEF w, z
<1>6. /\ x \in Seq(Frame) /\ Len(x) = n + m
      /\ \A i \in 1..n : i \in 1..Len(x) /\ x[i] = w[i]
      /\ \A i \in 1..m : n + i \in 1..Len(x) /\ x[n + i] = z[i]
  <2>1. x = w \o z
    BY <1>3
  <2>2. w \in Seq(Frame) /\ z \in Seq(Frame)
    BY <1>1, <1>2
  <2> HIDE DEF x
  <2> QED BY <2>1, <2>2, ConcatIs
<1>7. Stream(w, expected, sent[s], book, truth, feeds[s], subs)
  BY DEF w
<1>8. expected \in Nat /\ truth \in [Tickers -> Nat] /\ book \in [Tickers -> Books]
  BY DEF TypeOK, Books
<1> HIDE DEF n, m, x
<1>9. Len(w) = n /\ Len(z) = m
  BY DEF n, m
<1>10. feeds[s] \subseteq feeds'[s]
  BY <1>3
<1>11. \A i \in 1..m : z[i].kind = "delta" => i = 1 /\ z[i].ver = truth[z[i].ticker] + 1
  BY <1>4
<1>12. \A i \in 1..m : z[i].ticker \in feeds'[s]
  BY <1>3, <1>4
<1>13. Follows(w, z, x, sent[s], sent'[s], truth, truth, feeds[s], feeds'[s])
  BY <1>1, <1>2, <1>3, <1>4, <1>5, <1>6, <1>9, <1>10, <1>11, <1>12 DEF Follows
<1>14. Stream(x, expected, sent'[s], book, truth, feeds'[s], subs2)
  BY <1>7, <1>8, <1>13, StreamGrows
<1> QED BY <1>14 DEF x

\* A change of a book, on a socket that feeds the market or on one that does not.
LEMMA StreamMoves ==
  ASSUME FeedAssumption, TypeOK, TypeOK', NEW s \in Sockets, NEW t \in Tickers, BookMoves(t),
         Stream(wire[s], expected, sent[s], book, truth, feeds[s], ids)
  PROVE  Stream(wire'[s], expected, sent'[s], book, truth', feeds[s], ids)
<1> DEFINE d == [kind |-> "delta", ticker |-> t, ver |-> truth[t] + 1, seq |-> sent[s] + 1]
<1>1. /\ wire[s] \in Seq(Frame) /\ sent[s] \in Nat /\ feeds[s] \in SUBSET Tickers
      /\ expected \in Nat /\ truth \in [Tickers -> Nat] /\ truth' \in [Tickers -> Nat]
      /\ book \in [Tickers -> Books] /\ wire'[s] \in Seq(Frame) /\ sent'[s] \in Nat
  BY DEF TypeOK, Books
<1>2. truth' = [truth EXCEPT ![t] = @ + 1]
  BY DEF BookMoves
<1>3. /\ wire' = [r \in Sockets |->
                    IF r \in {q \in Sockets : t \in feeds[q]}
                    THEN Append(wire[r], [kind |-> "delta", ticker |-> t, ver |-> truth[t] + 1,
                                          seq |-> sent[r] + 1])
                    ELSE wire[r]]
      /\ sent' = [r \in Sockets |->
                    IF r \in {q \in Sockets : t \in feeds[q]} THEN sent[r] + 1 ELSE sent[r]]
  BY DEF BookMoves
<1>4. CASE t \in feeds[s]
  <2>1. wire'[s] = Append(wire[s], d) /\ sent'[s] = sent[s] + 1
    BY <1>3, <1>4
  <2>2. d \in Frame
    <3>1. truth[t] \in Nat /\ sent[s] \in Nat
      BY <1>1
    <3>2. truth[t] + 1 \in Nat /\ sent[s] + 1 \in Nat \ {0}
      BY <3>1
    <3> QED BY <3>2 DEF Frame
  <2>3. /\ d.seq = sent[s] + 1 /\ d.ver = truth'[t] /\ d.ver = truth[t] + 1 /\ d.ticker = t
    BY <1>1, <1>2
  <2> HIDE DEF d
  <2> DEFINE z == <<d>>
             n == Len(wire[s])
  <2>4. z \in Seq(Frame) /\ Len(z) = 1 /\ z[1] = d
    BY <2>2
  <2>5. /\ n \in Nat /\ Len(wire'[s]) = n + 1
        /\ \A i \in 1..n : i \in 1..Len(wire'[s]) /\ wire'[s][i] = wire[s][i]
        /\ wire'[s][n + 1] = d
    BY <1>1, <2>1, <2>2, AppendIs
  <2> HIDE DEF z
  <2> HIDE DEF n
  <2>6. \A i \in 1..1 : n + i \in 1..Len(wire'[s]) /\ wire'[s][n + i] = z[i]
    BY <2>4, <2>5
  <2>7. \A i \in 1..1 : /\ z[i].seq = sent[s] + i /\ z[i].ver = truth'[z[i].ticker]
                        /\ z[i].ticker \in feeds[s]
    <3> SUFFICES z[1].seq = sent[s] + 1 /\ z[1].ver = truth'[z[1].ticker] /\ z[1].ticker \in feeds[s]
      OBVIOUS
    <3> QED BY <1>4, <2>3, <2>4
  <2>8. \A i \in 1..1 : z[i].kind = "delta" => i = 1 /\ z[i].ver = truth[z[i].ticker] + 1
    BY <2>3, <2>4
  <2>9. \A v \in feeds[s] : (\A i \in 1..1 : z[i].ticker # v) => truth'[v] = truth[v]
    <3> SUFFICES ASSUME NEW v \in feeds[s], z[1].ticker # v PROVE truth'[v] = truth[v]
      OBVIOUS
    <3> QED BY <1>1, <1>2, <2>3, <2>4
  <2>10. Len(wire[s]) = n
    BY DEF n
  <2>11. Follows(wire[s], z, wire'[s], sent[s], sent'[s], truth, truth', feeds[s], feeds[s])
    <3>1. /\ wire[s] \in Seq(Frame) /\ z \in Seq(Frame) /\ wire'[s] \in Seq(Frame)
          /\ sent[s] \in Nat /\ sent'[s] \in Nat
      BY <1>1, <2>4
    <3>2. sent'[s] = sent[s] + Len(z)
      BY <2>1, <2>4
    <3>3. Len(wire[s]) \in Nat /\ Len(z) \in Nat /\ Len(wire'[s]) = Len(wire[s]) + Len(z)
      BY <2>4, <2>5, <2>10
    <3>4. /\ \A i \in 1..Len(wire[s]) : i \in 1..Len(wire'[s]) /\ wire'[s][i] = wire[s][i]
          /\ \A i \in 1..Len(z) : /\ Len(wire[s]) + i \in 1..Len(wire'[s])
                                  /\ wire'[s][Len(wire[s]) + i] = z[i]
      BY <2>4, <2>5, <2>6, <2>10
    <3>5. \A i \in 1..Len(z) : /\ z[i].seq = sent[s] + i /\ z[i].ver = truth'[z[i].ticker]
                               /\ z[i].ticker \in feeds[s]
                               /\ z[i].kind = "delta" => i = 1 /\ z[i].ver = truth[z[i].ticker] + 1
      BY <2>4, <2>7, <2>8
    <3>6. \A v \in feeds[s] : (\A i \in 1..Len(z) : z[i].ticker # v) => truth'[v] = truth[v]
      BY <2>4, <2>9
    <3> QED BY <3>1, <3>2, <3>3, <3>4, <3>5, <3>6, Zenon DEF Follows
  <2> QED BY <1>1, <2>11, StreamGrows
<1>5. CASE t \notin feeds[s]
  <2>1. wire'[s] = wire[s] /\ sent'[s] = sent[s]
    BY <1>3, <1>5
  <2>2. \A v \in feeds[s] : truth'[v] = truth[v]
    BY <1>1, <1>2, <1>5
  <2>3. TruthOnWire(wire[s], sent[s], truth')
    BY <2>2 DEF Stream, Sourced, TruthOnWire
  <2>4. TruthInBook(wire[s], expected, sent[s], book, truth')
    BY <2>2 DEF Stream, Sourced, TruthInBook
  <2> QED BY <2>1, <2>3, <2>4 DEF Stream
<1> QED BY <1>4, <1>5

-----------------------------------------------------------------------------
(* The steps keep the stream, one lemma for each kind of step *)

\* A step that takes away nothing but books keeps it too.
LEMMA SeqStays ==
  ASSUME TypeOK, SeqInv, UNCHANGED <<truth, wire, feeds, sent, conn, expected>>,
         conn # NoSocket => sock'[conn] = sock[conn],
         \A t \in Tickers : book'[t].from = "current" => book'[t] = book[t] /\ t \in ids',
         conn # NoSocket => conn \in Sockets
  PROVE  SeqInv'
<1>1. ASSUME conn # NoSocket, sock[conn] = "open"
      PROVE  Stream(wire[conn], expected, sent[conn], book', truth, feeds[conn], ids')
  <2>1. wire[conn] \in Seq(Frame)
    BY <1>1 DEF TypeOK
  <2>2. Stream(wire[conn], expected, sent[conn], book, truth, feeds[conn], ids)
    BY <1>1 DEF SeqInv
  <2> QED BY <2>1, <2>2, StreamForgets
<1>2. conn # NoSocket /\ sock[conn] = "connecting" =>
        expected = 0 /\ \A t \in Tickers : book'[t].from # "current"
  BY DEF SeqInv
<1> QED BY <1>1, <1>2 DEF SeqInv

\* Books taken from the present connection belong to subscribed markets.
LEMMA CurrentSubscribed ==
  ASSUME TypeOK, SeqInv, conn # NoSocket, sock[conn] = "open", NEW t \in Tickers,
         book[t].from = "current"
  PROVE  t \in ids
  BY DEF SeqInv, Stream, Sourced

LEMMA SeqExchange ==
  ASSUME FeedAssumption, TypeOK, TypeOK', SeqInv, SafeInv,
         (\E t \in Tickers : BookMoves(t)) \/ (\E s \in Sockets : FrameLost(s))
  PROVE  SeqInv'
<1>0. conn # NoSocket => conn \in Sockets
  BY DEF TypeOK
<1>1. ASSUME NEW t \in Tickers, BookMoves(t) PROVE SeqInv'
  <2>1. UNCHANGED <<sock, feeds, conn, ids, expected, book>>
    BY <1>1 DEF BookMoves, shard, books
  <2>2. ASSUME conn # NoSocket, sock[conn] = "open"
        PROVE  Stream(wire'[conn], expected, sent'[conn], book, truth', feeds[conn], ids)
    BY <1>0, <1>1, <2>2, StreamMoves DEF SeqInv
  <2> QED BY <2>1, <2>2 DEF SeqInv
<1>2. ASSUME NEW s \in Sockets, FrameLost(s) PROVE SeqInv'
  <2>1. UNCHANGED <<truth, sock, feeds, sent, conn, ids, expected, book>>
    BY <1>2 DEF FrameLost, shard, books
  <2>2. ASSUME conn # NoSocket, sock[conn] = "open"
        PROVE  Stream(wire'[conn], expected, sent[conn], book, truth, feeds[conn], ids)
    <3>0. Stream(wire[conn], expected, sent[conn], book, truth, feeds[conn], ids)
      BY <2>2 DEF SeqInv
    <3>1. CASE conn # s
      BY <1>0, <1>2, <2>2, <3>0, <3>1 DEF FrameLost, TypeOK
    <3>2. CASE conn = s
      <4>1. wire[s] # <<>> /\ wire'[s] = Tail(wire[s]) /\ wire[s] \in Seq(Frame) /\ wire'[s] \in Seq(Frame)
        BY <1>2 DEF FrameLost, TypeOK
      <4>2. expected \in Nat /\ sent[s] \in Nat /\ book \in [Tickers -> Books]
        BY DEF TypeOK, Books
      <4> QED BY <3>0, <3>2, <4>1, <4>2, StreamLoses
    <3> QED BY <3>1, <3>2
  <2> QED BY <2>1, <2>2 DEF SeqInv
<1> QED BY <1>1, <1>2

LEMMA SeqConnection ==
  ASSUME FeedAssumption, TypeOK, TypeOK', SeqInv, SafeInv,
         TimerFires \/ Stop \/ \E s \in Sockets : Opens(s) \/ Closes(s)
  PROVE  SeqInv'
<1>1. CASE TimerFires
  <2>1. CASE \E r \in Sockets : ~Live(r) /\ OpenSocket(CHOOSE q \in Sockets : ~Live(q))
    <3>1. PICK r \in Sockets : OpenSocket(r)
      BY <2>1, Zenon
    <3>2. sock'[r] = "connecting" /\ conn' = r /\ expected' = 0
      BY <3>1 DEF OpenSocket, TypeOK
    <3>3. \A t \in Tickers : book'[t].from # "current"
      BY <3>1 DEF OpenSocket, TypeOK
    <3> QED BY <3>2, <3>3 DEF SeqInv
  <2>2. CASE ConnectThrows
    BY <2>2 DEF ConnectThrows, SeqInv
  <2> QED BY <1>1, <2>1, <2>2, Zenon DEF TimerFires
<1>2. CASE Stop
  BY <1>2 DEF Stop, SeqInv
<1>3. ASSUME NEW s \in Sockets, Closes(s) PROVE SeqInv'
  BY <1>3 DEF Closes, HandleClose, SeqInv
<1>4. ASSUME NEW s \in Sockets, Opens(s) PROVE SeqInv'
  <2>1. UNCHANGED <<truth, conn, ids, expected, book>> /\ sock[s] = "connecting"
        /\ sock' = [sock EXCEPT ![s] = "open"]
    BY <1>4 DEF Opens, shard, books
  <2>2. CASE conn = s
    <3>1. SendSubscribe(s, ids) /\ ids \in SUBSET Tickers
      BY <1>4, <2>2 DEF Opens, TypeOK
    <3>2. expected = 0 /\ \A t \in Tickers : book[t].from # "current"
      BY <2>1, <2>2 DEF SeqInv, FeedAssumption
    <3>3. wire[s] = <<>> /\ feeds[s] = {} /\ sent[s] = 0
      BY <2>1 DEF SafeInv, WireInv
    <3>4. Stream(wire[s], expected, sent[s], book, truth, feeds[s], ids)
      BY <3>2, <3>3, StreamStarts
    <3>5. Stream(wire'[s], expected, sent'[s], book, truth, feeds'[s], ids)
      BY <3>1, <3>4, StreamSubscribes
    <3>6. sock'[s] = "open"
      BY <2>1 DEF TypeOK
    <3> QED BY <2>1, <2>2, <3>5, <3>6 DEF SeqInv
  <2>3. CASE conn # s
    <3>1. UNCHANGED <<wire, feeds, sent>>
      BY <1>4, <2>3 DEF Opens
    <3>2. conn # NoSocket => sock'[conn] = sock[conn]
      BY <2>1, <2>3 DEF TypeOK
    <3> QED BY <2>1, <3>1, <3>2 DEF SeqInv
  <2> QED BY <2>2, <2>3
<1> QED BY <1>1, <1>2, <1>3, <1>4

LEMMA SeqDeliver ==
  ASSUME FeedAssumption, TypeOK, TypeOK', SeqInv, SafeInv, NEW s \in Sockets, Deliver(s)
  PROVE  SeqInv'
<1> DEFINE f == Head(wire[s])
<1>1. /\ wire[s] # <<>> /\ wire' = [wire EXCEPT ![s] = Tail(@)]
      /\ UNCHANGED <<truth, feeds, sent, conn, ids>>
  BY DEF Deliver
<1>2. sock[s] \in {"open", "closing"} /\ Live(s)
  BY <1>1, FramesMeanUp DEF SafeInv, Live
<1>3. CASE conn = NoSocket
  BY <1>1, <1>3 DEF SeqInv
<1>4. CASE conn # NoSocket
  <2>0. conn \in Sockets
    BY <1>4 DEF TypeOK
  <2>1. sock'[conn] = sock[conn] \/ sock'[conn] = "closing"
    BY <2>0 DEF Deliver, ResyncShard, CloseConn
  <2>2. sock'[conn] # "connecting"
    <3>1. sock[conn] = "connecting" => Live(conn) /\ conn # s
      BY <1>2 DEF Live
    <3> QED BY <1>2, <2>0, <2>1, <3>1 DEF SafeInv, LifeInv, OneSocket
  <2>3. ASSUME sock'[conn] = "open"
        PROVE  Stream(wire'[conn], expected', sent[conn], book', truth, feeds[conn], ids)
    <3>1. sock[conn] = "open"
      BY <2>1, <2>3
    <3>2. conn = s
      BY <1>2, <2>0, <3>1 DEF Live, SafeInv, LifeInv, OneSocket
    <3>3. InSequence(f) /\ expected' = f.seq + 1 /\ (ApplyFrame(f) \/ HandlerThrows(f))
      <4>1. ~ResyncShard
        BY <1>2, <2>0, <2>3, <3>2 DEF ResyncShard, CloseConn
      <4> QED BY <4>1, Zenon DEF Deliver
    <3>4. Stream(wire[s], expected, sent[s], book, truth, feeds[s], ids)
      BY <1>4, <3>1, <3>2 DEF SeqInv
    <3>5. wire[s] \in Seq(Frame) /\ wire'[s] \in Seq(Frame) /\ wire'[s] = Tail(wire[s]) /\ f = wire[s][1]
      BY <1>1 DEF TypeOK
    <3>6. expected \in Nat /\ sent[s] \in Nat /\ book \in [Tickers -> Books]
      BY DEF TypeOK, Books
    <3>7. Applied(f, book, book', ids) \/ Lapsed(f, book, book')
      BY <3>3 DEF ApplyFrame, HandlerThrows, Taken, BookWith, Applied, Lapsed
    <3>8. expected = 0 \/ f.seq = expected
      BY <3>3 DEF InSequence
    <3> HIDE DEF f
    <3>9. /\ Applied(wire[s][1], book, book', ids) \/ Lapsed(wire[s][1], book, book')
          /\ expected = 0 \/ wire[s][1].seq = expected
      BY <3>5, <3>7, <3>8
    <3>10. Stream(wire'[s], wire[s][1].seq + 1, sent[s], book', truth, feeds[s], ids)
      BY <1>1, <3>4, <3>5, <3>6, <3>9, StreamTakes
    <3> QED BY <3>2, <3>3, <3>5, <3>10
  <2> QED BY <1>1, <2>2, <2>3 DEF SeqInv
<1> QED BY <1>3, <1>4

LEMMA SeqCalls ==
  ASSUME FeedAssumption, TypeOK, TypeOK', SeqInv, SafeInv, NEW t \in Tickers,
         \/ Subscribe(t) \/ Unsubscribe(t)
         \/ CheckStarts(t) \/ CheckEnds(t) \/ CheckRepeats(t) \/ Reanchor(t)
  PROVE  SeqInv'
<1>0. (conn # NoSocket => conn \in Sockets) /\ book \in [Tickers -> Books]
  BY DEF TypeOK, Books
<1>1. CASE Subscribe(t)
  <2>1. UNCHANGED <<truth, sock, conn, expected, book>> /\ ids' = ids \cup {t}
    BY <1>1 DEF Subscribe, books
  <2>2. ASSUME conn # NoSocket, sock[conn] = "open"
        PROVE  Stream(wire'[conn], expected, sent'[conn], book, truth, feeds'[conn], ids')
    <3>1. SendSubscribe(conn, {t})
      BY <1>1, <2>2 DEF Subscribe, AssignToShard
    <3>2. Stream(wire[conn], expected, sent[conn], book, truth, feeds[conn], ids)
      BY <2>2 DEF SeqInv
    <3>3. {t} \in SUBSET Tickers /\ ids \subseteq ids'
      BY <2>1
    <3> QED BY <1>0, <2>2, <3>1, <3>2, <3>3, StreamSubscribes
  <2> QED BY <2>1, <2>2 DEF SeqInv
<1>2. CASE Unsubscribe(t)
  <2>1. UNCHANGED <<truth, wire, feeds, sent, sock, conn, expected>> /\ ids' = ids \ {t}
        /\ book' = [book EXCEPT ![t] = NoBook]
    BY <1>2 DEF Unsubscribe, DropBook, network
  <2>2. \A u \in Tickers : book'[u].from = "current" => u # t /\ book'[u] = book[u]
    BY <1>0, <2>1 DEF NoBook
  <2>3. CASE conn # NoSocket /\ sock[conn] = "open"
    <3>1. \A u \in Tickers : book'[u].from = "current" => book'[u] = book[u] /\ u \in ids'
      BY <2>1, <2>2, <2>3, CurrentSubscribed
    <3> QED BY <1>0, <2>1, <3>1, SeqStays
  <2>4. CASE ~(conn # NoSocket /\ sock[conn] = "open")
    <3>1. conn # NoSocket /\ sock[conn] = "connecting" => \A u \in Tickers : book'[u].from # "current"
      BY <2>2 DEF SeqInv
    <3> QED BY <2>1, <2>4, <3>1 DEF SeqInv
  <2> QED BY <2>3, <2>4
<1>3. CASE CheckStarts(t) \/ CheckEnds(t) \/ CheckRepeats(t)
  BY <1>3 DEF CheckStarts, CheckEnds, CheckRepeats, network, shard, books, SeqInv
<1>4. CASE Reanchor(t)
  <2>1. UNCHANGED <<truth, wire, feeds, sent, sock, conn, expected, ids>>
    BY <1>4 DEF Reanchor, network, shard
  <2>2. \A u \in Tickers : book'[u].from = "current" => book'[u] = book[u]
    BY <1>0, <1>4 DEF Reanchor, Snapshot, books
  <2>3. CASE conn # NoSocket /\ sock[conn] = "open"
    <3>1. \A u \in Tickers : book'[u].from = "current" => book'[u] = book[u] /\ u \in ids'
      BY <2>1, <2>2, <2>3, CurrentSubscribed
    <3> QED BY <1>0, <2>1, <3>1, SeqStays
  <2>4. CASE ~(conn # NoSocket /\ sock[conn] = "open")
    <3>1. conn # NoSocket /\ sock[conn] = "connecting" => \A u \in Tickers : book'[u].from # "current"
      BY <2>2 DEF SeqInv
    <3> QED BY <2>1, <2>4, <3>1 DEF SeqInv
  <2> QED BY <2>3, <2>4
<1> QED BY <1>1, <1>2, <1>3, <1>4

LEMMA SeqSafe ==
  ASSUME FeedAssumption, TypeOK, TypeOK', SeqInv, SafeInv, [Next]_vars
  PROVE  SeqInv'
<1>1. CASE UNCHANGED vars
  BY <1>1 DEF vars, network, shard, books, SeqInv
<1>2. CASE Next
  BY <1>2, SeqExchange, SeqConnection, SeqDeliver, SeqCalls DEF Next
<1> QED BY <1>1, <1>2

LEMMA InitSeq == FeedAssumption /\ Init => SeqInv
<1> SUFFICES ASSUME FeedAssumption, Init PROVE SeqInv
  OBVIOUS
<1>1. conn \in Sockets
  BY Zenon DEF Init, FeedAssumption
<1>2. sock[conn] = "connecting" /\ expected = 0 /\ \A t \in Tickers : book[t].from # "current"
  BY <1>1 DEF Init, NoBook
<1> QED BY <1>2 DEF SeqInv

-----------------------------------------------------------------------------
(* The theorems *)

IInv == TypeOK /\ SafeInv /\ SeqInv

LEMMA Inductive == FeedAssumption => (Spec => []IInv)
<1> SUFFICES ASSUME FeedAssumption PROVE Spec => []IInv
  OBVIOUS
<1>1. Init => IInv
  BY InitTyped, InitSafe, InitSeq DEF IInv
<1>2. IInv /\ [Next]_vars => IInv'
  <2> SUFFICES ASSUME IInv, [Next]_vars PROVE IInv'
    OBVIOUS
  <2> USE DEF IInv
  <2>1. TypeOK'
    BY NextTyped
  <2>2. WireInv' /\ SubInv' /\ FreshInv'
    BY WireSafe, SubSafe, FreshSafe
  <2>3. LifeInv'
    BY LifeSafe
  <2>4. SeqInv'
    BY <2>1, SeqSafe
  <2> QED BY <2>1, <2>2, <2>3, <2>4 DEF SafeInv
<1> QED BY <1>1, <1>2, PTL DEF Spec

\* Every variable keeps its type; sequence numbers and the baseline stay natural.
THEOREM TypeCorrect == FeedAssumption => (Spec => []TypeOK)
<1>1. IInv => TypeOK
  BY DEF IInv
<1> QED BY <1>1, Inductive, PTL

\* Reconnects by handleClose, resyncShard and a failed connect never add up to
\* a second socket.
THEOREM OneSocketOnly == FeedAssumption => (Spec => []OneSocket)
<1>1. IInv => OneSocket
  BY DEF IInv, SafeInv, LifeInv
<1> QED BY <1>1, Inductive, PTL

\* An id assigned at any moment of a connection's life is subscribed on it.
THEOREM OpenIsSubscribed == FeedAssumption => (Spec => []OpenMeansSubscribed)
<1>1. IInv => OpenMeansSubscribed
  BY DEF IInv, SafeInv, SubInv
<1> QED BY <1>1, Inductive, PTL

\* No quote stays fresh behind a closed socket.
THEOREM FreshQuotesFed == FeedAssumption => (Spec => []FreshMeansFed)
<1>1. IInv => FreshMeansFed
  BY DEF IInv, SafeInv, FreshInv
<1> QED BY <1>1, Inductive, PTL

\* The sequence check is enough: a book of an open connection is one the
\* exchange had, whatever frames were lost and whenever markets came and went,
\* as long as its handler threw on no frame it had counted.
THEOREM BooksExact == FeedAssumption => (Spec => []SequencedBooksExact)
<1>1. IInv => SequencedBooksExact
  BY DEF IInv, SeqInv, Stream, Sourced, SequencedBooksExact
<1> QED BY <1>1, Inductive, PTL
=============================================================================
