------------------------- MODULE PolymarketBookProofs -------------------------
(***************************************************************************)
(* TypeOK, PublishedRight and FreshMeansFed of PolymarketBook, for any      *)
(* assets, levels and bounds.                                              *)
(*                                                                         *)
(* PublishedRight rests on what is on the wire: a frame, an answer in hand  *)
(* and a founded book may lack changes of the exchange, and every change    *)
(* that they lack is on the wire behind them.                               *)
(***************************************************************************)
EXTENDS PolymarketBook, TLAPS

-----------------------------------------------------------------------------
(* Types.                                                                  *)

LEMMA EmptyIsBook == Empty \in Books
BY DEF Empty, Books

LEMMA OvertakenType ==
  ASSUME NEW a, NEW R \in SUBSET Requests
  PROVE  Overtaken(R, a) \subseteq Requests
BY DEF Overtaken, Requests

LEMMA AskedType ==
  ASSUME NEW a \in Assets PROVE Asked(a) \in Requests
BY EmptyIsBook DEF Asked, Requests

LEMMA HeadType ==
  ASSUME TypeOK, wire # <<>>
  PROVE  Head(wire) \in Frames /\ Tail(wire) \in Seq(Frames)
BY DEF TypeOK

LEMMA InitTypes == ASSUME Init PROVE TypeOK
BY BookAssumption, EmptyIsBook DEF Init, TypeOK

LEMMA MoveTypes ==
  ASSUME TypeOK, NEW a \in Assets, NEW l \in Levels, BookMoves(a, l)
  PROVE  TypeOK'
<1>1. truth' \in [Assets -> Books]
  BY DEF TypeOK, BookMoves, Books
<1>2. Change(a, l, truth'[a]) \in Frames
  BY <1>1 DEF Change, Frames
<1>3. wire' \in Seq(Frames)
  BY <1>2 DEF TypeOK, BookMoves
<1> QED
  BY <1>1, <1>3 DEF TypeOK, BookMoves, exchange, adapter, budget

LEMMA SentTypes ==
  ASSUME TypeOK, NEW a \in Assets, SnapshotSent(a)
  PROVE  TypeOK'
<1>1. BookFrame(a) \in Frames
  BY DEF TypeOK, BookFrame, Frames
<1>2. wire' \in Seq(Frames)
  BY <1>1 DEF TypeOK, SnapshotSent
<1> QED
  BY <1>2 DEF TypeOK, SnapshotSent, exchange, adapter, budget

LEMMA LostTypes == ASSUME TypeOK, FrameLost PROVE TypeOK'
<1>1. Head(wire) \in Frames /\ Tail(wire) \in Seq(Frames)
  BY HeadType DEF FrameLost
<1>2. Head(wire).asset \in Assets
  BY <1>1 DEF Frames
<1>3. rest' \subseteq Requests
  BY OvertakenType DEF TypeOK, FrameLost
<1>4. faults' \in 0..MaxFaults
  BY BookAssumption DEF TypeOK, FrameLost, Fault
<1> QED
  BY <1>1, <1>2, <1>3, <1>4 DEF TypeOK, FrameLost, exchange

LEMMA OpenTypes == ASSUME TypeOK, Opens PROVE TypeOK'
BY DEF TypeOK, Opens, SendSubscribe, adapter, budget

LEMMA CloseTypes == ASSUME TypeOK, Closes PROVE TypeOK'
<1>1. rest' \subseteq Requests
  BY DEF TypeOK, Closes, Requests
<1>2. faults' \in 0..MaxFaults
  BY BookAssumption DEF TypeOK, Closes, Fault
<1>3. wire' \in Seq(Frames)
  BY DEF Closes
<1> QED
  BY <1>1, <1>2, <1>3 DEF TypeOK, Closes, QuotesStale, ClearFlags

LEMMA SubscribeTypes ==
  ASSUME TypeOK, NEW a \in Assets, Subscribe(a)
  PROVE  TypeOK'
<1>1. feeds' \subseteq Assets /\ due' \subseteq feeds'
  BY DEF TypeOK, Subscribe, AssignToShard, SendSubscribe
<1>2. changes' \in 0..MaxChanges
  BY BookAssumption DEF TypeOK, Subscribe
<1> QED
  BY <1>1, <1>2 DEF TypeOK, Subscribe

LEMMA UnsubscribeTypes ==
  ASSUME TypeOK, NEW a \in Assets, Unsubscribe(a)
  PROVE  TypeOK'
<1>1. book' \in [Assets -> Books]
  BY EmptyIsBook DEF TypeOK, Unsubscribe, Forget
<1>2. changes' \in 0..MaxChanges
  BY BookAssumption DEF TypeOK, Unsubscribe
<1>3. streak' \in [Assets -> 0..(Streak - 1)]
  BY BookAssumption DEF TypeOK, Unsubscribe
<1> QED
  BY <1>1, <1>2, <1>3 DEF TypeOK, Unsubscribe, Forget, exchange

LEMMA TakeBookTypes ==
  ASSUME TypeOK, NEW a \in subs, NEW T \in Books, TakeBook(a, T),
         UNCHANGED <<subs, changes>>
  PROVE  /\ book' \in [Assets -> Books]
         /\ fresh' \subseteq received' /\ received' \subseteq subs'
         /\ streak' = streak
         /\ cooling' \subseteq Assets /\ owed' \subseteq subs'
         /\ rest' \subseteq Requests
         /\ astray' \subseteq Assets
         /\ faults' \in 0..MaxFaults
<1> a \in Assets
  BY DEF TypeOK
<1>1. Overtaken(rest, a) \subseteq Requests /\ Asked(a) \in Requests
  BY OvertakenType, AskedType DEF TypeOK
<1>2. rest' \subseteq Requests
  BY <1>1 DEF TakeBook
<1>3. book' \in [Assets -> Books]
  BY DEF TypeOK, TakeBook
<1>4. faults' \in 0..MaxFaults
  BY BookAssumption DEF TypeOK, TakeBook, Fault
<1> QED
  BY <1>2, <1>3, <1>4 DEF TypeOK, TakeBook

LEMMA TakeChangeTypes ==
  ASSUME TypeOK, NEW a \in received, NEW l \in Levels, NEW T \in Books,
         TakeChange(a, l, T), UNCHANGED <<subs, changes>>
  PROVE  /\ book' = [book EXCEPT ![a] = [@ EXCEPT ![l] = T[l]]]
         /\ book' \in [Assets -> Books]
         /\ fresh' \subseteq received'
         /\ received' = received /\ astray' = astray
         /\ streak' \in [Assets -> 0..(Streak - 1)]
         /\ cooling' \subseteq Assets /\ owed' \subseteq subs'
         /\ rest' \subseteq Requests
         /\ faults' = faults
<1> a \in Assets /\ a \in subs
  BY DEF TypeOK
<1>1. Overtaken(rest, a) \subseteq Requests /\ Asked(a) \in Requests
  BY OvertakenType, AskedType DEF TypeOK
<1> DEFINE new == [book[a] EXCEPT ![l] = T[l]]
<1>2. new \in Books
  BY DEF TypeOK, Books
<1>3. PICK crossed \in {FALSE, new # T}, run \in Streaks(a, new # T) :
        /\ book' = [book EXCEPT ![a] = new]
        /\ fresh' = IF crossed THEN fresh ELSE fresh \cup {a}
        /\ streak' = [streak EXCEPT ![a] = IF run >= Streak THEN 0 ELSE run]
        /\ IF (crossed \/ run >= Streak) /\ Resyncs(a)
           THEN /\ rest' = Overtaken(rest, a) \cup {Asked(a)}
                /\ cooling' = cooling \cup {a}
                /\ owed' = owed \cup {a}
           ELSE rest' = Overtaken(rest, a) /\ UNCHANGED <<cooling, owed>>
        /\ UNCHANGED <<received, astray, faults>>
  BY Zenon DEF TakeChange
<1> HIDE DEF new
<1>4. book' \in [Assets -> Books]
  BY <1>2, <1>3 DEF TypeOK
<1>5. run \in Nat
  BY <1>3 DEF TypeOK, Streaks
<1>6. streak' \in [Assets -> 0..(Streak - 1)]
  BY <1>3, <1>5, BookAssumption DEF TypeOK
<1>7. fresh' \subseteq received'
  BY <1>3 DEF TypeOK
<1>8. rest' \subseteq Requests /\ cooling' \subseteq Assets /\ owed' \subseteq subs'
  BY <1>1, <1>3 DEF TypeOK
<1>9. book' = [book EXCEPT ![a] = [@ EXCEPT ![l] = T[l]]]
  BY <1>3 DEF new
<1> QED
  BY <1>3, <1>4, <1>6, <1>7, <1>8, <1>9

LEMMA IgnoreTypes ==
  ASSUME TypeOK, NEW a, Ignore(a)
  PROVE  rest' \subseteq Requests
BY OvertakenType DEF TypeOK, Ignore

LEMMA DeliverTypes == ASSUME TypeOK, Deliver PROVE TypeOK'
<1> DEFINE f == Head(wire)
<1>1. f \in Frames /\ wire' \in Seq(Frames)
  BY HeadType DEF Deliver
<1>2. f.truth \in Books /\ \A l \in f.level : l \in Levels
  BY <1>1 DEF Frames
<1>3. UNCHANGED <<truth, conn, feeds, due, subs, changes>>
  BY DEF Deliver, exchange
<1> HIDE DEF f
<1>4. CASE f.asset \in subs /\ f.kind = "book"
  <2>1. TakeBook(f.asset, f.truth)
    BY <1>4 DEF Deliver, f
  <2> QED
    BY <1>1, <1>2, <1>3, <1>4, <2>1, TakeBookTypes DEF TypeOK
<1>5. CASE f.asset \in subs /\ f.kind # "book" /\ f.asset \in received
  <2>1. PICK l \in f.level : TakeChange(f.asset, l, f.truth)
    BY <1>5 DEF Deliver, f
  <2>2. l \in Levels /\ f.truth \in Books /\ f.asset \in received
    BY <1>2, <1>5
  <2>3. /\ book' \in [Assets -> Books]
        /\ fresh' \subseteq received'
        /\ received' = received /\ astray' = astray
        /\ streak' \in [Assets -> 0..(Streak - 1)]
        /\ cooling' \subseteq Assets /\ owed' \subseteq subs'
        /\ rest' \subseteq Requests
        /\ faults' = faults
    BY <1>3, <2>1, <2>2, TakeChangeTypes
  <2> QED
    BY <1>1, <1>3, <2>3 DEF TypeOK
<1>6. CASE f.asset \notin subs \/ (f.kind # "book" /\ f.asset \notin received)
  <2>1. Ignore(f.asset)
    BY <1>6 DEF Deliver, f
  <2> QED
    BY <1>1, <1>3, <2>1, IgnoreTypes DEF TypeOK, Ignore
<1> QED
  BY <1>4, <1>5, <1>6

LEMMA ReadTypes ==
  ASSUME TypeOK, NEW r \in rest, RestReads(r)
  PROVE  TypeOK'
<1>1. r \in Requests
  BY DEF TypeOK
<1>2. truth[r.asset] \in Books
  BY <1>1 DEF TypeOK, Requests
<1> DEFINE new == [r EXCEPT !.read = TRUE, !.book = truth[r.asset],
                            !.sure = r.asset \in feeds]
<1>3. new \in Requests
  <2> DEFINE sure == r.asset \in feeds
  <2>1. sure \in BOOLEAN /\ new = [r EXCEPT !.read = TRUE, !.book = truth[r.asset],
                                         !.sure = sure]
    OBVIOUS
  <2> HIDE DEF new, sure
  <2> QED BY <1>1, <1>2, <2>1 DEF Requests
<1>. rest' = (rest \ {r}) \cup {new}
  BY DEF RestReads
<1> HIDE DEF new
<1>4. rest' \subseteq Requests
  BY <1>3 DEF TypeOK
<1> QED
  BY <1>4 DEF TypeOK, RestReads, exchange, adapter, budget

LEMMA AnswerTypes ==
  ASSUME TypeOK, NEW r \in rest, RestAnswers(r)
  PROVE  TypeOK'
<1>1. r \in Requests
  BY DEF TypeOK
<1>2. r.asset \in Assets /\ r.book \in Books
  BY <1>1 DEF Requests
<1>3. book' \in [Assets -> Books]
  BY <1>2 DEF TypeOK, RestAnswers
<1>4. astray' \subseteq Assets
  BY <1>2 DEF TypeOK, RestAnswers
<1> QED
  BY <1>2, <1>3, <1>4 DEF TypeOK, RestAnswers, exchange, budget

LEMMA FailTypes ==
  ASSUME TypeOK, NEW r \in rest, RestFails(r)
  PROVE  TypeOK'
<1>1. feeds' \subseteq Assets /\ due' \subseteq feeds'
  BY DEF TypeOK, RestFails, WsResubscribe, SendSubscribe
<1> QED
  BY <1>1 DEF TypeOK, RestFails, adapter, budget

LEMMA CoolTypes ==
  ASSUME TypeOK, NEW a \in Assets, CoolsDown(a)
  PROVE  TypeOK'
BY DEF TypeOK, CoolsDown, exchange, adapter, budget

LEMMA StutterTypes == ASSUME TypeOK, UNCHANGED vars PROVE TypeOK'
BY DEF TypeOK, vars, exchange, adapter, budget

LEMMA NextTypes == ASSUME TypeOK, [Next]_vars PROVE TypeOK'
<1>1. CASE FrameLost BY <1>1, LostTypes
<1>2. CASE Opens BY <1>2, OpenTypes
<1>3. CASE Closes BY <1>3, CloseTypes
<1>4. CASE Deliver BY <1>4, DeliverTypes
<1>5. ASSUME NEW a \in Assets, AssetStep(a) PROVE TypeOK'
  <2>1. ASSUME NEW l \in Levels, BookMoves(a, l) PROVE TypeOK' BY <2>1, MoveTypes
  <2>2. CASE SnapshotSent(a) BY <2>2, SentTypes
  <2>3. CASE Subscribe(a) BY <2>3, SubscribeTypes
  <2>4. CASE Unsubscribe(a) BY <2>4, UnsubscribeTypes
  <2>5. CASE RestEnds(a) BY <2>5, ReadTypes, AnswerTypes, FailTypes DEF RestEnds
  <2>6. CASE CoolsDown(a) BY <2>6, CoolTypes
  <2> QED BY <1>5, <2>1, <2>2, <2>3, <2>4, <2>5, <2>6 DEF AssetStep
<1>6. CASE UNCHANGED vars BY <1>6, StutterTypes
<1> QED BY <1>1, <1>2, <1>3, <1>4, <1>5, <1>6 DEF Next

\* The variables keep their types: books have a version for every level, fresh
\* quotes have a founded book, founded books a subscription.
THEOREM TypeCorrect == Spec => []TypeOK
<1>1. Init => TypeOK BY InitTypes
<1>2. TypeOK /\ [Next]_vars => TypeOK' BY NextTypes
<1> QED BY <1>1, <1>2, PTL DEF Spec

-----------------------------------------------------------------------------
(* The inductive invariant: what is read from the exchange and what it still *)
(* lacks.  Has and Complete depend on no variable: a step is the change of   *)
(* their arguments.                                                         *)

\* Behind place n of w a change sets level l of asset a to v.
Has(w, n, a, l, v) ==
  \E q \in DOMAIN w :
    /\ q > n /\ w[q].kind = "price_change" /\ w[q].asset = a
    /\ l \in w[q].level /\ w[q].truth[l] = v

\* What the book b of a lacks of T is behind place n of w.
Complete(w, n, a, b, T) == \A l \in Levels : b[l] = T[l] \/ Has(w, n, a, l, T[l])

\* A socket that is down feeds nothing.
Down == conn = "down" => wire = <<>> /\ feeds = {}

\* Frames are of assets that are fed, and later ones complete them.
WireInv ==
  \A p \in DOMAIN wire :
    /\ wire[p].asset \in feeds
    /\ Complete(wire, p, wire[p].asset, wire[p].truth, truth[wire[p].asset])

\* An answer that has not been overtaken is completed by the wire.
RestInv ==
  \A r \in rest :
    r.sure => r.asset \in feeds /\ Complete(wire, 0, r.asset, r.book, truth[r.asset])

\* So is a founded book that has not gone astray.
BookInv ==
  \A a \in received \ astray : a \in feeds /\ Complete(wire, 0, a, book[a], truth[a])

SafeInv == Down /\ WireInv /\ RestInv /\ BookInv

IInv == TypeOK /\ SafeInv

LEMMA AppendHas ==
  ASSUME NEW S, NEW w \in Seq(S), NEW f, NEW n, NEW a, NEW l, NEW v, Has(w, n, a, l, v)
  PROVE  Has(Append(w, f), n, a, l, v)
<1>1. PICK q \in DOMAIN w :
        /\ q > n /\ w[q].kind = "price_change" /\ w[q].asset = a
        /\ l \in w[q].level /\ w[q].truth[l] = v
  BY DEF Has
<1>2. q \in DOMAIN Append(w, f) /\ Append(w, f)[q] = w[q]
  OBVIOUS
<1> QED BY <1>1, <1>2 DEF Has

LEMMA AppendComplete ==
  ASSUME NEW S, NEW w \in Seq(S), NEW f, NEW n, NEW a, NEW b, NEW T,
         Complete(w, n, a, b, T)
  PROVE  Complete(Append(w, f), n, a, b, T)
BY AppendHas DEF Complete

\* A change that is sent completes what it makes out of date.
LEMMA MoveComplete ==
  ASSUME NEW S, NEW w \in Seq(S), NEW n \in Nat, n =< Len(w), NEW a, NEW l \in Levels,
         NEW b, NEW T, NEW U, \A k \in Levels \ {l} : U[k] = T[k],
         Complete(w, n, a, b, T)
  PROVE  Complete(Append(w, Change(a, l, U)), n, a, b, U)
<1> DEFINE f == Change(a, l, U)
<1>1. Has(Append(w, f), n, a, l, U[l])
  <2>1. /\ Len(w) + 1 \in DOMAIN Append(w, f) /\ Append(w, f)[Len(w) + 1] = f
        /\ Len(w) + 1 > n
    OBVIOUS
  <2>2. f.kind = "price_change" /\ f.asset = a /\ l \in f.level /\ f.truth[l] = U[l]
    BY DEF Change
  <2> HIDE DEF f
  <2> QED BY <2>1, <2>2 DEF Has
<1>2. ASSUME NEW k \in Levels \ {l}
      PROVE  b[k] = U[k] \/ Has(Append(w, f), n, a, k, U[k])
  BY <1>2, AppendHas DEF Complete
<1> HIDE DEF f
<1>3. Complete(Append(w, f), n, a, b, U)
  BY <1>1, <1>2 DEF Complete
<1> QED BY <1>3 DEF f

LEMMA TailHas ==
  ASSUME NEW S, NEW w \in Seq(S), w # <<>>, NEW n \in Nat, NEW a, NEW l, NEW v,
         Has(w, n, a, l, v),
         n = 0 => Head(w).asset # a \/ l \notin Head(w).level
  PROVE  Has(Tail(w), IF n = 0 THEN 0 ELSE n - 1, a, l, v)
<1> DEFINE m == IF n = 0 THEN 0 ELSE n - 1
<1>1. PICK q \in DOMAIN w :
        /\ q > n /\ w[q].kind = "price_change" /\ w[q].asset = a
        /\ l \in w[q].level /\ w[q].truth[l] = v
  BY DEF Has
<1>2. q \in Nat /\ q # 1
  BY <1>1
<1>3. q - 1 \in DOMAIN Tail(w) /\ Tail(w)[q - 1] = w[q] /\ q - 1 > m
  BY <1>1, <1>2
<1> HIDE DEF m
<1>4. Has(Tail(w), m, a, l, v)
  BY <1>1, <1>3 DEF Has
<1> QED BY <1>4 DEF m

LEMMA TailComplete ==
  ASSUME NEW S, NEW w \in Seq(S), w # <<>>, NEW n \in Nat \ {0}, NEW a, NEW b, NEW T,
         Complete(w, n, a, b, T)
  PROVE  Complete(Tail(w), n - 1, a, b, T)
BY TailHas DEF Complete

LEMMA TailOther ==
  ASSUME NEW S, NEW w \in Seq(S), w # <<>>, NEW a, NEW b, NEW T, Head(w).asset # a,
         Complete(w, 0, a, b, T)
  PROVE  Complete(Tail(w), 0, a, b, T)
BY TailHas DEF Complete

-----------------------------------------------------------------------------
(* Steps.                                                                  *)

LEMMA InitSafe == ASSUME Init PROVE SafeInv
BY DEF Init, SafeInv, Down, WireInv, RestInv, BookInv

\* More is fed, and nothing is sent or read.
LEMMA FeedSafe ==
  ASSUME IInv, UNCHANGED <<truth, wire>>, feeds \subseteq feeds', rest' \subseteq rest,
         conn' = "down" => conn = "down" /\ feeds' = feeds,
         \A a \in received' \ astray' : a \in received \ astray /\ book'[a] = book[a]
  PROVE  SafeInv'
<1>1. Down'
  BY DEF IInv, SafeInv, Down
<1>2. WireInv'
  BY DEF IInv, SafeInv, WireInv
<1>3. RestInv'
  BY DEF IInv, SafeInv, RestInv
<1>4. BookInv'
  BY DEF IInv, SafeInv, BookInv
<1> QED BY <1>1, <1>2, <1>3, <1>4 DEF SafeInv

LEMMA MoveSafe ==
  ASSUME IInv, NEW a \in Assets, NEW l \in Levels, BookMoves(a, l)
  PROVE  SafeInv'
<1> DEFINE U == truth'[a]
<1>1. \A k \in Levels \ {l} : U[k] = truth[a][k]
  BY DEF IInv, TypeOK, Books, BookMoves
<1>2. \A c \in Assets \ {a} : truth'[c] = truth[c]
  BY DEF IInv, TypeOK, BookMoves
<1>3. wire \in Seq(Frames) /\ \A p \in DOMAIN wire : wire[p].asset \in Assets
  <2>1. wire \in Seq(Frames)
    BY DEF IInv, TypeOK
  <2>2. \A p \in DOMAIN wire : wire[p] \in Frames
    BY <2>1
  <2> QED BY <2>1, <2>2 DEF Frames
<1>4. UNCHANGED <<conn, feeds, rest, received, astray, book>>
  BY DEF BookMoves, adapter
<1>5. CASE a \in feeds
  <2>1. wire' = Append(wire, Change(a, l, U))
    BY <1>5 DEF BookMoves
  <2> HIDE DEF U
  <2>2. ASSUME NEW n \in 0..Len(wire), NEW c \in Assets, NEW b,
               Complete(wire, n, c, b, truth[c])
        PROVE  Complete(wire', n, c, b, truth'[c])
    <3>1. CASE c = a
      <4>1. n \in Nat /\ n =< Len(wire) /\ Complete(wire, n, a, b, truth[a])
        BY <2>2, <3>1, <1>3
      <4>2. Complete(Append(wire, Change(a, l, U)), n, a, b, U)
        BY <4>1, <1>1, <1>3, MoveComplete
      <4> QED BY <4>2, <3>1, <2>1 DEF U
    <3>2. CASE c # a
      BY <2>2, <3>2, <1>2, <1>3, <2>1, AppendComplete
    <3> QED BY <3>1, <3>2
  <2>3. Down'
    BY <1>4, <1>5 DEF IInv, SafeInv, Down
  <2>4. WireInv'
    <3> SUFFICES ASSUME NEW p \in DOMAIN wire'
                 PROVE  /\ wire'[p].asset \in feeds
                        /\ Complete(wire', p, wire'[p].asset, wire'[p].truth,
                                    truth'[wire'[p].asset])
      BY <1>4 DEF WireInv
    <3>1. CASE p = Len(wire) + 1
      <4>1. wire'[p].asset = a /\ wire'[p].truth = U
        BY <3>1, <2>1, <1>3 DEF Change
      <4> QED BY <4>1, <1>5 DEF Complete, U
    <3>2. CASE p \in DOMAIN wire
      <4>1. wire'[p] = wire[p] /\ p \in 0..Len(wire)
        BY <3>2, <2>1, <1>3
      <4>2. /\ wire[p].asset \in feeds /\ wire[p].asset \in Assets
            /\ Complete(wire, p, wire[p].asset, wire[p].truth, truth[wire[p].asset])
        BY <3>2, <1>3 DEF IInv, SafeInv, WireInv
      <4> QED BY <4>1, <4>2, <2>2
    <3> QED BY <3>1, <3>2, <2>1, <1>3
  <2>5. RestInv'
    <3> SUFFICES ASSUME NEW r \in rest, r.sure
                 PROVE  /\ r.asset \in feeds
                        /\ Complete(wire', 0, r.asset, r.book, truth'[r.asset])
      BY <1>4 DEF RestInv
    <3>1. /\ r.asset \in feeds /\ r.asset \in Assets
          /\ Complete(wire, 0, r.asset, r.book, truth[r.asset])
      BY DEF IInv, SafeInv, RestInv, TypeOK
    <3> QED BY <3>1, <2>2, <1>3
  <2>6. BookInv'
    <3> SUFFICES ASSUME NEW c \in received \ astray
                 PROVE  c \in feeds /\ Complete(wire', 0, c, book[c], truth'[c])
      BY <1>4 DEF BookInv
    <3>1. c \in feeds /\ c \in Assets /\ Complete(wire, 0, c, book[c], truth[c])
      BY DEF IInv, SafeInv, BookInv, TypeOK
    <3> QED BY <3>1, <2>2, <1>3
  <2> QED BY <2>3, <2>4, <2>5, <2>6 DEF SafeInv
<1>6. CASE a \notin feeds
  <2>1. wire' = wire /\ \A c \in feeds : c \in Assets /\ truth'[c] = truth[c]
    BY <1>2, <1>6 DEF BookMoves, IInv, TypeOK
  <2>2. Down'
    BY <1>4, <2>1 DEF IInv, SafeInv, Down
  <2>3. WireInv'
    BY <1>4, <2>1 DEF IInv, SafeInv, WireInv
  <2>4. RestInv'
    BY <1>4, <2>1 DEF IInv, SafeInv, RestInv
  <2>5. BookInv'
    BY <1>4, <2>1 DEF IInv, SafeInv, BookInv
  <2> QED BY <2>2, <2>3, <2>4, <2>5 DEF SafeInv
<1> QED BY <1>5, <1>6

LEMMA SentSafe ==
  ASSUME IInv, NEW a \in Assets, SnapshotSent(a)
  PROVE  SafeInv'
<1>1. wire' = Append(wire, BookFrame(a)) /\ wire \in Seq(Frames) /\ a \in feeds
  BY DEF SnapshotSent, IInv, TypeOK
<1>2. UNCHANGED <<truth, conn, feeds, rest, received, astray, book>>
  BY DEF SnapshotSent, exchange, adapter
<1>3. \A n, c, b, T : Complete(wire, n, c, b, T) => Complete(wire', n, c, b, T)
  BY <1>1, AppendComplete
<1>4. Down'
  BY <1>1, <1>2 DEF IInv, SafeInv, Down
<1>5. WireInv'
  <2> SUFFICES ASSUME NEW p \in DOMAIN wire'
               PROVE  /\ wire'[p].asset \in feeds
                      /\ Complete(wire', p, wire'[p].asset, wire'[p].truth,
                                  truth[wire'[p].asset])
    BY <1>2 DEF WireInv
  <2>1. CASE p = Len(wire) + 1
    <3>1. wire'[p].asset = a /\ wire'[p].truth = truth[a]
      BY <2>1, <1>1 DEF BookFrame
    <3> QED BY <3>1, <1>1 DEF Complete
  <2>2. CASE p \in DOMAIN wire
    <3>1. wire'[p] = wire[p]
      BY <2>2, <1>1
    <3> QED BY <3>1, <2>2, <1>3 DEF IInv, SafeInv, WireInv
  <2> QED BY <2>1, <2>2, <1>1
<1>6. RestInv'
  BY <1>2, <1>3 DEF IInv, SafeInv, RestInv
<1>7. BookInv'
  BY <1>2, <1>3 DEF IInv, SafeInv, BookInv
<1> QED BY <1>4, <1>5, <1>6, <1>7 DEF SafeInv

LEMMA CloseSafe == ASSUME IInv, Closes PROVE SafeInv'
<1>1. wire' = <<>> /\ feeds' = {} /\ received' = {}
  BY DEF Closes, ClearFlags, IInv, TypeOK
<1>2. \A r \in rest' : ~r.sure
  BY DEF Closes, IInv, TypeOK, Requests
<1>3. Down' /\ WireInv'
  BY <1>1 DEF Down, WireInv
<1>4. RestInv' /\ BookInv'
  BY <1>1, <1>2 DEF RestInv, BookInv
<1> QED BY <1>3, <1>4 DEF SafeInv

\* The head of the wire is gone: what is behind it is still complete.
LEMMA DropWire ==
  ASSUME IInv, wire # <<>>, wire' = Tail(wire), UNCHANGED <<truth, feeds, conn>>
  PROVE  Down' /\ WireInv'
<1>1. wire \in Seq(Frames)
  BY DEF IInv, TypeOK
<1>2. Down'
  BY DEF IInv, SafeInv, Down
<1>3. WireInv'
  <2> SUFFICES ASSUME NEW p \in DOMAIN wire'
               PROVE  /\ wire'[p].asset \in feeds
                      /\ Complete(wire', p, wire'[p].asset, wire'[p].truth,
                                  truth[wire'[p].asset])
    BY DEF WireInv
  <2>1. p + 1 \in DOMAIN wire /\ wire'[p] = wire[p + 1] /\ p + 1 \in Nat \ {0}
    BY <1>1
  <2>2. /\ wire[p + 1].asset \in feeds
        /\ Complete(wire, p + 1, wire[p + 1].asset, wire[p + 1].truth,
                    truth[wire[p + 1].asset])
    BY <2>1 DEF IInv, SafeInv, WireInv
  <2> DEFINE n == p + 1
  <2>3. n - 1 = p
    BY <2>1
  <2> HIDE DEF n
  <2>4. Complete(wire', n - 1, wire[n].asset, wire[n].truth, truth[wire[n].asset])
    BY <2>1, <2>2, <1>1, TailComplete DEF n
  <2> QED BY <2>1, <2>2, <2>3, <2>4 DEF n
<1> QED BY <1>2, <1>3

\* An answer of the asset is overtaken, the others are still complete.
LEMMA DropRest ==
  ASSUME IInv, wire # <<>>, wire' = Tail(wire), UNCHANGED <<truth, feeds>>,
         NEW x, rest' \subseteq Overtaken(rest, Head(wire).asset) \cup {Asked(x)}
  PROVE  RestInv'
<1> DEFINE a == Head(wire).asset
<1>1. wire \in Seq(Frames) /\ rest \subseteq Requests
  BY DEF IInv, TypeOK
<1>2. ASSUME NEW r \in rest', r.sure PROVE r \in rest /\ r.asset # a
  <2>1. r # Asked(x)
    BY <1>2 DEF Asked
  <2>2. PICK s \in rest : r = IF s.asset = a THEN [s EXCEPT !.sure = FALSE] ELSE s
    BY <2>1 DEF Overtaken
  <2>3. s \in Requests
    BY <1>1
  <2>4. s.asset # a
    BY <1>2, <2>2, <2>3 DEF Requests
  <2> QED BY <2>2, <2>4
<1> SUFFICES ASSUME NEW r \in rest', r.sure
             PROVE  r.asset \in feeds /\ Complete(wire', 0, r.asset, r.book, truth[r.asset])
  BY DEF RestInv
<1>3. r \in rest /\ r.asset # a
  BY <1>2
<1>4. r.asset \in feeds /\ Complete(wire, 0, r.asset, r.book, truth[r.asset])
  BY <1>3 DEF IInv, SafeInv, RestInv
<1> QED BY <1>1, <1>3, <1>4, TailOther

LEMMA DropBooks ==
  ASSUME IInv, wire # <<>>, wire' = Tail(wire), UNCHANGED <<truth, feeds>>,
         NEW c \in received \ astray, c # Head(wire).asset
  PROVE  c \in feeds /\ Complete(wire', 0, c, book[c], truth'[c])
<1>1. wire \in Seq(Frames)
  BY DEF IInv, TypeOK
<1>2. c \in feeds /\ Complete(wire, 0, c, book[c], truth[c])
  BY DEF IInv, SafeInv, BookInv
<1> QED BY <1>1, <1>2, TailOther

LEMMA LostSafe == ASSUME IInv, FrameLost PROVE SafeInv'
<1>1. Down' /\ WireInv'
  BY DropWire DEF FrameLost, exchange
<1>2. RestInv'
  BY DropRest DEF FrameLost, exchange
<1>3. BookInv'
  BY DropBooks DEF FrameLost, exchange, BookInv
<1> QED BY <1>1, <1>2, <1>3 DEF SafeInv

\* The head of the wire is read: it lacks only what is behind it.
LEMMA HeadComplete ==
  ASSUME IInv, wire # <<>>, wire' = Tail(wire)
  PROVE  /\ Head(wire).asset \in feeds
         /\ Complete(wire', 0, Head(wire).asset, Head(wire).truth, truth[Head(wire).asset])
<1>1. wire \in Seq(Frames) /\ 1 \in DOMAIN wire /\ Head(wire) = wire[1]
  BY DEF IInv, TypeOK
<1>2. /\ wire[1].asset \in feeds
      /\ Complete(wire, 1, wire[1].asset, wire[1].truth, truth[wire[1].asset])
  BY <1>1 DEF IInv, SafeInv, WireInv
<1> DEFINE one == 1
<1>3. one \in Nat \ {0} /\ one - 1 = 0
  OBVIOUS
<1> HIDE DEF one
<1>4. Complete(wire', one - 1, wire[1].asset, wire[1].truth, truth[wire[1].asset])
  BY <1>1, <1>2, <1>3, TailComplete DEF one
<1> QED BY <1>1, <1>2, <1>3, <1>4

\* A change takes the book of its asset past the head of the wire.
LEMMA ChangeComplete ==
  ASSUME IInv, wire # <<>>, wire' = Tail(wire),
         NEW a \in received \ astray, a = Head(wire).asset,
         NEW l \in Levels, l \in Head(wire).level
  PROVE  Complete(wire', 0, a, [book[a] EXCEPT ![l] = Head(wire).truth[l]], truth[a])
<1> DEFINE b == [book[a] EXCEPT ![l] = Head(wire).truth[l]]
<1>1. wire \in Seq(Frames) /\ Head(wire) \in Frames /\ book[a] \in Books
  BY HeadType DEF IInv, TypeOK
<1>2. Complete(wire', 0, a, Head(wire).truth, truth[a])
  BY HeadComplete
<1>3. Complete(wire, 0, a, book[a], truth[a])
  BY DEF IInv, SafeInv, BookInv
<1>4. \A k \in Levels : b[k] = IF k = l THEN Head(wire).truth[l] ELSE book[a][k]
  BY <1>1 DEF Books
<1>5. Head(wire).level = {l}
  BY <1>1 DEF Frames
<1> HIDE DEF b
<1>6. ASSUME NEW k \in Levels PROVE b[k] = truth[a][k] \/ Has(wire', 0, a, k, truth[a][k])
  <2>1. CASE k = l
    BY <2>1, <1>2, <1>4 DEF Complete
  <2>2. CASE k # l /\ b[k] # truth[a][k]
    <3>1. Has(wire, 0, a, k, truth[a][k])
      BY <2>2, <1>3, <1>4 DEF Complete
    <3>2. k \notin Head(wire).level
      BY <2>2, <1>5
    <3> QED BY <3>1, <3>2, <1>1, TailHas
  <2> QED BY <2>1, <2>2
<1>7. Complete(wire', 0, a, b, truth[a])
  BY <1>6 DEF Complete
<1> QED BY <1>7 DEF b

LEMMA DeliverSafe == ASSUME IInv, Deliver PROVE SafeInv'
<1> DEFINE f == Head(wire)
<1>1. /\ f \in Frames /\ \A l \in f.level : l \in Levels
      /\ wire # <<>> /\ wire' = Tail(wire)
  <2>1. f \in Frames /\ wire # <<>> /\ wire' = Tail(wire)
    BY HeadType DEF Deliver, IInv
  <2> QED BY <2>1 DEF Frames
<1>2. UNCHANGED <<truth, conn, feeds, subs>>
  BY DEF Deliver, exchange
<1>3. Down' /\ WireInv'
  BY <1>1, <1>2, DropWire
<1>4. f.asset \in feeds /\ Complete(wire', 0, f.asset, f.truth, truth[f.asset])
  BY <1>1, HeadComplete
<1>5. received \subseteq subs /\ received \subseteq Assets /\ book \in [Assets -> Books]
  BY DEF IInv, TypeOK
<1>6. ASSUME NEW c \in received \ astray, c # f.asset
      PROVE  c \in feeds /\ Complete(wire', 0, c, book[c], truth[c])
  BY <1>1, <1>2, <1>6, DropBooks
<1>7. ASSUME rest' \subseteq Overtaken(rest, f.asset) \cup {Asked(f.asset)}
      PROVE  RestInv'
  BY <1>1, <1>2, <1>7, DropRest
<1>8. CASE f.asset \in subs /\ f.kind = "book"
  <2> DEFINE a == f.asset  T == f.truth
  <2>1. TakeBook(a, T)
    BY <1>8 DEF Deliver
  <2>2. rest' \subseteq Overtaken(rest, a) \cup {Asked(a)}
    BY <2>1 DEF TakeBook
  <2>3. /\ received' \subseteq received \cup {a} /\ astray' = astray \ {a}
        /\ \A c \in Assets : book'[c] = IF c = a THEN T ELSE book[c]
    BY <1>5, <2>1 DEF TakeBook
  <2>4. a \in Assets
    BY <1>8 DEF IInv, TypeOK
  <2>5. BookInv'
    BY <1>2, <1>4, <1>5, <1>6, <2>3, <2>4 DEF BookInv
  <2> QED BY <1>3, <1>7, <2>2, <2>5 DEF SafeInv
<1>9. CASE f.asset \in received /\ f.asset \in subs /\ f.kind # "book"
  <2> DEFINE a == f.asset
  <2>1. PICK l \in f.level : TakeChange(a, l, f.truth)
    BY <1>9 DEF Deliver
  <2>2. l \in Levels /\ f.truth \in Books
    BY <1>1 DEF Frames
  <2>3. /\ rest' \subseteq Overtaken(rest, a) \cup {Asked(a)}
        /\ received' = received /\ astray' = astray
        /\ book' = [book EXCEPT ![a] = [book[a] EXCEPT ![l] = f.truth[l]]]
    BY <2>1, Zenon DEF TakeChange
  <2>4. \A c \in Assets :
          book'[c] = IF c = a THEN [book[a] EXCEPT ![l] = f.truth[l]] ELSE book[c]
    BY <1>5, <2>3
  <2>5. a \notin astray =>
          Complete(wire', 0, a, [book[a] EXCEPT ![l] = f.truth[l]], truth[a])
    BY <1>1, <1>9, <2>1, <2>2, ChangeComplete
  <2>6. BookInv'
    <3> SUFFICES ASSUME NEW c \in received \ astray
                 PROVE  c \in feeds /\ Complete(wire', 0, c, book'[c], truth[c])
      BY <1>2, <2>3 DEF BookInv
    <3>1. CASE c = a
      BY <1>4, <1>5, <2>4, <2>5, <3>1
    <3>2. CASE c # a
      BY <1>5, <1>6, <2>4, <3>2
    <3> QED BY <3>1, <3>2
  <2> QED BY <1>3, <1>7, <2>3, <2>6 DEF SafeInv
<1>10. CASE f.asset \notin subs \/ (f.kind # "book" /\ f.asset \notin received)
  <2>1. Ignore(f.asset)
    BY <1>10 DEF Deliver
  <2>2. rest' = Overtaken(rest, f.asset) /\ UNCHANGED <<book, received, astray>>
    BY <2>1 DEF Ignore
  <2>3. \A c \in received \ astray : c # f.asset \/ (f.kind = "book" /\ f.asset \in subs)
    BY <1>5, <1>10
  <2>4. BookInv'
    BY <1>2, <1>5, <1>6, <1>10, <2>2 DEF BookInv
  <2> QED BY <1>3, <1>7, <2>2, <2>4 DEF SafeInv
<1> QED BY <1>8, <1>9, <1>10

\* The server's book is complete when it is read, and the wire stays behind it.
LEMMA ReadSafe ==
  ASSUME IInv, NEW r \in rest, RestReads(r)
  PROVE  SafeInv'
<1> DEFINE new == [r EXCEPT !.read = TRUE, !.book = truth[r.asset],
                            !.sure = r.asset \in feeds]
<1>1. UNCHANGED <<truth, conn, feeds, wire, book, received, astray>>
  BY DEF RestReads, exchange, adapter
<1>2. r \in Requests
  BY DEF IInv, TypeOK
<1>3. new.asset = r.asset /\ new.book = truth[r.asset] /\ (new.sure => r.asset \in feeds)
  BY <1>2 DEF Requests
<1>4. rest' = (rest \ {r}) \cup {new}
  BY DEF RestReads
<1> HIDE DEF new
<1>5. new.sure => Complete(wire, 0, new.asset, new.book, truth[new.asset])
  BY <1>3 DEF Complete
<1>6. RestInv'
  BY <1>1, <1>3, <1>4, <1>5 DEF IInv, SafeInv, RestInv
<1> QED BY <1>1, <1>6 DEF IInv, SafeInv, Down, WireInv, BookInv

LEMMA AnswerSafe ==
  ASSUME IInv, NEW r \in rest, RestAnswers(r)
  PROVE  SafeInv'
<1>1. UNCHANGED <<truth, conn, feeds, wire>> /\ rest' \subseteq rest
  BY DEF RestAnswers, exchange
<1>2. /\ received' = received \cup {r.asset}
      /\ astray' = IF r.sure THEN astray \ {r.asset} ELSE astray \cup {r.asset}
      /\ \A c \in received' : book'[c] = IF c = r.asset THEN r.book ELSE book[c]
  BY DEF RestAnswers, IInv, TypeOK
<1>3. r.sure => r.asset \in feeds /\ Complete(wire, 0, r.asset, r.book, truth[r.asset])
  BY DEF IInv, SafeInv, RestInv
<1>4. BookInv'
  <2> SUFFICES ASSUME NEW c \in received' \ astray'
               PROVE  c \in feeds /\ Complete(wire, 0, c, book'[c], truth[c])
    BY <1>1 DEF BookInv
  <2>1. CASE c = r.asset
    <3>1. r.sure
      BY <1>2, <2>1
    <3> QED BY <1>2, <1>3, <2>1, <3>1
  <2>2. CASE c # r.asset
    <3>1. c \in received \ astray /\ book'[c] = book[c]
      BY <1>2, <2>2
    <3> QED BY <3>1 DEF IInv, SafeInv, BookInv
  <2> QED BY <2>1, <2>2
<1>5. RestInv'
  BY <1>1 DEF IInv, SafeInv, RestInv
<1> QED BY <1>1, <1>4, <1>5 DEF IInv, SafeInv, Down, WireInv

LEMMA NextSafe == ASSUME IInv, [Next]_vars PROVE SafeInv'
<1>1. CASE FrameLost BY <1>1, LostSafe
<1>2. CASE Opens
  <2>1. /\ UNCHANGED <<truth, wire, rest, received, astray, book>>
        /\ feeds \subseteq feeds' /\ conn' = "open"
    BY <1>2 DEF Opens, SendSubscribe, adapter
  <2> QED BY <2>1, FeedSafe
<1>3. CASE Closes BY <1>3, CloseSafe
<1>4. CASE Deliver BY <1>4, DeliverSafe
<1>5. ASSUME NEW a \in Assets, AssetStep(a) PROVE SafeInv'
  <2>1. ASSUME NEW l \in Levels, BookMoves(a, l) PROVE SafeInv' BY <2>1, MoveSafe
  <2>2. CASE SnapshotSent(a) BY <2>2, SentSafe
  <2>3. CASE Subscribe(a)
    <3>1. /\ UNCHANGED <<truth, wire, rest, received, astray, book, conn>>
          /\ feeds \subseteq feeds' /\ (conn = "down" => feeds' = feeds)
      BY <2>3 DEF Subscribe, AssignToShard, SendSubscribe
    <3> QED BY <3>1, FeedSafe
  <2>4. CASE Unsubscribe(a)
    <3>1. /\ UNCHANGED <<truth, wire, rest, astray, conn, feeds>>
          /\ received' = received \ {a}
          /\ \A c \in received' : book'[c] = book[c]
      BY <2>4 DEF Unsubscribe, Forget, exchange, IInv, TypeOK
    <3> QED BY <3>1, FeedSafe
  <2>5. CASE RestEnds(a)
    <3>1. PICK r \in rest : RestReads(r) \/ RestAnswers(r) \/ RestFails(r)
      BY <2>5 DEF RestEnds
    <3>2. CASE RestFails(r)
      <4>1. /\ UNCHANGED <<truth, wire, received, astray, book, conn>>
            /\ rest' \subseteq rest
            /\ feeds \subseteq feeds' /\ (conn = "down" => feeds' = feeds)
        BY <3>2 DEF RestFails, WsResubscribe, SendSubscribe, adapter
      <4> QED BY <4>1, FeedSafe
    <3> QED BY <3>1, <3>2, ReadSafe, AnswerSafe
  <2>6. CASE CoolsDown(a)
    <3>1. UNCHANGED <<truth, wire, rest, received, astray, book, conn, feeds>>
      BY <2>6 DEF CoolsDown, exchange, adapter
    <3> QED BY <3>1, FeedSafe
  <2> QED BY <1>5, <2>1, <2>2, <2>3, <2>4, <2>5, <2>6 DEF AssetStep
<1>6. CASE UNCHANGED vars
  <2>1. UNCHANGED <<truth, wire, rest, received, astray, book, conn, feeds>>
    BY <1>6 DEF vars, exchange, adapter
  <2> QED BY <2>1, FeedSafe
<1> QED BY <1>1, <1>2, <1>3, <1>4, <1>5, <1>6 DEF Next

LEMMA Invariant == Spec => []IInv
<1>1. Init => IInv BY InitTypes, InitSafe DEF IInv
<1>2. IInv /\ [Next]_vars => IInv' BY NextTypes, NextSafe DEF IInv
<1> QED BY <1>1, <1>2, PTL DEF Spec

\* A published book that no lost frame and no late answer has led astray is the
\* exchange's but for what is on the wire.
THEOREM BooksRight == Spec => []PublishedRight
<1>1. ASSUME IInv PROVE PublishedRight
  <2> SUFFICES ASSUME NEW a \in fresh \ astray, NEW l \in Levels
               PROVE  book[a][l] = truth[a][l] \/ Coming(a, l)
    BY DEF PublishedRight
  <2>1. Complete(wire, 0, a, book[a], truth[a])
    BY <1>1 DEF IInv, TypeOK, SafeInv, BookInv
  <2>2. Has(wire, 0, a, l, truth[a][l]) => Coming(a, l)
    BY DEF Has, Coming
  <2> QED BY <2>1, <2>2 DEF Complete
<1> QED BY <1>1, Invariant, PTL

\* Behind a closed socket only an answer that was awaited keeps a quote fresh.
THEOREM QuotesFed == Spec => []FreshMeansFed
<1>1. IInv => FreshMeansFed
  BY DEF IInv, TypeOK, SafeInv, Down, BookInv, FreshMeansFed
<1> QED BY <1>1, Invariant, PTL
=============================================================================
