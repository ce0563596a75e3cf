------------------------ MODULE SettlementCatchUpProofs ------------------------
(***************************************************************************)
(* For any number of settlements, faults and any bounds: the state is well  *)
(* formed, and no settlement slips between the push feed and its refills.   *)
(***************************************************************************)
EXTENDS SettlementCatchUp, WellFoundedInduction, TLAPS

\* A disconnect time is on record while a lost connection is being replaced,
\* and otherwise only when no one will replace it.
GapKept ==
  /\ conn = "connecting" => gap # {}
  /\ conn \in {"boot", "open", "live"} => gap = {}

IInv == TypeOK /\ GapKept /\ GapCovered

-----------------------------------------------------------------------------
\* The oldest member of a non-empty set of markets.
LEMMA OldestIsLeast ==
  ASSUME NEW S, S \subseteq Nat, S # {}
  PROVE  Oldest(S) \in S /\ \A k \in S : Oldest(S) <= k
<1>1. PICK x \in S : \A y \in S : ~(<<y, x>> \in OpToRel(<, Nat))
  BY NatLessThanWellFounded, WFMin, Zenon
<1>2. \A y \in S : ~(y < x)
  BY <1>1 DEF OpToRel
<1>3. \A k \in S : x <= k
  BY <1>2
<1> QED BY <1>3 DEF Oldest

\* Where a gap begins: no later than now, and before all that is on the wire.
LEMMA FirstUnseenBounds ==
  ASSUME CatchUpAssumption, TypeOK
  PROVE  FirstUnseen \in 0..n /\ \A m \in wire : FirstUnseen < m
<1>1. CASE wire = {}
  <2>1. FirstUnseen = n /\ n \in Nat
    BY <1>1 DEF FirstUnseen, TypeOK, Times, CatchUpAssumption
  <2> QED BY <1>1, <2>1
<1>2. CASE wire # {}
  <2>1. wire \subseteq 1..n /\ n \in Nat
    BY DEF TypeOK, Times, CatchUpAssumption
  <2>2. wire \subseteq Nat
    BY <2>1
  <2>3. Oldest(wire) \in wire /\ \A k \in wire : Oldest(wire) <= k
    BY <1>2, <2>2, OldestIsLeast
  <2>4. FirstUnseen = Oldest(wire) - 1
    BY <1>2 DEF FirstUnseen
  <2>5. PICK o \in 1..n : FirstUnseen = o - 1 /\ \A k \in wire : o <= k
    BY <2>1, <2>3, <2>4, Zenon
  <2>6. o - 1 \in 0..n /\ \A k \in 1..n : o <= k => o - 1 < k
    BY <2>1
  <2> QED BY <2>1, <2>5, <2>6
<1> QED BY <1>1, <1>2

\* A market in hand stays so while the sets it may be in only grow.
LEMMA StillInHand ==
  ASSUME wire \cup handling \subseteq wire' \cup handling',
         OpenGaps \subseteq OpenGaps',
         NEW m, InHand(m)
  PROVE  InHand(m)'
  BY DEF InHand

\* Nothing new settles, nothing is let go of.
LEMMA CoverStays ==
  ASSUME GapCovered, UNCHANGED <<inDb, n>>,
         row \subseteq row', lost \subseteq lost',
         wire \cup handling \subseteq wire' \cup handling',
         OpenGaps \subseteq OpenGaps'
  PROVE  GapCovered'
<1> SUFFICES ASSUME NEW m \in Settled' PROVE m \in row' \cup lost' \/ InHand(m)'
  BY DEF GapCovered
<1>1. m \in Settled
  BY DEF Settled
<1>2. m \in row \cup lost \/ InHand(m)
  BY <1>1 DEF GapCovered
<1> QED BY <1>2, StillInHand

LEMMA WriteGrows ==
  ASSUME NEW S, Write(S), row \subseteq inDb
  PROVE  row \subseteq row' /\ row' \subseteq inDb /\ S \cap inDb \subseteq row'
  BY DEF Write

LEMMA FaultCounts ==
  ASSUME CatchUpAssumption, faults \in 0..MaxFaults, Fault
  PROVE  faults' \in 0..MaxFaults
  BY DEF CatchUpAssumption, Fault

LEMMA InitInv == CatchUpAssumption /\ Init => IInv
<1> SUFFICES ASSUME CatchUpAssumption, Init PROVE IInv
  OBVIOUS
<1>1. poll \in [on : BOOLEAN, todo : SUBSET Markets, known : Nat]
  BY DEF Init, Idle
<1>2. inDb \subseteq Markets /\ n = 0 /\ n \in Times /\ faults \in 0..MaxFaults
  BY DEF Init, CatchUpAssumption, Markets, Times
<1>3. TypeOK
  BY <1>1, <1>2 DEF Init, TypeOK
<1>4. GapKept
  BY DEF Init, GapKept
<1>5. GapCovered
  BY <1>2 DEF GapCovered, Settled
<1> QED BY <1>3, <1>4, <1>5 DEF IInv

-----------------------------------------------------------------------------
(* The steps, one lemma for each part of the next-state relation *)

LEMMA FeedInv ==
  ASSUME CatchUpAssumption, IInv,
         \/ Settles \/ Receives
         \/ \E m \in Markets : HandlerWrites(m) \/ HandlerFails(m)
  PROVE  IInv'
<1> USE DEF IInv
<1>0. n \in Nat /\ MaxSettled \in Nat
  BY DEF TypeOK, Times, CatchUpAssumption
<1>1. CASE Settles
  <2>1. n' = n + 1 /\ n' \in Times /\ 1..n \subseteq 1..n' /\ 0..n \subseteq 0..n'
    BY <1>0, <1>1 DEF Settles, Times
  <2>2. wire' \subseteq 1..n' /\ lost' \subseteq 1..n' /\ wire \subseteq wire' /\ lost \subseteq lost'
    BY <1>0, <1>1, <2>1 DEF Settles, TypeOK
  <2>3. TypeOK'
    BY <1>1, <2>1, <2>2 DEF Settles, TypeOK, kind
  <2>4. GapKept'
    BY <1>1 DEF Settles, GapKept
  <2>5. SUFFICES ASSUME NEW m \in Settled' PROVE m \in row' \cup lost' \/ InHand(m)'
    BY <2>3, <2>4 DEF GapCovered
  <2>6. CASE m \in Settled
    <3>1. m \in row \cup lost \/ InHand(m)
      BY <2>6 DEF GapCovered
    <3>2. handling' = handling /\ OpenGaps' = OpenGaps /\ row' = row
      BY <1>1 DEF Settles, OpenGaps
    <3> QED BY <3>1, <3>2, <2>2, StillInHand
  <2>7. CASE m = n'
    <3>1. CASE conn \in {"boot", "open", "gone"}
      BY <1>1, <2>7, <3>1 DEF Settles
    <3>2. CASE conn = "live"
      BY <1>1, <2>7, <3>2 DEF Settles, InHand, OpenGaps
    <3>3. CASE conn = "connecting"
      <4>1. PICK s \in gap : TRUE
        BY <3>3 DEF GapKept
      <4>2. s < m /\ gap' = gap /\ conn' = conn
        BY <1>0, <1>1, <2>1, <2>7, <4>1 DEF Settles, TypeOK
      <4> QED BY <3>3, <4>1, <4>2 DEF InHand, OpenGaps
    <3> QED BY <3>1, <3>2, <3>3 DEF TypeOK
  <2>8. m \in Settled \/ m = n'
    BY <1>0, <1>1, <2>1 DEF Settled, Settles, kind
  <2> QED BY <2>6, <2>7, <2>8
<1>2. CASE Receives
  <2>1. wire \subseteq Nat
    BY <1>0 DEF TypeOK
  <2>2. Oldest(wire) \in wire
    BY <1>2, <2>1, OldestIsLeast DEF Receives
  <2>3. TypeOK'
    BY <1>2, <2>2 DEF Receives, TypeOK, kind
  <2>4. GapKept'
    BY <1>2 DEF Receives, GapKept
  <2>5. GapCovered'
    BY <1>2, <2>2, CoverStays DEF Receives, OpenGaps, kind
  <2> QED BY <2>3, <2>4, <2>5
<1>3. ASSUME NEW m \in Markets, HandlerWrites(m) PROVE IInv'
  <2>1. row \subseteq row' /\ row' \subseteq inDb /\ {m} \cap inDb \subseteq row'
    BY <1>3, WriteGrows DEF HandlerWrites, TypeOK
  <2>2. TypeOK'
    BY <1>3, <2>1 DEF HandlerWrites, TypeOK, kind, socket
  <2>3. GapKept'
    BY <1>3 DEF HandlerWrites, GapKept, socket
  <2>4. ASSUME NEW k \in Settled' PROVE k \in row' \cup lost' \/ InHand(k)'
    BY <1>3, <2>1, <2>4 DEF HandlerWrites, GapCovered, Settled, InHand, OpenGaps, kind, socket
  <2> QED BY <2>2, <2>3, <2>4 DEF GapCovered
<1>4. ASSUME NEW m \in Markets, HandlerFails(m) PROVE IInv'
  <2>1. faults' \in 0..MaxFaults
    BY <1>4, FaultCounts DEF HandlerFails, TypeOK
  <2>2. TypeOK'
    BY <1>4, <2>1 DEF HandlerFails, TypeOK, kind, socket
  <2>3. GapKept'
    BY <1>4 DEF HandlerFails, GapKept, socket
  <2>4. ASSUME NEW k \in Settled' PROVE k \in row' \cup lost' \/ InHand(k)'
    BY <1>4, <2>4 DEF HandlerFails, GapCovered, Settled, InHand, OpenGaps, kind, socket
  <2> QED BY <2>2, <2>3, <2>4 DEF GapCovered
<1> QED BY <1>1, <1>2, <1>3, <1>4

LEMMA SocketInv ==
  ASSUME CatchUpAssumption, IInv,
         \/ Closes \/ DiesSilently \/ ConnectFails \/ ConnectRejects
         \/ Opens \/ SubscriptionActive
  PROVE  IInv'
<1> USE DEF IInv
<1>0. n \in Nat /\ MaxSettled \in Nat
  BY DEF TypeOK, Times, CatchUpAssumption
<1>1. CASE Closes
  <2>1. faults' \in 0..MaxFaults
    BY <1>1, FaultCounts DEF Closes, TypeOK
  <2>2. gap = {}
    BY <1>1 DEF Closes, GapKept
  <2>3. PICK since \in GapStarts : /\ gap' = NotedGap(since)
                                   /\ lost' = lost \cup {m \in wire : TooLate /\ m <= since}
    BY <1>1 DEF Closes
  <2>4. gap' = {since}
    BY <2>2, <2>3 DEF NotedGap
  <2>5. since \in 0..n /\ (~TooLate => \A m \in wire : since < m)
    BY <1>0, <2>3, FirstUnseenBounds DEF GapStarts
  <2>6. TypeOK'
    BY <1>1, <2>1, <2>3, <2>4, <2>5 DEF Closes, TypeOK, kind
  <2>7. GapKept'
    BY <1>1, <2>4 DEF Closes, GapKept
  <2>8. ASSUME NEW m \in Settled' PROVE m \in row' \cup lost' \/ InHand(m)'
    <3>1. m \in Settled /\ m \in Nat
      BY <1>0, <1>1, <2>8 DEF Closes, Settled, kind
    <3>2. m \in row \cup lost \/ InHand(m)
      BY <3>1 DEF GapCovered
    <3>3. CASE m \in wire
      <4>1. CASE TooLate /\ m <= since
        BY <2>3, <3>3, <4>1
      <4>2. CASE since < m
        BY <1>1, <2>4, <4>2 DEF Closes, InHand, OpenGaps
      <4> QED BY <1>0, <2>5, <3>1, <3>3, <4>1, <4>2
    <3>4. CASE m \notin wire
      BY <1>1, <2>2, <2>3, <3>2, <3>4 DEF Closes, InHand, OpenGaps
    <3> QED BY <3>3, <3>4
  <2> QED BY <2>6, <2>7, <2>8 DEF GapCovered
<1>2. CASE DiesSilently
  <2>1. faults' \in 0..MaxFaults
    BY <1>2, FaultCounts DEF DiesSilently, TypeOK
  <2>2. TypeOK'
    BY <1>2, <2>1 DEF DiesSilently, TypeOK, kind
  <2>3. GapKept'
    BY <1>2 DEF DiesSilently, GapKept
  <2>4. GapCovered'
    BY <1>2, CoverStays DEF DiesSilently, OpenGaps, kind
  <2> QED BY <2>2, <2>3, <2>4
<1>3. CASE ConnectFails
  <2>1. faults' \in 0..MaxFaults
    BY <1>3, FaultCounts DEF ConnectFails, TypeOK
  <2>2. gap \subseteq gap' /\ gap' # {} /\ gap' \subseteq 0..n
    BY <1>0, <1>3 DEF ConnectFails, NotedGap, TypeOK
  <2>3. TypeOK'
    BY <1>3, <2>1, <2>2 DEF ConnectFails, TypeOK, kind
  <2>4. GapKept'
    BY <1>3, <2>2 DEF ConnectFails, GapKept
  <2>5. GapCovered'
    BY <1>3, <2>2, CoverStays DEF ConnectFails, OpenGaps, kind
  <2> QED BY <2>3, <2>4, <2>5
<1>4. CASE Opens
  <2>1. TypeOK'
    BY <1>4 DEF Opens, TypeOK, kind
  <2>2. GapKept'
    BY <1>4 DEF Opens, GapKept
  <2>3. GapCovered'
    BY <1>4, CoverStays DEF Opens, OpenGaps, kind
  <2> QED BY <2>1, <2>2, <2>3
<1>5. CASE SubscriptionActive
  <2>1. TypeOK'
    BY <1>5 DEF SubscriptionActive, TypeOK, kind
  <2>2. GapKept'
    BY <1>5 DEF SubscriptionActive, GapKept
  <2>3. GapCovered'
    BY <1>5, CoverStays DEF SubscriptionActive, OpenGaps, kind
  <2> QED BY <2>1, <2>2, <2>3
<1>6. CASE ConnectRejects
  <2>1. faults' \in 0..MaxFaults
    BY <1>6, FaultCounts DEF ConnectRejects, TypeOK
  <2>2. TypeOK'
    BY <1>6, <2>1 DEF ConnectRejects, TypeOK, kind
  <2>3. GapKept'
    BY <1>6 DEF ConnectRejects, GapKept
  <2>4. ASSUME NEW m \in Settled' PROVE m \in row' \cup lost' \/ InHand(m)'
    <3>1. m \in Settled /\ m \in 1..n
      BY <1>6, <2>4 DEF ConnectRejects, Settled, kind
    <3>2. m \in row \cup lost \/ InHand(m)
      BY <3>1 DEF GapCovered
    <3> QED BY <1>6, <3>1, <3>2 DEF ConnectRejects, InHand, OpenGaps
  <2> QED BY <2>2, <2>3, <2>4 DEF GapCovered
<1> QED BY <1>1, <1>2, <1>3, <1>4, <1>5, <1>6

LEMMA RefillInv ==
  ASSUME CatchUpAssumption, IInv, NEW s \in Times, RefillWrites(s) \/ RefillFails(s)
  PROVE  IInv'
<1> USE DEF IInv
<1>0. n \in Nat /\ s \in Nat
  BY DEF TypeOK, Times, CatchUpAssumption
<1>1. Listed(s) \subseteq 1..n /\ \A m \in 1..n : s < m => m \in Listed(s)
  BY <1>0 DEF Listed
<1>2. CASE RefillWrites(s)
  <2>1. row \subseteq row' /\ row' \subseteq inDb /\ Listed(s) \cap inDb \subseteq row'
    BY <1>2, WriteGrows DEF RefillWrites, TypeOK
  <2>2. TypeOK'
    BY <1>2, <2>1 DEF RefillWrites, TypeOK, kind, socket
  <2>3. GapKept'
    BY <1>2 DEF RefillWrites, GapKept, socket
  <2>4. ASSUME NEW m \in Settled' PROVE m \in row' \cup lost' \/ InHand(m)'
    <3>1. m \in Settled /\ m \in 1..n /\ m \in inDb
      BY <1>2, <2>4 DEF RefillWrites, Settled, kind
    <3>2. m \in row \cup lost \/ InHand(m)
      BY <3>1 DEF GapCovered
    <3> QED BY <1>1, <1>2, <2>1, <3>1, <3>2 DEF RefillWrites, InHand, OpenGaps, socket
  <2> QED BY <2>2, <2>3, <2>4 DEF GapCovered
<1>3. CASE RefillFails(s)
  <2>1. faults' \in 0..MaxFaults
    BY <1>3, FaultCounts DEF RefillFails, TypeOK
  <2>2. PICK done \in SUBSET Listed(s) : Write(done) /\ lost' = lost \cup (Listed(s) \ done)
    BY <1>3 DEF RefillFails
  <2>3. row \subseteq row' /\ row' \subseteq inDb /\ done \cap inDb \subseteq row'
    BY <2>2, WriteGrows DEF TypeOK
  <2>4. TypeOK'
    BY <1>1, <1>3, <2>1, <2>2, <2>3 DEF RefillFails, TypeOK, kind, socket
  <2>5. GapKept'
    BY <1>3 DEF RefillFails, GapKept, socket
  <2>6. ASSUME NEW m \in Settled' PROVE m \in row' \cup lost' \/ InHand(m)'
    <3>1. m \in Settled /\ m \in 1..n /\ m \in inDb
      BY <1>3, <2>6 DEF RefillFails, Settled, kind
    <3>2. m \in row \cup lost \/ InHand(m)
      BY <3>1 DEF GapCovered
    <3> QED BY <1>1, <1>3, <2>2, <2>3, <3>1, <3>2 DEF RefillFails, InHand, OpenGaps, socket
  <2> QED BY <2>4, <2>5, <2>6 DEF GapCovered
<1> QED BY <1>2, <1>3

LEMMA PollInv ==
  ASSUME CatchUpAssumption, IInv,
         PollStarts \/ (\E m \in Markets : PollWrites(m)) \/ PollEnds \/ PollFails
  PROVE  IInv'
<1> USE DEF IInv
<1> DEFINE Polls == [on : BOOLEAN, todo : SUBSET Markets, known : Nat]
<1>0. n \in Nat /\ 1..n \subseteq Markets
  BY DEF TypeOK, Times, CatchUpAssumption, Markets
<1>1. Idle \in Polls
  BY DEF Idle
<1>2. UNCHANGED <<kind, n, socket, handling, refills, lost>>
  BY DEF PollStarts, PollWrites, PollEnds, PollFails
<1>3. row \subseteq row' /\ row' \subseteq inDb
  <2>1. ASSUME NEW m \in Markets, PollWrites(m) PROVE row \subseteq row' /\ row' \subseteq inDb
    BY <2>1, WriteGrows DEF PollWrites, TypeOK
  <2> QED BY <2>1 DEF PollStarts, PollEnds, PollFails, TypeOK
<1>4. faults' \in 0..MaxFaults
  BY FaultCounts DEF PollStarts, PollWrites, PollEnds, PollFails, TypeOK
<1>5. poll' \in Polls
  <2>1. CASE PollStarts
    BY <1>0, <2>1 DEF PollStarts
  <2>2. ASSUME NEW m \in Markets, PollWrites(m) PROVE poll' \in Polls
    <3>1. poll \in Polls
      BY DEF TypeOK
    <3>2. Known(m) \in Nat
      BY <3>1 DEF Known
    <3> QED BY <1>1, <2>2, <3>1, <3>2 DEF PollWrites
  <2>3. CASE PollEnds \/ PollFails
    BY <1>1, <2>3 DEF PollEnds, PollFails
  <2> QED BY <2>1, <2>2, <2>3
<1>6. TypeOK'
  BY <1>2, <1>3, <1>4, <1>5 DEF TypeOK, kind, socket
<1>7. GapKept'
  BY <1>2 DEF GapKept, socket
<1>8. GapCovered'
  BY <1>2, <1>3, CoverStays DEF OpenGaps, kind, socket
<1> QED BY <1>6, <1>7, <1>8

LEMMA CrashInv ==
  ASSUME CatchUpAssumption, IInv, Crash
  PROVE  IInv'
<1> USE DEF IInv
<1>1. faults' \in 0..MaxFaults
  BY FaultCounts DEF Crash, TypeOK
<1>2. poll' \in [on : BOOLEAN, todo : SUBSET Markets, known : Nat]
  BY DEF Crash, Idle
<1>3. TypeOK'
  BY <1>1, <1>2 DEF Crash, TypeOK, kind
<1>4. GapKept'
  BY DEF Crash, GapKept
<1>5. GapCovered'
  BY DEF Crash, GapCovered, Settled
<1> QED BY <1>3, <1>4, <1>5

LEMMA NextInv == CatchUpAssumption /\ IInv /\ [Next]_vars => IInv'
<1> SUFFICES ASSUME CatchUpAssumption, IInv, [Next]_vars PROVE IInv'
  OBVIOUS
<1>1. CASE UNCHANGED vars
  BY <1>1 DEF vars, IInv, TypeOK, GapKept, GapCovered, Settled, InHand, OpenGaps
<1>2. CASE Next
  BY <1>2, FeedInv, SocketInv, RefillInv, PollInv, CrashInv DEF Next
<1> QED BY <1>1, <1>2

-----------------------------------------------------------------------------
\* The state of the watcher and of the monitor is well formed.
THEOREM TypeCorrect == CatchUpAssumption => (Spec => []TypeOK)
<1> SUFFICES ASSUME CatchUpAssumption PROVE Spec => []TypeOK
  OBVIOUS
<1>1. Init => IInv
  BY InitInv
<1>2. IInv /\ [Next]_vars => IInv'
  BY NextInv
<1>3. IInv => TypeOK
  BY DEF IInv
<1> QED BY <1>1, <1>2, <1>3, PTL DEF Spec

\* No order of drops, failed attempts and reconnects loses a settlement that
\* the watcher was subscribed for or disconnected for (base-watcher.ts).
THEOREM GapsCovered == CatchUpAssumption => (Spec => []GapCovered)
<1> SUFFICES ASSUME CatchUpAssumption PROVE Spec => []GapCovered
  OBVIOUS
<1>1. Init => IInv
  BY InitInv
<1>2. IInv /\ [Next]_vars => IInv'
  BY NextInv
<1>3. IInv => GapCovered
  BY DEF IInv
<1> QED BY <1>1, <1>2, <1>3, PTL DEF Spec
=============================================================================
