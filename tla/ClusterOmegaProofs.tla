--------------------------- MODULE ClusterOmegaProofs ---------------------------
(***************************************************************************)
(* For any questions, tables, edges, bids and bounds: the state is well     *)
(* formed, no possible world is lost between the tables and the LP, the two *)
(* readings of a regular cluster agree and pin no question, and what the    *)
(* bids have refuted stays out.                                             *)
(*                                                                         *)
(* The argument goes through what a graph may contain when it was loaded    *)
(* from given tables (GraphsOf), what a cluster owes to its sets and edges  *)
(* (ClusterOK), and what a cache entry owes to the key it is found by       *)
(* (EntryOf, Kin).                                                          *)
(***************************************************************************)
EXTENDS ClusterOmega, WellFoundedInduction, FiniteSetTheorems, TLAPS

-----------------------------------------------------------------------------
(* Induction over the naturals, for sets.                                  *)

LEMMA LeastMember ==
  ASSUME NEW T \in SUBSET Nat, T # {}
  PROVE  \E m \in T : \A n \in T : m <= n
<1> DEFINE R == OpToRel(<, Nat)
<1>1. IsWellFoundedOn(R, Nat)
  BY NatLessThanWellFounded
<1>2. \A x, y \in Nat : x < y => <<x, y>> \in R
  BY DEF OpToRel
<1> HIDE DEF R
<1>3. PICK m \in T : \A n \in T : ~(<<n, m>> \in R)
  BY <1>1, WFMin
<1>4. \A n \in T : n \in Nat /\ m \in Nat /\ ~(n < m)
  BY <1>2, <1>3
<1> QED BY <1>4

LEMMA NatInduct ==
  ASSUME NEW T, 0 \in T, \A n \in Nat : n \in T => n + 1 \in T
  PROVE  Nat \subseteq T
<1> SUFFICES ASSUME Nat \ T # {} PROVE FALSE
  OBVIOUS
<1>1. PICK m \in Nat \ T : \A n \in Nat \ T : m <= n
  BY LeastMember
<1>2. m - 1 \in Nat /\ ~(m <= m - 1)
  BY <1>1
<1>3. m - 1 \in T
  BY <1>1, <1>2
<1> QED BY <1>1, <1>2, <1>3

-----------------------------------------------------------------------------
(* LiveSlots keeps the live slots, in their order.                         *)

\* f[n] is what is kept of the first n slots.
Kept(f, slots, live, upto) ==
  f = [n \in 0..upto |->
         IF n = 0 THEN << >>
         ELSE IF slots[n] \in live THEN Append(f[n - 1], slots[n])
         ELSE f[n - 1]]

LEMMA KeptExists ==
  ASSUME NEW slots, NEW live
  PROVE  \A n \in Nat : \E f : Kept(f, slots, live, n)
<1> DEFINE T == {n \in Nat : \E f : Kept(f, slots, live, n)}
<1>1. 0 \in T
  <2>1. Kept([n \in 0..0 |-> << >>], slots, live, 0)
    BY DEF Kept
  <2> QED BY <2>1
<1>2. ASSUME NEW n \in Nat, n \in T PROVE n + 1 \in T
  <2>1. PICK f : Kept(f, slots, live, n)
    BY <1>2
  <2> DEFINE last == IF slots[n + 1] \in live THEN Append(f[n], slots[n + 1]) ELSE f[n]
             g == [i \in 0..(n + 1) |-> IF i <= n THEN f[i] ELSE last]
             h == [i \in 0..(n + 1) |->
                     IF i = 0 THEN << >>
                     ELSE IF slots[i] \in live THEN Append(g[i - 1], slots[i])
                     ELSE g[i - 1]]
  <2>2. ASSUME NEW i \in 0..(n + 1) PROVE g[i] = h[i]
    <3>1. CASE i = n + 1
      <4>1. i # 0 /\ ~(i <= n) /\ i - 1 = n /\ n \in 0..(n + 1)
        BY <3>1
      <4>2. g[i - 1] = f[n]
        BY <4>1
      <4> QED BY <3>1, <4>1, <4>2
    <3>2. CASE i <= n
      <4>1. i \in 0..n /\ (i # 0 => i - 1 \in 0..(n + 1) /\ i - 1 <= n)
        BY <3>2
      <4>2. i # 0 => g[i - 1] = f[i - 1]
        BY <4>1
      <4>3. f[i] = IF i = 0 THEN << >>
                   ELSE IF slots[i] \in live THEN Append(f[i - 1], slots[i])
                   ELSE f[i - 1]
        BY <2>1, <4>1 DEF Kept
      <4>4. g[i] = f[i]
        BY <3>2
      <4> QED BY <4>2, <4>3, <4>4
    <3> QED BY <3>1, <3>2
  <2>3. g = h
    BY <2>2
  <2>4. Kept(g, slots, live, n + 1)
    BY <2>3 DEF Kept
  <2> QED BY <2>4
<1> HIDE DEF T
<1>3. Nat \subseteq T
  BY <1>1, <1>2, NatInduct
<1> QED BY <1>3 DEF T

\* What is kept of the first n slots.
KeepsFirst(kept, slots, live, n) ==
  /\ kept \in Seq(Questions)
  /\ \A a \in DOMAIN kept : \E i \in 1..n : kept[a] = slots[i] /\ slots[i] \in live
  /\ \A i \in 1..n : slots[i] \in live => \E a \in DOMAIN kept : kept[a] = slots[i]
  /\ \A a, b \in DOMAIN kept : a < b =>
       \E i, j \in 1..n : i < j /\ kept[a] = slots[i] /\ kept[b] = slots[j]

LEMMA KeepsNext ==
  ASSUME NEW slots \in Seq(Questions), NEW live, NEW n \in Nat, n + 1 \in DOMAIN slots,
         NEW kept, KeepsFirst(kept, slots, live, n)
  PROVE  KeepsFirst(IF slots[n + 1] \in live THEN Append(kept, slots[n + 1]) ELSE kept,
                    slots, live, n + 1)
<1>1. \A i \in 1..n : i \in 1..(n + 1) /\ i < n + 1
  OBVIOUS
<1>2. \A i \in 1..(n + 1) : i \in 1..n \/ i = n + 1
  OBVIOUS
<1>3. n + 1 \in 1..(n + 1) /\ slots[n + 1] \in Questions
  OBVIOUS
<1>4. CASE slots[n + 1] \notin live
  BY <1>1, <1>2, <1>4 DEF KeepsFirst
<1>5. CASE slots[n + 1] \in live
  <2> DEFINE new == Append(kept, slots[n + 1])
  <2>0. kept \in Seq(Questions)
    BY DEF KeepsFirst
  <2>1. /\ new \in Seq(Questions)
        /\ DOMAIN new = DOMAIN kept \cup {Len(kept) + 1}
        /\ \A a \in DOMAIN kept : new[a] = kept[a] /\ a < Len(kept) + 1 /\ a \in Nat
        /\ new[Len(kept) + 1] = slots[n + 1]
    BY <1>3, <2>0
  <2> HIDE DEF new
  <2>2. \A a \in DOMAIN new : \E i \in 1..(n + 1) : new[a] = slots[i] /\ slots[i] \in live
    BY <1>1, <1>3, <1>5, <2>1 DEF KeepsFirst
  <2>3. \A i \in 1..(n + 1) : slots[i] \in live => \E a \in DOMAIN new : new[a] = slots[i]
    BY <1>2, <2>1 DEF KeepsFirst
  <2>4. ASSUME NEW a \in DOMAIN new, NEW b \in DOMAIN new, a < b
        PROVE  \E i, j \in 1..(n + 1) : i < j /\ new[a] = slots[i] /\ new[b] = slots[j]
    <3>1. a \in DOMAIN kept
      <4>1. Len(kept) \in Nat
        BY <2>0
      <4> QED BY <2>1, <2>4, <4>1
    <3>2. CASE b \in DOMAIN kept
      <4>1. PICK i \in 1..n, j \in 1..n : i < j /\ kept[a] = slots[i] /\ kept[b] = slots[j]
        BY <2>4, <3>1, <3>2 DEF KeepsFirst
      <4>2. i \in 1..(n + 1) /\ j \in 1..(n + 1) /\ new[a] = kept[a] /\ new[b] = kept[b]
        BY <1>1, <2>1, <3>1, <3>2
      <4> QED BY <4>1, <4>2
    <3>3. CASE b = Len(kept) + 1
      BY <1>1, <1>3, <2>1, <3>1, <3>3 DEF KeepsFirst
    <3> QED BY <2>1, <3>2, <3>3
  <2>5. KeepsFirst(new, slots, live, n + 1)
    BY <2>1, <2>2, <2>3, <2>4 DEF KeepsFirst
  <2> QED BY <1>5, <2>5 DEF new
<1> QED BY <1>4, <1>5

\* What LiveSlots returns.
LEMMA LiveSlotsFacts ==
  ASSUME NEW slots \in Seq(Questions), IsInjective(slots), NEW live
  PROVE  /\ LiveSlots(slots, live) \in Seq(Questions)
         /\ Range(LiveSlots(slots, live)) = Range(slots) \cap live
         /\ IsInjective(LiveSlots(slots, live))
         /\ \A a, b \in DOMAIN LiveSlots(slots, live) : a < b =>
              \E i, j \in DOMAIN slots :
                i < j /\ LiveSlots(slots, live)[a] = slots[i] /\ LiveSlots(slots, live)[b] = slots[j]
<1> DEFINE f == CHOOSE f : Kept(f, slots, live, Len(slots))
<1>1. Kept(f, slots, live, Len(slots))
  BY KeptExists
<1>2. LiveSlots(slots, live) = f[Len(slots)]
  BY DEF LiveSlots, Kept
<1> HIDE DEF f
<1>3. DOMAIN slots = 1..Len(slots) /\ Len(slots) \in Nat
  OBVIOUS
<1> DEFINE T == {n \in Nat : n <= Len(slots) => KeepsFirst(f[n], slots, live, n)}
<1>4. 0 \in T
  <2>1. f[0] = << >>
    BY <1>1, <1>3 DEF Kept
  <2>2. KeepsFirst(<< >>, slots, live, 0)
    BY DEF KeepsFirst
  <2> QED BY <2>1, <2>2
<1>5. ASSUME NEW n \in Nat, n \in T PROVE n + 1 \in T
  <2> SUFFICES ASSUME n + 1 <= Len(slots) PROVE KeepsFirst(f[n + 1], slots, live, n + 1)
    OBVIOUS
  <2>1. n <= Len(slots) /\ n + 1 \in 0..Len(slots) /\ n + 1 # 0 /\ (n + 1) - 1 = n
    BY <1>3
  <2>2. f[n + 1] = IF slots[n + 1] \in live THEN Append(f[n], slots[n + 1]) ELSE f[n]
    BY <1>1, <2>1 DEF Kept
  <2>3. n + 1 \in DOMAIN slots
    BY <1>3, <2>1
  <2> QED BY <1>5, <2>1, <2>2, <2>3, KeepsNext
<1> HIDE DEF T
<1>6. Len(slots) \in T
  BY <1>3, <1>4, <1>5, NatInduct
<1>7. KeepsFirst(f[Len(slots)], slots, live, Len(slots))
  BY <1>3, <1>6 DEF T
<1> DEFINE kept == LiveSlots(slots, live)
<1>8. KeepsFirst(kept, slots, live, Len(slots))
  BY <1>2, <1>7
<1> HIDE DEF kept
<1>9. kept \in Seq(Questions)
  BY <1>8 DEF KeepsFirst
<1>10. Range(kept) = Range(slots) \cap live
  <2>1. \A a \in DOMAIN kept : \E i \in DOMAIN slots : kept[a] = slots[i] /\ slots[i] \in live
    BY <1>3, <1>8, Zenon DEF KeepsFirst
  <2>2. \A i \in DOMAIN slots : slots[i] \in live => \E a \in DOMAIN kept : kept[a] = slots[i]
    BY <1>3, <1>8, Zenon DEF KeepsFirst
  <2>3. \A q : q \in Range(kept) <=> q \in Range(slots) /\ q \in live
    BY <2>1, <2>2 DEF Range
  <2> QED BY <2>3
<1>11. \A a, b \in DOMAIN kept : a < b =>
         \E i, j \in DOMAIN slots : i < j /\ kept[a] = slots[i] /\ kept[b] = slots[j]
  <2> SUFFICES ASSUME NEW a \in DOMAIN kept, NEW b \in DOMAIN kept, a < b
               PROVE  \E i, j \in DOMAIN slots :
                        i < j /\ kept[a] = slots[i] /\ kept[b] = slots[j]
    OBVIOUS
  <2>1. PICK i \in 1..Len(slots), j \in 1..Len(slots) :
          i < j /\ kept[a] = slots[i] /\ kept[b] = slots[j]
    BY <1>8 DEF KeepsFirst
  <2>2. i \in DOMAIN slots /\ j \in DOMAIN slots
    BY <1>3
  <2> QED BY <2>1, <2>2
<1>12. IsInjective(kept)
  <2> SUFFICES ASSUME NEW a \in DOMAIN kept, NEW b \in DOMAIN kept, kept[a] = kept[b], a # b
               PROVE  FALSE
    BY DEF IsInjective
  <2>1. a < b \/ b < a
    BY <1>9
  <2>2. PICK i \in DOMAIN slots, j \in DOMAIN slots : i < j /\ slots[i] = slots[j]
    BY <1>11, <2>1
  <2>3. i = j
    BY <2>2 DEF IsInjective
  <2> QED BY <2>2, <2>3
<1> QED BY <1>9, <1>10, <1>11, <1>12 DEF kept

\* Only which of its slots are live matters.
LEMMA LiveSlotsSame ==
  ASSUME NEW slots \in Seq(Questions), NEW A, NEW B, Range(slots) \cap A = Range(slots) \cap B
  PROVE  LiveSlots(slots, A) = LiveSlots(slots, B)
<1>1. \A n \in 1..Len(slots) : slots[n] \in A <=> slots[n] \in B
  BY DEF Range
<1>2. ASSUME NEW f PROVE Kept(f, slots, A, Len(slots)) <=> Kept(f, slots, B, Len(slots))
  <2>1. \A n \in 0..Len(slots) : n # 0 => (slots[n] \in A <=> slots[n] \in B)
    BY <1>1
  <2>2. [n \in 0..Len(slots) |->
           IF n = 0 THEN << >>
           ELSE IF slots[n] \in A THEN Append(f[n - 1], slots[n])
           ELSE f[n - 1]]
        = [n \in 0..Len(slots) |->
             IF n = 0 THEN << >>
             ELSE IF slots[n] \in B THEN Append(f[n - 1], slots[n])
             ELSE f[n - 1]]
    BY <2>1
  <2> QED BY <2>2 DEF Kept
<1>3. (CHOOSE f : Kept(f, slots, A, Len(slots))) = (CHOOSE f : Kept(f, slots, B, Len(slots)))
  BY <1>2
<1> QED BY <1>3 DEF LiveSlots, Kept

-----------------------------------------------------------------------------
(* What sets say.                                                          *)

LEMMA SetFacts ==
  ASSUME NEW s \in Sets
  PROVE  /\ s.id \in Nat
         /\ s.type \in {"categorical", "threshold_series"}
         /\ s.slots \in Seq(Questions)
         /\ s.exhaustive \in BOOLEAN
         /\ s = [id |-> s.id, type |-> s.type, slots |-> s.slots, exhaustive |-> s.exhaustive]
         /\ DOMAIN s.slots = 1..Len(s.slots) /\ Len(s.slots) \in Nat
         /\ IsInjective(s.slots)
         /\ Slots(s) \subseteq Questions
         /\ Slots(s) = {s.slots[i] : i \in 1..Len(s.slots)}
  BY DEF Sets, Slots, Range

\* A set that says no more than another.
Weaker(t, s) ==
  t.type = s.type /\ t.slots = s.slots /\ (t.exhaustive => s.exhaustive)

LEMMA WeakerSatisfied ==
  ASSUME NEW s, NEW t, Weaker(t, s), NEW w, NEW U, NEW V, U \subseteq V, Satisfies(w, s, U)
  PROVE  Satisfies(w, t, V)
  BY DEF Weaker, Satisfies, Chained, AtMostOne, Slots

Demoted(s, ids) == [s EXCEPT !.exhaustive = @ /\ ~(s.type = "categorical" /\ s.id \in ids)]

LEMMA DemotedFacts ==
  ASSUME NEW s \in Sets, NEW ids
  PROVE  /\ Demoted(s, ids) \in Sets
         /\ Demoted(s, ids).id = s.id
         /\ Weaker(Demoted(s, ids), s)
         /\ Slots(Demoted(s, ids)) = Slots(s)
         /\ Grouped(Demoted(s, ids)) <=> Grouped(s)
         /\ Demoted(s, ids).exhaustive <=>
              s.exhaustive /\ ~(s.type = "categorical" /\ s.id \in ids)
         /\ Demoted(s, {}) = s
<1> DEFINE flag == s.exhaustive /\ ~(s.type = "categorical" /\ s.id \in ids)
<1>1. Demoted(s, ids) = [id |-> s.id, type |-> s.type, slots |-> s.slots, exhaustive |-> flag]
  BY SetFacts DEF Demoted
<1>2. flag \in BOOLEAN
  OBVIOUS
<1>3. Demoted(s, {}) = s
  BY SetFacts DEF Demoted
<1> HIDE DEF flag
<1>4. Demoted(s, ids) \in Sets
  BY <1>1, <1>2, SetFacts DEF Sets
<1>5. /\ Demoted(s, ids).id = s.id
      /\ Demoted(s, ids).type = s.type
      /\ Demoted(s, ids).slots = s.slots
      /\ Demoted(s, ids).exhaustive <=> flag
  BY <1>1
<1> QED BY <1>3, <1>4, <1>5 DEF flag, Weaker, Slots, Grouped

LEMMA DemoteFacts ==
  ASSUME NEW S \in SUBSET Sets, NEW ids
  PROVE  /\ Demote(S, ids) = {Demoted(s, ids) : s \in S}
         /\ Demote(S, ids) \in SUBSET Sets
         /\ Demote(S, {}) = S
<1>1. Demote(S, ids) = {Demoted(s, ids) : s \in S}
  BY DEF Demote, Demoted
<1>2. Demote(S, {}) = {Demoted(s, {}) : s \in S}
  BY DEF Demote, Demoted
<1> QED BY <1>1, <1>2, DemotedFacts

\* Who clears a rung clears all that follow.
LEMMA ChainedFar ==
  ASSUME NEW s \in Sets, NEW w, Chained(w, s)
  PROVE  \A i, j \in 1..Len(s.slots) : i <= j /\ w[s.slots[i]] => w[s.slots[j]]
<1> DEFINE T == {n \in Nat : \A i \in 1..Len(s.slots) :
                   i + n <= Len(s.slots) /\ w[s.slots[i]] => w[s.slots[i + n]]}
<1>1. 0 \in T
  OBVIOUS
<1>2. ASSUME NEW n \in Nat, n \in T PROVE n + 1 \in T
  <2> SUFFICES ASSUME NEW i \in 1..Len(s.slots), i + (n + 1) <= Len(s.slots), w[s.slots[i]]
               PROVE  w[s.slots[i + (n + 1)]]
    OBVIOUS
  <2>1. Len(s.slots) \in Nat
    BY SetFacts
  <2>2. i + n \in 1..Len(s.slots) - 1 /\ i + n <= Len(s.slots) /\ (i + n) + 1 = i + (n + 1)
    BY <2>1
  <2>3. w[s.slots[i + n]]
    BY <1>2, <2>2
  <2>4. w[s.slots[(i + n) + 1]]
    BY <2>2, <2>3 DEF Chained
  <2> QED BY <2>2, <2>4
<1> HIDE DEF T
<1>3. Nat \subseteq T
  BY <1>1, <1>2, NatInduct
<1> SUFFICES ASSUME NEW i \in 1..Len(s.slots), NEW j \in 1..Len(s.slots), i <= j, w[s.slots[i]]
             PROVE  w[s.slots[j]]
  OBVIOUS
<1>4. Len(s.slots) \in Nat
  BY SetFacts
<1>5. j - i \in Nat /\ i + (j - i) = j /\ i + (j - i) <= Len(s.slots)
  BY <1>4
<1>6. j - i \in T
  BY <1>3, <1>5
<1>7. i + (j - i) <= Len(s.slots) /\ w[s.slots[i]] => w[s.slots[i + (j - i)]]
  BY <1>6 DEF T
<1> QED BY <1>5, <1>7

\* The live part of a set.
LiveSet(s, live) ==
  [s EXCEPT !.slots = LiveSlots(@, live), !.exhaustive = StillExhaustive(s, live)]

LEMMA LiveSetFacts ==
  ASSUME NEW s \in Sets, NEW live
  PROVE  /\ LiveSet(s, live) \in Sets
         /\ LiveSet(s, live).id = s.id
         /\ LiveSet(s, live).type = s.type
         /\ LiveSet(s, live).slots = LiveSlots(s.slots, live)
         /\ LiveSet(s, live).exhaustive <=> s.exhaustive /\ Slots(s) \subseteq live
         /\ Slots(LiveSet(s, live)) = Slots(s) \cap live
<1> DEFINE flag == s.exhaustive /\ Slots(s) \subseteq live
           t == LiveSlots(s.slots, live)
<1>1. LiveSet(s, live) = [id |-> s.id, type |-> s.type, slots |-> t, exhaustive |-> flag]
  <2>1. ASSUME NEW a, NEW b
        PROVE  [s EXCEPT !.slots = a, !.exhaustive = b]
                 = [id |-> s.id, type |-> s.type, slots |-> a, exhaustive |-> b]
    <3> DEFINE r == [s EXCEPT !.slots = a]
    <3>1. r = [id |-> s.id, type |-> s.type, slots |-> a, exhaustive |-> s.exhaustive]
      BY SetFacts
    <3> HIDE DEF r
    <3>2. [r EXCEPT !.exhaustive = b]
            = [id |-> s.id, type |-> s.type, slots |-> a, exhaustive |-> b]
      BY <3>1
    <3> QED BY <3>2 DEF r
  <2> QED BY <2>1 DEF LiveSet, StillExhaustive
<1>2. flag \in BOOLEAN
  OBVIOUS
<1>3. t \in Seq(Questions) /\ IsInjective(t) /\ Range(t) = Range(s.slots) \cap live
  BY SetFacts, LiveSlotsFacts
<1> HIDE DEF flag, t
<1>4. LiveSet(s, live) \in Sets
  BY <1>1, <1>2, <1>3, SetFacts DEF Sets
<1>5. /\ LiveSet(s, live).id = s.id
      /\ LiveSet(s, live).type = s.type
      /\ LiveSet(s, live).slots = t
      /\ LiveSet(s, live).exhaustive <=> flag
  BY <1>1
<1>6. Slots(LiveSet(s, live)) = Slots(s) \cap live
  BY <1>3, <1>5 DEF Slots
<1> QED BY <1>4, <1>5, <1>6 DEF flag, t

\* What a set says holds of its live part too.
LEMMA LiveSetSatisfied ==
  ASSUME NEW s \in Sets, NEW live, NEW w, Satisfies(w, s, {})
  PROVE  Satisfies(w, LiveSet(s, live), {})
<1> DEFINE t == LiveSet(s, live)
<1>1. /\ t \in Sets /\ t.type = s.type /\ t.slots = LiveSlots(s.slots, live)
      /\ t.exhaustive <=> s.exhaustive /\ Slots(s) \subseteq live
      /\ Slots(t) = Slots(s) \cap live
  BY LiveSetFacts
<1>2. \A a, b \in DOMAIN t.slots : a < b =>
        \E i, j \in DOMAIN s.slots : i < j /\ t.slots[a] = s.slots[i] /\ t.slots[b] = s.slots[j]
  BY <1>1, SetFacts, LiveSlotsFacts
<1> HIDE DEF t
<1>3. ASSUME s.type = "threshold_series" PROVE Chained(w, t)
  <2> SUFFICES ASSUME NEW a \in 1..Len(t.slots) - 1, w[t.slots[a]] PROVE w[t.slots[a + 1]]
    BY DEF Chained
  <2>1. a \in DOMAIN t.slots /\ a + 1 \in DOMAIN t.slots /\ a < a + 1
    BY <1>1, SetFacts
  <2>2. PICK i \in DOMAIN s.slots, j \in DOMAIN s.slots :
          i < j /\ t.slots[a] = s.slots[i] /\ t.slots[a + 1] = s.slots[j]
    BY <1>2, <2>1
  <2>3. i \in 1..Len(s.slots) /\ j \in 1..Len(s.slots) /\ i <= j
    BY <2>2, SetFacts
  <2>4. Chained(w, s)
    BY <1>3 DEF Satisfies
  <2> QED BY <2>2, <2>3, <2>4, ChainedFar
<1>4. ASSUME s.type = "categorical", Len(t.slots) >= 2
      PROVE  AtMostOne(w, t) /\ (t.exhaustive => \E q \in Slots(t) : w[q])
  <2>1. 1 \in DOMAIN t.slots /\ 2 \in DOMAIN t.slots
    BY <1>1, <1>4, SetFacts
  <2>2. PICK i \in DOMAIN s.slots, j \in DOMAIN s.slots : i < j
    BY <1>2, <2>1
  <2>3. Len(s.slots) >= 2
    BY <2>2, SetFacts
  <2>4. AtMostOne(w, s) /\ (s.exhaustive => \E q \in Slots(s) : w[q])
    BY <1>4, <2>3 DEF Satisfies
  <2>5. t.exhaustive => Slots(t) = Slots(s)
    BY <1>1
  <2> QED BY <1>1, <2>4, <2>5 DEF AtMostOne
<1>5. Satisfies(w, t, {})
  BY <1>1, <1>3, <1>4 DEF Satisfies
<1> QED BY <1>5 DEF t

\* A set speaks of its slots alone.
LEMMA SatisfiesAgrees ==
  ASSUME NEW s \in Sets, NEW w, NEW v, NEW U, \A q \in Slots(s) : w[q] = v[q], Satisfies(w, s, U)
  PROVE  Satisfies(v, s, U)
<1>1. \A i \in 1..Len(s.slots) : w[s.slots[i]] = v[s.slots[i]]
  BY SetFacts
<1>2. \A i \in 1..Len(s.slots) - 1 : i \in 1..Len(s.slots) /\ i + 1 \in 1..Len(s.slots)
  BY SetFacts
<1>3. Chained(w, s) => Chained(v, s)
  BY <1>1, <1>2 DEF Chained
<1>4. AtMostOne(w, s) => AtMostOne(v, s)
  BY DEF AtMostOne
<1> QED BY <1>3, <1>4 DEF Satisfies

LEMMA EdgesAgree ==
  ASSUME NEW edges \in SUBSET Edges, NEW w, NEW v, \A e \in edges : \A q \in Ends(e) : w[q] = v[q],
         SatisfiesEdges(w, edges)
  PROVE  SatisfiesEdges(v, edges)
<1>1. \A e \in Hard(edges) : w[e.from] = v[e.from] /\ w[e.to] = v[e.to]
  BY DEF Hard, Ends
<1> QED BY <1>1 DEF SatisfiesEdges

-----------------------------------------------------------------------------
(* The states of a group are the worlds of its set.                        *)

Part(w, s) == [q \in Slots(s) |-> w[q]]

LEMMA GroupComplete ==
  ASSUME NEW s \in Sets, Grouped(s), NEW w, \A q \in Slots(s) : w[q] \in BOOLEAN,
         Satisfies(w, s, {})
  PROVE  Part(w, s) \in GroupStates(s)
<1>1. CASE s.type = "threshold_series"
  <2> DEFINE L == Len(s.slots)
             T == {i \in 1..L : w[s.slots[i]]}
             state(cutoff) == [q \in Slots(s) |->
                                 \E i \in DOMAIN s.slots : s.slots[i] = q /\ i > L - cutoff]
  <2>1. Chained(w, s)
    BY <1>1 DEF Satisfies
  <2>2. L \in Nat /\ DOMAIN s.slots = 1..L
    BY SetFacts
  <2>3. PICK cutoff \in 0..L : \A i \in 1..L : i > L - cutoff <=> w[s.slots[i]]
    <3>1. CASE T = {}
      <4>1. \A i \in 1..L : ~(i > L - 0)
        BY <2>2
      <4>2. 0 \in 0..L
        BY <2>2
      <4> QED BY <3>1, <4>1, <4>2
    <3>2. CASE T # {}
      <4>1. T \in SUBSET Nat
        BY <2>2
      <4> HIDE DEF T
      <4>2. PICK m \in T : \A n \in T : m <= n
        BY <3>2, <4>1, LeastMember
      <4>3. m \in 1..L /\ w[s.slots[m]]
        BY <4>2 DEF T
      <4>4. (L - m) + 1 \in 0..L
        BY <2>2, <4>3
      <4>5. \A i \in 1..L : i > L - ((L - m) + 1) <=> m <= i
        BY <2>2, <4>3
      <4>6. \A i \in 1..L : m <= i => w[s.slots[i]]
        BY <2>1, <4>3, ChainedFar
      <4>7. \A i \in 1..L : w[s.slots[i]] => m <= i
        BY <4>2 DEF T
      <4> QED BY <4>4, <4>5, <4>6, <4>7
    <3> QED BY <3>1, <3>2
  <2>4. ASSUME NEW q \in Slots(s)
        PROVE  w[q] = (\E i \in DOMAIN s.slots : s.slots[i] = q /\ i > L - cutoff)
    <3>1. PICK i \in 1..L : s.slots[i] = q
      BY SetFacts
    <3>2. \A j \in 1..L : s.slots[j] = q => j = i
      BY <2>2, <3>1, SetFacts DEF IsInjective
    <3>3. w[q] <=> \E j \in DOMAIN s.slots : s.slots[j] = q /\ j > L - cutoff
      BY <2>2, <2>3, <3>1, <3>2
    <3>4. w[q] \in BOOLEAN
      OBVIOUS
    <3> QED BY <3>3, <3>4
  <2>5. Part(w, s) = state(cutoff)
    BY <2>4 DEF Part
  <2> QED BY <1>1, <2>5 DEF GroupStates, ChainStates
<1>2. CASE s.type = "categorical"
  <2>1. Len(s.slots) >= 2 /\ AtMostOne(w, s) /\ (s.exhaustive => \E q \in Slots(s) : w[q])
    BY <1>2 DEF Satisfies, Grouped
  <2>2. CASE \E r \in Slots(s) : w[r]
    <3>1. PICK r \in Slots(s) : w[r]
      BY <2>2
    <3>2. \A q \in Slots(s) : w[q] = (q = r)
      BY <2>1, <3>1 DEF AtMostOne
    <3>3. Part(w, s) = [q \in Slots(s) |-> q = r]
      BY <3>2 DEF Part
    <3> QED BY <1>2, <3>1, <3>3 DEF GroupStates, OneHotStates
  <2>3. CASE \A r \in Slots(s) : ~w[r]
    <3>1. \A q \in Slots(s) : w[q] = FALSE
      BY <2>3
    <3>2. Part(w, s) = [q \in Slots(s) |-> FALSE]
      BY <3>1 DEF Part
    <3>3. ~s.exhaustive
      BY <2>1, <2>3
    <3> QED BY <1>2, <3>2, <3>3 DEF GroupStates, OneHotStates
  <2> QED BY <2>2, <2>3
<1> QED BY <1>1, <1>2, SetFacts

LEMMA GroupSound ==
  ASSUME NEW s \in Sets, Grouped(s), NEW x \in GroupStates(s)
  PROVE  Satisfies(x, s, {})
<1>1. CASE s.type = "threshold_series"
  <2> DEFINE L == Len(s.slots)
  <2>1. PICK cutoff \in 0..L :
          x = [q \in Slots(s) |-> \E i \in DOMAIN s.slots : s.slots[i] = q /\ i > L - cutoff]
    BY <1>1 DEF GroupStates, ChainStates
  <2>2. L \in Nat /\ DOMAIN s.slots = 1..L /\ \A i \in 1..L : s.slots[i] \in Slots(s)
    BY SetFacts
  <2>3. ASSUME NEW i \in 1..L - 1, x[s.slots[i]] PROVE x[s.slots[i + 1]]
    <3>1. i \in 1..L /\ i + 1 \in 1..L
      BY <2>2
    <3>2. PICK j \in 1..L : s.slots[j] = s.slots[i] /\ j > L - cutoff
      BY <2>1, <2>2, <2>3, <3>1
    <3>3. j = i
      BY <2>2, <3>1, <3>2, SetFacts DEF IsInjective
    <3>4. i + 1 > L - cutoff
      BY <2>2, <3>1, <3>2, <3>3
    <3> QED BY <2>1, <2>2, <3>1, <3>4
  <2> QED BY <1>1, <2>3 DEF Satisfies, Chained
<1>2. CASE s.type = "categorical"
  <2>1. CASE \E r \in Slots(s) : x = [q \in Slots(s) |-> q = r]
    <3>1. PICK r \in Slots(s) : x = [q \in Slots(s) |-> q = r]
      BY <2>1
    <3>2. \A q \in Slots(s) : x[q] <=> q = r
      BY <3>1
    <3> QED BY <1>2, <3>2 DEF Satisfies, AtMostOne
  <2>2. CASE ~s.exhaustive /\ x = [q \in Slots(s) |-> FALSE]
    BY <1>2, <2>2 DEF Satisfies, AtMostOne
  <2> QED BY <1>2, <2>1, <2>2 DEF GroupStates, OneHotStates
<1> QED BY <1>1, <1>2, SetFacts

\* A set that is no group says nothing.
LEMMA UngroupedSays ==
  ASSUME NEW s \in Sets, ~Grouped(s), NEW w
  PROVE  Satisfies(w, s, {})
  BY SetFacts DEF Satisfies, Grouped

LEMMA GroupDomain ==
  ASSUME NEW s \in Sets, NEW x \in GroupStates(s)
  PROVE  x \in [Slots(s) -> BOOLEAN]
<1>1. ASSUME NEW r PROVE [q \in Slots(s) |-> q = r] \in [Slots(s) -> BOOLEAN]
  OBVIOUS
<1>2. [q \in Slots(s) |-> FALSE] \in [Slots(s) -> BOOLEAN]
  OBVIOUS
<1>3. OneHotStates(s, s.exhaustive) \subseteq [Slots(s) -> BOOLEAN]
  <2> SUFFICES ASSUME NEW y \in OneHotStates(s, s.exhaustive) PROVE y \in [Slots(s) -> BOOLEAN]
    OBVIOUS
  <2>1. (\E r \in Slots(s) : y = [q \in Slots(s) |-> q = r]) \/ y = [q \in Slots(s) |-> FALSE]
    BY DEF OneHotStates
  <2> QED BY <1>1, <1>2, <2>1
<1>4. ChainStates(s) \subseteq [Slots(s) -> BOOLEAN]
  BY DEF ChainStates
<1> QED BY <1>3, <1>4 DEF GroupStates

-----------------------------------------------------------------------------
(* The two readings of a cluster.                                          *)

\* A world of the facets is a combination of group states.
LEMMA ProductComplete ==
  ASSUME NEW C, NEW S \in SUBSET Sets, \A s \in S : Slots(s) \subseteq C, NEW edges
  PROVE  FacetWorlds(C, S, edges, {}) \subseteq {w \in Product(C, S) : SatisfiesEdges(w, edges)}
<1> SUFFICES ASSUME NEW w \in FacetWorlds(C, S, edges, {})
             PROVE  w \in Product(C, S) /\ SatisfiesEdges(w, edges)
  OBVIOUS
<1>1. w \in [C -> BOOLEAN] /\ SatisfiesEdges(w, edges) /\ \A s \in S : Satisfies(w, s, {})
  BY DEF FacetWorlds
<1>2. ASSUME NEW s \in S, Grouped(s)
      PROVE  \E x \in GroupStates(s) : \A q \in Slots(s) : w[q] = x[q]
  <2>1. \A q \in Slots(s) : w[q] \in BOOLEAN
    BY <1>1
  <2>2. Part(w, s) \in GroupStates(s)
    BY <1>1, <1>2, <2>1, GroupComplete
  <2>3. \A q \in Slots(s) : w[q] = Part(w, s)[q]
    BY DEF Part
  <2> QED BY <2>2, <2>3
<1>3. w \in Product(C, S)
  BY <1>1, <1>2 DEF Product
<1> QED BY <1>1, <1>3

\* When no two sets share a slot, nothing else is.
LEMMA ProductSound ==
  ASSUME NEW C, NEW S \in SUBSET Sets, Disjoint(S), NEW edges, NEW w \in Product(C, S),
         SatisfiesEdges(w, edges)
  PROVE  w \in FacetWorlds(C, S, edges, {})
<1>1. w \in [C -> BOOLEAN]
  BY DEF Product
<1>2. ASSUME NEW s \in S, Grouped(s) PROVE Satisfies(w, s, {})
  <2>1. \A q \in Slots(s), t \in S : t.id > s.id => q \notin Slots(t)
    <3> SUFFICES ASSUME NEW q \in Slots(s), NEW t \in S, t.id > s.id, q \in Slots(t) PROVE FALSE
      OBVIOUS
    <3>1. s = t
      BY DEF Disjoint
    <3> QED BY <3>1, SetFacts
  <2>2. PICK x \in GroupStates(s) : \A q \in Slots(s) : w[q] = x[q]
    BY <1>2, <2>1 DEF Product
  <2>3. Satisfies(x, s, {})
    BY <1>2, GroupSound
  <2>4. \A q \in Slots(s) : x[q] = w[q]
    BY <2>2
  <2> QED BY <2>3, <2>4, SatisfiesAgrees
<1> QED BY <1>1, <1>2, UngroupedSays DEF FacetWorlds

\* The enumerated states, if there are any, contain every world of the facets.
LEMMA EnumerateComplete ==
  ASSUME NEW C, NEW S \in SUBSET Sets, \A s \in S : Slots(s) \subseteq C, NEW edges
  PROVE  Enumerate(C, S, edges) = {} \/ FacetWorlds(C, S, edges, {}) \subseteq Enumerate(C, S, edges)
  BY ProductComplete DEF Enumerate

\* When no two sets share a slot, the enumerated states are the 0/1 points of the facets
\* (enumerateStatesMeta against constraintsToFacets).
THEOREM EnumerateSame ==
  ASSUME NEW C, NEW S \in SUBSET Sets, \A s \in S : Slots(s) \subseteq C, Disjoint(S), NEW edges,
         ~Dropped(C, S)
  PROVE  Enumerate(C, S, edges) = FacetWorlds(C, S, edges, {})
<1>1. Enumerate(C, S, edges) = {w \in Product(C, S) : SatisfiesEdges(w, edges)}
  BY DEF Enumerate
<1> QED BY <1>1, ProductComplete, ProductSound

LEMMA DemotedWorlds ==
  ASSUME NEW C, NEW S \in SUBSET Sets, NEW edges, NEW ids
  PROVE  FacetWorlds(C, S, edges, {}) \subseteq FacetWorlds(C, Demote(S, ids), edges, {})
<1> SUFFICES ASSUME NEW w \in FacetWorlds(C, S, edges, {}), NEW t \in Demote(S, ids)
             PROVE  Satisfies(w, t, {})
  BY DEF FacetWorlds
<1>1. PICK s \in S : t = Demoted(s, ids)
  BY DemoteFacts
<1>2. Weaker(t, s) /\ Satisfies(w, s, {})
  BY <1>1, DemotedFacts DEF FacetWorlds
<1> QED BY <1>2, WeakerSatisfied

-----------------------------------------------------------------------------
(* Components partition the nodes, and no link leaves one.                 *)

LEMMA ComponentFacts ==
  ASSUME NEW nodes, NEW links
  PROVE  /\ UNION Components(nodes, links) = nodes
         /\ \A C, D \in Components(nodes, links) : C \cap D # {} => C = D
         /\ \A C \in Components(nodes, links), l \in links :
              l \subseteq nodes /\ l \cap C # {} => l \subseteq C
<1> DEFINE Closed(S) == /\ S \in SUBSET nodes
                        /\ \A l \in links : l \subseteq nodes /\ l \cap S # {} => l \subseteq S
           closed == {S \in SUBSET nodes :
                        \A l \in links : l \subseteq nodes /\ l \cap S # {} => l \subseteq S}
<1>1. Components(nodes, links)
        = {S \in closed : S # {} /\ \A T \in closed : S \cap T # {} => S \subseteq T}
  BY DEF Components
<1>2. \A S : S \in closed <=> Closed(S)
  OBVIOUS
<1>3. ASSUME NEW q \in nodes PROVE \E C \in Components(nodes, links) : q \in C
  <2> DEFINE C == {r \in nodes : \A S \in closed : q \in S => r \in S}
  <2>1. q \in C
    BY <1>3
  <2>2. Closed(C)
    <3> SUFFICES ASSUME NEW l \in links, l \subseteq nodes, l \cap C # {} PROVE l \subseteq C
      OBVIOUS
    <3>1. PICK r \in C : r \in l
      OBVIOUS
    <3>2. ASSUME NEW x \in l, NEW S \in closed, q \in S PROVE x \in S
      <4>1. r \in S
        BY <3>1, <3>2
      <4> QED BY <3>1, <3>2, <4>1
    <3> QED BY <3>2
  <2>3. ASSUME NEW T \in closed, C \cap T # {} PROVE C \subseteq T
    <3>1. CASE q \in T
      BY <3>1
    <3>2. CASE q \notin T
      <4> DEFINE rest == nodes \ T
      <4>1. Closed(rest)
        <5> SUFFICES ASSUME NEW l \in links, l \subseteq nodes, l \cap rest # {}
                     PROVE  l \subseteq rest
          OBVIOUS
        <5>1. l \cap T # {} => l \subseteq T
          BY <1>2
        <5> QED BY <5>1
      <4>2. rest \in closed /\ q \in rest
        BY <1>2, <1>3, <3>2, <4>1
      <4>3. C \subseteq rest
        BY <4>2
      <4> QED BY <2>3, <4>3
    <3> QED BY <3>1, <3>2
  <2> HIDE DEF C
  <2>4. C \in closed
    BY <1>2, <2>2
  <2>5. C \in Components(nodes, links)
    BY <1>1, <2>1, <2>3, <2>4
  <2> QED BY <2>1, <2>5
<1>4. \A C \in Components(nodes, links) : Closed(C)
  BY <1>1, <1>2
<1>5. UNION Components(nodes, links) = nodes
  BY <1>3, <1>4
<1>6. ASSUME NEW C \in Components(nodes, links), NEW D \in Components(nodes, links), C \cap D # {}
      PROVE  C = D
  <2>1. C \subseteq D /\ D \subseteq C
    BY <1>1, <1>6
  <2> QED BY <2>1
<1> QED BY <1>4, <1>5, <1>6

-----------------------------------------------------------------------------
(* The structure key determines what a cluster says.                       *)

SetContent(s) == <<s.type, s.exhaustive, s.slots>>
EdgeContent(e) == <<e.type, IF e.type = "strict_implication" THEN <<e.from, e.to>> ELSE Ends(e)>>

SameKey(C, S, E, S0, E0) == StructureKey(C, S, E) = StructureKey(C, S0, E0)

LEMMA KeyContents ==
  ASSUME NEW C, NEW S, NEW E, NEW S0, NEW E0, SameKey(C, S, E, S0, E0)
  PROVE  /\ SetTally(S) = SetTally(S0)
         /\ {SetContent(s) : s \in S} = {SetContent(s) : s \in S0}
         /\ {EdgeContent(e) : e \in Hard(E)} = {EdgeContent(e) : e \in Hard(E0)}
<1> DEFINE EdgeTally(edges) == Tally([e \in Hard(edges) |-> EdgeContent(e)])
<1>1. \A edges, sets : StructureKey(C, sets, edges)
        = [members |-> C, sets |-> SetTally(sets), edges |-> EdgeTally(edges)]
  BY DEF StructureKey, EdgeContent
<1> HIDE DEF EdgeTally
<1>2. SetTally(S) = SetTally(S0) /\ EdgeTally(E) = EdgeTally(E0)
  BY <1>1 DEF SameKey
<1>3. \A sets : DOMAIN SetTally(sets) = {SetContent(s) : s \in sets}
  BY DEF SetTally, Tally, Range, SetContent
<1>4. \A edges : DOMAIN EdgeTally(edges) = {EdgeContent(e) : e \in Hard(edges)}
  BY DEF EdgeTally, Tally, Range
<1>5. {SetContent(s) : s \in S} = {SetContent(s) : s \in S0}
  BY <1>2, <1>3
<1>6. {EdgeContent(e) : e \in Hard(E)} = {EdgeContent(e) : e \in Hard(E0)}
  BY <1>2, <1>4
<1> QED BY <1>2, <1>5, <1>6

LEMMA SetContentFacts ==
  ASSUME NEW s, NEW t, SetContent(s) = SetContent(t)
  PROVE  s.type = t.type /\ s.exhaustive = t.exhaustive /\ s.slots = t.slots
  BY DEF SetContent

\* The edges of one satisfy the other.
LEMMA KeyEdges ==
  ASSUME NEW E \in SUBSET Edges, NEW E0 \in SUBSET Edges,
         {EdgeContent(e) : e \in Hard(E)} = {EdgeContent(e) : e \in Hard(E0)},
         NEW w, SatisfiesEdges(w, E0)
  PROVE  SatisfiesEdges(w, E)
<1> SUFFICES ASSUME NEW e \in Hard(E)
             PROVE  /\ e.type = "strict_implication" => (w[e.from] => w[e.to])
                    /\ e.type = "mutual_exclusion" => ~(w[e.from] /\ w[e.to])
                    /\ e.type = "equivalence" => w[e.from] = w[e.to]
  BY DEF SatisfiesEdges
<1>1. PICK d \in Hard(E0) : EdgeContent(e) = EdgeContent(d)
  OBVIOUS
<1>2. e.type = d.type
  BY <1>1 DEF EdgeContent
<1>3. /\ d.type = "strict_implication" => (w[d.from] => w[d.to])
      /\ d.type = "mutual_exclusion" => ~(w[d.from] /\ w[d.to])
      /\ d.type = "equivalence" => w[d.from] = w[d.to]
  BY DEF SatisfiesEdges
<1>4. CASE e.type = "strict_implication"
  <2>1. e.from = d.from /\ e.to = d.to
    BY <1>1, <1>2, <1>4 DEF EdgeContent
  <2> QED BY <1>2, <1>3, <1>4, <2>1
<1>5. CASE e.type # "strict_implication"
  <2>1. Ends(e) = Ends(d)
    BY <1>1, <1>2, <1>5 DEF EdgeContent
  <2>2. (e.from = d.from /\ e.to = d.to) \/ (e.from = d.to /\ e.to = d.from)
    BY <2>1 DEF Ends
  <2> QED BY <1>2, <1>3, <1>5, <2>2
<1> QED BY <1>4, <1>5

LEMMA ContentWorlds ==
  ASSUME NEW C, NEW S \in SUBSET Sets, NEW E \in SUBSET Edges,
         NEW S0 \in SUBSET Sets, NEW E0 \in SUBSET Edges,
         {SetContent(s) : s \in S} = {SetContent(s) : s \in S0},
         {EdgeContent(e) : e \in Hard(E)} = {EdgeContent(e) : e \in Hard(E0)}
  PROVE  FacetWorlds(C, S0, E0, {}) \subseteq FacetWorlds(C, S, E, {})
<1> SUFFICES ASSUME NEW w \in FacetWorlds(C, S0, E0, {}) PROVE w \in FacetWorlds(C, S, E, {})
  OBVIOUS
<1>1. SatisfiesEdges(w, E)
  <2>1. SatisfiesEdges(w, E0)
    BY DEF FacetWorlds
  <2> QED BY <2>1, KeyEdges
<1>2. ASSUME NEW s \in S PROVE Satisfies(w, s, {})
  <2>1. PICK t \in S0 : SetContent(s) = SetContent(t)
    OBVIOUS
  <2>2. Weaker(s, t)
    BY <2>1, SetContentFacts DEF Weaker
  <2> QED BY <2>2, WeakerSatisfied DEF FacetWorlds
<1> QED BY <1>1, <1>2 DEF FacetWorlds

-----------------------------------------------------------------------------
(* What loading, the latch and the belt make of the tables: fewer sets,    *)
(* fewer edges, and never a world less.                                    *)

\* The graphs that may be loaded from the tables d.
GraphsOf(d) ==
  [questions : {d.live}, sets : SUBSET LiveSets(d),
   edges : SUBSET {e \in d.edges : Ends(e) \subseteq d.live}, suspects : SUBSET SUBSET Questions]

Latches == [sets : SUBSET Nat, pairs : SUBSET Pairs(Questions)]

LEMMA PairsFacts ==
  ASSUME NEW A, NEW B, A \subseteq B
  PROVE  Pairs(A) \subseteq Pairs(B) /\ Pairs(A) \subseteq SUBSET A
  BY DEF Pairs

LEMMA LoadedGraph ==
  ASSUME NEW d \in Tables
  PROVE  LoadConstraintGraph(d) \in GraphsOf(d)
  BY DEF LoadConstraintGraph, GraphsOf

LEMMA GraphExcept ==
  ASSUME NEW d, NEW g \in GraphsOf(d), NEW a, NEW b, NEW c
  PROVE  [g EXCEPT !.sets = a, !.edges = b, !.suspects = c]
           = [questions |-> g.questions, sets |-> a, edges |-> b, suspects |-> c]
<1> DEFINE r == [g EXCEPT !.sets = a]
           q == [r EXCEPT !.edges = b]
<1>1. r = [questions |-> g.questions, sets |-> a, edges |-> g.edges, suspects |-> g.suspects]
  BY DEF GraphsOf
<1> HIDE DEF r
<1>2. q = [questions |-> g.questions, sets |-> a, edges |-> b, suspects |-> g.suspects]
  BY <1>1
<1> HIDE DEF q
<1>3. [q EXCEPT !.suspects = c]
        = [questions |-> g.questions, sets |-> a, edges |-> b, suspects |-> c]
  BY <1>2
<1> QED BY <1>3 DEF q, r

LEMMA LatchedGraph ==
  ASSUME NEW d, NEW g \in GraphsOf(d), NEW l \in Latches
  PROVE  /\ Latched(g, l) \in GraphsOf(d)
         /\ Latched(g, l).sets = {s \in g.sets : s.id \notin l.sets}
<1>1. Latched(g, l) = [questions |-> g.questions,
                       sets |-> {s \in g.sets : s.id \notin l.sets},
                       edges |-> {e \in g.edges : e.type = "mutual_exclusion" => Ends(e) \notin l.pairs},
                       suspects |-> g.suspects \cup l.pairs]
  <2> DEFINE a == {s \in g.sets : s.id \notin l.sets}
             b == {e \in g.edges : e.type = "mutual_exclusion" => Ends(e) \notin l.pairs}
             c == g.suspects \cup l.pairs
  <2>1. Latched(g, l) = [g EXCEPT !.sets = a, !.edges = b, !.suspects = c]
    BY DEF Latched
  <2> HIDE DEF a, b, c
  <2>2. Latched(g, l) = [questions |-> g.questions, sets |-> a, edges |-> b, suspects |-> c]
    BY <2>1, GraphExcept
  <2> QED BY <2>2 DEF a, b, c
<1>2. l.pairs \subseteq SUBSET Questions
  BY PairsFacts DEF Latches
<1>3. g.suspects \cup l.pairs \in SUBSET SUBSET Questions
  BY <1>2 DEF GraphsOf
<1> QED BY <1>1, <1>3 DEF GraphsOf

LEMMA GraphSets ==
  ASSUME NEW d \in Tables, NEW s \in LiveSets(d)
  PROVE  /\ s \in Sets
         /\ Slots(s) \subseteq d.live
         /\ Slots(s) # {}
         /\ \E t \in d.sets : s = LiveSet(t, d.live)
<1>1. LiveSets(d) = {LiveSet(t, d.live) : t \in {t \in d.sets : Slots(t) \cap d.live # {}}}
  BY DEF LiveSets, LiveSet
<1>2. PICK t \in d.sets : s = LiveSet(t, d.live) /\ Slots(t) \cap d.live # {}
  BY <1>1
<1>3. t \in Sets
  BY DEF Tables
<1> QED BY <1>2, <1>3, LiveSetFacts

\* What the belt takes, and what is left.
LEMMA BeltFacts ==
  ASSUME NEW d \in Tables, NEW g \in GraphsOf(d), NEW high
  PROVE  /\ Belt(g, high).graph \in GraphsOf(d)
         /\ Belt(g, high).refuted.sets \subseteq g.sets
         /\ Belt(g, high).graph.sets = g.sets \ Belt(g, high).refuted.sets
         /\ Belt(g, high).refuted.pairs \subseteq Pairs(Questions)
<1> DEFINE fused(S) == Pairs(S) \cap Fused
           overbid(S) == IF Pairs(S \cap high) # {} THEN Pairs(S) ELSE {}
           refuting(S) == IF fused(S) # {} THEN fused(S) ELSE overbid(S)
           out == {s \in g.sets : s.type = "categorical" /\ refuting(Slots(s)) # {}}
           mutexed == UNION {Ends(e) : e \in Mutexes(g)}
           cliques == {K \in Components(mutexed, {Ends(e) : e \in Mutexes(g)}) : refuting(K) # {}}
           gone == {e \in Mutexes(g) : \E K \in cliques : e.from \in K}
           pairs == UNION ({refuting(Slots(s)) : s \in out}
                             \cup {fused(K) \cup overbid(K) : K \in cliques})
<1>1. ASSUME NEW S, S \subseteq Questions
      PROVE  refuting(S) \subseteq Pairs(Questions) /\ fused(S) \cup overbid(S) \subseteq Pairs(Questions)
  BY <1>1, PairsFacts
<1>2. \A s \in out : Slots(s) \subseteq Questions
  <2>1. \A s \in g.sets : s \in LiveSets(d)
    BY DEF GraphsOf
  <2> QED BY <2>1, GraphSets, SetFacts
<1>3. \A K \in cliques : K \subseteq Questions
  <2>1. mutexed \subseteq Questions
    BY DEF Mutexes, Ends, GraphsOf, Tables, Edges
  <2>2. \A K \in cliques : K \subseteq mutexed
    BY ComponentFacts
  <2> QED BY <2>1, <2>2
<1>4. pairs \subseteq Pairs(Questions)
  <2> HIDE DEF out, cliques, fused, overbid, refuting
  <2> SUFFICES ASSUME NEW p \in pairs PROVE p \in Pairs(Questions)
    OBVIOUS
  <2>1. ASSUME NEW s \in out, p \in refuting(Slots(s)) PROVE p \in Pairs(Questions)
    BY <1>1, <1>2, <2>1
  <2>2. ASSUME NEW K \in cliques, p \in fused(K) \cup overbid(K) PROVE p \in Pairs(Questions)
    BY <1>1, <1>3, <2>2
  <2> QED BY <2>1, <2>2
<1>5. Belt(g, high) = [graph |-> [g EXCEPT !.sets = @ \ out, !.edges = @ \ gone,
                                           !.suspects = @ \cup pairs],
                       refuted |-> [sets |-> out, pairs |-> pairs]]
  BY DEF Belt
<1>6. pairs \subseteq SUBSET Questions
  BY <1>4, PairsFacts
<1> HIDE DEF out, gone, pairs
<1> DEFINE left == [g EXCEPT !.sets = @ \ out, !.edges = @ \ gone, !.suspects = @ \cup pairs]
<1>7. left = [questions |-> g.questions, sets |-> g.sets \ out, edges |-> g.edges \ gone,
              suspects |-> g.suspects \cup pairs]
  BY GraphExcept
<1>8. left \in GraphsOf(d) /\ left.sets = g.sets \ out
  BY <1>6, <1>7 DEF GraphsOf
<1>9. out \subseteq g.sets
  BY DEF out
<1> HIDE DEF left
<1>10. Belt(g, high).graph = left /\ Belt(g, high).refuted = [sets |-> out, pairs |-> pairs]
  BY <1>5 DEF left
<1> QED BY <1>4, <1>8, <1>9, <1>10

\* Clusters partition the live questions, and their sets and edges stay inside.
LEMMA MemberFacts ==
  ASSUME NEW d \in Tables, NEW g \in GraphsOf(d)
  PROVE  /\ UNION Members(g) = d.live
         /\ \A C, D \in Members(g) : C \cap D # {} => C = D
         /\ \A C \in Members(g) :
              /\ SetsIn(g, C) \in SUBSET Sets
              /\ \A s \in SetsIn(g, C) : Slots(s) \subseteq C /\ Slots(s) # {} /\ s \in LiveSets(d)
              /\ EdgesIn(g, C) \in SUBSET Edges
              /\ \A e \in EdgesIn(g, C) : Ends(e) \subseteq C
<1> DEFINE links == {Ends(e) : e \in g.edges} \cup g.suspects \cup {Slots(s) : s \in g.sets}
<1>1. Members(g) = Components(d.live, links)
  BY DEF Members, GraphsOf
<1>2. \A s \in g.sets : s \in LiveSets(d) /\ s \in Sets /\ Slots(s) \subseteq d.live /\ Slots(s) # {}
  BY GraphSets DEF GraphsOf
<1>3. \A s \in g.sets : Slots(s) \in links
  OBVIOUS
<1> HIDE DEF links
<1>4. UNION Members(g) = d.live /\ \A C, D \in Members(g) : C \cap D # {} => C = D
  BY <1>1, ComponentFacts
<1>5. ASSUME NEW C \in Members(g), NEW s \in SetsIn(g, C)
      PROVE  s \in Sets /\ Slots(s) \subseteq C /\ Slots(s) # {} /\ s \in LiveSets(d)
  <2>1. s \in g.sets /\ Slots(s) \cap C # {}
    BY DEF SetsIn
  <2>2. Slots(s) \subseteq C
    BY <1>1, <1>2, <1>3, <2>1, ComponentFacts
  <2> QED BY <1>2, <2>1, <2>2
<1>6. ASSUME NEW C \in Members(g), NEW e \in EdgesIn(g, C)
      PROVE  e \in Edges /\ Ends(e) \subseteq C
  BY DEF EdgesIn, GraphsOf, Tables
<1> QED BY <1>4, <1>5, <1>6

\* The persisted worlds are worlds of every cluster of a graph that was loaded from them.
LEMMA GraphWorlds ==
  ASSUME NEW d \in Tables, NEW g \in GraphsOf(d), NEW C \in Members(g),
         NEW w \in PersistedWorlds(d)
  PROVE  [q \in C |-> w[q]] \in FacetWorlds(C, SetsIn(g, C), EdgesIn(g, C), {})
<1> DEFINE v == [q \in C |-> w[q]]
<1>1. /\ w \in [Questions -> BOOLEAN]
      /\ \A s \in d.sets : Satisfies(w, s, {})
      /\ SatisfiesEdges(w, d.edges)
  BY DEF PersistedWorlds, FacetWorlds
<1>2. C \subseteq Questions
  BY MemberFacts DEF Tables
<1>3. v \in [C -> BOOLEAN] /\ \A q \in C : v[q] = w[q]
  BY <1>1, <1>2
<1> HIDE DEF v
<1>4. ASSUME NEW s \in SetsIn(g, C) PROVE Satisfies(v, s, {})
  <2>1. s \in LiveSets(d) /\ s \in Sets /\ Slots(s) \subseteq C
    BY MemberFacts
  <2>2. PICK t \in d.sets : s = LiveSet(t, d.live)
    BY <2>1, GraphSets
  <2>3. t \in Sets
    BY DEF Tables
  <2>4. Satisfies(w, s, {})
    BY <1>1, <2>2, <2>3, LiveSetSatisfied
  <2>5. \A q \in Slots(s) : w[q] = v[q]
    BY <1>3, <2>1
  <2> QED BY <2>1, <2>4, <2>5, SatisfiesAgrees
<1>5. SatisfiesEdges(v, EdgesIn(g, C))
  <2>1. EdgesIn(g, C) \in SUBSET Edges /\ EdgesIn(g, C) \subseteq d.edges
    BY MemberFacts DEF EdgesIn, GraphsOf
  <2>2. SatisfiesEdges(w, EdgesIn(g, C))
    BY <1>1, <2>1 DEF SatisfiesEdges, Hard
  <2>3. \A e \in EdgesIn(g, C) : \A q \in Ends(e) : w[q] = v[q]
    BY <1>3, MemberFacts
  <2> QED BY <2>1, <2>2, <2>3, EdgesAgree
<1>6. v \in FacetWorlds(C, SetsIn(g, C), EdgesIn(g, C), {})
  BY <1>3, <1>4, <1>5 DEF FacetWorlds
<1> QED BY <1>6 DEF v
-----------------------------------------------------------------------------
(* Sets that share no slot, and the cap.                                   *)

Ids(S) == {s.id : s \in S}

\* The sets S of a cluster C, as they may be read from the tables d: a set of the tables that
\* has the same id has the same type and slots.
Kin(C, S, d) ==
  /\ C \subseteq Questions
  /\ S \in SUBSET Sets
  /\ IsFiniteSet(S)
  /\ \A s, t \in S : s.id = t.id => s = t
  /\ \A s \in S : Slots(s) \subseteq C /\ Slots(s) # {} /\ s.id < d.serial
  /\ \A s \in S, t \in d.sets :
       s.id = t.id => s.type = t.type /\ s.slots = LiveSlots(t.slots, C)

Distinct(S) == \A s, t \in S : SetContent(s) = SetContent(t) => s = t

LEMMA DisjointDistinct ==
  ASSUME NEW C, NEW d, NEW S, Kin(C, S, d), Disjoint(S)
  PROVE  Distinct(S)
<1> SUFFICES ASSUME NEW s \in S, NEW t \in S, SetContent(s) = SetContent(t) PROVE s = t
  BY DEF Distinct
<1>1. Slots(s) = Slots(t) /\ Slots(s) # {}
  BY SetContentFacts DEF Kin, Slots
<1> QED BY <1>1 DEF Disjoint

\* Sets that share no slot do so in the other reading of the same key.
LEMMA DisjointSame ==
  ASSUME NEW C, NEW d, NEW S, Kin(C, S, d), Disjoint(S), NEW S0, Kin(C, S0, d),
         SetTally(S) = SetTally(S0)
  PROVE  Disjoint(S0) /\ Distinct(S0)
<1> DEFINE With(sets, x) == {s \in sets : SetContent(s) = x}
<1>1. ASSUME NEW sets
      PROVE  /\ DOMAIN SetTally(sets) = {SetContent(s) : s \in sets}
             /\ \A s \in sets :
                  SetTally(sets)[SetContent(s)] = Cardinality(With(sets, SetContent(s)))
  <2> DEFINE content == [s \in sets |-> <<s.type, s.exhaustive, s.slots>>]
  <2>1. Range(content) = {SetContent(s) : s \in sets}
    BY DEF Range, SetContent
  <2>2. \A x : {y \in DOMAIN content : content[y] = x} = With(sets, x)
    BY DEF SetContent
  <2> HIDE DEF content
  <2>3. Tally(content) = [x \in {SetContent(s) : s \in sets} |-> Cardinality(With(sets, x))]
    BY <2>1, <2>2 DEF Tally
  <2>4. SetTally(sets) = Tally(content)
    BY DEF SetTally, content
  <2> QED BY <2>3, <2>4
<1> HIDE DEF With
<1>2. Distinct(S)
  BY DisjointDistinct
<1>3. {SetContent(s) : s \in S} = {SetContent(s) : s \in S0}
  BY <1>1
<1>4. ASSUME NEW s \in S0, NEW t \in S0, SetContent(s) = SetContent(t) PROVE s = t
  <2>1. PICK r \in S : SetContent(r) = SetContent(s)
    BY <1>3
  <2>2. With(S, SetContent(r)) = {r}
    BY <1>2 DEF Distinct, With
  <2>3. Cardinality(With(S, SetContent(r))) = 1
    BY <2>2, FS_Singleton
  <2>4. Cardinality(With(S0, SetContent(s))) = 1
    <3>1. SetTally(S)[SetContent(r)] = Cardinality(With(S, SetContent(r)))
      BY <1>1
    <3>2. SetTally(S0)[SetContent(s)] = Cardinality(With(S0, SetContent(s)))
      BY <1>1
    <3> QED BY <2>1, <2>3, <3>1, <3>2
  <2>5. IsFiniteSet(With(S0, SetContent(s)))
    BY FS_Subset DEF Kin, With
  <2>6. PICK x : With(S0, SetContent(s)) = {x}
    BY <2>4, <2>5, FS_Singleton
  <2>7. s \in With(S0, SetContent(s)) /\ t \in With(S0, SetContent(s))
    BY <1>4 DEF With
  <2> QED BY <2>6, <2>7
<1>5. ASSUME NEW s \in S0, NEW t \in S0, Slots(s) \cap Slots(t) # {} PROVE s = t
  <2>1. PICK s1 \in S : SetContent(s1) = SetContent(s)
    BY <1>3
  <2>2. PICK t1 \in S : SetContent(t1) = SetContent(t)
    BY <1>3
  <2>3. Slots(s1) \cap Slots(t1) # {}
    BY <1>5, <2>1, <2>2, SetContentFacts DEF Slots
  <2>4. s1 = t1
    BY <2>3 DEF Disjoint
  <2> QED BY <1>4, <2>1, <2>2, <2>4
<1> QED BY <1>4, <1>5 DEF Disjoint, Distinct
Groups(S) == {s \in S : Grouped(s)}

Choices(S) ==
  {f \in [Groups(S) -> UNION {GroupStates(s) : s \in Groups(S)}] :
     \A s \in Groups(S) : f[s] \in GroupStates(s)}

LEMMA FunctionsFinite ==
  ASSUME NEW A, IsFiniteSet(A), NEW B, IsFiniteSet(B)
  PROVE  IsFiniteSet([A -> B])
<1> DEFINE h == [f \in [A -> B] |-> {x \in A \X B : f[x[1]] = x[2]}]
<1>1. h \in [[A -> B] -> SUBSET (A \X B)]
  OBVIOUS
<1>2. ASSUME NEW f \in [A -> B], NEW g \in [A -> B], h[f] = h[g] PROVE f = g
  <2>1. ASSUME NEW a \in A PROVE f[a] = g[a]
    <3>1. <<a, f[a]>> \in h[f]
      OBVIOUS
    <3>2. <<a, f[a]>> \in h[g]
      BY <1>2, <3>1
    <3> QED BY <3>2
  <2> QED BY <2>1
<1> HIDE DEF h
<1>3. h \in Injection([A -> B], SUBSET (A \X B))
  BY <1>1, <1>2 DEF Injection, IsInjective
<1>4. IsFiniteSet(SUBSET (A \X B))
  BY FS_Product, FS_SUBSET
<1> QED BY <1>3, <1>4, FS_Injection

LEMMA FiniteRange ==
  ASSUME NEW f, f = [x \in DOMAIN f |-> f[x]], IsFiniteSet(DOMAIN f)
  PROVE  IsFiniteSet(Range(f))
<1>1. f \in Surjection(DOMAIN f, Range(f))
  BY DEF Surjection, Range
<1> QED BY <1>1, FS_Surjection

LEMMA ChoicesFinite ==
  ASSUME NEW C, NEW d, NEW S, Kin(C, S, d)
  PROVE  IsFiniteSet(Choices(S)) /\ IsFiniteSet(C)
<1> DEFINE states == [A \in SUBSET C |-> [A -> BOOLEAN]]
           X == UNION Range(states)
<1>1. IsFiniteSet(C)
  BY OmegaAssumption, FS_Subset DEF Kin
<1>2. IsFiniteSet(BOOLEAN)
  <2>1. BOOLEAN = {TRUE} \cup {FALSE}
    OBVIOUS
  <2>2. IsFiniteSet({TRUE})
    BY FS_Singleton
  <2> QED BY <2>1, <2>2, FS_AddElement
<1>3. IsFiniteSet(X)
  <2>1. IsFiniteSet(SUBSET C)
    BY <1>1, FS_SUBSET
  <2>2. IsFiniteSet(Range(states))
    BY <2>1, FiniteRange
  <2>3. ASSUME NEW T \in Range(states) PROVE IsFiniteSet(T)
    <3>1. PICK A \in SUBSET C : T = [A -> BOOLEAN]
      BY DEF Range
    <3>2. IsFiniteSet(A)
      BY <1>1, FS_Subset
    <3> QED BY <1>2, <3>1, <3>2, FunctionsFinite
  <2> HIDE DEF states
  <2> QED BY <2>2, <2>3, FS_UNION
<1>4. ASSUME NEW s \in Groups(S) PROVE GroupStates(s) \subseteq X
  <2>1. s \in Sets /\ Slots(s) \in SUBSET C
    BY DEF Groups, Kin
  <2>2. GroupStates(s) \subseteq [Slots(s) -> BOOLEAN]
    BY <2>1, GroupDomain
  <2>3. [Slots(s) -> BOOLEAN] \in Range(states)
    BY <2>1 DEF Range
  <2> QED BY <2>2, <2>3
<1>5. IsFiniteSet([Groups(S) -> X])
  <2>1. IsFiniteSet(Groups(S))
    BY FS_Subset DEF Groups, Kin
  <2> HIDE DEF X
  <2> QED BY <1>3, <2>1, FunctionsFinite
<1> HIDE DEF X
<1>6. Choices(S) \subseteq [Groups(S) -> X]
  <2> SUFFICES ASSUME NEW f \in Choices(S) PROVE f \in [Groups(S) -> X]
    OBVIOUS
  <2>1. f = [s \in Groups(S) |-> f[s]] /\ \A s \in Groups(S) : f[s] \in GroupStates(s)
    BY DEF Choices
  <2>2. \A s \in Groups(S) : f[s] \in X
    BY <1>4, <2>1
  <2> QED BY <2>1, <2>2
<1> QED BY <1>1, <1>5, <1>6, FS_Subset

LEMMA ChoicesInject ==
  ASSUME NEW S, NEW S0, {SetContent(s) : s \in S} = {SetContent(s) : s \in S0},
         Distinct(S), IsFiniteSet(Choices(S0))
  PROVE  Cardinality(Choices(S)) <= Cardinality(Choices(S0))
<1> DEFINE twin == [t \in Groups(S0) |-> CHOOSE s \in S : SetContent(s) = SetContent(t)]
           h == [f \in Choices(S) |-> [t \in Groups(S0) |-> f[twin[t]]]]
<1>1. ASSUME NEW s, NEW t, SetContent(s) = SetContent(t)
      PROVE  (Grouped(s) <=> Grouped(t)) /\ GroupStates(s) = GroupStates(t)
  <2>1. s.type = t.type /\ s.exhaustive = t.exhaustive /\ s.slots = t.slots
    BY <1>1, SetContentFacts
  <2> QED BY <2>1 DEF Grouped, GroupStates, ChainStates, OneHotStates, Slots
<1>2. ASSUME NEW t \in Groups(S0)
      PROVE  twin[t] \in Groups(S) /\ SetContent(twin[t]) = SetContent(t)
  <2>1. \E s \in S : SetContent(s) = SetContent(t)
    BY DEF Groups
  <2>2. twin[t] \in S /\ SetContent(twin[t]) = SetContent(t)
    BY <2>1
  <2> QED BY <1>1, <2>2 DEF Groups
<1>3. ASSUME NEW s \in Groups(S) PROVE \E t \in Groups(S0) : twin[t] = s
  <2>1. PICK t \in S0 : SetContent(t) = SetContent(s)
    BY DEF Groups
  <2>2. t \in Groups(S0)
    BY <1>1, <2>1 DEF Groups
  <2>3. SetContent(twin[t]) = SetContent(s) /\ twin[t] \in S
    BY <1>2, <2>1, <2>2 DEF Groups
  <2>4. twin[t] = s
    BY <2>3 DEF Distinct, Groups
  <2> QED BY <2>2, <2>4
<1> HIDE DEF twin
<1>4. ASSUME NEW f \in Choices(S) PROVE h[f] \in Choices(S0)
  <2>1. \A t \in Groups(S0) : f[twin[t]] \in GroupStates(t)
    BY <1>1, <1>2 DEF Choices
  <2>2. h[f] = [t \in Groups(S0) |-> f[twin[t]]]
    OBVIOUS
  <2> HIDE DEF h
  <2> QED BY <2>1, <2>2 DEF Choices
<1>5. ASSUME NEW f \in Choices(S), NEW g \in Choices(S), h[f] = h[g] PROVE f = g
  <2>1. ASSUME NEW s \in Groups(S) PROVE f[s] = g[s]
    <3>1. PICK t \in Groups(S0) : twin[t] = s
      BY <1>3
    <3>2. h[f][t] = f[s] /\ h[g][t] = g[s]
      BY <3>1
    <3> QED BY <1>5, <3>2
  <2> HIDE DEF h
  <2>2. DOMAIN f = Groups(S) /\ DOMAIN g = Groups(S)
    BY DEF Choices
  <2> QED BY <2>1, <2>2 DEF Choices
<1>6. h \in Injection(Choices(S), Choices(S0))
  <2>1. h \in [Choices(S) -> Choices(S0)]
    BY <1>4
  <2> HIDE DEF h
  <2> QED BY <1>5, <2>1 DEF Injection, IsInjective
<1> QED BY <1>6, FS_Injection
\* The cap cuts off both readings of a key, or neither.
LEMMA DroppedSame ==
  ASSUME NEW C, NEW d, NEW S, Kin(C, S, d), Disjoint(S), NEW S0, Kin(C, S0, d),
         SetTally(S) = SetTally(S0),
         {SetContent(s) : s \in S} = {SetContent(s) : s \in S0}
  PROVE  Dropped(C, S) <=> Dropped(C, S0)
<1>1. ASSUME NEW sets PROVE ProjectedStateCount(C, sets) = Cardinality(Choices(sets) \X SUBSET Free(C, sets))
  BY DEF ProjectedStateCount, Choices, Groups
<1>2. IsFiniteSet(Choices(S)) /\ IsFiniteSet(Choices(S0)) /\ IsFiniteSet(C)
  BY ChoicesFinite
<1>3. Cardinality(Choices(S)) = Cardinality(Choices(S0))
  <2>1. Distinct(S) /\ Distinct(S0)
    BY DisjointDistinct, DisjointSame
  <2>2. Cardinality(Choices(S)) <= Cardinality(Choices(S0))
    BY <1>2, <2>1, ChoicesInject
  <2>3. Cardinality(Choices(S0)) <= Cardinality(Choices(S))
    BY <1>2, <2>1, ChoicesInject
  <2>4. Cardinality(Choices(S)) \in Nat /\ Cardinality(Choices(S0)) \in Nat
    BY <1>2, FS_CardinalityType
  <2> QED BY <2>2, <2>3, <2>4
<1>4. Free(C, S) = Free(C, S0)
  <2>1. ASSUME NEW A, NEW B, {SetContent(s) : s \in A} = {SetContent(s) : s \in B},
               NEW s \in A, Grouped(s)
        PROVE  \E t \in B : Grouped(t) /\ Slots(s) = Slots(t)
    <3>1. PICK t \in B : SetContent(s) = SetContent(t)
      BY <2>1
    <3>2. s.type = t.type /\ s.slots = t.slots
      BY <3>1, SetContentFacts
    <3> QED BY <2>1, <3>2 DEF Grouped, Slots
  <2>2. \A s \in S : Grouped(s) => \E t \in S0 : Grouped(t) /\ Slots(s) = Slots(t)
    BY <2>1
  <2>3. \A s \in S0 : Grouped(s) => \E t \in S : Grouped(t) /\ Slots(s) = Slots(t)
    BY <2>1
  <2> QED BY <2>2, <2>3 DEF Free
<1>5. IsFiniteSet(SUBSET Free(C, S))
  BY <1>2, FS_SUBSET, FS_Subset DEF Free
<1>6. Cardinality(Choices(S) \X SUBSET Free(C, S)) = Cardinality(Choices(S0) \X SUBSET Free(C, S0))
  BY <1>2, <1>3, <1>4, <1>5, FS_Product
<1>7. ProjectedStateCount(C, S) = ProjectedStateCount(C, S0)
  BY <1>1, <1>6
<1> QED BY <1>7 DEF Dropped
LEMMA DisjointDemoted ==
  ASSUME NEW C, NEW d, NEW S, Kin(C, S, d), NEW ids
  PROVE  Disjoint(S) <=> Disjoint(Demote(S, ids))
<1>1. Demote(S, ids) = {Demoted(s, ids) : s \in S}
  BY DemoteFacts DEF Kin
<1>2. \A s \in S : Demoted(s, ids).id = s.id /\ Slots(Demoted(s, ids)) = Slots(s)
  BY DemotedFacts DEF Kin
<1>3. ASSUME Disjoint(S), NEW s \in S, NEW t \in S,
             Slots(Demoted(s, ids)) \cap Slots(Demoted(t, ids)) # {}
      PROVE  Demoted(s, ids) = Demoted(t, ids)
  BY <1>2, <1>3 DEF Disjoint
<1>4. ASSUME Disjoint(Demote(S, ids)), NEW s \in S, NEW t \in S, Slots(s) \cap Slots(t) # {}
      PROVE  s = t
  <2>1. Demoted(s, ids) \in Demote(S, ids) /\ Demoted(t, ids) \in Demote(S, ids)
    BY <1>1
  <2>2. Demoted(s, ids) = Demoted(t, ids)
    BY <1>2, <1>4, <2>1 DEF Disjoint
  <2>3. s.id = t.id
    BY <1>2, <2>2
  <2> QED BY <2>3 DEF Kin
<1>5. Disjoint(S) => Disjoint(Demote(S, ids))
  BY <1>1, <1>3 DEF Disjoint
<1>6. Disjoint(Demote(S, ids)) => Disjoint(S)
  BY <1>4 DEF Disjoint
<1> QED BY <1>5, <1>6

\* All of these sets are still in the tables.
Present(S, d) == \A s \in S : \E t \in d.sets : t.id = s.id

\* A demotion that is replayed by id on sets of the same content demotes the same content.
LEMMA ReplayedDemotion ==
  ASSUME NEW C, NEW d, NEW S, Kin(C, S, d), Present(S, d), Disjoint(S),
         NEW S0, Kin(C, S0, d), Distinct(S0),
         {SetContent(s) : s \in S} = {SetContent(s) : s \in S0},
         NEW ids, ids \subseteq Ids(S), ids \subseteq Ids(S0)
  PROVE  {SetContent(s) : s \in Demote(S, ids)} = {SetContent(s) : s \in Demote(S0, ids)}
<1>1. Distinct(S)
  BY DisjointDistinct
<1>2. ASSUME NEW s \in S, NEW t \in S0, s.id = t.id, s.id \in ids
      PROVE  SetContent(s) = SetContent(t)
  <2>1. PICK u \in d.sets : u.id = s.id
    BY DEF Present
  <2>2. s.slots = t.slots
    BY <1>2, <2>1 DEF Kin
  <2>3. PICK r \in S : SetContent(r) = SetContent(t)
    OBVIOUS
  <2>4. Slots(r) = Slots(s) /\ Slots(s) # {}
    BY <2>2, <2>3, SetContentFacts DEF Slots, Kin
  <2>5. r = s
    BY <2>4 DEF Disjoint
  <2> QED BY <2>3, <2>5
<1>3. ASSUME NEW s \in S, NEW t \in S0, SetContent(s) = SetContent(t)
      PROVE  SetContent(Demoted(s, ids)) = SetContent(Demoted(t, ids))
  <2>1. s.id \in ids => t.id \in ids
    <3> SUFFICES ASSUME s.id \in ids PROVE t.id \in ids
      OBVIOUS
    <3>1. PICK r \in S0 : r.id = s.id
      BY DEF Ids
    <3>2. SetContent(r) = SetContent(t)
      BY <1>2, <1>3, <3>1
    <3> QED BY <3>1, <3>2 DEF Distinct
  <2>2. t.id \in ids => s.id \in ids
    <3> SUFFICES ASSUME t.id \in ids PROVE s.id \in ids
      OBVIOUS
    <3>1. PICK r \in S : r.id = t.id
      BY DEF Ids
    <3>2. SetContent(r) = SetContent(s)
      BY <1>2, <1>3, <3>1
    <3> QED BY <1>1, <3>1, <3>2 DEF Distinct
  <2>3. s.type = t.type /\ s.exhaustive = t.exhaustive /\ s.slots = t.slots
    BY <1>3, SetContentFacts
  <2>4. s \in Sets /\ t \in Sets
    BY DEF Kin
  <2>5. Demoted(s, ids).exhaustive = Demoted(t, ids).exhaustive
    <3>1. Demoted(s, ids).exhaustive <=> Demoted(t, ids).exhaustive
      BY <2>1, <2>2, <2>3, <2>4, DemotedFacts
    <3>2. Demoted(s, ids).exhaustive \in BOOLEAN /\ Demoted(t, ids).exhaustive \in BOOLEAN
      BY <2>4, DemotedFacts, SetFacts
    <3> QED BY <3>1, <3>2
  <2>6. /\ Demoted(s, ids).type = s.type /\ Demoted(s, ids).slots = s.slots
        /\ Demoted(t, ids).type = t.type /\ Demoted(t, ids).slots = t.slots
    BY <2>4, DemotedFacts DEF Weaker
  <2> QED BY <2>3, <2>5, <2>6 DEF SetContent
<1>4. /\ Demote(S, ids) = {Demoted(s, ids) : s \in S}
      /\ Demote(S0, ids) = {Demoted(s, ids) : s \in S0}
  BY DemoteFacts DEF Kin
<1>5. ASSUME NEW s \in S PROVE \E t \in S0 : SetContent(Demoted(s, ids)) = SetContent(Demoted(t, ids))
  <2>1. PICK t \in S0 : SetContent(s) = SetContent(t)
    OBVIOUS
  <2> QED BY <1>3, <2>1
<1>6. ASSUME NEW t \in S0 PROVE \E s \in S : SetContent(Demoted(s, ids)) = SetContent(Demoted(t, ids))
  <2>1. PICK s \in S : SetContent(s) = SetContent(t)
    OBVIOUS
  <2> QED BY <1>3, <2>1
<1> QED BY <1>4, <1>5, <1>6
-----------------------------------------------------------------------------
(* A cluster that is finalized, or served from an entry of the cache.      *)

\* The fields of a cluster that was finalized from the sets S0 and the edges E0.
EntryOf(e, C, S0, E0) ==
  LET demoted == Demote(S0, e.demoted)
  IN /\ e.states \subseteq [C -> BOOLEAN]
     /\ e.degenerate \in BOOLEAN /\ e.relaxed \in BOOLEAN
     /\ e.demoted \subseteq Ids(S0)
     /\ e.states # {} => e.states = Enumerate(C, demoted, E0)
     /\ Dropped(C, S0) => e.demoted = {}
     /\ ~Dropped(C, S0) /\ ~e.degenerate =>
          /\ ~Dropped(C, demoted)
          /\ e.states = Enumerate(C, demoted, E0)
          /\ Pinned(C, e.states) = {}

LEMMA EnumerateType ==
  ASSUME NEW C, NEW S, NEW E
  PROVE  /\ Enumerate(C, S, E) \subseteq [C -> BOOLEAN]
         /\ Enumerate(C, S, E) # {} => ~Dropped(C, S)
  BY DEF Enumerate, Product

LEMMA RepairedEntry ==
  ASSUME NEW C, NEW S \in SUBSET Sets, NEW E, ~Dropped(C, S)
  PROVE  /\ EntryOf(Repaired(C, S, E), C, S, E)
         /\ Repaired(C, S, E) = FromCache(Repaired(C, S, E), S, E)
<1> DEFINE states == Enumerate(C, S, E)
           offending == Offending(C, S, E, states)
           repaired == Enumerate(C, Demote(S, offending), E)
           f == Repaired(C, S, E)
<1>1. Demote(S, {}) = S
  BY DemoteFacts
<1>2. states \subseteq [C -> BOOLEAN] /\ repaired \subseteq [C -> BOOLEAN]
      /\ (repaired # {} => ~Dropped(C, Demote(S, offending)))
  BY EnumerateType
<1>3. offending \subseteq Ids(S)
  BY DEF Offending, Ids
<1>4. f = IF Pinned(C, states) = {} THEN Cluster(S, E, states, FALSE, FALSE, {})
          ELSE IF offending # {} /\ repaired # {} /\ Pinned(C, repaired) = {}
          THEN Cluster(Demote(S, offending), E, repaired, FALSE, FALSE, offending)
          ELSE Cluster(S, E, states, TRUE, FALSE, {})
  BY DEF Repaired
<1>5. states = Enumerate(C, S, E) /\ repaired = Enumerate(C, Demote(S, offending), E)
  OBVIOUS
<1> HIDE DEF states, offending, repaired, f
<1>6. CASE Pinned(C, states) = {}
  <2>1. f = Cluster(S, E, states, FALSE, FALSE, {})
    BY <1>4, <1>6
  <2>2. f.demoted = {} /\ f.states = states /\ f.degenerate = FALSE /\ f.relaxed = FALSE
    BY <2>1 DEF Cluster
  <2>3. EntryOf(f, C, S, E)
    BY <1>1, <1>2, <1>5, <1>6, <2>2 DEF EntryOf
  <2>4. FromCache(f, S, E) = f
    BY <1>1, <2>1, <2>2 DEF FromCache
  <2> QED BY <2>3, <2>4 DEF f
<1>7. CASE /\ Pinned(C, states) # {}
           /\ offending # {} /\ repaired # {} /\ Pinned(C, repaired) = {}
  <2>1. f = Cluster(Demote(S, offending), E, repaired, FALSE, FALSE, offending)
    BY <1>4, <1>7
  <2>2. f.demoted = offending /\ f.states = repaired /\ f.degenerate = FALSE /\ f.relaxed = FALSE
    BY <2>1 DEF Cluster
  <2>3. EntryOf(f, C, S, E)
    BY <1>2, <1>3, <1>5, <1>7, <2>2 DEF EntryOf
  <2>4. FromCache(f, S, E) = f
    BY <2>1, <2>2 DEF FromCache
  <2> QED BY <2>3, <2>4 DEF f
<1>8. CASE /\ Pinned(C, states) # {}
           /\ ~(offending # {} /\ repaired # {} /\ Pinned(C, repaired) = {})
  <2>1. f = Cluster(S, E, states, TRUE, FALSE, {})
    BY <1>4, <1>8
  <2>2. f.demoted = {} /\ f.states = states /\ f.degenerate = TRUE /\ f.relaxed = FALSE
    BY <2>1 DEF Cluster
  <2>3. EntryOf(f, C, S, E)
    BY <1>1, <1>2, <1>5, <2>2 DEF EntryOf
  <2>4. FromCache(f, S, E) = f
    BY <1>1, <2>1, <2>2 DEF FromCache
  <2> QED BY <2>3, <2>4 DEF f
<1> QED BY <1>6, <1>7, <1>8

LEMMA FinalizedEntry ==
  ASSUME NEW C, NEW S \in SUBSET Sets, NEW E, NEW infeasible
  PROVE  /\ EntryOf(Finalized(C, S, E, infeasible), C, S, E)
         /\ Finalized(C, S, E, infeasible) = FromCache(Finalized(C, S, E, infeasible), S, E)
<1> DEFINE f == Finalized(C, S, E, infeasible)
<1>1. CASE Dropped(C, S)
  <2> DEFINE relaxed == Cardinality(C) <= FacetCap
             degenerate == relaxed /\ C \in infeasible
  <2>1. f = Cluster(S, E, {}, degenerate, relaxed, {})
    BY <1>1 DEF Finalized
  <2>2. degenerate \in BOOLEAN /\ relaxed \in BOOLEAN
    OBVIOUS
  <2> HIDE DEF f, relaxed, degenerate
  <2>3. f.demoted = {} /\ f.states = {} /\ f.degenerate = degenerate /\ f.relaxed = relaxed
    BY <2>1 DEF Cluster
  <2>4. EntryOf(f, C, S, E)
    BY <1>1, <2>2, <2>3 DEF EntryOf
  <2>5. FromCache(f, S, E) = f
    BY <2>1, <2>3, DemoteFacts DEF FromCache
  <2> QED BY <2>4, <2>5 DEF f
<1>2. CASE ~Dropped(C, S)
  <2>1. f = Repaired(C, S, E)
    BY <1>2 DEF Finalized
  <2> HIDE DEF f
  <2>2. EntryOf(f, C, S, E) /\ f = FromCache(f, S, E)
    BY <1>2, <2>1, RepairedEntry
  <2> QED BY <2>2 DEF f
<1> QED BY <1>1, <1>2
\* Regular, of a cluster that is given.
RegularCluster(C, k) ==
  /\ Disjoint(k.sets)
  /\ FacetWorlds(C, k.sets, k.edges, {}) # {}
  /\ k.demoted \subseteq Ids(k.sets)

\* What holds of the cluster k of the members C at all times, when the graph gives it the sets S
\* and the edges E.
ClusterOK(C, S, E, k) ==
  /\ k \in [sets : SUBSET Sets, edges : SUBSET Edges, states : SUBSET [C -> BOOLEAN],
            degenerate : BOOLEAN, relaxed : BOOLEAN, demoted : SUBSET Nat, mask : SUBSET Nat]
  /\ k.sets = Demote(S, k.demoted) /\ k.edges = E
  /\ k.mask \subseteq Ids(k.sets)
  /\ k.states # {} => FacetWorlds(C, S, E, {}) \subseteq k.states
  /\ RegularCluster(C, k) /\ k.states # {} =>
       k.states = FacetWorlds(C, Demote(k.sets, k.mask), k.edges, {})
  /\ RegularCluster(C, k) /\ ~k.degenerate /\ ~Dropped(C, k.sets) =>
       Pinned(C, FacetWorlds(C, k.sets, k.edges, {})) = {}

LEMMA DemotedSlots ==
  ASSUME NEW C, NEW d, NEW S, Kin(C, S, d), NEW ids
  PROVE  /\ Demote(S, ids) \in SUBSET Sets
         /\ \A s \in Demote(S, ids) : Slots(s) \subseteq C
         /\ Ids(Demote(S, ids)) = Ids(S)
<1>1. S \in SUBSET Sets /\ \A s \in S : Slots(s) \subseteq C
  BY DEF Kin
<1>2. Demote(S, ids) = {Demoted(s, ids) : s \in S} /\ Demote(S, ids) \in SUBSET Sets
  BY <1>1, DemoteFacts
<1>3. \A s \in S : Demoted(s, ids).id = s.id /\ Slots(Demoted(s, ids)) = Slots(s)
  BY <1>1, DemotedFacts
<1> QED BY <1>1, <1>2, <1>3 DEF Ids

LEMMA ServedOK ==
  ASSUME NEW C, NEW d, NEW S, Kin(C, S, d), Present(S, d), NEW E \in SUBSET Edges,
         NEW S0, Kin(C, S0, d), NEW E0 \in SUBSET Edges, SameKey(C, S, E, S0, E0),
         NEW e, EntryOf(e, C, S0, E0)
  PROVE  ClusterOK(C, S, E, FromCache(e, S, E))
<1> DEFINE k == FromCache(e, S, E)
           worlds == FacetWorlds(C, Demote(S, e.demoted), E, {})
           worlds0 == FacetWorlds(C, Demote(S0, e.demoted), E0, {})
<1>1. k = [sets |-> Demote(S, e.demoted), edges |-> E, states |-> e.states,
           degenerate |-> e.degenerate, relaxed |-> e.relaxed, demoted |-> e.demoted, mask |-> {}]
  BY DEF FromCache, Cluster
<1>2. S \in SUBSET Sets /\ S0 \in SUBSET Sets
  BY DEF Kin
<1>3. /\ Demote(S, e.demoted) \in SUBSET Sets
      /\ Ids(Demote(S, e.demoted)) = Ids(S)
      /\ Demote(S0, e.demoted) \in SUBSET Sets
      /\ \A s \in Demote(S0, e.demoted) : Slots(s) \subseteq C
  BY DemotedSlots
<1>4. /\ SetTally(S) = SetTally(S0)
      /\ {SetContent(s) : s \in S} = {SetContent(s) : s \in S0}
      /\ {EdgeContent(x) : x \in Hard(E)} = {EdgeContent(x) : x \in Hard(E0)}
  BY KeyContents
<1>5. k \in [sets : SUBSET Sets, edges : SUBSET Edges, states : SUBSET [C -> BOOLEAN],
             degenerate : BOOLEAN, relaxed : BOOLEAN, demoted : SUBSET Nat, mask : SUBSET Nat]
  <2>1. e.demoted \in SUBSET Nat
    BY <1>2, SetFacts DEF EntryOf, Ids
  <2>2. e.states \in SUBSET [C -> BOOLEAN] /\ e.degenerate \in BOOLEAN /\ e.relaxed \in BOOLEAN
    BY DEF EntryOf
  <2> HIDE DEF k
  <2> QED BY <1>1, <1>3, <2>1, <2>2
<1>6. ASSUME e.states # {} PROVE FacetWorlds(C, S, E, {}) \subseteq e.states
  <2>1. FacetWorlds(C, S, E, {}) \subseteq FacetWorlds(C, S0, E0, {})
    BY <1>2, <1>4, ContentWorlds
  <2>2. FacetWorlds(C, S0, E0, {}) \subseteq worlds0
    BY <1>2, DemotedWorlds
  <2>3. e.states = Enumerate(C, Demote(S0, e.demoted), E0)
    BY <1>6 DEF EntryOf
  <2>4. worlds0 \subseteq e.states
    BY <1>3, <1>6, <2>3, EnumerateComplete
  <2> QED BY <2>1, <2>2, <2>4
<1>7. ASSUME RegularCluster(C, k)
      PROVE  /\ Disjoint(S) /\ Disjoint(Demote(S0, e.demoted))
             /\ worlds = worlds0
  <2>1. Disjoint(Demote(S, e.demoted)) /\ e.demoted \subseteq Ids(S)
    BY <1>1, <1>3, <1>7 DEF RegularCluster
  <2>2. Disjoint(S)
    BY <2>1, DisjointDemoted
  <2>3. Disjoint(S0) /\ Distinct(S0)
    BY <1>4, <2>2, DisjointSame
  <2>4. Disjoint(Demote(S0, e.demoted))
    BY <2>3, DisjointDemoted
  <2>5. e.demoted \subseteq Ids(S0)
    BY DEF EntryOf
  <2>6. {SetContent(s) : s \in Demote(S, e.demoted)} = {SetContent(s) : s \in Demote(S0, e.demoted)}
    <3> DEFINE ids == e.demoted
    <3>1. ids \subseteq Ids(S) /\ ids \subseteq Ids(S0)
      BY <2>1, <2>5
    <3>2. {SetContent(s) : s \in S} = {SetContent(s) : s \in S0}
      BY <1>4
    <3> HIDE DEF ids
    <3>3. {SetContent(s) : s \in Demote(S, ids)} = {SetContent(s) : s \in Demote(S0, ids)}
      BY <2>2, <2>3, <3>1, <3>2, ReplayedDemotion
    <3> QED BY <3>3 DEF ids
  <2>7. worlds0 \subseteq worlds
    BY <1>3, <1>4, <2>6, ContentWorlds
  <2>8. worlds \subseteq worlds0
    BY <1>3, <1>4, <2>6, ContentWorlds
  <2> QED BY <2>2, <2>4, <2>7, <2>8
<1>8. ASSUME RegularCluster(C, k), e.states # {} PROVE e.states = worlds
  <2>1. e.states = Enumerate(C, Demote(S0, e.demoted), E0)
    BY <1>8 DEF EntryOf
  <2>2. ~Dropped(C, Demote(S0, e.demoted))
    BY <1>8, <2>1, EnumerateType
  <2>3. Disjoint(Demote(S0, e.demoted)) /\ worlds = worlds0
    BY <1>7, <1>8
  <2>4. e.states = worlds0
    BY <1>3, <2>1, <2>2, <2>3, EnumerateSame
  <2> QED BY <2>3, <2>4
<1>9. ASSUME RegularCluster(C, k), ~e.degenerate, ~Dropped(C, Demote(S, e.demoted))
      PROVE  Pinned(C, worlds) = {}
  <2>1. Disjoint(S) /\ Disjoint(Demote(S0, e.demoted)) /\ worlds = worlds0
    BY <1>7, <1>9
  <2>2. ~Dropped(C, S0)
    <3> SUFFICES ASSUME Dropped(C, S0) PROVE FALSE
      OBVIOUS
    <3>1. Demote(S, e.demoted) = S
      BY <1>2, DemoteFacts DEF EntryOf
    <3>2. Dropped(C, S) <=> Dropped(C, S0)
      BY <1>4, <2>1, DroppedSame
    <3> QED BY <1>9, <3>1, <3>2
  <2>3. /\ ~Dropped(C, Demote(S0, e.demoted))
        /\ e.states = Enumerate(C, Demote(S0, e.demoted), E0)
        /\ Pinned(C, e.states) = {}
    BY <1>9, <2>2 DEF EntryOf
  <2>4. e.states = worlds0
    BY <1>3, <2>1, <2>3, EnumerateSame
  <2> QED BY <2>1, <2>3, <2>4
<1>10. Demote(Demote(S, e.demoted), {}) = Demote(S, e.demoted)
  BY <1>3, DemoteFacts
<1> HIDE DEF k
<1>11. ClusterOK(C, S, E, k)
  BY <1>1, <1>5, <1>6, <1>8, <1>9, <1>10 DEF ClusterOK
<1> QED BY <1>11 DEF k
\* A change of the mask.
LEMMA MaskedOK ==
  ASSUME NEW C, NEW d, NEW S, Kin(C, S, d), NEW E \in SUBSET Edges,
         NEW k, ClusterOK(C, S, E, k), NEW mask, mask \subseteq Ids(k.sets)
  PROVE  ClusterOK(C, S, E, [k EXCEPT !.mask = mask,
                                      !.states = Enumerate(C, Demote(k.sets, mask), k.edges)])
<1> DEFINE states == Enumerate(C, Demote(k.sets, mask), k.edges)
           j == [k EXCEPT !.mask = mask]
           n == [j EXCEPT !.states = states]
<1>1. k \in [sets : SUBSET Sets, edges : SUBSET Edges, states : SUBSET [C -> BOOLEAN],
             degenerate : BOOLEAN, relaxed : BOOLEAN, demoted : SUBSET Nat, mask : SUBSET Nat]
  BY DEF ClusterOK
<1>2. states \in SUBSET [C -> BOOLEAN]
  BY EnumerateType
<1>3. mask \in SUBSET Nat
  BY <1>1, SetFacts DEF Ids
<1>4. /\ Demote(k.sets, mask) \in SUBSET Sets
      /\ \A s \in Demote(k.sets, mask) : Slots(s) \subseteq C
      /\ Disjoint(k.sets) => Disjoint(Demote(k.sets, mask))
  <2>1. k.sets \in SUBSET Sets /\ k.sets = Demote(S, k.demoted)
    BY <1>1 DEF ClusterOK
  <2>2. Demote(k.sets, mask) = {Demoted(s, mask) : s \in k.sets} /\ Demote(k.sets, mask) \in SUBSET Sets
    BY <2>1, DemoteFacts
  <2>3. \A s \in k.sets : Slots(Demoted(s, mask)) = Slots(s) /\ Slots(s) \subseteq C
    BY <2>1, DemotedFacts, DemotedSlots
  <2>4. ASSUME Disjoint(k.sets), NEW s \in Demote(k.sets, mask), NEW t \in Demote(k.sets, mask),
               Slots(s) \cap Slots(t) # {}
        PROVE  s = t
    <3>1. PICK s1 \in k.sets : s = Demoted(s1, mask)
      BY <2>2
    <3>2. PICK t1 \in k.sets : t = Demoted(t1, mask)
      BY <2>2
    <3>3. s1 = t1
      BY <2>3, <2>4, <3>1, <3>2 DEF Disjoint
    <3> QED BY <3>1, <3>2, <3>3
  <2>5. Disjoint(k.sets) => Disjoint(Demote(k.sets, mask))
    BY <2>4 DEF Disjoint
  <2> QED BY <2>2, <2>3, <2>5
<1> HIDE DEF states
<1>5. /\ n \in [sets : SUBSET Sets, edges : SUBSET Edges, states : SUBSET [C -> BOOLEAN],
                degenerate : BOOLEAN, relaxed : BOOLEAN, demoted : SUBSET Nat, mask : SUBSET Nat]
      /\ n.sets = k.sets /\ n.edges = k.edges /\ n.degenerate = k.degenerate
      /\ n.demoted = k.demoted /\ n.mask = mask /\ n.states = states
  <2>1. /\ j \in [sets : SUBSET Sets, edges : SUBSET Edges, states : SUBSET [C -> BOOLEAN],
                  degenerate : BOOLEAN, relaxed : BOOLEAN, demoted : SUBSET Nat, mask : SUBSET Nat]
        /\ j.sets = k.sets /\ j.edges = k.edges /\ j.degenerate = k.degenerate
        /\ j.demoted = k.demoted /\ j.mask = mask
    BY <1>1, <1>3
  <2> HIDE DEF j
  <2> QED BY <1>2, <2>1
<1>6. n = [k EXCEPT !.mask = mask, !.states = states]
  OBVIOUS
<1> HIDE DEF n
<1>7. RegularCluster(C, n) <=> RegularCluster(C, k)
  BY <1>5 DEF RegularCluster
<1>8. ASSUME states # {} PROVE FacetWorlds(C, S, E, {}) \subseteq states
  <2>1. FacetWorlds(C, S, E, {}) \subseteq FacetWorlds(C, k.sets, k.edges, {})
    BY DemotedWorlds DEF ClusterOK, Kin
  <2>2. FacetWorlds(C, k.sets, k.edges, {}) \subseteq FacetWorlds(C, Demote(k.sets, mask), k.edges, {})
    BY <1>1, DemotedWorlds
  <2>3. FacetWorlds(C, Demote(k.sets, mask), k.edges, {}) \subseteq states
    BY <1>4, <1>8, EnumerateComplete DEF states
  <2> QED BY <2>1, <2>2, <2>3
<1>9. ASSUME RegularCluster(C, k), states # {}
      PROVE  states = FacetWorlds(C, Demote(k.sets, mask), k.edges, {})
  <2>1. ~Dropped(C, Demote(k.sets, mask))
    BY <1>9, EnumerateType DEF states
  <2>2. Disjoint(Demote(k.sets, mask))
    BY <1>4, <1>9 DEF RegularCluster
  <2> QED BY <1>4, <2>1, <2>2, EnumerateSame DEF states
<1>10. ClusterOK(C, S, E, n)
  BY <1>5, <1>7, <1>8, <1>9 DEF ClusterOK
<1> QED BY <1>6, <1>10 DEF states

-----------------------------------------------------------------------------
(* The tables, and what is read from them.                                 *)

TablesOK(d) ==
  /\ d \in Tables
  /\ IsFiniteSet(d.sets)
  /\ \A s \in d.sets : s.id < d.serial
  /\ \A s, t \in d.sets : s.id = t.id => s = t

\* The tables d may have become n: a set that is in both has kept its type and slots, one that
\* is new has a new id, and one that is gone was inserted again.
Later(n, d) ==
  /\ d.serial <= n.serial
  /\ \A t \in n.sets :
       t.id >= d.serial \/ \E s \in d.sets : s.id = t.id /\ s.type = t.type /\ s.slots = t.slots
  /\ \A s \in d.sets :
       \E t \in n.sets : t.slots = s.slots /\ (t.id = s.id \/ t.id >= d.serial)

LEMMA TablesFacts ==
  ASSUME NEW d, TablesOK(d)
  PROVE  /\ d.serial \in Nat
         /\ \A s \in d.sets : s \in Sets /\ s.id \in Nat
         /\ d.live \subseteq Questions
         /\ Later(d, d)
<1>1. d.serial \in Nat /\ d.sets \subseteq Sets /\ d.live \subseteq Questions
  BY DEF TablesOK, Tables
<1>2. \A s \in d.sets : s.id \in Nat
  BY <1>1, SetFacts
<1> QED BY <1>1, <1>2 DEF Later

LEMMA LaterStill ==
  ASSUME NEW a, TablesOK(a), NEW b, TablesOK(b), NEW c, TablesOK(c), Later(b, a), Later(c, b)
  PROVE  Later(c, a)
<1>1. a.serial \in Nat /\ b.serial \in Nat /\ c.serial \in Nat
  BY TablesFacts
<1>2. a.serial <= c.serial
  BY <1>1 DEF Later
<1>3. ASSUME NEW t \in c.sets
      PROVE  \/ t.id >= a.serial
             \/ \E s \in a.sets : s.id = t.id /\ s.type = t.type /\ s.slots = t.slots
  <2>1. t.id \in Nat
    BY TablesFacts
  <2>2. CASE t.id >= b.serial
    BY <1>1, <2>1, <2>2 DEF Later
  <2>3. CASE \E s \in b.sets : s.id = t.id /\ s.type = t.type /\ s.slots = t.slots
    <3>1. PICK s \in b.sets : s.id = t.id /\ s.type = t.type /\ s.slots = t.slots
      BY <2>3
    <3>2. s.id >= a.serial \/ \E r \in a.sets : r.id = s.id /\ r.type = s.type /\ r.slots = s.slots
      BY DEF Later
    <3> QED BY <3>1, <3>2
  <2> QED BY <2>2, <2>3 DEF Later
<1>4. ASSUME NEW s \in a.sets
      PROVE  \E t \in c.sets : t.slots = s.slots /\ (t.id = s.id \/ t.id >= a.serial)
  <2>1. PICK r \in b.sets : r.slots = s.slots /\ (r.id = s.id \/ r.id >= a.serial)
    BY DEF Later
  <2>2. PICK t \in c.sets : t.slots = r.slots /\ (t.id = r.id \/ t.id >= b.serial)
    BY DEF Later
  <2>3. t.id \in Nat
    BY TablesFacts
  <2>4. t.id = s.id \/ t.id >= a.serial
    BY <1>1, <2>1, <2>2, <2>3 DEF Later
  <2> QED BY <2>1, <2>2, <2>4
<1> QED BY <1>2, <1>3, <1>4 DEF Later

LEMMA KinStill ==
  ASSUME NEW d, TablesOK(d), NEW n, TablesOK(n), Later(n, d), NEW C, NEW S, Kin(C, S, d)
  PROVE  Kin(C, S, n)
<1>1. d.serial \in Nat /\ n.serial \in Nat
  BY TablesFacts
<1>2. \A s \in S : s.id \in Nat /\ s.id < d.serial
  BY SetFacts DEF Kin
<1>3. \A s \in S : s.id < n.serial
  BY <1>1, <1>2 DEF Later
<1>4. ASSUME NEW s \in S, NEW t \in n.sets, s.id = t.id
      PROVE  s.type = t.type /\ s.slots = LiveSlots(t.slots, C)
  <2>1. ~(t.id >= d.serial)
    BY <1>1, <1>2, <1>4
  <2>2. PICK u \in d.sets : u.id = t.id /\ u.type = t.type /\ u.slots = t.slots
    BY <2>1 DEF Later
  <2>3. s.type = u.type /\ s.slots = LiveSlots(u.slots, C)
    BY <1>4, <2>2 DEF Kin
  <2> QED BY <2>2, <2>3
<1> QED BY <1>3, <1>4 DEF Kin
\* A set of the graph comes from the set of the tables that has its id.
LEMMA LiveSetsUnique ==
  ASSUME NEW d, TablesOK(d)
  PROVE  /\ IsFiniteSet(LiveSets(d))
         /\ \A s, t \in LiveSets(d) : s.id = t.id => s = t
         /\ \A s \in LiveSets(d), t \in d.sets : s.id = t.id => s = LiveSet(t, d.live)
         /\ \A s \in LiveSets(d) : \E t \in d.sets : s = LiveSet(t, d.live) /\ t.id = s.id
<1>1. d \in Tables /\ \A t \in d.sets : t \in Sets
  BY TablesFacts DEF TablesOK
<1>2. \A s \in LiveSets(d) : \E t \in d.sets : s = LiveSet(t, d.live) /\ t.id = s.id
  BY <1>1, GraphSets, LiveSetFacts
<1>3. \A s \in LiveSets(d), t \in d.sets : s.id = t.id => s = LiveSet(t, d.live)
  BY <1>2 DEF TablesOK
<1>4. \A s, t \in LiveSets(d) : s.id = t.id => s = t
  BY <1>2, <1>3
<1>5. IsFiniteSet(LiveSets(d))
  <2> DEFINE f == [t \in d.sets |-> LiveSet(t, d.live)]
  <2>1. IsFiniteSet(DOMAIN f)
    BY DEF TablesOK
  <2>2. IsFiniteSet(Range(f))
    BY <2>1, FiniteRange
  <2>3. LiveSets(d) \in SUBSET Range(f)
    BY <1>2 DEF Range
  <2> QED BY <2>2, <2>3, FS_Subset
<1> QED BY <1>2, <1>3, <1>4, <1>5

LEMMA GraphKin ==
  ASSUME NEW d, TablesOK(d), NEW g \in GraphsOf(d), NEW C \in Members(g)
  PROVE  /\ Kin(C, SetsIn(g, C), d)
         /\ Present(SetsIn(g, C), d)
         /\ EdgesIn(g, C) \in SUBSET Edges
<1> DEFINE S == SetsIn(g, C)
<1>1. d \in Tables
  BY DEF TablesOK
<1>2. /\ C \subseteq d.live /\ d.live \subseteq Questions
      /\ S \in SUBSET Sets
      /\ \A s \in S : Slots(s) \subseteq C /\ Slots(s) # {} /\ s \in LiveSets(d)
      /\ EdgesIn(g, C) \in SUBSET Edges
  BY <1>1, MemberFacts, TablesFacts
<1> HIDE DEF S
<1>3. IsFiniteSet(S) /\ \A s, t \in S : s.id = t.id => s = t
  BY <1>2, LiveSetsUnique, FS_Subset
<1>4. ASSUME NEW s \in S PROVE s.id < d.serial /\ \E t \in d.sets : t.id = s.id
  BY <1>2, LiveSetsUnique DEF TablesOK
<1>5. ASSUME NEW s \in S, NEW t \in d.sets, s.id = t.id
      PROVE  s.type = t.type /\ s.slots = LiveSlots(t.slots, C)
  <2>1. s = LiveSet(t, d.live) /\ t \in Sets
    BY <1>2, <1>5, LiveSetsUnique, TablesFacts
  <2>2. /\ s.type = t.type /\ s.slots = LiveSlots(t.slots, d.live)
        /\ Slots(s) = Slots(t) \cap d.live
    BY <2>1, LiveSetFacts
  <2>3. Slots(t) \cap d.live = Slots(t) \cap C
    BY <1>2, <2>2
  <2>4. LiveSlots(t.slots, d.live) = LiveSlots(t.slots, C)
    BY <2>1, <2>3, SetFacts, LiveSlotsSame DEF Slots
  <2> QED BY <2>2, <2>4
<1>6. Kin(C, S, d) /\ Present(S, d)
  BY <1>2, <1>3, <1>4, <1>5 DEF Kin, Present
<1> QED BY <1>2, <1>6 DEF S

\* What the pipeline makes of the tables.
LEMMA ResolvedTables ==
  ASSUME NEW d, TablesOK(d), NEW live \in SUBSET d.live
  PROVE  TablesOK([d EXCEPT !.live = live]) /\ Later([d EXCEPT !.live = live], d)
<1> DEFINE n == [d EXCEPT !.live = live]
<1>1. n \in Tables /\ n.sets = d.sets /\ n.serial = d.serial
  BY DEF TablesOK, Tables
<1> HIDE DEF n
<1>2. TablesOK(n) /\ Later(n, d)
  BY <1>1, TablesFacts DEF TablesOK, Later
<1> QED BY <1>2 DEF n

LEMMA LinkedTables ==
  ASSUME NEW d, TablesOK(d), NEW edges \in SUBSET Edges
  PROVE  TablesOK([d EXCEPT !.edges = edges]) /\ Later([d EXCEPT !.edges = edges], d)
<1> DEFINE n == [d EXCEPT !.edges = edges]
<1>1. n \in Tables /\ n.sets = d.sets /\ n.serial = d.serial
  BY DEF TablesOK, Tables
<1> HIDE DEF n
<1>2. TablesOK(n) /\ Later(n, d)
  BY <1>1, TablesFacts DEF TablesOK, Later
<1> QED BY <1>2 DEF n

LEMMA RecertifiedTables ==
  ASSUME NEW d, TablesOK(d), NEW s \in d.sets
  PROVE  LET n == [d EXCEPT !.sets = (@ \ {s}) \cup {[s EXCEPT !.exhaustive = ~@]}]
         IN TablesOK(n) /\ Later(n, d)
<1> DEFINE t == [s EXCEPT !.exhaustive = ~@]
           sets == (d.sets \ {s}) \cup {t}
           n == [d EXCEPT !.sets = sets]
<1>1. t \in Sets /\ t.id = s.id /\ t.type = s.type /\ t.slots = s.slots
  <2>1. t = [id |-> s.id, type |-> s.type, slots |-> s.slots, exhaustive |-> ~s.exhaustive]
    BY TablesFacts, SetFacts
  <2>2. s \in Sets
    BY TablesFacts
  <2> HIDE DEF t
  <2> QED BY <2>1, <2>2, SetFacts DEF Sets
<1> HIDE DEF t
<1>2. sets \in SUBSET Sets /\ IsFiniteSet(sets)
  BY <1>1, TablesFacts, FS_AddElement, FS_RemoveElement DEF TablesOK
<1>3. n \in Tables /\ n.sets = sets /\ n.serial = d.serial
  BY <1>2 DEF TablesOK, Tables
<1> HIDE DEF n
<1>4. TablesOK(n)
  BY <1>1, <1>2, <1>3 DEF TablesOK
<1>5. Later(n, d)
  BY <1>1, <1>3, TablesFacts DEF Later
<1> QED BY <1>4, <1>5 DEF n, t

LEMMA RecreatedTables ==
  ASSUME NEW d, TablesOK(d), NEW s \in d.sets
  PROVE  LET n == [d EXCEPT !.sets = (@ \ {s}) \cup {[s EXCEPT !.id = d.serial]},
                            !.serial = @ + 1]
         IN TablesOK(n) /\ Later(n, d)
<1> DEFINE t == [s EXCEPT !.id = d.serial]
           sets == (d.sets \ {s}) \cup {t}
           m == [d EXCEPT !.sets = sets]
           n == [m EXCEPT !.serial = @ + 1]
<1>0. d.serial \in Nat /\ s \in Sets /\ \A r \in d.sets : r.id \in Nat /\ r.id < d.serial
  BY TablesFacts DEF TablesOK
<1>1. t \in Sets /\ t.id = d.serial /\ t.type = s.type /\ t.slots = s.slots
  <2>1. t = [id |-> d.serial, type |-> s.type, slots |-> s.slots, exhaustive |-> s.exhaustive]
    BY <1>0, SetFacts
  <2> HIDE DEF t
  <2> QED BY <1>0, <2>1, SetFacts DEF Sets
<1> HIDE DEF t
<1>2. sets \in SUBSET Sets /\ IsFiniteSet(sets)
  BY <1>1, TablesFacts, FS_AddElement, FS_RemoveElement DEF TablesOK
<1>3. m \in Tables /\ m.sets = sets /\ m.serial = d.serial
  BY <1>2 DEF TablesOK, Tables
<1> HIDE DEF m
<1>4. n \in Tables /\ n.sets = sets /\ n.serial = d.serial + 1
  BY <1>0, <1>3 DEF Tables
<1> HIDE DEF n
<1>5. TablesOK(n)
  <2>1. \A r \in n.sets : r.id < n.serial
    BY <1>0, <1>1, <1>4
  <2>2. \A r, u \in n.sets : r.id = u.id => r = u
    <3>1. \A r \in d.sets : r.id # t.id
      BY <1>0, <1>1
    <3> QED BY <1>4, <3>1 DEF TablesOK
  <2> QED BY <1>2, <1>4, <2>1, <2>2 DEF TablesOK
<1>6. Later(n, d)
  <2>1. d.serial <= n.serial
    BY <1>0, <1>4
  <2>2. \A r \in n.sets : r \in d.sets \/ r.id >= d.serial
    BY <1>0, <1>1, <1>4
  <2>3. \A r \in d.sets : \E u \in n.sets : u.slots = r.slots /\ (u.id = r.id \/ u.id >= d.serial)
    BY <1>0, <1>1, <1>4
  <2> QED BY <2>1, <2>2, <2>3 DEF Later
<1>7. n = [d EXCEPT !.sets = (@ \ {s}) \cup {t}, !.serial = @ + 1]
  BY DEF m, n
<1> QED BY <1>5, <1>6, <1>7 DEF t
-----------------------------------------------------------------------------
(* What the bids refute, and what is remembered of it.                     *)

LEMMA RefutedGone ==
  ASSUME NEW d, TablesOK(d), NEW g \in GraphsOf(d), NEW l \in Latches, NEW high
  PROVE  LET belted == Belt(Latched(g, l), high)
             m == Latch(l, belted.refuted)
         IN /\ belted.graph \in GraphsOf(d)
            /\ m \in Latches
            /\ l.sets \subseteq m.sets
            /\ \A s \in belted.graph.sets : s.id \notin m.sets
            /\ \A s \in belted.refuted.sets : s \in LiveSets(d) /\ s.id \in m.sets
<1> DEFINE h == Latched(g, l)
           belted == Belt(h, high)
           m == Latch(l, belted.refuted)
<1>1. h \in GraphsOf(d) /\ h.sets = {s \in g.sets : s.id \notin l.sets}
  BY LatchedGraph
<1> HIDE DEF h
<1>2. /\ belted.graph \in GraphsOf(d)
      /\ belted.refuted.sets \subseteq h.sets
      /\ belted.graph.sets = h.sets \ belted.refuted.sets
      /\ belted.refuted.pairs \subseteq Pairs(Questions)
  BY <1>1, BeltFacts DEF TablesOK
<1> HIDE DEF belted
<1>3. h.sets \subseteq LiveSets(d) /\ \A s \in h.sets : s.id \in Nat
  <2>1. h.sets \subseteq LiveSets(d)
    BY <1>1 DEF GraphsOf
  <2> QED BY <2>1, GraphSets, SetFacts DEF TablesOK
<1>4. m = [sets |-> l.sets \cup {s.id : s \in belted.refuted.sets},
           pairs |-> l.pairs \cup belted.refuted.pairs]
  BY DEF Latch
<1> HIDE DEF m
<1>5. m \in Latches
  BY <1>2, <1>3, <1>4 DEF Latches
<1>6. ASSUME NEW s \in belted.graph.sets PROVE s.id \notin m.sets
  <2>1. s \in h.sets /\ s \notin belted.refuted.sets /\ s.id \notin l.sets
    BY <1>1, <1>2
  <2>2. \A t \in belted.refuted.sets : t.id # s.id
    BY <1>2, <1>3, <2>1, LiveSetsUnique
  <2> QED BY <1>4, <2>1, <2>2
<1>7. \A s \in belted.refuted.sets : s \in LiveSets(d) /\ s.id \in m.sets
  BY <1>2, <1>3, <1>4
<1>8. l.sets \subseteq m.sets
  BY <1>4
<1> QED BY <1>2, <1>5, <1>6, <1>7, <1>8 DEF m, belted, h

\* Every freed pair is still in a set of the tables, and that set is latched or was inserted
\* after the pair was freed.
Remembered(pairs, l, d) ==
  \A f \in pairs :
    /\ f.serial \in Nat /\ f.serial <= d.serial
    /\ f.pair # {}
    /\ \E t \in d.sets : f.pair \subseteq Slots(t) /\ (t.id \in l.sets \/ t.id >= f.serial)

LEMMA RememberedMore ==
  ASSUME NEW pairs, NEW l, NEW m, NEW d, l.sets \subseteq m.sets, Remembered(pairs, l, d)
  PROVE  Remembered(pairs, m, d)
  BY DEF Remembered

LEMMA RememberedLater ==
  ASSUME NEW d, TablesOK(d), NEW n, TablesOK(n), Later(n, d), NEW pairs, NEW l,
         Remembered(pairs, l, d)
  PROVE  Remembered(pairs, l, n)
<1> SUFFICES ASSUME NEW f \in pairs
             PROVE  /\ f.serial \in Nat /\ f.serial <= n.serial
                    /\ f.pair # {}
                    /\ \E t \in n.sets :
                         f.pair \subseteq Slots(t) /\ (t.id \in l.sets \/ t.id >= f.serial)
  BY DEF Remembered
<1>1. d.serial \in Nat /\ n.serial \in Nat /\ d.serial <= n.serial
  BY TablesFacts DEF Later
<1>2. f.serial \in Nat /\ f.serial <= d.serial /\ f.pair # {}
  BY DEF Remembered
<1>3. PICK t \in d.sets : f.pair \subseteq Slots(t) /\ (t.id \in l.sets \/ t.id >= f.serial)
  BY DEF Remembered
<1>4. PICK u \in n.sets : u.slots = t.slots /\ (u.id = t.id \/ u.id >= d.serial)
  BY DEF Later
<1>5. u.id \in Nat /\ Slots(u) = Slots(t)
  BY <1>4, TablesFacts DEF Slots
<1>6. u.id \in l.sets \/ u.id >= f.serial
  BY <1>1, <1>2, <1>3, <1>4, <1>5
<1> QED BY <1>1, <1>2, <1>3, <1>5, <1>6

LEMMA RememberedNew ==
  ASSUME NEW d, TablesOK(d), NEW sets \in SUBSET LiveSets(d), NEW m,
         \A s \in sets : s.id \in m.sets
  PROVE  Remembered(ExclusivePairs(sets, d), m, d)
<1> SUFFICES ASSUME NEW f \in ExclusivePairs(sets, d)
             PROVE  /\ f.serial \in Nat /\ f.serial <= d.serial
                    /\ f.pair # {}
                    /\ \E t \in d.sets :
                         f.pair \subseteq Slots(t) /\ (t.id \in m.sets \/ t.id >= f.serial)
  BY DEF Remembered
<1>1. f.serial = d.serial /\ f.pair \in UNION {Pairs(Slots(s)) : s \in sets}
  BY DEF ExclusivePairs
<1>2. PICK s \in sets : f.pair \in Pairs(Slots(s))
  BY <1>1
<1>3. f.pair # {} /\ f.pair \subseteq Slots(s)
  BY <1>2 DEF Pairs
<1>4. PICK t \in d.sets : s = LiveSet(t, d.live) /\ t.id = s.id
  BY LiveSetsUnique
<1>5. Slots(s) \subseteq Slots(t)
  BY <1>4, TablesFacts, LiveSetFacts
<1>6. d.serial \in Nat
  BY TablesFacts
<1> QED BY <1>1, <1>3, <1>4, <1>5, <1>6

-----------------------------------------------------------------------------
(* The clusters and the cache.                                             *)

ClustersOK(g, served) ==
  /\ DOMAIN served = Members(g)
  /\ \A C \in Members(g) : ClusterOK(C, SetsIn(g, C), EdgesIn(g, C), served[C])

\* Every entry was finalized from sets and edges that have its key.
CacheOK(entries, d) ==
  \A key \in DOMAIN entries :
    \E S0, E0 :
      /\ E0 \in SUBSET Edges
      /\ Kin(key.members, S0, d)
      /\ key = StructureKey(key.members, S0, E0)
      /\ EntryOf(entries[key], key.members, S0, E0)

LEMMA CacheStill ==
  ASSUME NEW d, TablesOK(d), NEW n, TablesOK(n), Later(n, d), NEW entries, CacheOK(entries, d)
  PROVE  CacheOK(entries, n)
<1> SUFFICES ASSUME NEW key \in DOMAIN entries
             PROVE  \E S0, E0 : /\ E0 \in SUBSET Edges
                                /\ Kin(key.members, S0, n)
                                /\ key = StructureKey(key.members, S0, E0)
                                /\ EntryOf(entries[key], key.members, S0, E0)
  BY DEF CacheOK
<1>1. PICK S0, E0 : /\ E0 \in SUBSET Edges
                    /\ Kin(key.members, S0, d)
                    /\ key = StructureKey(key.members, S0, E0)
                    /\ EntryOf(entries[key], key.members, S0, E0)
  BY DEF CacheOK
<1>2. Kin(key.members, S0, n)
  BY <1>1, KinStill
<1> QED BY <1>1, <1>2

LEMMA FreshOK ==
  ASSUME NEW d, TablesOK(d), NEW g \in GraphsOf(d), NEW C \in Members(g), NEW infeasible
  PROVE  LET S == SetsIn(g, C)
             E == EdgesIn(g, C)
         IN /\ EntryOf(Finalized(C, S, E, infeasible), C, S, E)
            /\ ClusterOK(C, S, E, Finalized(C, S, E, infeasible))
<1> DEFINE S == SetsIn(g, C)
           E == EdgesIn(g, C)
           f == Finalized(C, S, E, infeasible)
<1>1. Kin(C, S, d) /\ Present(S, d) /\ E \in SUBSET Edges
  BY GraphKin
<1> HIDE DEF S, E
<1>2. EntryOf(f, C, S, E) /\ f = FromCache(f, S, E)
  BY <1>1, FinalizedEntry DEF Kin
<1>3. SameKey(C, S, E, S, E)
  BY DEF SameKey
<1> HIDE DEF f
<1>4. ClusterOK(C, S, E, FromCache(f, S, E))
  BY <1>1, <1>2, <1>3, ServedOK
<1>5. ClusterOK(C, S, E, f)
  BY <1>2, <1>4
<1> QED BY <1>2, <1>5 DEF f, S, E

LEMMA FinalizeAllOK ==
  ASSUME NEW d, TablesOK(d), NEW g \in GraphsOf(d), NEW infeasible
  PROVE  ClustersOK(g, FinalizeAll(g, infeasible))
  BY FreshOK DEF ClustersOK, FinalizeAll

LEMMA IncrementalOK ==
  ASSUME NEW d, TablesOK(d), NEW g \in GraphsOf(d), CacheOK(cache, d), NEW infeasible
  PROVE  ClustersOK(g, Incremental(g, infeasible))
<1> DEFINE served == Incremental(g, infeasible)
<1>1. ASSUME NEW C \in Members(g)
      PROVE  ClusterOK(C, SetsIn(g, C), EdgesIn(g, C), served[C])
  <2> DEFINE S == SetsIn(g, C)
             E == EdgesIn(g, C)
             key == StructureKey(C, S, E)
  <2>1. served[C] = IF key \in DOMAIN cache THEN FromCache(cache[key], S, E)
                    ELSE Finalized(C, S, E, infeasible)
    BY DEF Incremental
  <2>2. Kin(C, S, d) /\ Present(S, d) /\ E \in SUBSET Edges
    BY GraphKin
  <2>3. ClusterOK(C, S, E, Finalized(C, S, E, infeasible))
    BY FreshOK
  <2> HIDE DEF served, S, E
  <2>4. key.members = C
    BY DEF StructureKey
  <2>5. CASE key \in DOMAIN cache
    <3> HIDE DEF key
    <3>1. PICK S0, E0 : /\ E0 \in SUBSET Edges
                        /\ Kin(C, S0, d)
                        /\ key = StructureKey(C, S0, E0)
                        /\ EntryOf(cache[key], C, S0, E0)
      BY <2>4, <2>5 DEF CacheOK
    <3>2. SameKey(C, S, E, S0, E0)
      BY <3>1 DEF SameKey, key
    <3>3. ClusterOK(C, S, E, FromCache(cache[key], S, E))
      BY <2>2, <3>1, <3>2, ServedOK
    <3>4. ClusterOK(C, S, E, served[C])
      BY <2>1, <2>5, <3>3 DEF key
    <3> QED BY <3>4 DEF S, E
  <2>6. CASE key \notin DOMAIN cache
    <3>1. ClusterOK(C, S, E, served[C])
      BY <2>1, <2>3, <2>6
    <3> QED BY <3>1 DEF S, E
  <2> QED BY <2>5, <2>6
<1>2. DOMAIN served = Members(g)
  BY DEF Incremental
<1> HIDE DEF served
<1>3. ClustersOK(g, served)
  BY <1>1, <1>2 DEF ClustersOK
<1> QED BY <1>3 DEF served

LEMMA EntriesOK ==
  ASSUME NEW d, TablesOK(d), NEW g \in GraphsOf(d), CacheOK(cache, d), NEW infeasible,
         NEW served, served = Incremental(g, infeasible)
  PROVE  CacheOK(Entries(g, served), d)
<1> DEFINE entries == Entries(g, served)
           Found(key) == \E S0, E0 : /\ E0 \in SUBSET Edges
                                     /\ Kin(key.members, S0, d)
                                     /\ key = StructureKey(key.members, S0, E0)
                                     /\ EntryOf(entries[key], key.members, S0, E0)
<1>1. DOMAIN entries = KeysOf(g)
  BY DEF Entries
<1>2. ASSUME NEW key \in KeysOf(g) PROVE Found(key)
  <2>1. PICK C \in Members(g) : key = StructureKey(C, SetsIn(g, C), EdgesIn(g, C))
    BY DEF KeysOf
  <2>2. key.members = C
    BY <2>1 DEF StructureKey
  <2> DEFINE S == SetsIn(g, C)
             E == EdgesIn(g, C)
             f == Finalized(C, S, E, infeasible)
  <2>3. CASE key \in DOMAIN cache
    <3>1. entries[key] = cache[key]
      BY <2>3 DEF Entries
    <3>2. PICK S0, E0 : /\ E0 \in SUBSET Edges
                        /\ Kin(key.members, S0, d)
                        /\ key = StructureKey(key.members, S0, E0)
                        /\ EntryOf(cache[key], key.members, S0, E0)
      BY <2>3 DEF CacheOK
    <3> HIDE DEF entries
    <3> QED BY <3>1, <3>2
  <2>4. CASE key \notin DOMAIN cache
    <3>1. served[C] = f
      BY <2>1, <2>4 DEF Incremental
    <3>2. EntryOf(f, C, S, E)
      BY FreshOK
    <3>3. Kin(C, S, d) /\ E \in SUBSET Edges
      BY GraphKin
    <3>4. entries[key] = [x \in {"states", "degenerate", "relaxed", "demoted"} |-> f[x]]
      <4>1. entries[key] = [x \in {"states", "degenerate", "relaxed", "demoted"} |-> served[key.members][x]]
        BY <2>4 DEF Entries
      <4> QED BY <2>2, <3>1, <4>1
    <3> HIDE DEF entries, f, S, E
    <3>5. /\ entries[key].states = f.states /\ entries[key].degenerate = f.degenerate
          /\ entries[key].relaxed = f.relaxed /\ entries[key].demoted = f.demoted
      BY <3>4
    <3>6. EntryOf(entries[key], C, S, E)
      BY <3>2, <3>5 DEF EntryOf
    <3>7. key = StructureKey(C, S, E)
      BY <2>1 DEF S, E
    <3> QED BY <2>2, <3>3, <3>6, <3>7
  <2> QED BY <2>3, <2>4
<1> HIDE DEF entries
<1>3. CacheOK(entries, d)
  BY <1>1, <1>2 DEF CacheOK
<1> QED BY <1>3 DEF entries
-----------------------------------------------------------------------------
(* The inductive invariant.                                                *)

Inv ==
  /\ edits \in 0..MaxEdits
  /\ TablesOK(db) /\ TablesOK(source) /\ Later(db, source)
  /\ graph \in GraphsOf(source)
  /\ latch \in Latches /\ \A s \in graph.sets : s.id \notin latch.sets
  /\ Remembered(freed, latch, source)
  /\ ClustersOK(graph, clusters)
  /\ CacheOK(cache, db)

LEMMA LoadedOnce ==
  ASSUME NEW d, TablesOK(d)
  PROVE  Belt(LoadConstraintGraph(d), {}).graph \in GraphsOf(d)
<1>1. d \in Tables
  BY DEF TablesOK
<1>2. LoadConstraintGraph(d) \in GraphsOf(d)
  BY <1>1, LoadedGraph
<1> QED BY <1>1, <1>2, BeltFacts

LEMMA InitInv == Init => Inv
<1> SUFFICES ASSUME Init PROVE Inv
  OBVIOUS
<1> DEFINE once == Belt(LoadConstraintGraph(db), {}).graph
<1>1. /\ db \in Databases /\ edits = 0 /\ latch = [sets |-> {}, pairs |-> {}]
      /\ graph = LoadBelted(db, latch, {}).graph
      /\ cache = [key \in {} |-> 0] /\ source = db /\ freed = {}
  BY DEF Init
<1>2. PICK infeasible : clusters = FinalizeAll(graph, infeasible)
  BY DEF Init
<1>3. TablesOK(db)
  BY <1>1, OmegaAssumption DEF TablesOK
<1>4. once \in GraphsOf(db)
  BY <1>3, LoadedOnce
<1>5. graph = Belt(Latched(once, latch), {}).graph
  BY <1>1 DEF LoadBelted
<1> HIDE DEF once
<1>6. latch \in Latches
  BY <1>1 DEF Latches
<1>7. graph \in GraphsOf(db)
  BY <1>3, <1>4, <1>5, <1>6, RefutedGone
<1>8. ClustersOK(graph, clusters)
  BY <1>2, <1>3, <1>7, FinalizeAllOK
<1>9. CacheOK(cache, db)
  BY <1>1 DEF CacheOK
<1>10. Remembered(freed, latch, source)
  BY <1>1 DEF Remembered
<1>11. 0 \in 0..MaxEdits
  BY OmegaAssumption
<1> QED BY <1>1, <1>3, <1>6, <1>7, <1>8, <1>9, <1>10, <1>11, TablesFacts DEF Inv

\* The pipeline.
LEMMA EditInv ==
  ASSUME Inv, NEW d, TablesOK(d), Later(d, db), Edit(d)
  PROVE  Inv'
<1>1. /\ db' = d /\ edits' = edits + 1 /\ edits < MaxEdits
      /\ UNCHANGED <<graph, clusters, latch, cache, source, freed>>
  BY DEF Edit
<1>2. edits' \in 0..MaxEdits
  BY <1>1, OmegaAssumption DEF Inv
<1>3. Later(d, source)
  BY LaterStill DEF Inv
<1>4. CacheOK(cache, d)
  BY CacheStill DEF Inv
<1> QED BY <1>1, <1>2, <1>3, <1>4 DEF Inv

LEMMA PipelineInv ==
  ASSUME Inv,
         \/ \E q \in Questions : Resolve(q)
         \/ \E e \in EdgePool : ToggleEdge(e)
         \/ \E s \in db.sets : Recertify(s) \/ Recreate(s)
  PROVE  Inv'
<1>1. TablesOK(db)
  BY DEF Inv
<1>2. ASSUME NEW q \in Questions, Resolve(q) PROVE Inv'
  <2> DEFINE d == [db EXCEPT !.live = @ \ {q}]
  <2>1. TablesOK(d) /\ Later(d, db)
    BY <1>1, ResolvedTables
  <2>2. Edit(d)
    BY <1>2 DEF Resolve
  <2> HIDE DEF d
  <2> QED BY <2>1, <2>2, EditInv
<1>3. ASSUME NEW e \in EdgePool, ToggleEdge(e) PROVE Inv'
  <2> DEFINE edges == IF e \in db.edges THEN db.edges \ {e} ELSE db.edges \cup {e}
             d == [db EXCEPT !.edges = edges]
  <2>1. edges \in SUBSET Edges
    BY <1>1, OmegaAssumption DEF TablesOK, Tables
  <2>2. Edit(d)
    BY <1>3 DEF ToggleEdge
  <2> HIDE DEF edges
  <2>3. TablesOK(d) /\ Later(d, db)
    BY <1>1, <2>1, LinkedTables
  <2> HIDE DEF d
  <2> QED BY <2>2, <2>3, EditInv
<1>4. ASSUME NEW s \in db.sets, Recertify(s) PROVE Inv'
  <2> DEFINE d == [db EXCEPT !.sets = (@ \ {s}) \cup {[s EXCEPT !.exhaustive = ~@]}]
  <2>1. TablesOK(d) /\ Later(d, db)
    BY <1>1, RecertifiedTables
  <2>2. Edit(d)
    BY <1>4 DEF Recertify
  <2> HIDE DEF d
  <2> QED BY <2>1, <2>2, EditInv
<1>5. ASSUME NEW s \in db.sets, Recreate(s) PROVE Inv'
  <2> DEFINE d == [db EXCEPT !.sets = (@ \ {s}) \cup {[s EXCEPT !.id = db.serial]},
                             !.serial = @ + 1]
  <2>1. TablesOK(d) /\ Later(d, db)
    BY <1>1, RecreatedTables
  <2>2. Edit(d)
    BY <1>5 DEF Recreate
  <2> HIDE DEF d
  <2> QED BY <2>1, <2>2, EditInv
<1> QED BY <1>2, <1>3, <1>4, <1>5

LEMMA ReloadInv ==
  ASSUME Inv, NEW high \in Bids, Reload(high)
  PROVE  Inv'
<1> DEFINE once == Belt(LoadConstraintGraph(db), {}).graph
           loaded == Belt(Latched(once, latch), high)
<1>1. /\ graph' = loaded.graph
      /\ latch' = Latch(latch, loaded.refuted)
      /\ source' = db /\ db' = db /\ edits' = edits
      /\ freed' = freed \cup ExclusivePairs(loaded.refuted.sets, db)
  BY DEF Reload, LoadBelted
<1>2. PICK infeasible : /\ clusters' = Incremental(loaded.graph, infeasible)
                        /\ cache' = Entries(loaded.graph, clusters')
  BY DEF Reload, LoadBelted
<1>3. TablesOK(db) /\ latch \in Latches /\ CacheOK(cache, db)
  BY DEF Inv
<1>4. once \in GraphsOf(db)
  BY <1>3, LoadedOnce
<1> HIDE DEF once
<1>5. /\ loaded.graph \in GraphsOf(db)
      /\ latch' \in Latches
      /\ latch.sets \subseteq latch'.sets
      /\ \A s \in loaded.graph.sets : s.id \notin latch'.sets
      /\ \A s \in loaded.refuted.sets : s \in LiveSets(db) /\ s.id \in latch'.sets
  BY <1>1, <1>3, <1>4, RefutedGone
<1> HIDE DEF loaded
<1>6. Remembered(freed', latch', db)
  <2>1. Remembered(freed, latch, db)
    BY RememberedLater DEF Inv
  <2>2. Remembered(freed, latch', db)
    BY <1>5, <2>1, RememberedMore
  <2>3. Remembered(ExclusivePairs(loaded.refuted.sets, db), latch', db)
    BY <1>3, <1>5, RememberedNew
  <2> QED BY <1>1, <2>2, <2>3 DEF Remembered
<1>7. ClustersOK(loaded.graph, clusters')
  BY <1>2, <1>3, <1>5, IncrementalOK
<1>8. CacheOK(cache', db)
  BY <1>2, <1>3, <1>5, EntriesOK
<1> QED BY <1>1, <1>3, <1>5, <1>6, <1>7, <1>8, TablesFacts DEF Inv

LEMMA RefreshInv ==
  ASSUME Inv, NEW high \in Bids, RefreshPriceBelt(high)
  PROVE  Inv'
<1> DEFINE belted == Belt(Latched(graph, latch), high)
<1>1. /\ graph' = belted.graph
      /\ latch' = Latch(latch, belted.refuted)
      /\ freed' = freed \cup ExclusivePairs(belted.refuted.sets, source)
      /\ UNCHANGED <<db, edits, cache, source>>
  BY DEF RefreshPriceBelt
<1>2. PICK infeasible : clusters' = FinalizeAll(belted.graph, infeasible)
  BY DEF RefreshPriceBelt
<1>3. TablesOK(source) /\ latch \in Latches /\ graph \in GraphsOf(source)
  BY DEF Inv
<1>4. /\ belted.graph \in GraphsOf(source)
      /\ latch' \in Latches
      /\ latch.sets \subseteq latch'.sets
      /\ \A s \in belted.graph.sets : s.id \notin latch'.sets
      /\ \A s \in belted.refuted.sets : s \in LiveSets(source) /\ s.id \in latch'.sets
  BY <1>1, <1>3, RefutedGone
<1> HIDE DEF belted
<1>5. Remembered(freed', latch', source)
  <2>1. Remembered(freed, latch', source)
    BY <1>4, RememberedMore DEF Inv
  <2>2. Remembered(ExclusivePairs(belted.refuted.sets, source), latch', source)
    BY <1>3, <1>4, RememberedNew
  <2> QED BY <1>1, <2>1, <2>2 DEF Remembered
<1>6. ClustersOK(belted.graph, clusters')
  BY <1>2, <1>3, <1>4, FinalizeAllOK
<1> QED BY <1>1, <1>3, <1>4, <1>5, <1>6 DEF Inv

LEMMA PrepareInv ==
  ASSUME Inv, NEW C \in DOMAIN clusters, NEW unquoted \in SUBSET C, Prepare(C, unquoted)
  PROVE  Inv'
<1> DEFINE k == clusters[C]
           mask == {s.id : s \in {t \in k.sets : /\ t.type = "categorical" /\ t.exhaustive
                                                 /\ Slots(t) \cap unquoted # {}}}
           states == Enumerate(C, Demote(k.sets, mask), k.edges)
           n == [k EXCEPT !.mask = mask, !.states = states]
<1>1. /\ clusters' = [clusters EXCEPT ![C].mask = mask, ![C].states = states]
      /\ UNCHANGED <<db, edits, graph, latch, cache, source, freed>>
  BY DEF Prepare
<1>2. DOMAIN clusters = Members(graph) /\ ClusterOK(C, SetsIn(graph, C), EdgesIn(graph, C), k)
  BY DEF Inv, ClustersOK
<1>3. Kin(C, SetsIn(graph, C), source) /\ EdgesIn(graph, C) \in SUBSET Edges
  BY <1>2, GraphKin DEF Inv
<1>4. mask \subseteq Ids(k.sets)
  BY DEF Ids
<1> HIDE DEF mask
<1>5. ClusterOK(C, SetsIn(graph, C), EdgesIn(graph, C), n)
  BY <1>2, <1>3, <1>4, MaskedOK
<1>6. /\ DOMAIN clusters' = DOMAIN clusters
      /\ \A D \in DOMAIN clusters : clusters'[D] = IF D = C THEN n ELSE clusters[D]
  <2> HIDE DEF states
  <2> DEFINE masked == [clusters EXCEPT ![C].mask = mask]
  <2>1. /\ DOMAIN masked = DOMAIN clusters
        /\ masked[C] = [k EXCEPT !.mask = mask]
        /\ \A D \in DOMAIN clusters : D # C => masked[D] = clusters[D]
    OBVIOUS
  <2>2. clusters' = [masked EXCEPT ![C].states = states]
    BY <1>1
  <2> HIDE DEF masked
  <2>3. /\ DOMAIN clusters' = DOMAIN clusters
        /\ clusters'[C] = [masked[C] EXCEPT !.states = states]
        /\ \A D \in DOMAIN clusters : D # C => clusters'[D] = clusters[D]
    BY <2>1, <2>2
  <2> QED BY <2>1, <2>3
<1> HIDE DEF n
<1>7. ClustersOK(graph, clusters')
  BY <1>2, <1>5, <1>6 DEF ClustersOK, Inv
<1> QED BY <1>1, <1>7 DEF Inv

LEMMA NextInv == Inv /\ [Next]_vars => Inv'
<1> SUFFICES ASSUME Inv, [Next]_vars PROVE Inv'
  OBVIOUS
<1>1. CASE \/ \E q \in Questions : Resolve(q)
           \/ \E e \in EdgePool : ToggleEdge(e)
           \/ \E s \in db.sets : Recertify(s) \/ Recreate(s)
  BY <1>1, PipelineInv
<1>2. CASE \E high \in Bids : Reload(high) \/ RefreshPriceBelt(high)
  BY <1>2, ReloadInv, RefreshInv
<1>3. CASE \E C \in DOMAIN clusters : \E unquoted \in SUBSET C : Prepare(C, unquoted)
  BY <1>3, PrepareInv
<1>4. CASE UNCHANGED vars
  BY <1>4 DEF vars, Inv
<1> QED BY <1>1, <1>2, <1>3, <1>4 DEF Next
LEMMA Invariance == OmegaAssumption => (Spec => []Inv)
  BY InitInv, NextInv, PTL DEF Spec

-----------------------------------------------------------------------------
(* The properties.                                                         *)

\* Every cluster's states are assignments to its members, the clusters partition the loaded
\* questions, and the cache holds states of the clusters its keys name (finalizeClusters,
\* buildClusters, EnumCache).
THEOREM TypeCorrect == OmegaAssumption => (Spec => []TypeOK)
<1>1. Inv => TypeOK
  <2> SUFFICES ASSUME Inv PROVE TypeOK
    OBVIOUS
  <2>1. source \in Tables /\ db \in Tables /\ graph \in GraphsOf(source)
    BY DEF Inv, TablesOK
  <2>2. /\ UNION DOMAIN clusters = graph.questions
        /\ \A C, D \in DOMAIN clusters : C \cap D # {} => C = D
    <3>1. DOMAIN clusters = Members(graph)
      BY DEF Inv, ClustersOK
    <3>2. graph.questions = source.live
      BY <2>1 DEF GraphsOf
    <3> QED BY <2>1, <3>1, <3>2, MemberFacts
  <2>3. ASSUME NEW C \in DOMAIN clusters
        PROVE  /\ clusters[C].states \subseteq [C -> BOOLEAN]
               /\ {clusters[C].degenerate, clusters[C].relaxed} \subseteq BOOLEAN
               /\ clusters[C].mask \subseteq {s.id : s \in clusters[C].sets}
    <3>1. ClusterOK(C, SetsIn(graph, C), EdgesIn(graph, C), clusters[C])
      BY DEF Inv, ClustersOK
    <3>2. clusters[C] \in [sets : SUBSET Sets, edges : SUBSET Edges, states : SUBSET [C -> BOOLEAN],
                           degenerate : BOOLEAN, relaxed : BOOLEAN, demoted : SUBSET Nat,
                           mask : SUBSET Nat]
      BY <3>1 DEF ClusterOK
    <3>3. clusters[C].mask \subseteq {s.id : s \in clusters[C].sets}
      BY <3>1 DEF ClusterOK, Ids
    <3> QED BY <3>2, <3>3
  <2>4. ASSUME NEW key \in DOMAIN cache PROVE cache[key].states \subseteq [key.members -> BOOLEAN]
    BY DEF Inv, CacheOK, EntryOf
  <2>5. latch.pairs \subseteq Pairs(Questions) /\ edits \in 0..MaxEdits
    BY DEF Inv, Latches
  <2> QED BY <2>1, <2>2, <2>3, <2>4, <2>5 DEF TypeOK
<1> QED BY <1>1, Invariance, PTL

\* Between the tables and the LP no world is lost: not to the liveness filter, the belt, the
\* latch, the split into clusters, the cap, a repair, a cache hit or the demotion of unquoted
\* sets (loadConstraintGraph, finalizeClustersIncremental, applyLivenessDemotion).
THEOREM NoWorldIsLost == OmegaAssumption => (Spec => []NoWorldLost)
<1>1. Inv => NoWorldLost
  <2> SUFFICES ASSUME Inv, NEW C \in DOMAIN clusters, NEW omega \in Readings(C, {}),
                      NEW w \in PersistedWorlds(source)
               PROVE  [q \in C |-> w[q]] \in omega
    BY DEF NoWorldLost
  <2> DEFINE S == SetsIn(graph, C)
             E == EdgesIn(graph, C)
             k == clusters[C]
             v == [q \in C |-> w[q]]
  <2>1. C \in Members(graph) /\ ClusterOK(C, S, E, k)
    BY DEF Inv, ClustersOK
  <2>2. v \in FacetWorlds(C, S, E, {})
    BY <2>1, GraphWorlds DEF Inv, TablesOK
  <2>3. S \in SUBSET Sets
    BY <2>1, GraphKin DEF Inv, Kin
  <2> HIDE DEF v, S, E
  <2>4. v \in FacetWorlds(C, k.sets, k.edges, {})
    <3>1. k.sets = Demote(S, k.demoted) /\ k.edges = E
      BY <2>1 DEF ClusterOK
    <3> QED BY <2>2, <2>3, <3>1, DemotedWorlds
  <2>5. k.states # {} => v \in k.states
    BY <2>1, <2>2 DEF ClusterOK
  <2>6. v \in omega
    BY <2>4, <2>5 DEF Readings
  <2> QED BY <2>6 DEF v
<1> QED BY <1>1, Invariance, PTL

LEMMA RegularSame ==
  ASSUME NEW C
  PROVE  Regular(C) <=> RegularCluster(C, clusters[C])
  BY DEF Regular, RegularCluster, Ids

\* The enumerated states and the facets of a regular cluster are the same worlds, whatever the
\* cache, the repairs, the belt and the mask have done to it (state-enumerator.ts against
\* omega-constraints.ts).
THEOREM ReadingsAgree == OmegaAssumption => (Spec => []SameReading)
<1>1. Inv => SameReading
  <2> SUFFICES ASSUME Inv, NEW C \in DOMAIN clusters, Regular(C), clusters[C].states # {}
               PROVE  clusters[C].states
                        = FacetWorlds(C, Demote(clusters[C].sets, clusters[C].mask),
                                      clusters[C].edges, {})
    BY DEF SameReading
  <2>1. ClusterOK(C, SetsIn(graph, C), EdgesIn(graph, C), clusters[C])
    BY DEF Inv, ClustersOK
  <2> QED BY <2>1, RegularSame DEF ClusterOK
<1> QED BY <1>1, Invariance, PTL

LEMMA PinnedLess ==
  ASSUME NEW C, NEW A, NEW B, A \subseteq B, A # {}
  PROVE  Pinned(C, B) \subseteq Pinned(C, A)
  BY DEF Pinned

\* A regular cluster that is solved from its states shows every question with both values,
\* whatever is unquoted (repairOmegaCompleteness and the pin gate).
THEOREM BothValuesShown == OmegaAssumption => (Spec => []BothValues)
<1>1. Inv => BothValues
  <2> SUFFICES ASSUME Inv, NEW C \in DOMAIN clusters, Regular(C), ~clusters[C].degenerate,
                      ~Dropped(C, clusters[C].sets),
                      NEW unquoted \in SUBSET C, NEW omega \in Readings(C, unquoted)
               PROVE  Pinned(C, omega) = {}
    BY DEF BothValues
  <2> DEFINE S == SetsIn(graph, C)
             E == EdgesIn(graph, C)
             k == clusters[C]
             worlds == FacetWorlds(C, k.sets, k.edges, {})
  <2>1. C \in Members(graph) /\ ClusterOK(C, S, E, k)
    BY DEF Inv, ClustersOK
  <2>2. S \in SUBSET Sets /\ k.sets \in SUBSET Sets
    BY <2>1, GraphKin DEF Inv, Kin, ClusterOK
  <2>3. worlds # {} /\ RegularCluster(C, k)
    BY RegularSame DEF Regular
  <2>4. Pinned(C, worlds) = {}
    BY <2>1, <2>3 DEF ClusterOK
  <2>5. worlds \subseteq FacetWorlds(C, k.sets, k.edges, unquoted)
    <3>1. ASSUME NEW s \in k.sets, NEW w, Satisfies(w, s, {}) PROVE Satisfies(w, s, unquoted)
      <4>1. Weaker(s, s)
        BY DEF Weaker
      <4> QED BY <3>1, <4>1, WeakerSatisfied
    <3> QED BY <3>1 DEF FacetWorlds
  <2>6. ASSUME k.states # {} PROVE worlds \subseteq k.states
    <3>1. k.states = FacetWorlds(C, Demote(k.sets, k.mask), k.edges, {})
      BY <2>1, <2>3, <2>6 DEF ClusterOK
    <3> QED BY <2>2, <3>1, DemotedWorlds
  <2>7. omega = FacetWorlds(C, k.sets, k.edges, unquoted) \/ (k.states # {} /\ omega = k.states)
    BY DEF Readings
  <2> HIDE DEF worlds, k
  <2>8. worlds \subseteq omega
    BY <2>5, <2>6, <2>7
  <2> QED BY <2>3, <2>4, <2>8, PinnedLess
<1> QED BY <1>1, Invariance, PTL

\* A set that was in the tables when the bids freed a pair of it does not make the pair
\* exclusive again (latchBeltResult, applyContainmentLatch).
THEOREM RefutedIsKeptOut == OmegaAssumption => (Spec => []RefutedStaysOut)
<1>1. Inv => RefutedStaysOut
  <2> SUFFICES ASSUME Inv, Disjoint(source.sets), NEW s \in graph.sets, NEW f \in freed,
                      s.id < f.serial, f.pair \subseteq Slots(s)
               PROVE  FALSE
    BY DEF RefutedStaysOut
  <2>1. TablesOK(source) /\ s \in LiveSets(source) /\ s.id \notin latch.sets
    BY DEF Inv, GraphsOf
  <2>2. PICK u \in source.sets : s = LiveSet(u, source.live) /\ u.id = s.id
    BY <2>1, LiveSetsUnique
  <2>3. Slots(s) \subseteq Slots(u)
    BY <2>1, <2>2, TablesFacts, LiveSetFacts
  <2>4. /\ f.serial \in Nat /\ f.pair # {}
        /\ \E t \in source.sets : f.pair \subseteq Slots(t) /\ (t.id \in latch.sets \/ t.id >= f.serial)
    BY DEF Inv, Remembered
  <2>5. PICK t \in source.sets : f.pair \subseteq Slots(t) /\ (t.id \in latch.sets \/ t.id >= f.serial)
    BY <2>4
  <2>6. u = t
    BY <2>3, <2>4, <2>5 DEF Disjoint
  <2>7. s.id \in Nat
    BY <2>1, <2>2, TablesFacts
  <2> QED BY <2>1, <2>2, <2>4, <2>5, <2>6, <2>7
<1> QED BY <1>1, Invariance, PTL
=============================================================================
