--------------------------- MODULE ResolutionProofs ---------------------------
(***************************************************************************)
(* Theorems about resolved markets, for any markets, values and bounds:     *)
(* about the writers of their rows, ResolutionWrite, and about their way    *)
(* out of the solver, ResolutionEviction.                                   *)
(***************************************************************************)
EXTENDS ResolutionWrite, ResolutionEviction, TLAPS

USE DEF Spend

\* A call between its SELECT and its COMMIT holds the lock of its row, and
\* what it read of the row is still true.
HoldsRow(w) == lock[job[w].in.market] = w
ReadTrue(w) == job[w].was <=> resolvedAt[job[w].in.market] # Null
Unresolved(w) == ~Resolved(job[w].in.market)

LockInv ==
  \A w \in Writers : job[w].at = "update" => HoldsRow(w) /\ ReadTrue(w) /\ Unresolved(w)

\* No writer fills in the winner of a market without its date.
DatedInv == \A m \in Markets : winner[m] # Null => resolvedAt[m] # Null

CreatedInv ==
  \A m \in Markets : created[m] <= 1 /\ (created[m] # 0 => resolvedAt[m] # Null)

\* What is or will be announced is what the row holds.
PendingHolds ==
  \A w \in Writers :
    job[w].at = "publish" /\ job[w].in.winning # Null
      => winner[job[w].in.market] = job[w].in.winning

IInv ==
  TypeOK /\ LockInv /\ DatedInv /\ CreatedInv /\ PendingHolds
    /\ AnnouncedWinnerHolds /\ WinnerAnnounced

-----------------------------------------------------------------------------
\* COALESCE keeps a value and takes the new one only for a null.
LEMMA CoalesceKeeps ==
  ASSUME NEW old, NEW new
  PROVE  /\ old # Null => Coalesce(old, new) = old
         /\ old = Null => Coalesce(old, new) = new
BY DEF Coalesce

\* What a call that is not idle holds.
LEMMA JobFacts ==
  ASSUME TypeOK, NEW w \in Writers, job[w].at \in {"update", "publish"}
  PROVE  /\ job[w] \in Job
         /\ job[w].in.market \in Markets
         /\ job[w].in.resolvedAt \in Times
         /\ job[w].in.winning \in Winners \cup {Null}
         /\ job[w].was \in BOOLEAN
         /\ job[w].in \in Input
<1>1. job[w] \in Job \cup {Idle} BY DEF TypeOK
<1>2. Idle.at = "idle" BY DEF Idle
<1>3. job[w] \in Job BY <1>1, <1>2
<1>. QED BY <1>3 DEF Job, Input

\* Filling a row keeps the types of its columns, and what was there.
LEMMA FillFacts ==
  ASSUME TypeOK, NEW m \in Markets, NEW t \in Times, NEW win \in Winners \cup {Null},
         FillRow(m, t, win)
  PROVE  /\ resolvedAt' \in [Markets -> Times \cup {Null}]
         /\ winner' \in [Markets -> Winners \cup {Null}]
         /\ resolvedAt'[m] # Null
         /\ winner'[m] = IF winner[m] # Null THEN winner[m] ELSE win
         /\ \A n \in Markets : resolvedAt[n] # Null => resolvedAt'[n] = resolvedAt[n]
         /\ \A n \in Markets : winner[n] # Null => winner'[n] = winner[n]
         /\ \A n \in Markets \ {m} : resolvedAt'[n] = resolvedAt[n] /\ winner'[n] = winner[n]
<1>1. /\ resolvedAt \in [Markets -> Times \cup {Null}]
      /\ winner \in [Markets -> Winners \cup {Null}]
  BY DEF TypeOK
<1>. QED BY <1>1, WriteAssumption DEF FillRow, Coalesce

-----------------------------------------------------------------------------
\* The invariant holds at the start.
LEMMA InvInit == Init => IInv
<1> SUFFICES ASSUME Init PROVE IInv OBVIOUS
<1>1. \A w \in Writers : job[w] = Idle BY DEF Init
<1>2. \A w \in Writers : job[w].at = "idle" BY <1>1 DEF Idle
<1>3. TypeOK BY DEF Init, TypeOK
<1>4. LockInv /\ PendingHolds BY <1>2 DEF LockInv, PendingHolds
<1>5. DatedInv /\ CreatedInv BY DEF Init, DatedInv, CreatedInv
<1>6. AnnouncedWinnerHolds /\ WinnerAnnounced
  BY DEF Init, AnnouncedWinnerHolds, WinnerAnnounced
<1>. QED BY <1>3, <1>4, <1>5, <1>6 DEF IInv

\* SELECT: the reader gets the lock of the row it has just read.
LEMMA InvSelect ==
  ASSUME IInv, NEW w \in Writers, NEW in \in Input, Select(w, in)
  PROVE  IInv'
<1> DEFINE m == in.market
<1>0. m \in Markets BY DEF Input
<1>1. CASE m \in known /\ ~Resolved(m)
  <2>1. /\ job' = [job EXCEPT ![w] = Updating(in, resolvedAt[m] # Null)]
        /\ lock' = [lock EXCEPT ![m] = w]
        /\ UNCHANGED <<rows, news, hist>>
    BY <1>1 DEF Select, LockRow
  <2>2. Updating(in, resolvedAt[m] # Null) \in Job BY DEF Updating, Job
  <2>3. used' \in [{"call", "fault"} -> Nat] BY DEF IInv, TypeOK, Select
  <2>4. TypeOK'
    BY <1>0, <2>1, <2>2, <2>3 DEF IInv, TypeOK, rows, hist
  <2>5. ASSUME NEW v \in Writers, v # w PROVE job'[v] = job[v]
    BY <2>1, <2>5 DEF IInv, TypeOK
  <2>6. /\ job'[w].at = "update" /\ job'[w].in = in
        /\ job'[w].was <=> resolvedAt[m] # Null
    BY <2>1 DEF IInv, TypeOK, Updating
  <2>7. LockInv'
    <3> SUFFICES ASSUME NEW v \in Writers, job'[v].at = "update"
                 PROVE  HoldsRow(v)' /\ ReadTrue(v)' /\ Unresolved(v)'
      BY DEF LockInv
    <3>1. CASE v = w
      <4>1. HoldsRow(v)' BY <3>1, <1>0, <2>1, <2>6 DEF IInv, TypeOK, HoldsRow
      <4>2. ReadTrue(v)' BY <3>1, <2>1, <2>6 DEF ReadTrue, rows
      <4>3. Unresolved(v)' BY <3>1, <1>1, <2>1, <2>6 DEF Unresolved, Resolved, rows
      <4>. QED BY <4>1, <4>2, <4>3
    <3>2. CASE v # w
      <4>1. job'[v] = job[v] BY <3>2, <2>5
      <4>2. HoldsRow(v) /\ ReadTrue(v) /\ Unresolved(v) BY <4>1 DEF IInv, LockInv
      <4>3. job[v].in.market # m
        BY <4>2, WriteAssumption DEF Select, HoldsRow
      <4>4. HoldsRow(v)' BY <4>1, <4>2, <4>3, <2>1 DEF HoldsRow, IInv, TypeOK
      <4>5. ReadTrue(v)' BY <4>1, <4>2, <2>1 DEF ReadTrue, rows
      <4>6. Unresolved(v)' BY <4>1, <4>2, <2>1 DEF Unresolved, Resolved, rows
      <4>. QED BY <4>4, <4>5, <4>6
    <3>. QED BY <3>1, <3>2
  <2>8. DatedInv' /\ CreatedInv' /\ AnnouncedWinnerHolds'
    BY <2>1 DEF IInv, DatedInv, CreatedInv, AnnouncedWinnerHolds, rows, hist
  <2>9. PendingHolds'
    BY <2>1, <2>5, <2>6 DEF IInv, PendingHolds, rows
  <2>10. WinnerAnnounced'
    <3>1. \A v \in Writers : job[v].at = "publish" => v # w
      BY DEF Select, Idle
    <3>. QED BY <3>1, <2>1, <2>5 DEF IInv, WinnerAnnounced, rows, hist
  <2>. QED BY <2>4, <2>7, <2>8, <2>9, <2>10 DEF IInv
<1>2. CASE ~(m \in known /\ ~Resolved(m))
  <2>1. UNCHANGED <<lock, job, rows, news, hist>> BY <1>2 DEF Select
  <2>2. used' \in [{"call", "fault"} -> Nat] BY DEF IInv, TypeOK, Select
  <2>3. TypeOK' BY <2>1, <2>2 DEF IInv, TypeOK, rows, hist
  <2>. QED BY <2>1, <2>3 DEF IInv, LockInv, DatedInv, CreatedInv, PendingHolds,
              AnnouncedWinnerHolds, WinnerAnnounced, HoldsRow, ReadTrue,
              Unresolved, Resolved, rows, hist
<1>. QED BY <1>1, <1>2

\* While someone else, or no one, holds a row, no call is about to update it.
LEMMA OthersElsewhere ==
  ASSUME TypeOK, LockInv, NEW v \in Writers, job[v].at = "update",
         NEW m \in Markets, lock[m] # v
  PROVE  job[v].in.market # m
BY DEF LockInv, HoldsRow

\* A row is filled in: the calls that read other rows are not disturbed, and
\* neither are dates, counters, pending and sent announcements.
LEMMA FillKeeps ==
  ASSUME IInv, NEW m \in Markets, NEW t \in Times, NEW win \in Winners \cup {Null},
         FillRow(m, t, win)
  PROVE  /\ DatedInv'
         /\ \A v \in Writers :
              job[v].at = "update" /\ job[v].in.market # m =>
                /\ resolvedAt'[job[v].in.market] = resolvedAt[job[v].in.market]
                /\ winner'[job[v].in.market] = winner[job[v].in.market]
         /\ \A v \in Writers :
              job[v].at = "publish" /\ job[v].in.winning # Null
                => winner'[job[v].in.market] = job[v].in.winning
         /\ \A e \in news : e.winning # Null => winner'[e.market] = e.winning
<1>1. TypeOK BY DEF IInv
<1>2. DatedInv'
  BY <1>1, FillFacts DEF IInv, DatedInv
<1>3. ASSUME NEW v \in Writers, job[v].at = "update", job[v].in.market # m
      PROVE  /\ resolvedAt'[job[v].in.market] = resolvedAt[job[v].in.market]
             /\ winner'[job[v].in.market] = winner[job[v].in.market]
  BY <1>1, <1>3, JobFacts, FillFacts
<1>4. ASSUME NEW v \in Writers, job[v].at = "publish", job[v].in.winning # Null
      PROVE  winner'[job[v].in.market] = job[v].in.winning
  BY <1>1, <1>4, JobFacts, FillFacts DEF IInv, PendingHolds
<1>5. ASSUME NEW e \in news, e.winning # Null
      PROVE  winner'[e.market] = e.winning
  <2>1. e.market \in Markets BY <1>1 DEF TypeOK, News
  <2>2. winner[e.market] = e.winning BY <1>5 DEF IInv, AnnouncedWinnerHolds
  <2>. QED BY <1>1, <1>5, <2>1, <2>2, FillFacts
<1>. QED BY <1>2, <1>3, <1>4, <1>5

\* COMMIT: the row is what the call read it to be, so that the value it will
\* announce is the one COALESCE takes.
LEMMA InvUpdate ==
  ASSUME IInv, NEW w \in Writers, UpdateAndCommit(w)
  PROVE  IInv'
<1> DEFINE m == job[w].in.market
           t == job[w].in.resolvedAt
           win == job[w].in.winning
<1>1. TypeOK /\ job[w].at = "update" BY DEF IInv, UpdateAndCommit
<1>2. /\ m \in Markets /\ t \in Times /\ win \in Winners \cup {Null}
      /\ job[w].was \in BOOLEAN /\ job[w].in \in Input
  BY <1>1, JobFacts
<1>3. HoldsRow(w) /\ ReadTrue(w) /\ Unresolved(w) BY <1>1 DEF IInv, LockInv
<1>4. /\ lock' = [lock EXCEPT ![m] = NoWriter]
      /\ FillRow(m, t, win)
      /\ created' = IF job[w].was THEN created ELSE [created EXCEPT ![m] = @ + 1]
      /\ job' = [job EXCEPT ![w] = Publishing(job[w].in, job[w].was)]
      /\ UNCHANGED <<known, news, bySync, unheard, used>>
  BY <1>3 DEF UpdateAndCommit, Unresolved, ThenPublish
<1>5. winner[m] = Null BY <1>2, <1>3 DEF IInv, DatedInv, Unresolved, Resolved
<1>6. winner'[m] = win /\ resolvedAt'[m] # Null
  BY <1>1, <1>2, <1>4, <1>5, FillFacts
<1>7. ASSUME NEW v \in Writers, v # w PROVE job'[v] = job[v]
  BY <1>1, <1>4, <1>7 DEF TypeOK
<1>8. job'[w].at = "publish" /\ job'[w].in = job[w].in
  BY <1>1, <1>4 DEF TypeOK, Publishing
<1>9. TypeOK'
  <2>1. Publishing(job[w].in, job[w].was) \in Job BY <1>2 DEF Publishing, Job
  <2>2. job' \in [Writers -> Job \cup {Idle}] BY <1>1, <1>4, <2>1 DEF TypeOK
  <2>3. created' \in [Markets -> Nat] BY <1>1, <1>2, <1>4 DEF TypeOK
  <2>4. /\ resolvedAt' \in [Markets -> Times \cup {Null}]
        /\ winner' \in [Markets -> Winners \cup {Null}]
    BY <1>1, <1>2, <1>4, FillFacts
  <2>. QED BY <1>1, <1>2, <1>4, <2>2, <2>3, <2>4 DEF TypeOK
<1>10. LockInv'
  <2> SUFFICES ASSUME NEW v \in Writers, job'[v].at = "update"
               PROVE  HoldsRow(v)' /\ ReadTrue(v)' /\ Unresolved(v)'
    BY DEF LockInv
  <2>1. v # w /\ job'[v] = job[v] BY <1>7, <1>8
  <2>2. HoldsRow(v) /\ ReadTrue(v) /\ Unresolved(v) BY <2>1 DEF IInv, LockInv
  <2>3. job[v].in.market # m /\ job[v].in.market \in Markets
    BY <1>1, <1>2, <1>3, <2>1, <2>2, JobFacts DEF HoldsRow
  <2>4. /\ resolvedAt'[job[v].in.market] = resolvedAt[job[v].in.market]
        /\ winner'[job[v].in.market] = winner[job[v].in.market]
    BY <1>1, <1>2, <1>4, <2>3, FillFacts
  <2>5. HoldsRow(v)' BY <1>1, <1>4, <2>1, <2>2, <2>3 DEF HoldsRow, TypeOK
  <2>6. ReadTrue(v)' BY <2>1, <2>2, <2>4 DEF ReadTrue
  <2>7. Unresolved(v)' BY <2>1, <2>2, <2>4 DEF Unresolved, Resolved
  <2>. QED BY <2>5, <2>6, <2>7
<1>11. DatedInv' BY <1>2, <1>4, FillKeeps
<1>12. CreatedInv'
  <2> SUFFICES ASSUME NEW n \in Markets
               PROVE  created'[n] <= 1 /\ (created'[n] # 0 => resolvedAt'[n] # Null)
    BY DEF CreatedInv
  <2>1. created[n] \in Nat /\ created[n] <= 1 /\ (created[n] # 0 => resolvedAt[n] # Null)
    BY <1>1 DEF IInv, CreatedInv, TypeOK
  <2>2. resolvedAt[n] # Null => resolvedAt'[n] # Null BY <1>1, <1>2, <1>4, FillFacts
  <2>3. CASE created'[n] = created[n] BY <2>1, <2>2, <2>3
  <2>4. CASE created'[n] # created[n]
    <3>1. ~job[w].was BY <1>4, <2>4
    <3>2. n = m /\ created'[n] = created[n] + 1 BY <1>1, <1>2, <1>4, <2>4,
       <3>1 DEF TypeOK
    <3>3. resolvedAt[m] = Null BY <1>3, <3>1 DEF ReadTrue
    <3>. QED BY <1>6, <2>1, <3>2, <3>3
  <2>. QED BY <2>3, <2>4
<1>13. PendingHolds'
  <2> SUFFICES ASSUME NEW v \in Writers, job'[v].at = "publish", job'[v].in.winning # Null
               PROVE  winner'[job'[v].in.market] = job'[v].in.winning
    BY DEF PendingHolds
  <2>1. CASE v = w BY <1>6, <1>8, <2>1
  <2>2. CASE v # w BY <1>2, <1>4, <1>7, <2>2, FillKeeps
  <2>. QED BY <2>1, <2>2
<1>14. AnnouncedWinnerHolds'
  BY <1>2, <1>4, FillKeeps DEF AnnouncedWinnerHolds
<1>15. WinnerAnnounced'
  <2> SUFFICES ASSUME NEW n \in Markets, winner'[n] # Null, n \notin bySync \cup unheard
               PROVE  \/ \E e \in news : e.market = n /\ e.winning = winner'[n]
                      \/ \E v \in Writers : job'[v].at = "publish"
                           /\ job'[v].in.market = n /\ job'[v].in.winning = winner'[n]
    BY <1>4 DEF WinnerAnnounced
  <2>1. CASE n = m BY <1>6, <1>8, <2>1
  <2>2. CASE n # m
    <3>1. winner'[n] = winner[n] BY <1>1, <1>2, <1>4, <2>2, FillFacts
    <3>. QED BY <1>1, <1>7, <3>1 DEF IInv, WinnerAnnounced
  <2>. QED BY <2>1, <2>2
<1>. QED BY <1>9, <1>10, <1>11, <1>12, <1>13, <1>14, <1>15 DEF IInv

\* ROLLBACK, a publish or a lost publish: the call ends and its row stays.
LEMMA InvEnds ==
  ASSUME IInv, NEW w \in Writers, Aborts(w) \/ Publish(w) \/ PublishLost(w)
  PROVE  IInv'
<1>1. TypeOK /\ UNCHANGED <<rows, created, bySync>> BY DEF IInv, Aborts, Publish,
   PublishLost, hist
<1>2. job' = [job EXCEPT ![w] = Idle] BY DEF Aborts, Publish, PublishLost
<1>3. job'[w].at = "idle" BY <1>1, <1>2 DEF TypeOK, Idle
<1>4. ASSUME NEW v \in Writers, v # w PROVE job'[v] = job[v]
  BY <1>1, <1>2, <1>4 DEF TypeOK
<1>5. job[w].at \in {"update", "publish"} BY DEF Aborts, Publish, PublishLost
<1>6. job[w].in \in Input /\ job[w].in.market \in Markets /\ job[w].was \in BOOLEAN
  BY <1>1, <1>5, JobFacts
<1>7. ASSUME NEW v \in Writers, v # w, job[v].at = "update"
      PROVE  lock'[job[v].in.market] = lock[job[v].in.market]
  <2>1. CASE Aborts(w)
    <3>1. HoldsRow(w) /\ HoldsRow(v) BY <1>7, <2>1 DEF IInv, LockInv, Aborts
    <3>2. job[v].in.market # job[w].in.market BY <1>7, <3>1 DEF HoldsRow
    <3>. QED BY <1>1, <2>1, <3>2 DEF Aborts, TypeOK
  <2>2. CASE ~Aborts(w) BY <2>2 DEF Publish, PublishLost
  <2>. QED BY <2>1, <2>2
<1>8. TypeOK'
  <2>1. job' \in [Writers -> Job \cup {Idle}] BY <1>1, <1>2 DEF TypeOK
  <2>2. lock' \in [Markets -> Writers \cup {NoWriter}]
    BY <1>1, <1>6 DEF TypeOK, Aborts, Publish, PublishLost
  <2>3. news' \subseteq News
    BY <1>1, <1>6 DEF TypeOK, Aborts, Publish, PublishLost, News, Input, hist
  <2>4. unheard' \subseteq Markets
    BY <1>1, <1>6 DEF TypeOK, Aborts, Publish, PublishLost, hist
  <2>5. used' \in [{"call", "fault"} -> Nat]
    BY <1>1 DEF TypeOK, Aborts, Publish, PublishLost
  <2>. QED BY <1>1, <2>1, <2>2, <2>3, <2>4, <2>5 DEF TypeOK, rows
<1>9. LockInv'
  <2> SUFFICES ASSUME NEW v \in Writers, job'[v].at = "update"
               PROVE  HoldsRow(v)' /\ ReadTrue(v)' /\ Unresolved(v)'
    BY DEF LockInv
  <2>1. v # w /\ job'[v] = job[v] BY <1>3, <1>4
  <2>2. HoldsRow(v) /\ ReadTrue(v) /\ Unresolved(v) BY <2>1 DEF IInv, LockInv
  <2>3. HoldsRow(v)' BY <1>7, <2>1, <2>2 DEF HoldsRow
  <2>4. ReadTrue(v)' BY <1>1, <2>1, <2>2 DEF ReadTrue, rows
  <2>5. Unresolved(v)' BY <1>1, <2>1, <2>2 DEF Unresolved, Resolved, rows
  <2>. QED BY <2>3, <2>4, <2>5
<1>10. DatedInv' /\ CreatedInv' BY <1>1 DEF IInv, DatedInv, CreatedInv, rows
<1>11. PendingHolds' BY <1>1, <1>3, <1>4 DEF IInv, PendingHolds, rows
<1>12. AnnouncedWinnerHolds'
  <2> SUFFICES ASSUME NEW e \in news', e.winning # Null PROVE winner[e.market] = e.winning
    BY <1>1 DEF AnnouncedWinnerHolds, rows
  <2>1. CASE e \in news BY <2>1 DEF IInv, AnnouncedWinnerHolds
  <2>2. CASE e \notin news
    <3>1. Publish(w) /\ e.market = job[w].in.market /\ e.winning = job[w].in.winning
      BY <2>2 DEF Aborts, Publish, PublishLost, hist
    <3>. QED BY <3>1 DEF IInv, PendingHolds, Publish
  <2>. QED BY <2>1, <2>2
<1>13. WinnerAnnounced'
  <2> SUFFICES ASSUME NEW n \in Markets, winner[n] # Null, n \notin bySync \cup unheard'
               PROVE  \/ \E e \in news' : e.market = n /\ e.winning = winner[n]
                      \/ \E v \in Writers : job'[v].at = "publish"
                           /\ job'[v].in.market = n /\ job'[v].in.winning = winner[n]
    BY <1>1 DEF WinnerAnnounced, rows
  <2>1. news \subseteq news' /\ unheard \subseteq unheard'
    BY DEF Aborts, Publish, PublishLost, hist
  <2>2. \/ \E e \in news : e.market = n /\ e.winning = winner[n]
        \/ \E v \in Writers : job[v].at = "publish"
             /\ job[v].in.market = n /\ job[v].in.winning = winner[n]
    BY <2>1 DEF IInv, WinnerAnnounced
  <2>3. CASE \E e \in news : e.market = n /\ e.winning = winner[n]
    BY <2>1, <2>3
  <2>4. CASE \E v \in Writers : job[v].at = "publish"
             /\ job[v].in.market = n /\ job[v].in.winning = winner[n]
    <3>1. PICK v \in Writers : job[v].at = "publish"
             /\ job[v].in.market = n /\ job[v].in.winning = winner[n]
      BY <2>4
    <3>2. CASE v # w BY <1>4, <3>1, <3>2
    <3>3. CASE v = w
      <4>1. Publish(w) BY <3>1, <3>3 DEF Aborts, PublishLost
      <4>2. [market |-> job[w].in.market, winning |-> job[w].in.winning,
             resolvedAt |-> job[w].in.resolvedAt, amended |-> job[w].was] \in news'
        BY <4>1 DEF Publish
      <4>. QED BY <3>1, <3>3, <4>2
    <3>. QED BY <3>2, <3>3
  <2>. QED BY <2>2, <2>3, <2>4
<1>. QED BY <1>8, <1>9, <1>10, <1>11, <1>12, <1>13 DEF IInv

\* The pipeline's upsert: it waits for the lock, so that no call has read the
\* row it fills in.
LEMMA InvSync ==
  ASSUME IInv, NEW m \in Markets, NEW t \in Times, NEW win \in Winners \cup {Null},
         SyncUpsert(m, t, win)
  PROVE  IInv'
<1>1. /\ TypeOK /\ FillRow(m, t, win) /\ lock[m] = NoWriter
      /\ UNCHANGED <<lock, job, news, created, unheard, used>>
  BY DEF IInv, SyncUpsert
<1>2. TypeOK' BY <1>1, FillFacts DEF TypeOK, SyncUpsert
<1>3. LockInv'
  <2> SUFFICES ASSUME NEW v \in Writers, job[v].at = "update"
               PROVE  HoldsRow(v)' /\ ReadTrue(v)' /\ Unresolved(v)'
    BY <1>1 DEF LockInv
  <2>1. HoldsRow(v) /\ ReadTrue(v) /\ Unresolved(v) BY DEF IInv, LockInv
  <2>2. job[v].in.market # m BY <1>1, <2>1, WriteAssumption DEF HoldsRow
  <2>3. /\ resolvedAt'[job[v].in.market] = resolvedAt[job[v].in.market]
        /\ winner'[job[v].in.market] = winner[job[v].in.market]
    BY <1>1, <2>2, FillKeeps
  <2>4. HoldsRow(v)' BY <1>1, <2>1 DEF HoldsRow
  <2>5. ReadTrue(v)' BY <1>1, <2>1, <2>3 DEF ReadTrue
  <2>6. Unresolved(v)' BY <1>1, <2>1, <2>3 DEF Unresolved, Resolved
  <2>. QED BY <2>4, <2>5, <2>6
<1>4. DatedInv' BY <1>1, FillKeeps
<1>5. CreatedInv' BY <1>1, FillFacts DEF IInv, CreatedInv
<1>6. PendingHolds' BY <1>1, FillKeeps DEF PendingHolds
<1>7. AnnouncedWinnerHolds' BY <1>1, FillKeeps DEF AnnouncedWinnerHolds
<1>8. WinnerAnnounced'
  <2> SUFFICES ASSUME NEW n \in Markets, winner'[n] # Null, n \notin bySync' \cup unheard
               PROVE  \/ \E e \in news : e.market = n /\ e.winning = winner'[n]
                      \/ \E v \in Writers : job[v].at = "publish"
                           /\ job[v].in.market = n /\ job[v].in.winning = winner'[n]
    BY <1>1 DEF WinnerAnnounced
  <2>1. winner[n] # Null
    <3>1. CASE n = m BY <1>1, <3>1, FillFacts DEF SyncUpsert
    <3>2. CASE n # m BY <1>1, <3>2, FillFacts
    <3>. QED BY <3>1, <3>2
  <2>2. winner'[n] = winner[n] BY <1>1, <2>1, FillFacts
  <2>3. n \notin bySync BY DEF SyncUpsert
  <2>. QED BY <2>1, <2>2, <2>3 DEF IInv, WinnerAnnounced
<1>. QED BY <1>2, <1>3, <1>4, <1>5, <1>6, <1>7, <1>8 DEF IInv

\* Every step of the system keeps the invariant.
LEMMA InvStep == IInv /\ [Next]_vars => IInv'
<1> SUFFICES ASSUME IInv, [Next]_vars PROVE IInv' OBVIOUS
<1>1. ASSUME NEW w \in Writers, NEW in \in Input, Select(w, in) PROVE IInv'
  BY <1>1, InvSelect
<1>2. ASSUME NEW w \in Writers, UpdateAndCommit(w) PROVE IInv'
  BY <1>2, InvUpdate
<1>3. ASSUME NEW w \in Writers, Aborts(w) \/ Publish(w) \/ PublishLost(w) PROVE IInv'
  BY <1>3, InvEnds
<1>4. ASSUME NEW m \in Markets, NEW t \in Times, NEW win \in Winners \cup {Null},
             SyncUpsert(m, t, win)
      PROVE  IInv'
  BY <1>4, InvSync
<1>5. CASE UNCHANGED vars
  BY <1>5 DEF IInv, TypeOK, LockInv, DatedInv, CreatedInv, PendingHolds,
     AnnouncedWinnerHolds, WinnerAnnounced, HoldsRow, ReadTrue, Unresolved, Resolved,
     vars, rows, hist
<1>. QED BY <1>1, <1>2, <1>3, <1>4, <1>5 DEF Next

-----------------------------------------------------------------------------
\* Locks, reads, dates and announcements stay consistent in every state.
THEOREM InductiveInvariant == Spec => []IInv
BY InvInit, InvStep, PTL DEF Spec

\* Rows, calls and events only take values of their types.
THEOREM TypeCorrect == Spec => []TypeOK
<1>1. IInv => TypeOK BY DEF IInv
<1>. QED BY InductiveInvariant, <1>1, PTL

\* However many watchers, monitors and pipelines write at once, 'created' is
\* returned for a market at most once.
THEOREM CreatedOnce == Spec => []OneCreated
<1>1. IInv => OneCreated BY DEF IInv, CreatedInv, OneCreated
<1>. QED BY InductiveInvariant, <1>1, PTL

\* A winner announced on the bus is the winner of the row, for good.
THEOREM AnnouncementsHold == Spec => []AnnouncedWinnerHolds
<1>1. IInv => AnnouncedWinnerHolds BY DEF IInv
<1>. QED BY InductiveInvariant, <1>1, PTL

\* A winner filled in by a call is announced, or about to be, or was lost with
\* its process or with the bus.
THEOREM WinnersAnnounced == Spec => []WinnerAnnounced
<1>1. IInv => WinnerAnnounced BY DEF IInv
<1>. QED BY InductiveInvariant, <1>1, PTL

\* The concurrent writers implement the write-once row of CONTRACTS.md: their
\* row locks and COALESCE never let a column change twice.
THEOREM WritersImplementRow == Spec => RowSpec
<1>1. Init => Row!Init BY DEF Init, Row!Init
<1>2. IInv /\ [Next]_vars => [Row!Next]_<<resolvedAt, winner>>
  <2> SUFFICES ASSUME IInv, Next, ~UNCHANGED <<resolvedAt, winner>> PROVE Row!Next
    BY DEF vars, rows
  <2>1. ASSUME NEW m \in Markets, NEW t \in Times, NEW win \in Winners \cup {Null},
               FillRow(m, t, win)
        PROVE  Row!Next
    <3>1. Row!Fill(m, t, win) BY <2>1 DEF FillRow, Coalesce, Row!Fill, Row!First
    <3>. QED BY <3>1 DEF Row!Next
  <2>2. ASSUME NEW w \in Writers, UpdateAndCommit(w) PROVE Row!Next
    <3>1. /\ job[w].in.market \in Markets
          /\ job[w].in.resolvedAt \in Times
          /\ job[w].in.winning \in Winners \cup {Null}
      BY <2>2, JobFacts DEF UpdateAndCommit, IInv
    <3>2. FillRow(job[w].in.market, job[w].in.resolvedAt, job[w].in.winning)
      BY <2>2 DEF UpdateAndCommit
    <3>. QED BY <2>1, <3>1, <3>2
  <2>3. ASSUME NEW w \in Writers, NEW in \in Input,
               Select(w, in)
        PROVE  FALSE
    BY <2>3 DEF Select, rows
  <2>4. ASSUME NEW m \in Markets, NEW t \in Times, NEW win \in Winners \cup {Null},
               SyncUpsert(m, t, win)
        PROVE  Row!Next
    BY <2>1, <2>4 DEF SyncUpsert
  <2>5. \A w \in Writers : ~(Aborts(w) \/ Publish(w) \/ PublishLost(w))
    BY DEF Aborts, Publish, PublishLost, rows
  <2>. QED BY <2>2, <2>3, <2>4, <2>5 DEF Next
<1>. QED BY InductiveInvariant, <1>1, <1>2, PTL DEF Spec, RowSpec, Row!Spec
-----------------------------------------------------------------------------
(* The way out of the solver, ResolutionEviction: the state is well formed, *)
(* a live quote has its subscription, and no reload revives a market that   *)
(* was resolved before it began.                                            *)

\* What a reload has in hand: nothing until the graph is loaded, and from
\* then on no market that was resolved when it began.
ReloadInv ==
  /\ reload.at \in {"idle", "load"} => reload.cand = {}
  /\ reload.at = "load" => \A m \in reload.known : HasTime(m)
  /\ reload.at # "load" => reload.known \cap reload.cand = {}
  /\ reload.add \subseteq reload.cand

EvictionInv == EvictionTypeOK /\ LiveMeansTracked /\ ReloadInv

-----------------------------------------------------------------------------
LEMMA EvictionStarts == EvictionInit => EvictionInv
<1> SUFFICES ASSUME EvictionInit PROVE EvictionInv
  OBVIOUS
<1>1. EvictionTypeOK
  <2>1. reload \in [at : {"idle", "load", "gate", "answer", "expand"},
                    cand : SUBSET MarketIds, add : SUBSET MarketIds,
                    known : SUBSET MarketIds]
    BY DEF EvictionInit, NoReload
  <2>2. poll \in [at : {"idle", "asked", "rows"}, ids : SUBSET MarketIds]
    BY DEF EvictionInit, Quiet
  <2>3. \A m \in reload.add : reload.at = "expand" /\ cache[m] # "none"
    BY DEF EvictionInit, NoReload
  <2>4. cache \in [MarketIds -> {"none", "empty", "live", "stale"}]
    BY DEF EvictionInit
  <2>5. \A m \in tracked : cache[m] # "none"
    BY DEF EvictionInit
  <2>6. /\ settled \subseteq MarketIds /\ tracked \subseteq MarketIds /\ missed \subseteq MarketIds
        /\ row \in [MarketIds -> {"open", "undecided", "resolved"}]
        /\ handler \in [MarketIds -> {"none", "write", "evict"}]
    BY DEF EvictionInit
  <2>7. age \in [MarketIds -> 0..2]
    BY DEF EvictionInit
  <2>8. up \in BOOLEAN
    BY Zenon DEF EvictionInit
  <2> QED BY <2>1, <2>2, <2>3, <2>4, <2>5, <2>6, <2>7, <2>8 DEF EvictionTypeOK
<1>2. LiveMeansTracked
  BY DEF EvictionInit, LiveMeansTracked
<1>3. ReloadInv
  BY DEF EvictionInit, NoReload, ReloadInv
<1> QED BY <1>1, <1>2, <1>3 DEF EvictionInv

\* A row never loses its resolved_at.
LEMMA TimesStay ==
  ASSUME EvictionTypeOK,
         UNCHANGED row \/ \E m \in MarketIds : OtherWrites(m) \/ HandlerWrites(m)
  PROVE  \A m \in MarketIds : HasTime(m) => HasTime(m)'
  BY DEF EvictionTypeOK, OtherWrites, HandlerWrites, HasTime

\* Everything a reload depends on, when only a row may change.
LEMMA ReloadInvStays ==
  ASSUME EvictionTypeOK, ReloadInv, UNCHANGED reload,
         \A m \in MarketIds : HasTime(m) => HasTime(m)'
  PROVE  ReloadInv'
  BY DEF EvictionTypeOK, ReloadInv

LEMMA EvictSafe ==
  ASSUME EvictionTypeOK, LiveMeansTracked, NEW ids \in SUBSET MarketIds, Evict(ids)
  PROVE  /\ tracked' \subseteq tracked
         /\ cache' \in [MarketIds -> {"none", "empty", "live", "stale"}]
         /\ \A m \in MarketIds : cache[m] # "none" <=> cache'[m] # "none"
         /\ LiveMeansTracked'
  BY DEF EvictionTypeOK, LiveMeansTracked, Evict

LEMMA EvictionKept == EvictionInv /\ [EvictionNext]_evictionVars => EvictionInv'
<1> SUFFICES ASSUME EvictionInv, [EvictionNext]_evictionVars PROVE EvictionInv'
  OBVIOUS
<1> USE DEF EvictionInv
<1>1. CASE UNCHANGED evictionVars
  BY <1>1 DEF EvictionTypeOK, LiveMeansTracked, ReloadInv, HasTime, evictionVars, db
<1>2. ASSUME NEW m \in MarketIds, MarketStep(m) PROVE EvictionInv'
  <2>1. CASE Settles(m)
    BY <2>1 DEF Settles, EvictionTypeOK, LiveMeansTracked, ReloadInv, HasTime
  <2>2. CASE OtherWrites(m)
    <3>1. EvictionTypeOK'
      <4>1. PICK with \in {"undecided", "resolved"} : row' = [row EXCEPT ![m] = with]
        BY <2>2 DEF OtherWrites
      <4>2. row' \in [MarketIds -> {"open", "undecided", "resolved"}]
        BY <4>1 DEF EvictionTypeOK
      <4>3. \A a \in Dating(m) : a \in 0..2
        BY DEF Dating, EvictionTypeOK
      <4>4. age' \in [MarketIds -> 0..2]
        BY <2>2, <4>3 DEF OtherWrites, EvictionTypeOK
      <4> QED BY <2>2, <4>2, <4>4 DEF OtherWrites, EvictionTypeOK
    <3>2. LiveMeansTracked'
      BY <2>2 DEF OtherWrites, LiveMeansTracked
    <3>3. ReloadInv'
      BY <2>2, TimesStay, ReloadInvStays DEF OtherWrites
    <3> QED BY <3>1, <3>2, <3>3
  <2>3. CASE Announce(m)
    BY <2>3 DEF Announce, EvictionTypeOK, LiveMeansTracked, ReloadInv, HasTime, db
  <2>4. CASE HandlerWrites(m)
    <3>1. EvictionTypeOK'
      <4>1. row' \in [MarketIds -> {"open", "undecided", "resolved"}]
        BY <2>4 DEF HandlerWrites, EvictionTypeOK
      <4>2. age' \in [MarketIds -> 0..2]
        BY <2>4 DEF HandlerWrites, EvictionTypeOK
      <4>3. OnOutcome(m) \in {"none", "write", "evict"}
        BY DEF OnOutcome
      <4>4. handler' \in [MarketIds -> {"none", "write", "evict"}]
        BY <2>4, <4>3 DEF HandlerWrites, EvictionTypeOK
      <4> QED BY <2>4, <4>1, <4>2, <4>4 DEF HandlerWrites, EvictionTypeOK
    <3>2. LiveMeansTracked'
      BY <2>4 DEF HandlerWrites, LiveMeansTracked
    <3>3. ReloadInv'
      BY <2>4, TimesStay, ReloadInvStays DEF HandlerWrites
    <3> QED BY <3>1, <3>2, <3>3
  <2>5. CASE HandlerFails(m)
    BY <2>5 DEF HandlerFails, EvictionTypeOK, LiveMeansTracked, ReloadInv, HasTime,
                db
  <2>6. CASE HandlerEvicts(m)
    <3>1. Evict({m})
      BY <2>6 DEF HandlerEvicts
    <3>2. LiveMeansTracked'
      BY <3>1, EvictSafe
    <3>3. EvictionTypeOK'
      BY <2>6, <3>1, EvictSafe DEF HandlerEvicts, EvictionTypeOK, db
    <3>4. ReloadInv'
      BY <2>6 DEF HandlerEvicts, ReloadInv, HasTime, db
    <3> QED BY <3>2, <3>3, <3>4
  <2>7. CASE PriceUpdate(m)
    BY <2>7 DEF PriceUpdate, EvictionTypeOK, LiveMeansTracked, ReloadInv, HasTime,
                db
  <2> QED BY <1>2, <2>1, <2>2, <2>3, <2>4, <2>5, <2>6, <2>7 DEF MarketStep
<1>3. ASSUME Watermark, UNCHANGED <<settled, row, cache, tracked, handler, reload, missed>>,
             up' = TRUE, poll' \in {poll, [at |-> "asked", ids |-> {}]}
      PROVE  EvictionInv'
  <2>1. \A m \in MarketIds : age[m] \in 0..2 /\ (age[m] < 2 => age[m] + 1 \in 0..2)
    BY DEF EvictionTypeOK
  <2>2. age' \in [MarketIds -> 0..2]
    BY <1>3, <2>1 DEF Watermark
  <2>3. EvictionTypeOK'
    BY <1>3, <2>2 DEF EvictionTypeOK
  <2> QED BY <1>3, <2>3 DEF LiveMeansTracked, ReloadInv, HasTime
<1>4. CASE Boot
  BY <1>3, <1>4 DEF Boot
<1>5. CASE PollStep
  <2>1. CASE PollStarts
    BY <1>3, <2>1 DEF PollStarts, EvictionTypeOK
  <2>2. CASE PollQueries
    <3>1. SinceLast \in SUBSET MarketIds
      BY DEF SinceLast
    <3> QED BY <2>2, <3>1
            DEF PollQueries, EvictionTypeOK, LiveMeansTracked, ReloadInv, HasTime,
                db
  <2>3. CASE PollFails
    BY <2>3 DEF PollFails, SinceLast, Quiet, EvictionTypeOK, LiveMeansTracked,
                ReloadInv, HasTime, db
  <2>4. CASE PollEvicts
    <3>1. Evict(poll.ids) /\ poll.ids \in SUBSET MarketIds
      BY <2>4 DEF PollEvicts, EvictionTypeOK
    <3>2. LiveMeansTracked'
      BY <3>1, EvictSafe
    <3>3. poll' \in [at : {"idle", "asked", "rows"}, ids : SUBSET MarketIds]
      BY <2>4 DEF PollEvicts, Quiet
    <3>4. EvictionTypeOK'
      BY <2>4, <3>1, <3>3, EvictSafe DEF PollEvicts, EvictionTypeOK, db
    <3>5. ReloadInv'
      BY <2>4 DEF PollEvicts, ReloadInv, HasTime, db
    <3> QED BY <3>2, <3>4, <3>5
  <2> QED BY <1>5, <2>1, <2>2, <2>3, <2>4 DEF PollStep
<1>6. CASE ReloadStep
  <2>1. CASE ReloadStarts
    BY <2>1 DEF ReloadStarts, NoReload, EvictionTypeOK, LiveMeansTracked,
                ReloadInv, HasTime, db
  <2>2. CASE ReloadLoads
    <3>1. PICK S \in SUBSET {m \in MarketIds : OpenInDb(m)} :
            reload' = [reload EXCEPT !.at = "gate", !.cand = S, !.known = @ \cap S]
      BY <2>2 DEF ReloadLoads
    <3>2. reload.known \cap S = {}
      BY <2>2, <3>1 DEF ReloadLoads, ReloadInv, OpenInDb
    <3>3. EvictionTypeOK'
      BY <2>2, <3>1 DEF ReloadLoads, ReloadInv, EvictionTypeOK, db
    <3>4. ReloadInv'
      BY <2>2, <3>1, <3>2 DEF ReloadLoads, ReloadInv, EvictionTypeOK
    <3> QED BY <2>2, <3>3, <3>4 DEF ReloadLoads, LiveMeansTracked
  <2>3. CASE ReloadFails
    BY <2>3 DEF ReloadFails, NoReload, EvictionTypeOK, LiveMeansTracked, ReloadInv,
                HasTime, db
  <2>4. CASE GateQueries
    <3>1. EvictionTypeOK'
      BY <2>4 DEF GateQueries, EvictionTypeOK, db
    <3>2. ReloadInv'
      BY <2>4 DEF GateQueries, ReloadInv, EvictionTypeOK
    <3> QED BY <2>4, <3>1, <3>2 DEF GateQueries, LiveMeansTracked
  <2>5. CASE GateFails
    <3>1. EvictionTypeOK'
      BY <2>5 DEF GateFails, EvictionTypeOK, db
    <3>2. ReloadInv'
      BY <2>5 DEF GateFails, ReloadInv, EvictionTypeOK
    <3> QED BY <2>5, <3>1, <3>2 DEF GateFails, LiveMeansTracked
  <2>6. CASE Tracks
    <3> DEFINE new == reload.cand \ tracked
    <3>1. /\ tracked' \subseteq MarketIds
          /\ tracked \cap reload.cand \subseteq tracked'
          /\ tracked' \subseteq reload.cand
      BY <2>6 DEF Tracks, EvictionTypeOK
    <3>2. /\ cache' \in [MarketIds -> {"none", "empty", "live", "stale"}]
          /\ \A m \in reload.cand : cache'[m] # "none"
          /\ \A m \in MarketIds : cache'[m] = "live" => m \in reload.cand /\ cache[m] = "live"
      BY <2>6 DEF Tracks, CacheFor, EvictionTypeOK
    <3>3. \/ reload' = [reload EXCEPT !.at = "expand", !.add = new]
          \/ reload' = NoReload
      BY <2>6 DEF Tracks
    <3>4. EvictionTypeOK'
      BY <2>6, <3>1, <3>2, <3>3 DEF Tracks, NoReload, EvictionTypeOK, db
    <3>5. LiveMeansTracked'
      BY <3>1, <3>2 DEF LiveMeansTracked
    <3>6. ReloadInv'
      BY <2>6, <3>3 DEF Tracks, NoReload, ReloadInv, EvictionTypeOK
    <3> QED BY <3>4, <3>5, <3>6
  <2>7. CASE Subscribes
    <3>1. EvictionTypeOK'
      BY <2>7 DEF Subscribes, NoReload, EvictionTypeOK, db
    <3>2. LiveMeansTracked'
      BY <2>7 DEF Subscribes, LiveMeansTracked
    <3>3. ReloadInv'
      BY <2>7 DEF Subscribes, NoReload, ReloadInv
    <3> QED BY <3>1, <3>2, <3>3
  <2> QED BY <1>6, <2>1, <2>2, <2>3, <2>4, <2>5, <2>6, <2>7 DEF ReloadStep
<1> QED BY <1>1, <1>2, <1>4, <1>5, <1>6 DEF EvictionNext

LEMMA EvictionInductive == EvictionSpec => []EvictionInv
  BY EvictionStarts, EvictionKept, PTL DEF EvictionSpec

-----------------------------------------------------------------------------
\* Every variable keeps its type, every tracked market its cache entry.
THEOREM EvictionTypeCorrect == EvictionSpec => []EvictionTypeOK
<1>1. EvictionInv => EvictionTypeOK
  BY DEF EvictionInv
<1> QED BY <1>1, EvictionInductive, PTL

\* No quote outlives the subscription it came from.
THEOREM LiveQuotesTracked == EvictionSpec => []LiveMeansTracked
<1>1. EvictionInv => LiveMeansTracked
  BY DEF EvictionInv
<1> QED BY <1>1, EvictionInductive, PTL

\* Only Tracks and Subscribes add to the tracked set, and both add candidates.
THEOREM ResolvedNotRevived == EvictionSpec => NoRevival
<1>1. ASSUME EvictionInv, [EvictionNext]_evictionVars
      PROVE  [\A m \in tracked' \ tracked : m \notin reload.known]_evictionVars
  <2>1. CASE UNCHANGED evictionVars
    BY <2>1
  <2>2. ASSUME tracked' \subseteq tracked PROVE \A m \in tracked' \ tracked : m \notin reload.known
    BY <2>2
  <2>3. ASSUME NEW m \in MarketIds, MarketStep(m) PROVE tracked' \subseteq tracked
    BY <2>3 DEF MarketStep, Settles, OtherWrites, Announce, HandlerWrites,
                HandlerFails, HandlerEvicts, PriceUpdate, Evict
  <2>4. Boot \/ PollStep => tracked' \subseteq tracked
    BY DEF Boot, PollStep, PollStarts, PollQueries, PollFails, PollEvicts, Evict
  <2>5. CASE ReloadStep
    <3>1. CASE Tracks
      <4>1. tracked' \ tracked \subseteq reload.cand
        BY <3>1 DEF Tracks
      <4>2. reload.known \cap reload.cand = {}
        BY <1>1, <3>1 DEF Tracks, EvictionInv, ReloadInv
      <4> QED BY <4>1, <4>2
    <3>2. CASE Subscribes
      <4>1. tracked' \ tracked \subseteq reload.cand
        BY <1>1, <3>2 DEF Subscribes, EvictionInv, ReloadInv
      <4>2. reload.known \cap reload.cand = {}
        BY <1>1, <3>2 DEF Subscribes, EvictionInv, ReloadInv
      <4> QED BY <4>1, <4>2
    <3>3. CASE ReloadStarts \/ ReloadLoads \/ ReloadFails \/ GateQueries \/ GateFails
      BY <3>3 DEF ReloadStarts, ReloadLoads, ReloadFails, GateQueries, GateFails
    <3> QED BY <2>5, <3>1, <3>2, <3>3 DEF ReloadStep
  <2> QED BY <1>1, <2>1, <2>2, <2>3, <2>4, <2>5 DEF EvictionNext
<1> QED BY <1>1, EvictionInductive, PTL DEF EvictionSpec, NoRevival
=============================================================================
