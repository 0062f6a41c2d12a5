--------------------------- MODULE SchedulerProofs ---------------------------
(***************************************************************************)
(* Proofs about the two sides of the scheduler.                            *)
(*                                                                         *)
(* First RefreshSchedule: when a batch is due and when the thread wakes,   *)
(* for any batches, products, windows and intervals and without a bound on *)
(* time or on the number of requests.                                      *)
(*                                                                         *)
(* Then SnapshotScheduler: the thread itself, for any number of starts,    *)
(* any changers and any due times.  Type correctness needs nothing else;   *)
(* the two safety properties need that one thread alone starts and stops   *)
(* the scheduler, as main does in server.cpp: a second stop() finds the    *)
(* handle taken, has nothing to join and marks a scheduler stopped whose   *)
(* worker still runs.                                                      *)
(***************************************************************************)
EXTENDS RefreshSchedule, SnapshotScheduler, SnapshotTableProofs, WellFoundedInduction

Types ==
    /\ now \in Nat
    /\ interval \in [Products -> Nat \ {0}]
    /\ interval \in [Products -> Intervals \cup {DefaultInterval}]
    /\ window \in [Batches -> Windows \cup {NoWindow}]
    /\ next \in [Batches -> Times]
    /\ checkedAt \in [Batches -> Times]
    /\ unscheduled \subseteq Batches
    /\ handler \in [Batches -> {"none", "saved", "published", "changed"}]
    /\ worker \in {"check", "publish", "asleep"}
    /\ todo \subseteq Batches /\ queued \subseteq Batches /\ indexed \subseteq Batches
    /\ wakeAt \in Times /\ misled \in {"no", "unwoken", "lookup"}
    /\ wake \in BOOLEAN
    /\ failures \in 0..MaxFailures

SInv == TableInv(table) /\ Types

-----------------------------------------------------------------------------
(* Every non-empty set of times has an earliest one, which is what the     *)
(* aggregate MIN of next_refresh_delay returns.                            *)
Earlier == {p \in Nat \X Nat : p[1] < p[2]}

(* The order of times is well founded.                                     *)
LEMMA EarlierIsWellFounded == IsWellFoundedOn(Earlier, Nat)
<1>1. IsWellFoundedOn(OpToRel(<,Nat), Nat)
  BY NatLessThanWellFounded
<1>2. OpToRel(<,Nat) = Earlier
  BY DEF OpToRel, Earlier
<1> QED BY <1>1, <1>2

(* MIN of a non-empty set of times is its least element.                  *)
LEMMA MinIsLeast ==
    ASSUME NEW W \in SUBSET Nat, W # {}
    PROVE  Min(W) \in W /\ \A y \in W : Min(W) <= y
<1>1. PICK x \in W : \A y \in W : ~(<<y, x>> \in Earlier)
  BY EarlierIsWellFounded, WFMin
<1>2. ASSUME NEW y \in W PROVE x <= y
  <2>1. ~(<<y, x>> \in Earlier) /\ x \in Nat /\ y \in Nat
    BY <1>1
  <2>2. <<y, x>> \in Nat \X Nat
    BY <2>1
  <2>3. ~(y < x)
    BY <2>1, <2>2 DEF Earlier
  <2> QED BY <2>1, <2>3
<1> QED BY <1>2 DEF Min

(* What the shared CASE expression yields: a time inside the window, no    *)
(* later than one interval from now or the window's start, and after now   *)
(* when now is inside the window.                                          *)
LEMMA NextRefreshFacts ==
    ASSUME NEW t \in Nat, NEW w \in Windows \cup {NoWindow}, NEW n \in Nat \ {0},
           NEW r, r = NextRefresh(t, w, n)
    PROVE  /\ r \in Times
           /\ w # NoWindow /\ r # Never => w.from <= r /\ r <= w.until
           /\ r # Never => r <= t + n \/ (w # NoWindow /\ r = w.from)
           /\ w = NoWindow \/ (w.from <= t /\ t < w.until) => r # Never /\ r > t
<1>1. CASE w = NoWindow
  <2>1. r = t + n
    BY <1>1 DEF NextRefresh
  <2> QED BY <1>1, <2>1, NeverAssumption DEF Times
<1>2. CASE w # NoWindow
  <2>0. w.from \in Nat /\ w.until \in Nat /\ w.from < w.until
    BY <1>2, WindowAssumption
  <2>1. CASE t < w.from
    <3>1. r = w.from
      BY <1>2, <2>0, <2>1 DEF NextRefresh
    <3> QED BY <1>2, <2>0, <2>1, <3>1 DEF Times
  <2>2. CASE t >= w.until
    <3>1. r = Never
      BY <1>2, <2>0, <2>2 DEF NextRefresh
    <3> QED BY <1>2, <2>0, <2>2, <3>1 DEF Times
  <2>3. CASE w.from <= t /\ t < w.until /\ t + n >= w.until
    <3>1. r = w.until
      BY <1>2, <2>0, <2>3 DEF NextRefresh
    <3> QED BY <1>2, <2>0, <2>3, <3>1, NeverAssumption DEF Times
  <2>4. CASE w.from <= t /\ t < w.until /\ t + n < w.until
    <3>1. r = t + n
      BY <1>2, <2>0, <2>4 DEF NextRefresh
    <3> QED BY <1>2, <2>0, <2>4, <3>1, NeverAssumption DEF Times
  <2> QED BY <2>0, <2>1, <2>2, <2>3, <2>4
<1> QED BY <1>1, <1>2

(* A verification writes such a time.                                      *)
LEMMA TouchFacts ==
    ASSUME Types, NEW b \in Batches, TouchVerification(b)
    PROVE  /\ checkedAt' \in [Batches -> Times] /\ next' \in [Batches -> Times]
           /\ next'[b] = NextRefresh(now, window[b], interval[ProductOf[b]])
           /\ \A c \in Batches \ {b} : next'[c] = next[c] /\ checkedAt'[c] = checkedAt[c]
           /\ interval[ProductOf[b]] \in Nat \ {0}
           /\ window[b] \in Windows \cup {NoWindow}
<1>1. interval[ProductOf[b]] \in Nat \ {0} /\ window[b] \in Windows \cup {NoWindow}
  BY ProductAssumption DEF Types
<1>2. NextRefresh(now, window[b], interval[ProductOf[b]]) \in Times
  BY <1>1, NextRefreshFacts DEF Types
<1> QED BY <1>1, <1>2 DEF TouchVerification, Types, Times

(* next_refresh_delay answers no later than the wake time of any batch     *)
(* that has a say in it.                                                   *)
LEMMA NextWakeType ==
    ASSUME Types
    PROVE  /\ NextWake \in Times
           /\ \A b \in Batches : NewestIsPublished(b) /\ ~Ended(b) =>
                  /\ WakeTime(b) \in Nat
                  /\ NextWake # Never /\ NextWake <= WakeTime(b)
<1> DEFINE W == {WakeTime(b) : b \in {c \in Batches : NewestIsPublished(c) /\ ~Ended(c)}}
<1>1. \A b \in Batches : WakeTime(b) \in Nat
  <2> SUFFICES ASSUME NEW b \in Batches PROVE WakeTime(b) \in Nat
    OBVIOUS
  <2>1. CASE Before(b)
    <3>1. window[b] \in Windows
      BY <2>1 DEF Before, Types
    <3>2. WakeTime(b) = window[b].from
      BY <2>1 DEF WakeTime
    <3> QED BY <3>1, <3>2, WindowAssumption
  <2>2. CASE ~Before(b) /\ next[b] \in 0..now \cup {Never}
    <3>1. WakeTime(b) = now
      BY <2>2 DEF WakeTime
    <3> QED BY <3>1 DEF Types
  <2>3. CASE ~Before(b) /\ next[b] \notin 0..now \cup {Never}
    <3>1. WakeTime(b) = next[b]
      BY <2>3 DEF WakeTime
    <3> QED BY <2>3, <3>1 DEF Types, Times
  <2> QED BY <2>1, <2>2, <2>3
<1>2. W \in SUBSET Nat
  BY <1>1
<1>3. NextWake = IF W = {} THEN Never ELSE Min(W)
  BY DEF NextWake
<1>4. \A b \in Batches : NewestIsPublished(b) /\ ~Ended(b) => WakeTime(b) \in W
  OBVIOUS
<1> HIDE DEF W
<1>5. CASE W = {}
  BY <1>1, <1>3, <1>4, <1>5 DEF Times
<1>6. CASE W # {}
  <2>1. Min(W) \in Nat /\ \A y \in W : Min(W) <= y
    BY <1>2, <1>6, MinIsLeast
  <2> QED BY <1>1, <1>3, <1>4, <1>6, <2>1, NeverAssumption DEF Times
<1> QED BY <1>5, <1>6

-----------------------------------------------------------------------------
(* A fresh or migrated database satisfies the invariant.                   *)
LEMMA InitSInv == Init => SInv
<1> SUFFICES ASSUME Init PROVE SInv
  OBVIOUS
<1>1. Types
  <2>1. /\ interval \in [Products -> Nat \ {0}]
        /\ interval \in [Products -> Intervals \cup {DefaultInterval}]
    BY IntervalAssumption DEF Init
  <2>2. next \in [Batches -> Times] /\ checkedAt \in [Batches -> Times] /\ wakeAt \in Times
    BY DEF Init, Times
  <2>3. window \in [Batches -> Windows \cup {NoWindow}] /\ now \in Nat
    BY DEF Init
  <2>4. wake \in BOOLEAN /\ failures = 0
    BY DEF Init
  <2>5. failures \in 0..MaxFailures
    BY <2>4, MaxFailuresAssumption
  <2> QED BY <2>1, <2>2, <2>3, <2>4, <2>5 DEF Init, Types
<1>2. PICK old \in SUBSET Ids, c \in Contents :
          /\ \A i, j \in old : BatchOf[i] = BatchOf[j] => i = j
          /\ table = [i \in Ids |-> IF i \in old THEN LegacyRow(c) ELSE AbsentRow]
  BY DEF Init
<1>3. table \in [Ids -> Row] /\ \A i \in Ids : Stored(table, i) <=> i \in old
  BY <1>2 DEF LegacyRow, AbsentRow, Row, States, Stored
<1>4. AtMostOne(table, "active") /\ AtMostOne(table, "preview")
  BY <1>2 DEF AtMostOne, LegacyRow, AbsentRow
<1>5. ASSUME NEW b \in Batches
      PROVE  /\ \A i, j \in RowsOf(table, b) : i = j
             /\ \E k \in Nat : Revisions(table, b) = 1..k
  <2>1. \A i, j \in RowsOf(table, b) : i = j
    BY <1>2, <1>3 DEF RowsOf
  <2>2. \A i \in RowsOf(table, b) : table[i].rev = 1
    BY <1>2, <1>3 DEF RowsOf, LegacyRow
  <2>3. CASE RowsOf(table, b) = {}
    <3>1. Revisions(table, b) = 1..0
      BY <2>3 DEF Revisions
    <3> QED BY <2>1, <3>1
  <2>4. CASE RowsOf(table, b) # {}
    <3>1. Revisions(table, b) = {1}
      BY <2>2, <2>4 DEF Revisions
    <3>2. Revisions(table, b) = 1..1
      BY <3>1
    <3> QED BY <2>1, <3>2
  <2> QED BY <2>3, <2>4
<1>6. Numbered(table)
  BY <1>5 DEF Numbered
<1> QED BY <1>1, <1>3, <1>4, <1>6 DEF SInv, TableInv

(* A failure is counted as long as one is left.                            *)
LEMMA FailureCounted == ASSUME Types, StoreFails PROVE failures' \in 0..MaxFailures
BY MaxFailuresAssumption DEF StoreFails, Types

(* Only handlers and checks write the table or the schedule;               *)
(* the cases that only move the thread are immediate.                      *)
LEMMA StepSInv == SInv /\ [Next]_vars => SInv'
<1> SUFFICES ASSUME SInv, [Next]_vars PROVE SInv'
  OBVIOUS
<1> USE DEF SInv, settings, schedule, thread
<1>1. CASE Tick
  BY <1>1 DEF Tick, Types
<1>2. ASSUME NEW b \in Batches, NEW w \in Windows, NEW n \in Intervals,
             SaveRefreshSettings(b, w, n)
      PROVE  SInv'
  <2>1. n \in Nat \ {0} /\ interval' \in [Products -> Nat \ {0}]
        /\ interval' \in [Products -> Intervals \cup {DefaultInterval}]
    BY <1>2, IntervalAssumption DEF SaveRefreshSettings, Types
  <2>2. window' \in [Batches -> Windows \cup {NoWindow}]
    BY <1>2 DEF SaveRefreshSettings, Types
  <2>3. \A c \in Batches : NextRefresh(now, window'[c], n) \in Times
    BY <2>1, <2>2, NextRefreshFacts DEF Types
  <2>4. next' \in [Batches -> Times]
    BY <1>2, <2>3 DEF SaveRefreshSettings, Types
  <2> QED BY <1>2, <2>1, <2>2, <2>4 DEF SaveRefreshSettings, Types
<1>3. ASSUME NEW b \in Batches, VerifyPublished(b) \/ VerifyPublishedFails(b)
      PROVE  SInv'
  <2>1. CASE VerifyPublished(b)
    <3>1. TouchVerification(b)
      BY <2>1 DEF VerifyPublished
    <3> QED BY <2>1, <3>1, TouchFacts DEF VerifyPublished, TouchVerification, Types
  <2>2. CASE VerifyPublishedFails(b)
    BY <2>2, FailureCounted DEF VerifyPublishedFails, Types
  <2> QED BY <1>3, <2>1, <2>2
<1>4. ASSUME NEW b \in Batches, Invalidate(b) \/ InvalidateFails(b)
      PROVE  SInv'
  <2>1. RouteChanges(b) /\ failures' \in 0..MaxFailures
    BY <1>4, FailureCounted DEF Invalidate, InvalidateFails, Types
  <2>2. table' = Invalidated(table, b) \/ table' = table
    BY <1>4 DEF Invalidate, InvalidateFails
  <2>3. TableInv(table')
    BY <2>2, InvalidationKeepsTable
  <2>4. next' \in [Batches -> Times] /\ unscheduled' \subseteq Batches
    BY <1>4 DEF Invalidate, InvalidateFails, KeepsSchedule, Types, Times
  <2> QED BY <2>1, <2>3, <2>4 DEF RouteChanges, Types
<1>5. ASSUME NEW b \in Batches, WakeScheduler(b) \/ AnswerUnread(b)
      PROVE  SInv'
  BY <1>5, FailureCounted DEF WakeScheduler, AnswerUnread, Types
<1>6. ASSUME NEW i \in Ids, SavePreview(i) PROVE SInv'
  <2>1. TableInv(table')
    BY <1>6, PreviewKeepsTable DEF SavePreview
  <2> QED BY <1>6, <2>1 DEF SavePreview, Types
<1>7. ASSUME NEW i \in Ids, MarkPublished(i) \/ MarkPublishedFails(i)
      PROVE  SInv'
  <2>1. TableInv(table')
    BY <1>7, PublicationKeepsTable DEF MarkPublished, MarkPublishedFails
  <2>2. BatchOf[i] \in Batches
    BY BatchOfAssumption
  <2>3. unscheduled' \subseteq Batches /\ UNCHANGED <<settings, next, checkedAt>>
    BY <1>7, <2>2 DEF MarkPublished, MarkPublishedFails, KeepsSchedule, Types
  <2> QED BY <1>7, <2>1, <2>2, <2>3, FailureCounted DEF MarkPublished, MarkPublishedFails, Types
<1>8. CASE StartCycle
  BY <1>8 DEF StartCycle, Types
<1>9. CASE ReleaseChain \/ SourceUnread
  BY <1>9, FailureCounted DEF ReleaseChain, SourceUnread, Types
<1>10. CASE FallAsleep
  BY <1>10, NextWakeType DEF FallAsleep, CycleEnds, Types
<1>11. CASE LookUpFails
  <2>1. wakeAt' \in Times /\ misled' \in {"no", "unwoken", "lookup"}
    BY <1>11 DEF LookUpFails, Types, Times
  <2> QED BY <1>11, <2>1, FailureCounted DEF LookUpFails, CycleEnds, Types
<1>12. ASSUME NEW b \in Batches, CheckBatch(b) \/ MisreadDue(b) \/ CheckFails(b)
       PROVE  SInv'
  <2>1. LookAt(b) /\ failures' \in 0..MaxFailures
    BY <1>12, FailureCounted DEF CheckBatch, MisreadDue, CheckFails, Types
  <2>2. (TouchVerification(b) /\ UNCHANGED queued)
        \/ (UNCHANGED schedule /\ queued' \subseteq Batches)
    BY <1>12 DEF CheckBatch, MisreadDue, CheckFails, Refresh, Types
  <2>3. CASE TouchVerification(b) /\ UNCHANGED queued
    BY <2>1, <2>3, TouchFacts DEF LookAt, TouchVerification, Types
  <2>4. CASE UNCHANGED schedule /\ queued' \subseteq Batches
    BY <2>1, <2>4 DEF LookAt, Types
  <2> QED BY <2>2, <2>3, <2>4
<1>13. ASSUME NEW b \in Batches, IndexPublished(b) PROVE SInv'
  <2>1. TableInv(table')
    BY <1>13, PublicationKeepsTable DEF IndexPublished
  <2> QED BY <1>13, <2>1 DEF IndexPublished, KeepsSchedule, Types
<1>14. ASSUME NEW b \in Batches, RecordCheck(b) \/ RecordCheckFails(b)
       PROVE  SInv'
  <2>1. CASE RecordCheck(b)
    BY <2>1, TouchFacts DEF RecordCheck, Recorded, TouchVerification, Types
  <2>2. CASE RecordCheckFails(b)
    BY <2>2, FailureCounted DEF RecordCheckFails, Recorded, Types
  <2> QED BY <1>14, <2>1, <2>2
<1>15. CASE CommitBlock
  BY <1>15 DEF CommitBlock, Types
<1>16. CASE UNCHANGED vars
  BY <1>16 DEF vars, Types
<1> QED BY <1>1, <1>2, <1>3, <1>4, <1>5, <1>6, <1>7, <1>8, <1>9, <1>10, <1>11,
           <1>12, <1>13, <1>14, <1>15, <1>16 DEF Next, WorkerStep, Failure

(* The table invariant and the types hold throughout.                      *)
LEMMA SInvariance == Spec => []SInv
<1> QED BY InitSInv, StepSInv, PTL DEF Spec

(* The schedule's tables and the scheduler's variables keep their shape.   *)
THEOREM ScheduleTypeCorrect == Spec => []TypeOK
<1>1. SInv => TypeOK
  BY DEF SInv, TableInv, Types, TypeOK
<1> QED BY <1>1, SInvariance, PTL

-----------------------------------------------------------------------------
(* What a step does to the schedule of a batch: nothing, or it resets the  *)
(* due time, or it computes it anew for the window and policy now saved.   *)
Governed(b) == HasPublished(b) /\ b \notin unscheduled

Unwritten(b) ==
    /\ next'[b] = next[b] /\ window'[b] = window[b] /\ checkedAt'[b] = checkedAt[b]
    /\ now' \in Nat /\ now' >= now
    /\ Governed(b)' => Governed(b) /\ interval'[ProductOf[b]] = interval[ProductOf[b]]

Reset(b) == next'[b] = Never /\ checkedAt'[b] = checkedAt[b]

Rewritten(b) ==
    /\ interval'[ProductOf[b]] \in Nat \ {0}
    /\ window'[b] \in Windows \cup {NoWindow}
    /\ next'[b] = NextRefresh(now, window'[b], interval'[ProductOf[b]])
    /\ now' = now

(* A write for one batch leaves the rows of another alone.                 *)
LEMMA OtherBatchRows ==
    ASSUME NEW t \in [Ids -> Row], NEW b \in Batches, NEW S
    PROVE  /\ \A i \in Ids, c \in Contents : BatchOf[i] # b =>
                  InState(WithPublication(t, i, c), b, S) = InState(t, b, S)
           /\ \A a \in Batches \ {b} : InState(Invalidated(t, a), b, S) = InState(t, b, S)
<1>1. ASSUME NEW i \in Ids, NEW c \in Contents, BatchOf[i] # b
      PROVE  InState(WithPublication(t, i, c), b, S) = InState(t, b, S)
  <2>1. \A j \in Ids : BatchOf[j] = b => WithPublication(t, i, c)[j] = t[j]
    BY <1>1 DEF WithPublication, Restated, InState
  <2> QED BY <2>1 DEF InState
<1>2. ASSUME NEW a \in Batches \ {b}
      PROVE  InState(Invalidated(t, a), b, S) = InState(t, b, S)
  <2>1. \A j \in Ids : BatchOf[j] = b => Invalidated(t, a)[j] = t[j]
    BY DEF Invalidated, Restated, InState
  <2> QED BY <2>1 DEF InState
<1> QED BY <1>1, <1>2

(* A verification rewrites its own batch's due time and no other.          *)
LEMMA TouchSteps ==
    ASSUME Types, now' = now, table' = table,
           NEW a \in Batches, TouchVerification(a), NEW b \in Batches
    PROVE  Unwritten(b) \/ Rewritten(b)
<1>1. CASE a = b
  BY <1>1, TouchFacts DEF Rewritten, TouchVerification, settings
<1>2. CASE a # b
  BY <1>2, TouchFacts DEF Unwritten, TouchVerification, Types, settings, Governed, HasPublished
<1> QED BY <1>1, <1>2

(* A batch that has its first publication or invalidation from a step that *)
(* leaves the schedule for later is not governed until its due time is     *)
(* written; another batch is governed as before.                           *)
LEMMA KeptSchedule ==
    ASSUME SInv, now' = now, NEW a \in Batches, KeepsSchedule(a), NEW b \in Batches,
           a # b => HasPublished(b)' = HasPublished(b)
    PROVE  Unwritten(b)
<1>1. Governed(b)' => Governed(b)
  BY DEF KeepsSchedule, Governed
<1> QED BY <1>1 DEF KeepsSchedule, Unwritten, SInv, Types, settings

(* A step that changes neither table nor schedule writes no due time.      *)
LEMMA IdleSchedule ==
    ASSUME SInv, UNCHANGED <<table, schedule>>, now' \in Nat, now' >= now, NEW b \in Batches
    PROVE  Unwritten(b)
BY DEF Unwritten, Governed, HasPublished, schedule, settings

(* Every step treats the due time of a batch in one of the three ways.     *)
LEMMA ScheduleStep ==
    ASSUME SInv, [Next]_vars, NEW b \in Batches
    PROVE  Unwritten(b) \/ Reset(b) \/ Rewritten(b)
<1>0. table \in [Ids -> Row] /\ now \in Nat /\ Types
  BY DEF SInv, TableInv, Types
<1>1. CASE Tick
  BY <1>0, <1>1, IdleSchedule DEF Tick
<1>2. ASSUME NEW a \in Batches, NEW w \in Windows, NEW n \in Intervals,
             SaveRefreshSettings(a, w, n)
      PROVE  Unwritten(b) \/ Rewritten(b)
  <2>1. ProductOf[b] \in Products /\ n \in Nat \ {0}
    BY ProductAssumption, IntervalAssumption
  <2>2. CASE b \in Rescheduled(a)
    <3>1. interval'[ProductOf[b]] = n
      BY <1>0, <1>2, <2>1, <2>2 DEF SaveRefreshSettings, Rescheduled, Types
    <3>2. window'[b] \in Windows \cup {NoWindow}
      BY <1>0, <1>2 DEF SaveRefreshSettings, Types
    <3>3. next'[b] = NextRefresh(now, window'[b], n)
      BY <1>2, <2>2 DEF SaveRefreshSettings
    <3> QED BY <1>2, <2>1, <3>1, <3>2, <3>3 DEF Rewritten, SaveRefreshSettings
  <2>3. CASE b \notin Rescheduled(a)
    <3>1. b # a
      BY <2>3 DEF Rescheduled
    <3>2. Governed(b) => ProductOf[b] # ProductOf[a]
      BY <2>3 DEF Rescheduled, Governed
    <3>3. Governed(b)' => Governed(b)
      BY <1>2, <2>3 DEF SaveRefreshSettings, Governed, HasPublished
    <3> QED BY <1>0, <1>2, <2>1, <2>3, <3>1, <3>2, <3>3
            DEF SaveRefreshSettings, Unwritten, Types
  <2> QED BY <2>2, <2>3
<1>3. ASSUME NEW a \in Batches, VerifyPublished(a) \/ VerifyPublishedFails(a)
      PROVE  Unwritten(b) \/ Rewritten(b)
  BY <1>0, <1>3, TouchSteps, IdleSchedule DEF VerifyPublished, VerifyPublishedFails
<1>4. ASSUME NEW a \in Batches, Invalidate(a) \/ InvalidateFails(a)
      PROVE  Unwritten(b) \/ Reset(b)
  <2>1. /\ now' = now /\ UNCHANGED <<settings, checkedAt>>
        /\ table' = Invalidated(table, a) \/ table' = table
    BY <1>4 DEF Invalidate, InvalidateFails, RouteChanges
  <2>2. a # b => HasPublished(b)' = HasPublished(b)
    BY <1>0, <2>1, OtherBatchRows DEF HasPublished
  <2>3. CASE Invalidate(a)
    <3>1. CASE a = b
      BY <1>0, <2>1, <2>3, <3>1 DEF Invalidate, Reset, Types
    <3>2. CASE a # b
      BY <1>0, <2>1, <2>2, <2>3, <3>2 DEF Invalidate, Unwritten, Governed, Types, settings
    <3> QED BY <3>1, <3>2
  <2>4. CASE KeepsSchedule(a)
    BY <2>1, <2>2, <2>4, KeptSchedule
  <2>5. CASE UNCHANGED <<table, schedule>>
    BY <1>0, <2>1, <2>5, IdleSchedule
  <2> QED BY <1>4, <2>3, <2>4, <2>5 DEF InvalidateFails
<1>5. ASSUME NEW a \in Batches, WakeScheduler(a) \/ AnswerUnread(a) PROVE Unwritten(b)
  BY <1>0, <1>5, IdleSchedule DEF WakeScheduler, AnswerUnread
<1>6. ASSUME NEW i \in Ids, SavePreview(i) PROVE Unwritten(b)
  <2>1. PICK c \in Contents : table' = WithPreview(table, i, c)
    BY <1>6 DEF SavePreview
  <2>2. \A j \in Ids : table'[j].state \in {"active", "invalidated"} => table'[j] = table[j]
    BY <1>0, <2>1 DEF WithPreview, Restated, InState, Row
  <2>3. Governed(b)' => Governed(b)
    BY <1>6, <2>2 DEF SavePreview, Governed, HasPublished, InState, schedule
  <2> QED BY <1>0, <1>6, <2>3 DEF SavePreview, Unwritten, schedule, settings
<1>7. ASSUME NEW i \in Ids, MarkPublished(i) \/ MarkPublishedFails(i) PROVE Unwritten(b)
  <2>1. BatchOf[i] \in Batches /\ now' = now
    BY <1>7, BatchOfAssumption DEF MarkPublished, MarkPublishedFails
  <2>2. CASE UNCHANGED <<table, schedule>>
    BY <1>0, <2>1, <2>2, IdleSchedule
  <2>3. CASE \E c \in Contents : table' = WithPublication(table, i, c) /\ KeepsSchedule(BatchOf[i])
    <3>1. BatchOf[i] # b => HasPublished(b)' = HasPublished(b)
      BY <1>0, <2>3, OtherBatchRows DEF HasPublished
    <3> QED BY <2>1, <2>3, <3>1, KeptSchedule
  <2> QED BY <1>7, <2>2, <2>3 DEF MarkPublished, MarkPublishedFails
<1>8. CASE \/ CommitBlock \/ StartCycle \/ ReleaseChain \/ SourceUnread
           \/ FallAsleep \/ LookUpFails \/ UNCHANGED vars
  BY <1>0, <1>8, IdleSchedule
     DEF CommitBlock, StartCycle, ReleaseChain, SourceUnread, FallAsleep, LookUpFails, CycleEnds, vars
<1>9. ASSUME NEW a \in Batches, CheckBatch(a) \/ MisreadDue(a) \/ CheckFails(a)
      PROVE  Unwritten(b) \/ Rewritten(b)
  <2>1. now' = now /\ table' = table
    BY <1>9 DEF CheckBatch, MisreadDue, CheckFails, LookAt
  <2>2. TouchVerification(a) \/ UNCHANGED schedule
    BY <1>9 DEF CheckBatch, MisreadDue, CheckFails, Refresh
  <2> QED BY <1>0, <2>1, <2>2, TouchSteps, IdleSchedule
<1>10. ASSUME NEW a \in Batches, IndexPublished(a) PROVE Unwritten(b)
  <2>1. PICK i \in Ids, c \in Contents :
            BatchOf[i] = a /\ table' = WithPublication(table, i, c)
    BY <1>10 DEF IndexPublished
  <2>2. a # b => HasPublished(b)' = HasPublished(b)
    BY <1>0, <2>1, OtherBatchRows DEF HasPublished
  <2> QED BY <1>10, <2>2, KeptSchedule DEF IndexPublished
<1>11. ASSUME NEW a \in Batches, RecordCheck(a) \/ RecordCheckFails(a)
       PROVE  Unwritten(b) \/ Rewritten(b)
  <2>1. now' = now /\ table' = table /\ (TouchVerification(a) \/ UNCHANGED schedule)
    BY <1>11 DEF RecordCheck, RecordCheckFails, Recorded
  <2> QED BY <1>0, <2>1, TouchSteps, IdleSchedule
<1> QED BY <1>1, <1>2, <1>3, <1>4, <1>5, <1>6, <1>7, <1>8, <1>9, <1>10, <1>11
        DEF Next, WorkerStep, Failure

-----------------------------------------------------------------------------
(* No request and no check ever stores a due time outside the window that  *)
(* is stored with it: RefreshSchedule's DueInsideWindow.                   *)
THEOREM DueStaysInsideWindow == Spec => []DueInsideWindow
<1>1. Init => DueInsideWindow
  BY DEF Init, DueInsideWindow
<1>2. SInv /\ DueInsideWindow /\ [Next]_vars => DueInsideWindow'
  <2> SUFFICES ASSUME SInv, DueInsideWindow, [Next]_vars, NEW b \in Batches,
                      window'[b] # NoWindow, next'[b] # Never
               PROVE  window'[b].from <= next'[b] /\ next'[b] <= window'[b].until
    BY DEF DueInsideWindow
  <2>1. CASE Unwritten(b)
    BY <2>1 DEF Unwritten, DueInsideWindow
  <2>2. CASE Reset(b)
    BY <2>2 DEF Reset
  <2>3. CASE Rewritten(b)
    BY <2>3, NextRefreshFacts DEF Rewritten, SInv, Types
  <2> QED BY <2>1, <2>2, <2>3, ScheduleStep
<1> QED BY <1>1, <1>2, SInvariance, PTL DEF Spec

(* A saved policy governs the published batches of the product at once,    *)
(* and a batch whose due time could not be written goes by a policy that   *)
(* was saved: RefreshSchedule's PolicyTakesEffect, however often the store *)
(* fails.                                                                  *)
THEOREM PolicyGovernsProduct == Spec => []PolicyTakesEffect
<1> DEFINE Saved == Intervals \cup {DefaultInterval}
           Soon(b) ==
               /\ Governed(b) => DueWithin(b, interval[ProductOf[b]])
               /\ \E n \in Saved : DueWithin(b, n)
<1>0. SInv => (PolicyTakesEffect <=> \A b \in Batches : Soon(b))
  <2>1. SInv => \A b \in Batches : interval[ProductOf[b]] \in Saved
    BY ProductAssumption DEF SInv, Types
  <2> QED BY <2>1 DEF PolicyTakesEffect, Governed
<1>1. Init => \A b \in Batches : Soon(b)
  BY NeverAssumption DEF Init, DueWithin
<1>2. SInv /\ (\A b \in Batches : Soon(b)) /\ [Next]_vars => (\A b \in Batches : Soon(b))'
  <2> SUFFICES ASSUME SInv, NEW b \in Batches, Soon(b), [Next]_vars
               PROVE  Soon(b)'
    OBVIOUS
  <2>0. ProductOf[b] \in Products /\ SInv'
    BY ProductAssumption, StepSInv
  <2>1. CASE Unwritten(b)
    <3>1. now \in Nat /\ now' \in Nat /\ now' >= now
      BY <2>1 DEF Unwritten, SInv, Types
    <3>2. \A n \in Nat : DueWithin(b, n) => DueWithin(b, n)'
      BY <2>1, <3>1 DEF Unwritten, DueWithin
    <3>3. interval[ProductOf[b]] \in Nat /\ Saved \subseteq Nat
      BY <2>0, IntervalAssumption DEF SInv, Types
    <3>4. Governed(b)' => DueWithin(b, interval[ProductOf[b]])'
      BY <2>1, <3>2, <3>3 DEF Unwritten, DueWithin
    <3> QED BY <3>2, <3>3, <3>4
  <2>2. CASE Reset(b)
    <3>1. next'[b] \notin Nat
      BY <2>2, NeverAssumption DEF Reset
    <3>2. \A n : DueWithin(b, n)'
      BY <3>1 DEF DueWithin
    <3> QED BY <3>2
  <2>3. CASE Rewritten(b)
    <3>1. interval'[ProductOf[b]] \in Saved
      BY <2>0 DEF SInv, Types
    <3>2. DueWithin(b, interval[ProductOf[b]])'
      BY <2>3, NextRefreshFacts, NeverAssumption DEF Rewritten, DueWithin, SInv, Types
    <3> QED BY <3>1, <3>2
  <2> QED BY <2>1, <2>2, <2>3, ScheduleStep
<1> QED BY <1>0, <1>1, <1>2, SInvariance, PTL DEF Spec

(* A verification always puts the next one off, at the edges of the window *)
(* too: RefreshSchedule's CheckedIsNotDue.                                 *)
THEOREM ChecksAreSpaced == Spec => CheckedIsNotDue
<1>1. SInv /\ [Next]_vars =>
          [\A b \in Batches : checkedAt'[b] # checkedAt[b] => ~RefreshDue(b)']_vars
  <2> SUFFICES ASSUME SInv, [Next]_vars, NEW b \in Batches, checkedAt'[b] # checkedAt[b]
               PROVE  ~RefreshDue(b)'
    OBVIOUS
  <2>1. Rewritten(b)
    BY ScheduleStep DEF Unwritten, Reset
  <2>2. now \in Nat /\ now' = now
    BY <2>1 DEF Rewritten, SInv, Types
  <2>3. window'[b] = NoWindow \/ (window'[b].from <= now /\ now < window'[b].until)
            => next'[b] # Never /\ next'[b] > now
    BY <2>1, <2>2, NextRefreshFacts DEF Rewritten
  <2>4. window'[b] # NoWindow => window'[b].from \in Nat /\ window'[b].until \in Nat
    BY <2>1, WindowAssumption DEF Rewritten
  <2> QED BY <2>2, <2>3, <2>4 DEF RefreshDue, Before, Ended
<1> QED BY <1>1, SInvariance, PTL DEF Spec, CheckedIsNotDue

-----------------------------------------------------------------------------
(* A new preview hides its batch from next_refresh_delay and no other.     *)
LEMMA NewPreviewIsNewest ==
    ASSUME SInv, NEW i \in Ids, SavePreview(i), NEW b \in Batches, NewestIsPublished(b)'
    PROVE  NewestIsPublished(b)
<1>0. TableInv(table) /\ table \in [Ids -> Row] /\ ~Stored(table, i) /\ BatchOf[i] \in Batches
  BY BatchOfAssumption DEF SInv, TableInv, SavePreview
<1>1. PICK c \in Contents : table' = WithPreview(table, i, c)
  BY DEF SavePreview
<1>2. PICK n \in RowsOf(table', b) :
          /\ \A j \in RowsOf(table', b) : table'[j].rev <= table'[n].rev
          /\ table'[n].state \in {"active", "invalidated"}
  BY DEF NewestIsPublished
<1>3. CASE BatchOf[i] = b
  <2>1. PICK k \in Nat : Revisions(table, b) = 1..k
    BY <1>0 DEF TableInv, Numbered
  <2>2. table'[i].rev = k + 1 /\ table'[i].state = "preview"
    BY <1>0, <1>1, <1>3, <2>1, NextRevisionIsNext DEF WithPreview, RevisionFor, Restated
  <2>3. i \in RowsOf(table', b) /\ n # i
    BY <1>2, <1>3, <2>2 DEF RowsOf, Stored
  <2>4. table'[n] = table[n] /\ n \in RowsOf(table, b)
    BY <1>0, <1>1, <1>2, <2>3 DEF WithPreview, Restated, InState, RowsOf, Stored, Row
  <2>5. table[n].rev \in 1..k
    BY <2>1, <2>4 DEF Revisions
  <2>6. k + 1 <= table[n].rev
    BY <1>2, <2>2, <2>3, <2>4
  <2> QED BY <2>5, <2>6
<1>4. CASE BatchOf[i] # b
  <2>1. \A j \in Ids : BatchOf[j] = b => table'[j] = table[j]
    BY <1>1, <1>4 DEF WithPreview, Restated, InState
  <2>2. RowsOf(table', b) = RowsOf(table, b)
    BY <2>1 DEF RowsOf, Stored
  <2> QED BY <1>2, <2>1, <2>2 DEF NewestIsPublished, RowsOf
<1> QED BY <1>3, <1>4

(* The scheduler never oversleeps a batch whose newest revision is active  *)
(* or invalidated, unless a failure of the two it cannot know of falls     *)
(* into this very sleep: RefreshSchedule's NeverSleepsPastDue.             *)
THEOREM SchedulerWakesInTime == Spec => []NeverSleepsPastDue
<1>1. Init => NeverSleepsPastDue
  BY DEF Init, NeverSleepsPastDue, Settled
<1>2. SInv /\ NeverSleepsPastDue /\ [Next]_vars => NeverSleepsPastDue'
  <2> SUFFICES ASSUME SInv, NeverSleepsPastDue, [Next]_vars, Settled', misled' = "no",
                      NEW b \in Batches, NewestIsPublished(b)', ~Ended(b)'
               PROVE  ~Oversleeps(b)'
    BY DEF NeverSleepsPastDue
  <2> USE DEF settings, schedule, thread
  <2>0. /\ now \in Nat /\ wakeAt \in Times /\ next[b] \in Times
        /\ window[b] # NoWindow => window[b].from \in Nat /\ window[b].until \in Nat
    BY WindowAssumption DEF SInv, Types
  <2>1. CASE Tick
    <3>1. Settled /\ misled = "no" /\ NewestIsPublished(b)
      BY <2>1 DEF Tick, Settled, NewestIsPublished
    <3>2. ~Ended(b)
      BY <2>0, <2>1 DEF Tick, Ended
    <3>3. ~Oversleeps(b)
      BY <3>1, <3>2 DEF NeverSleepsPastDue
    <3> QED BY <2>0, <2>1, <3>3, NeverAssumption DEF Tick, Oversleeps, Times
  <2>2. ASSUME NEW a \in Batches, NEW w \in Windows, NEW n \in Intervals,
               SaveRefreshSettings(a, w, n)
        PROVE  FALSE
    BY <2>2 DEF SaveRefreshSettings, Settled, SInv, Types
  <2>3. ASSUME NEW a \in Batches, VerifyPublished(a) \/ VerifyPublishedFails(a)
        PROVE  FALSE
    BY <2>3 DEF VerifyPublished, VerifyPublishedFails, Settled, SInv, Types
  <2>4. ASSUME NEW a \in Batches, Invalidate(a) \/ InvalidateFails(a)
        PROVE  FALSE
    BY <2>4 DEF Invalidate, InvalidateFails, RouteChanges, Settled, SInv, Types
  <2>5. ASSUME NEW a \in Batches, WakeScheduler(a) \/ AnswerUnread(a)
        PROVE  FALSE
    BY <2>5 DEF WakeScheduler, AnswerUnread, Settled, SInv, Types
  <2>6. ASSUME NEW i \in Ids, SavePreview(i) PROVE ~Oversleeps(b)'
    <3>1. NewestIsPublished(b)
      BY <2>6, NewPreviewIsNewest
    <3>2. Settled /\ misled = "no" /\ ~Ended(b)
      BY <2>6 DEF SavePreview, Settled, Ended
    <3>3. ~Oversleeps(b)
      BY <3>1, <3>2 DEF NeverSleepsPastDue
    <3> QED BY <2>6, <3>3 DEF SavePreview, Oversleeps
  <2>7. ASSUME NEW i \in Ids, MarkPublished(i) \/ MarkPublishedFails(i) PROVE FALSE
    BY <2>7, BatchOfAssumption DEF MarkPublished, MarkPublishedFails, Publishable, Settled, SInv, Types
  <2>8. CASE FallAsleep
    <3>1. NewestIsPublished(b) /\ ~Ended(b)
      BY <2>8 DEF FallAsleep, CycleEnds, NewestIsPublished, Ended
    <3>2. wakeAt' # Never /\ wakeAt' <= WakeTime(b) /\ WakeTime(b) \in Nat /\ wakeAt' \in Nat
      BY <2>8, <3>1, NextWakeType DEF FallAsleep, SInv, Times
    <3>3. /\ now' = now /\ next'[b] = next[b] /\ window'[b] = window[b]
      BY <2>8 DEF FallAsleep, CycleEnds
    <3>4. CASE Before(b)
      <4>1. WakeTime(b) = window[b].from /\ window[b] # NoWindow
        BY <3>4 DEF WakeTime, Before
      <4> QED BY <2>0, <3>2, <3>3, <4>1 DEF Oversleeps
    <3>5. CASE ~Before(b) /\ next[b] \in 0..now \cup {Never}
      <4>1. WakeTime(b) = now
        BY <3>5 DEF WakeTime
      <4> QED BY <2>0, <3>2, <3>3, <4>1 DEF Oversleeps
    <3>6. CASE ~Before(b) /\ next[b] \notin 0..now \cup {Never}
      <4>1. WakeTime(b) = next[b] /\ next[b] # Never
        BY <3>6 DEF WakeTime
      <4> QED BY <2>0, <3>2, <3>3, <4>1 DEF Oversleeps
    <3> QED BY <3>4, <3>5, <3>6
  <2>9. CASE LookUpFails
    <3>1. wakeAt' = now /\ now' = now
      BY <2>9 DEF LookUpFails, CycleEnds
    <3> QED BY <2>0, <3>1, NeverAssumption DEF Oversleeps
  <2>10. CASE CommitBlock \/ StartCycle \/ ReleaseChain \/ SourceUnread
    BY <2>10 DEF CommitBlock, StartCycle, ReleaseChain, SourceUnread, Settled
  <2>11. ASSUME NEW a \in Batches,
                \/ CheckBatch(a) \/ MisreadDue(a) \/ CheckFails(a)
                \/ IndexPublished(a) \/ RecordCheck(a) \/ RecordCheckFails(a)
         PROVE  FALSE
    BY <2>11 DEF CheckBatch, MisreadDue, CheckFails, LookAt, IndexPublished, RecordCheck,
                 RecordCheckFails, Recorded, Settled
  <2>12. CASE UNCHANGED vars
    <3>1. Settled /\ misled = "no" /\ NewestIsPublished(b) /\ ~Ended(b)
      BY <2>12 DEF vars, Settled, NewestIsPublished, Ended
    <3>2. ~Oversleeps(b)
      BY <3>1 DEF NeverSleepsPastDue
    <3> QED BY <2>12, <3>2 DEF vars, Oversleeps
  <2> QED BY <2>1, <2>2, <2>3, <2>4, <2>5, <2>6, <2>7, <2>8, <2>9, <2>10, <2>11, <2>12
          DEF Next, WorkerStep, Failure
<1> QED BY <1>1, <1>2, SInvariance, PTL DEF Spec

-----------------------------------------------------------------------------
(* The thread, its handle and its wait.                                    *)
SingleOwner == \A o, p \in Owners : o = p

-----------------------------------------------------------------------------
(* The two halves of the type invariant: the flags, and everything else.   *)
FlagsOK == running \in BOOLEAN /\ stopRequested \in BOOLEAN /\ wakeRequested \in BOOLEAN

ThreadsOK ==
    /\ started \in 0..MaxStarts /\ handle \in 0..started
    /\ place \in [Workers -> Places]
    /\ delay \in [Workers -> Dues \cup {NoDue, Thrown}]
    /\ owner \in [Owners -> {"idle", "joining", "joined"}]
    /\ joining \in [Owners -> 0..MaxStarts]
    /\ due \in Dues \cup {NoDue}
    /\ changer \in [Changers -> {"idle", "changed"}]

(* The halves make the whole.                                              *)
LEMMA TypeParts == SchedulerTypeOK <=> FlagsOK /\ ThreadsOK
BY DEF SchedulerTypeOK, FlagsOK, ThreadsOK

(* Every step leaves the flags Boolean.                                    *)
LEMMA StepFlagsOK == FlagsOK /\ [SchedulerNext]_schedulerVars => FlagsOK'
<1> SUFFICES ASSUME FlagsOK, [SchedulerNext]_schedulerVars PROVE FlagsOK'
  OBVIOUS
<1> USE DEF FlagsOK, flags
<1>1. ASSUME NEW o \in Owners, Start(o) \/ RequestStop(o) \/ Join(o) \/ FinishStop(o)
      PROVE  FlagsOK'
  BY <1>1 DEF Start, RequestStop, Join, FinishStop
<1>2. ASSUME NEW c \in Changers, Change(c) \/ Wake(c)
      PROVE  FlagsOK'
  BY <1>2 DEF Change, Wake
<1>3. ASSUME NEW w \in Workers, ThreadStep(w)
      PROVE  FlagsOK'
  BY <1>3 DEF ThreadStep, RunCycle, LookUpDelay, Decide, Awaken, TimeOut
<1>4. CASE UNCHANGED schedulerVars
  BY <1>4 DEF schedulerVars
<1> QED BY <1>1, <1>2, <1>3, <1>4 DEF SchedulerNext

(* Every step leaves every thread where its program has a place.           *)
LEMMA StepThreadsOK == ThreadsOK /\ [SchedulerNext]_schedulerVars => ThreadsOK'
<1> SUFFICES ASSUME ThreadsOK, [SchedulerNext]_schedulerVars PROVE ThreadsOK'
  OBVIOUS
<1> USE MaxStartsAssumption DEF ThreadsOK, threads, callers
<1>1. ASSUME NEW o \in Owners, Start(o)
      PROVE  ThreadsOK'
  <2>1. started' \in 0..MaxStarts /\ handle' \in 0..started'
    BY <1>1 DEF Start
  <2>2. place' \in [Workers -> Places]
    BY <1>1 DEF Start, Places
  <2> QED BY <1>1, <2>1, <2>2 DEF Start
<1>2. ASSUME NEW o \in Owners, RequestStop(o)
      PROVE  ThreadsOK'
  BY <1>2 DEF RequestStop
<1>3. ASSUME NEW o \in Owners, Join(o)
      PROVE  ThreadsOK'
  BY <1>3 DEF Join
<1>4. ASSUME NEW o \in Owners, FinishStop(o)
      PROVE  ThreadsOK'
  BY <1>4 DEF FinishStop
<1>5. ASSUME NEW c \in Changers, Change(c) \/ Wake(c)
      PROVE  ThreadsOK'
  BY <1>5 DEF Change, Wake
<1>6. ASSUME NEW w \in Workers, ThreadStep(w)
      PROVE  ThreadsOK'
  <2>1. place' \in [Workers -> Places]
    BY <1>6 DEF ThreadStep, RunCycle, LookUpDelay, Decide, Awaken, TimeOut, Goes, Places
  <2>2. delay' \in [Workers -> Dues \cup {NoDue, Thrown}] /\ due' \in Dues \cup {NoDue}
    BY <1>6 DEF ThreadStep, RunCycle, LookUpDelay, Decide, Awaken, TimeOut
  <2>3. UNCHANGED <<started, handle, owner, joining, changer>>
    BY <1>6 DEF ThreadStep, RunCycle, LookUpDelay, Decide, Awaken, TimeOut
  <2> QED BY <2>1, <2>2, <2>3
<1>7. CASE UNCHANGED schedulerVars
  BY <1>7 DEF schedulerVars
<1> QED BY <1>1, <1>2, <1>3, <1>4, <1>5, <1>6, <1>7 DEF SchedulerNext

(* Every variable keeps the type its declaration gives it, whoever starts  *)
(* and stops the scheduler.                                                *)
THEOREM SchedulerTypeCorrect == SchedulerSpec => []SchedulerTypeOK
<1>1. SchedulerInit => FlagsOK
  BY DEF SchedulerInit, FlagsOK
<1>2. SchedulerInit => ThreadsOK
  BY MaxStartsAssumption DEF SchedulerInit, ThreadsOK, Places
<1> QED BY <1>1, <1>2, TypeParts, StepFlagsOK, StepThreadsOK, PTL DEF SchedulerSpec

-----------------------------------------------------------------------------
(* Who owns the worker.  Only the last thread spawned can be alive, and    *)
(* only while the scheduler runs.  Until stop() is called handle is that   *)
(* thread; then the stopping owner has it in joining, and after the join   *)
(* nobody is alive.                                                        *)
HandleInv ==
    /\ \A w \in Workers : Alive(w) => w = started /\ running
    /\ running => started \in Workers
    /\ ~running => handle = 0 /\ \A o \in Owners : owner[o] = "idle"
    /\ \A o \in Owners :
           /\ running /\ owner[o] = "idle" => handle = started
           /\ owner[o] # "idle" => handle = 0
           /\ owner[o] = "joining" => joining[o] = started
           /\ owner[o] = "joined" => \A w \in Workers : ~Alive(w)

(* An Alive thread after a step of thread w was alive before it.           *)
LEMMA StepsKeepAlive ==
    ASSUME SchedulerTypeOK, NEW w \in Workers, ThreadStep(w)
    PROVE  /\ \A v \in Workers : Alive(v)' => Alive(v)
           /\ Alive(w)
           /\ \A v \in Workers \ {w} : place'[v] = place[v] /\ delay'[v] = delay[v]
           /\ UNCHANGED <<running, stopRequested, handle, started, owner, joining, changer>>
<1> USE DEF Alive, Goes, SchedulerTypeOK, flags, callers
<1>1. CASE RunCycle(w)
  BY <1>1 DEF RunCycle
<1>2. CASE LookUpDelay(w)
  BY <1>2 DEF LookUpDelay
<1>3. CASE Decide(w)
  BY <1>3 DEF Decide
<1>4. CASE Awaken(w)
  BY <1>4 DEF Awaken
<1>5. CASE TimeOut(w)
  BY <1>5 DEF TimeOut
<1> QED BY <1>1, <1>2, <1>3, <1>4, <1>5 DEF ThreadStep

(* With one owner every step keeps the handle where HandleInv says.        *)
LEMMA StepHandleInv ==
    ASSUME SingleOwner, SchedulerTypeOK, HandleInv, [SchedulerNext]_schedulerVars
    PROVE  HandleInv'
<1> USE MaxStartsAssumption DEF HandleInv
<1>1. ASSUME NEW o \in Owners, Start(o)
      PROVE  HandleInv'
  BY <1>1 DEF Start, callers, SchedulerTypeOK, Alive, Workers
<1>2. ASSUME NEW o \in Owners, RequestStop(o)
      PROVE  HandleInv'
  <2>1. \A p \in Owners : p = o
    BY DEF SingleOwner
  <2>2. joining'[o] = started /\ handle' = 0 /\ owner'[o] = "joining"
    BY <1>2 DEF RequestStop, SchedulerTypeOK
  <2> QED BY <1>2, <2>1, <2>2 DEF RequestStop, Alive
<1>3. ASSUME NEW o \in Owners, Join(o)
      PROVE  HandleInv'
  <2>1. \A p \in Owners : p = o
    BY DEF SingleOwner
  <2>2. running /\ started \in Workers /\ joining[o] = started
    BY <1>3 DEF Join
  <2>3. place[started] = "done"
    BY <1>3, <2>2 DEF Join, Workers
  <2>4. \A w \in Workers : ~Alive(w)
    BY <2>3 DEF Alive
  <2>5. owner'[o] = "joined" /\ UNCHANGED <<running, handle, started, place, joining>>
    BY <1>3 DEF Join, flags, threads, SchedulerTypeOK
  <2> QED BY <1>3, <2>1, <2>4, <2>5 DEF Join, Alive
<1>4. ASSUME NEW o \in Owners, FinishStop(o)
      PROVE  HandleInv'
  <2>1. \A p \in Owners : p = o
    BY DEF SingleOwner
  <2>2. owner'[o] = "idle" /\ UNCHANGED <<handle, started, place>>
    BY <1>4 DEF FinishStop, threads, SchedulerTypeOK
  <2> QED BY <1>4, <2>1, <2>2 DEF FinishStop, Alive
<1>5. ASSUME NEW c \in Changers, Change(c) \/ Wake(c)
      PROVE  HandleInv'
  BY <1>5 DEF Change, Wake, flags, threads, callers, Alive
<1>6. ASSUME NEW w \in Workers, ThreadStep(w)
      PROVE  HandleInv'
  BY <1>6, StepsKeepAlive
<1>7. CASE UNCHANGED schedulerVars
  BY <1>7 DEF schedulerVars, flags, threads, callers, Alive
<1> QED BY <1>1, <1>2, <1>3, <1>4, <1>5, <1>6, <1>7 DEF SchedulerNext

(* The handle is where HandleInv says in every reachable state.            *)
LEMMA HandleInvariance ==
    ASSUME SingleOwner
    PROVE  SchedulerSpec => []HandleInv
<1>1. SchedulerInit => HandleInv
  BY DEF SchedulerInit, HandleInv, Alive, Workers
<1>2. SchedulerTypeOK /\ HandleInv /\ [SchedulerNext]_schedulerVars => HandleInv'
  BY StepHandleInv
<1> QED BY <1>1, <1>2, SchedulerTypeCorrect, PTL DEF SchedulerSpec

(* However often the scheduler is stopped and started again, no two        *)
(* workers ever live at once, none lives once it is marked stopped, and    *)
(* start() never overwrites a handle that owns a thread.                   *)
THEOREM OneWorker ==
    ASSUME SingleOwner
    PROVE  SchedulerSpec => []OneWorkerAtATime
<1>1. HandleInv => OneWorkerAtATime
  BY DEF HandleInv, OneWorkerAtATime
<1> QED BY <1>1, HandleInvariance, PTL

-----------------------------------------------------------------------------
(* The answer a thread carries from next_wake_ to its wait is up to date,  *)
(* or something that will not let it sleep is already on its way.          *)
FreshDelay ==
    \A w \in Workers : place[w] \in {"decide", "waiting"} =>
        \/ delay[w] \in {due, Thrown}
        \/ wakeRequested \/ stopRequested
        \/ \E c \in Changers : changer[c] = "changed"

(* A change of the schedule, a wake, a stop and every step of the worker   *)
(* keep the answer fresh; the worker consumes a wake only when it goes     *)
(* round again.                                                            *)
LEMMA StepFreshDelay ==
    ASSUME SchedulerTypeOK, HandleInv, FreshDelay, [SchedulerNext]_schedulerVars
    PROVE  FreshDelay'
<1> USE DEF FreshDelay
<1>0. \A v, w \in Workers : Alive(v) /\ Alive(w) => v = w
  BY DEF HandleInv
<1>1. ASSUME NEW o \in Owners, Start(o)
      PROVE  FreshDelay'
  <2>1. \A w \in Workers : place[w] \in {"unborn", "done"}
    BY <1>1 DEF Start, HandleInv, Alive
  <2>2. \A w \in Workers : place'[w] \in {"unborn", "done", "cycle"}
    BY <1>1, <2>1 DEF Start, SchedulerTypeOK
  <2> QED BY <2>2
<1>2. ASSUME NEW o \in Owners, RequestStop(o) \/ Join(o) \/ FinishStop(o)
      PROVE  FreshDelay'
  BY <1>2 DEF RequestStop, Join, FinishStop, flags, threads
<1>3. ASSUME NEW c \in Changers, Change(c)
      PROVE  FreshDelay'
  <2>1. changer'[c] = "changed"
    BY <1>3 DEF Change, SchedulerTypeOK
  <2> QED BY <2>1
<1>4. ASSUME NEW c \in Changers, Wake(c)
      PROVE  FreshDelay'
  BY <1>4 DEF Wake
<1>5. ASSUME NEW w \in Workers, ThreadStep(w)
      PROVE  FreshDelay'
  <2>1. \A v \in Workers \ {w} : place'[v] \in {"unborn", "done"}
    BY <1>0, <1>5, StepsKeepAlive DEF Alive
  <2> SUFFICES ASSUME place'[w] \in {"decide", "waiting"}
               PROVE  \/ delay'[w] \in {due', Thrown}
                      \/ wakeRequested' \/ stopRequested'
                      \/ \E c \in Changers : changer'[c] = "changed"
    BY <2>1
  <2>2. ~RunCycle(w) /\ ~TimeOut(w)
    BY DEF RunCycle, TimeOut, Goes, SchedulerTypeOK
  <2>3. CASE LookUpDelay(w)
    BY <2>3 DEF LookUpDelay, SchedulerTypeOK
  <2>4. CASE Decide(w)
    BY <2>4 DEF Decide, Goes, SchedulerTypeOK
  <2>5. CASE Awaken(w)
    BY <2>5 DEF Awaken, Goes, SchedulerTypeOK
  <2> QED BY <1>5, <2>2, <2>3, <2>4, <2>5 DEF ThreadStep
<1>6. CASE UNCHANGED schedulerVars
  BY <1>6 DEF schedulerVars, flags, threads
<1> QED BY <1>1, <1>2, <1>3, <1>4, <1>5, <1>6 DEF SchedulerNext

(* A worker that settles down to wait, with no wake, stop or half          *)
(* announced change about, waits for what next_wake_ would answer now:     *)
(* the change that came between next_wake_ and the lock is not lost.       *)
THEOREM NoStaleSleep ==
    ASSUME SingleOwner
    PROVE  SchedulerSpec => []NeverSleepsOnStaleDelay
<1>1. SchedulerInit => FreshDelay
  BY DEF SchedulerInit, FreshDelay
<1>2. SchedulerTypeOK /\ HandleInv /\ FreshDelay /\ [SchedulerNext]_schedulerVars => FreshDelay'
  BY StepFreshDelay
<1>3. FreshDelay => NeverSleepsOnStaleDelay
  BY DEF FreshDelay, NeverSleepsOnStaleDelay
<1> QED BY <1>1, <1>2, <1>3, SchedulerTypeCorrect, HandleInvariance, PTL DEF SchedulerSpec
=============================================================================
