---------------------------- MODULE RefreshSchedule ----------------------------
(***************************************************************************)
(* When a batch is refreshed: the schedule half of class SnapshotStore     *)
(* (snapshot_refresh_policies, snapshot_availability_windows,              *)
(* snapshot_refresh_schedule, the time of the latest verification), the    *)
(* scheduler thread that asks for the next delay and runs                  *)
(* automatic_snapshot_refresh, and the handlers that change the schedule   *)
(* and wake it.                                                            *)
(*                                                                         *)
(* Time is counted in ticks of the shortest interval.  It advances at any  *)
(* moment, between any two steps of any thread: the scheduler may be as    *)
(* late as it likes.  Each store operation is one step (SnapshotStore has  *)
(* their inside); that no wake is lost is SnapshotScheduler's theorem, so  *)
(* here a wake is a flag that ends a sleep.  What may go wrong - a query   *)
(* or an update that SQLite refuses, an archive file that cannot be        *)
(* written - is an action of its own, at most MaxFailures times.           *)
(***************************************************************************)
EXTENDS SnapshotTable, Integers

CONSTANTS
    Products, ProductOf,  \* the product of each batch
    Intervals,            \* refresh intervals an administrator may save
    DefaultInterval,      \* the interval of a product without a policy
    Windows,              \* availability windows [from, until)
    NoWindow,             \* a batch whose window was never saved
    Never,                \* next_refresh_at = '', and a delay of nullopt
    MaxTime,              \* bound: the last tick
    MaxFailures           \* bound: how often the store fails

ASSUME ProductAssumption == ProductOf \in [Batches -> Products]
ASSUME IntervalAssumption ==
    Intervals \subseteq Nat \ {0} /\ DefaultInterval \in Nat \ {0}
ASSUME WindowAssumption ==
    /\ Windows \subseteq [from : Nat, until : Nat]
    /\ \A w \in Windows : w.from < w.until
    /\ NoWindow \notin Windows
ASSUME NeverAssumption == Never \notin Nat
ASSUME MaxTimeAssumption == MaxTime \in Nat
ASSUME MaxFailuresAssumption == MaxFailures \in Nat

VARIABLES
    now,
    table,      \* snapshot_storage
    interval,   \* snapshot_refresh_policies, per product
    window,     \* snapshot_availability_windows, per batch
    next,       \* snapshot_refresh_schedule, per batch
    checkedAt,  \* snapshot_verification_status.checked_at, per batch
    unscheduled, \* history: batches first published or invalidated since
                \* their due time was last written
    handler,    \* the administrator's request that is under way per batch
    worker,     \* where the scheduler thread is
    todo,       \* batches its cycle has yet to look at
    queued,     \* batches it has a new Snapshot to publish for
    indexed,    \* batches it has published, not yet verified
    wakeAt,     \* when its wait runs out
    misled,     \* history: the failure its present sleep knows nothing of
    wake,       \* wake_requested_
    failures    \* history: how often the store has failed

settings == <<interval, window>>
schedule == <<settings, next, checkedAt, unscheduled>>
thread == <<worker, todo, queued, indexed, wakeAt, misled>>
vars == <<now, table, schedule, handler, thread, wake, failures>>

Times == Nat \cup {Never}

Before(b) == window[b] # NoWindow /\ now < window[b].from
Ended(b) == window[b] # NoWindow /\ now >= window[b].until

(* The batches a cycle looks at: active_snapshot or latest_publication     *)
(* finds a row.                                                            *)
Monitored(b) == LoadActive(table, b) # NoRecord \/ LatestPublication(table, b) # NoRecord

(* save_refresh_settings and next_refresh_delay know a batch by these.     *)
HasPublished(b) == InState(table, b, {"active", "invalidated"}) # {}

(* A write to the table that leaves the schedule for later.                *)
KeepsSchedule(b) ==
    /\ unscheduled' = IF HasPublished(b) THEN unscheduled ELSE unscheduled \cup {b}
    /\ UNCHANGED <<settings, next, checkedAt>>

LegacyRow(c) == [state |-> "active", rev |-> 1, content |-> c, publication |-> c]

Init ==
    /\ now = 0
    /\ interval = [p \in Products |-> DefaultInterval]
    /\ window = [b \in Batches |-> NoWindow]
    /\ next = [b \in Batches |-> Never]
    /\ checkedAt = [b \in Batches |-> Never]
    /\ unscheduled = {}
    (* An empty database, or one written before windows were introduced.   *)
    /\ \E old \in SUBSET Ids, c \in Contents :
           /\ \A i, j \in old : BatchOf[i] = BatchOf[j] => i = j
           /\ table = [i \in Ids |-> IF i \in old THEN LegacyRow(c) ELSE AbsentRow]
    /\ handler = [b \in Batches |-> "none"]
    /\ worker = "check" /\ todo = Batches
    /\ queued = {} /\ indexed = {}
    /\ wakeAt = Never /\ misled = "no" /\ wake = FALSE
    /\ failures = 0

(* The store refuses something.                                            *)
StoreFails == failures < MaxFailures /\ failures' = failures + 1

Tick ==
    /\ now < MaxTime
    /\ now' = now + 1
    /\ UNCHANGED <<table, schedule, handler, thread, wake, failures>>

-----------------------------------------------------------------------------
(* The CASE expression that touch_verification and save_refresh_settings   *)
(* share: the next refresh after a check at t, for window w and interval n.*)
NextPastTheEnd(t, w, n) ==
    CASE w # NoWindow /\ t < w.from -> w.from
      [] w # NoWindow /\ t >= w.until -> Never
      [] OTHER -> t + n
NextWithoutInterval(t, w, n) ==
    CASE w # NoWindow /\ t < w.from -> w.from
      [] w # NoWindow /\ t >= w.until -> Never
      [] OTHER -> t
NextRefresh(t, w, n) ==
    CASE w # NoWindow /\ t < w.from -> w.from
      [] w # NoWindow /\ t >= w.until -> Never
      [] w # NoWindow /\ t \in w.from..w.until - 1 /\ t + n >= w.until -> w.until
      [] OTHER -> t + n

(* touch_verification: the status row, its history row and the schedule    *)
(* in one transaction.                                                     *)
TouchVerification(b) ==
    /\ checkedAt' = [checkedAt EXCEPT ![b] = now]
    /\ next' = [next EXCEPT ![b] = NextRefresh(now, window[b], interval[ProductOf[b]])]
    /\ unscheduled' = unscheduled \ {b}
    /\ UNCHANGED settings

(* refresh_due.                                                            *)
RefreshDueAfterEnd(b) == ~Before(b) /\ next[b] \in 0..now \cup {Never}
RefreshDue(b) ==
    /\ ~Before(b) /\ ~Ended(b)
    /\ next[b] \in 0..now \cup {Never}

(* next_refresh_delay: only a batch whose newest row is active or          *)
(* invalidated has a say.                                                  *)
NewestIsPublished(b) ==
    \E i \in RowsOf(table, b) :
        /\ \A j \in RowsOf(table, b) : table[j].rev <= table[i].rev
        /\ table[i].state \in {"active", "invalidated"}

WakeTime(b) ==
    CASE Before(b) -> window[b].from
      [] ~Before(b) /\ next[b] \in 0..now \cup {Never} -> now
      [] OTHER -> next[b]

NextWakeOfLast ==
    LET W == {WakeTime(b) : b \in {c \in Batches : NewestIsPublished(c) /\ ~Ended(c)}}
    IN  IF W = {} THEN Never ELSE Max(W)
NextWake ==
    LET W == {WakeTime(b) : b \in {c \in Batches : NewestIsPublished(c) /\ ~Ended(c)}}
    IN  IF W = {} THEN Never ELSE Min(W)

-----------------------------------------------------------------------------
(* POST /api/snapshot/refresh-policies: the policy of the product, the     *)
(* window of the batch, and the schedule of the batch and of the product's *)
(* batches with an active or invalidated row, all in one transaction.      *)
RescheduledBatchOnly(b) == {b}
Rescheduled(b) ==
    {c \in Batches : /\ ProductOf[c] = ProductOf[b]
                     /\ c = b \/ HasPublished(c)}

SaveRefreshSettings(b, w, n) ==
    /\ handler[b] = "none"
    /\ interval' = [interval EXCEPT ![ProductOf[b]] = n]
    /\ window' = [window EXCEPT ![b] = w]
    /\ next' = [c \in Batches |-> IF c \in Rescheduled(b)
                                  THEN NextRefresh(now, window'[c], n) ELSE next[c]]
    /\ unscheduled' = unscheduled \ Rescheduled(b)
    /\ handler' = [handler EXCEPT ![b] = "saved"]
    /\ UNCHANGED <<now, table, checkedAt, thread, wake, failures>>

(* The answer lists the settings, read back from the database.  When that  *)
(* fails the request ends with 500: the settings stand and nobody is woken.*)
AnswerUnread(b) ==
    /\ StoreFails
    /\ handler[b] = "saved"
    /\ handler' = [handler EXCEPT ![b] = "none"]
    /\ misled' = IF worker = "asleep" THEN "unwoken" ELSE misled
    /\ UNCHANGED <<now, table, schedule, worker, todo, queued, indexed, wakeAt, wake>>

(* POST /api/snapshot/preview needs a window; it wakes nobody.             *)
SavePreview(i) ==
    /\ handler[BatchOf[i]] = "none"
    /\ window[BatchOf[i]] # NoWindow
    /\ ~Stored(table, i)
    /\ \E c \in Contents : table' = WithPreview(table, i, c)
    /\ UNCHANGED <<now, schedule, handler, thread, wake, failures>>

(* POST /api/snapshot/publish after the answer 201 (the contract accepts   *)
(* an ID once): mark_published ...                                         *)
Publishable(i) ==
    /\ handler[BatchOf[i]] = "none"
    /\ Stored(table, i) /\ table[i].publication = NoContent

MarkPublished(i) ==
    /\ Publishable(i)
    /\ \E c \in Contents : table' = WithPublication(table, i, c)
    /\ KeepsSchedule(BatchOf[i])
    /\ handler' = [handler EXCEPT ![BatchOf[i]] = "published"]
    /\ UNCHANGED <<now, thread, wake, failures>>

(* ... which may fail without a change, or for its archive file once the   *)
(* table is committed; either way touch_verification is passed over ...    *)
MarkPublishedFails(i) ==
    /\ StoreFails
    /\ Publishable(i)
    /\ \/ /\ \E c \in Contents : table' = WithPublication(table, i, c)
          /\ KeepsSchedule(BatchOf[i])
       \/ UNCHANGED <<table, schedule>>
    /\ handler' = [handler EXCEPT ![BatchOf[i]] = "changed"]
    /\ UNCHANGED <<now, thread, wake>>

(* ... then touch_verification, whose failure is only told to the caller.  *)
VerifyPublished(b) ==
    /\ handler[b] = "published"
    /\ TouchVerification(b)
    /\ handler' = [handler EXCEPT ![b] = "changed"]
    /\ UNCHANGED <<now, table, thread, wake, failures>>

VerifyPublishedFails(b) ==
    /\ StoreFails
    /\ handler[b] = "published"
    /\ handler' = [handler EXCEPT ![b] = "changed"]
    /\ UNCHANGED <<now, table, schedule, thread, wake>>

(* POST /api/workflow with a new fingerprint; it holds chain_mutex, which  *)
(* the scheduler holds while it checks.                                    *)
RouteChanges(b) ==
    /\ handler[b] = "none"
    /\ worker # "check"
    /\ handler' = [handler EXCEPT ![b] = "changed"]
    /\ UNCHANGED <<now, settings, checkedAt, thread, wake>>

Invalidate(b) ==
    /\ RouteChanges(b)
    /\ table' = Invalidated(table, b)
    /\ next' = [next EXCEPT ![b] = Never]
    /\ unscheduled' = unscheduled \ {b}
    /\ UNCHANGED failures

(* invalidate_batch commits its two statements one by one.  The failure of *)
(* either is logged; the handler goes on to its event and its wake.        *)
InvalidateFails(b) ==
    /\ StoreFails
    /\ RouteChanges(b)
    /\ \/ table' = Invalidated(table, b) /\ KeepsSchedule(b)
       \/ UNCHANGED <<table, schedule>>

(* ... and the handler that reached its answer calls wake().               *)
WakeScheduler(b) ==
    /\ handler[b] \in {"saved", "changed"}
    /\ handler' = [handler EXCEPT ![b] = "none"]
    /\ wake' = TRUE
    /\ UNCHANGED <<now, table, schedule, thread, failures>>

(* POST /api/records, under chain_mutex: a committed Block changes no due  *)
(* time and wakes the scheduler all the same.                              *)
CommitBlock ==
    /\ worker # "check"
    /\ wake' = TRUE
    /\ UNCHANGED <<now, table, schedule, handler, thread, failures>>

-----------------------------------------------------------------------------
(* The scheduler thread.  Its wait runs out, or is ended by a wake.        *)
StartCycle ==
    /\ worker = "asleep"
    /\ wake \/ wakeAt \in 0..now
    /\ worker' = "check" /\ todo' = Batches /\ wake' = FALSE /\ misled' = "no"
    /\ UNCHANGED <<now, table, schedule, handler, queued, indexed, wakeAt, failures>>

(* automatic_snapshot_refresh, first part: a batch that is not due is left *)
(* alone; one that is due is found waiting, unchanged or in error, or has  *)
(* a new Snapshot to publish.                                              *)
LookAt(b) ==
    /\ worker = "check" /\ b \in todo
    /\ todo' = todo \ {b}
    /\ UNCHANGED <<now, table, handler, worker, indexed, wakeAt, misled, wake>>

Refresh(b) ==
    \/ TouchVerification(b) /\ UNCHANGED queued
    \/ queued' = queued \cup {b} /\ UNCHANGED schedule

CheckBatch(b) ==
    /\ LookAt(b)
    /\ IF Monitored(b) /\ RefreshDue(b) THEN Refresh(b) ELSE UNCHANGED <<queued, schedule>>
    /\ UNCHANGED failures

(* refresh_due answers true when it cannot read the schedule.              *)
MisreadDue(b) == StoreFails /\ LookAt(b) /\ Monitored(b) /\ Refresh(b)

(* A due batch is passed over: its publications cannot be read, or the     *)
(* check cannot be recorded.                                               *)
CheckFails(b) ==
    StoreFails /\ LookAt(b) /\ Monitored(b) /\ RefreshDue(b) /\ UNCHANGED <<queued, schedule>>

(* The Blocks and routes cannot be read: the cycle ends at once.           *)
SourceUnread ==
    /\ StoreFails
    /\ worker = "check" /\ todo = Batches
    /\ todo' = {}
    /\ UNCHANGED <<now, table, schedule, handler, worker, queued, indexed, wakeAt, misled, wake>>

(* chain_mutex is released; the second part publishes.                     *)
ReleaseChain ==
    /\ worker = "check" /\ todo = {}
    /\ worker' = "publish"
    /\ UNCHANGED <<now, table, schedule, handler, todo, queued, indexed, wakeAt, misled, wake, failures>>

(* The new Snapshot was published: mark_published.  One whose archive file *)
(* cannot be written stands in the table all the same.                     *)
IndexPublished(b) ==
    /\ worker = "publish" /\ b \in queued
    /\ \E i \in Ids, c \in Contents :
           /\ BatchOf[i] = b /\ ~Stored(table, i)
           /\ table' = WithPublication(table, i, c)
    /\ KeepsSchedule(b)
    /\ queued' = queued \ {b} /\ indexed' = indexed \cup {b}
    /\ UNCHANGED <<now, handler, worker, todo, wakeAt, misled, wake, failures>>

(* record_snapshot_check after a publication, or after one that failed.    *)
Recorded(b) ==
    /\ worker = "publish" /\ b \in queued \cup indexed
    /\ queued' = queued \ {b} /\ indexed' = indexed \ {b}
    /\ UNCHANGED <<now, table, handler, worker, todo, wakeAt, misled, wake>>

RecordCheck(b) == Recorded(b) /\ TouchVerification(b) /\ UNCHANGED failures

(* Its failure is logged and the batch keeps its due time.                 *)
RecordCheckFails(b) == StoreFails /\ Recorded(b) /\ UNCHANGED schedule

(* next_refresh_delay, then the wait.                                      *)
CycleEnds ==
    /\ worker = "publish" /\ queued = {} /\ indexed = {}
    /\ worker' = "asleep"
    /\ UNCHANGED <<now, table, schedule, handler, todo, queued, indexed, wake>>

FallAsleep == CycleEnds /\ wakeAt' = NextWake /\ UNCHANGED <<misled, failures>>

(* It answers 0 when the query cannot be prepared and nullopt, a wait      *)
(* without a limit, when it cannot be run.                                 *)
LookUpFails ==
    /\ StoreFails
    /\ CycleEnds
    /\ \/ wakeAt' = now /\ UNCHANGED misled
       \/ wakeAt' = Never /\ misled' = "lookup"

WorkerStep ==
    \/ StartCycle \/ ReleaseChain \/ FallAsleep
    \/ \E b \in Batches : CheckBatch(b) \/ IndexPublished(b) \/ RecordCheck(b)

Failure ==
    \/ \E b \in Batches : \/ AnswerUnread(b) \/ VerifyPublishedFails(b) \/ InvalidateFails(b)
                          \/ MisreadDue(b) \/ CheckFails(b) \/ RecordCheckFails(b)
    \/ \E i \in Ids : MarkPublishedFails(i)
    \/ SourceUnread \/ LookUpFails

Next ==
    \/ Tick
    \/ \E b \in Batches : \/ \E w \in Windows, n \in Intervals : SaveRefreshSettings(b, w, n)
                          \/ VerifyPublished(b) \/ Invalidate(b) \/ WakeScheduler(b)
    \/ \E i \in Ids : SavePreview(i) \/ MarkPublished(i)
    \/ CommitBlock
    \/ WorkerStep
    \/ Failure

(* The scheduler thread runs whenever it can, and a request that changed   *)
(* the schedule is finished.  Time need not advance and nothing need fail. *)
Fairness ==
    /\ WF_vars(WorkerStep)
    /\ \A b \in Batches : WF_vars(VerifyPublished(b) \/ WakeScheduler(b))

Spec == Init /\ [][Next]_vars /\ Fairness

-----------------------------------------------------------------------------
(* The tables and the thread's variables have the shape of their           *)
(* declarations.                                                           *)
TypeOK ==
    /\ now \in Nat
    /\ table \in [Ids -> Row]
    /\ interval \in [Products -> Intervals \cup {DefaultInterval}]
    /\ window \in [Batches -> Windows \cup {NoWindow}]
    /\ next \in [Batches -> Times]
    /\ checkedAt \in [Batches -> Times]
    /\ unscheduled \subseteq Batches
    /\ handler \in [Batches -> {"none", "saved", "published", "changed"}]
    /\ worker \in {"check", "publish", "asleep"}
    /\ todo \subseteq Batches /\ queued \subseteq Batches /\ indexed \subseteq Batches
    /\ wakeAt \in Times /\ misled \in {"no", "unwoken", "lookup"}
    /\ wake \in BOOLEAN
    /\ failures \in 0..MaxFailures

(* "A future window waits until its start time", "at the end time the      *)
(* batch stops": a stored due time always lies inside the window that is   *)
(* stored now, in whatever order windows, policies, checks and             *)
(* publications were saved.                                                *)
DueInsideWindow ==
    \A b \in Batches : window[b] # NoWindow /\ next[b] # Never =>
        window[b].from <= next[b] /\ next[b] <= window[b].until

(* What a policy promises: the batch is due within interval n from now, or *)
(* at the start of its window.                                             *)
DueWithin(b, n) ==
    \/ next[b] \in Nat => next[b] <= now + n
    \/ window[b] # NoWindow /\ next[b] = window[b].from

(* A saved policy governs every batch of the product that has an active or *)
(* invalidated Snapshot, whichever batch it was saved with: none is due    *)
(* later than one current interval from now.  Only a batch whose due time  *)
(* has not been written since its first publication (the write failed, or  *)
(* is still to come) may go by an older policy, and then by one that an    *)
(* administrator once saved.                                               *)
PolicyTakesEffect ==
    \A b \in Batches :
        IF HasPublished(b) /\ b \notin unscheduled
        THEN DueWithin(b, interval[ProductOf[b]])
        ELSE \E n \in Intervals \cup {DefaultInterval} : DueWithin(b, n)

(* A verification puts the next refresh off: right after it the batch is   *)
(* not due, at the window's edges too, so that a cycle which checked       *)
(* everything does not start over at once and spin.                        *)
CheckedIsNotDue ==
    [][\A b \in Batches : checkedAt'[b] # checkedAt[b] => ~RefreshDue(b)']_vars

Settled == worker = "asleep" /\ ~wake /\ \A b \in Batches : handler[b] = "none"

(* The wait outlasts every time that could make the batch due.             *)
Oversleeps(b) ==
    \/ wakeAt = Never
    \/ /\ wakeAt > now
       /\ window[b] # NoWindow => wakeAt > window[b].from
       /\ next[b] # Never => wakeAt > next[b]

(* The scheduler waits "for the nearest due time": once every handler has  *)
(* answered, its sleep ends no later than the due time of any batch whose  *)
(* newest revision is active or invalidated, whatever failed before.  Two  *)
(* failures are the exception, for the one sleep they fall into: settings  *)
(* saved without a wake, and a delay that could not be looked up.          *)
NeverSleepsPastDue ==
    Settled /\ misled = "no" => \A b \in Batches :
        NewestIsPublished(b) /\ ~Ended(b) => ~Oversleeps(b)

(* A batch that is due is checked, unless a pending preview hides it,      *)
(* after failures too, unless one of those two lets the thread sleep on.   *)
DueIsChecked ==
    \A b \in Batches :
        (RefreshDue(b) /\ NewestIsPublished(b) /\ misled = "no")
            ~> (~RefreshDue(b) \/ ~NewestIsPublished(b) \/ misled # "no")
=============================================================================
