--------------------------- MODULE SnapshotScheduler ---------------------------
(***************************************************************************)
(* class SnapshotScheduler: one worker thread that runs the refresh        *)
(* callback (cycle_), asks how long to wait (next_wake_) and waits on a    *)
(* condition variable, and the threads that call start, stop and wake.     *)
(*                                                                         *)
(* The mutex is held for the few lines between taking it and waiting, so   *)
(* each such stretch is one step; the callbacks run without it.  A         *)
(* condition_.wait with a predicate is a step guarded by the predicate.    *)
(* The scheduler has no clock here: a finite delay may run out whenever    *)
(* the worker waits on it.                                                 *)
(***************************************************************************)
EXTENDS FiniteSetsExt

CONSTANTS
    Owners,      \* threads that start and stop the scheduler
    Changers,    \* threads that change what next_wake_ will answer, then wake
    Dues,        \* the answers of next_wake_ that are a delay
    NoDue,       \* its answer std::nullopt: nothing is scheduled
    Thrown,      \* it threw: the delay is std::nullopt as well
    MaxStarts    \* bound: how often start may spawn a worker

ASSUME NoDueAssumption == NoDue \notin Dues /\ Thrown \notin Dues \cup {NoDue}
ASSUME MaxStartsAssumption == MaxStarts \in Nat

VARIABLES
    running, stopRequested, wakeRequested,   \* the flags under mutex_
    handle,      \* worker_: the thread it owns, 0 when not joinable
    started,     \* threads spawned so far; thread n is the nth
    place,       \* where each spawned thread is
    delay,       \* the local variable delay of each
    owner,       \* where each owner is in stop()
    joining,     \* its local variable worker
    due,         \* what next_wake_ answers now
    changer      \* "changed": due was changed, wake() not yet called

flags == <<running, stopRequested, wakeRequested>>
threads == <<handle, started, place, delay>>
callers == <<owner, joining>>
schedulerVars == <<flags, threads, callers, due, changer>>

Workers == 1..MaxStarts
Places == {"unborn", "cycle", "lookup", "decide", "waiting", "done"}

SchedulerInit ==
    /\ running = FALSE /\ stopRequested = FALSE /\ wakeRequested = FALSE
    /\ handle = 0 /\ started = 0
    /\ place = [w \in Workers |-> "unborn"]
    /\ delay = [w \in Workers |-> NoDue]
    /\ owner = [o \in Owners |-> "idle"]
    /\ joining = [o \in Owners |-> 0]
    /\ due \in Dues \cup {NoDue}
    /\ changer = [c \in Changers |-> "idle"]

Goes(w, from, to) == place[w] = from /\ place' = [place EXCEPT ![w] = to]

Alive(w) == place[w] \notin {"unborn", "done"}

-----------------------------------------------------------------------------
(* start: nothing while the scheduler runs.                                *)
StartAgain(o) ==
    /\ owner[o] = "idle"
    /\ started < MaxStarts
    /\ running' = TRUE /\ stopRequested' = FALSE
    /\ started' = started + 1 /\ handle' = started + 1
    /\ place' = [place EXCEPT ![started + 1] = "cycle"]
    /\ UNCHANGED <<wakeRequested, delay, callers, due, changer>>
Start(o) ==
    /\ owner[o] = "idle"
    /\ ~running /\ started < MaxStarts
    /\ running' = TRUE /\ stopRequested' = FALSE
    /\ started' = started + 1 /\ handle' = started + 1
    /\ place' = [place EXCEPT ![started + 1] = "cycle"]
    /\ UNCHANGED <<wakeRequested, delay, callers, due, changer>>

(* stop, first critical section: ask the worker to stop and take its       *)
(* handle.                                                                 *)
RequestStop(o) ==
    /\ owner[o] = "idle" /\ running
    /\ stopRequested' = TRUE
    /\ joining' = [joining EXCEPT ![o] = handle]
    /\ handle' = 0
    /\ owner' = [owner EXCEPT ![o] = "joining"]
    /\ UNCHANGED <<running, wakeRequested, started, place, delay, due, changer>>

(* stop, the join, without the mutex.                                      *)
Join(o) ==
    /\ owner[o] = "joining"
    /\ joining[o] # 0 => place[joining[o]] = "done"
    /\ owner' = [owner EXCEPT ![o] = "joined"]
    /\ UNCHANGED <<flags, threads, joining, due, changer>>

(* stop, second critical section.                                          *)
FinishStop(o) ==
    /\ owner[o] = "joined"
    /\ running' = FALSE
    /\ owner' = [owner EXCEPT ![o] = "idle"]
    /\ joining' = [joining EXCEPT ![o] = 0]
    /\ UNCHANGED <<stopRequested, wakeRequested, threads, due, changer>>

(* A request handler commits a change of the schedule ...                  *)
Change(c) ==
    /\ changer[c] = "idle"
    /\ due' \in (Dues \cup {NoDue}) \ {due}
    /\ changer' = [changer EXCEPT ![c] = "changed"]
    /\ UNCHANGED <<flags, threads, callers>>

(* ... and calls wake.                                                     *)
Wake(c) ==
    /\ changer[c] = "changed"
    /\ wakeRequested' = TRUE
    /\ changer' = [changer EXCEPT ![c] = "idle"]
    /\ UNCHANGED <<running, stopRequested, threads, callers, due>>

-----------------------------------------------------------------------------
(* run: the callback returns or throws (the exception is swallowed); the   *)
(* refresh may itself have changed the schedule.                           *)
RunCycle(w) ==
    /\ Goes(w, "cycle", "lookup")
    /\ due' \in Dues \cup {NoDue}
    /\ UNCHANGED <<flags, handle, started, delay, callers, changer>>

(* run: next_wake_, or its exception, which leaves delay empty.  Thrown    *)
(* only remembers why it is empty; the code makes no difference.           *)
LookUpNothing(w) ==
    /\ Goes(w, "lookup", "decide")
    /\ delay' = [delay EXCEPT ![w] = NoDue]
    /\ UNCHANGED <<flags, handle, started, callers, due, changer>>
LookUpDelay(w) ==
    /\ Goes(w, "lookup", "decide")
    /\ \E d \in {due, Thrown} : delay' = [delay EXCEPT ![w] = d]
    /\ UNCHANGED <<flags, handle, started, callers, due, changer>>

(* run, under the lock: stop, or go round again for a wake that came while *)
(* the callbacks ran, or wait.                                             *)
DecideIgnoringWake(w) ==
    /\ \/ stopRequested /\ Goes(w, "decide", "done") /\ UNCHANGED wakeRequested
       \/ /\ ~stopRequested /\ wakeRequested' = FALSE
          /\ Goes(w, "decide", "waiting")
    /\ UNCHANGED <<running, stopRequested, handle, started, delay, callers, due, changer>>
Decide(w) ==
    /\ \/ stopRequested /\ Goes(w, "decide", "done") /\ UNCHANGED wakeRequested
       \/ /\ ~stopRequested /\ wakeRequested /\ wakeRequested' = FALSE
          /\ Goes(w, "decide", "cycle")
       \/ /\ ~stopRequested /\ ~wakeRequested /\ UNCHANGED wakeRequested
          /\ Goes(w, "decide", "waiting")
    /\ UNCHANGED <<running, stopRequested, handle, started, delay, callers, due, changer>>

(* The predicate of the wait holds.                                        *)
AwakenWithoutStop(w) ==
    /\ wakeRequested
    /\ Goes(w, "waiting", "cycle") /\ wakeRequested' = FALSE
    /\ UNCHANGED <<running, stopRequested, handle, started, delay, callers, due, changer>>
AwakenOnStopOnly(w) ==
    /\ stopRequested
    /\ Goes(w, "waiting", "done")
    /\ UNCHANGED <<flags, handle, started, delay, callers, due, changer>>
Awaken(w) ==
    /\ \/ stopRequested /\ Goes(w, "waiting", "done") /\ UNCHANGED wakeRequested
       \/ /\ ~stopRequested /\ wakeRequested /\ wakeRequested' = FALSE
          /\ Goes(w, "waiting", "cycle")
    /\ UNCHANGED <<running, stopRequested, handle, started, delay, callers, due, changer>>

(* wait_for runs out of time with the predicate still false.               *)
TimeOut(w) ==
    /\ delay[w] \in Dues /\ ~stopRequested /\ ~wakeRequested
    /\ Goes(w, "waiting", "cycle")
    /\ UNCHANGED <<flags, handle, started, delay, callers, due, changer>>

ThreadStep(w) ==
    RunCycle(w) \/ LookUpDelay(w) \/ Decide(w) \/ Awaken(w) \/ TimeOut(w)

SchedulerNext ==
    \/ \E o \in Owners : Start(o) \/ RequestStop(o) \/ Join(o) \/ FinishStop(o)
    \/ \E c \in Changers : Change(c) \/ Wake(c)
    \/ \E w \in Workers : ThreadStep(w)

(* A thread that can run does; a handler that committed its change goes on *)
(* to call wake.  Nobody is obliged to start, stop or change anything.     *)
SchedulerFairness ==
    /\ \A w \in Workers : WF_schedulerVars(ThreadStep(w))
    /\ \A o \in Owners : WF_schedulerVars(Join(o) \/ FinishStop(o))
    /\ \A c \in Changers : WF_schedulerVars(Wake(c))

SchedulerSpec == SchedulerInit /\ [][SchedulerNext]_schedulerVars /\ SchedulerFairness

-----------------------------------------------------------------------------
(* Every variable has the type its declaration in the class gives it.      *)
SchedulerTypeOK ==
    /\ running \in BOOLEAN /\ stopRequested \in BOOLEAN /\ wakeRequested \in BOOLEAN
    /\ started \in 0..MaxStarts /\ handle \in 0..started
    /\ place \in [Workers -> Places]
    /\ delay \in [Workers -> Dues \cup {NoDue, Thrown}]
    /\ owner \in [Owners -> {"idle", "joining", "joined"}]
    /\ joining \in [Owners -> 0..MaxStarts]
    /\ due \in Dues \cup {NoDue}
    /\ changer \in [Changers -> {"idle", "changed"}]

(* A stop and a later start never leave two workers, which would run two   *)
(* refresh cycles at once; stop() "wakes the worker and joins it", so none *)
(* lives once the scheduler is marked stopped; and start never assigns to  *)
(* a thread object that still owns a thread, which would end the process.  *)
OneWorkerAtATime ==
    /\ \A v, w \in Workers : Alive(v) /\ Alive(w) => v = w
    /\ ~running => handle = 0 /\ \A w \in Workers : ~Alive(w)

(* "wake() interrupts that wait so the next due time can be recalculated": *)
(* a worker never settles down to wait on an outdated answer.  Whenever it *)
(* waits, no change is half announced and no wake or stop is pending, its  *)
(* delay is what next_wake_ would answer now - also when the change came   *)
(* between next_wake_ and the lock.  If next_wake_ threw there is no       *)
(* answer, and the worker waits for an explicit wake.                      *)
NeverSleepsOnStaleDelay ==
    \A w \in Workers :
        /\ place[w] = "waiting" /\ ~wakeRequested /\ ~stopRequested
        /\ \A c \in Changers : changer[c] = "idle"
        => delay[w] \in {due, Thrown}

(* A wake leads to a cycle, unless the scheduler is being stopped.         *)
WakeReachesCycle ==
    (wakeRequested /\ running)
        ~> (stopRequested \/ \E w \in Workers : place[w] = "cycle")

(* A due time is acted on: while something is due, the worker comes to run *)
(* a cycle, unless the due time is withdrawn, the scheduler stopped, or    *)
(* the worker could not learn it because next_wake_ threw.                 *)
DueReachesCycle ==
    (running /\ due # NoDue)
        ~> \/ stopRequested \/ due = NoDue
           \/ \E w \in Workers : place[w] = "cycle" \/ delay[w] = Thrown

(* stop() returns: the worker is never left waiting for ever, even when    *)
(* nothing is due.                                                         *)
StopReturns ==
    \A o \in Owners : owner[o] = "joining" ~> owner[o] = "idle"
=============================================================================
