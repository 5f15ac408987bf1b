------------------------------- MODULE Scheduler -------------------------------
(***************************************************************************)
(* Scheduled queries: the tick loop of internal/scheduler/scheduler.go,    *)
(* the enqueuer of cmd/ds3sql-server/main.go that polls the jobs it        *)
(* submits, the schedules table (internal/metastore/sqlite.go) both write, *)
(* and the handlers of internal/api/schedule_handler.go that edit it.      *)
(*                                                                         *)
(* Every statement sent to the store is one step, so that the tick, the    *)
(* pollers and the handlers interleave between any two of them.  Time is   *)
(* counted in ticks of the scheduler's ticker.  A job is what JobLifecycle *)
(* promises, with "queued" and "running" taken together as "live".         *)
(***************************************************************************)
EXTENDS Naturals, FiniteSets

CONSTANTS Schedules,        \* schedule ids ever created
          Crons,            \* cron expressions
          NextOf,           \* NextOf[c][t]: first activation of c after t, or 0
          MaxTime,          \* bound: ticks of the clock
          Converts,         \* schedules of type "convert"
          Editable,         \* schedules that a client may PUT
          Deletable,        \* schedules that a client may DELETE
          Cancellable,      \* schedules whose jobs a client may cancel
          MaxCrashes,       \* bound: restarts of the server
          MaxStoreErrors    \* bound: failing calls of the store

\* The zero time, which the store writes as the empty string, is 0.  cron's Next
\* returns it for an expression that never fires (the 30th of February).
ASSUME SchedulerAssumption ==
    /\ MaxTime \in Nat
    /\ NextOf \in [Crons -> [0..MaxTime -> Nat]]
    /\ \A c \in Crons, t \in 0..MaxTime : NextOf[c][t] = 0 \/ NextOf[c][t] > t
    /\ Converts \subseteq Schedules
    /\ Editable \subseteq Schedules
    /\ Deletable \subseteq Schedules
    /\ Cancellable \subseteq Schedules
    /\ MaxCrashes \in Nat
    /\ MaxStoreErrors \in Nat

VARIABLES row,          \* whether the schedule has a row in the table
          cron,         \* columns of the row: cron,
          nextRun,      \*   next_run_at,
          running,      \*   running
          now,          \* the clock
          ticked,       \* the time of the last tick
          batch,        \* rows the tick has selected and not yet looked at
          marked,       \* the row the tick has marked running, not yet enqueued
          job,          \* the status of the job of each run
          poller,       \* where the goroutine polling that job is
          runNext,      \* Schedule.NextRunAt as that goroutine remembers it
          crashes,      \* restarts so far
          storeErrors   \* failed store calls so far

tableVars == <<row, cron, nextRun, running>>
tickVars == <<ticked, batch, marked>>
runVars == <<job, poller, runNext>>
faultVars == <<crashes, storeErrors>>
vars == <<tableVars, now, tickVars, runVars, faultVars>>

\* A run is known by its schedule and the time of the tick that started it.
Runs == Schedules \X (1..MaxTime)
RunsOf(s) == {r \in Runs : r[1] = s}

\* The fields of a selected row that the tick and the enqueuer use.
Selected == [id : Schedules, cron : Crons]

Init ==
    /\ row = [s \in Schedules |-> "unborn"]
    /\ cron \in [Schedules -> Crons]
    /\ nextRun = [s \in Schedules |-> 0]
    /\ running = [s \in Schedules |-> FALSE]
    /\ now = 0
    /\ ticked = 0
    /\ batch = {}
    /\ marked = {}
    /\ job = [r \in Runs |-> "none"]
    /\ poller = [r \in Runs |-> "none"]
    /\ runNext = [r \in Runs |-> 0]
    /\ crashes = 0
    /\ storeErrors = 0

\* A statement on the row of s that may fail, and whose error, like the one of
\* a row that is gone, only means that nothing was written.
Written(s) == row[s] = "stored" /\ UNCHANGED storeErrors

NotWritten(s) ==
    \/ row[s] # "stored" /\ UNCHANGED storeErrors
    \/ storeErrors < MaxStoreErrors /\ storeErrors' = storeErrors + 1

\* UpdateScheduleRun.
SetRunning(s, b) ==
    \/ Written(s) /\ running' = [running EXCEPT ![s] = b]
    \/ NotWritten(s) /\ UNCHANGED running

\* SetScheduleNextRun.
SetNextRun(s, t) ==
    \/ Written(s) /\ nextRun' = [nextRun EXCEPT ![s] = t]
    \/ NotWritten(s) /\ UNCHANGED nextRun

\* CreateSchedule, UpdateSchedule and DeleteSchedule.  A failing statement is an
\* error to the client, and no step.
Insert(s, next) ==
    /\ row[s] = "unborn"
    /\ row' = [row EXCEPT ![s] = "stored"]
    /\ nextRun' = [nextRun EXCEPT ![s] = next]
    /\ UNCHANGED <<cron, running>>

Overwrite(s, c, next, run) ==
    /\ row[s] = "stored"
    /\ cron' = [cron EXCEPT ![s] = c]
    /\ nextRun' = [nextRun EXCEPT ![s] = next]
    /\ running' = [running EXCEPT ![s] = run]
    /\ UNCHANGED row

Remove(s) ==
    /\ row[s] = "stored"
    /\ row' = [row EXCEPT ![s] = "deleted"]
    /\ UNCHANGED <<cron, nextRun, running>>

-------------------------------------------------------------------------------
(* The handlers                                                             *)

Create(s) ==
    /\ Insert(s, NextOf[cron[s]][now])
    /\ UNCHANGED <<now, tickVars, runVars, faultVars>>

\* The row is overwritten with a Schedule whose Running was left FALSE.
Edit(s, c) ==
    /\ s \in Editable
    /\ Overwrite(s, c, NextOf[c][now], FALSE)
    /\ UNCHANGED <<now, tickVars, runVars, faultVars>>

Delete(s) ==
    /\ s \in Deletable
    /\ Remove(s)
    /\ UNCHANGED <<now, tickVars, runVars, faultVars>>

-------------------------------------------------------------------------------
(* The tick                                                                 *)

\* Fault: a running schedule is selected again.
DueIgnoresRunning(s) == row[s] = "stored" /\ nextRun[s] # 0 /\ nextRun[s] <= now

\* Fault: a schedule is not due at its very next_run_at.
DueStrictly(s) ==
    row[s] = "stored" /\ ~running[s] /\ nextRun[s] # 0 /\ nextRun[s] < now

\* The WHERE clause of GetDueSchedules.
Due(s) ==
    row[s] = "stored" /\ ~running[s] /\ nextRun[s] # 0 /\ nextRun[s] <= now

TickIdle == batch = {} /\ marked = {}

StartTick ==
    /\ TickIdle
    /\ ticked < now
    /\ ticked' = now
    /\ \/ /\ batch' = {[id |-> s, cron |-> cron[s]] : s \in {u \in Schedules : Due(u)}}
          /\ UNCHANGED storeErrors
       \/ /\ storeErrors < MaxStoreErrors
          /\ storeErrors' = storeErrors + 1
          /\ UNCHANGED batch
    /\ UNCHANGED <<tableVars, now, marked, runVars, crashes>>

\* A selected row is marked running before its job exists; if the row is gone or
\* the store fails the tick goes on to the next one.
MarkRunning(d) ==
    /\ marked = {}
    /\ d \in batch
    /\ batch' = batch \ {d}
    /\ \/ /\ Written(d.id)
          /\ running' = [running EXCEPT ![d.id] = TRUE]
          /\ marked' = {d}
       \/ /\ NotWritten(d.id)
          /\ UNCHANGED <<running, marked>>
    /\ UNCHANGED <<row, cron, nextRun, now, ticked, runVars, crashes>>

\* Submit a job, and start the goroutine that polls it.
Enqueue(d) ==
    LET r == <<d.id, ticked>> IN
    /\ d \in marked
    /\ d.id \notin Converts
    /\ marked' = {}
    /\ job' = [job EXCEPT ![r] = "live"]
    /\ poller' = [poller EXCEPT ![r] = "polling"]
    /\ runNext' = [runNext EXCEPT ![r] = NextOf[d.cron][ticked]]
    /\ UNCHANGED <<tableVars, now, ticked, batch, faultVars>>


\* The server's credential resolver never has credentials for a project: a
\* conversion ends here, with the flag cleared and next_run_at as it was.
EnqueueConvert(d) ==
    /\ d \in marked
    /\ d.id \in Converts
    /\ marked' = {}
    /\ SetRunning(d.id, FALSE)
    /\ UNCHANGED <<row, cron, nextRun, now, ticked, batch, runVars, crashes>>

-------------------------------------------------------------------------------
(* The job of a run, and the goroutine that polls it                        *)

\* Fault: a failing job ends in the status that conversions use.
EndsOfConversion == {"done", "error"}

JobEnds == {"done", "failed"}

EndJob(r) ==
    /\ job[r] = "live"
    /\ \E s \in JobEnds : job' = [job EXCEPT ![r] = s]
    /\ UNCHANGED <<tableVars, now, tickVars, poller, runNext, faultVars>>

CancelJob(r) ==
    /\ r[1] \in Cancellable
    /\ job[r] = "live"
    /\ job' = [job EXCEPT ![r] = "cancelled"]
    /\ UNCHANGED <<tableVars, now, tickVars, poller, runNext, faultVars>>

SeenEnded(r) == job[r] \in {"done", "failed"}

\* The loop breaks and the flag is cleared ...
ClearRunning(r) ==
    /\ poller[r] = "polling"
    /\ SeenEnded(r)
    /\ poller' = [poller EXCEPT ![r] = "cleared"]
    /\ SetRunning(r[1], FALSE)
    /\ UNCHANGED <<row, cron, nextRun, now, tickVars, job, runNext, crashes>>

\* ... and then, in a statement of its own, next_run_at is moved on.
AdvanceNextRun(r) ==
    /\ poller[r] = "cleared"
    /\ poller' = [poller EXCEPT ![r] = "over"]
    /\ SetNextRun(r[1], runNext[r])
    /\ UNCHANGED <<row, cron, running, now, tickVars, job, runNext, crashes>>

-------------------------------------------------------------------------------
(* Time, and restarts of the server                                         *)

ClockTick ==
    /\ now < MaxTime
    /\ now' = now + 1
    /\ UNCHANGED <<tableVars, tickVars, runVars, faultVars>>

\* Only the table survives: the jobs, the pollers and the tick are gone.
Crash ==
    /\ crashes < MaxCrashes
    /\ crashes' = crashes + 1
    /\ batch' = {}
    /\ marked' = {}
    /\ job' = [r \in Runs |-> IF job[r] = "live" THEN "lost" ELSE job[r]]
    /\ poller' = [r \in Runs |-> IF poller[r] = "none" THEN "none" ELSE "over"]
    /\ UNCHANGED <<tableVars, now, ticked, runNext, storeErrors>>

Tick ==
    \/ StartTick
    \/ \E d \in batch : MarkRunning(d)
    \/ \E d \in marked : Enqueue(d) \/ EnqueueConvert(d)

Poll(r) == ClearRunning(r) \/ AdvanceNextRun(r)

RunStep == \E r \in Runs : EndJob(r) \/ Poll(r)

Handlers(s) == Create(s) \/ Delete(s) \/ \E c \in Crons : Edit(s, c)

Next ==
    \/ \E s \in Schedules : Handlers(s)
    \/ Tick
    \/ RunStep
    \/ \E r \in Runs : CancelJob(r)
    \/ ClockTick
    \/ Crash

Spec == Init /\ [][Next]_vars

\* Time passes, goroutines are scheduled, and jobs end.  A run takes at most
\* three RunSteps, so that the runs cannot starve each other.
FairSpec ==
    /\ Spec
    /\ WF_vars(ClockTick)
    /\ WF_vars(Tick)
    /\ WF_vars(RunStep)

-------------------------------------------------------------------------------
(* Properties                                                               *)

JobStatuses == {"none", "live", "done", "failed", "cancelled", "lost"}
PollerPlaces == {"none", "polling", "cleared", "over"}

TypeOK ==
    /\ row \in [Schedules -> {"unborn", "stored", "deleted"}]
    /\ cron \in [Schedules -> Crons]
    /\ nextRun \in [Schedules -> Nat]
    /\ running \in [Schedules -> BOOLEAN]
    /\ now \in 0..MaxTime
    /\ ticked \in 0..now
    /\ batch \subseteq Selected
    /\ marked \subseteq Selected
    /\ job \in [Runs -> JobStatuses]
    /\ poller \in [Runs -> PollerPlaces]
    /\ runNext \in [Runs -> Nat]
    /\ crashes \in Nat
    /\ storeErrors \in Nat

\* The runs of a schedule that a poller waits for.
Polled(s) == {r \in RunsOf(s) : poller[r] = "polling"}

LiveRuns(s) == {r \in RunsOf(s) : job[r] = "live"}

BatchIds == {d.id : d \in batch}
MarkedIds == {d.id : d \in marked}

\* "no overlapping runs are allowed" (architecture.md), for the schedules that
\* nobody edits: the flag in the table keeps two jobs of a schedule from being
\* live together, whatever is deleted, cancelled, lost in a crash or not written.
NoOverlappingRuns ==
    \A s \in Schedules \ Editable : \A r, q \in LiveRuns(s) : r = q

\* The same for every schedule, as the document says it.
NoOverlapAtAll == \A s \in Schedules : \A r, q \in LiveRuns(s) : r = q

\* Who answers for the flag of a schedule: a selected row that is not marked yet,
\* a marked row, or a polled run, one at a time; from the mark on the flag is up
\* as long as the row exists.
OneOwner(s) ==
    /\ s \in BatchIds => Polled(s) = {} /\ s \notin MarkedIds /\ ~running[s]
    /\ s \in MarkedIds => Polled(s) = {} /\ (row[s] = "stored" => running[s])
    /\ Polled(s) # {} /\ row[s] = "stored" => running[s]
    /\ \A r, q \in Polled(s) : r = q

\* A live job is polled: no goroutine leaves its job alone before it has ended.
LiveJobsArePolled == \A r \in Runs : job[r] = "live" => poller[r] = "polling"

BatchIsPerSchedule == \A d, e \in batch : d.id = e.id => d = e

UnbornIsUnused ==
    \A s \in Schedules :
        row[s] = "unborn" => s \notin BatchIds \cup MarkedIds /\ Polled(s) = {}

\* The inductive invariant behind NoOverlappingRuns: the three statements that
\* write the flag (by the tick, the poller and the conversion) are ordered so
\* that it never comes down while a job it stands for is live.
FlagInv ==
    /\ TypeOK
    /\ LiveJobsArePolled
    /\ BatchIsPerSchedule
    /\ UnbornIsUnused
    /\ \A s \in Schedules \ Editable : OneOwner(s)

\* What the polling loop and the table have no answer to: a job that ends
\* "cancelled", a restart, a statement that fails.
Disturbed(s) ==
    \/ \E r \in RunsOf(s) : job[r] = "cancelled"
    \/ crashes > 0
    \/ storeErrors > 0


\* next_run_at has come and no run is under way (GetDueSchedules' comment).
Awaited(s) == row[s] = "stored" /\ ~running[s] /\ nextRun[s] \in 1..now

\* Unless disturbed, a schedule whose time has come while there are ticks to come
\* does not stay so: a tick selects it, marks it, and its run moves it on.
DueIsServed ==
    \A s \in Schedules :
        (Awaited(s) /\ ticked < MaxTime) ~> (~Awaited(s) \/ Disturbed(s))
===============================================================================
