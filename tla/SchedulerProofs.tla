---------------------------- MODULE SchedulerProofs ----------------------------
(***************************************************************************)
(* Theorems about Scheduler, for every set of schedules and crons, every   *)
(* cron library that keeps SchedulerAssumption, and every bound.           *)
(***************************************************************************)
EXTENDS Scheduler, TLAPS

\* What a statement on a row leaves behind, whether it was carried out or not.
LEMMA StatementTypes ==
    ASSUME TypeOK, NEW s \in Schedules
    PROVE  /\ \A b \in BOOLEAN : SetRunning(s, b) =>
                 /\ running' \in [Schedules -> BOOLEAN]
                 /\ storeErrors' \in Nat
                 /\ \A u \in Schedules \ {s} : running'[u] = running[u]
           /\ \A t \in Nat : SetNextRun(s, t) =>
                 nextRun' \in [Schedules -> Nat] /\ storeErrors' \in Nat
  BY DEF TypeOK, SetRunning, SetNextRun, Written, NotWritten

\* The type invariant of the scheduler's state is inductive.
LEMMA TypeStep == TypeOK /\ [Next]_vars => TypeOK'
<1> SUFFICES ASSUME TypeOK, [Next]_vars PROVE TypeOK'
  OBVIOUS
<1> USE SchedulerAssumption
<1>1. ASSUME NEW s \in Schedules, Create(s) PROVE TypeOK'
  <2>1. now \in 0..MaxTime /\ cron[s] \in Crons
    BY DEF TypeOK
  <2>2. NextOf[cron[s]][now] \in Nat
    BY <2>1
  <2> QED BY <1>1, <2>2 DEF TypeOK, Create, Insert, tickVars, runVars, faultVars
<1>2. ASSUME NEW s \in Schedules, Delete(s) PROVE TypeOK'
  BY <1>2 DEF TypeOK, Delete, Remove, tickVars, runVars, faultVars
<1>3. ASSUME NEW s \in Schedules, NEW c \in Crons, Edit(s, c) PROVE TypeOK'
  <2>1. NextOf[c][now] \in Nat
    BY DEF TypeOK
  <2> QED BY <1>3, <2>1 DEF TypeOK, Edit, Overwrite, tickVars, runVars, faultVars
<1>4. CASE StartTick
  <2>1. {[id |-> s, cron |-> cron[s]] : s \in {u \in Schedules : Due(u)}}
            \subseteq Selected
    BY DEF TypeOK, Selected
  <2>2. batch' \subseteq Selected /\ storeErrors' \in Nat /\ ticked' \in 0..now
    BY <1>4, <2>1 DEF StartTick, TypeOK
  <2> QED BY <1>4, <2>2 DEF TypeOK, StartTick, tableVars, runVars
<1>5. ASSUME NEW d \in batch, MarkRunning(d) PROVE TypeOK'
  <2>1. d \in Selected /\ d.id \in Schedules
    BY DEF TypeOK, Selected
  <2>2. running' \in [Schedules -> BOOLEAN] /\ marked' \subseteq Selected
    <3>1. \/ running' = [running EXCEPT ![d.id] = TRUE] /\ marked' = {d}
          \/ UNCHANGED <<running, marked>>
      BY <1>5 DEF MarkRunning
    <3> QED BY <2>1, <3>1 DEF TypeOK
  <2>3. storeErrors' \in Nat
    BY <1>5 DEF MarkRunning, Written, NotWritten, TypeOK
  <2> QED BY <1>5, <2>2, <2>3 DEF TypeOK, MarkRunning, runVars
<1>6. ASSUME NEW d \in marked, Enqueue(d) PROVE TypeOK'
  <2>1. d \in Selected /\ ticked \in 0..MaxTime
    BY DEF TypeOK
  <2>2. NextOf[d.cron][ticked] \in Nat
    BY <2>1 DEF Selected
  <2>3. /\ job' \in [Runs -> JobStatuses]
        /\ poller' \in [Runs -> PollerPlaces]
        /\ runNext' \in [Runs -> Nat]
    BY <1>6, <2>2 DEF Enqueue, TypeOK, JobStatuses, PollerPlaces
  <2> QED BY <1>6, <2>3 DEF TypeOK, Enqueue, tableVars, faultVars
<1>7. ASSUME NEW d \in marked, EnqueueConvert(d) PROVE TypeOK'
  <2>1. d.id \in Schedules
    BY DEF TypeOK, Selected
  <2>2. running' \in [Schedules -> BOOLEAN] /\ storeErrors' \in Nat
    BY <1>7, <2>1, StatementTypes DEF EnqueueConvert
  <2> QED BY <1>7, <2>2 DEF TypeOK, EnqueueConvert, runVars
<1>8. ASSUME NEW r \in Runs, EndJob(r) PROVE TypeOK'
  <2>1. job' \in [Runs -> JobStatuses]
    BY <1>8 DEF EndJob, TypeOK, JobStatuses, JobEnds
  <2> QED BY <1>8, <2>1 DEF TypeOK, EndJob, tableVars, tickVars, faultVars
<1>9. ASSUME NEW r \in Runs, CancelJob(r) PROVE TypeOK'
  <2>1. job' \in [Runs -> JobStatuses]
    BY <1>9 DEF CancelJob, TypeOK, JobStatuses
  <2> QED BY <1>9, <2>1 DEF TypeOK, CancelJob, tableVars, tickVars, faultVars
<1>10. ASSUME NEW r \in Runs, ClearRunning(r) PROVE TypeOK'
  <2>1. r[1] \in Schedules
    BY DEF Runs
  <2>2. running' \in [Schedules -> BOOLEAN] /\ storeErrors' \in Nat
    BY <1>10, <2>1, StatementTypes DEF ClearRunning
  <2>3. poller' \in [Runs -> PollerPlaces]
    BY <1>10 DEF ClearRunning, TypeOK, PollerPlaces
  <2> QED BY <1>10, <2>2, <2>3 DEF TypeOK, ClearRunning, tickVars
<1>11. ASSUME NEW r \in Runs, AdvanceNextRun(r) PROVE TypeOK'
  <2>1. r[1] \in Schedules /\ runNext[r] \in Nat
    BY DEF Runs, TypeOK
  <2>2. nextRun' \in [Schedules -> Nat] /\ storeErrors' \in Nat
    BY <1>11, <2>1, StatementTypes DEF AdvanceNextRun
  <2>3. poller' \in [Runs -> PollerPlaces]
    BY <1>11 DEF AdvanceNextRun, TypeOK, PollerPlaces
  <2> QED BY <1>11, <2>2, <2>3 DEF TypeOK, AdvanceNextRun, tickVars
<1>12. CASE ClockTick
  BY <1>12 DEF TypeOK, ClockTick, tableVars, tickVars, runVars, faultVars
<1>13. CASE Crash
  <2>1. job' \in [Runs -> JobStatuses] /\ poller' \in [Runs -> PollerPlaces]
    BY <1>13 DEF Crash, TypeOK, JobStatuses, PollerPlaces
  <2> QED BY <1>13, <2>1 DEF TypeOK, Crash, tableVars
<1>14. CASE UNCHANGED vars
  BY <1>14 DEF TypeOK, vars, tableVars, tickVars, runVars, faultVars
<1> QED
  BY <1>1, <1>2, <1>3, <1>4, <1>5, <1>6, <1>7, <1>8, <1>9, <1>10, <1>11, <1>12,
     <1>13, <1>14
  DEF Next, Handlers, Tick, RunStep, Poll

LEMMA TypeInit == Init => TypeOK
  BY SchedulerAssumption
  DEF Init, TypeOK, Runs, Selected, JobStatuses, PollerPlaces

\* Type correctness: whatever fails or is edited, the table, the tick and the
\* pollers hold values of the right kinds, and no tick is ahead of the clock.
THEOREM TypeCorrect == Spec => []TypeOK
  BY TypeInit, TypeStep, PTL DEF Spec

LEMMA FlagInit == Init => FlagInv
<1> SUFFICES ASSUME Init PROVE FlagInv
  OBVIOUS
<1>1. \A s \in Schedules : s \notin BatchIds /\ s \notin MarkedIds /\ Polled(s) = {}
  BY DEF Init, BatchIds, MarkedIds, Polled, RunsOf
<1>2. \A s \in Schedules : OneOwner(s)
  BY <1>1 DEF OneOwner
<1>3. LiveJobsArePolled /\ BatchIsPerSchedule /\ UnbornIsUnused
  BY <1>1 DEF Init, LiveJobsArePolled, BatchIsPerSchedule, UnbornIsUnused
<1> QED BY <1>2, <1>3, TypeInit DEF FlagInv

\* The part of FlagInv that is about the ownership of the flags.
Ownership ==
    /\ LiveJobsArePolled
    /\ BatchIsPerSchedule
    /\ UnbornIsUnused
    /\ \A s \in Schedules \ Editable : OneOwner(s)

\* A step that leaves the tick and the pollers alone keeps the ownership of the
\* flags if it starts no job, creates only unborn rows and touches no flag but
\* an editable schedule's.
LEMMA OwnershipKept ==
    ASSUME Ownership,
           UNCHANGED <<batch, marked, poller>>,
           \A r \in Runs : job'[r] = "live" => job[r] = "live",
           \A s \in Schedules : row'[s] = "unborn" => row[s] = "unborn",
           \A s \in Schedules :
               row'[s] = "stored" => row[s] \in {"stored", "unborn"},
           \A s \in Schedules \ Editable : running'[s] = running[s]
    PROVE  Ownership'
<1>1. /\ BatchIds' = BatchIds /\ MarkedIds' = MarkedIds
      /\ \A s \in Schedules : Polled(s)' = Polled(s)
      /\ BatchIsPerSchedule'
  BY DEF BatchIds, MarkedIds, Polled, BatchIsPerSchedule, Ownership
<1>2. LiveJobsArePolled'
  BY DEF Ownership, LiveJobsArePolled
<1>3. UnbornIsUnused'
  BY <1>1 DEF Ownership, UnbornIsUnused
<1>4. ASSUME NEW s \in Schedules \ Editable PROVE OneOwner(s)'
  <2>1. OneOwner(s) /\ (row[s] = "unborn" => s \notin MarkedIds /\ Polled(s) = {})
    BY DEF Ownership, UnbornIsUnused
  <2> QED BY <1>1, <2>1 DEF OneOwner
<1> QED BY <1>1, <1>2, <1>3, <1>4 DEF Ownership

\* A statement on a row changes no other row's flag.
LEMMA FlagOfOthers ==
    ASSUME TypeOK, NEW s \in Schedules, NEW b \in BOOLEAN, SetRunning(s, b),
           NEW u \in Schedules \ {s}
    PROVE  running'[u] = running[u]
  BY DEF TypeOK, SetRunning

\* FlagInv holds in every reachable state: see its definition.  The steps that
\* write a flag are the tick's mark, the poller's clear and the conversion's.
THEOREM FlagInvariance == Spec => []FlagInv
<1>1. ASSUME FlagInv, [Next]_vars PROVE FlagInv'
  <2>1. TypeOK /\ TypeOK'
    BY <1>1, TypeStep DEF FlagInv
  <2>2. Ownership
    BY <1>1 DEF FlagInv, Ownership
  <2> SUFFICES Ownership'
    BY <2>1 DEF FlagInv, Ownership
  <2>3. ASSUME NEW s \in Schedules, Create(s) PROVE Ownership'
    BY <2>1, <2>2, <2>3, OwnershipKept DEF Create, Insert, tickVars, runVars, TypeOK
  <2>4. ASSUME NEW s \in Schedules, Delete(s) PROVE Ownership'
    BY <2>1, <2>2, <2>4, OwnershipKept DEF Delete, Remove, tickVars, runVars, TypeOK
  <2>5. ASSUME NEW s \in Schedules, NEW c \in Crons, Edit(s, c) PROVE Ownership'
    BY <2>1, <2>2, <2>5, OwnershipKept DEF Edit, Overwrite, tickVars, runVars, TypeOK
  <2>6. CASE StartTick
    <3>1. /\ UNCHANGED <<row, running, job, poller>>
          /\ marked = {} /\ marked' = {} /\ batch = {}
          /\ \/ batch' = {}
             \/ batch' = {[id |-> s, cron |-> cron[s]] :
                                s \in {u \in Schedules : Due(u)}}
      BY <2>6 DEF StartTick, TickIdle, tableVars, runVars
    <3>2. \A d \in batch' : /\ d.id \in Schedules /\ Due(d.id)
                           /\ d = [id |-> d.id, cron |-> cron[d.id]]
      BY <3>1
    <3>3. \A s \in Schedules :
             /\ s \in BatchIds' => row[s] = "stored" /\ ~running[s]
             /\ s \notin MarkedIds' /\ Polled(s)' = Polled(s)
      BY <3>1, <3>2 DEF BatchIds, MarkedIds, Polled, Due
    <3>4. BatchIsPerSchedule'
      BY <3>2 DEF BatchIsPerSchedule
    <3>5. LiveJobsArePolled' /\ UnbornIsUnused'
      BY <2>2, <3>1, <3>3 DEF Ownership, LiveJobsArePolled, UnbornIsUnused
    <3>6. ASSUME NEW s \in Schedules \ Editable PROVE OneOwner(s)'
      BY <2>2, <3>1, <3>3 DEF Ownership, OneOwner
    <3> QED BY <3>4, <3>5, <3>6 DEF Ownership
  <2>7. ASSUME NEW d \in batch, MarkRunning(d) PROVE Ownership'
    <3>1. /\ UNCHANGED <<row, job, poller>>
          /\ batch' = batch \ {d} /\ marked = {}
          /\ d.id \in Schedules
      BY <2>1, <2>7 DEF MarkRunning, runVars, TypeOK, Selected
    <3>2. \/ /\ row[d.id] = "stored"
             /\ running' = [running EXCEPT ![d.id] = TRUE]
             /\ marked' = {d}
          \/ UNCHANGED <<running, marked>>
      BY <2>7 DEF MarkRunning, Written
    <3>3. /\ d.id \in BatchIds
          /\ BatchIds' = BatchIds \ {d.id}
          /\ MarkedIds' \subseteq {d.id}
          /\ \A s \in Schedules : Polled(s)' = Polled(s)
      <4>1. BatchIds' = BatchIds \ {d.id} /\ d.id \in BatchIds
        BY <2>2, <3>1 DEF BatchIds, Ownership, BatchIsPerSchedule
      <4>2. MarkedIds' \subseteq {d.id}
        BY <3>1, <3>2 DEF MarkedIds
      <4> QED BY <3>1, <4>1, <4>2 DEF Polled
    <3>4. LiveJobsArePolled' /\ BatchIsPerSchedule'
      BY <2>2, <3>1 DEF Ownership, LiveJobsArePolled, BatchIsPerSchedule
    <3>5. UnbornIsUnused'
      BY <2>2, <3>1, <3>3 DEF Ownership, UnbornIsUnused
    <3>6. ASSUME NEW s \in Schedules \ Editable PROVE OneOwner(s)'
      <4>1. OneOwner(s)
        BY <2>2 DEF Ownership
      <4>2. CASE s = d.id
        <5>1. Polled(s) = {}
          BY <3>3, <4>1, <4>2 DEF OneOwner
        <5>2. s \in MarkedIds' => running'[s]
          BY <2>1, <3>1, <3>2, <4>2 DEF MarkedIds, TypeOK
        <5> QED BY <3>3, <4>2, <5>1, <5>2 DEF OneOwner
      <4>3. CASE s # d.id
        <5>1. running'[s] = running[s]
          BY <2>1, <3>2, <4>3 DEF TypeOK
        <5> QED BY <3>1, <3>3, <4>1, <4>3, <5>1 DEF OneOwner
      <4> QED BY <4>2, <4>3
    <3> QED BY <3>4, <3>5, <3>6 DEF Ownership
  <2>8. ASSUME NEW d \in marked, Enqueue(d) PROVE Ownership'
    <3> DEFINE r == <<d.id, ticked>>
    <3>1. /\ UNCHANGED <<row, running, batch>>
          /\ marked' = {}
          /\ job' = [job EXCEPT ![r] = "live"]
          /\ poller' = [poller EXCEPT ![r] = "polling"]
          /\ d.id \in Schedules
          /\ d.id \in MarkedIds
      BY <2>1, <2>8 DEF Enqueue, tableVars, TypeOK, Selected, MarkedIds
    <3>2. BatchIds' = BatchIds /\ MarkedIds' = {}
      BY <3>1 DEF BatchIds, MarkedIds
    <3>3. \A s \in Schedules : Polled(s)' \subseteq Polled(s) \cup {r}
      BY <2>1, <3>1 DEF Polled, RunsOf, TypeOK
    <3>4. \A s \in Schedules \ {d.id} : Polled(s)' = Polled(s)
      BY <2>1, <3>1 DEF Polled, RunsOf, TypeOK
    <3>5. LiveJobsArePolled'
      BY <2>1, <2>2, <3>1 DEF Ownership, LiveJobsArePolled, TypeOK
    <3>6. BatchIsPerSchedule'
      BY <2>2, <3>1 DEF Ownership, BatchIsPerSchedule
    <3>7. UnbornIsUnused'
      BY <2>2, <3>1, <3>2, <3>4 DEF Ownership, UnbornIsUnused
    <3>8. ASSUME NEW s \in Schedules \ Editable PROVE OneOwner(s)'
      <4>1. OneOwner(s)
        BY <2>2 DEF Ownership
      <4>2. CASE s = d.id
        <5>1. /\ Polled(s) = {} /\ s \notin BatchIds
              /\ row[s] = "stored" => running[s]
          BY <3>1, <4>1, <4>2 DEF OneOwner
        <5>2. \A q \in Polled(s)' : q = r
          BY <3>3, <5>1
        <5> QED BY <3>1, <3>2, <5>1, <5>2 DEF OneOwner
      <4>3. CASE s # d.id
        BY <3>1, <3>2, <3>4, <4>1, <4>3 DEF OneOwner
      <4> QED BY <4>2, <4>3
    <3> QED BY <3>5, <3>6, <3>7, <3>8 DEF Ownership
  <2>9. ASSUME NEW d \in marked, EnqueueConvert(d) PROVE Ownership'
    <3>1. /\ UNCHANGED <<row, batch, job, poller>>
          /\ marked' = {}
          /\ SetRunning(d.id, FALSE)
          /\ d.id \in Schedules
          /\ d.id \in MarkedIds
      BY <2>1, <2>9 DEF EnqueueConvert, runVars, TypeOK, Selected, MarkedIds
    <3>2. /\ BatchIds' = BatchIds /\ MarkedIds' = {}
          /\ \A s \in Schedules : Polled(s)' = Polled(s)
      BY <3>1 DEF BatchIds, MarkedIds, Polled
    <3>3. LiveJobsArePolled' /\ BatchIsPerSchedule' /\ UnbornIsUnused'
      BY <2>2, <3>1, <3>2
      DEF Ownership, LiveJobsArePolled, BatchIsPerSchedule, UnbornIsUnused
    <3>4. ASSUME NEW s \in Schedules \ Editable PROVE OneOwner(s)'
      <4>1. OneOwner(s)
        BY <2>2 DEF Ownership
      <4>2. CASE s = d.id
        <5>1. Polled(s) = {} /\ s \notin BatchIds
          BY <3>1, <4>1, <4>2 DEF OneOwner
        <5> QED BY <3>2, <5>1 DEF OneOwner
      <4>3. CASE s # d.id
        <5>1. running'[s] = running[s]
          BY <2>1, <3>1, <4>3, FlagOfOthers
        <5> QED BY <3>1, <3>2, <4>1, <5>1 DEF OneOwner
      <4> QED BY <4>2, <4>3
    <3> QED BY <3>3, <3>4 DEF Ownership
  <2>10. ASSUME NEW r \in Runs, EndJob(r) PROVE Ownership'
    <3>1. \A q \in Runs : job'[q] = "live" => job[q] = "live"
      BY <2>1, <2>10 DEF EndJob, TypeOK, JobEnds
    <3> QED BY <2>1, <2>2, <2>10, <3>1, OwnershipKept
            DEF EndJob, tableVars, tickVars
  <2>11. ASSUME NEW r \in Runs, CancelJob(r) PROVE Ownership'
    <3>1. \A q \in Runs : job'[q] = "live" => job[q] = "live"
      BY <2>1, <2>11 DEF CancelJob, TypeOK
    <3> QED BY <2>1, <2>2, <2>11, <3>1, OwnershipKept
            DEF CancelJob, tableVars, tickVars
  <2>12. ASSUME NEW r \in Runs, ClearRunning(r) PROVE Ownership'
    <3>1. /\ UNCHANGED <<row, batch, marked, job>>
          /\ poller[r] = "polling"
          /\ poller' = [poller EXCEPT ![r] = "cleared"]
          /\ job[r] # "live"
          /\ SetRunning(r[1], FALSE)
          /\ r[1] \in Schedules
          /\ r \in Polled(r[1])
      BY <2>1, <2>12
      DEF ClearRunning, SeenEnded, tickVars, Polled, RunsOf, Runs
    <3>2. /\ BatchIds' = BatchIds /\ MarkedIds' = MarkedIds
          /\ \A s \in Schedules : Polled(s)' = Polled(s) \ {r}
      BY <2>1, <3>1 DEF BatchIds, MarkedIds, Polled, RunsOf, TypeOK
    <3>3. LiveJobsArePolled'
      BY <2>1, <2>2, <3>1 DEF Ownership, LiveJobsArePolled, TypeOK
    <3>4. BatchIsPerSchedule' /\ UnbornIsUnused'
      BY <2>2, <3>1, <3>2 DEF Ownership, BatchIsPerSchedule, UnbornIsUnused
    <3>5. ASSUME NEW s \in Schedules \ Editable PROVE OneOwner(s)'
      <4>1. OneOwner(s)
        BY <2>2 DEF Ownership
      <4>2. CASE s = r[1]
        <5>1. s \notin BatchIds /\ s \notin MarkedIds /\ Polled(s)' = {}
          BY <3>1, <3>2, <4>1, <4>2 DEF OneOwner
        <5> QED BY <3>2, <5>1 DEF OneOwner
      <4>3. CASE s # r[1]
        <5>1. running'[s] = running[s]
          BY <2>1, <3>1, <4>3, FlagOfOthers
        <5>2. r \notin Polled(s)
          BY <4>3 DEF Polled, RunsOf
        <5> QED BY <3>1, <3>2, <4>1, <5>1, <5>2 DEF OneOwner
      <4> QED BY <4>2, <4>3
    <3> QED BY <3>3, <3>4, <3>5 DEF Ownership
  <2>13. ASSUME NEW r \in Runs, AdvanceNextRun(r) PROVE Ownership'
    <3>1. /\ UNCHANGED <<row, running, batch, marked, job>>
          /\ poller[r] = "cleared"
          /\ poller' = [poller EXCEPT ![r] = "over"]
      BY <2>13 DEF AdvanceNextRun, tickVars
    <3>2. /\ BatchIds' = BatchIds /\ MarkedIds' = MarkedIds
          /\ \A s \in Schedules : Polled(s)' = Polled(s)
      BY <2>1, <3>1 DEF BatchIds, MarkedIds, Polled, RunsOf, TypeOK
    <3>3. LiveJobsArePolled'
      BY <2>1, <2>2, <3>1 DEF Ownership, LiveJobsArePolled, TypeOK
    <3>4. BatchIsPerSchedule' /\ UnbornIsUnused'
      BY <2>2, <3>1, <3>2 DEF Ownership, BatchIsPerSchedule, UnbornIsUnused
    <3>5. ASSUME NEW s \in Schedules \ Editable PROVE OneOwner(s)'
      BY <2>2, <3>1, <3>2 DEF Ownership, OneOwner
    <3> QED BY <3>3, <3>4, <3>5 DEF Ownership
  <2>14. CASE ClockTick
    BY <2>2, <2>14, OwnershipKept DEF ClockTick, tableVars, tickVars, runVars
  <2>15. CASE Crash
    <3>1. batch' = {} /\ marked' = {} /\ UNCHANGED <<row, running>>
      BY <2>15 DEF Crash, tableVars
    <3>2. \A r \in Runs : job'[r] # "live" /\ poller'[r] # "polling"
      BY <2>1, <2>15 DEF Crash, TypeOK
    <3>3. \A s \in Schedules : s \notin BatchIds' /\ s \notin MarkedIds' /\ Polled(s)' = {}
      BY <3>1, <3>2 DEF BatchIds, MarkedIds, Polled, RunsOf
    <3> QED BY <3>1, <3>2, <3>3
            DEF Ownership, LiveJobsArePolled, BatchIsPerSchedule,
                UnbornIsUnused, OneOwner
  <2>16. CASE UNCHANGED vars
    BY <2>2, <2>16, OwnershipKept DEF vars, tableVars, tickVars, runVars
  <2> QED
    BY <1>1, <2>3, <2>4, <2>5, <2>6, <2>7, <2>8, <2>9, <2>10, <2>11, <2>12,
       <2>13, <2>14, <2>15, <2>16
    DEF Next, Handlers, Tick, RunStep, Poll
<1> QED BY <1>1, FlagInit, PTL DEF Spec

\* "no overlapping runs are allowed": however ticks, pollers, deletions, restarts
\* and failing statements interleave, two jobs of one schedule are never live
\* together, for every schedule that nobody edits.
THEOREM OverlapFree == Spec => []NoOverlappingRuns
<1>1. FlagInv => NoOverlappingRuns
  <2> SUFFICES ASSUME FlagInv, NEW s \in Schedules \ Editable,
                      NEW r \in LiveRuns(s), NEW q \in LiveRuns(s)
               PROVE  r = q
    BY DEF NoOverlappingRuns
  <2>1. r \in Polled(s) /\ q \in Polled(s)
    BY DEF FlagInv, LiveJobsArePolled, LiveRuns, Polled, RunsOf
  <2> QED BY <2>1 DEF FlagInv, OneOwner
<1> QED BY <1>1, FlagInvariance, PTL
================================================================================
