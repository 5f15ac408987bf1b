------------------------------ MODULE JobManager ------------------------------
(***************************************************************************)
(* The job manager of internal/job/job.go with its history sink            *)
(* (sink.go): Submit, the goroutine it starts, Cancel and Cleanup.  The    *)
(* goroutine's calls of acquire and release are the actions of Admission.  *)
(***************************************************************************)
EXTENDS Admission

CONSTANTS Writes,            \* the ctas and load jobs; the others are queries
          MaxStoreErrors,    \* bound: failing calls of the history store
          CleanupRuns        \* TRUE if jobs may grow older than maxAge

ASSUME ManagerAssumption ==
    /\ Writes \subseteq Jobs
    /\ MaxStoreErrors \in Nat
    /\ CleanupRuns \in BOOLEAN

VARIABLES at,           \* where Submit, then the goroutine, of each job is
          status,       \* Job.Status, "none" before Submit
          verdict,      \* the next status the goroutine has settled on, or "none"
          known,        \* the keys of Manager.jobs
          cancels,      \* the keys of Manager.cancels
          cancelling,   \* Cancel calls between the map lookup and cancel()
          born,         \* the jobs in the order of their CreatedAt
          created,      \* MetastoreSink.created
          history,      \* the status in the store's jobs row, or "absent"
          storeErrors   \* failed store calls so far

mgrVars == <<at, status, verdict, known, cancels, cancelling, born, created, history,
             storeErrors>>
jobVars == <<at, status, verdict, known>>
sinkVars == <<created, history, storeErrors>>
vars == <<admitVars, mgrVars>>

Terminal == {"done", "failed", "cancelled"}
Statuses == {"none", "queued", "running"} \cup Terminal

Places == {"new",          \* Submit not called
           "put",          \* in Manager.jobs, no cancel function yet
           "registered",   \* cancel function set, first save not done
           "spawned",      \* goroutine started: in acquire or just out of it
           "checked",      \* has looked at the context, status not updated yet
           "starting",     \* status running, not saved
           "executing",    \* in Execute, RunCTAS or RunLoad
           "judged",       \* under Manager.mu: has looked at the context and the error
           "ending",       \* status terminal, not saved
           "saved",        \* terminal status saved, deferred calls to run
           "finished"}     \* goroutine over

ManagerInit ==
    /\ Init
    /\ at = [j \in Jobs |-> "new"]
    /\ status = [j \in Jobs |-> "none"]
    /\ verdict = [j \in Jobs |-> "none"]
    /\ known = {}
    /\ cancels = {}
    /\ cancelling = {}
    /\ born = <<>>
    /\ created = {}
    /\ history = [j \in Jobs |-> "absent"]
    /\ storeErrors = 0

\* Manager.mu is kept from the look at the context after an execution to the
\* status update; every other critical section under it is one action.
ManagerFree == \A j \in Jobs : at[j] # "judged"

\* The goroutine of j goes on from place a to place b with status s.  Every
\* status update also (re)inserts the job into Manager.jobs.
Advance(j, a, b, s) ==
    /\ at[j] = a
    /\ at' = [at EXCEPT ![j] = b]
    /\ status' = [status EXCEPT ![j] = s]
    /\ verdict' = [verdict EXCEPT ![j] = "none"]
    /\ known' = known \cup {j}

Move(j, a, b) ==
    /\ at[j] = a
    /\ at' = [at EXCEPT ![j] = b]
    /\ UNCHANGED <<status, verdict, known>>

\* It has settled on the next status s, which the job does not have yet.
Decide(j, a, b, s) ==
    /\ at[j] = a
    /\ at' = [at EXCEPT ![j] = b]
    /\ verdict' = [verdict EXCEPT ![j] = s]
    /\ UNCHANGED <<status, known>>

-------------------------------------------------------------------------------
(* The history sink: create the row on the first save, update it later.     *)

\* One call of MetastoreSink.Save.  The created mark is set before CreateJob is
\* known to succeed, UpdateJob finds no row to update if it did not, and the
\* manager drops the error.
Save(j, ok) ==
    /\ created' = created \cup {j}
    /\ history' = IF ok /\ (j \in created => history[j] # "absent")
                  THEN [history EXCEPT ![j] = status[j]]
                  ELSE history

\* A save with a context that cannot be cancelled fails only with the store.
SaveDetached(j) ==
    \/ /\ Save(j, TRUE)
       /\ UNCHANGED storeErrors
    \/ /\ storeErrors < MaxStoreErrors
       /\ Save(j, FALSE)
       /\ storeErrors' = storeErrors + 1

\* A save with the job's own context: a done context fails it.
SaveAttached(j) ==
    IF j \in ctxDone
    THEN Save(j, FALSE) /\ UNCHANGED storeErrors
    ELSE SaveDetached(j)

-------------------------------------------------------------------------------
(* Submit                                                                   *)

Put(j) ==
    /\ ManagerFree
    /\ Advance(j, "new", "put", "queued")
    /\ born' = Append(born, j)
    /\ UNCHANGED <<admitVars, sinkVars, cancels, cancelling>>

SetCancel(j) ==
    /\ ManagerFree
    /\ Move(j, "put", "registered")
    /\ cancels' = cancels \cup {j}
    /\ UNCHANGED <<admitVars, sinkVars, cancelling, born>>

SaveQueued(j) ==
    /\ Move(j, "registered", "spawned")
    /\ SaveAttached(j)
    /\ UNCHANGED <<admitVars, cancels, cancelling, born>>

-------------------------------------------------------------------------------
(* The goroutine                                                            *)

\* acquire, wakeNext and release change nothing of the manager's.
CallAcquire(j) ==
    /\ at[j] = "spawned"
    /\ Acquire(j) \/ Select(j) \/ CancelWaiter(j)
    /\ UNCHANGED mgrVars

RunWakeNext(j) == WakeNext(j) /\ UNCHANGED mgrVars

AcquireFailed(j) ==
    /\ ManagerFree
    /\ pc[j] = "refused"
    /\ Advance(j, "spawned", "ending", "cancelled")
    /\ UNCHANGED <<admitVars, sinkVars, cancels, cancelling, born>>

\* Fault: the context is not looked at again after acquire.
CheckContextNever(j) ==
    /\ pc[j] = "holding"
    /\ Decide(j, "spawned", "checked", "running")
    /\ UNCHANGED <<admitVars, sinkVars, cancels, cancelling, born>>

\* The context is looked at again after acquire, without a lock: the select may
\* have taken the slot although the job was cancelled.
CheckContext(j) ==
    /\ pc[j] = "holding"
    /\ Decide(j, "spawned", "checked", IF j \in ctxDone THEN "cancelled" ELSE "running")
    /\ UNCHANGED <<admitVars, sinkVars, cancels, cancelling, born>>

\* The status follows when the lock is free, whatever was cancelled meanwhile.
UpdateStatus(j) ==
    /\ ManagerFree
    /\ Advance(j, "checked", IF verdict[j] = "running" THEN "starting" ELSE "ending", verdict[j])
    /\ UNCHANGED <<admitVars, sinkVars, cancels, cancelling, born>>

SaveRunning(j) ==
    /\ Move(j, "starting", "executing")
    /\ SaveDetached(j)
    /\ UNCHANGED <<admitVars, cancels, cancelling, born>>

\* Fault: an error is reported under a status that isTerminal does not know.
OutcomesUnknown(j) == {"done", "error"}

\* The outcomes the switch after the execution allows.
Outcomes(j) == IF j \in ctxDone \ Writes THEN {"cancelled"} ELSE {"done", "failed"}

\* The execution ends, and the goroutine judges it under the lock, which does not
\* keep Cancel from calling the cancel function.
Execute(j) ==
    /\ ManagerFree
    /\ \E s \in Outcomes(j) : Decide(j, "executing", "judged", s)
    /\ UNCHANGED <<admitVars, sinkVars, cancels, cancelling, born>>

Report(j) ==
    /\ Advance(j, "judged", "ending", verdict[j])
    /\ UNCHANGED <<admitVars, sinkVars, cancels, cancelling, born>>

\* Fault: the last save uses the job's own context.
SaveTerminalAttached(j) ==
    /\ Move(j, "ending", "saved")
    /\ SaveAttached(j)
    /\ UNCHANGED <<admitVars, cancels, cancelling, born>>

SaveTerminal(j) ==
    /\ Move(j, "ending", "saved")
    /\ SaveDetached(j)
    /\ UNCHANGED <<admitVars, cancels, cancelling, born>>

\* Fault: the slot is given back before the execution.
ReleaseEarly(j) ==
    /\ at[j] \in {"starting", "saved"}
    /\ Release(j)
    /\ UNCHANGED mgrVars

\* The deferred calls run last in, first out: release, then clearCancel.
ReleaseSlot(j) ==
    /\ at[j] = "saved"
    /\ Release(j)
    /\ UNCHANGED mgrVars

\* Fault: the cancel function stays registered.
KeepCancel(j) ==
    /\ ManagerFree
    /\ pc[j] \in {"released", "refused"}
    /\ Move(j, "saved", "finished")
    /\ UNCHANGED <<admitVars, sinkVars, cancels, cancelling, born>>

ClearCancel(j) ==
    /\ ManagerFree
    /\ pc[j] \in {"released", "refused"}
    /\ Move(j, "saved", "finished")
    /\ cancels' = cancels \ {j}
    /\ UNCHANGED <<admitVars, sinkVars, cancelling, born>>

-------------------------------------------------------------------------------
(* The other callers                                                        *)

\* Fault: the first Cancel takes the cancel function out of the map.
CancelLookupDeletes(j) ==
    /\ ManagerFree
    /\ j \in (cancels \cap Cancellable) \ (cancelling \cup ctxDone)
    /\ cancelling' = cancelling \cup {j}
    /\ cancels' = cancels \ {j}
    /\ UNCHANGED <<admitVars, jobVars, sinkVars, born>>

\* Manager.Cancel finds the cancel function under the lock ...
CancelLookup(j) ==
    /\ ManagerFree
    /\ j \in (cancels \cap Cancellable) \ (cancelling \cup ctxDone)
    /\ cancelling' = cancelling \cup {j}
    /\ UNCHANGED <<admitVars, jobVars, sinkVars, cancels, born>>

\* ... and calls it after the unlock.
CancelCall(j) ==
    /\ j \in cancelling
    /\ cancelling' = cancelling \ {j}
    /\ Cancel(j)
    /\ UNCHANGED <<jobVars, sinkVars, cancels, born>>

\* The n oldest jobs are older than maxAge, whatever their status.  Submit takes
\* far less than maxAge, so that none of them is still in it.
Cleanup(n) ==
    LET old == {born[i] : i \in 1..n} IN
    /\ CleanupRuns
    /\ ManagerFree
    /\ \A j \in old : at[j] \notin {"put", "registered"}
    /\ known \cap old # {}
    /\ known' = known \ old
    /\ cancels' = cancels \ old
    /\ UNCHANGED <<admitVars, sinkVars, at, status, verdict, cancelling, born>>

Goroutine(j) ==
    \/ CallAcquire(j)
    \/ RunWakeNext(j)
    \/ AcquireFailed(j)
    \/ CheckContext(j)
    \/ UpdateStatus(j)
    \/ SaveRunning(j)
    \/ Execute(j)
    \/ Report(j)
    \/ SaveTerminal(j)
    \/ ReleaseSlot(j)
    \/ ClearCancel(j)

ManagerNext ==
    \/ \E j \in Jobs : \/ Put(j) \/ SetCancel(j) \/ SaveQueued(j)
                       \/ Goroutine(j)
                       \/ CancelLookup(j) \/ CancelCall(j)
    \/ \E n \in 1..Len(born) : Cleanup(n)

ManagerSpec == ManagerInit /\ [][ManagerNext]_vars

\* A submission that has begun goes on, goroutines are scheduled, and queries
\* and writes end.  Clients need not submit or cancel, nor does time pass.
ManagerFairSpec ==
    /\ ManagerSpec
    /\ \A j \in Jobs : WF_vars(SetCancel(j) \/ SaveQueued(j) \/ Goroutine(j))

-------------------------------------------------------------------------------
(* Properties                                                               *)

ManagerTypeOK ==
    /\ TypeOK
    /\ at \in [Jobs -> Places]
    /\ status \in [Jobs -> Statuses]
    /\ verdict \in [Jobs -> Statuses]
    /\ known \subseteq Jobs
    /\ cancels \subseteq Jobs
    /\ cancelling \subseteq Jobs
    /\ born \in Seq(Jobs)
    /\ created \subseteq Jobs
    /\ history \in [Jobs -> Statuses \cup {"absent"}]
    /\ storeErrors \in 0..MaxStoreErrors

\* The status of a job, what it has settled on and what it has of admission, at each
\* place of its goroutine; only a cancelled job gives up its place in the queue.
PlaceInv ==
    \A j \in Jobs :
        /\ at[j] = "new" => status[j] = "none"
        /\ at[j] \in {"new", "put", "registered"} => pc[j] = "idle"
        /\ at[j] \in {"put", "registered", "spawned", "checked"} => status[j] = "queued"
        /\ at[j] = "checked" => pc[j] = "holding" /\ verdict[j] \in {"running", "cancelled"}
        /\ at[j] \in {"starting", "executing", "judged"}
              => status[j] = "running" /\ pc[j] = "holding"
        /\ at[j] = "judged" => verdict[j] \in Terminal
        /\ at[j] \in {"ending", "saved", "finished"} => status[j] \in Terminal
        /\ at[j] \notin {"checked", "judged"} => verdict[j] = "none"
        /\ status[j] = "queued" /\ verdict[j] = "cancelled" => j \in ctxDone
        /\ pc[j] \in {"giveup", "yielding", "refused"} => j \in ctxDone

RunningJobs(p) == {j \in Jobs : ProjectOf[j] = p /\ status[j] = "running"}

\* The quota as clients see it: at most Limit jobs of a project have status
\* "running", through every cancellation, failure and clean-up.
RunningWithinQuota == \A p \in Projects : Cardinality(RunningJobs(p)) <= Limit

\* A status is a promise: the manager's job statuses, with their re-insertions by
\* updateStatus, the random select of acquire, the look at the context outside the
\* lock and the eviction by Cleanup, are a behaviour of JobLifecycle.  A job that was
\* cancelled when its goroutine last looked never runs, a query cancelled by then
\* never ends "done", a write that has run is never reported cancelled, a job that
\* starts finds room in its project, and a terminal status never changes.
Life == INSTANCE JobLifecycle
            WITH state <- status, settled <- verdict, cancelled <- ctxDone

ImplementsLifecycle == Life!Spec

\* Query history: when a job's goroutine is over and the store has a row for it,
\* the row holds the job's last status (Submit's comment on H6), although the
\* job may have been cancelled at any moment, unless the store has failed.
HistoryAgrees ==
    storeErrors = 0 =>
        \A j \in Jobs :
            at[j] = "finished" /\ history[j] # "absent" => history[j] = status[j]

\* The same without the row taken for granted, as the comment on H6 says it:
\* terminal status transitions are always persisted.
TerminalAlwaysPersisted ==
    \A j \in Jobs : at[j] = "finished" => history[j] = status[j]

\* A job that is not over keeps its cancel function: Cancel calls, however many and
\* however they race the goroutine, leave it in the map, and only the clean-up takes
\* it away from a live job, with the job itself.
CancelKept ==
    [][\A j \in cancels : j \in cancels' \/ status[j] \in Terminal \/ j \notin known']_vars

\* Every submitted job's goroutine ends with a terminal status, and leaves no
\* cancel function behind.
EveryJobEnds ==
    \A j \in Jobs :
        (at[j] = "put")
            ~> (at[j] = "finished" /\ status[j] \in Terminal /\ j \notin cancels)
===============================================================================
