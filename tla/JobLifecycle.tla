----------------------------- MODULE JobLifecycle -----------------------------
(***************************************************************************)
(* What a client of the jobs API may rely on: the status of each job, the  *)
(* cancellations it asked for, and the per-project quota of running jobs.  *)
(* JobManager.tla is the implementation (internal/job/job.go).             *)
(***************************************************************************)
EXTENDS Naturals, FiniteSets

CONSTANTS Jobs, ProjectOf, Limit,
          Writes          \* the ctas and load jobs; the others are queries

VARIABLES state,          \* the status of each job, "none" before Submit
          settled,        \* the status it will have next, once that is settled
          cancelled       \* the jobs a client has cancelled

lifeVars == <<state, settled, cancelled>>

Running(p) == {j \in Jobs : ProjectOf[j] = p /\ state[j] = "running"}

Become(j, s) ==
    /\ state' = [state EXCEPT ![j] = s]
    /\ settled' = [settled EXCEPT ![j] = "none"]
    /\ UNCHANGED cancelled

Init ==
    /\ state = [j \in Jobs |-> "none"]
    /\ settled = [j \in Jobs |-> "none"]
    /\ cancelled = {}

Submit(j) == state[j] = "none" /\ Become(j, "queued")

\* A queued job that is cancelled by now will not run.  A query that is cancelled
\* by now will end "cancelled" whatever it computed; a write that has started
\* reports what it did, cancelled or not.  A cancellation after this is too late.
Verdicts(j) ==
    {s \in {"running", "cancelled"} :
        state[j] = "queued" /\ (s = "cancelled" <=> j \in cancelled)}
    \cup
    {s \in {"done", "failed", "cancelled"} :
        state[j] = "running" /\ (s = "cancelled" <=> j \in cancelled \ Writes)}

Settle(j) ==
    /\ settled[j] = "none"
    /\ \E s \in Verdicts(j) : settled' = [settled EXCEPT ![j] = s]
    /\ UNCHANGED <<state, cancelled>>

\* A job starts when that is settled and its project has room.
Start(j) ==
    /\ state[j] = "queued"
    /\ settled[j] = "running"
    /\ Cardinality(Running(ProjectOf[j])) < Limit
    /\ Become(j, "running")

\* A queued job that is cancelled leaves without having done anything.
Withdraw(j) ==
    /\ state[j] = "queued"
    /\ settled[j] # "running"
    /\ j \in cancelled
    /\ Become(j, "cancelled")

Finish(j) ==
    /\ state[j] = "running"
    /\ settled[j] # "none"
    /\ Become(j, settled[j])

Cancel(j) ==
    /\ cancelled' = cancelled \cup {j}
    /\ UNCHANGED <<state, settled>>

Next ==
    \E j \in Jobs :
        \/ Submit(j) \/ Settle(j) \/ Start(j) \/ Withdraw(j) \/ Finish(j)
        \/ Cancel(j)

Spec == Init /\ [][Next]_lifeVars
===============================================================================
