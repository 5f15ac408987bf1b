------------------------------ MODULE Admission ------------------------------
(***************************************************************************)
(* Per-project admission control: type admission of internal/job/job.go,   *)
(* and the part of a job's goroutine that calls it.                        *)
(*                                                                         *)
(* A job is identified with the channel its acquire call makes.  Every     *)
(* critical section of admission.mu is one action, except the loop of      *)
(* wakeNext: the job that runs it keeps the mutex (pc "releasing" or       *)
(* "yielding") and takes one step per iteration, so that the loop's bound, *)
(* which is read again on every iteration, is modelled as it is.  A key    *)
(* missing from one of Go's maps is its zero value: 0 or <<>>.             *)
(***************************************************************************)
EXTENDS Naturals, Sequences, FiniteSets, Functions

CONSTANTS Jobs,          \* the jobs ever submitted
          Projects,      \* the projects they belong to
          ProjectOf,     \* the project of each job
          Limit,         \* admission.limit: running jobs per project
          Cancellable    \* the jobs a client may cancel

ASSUME AdmissionAssumption ==
    /\ IsFiniteSet(Jobs)
    /\ ProjectOf \in [Jobs -> Projects]
    /\ Limit \in Nat \ {0}
    /\ Cancellable \subseteq Jobs

VARIABLES inUse,     \* slots handed out, per project
          waiters,   \* the queue of channels, per project
          order,     \* projects that have waiters, in round-robin order
          closed,    \* the channels that were closed: their jobs own a slot
          ctxDone,   \* the jobs whose context was cancelled
          iter,      \* the loop variable of wakeNext
          pc         \* where each job's goroutine is

admitVars == <<inUse, waiters, order, closed, ctxDone, iter, pc>>

PCs == {"idle",        \* acquire not called yet
        "waiting",     \* in the select of acquire
        "giveup",      \* took the ctx.Done branch, about to call cancelWaiter
        "holding",     \* acquire returned true
        "releasing",   \* in wakeNext, called from release
        "yielding",    \* in wakeNext, called from cancelWaiter
        "released",    \* release returned
        "refused"}     \* acquire returned false

InWakeNext == {j \in Jobs : pc[j] \in {"releasing", "yielding"}}

\* Fault: the mutex is not taken.
NoMutex == TRUE

MutexFree == InWakeNext = {}

Init ==
    /\ inUse = [p \in Projects |-> 0]
    /\ waiters = [p \in Projects |-> <<>>]
    /\ order = <<>>
    /\ closed = {}
    /\ ctxDone = {}
    /\ iter = 0
    /\ pc = [j \in Jobs |-> "idle"]

Goto(j, l) == pc' = [pc EXCEPT ![j] = l]

TakeSlot(p) == inUse' = [inUse EXCEPT ![p] = @ + 1]

\* inUse[p]--, clamped at zero.
DropSlot(p) == inUse' = [inUse EXCEPT ![p] = IF @ > 0 THEN @ - 1 ELSE 0]

\* Fault: the limit is tested with <=.
HasSlotOffByOne(p) == inUse[p] <= Limit

HasSlot(p) == inUse[p] < Limit

-------------------------------------------------------------------------------
(* acquire                                                                  *)

AcquireFree(j) ==
    /\ pc[j] = "idle"
    /\ MutexFree
    /\ HasSlot(ProjectOf[j])
    /\ TakeSlot(ProjectOf[j])
    /\ Goto(j, "holding")
    /\ UNCHANGED <<waiters, order, closed, ctxDone, iter>>

\* Fault: the channel is put in front of the queue.
EnqueueInFront(q, j) == <<j>> \o q

Enqueue(q, j) == Append(q, j)

AcquireQueue(j) ==
    LET p == ProjectOf[j] IN
    /\ pc[j] = "idle"
    /\ MutexFree
    /\ ~HasSlot(p)
    /\ waiters' = [waiters EXCEPT ![p] = Enqueue(@, j)]
    /\ order' = IF Len(waiters'[p]) = 1 THEN Append(order, p) ELSE order
    /\ Goto(j, "waiting")
    /\ UNCHANGED <<inUse, closed, ctxDone, iter>>

\* The select of acquire.  When the channel is closed and the context is done
\* both branches are ready and Go picks one at random.
SelectGranted(j) ==
    /\ pc[j] = "waiting"
    /\ j \in closed
    /\ Goto(j, "holding")
    /\ UNCHANGED <<inUse, waiters, order, closed, ctxDone, iter>>

SelectDone(j) ==
    /\ pc[j] = "waiting"
    /\ j \in ctxDone
    /\ Goto(j, "giveup")
    /\ UNCHANGED <<inUse, waiters, order, closed, ctxDone, iter>>

-------------------------------------------------------------------------------
(* cancelWaiter, release, and the iterations of wakeNext                    *)

RemoveAt(q, i) == [k \in 1..(Len(q) - 1) |-> IF k < i THEN q[k] ELSE q[k + 1]]

StillQueued(j) == j \in Range(waiters[ProjectOf[j]])

CancelQueued(j) ==
    LET p == ProjectOf[j] IN
    /\ pc[j] = "giveup"
    /\ MutexFree
    /\ \E i \in 1..Len(waiters[p]) :
          /\ waiters[p][i] = j
          /\ waiters' = [waiters EXCEPT ![p] = RemoveAt(@, i)]
    /\ Goto(j, "refused")
    /\ UNCHANGED <<inUse, order, closed, ctxDone, iter>>

\* Fault: the slot is given back, and no waiter is woken for it.
DropSlotNoWake(j, l) ==
    /\ DropSlot(ProjectOf[j])
    /\ Goto(j, IF l = "releasing" THEN "released" ELSE "refused")
    /\ UNCHANGED iter

\* Give the slot back and enter wakeNext, still under the mutex.
DropSlotAndWake(j, l) ==
    /\ DropSlot(ProjectOf[j])
    /\ iter' = 0
    /\ Goto(j, l)

\* Fault: a slot granted to a cancelled job stays charged to the project.
CancelGrantedLeaks(j) ==
    /\ pc[j] = "giveup" /\ MutexFree /\ ~StillQueued(j)
    /\ Goto(j, "refused")
    /\ UNCHANGED <<inUse, waiters, order, closed, ctxDone, iter>>

\* The channel is not queued any more: wakeNext has dequeued it and has charged
\* the project a slot that this job will not use.
CancelGranted(j) ==
    /\ pc[j] = "giveup"
    /\ MutexFree
    /\ ~StillQueued(j)
    /\ DropSlotAndWake(j, "yielding")
    /\ UNCHANGED <<waiters, order, closed, ctxDone>>

Release(j) ==
    /\ pc[j] = "holding"
    /\ MutexFree
    /\ DropSlotAndWake(j, "releasing")
    /\ UNCHANGED <<waiters, order, closed, ctxDone>>

\* The deferred Unlock of wakeNext's caller frees the mutex.
ReturnFromWakeNext(j) ==
    /\ iter' = 0
    /\ Goto(j, IF pc[j] = "releasing" THEN "released" ELSE "refused")

LoopCondition == iter < Len(order)

LoopExit(j) ==
    /\ j \in InWakeNext
    /\ ~LoopCondition
    /\ ReturnFromWakeNext(j)
    /\ UNCHANGED <<inUse, waiters, order, closed, ctxDone>>

DropStale(j) ==
    /\ j \in InWakeNext
    /\ LoopCondition
    /\ waiters[Head(order)] = <<>>
    /\ order' = Tail(order)
    /\ iter' = iter + 1
    /\ UNCHANGED <<inUse, waiters, closed, ctxDone, pc>>

SkipFull(j) ==
    /\ j \in InWakeNext
    /\ LoopCondition
    /\ waiters[Head(order)] # <<>>
    /\ ~HasSlot(Head(order))
    /\ order' = Append(Tail(order), Head(order))
    /\ iter' = iter + 1
    /\ UNCHANGED <<inUse, waiters, closed, ctxDone, pc>>

\* The head of the order goes to its end when it has more waiters (rest).
KeepRest(rest) ==
    IF rest # <<>> THEN Append(Tail(order), Head(order)) ELSE Tail(order)

Wake(j) ==
    LET p == Head(order) IN
    /\ j \in InWakeNext
    /\ LoopCondition
    /\ waiters[p] # <<>>
    /\ HasSlot(p)
    /\ waiters' = [waiters EXCEPT ![p] = Tail(@)]
    /\ TakeSlot(p)
    /\ order' = KeepRest(Tail(waiters[p]))
    /\ closed' = closed \cup {Head(waiters[p])}
    /\ ReturnFromWakeNext(j)
    /\ UNCHANGED ctxDone

-------------------------------------------------------------------------------
\* The context's CancelFunc, called by Manager.Cancel on behalf of a client.
Cancel(j) ==
    /\ j \in Cancellable \ ctxDone
    /\ ctxDone' = ctxDone \cup {j}
    /\ UNCHANGED <<inUse, waiters, order, closed, iter, pc>>

Acquire(j) == AcquireFree(j) \/ AcquireQueue(j)

Select(j) == SelectGranted(j) \/ SelectDone(j)

CancelWaiter(j) == CancelQueued(j) \/ CancelGranted(j)

WakeNext(j) == LoopExit(j) \/ DropStale(j) \/ SkipFull(j) \/ Wake(j)

Step(j) ==
    Acquire(j) \/ Select(j) \/ CancelWaiter(j) \/ Release(j) \/ WakeNext(j)

Next == \E j \in Jobs : Step(j) \/ Cancel(j)

Spec == Init /\ [][Next]_admitVars

\* Goroutines are scheduled, a starved Go mutex is handed to its oldest waiter,
\* and a query ends: each job that can take a step eventually takes one.
FairSpec == Spec /\ \A j \in Jobs : WF_admitVars(Step(j))
-------------------------------------------------------------------------------
(* Properties                                                               *)

\* The jobs that own one of p's slots: the ones acquire returned true to, and
\* the ones whose channel was closed but whose goroutine has not seen it yet.
Holders(p) ==
    {j \in Jobs : /\ ProjectOf[j] = p
                  /\ \/ pc[j] = "holding"
                     \/ pc[j] \in {"waiting", "giveup"} /\ j \in closed}

Owners == {j \in Jobs : j \in Holders(ProjectOf[j])}

HeldBack == {j \in Jobs : pc[j] \in {"waiting", "giveup"} /\ j \notin closed}

Gone == {j \in Jobs : pc[j] \in {"releasing", "yielding", "released", "refused"}}

TypeOK ==
    /\ inUse \in [Projects -> Nat]
    /\ waiters \in [Projects -> Seq(Jobs)]
    /\ order \in Seq(Projects)
    /\ closed \subseteq Jobs
    /\ ctxDone \subseteq Jobs
    /\ iter \in Nat
    /\ pc \in [Jobs -> PCs]

\* The counter of a project is the number of jobs that own one of its slots,
\* whichever way a grant races a cancellation (the select of acquire and the
\* not-found branch of cancelWaiter): no slot leaks and none is given twice.
SlotAccounting == \A p \in Projects : inUse[p] = Cardinality(Holders(p))

\* Admission control's purpose: no project ever owns more than Limit slots.
QuotaRespected == \A p \in Projects : Cardinality(Holders(p)) <= Limit

\* The queues hold exactly the jobs that are held back, each once and in the
\* queue of its own project: a cancelled job cannot be granted a slot later,
\* and no waiting goroutine is forgotten by the queues.
QueueIntegrity ==
    \A p \in Projects :
        /\ IsInjective(waiters[p])
        /\ Range(waiters[p]) = {j \in HeldBack : ProjectOf[j] = p}

\* A channel that was closed is the channel of a job that has called acquire.
ClosedHaveArrived == \A j \in closed : pc[j] # "idle"

InUseBounded == \A p \in Projects : inUse[p] <= Limit

\* One goroutine at a time runs under admission.mu.
MutualExclusion == \A i, j \in InWakeNext : i = j

\* The inductive invariant behind SlotAccounting and QuotaRespected.
SlotInv ==
    /\ TypeOK
    /\ MutualExclusion
    /\ ClosedHaveArrived
    /\ QueueIntegrity
    /\ SlotAccounting
    /\ InUseBounded

\* "may hold the job in queued until a per-project slot is free" (Submit's
\* comment): when no goroutine is inside admission's mutex, a project with a
\* queued job has handed out all of its slots.
NoIdleSlotWhileQueued ==
    MutexFree => \A p \in Projects : waiters[p] # <<>> => inUse[p] = Limit

\* a waits for a slot, and b comes after it: behind it in its queue, or later.
Precedes(a, b) ==
    LET q == waiters[ProjectOf[a]] IN
    /\ a \in HeldBack
    /\ \/ pc[b] = "idle" /\ ProjectOf[b] = ProjectOf[a]
       \/ \E i, k \in 1..Len(q) : i < k /\ q[i] = a /\ q[k] = b

\* "FIFO queue" (admission's comment), as long as no job has been cancelled: a job
\* that comes after one that waits stays behind it for as long as that one waits,
\* whether it queues too or finds a slot free on its arrival.
FifoUntilCancel ==
    [][ctxDone = {} =>
          \A a, b \in Jobs :
              Precedes(a, b) => Precedes(a, b)' \/ a \notin HeldBack']_admitVars

\* Unless somebody cancels a job, a job that is held back is eventually admitted:
\* the wake-ups of release reach every waiter of every project.
ServedUnlessCancels ==
    \A j \in Jobs : (pc[j] = "waiting") ~> (pc[j] = "holding" \/ ctxDone # {})

\* Admission implements the slot pool: the mutex, the queues, the round-robin
\* order and the channels do nothing a plain counter of slots would not allow.
Pool == INSTANCE SlotPool
            WITH queued  <- HeldBack,
                 holding <- Owners,
                 gone    <- Gone

ImplementsSlotPool == Pool!Spec
===============================================================================
