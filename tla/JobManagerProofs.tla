--------------------------- MODULE JobManagerProofs ---------------------------
(***************************************************************************)
(* Theorems about JobManager, for every set of jobs and projects, every    *)
(* quota, any store errors and any clean-ups.                              *)
(***************************************************************************)
EXTENDS JobManager, AdmissionProofs

\* A goroutine's update of its own job, with every other job left alone.
USE DEF Advance, Move, Decide, jobVars, sinkVars

-------------------------------------------------------------------------------
(* The manager uses admission as Admission says                             *)

LEMMA ManagerStepIsAdmissionStep ==
    [ManagerNext]_vars => [Next]_admitVars
<1> SUFFICES ASSUME [ManagerNext]_vars PROVE [Next]_admitVars
  OBVIOUS
<1>1. CASE UNCHANGED vars
  BY <1>1 DEF vars
<1>2. ASSUME NEW j \in Jobs, CallAcquire(j) \/ RunWakeNext(j) \/ ReleaseSlot(j)
      PROVE  [Next]_admitVars
  <2>1. Step(j)
    BY <1>2 DEF CallAcquire, RunWakeNext, ReleaseSlot, Step
  <2> QED BY <2>1 DEF Next
<1>3. ASSUME NEW j \in Jobs, CancelCall(j)
      PROVE  [Next]_admitVars
  BY <1>3 DEF CancelCall, Next
<1>4. ASSUME NEW j \in Jobs, Put(j) \/ SetCancel(j) \/ SaveQueued(j)
      PROVE  UNCHANGED admitVars
  BY <1>4 DEF Put, SetCancel, SaveQueued
<1>5. ASSUME NEW j \in Jobs, \/ AcquireFailed(j) \/ CheckContext(j) \/ UpdateStatus(j)
                             \/ SaveRunning(j) \/ Execute(j) \/ Report(j)
                             \/ SaveTerminal(j) \/ ClearCancel(j) \/ CancelLookup(j)
      PROVE  UNCHANGED admitVars
  BY <1>5 DEF AcquireFailed, CheckContext, UpdateStatus, SaveRunning, Execute, Report,
              SaveTerminal, ClearCancel, CancelLookup
<1>6. ASSUME NEW n \in 1..Len(born), Cleanup(n)
      PROVE  UNCHANGED admitVars
  BY <1>6 DEF Cleanup
<1> QED BY <1>1, <1>2, <1>3, <1>4, <1>5, <1>6 DEF ManagerNext, Goroutine

\* Every behaviour of the manager is a behaviour of admission control, so that
\* what is proved of Admission holds of the manager's slots.
THEOREM ManagerUsesAdmission == ManagerSpec => Spec
<1>1. ManagerInit => Init
  BY DEF ManagerInit
<1> QED BY <1>1, ManagerStepIsAdmissionStep, PTL DEF ManagerSpec, Spec

-------------------------------------------------------------------------------
(* Types                                                                    *)

LEMMA SaveTypes ==
    ASSUME ManagerTypeOK, NEW j \in Jobs, SaveAttached(j) \/ SaveDetached(j)
    PROVE  /\ created' \subseteq Jobs
           /\ history' \in [Jobs -> Statuses \cup {"absent"}]
           /\ storeErrors' \in 0..MaxStoreErrors
<1>1. PICK ok \in BOOLEAN : Save(j, ok)
  BY DEF SaveAttached, SaveDetached
<1>2. created' \subseteq Jobs /\ history' \in [Jobs -> Statuses \cup {"absent"}]
  BY <1>1 DEF Save, ManagerTypeOK
<1>3. storeErrors' = storeErrors \/ (storeErrors < MaxStoreErrors /\ storeErrors' = storeErrors + 1)
  BY DEF SaveAttached, SaveDetached
<1>4. storeErrors' \in 0..MaxStoreErrors
  BY <1>3, ManagerAssumption DEF ManagerTypeOK
<1> QED BY <1>2, <1>4

\* What each action of the manager does to the place and the status of its job.
LEMMA PlaceChange ==
    ASSUME ManagerTypeOK,
           NEW j \in Jobs, Goroutine(j) \/ Put(j) \/ SetCancel(j) \/ SaveQueued(j)
    PROVE  \/ UNCHANGED jobVars
           \/ \E b \in Places, s \in Statuses : Advance(j, at[j], b, s)
           \/ \E b \in Places, s \in Statuses : Decide(j, at[j], b, s)
           \/ \E b \in Places : Move(j, at[j], b)
<1> USE DEF Places, Statuses, Terminal
<1>1. ASSUME CallAcquire(j) \/ RunWakeNext(j) \/ ReleaseSlot(j)
      PROVE  UNCHANGED jobVars
  BY <1>1 DEF CallAcquire, RunWakeNext, ReleaseSlot, mgrVars
<1>2. ASSUME AcquireFailed(j) \/ UpdateStatus(j) \/ Report(j) \/ Put(j)
      PROVE  \E b \in Places, s \in Statuses : Advance(j, at[j], b, s)
  <2>1. verdict[j] \in Statuses
    BY DEF ManagerTypeOK
  <2> QED BY <1>2, <2>1 DEF AcquireFailed, UpdateStatus, Report, Put
<1>4. ASSUME CheckContext(j) \/ Execute(j)
      PROVE  \E b \in Places, s \in Statuses : Decide(j, at[j], b, s)
  BY <1>4 DEF CheckContext, Execute, Outcomes
<1>3. ASSUME \/ SetCancel(j) \/ SaveQueued(j) \/ SaveRunning(j)
             \/ SaveTerminal(j) \/ ClearCancel(j)
      PROVE  \E b \in Places : Move(j, at[j], b)
  BY <1>3 DEF SetCancel, SaveQueued, SaveRunning, SaveTerminal, ClearCancel
<1> QED BY <1>1, <1>2, <1>3, <1>4 DEF Goroutine

LEMMA ManagerTypeStep ==
    ManagerTypeOK /\ [ManagerNext]_vars => ManagerTypeOK'
<1> SUFFICES ASSUME ManagerTypeOK, [ManagerNext]_vars
             PROVE  ManagerTypeOK'
  OBVIOUS
<1>1. TypeOK'
  BY ManagerStepIsAdmissionStep, TypeStep DEF ManagerTypeOK
<1>2. CASE UNCHANGED vars
  BY <1>1, <1>2 DEF vars, mgrVars, ManagerTypeOK
<1>3. ASSUME NEW j \in Jobs, Goroutine(j) \/ Put(j) \/ SetCancel(j) \/ SaveQueued(j)
      PROVE  ManagerTypeOK'
  <2>1. /\ at' \in [Jobs -> Places] /\ status' \in [Jobs -> Statuses]
        /\ verdict' \in [Jobs -> Statuses] /\ known' \subseteq Jobs
    <3>1. "none" \in Statuses
      BY DEF Statuses
    <3> QED BY <1>3, <3>1, PlaceChange DEF ManagerTypeOK
  <2>2. /\ created' \subseteq Jobs
        /\ history' \in [Jobs -> Statuses \cup {"absent"}]
        /\ storeErrors' \in 0..MaxStoreErrors
    <3>1. CASE UNCHANGED sinkVars
      BY <3>1 DEF ManagerTypeOK
    <3>2. CASE SaveAttached(j) \/ SaveDetached(j)
      BY <3>2, SaveTypes
    <3> QED BY <1>3, <3>1, <3>2
            DEF Goroutine, CallAcquire, RunWakeNext, AcquireFailed, CheckContext,
                UpdateStatus, SaveRunning, Execute, Report, SaveTerminal, ReleaseSlot, ClearCancel,
                Put, SetCancel, SaveQueued, mgrVars
  <2>3. cancels' \subseteq Jobs /\ cancelling' \subseteq Jobs
    BY <1>3 DEF Goroutine, CallAcquire, RunWakeNext, AcquireFailed, CheckContext,
                UpdateStatus, SaveRunning, Execute, Report, SaveTerminal, ReleaseSlot, ClearCancel,
                Put, SetCancel, SaveQueued, mgrVars, ManagerTypeOK
  <2>4. born' \in Seq(Jobs)
    <3>1. born' = born \/ born' = Append(born, j)
      BY <1>3 DEF Goroutine, CallAcquire, RunWakeNext, AcquireFailed, CheckContext,
                  UpdateStatus, SaveRunning, Execute, Report, SaveTerminal, ReleaseSlot, ClearCancel,
                  Put, SetCancel, SaveQueued, mgrVars
    <3> QED BY <3>1, AppendProperties DEF ManagerTypeOK
  <2> QED BY <1>1, <2>1, <2>2, <2>3, <2>4 DEF ManagerTypeOK
<1>4. ASSUME NEW j \in Jobs, CancelLookup(j) \/ CancelCall(j)
      PROVE  ManagerTypeOK'
  BY <1>1, <1>4 DEF CancelLookup, CancelCall, ManagerTypeOK
<1>5. ASSUME NEW n \in 1..Len(born), Cleanup(n)
      PROVE  ManagerTypeOK'
  BY <1>1, <1>5 DEF Cleanup, ManagerTypeOK
<1> QED BY <1>2, <1>3, <1>4, <1>5 DEF ManagerNext

\* Every variable of the manager keeps its type.
THEOREM ManagerTypeCorrect == ManagerSpec => []ManagerTypeOK
<1>1. ManagerInit => ManagerTypeOK
  <2> SUFFICES ASSUME ManagerInit PROVE ManagerTypeOK
    OBVIOUS
  <2>1. TypeOK
    BY AdmissionAssumption DEF ManagerInit, Init, TypeOK, PCs
  <2>2. storeErrors \in 0..MaxStoreErrors
    BY ManagerAssumption DEF ManagerInit
  <2> QED BY <2>1, <2>2 DEF ManagerInit, ManagerTypeOK, Places, Statuses
<1> QED BY <1>1, ManagerTypeStep, PTL DEF ManagerSpec

-------------------------------------------------------------------------------
(* Where a job is tells its status and what it has of admission             *)

\* The places at which admission may move a job's goroutine.
LEMMA AdmissionMoves ==
    ASSUME ManagerTypeOK, PlaceInv,
           NEW j \in Jobs, CallAcquire(j) \/ RunWakeNext(j) \/ ReleaseSlot(j)
    PROVE  PlaceInv'
<1>1. /\ UNCHANGED jobVars /\ ctxDone' = ctxDone
      /\ \A k \in Jobs \ {j} : pc'[k] = pc[k]
  BY DEF CallAcquire, RunWakeNext, ReleaseSlot, mgrVars, ManagerTypeOK, TypeOK, Goto,
         Acquire, AcquireFree, AcquireQueue, Select, SelectGranted, SelectDone,
         CancelWaiter, CancelQueued, CancelGranted, DropSlotAndWake,
         Release, WakeNext, LoopExit, DropStale, SkipFull, Wake, ReturnFromWakeNext
<1>2. CASE CallAcquire(j)
  <2>1. at[j] = "spawned"
    BY <1>2 DEF CallAcquire
  <2>2. pc'[j] \in {"giveup", "yielding", "refused"} => j \in ctxDone
    BY <1>2 DEF CallAcquire, ManagerTypeOK, TypeOK, Goto, PlaceInv,
                Acquire, AcquireFree, AcquireQueue, Select, SelectGranted, SelectDone,
                CancelWaiter, CancelQueued, CancelGranted, DropSlotAndWake
  <2> QED BY <1>1, <2>1, <2>2 DEF PlaceInv
<1>3. CASE RunWakeNext(j)
  <2>1. pc[j] \in {"releasing", "yielding"}
    BY <1>3 DEF RunWakeNext, WakeNext, LoopExit, DropStale, SkipFull, Wake, InWakeNext
  <2>2. pc'[j] = pc[j] \/ pc'[j] = (IF pc[j] = "releasing" THEN "released" ELSE "refused")
    BY <1>3 DEF RunWakeNext, WakeNext, LoopExit, DropStale, SkipFull, Wake,
                ReturnFromWakeNext, Goto, ManagerTypeOK, TypeOK
  <2>3. at[j] \notin {"new", "put", "registered", "checked", "starting", "executing", "judged"}
    BY <2>1 DEF PlaceInv
  <2>4. pc[j] = "yielding" => j \in ctxDone
    BY DEF PlaceInv
  <2>5. pc'[j] \in {"giveup", "yielding", "refused"} => j \in ctxDone
    BY <2>1, <2>2, <2>4
  <2> QED BY <1>1, <2>3, <2>5 DEF PlaceInv
<1>4. CASE ReleaseSlot(j)
  <2>1. at[j] = "saved" /\ pc'[j] = "releasing"
    BY <1>4 DEF ReleaseSlot, Release, DropSlotAndWake, Goto, ManagerTypeOK, TypeOK
  <2> QED BY <1>1, <2>1 DEF PlaceInv
<1> QED BY <1>2, <1>3, <1>4

LEMMA PlaceStep == ManagerTypeOK /\ PlaceInv /\ [ManagerNext]_vars => PlaceInv'
<1> SUFFICES ASSUME ManagerTypeOK, PlaceInv, [ManagerNext]_vars
             PROVE  PlaceInv'
  OBVIOUS
<1>1. CASE UNCHANGED vars
  BY <1>1 DEF vars, admitVars, mgrVars, PlaceInv
<1>2. ASSUME NEW j \in Jobs, CallAcquire(j) \/ RunWakeNext(j) \/ ReleaseSlot(j)
      PROVE  PlaceInv'
  BY <1>2, AdmissionMoves
<1>3. ASSUME NEW j \in Jobs, Put(j) \/ SetCancel(j) \/ SaveQueued(j)
      PROVE  PlaceInv'
  BY <1>3 DEF Put, SetCancel, SaveQueued, admitVars, ManagerTypeOK, PlaceInv
<1>4. ASSUME NEW j \in Jobs, AcquireFailed(j) \/ CheckContext(j)
      PROVE  PlaceInv'
  BY <1>4 DEF AcquireFailed, CheckContext, admitVars, ManagerTypeOK, Terminal, PlaceInv
<1>8. ASSUME NEW j \in Jobs, UpdateStatus(j) \/ SaveRunning(j)
      PROVE  PlaceInv'
  BY <1>8 DEF UpdateStatus, SaveRunning, admitVars, ManagerTypeOK, Terminal, PlaceInv
<1>9. ASSUME NEW j \in Jobs, Execute(j) \/ Report(j)
      PROVE  PlaceInv'
  <2>1. \A s \in Outcomes(j) : s \in Terminal /\ (s = "cancelled" => j \in ctxDone)
    BY DEF Outcomes, Terminal
  <2> QED BY <1>9, <2>1 DEF Execute, Report, admitVars, ManagerTypeOK, Terminal, PlaceInv
<1>5. ASSUME NEW j \in Jobs, SaveTerminal(j) \/ ClearCancel(j)
      PROVE  PlaceInv'
  BY <1>5 DEF SaveTerminal, ClearCancel, admitVars, ManagerTypeOK, Terminal, PlaceInv
<1>6. ASSUME NEW j \in Jobs, CancelLookup(j) \/ CancelCall(j)
      PROVE  PlaceInv'
  BY <1>6 DEF CancelLookup, CancelCall, Cancel, admitVars, PlaceInv
<1>7. ASSUME NEW n \in 1..Len(born), Cleanup(n)
      PROVE  PlaceInv'
  BY <1>7 DEF Cleanup, admitVars, PlaceInv
<1> QED BY <1>1, <1>2, <1>3, <1>4, <1>5, <1>6, <1>7, <1>8, <1>9 DEF ManagerNext, Goroutine

\* The inductive invariant of the manager: types, places and the slots.
LEMMA ManagerInvariance == ManagerSpec => [](ManagerTypeOK /\ PlaceInv /\ SlotInv)
<1>1. ManagerInit => PlaceInv
  BY DEF ManagerInit, Init, PlaceInv
<1>2. ManagerTypeOK /\ PlaceInv /\ [ManagerNext]_vars => PlaceInv'
  BY PlaceStep
<1> QED BY <1>1, <1>2, ManagerTypeCorrect, ManagerUsesAdmission, SlotInvariance, PTL
        DEF ManagerSpec

\* The jobs with status "running" are among the owners of the project's slots.
LEMMA RunningAreHolders ==
    ASSUME ManagerTypeOK, PlaceInv, NEW p
    PROVE  RunningJobs(p) \subseteq {j \in Holders(p) : status[j] = "running"}
<1>1. \A j \in Jobs : status[j] = "running" => at[j] \in {"starting", "executing", "judged"}
  BY DEF PlaceInv, Places, Terminal, ManagerTypeOK
<1> QED BY <1>1 DEF PlaceInv, RunningJobs, Holders

\* The quota as clients see it: at most Limit jobs of a project are "running".
THEOREM RunningQuotaHolds == ManagerSpec => []RunningWithinQuota
<1>1. ManagerTypeOK /\ PlaceInv /\ SlotInv => RunningWithinQuota
  <2> SUFFICES ASSUME ManagerTypeOK, PlaceInv, SlotInv, NEW p \in Projects
               PROVE  Cardinality(RunningJobs(p)) <= Limit
    BY DEF RunningWithinQuota
  <2>1. RunningJobs(p) \in SUBSET Holders(p)
    BY RunningAreHolders
  <2>2. /\ Cardinality(RunningJobs(p)) <= Cardinality(Holders(p))
        /\ Cardinality(RunningJobs(p)) \in Nat
    BY <2>1, HoldersFinite, FS_Subset, FS_CardinalityType
  <2>3. Cardinality(Holders(p)) <= Limit
    BY DEF SlotInv, SlotAccounting, InUseBounded
  <2> QED BY <2>2, <2>3, HoldersFinite, AdmissionAssumption
<1> QED BY <1>1, ManagerInvariance, PTL

-------------------------------------------------------------------------------
(* The manager implements JobLifecycle                                      *)

LEMMA LifeRunningIsRunning ==
    ASSUME NEW p
    PROVE  Cardinality(RunningJobs(p)) = Life!Cardinality(Life!Running(p))
<1>1. Life!Running(p) = RunningJobs(p)
  BY DEF Life!Running, RunningJobs
<1>2. Life!Cardinality(RunningJobs(p)) = Cardinality(RunningJobs(p))
  BY DEF Life!Cardinality, Cardinality, Life!IsFiniteSet, IsFiniteSet
<1> QED BY <1>1, <1>2

\* A job that owns a slot and is not running yet leaves room for itself.
LEMMA RoomToStart ==
    ASSUME ManagerTypeOK, PlaceInv, SlotInv,
           NEW j \in Jobs, pc[j] = "holding", status[j] = "queued"
    PROVE  Life!Cardinality(Life!Running(ProjectOf[j])) < Limit
<1> DEFINE p == ProjectOf[j]
           H == Holders(p) \ {j}
<1>1. p \in Projects /\ j \in Holders(p)
  BY AdmissionAssumption DEF Holders
<1>2. IsFiniteSet(H) /\ Cardinality(H) = Cardinality(Holders(p)) - 1
  BY <1>1, HoldersFinite, FS_RemoveElement
<1>3. RunningJobs(p) \in SUBSET H
  BY RunningAreHolders
<1>4. Cardinality(RunningJobs(p)) <= Cardinality(H) /\ Cardinality(RunningJobs(p)) \in Nat
  BY <1>2, <1>3, FS_Subset, FS_CardinalityType
<1>5. Cardinality(Holders(p)) <= Limit /\ Cardinality(Holders(p)) \in Nat
  BY <1>1, HoldersFinite DEF SlotInv, SlotAccounting, InUseBounded
<1>6. Cardinality(RunningJobs(p)) < Limit
  BY <1>2, <1>4, <1>5, AdmissionAssumption
<1> QED BY <1>6, LifeRunningIsRunning

LEMMA LifeStep ==
    ASSUME ManagerTypeOK, PlaceInv, SlotInv, [ManagerNext]_vars
    PROVE  [Life!Next]_<<status, verdict, ctxDone>>
<1> USE DEF Life!Next, Life!Become
<1>1. CASE UNCHANGED vars
  BY <1>1 DEF vars, admitVars, mgrVars
<1>2. ASSUME NEW j \in Jobs, Put(j)
      PROVE  Life!Next
  <2>1. Life!Submit(j)
    BY <1>2 DEF Put, admitVars, PlaceInv, Life!Submit
  <2> QED BY <2>1
<1>3. ASSUME NEW j \in Jobs, CheckContext(j) \/ Execute(j)
      PROVE  Life!Next
  <2>1. CASE CheckContext(j)
    <3>1. status[j] = "queued" /\ verdict[j] = "none"
      BY <2>1 DEF CheckContext, PlaceInv
    <3>2. Life!Settle(j)
      BY <2>1, <3>1 DEF CheckContext, admitVars, Life!Settle, Life!Verdicts
    <3> QED BY <3>2
  <2>2. CASE Execute(j)
    <3>1. status[j] = "running" /\ verdict[j] = "none"
      BY <2>2 DEF Execute, PlaceInv
    <3>2. Life!Verdicts(j) = Outcomes(j)
      BY <3>1 DEF Life!Verdicts, Outcomes
    <3>3. Life!Settle(j)
      BY <2>2, <3>1, <3>2 DEF Execute, admitVars, Life!Settle
    <3> QED BY <3>3
  <2> QED BY <1>3, <2>1, <2>2
<1>4. ASSUME NEW j \in Jobs, AcquireFailed(j) \/ UpdateStatus(j)
      PROVE  Life!Next
  <2>1. CASE AcquireFailed(j)
    <3>1. Life!Withdraw(j)
      BY <2>1 DEF AcquireFailed, admitVars, PlaceInv, Life!Withdraw
    <3> QED BY <3>1
  <2>2. CASE UpdateStatus(j) /\ verdict[j] = "running"
    <3>1. status[j] = "queued" /\ pc[j] = "holding" /\ ctxDone' = ctxDone
      BY <2>2 DEF UpdateStatus, admitVars, PlaceInv
    <3>2. Life!Start(j)
      BY <2>2, <3>1, RoomToStart DEF UpdateStatus, Life!Start
    <3> QED BY <3>2
  <2>3. CASE UpdateStatus(j) /\ verdict[j] = "cancelled"
    <3>1. Life!Withdraw(j)
      BY <2>3 DEF UpdateStatus, admitVars, PlaceInv, Life!Withdraw
    <3> QED BY <3>1
  <2> QED BY <1>4, <2>1, <2>2, <2>3 DEF UpdateStatus, PlaceInv
<1>5. ASSUME NEW j \in Jobs, Report(j)
      PROVE  Life!Next
  <2>1. Life!Finish(j)
    BY <1>5 DEF Report, admitVars, PlaceInv, Terminal, Life!Finish
  <2> QED BY <2>1
<1>6. ASSUME NEW j \in Jobs, CancelCall(j)
      PROVE  Life!Next
  <2>1. Life!Cancel(j)
    BY <1>6 DEF CancelCall, Cancel, Life!Cancel
  <2> QED BY <2>1
<1>7. ASSUME NEW j \in Jobs, CallAcquire(j) \/ RunWakeNext(j) \/ ReleaseSlot(j)
      PROVE  UNCHANGED <<status, verdict, ctxDone>>
  BY <1>7 DEF CallAcquire, RunWakeNext, ReleaseSlot, mgrVars,
         Acquire, AcquireFree, AcquireQueue, Select, SelectGranted, SelectDone,
         CancelWaiter, CancelQueued, CancelGranted, DropSlotAndWake,
         Release, WakeNext, LoopExit, DropStale, SkipFull, Wake
<1>8. ASSUME NEW j \in Jobs, \/ SetCancel(j) \/ SaveQueued(j) \/ SaveRunning(j)
                             \/ SaveTerminal(j) \/ ClearCancel(j) \/ CancelLookup(j)
      PROVE  UNCHANGED <<status, verdict, ctxDone>>
  BY <1>8 DEF SetCancel, SaveQueued, SaveRunning, SaveTerminal, ClearCancel,
              CancelLookup, admitVars
<1>9. ASSUME NEW n \in 1..Len(born), Cleanup(n)
      PROVE  UNCHANGED <<status, verdict, ctxDone>>
  BY <1>9 DEF Cleanup, admitVars
<1> QED BY <1>1, <1>2, <1>3, <1>4, <1>5, <1>6, <1>7, <1>8, <1>9
        DEF ManagerNext, Goroutine

\* The statuses the manager publishes are those JobLifecycle promises.
THEOREM LifecycleImplemented == ManagerSpec => ImplementsLifecycle
<1>1. ManagerInit => Life!Init
  BY DEF ManagerInit, Init, Life!Init
<1>2. ManagerTypeOK /\ PlaceInv /\ SlotInv /\ [ManagerNext]_vars
      => [Life!Next]_(Life!lifeVars)
  BY LifeStep DEF Life!lifeVars
<1> QED BY <1>1, <1>2, ManagerInvariance, PTL
        DEF ManagerSpec, ImplementsLifecycle, Life!Spec

-------------------------------------------------------------------------------
(* The history                                                              *)

\* What is over for good has its last status in its row, if it has a row, from the
\* last save on.
SavedInv ==
    storeErrors = 0 =>
        \A j \in Jobs :
            at[j] \in {"saved", "finished"} /\ history[j] # "absent" => history[j] = status[j]

\* A save touches the row of its own job only; without store errors a detached one
\* writes the status, or finds no row.
LEMMA SaveEffect ==
    ASSUME ManagerTypeOK, NEW j \in Jobs, SaveAttached(j) \/ SaveDetached(j)
    PROVE  /\ \A k \in Jobs \ {j} : history'[k] = history[k]
           /\ storeErrors' = 0 => storeErrors = 0
           /\ storeErrors' = 0 /\ SaveDetached(j) => history'[j] \in {history[j], status[j]}
           /\ storeErrors' = 0 /\ SaveDetached(j) /\ history[j] # "absent" => history'[j] = status[j]
<1>1. PICK ok \in BOOLEAN : Save(j, ok)
  BY DEF SaveAttached, SaveDetached
<1>2. \A k \in Jobs \ {j} : history'[k] = history[k]
  BY <1>1 DEF Save, ManagerTypeOK
<1>3. storeErrors \in Nat /\ (storeErrors' = storeErrors \/ storeErrors' = storeErrors + 1)
  <2>1. storeErrors' = storeErrors \/ storeErrors' = storeErrors + 1
    BY Zenon DEF SaveAttached, SaveDetached
  <2> QED BY <2>1, ManagerAssumption DEF ManagerTypeOK
<1>4. storeErrors' = 0 /\ SaveDetached(j) => Save(j, TRUE)
  <2>1. storeErrors' = 0 => storeErrors' # storeErrors + 1
    BY <1>3
  <2> QED BY <2>1, Zenon DEF SaveDetached
<1>5. Save(j, TRUE) => /\ history'[j] \in {history[j], status[j]}
                       /\ history[j] # "absent" => history'[j] = status[j]
  BY DEF Save, ManagerTypeOK
<1>6. storeErrors' = 0 => storeErrors = 0
  BY <1>3
<1> QED BY <1>2, <1>4, <1>5, <1>6, Zenon

LEMMA SavedStep == ManagerTypeOK /\ PlaceInv /\ SavedInv /\ [ManagerNext]_vars => SavedInv'
<1> SUFFICES ASSUME ManagerTypeOK, PlaceInv, SavedInv, [ManagerNext]_vars
             PROVE  SavedInv'
  OBVIOUS
<1>1. CASE UNCHANGED vars
  BY <1>1 DEF vars, mgrVars, SavedInv
<1>2. ASSUME NEW j \in Jobs, CallAcquire(j) \/ RunWakeNext(j) \/ ReleaseSlot(j)
      PROVE  SavedInv'
  BY <1>2 DEF CallAcquire, RunWakeNext, ReleaseSlot, mgrVars, SavedInv
<1>3. ASSUME NEW j \in Jobs, \/ Put(j) \/ SetCancel(j) \/ AcquireFailed(j)
                             \/ CheckContext(j) \/ UpdateStatus(j)
                             \/ Execute(j) \/ Report(j) \/ ClearCancel(j)
      PROVE  SavedInv'
  <2>1. UNCHANGED <<history, storeErrors>>
    BY <1>3 DEF Put, SetCancel, AcquireFailed, CheckContext, UpdateStatus, Execute,
                Report, ClearCancel
  <2>2. \A k \in Jobs \ {j} : at'[k] = at[k] /\ status'[k] = status[k]
    BY <1>3 DEF Put, SetCancel, AcquireFailed, CheckContext, UpdateStatus, Execute,
                Report, ClearCancel, ManagerTypeOK
  <2>3. at'[j] \in {"saved", "finished"} => at[j] = "saved" /\ status'[j] = status[j]
    BY <1>3 DEF Put, SetCancel, AcquireFailed, CheckContext, UpdateStatus, Execute,
                Report, ClearCancel, ManagerTypeOK
  <2> QED BY <2>1, <2>2, <2>3 DEF SavedInv
<1>4. ASSUME NEW j \in Jobs, SaveQueued(j) \/ SaveRunning(j) \/ SaveTerminal(j)
      PROVE  SavedInv'
  <2>1. /\ status' = status
        /\ \A k \in Jobs \ {j} : at'[k] = at[k]
        /\ at'[j] = "spawned" \/ at'[j] = "executing" \/ (at'[j] = "saved" /\ SaveDetached(j))
        /\ SaveAttached(j) \/ SaveDetached(j)
    BY <1>4 DEF SaveQueued, SaveRunning, SaveTerminal, ManagerTypeOK
  <2>2. storeErrors' = 0 /\ SaveDetached(j) /\ history'[j] # "absent" => history'[j] = status[j]
    BY <2>1, SaveEffect
  <2> QED BY <2>1, <2>2, SaveEffect DEF SavedInv
<1>5. ASSUME NEW j \in Jobs, CancelLookup(j) \/ CancelCall(j)
      PROVE  SavedInv'
  BY <1>5 DEF CancelLookup, CancelCall, SavedInv
<1>6. ASSUME NEW n \in 1..Len(born), Cleanup(n)
      PROVE  SavedInv'
  BY <1>6 DEF Cleanup, SavedInv
<1> QED BY <1>1, <1>2, <1>3, <1>4, <1>5, <1>6 DEF ManagerNext, Goroutine

\* The row that the store has for a job whose goroutine is over holds the job's last
\* status, through any cancellation and clean-up, if the store has never failed.
THEOREM HistoryIsRight == ManagerSpec => []HistoryAgrees
<1>1. ManagerInit => SavedInv
  BY DEF ManagerInit, SavedInv
<1>2. SavedInv => HistoryAgrees
  BY DEF SavedInv, HistoryAgrees
<1> QED BY <1>1, <1>2, SavedStep, ManagerInvariance, PTL DEF ManagerSpec

-------------------------------------------------------------------------------
(* The cancel functions                                                     *)

LEMMA CancelStep ==
    ASSUME ManagerTypeOK, PlaceInv, [ManagerNext]_vars, NEW j \in cancels
    PROVE  j \in cancels' \/ status[j] \in Terminal \/ j \notin known'
<1>1. CASE UNCHANGED vars
  BY <1>1 DEF vars, mgrVars
<1>2. ASSUME NEW k \in Jobs, ClearCancel(k)
      PROVE  j \in cancels' \/ status[j] \in Terminal
  BY <1>2 DEF ClearCancel, PlaceInv, ManagerTypeOK
<1>3. ASSUME NEW n \in 1..Len(born), Cleanup(n)
      PROVE  j \in cancels' \/ j \notin known'
  BY <1>3 DEF Cleanup
<1>4. ASSUME NEW k \in Jobs, \/ Put(k) \/ SetCancel(k) \/ SaveQueued(k) \/ CancelLookup(k) \/ CancelCall(k)
                             \/ CallAcquire(k) \/ RunWakeNext(k) \/ AcquireFailed(k) \/ CheckContext(k)
                             \/ UpdateStatus(k) \/ SaveRunning(k) \/ Execute(k) \/ Report(k)
                             \/ SaveTerminal(k) \/ ReleaseSlot(k)
      PROVE  j \in cancels'
  BY <1>4 DEF Put, SetCancel, SaveQueued, CancelLookup, CancelCall, CallAcquire, RunWakeNext, AcquireFailed,
              CheckContext, UpdateStatus, SaveRunning, Execute, Report, SaveTerminal, ReleaseSlot, mgrVars
<1> QED BY <1>1, <1>2, <1>3, <1>4 DEF ManagerNext, Goroutine

\* No step takes the cancel function of a job that is not over out of the map, but a
\* clean-up, which takes the job too.
THEOREM CancelFunctionsKept == ManagerSpec => CancelKept
<1>1. ManagerTypeOK /\ PlaceInv /\ [ManagerNext]_vars
      => [\A j \in cancels : j \in cancels' \/ status[j] \in Terminal \/ j \notin known']_vars
  BY CancelStep
<1> QED BY <1>1, ManagerInvariance, PTL DEF ManagerSpec, CancelKept

-------------------------------------------------------------------------------
(* Queued jobs                                                              *)

\* "May hold the job in queued until a per-project slot is free" (Submit's comment):
\* with one project, a job is queued only while all its slots are taken, whatever else
\* the manager does.
THEOREM QueuedOnlyWhenFull ==
    ASSUME OneProject
    PROVE  ManagerSpec => []NoIdleSlotWhileQueued
BY ManagerUsesAdmission, NoIdleSlotInOneProject, PTL
===============================================================================
