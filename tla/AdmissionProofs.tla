---------------------------- MODULE AdmissionProofs ----------------------------
(***************************************************************************)
(* Theorems about Admission, for every set of jobs and projects, every     *)
(* limit and every choice of cancellable jobs.                             *)
(***************************************************************************)
EXTENDS Admission, FiniteSetTheorems, SequenceTheorems, TLAPS

\* What removing the i-th entry of a queue returns (cancelWaiter's append of
\* the two slices): a sequence one shorter that shifts the later entries.
LEMMA RemoveAtProperties ==
    ASSUME NEW S, NEW q \in Seq(S), NEW i \in 1..Len(q)
    PROVE  /\ RemoveAt(q, i) \in Seq(S)
           /\ Len(RemoveAt(q, i)) = Len(q) - 1
           /\ \A k \in 1..(Len(q) - 1) :
                 RemoveAt(q, i)[k] = IF k < i THEN q[k] ELSE q[k + 1]
<1> DEFINE n == Len(q) - 1
           e(k) == IF k < i THEN q[k] ELSE q[k + 1]
<1>1. n \in Nat
  BY LenProperties
<1>2. \A k \in 1..n : e(k) \in S
  BY LenProperties
<1>3. RemoveAt(q, i) = [k \in 1..n |-> e(k)]
  BY DEF RemoveAt
<1>4. [k \in 1..n |-> e(k)] \in Seq(S)
  <2> HIDE DEF e, n
  <2> QED BY <1>1, <1>2, IsASeq
<1>5. Len(RemoveAt(q, i)) = n
  <2>1. DOMAIN RemoveAt(q, i) = 1..n
    BY <1>3
  <2> QED BY <1>1, <1>3, <1>4, <2>1, LenProperties
<1> QED BY <1>1, <1>3, <1>4, <1>5

\* RemoveAt on a queue without repetitions takes exactly the i-th entry out.
LEMMA RemoveAtRange ==
    ASSUME NEW S, NEW q \in Seq(S), NEW i \in 1..Len(q), IsInjective(q)
    PROVE  /\ IsInjective(RemoveAt(q, i))
           /\ Range(RemoveAt(q, i)) = Range(q) \ {q[i]}
<1> DEFINE r == RemoveAt(q, i)
           n == Len(q) - 1
<1>1. /\ DOMAIN q = 1..(n + 1) /\ n \in Nat
      /\ DOMAIN r = 1..n
      /\ \A k \in 1..n : r[k] = IF k < i THEN q[k] ELSE q[k + 1]
  BY RemoveAtProperties, LenProperties
<1>2. \A a, b \in 1..(n + 1) : q[a] = q[b] => a = b
  BY <1>1 DEF IsInjective
<1> HIDE DEF r, n
<1>3. \A a, b \in 1..n : r[a] = r[b] => a = b
  BY <1>1, <1>2
<1>4. \A k \in 1..n : \E a \in 1..(n + 1) : a # i /\ r[k] = q[a]
  <2> TAKE k \in 1..n
  <2>1. CASE k < i
    BY <1>1, <2>1
  <2>2. CASE ~(k < i)
    <3>1. k + 1 \in 1..(n + 1) /\ k + 1 # i /\ r[k] = q[k + 1]
      BY <1>1, <2>2 DEF n
    <3> QED BY <3>1
  <2> QED BY <2>1, <2>2
<1>5. \A a \in 1..(n + 1) : a # i => \E k \in 1..n : r[k] = q[a]
  <2> SUFFICES ASSUME NEW a \in 1..(n + 1), a # i
               PROVE  \E k \in 1..n : r[k] = q[a]
    OBVIOUS
  <2>1. CASE a < i
    <3>1. a \in 1..n /\ r[a] = q[a]
      BY <1>1, <2>1 DEF n
    <3> QED BY <3>1
  <2>2. CASE ~(a < i)
    <3>1. a - 1 \in 1..n /\ r[a - 1] = q[a]
      BY <1>1, <2>2 DEF n
    <3> QED BY <3>1
  <2> QED BY <2>1, <2>2
<1>6. IsInjective(r)
  BY <1>1, <1>3 DEF IsInjective
<1>7. Range(r) = Range(q) \ {q[i]}
  <2>1. i \in 1..(n + 1)
    BY DEF n
  <2>2. Range(q) = {q[a] : a \in 1..(n + 1)} /\ Range(r) = {r[k] : k \in 1..n}
    BY <1>1 DEF Range
  <2> QED BY <1>2, <1>4, <1>5, <2>1, <2>2
<1> QED BY <1>6, <1>7 DEF r

\* The same for the head of a queue, which wakeNext takes.
LEMMA TailRange ==
    ASSUME NEW S, NEW q \in Seq(S), q # <<>>, IsInjective(q)
    PROVE  /\ IsInjective(Tail(q))
           /\ Range(Tail(q)) = Range(q) \ {Head(q)}
           /\ Head(q) \in Range(q)
<1>1. 1 \in 1..Len(q) /\ Head(q) = q[1]
  BY EmptySeq
<1>2. Tail(q) = RemoveAt(q, 1)
  <2>1. /\ RemoveAt(q, 1) \in Seq(S)
        /\ Len(RemoveAt(q, 1)) = Len(q) - 1
        /\ \A k \in 1..(Len(q) - 1) : RemoveAt(q, 1)[k] = q[k + 1]
    BY <1>1, RemoveAtProperties
  <2>2. /\ Tail(q) \in Seq(S)
        /\ Len(Tail(q)) = Len(q) - 1
        /\ \A k \in 1..Len(Tail(q)) : Tail(q)[k] = q[k + 1]
    BY HeadTailProperties
  <2> QED BY <2>1, <2>2, SeqEqual
<1>3. Head(q) \in Range(q)
  BY <1>1, RangeEquality
<1> QED BY <1>1, <1>2, <1>3, RemoveAtRange

\* Appending a new job to a queue adds it, and only it.
LEMMA AppendRange ==
    ASSUME NEW S, NEW q \in Seq(S), NEW e \in S, e \notin Range(q), IsInjective(q)
    PROVE  /\ IsInjective(Append(q, e))
           /\ Range(Append(q, e)) = Range(q) \cup {e}
<1> DEFINE r == Append(q, e)
           n == Len(q)
<1>1. /\ n \in Nat /\ DOMAIN q = 1..n /\ DOMAIN r = 1..(n + 1)
      /\ \A k \in 1..n : r[k] = q[k]
      /\ r[n + 1] = e
  BY AppendProperties, LenProperties
<1> HIDE DEF r, n
<1>2. Range(q) = {q[k] : k \in 1..n} /\ Range(r) = {r[k] : k \in 1..(n + 1)}
  BY <1>1 DEF Range
<1>3. \A k \in 1..(n + 1) : k \in 1..n \/ k = n + 1
  BY <1>1
<1>4. IsInjective(r)
  BY <1>1, <1>2, <1>3 DEF IsInjective
<1>5. Range(r) = Range(q) \cup {e}
  BY <1>1, <1>2, <1>3
<1> QED BY <1>4, <1>5 DEF r

\* Inside the loop of wakeNext the order is not empty: its head is a project,
\* and dropping it or moving it to the end yields an order again.
LEMMA LoopHead ==
    ASSUME TypeOK, LoopCondition
    PROVE  /\ Head(order) \in Projects
           /\ Tail(order) \in Seq(Projects)
           /\ Append(Tail(order), Head(order)) \in Seq(Projects)
<1>1. order \in Seq(Projects) /\ order # <<>>
  BY EmptySeq DEF TypeOK, LoopCondition
<1>2. Head(order) \in Projects /\ Tail(order) \in Seq(Projects)
  BY <1>1, HeadTailProperties
<1> QED BY <1>2, AppendProperties

\* What one waking iteration of wakeNext does: project p has a free slot, and
\* its oldest waiter h gets it.
WakeOf(j, p, h) ==
    /\ waiters[p] # <<>>
    /\ h = Head(waiters[p])
    /\ inUse[p] < Limit
    /\ Tail(waiters[p]) \in Seq(Jobs)
    /\ waiters' = [waiters EXCEPT ![p] = Tail(waiters[p])]
    /\ inUse' = [inUse EXCEPT ![p] = inUse[p] + 1]
    /\ order' \in Seq(Projects)
    /\ closed' = closed \cup {h}
    /\ ctxDone' = ctxDone
    /\ iter' = 0
    /\ pc[j] \in {"releasing", "yielding"}
    /\ pc' = [pc EXCEPT ![j] = IF pc[j] = "releasing" THEN "released"
                                                      ELSE "refused"]

LEMMA WakeEffect ==
    ASSUME TypeOK, NEW j \in Jobs, Wake(j)
    PROVE  \E p \in Projects, h \in Jobs : WakeOf(j, p, h)
<1> DEFINE p == Head(order)
<1>1. LoopCondition /\ p \in Projects
  BY LoopHead DEF Wake
<1>2. /\ waiters[p] # <<>>
      /\ inUse[p] < Limit
      /\ waiters' = [waiters EXCEPT ![p] = Tail(waiters[p])]
      /\ inUse' = [inUse EXCEPT ![p] = inUse[p] + 1]
      /\ closed' = closed \cup {Head(waiters[p])}
      /\ ctxDone' = ctxDone
      /\ pc[j] \in {"releasing", "yielding"}
      /\ iter' = 0
      /\ pc' = [pc EXCEPT ![j] = IF pc[j] = "releasing"
                                  THEN "released" ELSE "refused"]
  BY DEF Wake, HasSlot, TakeSlot, InWakeNext, ReturnFromWakeNext, Goto
<1>3. order' \in Seq(Projects)
  BY <1>1, LoopHead DEF Wake, KeepRest
<1> HIDE DEF p
<1>4. Head(waiters[p]) \in Jobs /\ Tail(waiters[p]) \in Seq(Jobs)
  BY <1>1, <1>2, HeadTailProperties DEF TypeOK
<1> QED BY <1>1, <1>2, <1>3, <1>4 DEF WakeOf

-------------------------------------------------------------------------------
\* Every step keeps the types.
LEMMA TypeStep == TypeOK /\ [Next]_admitVars => TypeOK'
<1> SUFFICES ASSUME TypeOK, [Next]_admitVars
             PROVE  TypeOK'
  OBVIOUS
<1> USE AdmissionAssumption
<1>1. CASE UNCHANGED admitVars
  BY <1>1 DEF TypeOK, admitVars
<1>2. ASSUME NEW j \in Jobs, AcquireFree(j)
      PROVE  TypeOK'
  BY <1>2 DEF AcquireFree, TakeSlot, Goto, TypeOK, PCs
<1>3. ASSUME NEW j \in Jobs, AcquireQueue(j)
      PROVE  TypeOK'
  BY <1>3 DEF AcquireQueue, Enqueue, Goto, TypeOK, PCs
<1>4. ASSUME NEW j \in Jobs, Select(j)
      PROVE  TypeOK'
  BY <1>4 DEF Select, SelectGranted, SelectDone, Goto, TypeOK, PCs
<1>5. ASSUME NEW j \in Jobs, CancelQueued(j)
      PROVE  TypeOK'
  <2>1. PICK i \in 1..Len(waiters[ProjectOf[j]]) :
           waiters' = [waiters EXCEPT ![ProjectOf[j]] = RemoveAt(@, i)]
    BY <1>5 DEF CancelQueued
  <2>2. RemoveAt(waiters[ProjectOf[j]], i) \in Seq(Jobs)
    BY RemoveAtProperties DEF TypeOK
  <2> QED BY <1>5, <2>1, <2>2 DEF CancelQueued, Goto, TypeOK, PCs
<1>6. ASSUME NEW j \in Jobs, CancelGranted(j)
      PROVE  TypeOK'
  BY <1>6 DEF CancelGranted, DropSlotAndWake, DropSlot, Goto, TypeOK, PCs
<1>7. ASSUME NEW j \in Jobs, Release(j)
      PROVE  TypeOK'
  BY <1>7 DEF Release, DropSlotAndWake, DropSlot, Goto, TypeOK, PCs
<1>8. ASSUME NEW j \in Jobs, LoopExit(j)
      PROVE  TypeOK'
  BY <1>8 DEF LoopExit, ReturnFromWakeNext, Goto, TypeOK, PCs
<1>9. ASSUME NEW j \in Jobs, DropStale(j) \/ SkipFull(j)
      PROVE  TypeOK'
  <2>1. LoopCondition
    BY <1>9 DEF DropStale, SkipFull
  <2>2. order' \in Seq(Projects)
    BY <1>9, <2>1, LoopHead DEF DropStale, SkipFull
  <2>3. iter' \in Nat /\ UNCHANGED <<inUse, waiters, closed, ctxDone, pc>>
    BY <1>9 DEF DropStale, SkipFull, TypeOK
  <2> QED BY <2>2, <2>3 DEF TypeOK
<1>10. ASSUME NEW j \in Jobs, Wake(j)
       PROVE  TypeOK'
  <2>1. PICK p \in Projects, h \in Jobs : WakeOf(j, p, h)
    BY <1>10, WakeEffect
  <2>2. inUse' \in [Projects -> Nat]
    BY <2>1 DEF WakeOf, TypeOK
  <2>3. waiters' \in [Projects -> Seq(Jobs)]
    BY <2>1 DEF WakeOf, TypeOK
  <2>4. pc' \in [Jobs -> PCs]
    BY <2>1 DEF WakeOf, TypeOK, PCs
  <2> QED BY <2>1, <2>2, <2>3, <2>4 DEF WakeOf, TypeOK
<1>11. ASSUME NEW j \in Jobs, Cancel(j)
       PROVE  TypeOK'
  BY <1>11 DEF Cancel, TypeOK
<1> QED
  BY <1>1, <1>2, <1>3, <1>4, <1>5, <1>6, <1>7, <1>8, <1>9, <1>10, <1>11
     DEF Next, Step, Acquire, CancelWaiter, WakeNext
\* Every variable keeps its type.
THEOREM TypeCorrect == Spec => []TypeOK
<1>1. Init => TypeOK
  BY AdmissionAssumption DEF Init, TypeOK, PCs
<1> QED BY <1>1, TypeStep, PTL DEF Spec

-------------------------------------------------------------------------------
(* The counters and the jobs that own slots                                 *)

LEMMA HoldersFinite ==
    ASSUME NEW p
    PROVE  IsFiniteSet(Holders(p)) /\ Cardinality(Holders(p)) \in Nat
<1>1. Holders(p) \in SUBSET Jobs
  BY DEF Holders
<1> QED BY <1>1, AdmissionAssumption, FS_Subset, FS_CardinalityType

\* A step that adds one job to the holders of p and one to its counter.
LEMMA SlotTaken ==
    ASSUME SlotInv, NEW p \in Projects, NEW h,
           h \notin Holders(p), inUse[p] < Limit,
           inUse' = [inUse EXCEPT ![p] = inUse[p] + 1],
           \A q \in Projects :
              Holders(q)' = IF q = p THEN Holders(q) \cup {h} ELSE Holders(q)
    PROVE  SlotAccounting' /\ InUseBounded'
<1>1. Cardinality(Holders(p) \cup {h}) = Cardinality(Holders(p)) + 1
  BY HoldersFinite, FS_AddElement
<1>2. inUse'[p] = inUse[p] + 1 /\ \A q \in Projects \ {p} : inUse'[q] = inUse[q]
  BY DEF SlotInv, TypeOK
<1>3. SlotAccounting'
  BY <1>1, <1>2 DEF SlotInv, SlotAccounting
<1>4. inUse[p] + 1 <= Limit
  BY AdmissionAssumption DEF SlotInv, TypeOK
<1> QED BY <1>2, <1>3, <1>4 DEF SlotInv, InUseBounded

\* A step that takes one job from the holders of p and one off its counter: the
\* clamp at zero never applies.
LEMMA SlotGivenBack ==
    ASSUME SlotInv, NEW p \in Projects, NEW h \in Holders(p), DropSlot(p),
           \A q \in Projects :
              Holders(q)' = IF q = p THEN Holders(q) \ {h} ELSE Holders(q)
    PROVE  SlotAccounting' /\ InUseBounded'
<1>1. Cardinality(Holders(p) \ {h}) = Cardinality(Holders(p)) - 1
  BY HoldersFinite, FS_RemoveElement
<1>2. Cardinality(Holders(p)) \in Nat /\ Cardinality(Holders(p)) # 0
  BY HoldersFinite, FS_EmptySet
<1>3. inUse[p] > 0
  BY <1>2 DEF SlotInv, SlotAccounting
<1>4. inUse'[p] = inUse[p] - 1 /\ \A q \in Projects \ {p} : inUse'[q] = inUse[q]
  BY <1>3 DEF DropSlot, SlotInv, TypeOK
<1>5. SlotAccounting'
  BY <1>1, <1>4 DEF SlotInv, SlotAccounting
<1>6. inUse[p] - 1 <= Limit
  BY AdmissionAssumption DEF SlotInv, InUseBounded, TypeOK
<1> QED BY <1>4, <1>5, <1>6 DEF SlotInv, InUseBounded

\* A step that leaves the counters and the holders alone.
LEMMA SlotsUnchanged ==
    ASSUME SlotInv, inUse' = inUse,
           \A q \in Projects : Holders(q)' = Holders(q)
    PROVE  SlotAccounting' /\ InUseBounded'
BY DEF SlotInv, SlotAccounting, InUseBounded

\* A step that leaves the queues and the held-back jobs alone.
LEMMA QueuesUnchanged ==
    ASSUME SlotInv, waiters' = waiters, HeldBack' = HeldBack
    PROVE  QueueIntegrity'
BY DEF SlotInv, QueueIntegrity

-------------------------------------------------------------------------------
(* Every step preserves the inductive invariant                             *)

\* wakeNext hands its slot to a job that was held back until now.
LEMMA WakeStep ==
    ASSUME SlotInv, TypeOK', NEW j \in Jobs, Wake(j)
    PROVE  SlotInv'
<1>1. PICK p \in Projects, h \in Jobs : WakeOf(j, p, h)
  BY WakeEffect DEF SlotInv
<1>2. /\ IsInjective(Tail(waiters[p]))
      /\ Range(Tail(waiters[p])) = Range(waiters[p]) \ {h}
      /\ h \in Range(waiters[p])
  BY <1>1, TailRange DEF WakeOf, SlotInv, TypeOK, QueueIntegrity
<1>3. h \in HeldBack /\ ProjectOf[h] = p
  BY <1>2 DEF SlotInv, QueueIntegrity
<1>4. HeldBack' = HeldBack \ {h}
  BY <1>1, <1>3 DEF WakeOf, HeldBack, SlotInv, TypeOK
<1>5. QueueIntegrity'
  <2> SUFFICES ASSUME NEW q \in Projects
               PROVE  /\ IsInjective(waiters'[q])
                      /\ Range(waiters'[q]) = {k \in HeldBack' : ProjectOf[k] = q}
    BY DEF QueueIntegrity
  <2>1. CASE q = p
    BY <1>1, <1>2, <1>3, <1>4, <2>1 DEF WakeOf, SlotInv, QueueIntegrity, TypeOK
  <2>2. CASE q # p
    BY <1>1, <1>3, <1>4, <2>2 DEF WakeOf, SlotInv, QueueIntegrity, TypeOK
  <2> QED BY <2>1, <2>2
<1>6. SlotAccounting' /\ InUseBounded'
  <2>1. h \notin Holders(p)
    BY <1>3 DEF HeldBack, Holders
  <2>2. \A q \in Projects :
           Holders(q)' = IF q = p THEN Holders(q) \cup {h} ELSE Holders(q)
    BY <1>1, <1>3 DEF WakeOf, HeldBack, Holders, SlotInv, TypeOK
  <2> QED BY <1>1, <2>1, <2>2, SlotTaken DEF WakeOf
<1>7. MutualExclusion'
  BY <1>1 DEF WakeOf, SlotInv, MutualExclusion, InWakeNext, TypeOK
<1>8. ClosedHaveArrived'
  BY <1>1, <1>3 DEF WakeOf, SlotInv, ClosedHaveArrived, HeldBack, TypeOK
<1> QED BY <1>5, <1>6, <1>7, <1>8 DEF SlotInv

\* acquire on the fast path.
LEMMA AcquireFreeStep ==
    ASSUME SlotInv, TypeOK', NEW j \in Jobs, AcquireFree(j)
    PROVE  SlotInv'
<1> DEFINE p == ProjectOf[j]
<1>1. /\ pc[j] = "idle" /\ p \in Projects /\ inUse[p] < Limit
      /\ inUse' = [inUse EXCEPT ![p] = inUse[p] + 1]
      /\ pc' = [pc EXCEPT ![j] = "holding"]
      /\ UNCHANGED <<waiters, closed>>
  BY AdmissionAssumption DEF AcquireFree, HasSlot, TakeSlot, Goto
<1> HIDE DEF p
<1>2. HeldBack' = HeldBack
  BY <1>1 DEF HeldBack, SlotInv, TypeOK
<1>3. SlotAccounting' /\ InUseBounded'
  <2>1. j \notin Holders(p)
    BY <1>1 DEF Holders
  <2>2. \A q \in Projects :
           Holders(q)' = IF q = p THEN Holders(q) \cup {j} ELSE Holders(q)
    BY <1>1 DEF p, Holders, SlotInv, TypeOK, ClosedHaveArrived
  <2> QED BY <1>1, <2>1, <2>2, SlotTaken
<1>4. MutualExclusion' /\ ClosedHaveArrived'
  BY <1>1 DEF SlotInv, MutualExclusion, InWakeNext, ClosedHaveArrived, TypeOK
<1> QED BY <1>1, <1>2, <1>3, <1>4, QueuesUnchanged DEF SlotInv

\* acquire when the project's slots are taken: the job joins its queue.
LEMMA AcquireQueueStep ==
    ASSUME SlotInv, TypeOK', NEW j \in Jobs, AcquireQueue(j)
    PROVE  SlotInv'
<1> DEFINE p == ProjectOf[j]
<1>1. /\ pc[j] = "idle" /\ p \in Projects
      /\ waiters' = [waiters EXCEPT ![p] = Append(waiters[p], j)]
      /\ pc' = [pc EXCEPT ![j] = "waiting"]
      /\ UNCHANGED <<inUse, closed>>
  BY AdmissionAssumption DEF AcquireQueue, Enqueue, Goto
<1>2. j \notin closed /\ j \notin HeldBack /\ HeldBack' = HeldBack \cup {j}
  BY <1>1 DEF SlotInv, ClosedHaveArrived, HeldBack, TypeOK
<1>3. /\ IsInjective(Append(waiters[p], j))
      /\ Range(Append(waiters[p], j)) = Range(waiters[p]) \cup {j}
  <2>1. j \notin Range(waiters[p])
    BY <1>1, <1>2 DEF SlotInv, QueueIntegrity
  <2> QED BY <1>1, <2>1, AppendRange DEF SlotInv, QueueIntegrity, TypeOK
<1>4. QueueIntegrity'
  <2> SUFFICES ASSUME NEW q \in Projects
               PROVE  /\ IsInjective(waiters'[q])
                      /\ Range(waiters'[q]) = {k \in HeldBack' : ProjectOf[k] = q}
    BY DEF QueueIntegrity
  <2> p = ProjectOf[j]
    OBVIOUS
  <2> HIDE DEF p
  <2>1. CASE q = p
    BY <1>1, <1>2, <1>3, <2>1 DEF SlotInv, QueueIntegrity, TypeOK
  <2>2. CASE q # p
    BY <1>1, <1>2, <2>2 DEF SlotInv, QueueIntegrity, TypeOK
  <2> QED BY <2>1, <2>2
<1>5. \A q \in Projects : Holders(q)' = Holders(q)
  BY <1>1, <1>2 DEF Holders, SlotInv, TypeOK
<1>6. MutualExclusion' /\ ClosedHaveArrived'
  BY <1>1 DEF SlotInv, MutualExclusion, InWakeNext, ClosedHaveArrived, TypeOK
<1> QED BY <1>1, <1>4, <1>5, <1>6, SlotsUnchanged DEF SlotInv

\* Either branch of acquire's select.
LEMMA SelectStep ==
    ASSUME SlotInv, TypeOK', NEW j \in Jobs, Select(j)
    PROVE  SlotInv'
<1>1. /\ pc[j] = "waiting"
      /\ \/ pc' = [pc EXCEPT ![j] = "holding"] /\ j \in closed
         \/ pc' = [pc EXCEPT ![j] = "giveup"]
      /\ UNCHANGED <<inUse, waiters, closed>>
  BY DEF Select, SelectGranted, SelectDone, Goto
<1>2. HeldBack' = HeldBack
  BY <1>1 DEF HeldBack, SlotInv, TypeOK
<1>3. \A q \in Projects : Holders(q)' = Holders(q)
  BY <1>1 DEF Holders, SlotInv, TypeOK
<1>4. MutualExclusion' /\ ClosedHaveArrived'
  BY <1>1 DEF SlotInv, MutualExclusion, InWakeNext, ClosedHaveArrived, TypeOK
<1> QED BY <1>1, <1>2, <1>3, <1>4, QueuesUnchanged, SlotsUnchanged DEF SlotInv

\* cancelWaiter of a job that is still queued.
LEMMA CancelQueuedStep ==
    ASSUME SlotInv, TypeOK', NEW j \in Jobs, CancelQueued(j)
    PROVE  SlotInv'
<1> DEFINE p == ProjectOf[j]
<1>1. p \in Projects
  BY AdmissionAssumption
<1>2. PICK i \in 1..Len(waiters[p]) :
         /\ waiters[p][i] = j
         /\ waiters' = [waiters EXCEPT ![p] = RemoveAt(waiters[p], i)]
  BY DEF CancelQueued
<1>3. /\ pc[j] = "giveup"
      /\ pc' = [pc EXCEPT ![j] = "refused"]
      /\ UNCHANGED <<inUse, closed>>
  BY DEF CancelQueued, Goto
<1>4. /\ IsInjective(RemoveAt(waiters[p], i))
      /\ Range(RemoveAt(waiters[p], i)) = Range(waiters[p]) \ {j}
      /\ j \in Range(waiters[p])
  BY <1>1, <1>2, RemoveAtRange, RangeEquality DEF SlotInv, QueueIntegrity, TypeOK
<1>5. j \notin closed /\ HeldBack' = HeldBack \ {j}
  BY <1>1, <1>3, <1>4 DEF SlotInv, QueueIntegrity, HeldBack, TypeOK
<1>6. QueueIntegrity'
  <2> SUFFICES ASSUME NEW q \in Projects
               PROVE  /\ IsInjective(waiters'[q])
                      /\ Range(waiters'[q]) = {k \in HeldBack' : ProjectOf[k] = q}
    BY DEF QueueIntegrity
  <2> p = ProjectOf[j]
    OBVIOUS
  <2> HIDE DEF p
  <2>1. CASE q = p
    BY <1>1, <1>2, <1>4, <1>5, <2>1 DEF SlotInv, QueueIntegrity, TypeOK
  <2>2. CASE q # p
    BY <1>1, <1>2, <1>5, <2>2 DEF SlotInv, QueueIntegrity, TypeOK
  <2> QED BY <2>1, <2>2
<1>7. \A q \in Projects : Holders(q)' = Holders(q)
  BY <1>3, <1>5 DEF Holders, SlotInv, TypeOK
<1>8. MutualExclusion' /\ ClosedHaveArrived'
  BY <1>3 DEF SlotInv, MutualExclusion, InWakeNext, ClosedHaveArrived, TypeOK
<1> QED BY <1>3, <1>6, <1>7, <1>8, SlotsUnchanged DEF SlotInv

\* A job that owns a slot gives it back and enters wakeNext: release, and
\* cancelWaiter of a job that wakeNext has dequeued.
LEMMA GiveBackStep ==
    ASSUME SlotInv, TypeOK', NEW j \in Jobs, Release(j) \/ CancelGranted(j)
    PROVE  SlotInv'
<1> DEFINE p == ProjectOf[j]
<1>1. /\ p \in Projects
      /\ pc[j] = "holding" \/ (pc[j] = "giveup" /\ ~StillQueued(j))
      /\ \E l \in {"releasing", "yielding"} : pc' = [pc EXCEPT ![j] = l]
      /\ MutexFree
      /\ DropSlot(p)
      /\ UNCHANGED <<waiters, closed>>
  BY AdmissionAssumption DEF Release, CancelGranted, DropSlotAndWake, Goto
<1>2. j \in Holders(p) /\ j \notin HeldBack
  BY <1>1 DEF StillQueued, Holders, HeldBack, SlotInv, QueueIntegrity
<1>3. HeldBack' = HeldBack
  BY <1>1, <1>2 DEF HeldBack, SlotInv, TypeOK
<1>4. \A q \in Projects :
         Holders(q)' = IF q = p THEN Holders(q) \ {j} ELSE Holders(q)
  BY <1>1 DEF Holders, SlotInv, TypeOK
<1>5. SlotAccounting' /\ InUseBounded'
  <2> HIDE DEF p
  <2> QED BY <1>1, <1>2, <1>4, SlotGivenBack
<1>6. MutualExclusion' /\ ClosedHaveArrived'
  BY <1>1 DEF SlotInv, MutualExclusion, MutexFree, InWakeNext, ClosedHaveArrived, TypeOK
<1> QED BY <1>1, <1>3, <1>5, <1>6, QueuesUnchanged DEF SlotInv

\* The iterations of wakeNext that wake nobody, and a client's cancellation.
LEMMA OtherStep ==
    ASSUME SlotInv, TypeOK', NEW j \in Jobs,
           LoopExit(j) \/ DropStale(j) \/ SkipFull(j) \/ Cancel(j)
    PROVE  SlotInv'
<1>1. /\ UNCHANGED <<inUse, waiters, closed>>
      /\ \/ pc' = pc
         \/ /\ pc[j] \in {"releasing", "yielding"}
            /\ \E l \in {"released", "refused"} : pc' = [pc EXCEPT ![j] = l]
  BY DEF LoopExit, DropStale, SkipFull, Cancel, ReturnFromWakeNext, Goto, InWakeNext
<1>2. HeldBack' = HeldBack
  BY <1>1 DEF HeldBack, SlotInv, TypeOK
<1>3. \A q \in Projects : Holders(q)' = Holders(q)
  BY <1>1 DEF Holders, SlotInv, TypeOK
<1>4. MutualExclusion' /\ ClosedHaveArrived'
  BY <1>1 DEF SlotInv, MutualExclusion, InWakeNext, ClosedHaveArrived, TypeOK
<1> QED BY <1>1, <1>2, <1>3, <1>4, QueuesUnchanged, SlotsUnchanged DEF SlotInv

LEMMA SlotInvStep == SlotInv /\ [Next]_admitVars => SlotInv'
<1> SUFFICES ASSUME SlotInv, [Next]_admitVars
             PROVE  SlotInv'
  OBVIOUS
<1>1. TypeOK'
  BY TypeStep DEF SlotInv
<1>2. CASE UNCHANGED admitVars
  <2>1. UNCHANGED <<HeldBack, InWakeNext>> /\ \A q \in Projects : Holders(q)' = Holders(q)
    BY <1>2 DEF admitVars, HeldBack, InWakeNext, Holders
  <2> QED BY <1>1, <1>2, <2>1, QueuesUnchanged, SlotsUnchanged
          DEF admitVars, SlotInv, MutualExclusion, ClosedHaveArrived
<1>3. ASSUME NEW j \in Jobs, Step(j) \/ Cancel(j)
      PROVE  SlotInv'
  BY <1>1, <1>3, AcquireFreeStep, AcquireQueueStep, SelectStep, CancelQueuedStep,
     GiveBackStep, WakeStep, OtherStep
     DEF Step, Acquire, CancelWaiter, WakeNext
<1> QED BY <1>2, <1>3 DEF Next

\* The inductive invariant holds in every reachable state.
THEOREM SlotInvariance == Spec => []SlotInv
<1>1. Init => SlotInv
  <2> SUFFICES ASSUME Init PROVE SlotInv
    OBVIOUS
  <2>1. TypeOK
    BY AdmissionAssumption DEF Init, TypeOK, PCs
  <2>2. \A p \in Projects : Holders(p) = {} /\ inUse[p] = 0
    BY DEF Init, Holders
  <2>3. SlotAccounting /\ InUseBounded
    BY <2>2, FS_EmptySet, AdmissionAssumption DEF SlotAccounting, InUseBounded
  <2>4. QueueIntegrity
    BY DEF Init, QueueIntegrity, IsInjective, Range, HeldBack
  <2>5. MutualExclusion /\ ClosedHaveArrived
    BY DEF Init, MutualExclusion, InWakeNext, ClosedHaveArrived
  <2> QED BY <2>1, <2>3, <2>4, <2>5 DEF SlotInv
<1> QED BY <1>1, SlotInvStep, PTL DEF Spec

\* No slot is ever lost or handed out twice, however grants, releases and
\* cancellations interleave.
THEOREM SlotAccountingHolds == Spec => []SlotAccounting
<1>1. SlotInv => SlotAccounting
  BY DEF SlotInv
<1> QED BY <1>1, SlotInvariance, PTL

\* The quota: a project never owns more than Limit slots.
THEOREM QuotaHolds == Spec => []QuotaRespected
<1>1. SlotInv => QuotaRespected
  BY DEF SlotInv, SlotAccounting, InUseBounded, QuotaRespected
<1> QED BY <1>1, SlotInvariance, PTL

-------------------------------------------------------------------------------
(* Admission implements SlotPool                                            *)

LEMMA TakenIsInUse ==
    ASSUME SlotInv, NEW p \in Projects
    PROVE  Pool!Taken(p) = inUse[p]
<1>1. {j \in Owners : ProjectOf[j] = p} = Holders(p)
  BY DEF Owners, Holders
<1>2. Pool!Cardinality(Holders(p)) = Cardinality(Holders(p))
  BY DEF Pool!Cardinality, Cardinality, Pool!IsFiniteSet, IsFiniteSet
<1> QED BY <1>1, <1>2 DEF Pool!Taken, SlotInv, SlotAccounting

LEMMA PoolStep ==
    ASSUME SlotInv, SlotInv', [Next]_admitVars
    PROVE  [Pool!Next]_<<HeldBack, Owners, Gone>>
<1> USE DEF Pool!Next, Goto
<1>1. CASE UNCHANGED admitVars
  BY <1>1 DEF admitVars, HeldBack, Owners, Holders, Gone
<1>2. ASSUME NEW j \in Jobs, AcquireFree(j)
      PROVE  Pool!Next
  <2>1. ProjectOf[j] \in Projects /\ Pool!HasRoom(j)
    BY <1>2, TakenIsInUse, AdmissionAssumption DEF AcquireFree, HasSlot, Pool!HasRoom
  <2>2. /\ j \notin HeldBack \cup Owners \cup Gone
        /\ Owners' = Owners \cup {j} /\ HeldBack' = HeldBack /\ Gone' = Gone
    BY <1>2 DEF AcquireFree, HeldBack, Owners, Holders, Gone, SlotInv, TypeOK,
                ClosedHaveArrived
  <2>3. Pool!Enter(j)
    BY <2>1, <2>2 DEF Pool!Enter, Pool!Fresh
  <2> QED BY <2>3
<1>3. ASSUME NEW j \in Jobs, AcquireQueue(j)
      PROVE  Pool!Next
  <2>1. ProjectOf[j] \in Projects /\ ~Pool!HasRoom(j)
    BY <1>3, TakenIsInUse, AdmissionAssumption DEF AcquireQueue, HasSlot, Pool!HasRoom
  <2>2. /\ j \notin HeldBack \cup Owners \cup Gone
        /\ HeldBack' = HeldBack \cup {j} /\ Owners' = Owners /\ Gone' = Gone
    BY <1>3 DEF AcquireQueue, HeldBack, Owners, Holders, Gone, SlotInv, TypeOK,
                ClosedHaveArrived
  <2>3. Pool!HoldBack(j)
    BY <2>1, <2>2 DEF Pool!HoldBack, Pool!Fresh
  <2> QED BY <2>3
<1>4. ASSUME NEW j \in Jobs, Select(j)
      PROVE  UNCHANGED <<HeldBack, Owners, Gone>>
  BY <1>4 DEF Select, SelectGranted, SelectDone, HeldBack, Owners, Holders, Gone,
              SlotInv, TypeOK
<1>5. ASSUME NEW j \in Jobs, CancelQueued(j)
      PROVE  Pool!Next
  <2>1. j \in HeldBack
    <3>1. j \in Range(waiters[ProjectOf[j]])
      BY <1>5, RangeEquality, AdmissionAssumption DEF CancelQueued, SlotInv, TypeOK
    <3> QED BY <3>1, AdmissionAssumption DEF SlotInv, QueueIntegrity
  <2>2. /\ HeldBack' = HeldBack \ {j} /\ Gone' = Gone \cup {j} /\ Owners' = Owners
    BY <1>5, <2>1 DEF CancelQueued, HeldBack, Owners, Holders, Gone, SlotInv, TypeOK
  <2>3. Pool!GiveUp(j)
    BY <2>1, <2>2 DEF Pool!GiveUp
  <2> QED BY <2>3
<1>6. ASSUME NEW j \in Jobs, Release(j) \/ CancelGranted(j)
      PROVE  Pool!Next
  <2>1. /\ pc[j] = "holding" \/ (pc[j] = "giveup" /\ ~StillQueued(j))
        /\ \E l \in {"releasing", "yielding"} : pc' = [pc EXCEPT ![j] = l]
        /\ closed' = closed
    BY <1>6 DEF Release, CancelGranted, DropSlotAndWake
  <2>2. j \in Owners /\ j \notin HeldBack
    BY <2>1, AdmissionAssumption
       DEF StillQueued, Owners, Holders, HeldBack, SlotInv, QueueIntegrity
  <2>3. /\ Owners' = Owners \ {j} /\ Gone' = Gone \cup {j} /\ HeldBack' = HeldBack
    BY <2>1, <2>2 DEF HeldBack, Owners, Holders, Gone, SlotInv, TypeOK
  <2>4. Pool!GiveBack(j)
    BY <2>2, <2>3 DEF Pool!GiveBack
  <2> QED BY <2>4
<1>7. ASSUME NEW j \in Jobs, Wake(j)
      PROVE  Pool!Next
  <2>1. PICK p \in Projects, h \in Jobs : WakeOf(j, p, h)
    BY <1>7, WakeEffect DEF SlotInv
  <2>2. h \in HeldBack /\ ProjectOf[h] = p
    BY <2>1, TailRange DEF WakeOf, SlotInv, TypeOK, QueueIntegrity
  <2>3. Pool!HasRoom(h)
    BY <2>1, <2>2, TakenIsInUse DEF WakeOf, Pool!HasRoom
  <2>4. /\ HeldBack' = HeldBack \ {h} /\ Owners' = Owners \cup {h} /\ Gone' = Gone
    BY <2>1, <2>2 DEF WakeOf, HeldBack, Owners, Holders, Gone, SlotInv, TypeOK
  <2>5. Pool!Grant(h)
    BY <2>2, <2>3, <2>4 DEF Pool!Grant
  <2> QED BY <2>5
<1>8. ASSUME NEW j \in Jobs, LoopExit(j) \/ DropStale(j) \/ SkipFull(j) \/ Cancel(j)
      PROVE  UNCHANGED <<HeldBack, Owners, Gone>>
  BY <1>8 DEF LoopExit, DropStale, SkipFull, Cancel, ReturnFromWakeNext, InWakeNext,
              HeldBack, Owners, Holders, Gone, SlotInv, TypeOK
<1> QED
  BY <1>1, <1>2, <1>3, <1>4, <1>5, <1>6, <1>7, <1>8
     DEF Next, Step, Acquire, CancelWaiter, WakeNext

\* The detailed admission control implements the abstract slot pool: it gives
\* slots only where there is room and holds a job back only where there is none.
THEOREM SlotPoolImplemented == Spec => ImplementsSlotPool
<1>1. Init => Pool!Init
  BY DEF Init, Pool!Init, HeldBack, Owners, Holders, Gone
<1>2. SlotInv /\ SlotInv' /\ [Next]_admitVars => [Pool!Next]_<<HeldBack, Owners, Gone>>
  BY PoolStep
<1>3. [Pool!Next]_<<HeldBack, Owners, Gone>> => [Pool!Next]_(Pool!poolVars)
  BY DEF Pool!poolVars
<1> QED BY <1>1, <1>2, <1>3, SlotInvariance, PTL DEF Spec, ImplementsSlotPool, Pool!Spec

-------------------------------------------------------------------------------
(* The wake-ups: no slot idles until somebody cancels                       *)

\* A project that could serve a waiter and does not.
Idles(p) == waiters[p] # <<>> /\ inUse[p] < Limit

\* Without cancellations the order has each project that has waiters, once.  A slot idles
\* only while the job that gave it back is in wakeNext, and then it is one slot, and the
\* loop has its project still ahead of it.
CalmInv ==
    ctxDone = {} =>
        /\ \A j \in Jobs : pc[j] \notin {"giveup", "yielding", "refused"}
        /\ IsInjective(order)
        /\ Range(order) = {p \in Projects : waiters[p] # <<>>}
        /\ \A p \in Projects : Idles(p) =>
              /\ inUse[p] = Limit - 1
              /\ \E j \in Jobs : pc[j] = "releasing" /\ ProjectOf[j] = p
              /\ \E i \in 1..Len(order) : order[i] = p /\ iter + i <= Len(order)

\* Outside the mutex no slot idles.
LEMMA FullWhenFree ==
    ASSUME SlotInv, CalmInv, ctxDone = {}, MutexFree, NEW p \in Projects, waiters[p] # <<>>
    PROVE  inUse[p] = Limit /\ ~(inUse[p] < Limit)
<1>1. ~(inUse[p] < Limit)
  BY DEF CalmInv, Idles, MutexFree, InWakeNext
<1> QED BY <1>1, AdmissionAssumption DEF SlotInv, TypeOK, InUseBounded

\* The position of a project in the order, as the range has it.
LEMMA InOrder ==
    ASSUME TypeOK, NEW p \in Range(order)
    PROVE  \E i \in 1..Len(order) : order[i] = p
BY LenProperties DEF TypeOK, Range

\* Moving the head of the order to its end.
LEMMA Rotated ==
    ASSUME TypeOK, LoopCondition
    PROVE  LET r == Append(Tail(order), Head(order)) IN
           /\ IsInjective(order) => IsInjective(r) /\ Range(r) = Range(order)
           /\ Len(r) = Len(order)
           /\ \A i \in 2..Len(order) : r[i - 1] = order[i]
           /\ Head(order) = order[1] /\ Head(order) \in Range(order)
<1> DEFINE t == Tail(order)
           h == Head(order)
           r == Append(t, h)
<1>1. order \in Seq(Projects) /\ order # <<>> /\ Len(order) \in Nat /\ Len(order) >= 1
  BY EmptySeq, LenProperties DEF TypeOK, LoopCondition
<1>2. /\ t \in Seq(Projects) /\ h \in Projects /\ h = order[1]
      /\ Len(t) = Len(order) - 1 /\ \A i \in 1..Len(t) : t[i] = order[i + 1]
  BY <1>1, HeadTailProperties
<1> HIDE DEF t
<1>3. /\ Len(r) = Len(t) + 1 /\ \A i \in 1..Len(t) : r[i] = t[i]
  BY <1>2, AppendProperties
<1>4. Len(r) = Len(order) /\ \A i \in 2..Len(order) : r[i - 1] = order[i]
  <2> SUFFICES ASSUME NEW i \in 2..Len(order) PROVE r[i - 1] = order[i]
    BY <1>1, <1>2, <1>3
  <2>1. i - 1 \in 1..Len(t) /\ (i - 1) + 1 = i
    BY <1>1, <1>2
  <2> QED BY <1>2, <1>3, <2>1
<1>5. h \in Range(order)
  BY <1>1, <1>2 DEF Range
<1>6. ASSUME IsInjective(order) PROVE IsInjective(r) /\ Range(r) = Range(order)
  <2>1. IsInjective(t) /\ Range(t) = Range(order) \ {h}
    BY <1>1, <1>6, TailRange DEF t
  <2>2. h \notin Range(t) /\ IsInjective(t)
    BY <2>1
  <2>3. IsInjective(r) /\ Range(r) = Range(t) \cup {h}
    BY <1>2, <2>2, AppendRange
  <2> QED BY <1>5, <2>1, <2>3
<1> QED BY <1>2, <1>4, <1>5, <1>6 DEF t

LEMMA CalmAcquire ==
    ASSUME SlotInv, CalmInv, ctxDone = {}, NEW j \in Jobs, Acquire(j)
    PROVE  CalmInv'
<1> DEFINE p == ProjectOf[j]
<1>1. p \in Projects /\ MutexFree /\ pc[j] = "idle" /\ TypeOK
  BY AdmissionAssumption DEF Acquire, AcquireFree, AcquireQueue, SlotInv
<1>2. \A q \in Projects : waiters[q] # <<>> => ~(inUse[q] < Limit)
  BY <1>1, FullWhenFree
<1>3. CASE AcquireFree(j)
  <2>1. /\ inUse' = [inUse EXCEPT ![p] = @ + 1] /\ pc' = [pc EXCEPT ![j] = "holding"]
        /\ inUse[p] < Limit /\ UNCHANGED <<waiters, order, ctxDone, iter>>
    BY <1>3 DEF AcquireFree, TakeSlot, HasSlot, Goto
  <2>2. \A q \in Projects : ~Idles(q)'
    BY <1>1, <1>2, <2>1 DEF Idles, TypeOK
  <2>3. \A k \in Jobs : pc'[k] \notin {"giveup", "yielding", "refused"}
    BY <1>1, <2>1 DEF CalmInv, TypeOK
  <2> QED BY <2>1, <2>2, <2>3 DEF CalmInv
<1>4. CASE AcquireQueue(j)
  <2>1. /\ waiters' = [waiters EXCEPT ![p] = Append(waiters[p], j)] /\ pc' = [pc EXCEPT ![j] = "waiting"]
        /\ ~(inUse[p] < Limit) /\ UNCHANGED <<inUse, ctxDone, iter>>
        /\ order' = IF Len(waiters'[p]) = 1 THEN Append(order, p) ELSE order
    BY <1>4 DEF AcquireQueue, Enqueue, HasSlot, Goto
  <2>2. /\ waiters[p] \in Seq(Jobs) /\ waiters'[p] = Append(waiters[p], j) /\ waiters'[p] # <<>>
        /\ Len(waiters'[p]) = 1 <=> waiters[p] = <<>>
        /\ \A q \in Projects \ {p} : waiters'[q] = waiters[q]
    <3>1. waiters[p] \in Seq(Jobs) /\ waiters'[p] = Append(waiters[p], j)
          /\ \A q \in Projects \ {p} : waiters'[q] = waiters[q]
      BY <1>1, <2>1 DEF TypeOK
    <3>2. /\ Len(Append(waiters[p], j)) = Len(waiters[p]) + 1 /\ Append(waiters[p], j) # <<>>
          /\ Len(waiters[p]) \in Nat /\ (Len(waiters[p]) = 0 <=> waiters[p] = <<>>)
      BY <3>1, AppendProperties, EmptySeq, LenProperties
    <3> QED BY <3>1, <3>2
  <2>3. \A q \in Projects : ~Idles(q)'
    BY <1>2, <2>1, <2>2 DEF Idles
  <2>4. \A k \in Jobs : pc'[k] \notin {"giveup", "yielding", "refused"}
    BY <1>1, <2>1 DEF CalmInv, TypeOK
  <2>5. IsInjective(order') /\ Range(order') = {q \in Projects : waiters'[q] # <<>>}
    <3>1. IsInjective(order) /\ Range(order) = {q \in Projects : waiters[q] # <<>>}
      BY DEF CalmInv
    <3>2. CASE waiters[p] = <<>>
      <4>1. p \notin Range(order) /\ order' = Append(order, p) /\ order \in Seq(Projects)
        BY <1>1, <2>1, <2>2, <3>1, <3>2 DEF TypeOK
      <4>2. IsInjective(order') /\ Range(order') = Range(order) \cup {p}
        BY <1>1, <3>1, <4>1, AppendRange
      <4> QED BY <1>1, <2>2, <3>1, <4>2
    <3>3. CASE waiters[p] # <<>>
      BY <1>1, <2>1, <2>2, <3>1, <3>3
    <3> QED BY <3>2, <3>3
  <2> QED BY <2>1, <2>3, <2>4, <2>5 DEF CalmInv
<1> QED BY <1>3, <1>4 DEF Acquire

LEMMA CalmRelease ==
    ASSUME SlotInv, CalmInv, ctxDone = {}, NEW j \in Jobs, Release(j)
    PROVE  CalmInv'
<1> DEFINE p == ProjectOf[j]
<1>1. /\ p \in Projects /\ MutexFree /\ TypeOK /\ iter' = 0
      /\ inUse' = [inUse EXCEPT ![p] = IF @ > 0 THEN @ - 1 ELSE 0]
      /\ pc' = [pc EXCEPT ![j] = "releasing"] /\ UNCHANGED <<waiters, order, ctxDone>>
  BY AdmissionAssumption DEF Release, DropSlotAndWake, DropSlot, Goto, SlotInv
<1>2. \A q \in Projects : waiters[q] # <<>> => inUse[q] = Limit
  BY <1>1, FullWhenFree
<1>3. \A k \in Jobs : pc'[k] \notin {"giveup", "yielding", "refused"}
  BY <1>1 DEF CalmInv, TypeOK
<1>4. ASSUME NEW q \in Projects, Idles(q)'
      PROVE  /\ inUse'[q] = Limit - 1
             /\ \E k \in Jobs : pc'[k] = "releasing" /\ ProjectOf[k] = q
             /\ \E i \in 1..Len(order) : order[i] = q /\ iter' + i <= Len(order)
  <2>1. waiters[q] # <<>> /\ inUse[q] = Limit /\ inUse'[q] < Limit
    BY <1>1, <1>2, <1>4 DEF Idles
  <2>2. q = p
    BY <1>1, <2>1, AdmissionAssumption DEF TypeOK
  <2>3. inUse'[q] = Limit - 1
    BY <1>1, <2>1, <2>2, AdmissionAssumption DEF TypeOK
  <2>4. pc'[j] = "releasing" /\ ProjectOf[j] = q
    BY <1>1, <2>2 DEF TypeOK
  <2>5. q \in Range(order)
    BY <2>1 DEF CalmInv
  <2>6. PICK i \in 1..Len(order) : order[i] = q
    BY <1>1, <2>5, InOrder
  <2>7. iter' + i <= Len(order)
    BY <1>1, <2>6, LenProperties DEF TypeOK
  <2> QED BY <2>3, <2>4, <2>6, <2>7
<1> QED BY <1>1, <1>3, <1>4 DEF CalmInv

LEMMA CalmWakeNext ==
    ASSUME SlotInv, CalmInv, ctxDone = {}, NEW j \in Jobs, WakeNext(j)
    PROVE  CalmInv'
<1>1. /\ pc[j] = "releasing" /\ TypeOK /\ ctxDone' = ctxDone
      /\ \A k \in Jobs : pc[k] = "releasing" => k = j
  BY DEF CalmInv, SlotInv, MutualExclusion, InWakeNext, WakeNext, LoopExit, DropStale, SkipFull, Wake
<1>2. order \in Seq(Projects) /\ Len(order) \in Nat /\ iter \in Nat
  BY <1>1, LenProperties DEF TypeOK
<1>3. \A k \in Jobs : pc'[k] \notin {"giveup", "yielding", "refused"}
  <2>1. pc' = pc \/ pc' = [pc EXCEPT ![j] = "released"]
    BY <1>1 DEF WakeNext, LoopExit, DropStale, SkipFull, Wake, ReturnFromWakeNext, Goto
  <2> QED BY <1>1, <2>1 DEF CalmInv, TypeOK
<1>4. IsInjective(order) /\ Range(order) = {p \in Projects : waiters[p] # <<>>}
  BY DEF CalmInv
<1>5. CASE LoopExit(j)
  <2>1. UNCHANGED <<inUse, waiters, order>> /\ ~(iter < Len(order))
    BY <1>5 DEF LoopExit, LoopCondition
  <2>2. \A p \in Projects : ~Idles(p)
    <3> SUFFICES ASSUME NEW p \in Projects, Idles(p) PROVE FALSE
      OBVIOUS
    <3>1. PICK i \in 1..Len(order) : iter + i <= Len(order)
      BY DEF CalmInv
    <3> QED BY <1>2, <2>1, <3>1
  <2> QED BY <1>1, <1>3, <1>4, <2>1, <2>2 DEF CalmInv, Idles
<1>6. CASE DropStale(j)
  <2>1. LoopCondition /\ waiters[Head(order)] = <<>>
    BY <1>6 DEF DropStale
  <2> QED BY <1>1, <1>4, <2>1, Rotated
<1>7. CASE SkipFull(j)
  <2>1. /\ LoopCondition /\ ~(inUse[Head(order)] < Limit)
        /\ order' = Append(Tail(order), Head(order)) /\ iter' = iter + 1
        /\ UNCHANGED <<inUse, waiters, pc>>
    BY <1>7 DEF SkipFull, HasSlot
  <2>2. /\ IsInjective(order') /\ Range(order') = Range(order) /\ Len(order') = Len(order)
        /\ \A i \in 2..Len(order) : order'[i - 1] = order[i]
        /\ Head(order) = order[1]
    BY <1>1, <1>4, <2>1, Rotated
  <2>3. ASSUME NEW p \in Projects, Idles(p)
        PROVE  \E i \in 1..Len(order) : order'[i] = p /\ (iter + 1) + i <= Len(order)
    <3>1. PICK i \in 1..Len(order) : order[i] = p /\ iter + i <= Len(order)
      BY <2>3 DEF CalmInv
    <3>2. i # 1
      BY <2>1, <2>2, <2>3, <3>1 DEF Idles
    <3>3. i - 1 \in 1..Len(order) /\ i \in 2..Len(order) /\ (iter + 1) + (i - 1) <= Len(order)
      BY <1>2, <3>1, <3>2
    <3> QED BY <2>2, <3>1, <3>3
  <2>4. \A p \in Projects : Idles(p)' <=> Idles(p)
    BY <2>1 DEF Idles
  <2> QED BY <1>1, <1>3, <1>4, <2>1, <2>2, <2>3, <2>4 DEF CalmInv
<1>8. CASE Wake(j)
  <2> DEFINE p == Head(order)
  <2>1. /\ LoopCondition /\ waiters[p] # <<>> /\ inUse[p] < Limit
        /\ waiters' = [waiters EXCEPT ![p] = Tail(waiters[p])]
        /\ inUse' = [inUse EXCEPT ![p] = inUse[p] + 1]
        /\ order' = IF Tail(waiters[p]) # <<>> THEN Append(Tail(order), p) ELSE Tail(order)
    BY <1>8 DEF Wake, HasSlot, TakeSlot, KeepRest
  <2>2. /\ p \in Projects /\ p \in Range(order) /\ order # <<>>
        /\ IsInjective(Append(Tail(order), p)) /\ Range(Append(Tail(order), p)) = Range(order)
    BY <1>1, <1>4, <2>1, Rotated, LoopHead, EmptySeq DEF LoopCondition
  <2>3. IsInjective(Tail(order)) /\ Range(Tail(order)) = Range(order) \ {p}
    BY <1>2, <1>4, <2>2, TailRange
  <2> HIDE DEF p
  <2>4. inUse[p] = Limit - 1 /\ inUse'[p] = Limit
    <3>1. inUse[p] = Limit - 1
      BY <2>1, <2>2 DEF CalmInv, Idles
    <3> QED BY <1>1, <2>1, <2>2, <3>1, AdmissionAssumption DEF TypeOK
  <2>5. \A q \in Projects \ {p} : ~Idles(q) /\ waiters'[q] = waiters[q] /\ inUse'[q] = inUse[q]
    <3>1. \A q \in Projects : Idles(q) => q = ProjectOf[j]
      BY <1>1 DEF CalmInv
    <3>2. Idles(p)
      BY <2>1 DEF Idles
    <3> QED BY <1>1, <2>1, <2>2, <3>1, <3>2 DEF TypeOK
  <2>6. \A q \in Projects : ~Idles(q)'
    BY <2>4, <2>5, AdmissionAssumption DEF Idles
  <2>7. waiters'[p] = Tail(waiters[p])
    BY <1>1, <2>1, <2>2 DEF TypeOK
  <2>8. IsInjective(order') /\ Range(order') = {q \in Projects : waiters'[q] # <<>>}
    <3>1. CASE Tail(waiters[p]) # <<>>
      BY <1>4, <2>1, <2>2, <2>5, <2>7, <3>1
    <3>2. CASE Tail(waiters[p]) = <<>>
      BY <1>4, <2>1, <2>2, <2>3, <2>5, <2>7, <3>2
    <3> QED BY <3>1, <3>2
  <2> QED BY <1>1, <1>3, <2>6, <2>8 DEF CalmInv
<1> QED BY <1>5, <1>6, <1>7, <1>8 DEF WakeNext

LEMMA CalmStep ==
    ASSUME SlotInv, CalmInv, [Next]_admitVars
    PROVE  CalmInv'
<1>1. CASE ctxDone' # {}
  BY <1>1 DEF CalmInv
<1>2. ctxDone \subseteq ctxDone'
  BY DEF Next, Step, Acquire, AcquireFree, AcquireQueue, Select, SelectGranted, SelectDone, CancelWaiter,
         CancelQueued, CancelGranted, Release, WakeNext, LoopExit, DropStale, SkipFull, Wake, Cancel, admitVars
<1>3. CASE ctxDone' = {} /\ UNCHANGED admitVars
  BY <1>3 DEF admitVars, CalmInv, Idles
<1>4. ASSUME ctxDone' = {}, NEW j \in Jobs, Step(j) \/ Cancel(j)
      PROVE  CalmInv'
  <2>1. ctxDone = {}
    BY <1>2, <1>4
  <2>2. ~Cancel(j) /\ ~SelectDone(j) /\ ~CancelWaiter(j)
    BY <1>4, <2>1 DEF Cancel, SelectDone, CancelWaiter, CancelQueued, CancelGranted, CalmInv
  <2>3. CASE SelectGranted(j)
    <3>1. /\ pc' = [pc EXCEPT ![j] = "holding"] /\ pc[j] = "waiting"
          /\ UNCHANGED <<inUse, waiters, order, ctxDone, iter>>
      BY <2>3 DEF SelectGranted, Goto
    <3>2. \A k \in Jobs : (pc[k] = "releasing" => pc'[k] = "releasing")
                          /\ pc'[k] \in {pc[k], "holding"}
      BY <3>1 DEF SlotInv, TypeOK
    <3>3. \A p : Idles(p)' <=> Idles(p)
      BY <3>1 DEF Idles
    <3> QED BY <2>1, <3>1, <3>2, <3>3 DEF CalmInv
  <2> QED BY <1>4, <2>1, <2>2, <2>3, CalmAcquire, CalmRelease, CalmWakeNext DEF Step, Select
<1> QED BY <1>1, <1>3, <1>4 DEF Next

LEMMA CalmInvariance == Spec => []CalmInv
<1>1. Init => CalmInv
  BY DEF Init, CalmInv, Idles, IsInjective, Range
<1>2. SlotInv /\ CalmInv /\ [Next]_admitVars => CalmInv'
  BY CalmStep
<1> QED BY <1>1, <1>2, SlotInvariance, PTL DEF Spec

\* "May hold the job in queued until a per-project slot is free" (Submit's comment), for
\* any number of projects: until the first cancellation, a project that has a job queued
\* has handed out all of its slots, whenever the mutex is free.
THEOREM NoIdleSlotUntilCancel == Spec => [](ctxDone = {} => NoIdleSlotWhileQueued)
<1>1. SlotInv /\ CalmInv => (ctxDone = {} => NoIdleSlotWhileQueued)
  BY FullWhenFree DEF NoIdleSlotWhileQueued
<1> QED BY <1>1, SlotInvariance, CalmInvariance, PTL

-------------------------------------------------------------------------------
(* With one project no slot idles, cancellations or not                     *)

\* Every entry of the order is the one project, so that the first iteration of wakeNext
\* serves it, however many stale entries cancellations have left there.
SoleInv ==
    \A p \in Projects :
        /\ waiters[p] # <<>> => order # <<>>
        /\ Idles(p) => inUse[p] = Limit - 1 /\ ~MutexFree /\ iter = 0

OneProject == \A p, q \in Projects : p = q

LEMMA SoleFull ==
    ASSUME SlotInv, SoleInv, MutexFree, NEW p \in Projects, waiters[p] # <<>>
    PROVE  inUse[p] = Limit /\ ~(inUse[p] < Limit)
<1>1. ~(inUse[p] < Limit)
  BY DEF SoleInv, Idles
<1> QED BY <1>1, AdmissionAssumption DEF SlotInv, TypeOK, InUseBounded

LEMMA SoleStep ==
    ASSUME OneProject, SlotInv, SoleInv, [Next]_admitVars
    PROVE  SoleInv'
<1> SUFFICES ASSUME NEW p \in Projects
             PROVE  /\ waiters'[p] # <<>> => order' # <<>>
                    /\ Idles(p)' => inUse'[p] = Limit - 1 /\ ~MutexFree' /\ iter' = 0
  BY DEF SoleInv
<1>0. /\ TypeOK /\ inUse[p] \in Nat /\ waiters[p] \in Seq(Jobs) /\ order \in Seq(Projects)
      /\ \A j \in Jobs : ProjectOf[j] = p
      /\ Limit \in Nat \ {0}
  BY AdmissionAssumption DEF OneProject, SlotInv, TypeOK
<1>1. /\ waiters[p] # <<>> => order # <<>>
      /\ Idles(p) => inUse[p] = Limit - 1 /\ ~MutexFree /\ iter = 0
  BY DEF SoleInv
<1>2. MutexFree /\ waiters[p] # <<>> => inUse[p] = Limit
  BY SoleFull
<1>3. ASSUME \/ UNCHANGED admitVars
             \/ \E j \in Jobs : Cancel(j) \/ Select(j)
      PROVE  /\ UNCHANGED <<inUse, waiters, order, iter>>
             /\ InWakeNext' = InWakeNext
  BY <1>0, <1>3 DEF admitVars, Cancel, Select, SelectGranted, SelectDone, InWakeNext, Goto, TypeOK
<1>4. ASSUME NEW j \in Jobs, AcquireFree(j)
      PROVE  ~Idles(p)' /\ UNCHANGED <<waiters, order>>
  <2>1. MutexFree /\ inUse[p] < Limit /\ UNCHANGED <<waiters, order>>
    BY <1>0, <1>4 DEF AcquireFree, HasSlot
  <2> QED BY <1>1, <2>1 DEF Idles
<1>5. ASSUME NEW j \in Jobs, AcquireQueue(j)
      PROVE  ~Idles(p)' /\ order' # <<>>
  <2>1. /\ ~(inUse[p] < Limit) /\ inUse' = inUse
        /\ waiters' = [waiters EXCEPT ![p] = Append(waiters[p], j)]
        /\ order' = IF Len(waiters'[p]) = 1 THEN Append(order, p) ELSE order
    BY <1>0, <1>5 DEF AcquireQueue, HasSlot, Enqueue
  <2>2. waiters'[p] = Append(waiters[p], j)
    BY <1>0, <2>1 DEF TypeOK
  <2>3. Append(order, p) # <<>> /\ (waiters[p] = <<>> => Len(Append(waiters[p], j)) = 1)
    BY <1>0, AppendProperties, EmptySeq
  <2> QED BY <1>1, <2>1, <2>2, <2>3 DEF Idles
<1>6. ASSUME NEW j \in Jobs, CancelQueued(j)
      PROVE  ~Idles(p)' /\ order' # <<>>
  <2>1. MutexFree /\ UNCHANGED <<inUse, order>> /\ \E i \in 1..Len(waiters[p]) : TRUE
    BY <1>0, <1>6 DEF CancelQueued
  <2>2. waiters[p] # <<>>
    BY <2>1, EmptySeq
  <2> QED BY <1>0, <1>1, <1>2, <2>1, <2>2 DEF Idles
<1>7. ASSUME NEW j \in Jobs, CancelGranted(j) \/ Release(j)
      PROVE  /\ UNCHANGED <<waiters, order>> /\ iter' = 0 /\ ~MutexFree'
             /\ Idles(p)' => inUse'[p] = Limit - 1
  <2>1. /\ MutexFree /\ UNCHANGED <<waiters, order>> /\ iter' = 0
        /\ inUse' = [inUse EXCEPT ![p] = IF @ > 0 THEN @ - 1 ELSE 0]
        /\ pc' = [pc EXCEPT ![j] = "yielding"] \/ pc' = [pc EXCEPT ![j] = "releasing"]
    BY <1>0, <1>7 DEF CancelGranted, Release, DropSlotAndWake, DropSlot, Goto
  <2>2. j \in InWakeNext'
    BY <1>0, <2>1 DEF InWakeNext, TypeOK
  <2>3. waiters[p] # <<>> => inUse'[p] = Limit - 1
    BY <1>0, <1>2, <2>1 DEF TypeOK
  <2> QED BY <2>1, <2>2, <2>3 DEF MutexFree, Idles
<1>8. ASSUME NEW j \in Jobs, LoopExit(j)
      PROVE  ~Idles(p)' /\ UNCHANGED <<waiters, order>>
  <2>1. UNCHANGED <<inUse, waiters, order>> /\ ~(iter < Len(order))
    BY <1>8 DEF LoopExit, LoopCondition
  <2>2. Len(order) \in Nat /\ (order # <<>> => Len(order) > 0)
    BY <1>0, EmptySeq, LenProperties
  <2>3. ~Idles(p)
    BY <1>1, <2>1, <2>2 DEF Idles
  <2> QED BY <2>1, <2>3 DEF Idles
<1>9. ASSUME NEW j \in Jobs, DropStale(j) \/ SkipFull(j) \/ Wake(j)
      PROVE  /\ ~Idles(p)'
             /\ waiters'[p] # <<>> => order' # <<>>
  <2>1. LoopCondition
    BY <1>9 DEF DropStale, SkipFull, Wake
  <2>2. Head(order) = p /\ Tail(order) \in Seq(Projects)
    BY <1>0, <2>1, LoopHead DEF OneProject
  <2>3. CASE DropStale(j)
    BY <2>2, <2>3 DEF DropStale, Idles
  <2>4. Append(Tail(order), p) # <<>>
    <3> DEFINE t == Tail(order)
    <3>1. t \in Seq(Projects)
      BY <2>2
    <3> HIDE DEF t
    <3>2. Append(t, p) # <<>>
      BY <3>1, AppendProperties, EmptySeq
    <3> QED BY <3>2 DEF t
  <2>5. CASE SkipFull(j)
    BY <2>2, <2>4, <2>5 DEF SkipFull, HasSlot, Idles
  <2>6. CASE Wake(j)
    <3>1. /\ waiters[p] # <<>> /\ inUse[p] < Limit
          /\ waiters'[p] = Tail(waiters[p]) /\ inUse'[p] = inUse[p] + 1
          /\ order' = IF Tail(waiters[p]) # <<>> THEN Append(Tail(order), p) ELSE Tail(order)
      BY <1>0, <2>2, <2>6 DEF Wake, HasSlot, TakeSlot, KeepRest, TypeOK
    <3> QED BY <1>0, <1>1, <2>4, <3>1 DEF Idles
  <2> QED BY <1>9, <2>3, <2>5, <2>6
<1>10. CASE \/ UNCHANGED admitVars
            \/ \E j \in Jobs : Cancel(j) \/ Select(j)
  BY <1>1, <1>3, <1>10 DEF Idles, MutexFree
<1>11. CASE \E j \in Jobs : Acquire(j) \/ CancelWaiter(j) \/ Release(j) \/ WakeNext(j)
  BY <1>1, <1>4, <1>5, <1>6, <1>7, <1>8, <1>9, <1>11 DEF Acquire, CancelWaiter, WakeNext
<1> QED BY <1>10, <1>11 DEF Next, Step

\* The same promise through every cancellation, when there is one project.  With several
\* it fails: the stale entries that cancellations leave in the order use up the loop of
\* wakeNext before it comes to the project that has room.
THEOREM NoIdleSlotInOneProject ==
    ASSUME OneProject
    PROVE  Spec => []NoIdleSlotWhileQueued
<1>1. Init => SoleInv
  BY DEF Init, SoleInv, Idles
<1>2. SlotInv /\ SoleInv /\ [Next]_admitVars => SoleInv'
  BY SoleStep
<1>3. SlotInv /\ SoleInv => NoIdleSlotWhileQueued
  BY SoleFull DEF NoIdleSlotWhileQueued
<1> QED BY <1>1, <1>2, <1>3, SlotInvariance, PTL DEF Spec

-------------------------------------------------------------------------------
(* First in, first out, until somebody cancels                              *)

\* Who waits and has a successor; where the queue of a project goes in one step, as far as
\* the two are concerned.
LEMMA WaiterIsQueued ==
    ASSUME SlotInv, NEW a \in HeldBack
    PROVE  /\ a \in Jobs /\ ProjectOf[a] \in Projects /\ waiters[ProjectOf[a]] \in Seq(Jobs)
           /\ a \in Range(waiters[ProjectOf[a]]) /\ waiters[ProjectOf[a]] # <<>>
           /\ \E i \in 1..Len(waiters[ProjectOf[a]]) : waiters[ProjectOf[a]][i] = a
<1> DEFINE p == ProjectOf[a]
           q == waiters[p]
<1>1. a \in Jobs /\ p \in Projects /\ q \in Seq(Jobs)
  BY AdmissionAssumption DEF HeldBack, SlotInv, TypeOK
<1>2. a \in Range(q)
  BY <1>1 DEF SlotInv, QueueIntegrity
<1> HIDE DEF q
<1>3. \E i \in 1..Len(q) : q[i] = a
  BY <1>1, <1>2, LenProperties DEF Range
<1>4. q # <<>>
  BY <1>1, <1>3, EmptySeq
<1> QED BY <1>1, <1>2, <1>3, <1>4 DEF q

\* A step that leaves the queues alone, and both of them where they are.
LEMMA StillPrecedes ==
    ASSUME NEW a \in Jobs, NEW b \in Jobs, Precedes(a, b), UNCHANGED <<waiters, closed>>,
           pc'[a] = pc[a], pc[b] = "idle" => pc'[b] = "idle"
    PROVE  Precedes(a, b)'
BY DEF Precedes, HeldBack

LEMMA FifoAcquire ==
    ASSUME SlotInv, CalmInv, ctxDone = {}, NEW j \in Jobs, Acquire(j),
           NEW a \in Jobs, NEW b \in Jobs, Precedes(a, b)
    PROVE  Precedes(a, b)'
<1> DEFINE p == ProjectOf[a]
<1>1. /\ a \in HeldBack /\ p \in Projects /\ waiters[p] \in Seq(Jobs) /\ waiters[p] # <<>>
      /\ TypeOK /\ pc[j] = "idle" /\ a # j /\ MutexFree
  BY WaiterIsQueued DEF Precedes, Acquire, AcquireFree, AcquireQueue, HeldBack, SlotInv
<1>2. ~(inUse[p] < Limit)
  BY <1>1, FullWhenFree
<1>3. CASE AcquireFree(j)
  <2>1. /\ inUse[ProjectOf[j]] < Limit /\ pc' = [pc EXCEPT ![j] = "holding"]
        /\ UNCHANGED <<waiters, closed>>
    BY <1>3 DEF AcquireFree, HasSlot, Goto
  <2>2. b = j => pc[b] = "idle" /\ ProjectOf[b] # p
    BY <1>1, <1>2, <2>1
  <2>3. \/ pc[b] = "idle" /\ b # j
        \/ \E i, k \in 1..Len(waiters[p]) : i < k /\ waiters[p][i] = a /\ waiters[p][k] = b
    BY <2>2 DEF Precedes
  <2>4. pc'[a] = pc[a] /\ (b # j => pc'[b] = pc[b])
    BY <1>1, <2>1 DEF TypeOK
  <2> QED BY <2>1, <2>2, <2>3, <2>4 DEF Precedes, HeldBack
<1>4. CASE AcquireQueue(j)
  <2> DEFINE g == ProjectOf[j]
  <2>1. /\ waiters' = [waiters EXCEPT ![g] = Append(waiters[g], j)] /\ closed' = closed
        /\ pc' = [pc EXCEPT ![j] = "waiting"]
    BY <1>4 DEF AcquireQueue, Enqueue, Goto
  <2>2. pc'[a] = pc[a] /\ (b # j => pc'[b] = pc[b]) /\ a \in HeldBack'
    BY <1>1, <2>1 DEF TypeOK, HeldBack
  <2>3. CASE g # p
    <3>1. waiters'[p] = waiters[p] /\ (b = j => ProjectOf[b] # p)
      BY <1>1, <2>1, <2>3 DEF TypeOK
    <3> QED BY <2>2, <3>1, <1>1 DEF Precedes
  <2>4. CASE g = p
    <3> DEFINE q == waiters[p]
               n == Len(q)
    <3>1. waiters'[p] = Append(q, j)
      BY <1>1, <2>1, <2>4 DEF TypeOK
    <3>2. PICK i \in 1..n : q[i] = a
      BY <1>1, WaiterIsQueued
    <3> HIDE DEF q
    <3>3. /\ n \in Nat /\ Len(Append(q, j)) = n + 1 /\ Append(q, j)[n + 1] = j
          /\ \A k \in 1..n : Append(q, j)[k] = q[k]
      BY <1>1, AppendProperties, LenProperties DEF q
    <3>4. CASE b = j
      <4>1. i \in 1..(n + 1) /\ n + 1 \in 1..(n + 1) /\ i < n + 1
        BY <3>2, <3>3
      <4>2. \E x, y \in 1..Len(waiters'[p]) : x < y /\ waiters'[p][x] = a /\ waiters'[p][y] = b
        BY <3>1, <3>2, <3>3, <3>4, <4>1
      <4> QED BY <2>2, <4>2 DEF Precedes
    <3>5. CASE b # j /\ pc[b] = "idle" /\ ProjectOf[b] = p
      BY <2>2, <3>5 DEF Precedes
    <3>6. CASE \E x, y \in 1..n : x < y /\ q[x] = a /\ q[y] = b
      <4>1. \E x, y \in 1..Len(waiters'[p]) : x < y /\ waiters'[p][x] = a /\ waiters'[p][y] = b
        <5>1. \A x \in 1..n : x \in 1..(n + 1)
          BY <3>3
        <5> QED BY <3>1, <3>3, <3>6, <5>1
      <4> QED BY <2>2, <4>1 DEF Precedes
    <3> QED BY <3>4, <3>5, <3>6 DEF Precedes, q
  <2> QED BY <2>3, <2>4
<1> QED BY <1>3, <1>4 DEF Acquire

LEMMA FifoWake ==
    ASSUME SlotInv, NEW j \in Jobs, Wake(j), NEW a \in Jobs, NEW b \in Jobs, Precedes(a, b), a \in HeldBack'
    PROVE  Precedes(a, b)'
<1> DEFINE p == ProjectOf[a]
           g == Head(order)
           q == waiters[p]
<1>1. /\ a \in HeldBack /\ p \in Projects /\ q \in Seq(Jobs) /\ q # <<>> /\ TypeOK
  BY WaiterIsQueued DEF Precedes, SlotInv
<1>2. /\ g \in Projects /\ waiters' = [waiters EXCEPT ![g] = Tail(waiters[g])]
      /\ closed' = closed \cup {Head(waiters[g])}
      /\ pc[j] \in {"releasing", "yielding"}
      /\ \A k \in Jobs \ {j} : pc'[k] = pc[k]
  BY <1>1, LoopHead DEF Wake, InWakeNext, ReturnFromWakeNext, Goto, TypeOK
<1>3. pc[b] = "idle" => pc'[b] = "idle"
  BY <1>2
<1>4. CASE g # p
  <2>1. waiters'[p] = q
    BY <1>1, <1>2, <1>4 DEF TypeOK
  <2> QED BY <1>3, <2>1 DEF Precedes
<1>5. CASE g = p
  <2>1. waiters'[p] = Tail(q) /\ a # Head(q)
    BY <1>1, <1>2, <1>5 DEF TypeOK, HeldBack
  <2>2. CASE pc[b] = "idle" /\ ProjectOf[b] = p
    BY <1>3, <2>2 DEF Precedes
  <2>3. CASE \E i, k \in 1..Len(q) : i < k /\ q[i] = a /\ q[k] = b
    <3>1. PICK i \in 1..Len(q), k \in 1..Len(q) : i < k /\ q[i] = a /\ q[k] = b
      BY <2>3
    <3> HIDE DEF q
    <3>2. /\ Len(q) \in Nat /\ Len(Tail(q)) = Len(q) - 1 /\ Head(q) = q[1]
          /\ \A x \in 1..Len(Tail(q)) : Tail(q)[x] = q[x + 1]
      BY <1>1, HeadTailProperties, LenProperties
    <3>3. /\ i - 1 \in 1..Len(Tail(q)) /\ k - 1 \in 1..Len(Tail(q)) /\ i - 1 < k - 1
          /\ (i - 1) + 1 = i /\ (k - 1) + 1 = k
      BY <2>1, <3>1, <3>2
    <3>4. Tail(q)[i - 1] = a /\ Tail(q)[k - 1] = b
      BY <3>1, <3>2, <3>3
    <3>5. \E x, y \in 1..Len(waiters'[p]) : x < y /\ waiters'[p][x] = a /\ waiters'[p][y] = b
      BY <2>1, <3>3, <3>4
    <3> QED BY <3>5 DEF Precedes
  <2> QED BY <2>2, <2>3 DEF Precedes
<1> QED BY <1>4, <1>5

LEMMA FifoStep ==
    ASSUME SlotInv, CalmInv, [Next]_admitVars, ctxDone = {},
           NEW a \in Jobs, NEW b \in Jobs, Precedes(a, b), a \in HeldBack'
    PROVE  Precedes(a, b)'
<1>1. a \in HeldBack /\ pc \in [Jobs -> PCs]
  BY DEF Precedes, SlotInv, TypeOK
<1>2. CASE UNCHANGED admitVars
  BY <1>2, StillPrecedes DEF admitVars
<1>3. ASSUME NEW j \in Jobs, Step(j) \/ Cancel(j)
      PROVE  Precedes(a, b)'
  <2>1. ~SelectDone(j) /\ ~CancelWaiter(j)
    BY DEF SelectDone, CancelWaiter, CancelQueued, CancelGranted, CalmInv
  <2>2. CASE SelectGranted(j) \/ Release(j) \/ LoopExit(j) \/ DropStale(j) \/ SkipFull(j)
    <3>1. /\ UNCHANGED <<waiters, closed>> /\ pc[j] # "idle" /\ j # a
          /\ \A k \in Jobs \ {j} : pc'[k] = pc[k]
      BY <1>1, <2>2 DEF SelectGranted, Release, LoopExit, DropStale, SkipFull, HeldBack, InWakeNext,
                        DropSlotAndWake, ReturnFromWakeNext, Goto
    <3> QED BY <3>1, StillPrecedes
  <2>3. CASE Cancel(j)
    BY <2>3, StillPrecedes DEF Cancel
  <2>4. CASE Acquire(j)
    BY <2>4, FifoAcquire
  <2>5. CASE Wake(j)
    BY <2>5, FifoWake
  <2> QED BY <1>3, <2>1, <2>2, <2>3, <2>4, <2>5 DEF Step, Select, WakeNext
<1> QED BY <1>2, <1>3 DEF Next

\* "FIFO queue" (admission's comment): until the first cancellation nobody overtakes a job
\* that waits, neither from behind in the queue nor by finding a slot free on arrival.
THEOREM FirstInFirstOut == Spec => FifoUntilCancel
<1>1. SlotInv /\ CalmInv /\ [Next]_admitVars
      => [ctxDone = {} =>
             \A a, b \in Jobs : Precedes(a, b) => Precedes(a, b)' \/ a \notin HeldBack']_admitVars
  BY FifoStep
<1> QED BY <1>1, SlotInvariance, CalmInvariance, PTL DEF Spec, FifoUntilCancel
===============================================================================
