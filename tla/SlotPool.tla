------------------------------- MODULE SlotPool -------------------------------
(***************************************************************************)
(* What admission control promises, with no queue, lock or channel in it:  *)
(* each project owns Limit execution slots; a job takes a slot at once     *)
(* when one is free, is held back only while all of them are taken, and a  *)
(* held-back job either gets a slot later or gives up.  Admission.tla is   *)
(* the implementation (internal/job/job.go, type admission).               *)
(***************************************************************************)
EXTENDS Naturals, FiniteSets

CONSTANTS Jobs,        \* the jobs ever submitted
          ProjectOf,   \* the project each job belongs to
          Limit        \* slots per project

VARIABLES queued,      \* jobs held back
          holding,     \* jobs that own a slot
          gone         \* jobs that gave up or gave their slot back

poolVars == <<queued, holding, gone>>

Taken(p) == Cardinality({j \in holding : ProjectOf[j] = p})

HasRoom(j) == Taken(ProjectOf[j]) < Limit

Fresh(j) == j \in Jobs /\ j \notin queued \cup holding \cup gone

Init ==
    /\ queued = {}
    /\ holding = {}
    /\ gone = {}

Enter(j) ==
    /\ Fresh(j)
    /\ HasRoom(j)
    /\ holding' = holding \cup {j}
    /\ UNCHANGED <<queued, gone>>

HoldBack(j) ==
    /\ Fresh(j)
    /\ ~HasRoom(j)
    /\ queued' = queued \cup {j}
    /\ UNCHANGED <<holding, gone>>

Grant(j) ==
    /\ j \in queued
    /\ HasRoom(j)
    /\ queued' = queued \ {j}
    /\ holding' = holding \cup {j}
    /\ UNCHANGED gone

GiveUp(j) ==
    /\ j \in queued
    /\ queued' = queued \ {j}
    /\ gone' = gone \cup {j}
    /\ UNCHANGED holding

GiveBack(j) ==
    /\ j \in holding
    /\ holding' = holding \ {j}
    /\ gone' = gone \cup {j}
    /\ UNCHANGED queued

Next ==
    \E j \in Jobs :
        Enter(j) \/ HoldBack(j) \/ Grant(j) \/ GiveUp(j) \/ GiveBack(j)

Spec == Init /\ [][Next]_poolVars
===============================================================================
