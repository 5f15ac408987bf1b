---------------------------- MODULE MCAdmission ----------------------------
(* Values of Admission's constants for TLC.                                 *)
EXTENDS Admission, TLC

CONSTANTS a1, a2, a3, b1, b2, A, B

\* Three jobs of A contend for A's slots while two of B do for B's.
TwoProjectJobs == {a1, a2, a3, b1, b2}
TwoProjects == [j \in TwoProjectJobs |-> IF j \in {b1, b2} THEN B ELSE A]
=============================================================================
