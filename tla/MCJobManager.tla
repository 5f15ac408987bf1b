----------------------------- MODULE MCJobManager -----------------------------
(* Values of JobManager's constants for TLC.                                *)
EXTENDS JobManager, TLC

CONSTANTS a1, a2, A

OneProjectJobs == {a1, a2}
OneProject == [j \in OneProjectJobs |-> A]
===============================================================================
