------------------------------ MODULE MCCatalog ------------------------------
(* Values of the constants of Catalog and Planner for TLC.                  *)
EXTENDS Catalog, TLC

CONSTANTS ta, tb, da, db, c1, o1, x1

\* The writes to ta, the registration to tb; each table in a dataset of its own.  The
\* overwrite gets beyond its DESCRIBE when the CTAS has copied files in between.
TargetOfEach == [w \in Writers |-> IF w = x1 THEN tb ELSE ta]
KindOfEach == [w \in Writers |-> CASE w = c1 -> "ctas"
                                [] w = o1 -> "overwrite"
                                [] w = x1 -> "external"]
DatasetOfEach == [t \in Tables |-> IF t = ta THEN da ELSE db]

\* Lexicographically: 09, 10, 9, x.
RankOfEach == ("09" :> 0) @@ ("10" :> 1) @@ ("9" :> 2) @@ ("x" :> 3)
NumberOfEach == ("09" :> 9) @@ ("10" :> 10) @@ ("9" :> 9) @@ ("x" :> NaN)

\* The planner is operators and no state machine: its claims are evaluated once, for
\* every set of these values and every clause.
ASSUME PlannerChecked == OnlyMisreadLost /\ EveryMisreadingLoses
===============================================================================
