----------------------------- MODULE MCConversion -----------------------------
(* Values of Conversion's constants for TLC.                                *)
EXTENDS Conversion

CONSTANTS v1, v2, i1, a1, k1, k2, j1, f1, n1, n2, t1, t3,
          s1, s2, p1, p2, file1, file2

KindOfEach == [s \in Sessions |-> CASE s \in {v1, v2} -> "view"
                                    [] s = i1 -> "infer"
                                    [] s = a1 -> "analyze"
                                    [] OTHER -> "convert"]
UserOfEach == [s \in Sessions |-> IF s = v1 THEN "u1" ELSE "u2"]

\* Two tables of one name in v1's and v2's catalogs, one more in v1's: the name that
\* v2's SQL, which is a client's, makes and drops.
ViewBindings == [s \in Sessions |-> CASE s = v1 -> Tables [] s = v2 -> {t1} [] OTHER -> {}]
SchemaOfEach == [t \in Tables |-> IF t = t3 THEN n2 ELSE n1]

\* One request that names a file twice.
OneJob == [j \in ConvJobs |-> <<k1, k2>>]
SameFile == [t \in AllTasks |-> f1]

\* Two patterns of one profile; the second configuration cannot be used.
TwoConfigs == [v \in Savers |-> IF v = s1
    THEN [pattern |-> p1, profile |-> "prof", usable |-> TRUE]
    ELSE [pattern |-> p2, profile |-> "prof", usable |-> FALSE]]
LengthOfEach == [p \in Patterns |-> IF p = p1 THEN 1 ELSE 2]
FileOfEach == [p \in Patterns |-> IF p = p1 THEN file1 ELSE file2]
MatchAll == [p \in Patterns |-> Files]
===============================================================================
