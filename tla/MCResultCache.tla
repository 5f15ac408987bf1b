---------------------------- MODULE MCResultCache ----------------------------
(* Values of ResultCache's constants for TLC.                               *)
EXTENDS ResultCache, TLC

CONSTANTS tab, c1, x1, r1, r2, stm

AllTo == [w \in Writers |-> tab]
KindOfEach == [w \in Writers |-> IF w = c1 THEN "ctas" ELSE "external"]
SameStatement == [r \in Readers |-> stm]
SameReaders == Permutations({r1, r2})

ReadsAll == [q \in Statements |-> Tables]
===============================================================================
