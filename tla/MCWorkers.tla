------------------------------ MODULE MCWorkers ------------------------------
(* Values of Workers' constants for TLC.                                    *)
EXTENDS Workers

CONSTANTS w1, w2, q1, q2, oa, ob

UnitSize == [o \in Objects |-> 1]
OneAndBoth == [q \in Requests |-> IF q = q1 THEN {oa} ELSE {oa, ob}]

\* The first key falls to w1, the second wraps around to a hash that both workers
\* claim, and that the later one has.
KeyOfEach == [q \in Requests |-> IF q = q1 THEN 3 ELSE 9]
VnodesOfEach == [w \in Endpoints |-> IF w = w1 THEN {1, 5} ELSE {1, 7}]
AsConfigured == <<w2, w1>>
===============================================================================
