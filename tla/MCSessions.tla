------------------------------ MODULE MCSessions ------------------------------
(* Values of Sessions' constants for TLC.                                   *)
EXTENDS Sessions, TLC

CONSTANTS ann, bob, ha, hb, pa, pb, u1, u2, v1, r1, r2, r3

\* Two accounts whose IAM is at different hosts.
HostOfEach == [x \in Accounts |-> IF x = ann THEN ha ELSE hb]
OneProjectEach == [x \in Accounts |-> IF x = ann THEN {pa} ELSE {pb}]
TwoUsersAndOne == [p \in Projects |-> IF p = pa THEN <<u1, u2>> ELSE <<v1>>]

\* Nothing tells the requests apart.
AnyRequest == Permutations(Requests)
===============================================================================
