------------------------------ MODULE MCScheduler ------------------------------
(* Values of Scheduler's constants for TLC.                                 *)
EXTENDS Scheduler

CONSTANTS q, e, v

\* A cron is its period in ticks; 0 never fires.
Periods == [c \in Crons |-> [t \in 0..MaxTime |->
                IF c = 0 THEN 0 ELSE c * ((t \div c) + 1)]]
===============================================================================
