------------------------------ MODULE MCScheduler ------------------------------
(* Scheduler on small instances: two jobs compete for one repository and   *)
(* the others have another one.                                            *)
EXTENDS Scheduler

CONSTANTS first, second, shared, own

SharedRepository == [j \in Jobs |-> IF j \in {first, second} THEN shared ELSE own]

===============================================================================
