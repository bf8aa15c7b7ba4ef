----------------------------- MODULE MCBlockOn ------------------------------
(***************************************************************************)
(* One caller waits for two tasks, another one for one.                    *)
(***************************************************************************)
EXTENDS BlockOn

CONSTANTS T1, T2, M1, M2, M3

MCTasks == [t \in Callers |-> IF t = T1 THEN <<M1, M2>> ELSE <<M3>>]
=============================================================================
