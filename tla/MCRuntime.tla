------------------------------ MODULE MCRuntime ------------------------------
(***************************************************************************)
(* Runtime for TLC: m4 is alone in its tenant's turn, the other messages   *)
(* compete for one.                                                        *)
(***************************************************************************)
EXTENDS Runtime

CONSTANTS t1, t2, m4

MCTenantOf == [m \in Receipts |-> IF m = m4 THEN t2 ELSE t1]
=============================================================================
