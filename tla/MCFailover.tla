------------------------------ MODULE MCFailover ------------------------------
(***************************************************************************)
(* Clients of Guangdong Telecom (ct_gd, operator ct), of Unicom (cu, which *)
(* has no record unless one is added) and of no known line.                *)
(***************************************************************************)
EXTENDS Failover

CONSTANTS ct, ctgd, cu

MCBase == [c \in Client |-> IF c = ctgd THEN ct ELSE NoLine]
=============================================================================
