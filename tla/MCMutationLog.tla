---------------------------- MODULE MCMutationLog ----------------------------
(***************************************************************************)
(* Instances of MutationLog for TLC.  Every broker has a BROKER_ID of its  *)
(* own, as in docker-compose.yml.                                          *)
(***************************************************************************)
EXTENDS MutationLog

CONSTANTS b1, b2, e1, e2, t1, t2

MCBrokerId == [b \in Broker |-> b]
MCTwoTenants == [e \in EventId |-> IF e = e1 THEN t1 ELSE t2]
===============================================================================
