---------------------------- MODULE MCEntityWatch ----------------------------
(***************************************************************************)
(* Instances of EntityWatch for TLC.  Entities meet only in the queues of  *)
(* the watchers, where versions of one entity meet as well, so one entity  *)
(* with several versions shows every case.                                 *)
(***************************************************************************)
EXTENDS EntityWatch

CONSTANT k1
===============================================================================
