---------------------------- MODULE MCEntityStore ----------------------------
(***************************************************************************)
(* Instances of EntityStore for TLC.                                       *)
(***************************************************************************)
EXTENDS EntityStore, TLC

CONSTANTS r1, r2, r3

\* merge also stands for the services on attributes, which take the same way,
\* and for batch_update and batch_merge, which refuse less;
\* temporal_patch_instance likewise for the temporal ones.
MCAll ==
  {create, merge, replace, delete, batch_create, batch_delete, batch_upsert(TRUE),
   batch_upsert(FALSE), apply_peer_entity_batch, temporal_upsert,
   temporal_patch_instance, temporal_delete_entity}
MCCreateDelete == {create, delete}

\* Requests differ in nothing but what they ask for.
MCSymmetry == Permutations(Request)
===============================================================================
