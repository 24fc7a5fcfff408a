----------------------------- MODULE MCEntityQuery -----------------------------
(* Documents that match alone, that do not, that no plan selects but a link  *)
(* may lead to, and that link to one of two entities, themselves included.   *)
EXTENDS EntityQuery, TLC

MCDoc ==
  {[keep |-> k, holds |-> TRUE, ref |-> Nothing] : k \in BOOLEAN}
  \cup {[keep |-> TRUE, holds |-> FALSE, ref |-> e] : e \in Entity}

MCQuery ==
  [temporal : BOOLEAN, q : {"none", "own", "linked"}, limit : {1, 2, MaxRows}, count : BOOLEAN]

\* MCDoc treats all entities alike.
MCSymmetry == Permutations(Entity)
===============================================================================
