------------------------ MODULE MCSubscriptionDelivery ------------------------
(***************************************************************************)
(* Instances of SubscriptionDelivery for TLC: requests create, patch or    *)
(* delete in any combination while one or two tasks deliver.               *)
(***************************************************************************)
EXTENDS SubscriptionDelivery, TLC

CONSTANTS c1, c2, c3, w1, w2

\* Requests and tasks are alike.
MCSymmetry == Permutations(Client) \cup Permutations(Worker)
===============================================================================
