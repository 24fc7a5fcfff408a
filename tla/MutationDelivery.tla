--------------------------- MODULE MutationDelivery ---------------------------
(***************************************************************************)
(* What the replicated mutation log promises a subscriber, with no clock,  *)
(* cursor or poll: a broker announces an event of another broker at most   *)
(* once in one life of its process, only after the event was issued, and   *)
(* never announces an event of its own (README.md, "Cross-Node             *)
(* Notification Logic").  MutationLog implements this specification.       *)
(***************************************************************************)
EXTENDS Naturals

CONSTANTS Broker,   \* the broker processes of the swarm
          BrokerId, \* the broker id each process was configured with
          EventId   \* identifiers of mutation events, one per entity write

VARIABLES issued,   \* the events that entity writes have stamped so far
          origin,   \* origin[e]: the broker whose write stamped e
          sent      \* sent[b][e]: times b announced e since b last started

vars == <<issued, origin, sent>>

Foreign(b, e) == BrokerId[origin[e]] # BrokerId[b]

Init ==
  /\ issued = {}
  /\ origin \in [EventId -> Broker]
  /\ sent = [b \in Broker |-> [e \in EventId |-> 0]]

Issue(b, e) ==
  /\ e \notin issued
  /\ issued' = issued \cup {e}
  /\ origin' = [origin EXCEPT ![e] = b]
  /\ UNCHANGED sent

\* One poll may announce several events of a tenant.
Announce(b, S) ==
  /\ S \subseteq issued
  /\ \A e \in S : Foreign(b, e) /\ sent[b][e] = 0
  /\ sent' = [sent EXCEPT ![b] = [e \in EventId |-> IF e \in S THEN 1 ELSE @[e]]]
  /\ UNCHANGED <<issued, origin>>

\* A new process remembers nothing of what the previous one announced.
Forget(b) ==
  /\ sent' = [sent EXCEPT ![b] = [e \in EventId |-> 0]]
  /\ UNCHANGED <<issued, origin>>

Next ==
  \E b \in Broker :
    \/ \E e \in EventId : Issue(b, e)
    \/ \E S \in SUBSET EventId : Announce(b, S)
    \/ Forget(b)

Spec == Init /\ [][Next]_vars
===============================================================================
