---------------------------- MODULE SubscriptionMap ----------------------------
(***************************************************************************)
(* What one subscription and its delivery accounting promise: the map of   *)
(* src/src/persistence/memory.rs, where creating, patching, deleting and   *)
(* adding up the notifications of one delivery are each one step.  The     *)
(* subscription is a set of at most one record.                            *)
(***************************************************************************)
EXTENDS Naturals

CONSTANTS Client, \* requests about the subscription
          Worker  \* tasks that deliver notifications

VARIABLES sub, \* {} or {[patches, sent, failed]}
          due  \* due[w]: [ok, bad], notifications w has posted but not yet added

vars == <<sub, due>>

NothingDue == [ok |-> 0, bad |-> 0]

\* prepare_subscription
Fresh == [patches |-> {}, sent |-> 0, failed |-> 0]

\* update_delivery_fields
Counted(s, d) == [s EXCEPT !.sent = @ + d.ok + d.bad, !.failed = @ + d.bad]

\* apply_merge_patch
Patched(s, c) == [s EXCEPT !.patches = @ \cup {c}]

Init ==
  /\ sub = {}
  /\ due = [w \in Worker |-> NothingDue]

Create == sub = {} /\ sub' = {Fresh} /\ UNCHANGED due

Patch(c) == \E s \in sub : sub' = {Patched(s, c)} /\ UNCHANGED due

Delete == sub # {} /\ sub' = {} /\ UNCHANGED due

Post(w) ==
  /\ \/ due' = [due EXCEPT ![w].ok = @ + 1]
     \/ due' = [due EXCEPT ![w].bad = @ + 1]
  /\ UNCHANGED sub

Mark(w) ==
  /\ \E s \in sub : sub' = {Counted(s, due[w])}
  /\ due' = [due EXCEPT ![w] = NothingDue]

\* The subscription is gone or the delivery failed: its counts are dropped.
Drop(w) == due' = [due EXCEPT ![w] = NothingDue] /\ UNCHANGED sub

Next ==
  \/ Create \/ Delete
  \/ \E c \in Client : Patch(c)
  \/ \E w \in Worker : Post(w) \/ Mark(w) \/ Drop(w)

Spec == Init /\ [][Next]_vars
===============================================================================
