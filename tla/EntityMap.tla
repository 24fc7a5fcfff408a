------------------------------ MODULE EntityMap ------------------------------
(***************************************************************************)
(* What requests about one entity promise: the entity is there or not,     *)
(* each accepted write changed it once and atomically, and each refusal    *)
(* was true when it was given.  This is the repository contract as the     *)
(* in-memory implementation keeps it (src/src/persistence/memory.rs, one   *)
(* mutex around one map).  EntityStore implements it on DefraDB rows as    *)
(* long as requests do not overlap.                                        *)
(***************************************************************************)
CONSTANT Request

VARIABLES doc,     \* {} or {D}, D the requests whose effect the document shows
          applied, \* the requests that changed the entity
          reply    \* reply[r]: how r was answered, "none" before that

vars == <<doc, applied, reply>>

Init ==
  /\ doc = {}
  /\ applied = {}
  /\ reply = [r \in Request |-> "none"]

\* Effect of r on the document, once.
Apply(r, new) ==
  /\ reply[r] = "none" /\ r \notin applied
  /\ doc' = new
  /\ applied' = applied \cup {r}
  /\ UNCHANGED reply

Insert(r) == doc = {} /\ Apply(r, {{r}})

\* A patch keeps what was there, a replacement does not.
Replace(r) == \E D \in doc : \E new \in {{r}, D \cup {r}} : Apply(r, {new})

Delete(r) == doc # {} /\ Apply(r, {})

Answer(r, a) ==
  /\ reply[r] = "none"
  /\ reply' = [reply EXCEPT ![r] = a]
  /\ UNCHANGED <<doc, applied>>

Accept(r) == r \in applied /\ Answer(r, "ok")
Refuse(r) ==
  /\ r \notin applied
  /\ \/ doc = {} /\ Answer(r, "missing")
     \/ doc # {} /\ \E a \in {"exists", "refused"} : Answer(r, a)
Fail(r)   == Answer(r, "error")

Next ==
  \E r \in Request :
    Insert(r) \/ Replace(r) \/ Delete(r) \/ Accept(r) \/ Refuse(r) \/ Fail(r)

Spec == Init /\ [][Next]_vars
===============================================================================
