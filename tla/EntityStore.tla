------------------------------ MODULE EntityStore ------------------------------
(***************************************************************************)
(* Requests that write one entity, on the rows of one DefraDB node.        *)
(*                                                                         *)
(* DefraDB has no key on (tenant, entity id): an entity is whatever rows   *)
(* carry its id.  The repository (src/src/persistence/defradb.rs) builds   *)
(* insert, replace and delete from one lookup and one mutation each, and   *)
(* the services (src/src/services/entities.rs) put another lookup before   *)
(* them.  Every such call is an await, so requests interleave between any  *)
(* two of them.  Only batch creates and batches of peers take              *)
(* entity_write_lock.  A temporal entity is such rows of a collection of   *)
(* its own, and its services (src/src/services/temporal.rs) go the same    *)
(* ways; its document is the snapshot with the history.                    *)
(*                                                                         *)
(* A document is the set of the requests whose effect it shows: a patch    *)
(* adds itself to what it read, also where it overwrites.  A row           *)
(* keeps as its _docID the request that created it: DefraDB derives it     *)
(* from the first content, which carries timestamps no other create has.   *)
(* A batch of many entities is one request for each of them.  What the     *)
(* peers of a batch are told, and subscribers, is the business of          *)
(* EntityWatch.                                                            *)
(***************************************************************************)
EXTENDS Naturals, FiniteSets

CONSTANTS Request,    \* requests, and batches posted by peers
          Op,         \* what requests may ask for
          Replicated, \* TRUE iff DefraDB itself also brings the rows of peers
          MaxFailures  \* bound of failed or dropped requests

-------------------------------------------------------------------------------
(* The services, each as the way its request takes:                        *)
(*   collection  whose rows it is about                                    *)
(*   first       its first call                                            *)
(*   absent      where its own lookup leads if there is no entity,         *)
(*   present     and if there is one: a further call, or an answer         *)
(*   gone        where the lookup of the repository leads then             *)
(*   change      what it does to the document                              *)
(*   picky       it may refuse the entity it read: a type selector does    *)
(*               not match, the attribute is not there                     *)

merge == [collection |-> "EntityRecord", first |-> "check", absent |-> "missing",
          present |-> "find", gone |-> "add", change |-> "patch", picky |-> TRUE]
append_attrs == merge
update_attrs == merge
patch_attr   == merge
delete_attr  == merge
replace_attr == merge
batch_update == [merge EXCEPT !.picky = FALSE]
batch_merge  == [merge EXCEPT !.picky = FALSE]

replace == [merge EXCEPT !.change = "put"]

delete == [merge EXCEPT !.gone = "answer", !.change = "remove"]
batch_delete == [delete EXCEPT !.first = "find", !.gone = "missing", !.picky = FALSE]

create == [collection |-> "EntityRecord", first |-> "check", absent |-> "recheck",
           present |-> "exists", gone |-> "add", change |-> "put", picky |-> FALSE]
batch_create == [create EXCEPT !.absent = "lock"]
apply_peer_entity_batch == [create EXCEPT !.first = "lock", !.absent = "addMany"]

batch_upsert(update_mode) ==
  [create EXCEPT !.present = "find", !.change = IF update_mode THEN "patch" ELSE "put"]

\* The services of temporal entities; upsert replaces snapshot and history.
Temporal(o) == [o EXCEPT !.collection = "TemporalRecord"]
temporal_upsert ==
  [Temporal(merge) EXCEPT !.first = "find", !.change = "put", !.picky = FALSE]
temporal_append_attrs    == Temporal(batch_merge)
temporal_delete_attr     == Temporal(batch_merge)
temporal_patch_instance  == Temporal(merge)
temporal_delete_instance == Temporal(merge)
temporal_delete_entity   == Temporal(batch_delete)

Service ==
  {merge, append_attrs, update_attrs, patch_attr, delete_attr, replace_attr,
   batch_update, batch_merge, replace, delete, batch_delete, create,
   batch_create, apply_peer_entity_batch, batch_upsert(TRUE), batch_upsert(FALSE),
   temporal_upsert, temporal_append_attrs, temporal_delete_attr,
   temporal_patch_instance, temporal_delete_instance, temporal_delete_entity}

Unasked == [create EXCEPT !.first = "none"]

Calls   == {"check", "lock", "recheck", "add", "addMany", "find", "write", "answer"}
Answers == {"ok", "exists", "missing", "refused", "error"}

ASSUME StoreAssumption ==
  /\ Op \subseteq Service
  /\ Replicated \in BOOLEAN
  /\ MaxFailures \in Nat
  /\ "unasked" \notin Request

VARIABLES
  rows,     \* the rows of the entity in the node: [id, doc]
  used,     \* _docIDs the node has held a row for
  op, pc,   \* op[r], pc[r]: what r asks for, and how far it is
  copy,     \* copy[r]: the document r read, {} if there was none
  target,   \* target[r]: _docID of the row r looked up
  lock,     \* the request in the section of entity_write_lock, or NoRequest
  reply,    \* reply[r]: "none", or a member of Answers
  applied,  \* requests that changed a row
  inserted, \* peer batches whose own insert made the row
  before,   \* before[r]: requests answered when r came
  split,    \* TRUE iff the entity has had two rows at a time
  failures

vars == <<rows, used, op, pc, copy, target, lock, reply, applied, inserted,
          before, split, failures>>

NoRequest == "unasked"

Bulk == {batch_create, apply_peer_entity_batch} \* under the lock
Ids(R) == {row.id : row \in R}

Init ==
  /\ rows = {} /\ used = {}
  /\ op = [r \in Request |-> Unasked]
  /\ pc = [r \in Request |-> "new"]
  /\ copy = [r \in Request |-> {}]
  /\ target = [r \in Request |-> NoRequest]
  /\ lock = NoRequest
  /\ reply = [r \in Request |-> "none"]
  /\ applied = {} /\ inserted = {}
  /\ before = [r \in Request |-> {}]
  /\ split = FALSE
  /\ failures = 0

\* The rows of a behaviour are all of one collection.
SameCollection(o) ==
  \A q \in Request : op[q] = Unasked \/ op[q].collection = o.collection

Goto(r, l) == pc' = [pc EXCEPT ![r] = l]

\* Mutant of Answer: the lock stays taken.
AnswerHolding(r, a) ==
  /\ Goto(r, "done")
  /\ reply' = [reply EXCEPT ![r] = a]
  /\ UNCHANGED lock

\* r is answered with a, and leaves the locked section if it was in it.
Answer(r, a) ==
  /\ Goto(r, "done")
  /\ reply' = [reply EXCEPT ![r] = a]
  /\ lock' = IF lock = r THEN NoRequest ELSE lock

\* A lookup leads r to its next call or to its answer.
Follow(r, where) ==
  \/ where \in Calls /\ Goto(r, where) /\ UNCHANGED <<reply, lock>>
  \/ where \in Answers /\ Answer(r, where)

-------------------------------------------------------------------------------
(* Calls of the services.                                                    *)

Begin(r, o) ==
  /\ pc[r] = "new"
  /\ SameCollection(o)
  /\ op' = [op EXCEPT ![r] = o]
  /\ Goto(r, o.first)
  /\ before' = [before EXCEPT ![r] = {q \in Request : pc[q] = "done"}]
  /\ UNCHANGED <<rows, used, copy, target, lock, reply, applied, inserted, split, failures>>

\* get, or the query of a bulk insert: any row of the entity, the others unseen.
Check(r) ==
  /\ pc[r] = "check"
  /\ \/ rows = {} /\ Follow(r, op[r].absent) /\ UNCHANGED copy
     \/ \E row \in rows :
          /\ copy' = [copy EXCEPT ![r] = row.doc]
          /\ \/ Follow(r, op[r].present)
             \/ op[r].picky /\ Answer(r, "refused")
  /\ UNCHANGED <<rows, used, op, target, applied, inserted, before, split, failures>>

\* Mutant of Lock: the section is entered without waiting.
LockAtOnce(r) ==
  /\ pc[r] = "lock"
  /\ lock' = r
  /\ Goto(r, IF op[r].first = "lock" THEN "check" ELSE "addMany")
  /\ UNCHANGED <<rows, used, op, copy, target, reply, applied, inserted, before, split, failures>>

\* entity_write_lock.lock().await
Lock(r) ==
  /\ pc[r] = "lock"
  /\ lock = NoRequest
  /\ lock' = r
  /\ Goto(r, IF op[r].first = "lock" THEN "check" ELSE "addMany")
  /\ UNCHANGED <<rows, used, op, copy, target, reply, applied, inserted, before, split, failures>>

-------------------------------------------------------------------------------
(* Calls of the repository.                                                  *)

\* The lookup insert starts with.
Recheck(r) ==
  /\ pc[r] = "recheck"
  /\ Follow(r, IF rows = {} THEN "add" ELSE "exists")
  /\ UNCHANGED <<rows, used, op, copy, target, applied, inserted, before, split, failures>>

\* Mutant of Added: a patch writes its own fields only.
AddedBare(r) == [id |-> r, doc |-> {r}]

\* add_EntityRecord.  What it adds is the document of the request, or, in a
\* replace that found no row, what the request made of the one it read.
Added(r) == [id |-> r, doc |-> IF op[r].change = "patch" THEN copy[r] \cup {r} ELSE {r}]

Add(r) ==
  /\ pc[r] \in {"add", "addMany"}
  /\ r \notin Ids(rows)
  /\ rows' = rows \cup {Added(r)}
  /\ used' = used \cup {r}
  /\ applied' = applied \cup {r}
  /\ inserted' = IF op[r] = apply_peer_entity_batch THEN inserted \cup {r} ELSE inserted
  /\ Goto(r, "answer")
  /\ lock' = IF op[r] = batch_create THEN NoRequest ELSE lock
  /\ split' = (split \/ rows # {})
  /\ UNCHANGED <<op, copy, target, reply, before, failures>>

\* insert_peer_documents: DefraDB refuses a content it has already, here the
\* row of some entity of the batch; the batch is then inserted one by one.
AddManyDuplicate(r) ==
  /\ pc[r] = "addMany" /\ op[r] = apply_peer_entity_batch
  /\ Goto(r, "recheck")
  /\ UNCHANGED <<rows, used, op, copy, target, lock, reply, applied, inserted,
                 before, split, failures>>

\* ... and a refusal of this one is taken for success.
AddDuplicate(r) ==
  /\ pc[r] = "add" /\ r \in used
  /\ Answer(r, "exists")
  /\ UNCHANGED <<rows, used, op, copy, target, applied, inserted, before, split, failures>>

\* Mutant of Find: replace adds a row without looking for one.
FindNever(r) ==
  /\ pc[r] = "find"
  /\ Goto(r, "add")
  /\ UNCHANGED <<rows, used, op, copy, target, lock, reply, applied, inserted,
                 before, split, failures>>

\* The lookup of replace and of delete.
Find(r) ==
  /\ pc[r] = "find"
  /\ \/ rows = {} /\ Follow(r, op[r].gone) /\ UNCHANGED target
     \/ \E row \in rows :
          /\ target' = [target EXCEPT ![r] = row.id]
          /\ Goto(r, "write")
          /\ UNCHANGED <<reply, lock>>
  /\ UNCHANGED <<rows, used, op, copy, applied, inserted, before, split, failures>>

\* update_EntityRecord or delete_EntityRecord with that _docID.  Neither looks
\* at how many rows it changed.
Write(r) ==
  LET row == {q \in rows : q.id = target[r]}
      new == {[id |-> q.id, doc |-> Added(r).doc] : q \in row} IN
  /\ pc[r] = "write"
  /\ rows' = (rows \ row) \cup IF op[r].change = "remove" THEN {} ELSE new
  /\ applied' = IF row = {} THEN applied ELSE applied \cup {r}
  /\ Goto(r, "answer")
  /\ UNCHANGED <<used, op, copy, target, lock, reply, inserted, before, split, failures>>

-------------------------------------------------------------------------------
\* Announce (nothing here) and answer.
Reply(r) ==
  /\ pc[r] = "answer"
  /\ Answer(r, "ok")
  /\ UNCHANGED <<rows, used, op, copy, target, applied, inserted, before, split, failures>>

\* A call fails for good, or the client goes and the handler is dropped; either
\* way the guard of the lock goes too.  A mutation that took effect before its
\* answer was lost is this step right after that one.
Die(r) ==
  /\ pc[r] \notin {"new", "done"}
  /\ failures < MaxFailures
  /\ failures' = failures + 1
  /\ Answer(r, "error")
  /\ UNCHANGED <<rows, used, op, copy, target, applied, inserted, before, split>>

\* DefraDB brings the row a peer batch is about, before or after the batch.
RowArrives(r) ==
  /\ Replicated
  /\ apply_peer_entity_batch \in Op
  /\ op[r] \in {apply_peer_entity_batch, Unasked}
  /\ SameCollection(apply_peer_entity_batch)
  /\ r \notin used
  /\ op' = [op EXCEPT ![r] = apply_peer_entity_batch]
  /\ rows' = rows \cup {[id |-> r, doc |-> {r}]}
  /\ used' = used \cup {r}
  /\ split' = (split \/ rows # {})
  /\ UNCHANGED <<pc, copy, target, lock, reply, applied, inserted, before, failures>>

Call(r) ==
  \/ Check(r) \/ Lock(r) \/ Recheck(r) \/ Add(r)
  \/ AddManyDuplicate(r) \/ AddDuplicate(r) \/ Find(r) \/ Write(r) \/ Reply(r)

\* Nobody is left to answer.  In any other state a request must be able to go
\* on, or TLC reports a deadlock: nobody waits for entity_write_lock for ever.
Idle == (\A r \in Request : pc[r] = "done") /\ UNCHANGED vars

Next ==
  \/ \E r \in Request :
       \/ \E o \in Op : (op[r] = Unasked \/ op[r] = o) /\ Begin(r, o)
       \/ Call(r)
       \/ Die(r) \/ RowArrives(r)
  \/ Idle

Spec == Init /\ [][Next]_vars
-------------------------------------------------------------------------------
\* Types; only a bulk request is ever in the locked section, and rows have
\* different _docIDs.
TypeOK ==
  /\ rows \subseteq [id : used, doc : SUBSET Request]
  /\ \A x, y \in rows : x.id = y.id => x = y
  /\ used \subseteq Request
  /\ op \in [Request -> Op \cup {Unasked}]
  /\ pc \in [Request -> Calls \cup {"new", "done"}]
  /\ copy \in [Request -> SUBSET Request]
  /\ target \in [Request -> Request \cup {NoRequest}]
  /\ lock \in Request \cup {NoRequest}
  /\ lock # NoRequest => op[lock] \in Bulk /\ pc[lock] \notin {"new", "lock", "done"}
  /\ reply \in [Request -> Answers \cup {"none"}]
  /\ applied \subseteq Request /\ inserted \subseteq applied
  /\ before \in [Request -> SUBSET Request]
  /\ split \in BOOLEAN
  /\ failures \in 0 .. MaxFailures

Map == INSTANCE EntityMap WITH
         doc <- {row.doc : row \in rows}

Begun == {r \in Request : pc[r] # "new"}
Overlap(q, r) == q # r /\ {q, r} \subseteq Begun /\ q \notin before[r] /\ r \notin before[q]

\* So far requests came one at a time, and no row by replication.
Serial == used \subseteq applied /\ \A q, r \in Request : ~ Overlap(q, r)

\* As long as requests come one at a time, the two lookups, the row mutation and
\* the answer of each together are one operation of the in-memory repository.
SerialImplementsMap == Map!Init /\ [][Serial' => [Map!Next]_(Map!vars)]_vars

\* Batches of peers hold the lock from their query to their insert, so however
\* many brokers created the entity, their batches leave one row of it, also
\* when rows arrive by replication meanwhile and batches fall back to single
\* inserts ("serializes bulk entity writes", src/src/app/state.rs).
PeerBatchesOneRow ==
  Cardinality({row \in rows : row.id \in inserted}) <= 1

\* A change that was answered with success and is nowhere any more was undone
\* by a request that came later to replace or delete the entity, or some
\* request overlapped it: reading a document and writing it back loses
\* nothing by itself.  Once the entity has two rows this is no longer so: the
\* lookup of a replace may take another row than the one the request read.
LossNeedsOverlap ==
  ~ split => \A r \in Request :
    /\ reply[r] = "ok" /\ op[r].change # "remove"
    /\ \A row \in rows : r \notin row.doc
    => \E q \in Request :
         \/ Overlap(q, r)
         \/ r \in before[q] /\ op[q].change \in {"remove", "put"}

\* "Deletes entity document" (repository.rs): when a delete was accepted and
\* every other request was answered before it came, the entity is gone.
DeletedIsGone ==
  \A r \in Request :
    reply[r] = "ok" /\ op[r] = delete /\ before[r] = Request \ {r} => rows = {}
===============================================================================
