-------------------------- MODULE EntityStoreProofs --------------------------
(***************************************************************************)
(* What holds of EntityStore for any requests, services and failures.      *)
(* Overlapping or not:                                                     *)
(*   - its types, with who may be in the section of entity_write_lock;     *)
(*   - the batches of peers leave one row of an entity.                    *)
(* Of what becomes of a request:                                           *)
(*   - a change that was answered with success is lost only to a request   *)
(*     that overlapped it or came later to replace or delete the entity;   *)
(*   - requests that come one at a time are operations of EntityMap, the   *)
(*     in-memory repository.                                               *)
(***************************************************************************)
EXTENDS EntityStore, FiniteSetTheorems, TLAPS

(***************************************************************************)
(* The services                                                            *)
(***************************************************************************)

\* Where the way of a service may lead from each of its lookups; only bulk
\* services come to the lock, and only batches of peers from a lookup inside.
WellFormed(o) ==
  /\ o.first \in {"check", "lock", "find"}
  /\ o.absent \in {"missing", "recheck", "lock", "addMany"}
  /\ o.present \in {"find", "exists"}
  /\ o.gone \in {"add", "answer", "missing"}
  /\ o.first = "lock" => o = apply_peer_entity_batch
  /\ o.absent = "lock" => o = batch_create
  /\ o.absent = "addMany" => o = apply_peer_entity_batch
  /\ o = apply_peer_entity_batch =>
       o.first = "lock" /\ o.absent = "addMany" /\ o.present = "exists"
  /\ o = batch_create =>
       o.first = "check" /\ o.absent = "lock" /\ o.present = "exists"

\* Every service of the API, alone or in a bulk request, has such a way.
LEMMA Services == \A o \in Service : WellFormed(o)
<1> USE DEF WellFormed
<1> USE DEF merge, create, batch_create, apply_peer_entity_batch
<1>1. WellFormed(merge)
  OBVIOUS
<1>2. WellFormed(batch_update) /\ WellFormed(batch_merge)
  BY DEF batch_update, batch_merge
<1>3. WellFormed(replace)
  BY DEF replace
<1>4. WellFormed(delete) /\ WellFormed(batch_delete)
  BY DEF delete, batch_delete
<1>5. WellFormed(create)
  OBVIOUS
<1>6. WellFormed(batch_create)
  OBVIOUS
<1>7. WellFormed(apply_peer_entity_batch)
  OBVIOUS
<1>8. WellFormed(batch_upsert(TRUE)) /\ WellFormed(batch_upsert(FALSE))
  BY DEF batch_upsert
<1>9. WellFormed(temporal_upsert)
  BY ZenonT(60) DEF temporal_upsert, Temporal
<1>10. WellFormed(temporal_append_attrs) /\ WellFormed(temporal_patch_instance)
  BY DEF temporal_append_attrs, temporal_patch_instance, Temporal, batch_merge
<1>11. WellFormed(temporal_delete_entity)
  BY DEF temporal_delete_entity, Temporal, delete, batch_delete
<1> HIDE DEF WellFormed, merge, create, batch_create, apply_peer_entity_batch
<1>12. QED
  BY <1>1, <1>2, <1>3, <1>4, <1>5, <1>6, <1>7, <1>8, <1>9, <1>10, <1>11
  DEF Service, append_attrs, update_attrs, patch_attr, delete_attr, replace_attr,
      temporal_append_attrs, temporal_delete_attr, temporal_patch_instance,
      temporal_delete_instance

(***************************************************************************)
(* Types                                                                   *)
(***************************************************************************)

\* The conjuncts of TypeOK, in groups.
RowTypes ==
  /\ rows \subseteq [id : used, doc : SUBSET Request]
  /\ \A x, y \in rows : x.id = y.id => x = y
  /\ used \subseteq Request
  /\ applied \subseteq Request /\ inserted \subseteq applied

RequestTypes ==
  /\ op \in [Request -> Op \cup {Unasked}]
  /\ pc \in [Request -> Calls \cup {"new", "done"}]
  /\ copy \in [Request -> SUBSET Request]
  /\ target \in [Request -> Request \cup {NoRequest}]
  /\ reply \in [Request -> Answers \cup {"none"}]
  /\ before \in [Request -> SUBSET Request]

LockTypes ==
  /\ lock \in Request \cup {NoRequest}
  /\ lock # NoRequest => op[lock] \in Bulk /\ pc[lock] \notin {"new", "lock", "done"}

OtherTypes == split \in BOOLEAN /\ failures \in 0 .. MaxFailures

\* The groups make up TypeOK.
LEMMA Groups == TypeOK <=> RowTypes /\ RequestTypes /\ LockTypes /\ OtherTypes
BY Zenon DEF TypeOK, RowTypes, RequestTypes, LockTypes, OtherTypes

\* A batch create is inside the section only for its insert, and nobody else
\* but a bulk request waits for it.
LockUse ==
  /\ \A r \in Request : op[r] = Unasked => pc[r] = "new"
  /\ \A r \in Request : pc[r] = "lock" => op[r] \in Bulk
  /\ lock # NoRequest /\ op[lock] = batch_create => pc[lock] = "addMany"

\* The inductive invariant behind TypeOK.
TypeInv == RowTypes /\ RequestTypes /\ LockTypes /\ OtherTypes /\ LockUse

\* A request that has made a call was asked for a service.
LEMMA OpKnown ==
  ASSUME TypeInv, NEW r \in Request, pc[r] # "new"
  PROVE  op[r] \in Op /\ WellFormed(op[r])
BY Services, StoreAssumption DEF TypeInv, RequestTypes, LockUse

\* The initial state has the types.
LEMMA TypeInvInit == Init => TypeInv
<1> SUFFICES ASSUME Init PROVE TypeInv
  OBVIOUS
<1> USE StoreAssumption DEF Init
<1>1. RowTypes
  BY DEF RowTypes
<1>2. RequestTypes
  BY DEF RequestTypes
<1>3. LockTypes /\ LockUse
  BY DEF LockTypes, LockUse
<1>4. failures \in 0 .. MaxFailures
  OBVIOUS
<1>5. QED
  BY <1>1, <1>2, <1>3, <1>4 DEF TypeInv, OtherTypes

\* The bulk services are told apart by their first call, and none is no service.
LEMMA Distinct ==
  /\ batch_create # apply_peer_entity_batch
  /\ \A o \in Op : o # Unasked
  /\ apply_peer_entity_batch # Unasked
<1>1. batch_create.first = "check" /\ apply_peer_entity_batch.first = "lock"
  BY DEF batch_create, apply_peer_entity_batch, create
<1>2. Unasked.first = "none"
  BY DEF Unasked, create
<1>3. \A o \in Op : o.first # "none"
  BY Services, StoreAssumption DEF WellFormed
<1>4. QED
  BY <1>1, <1>2, <1>3

\* Every step keeps the types.
LEMMA TypeInvStep == TypeInv /\ [Next]_vars => TypeInv'
<1> SUFFICES ASSUME TypeInv, [Next]_vars PROVE TypeInv'
  OBVIOUS
<1> USE StoreAssumption
<1>1. ASSUME NEW r \in Request, NEW o \in Op, Begin(r, o)
      PROVE  TypeInv'
  <2>1. WellFormed(o) /\ o # Unasked
    BY Services, Distinct
  <2>2. RowTypes' /\ OtherTypes'
    BY <1>1, Zenon DEF Begin, TypeInv, RowTypes, OtherTypes
  <2>3. RequestTypes'
    BY <1>1, <2>1 DEF Begin, Goto, TypeInv, RequestTypes, WellFormed, Calls
  <2>4. LockTypes'
    BY <1>1 DEF Begin, Goto, TypeInv, LockTypes
  <2>5. LockUse'
    BY <1>1, <2>1
    DEF Begin, Goto, TypeInv, RequestTypes, LockTypes, LockUse, WellFormed, Bulk
  <2>6. QED
    BY <2>2, <2>3, <2>4, <2>5 DEF TypeInv
<1>2. ASSUME NEW r \in Request, Check(r)
      PROVE  TypeInv'
  <2>1. pc[r] # "new" => op[r] \in Op /\ WellFormed(op[r]) /\ op[r] # Unasked
    BY OpKnown, Distinct
  <2>2. RowTypes'
    BY <1>2 DEF Check, TypeInv, RowTypes
  <2>3. RequestTypes'
    BY <1>2 DEF Check, Follow, Answer, Goto, TypeInv, RequestTypes, RowTypes, Answers
  <2>4. LockTypes'
    BY <1>2, <2>1
    DEF Check, Follow, Answer, Goto, TypeInv, RequestTypes, LockTypes, LockUse, WellFormed
  <2>5. LockUse'
    BY <1>2, <2>1
    DEF Check, Follow, Answer, Goto, TypeInv, RequestTypes, LockTypes, LockUse, WellFormed,
        Bulk
  <2>6. OtherTypes'
    BY <1>2 DEF Check, TypeInv, OtherTypes
  <2>7. QED
    BY <2>2, <2>3, <2>4, <2>5, <2>6 DEF TypeInv
<1>3. ASSUME NEW r \in Request, Lock(r)
      PROVE  TypeInv'
  <2>1. pc[r] # "new" => op[r] \in Op /\ WellFormed(op[r]) /\ op[r] # Unasked
    BY OpKnown, Distinct
  <2>2. RowTypes'
    BY <1>3 DEF Lock, TypeInv, RowTypes
  <2>3. RequestTypes'
    BY <1>3 DEF Lock, Goto, TypeInv, RequestTypes, Calls
  <2>4. LockTypes'
    BY <1>3 DEF Lock, Goto, TypeInv, RequestTypes, LockTypes, LockUse
  <2>5. LockUse'
    BY <1>3, <2>1 DEF Lock, Goto, TypeInv, RequestTypes, LockUse, WellFormed
  <2>6. OtherTypes'
    BY <1>3 DEF Lock, TypeInv, OtherTypes
  <2>7. QED
    BY <2>2, <2>3, <2>4, <2>5, <2>6 DEF TypeInv
<1>4. ASSUME NEW r \in Request, Recheck(r)
      PROVE  TypeInv'
  <2>1. RowTypes'
    BY <1>4 DEF Recheck, TypeInv, RowTypes
  <2>2. RequestTypes'
    BY <1>4 DEF Recheck, Follow, Answer, Goto, TypeInv, RequestTypes
  <2>3. LockTypes'
    BY <1>4 DEF Recheck, Follow, Answer, Goto, TypeInv, RequestTypes, LockTypes
  <2>4. LockUse'
    BY <1>4 DEF Recheck, Follow, Answer, Goto, TypeInv, RequestTypes, LockTypes, LockUse
  <2>5. OtherTypes'
    BY <1>4 DEF Recheck, TypeInv, OtherTypes
  <2>6. QED
    BY <2>1, <2>2, <2>3, <2>4, <2>5 DEF TypeInv
<1>5. ASSUME NEW r \in Request, Add(r)
      PROVE  TypeInv'
  <2>1. RowTypes'
    <3>1. Added(r) \in [id : {r}, doc : SUBSET Request] /\ Added(r).id = r
      BY DEF Added, TypeInv, RequestTypes
    <3>2. \A x \in rows : x.id \in used /\ x.id # r
      BY <1>5 DEF Add, Ids, TypeInv, RowTypes
    <3>3. rows' \subseteq [id : used', doc : SUBSET Request]
      BY <1>5, <3>1 DEF Add, TypeInv, RowTypes
    <3>4. \A x, y \in rows' : x.id = y.id => x = y
      BY <1>5, <3>1, <3>2 DEF Add, TypeInv, RowTypes
    <3>5. used' \subseteq Request /\ applied' \subseteq Request /\ inserted' \subseteq applied'
      BY <1>5 DEF Add, TypeInv, RowTypes
    <3>6. QED
      BY <3>3, <3>4, <3>5 DEF RowTypes
  <2>2. RequestTypes'
    BY <1>5 DEF Add, Goto, TypeInv, RequestTypes, Calls
  <2>3. LockTypes'
    BY <1>5 DEF Add, Goto, TypeInv, LockTypes
  <2>4. LockUse'
    BY <1>5 DEF Add, Goto, TypeInv, LockUse
  <2>5. OtherTypes'
    BY <1>5 DEF Add, TypeInv, OtherTypes
  <2>6. QED
    BY <2>1, <2>2, <2>3, <2>4, <2>5 DEF TypeInv
<1>6. ASSUME NEW r \in Request, AddManyDuplicate(r)
      PROVE  TypeInv'
  <2>1. RowTypes'
    BY <1>6 DEF AddManyDuplicate, TypeInv, RowTypes
  <2>2. RequestTypes'
    BY <1>6 DEF AddManyDuplicate, Goto, TypeInv, RequestTypes, Calls
  <2>3. LockTypes'
    BY <1>6 DEF AddManyDuplicate, Goto, TypeInv, LockTypes
  <2>4. LockUse'
    BY <1>6, Distinct DEF AddManyDuplicate, Goto, TypeInv, LockUse
  <2>5. OtherTypes'
    BY <1>6 DEF AddManyDuplicate, TypeInv, OtherTypes
  <2>6. QED
    BY <2>1, <2>2, <2>3, <2>4, <2>5 DEF TypeInv
<1>7. ASSUME NEW r \in Request, AddDuplicate(r)
      PROVE  TypeInv'
  <2>1. RowTypes'
    BY <1>7 DEF AddDuplicate, TypeInv, RowTypes
  <2>2. RequestTypes'
    BY <1>7 DEF AddDuplicate, Answer, Goto, TypeInv, RequestTypes, Answers
  <2>3. LockTypes'
    BY <1>7 DEF AddDuplicate, Answer, Goto, TypeInv, LockTypes
  <2>4. LockUse'
    BY <1>7 DEF AddDuplicate, Answer, Goto, TypeInv, LockUse
  <2>5. OtherTypes'
    BY <1>7 DEF AddDuplicate, TypeInv, OtherTypes
  <2>6. QED
    BY <2>1, <2>2, <2>3, <2>4, <2>5 DEF TypeInv
<1>8. ASSUME NEW r \in Request, Find(r)
      PROVE  TypeInv'
  <2>1. pc[r] # "new" => op[r] \in Op /\ WellFormed(op[r]) /\ op[r] # Unasked
    BY OpKnown, Distinct
  <2>2. RowTypes'
    BY <1>8 DEF Find, TypeInv, RowTypes
  <2>3. RequestTypes'
    BY <1>8 DEF Find, Follow, Answer, Goto, TypeInv, RequestTypes, RowTypes, Calls
  <2>4. LockTypes'
    BY <1>8, <2>1
    DEF Find, Follow, Answer, Goto, TypeInv, RequestTypes, LockTypes, WellFormed
  <2>5. LockUse'
    BY <1>8, <2>1
    DEF Find, Follow, Answer, Goto, TypeInv, RequestTypes, LockTypes, LockUse, WellFormed
  <2>6. OtherTypes'
    BY <1>8 DEF Find, TypeInv, OtherTypes
  <2>7. QED
    BY <2>2, <2>3, <2>4, <2>5, <2>6 DEF TypeInv
<1>9. ASSUME NEW r \in Request, Write(r)
      PROVE  TypeInv'
  <2>1. RowTypes'
    <3> DEFINE row == {q \in rows : q.id = target[r]}
               new == {[id |-> q.id, doc |-> Added(r).doc] : q \in row}
    <3>1. Added(r).doc \in SUBSET Request
      BY DEF Added, TypeInv, RequestTypes
    <3>2. \A x \in new : x.id = target[r] /\ x \in [id : used, doc : SUBSET Request]
      BY <3>1 DEF TypeInv, RowTypes
    <3>3. rows' \subseteq (rows \ row) \cup new
      BY <1>9 DEF Write
    <3>4. \A x \in rows' : x \in new \/ (x \in rows /\ x.id # target[r])
      BY <3>3
    <3>5. rows' \subseteq [id : used', doc : SUBSET Request]
      BY <1>9, <3>2 DEF Write, TypeInv, RowTypes
    <3>6. \A x, y \in rows' : x.id = y.id => x = y
      BY <3>4 DEF TypeInv, RowTypes
    <3>7. used' \subseteq Request /\ applied' \subseteq Request /\ inserted' \subseteq applied'
      BY <1>9 DEF Write, TypeInv, RowTypes
    <3>8. QED
      BY <3>5, <3>6, <3>7 DEF RowTypes
  <2>2. RequestTypes'
    BY <1>9 DEF Write, Goto, TypeInv, RequestTypes, Calls
  <2>3. LockTypes'
    BY <1>9 DEF Write, Goto, TypeInv, LockTypes
  <2>4. LockUse'
    BY <1>9 DEF Write, Goto, TypeInv, LockUse
  <2>5. OtherTypes'
    BY <1>9 DEF Write, TypeInv, OtherTypes
  <2>6. QED
    BY <2>1, <2>2, <2>3, <2>4, <2>5 DEF TypeInv
<1>10. ASSUME NEW r \in Request, Reply(r)
      PROVE  TypeInv'
  <2>1. RowTypes'
    BY <1>10 DEF Reply, TypeInv, RowTypes
  <2>2. RequestTypes'
    BY <1>10 DEF Reply, Answer, Goto, TypeInv, RequestTypes, Answers
  <2>3. LockTypes'
    BY <1>10 DEF Reply, Answer, Goto, TypeInv, LockTypes
  <2>4. LockUse'
    BY <1>10 DEF Reply, Answer, Goto, TypeInv, LockUse
  <2>5. OtherTypes'
    BY <1>10 DEF Reply, TypeInv, OtherTypes
  <2>6. QED
    BY <2>1, <2>2, <2>3, <2>4, <2>5 DEF TypeInv
<1>11. ASSUME NEW r \in Request, Die(r)
      PROVE  TypeInv'
  <2>1. RowTypes'
    BY <1>11 DEF Die, TypeInv, RowTypes
  <2>2. RequestTypes'
    BY <1>11 DEF Die, Answer, Goto, TypeInv, RequestTypes, Answers
  <2>3. LockTypes'
    BY <1>11 DEF Die, Answer, Goto, TypeInv, LockTypes
  <2>4. LockUse'
    BY <1>11 DEF Die, Answer, Goto, TypeInv, LockUse
  <2>5. OtherTypes'
    BY <1>11 DEF Die, TypeInv, OtherTypes
  <2>6. QED
    BY <2>1, <2>2, <2>3, <2>4, <2>5 DEF TypeInv
<1>12. ASSUME NEW r \in Request, RowArrives(r)
      PROVE  TypeInv'
  <2>1. pc[r] # "new" => op[r] \in Op /\ WellFormed(op[r]) /\ op[r] # Unasked
    BY OpKnown, Distinct
  <2>2. RowTypes'
    <3> DEFINE row == [id |-> r, doc |-> {r}]
    <3>1. row \in [id : {r}, doc : SUBSET Request] /\ row.id = r
      OBVIOUS
    <3>2. \A x \in rows : x.id # r
      BY <1>12 DEF RowArrives, TypeInv, RowTypes
    <3>3. rows' = rows \cup {row} /\ used' = used \cup {r}
      BY <1>12 DEF RowArrives
    <3> HIDE DEF row
    <3>4. \A x, y \in rows' : x.id = y.id => x = y
      BY <3>1, <3>2, <3>3 DEF TypeInv, RowTypes
    <3>5. QED
      BY <1>12, <3>4 DEF RowArrives, TypeInv, RowTypes
  <2>3. RequestTypes'
    BY <1>12 DEF RowArrives, TypeInv, RequestTypes
  <2>4. LockTypes'
    BY <1>12, <2>1 DEF RowArrives, TypeInv, LockTypes
  <2>5. LockUse'
    BY <1>12, Distinct DEF RowArrives, TypeInv, LockUse
  <2>6. OtherTypes'
    BY <1>12 DEF RowArrives, TypeInv, OtherTypes
  <2>7. QED
    BY <2>2, <2>3, <2>4, <2>5, <2>6 DEF TypeInv
<1>13. CASE UNCHANGED vars
  BY <1>13, Zenon DEF vars, TypeInv, RowTypes, RequestTypes, LockTypes, OtherTypes, LockUse
<1>14. QED
  BY <1>1, <1>2, <1>3, <1>4, <1>5, <1>6, <1>7, <1>8, <1>9, <1>10, <1>11, <1>12, <1>13
  DEF Next, Call, Idle

\* The types hold in every state, for any requests, services and entities in the
\* store; with them, whoever is in the section of entity_write_lock is a bulk
\* request that has neither answered nor come to the lock again.
THEOREM TypeCorrect == Spec => []TypeOK
<1>1. TypeInv => TypeOK
  BY Groups DEF TypeInv
<1>2. QED
  BY <1>1, TypeInvInit, TypeInvStep, PTL DEF Spec

(***************************************************************************)
(* Batches of peers                                                        *)
(***************************************************************************)

\* Between its first call and its answer a batch of a peer is in the locked
\* section, where no other batch can insert: from the lookup that found no
\* entity until its own insert, no row was made by one.
PeerHolds ==
  \A r \in Request :
    /\ op[r] = apply_peer_entity_batch /\ pc[r] \notin {"new", "lock", "done"}
         => lock = r /\ pc[r] \notin {"find", "write"}
    /\ op[r] = batch_create /\ pc[r] = "addMany" => lock = r
    /\ op[r] = batch_create => pc[r] \notin {"recheck", "add", "find", "write"}

\* The rows batches of peers inserted.
Ours == {row \in rows : row.id \in inserted}

\* There is none while a batch is about to insert.
NoneWhileInserting ==
  \A r \in Request :
    op[r] = apply_peer_entity_batch /\ pc[r] \in {"addMany", "recheck", "add"}
      => Ours = {}

\* There is at most one.
OneOfOurs == \A x, y \in Ours : x = y

\* Only batches of peers insert such rows, each once.
Inserters ==
  inserted \subseteq used /\ \A q \in inserted : op[q] = apply_peer_entity_batch

\* The inductive invariant.
PeerInv ==
  /\ TypeInv
  /\ Inserters
  /\ PeerHolds
  /\ NoneWhileInserting
  /\ OneOfOurs

\* No batch has inserted anything at first.
LEMMA PeerInvInit == Init => PeerInv
<1> SUFFICES ASSUME Init PROVE PeerInv
  OBVIOUS
<1>1. PeerHolds /\ NoneWhileInserting /\ OneOfOurs /\ Inserters
  BY DEF Init, Inserters, PeerHolds, NoneWhileInserting, OneOfOurs, Ours
<1>2. QED
  BY <1>1, TypeInvInit DEF PeerInv

\* A step that adds no row and inserts for nobody, and takes the batch of a
\* peer to an insert only if there is no row or it was on its way there.
LEMMA QuietStep ==
  ASSUME PeerInv, rows' = rows, inserted' = inserted,
         \A q \in Request :
           op'[q] = apply_peer_entity_batch /\ pc'[q] \in {"addMany", "recheck", "add"}
             => \/ rows = {}
                \/ op[q] = apply_peer_entity_batch /\ pc[q] \in {"addMany", "recheck", "add"}
  PROVE  NoneWhileInserting' /\ OneOfOurs'
BY DEF PeerInv, NoneWhileInserting, OneOfOurs, Ours

\* Every step keeps the section to one batch, and its insert to an empty store.
LEMMA PeerInvStep == PeerInv /\ [Next]_vars => PeerInv'
<1> SUFFICES ASSUME PeerInv, [Next]_vars PROVE PeerInv'
  OBVIOUS
<1> USE StoreAssumption
<1>0. TypeInv /\ TypeInv'
  BY TypeInvStep DEF PeerInv
<1>1. ASSUME NEW r \in Request, NEW o \in Op, op[r] = Unasked \/ op[r] = o, Begin(r, o)
      PROVE  PeerInv'
  <2>1. WellFormed(o)
    BY Services
  <2>2. PeerHolds'
    BY <1>1, <2>1 DEF Begin, Goto, PeerInv, PeerHolds, TypeInv, RequestTypes, WellFormed
  <2>3. NoneWhileInserting' /\ OneOfOurs'
    BY <1>1, <2>1, QuietStep DEF Begin, Goto, WellFormed
  <2>4. Inserters'
    BY <1>1, Distinct DEF Begin, PeerInv, Inserters
  <2>5. QED
    BY <1>0, <2>2, <2>3, <2>4 DEF PeerInv
<1>2. ASSUME NEW r \in Request, Check(r)
      PROVE  PeerInv'
  <2>1. pc[r] # "new" => WellFormed(op[r])
    BY <1>0, OpKnown
  <2>2. PeerHolds'
    BY <1>2, <2>1
    DEF Check, Follow, Answer, Goto, PeerInv, PeerHolds, TypeInv, RequestTypes, WellFormed
  <2>3. NoneWhileInserting' /\ OneOfOurs'
    BY <1>0, <1>2, <2>1, QuietStep
    DEF Check, Follow, Answer, Goto, TypeInv, RequestTypes, WellFormed
  <2>4. Inserters'
    BY <1>2 DEF Check, PeerInv, Inserters
  <2>5. QED
    BY <1>0, <2>2, <2>3, <2>4 DEF PeerInv
<1>3. ASSUME NEW r \in Request, Lock(r)
      PROVE  PeerInv'
  <2>1. pc[r] # "new" => WellFormed(op[r])
    BY <1>0, OpKnown
  <2>2. PeerHolds'
    BY <1>3 DEF Lock, Goto, PeerInv, PeerHolds, NoRequest
  <2>3. NoneWhileInserting' /\ OneOfOurs'
    BY <1>3, <2>1, QuietStep DEF Lock, Goto, WellFormed
  <2>4. Inserters'
    BY <1>3 DEF Lock, PeerInv, Inserters
  <2>5. QED
    BY <1>0, <2>2, <2>3, <2>4 DEF PeerInv
<1>4. ASSUME NEW r \in Request, Recheck(r)
      PROVE  PeerInv'
  <2>1. PeerHolds'
    BY <1>4 DEF Recheck, Follow, Answer, Goto, PeerInv, PeerHolds, TypeInv, RequestTypes
  <2>2. NoneWhileInserting' /\ OneOfOurs'
    BY <1>0, <1>4, QuietStep DEF Recheck, Follow, Answer, Goto, TypeInv, RequestTypes
  <2>3. Inserters'
    BY <1>4 DEF Recheck, PeerInv, Inserters
  <2>4. QED
    BY <1>0, <2>1, <2>2, <2>3 DEF PeerInv
<1>5. ASSUME NEW r \in Request, AddManyDuplicate(r)
      PROVE  PeerInv'
  <2>1. PeerHolds'
    BY <1>5, Distinct DEF AddManyDuplicate, Goto, PeerInv, PeerHolds
  <2>2. NoneWhileInserting' /\ OneOfOurs'
    BY <1>5, QuietStep DEF AddManyDuplicate, Goto
  <2>3. Inserters'
    BY <1>5 DEF AddManyDuplicate, PeerInv, Inserters
  <2>4. QED
    BY <1>0, <2>1, <2>2, <2>3 DEF PeerInv
<1>6. ASSUME NEW r \in Request, AddDuplicate(r)
      PROVE  PeerInv'
  <2>1. PeerHolds'
    BY <1>6 DEF AddDuplicate, Answer, Goto, PeerInv, PeerHolds, TypeInv, RequestTypes
  <2>2. NoneWhileInserting' /\ OneOfOurs'
    BY <1>6, QuietStep DEF AddDuplicate, Answer, Goto
  <2>3. Inserters'
    BY <1>6 DEF AddDuplicate, PeerInv, Inserters
  <2>4. QED
    BY <1>0, <2>1, <2>2, <2>3 DEF PeerInv
<1>7. ASSUME NEW r \in Request, Find(r)
      PROVE  PeerInv'
  <2>1. PeerHolds'
    BY <1>7 DEF Find, Follow, Answer, Goto, PeerInv, PeerHolds, TypeInv, RequestTypes
  <2>2. NoneWhileInserting' /\ OneOfOurs'
    BY <1>0, <1>7, QuietStep DEF Find, Goto, TypeInv, RequestTypes
  <2>3. Inserters'
    BY <1>7 DEF Find, PeerInv, Inserters
  <2>4. QED
    BY <1>0, <2>1, <2>2, <2>3 DEF PeerInv
<1>8. ASSUME NEW r \in Request, Reply(r)
      PROVE  PeerInv'
  <2>1. PeerHolds'
    BY <1>8 DEF Reply, Answer, Goto, PeerInv, PeerHolds, TypeInv, RequestTypes
  <2>2. NoneWhileInserting' /\ OneOfOurs'
    BY <1>8, QuietStep DEF Reply, Answer, Goto
  <2>3. Inserters'
    BY <1>8 DEF Reply, PeerInv, Inserters
  <2>4. QED
    BY <1>0, <2>1, <2>2, <2>3 DEF PeerInv
<1>9. ASSUME NEW r \in Request, Die(r)
      PROVE  PeerInv'
  <2>1. PeerHolds'
    BY <1>9 DEF Die, Answer, Goto, PeerInv, PeerHolds, TypeInv, RequestTypes
  <2>2. NoneWhileInserting' /\ OneOfOurs'
    BY <1>9, QuietStep DEF Die, Answer, Goto
  <2>3. Inserters'
    BY <1>9 DEF Die, PeerInv, Inserters
  <2>4. QED
    BY <1>0, <2>1, <2>2, <2>3 DEF PeerInv
<1>10. ASSUME NEW r \in Request, Add(r)
      PROVE  PeerInv'
  <2>1. PeerHolds'
    BY <1>10, Distinct DEF Add, Goto, PeerInv, PeerHolds, TypeInv, RequestTypes
  <2>2. Added(r).id = r
    BY DEF Added
  <2>3. Inserters'
    BY <1>10 DEF Add, PeerInv, Inserters
  <2>4. CASE op[r] = apply_peer_entity_batch
    <3>1. Ours = {} /\ lock = r
      BY <1>10, <2>4 DEF Add, PeerInv, PeerHolds, NoneWhileInserting
    <3>2. \A x \in Ours' : x = Added(r)
      BY <1>10, <3>1 DEF Add, Ids, Ours
    <3>3. \A q \in Request \ {r} : op'[q] = op[q] /\ pc'[q] = pc[q]
      BY <1>10 DEF Add, Goto
    <3>4. pc'[r] = "answer"
      BY <1>0, <1>10 DEF Add, Goto, TypeInv, RequestTypes
    <3>5. NoneWhileInserting'
      BY <3>1, <3>3, <3>4 DEF PeerInv, PeerHolds, NoneWhileInserting
    <3>6. OneOfOurs'
      BY <3>2 DEF OneOfOurs
    <3>7. QED
      BY <1>0, <2>1, <2>3, <3>5, <3>6 DEF PeerInv
  <2>5. CASE op[r] # apply_peer_entity_batch
    <3>1. inserted' = inserted /\ op' = op
      BY <1>10, <2>5 DEF Add
    <3>2. r \notin inserted
      BY <2>5 DEF PeerInv, Inserters
    <3>3. Ours' = Ours
      BY <1>10, <2>2, <3>1, <3>2 DEF Add, Ours
    <3>4. \A q \in Request : op[q] = apply_peer_entity_batch => pc'[q] = pc[q]
      BY <1>10, <2>5 DEF Add, Goto
    <3>5. QED
      BY <1>0, <2>1, <2>3, <3>1, <3>3, <3>4 DEF PeerInv, NoneWhileInserting, OneOfOurs
  <2>6. QED
    BY <2>4, <2>5
<1>11. ASSUME NEW r \in Request, Write(r)
      PROVE  PeerInv'
  <2>1. /\ op' = op /\ lock' = lock /\ inserted' = inserted /\ used' = used
        /\ pc[r] = "write" /\ pc' = [pc EXCEPT ![r] = "answer"]
    BY <1>11 DEF Write, Goto
  <2>2. PeerHolds' /\ Inserters'
    BY <2>1 DEF PeerInv, PeerHolds, Inserters
  <2>3. \A x \in rows' : \E y \in rows : y.id = x.id
    BY <1>11 DEF Write
  <2>4. \A x \in Ours' : \E y \in Ours : y.id = x.id
    BY <2>1, <2>3 DEF Ours
  <2>5. OneOfOurs'
    <3> SUFFICES ASSUME NEW x \in Ours', NEW y \in Ours' PROVE x = y
      BY DEF OneOfOurs
    <3>1. x.id = y.id
      BY <2>4 DEF PeerInv, OneOfOurs
    <3>2. QED
      BY <1>0, <3>1 DEF TypeInv, RowTypes, Ours
  <2>6. NoneWhileInserting'
    <3>1. Ours = {} => Ours' = {}
      BY <2>4
    <3>2. QED
      BY <2>1, <3>1 DEF PeerInv, NoneWhileInserting
  <2>7. QED
    BY <1>0, <2>2, <2>5, <2>6 DEF PeerInv
<1>12. ASSUME NEW r \in Request, RowArrives(r)
      PROVE  PeerInv'
  <2> DEFINE row == [id |-> r, doc |-> {r}]
  <2>1. /\ rows' = rows \cup {row} /\ used' = used \cup {r} /\ r \notin used
        /\ pc' = pc /\ lock' = lock /\ inserted' = inserted
        /\ op' = [op EXCEPT ![r] = apply_peer_entity_batch]
    BY <1>12 DEF RowArrives
  <2>2. op[r] = apply_peer_entity_batch \/ pc[r] = "new"
    BY <1>0, <1>12 DEF RowArrives, TypeInv, LockUse
  <2>3. Ours' = Ours
    BY <2>1 DEF Ours, PeerInv, Inserters
  <2>4. PeerHolds'
    BY <2>1, <2>2 DEF PeerInv, PeerHolds
  <2>5. Inserters'
    BY <2>1 DEF PeerInv, Inserters
  <2>6. OneOfOurs' /\ NoneWhileInserting'
    BY <2>1, <2>2, <2>3 DEF PeerInv, OneOfOurs, NoneWhileInserting
  <2>7. QED
    BY <1>0, <2>4, <2>5, <2>6 DEF PeerInv
<1>13. CASE UNCHANGED vars
  BY <1>0, <1>13
  DEF vars, PeerInv, Inserters, PeerHolds, NoneWhileInserting, OneOfOurs, Ours
<1>14. QED
  BY <1>1, <1>2, <1>3, <1>4, <1>5, <1>6, <1>7, <1>8, <1>9, <1>10, <1>11, <1>12, <1>13
  DEF Next, Call, Idle

\* At most one row is one of at most one element.
LEMMA OneRow == PeerInv => PeerBatchesOneRow
<1> SUFFICES ASSUME PeerInv PROVE Cardinality(Ours) <= 1
  BY DEF PeerBatchesOneRow, Ours
<1>1. CASE Ours = {}
  BY <1>1, FS_EmptySet
<1>2. CASE Ours # {}
  <2>1. PICK x \in Ours : Ours = {x}
    BY <1>2 DEF PeerInv, OneOfOurs
  <2>2. QED
    BY <2>1, FS_Singleton
<1>3. QED
  BY <1>1, <1>2

\* However requests, replication and failures interleave, the batches of peers
\* insert one row of an entity.
THEOREM PeersAgree == Spec => []PeerBatchesOneRow
BY PeerInvInit, PeerInvStep, OneRow, PTL DEF Spec
-------------------------------------------------------------------------------
(***************************************************************************)
(* The past of a request                                                   *)
(***************************************************************************)

\* More about the ways of the services: what is written back as a patch was
\* read by the service itself, and only a delete is content with no entity.
Careful(o) ==
  /\ o.change \in {"patch", "put", "remove"}
  /\ o.change = "patch" => o.first = "check"
  /\ o.gone = "answer" => o.first = "check" /\ o.change = "remove"

\* Every service of the API is so.
LEMMA CarefulServices == \A o \in Service : Careful(o)
<1> USE DEF Careful
<1> USE DEF merge, create, batch_create, apply_peer_entity_batch
<1>1. Careful(merge) /\ Careful(create)
  OBVIOUS
<1>2. Careful(batch_update) /\ Careful(batch_merge)
  BY DEF batch_update, batch_merge
<1>3. Careful(replace)
  BY DEF replace
<1>4. Careful(delete) /\ Careful(batch_delete)
  BY DEF delete, batch_delete
<1>5. Careful(batch_create) /\ Careful(apply_peer_entity_batch)
  OBVIOUS
<1>6. Careful(batch_upsert(TRUE)) /\ Careful(batch_upsert(FALSE))
  BY DEF batch_upsert
<1>7. Careful(temporal_upsert)
  BY DEF temporal_upsert, Temporal
<1>8. Careful(temporal_append_attrs) /\ Careful(temporal_patch_instance)
  BY DEF temporal_append_attrs, temporal_patch_instance, Temporal, batch_merge
<1>9. Careful(temporal_delete_entity)
  BY DEF temporal_delete_entity, Temporal, delete, batch_delete
<1> HIDE DEF Careful, merge, create, batch_create, apply_peer_entity_batch
<1> QED
  BY <1>1, <1>2, <1>3, <1>4, <1>5, <1>6, <1>7, <1>8, <1>9
  DEF Service, append_attrs, update_attrs, patch_attr, delete_attr, replace_attr,
      temporal_append_attrs, temporal_delete_attr, temporal_patch_instance,
      temporal_delete_instance

\* A request is answered once, at the end, and changes a row right before.
AnsweredOnce ==
  /\ \A r \in Request : pc[r] # "done" => reply[r] = "none"
  /\ \A r \in applied : pc[r] \in {"answer", "done"}

\* Rows came from the requests that made them, or by replication.
RowsMade ==
  /\ \A r \in used : r \in applied \/ op[r] = apply_peer_entity_batch
  /\ \A r \in applied : op[r] = apply_peer_entity_batch => r \in used

\* A request that was there before another one had been answered.
BeforeIsDone ==
  \A q, r \in Request : q \in before[r] => pc[q] = "done" /\ pc[r] # "new"

\* Only the service's own lookup copies a document.
CopyIsRead ==
  \A r \in Request :
    pc[r] \in {"new", "check"} \/ (pc[r] = "lock" /\ op[r].first = "lock") => copy[r] = {}

\* The inductive invariant of what requests did.
PastInv == PeerInv /\ AnsweredOnce /\ RowsMade /\ BeforeIsDone /\ CopyIsRead

\* Nothing is past at first.
LEMMA PastInvInit == Init => PastInv
<1> SUFFICES ASSUME Init PROVE PastInv
  OBVIOUS
<1>1. AnsweredOnce /\ RowsMade /\ BeforeIsDone /\ CopyIsRead
  BY DEF Init, AnsweredOnce, RowsMade, BeforeIsDone, CopyIsRead
<1> QED
  BY <1>1, PeerInvInit DEF PastInv

\* Every step keeps the past.
LEMMA PastInvStep == PastInv /\ [Next]_vars => PastInv'
<1> SUFFICES ASSUME PastInv, [Next]_vars PROVE PastInv'
  OBVIOUS
<1> USE StoreAssumption
<1>0. PeerInv' /\ TypeInv
  BY PeerInvStep DEF PastInv, PeerInv
<1>1. ASSUME NEW r \in Request, NEW o \in Op, op[r] = Unasked \/ op[r] = o, Begin(r, o)
      PROVE  PastInv'
  <2>1. o.first \in {"check", "lock", "find"} /\ r \notin applied
    BY <1>1, Services DEF Begin, PastInv, AnsweredOnce, WellFormed
  <2>2. AnsweredOnce'
    BY <1>0, <1>1, <2>1 DEF Begin, Goto, PastInv, AnsweredOnce, TypeInv, RequestTypes
  <2>3. RowsMade'
    BY <1>0, <1>1, <2>1, Distinct DEF Begin, PastInv, RowsMade, TypeInv, RowTypes, RequestTypes
  <2>4. BeforeIsDone'
    BY <1>0, <1>1, <2>1 DEF Begin, Goto, PastInv, BeforeIsDone, TypeInv, RequestTypes
  <2>5. CopyIsRead'
    BY <1>0, <1>1 DEF Begin, Goto, PastInv, CopyIsRead, TypeInv, RequestTypes
  <2> QED
    BY <1>0, <2>2, <2>3, <2>4, <2>5 DEF PastInv
<1>2. ASSUME NEW r \in Request, Check(r)
      PROVE  PastInv'
  <2>1. pc[r] # "new" => WellFormed(op[r])
    BY <1>0, OpKnown
  <2>2. AnsweredOnce'
    <3>1. applied' = applied /\ r \notin applied /\ reply[r] = "none"
      BY <1>2 DEF Check, PastInv, AnsweredOnce
    <3>2. \A q \in Request \ {r} : pc'[q] = pc[q] /\ reply'[q] = reply[q]
      BY <1>0, <1>2 DEF Check, Follow, Answer, Goto, TypeInv, RequestTypes
    <3>3. pc'[r] = "done" \/ reply'[r] = reply[r]
      BY <1>0, <1>2 DEF Check, Follow, Answer, Goto, TypeInv, RequestTypes
    <3> QED
      BY <1>0, <3>1, <3>2, <3>3 DEF PastInv, PeerInv, AnsweredOnce, TypeInv, RowTypes
  <2>3. RowsMade'
    BY <1>0, <1>2
    DEF Check, PastInv, RowsMade
  <2>4. BeforeIsDone'
    BY <1>0, <1>2, <2>1
    DEF Check, Follow, Answer, Goto, PastInv, BeforeIsDone, TypeInv, RequestTypes, WellFormed
  <2>5. CopyIsRead'
    BY <1>0, <1>2, <2>1
    DEF Check, Follow, Answer, Goto, PastInv, CopyIsRead, TypeInv, RequestTypes, WellFormed
  <2> QED
    BY <1>0, <2>2, <2>3, <2>4, <2>5 DEF PastInv
<1>3. ASSUME NEW r \in Request, Lock(r)
      PROVE  PastInv'
  <2>1. pc[r] # "new" => WellFormed(op[r])
    BY <1>0, OpKnown
  <2>2. AnsweredOnce'
    BY <1>0, <1>3, <2>1
    DEF Lock, Goto, PastInv, AnsweredOnce, TypeInv, RequestTypes, WellFormed, Calls
  <2>3. RowsMade'
    BY <1>0, <1>3
    DEF Lock, PastInv, RowsMade
  <2>4. BeforeIsDone'
    BY <1>0, <1>3, <2>1
    DEF Lock, Goto, PastInv, BeforeIsDone, TypeInv, RequestTypes, WellFormed
  <2>5. CopyIsRead'
    BY <1>0, <1>3, <2>1
    DEF Lock, Goto, PastInv, CopyIsRead, TypeInv, RequestTypes, WellFormed
  <2> QED
    BY <1>0, <2>2, <2>3, <2>4, <2>5 DEF PastInv
<1>4. ASSUME NEW r \in Request, Recheck(r)
      PROVE  PastInv'
  <2>1. pc[r] # "new" => WellFormed(op[r])
    BY <1>0, OpKnown
  <2>2. AnsweredOnce'
    <3>1. applied' = applied /\ r \notin applied /\ reply[r] = "none"
      BY <1>4 DEF Recheck, PastInv, AnsweredOnce
    <3>2. \A q \in Request \ {r} : pc'[q] = pc[q] /\ reply'[q] = reply[q]
      BY <1>0, <1>4 DEF Recheck, Follow, Answer, Goto, TypeInv, RequestTypes
    <3>3. pc'[r] = "done" \/ reply'[r] = reply[r]
      BY <1>0, <1>4 DEF Recheck, Follow, Answer, Goto, TypeInv, RequestTypes
    <3> QED
      BY <1>0, <3>1, <3>2, <3>3 DEF PastInv, PeerInv, AnsweredOnce, TypeInv, RowTypes
  <2>3. RowsMade'
    BY <1>0, <1>4
    DEF Recheck, PastInv, RowsMade
  <2>4. BeforeIsDone'
    BY <1>0, <1>4, <2>1
    DEF Recheck, Follow, Answer, Goto, PastInv, BeforeIsDone, TypeInv, RequestTypes, WellFormed
  <2>5. CopyIsRead'
    BY <1>0, <1>4, <2>1
    DEF Recheck, Follow, Answer, Goto, PastInv, CopyIsRead, TypeInv, RequestTypes, WellFormed
  <2> QED
    BY <1>0, <2>2, <2>3, <2>4, <2>5 DEF PastInv
<1>5. ASSUME NEW r \in Request, Add(r)
      PROVE  PastInv'
  <2>1. pc[r] # "new" => WellFormed(op[r])
    BY <1>0, OpKnown
  <2>2. AnsweredOnce'
    BY <1>0, <1>5, <2>1
    DEF Add, Goto, PastInv, AnsweredOnce, TypeInv, RequestTypes, WellFormed, Calls
  <2>3. RowsMade'
    BY <1>0, <1>5
    DEF Add, PastInv, RowsMade
  <2>4. BeforeIsDone'
    BY <1>0, <1>5, <2>1
    DEF Add, Goto, PastInv, BeforeIsDone, TypeInv, RequestTypes, WellFormed
  <2>5. CopyIsRead'
    BY <1>0, <1>5, <2>1
    DEF Add, Goto, PastInv, CopyIsRead, TypeInv, RequestTypes, WellFormed
  <2> QED
    BY <1>0, <2>2, <2>3, <2>4, <2>5 DEF PastInv
<1>6. ASSUME NEW r \in Request, AddManyDuplicate(r)
      PROVE  PastInv'
  <2>1. pc[r] # "new" => WellFormed(op[r])
    BY <1>0, OpKnown
  <2>2. AnsweredOnce'
    BY <1>0, <1>6, <2>1
    DEF AddManyDuplicate, Goto, PastInv, AnsweredOnce, TypeInv, RequestTypes, WellFormed, Calls
  <2>3. RowsMade'
    BY <1>0, <1>6
    DEF AddManyDuplicate, PastInv, RowsMade
  <2>4. BeforeIsDone'
    BY <1>0, <1>6, <2>1
    DEF AddManyDuplicate, Goto, PastInv, BeforeIsDone, TypeInv, RequestTypes, WellFormed
  <2>5. CopyIsRead'
    BY <1>0, <1>6, <2>1
    DEF AddManyDuplicate, Goto, PastInv, CopyIsRead, TypeInv, RequestTypes, WellFormed
  <2> QED
    BY <1>0, <2>2, <2>3, <2>4, <2>5 DEF PastInv
<1>7. ASSUME NEW r \in Request, AddDuplicate(r)
      PROVE  PastInv'
  <2>1. pc[r] # "new" => WellFormed(op[r])
    BY <1>0, OpKnown
  <2>2. AnsweredOnce'
    BY <1>0, <1>7, <2>1
    DEF AddDuplicate, Answer, Goto, PastInv, AnsweredOnce, TypeInv, RequestTypes, WellFormed, Calls
  <2>3. RowsMade'
    BY <1>0, <1>7
    DEF AddDuplicate, PastInv, RowsMade
  <2>4. BeforeIsDone'
    BY <1>0, <1>7, <2>1
    DEF AddDuplicate, Answer, Goto, PastInv, BeforeIsDone, TypeInv, RequestTypes, WellFormed
  <2>5. CopyIsRead'
    BY <1>0, <1>7, <2>1
    DEF AddDuplicate, Answer, Goto, PastInv, CopyIsRead, TypeInv, RequestTypes, WellFormed
  <2> QED
    BY <1>0, <2>2, <2>3, <2>4, <2>5 DEF PastInv
<1>8. ASSUME NEW r \in Request, Find(r)
      PROVE  PastInv'
  <2>1. pc[r] # "new" => WellFormed(op[r])
    BY <1>0, OpKnown
  <2>2. AnsweredOnce'
    <3>1. applied' = applied /\ r \notin applied /\ reply[r] = "none"
      BY <1>8 DEF Find, PastInv, AnsweredOnce
    <3>2. \A q \in Request \ {r} : pc'[q] = pc[q] /\ reply'[q] = reply[q]
      BY <1>0, <1>8 DEF Find, Follow, Answer, Goto, TypeInv, RequestTypes
    <3>3. pc'[r] = "done" \/ reply'[r] = reply[r]
      BY <1>0, <1>8 DEF Find, Follow, Answer, Goto, TypeInv, RequestTypes
    <3> QED
      BY <1>0, <3>1, <3>2, <3>3 DEF PastInv, PeerInv, AnsweredOnce, TypeInv, RowTypes
  <2>3. RowsMade'
    BY <1>0, <1>8
    DEF Find, PastInv, RowsMade
  <2>4. BeforeIsDone'
    BY <1>0, <1>8, <2>1
    DEF Find, Follow, Answer, Goto, PastInv, BeforeIsDone, TypeInv, RequestTypes, WellFormed
  <2>5. CopyIsRead'
    BY <1>0, <1>8, <2>1
    DEF Find, Follow, Answer, Goto, PastInv, CopyIsRead, TypeInv, RequestTypes, WellFormed
  <2> QED
    BY <1>0, <2>2, <2>3, <2>4, <2>5 DEF PastInv
<1>9. ASSUME NEW r \in Request, Write(r)
      PROVE  PastInv'
  <2>1. pc[r] # "new" => WellFormed(op[r])
    BY <1>0, OpKnown
  <2>2. AnsweredOnce'
    BY <1>0, <1>9, <2>1
    DEF Write, Goto, PastInv, AnsweredOnce, TypeInv, RequestTypes, WellFormed, Calls
  <2>3. RowsMade'
    BY <1>0, <1>9
    DEF Write, PastInv, RowsMade, PeerInv, PeerHolds
  <2>4. BeforeIsDone'
    BY <1>0, <1>9, <2>1
    DEF Write, Goto, PastInv, BeforeIsDone, TypeInv, RequestTypes, WellFormed
  <2>5. CopyIsRead'
    BY <1>0, <1>9, <2>1
    DEF Write, Goto, PastInv, CopyIsRead, TypeInv, RequestTypes, WellFormed
  <2> QED
    BY <1>0, <2>2, <2>3, <2>4, <2>5 DEF PastInv
<1>10. ASSUME NEW r \in Request, Reply(r)
      PROVE  PastInv'
  <2>1. pc[r] # "new" => WellFormed(op[r])
    BY <1>0, OpKnown
  <2>2. AnsweredOnce'
    BY <1>0, <1>10, <2>1
    DEF Reply, Answer, Goto, PastInv, AnsweredOnce, TypeInv, RequestTypes, WellFormed, Calls
  <2>3. RowsMade'
    BY <1>0, <1>10
    DEF Reply, PastInv, RowsMade
  <2>4. BeforeIsDone'
    BY <1>0, <1>10, <2>1
    DEF Reply, Answer, Goto, PastInv, BeforeIsDone, TypeInv, RequestTypes, WellFormed
  <2>5. CopyIsRead'
    BY <1>0, <1>10, <2>1
    DEF Reply, Answer, Goto, PastInv, CopyIsRead, TypeInv, RequestTypes, WellFormed
  <2> QED
    BY <1>0, <2>2, <2>3, <2>4, <2>5 DEF PastInv
<1>11. ASSUME NEW r \in Request, Die(r)
      PROVE  PastInv'
  <2>1. pc[r] # "new" => WellFormed(op[r])
    BY <1>0, OpKnown
  <2>2. AnsweredOnce'
    BY <1>0, <1>11, <2>1
    DEF Die, Answer, Goto, PastInv, AnsweredOnce, TypeInv, RequestTypes, WellFormed, Calls
  <2>3. RowsMade'
    BY <1>0, <1>11
    DEF Die, PastInv, RowsMade
  <2>4. BeforeIsDone'
    BY <1>0, <1>11, <2>1
    DEF Die, Answer, Goto, PastInv, BeforeIsDone, TypeInv, RequestTypes, WellFormed
  <2>5. CopyIsRead'
    BY <1>0, <1>11, <2>1
    DEF Die, Answer, Goto, PastInv, CopyIsRead, TypeInv, RequestTypes, WellFormed
  <2> QED
    BY <1>0, <2>2, <2>3, <2>4, <2>5 DEF PastInv
<1>12. ASSUME NEW r \in Request, RowArrives(r)
      PROVE  PastInv'
  <2>1. pc' = pc /\ reply' = reply /\ copy' = copy /\ before' = before /\ applied' = applied
    BY <1>12 DEF RowArrives
  <2>2. r \notin applied
    BY <1>0, <1>12
    DEF RowArrives, PastInv, RowsMade, AnsweredOnce, TypeInv, LockUse
  <2>3. RowsMade'
    BY <1>0, <1>12, <2>2 DEF RowArrives, PastInv, RowsMade, TypeInv, RowTypes, RequestTypes
  <2>4. CopyIsRead'
    BY <1>0, <1>12, <2>1 DEF RowArrives, PastInv, CopyIsRead, TypeInv, RequestTypes, LockUse
  <2> QED
    BY <1>0, <2>1, <2>3, <2>4 DEF PastInv, AnsweredOnce, BeforeIsDone
<1>13. CASE UNCHANGED vars
  BY <1>0, <1>13 DEF vars, PastInv, AnsweredOnce, RowsMade, BeforeIsDone, CopyIsRead
<1> QED
  BY <1>1, <1>2, <1>3, <1>4, <1>5, <1>6, <1>7, <1>8, <1>9, <1>10, <1>11, <1>12, <1>13
  DEF Next, Call, Idle

(***************************************************************************)
(* Changes that were answered with success                                 *)
(***************************************************************************)

\* A request that has begun keeps what it asks for and who came before it, and
\* an answered one stays so.
LEMMA Onward ==
  ASSUME PastInv, [Next]_vars, NEW r \in Request, pc[r] # "new"
  PROVE  /\ pc'[r] # "new" /\ before'[r] = before[r] /\ op'[r] = op[r]
         /\ pc[r] = "done" => pc'[r] = "done"
<1> DEFINE Same == /\ pc'[r] # "new" /\ before'[r] = before[r] /\ op'[r] = op[r]
                   /\ pc[r] = "done" => pc'[r] = "done"
<1>0. TypeInv
  BY DEF PastInv, PeerInv
<1>1. ASSUME NEW q \in Request, NEW o \in Op, Begin(q, o)
      PROVE  Same
  BY <1>0, <1>1 DEF Begin, Goto, TypeInv, RequestTypes
<1>2. ASSUME NEW q \in Request, Call(q)
      PROVE  Same
  <2>1. op[q] \in Op /\ WellFormed(op[q]) /\ pc[q] \notin {"new", "done"}
    BY <1>0, <1>2, OpKnown
    DEF Call, Check, Lock, Recheck, Add, AddManyDuplicate, AddDuplicate, Find, Write, Reply
  <2>2. op' = op /\ before' = before /\ \A p \in Request \ {q} : pc'[p] = pc[p]
    BY <1>0, <1>2
    DEF Call, Check, Lock, Recheck, Add, AddManyDuplicate, AddDuplicate, Find, Write, Reply,
        Follow, Answer, Goto, TypeInv, RequestTypes
  <2>3. pc'[q] # "new"
    BY <1>0, <1>2, <2>1
    DEF Call, Check, Lock, Recheck, Add, AddManyDuplicate, AddDuplicate, Find, Write, Reply,
        Follow, Answer, Goto, TypeInv, RequestTypes, WellFormed
  <2> QED
    BY <2>1, <2>2, <2>3
<1>3. ASSUME NEW q \in Request, Die(q)
      PROVE  Same
  BY <1>0, <1>3 DEF Die, Answer, Goto, TypeInv, RequestTypes
<1>4. ASSUME NEW q \in Request, RowArrives(q)
      PROVE  Same
  BY <1>0, <1>4 DEF RowArrives, TypeInv, RequestTypes, LockUse
<1>5. CASE UNCHANGED vars
  BY <1>5 DEF vars
<1> QED
  BY <1>1, <1>2, <1>3, <1>4, <1>5 DEF Next, Idle

\* Somebody overlapped r, or came later to replace or delete the entity.
Excused(r) ==
  \E q \in Request :
    \/ Overlap(q, r)
    \/ r \in before[q] /\ op[q].change \in {"remove", "put"}

\* An excuse stays one.
LEMMA ExcuseStays ==
  ASSUME PastInv, [Next]_vars, NEW r \in Request, Excused(r)
  PROVE  Excused(r)'
<1>1. PICK q \in Request : \/ Overlap(q, r)
                           \/ r \in before[q] /\ op[q].change \in {"remove", "put"}
  BY DEF Excused
<1>2. CASE Overlap(q, r)
  <2>1. {q, r} \subseteq Begun
    BY <1>2 DEF Overlap
  <2>2. pc[q] # "new" /\ pc[r] # "new"
    BY <2>1 DEF Begun
  <2>3. Overlap(q, r)'
    BY <1>2, <2>2, Onward DEF Overlap, Begun
  <2> QED
    BY <2>3 DEF Excused
<1>3. CASE r \in before[q] /\ op[q].change \in {"remove", "put"}
  <2>1. pc[q] # "new"
    BY <1>3 DEF PastInv, BeforeIsDone
  <2> QED
    BY <1>3, <2>1, Onward DEF Excused
<1> QED
  BY <1>1, <1>2, <1>3

\* Of two requests that are both begun and not both answered, one that is not
\* answered overlaps the other unless that one came before it.
LEMMA WhoOverlaps ==
  ASSUME PastInv, NEW q \in Request, NEW r \in Request, q # r,
         pc[q] \notin {"new", "done"}, pc[r] # "new", r \notin before[q]
  PROVE  Overlap(q, r)
BY DEF PastInv, BeforeIsDone, Overlap, Begun

\* A row shows the change of r.
Shown(r) == \E row \in rows : r \in row.doc

\* Unless the entity has had two rows it has at most one.
OneRowUnlessSplit == ~ split => \A x, y \in rows : x = y

\* Then every change is in the row, or excused;
KeptOrExcused ==
  ~ split =>
    \A r \in applied : op[r].change # "remove" => Shown(r) \/ Excused(r)

\* and so is in what a later patch read, and will write.
ReadOrExcused ==
  ~ split =>
    \A q \in Request : op[q].change = "patch" /\ pc[q] \in {"find", "write"} =>
      \A r \in before[q] \cap applied : op[r].change # "remove" =>
        r \in copy[q] \/ Excused(r)

\* A request that is answered with success changed a row, unless it deletes or
\* was overlapped;
SuccessOrExcused ==
  \A r \in Request :
    pc[r] = "answer" \/ reply[r] = "ok" =>
      r \in applied \/ op[r].change = "remove" \/ Excused(r)

\* for the row it is about to change is there.
AimedOrExcused ==
  \A r \in Request : pc[r] = "write" => target[r] \in Ids(rows) \/ Excused(r)

\* The inductive invariant.
LossInv ==
  /\ PastInv
  /\ OneRowUnlessSplit
  /\ KeptOrExcused
  /\ ReadOrExcused
  /\ SuccessOrExcused
  /\ AimedOrExcused

\* Nothing is lost at first.
LEMMA LossInvInit == Init => LossInv
<1> SUFFICES ASSUME Init PROVE LossInv
  OBVIOUS
<1>1. /\ OneRowUnlessSplit /\ KeptOrExcused /\ ReadOrExcused
      /\ SuccessOrExcused /\ AimedOrExcused
  BY DEF Init, OneRowUnlessSplit, KeptOrExcused, ReadOrExcused, SuccessOrExcused, AimedOrExcused
<1> QED
  BY <1>1, PastInvInit DEF LossInv

\* A step that changes no row, and takes nobody to a mutation or to an answer,
\* keeps all changes.
LEMMA QuietLoss ==
  ASSUME LossInv, [Next]_vars, UNCHANGED <<rows, applied, split>>,
         \A q \in Request :
           /\ op'[q].change = op[q].change
           /\ pc'[q] = "answer" => pc[q] = "answer"
           /\ reply'[q] = "ok" => reply[q] = "ok" \/ pc[q] = "answer"
           /\ pc'[q] = "write" => pc[q] = "write" /\ target'[q] = target[q]
           /\ pc'[q] \in {"find", "write"} /\ op'[q].change = "patch"
                => pc[q] \in {"find", "write"} /\ copy'[q] = copy[q]
  PROVE  LossInv'
<1>1. PastInv /\ PastInv'
  BY PastInvStep DEF LossInv
<1>2. \A r \in Request : Excused(r) => Excused(r)'
  BY <1>1, ExcuseStays
<1>3. \A q \in Request : pc[q] # "new" => before'[q] = before[q]
  BY <1>1, Onward
<1>4. applied \subseteq Request
  BY <1>1 DEF PastInv, PeerInv, TypeInv, RowTypes
<1>5. OneRowUnlessSplit'
  BY DEF LossInv, OneRowUnlessSplit
<1>6. KeptOrExcused'
  BY <1>2, <1>4 DEF LossInv, KeptOrExcused, Shown
<1>7. ReadOrExcused'
  BY <1>2, <1>3, <1>4 DEF LossInv, ReadOrExcused
<1>8. SuccessOrExcused'
  BY <1>2 DEF LossInv, SuccessOrExcused
<1>9. AimedOrExcused'
  BY <1>2 DEF LossInv, AimedOrExcused, Ids
<1> QED
  BY <1>1, <1>5, <1>6, <1>7, <1>8, <1>9 DEF LossInv

\* Every step keeps the changes, but for those that are excused from then on.
LEMMA LossInvStep == LossInv /\ [Next]_vars => LossInv'
<1> SUFFICES ASSUME LossInv, [Next]_vars PROVE LossInv'
  OBVIOUS
<1> USE StoreAssumption
<1>0. PastInv /\ PastInv' /\ TypeInv /\ TypeInv'
  BY PastInvStep DEF LossInv, PastInv, PeerInv
<1>a. \A r \in Request : Excused(r) => Excused(r)'
  BY <1>0, ExcuseStays
<1>b. \A r \in Request : pc[r] # "new" => before'[r] = before[r]
  BY <1>0, Onward
<1>c. \A r \in Request : pc[r] # "new" =>
        op[r] \in Op /\ WellFormed(op[r]) /\ Careful(op[r])
  BY <1>0, OpKnown, CarefulServices
<1>1. ASSUME NEW r \in Request, NEW o \in Op, op[r] = Unasked \/ op[r] = o, Begin(r, o)
      PROVE  LossInv'
  <2>1. WellFormed(o) /\ Careful(o)
    BY Services, CarefulServices
  <2>2. /\ pc[r] = "new" /\ pc' = [pc EXCEPT ![r] = o.first]
        /\ op' = [op EXCEPT ![r] = o]
        /\ UNCHANGED <<rows, applied, split, target, reply, copy>>
    BY <1>1 DEF Begin, Goto
  <2>3. pc'[r] \in {"check", "lock", "find"}
    BY <1>0, <2>1, <2>2 DEF WellFormed, TypeInv, RequestTypes
  <2>4. r \notin applied /\ reply[r] = "none"
    BY <1>0, <2>2 DEF PastInv, AnsweredOnce
  <2>5. \A q \in Request \ {r} : op'[q] = op[q] /\ pc'[q] = pc[q]
    BY <1>0, <2>2 DEF TypeInv, RequestTypes
  <2>6. pc'[r] = "find" => op'[r].change # "patch"
    BY <1>0, <2>1, <2>2 DEF Careful, TypeInv, RequestTypes
  <2>7. applied \subseteq Request
    BY <1>0 DEF TypeInv, RowTypes
  <2>8. OneRowUnlessSplit' /\ AimedOrExcused'
    BY <1>a, <2>2, <2>3, <2>5 DEF LossInv, OneRowUnlessSplit, AimedOrExcused, Ids
  <2>9. KeptOrExcused'
    BY <1>a, <2>2, <2>4, <2>5, <2>7 DEF LossInv, KeptOrExcused, Shown
  <2>10. ReadOrExcused'
    <3> SUFFICES ASSUME ~ split', NEW q \in Request, op'[q].change = "patch",
                        pc'[q] \in {"find", "write"},
                        NEW p \in before'[q] \cap applied', op'[p].change # "remove"
                 PROVE  p \in copy'[q] \/ Excused(p)'
      BY DEF ReadOrExcused
    <3>1. q # r /\ p # r
      BY <2>2, <2>3, <2>4, <2>6
    <3>2. pc[q] # "new" /\ before'[q] = before[q]
      BY <1>b, <2>5, <3>1
    <3> QED
      BY <1>a, <2>2, <2>5, <2>7, <3>1, <3>2 DEF LossInv, ReadOrExcused
  <2>11. SuccessOrExcused'
    BY <1>a, <2>2, <2>3, <2>4, <2>5 DEF LossInv, SuccessOrExcused
  <2> QED
    BY <1>0, <2>8, <2>9, <2>10, <2>11 DEF LossInv
<1>2. ASSUME NEW r \in Request, Check(r)
      PROVE  LossInv'
  <2>1. /\ pc[r] = "check" /\ UNCHANGED <<rows, applied, split, target, op, before>>
        /\ \A q \in Request \ {r} : pc'[q] = pc[q] /\ copy'[q] = copy[q] /\ reply'[q] = reply[q]
    BY <1>0, <1>2 DEF Check, Follow, Answer, Goto, TypeInv, RequestTypes
  <2>2. pc'[r] \notin {"answer", "write"} /\ reply'[r] # "ok"
    <3>1. reply[r] = "none"
      BY <1>0, <2>1 DEF PastInv, AnsweredOnce
    <3>2. /\ op[r].absent \in {"missing", "recheck", "lock", "addMany"}
          /\ op[r].present \in {"find", "exists"}
      BY <1>c, <2>1 DEF WellFormed
    <3> QED
      BY <1>0, <1>2, <3>1, <3>2 DEF Check, Follow, Answer, Goto, TypeInv, RequestTypes
  <2>3. pc'[r] = "find" => \E row \in rows : copy'[r] = row.doc
    BY <1>0, <1>2, <1>c, <2>1
    DEF Check, Follow, Answer, Goto, TypeInv, RequestTypes, WellFormed
  <2>4. applied \subseteq Request
    BY <1>0 DEF TypeInv, RowTypes
  <2>5. OneRowUnlessSplit' /\ KeptOrExcused'
    BY <1>a, <2>1, <2>4 DEF LossInv, OneRowUnlessSplit, KeptOrExcused, Shown
  <2>6. AimedOrExcused' /\ SuccessOrExcused'
    BY <1>a, <2>1, <2>2 DEF LossInv, AimedOrExcused, SuccessOrExcused, Ids
  <2>7. ReadOrExcused'
    <3> SUFFICES ASSUME ~ split', NEW q \in Request, op'[q].change = "patch",
                        pc'[q] \in {"find", "write"},
                        NEW p \in before'[q] \cap applied', op'[p].change # "remove"
                 PROVE  p \in copy'[q] \/ Excused(p)'
      BY DEF ReadOrExcused
    <3>1. CASE q = r
      <4>1. PICK row \in rows : copy'[r] = row.doc
        BY <2>2, <2>3, <3>1
      <4>2. \A x \in rows : x = row
        BY <2>1 DEF LossInv, OneRowUnlessSplit
      <4>3. Shown(p) \/ Excused(p)
        BY <2>1 DEF LossInv, KeptOrExcused
      <4> QED
        BY <1>a, <2>4, <2>1, <3>1, <4>1, <4>2, <4>3 DEF Shown
    <3>2. CASE q # r
      BY <1>a, <2>1, <2>4, <3>2 DEF LossInv, ReadOrExcused
    <3> QED
      BY <3>1, <3>2
  <2> QED
    BY <1>0, <2>5, <2>6, <2>7 DEF LossInv
<1>3. ASSUME NEW r \in Request, Lock(r)
      PROVE  LossInv'
  BY <1>0, <1>3, QuietLoss
  DEF Lock, Goto, TypeInv, RequestTypes
<1>4. ASSUME NEW r \in Request, Recheck(r)
      PROVE  LossInv'
  BY <1>0, <1>4, QuietLoss
  DEF Recheck, Follow, Answer, Goto, TypeInv, RequestTypes
<1>5. ASSUME NEW r \in Request, AddManyDuplicate(r)
      PROVE  LossInv'
  BY <1>0, <1>5, QuietLoss
  DEF AddManyDuplicate, Goto, TypeInv, RequestTypes
<1>6. ASSUME NEW r \in Request, AddDuplicate(r)
      PROVE  LossInv'
  BY <1>0, <1>6, QuietLoss
  DEF AddDuplicate, Answer, Goto, TypeInv, RequestTypes
<1>7. ASSUME NEW r \in Request, Reply(r)
      PROVE  LossInv'
  BY <1>0, <1>7, QuietLoss
  DEF Reply, Answer, Goto, TypeInv, RequestTypes
<1>8. ASSUME NEW r \in Request, Die(r)
      PROVE  LossInv'
  BY <1>0, <1>8, QuietLoss
  DEF Die, Answer, Goto, TypeInv, RequestTypes
<1>9. ASSUME NEW r \in Request, Find(r)
      PROVE  LossInv'
  <2>1. /\ pc[r] = "find" /\ UNCHANGED <<rows, applied, split, copy, op, before>>
        /\ \A q \in Request \ {r} :
             pc'[q] = pc[q] /\ target'[q] = target[q] /\ reply'[q] = reply[q]
    BY <1>0, <1>9 DEF Find, Follow, Answer, Goto, TypeInv, RequestTypes
  <2>2. op[r].gone \in {"add", "answer", "missing"} /\ Careful(op[r])
    BY <1>c, <2>1 DEF WellFormed
  <2>3. reply'[r] # "ok"
    <3>1. reply[r] = "none"
      BY <1>0, <2>1 DEF PastInv, AnsweredOnce
    <3> QED
      BY <1>0, <1>9, <2>2, <3>1 DEF Find, Follow, Answer, Goto, TypeInv, RequestTypes
  <2>4. pc'[r] = "write" => target'[r] \in Ids(rows)
    BY <1>0, <1>9, <2>2 DEF Find, Follow, Answer, Goto, Ids, TypeInv, RequestTypes
  <2>5. pc'[r] = "answer" => op[r].change = "remove"
    BY <1>0, <1>9, <2>2 DEF Find, Follow, Answer, Goto, Careful, TypeInv, RequestTypes
  <2>6. applied \subseteq Request
    BY <1>0 DEF TypeInv, RowTypes
  <2>7. OneRowUnlessSplit' /\ KeptOrExcused'
    BY <1>a, <2>1, <2>6 DEF LossInv, OneRowUnlessSplit, KeptOrExcused, Shown
  <2>8. ReadOrExcused'
    BY <1>a, <2>1, <2>6 DEF LossInv, ReadOrExcused
  <2>9. SuccessOrExcused'
    BY <1>a, <2>1, <2>3, <2>5 DEF LossInv, SuccessOrExcused
  <2>10. AimedOrExcused'
    BY <1>a, <2>1, <2>4 DEF LossInv, AimedOrExcused, Ids
  <2> QED
    BY <1>0, <2>7, <2>8, <2>9, <2>10 DEF LossInv
<1>10. ASSUME NEW r \in Request, Add(r)
      PROVE  LossInv'
  <2>1. /\ rows' = rows \cup {Added(r)} /\ applied' = applied \cup {r}
        /\ split' = (split \/ rows # {})
        /\ pc[r] \in {"add", "addMany"} /\ pc' = [pc EXCEPT ![r] = "answer"]
        /\ UNCHANGED <<op, copy, target, reply, before>>
    BY <1>10 DEF Add, Goto
  <2>2. r \in Added(r).doc
    BY DEF Added
  <2>3. ~ split' => ~ split /\ rows = {}
    BY <2>1
  <2>4. applied \subseteq Request
    BY <1>0 DEF TypeInv, RowTypes
  <2>5. OneRowUnlessSplit'
    BY <2>1, <2>3 DEF OneRowUnlessSplit
  <2>6. KeptOrExcused'
    BY <1>a, <2>1, <2>2, <2>3, <2>4 DEF LossInv, KeptOrExcused, Shown
  <2>7. ReadOrExcused'
    <3> SUFFICES ASSUME ~ split', NEW q \in Request, op'[q].change = "patch",
                        pc'[q] \in {"find", "write"},
                        NEW p \in before'[q] \cap applied', op'[p].change # "remove"
                 PROVE  p \in copy'[q] \/ Excused(p)'
      BY DEF ReadOrExcused
    <3>1. p # r /\ q # r
      BY <1>0, <2>1 DEF PastInv, BeforeIsDone, TypeInv, RequestTypes
    <3> QED
      BY <1>0, <1>a, <2>1, <2>3, <2>4, <3>1 DEF LossInv, ReadOrExcused, TypeInv, RequestTypes
  <2>8. SuccessOrExcused'
    BY <1>0, <1>a, <2>1 DEF LossInv, SuccessOrExcused, TypeInv, RequestTypes
  <2>9. AimedOrExcused'
    BY <1>0, <1>a, <2>1 DEF LossInv, AimedOrExcused, Ids, TypeInv, RequestTypes
  <2> QED
    BY <1>0, <2>5, <2>6, <2>7, <2>8, <2>9 DEF LossInv
<1>11. ASSUME NEW r \in Request, Write(r)
      PROVE  LossInv'
  <2> DEFINE row == {q \in rows : q.id = target[r]}
             new == {[id |-> q.id, doc |-> Added(r).doc] : q \in row}
  <2>1. /\ rows' = (rows \ row) \cup IF op[r].change = "remove" THEN {} ELSE new
        /\ applied' = IF row = {} THEN applied ELSE applied \cup {r}
        /\ pc[r] = "write" /\ pc' = [pc EXCEPT ![r] = "answer"]
        /\ UNCHANGED <<op, copy, target, reply, before, split>>
    BY <1>11 DEF Write, Goto
  <2>2. \A q \in Request \ {r} : pc'[q] = pc[q]
    BY <1>0, <2>1 DEF TypeInv, RequestTypes
  <2>3. \A x \in rows : x \notin row => x \in rows'
    BY <2>1
  <2>4. \A x \in row : op[r].change # "remove" =>
          \E y \in rows' : y.doc = Added(r).doc
    <3> SUFFICES ASSUME NEW x \in row, op[r].change # "remove"
                 PROVE  \E y \in rows' : y.doc = Added(r).doc
      OBVIOUS
    <3>1. [id |-> x.id, doc |-> Added(r).doc] \in rows'
      BY <2>1
    <3> QED
      BY <3>1
  <2>5. \A y \in rows' : \E x \in rows : y.id = x.id
    BY <2>1
  <2>6. applied' \subseteq applied \cup {r} /\ applied \subseteq Request
    BY <1>0, <2>1 DEF TypeInv, RowTypes
  <2>7. r \notin applied /\ reply[r] = "none"
    BY <1>0, <2>1 DEF PastInv, AnsweredOnce
  <2>8. row = {} => rows' = rows /\ applied' = applied
    BY <2>1
  <2>9. \A p \in Request \ {r} : pc[p] # "new" => p \in before[r] \/ Overlap(p, r)
    <3> SUFFICES ASSUME NEW p \in Request \ {r}, pc[p] # "new", p \notin before[r]
                 PROVE  Overlap(p, r)
      OBVIOUS
    <3>1. Overlap(r, p)
      BY <1>0, <2>1, WhoOverlaps
    <3> QED
      BY <3>1 DEF Overlap
  <2> HIDE DEF new
  <2>10. OneRowUnlessSplit'
    BY <1>0, <2>1, <2>5 DEF LossInv, OneRowUnlessSplit, TypeInv, RowTypes
  <2>11. KeptOrExcused'
    <3> SUFFICES ASSUME ~ split', NEW p \in applied', op'[p].change # "remove"
                 PROVE  Shown(p)' \/ Excused(p)'
      BY DEF KeptOrExcused
    <3>1. CASE p = r
      <4>1. PICK x \in row : TRUE
        BY <2>7, <2>8, <3>1
      <4>2. r \in Added(r).doc
        BY DEF Added
      <4> QED
        BY <2>1, <2>4, <3>1, <4>1, <4>2 DEF Shown
    <3>2. CASE p # r
      <4>1. p \in applied /\ p \in Request /\ pc[p] # "new"
        BY <1>0, <2>6, <3>2 DEF PastInv, AnsweredOnce
      <4>2. CASE Excused(p)
        BY <1>a, <4>1, <4>2
      <4>3. CASE Shown(p) /\ ~ Excused(p)
        <5>1. PICK x \in rows : p \in x.doc
          BY <4>3 DEF Shown
        <5>2. ~ Overlap(r, p)
          BY <4>3 DEF Excused
        <5>3. p \in before[r]
          BY <2>9, <3>2, <4>1, <5>2 DEF Overlap
        <5>4. op[r].change = "patch"
          BY <1>c, <2>1, <4>3, <5>3 DEF Excused, Careful
        <5>5. p \in copy[r]
          BY <2>1, <4>1, <4>3, <5>3, <5>4 DEF LossInv, ReadOrExcused
        <5>6. p \in Added(r).doc
          BY <5>4, <5>5 DEF Added
        <5> QED
          BY <2>3, <2>4, <5>1, <5>4, <5>6 DEF Shown
      <4> QED
        BY <2>1, <4>1, <4>2, <4>3 DEF LossInv, KeptOrExcused
    <3> QED
      BY <3>1, <3>2
  <2>12. ReadOrExcused'
    <3> SUFFICES ASSUME ~ split', NEW q \in Request, op'[q].change = "patch",
                        pc'[q] \in {"find", "write"},
                        NEW p \in before'[q] \cap applied', op'[p].change # "remove"
                 PROVE  p \in copy'[q] \/ Excused(p)'
      BY DEF ReadOrExcused
    <3>1. p # r /\ q # r
      BY <1>0, <2>1 DEF PastInv, BeforeIsDone, TypeInv, RequestTypes
    <3>2. p \in applied /\ pc[q] = pc'[q]
      BY <2>2, <2>6, <3>1
    <3> QED
      BY <1>a, <2>1, <2>6, <3>2 DEF LossInv, ReadOrExcused
  <2>13. SuccessOrExcused'
    <3> SUFFICES ASSUME NEW q \in Request, pc'[q] = "answer" \/ reply'[q] = "ok"
                 PROVE  q \in applied' \/ op'[q].change = "remove" \/ Excused(q)'
      BY DEF SuccessOrExcused
    <3>1. applied \subseteq applied'
      BY <2>1
    <3>2. CASE q = r
      <4>1. target[r] \in Ids(rows) => row # {}
        BY DEF Ids
      <4> QED
        BY <1>a, <2>1, <3>2, <4>1 DEF LossInv, AimedOrExcused
    <3>3. CASE q # r
      BY <1>a, <2>1, <2>2, <3>1, <3>3 DEF LossInv, SuccessOrExcused
    <3> QED
      BY <3>2, <3>3
  <2>14. AimedOrExcused'
    <3> SUFFICES ASSUME NEW q \in Request, pc'[q] = "write"
                 PROVE  target'[q] \in Ids(rows)' \/ Excused(q)'
      BY DEF AimedOrExcused
    <3>1. q # r /\ pc[q] = "write"
      BY <1>0, <2>1, <2>2 DEF TypeInv, RequestTypes
    <3>2. Excused(q)
      <4>1. q \notin before[r]
        BY <1>0, <3>1 DEF PastInv, BeforeIsDone
      <4>2. Overlap(r, q)
        BY <2>9, <3>1, <4>1 DEF Overlap
      <4> QED
        BY <4>2 DEF Excused
    <3> QED
      BY <1>a, <3>2
  <2> QED
    BY <1>0, <2>10, <2>11, <2>12, <2>13, <2>14 DEF LossInv
<1>12. ASSUME NEW r \in Request, RowArrives(r)
      PROVE  LossInv'
  <2>1. /\ rows' = rows \cup {[id |-> r, doc |-> {r}]} /\ split' = (split \/ rows # {})
        /\ op' = [op EXCEPT ![r] = apply_peer_entity_batch]
        /\ op[r] \in {apply_peer_entity_batch, Unasked}
        /\ UNCHANGED <<pc, applied, copy, target, reply, before>>
    BY <1>12 DEF RowArrives
  <2>2. apply_peer_entity_batch.change = "put" /\ Unasked.change = "put"
    BY DEF apply_peer_entity_batch, Unasked, create
  <2>3. \A q \in Request : op'[q].change = op[q].change
    BY <1>0, <2>1, <2>2 DEF TypeInv, RequestTypes
  <2>4. ~ split' => ~ split /\ rows = {}
    BY <2>1
  <2>5. applied \subseteq Request
    BY <1>0 DEF TypeInv, RowTypes
  <2>6. OneRowUnlessSplit'
    BY <2>1, <2>4 DEF OneRowUnlessSplit
  <2>7. KeptOrExcused'
    BY <1>a, <2>1, <2>3, <2>4, <2>5 DEF LossInv, KeptOrExcused, Shown
  <2>8. ReadOrExcused'
    BY <1>a, <2>1, <2>3, <2>4, <2>5 DEF LossInv, ReadOrExcused
  <2>9. SuccessOrExcused'
    BY <1>a, <2>1, <2>3 DEF LossInv, SuccessOrExcused
  <2>10. AimedOrExcused'
    BY <1>a, <2>1 DEF LossInv, AimedOrExcused, Ids
  <2> QED
    BY <1>0, <2>6, <2>7, <2>8, <2>9, <2>10 DEF LossInv
<1>13. CASE UNCHANGED vars
  BY <1>13, QuietLoss DEF vars
<1> QED
  BY <1>1, <1>2, <1>3, <1>4, <1>5, <1>6, <1>7, <1>8, <1>9, <1>10, <1>11, <1>12, <1>13
  DEF Next, Call, Idle

\* However requests interleave and whatever fails, a change that was answered
\* with success disappears only if a request overlapped it or came later to
\* replace or delete the entity, unless the entity had two rows meanwhile.
THEOREM LossesExplained == Spec => []LossNeedsOverlap
<1>1. LossInv => LossNeedsOverlap
  <2> SUFFICES ASSUME LossInv, ~ split, NEW r \in Request, reply[r] = "ok",
                      op[r].change # "remove", \A row \in rows : r \notin row.doc
               PROVE  Excused(r)
    BY DEF LossNeedsOverlap, Excused
  <2>1. r \in applied \/ Excused(r)
    BY DEF LossInv, SuccessOrExcused
  <2> QED
    BY <2>1 DEF LossInv, KeptOrExcused, Shown
<1> QED
  BY <1>1, LossInvInit, LossInvStep, PTL DEF Spec

(***************************************************************************)
(* Requests one at a time                                                  *)
(***************************************************************************)

NoOverlap == \A q, r \in Request : ~ Overlap(q, r)

\* Requests that overlapped have overlapped for ever.
LEMMA OverlapStays == PastInv /\ [Next]_vars /\ NoOverlap' => NoOverlap
<1> SUFFICES ASSUME PastInv, [Next]_vars, NoOverlap', NEW q \in Request, NEW r \in Request,
                    Overlap(q, r)
             PROVE  FALSE
  BY DEF NoOverlap
<1>1. pc[q] # "new" /\ pc[r] # "new"
  <2>1. {q, r} \subseteq Begun
    BY DEF Overlap
  <2> QED
    BY <2>1 DEF Begun
<1>2. Overlap(q, r)'
  BY <1>1, Onward DEF Overlap, Begun
<1> QED
  BY <1>2 DEF NoOverlap

\* Requests come one at a time: at most one is under way.
Active(r) == pc[r] \notin {"new", "done"}

LEMMA OneActive ==
  ASSUME BeforeIsDone, NoOverlap, NEW q \in Request, NEW r \in Request, Active(q), Active(r)
  PROVE  q = r
BY DEF BeforeIsDone, NoOverlap, Overlap, Begun, Active

\* What is so for a request under way that nobody disturbs:
OnTheWay(r) ==
  \* it adds a row only where no other request has left one,
  /\ pc[r] \in {"add", "addMany"} \/ (pc[r] = "lock" /\ op[r] = batch_create)
       => \A x \in rows : x.id \notin applied
  \* a row that its service found is there when the repository looks,
  /\ pc[r] = "find" /\ op[r].first = "check" => rows # {}
  \* it has read nothing if there was no row,
  /\ op[r].change = "patch" /\ pc[r] \in {"recheck", "lock", "addMany", "add"}
       => copy[r] = {}
  \* and otherwise what is still there when it writes it back,
  /\ op[r].change = "patch" /\ pc[r] \in {"find", "write"} /\ Ids(rows) \subseteq applied
       => \A x \in rows : x.doc = copy[r]
  \* to a row that is still there,
  /\ pc[r] = "write" => target[r] \in Ids(rows)
  \* so that it has made its change when it answers.
  /\ pc[r] = "answer" => r \in applied

\* Requests leave at most one row.
OneApplied == \A x, y \in rows : {x.id, y.id} \subseteq applied => x = y

\* The inductive invariant.
SerialInv ==
  PastInv /\ (NoOverlap => OneApplied /\ \A r \in Request : OnTheWay(r))

LEMMA SerialInvInit == Init => SerialInv
<1> SUFFICES ASSUME Init PROVE SerialInv
  OBVIOUS
<1>1. OneApplied /\ \A r \in Request : OnTheWay(r)
  BY DEF Init, OneApplied, OnTheWay
<1> QED
  BY <1>1, PastInvInit DEF SerialInv

\* A request that is not under way is as it should be.
LEMMA Resting ==
  ASSUME NEW r \in Request, ~ Active(r)
  PROVE  OnTheWay(r)
BY DEF Active, OnTheWay

\* As long as requests do not overlap, every step keeps their ways.
LEMMA SerialInvStep == SerialInv /\ [Next]_vars => SerialInv'
<1> SUFFICES ASSUME SerialInv, [Next]_vars, NoOverlap'
             PROVE  OneApplied' /\ \A r \in Request : OnTheWay(r)'
  BY PastInvStep DEF SerialInv
<1> USE StoreAssumption
<1>0. /\ PastInv /\ PastInv' /\ TypeInv /\ TypeInv' /\ PeerHolds
      /\ NoOverlap /\ OneApplied /\ \A r \in Request : OnTheWay(r)
  BY PastInvStep, OverlapStays DEF SerialInv, PastInv, PeerInv
<1>a. ASSUME NEW r \in Request, Active(r) \/ Active(r)',
             \A q \in Request \ {r} : pc'[q] = pc[q], OnTheWay(r)'
      PROVE  \A q \in Request : OnTheWay(q)'
  <2> SUFFICES ASSUME NEW q \in Request \ {r}, Active(q)' PROVE FALSE
    BY <1>a, Resting DEF Active, OnTheWay
  <2>1. Active(q)
    BY <1>a DEF Active
  <2>2. CASE Active(r)
    BY <1>0, <2>1, <2>2, OneActive DEF PastInv
  <2>3. CASE Active(r)'
    BY <1>0, <2>3 DEF PastInv, BeforeIsDone, NoOverlap, Overlap, Begun, Active
  <2> QED
    BY <1>a, <2>2, <2>3
<1>b. \A r \in Request : pc[r] # "new" =>
        op[r] \in Op /\ WellFormed(op[r]) /\ Careful(op[r])
  BY <1>0, OpKnown, CarefulServices
<1>c. batch_create.change = "put" /\ apply_peer_entity_batch.change = "put"
  BY DEF batch_create, apply_peer_entity_batch, create
<1>1. ASSUME NEW r \in Request, NEW o \in Op, Begin(r, o)
      PROVE  OneApplied' /\ \A q \in Request : OnTheWay(q)'
  <2>1. WellFormed(o) /\ Careful(o)
    BY Services, CarefulServices
  <2>2. /\ pc' = [pc EXCEPT ![r] = o.first] /\ op' = [op EXCEPT ![r] = o]
        /\ UNCHANGED <<rows, applied>>
    BY <1>1 DEF Begin, Goto
  <2>3. pc'[r] = o.first /\ op'[r] = o /\ \A q \in Request \ {r} : pc'[q] = pc[q]
    BY <1>0, <2>2 DEF TypeInv, RequestTypes
  <2>4. o.first \in {"check", "lock", "find"} /\ (o.first = "lock" => o = apply_peer_entity_batch)
    BY <2>1 DEF WellFormed
  <2>5. OnTheWay(r)' /\ Active(r)'
    BY <1>c, <2>1, <2>3, <2>4, Distinct DEF OnTheWay, Active, Careful
  <2> QED
    BY <1>0, <1>a, <2>2, <2>3, <2>5 DEF OneApplied
<1>2. ASSUME NEW r \in Request, Check(r)
      PROVE  OneApplied' /\ \A q \in Request : OnTheWay(q)'
  <2>1. /\ pc[r] = "check" /\ UNCHANGED <<rows, applied, op, target>>
        /\ \A q \in Request \ {r} : pc'[q] = pc[q]
    BY <1>0, <1>2 DEF Check, Follow, Answer, Goto, TypeInv, RequestTypes
  <2>2. copy[r] = {}
    BY <1>0, <2>1 DEF PastInv, CopyIsRead
  <2>3. ASSUME rows = {}, Follow(r, op[r].absent), UNCHANGED copy
        PROVE  OnTheWay(r)'
    <3>1. op[r].absent \in {"missing", "recheck", "lock", "addMany"}
      BY <1>b, <2>1 DEF WellFormed
    <3>2. pc'[r] \in {"recheck", "lock", "addMany", "done"}
      BY <1>0, <2>3, <3>1 DEF Follow, Answer, Goto, Calls, TypeInv, RequestTypes
    <3>3. rows' = {} /\ copy'[r] = {}
      BY <2>1, <2>2, <2>3
    <3> QED
      BY <3>2, <3>3 DEF OnTheWay
  <2>4. ASSUME NEW row \in rows, copy' = [copy EXCEPT ![r] = row.doc],
               Follow(r, op[r].present) \/ Answer(r, "refused")
        PROVE  OnTheWay(r)'
    <3>1. op[r].present \in {"find", "exists"}
      BY <1>b, <2>1 DEF WellFormed
    <3>2. pc'[r] \in {"find", "done"} /\ copy'[r] = row.doc
      BY <1>0, <2>4, <3>1 DEF Follow, Answer, Goto, Calls, TypeInv, RequestTypes
    <3>3. Ids(rows) \subseteq applied => \A x \in rows : x = row
      BY <1>0 DEF OneApplied, Ids
    <3> QED
      BY <2>1, <3>2, <3>3 DEF OnTheWay, Ids
  <2>5. OnTheWay(r)'
    BY <1>2, <2>3, <2>4 DEF Check
  <2> QED
    BY <1>0, <1>a, <2>1, <2>5 DEF OneApplied, Active
<1>3. ASSUME NEW r \in Request, Lock(r)
      PROVE  OneApplied' /\ \A q \in Request : OnTheWay(q)'
  <2>1. /\ pc[r] = "lock" /\ UNCHANGED <<rows, applied, op, target, copy>>
        /\ pc'[r] = IF op[r].first = "lock" THEN "check" ELSE "addMany"
        /\ \A q \in Request \ {r} : pc'[q] = pc[q]
    BY <1>0, <1>3 DEF Lock, Goto, TypeInv, RequestTypes
  <2>2. op[r].first # "lock" => op[r] = batch_create
    BY <1>0, <1>b, <2>1 DEF TypeInv, LockUse, Bulk, WellFormed
  <2>3. OnTheWay(r)'
    BY <1>0, <2>1, <2>2 DEF OnTheWay
  <2> QED
    BY <1>0, <1>a, <2>1, <2>3 DEF OneApplied, Active
<1>4. ASSUME NEW r \in Request, Recheck(r)
      PROVE  OneApplied' /\ \A q \in Request : OnTheWay(q)'
  <2>1. /\ pc[r] = "recheck" /\ UNCHANGED <<rows, applied, op, target, copy>>
        /\ pc'[r] = IF rows = {} THEN "add" ELSE "done"
        /\ \A q \in Request \ {r} : pc'[q] = pc[q]
    BY <1>0, <1>4 DEF Recheck, Follow, Answer, Goto, Calls, Answers, TypeInv, RequestTypes
  <2>2. OnTheWay(r)'
    BY <1>0, <2>1 DEF OnTheWay
  <2> QED
    BY <1>0, <1>a, <2>1, <2>2 DEF OneApplied, Active
<1>5. ASSUME NEW r \in Request, AddManyDuplicate(r)
      PROVE  OneApplied' /\ \A q \in Request : OnTheWay(q)'
  <2>1. /\ pc[r] = "addMany" /\ op[r] = apply_peer_entity_batch
        /\ UNCHANGED <<rows, applied, op, target, copy>>
        /\ pc'[r] = "recheck" /\ \A q \in Request \ {r} : pc'[q] = pc[q]
    BY <1>0, <1>5 DEF AddManyDuplicate, Goto, TypeInv, RequestTypes
  <2>2. OnTheWay(r)'
    BY <1>c, <2>1 DEF OnTheWay
  <2> QED
    BY <1>0, <1>a, <2>1, <2>2 DEF OneApplied, Active
<1>6. ASSUME NEW r \in Request, AddDuplicate(r) \/ Reply(r) \/ Die(r)
      PROVE  OneApplied' /\ \A q \in Request : OnTheWay(q)'
  <2>1. /\ pc[r] \notin {"new", "done"} /\ UNCHANGED <<rows, applied>>
        /\ pc'[r] = "done" /\ \A q \in Request \ {r} : pc'[q] = pc[q]
    BY <1>0, <1>6 DEF AddDuplicate, Reply, Die, Answer, Goto, TypeInv, RequestTypes
  <2>2. OnTheWay(r)'
    BY <2>1 DEF OnTheWay
  <2> QED
    BY <1>0, <1>a, <2>1, <2>2 DEF OneApplied, Active
<1>7. ASSUME NEW r \in Request, Add(r)
      PROVE  OneApplied' /\ \A q \in Request : OnTheWay(q)'
  <2>1. /\ pc[r] \in {"add", "addMany"} /\ rows' = rows \cup {Added(r)}
        /\ applied' = applied \cup {r}
        /\ pc'[r] = "answer" /\ \A q \in Request \ {r} : pc'[q] = pc[q]
    BY <1>0, <1>7 DEF Add, Goto, TypeInv, RequestTypes
  <2>2. \A x \in rows : x.id \notin applied'
    BY <1>0, <1>7, <2>1 DEF Add, Ids, OnTheWay
  <2>3. OneApplied'
    BY <2>1, <2>2 DEF OneApplied
  <2>4. OnTheWay(r)'
    BY <2>1 DEF OnTheWay
  <2> QED
    BY <1>a, <2>1, <2>3, <2>4 DEF Active
<1>8. ASSUME NEW r \in Request, Find(r)
      PROVE  OneApplied' /\ \A q \in Request : OnTheWay(q)'
  <2>1. /\ pc[r] = "find" /\ UNCHANGED <<rows, applied, op, copy>>
        /\ \A q \in Request \ {r} : pc'[q] = pc[q]
    BY <1>0, <1>8 DEF Find, Follow, Answer, Goto, TypeInv, RequestTypes
  <2>2. ASSUME rows = {}, Follow(r, op[r].gone)
        PROVE  OnTheWay(r)'
    <3>1. op[r].first = "find"
      BY <1>0, <1>b, <2>1, <2>2 DEF OnTheWay, WellFormed, PeerHolds
    <3>2. op[r].change # "patch" /\ op[r].gone \in {"add", "missing"}
      BY <1>b, <2>1, <3>1 DEF Careful, WellFormed
    <3>3. pc'[r] \in {"add", "done"}
      BY <1>0, <2>2, <3>2 DEF Follow, Answer, Goto, Calls, TypeInv, RequestTypes
    <3>4. rows' = {} /\ op'[r].change # "patch"
      BY <2>1, <2>2, <3>2
    <3> QED
      BY <3>3, <3>4 DEF OnTheWay
  <2>3. ASSUME NEW row \in rows, target' = [target EXCEPT ![r] = row.id], Goto(r, "write")
        PROVE  OnTheWay(r)'
    <3>1. pc'[r] = "write" /\ target'[r] = row.id
      BY <1>0, <2>3 DEF Goto, TypeInv, RequestTypes
    <3> QED
      BY <1>0, <2>1, <3>1 DEF OnTheWay, Ids
  <2>4. OnTheWay(r)'
    BY <1>8, <2>2, <2>3 DEF Find
  <2> QED
    BY <1>0, <1>a, <2>1, <2>4 DEF OneApplied, Active
<1>9. ASSUME NEW r \in Request, Write(r)
      PROVE  OneApplied' /\ \A q \in Request : OnTheWay(q)'
  <2>1. /\ pc[r] = "write" /\ pc'[r] = "answer"
        /\ \A q \in Request \ {r} : pc'[q] = pc[q]
    BY <1>0, <1>9 DEF Write, Goto, TypeInv, RequestTypes
  <2>2. applied' = applied \cup {r}
    BY <1>0, <1>9 DEF Write, OnTheWay, Ids
  <2>3. \A x \in rows' : \E y \in rows : y.id = x.id
    BY <1>9 DEF Write
  <2>4. r \notin used
    BY <1>0, <2>1 DEF PastInv, AnsweredOnce, RowsMade, PeerHolds
  <2>5. \A x \in rows : x.id \in used
    BY <1>0 DEF TypeInv, RowTypes
  <2>6. OneApplied'
    BY <1>0, <2>2, <2>3, <2>4, <2>5 DEF OneApplied, TypeInv, RowTypes
  <2>7. OnTheWay(r)'
    BY <2>1, <2>2 DEF OnTheWay
  <2> QED
    BY <1>a, <2>1, <2>6, <2>7 DEF Active
<1>10. ASSUME NEW r \in Request, RowArrives(r)
      PROVE  OneApplied' /\ \A q \in Request : OnTheWay(q)'
  <2>1. /\ rows' = rows \cup {[id |-> r, doc |-> {r}]} /\ UNCHANGED <<pc, applied, copy, target>>
        /\ \A q \in Request : pc[q] # "new" => op'[q] = op[q]
    BY <1>0, <1>10 DEF RowArrives, TypeInv, RequestTypes, LockUse
  <2>2. r \notin applied
    BY <1>0, <1>10 DEF RowArrives, PastInv, RowsMade, AnsweredOnce, TypeInv, LockUse
  <2>3. OneApplied'
    BY <1>0, <2>1, <2>2 DEF OneApplied
  <2>4. ASSUME NEW q \in Request
        PROVE  OnTheWay(q)'
    BY <1>0, <2>1, <2>2 DEF OnTheWay, Ids
  <2> QED
    BY <2>3, <2>4
<1>11. CASE UNCHANGED vars
  BY <1>0, <1>11 DEF vars, OneApplied, OnTheWay, Ids
<1> QED
  BY <1>1, <1>2, <1>3, <1>4, <1>5, <1>6, <1>7, <1>8, <1>9, <1>10, <1>11
  DEF Next, Call, Idle

\* As long as requests do not overlap and no row comes by replication, a step
\* of a request is one of the in-memory repository, or changes nothing there.
LEMMA SerialStepMaps ==
  ASSUME SerialInv, [Next]_vars, Serial'
  PROVE  [Map!Next]_(Map!vars)
<1> DEFINE Doc == {row.doc : row \in rows}
<1> USE StoreAssumption
<1>0. /\ PastInv /\ TypeInv /\ PeerHolds /\ NoOverlap /\ OneApplied
      /\ \A r \in Request : OnTheWay(r)
  <2>1. NoOverlap'
    BY DEF Serial, NoOverlap
  <2> QED
    BY <2>1, OverlapStays DEF SerialInv, PastInv, PeerInv
<1>a. used' \subseteq applied'
  BY DEF Serial
<1>b. \A r \in Request : pc[r] # "new" =>
        op[r] \in Op /\ WellFormed(op[r]) /\ Careful(op[r])
  BY <1>0, OpKnown, CarefulServices
<1>c. \A r \in Request : pc[r] \notin {"answer", "done"} => r \notin applied /\ reply[r] = "none"
  BY <1>0 DEF PastInv, AnsweredOnce
<1>d. Doc = {} <=> rows = {}
  OBVIOUS
<1>e. ASSUME UNCHANGED <<rows, applied, reply>>
      PROVE  [Map!Next]_(Map!vars)
  BY <1>e DEF Map!vars
<1>f. ASSUME NEW r \in Request, NEW a \in Answers, UNCHANGED <<rows, applied>>,
             pc[r] # "done", reply' = [reply EXCEPT ![r] = a],
             \/ a = "ok" /\ r \in applied
             \/ a = "missing" /\ rows = {} /\ r \notin applied
             \/ a \in {"exists", "refused"} /\ rows # {} /\ r \notin applied
             \/ a = "error"
      PROVE  [Map!Next]_(Map!vars)
  <2>1. Doc' = Doc /\ applied' = applied /\ reply[r] = "none"
    BY <1>0, <1>f DEF PastInv, AnsweredOnce
  <2>2. Map!Answer(r, a)
    BY <1>f, <2>1 DEF Map!Answer
  <2>3. Map!Accept(r) \/ Map!Refuse(r) \/ Map!Fail(r)
    BY <1>d, <1>f, <2>2 DEF Map!Accept, Map!Refuse, Map!Fail
  <2> QED
    BY <2>3 DEF Map!Next
<1>1. ASSUME NEW r \in Request, NEW o \in Op, Begin(r, o)
      PROVE  [Map!Next]_(Map!vars)
  BY <1>1, <1>e DEF Begin
<1>2. ASSUME NEW r \in Request, Check(r)
      PROVE  [Map!Next]_(Map!vars)
  <2>1. pc[r] = "check" /\ UNCHANGED <<rows, applied>>
    BY <1>2 DEF Check
  <2>2. CASE UNCHANGED reply
    BY <1>e, <2>1, <2>2
  <2>3. CASE ~ UNCHANGED reply
    <3>1. /\ op[r].absent \in {"missing", "recheck", "lock", "addMany"}
          /\ op[r].present \in {"find", "exists"}
      BY <1>b, <2>1 DEF WellFormed
    <3>2. \/ rows = {} /\ reply' = [reply EXCEPT ![r] = "missing"]
          \/ rows # {} /\ reply' = [reply EXCEPT ![r] = "exists"]
          \/ rows # {} /\ reply' = [reply EXCEPT ![r] = "refused"]
      BY <1>2, <2>3, <3>1 DEF Check, Follow, Answer, Answers
    <3> QED
      BY <1>c, <1>f, <2>1, <3>2 DEF Answers
  <2> QED
    BY <2>2, <2>3
<1>3. ASSUME NEW r \in Request, Lock(r) \/ AddManyDuplicate(r)
      PROVE  [Map!Next]_(Map!vars)
  BY <1>3, <1>e DEF Lock, AddManyDuplicate
<1>4. ASSUME NEW r \in Request, Recheck(r)
      PROVE  [Map!Next]_(Map!vars)
  <2>1. pc[r] = "recheck" /\ UNCHANGED <<rows, applied>>
    BY <1>4 DEF Recheck
  <2>2. \/ UNCHANGED reply
        \/ rows # {} /\ reply' = [reply EXCEPT ![r] = "exists"]
    BY <1>4 DEF Recheck, Follow, Answer, Answers
  <2> QED
    BY <1>c, <1>e, <1>f, <2>1, <2>2 DEF Answers
<1>5. ASSUME NEW r \in Request, AddDuplicate(r)
      PROVE  [Map!Next]_(Map!vars)
  <2>1. pc[r] = "add" /\ r \in used /\ used' = used /\ applied' = applied
    BY <1>5 DEF AddDuplicate
  <2> QED
    BY <1>a, <1>c, <2>1
<1>6. ASSUME NEW r \in Request, Add(r)
      PROVE  [Map!Next]_(Map!vars)
  <2>1. /\ pc[r] \in {"add", "addMany"} /\ r \notin Ids(rows)
        /\ rows' = rows \cup {Added(r)} /\ used' = used \cup {r}
        /\ applied' = applied \cup {r} /\ reply' = reply
    BY <1>6 DEF Add
  <2>2. rows = {}
    <3> SUFFICES ASSUME NEW x \in rows PROVE FALSE
      OBVIOUS
    <3>1. x.id \in applied'
      BY <1>0, <1>a, <2>1 DEF TypeInv, RowTypes
    <3>2. x.id # r
      BY <2>1 DEF Ids
    <3> QED
      BY <1>0, <2>1, <3>1, <3>2 DEF OnTheWay
  <2>3. Added(r).doc = {r}
    BY <1>0, <2>1 DEF Added, OnTheWay
  <2>4. Doc = {} /\ Doc' = {{r}}
    BY <2>1, <2>2, <2>3
  <2>5. Map!Insert(r)
    BY <1>c, <2>1, <2>4 DEF Map!Insert, Map!Apply
  <2> QED
    BY <2>5 DEF Map!Next
<1>7. ASSUME NEW r \in Request, Find(r)
      PROVE  [Map!Next]_(Map!vars)
  <2>1. pc[r] = "find" /\ UNCHANGED <<rows, applied>>
    BY <1>7 DEF Find
  <2>2. op[r].gone \in {"add", "answer", "missing"}
    BY <1>b, <2>1 DEF WellFormed
  <2>3. \/ UNCHANGED reply
        \/ rows = {} /\ reply' = [reply EXCEPT ![r] = "missing"]
    BY <1>7, <2>2 DEF Find, Follow, Answer, Answers
  <2> QED
    BY <1>c, <1>e, <1>f, <2>1, <2>3 DEF Answers
<1>8. ASSUME NEW r \in Request, Write(r)
      PROVE  [Map!Next]_(Map!vars)
  <2> DEFINE row == {q \in rows : q.id = target[r]}
             new == {[id |-> q.id, doc |-> Added(r).doc] : q \in row}
  <2>1. /\ rows' = (rows \ row) \cup IF op[r].change = "remove" THEN {} ELSE new
        /\ pc[r] = "write" /\ used' = used /\ reply' = reply
        /\ applied' = IF row = {} THEN applied ELSE applied \cup {r}
    BY <1>8 DEF Write
  <2>2. r \notin used /\ r \notin applied /\ reply[r] = "none"
    BY <1>0, <2>1 DEF PastInv, AnsweredOnce, RowsMade, PeerHolds
  <2>3. used \subseteq applied
    BY <1>a, <2>1, <2>2
  <2>4. \A x \in rows : x.id \in applied
    BY <1>0, <2>3 DEF TypeInv, RowTypes
  <2>5. PICK x \in rows : x.id = target[r]
    BY <1>0, <2>1 DEF OnTheWay, Ids
  <2>6. rows = {x} /\ row = {x}
    BY <1>0, <2>4, <2>5 DEF OneApplied
  <2>7. Doc = {x.doc} /\ applied' = applied \cup {r}
    BY <2>1, <2>6
  <2>8. CASE op[r].change = "remove"
    <3>1. Doc' = {}
      BY <2>1, <2>6, <2>8
    <3>2. Map!Delete(r)
      BY <2>1, <2>2, <2>7, <3>1 DEF Map!Delete, Map!Apply
    <3> QED
      BY <3>2 DEF Map!Next
  <2>9. CASE op[r].change # "remove"
    <3>1. rows' = {[id |-> x.id, doc |-> Added(r).doc]}
      BY <2>1, <2>6, <2>9
    <3>2. Doc' = {Added(r).doc}
      BY <3>1
    <3>3. op[r].change = "patch" => x.doc = copy[r]
      BY <1>0, <2>1, <2>4 DEF OnTheWay, Ids
    <3>4. Added(r).doc \in {{r}, x.doc \cup {r}}
      BY <3>3 DEF Added
    <3>5. Map!Replace(r)
      BY <2>1, <2>2, <2>7, <3>2, <3>4 DEF Map!Replace, Map!Apply
    <3> QED
      BY <3>5 DEF Map!Next
  <2> QED
    BY <2>8, <2>9
<1>9. ASSUME NEW r \in Request, Reply(r)
      PROVE  [Map!Next]_(Map!vars)
  <2>1. pc[r] = "answer" /\ UNCHANGED <<rows, applied>> /\ reply' = [reply EXCEPT ![r] = "ok"]
    BY <1>9 DEF Reply, Answer
  <2> QED
    BY <1>0, <1>f, <2>1 DEF OnTheWay, Answers
<1>10. ASSUME NEW r \in Request, Die(r)
       PROVE  [Map!Next]_(Map!vars)
  <2>1. pc[r] # "done" /\ UNCHANGED <<rows, applied>> /\ reply' = [reply EXCEPT ![r] = "error"]
    BY <1>10 DEF Die, Answer
  <2> QED
    BY <1>f, <2>1 DEF Answers
<1>11. ASSUME NEW r \in Request, RowArrives(r)
       PROVE  [Map!Next]_(Map!vars)
  <2>1. r \in used' /\ r \notin used /\ applied' = applied
    BY <1>11 DEF RowArrives
  <2>2. op[r] \in {apply_peer_entity_batch, Unasked}
    BY <1>11 DEF RowArrives
  <2>3. r \notin applied
    BY <1>0, <2>1, <2>2 DEF PastInv, RowsMade, AnsweredOnce, TypeInv, LockUse
  <2> QED
    BY <1>a, <2>1, <2>3
<1>12. CASE UNCHANGED vars
  BY <1>12, <1>e DEF vars
<1> QED
  BY <1>1, <1>2, <1>3, <1>4, <1>5, <1>6, <1>7, <1>8, <1>9, <1>10, <1>11, <1>12
  DEF Next, Call, Idle

\* Whatever services are asked for and whatever fails, requests that come one at
\* a time, their lookups, mutation and answer taken together, are operations of
\* the in-memory repository.
THEOREM SerialImplements == Spec => SerialImplementsMap
<1>1. Init => Map!Init
  BY DEF Init, Map!Init
<1>2. SerialInv /\ [Next]_vars => [Serial' => [Map!Next]_(Map!vars)]_vars
  BY SerialStepMaps
<1> QED
  BY <1>1, <1>2, SerialInvInit, SerialInvStep, PTL DEF Spec, SerialImplementsMap
===============================================================================
