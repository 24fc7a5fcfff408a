------------------------------ MODULE EntityWatch ------------------------------
(***************************************************************************)
(* How one broker decides, for every change of an entity, whether its own  *)
(* subscribers hear of it once, twice or not at all.                       *)
(*                                                                         *)
(* Three parties announce changes.  A request handler that wrote an entity *)
(* announces it inline.  The mutation-log watcher announces the rows other *)
(* brokers logged.  The snapshot watcher compares the store with what it   *)
(* read last and announces every difference.  They coordinate only through *)
(* pending_local, one remembered document per entity: who announces a      *)
(* document leaves it there, who finds its own document there takes it out *)
(* and stays silent (src/src/app/entity_watch.rs,                          *)
(* src/src/services/entities.rs).                                          *)
(*                                                                         *)
(* One broker is modelled in full.  Of its peers only what reaches it is:  *)
(* replicated rows, replicated log records, and the snapshots of large     *)
(* batches posted to /internal/entities/batch, each delayed at will.       *)
(*                                                                         *)
(* A version is the number of the write that made it.  Documents carry     *)
(* their modifiedAt, so two versions never hold equal documents, except    *)
(* that every delete leaves the same absence of one.                       *)
(***************************************************************************)
EXTENDS Naturals, Sequences, FiniteSets

CONSTANTS Key,         \* (tenant, entity id) pairs
          PeerSync,    \* TRUE iff large batches are posted to peers
          MaxWrites,   \* bound of the writes
          MaxUpsets    \* bound of failed deliveries, dropped handlers and restarts

ASSUME WatchAssumption ==
  /\ PeerSync \in BOOLEAN
  /\ MaxWrites \in Nat
  /\ MaxUpsets \in Nat

VARIABLES
  writes,     \* writes[v]: the write that made version v
  store,      \* store[k]: version the entity collection holds, 0 if none ever
  rows,       \* remote versions whose entity row has not arrived
  pushes,     \* remote versions whose snapshot post has not arrived
  inserting,  \* posted versions recorded but not inserted yet
  stage,      \* stage[v]: how far the handler of a local write is
  pending,    \* pending[k]: `pending_local`, NoEntry if there is none
  seen,       \* `seen` of the mutation-log watcher
  queue,      \* its `notification_events`
  phase,      \* of the snapshot watcher: idle, read, deliver
  current,    \* current[k]: the version it read in this poll
  previous,   \* previous[k]: the version it read in the poll before
  snapQueue,  \* its `notification_events`
  announced,  \* announced[v]: times v was announced since the last restart
  failures,   \* failed deliveries and dropped handlers so far
  lives       \* restarts so far

peerVars == <<rows, pushes>>
logVars  == <<seen, queue>>
snapVars == <<phase, current, previous, snapQueue>>
bounds   == <<failures, lives>>
vars == <<writes, store, inserting, stage, pending,
          peerVars, logVars, snapVars, announced, bounds>>

NoEntry == 0
NoDoc   == 0

Version == 1 .. MaxWrites
Write == [key : Key, op : {"upsert", "delete"}, path : {"local", "quiet", "logged", "silent"}]

KeyOf(v)   == writes[v].key
Local(v)   == writes[v].path \in {"local", "quiet"}
Logged(v)  == writes[v].path = "logged"

\* The document a version leaves in the store.
Doc(v) == IF v = 0 THEN NoDoc ELSE IF writes[v].op = "delete" THEN NoDoc ELSE v

Issued == 1 .. Len(writes)

Init ==
  /\ writes = <<>>
  /\ store = [k \in Key |-> 0]
  /\ rows = {} /\ pushes = {} /\ inserting = {}
  /\ stage = [v \in Version |-> "none"]
  /\ pending = [k \in Key |-> NoEntry]
  /\ seen = {} /\ queue = {}
  /\ phase = "idle"
  /\ current = [k \in Key |-> 0]
  /\ previous = [k \in Key |-> 0]
  /\ snapQueue = {}
  /\ announced = [v \in Version |-> 0]
  /\ failures = 0 /\ lives = 0

\* Effect of announcing the versions of S.
Announce(S) ==
  announced' = [v \in Version |-> IF v \in S THEN announced[v] + 1 ELSE announced[v]]

Fail == failures + lives < MaxUpsets /\ failures' = failures + 1

-------------------------------------------------------------------------------
(* Local writes: a handler of src/src/services/entities.rs from its write   *)
(* to the store on.  It awaits before each of its three steps.              *)

Persist(k, op) ==
  LET v == Len(writes) + 1 IN
  /\ v <= MaxWrites
  /\ op = "delete" => Doc(store[k]) # NoDoc
  /\ writes' = Append(writes, [key |-> k, op |-> op, path |-> "local"])
  /\ store' = [store EXCEPT ![k] = v]
  /\ stage' = [stage EXCEPT ![v] = "persisted"]
  /\ UNCHANGED <<inserting, pending, peerVars, logVars, snapVars, announced, bounds>>

\* An attribute append or update that changes no attribute still writes a new
\* modifiedAt, and is neither recorded nor announced by its handler.
PersistQuietly(k) ==
  LET v == Len(writes) + 1 IN
  /\ v <= MaxWrites
  /\ Doc(store[k]) # NoDoc
  /\ writes' = Append(writes, [key |-> k, op |-> "upsert", path |-> "quiet"])
  /\ store' = [store EXCEPT ![k] = v]
  /\ stage' = [stage EXCEPT ![v] = "done"]
  /\ UNCHANGED <<inserting, pending, peerVars, logVars, snapVars, announced, bounds>>

\* record_local_upsert or record_local_delete.
RecordLocal(v) ==
  /\ stage[v] = "persisted"
  /\ stage' = [stage EXCEPT ![v] = "recorded"]
  /\ pending' = [pending EXCEPT ![KeyOf(v)] = v]
  /\ UNCHANGED <<writes, store, inserting, peerVars, logVars, snapVars, announced, bounds>>

\* Mutant of NotifyLocal: announced before it is persisted.
NotifyEarly(v) ==
  /\ stage[v] # "done"
  /\ stage' = [stage EXCEPT ![v] = "done"]
  /\ Announce({v})
  /\ UNCHANGED <<writes, store, inserting, pending, peerVars, logVars, snapVars, bounds>>

\* Mutant of NotifyLocal: an append that fails ends the handler.
NotifyIfAppended(v) ==
  /\ stage[v] = "recorded"
  /\ stage' = [stage EXCEPT ![v] = "done"]
  /\ Announce({v}) \/ UNCHANGED announced
  /\ UNCHANGED <<writes, store, inserting, pending, peerVars, logVars, snapVars, bounds>>

\* enqueue_notifications, after the log append, whose failure is only logged.
NotifyLocal(v) ==
  /\ stage[v] = "recorded"
  /\ stage' = [stage EXCEPT ![v] = "done"]
  /\ Announce({v})
  /\ UNCHANGED <<writes, store, inserting, pending, peerVars, logVars, snapVars, bounds>>

\* The delivery fails, or the client disconnects and the handler is dropped.
HandlerDies(v) ==
  /\ stage[v] \in {"persisted", "recorded"}
  /\ Fail
  /\ stage' = [stage EXCEPT ![v] = "done"]
  /\ UNCHANGED <<writes, store, inserting, pending, peerVars, logVars, snapVars,
                 announced, lives>>
-------------------------------------------------------------------------------
(* Writes of other brokers.                                                 *)

LastWrite(k) ==
  LET of == {v \in Issued : KeyOf(v) = k} IN
  IF of = {} THEN 0 ELSE CHOOSE v \in of : \A u \in of : u <= v

\* A logged write leaves a mutation record; a silent one does not: a batch of
\* more than MUTATION_LOG_BATCH_EVENT_LIMIT creates, an append that failed, a
\* write made directly in DefraDB.  Batches are also posted under PeerSync.
RemoteWrite(k, op, path) ==
  LET v == Len(writes) + 1
      create == op = "upsert" /\ Doc(LastWrite(k)) = NoDoc IN
  /\ v <= MaxWrites
  /\ op = "delete" => Doc(LastWrite(k)) # NoDoc
  /\ writes' = Append(writes, [key |-> k, op |-> op, path |-> path])
  /\ rows' = rows \cup {v}
  /\ pushes' = IF PeerSync /\ create /\ path = "silent" THEN pushes \cup {v} ELSE pushes
  /\ UNCHANGED <<store, inserting, stage, pending, logVars, snapVars, announced, bounds>>

\* DefraDB merges the row: later remote versions win over earlier ones; of a
\* local and a remote version either may win.
RowArrives(v) ==
  LET k == KeyOf(v) IN
  /\ v \in rows
  /\ rows' = rows \ {v}
  /\ \E winner \in {v, store[k]} \ {0} :
       /\ winner # v => Local(winner) \/ winner > v
       /\ winner = v /\ store[k] > v => Local(store[k])
       /\ store' = [store EXCEPT ![k] = winner]
  /\ UNCHANGED <<writes, pushes, inserting, stage, pending, logVars, snapVars,
                 announced, bounds>>

\* apply_peer_entity_batch: the post is recorded for suppression first.  It is
\* sent once and never again; a post that is lost is one that never arrives.
PushArrives(v) ==
  /\ v \in pushes
  /\ pushes' = pushes \ {v}
  /\ pending' = [pending EXCEPT ![KeyOf(v)] = v]
  /\ inserting' = inserting \cup {v}
  /\ UNCHANGED <<writes, store, rows, stage, logVars, snapVars, announced, bounds>>

\* ... and its entity inserted afterwards, unless there is one already.
PushInserts(v) ==
  LET k == KeyOf(v) IN
  /\ v \in inserting
  /\ inserting' = inserting \ {v}
  /\ IF Doc(store[k]) = NoDoc /\ v \in rows
       THEN store' = [store EXCEPT ![k] = v] /\ rows' = rows \ {v}
       ELSE UNCHANGED <<store, rows>>
  /\ UNCHANGED <<writes, pushes, stage, pending, logVars, snapVars, announced, bounds>>
-------------------------------------------------------------------------------
(* The two watchers.                                                        *)

\* Mutant of Suppressed: any remembered document will do.
SuppressedAny(k, v) == pending[k] # NoEntry

\* suppress_if_local: the remembered document is the one that is there now.
Suppressed(k, v) == pending[k] # NoEntry /\ Doc(pending[k]) = Doc(v)

\* Mutant of LogEvent: rows of the overlap are taken up again.
LogEventAgain(v) ==
  LET k == KeyOf(v) IN
  /\ v \in Issued /\ Logged(v)
  /\ seen' = seen \cup {v}
  /\ IF Suppressed(k, v)
       THEN pending' = [pending EXCEPT ![k] = NoEntry] /\ UNCHANGED queue
       ELSE pending' = [pending EXCEPT ![k] = v] /\ queue' = queue \cup {v}
  /\ UNCHANGED <<writes, store, inserting, stage, peerVars, snapVars, announced, bounds>>

\* The loop body of entity_event_watch_loop for one new row of another broker.
\* Rows come in any order; a listing of many is many of these before LogServe.
LogEvent(v) ==
  LET k == KeyOf(v) IN
  /\ v \in Issued /\ Logged(v)
  /\ v \notin seen
  /\ seen' = seen \cup {v}
  /\ IF Suppressed(k, v)
       THEN pending' = [pending EXCEPT ![k] = NoEntry] /\ UNCHANGED queue
       ELSE pending' = [pending EXCEPT ![k] = v] /\ queue' = queue \cup {v}
  /\ UNCHANGED <<writes, store, inserting, stage, peerVars, snapVars, announced, bounds>>

LogServe ==
  /\ queue # {}
  /\ queue' = {}
  /\ Announce(queue)
  /\ UNCHANGED <<writes, store, inserting, stage, pending, seen, peerVars, snapVars, bounds>>

\* enqueue_notifications_batch returns an error part of the way; the rest is
\* only logged, and every row of the batch stays seen and recorded.
LogServeFails ==
  /\ queue # {}
  /\ Fail
  /\ \E served \in SUBSET queue : served # queue /\ Announce(served)
  /\ queue' = {}
  /\ UNCHANGED <<writes, store, inserting, stage, pending, seen, peerVars, snapVars, lives>>

\* collect_snapshots returns.
SnapRead ==
  /\ phase = "idle"
  /\ phase' = "read"
  /\ current' = store
  /\ UNCHANGED <<writes, store, inserting, stage, pending, previous, snapQueue,
                 peerVars, logVars, announced, bounds>>

Changed == {k \in Key : Doc(current[k]) # Doc(previous[k])}

\* entity_watch_loop from the comparison to the delivery, which never awaits.
SnapCompare ==
  LET silent == {k \in Changed : Suppressed(k, current[k])} IN
  /\ phase = "read"
  /\ phase' = "deliver"
  /\ pending' = [k \in Key |-> IF k \in silent THEN NoEntry ELSE pending[k]]
  /\ snapQueue' = {current[k] : k \in Changed \ silent}
  /\ previous' = current
  /\ UNCHANGED <<writes, store, inserting, stage, current, peerVars, logVars, announced, bounds>>

SnapServe ==
  /\ phase = "deliver"
  /\ phase' = "idle"
  /\ Announce(snapQueue)
  /\ snapQueue' = {}
  /\ UNCHANGED <<writes, store, inserting, stage, pending, current, previous,
                 peerVars, logVars, bounds>>

SnapServeFails ==
  /\ phase = "deliver"
  /\ Fail
  /\ phase' = "idle"
  /\ \E served \in SUBSET snapQueue : served # snapQueue /\ Announce(served)
  /\ snapQueue' = {}
  /\ UNCHANGED <<writes, store, inserting, stage, pending, current, previous,
                 peerVars, logVars, lives>>

\* The process restarts: all that is left is what DefraDB stores.
Restart ==
  /\ failures + lives < MaxUpsets
  /\ lives' = lives + 1
  /\ stage' = [v \in Version |-> IF stage[v] = "none" THEN "none" ELSE "done"]
  /\ pending' = [k \in Key |-> NoEntry]
  /\ seen' = {} /\ queue' = {} /\ snapQueue' = {} /\ inserting' = {}
  /\ phase' = "idle"
  /\ current' = [k \in Key |-> 0]
  /\ previous' = [k \in Key |-> 0]
  /\ announced' = [v \in Version |-> 0]
  /\ UNCHANGED <<writes, store, peerVars, failures>>

Next ==
  \/ \E k \in Key, op \in {"upsert", "delete"} :
       \/ Persist(k, op)
       \/ \E path \in {"logged", "silent"} : RemoteWrite(k, op, path)
  \/ \E k \in Key : PersistQuietly(k)
  \/ \E v \in Version :
       \/ RecordLocal(v) \/ NotifyLocal(v) \/ HandlerDies(v)
       \/ RowArrives(v) \/ PushArrives(v) \/ PushInserts(v)
       \/ LogEvent(v)
  \/ LogServe \/ LogServeFails
  \/ SnapRead \/ SnapCompare \/ SnapServe \/ SnapServeFails
  \/ Restart

\* Handlers run on, both watchers loop for ever and every logged row is
\* listed in the end (MutationLog).  Rows need not arrive.
Fairness ==
  /\ WF_vars(\E v \in Version : RecordLocal(v) \/ NotifyLocal(v))
  /\ WF_vars(\E v \in Version : PushInserts(v))
  /\ WF_vars(LogServe \/ \E v \in Version : LogEvent(v))
  /\ WF_vars(SnapRead \/ SnapCompare \/ SnapServe)

Spec == Init /\ [][Next]_vars /\ Fairness
-------------------------------------------------------------------------------
\* Types: every version anything remembers has been issued, and pending_local
\* remembers a version of the entity it is filed under.
TypeOK ==
  /\ writes \in Seq(Write) /\ Len(writes) <= MaxWrites
  /\ store \in [Key -> {0} \cup Issued]
  /\ rows \subseteq Issued /\ pushes \subseteq Issued /\ inserting \subseteq Issued
  /\ stage \in [Version -> {"none", "persisted", "recorded", "done"}]
  /\ \A v \in Version : stage[v] # "none" => v \in Issued
  /\ pending \in [Key -> {NoEntry} \cup Issued]
  /\ \A k \in Key : pending[k] # NoEntry => KeyOf(pending[k]) = k
  /\ seen \subseteq Issued /\ queue \subseteq Issued
  /\ phase \in {"idle", "read", "deliver"}
  /\ current \in [Key -> {0} \cup Issued]
  /\ previous \in [Key -> {0} \cup Issued]
  /\ snapQueue \subseteq Issued
  /\ announced \in [Version -> Nat]
  /\ failures \in 0 .. MaxUpsets
  /\ lives \in 0 .. MaxUpsets

\* Whatever pending_local makes a watcher pass over in silence is announced by
\* whoever put it there: already, or in a step it still has to take.  As long
\* as no delivery failed, and but for what peers posted: a silent version is
\* only ever recorded by apply_peer_entity_batch, which never announces.
PendingBacked ==
  failures = 0 =>
    \A k \in Key :
      LET v == pending[k] IN
      v # NoEntry /\ writes[v].path # "silent" =>
        announced[v] > 0 \/ v \in queue \/ stage[v] = "recorded"

\* In one life of the process no change is announced more than twice: once by
\* its handler or the log watcher, once by the snapshot watcher; a change that
\* neither has heard of at most once.
AtMostTwice ==
  \A v \in Issued :
    announced[v] <= IF writes[v].path \in {"local", "logged"} THEN 2 ELSE 1

\* When writes have ended, the document of every entity is announced, and after
\* a restart again, however its handler, its log record, its row and the
\* snapshots interleave (README.md, "slower correctness fallback"): if no
\* delivery fails and no batch posted by a peer arrives.
StableAnnounced ==
  [](failures = 0 /\ inserting = {}) =>
    \A k \in Key : []<>(Doc(store[k]) = NoDoc \/ announced[store[k]] > 0)

\* "Remote brokers rely on the slower snapshot watcher for those bulk
\* notification side effects" (the comment on MUTATION_LOG_BATCH_EVENT_LIMIT):
\* a document that came without a mutation record and stays is announced.
BulkAnnounced ==
  \A k \in Key, v \in Version :
    <>[](store[k] = v /\ writes[v].path = "silent" /\ Doc(v) # NoDoc) => <>(announced[v] > 0)
===============================================================================
