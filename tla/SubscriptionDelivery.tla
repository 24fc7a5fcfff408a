------------------------- MODULE SubscriptionDelivery -------------------------
(***************************************************************************)
(* One subscription of one broker: the requests that create, patch and     *)
(* delete it (src/src/services/subscriptions.rs), and the tasks that post  *)
(* notifications to its endpoint and then add them to timesSent and        *)
(* timesFailed (src/src/services/notifications.rs).  A task is a handler   *)
(* of an entity write or one of the two watchers.                          *)
(*                                                                         *)
(* Patching and accounting each read the whole document, change it and     *)
(* write the whole document back, in three calls to DefraDB with nothing   *)
(* held in between (src/src/persistence/defradb.rs).                       *)
(*                                                                         *)
(* A document is the patches it shows and its two counters.  Which         *)
(* subscriptions an event matches is left open: a task that listed the     *)
(* subscription may post any number of times.                              *)
(***************************************************************************)
EXTENDS Integers, FiniteSets

CONSTANTS Client,      \* requests
          Worker,      \* delivering tasks
          MaxPosts,    \* bound of the notifications posted
          MaxRows,     \* bound of the rows ever created
          MaxFailures  \* bound of the calls that fail for good

ASSUME DeliveryAssumption ==
  /\ Client \cap Worker = {}
  /\ MaxPosts \in Nat /\ MaxRows \in Nat /\ MaxFailures \in Nat

VARIABLES
  rows,    \* rows of the subscription: [id, doc]
  made,    \* rows created so far, their ids are 1 .. made
  pc,      \* pc[p]: where client or worker p is
  copy,    \* copy[p]: the document p read
  target,  \* target[p]: the id of the row p found
  listed,  \* listed[w]: w's listing showed the subscription
  due,     \* due[w]: what w posted and has not recorded, [ok, bad]
  reply,   \* reply[c]: "none", "ok", "exists", "missing" or "error"
  gone,    \* a delete was accepted, and no create since
  crossed, \* the document was read while a change of it was under way
  posts, failedPosts, \* notifications posted, and those of them that failed
  failures

counters == <<posts, failedPosts, failures>>
vars == <<rows, made, pc, copy, target, listed, due, reply, gone, crossed, counters>>

Map == INSTANCE SubscriptionMap WITH sub <- {row.doc : row \in rows}

Process == Client \cup Worker

Init ==
  /\ rows = {} /\ made = 0
  /\ pc = [p \in Process |-> "idle"]
  /\ copy = [p \in Process |-> Map!Fresh]
  /\ target = [p \in Process |-> 0]
  /\ listed = [w \in Worker |-> FALSE]
  /\ due = [w \in Worker |-> Map!NothingDue]
  /\ reply = [c \in Client |-> "none"]
  /\ gone = FALSE /\ crossed = FALSE
  /\ posts = 0 /\ failedPosts = 0 /\ failures = 0

\* Between the first read of a change and its last write.
Open == {p \in Process : pc[p] \in {"add", "find", "write", "remove"}}
Read == crossed' = (crossed \/ Open # {})

Goto(p, l) == pc' = [pc EXCEPT ![p] = l]

\* Mutant of Finish: a task keeps its counts for the next delivery.
FinishKeeping(p, a) ==
  /\ Goto(p, IF p \in Client THEN "done" ELSE "idle")
  /\ reply' = IF p \in Client THEN [reply EXCEPT ![p] = a] ELSE reply
  /\ UNCHANGED due

\* p is through: a request is answered, the counts of a task are dropped.
Finish(p, a) ==
  /\ Goto(p, IF p \in Client THEN "done" ELSE "idle")
  /\ reply' = IF p \in Client THEN [reply EXCEPT ![p] = a] ELSE reply
  /\ due' = IF p \in Worker THEN [due EXCEPT ![p] = Map!NothingDue] ELSE due

-------------------------------------------------------------------------------
(* Requests.                                                                 *)

Request(c) ==
  /\ pc[c] = "idle"
  /\ \E first \in {"check", "get", "lookup"} : Goto(c, first) \* create, patch, delete
  /\ UNCHANGED <<rows, made, copy, target, listed, due, reply, gone, crossed, counters>>

\* The lookup of insert.
Check(c) ==
  /\ pc[c] = "check" /\ Read
  /\ IF rows = {} THEN Goto(c, "add") /\ UNCHANGED <<reply, due>> ELSE Finish(c, "exists")
  /\ copy' = [copy EXCEPT ![c] = Map!Fresh]
  /\ UNCHANGED <<rows, made, target, listed, gone, counters>>

\* The lookup of delete.
Lookup(c) ==
  /\ pc[c] = "lookup" /\ Read
  /\ \/ rows = {} /\ Finish(c, "missing") /\ UNCHANGED target
     \/ \E row \in rows :
          /\ target' = [target EXCEPT ![c] = row.id]
          /\ Goto(c, "remove")
          /\ UNCHANGED <<reply, due>>
  /\ UNCHANGED <<rows, made, copy, listed, gone, counters>>

Remove(c) ==
  /\ pc[c] = "remove"
  /\ rows' = {row \in rows : row.id # target[c]}
  /\ gone' = TRUE
  /\ Finish(c, "ok")
  /\ UNCHANGED <<made, copy, target, listed, crossed, counters>>
-------------------------------------------------------------------------------
(* enqueue_notifications and enqueue_notifications_batch.                    *)

List(w) ==
  /\ pc[w] = "idle"
  /\ Goto(w, "deliver")
  /\ listed' = [listed EXCEPT ![w] = rows # {}]
  /\ UNCHANGED <<rows, made, copy, target, due, reply, gone, crossed, counters>>

\* An event matches; the endpoint answers, refuses or times out.
Post(w) ==
  /\ pc[w] = "deliver" /\ listed[w]
  /\ posts < MaxPosts
  /\ posts' = posts + 1
  /\ \/ due' = [due EXCEPT ![w].ok = @ + 1] /\ UNCHANGED failedPosts
     \/ due' = [due EXCEPT ![w].bad = @ + 1] /\ failedPosts' = failedPosts + 1
  /\ UNCHANGED <<rows, made, pc, copy, target, listed, reply, gone, crossed, failures>>

\* record_delivery_counts, which has an entry only for what was posted.
Delivered(w) ==
  /\ pc[w] = "deliver"
  /\ Goto(w, IF due[w] = Map!NothingDue THEN "idle" ELSE "get")
  /\ UNCHANGED <<rows, made, copy, target, listed, due, reply, gone, crossed, counters>>

-------------------------------------------------------------------------------
(* patch and mark_delivery_batch: get, then replace.                         *)

Get(p) ==
  /\ pc[p] = "get" /\ Read
  /\ \/ rows = {} /\ Finish(p, "missing") /\ UNCHANGED copy
     \/ \E row \in rows :
          /\ copy' = [copy EXCEPT ![p] = IF p \in Client THEN Map!Patched(row.doc, p)
                                         ELSE Map!Counted(row.doc, due[p])]
          /\ Goto(p, "find")
          /\ UNCHANGED <<reply, due>>
  /\ UNCHANGED <<rows, made, target, listed, gone, counters>>

\* Mutant of Find: replace adds a row without looking for one.
FindNever(p) ==
  /\ pc[p] = "find"
  /\ Goto(p, "add")
  /\ UNCHANGED <<rows, made, copy, target, listed, due, reply, gone, crossed, counters>>

Find(p) ==
  /\ pc[p] = "find"
  /\ \/ rows = {} /\ Goto(p, "add") /\ UNCHANGED target
     \/ \E row \in rows :
          target' = [target EXCEPT ![p] = row.id] /\ Goto(p, "write")
  /\ UNCHANGED <<rows, made, copy, listed, due, reply, gone, crossed, counters>>

\* update_SubscriptionRecord of a row that may be gone by now.
Write(p) ==
  /\ pc[p] = "write"
  /\ rows' = {IF row.id = target[p] THEN [row EXCEPT !.doc = copy[p]] ELSE row : row \in rows}
  /\ Finish(p, "ok")
  /\ UNCHANGED <<made, copy, target, listed, gone, crossed, counters>>

\* add_SubscriptionRecord, of a create or of a replace that found no row: only
\* a create writes a document without patches and counts.
Add(p) ==
  /\ pc[p] = "add"
  /\ made < MaxRows
  /\ made' = made + 1
  /\ rows' = rows \cup {[id |-> made + 1, doc |-> copy[p]]}
  /\ gone' = (gone /\ copy[p] # Map!Fresh)
  /\ Finish(p, "ok")
  /\ UNCHANGED <<copy, target, listed, crossed, counters>>

\* A call fails for good: a request is answered 500, an accounting write is
\* only logged, and the `?` in deliver_notifications skips it altogether.
Die(p) ==
  /\ pc[p] \notin {"idle", "done"}
  /\ failures < MaxFailures
  /\ failures' = failures + 1
  /\ Finish(p, "error")
  /\ UNCHANGED <<rows, made, copy, target, listed, gone, crossed, posts, failedPosts>>

Next ==
  \/ \E c \in Client : Request(c) \/ Check(c) \/ Lookup(c) \/ Remove(c)
  \/ \E w \in Worker : List(w) \/ Post(w) \/ Delivered(w)
  \/ \E p \in Process : Get(p) \/ Find(p) \/ Write(p) \/ Add(p) \/ Die(p)

Spec == Init /\ [][Next]_vars
-------------------------------------------------------------------------------
\* Types, and each row has a number of its own.
Document == [patches : SUBSET Client, sent : 0 .. MaxPosts, failed : 0 .. MaxPosts]

TypeOK ==
  /\ rows \subseteq [id : 1 .. made, doc : Document]
  /\ \A x, y \in rows : x.id = y.id => x = y
  /\ made \in 0 .. MaxRows
  /\ pc \in [Process -> {"idle", "check", "get", "lookup", "deliver", "find", "write",
                         "add", "remove", "done"}]
  /\ copy \in [Process -> Document]
  /\ target \in [Process -> 0 .. made]
  /\ listed \in [Worker -> BOOLEAN]
  /\ due \in [Worker -> [ok : 0 .. MaxPosts, bad : 0 .. MaxPosts]]
  /\ reply \in [Client -> {"none", "ok", "exists", "missing", "error"}]
  /\ gone \in BOOLEAN /\ crossed \in BOOLEAN
  /\ posts \in 0 .. MaxPosts /\ failedPosts \in 0 .. posts
  /\ failures \in 0 .. MaxFailures

\* However deliveries, patches, deletes and failures overlap, the counters
\* never exceed what was really posted: a lost update loses, it never doubles.
NeverOvercounted ==
  \A row \in rows :
    /\ row.doc.sent <= posts
    /\ row.doc.failed <= failedPosts
    /\ row.doc.sent - row.doc.failed <= posts - failedPosts

\* As long as no document is read while a change of it is under way, the
\* three calls of a patch or of an accounting write are one step of the
\* in-memory repository, whatever the deliveries and failures around it.
AloneImplementsMap == Map!Init /\ [][~ crossed' => [Map!Next]_(Map!vars)]_vars

\* "Deletes subscription document and returns removed value" (repository.rs):
\* after an accepted delete there is no subscription until the next create.
DeletedStaysDeleted == gone => rows = {}
===============================================================================
