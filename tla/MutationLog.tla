----------------------------- MODULE MutationLog -----------------------------
(***************************************************************************)
(* The replicated entity mutation log and the fast watcher that reads it.  *)
(*                                                                         *)
(* A broker that writes an entity stamps one event with its own clock and  *)
(* inserts it into its DefraDB node (src/src/services/entities.rs,         *)
(* entity_mutation_document and append_entity_mutation).  DefraDB          *)
(* replicates the rows between nodes, in any order.  On every broker one   *)
(* task (src/src/app/entity_watch.rs, entity_event_watch_loop) lists the   *)
(* rows newer than a cursor minus an overlap, skips those it has seen or   *)
(* stamped itself, and announces the others to its local subscriptions.    *)
(*                                                                         *)
(* The only memory of that task, cursor and seen, dies with the process.   *)
(*                                                                         *)
(* Time.  now is true time; each broker reads now + skew[b].  Three bounds *)
(* say how late the environment is: MaxSkew (clocks), MaxLag (from the     *)
(* stamp until the row is visible at every watching broker) and MaxPoll    *)
(* (from the listing of a poll to its end: the watcher posts all           *)
(* notifications of a poll inline).  Nothing in the code enforces them;    *)
(* AssumeOverlap is the condition under which its overlap is wide enough.  *)
(***************************************************************************)
EXTENDS Integers, FiniteSets

CONSTANTS Broker,    \* the broker processes of the swarm
          Watching,  \* those with BROKER_ENTITY_EVENT_WATCH_ENABLED
          BrokerId,  \* BrokerId[b]: the BROKER_ID of b
          EventId,   \* uuids of mutation events
          Tenant,    \* tenants
          TenantOf,  \* TenantOf[e]: the tenant of the entity event e is about
          Overlap,   \* MUTATION_LOG_CURSOR_OVERLAP_MS
          MaxSkew, MaxLag, MaxPoll, \* see above
          MaxTime,   \* bound of now
          MaxLives   \* bound of the restarts of one broker

ASSUME BrokerAssumption ==
  /\ Broker # {}
  /\ Watching \subseteq Broker
  /\ TenantOf \in [EventId -> Tenant]
ASSUME TimeAssumption ==
  /\ Overlap \in Nat
  /\ MaxSkew \in Nat
  /\ MaxLag \in Nat
  /\ MaxPoll \in Nat
  /\ MaxTime \in Nat
  /\ MaxLives \in Nat

VARIABLES
  now,       \* true time
  skew,      \* skew[b]: how far the clock of b is ahead of true time
  issued,    \* events stamped so far
  origin,    \* origin[e]: the broker that stamped e
  born,      \* born[e]: true time of the stamp
  inflight,  \* stamped events whose insert has not been answered
  log,       \* log[b]: events whose row the DefraDB node of b holds
  cursor,    \* cursor[b]: `cursor` of the watcher of b
  seen,      \* seen[b]: `seen` of the watcher of b
  polling,   \* polling[b]: the watcher of b is between list_after and sleep
  started,   \* started[b]: true time of the listing of that poll
  batch,     \* batch[b]: `notification_events` of that poll
  lives,     \* lives[b]: times the process of b was restarted
  sent,      \* sent[b][e]: times b announced e in its present life
  settled    \* settled[b]: events b announced, suppressed or gave up in any life

brokerVars == <<issued, origin, born, inflight>>
watchVars  == <<cursor, seen, polling, started, batch>>
history    == <<sent, settled>>
vars == <<now, skew, log, lives, brokerVars, watchVars, history>>

Clock(b) == now + skew[b]

\* created_at_millis and origin_broker_id of an event's row.
CreatedAt(e) == born[e] + skew[origin[e]]
OriginId(e)  == BrokerId[origin[e]]

Larger(x, y) == IF x >= y THEN x ELSE y

Init ==
  /\ now = MaxSkew
  /\ skew \in [Broker -> -MaxSkew .. MaxSkew]
  /\ issued = {} /\ inflight = {}
  /\ origin = [e \in EventId |-> CHOOSE b \in Broker : TRUE] \* until stamped
  /\ born = [e \in EventId |-> 0]
  /\ log = [b \in Broker |-> {}]
  /\ cursor = [b \in Broker |-> 0]
  /\ seen = [b \in Broker |-> {}]
  /\ polling = [b \in Broker |-> FALSE]
  /\ started = [b \in Broker |-> 0]
  /\ batch = [b \in Broker |-> {}]
  /\ lives = [b \in Broker |-> 0]
  /\ sent = [b \in Broker |-> [e \in EventId |-> 0]]
  /\ settled = [b \in Broker |-> {}]
-------------------------------------------------------------------------------
\* Time passes, no further than the lag and poll bounds allow.
Tick ==
  /\ now < MaxTime
  /\ \A e \in issued, b \in Watching :
       e \notin log[b] /\ (e \in inflight \/ \E h \in Broker : e \in log[h])
          => now < born[e] + MaxLag
  /\ \A b \in Watching : polling[b] => now < started[b] + MaxPoll
  /\ now' = now + 1
  /\ UNCHANGED <<skew, log, lives, brokerVars, watchVars, history>>

\* A write of broker b reaches entity_mutation_document.
Stamp(b, e) ==
  /\ e \notin issued
  /\ issued' = issued \cup {e}
  /\ origin' = [origin EXCEPT ![e] = b]
  /\ born' = [born EXCEPT ![e] = now]
  /\ inflight' = inflight \cup {e}
  /\ UNCHANGED <<now, skew, log, lives, watchVars, history>>

\* The insert succeeds on the broker's own node.
Append(e) ==
  /\ e \in inflight
  /\ inflight' = inflight \ {e}
  /\ log' = [log EXCEPT ![origin[e]] = @ \cup {e}]
  /\ UNCHANGED <<now, skew, issued, origin, born, lives, watchVars, history>>

\* The insert fails, which is only logged, or the process dies before it.
AppendFails(e) ==
  /\ e \in inflight
  /\ inflight' = inflight \ {e}
  /\ UNCHANGED <<now, skew, issued, origin, born, log, lives, watchVars, history>>

\* DefraDB copies one row to the node of b: no order is kept.
Replicate(b, e) ==
  /\ e \notin log[b]
  /\ \E h \in Broker : e \in log[h]
  /\ log' = [log EXCEPT ![b] = @ \cup {e}]
  /\ UNCHANGED <<now, skew, lives, brokerVars, watchVars, history>>
-------------------------------------------------------------------------------
\* list_after: the rows at or after a lower bound.
ListAfter(b, after) == {e \in log[b] : CreatedAt(e) >= after}

\* Mutant of Window: no overlap.
WindowBare(b) == ListAfter(b, cursor[b])

Window(b) == ListAfter(b, cursor[b] - Overlap)

\* Mutant of Fresh: no dedupe by event id.
FreshAgain(b, rows) == {e \in rows : OriginId(e) # BrokerId[b]}

\* Rows of the listing the watcher neither stamped nor saw in this life.
Fresh(b, rows) == {e \in rows \ seen[b] : OriginId(e) # BrokerId[b]}

\* c is the maximum of the cursor and of created_at over the rows.
Raised(b, rows, c) ==
  /\ c = cursor[b] \/ \E e \in rows : c = CreatedAt(e)
  /\ c >= cursor[b]
  /\ \A e \in rows : c >= CreatedAt(e)

\* One listing and the loop over its rows, which never awaits.  Which fresh
\* events pending_local suppresses is the business of EntityWatch: quiet is
\* any subset of them here.
PollList(b) ==
  LET rows == Window(b) IN
  /\ ~ polling[b]
  /\ polling' = [polling EXCEPT ![b] = TRUE]
  /\ started' = [started EXCEPT ![b] = now]
  /\ \E c \in {cursor[b]} \cup {CreatedAt(e) : e \in rows} :
       /\ Raised(b, rows, c)
       /\ cursor' = [cursor EXCEPT ![b] = c]
  /\ seen' = [seen EXCEPT ![b] = @ \cup rows]
  /\ \E quiet \in SUBSET Fresh(b, rows) :
       /\ batch' = [batch EXCEPT ![b] = Fresh(b, rows) \ quiet]
       /\ settled' = [settled EXCEPT ![b] = @ \cup quiet]
  /\ UNCHANGED <<now, skew, log, lives, brokerVars, sent>>

\* enqueue_notifications_batch for one tenant, tenants in any order.  An error
\* (a storage read, a remote context) ends it early: what was served until
\* then is a prefix in created_at order, the rest is only logged and dropped.
Serve(b, t) ==
  LET events == {e \in batch[b] : TenantOf[e] = t} IN
  /\ polling[b]
  /\ events # {}
  /\ \E served \in SUBSET events :
       /\ \A e \in served, f \in events : CreatedAt(f) < CreatedAt(e) => f \in served
       /\ sent' = [sent EXCEPT ![b] =
                     [e \in EventId |-> IF e \in served THEN @[e] + 1 ELSE @[e]]]
  /\ batch' = [batch EXCEPT ![b] = @ \ events]
  /\ settled' = [settled EXCEPT ![b] = @ \cup events]
  /\ UNCHANGED <<now, skew, log, lives, brokerVars, cursor, seen, polling, started>>

\* Mutant of PollEnd: the lower bound of the next window stored as the cursor.
PollEndRewinds(b) ==
  /\ polling[b]
  /\ batch[b] = {}
  /\ polling' = [polling EXCEPT ![b] = FALSE]
  /\ cursor' = [cursor EXCEPT ![b] = Clock(b) - Overlap]
  /\ UNCHANGED <<now, skew, log, lives, brokerVars, seen, started, batch, history>>

\* The end of a poll reads the clock again, after all notifications.
PollEnd(b) ==
  /\ polling[b]
  /\ batch[b] = {}
  /\ polling' = [polling EXCEPT ![b] = FALSE]
  /\ cursor' = [cursor EXCEPT ![b] = Larger(@, Clock(b))]
  /\ UNCHANGED <<now, skew, log, lives, brokerVars, seen, started, batch, history>>

\* The process of b is restarted: the task starts from an empty memory.
Restart(b) ==
  /\ lives[b] < MaxLives
  /\ lives' = [lives EXCEPT ![b] = @ + 1]
  /\ cursor' = [cursor EXCEPT ![b] = 0]
  /\ seen' = [seen EXCEPT ![b] = {}]
  /\ polling' = [polling EXCEPT ![b] = FALSE]
  /\ batch' = [batch EXCEPT ![b] = {}]
  /\ sent' = [sent EXCEPT ![b] = [e \in EventId |-> 0]]
  /\ UNCHANGED <<now, skew, log, brokerVars, started, settled>>

Next ==
  \/ Tick
  \/ \E b \in Broker, e \in EventId : Stamp(b, e) \/ Replicate(b, e)
  \/ \E e \in EventId : Append(e) \/ AppendFails(e)
  \/ \E b \in Watching : PollList(b) \/ PollEnd(b) \/ Restart(b)
  \/ \E b \in Watching, t \in Tenant : Serve(b, t)

\* The watcher loops for ever: every poll is listed, served and ended.  Writes,
\* replication and restarts are left to chance.
Fairness ==
  \A b \in Watching :
    /\ WF_vars(PollList(b))
    /\ WF_vars(PollEnd(b))
    /\ \A t \in Tenant : WF_vars(Serve(b, t))

Spec == Init /\ [][Next]_vars /\ Fairness
-------------------------------------------------------------------------------
\* Types, and that a poll never holds a row the node does not: rows are read
\* from the log, and the cursor is a clock value, never a window bound.
TypeOK ==
  /\ now \in Nat
  /\ skew \in [Broker -> -MaxSkew .. MaxSkew]
  /\ issued \subseteq EventId /\ inflight \subseteq issued
  /\ origin \in [EventId -> Broker]
  /\ born \in [EventId -> Nat]
  /\ log \in [Broker -> SUBSET issued]
  /\ cursor \in [Broker -> Nat]
  /\ seen \in [Broker -> SUBSET issued]
  /\ polling \in [Broker -> BOOLEAN]
  /\ started \in [Broker -> Nat]
  /\ batch \in [Broker -> SUBSET issued]
  /\ lives \in [Broker -> 0 .. MaxLives]
  /\ sent \in [Broker -> [EventId -> Nat]]
  /\ settled \in [Broker -> SUBSET issued]

\* The condition on the environment under which 60 seconds are enough.
WideOverlap == MaxPoll + MaxLag + 2 * MaxSkew <= Overlap

\* Where the window of the next poll will be anchored if nothing else comes.
NextCursor(b) == IF polling[b] THEN Larger(cursor[b], Clock(b)) ELSE cursor[b]

\* Under WideOverlap no row is ever left behind the cursor: one the watcher
\* has not seen yet is in the window of its next poll, whatever rows of other
\* brokers with other clocks moved the cursor, and however late in a poll it
\* arrived (the comment on the overlap in entity_event_watch_loop).
UnseenInWindow ==
  \A b \in Watching : \A e \in log[b] \ seen[b] :
    CreatedAt(e) >= NextCursor(b) - Overlap

\* Dedupe by event id and the self-origin test: the log implements the
\* delivery promise, under overlapping windows and restarts.
Promise == INSTANCE MutationDelivery
PromiseKept == Promise!Spec

\* Every event of another broker whose row reaches a watching broker is
\* eventually announced there, suppressed, or given up by a failed delivery.
EventuallySettled ==
  \A b \in Watching, e \in EventId :
    (e \in log[b] /\ OriginId(e) # BrokerId[b]) ~> (e \in settled[b])
===============================================================================
