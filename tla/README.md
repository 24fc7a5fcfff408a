# Verification of the Leona context broker

TLA+ specifications of the NGSI-LD context broker in this repository: what its
brokers promise their clients and subscribers, how its services, watchers and
repositories keep those promises, and where they do not. TLC checks the
specifications on small instances; TLAPS proves some of the results for every
instance.

## The system

A broker is one Rust process (`src/src/main.rs`) in front of one DefraDB node.
Brokers of a swarm share data only through DefraDB, which replicates rows
between nodes, and through one HTTP route by which a broker posts large batches
to its peers. All handlers and background tasks of a process run concurrently on
the tokio runtime; they interleave at every `await`, which means at every call
to storage and every notification.

| component | source | state | operations |
|---|---|---|---|
| HTTP API | `api.rs`, `context/headers.rs`, `error.rs` | none | routes, headers, status codes; calls the services |
| entity services | `services/entities.rs` | `entity_write_lock` (`app/state.rs`) | create, merge, replace, delete, the five attribute operations, five batch operations, and the batches posted by peers |
| entity repository | `persistence/defradb.rs`, `persistence/memory.rs` (contract: `repository.rs`) | rows `EntityRecord` in DefraDB, or one map under a mutex | get, insert, insert_many, replace, delete, query |
| peer batch sync | `services/entities.rs` 896-984 | none | posts a batch once to each peer; the peer records and inserts it |
| mutation log | `services/entities.rs` 1320-1457, `defradb.rs` 600-682 | rows `EntityMutationRecord`, replicated | append after each write of at most 100 entities, list rows after a time |
| fast watcher | `app/entity_watch.rs` 96-180 | `cursor`, `seen`, in memory only | lists new log rows of other brokers and announces them |
| snapshot watcher | `app/entity_watch.rs` 183-262 | `previous` snapshot, in memory only | compares the store with what it read last and announces differences |
| dedupe | `app/entity_watch.rs` 34-70 | `pending_local`, one document per entity | who announces a document leaves it there; who finds its own takes it out and stays silent |
| subscriptions | `services/subscriptions.rs` | rows `SubscriptionRecord` | create, patch, delete, list |
| notification delivery | `services/notifications.rs` | counters inside the subscription document | match events, post them inline, add up `timesSent`, `timesFailed` |
| temporal entities | `services/temporal.rs` | rows `TemporalRecord`: a document and its history | upsert, append, delete attribute, patch and delete instance, delete; `lastN`, aggregation |
| query language, planner | `query/*.rs` | none | q, scope and geo filters, pushdown of limits, resolution of contexts |
| validation, representations | `services/common.rs`, `utils/*.rs` | none | checks, key-values and concise forms, merge patch |
| discovery, info | `services/discovery.rs`, `services/info.rs` | none | read-only views |
| statistics | `app/stats.rs` | counters, in memory only | mutations appended and consumed, notifications, batches; read by the swarm monitor |
| swarm monitor | `src/tools/swarm-monitor` | a view of the nodes | polls and draws |

How they interact. A write handler validates, calls the repository, remembers
the document in `pending_local`, appends a row to the mutation log, and posts
the notifications of the matching subscriptions, all before it answers. The fast
watcher of every other broker finds the log row after replication; the snapshot
watcher of every broker, the writer's too, finds the entity row. Whether
subscribers hear of a change once, twice or never is decided by the order in
which these meet in `pending_local`.

What is hard. No call to DefraDB is atomic with the next: insert, replace and
delete are a lookup and a mutation, and services put another lookup before them.
DefraDB has no key on the entity id. Replication keeps no order, and the clocks
of the brokers stamp the log. Watchers have no memory across a restart.
Notifications are posted inline and may take seconds each. Most errors after a
write are logged and dropped.

### What makes each part correct

- *Mutation log and fast watcher*: no row of another broker is missed, none is
  announced twice in one life of the process, no broker announces its own.
- *Dedupe and snapshot watcher*: a change is passed over in silence only if it
  was or will be announced by someone else; none is announced a third time.
- *Entity services*: a request one at a time behaves as the in-memory map does;
  overlapping batches of peers leave one row of an entity; nothing that was
  accepted disappears without another request to blame; nobody waits for ever.
- *Subscriptions*: counters never exceed what was posted; deleted subscriptions
  stay deleted; without overlap, an accounting write is one step.
- *Temporal entities*: a history holds every accepted instance until a request
  removes it; `lastN` keeps the newest.
- *Queries*: what is pushed down to storage changes no result; whatever is
  written meanwhile, what is returned matched, and an entity counts once.
- *Query language*: a text is read as the client meant it; an operator and its
  negation, a list and a range do not contradict each other; the graph of linked
  entities is read whenever an answer depends on it; a document gets the terms of
  all contexts it refers to, and contexts in a circle come to an end.
- *Matching*: a change reaches every subscription it concerns, whether the
  handler tells of it or the snapshot watcher finds it.
- *Swarm monitor*: an address is shown once, no event of a broker's
  counters is rated twice, a node is removed only after its grace (kept for DefraDB
  nodes, broken for brokers), and a dead one is not shown as alive for ever.

## Modules

| module | models | role |
|---|---|---|
| `MutationDelivery` | what the log promises a subscriber | abstract specification |
| `MutationLog` | stamping, appending, replication, the polls of the fast watcher | implements `MutationDelivery` |
| `MutationLogProofs` | | theorems on `MutationLog` |
| `EntityWatch` | `pending_local`, write handlers after their write, both watchers, peer batches as they arrive | |
| `EntityWatchProofs` | | theorems on `EntityWatch` |
| `EntityMap` | the in-memory repository | abstract specification |
| `EntityStore` | all write services of entities and of temporal entities, call by call, on the rows of one entity | implements `EntityMap` one request at a time |
| `EntityStoreProofs` | | theorems on `EntityStore`: types, the lock, batches of peers, what is lost, and its refinement of `EntityMap` |
| `SubscriptionMap` | the in-memory subscription repository and delivery accounting | abstract specification |
| `SubscriptionDelivery` | subscription services and accounting, call by call | implements `SubscriptionMap` without overlap |
| `SubscriptionDeliveryProofs` | | theorems on `SubscriptionDelivery` |
| `Retention` | the loops over lists that keep, filter, sort and add up | operators |
| `RetentionProofs` | | lemmas on what these loops leave of any list |
| `EntityQuery` | a query from its plan to the page it returns, while others write | |
| `EntityQueryProofs` | | theorems on `EntityQuery` |
| `QuerySyntax` | the parsers of q and scopeQ | operators |
| `QueryLanguage` | the evaluators of q and scopeQ | operators |
| `QueryMeaning` | a client that writes down what it means and asks | reference for both |
| `ContextResolution` | the loop that collects the terms of contexts | |
| `NotificationMatch` | what each write does to a document, the event it makes, and the subscriptions that match | |
| `TemporalHistory` | what each temporal service does to snapshot and instances, and what is read of them | |
| `DocumentProofs` | | theorems on `TemporalHistory` and `ContextResolution` |
| `SwarmMonitor` | the poller of the dashboard, and nodes that fail, restart and change their ids | |
| `SwarmMonitorProofs` | | theorems on `SwarmMonitor` |
| `MC...` | | instances for TLC; `MCDocuments` puts `QueryMeaning`, `NotificationMatch`, `TemporalHistory` and `ContextResolution` side by side (it extends the last two, whose properties are proved) |

### MutationLog

One event is one row of the log. `Stamp` is `entity_mutation_document` (the
clock is read before the insert), `Append` and `AppendFails` the insert,
`Replicate` DefraDB's copy to another node, in any order. `PollList` is the
listing and the loop over its rows, which never awaits: it raises the cursor to
the largest `created_at_millis` it sees, own rows included. `Serve` posts the
notifications of one tenant, `PollEnd` raises the cursor to the clock *after*
all of them. `Restart` forgets cursor and `seen`.

True time is `now`; each broker reads `now + skew[b]`. The environment is
described by three bounds, `MaxSkew`, `MaxLag` and `MaxPoll`, and
`WideOverlap` (`MaxPoll + MaxLag + 2 * MaxSkew <= Overlap`) is the condition under
which the 60 seconds of `MUTATION_LOG_CURSOR_OVERLAP_MS` suffice. Nothing in the
code enforces it: a poll that spends more than the overlap on slow endpoints can
leave rows behind. The model states exactly what the operator has to ensure.

### EntityWatch

One broker in full; of its peers only what reaches it. A version is the number
of the write that made it, so two documents are never equal (each carries its
`modifiedAt`) while all absences are. A write takes one of four paths: *local*,
with a handler that records, logs and announces; *quiet*, an attribute operation
that changes `modifiedAt` only and announces nothing; *logged*, by another
broker with a log row; *silent*, by another broker without one (a batch of more
than 100 creates, a failed append, a write made in DefraDB directly). Rows, log
rows and posted batches arrive each in its own time, or never.

Between the comparison and the delivery of the snapshot watcher nothing awaits,
so `SnapCompare` is one step; its reading of the store (`SnapRead`) and its
delivery are steps of their own. How the cursor finds the rows is the business of
`MutationLog`; here `LogEvent` takes up any row not in `seen`.

### EntityStore

Every service is a path through the same calls, written down as a record: its
first call, where its own lookup leads if the entity is there or not, where the
lookup of the repository leads then, and what it does to the document. `merge`
and the five attribute operations share a path; so do batch operations with
their single counterparts except where the table says otherwise. A batch of many
entities is one request per entity. Duplicate ids inside one batch are not
modelled.

A temporal entity is the rows of its id in a collection of its own. `temporal.rs`
reads it, changes the snapshot and the history it read, and calls the
repository's `upsert`, which looks again and updates or adds: the path of
`merge`. Its `upsert` starts with that second lookup and puts a new document
and a new history in the place of whatever it finds. `collection` keeps the two
apart: all rows of a behaviour are of one collection, and a document of
`TemporalRecord` is the snapshot together with its history. Which instances a
change adds to or takes from a history is the business of `TemporalHistory`.

A document is the set of requests whose effect it shows. DefraDB returns rows in
no order, so every lookup takes any row of the entity; a row keeps as `_docID`
the request that created it. `split` records that the entity has had two rows at
a time. `Serial` says that so far no request began while another was under way
and no row came by replication; `SerialImplementsMap` promises a step of the map
for every step that leads to such a state. `picky` services may refuse what they read (a type selector that does
not match, an attribute that is not there).

### SubscriptionDelivery

One subscription, its requests, and tasks (write handlers or watchers) that list
it, post any number of notifications and then add them up. Patching and accounting
read the document, find the row and write the document back, three calls with
nothing held in between. `crossed` records that the document was read while a
change of it was between its read and its write; `AloneImplementsMap` promises a
step of the in-memory repository for every step before that.

### EntityQuery

One query of entities, or of temporal entities, and writers that add, change and
remove rows of the tenant at any time. `List` is the listing of the repository
with the filters of the plan (`Filtered`, which cuts at the limit if `Pushed`
says that the plan has one) and the removal of double rows, which the temporal
service leaves out. `Link` reads the whole tenant again for a q that follows
relationships, so it sees a later state than `List` did. `Match` evaluates q and
takes the page; the temporal service takes no page, so it returns all matches
where the limit is not pushed. `Fail` is a listing that fails or a context that
cannot be fetched. A document is what the query can tell of it: `keep`, `holds`,
`ref`. DefraDB lists rows in the order of their `_docID`s, digests, so a new row
may come anywhere, and stays there.

The loops over lists (`retain`, `dedupe`, the loop that matches) all keep the rows
at some positions in their order, so they are one operator, `Retained` of `Retention`. What the
query makes of a listing is a function of it (`Candidates`, `Linked`, `Matched`);
the actions apply it to the rows as they are when the call is made.

`then` and `later` keep what the two readings saw. The properties compare the
answer with the meaning of the query on these (`May`, `Must`), defined on sets of
rows, without plan, truncation or removal of rows.

### QuerySyntax, QueryLanguage, QueryMeaning

The parsers and evaluators of `query/language.rs`, function by function. A text is
a sequence of tokens, so blanks and spelling are left out while delimiters, quotes,
nesting and the order in which the code looks for operators are kept. Regular
expressions, numbers and dates are constants: what they match and how they compare
is given, what the code makes of it is modelled. `QueryMeaning` turns it round: a
client has an expression in mind, writes it with or without parentheses nobody
needs, and `ParsedAsMeant` says that the parser gets the expression back. One kind
of text is excepted and named (`SplitsAlternative`): an alternative inside an
alternative. `(a==1|b==2)|c==3` loses its parentheses in `parse_q_and`
(language.rs 345), which then looks for `;` only, so the term becomes `a` equals
the text `1|b==2`; `(a|b)|c` is answered 400.

The README of the repository writes a range as `attr..lower,upper` (README.md 138);
the code parses `attr==lower..upper`, and so does the model.

### ContextResolution

The worklist of `resolve_context_terms`, one action per round of the loop, with the
remote contexts as a constant and every fetch free to fail. `TermsOfAllContexts`
compares what it found with the references themselves, layer by layer: nothing is
missed, nothing else is found, and a term means what the most distant context
says. That is what the code does because it works breadth first and each insert
replaces the last: a remote context wins against the document that
redefines its term. A string is followed once, from where it is nearest; an object
that is met again is inserted again, so it counts where it is farthest. `CirclesEnd`
says that contexts that refer to each other are answered.

The reference is a layer for each number of references from what was asked
(`Layers`), up to `MaxDepth`. `ContextAssumption` says that lists are lists and that
`MaxDepth` is large enough for every request: no chain of references is longer. A
JSON value has finitely many parts and a string is followed once, so for given
servers there always is such a bound.

### NotificationMatch

One entity, all handlers that write it, the snapshot watcher, and the
subscriptions of the tenant. A handler is one step: it changes the document (merge
patch and reserved members included), makes an event of what it thinks it did, and
matches it. A write may also be *quiet*: another broker made it and its log row is
late or lost, so only the watcher can tell of it. `Concerned` defines whom a change
concerns from the two documents alone, and the two properties say that `Told`
leaves none of these out. Three things are excepted, each a fact about the code:

- replacing a document names the attributes of the new one only
  (entities.rs 380), so nobody is told that it drops one;
- a deletion that finds an older deletion still recorded is silent, because all
  absences are equal;
- of a quiet write that a local one follows before the poll, nobody is told.

The code also does the following, which the model shows and no property
forbids: a write that changes no attribute is stored with a new `modifiedAt` and
neither announced nor recorded, so the watcher announces an update without names;
`attributeDeleted` fires only when the entity is deleted; an unparsable q of a
subscription is accepted and matches nothing for ever, where a query answers 400;
the first poll after a restart announces every entity as created.

### TemporalHistory

The snapshot and the instances of one entity, every service that writes them, and
the reads as operators: windows, `lastN`, aggregation, single instances, the
response. The properties compare them with the history. What a reader should know
of the code, as the model shows it: `upsert` of an entity that is there gives up
its history, though temporal.rs 3 calls it append-only; patching or deleting an
instance does not touch the snapshot; instances without a time match no window;
`lastN` cuts the whole selection and not each attribute; `distinctCount` is
`totalCount`; the response shows the history of attributes that `attrs`, `pick` or
`omit` dropped; a repeated append with the same `instanceId` leaves two records
which are patched and deleted as one. Filters, the sort and the sum are `Only`,
`Arranged` and `SumOf` of `Retention`, so that what they leave and yield can be proved.
Numbers are integers: that the code adds floating-point numbers, whose sum depends
on the order by a rounding error, is left out.

### SwarmMonitor

The poller of `client.rs`: crawl of the DefraDB nodes, list of the brokers, one
fetch each, `finalize_poll`. Nodes and brokers go down, come back, restart, and may
answer with another id. Entries are filed under ids and asked for by address.

What a broker is asked for are its counters (`stats.rs`). `AppendMutation` is what
a write does to them: a row in the log and one more in `mutations_appended`.
`ConsumeMutation` is what the fast watcher does: a row of another origin that it
has not seen, and one more in `mutations_consumed_remote`. The monitor takes the
sum (`mutations_total`, model.rs 100), and `finalize_poll` adds up the rates of all
brokers: a mutation is in the swarm's rate once for every broker that saw it. That
is meant ("mutation-log events observed locally and remotely"), so `CountedOnce`
is not about mutations but about the events of each counter, which `counted`
numbers from the start of the broker. A broker that restarts (`Starts`) counts
from zero, has seen nothing, and consumes the log again, its own rows too if its
id is another. Which rows a listing of the log holds is left open here;
`MutationLog` is about that.

A broker seed is kept as it was given while everything known is listed with
`/ngsi-ld/v1`, and the default seed has no path: so a seeded broker is asked twice
in a poll, counts two misses when it is down and is removed after half its grace,
against main.rs 63 and TEST.MD 146. `GraceKept` states the grace for DefraDB nodes,
which have one address each and for which the code keeps it; `BrokerGraceKept` is
the same for brokers, and violated. `LeavesAfter` says of one step what may leave.

Broker ids are assumed to be different; with a shared `BROKER_ID` rates are wrong.
`KindsAssumption` is about addresses: DefraDB and a broker do not share one, and
nobody's id is the address of another, under which the dashboard would file a node
that never answered.

## Runs

| run | question | bounds |
|---|---|---|
| `log` | is a row left behind, announced twice, or announced at home; is every row of another broker taken up? (`TypeOK`, `UnseenInWindow`, `PromiseKept`, `EventuallySettled`) | 2 brokers, one watching; 2 events of 2 tenants; clocks one unit apart, lag and polls of one unit, overlap 4 so that `WideOverlap` holds with equality; time to 4; one restart |
| `watch` | can a change be announced three times, is what is suppressed announced, and is every lasting document? (`TypeOK`, `AtMostTwice`, `PendingBacked`, `StableAnnounced`) | one entity, 3 writes of any path, peer batches, and one failed delivery, one dropped handler or one restart |
| `watch_bulk` | is a large batch of a peer announced? (`BulkAnnounced`, violated) | one write |
| `store_safety` | what survives overlap, and one at a time, are the services the in-memory map? (`TypeOK`, `PeerBatchesOneRow`, `LossNeedsOverlap`, `SerialImplementsMap`); can everyone wait for `entity_write_lock`? (deadlock) | 3 requests of any kind, of entities or of temporal entities, in any overlap, replication, two failures anywhere |
| `store_deletes` | is a deleted entity gone? (`DeletedIsGone`, violated) | two creates and a delete |
| `subscription_safety` | can counters exceed what was posted, and is accounting atomic if changes exclude each other? (`TypeOK`, `NeverOvercounted`, `AloneImplementsMap`) | 3 requests, 2 tasks, 2 posts, two failures |
| `subscription_deleted` | does a deleted subscription stay deleted? (`DeletedStaysDeleted`, violated) | 2 requests, one task, one post |
| `query_page` | does a query return what it should, whatever is written meanwhile? (`TypeOK`, `Truthful`, `AnswersSnapshot`, `CountsOnce`) | 2 entities, 4 writes, 3 rows, q on own attributes, on linked ones or none, with and without count, limits 1 to 3 |
| `query_limit` | is a page full if more matches? (`FullPage`, violated) | the same |
| `documents` | is q read as meant and evaluated consistently (`ParsedAsMeant`, `ScopesAsMeant`, `GraphOnlyIfUsed`, `OperatorsAgree`); are the terms of contexts complete, and do circles end (`TermsOfAllContexts`, `CirclesEnd`); does every change reach whom it concerns (`WritesHeard`, `QuietWritesHeard`); do windows, `lastN`, aggregates and single instances agree with the history (`SnapshotCovers`, `NewestSelected`, `PartsAddUp`, `ShownIsFetched`)? | 12 terms of q in groups of groups, 4 scope patterns, 12 entities; 4 remote contexts in two circles, 6 documents (one meets a context both before and after one that redefines its term), 3 Link headers, chains of references up to `MaxDepth` = 8; 3 writes and 5 subscriptions; 4 changes of a history |
| `monitor` | is an address shown twice, an event counted twice, a DefraDB node removed too early, a dead one shown for ever? (`TypeOK`, `OneEntryPerAddress`, `CountedOnce`, `GraceKept`, `DownIsShown`) | 2 nodes and 2 brokers, one seed of each; 2 outages, grace 1, one mutation, which the other broker consumes |
| `monitor_grace` | is a broker removed too early? (`BrokerGraceKept`, violated) | the same; one outage, grace 3, no mutation |

Why the bounds are enough. In the log, a row is lost through the interplay of one
row that moves the cursor and another that comes late, so two events suffice, and
the time bound lets a poll start, end and start again after both. In the watch
three writes are needed for a remembered document to be replaced, outlived and
met again; entities meet only in the queues of the watchers, where versions of
one entity meet as well. In the store and for subscriptions two requests race
and a third sees the result. For queries three rows show a double row next to
another entity, and the fourth write comes between the readings. The parts of `documents` share no
state, so one of them moves in a behaviour while the others stand still; each is
always at an end from which it may begin again, or at its bound. Two groups within
an expression are enough for every way in which the parser can split wrongly;
three writes are a creation, a change and what meets it, four changes are two
instances of the same id, a patch and a deletion. In the watch
either one thing fails or the broker restarts once: what a failure loses the code
never finds again, and a restart forgets all that went before it, `seen`,
`pending_local` and the snapshot. That nothing is announced a third time, and that
what is suppressed is backed, is proved for any number of both. In the swarm two
outages are one of a node and one of its broker, or an id that changes twice; a
grace of 1 tells a node missed once from one missed twice; one mutation is
an event of two counters, and an event of the same broker anew if it restarts.
`GraceKept` and `CountedOnce` are proved for every grace and any log. Upsets,
restarts, failures and posts are bounded by `MaxUpsets` in the watch and by
`MaxLives`, `MaxFailures`, `MaxPosts` elsewhere, time by `MaxTime`, writes by `MaxWrites`,
rows of a subscription and of a tenant by
`MaxRows`, changes of a history by `MaxChanges`, mutations and outages of the
swarm by `MaxLog` and `MaxOutages`, chains of references by `MaxDepth`, which TLC
shows to be enough when it evaluates `ContextAssumption`. `store_safety`, `subscription_safety` and `query_page` check safety only
and name no request, task or entity, so there these are symmetric for TLC.

The only step `EntityStore` offers when nobody can act is `Idle`, which needs
every request answered; that TLC finds no deadlock means that nobody is left
waiting for `entity_write_lock`, whoever fails while holding it. A query and its
writers do stop, so the runs of `EntityQuery` do not look for deadlocks.

### What the violations show

- `watch_bulk`. `apply_peer_entity_batch` (entities.rs 827) records each posted
  entity in `pending_local` and announces none. The snapshot watcher, which
  entities.rs 66 relies on for these batches, finds the recorded document and
  stays silent: subscribers of the receiving broker never hear of it.
- `store_deletes`. Two overlapping creates are both accepted and leave two rows;
  a later delete that overlaps nothing removes one of them, and the entity is
  still served.
- `subscription_deleted`. An accounting write that read the subscription before
  its deletion writes it back afterwards, and `replace` adds a row when it finds
  none: the deleted subscription is notified again.
- `query_limit`. Rows `A`, `A'`, `B`, the first two of one entity, as overlapping
  creates leave them: with `limit=2` the repository returns `A` and `A'`, the
  service drops `A'`, and the page shows one entity though two match.
- `monitor_grace`. With a grace of 3 a broker that is a seed without a path goes
  down. In the first poll that misses it and in the second it is asked as the seed
  and as the known broker, each a miss of the one entry, and at the end of the
  second `finalize_poll` finds four misses and removes it.

## Fairness

The fast and the snapshot watcher loop for ever on a sleep (`spawn`), so polls are
weakly fair; a listing contains every row in its window, so `LogEvent` is fair for
every row. Handlers are polled by the runtime until they finish, so some
handler of `EntityWatch` that has something left to record, log and announce goes
on (one condition for all of them, as for the rows that watchers take up: which
is first is left to the runtime). The poller
of the monitor loops on an interval and each of its requests has a timeout, so
its steps are weakly fair unless the user pauses it. The rounds of context
resolution are weakly fair (`ResolutionFairness`), because a fetch fails after
`BROKER_OUTBOUND_TIMEOUT_MS` (state.rs 41). Writes,
requests, replication, failures and restarts are never assumed to happen. The
other modules promise safety only and assume no fairness.

## Proofs

`MutationLogProofs` proves for any set of brokers, events and tenants, and any
values of the bounds:

- `TypeCorrect`: `Spec => []TypeOK`. The inductive invariant `TypeInv` adds that no
  stamp lies in the future and none before the first moment (`StampsPast`), since
  without it neither clocks nor cursors stay natural numbers.
- `NothingLeftBehind`: under `WideOverlap`, `Spec => []UnseenInWindow`. The
  strengthening says how far the cursor can be ahead: it is bounded by the time of
  the last listing plus the skew, because a row that a watcher has not seen was
  not visible when it last listed, hence is younger than the lag.
- `PromiseHolds`: `Spec => Promise!Spec`, the refinement of `MutationDelivery`,
  whatever is late. The invariant behind it: an event in `batch` or counted in
  `sent` is in `seen`, is foreign, and is not in both.

`EntityWatchProofs` proves for any entities and any number of writes:

- `TypeCorrect`: `Spec => []TypeOK`.
- `SuppressionBacked`: `Spec => []PendingBacked`, without any assumption. With the
  types and the fact that what peers post is silent (`PushesSilent`) the property is
  inductive (`BackedInv`): whoever puts a version into `pending_local` is on its
  way to announce it, and what was announced stays so until a restart loses
  `pending_local` as well. The two exceptions are in the property itself, a failure
  and a batch of a peer: with either TLC finds an entry nobody backs.
- `NeverThrice`: `Spec => []AtMostTwice`, without any assumption. Every version has
  a budget. A version can be announced once by hand or through the log
  (`HandDue`), and once by the snapshot watcher (`SnapDue`), because the handler
  and the log deal with a version in one place each and the snapshot watcher
  compares each document with the one before. `TwiceInv` says that what was
  announced and what is still due together stay within the budget; each step
  keeps it (`BudgetKept`), or takes one from what is due and adds one to what was
  announced (`BudgetSpent`), and a restart or a new write starts a new account
  (`BudgetNew`).

`EntityStoreProofs` proves for any set of requests and any set of services:

- `TypeCorrect`: `Spec => []TypeOK`, with the exclusion of `entity_write_lock`:
  whoever holds it is a bulk request between taking it and its answer. `Services`
  checks the table of paths, which the rest of the proofs use only through
  `WellFormed`.
- `PeersAgree`: `Spec => []PeerBatchesOneRow`. `PeerInv` says
  that a batch of a peer is inside the locked section from its first call to its
  answer, and that from the lookup that found no entity to its own insert there
  is no row inserted by such a batch (`NoneWhileInserting`): rows that were there
  ended it with that lookup, and nobody else inserts for a peer in the meantime.

The other two results rest on `PastInv`, what is always so of the past of a request: it is
answered once and right after its change, rows come from those who made them,
who came before it has been answered, and what it writes back it has read.

- `LossesExplained`: `Spec => []LossNeedsOverlap`. `LossInv` follows a change through
  the store: as long as the entity has not had two rows, each change is in the row
  (`KeptOrExcused`) and in what a later patch has read of it (`ReadOrExcused`), and
  a request that is answered with success has made its change (`SuccessOrExcused`)
  because the row it aims at is there (`AimedOrExcused`). Each of these holds
  unless the request is `Excused`: somebody overlapped it, or came later to
  replace or delete. An excuse never lapses, so only the step that does the damage
  has to find one.
- `SerialImplements`: `Spec => SerialImplementsMap`, the refinement of `EntityMap`
  by all services, one request at a time. `SerialInv` describes the one request that
  is under way (`OnTheWay`): it adds only where there is no row, what it read is
  still what is there, the row it aims at is there, and when it answers it has made
  its change. Hence the write is the operation of the map and every other call a
  stutter. The step is promised while `Serial'` holds, so the invariant says
  nothing of a store in which requests have overlapped.

`SubscriptionDeliveryProofs` proves for any set of requests and tasks and any
bounds:

- `TypeCorrect`: `Spec => []TypeOK`, and `NeverTooMany`:
  `Spec => []NeverOvercounted`. That no counter exceeds what was posted is not
  inductive: a counter that a task read before another one's delivery is written
  after it. The strengthening `CountInv` is a ledger. It gives each notification
  that was posted to one owner, to the task that still owes it to the document or,
  once that task has finished, to nobody; what a document shows is no more than
  nobody's part, and what a task is about to write no more than nobody's and its
  own. A task that gives its part up makes nobody's part larger, so documents
  and copies written late stay within it. There is one ledger for accepted and one
  for failed notifications.
- `AloneImplements`: `Spec => AloneImplementsMap`, the refinement of
  `SubscriptionMap`. As long as `crossed` is false there is one row at most, one
  change under way at most, and what it is about to write is its change of the
  row as it is (`Alone`); so its write is one step of the map and all its other
  calls change nothing there.

`EntityQueryProofs` proves for any entities, documents, queries, limits and number of
writes:

- `TypeCorrect`: `Spec => []TypeOK`, the limit of the page included;
- `TruthfulAlways`, `CountsOnceAlways` and `SnapshotAnswered`:
  `Spec => []Truthful`, `[]CountsOnce` and `[]AnswersSnapshot`.

The inductive invariant `QueryInv` adds to the types `ReadOnly`: at any time
candidates, graph and answer are `Candidates`, `Linked` and `Matched` of the two
listings `then` and `later`, whatever was written since. The rest is about these
operators. `RetainedIs` of `RetentionProofs` says what a loop keeps: all rows at the
given positions, in their order. Upon it stand what
`dedupe` leaves (`DedupeIs`), what the graph says of a target (`AnswerGraph`), that
a row matches only if it may (`MatchesMean`), and that in a snapshot may and must
agree (`MayIsMust`).

`RetentionProofs` has no theorem of its own, but what `EntityQueryProofs` and
`DocumentProofs` know of lists. `ArrangedIs` says that a list arranged by a
line of positions (`InLine`) has the element at each of them once, in their order;
`RetainedIs` is the case in which that order is the one of the list. It needs no
induction: the rank of a position is the number of positions up to it, ranks of
different positions differ, and there are as many ranks as positions, so each
number is the rank of one (`Ranks`). The sum of a list is a recursive function of its
length. Up to a given length there is a list of partial sums (`SumsExist`), by
induction over a set of numbers (`UpTo`), which needs no operator as a parameter, and
what satisfies the equations of the sums is the sum (`SumIs`). From it follow that
sums of two lists add up (`SumsAdd`), that the sum of ones is a count
(`SumOfOnes`), and that the sum of what is retained is the sum over the whole list
with nothing for the rest (`RetainedWeighs`).

`DocumentProofs` proves for any attributes, values, times, windows and number
of changes:

- `HistoryCovered`: `Spec => []SnapshotCovers`. The inductive invariant `HistoryInv`
  adds that the history is a list of records (`Records`), each with one time of a
  kind at most. Without that a record would have no place in the order by time.
- `NewestReturned`: `Spec => []NewestSelected`. What comes before a record in the
  stable sort, a later time or the same time and an earlier place, is a line
  (`NewestFirstIs`), so the sort loses and doubles nothing, and what is cut off is
  not newer than what stays (`NewestTaken`).
- `InstancesFetched`: `Spec => []ShownIsFetched`. Selection takes nothing from outside
  the history (`SelectedInHistory`), so if one record of it has the attribute and the
  id, all the loop of `get_attr_instance` can find is that one.
- `PartsAlwaysAddUp`: `Spec => []PartsAddUp`. Each record of the history has a share in
  each aggregate, its value or one if it is a number and nothing otherwise (`ShareOf`),
  and an aggregate over a selection is the sum of the shares of those selected
  (`TotalIs`). A record that holds the time is in exactly one of the three windows,
  since it holds one time (`OnePart`); so record by record the shares in the parts
  add up to the share in the whole, and hence their sums (`WeighAdds`).

These assume that attributes posted together are finitely many, and that times,
values and the numbers of `lastN` are integers (`HistoryAssumption`).

It proves for any documents, Link headers and remote contexts:

- `TermsComplete`: `ResolutionSpec => []TermsOfAllContexts`. The inductive invariant
  `ResolutionInv` says how a queue stands to the layers of its request (`At`). Its
  values are those of one layer that are still ahead, and behind them what the ones
  done with led to; visited are the strings of nearer layers and of what is done
  with; and the terms found mean what the last value that says something of them
  says, among those met so far (`LastMeant`). A round takes the first
  value ahead, or the first of the next layer when none is left (`AtFirst`), and
  moves it to what is done with (`AtStep`): a string visited adds nothing, because
  it was nearer or is in the layer before (`PutVisited`). When the queue is empty
  there are no further layers (`AtLast`). That a layer is what its equation says
  (`LayersAre`) is proved as for the sums.

This assumes `ContextAssumption`, that lists are lists and chains have an end.

`SwarmMonitorProofs` proves for any nodes, brokers, seeds, grace and outages:

- `TypeCorrect`, and `OneEntryAlways`: `Spec => []OneEntryPerAddress`. An answer
  drops only one entry filed for its address under another key, and a miss takes
  the first it finds; that this is enough rests on there never being two, which is
  inductive.
- `CountedOnceAlways`: `Spec => []CountedOnce`. `CountInv` adds what the next answer
  is compared with: no event past the count of its broker's entry has entered a
  rate yet, so what the next answer rates, the events past that count, is new
  (`RatedOnce`). A counter only grows between two starts (`CountsUp`), a broker
  without an entry has nothing rated when it is found, and that brokers have
  different ids at any time keeps one from being compared with another's entry.
- `GraceAlways`: `Spec => GraceKept`, the full grace of DefraDB nodes, and
  `HalfGraceAlways`, what is left of it for brokers. `GraceInv` bounds the misses of an
  entry by the polls its address has missed: as many for DefraDB, twice as many
  and one for a broker, with what is left to be asked in this poll taken off
  (`Left`), since the last of two questions may be the one that is answered.

The only assumptions of all these are the named ones of each module on its
constants, and where stated the bounds above.

Model-checked only:

- liveness (`EventuallySettled`, `StableAnnounced`, `CirclesEnd`, `DownIsShown`),
  since the prover handles neither ENABLED nor fairness, and the absence of
  deadlock;
- `QuerySyntax`, `QueryLanguage` and `NotificationMatch`, which compute with recursive
  operators and folds: what these yield for every input needs induction over data,
  which is out of the prover's reach. Of the properties these are `ParsedAsMeant`,
  `ScopesAsMeant`, `GraphOnlyIfUsed`, `OperatorsAgree`, `WritesHeard` and
  `QuietWritesHeard`.

## Plan

Order of the work, most important behaviour first.

1. Mutation log and fast watcher, with the delivery promise (done, proved).
2. Dedupe and snapshot watcher (done, proved).
3. Entity and temporal services on DefraDB rows against the in-memory map (done,
   proved, the refinement of the map included).
4. Subscriptions and accounting (done, checked);
   `SubscriptionDelivery` proved, its refinement included.
5. Queries (done, proved).
6. The query language, the resolution of contexts, matching and temporal histories
   (done, checked, as the four parts of `documents`).
7. The poller of the swarm monitor (done, proved but for its liveness).
8. What is read of temporal histories (done, proved).
9. The terms of contexts (done, proved but for its liveness).

## Not modelled

- *HTTP API* (`api.rs`, `context/headers.rs`, `error.rs`): each route calls one
  service, and the services are modelled; routes, headers and status codes keep no
  state. Of `headers.rs` only what a Link header refers to is an input.
- *Validation and formats* (`services/common.rs`, `utils/*.rs`): merge patch,
  reserved members, changed names and temporal records are modelled; checks and
  representations of JSON documents are pure functions of one document.
- *Geometry*: a geo filter is parsed and checked, but `matches_query_plan` and
  `entity_matches_query_with_options` never look at it, and `to_bson_filter` is
  called by tests only: there is nothing to evaluate.
- *Discovery, info, configuration*: reads over one listing, values read once at
  start, which are CONSTANTS here.
- *Statistics* but for the two counters of mutations, which the monitor reads:
  nothing in the broker reads any of them back.
- *Which peers a batch is posted to* (`peer_sync_urls`): a fixed list made from the
  configuration. `EntityStore` and `EntityWatch` model what arrives.
- *The rest of the monitor*: edges, the event buffer, keys, drawing. An action is
  sent to the broker whose index is selected when the key is pressed, so a poll
  between drawing and key may change which broker that is.
- *Deployment scripts and integration tests* drive the program from outside.
- Growth of `seen` and of the mutation log, and a log row that cannot be decoded and
  fails every listing (defradb.rs 668): the models have finitely many rows, all
  readable.
