----------------------------- MODULE SwarmMonitor -----------------------------
(***************************************************************************)
(* The poller of the dashboard (src/tools/swarm-monitor/src/client.rs).    *)
(*                                                                         *)
(* A poll crawls the DefraDB nodes, from the seeds and the nodes known to  *)
(* those each of them names, and then reads the counters of the brokers.   *)
(* Nodes are filed under the id they answer with, but asked for, and       *)
(* missed, by address; a node that never answered is filed under its       *)
(* address.  What is asked next does not depend on the answers but for the *)
(* nodes these name, so the order is left open.                            *)
(*                                                                         *)
(* The address of a broker is written with and without /ngsi-ld/v1, a      *)
(* listing is one of the two: seeds have it as they are given, everything  *)
(* else has it with the path.                                              *)
(*                                                                         *)
(* Between two answers nodes go down, come back and change their ids, and  *)
(* brokers append to the mutation log and consume what others appended.    *)
(* Each broker counts both since it started (src/src/app/stats.rs), so a   *)
(* mutation raises the counters of all brokers that see it: what enters a  *)
(* rate is an event of one counter, not a mutation.                        *)
(***************************************************************************)
EXTENDS Integers, Sequences, FiniteSets

CONSTANTS Defra,      \* addresses of DefraDB nodes
          Broker,     \* addresses of brokers
          DefraSeeds, \* addresses given at start
          BrokerSeeds,\* listings given at start
          Peers,      \* Peers[d]: the addresses the node at d names
          Colocated,  \* Colocated[d]: the brokers derived from it, one or none
          Ids,        \* Ids[a]: the ids nodes or brokers at a may have
          FirstId,    \* FirstId[a]: the id of whoever is at a when the monitor starts
          Grace,      \* offline_grace
          MaxLog,     \* bound of the mutation log
          MaxOutages  \* bound of the times an address stops answering

Listing == Broker \X {"root", "path"}
Address == Defra \cup Broker

ASSUME MonitorAssumption ==
  /\ DefraSeeds \subseteq Defra /\ BrokerSeeds \subseteq Listing
  /\ Peers \in [Defra -> SUBSET Defra] /\ Colocated \in [Defra -> SUBSET Broker]
  /\ DOMAIN Ids = Address /\ DOMAIN FirstId = Address
  /\ \A a \in Address : FirstId[a] \in Ids[a]
  /\ \A a, b \in Broker : FirstId[a] = FirstId[b] => a = b
  /\ Grace \in Nat /\ MaxLog \in Nat /\ MaxOutages \in Nat

\* DefraDB and a broker do not answer at the same address, and their ids are
\* names: BROKER_ID, or the peer id, or its own address if DefraDB gives none.
ASSUME KindsAssumption ==
  /\ Defra \cap Broker = {}
  /\ \A b \in Broker : Ids[b] \cap Listing = {}
  /\ \A d \in Defra : Ids[d] \cap Defra \subseteq {d}

VARIABLES
  up,       \* addresses that answer
  id,       \* id[a]: what the node at a answers with
  log,      \* the mutation log: the origin_broker_id of every row
  seen,     \* seen[b]: rows the broker at b has consumed since it started
  stats,    \* stats[b]: what it has counted since then
  outages,  \* times an address stopped to answer
  defra,    \* defra_nodes, by id or address
  brokers,  \* broker_nodes, by id or listing
  paused,
  phase,    \* of the poller: idle, defra or broker
  listed,   \* what the poll has listed to ask: addresses, then listings
  todo,     \* what of it was not asked yet
  known,    \* known_brokers, read when the poll began
  counted,  \* counted[b][n]: times the n-th event in stats[b] entered a rate
  answered, \* addresses that answered in this poll
  missed    \* missed[a]: polls in a row that asked at a and had no answer

nodes   == <<defra, brokers, counted>>
poller  == <<phase, listed, todo, known, answered>>
broker  == <<log, seen, stats>>
outside == <<up, id, broker, outages>>
vars == <<outside, nodes, paused, poller, missed>>

Nobody == [k \in {} |-> 0]

NoStats == [mutations_appended |-> 0, mutations_consumed_remote |-> 0]

Init ==
  /\ up = Address /\ id = FirstId
  /\ log = <<>> /\ seen = [b \in Broker |-> {}]
  /\ stats = [b \in Broker |-> NoStats] /\ outages = 0
  /\ defra = Nobody /\ brokers = Nobody
  /\ counted = [b \in Broker |-> Nobody]
  /\ paused = FALSE
  /\ phase = "idle" /\ listed = {} /\ todo = {} /\ known = {} /\ answered = {}
  /\ missed = [a \in Address |-> 0]
-------------------------------------------------------------------------------
GoesDown(a) ==
  /\ a \in up /\ outages < MaxOutages
  /\ up' = up \ {a}
  /\ outages' = outages + 1
  /\ UNCHANGED <<id, broker, nodes, paused, poller, missed>>

\* A broker that starts: its counters, and what its watcher has seen, are in
\* memory only.  Its events are numbered anew.
Starts(b) ==
  /\ seen' = [seen EXCEPT ![b] = {}]
  /\ stats' = [stats EXCEPT ![b] = NoStats]
  /\ counted' = [counted EXCEPT ![b] = Nobody]

\* What could not be reached, or was started anew: with the id it had, or
\* another that no other broker has.
ComesUp(a) ==
  /\ a \notin up
  /\ up' = up \cup {a}
  /\ \/ UNCHANGED <<id, broker, counted>>
     \/ /\ \E i \in Ids[a] :
             /\ a \in Broker => \A b \in Broker \ {a} : id[b] # i
             /\ id' = [id EXCEPT ![a] = i]
        /\ IF a \in Broker THEN Starts(a) ELSE UNCHANGED <<seen, stats, counted>>
        /\ UNCHANGED log
  /\ UNCHANGED <<outages, defra, brokers, paused, poller, missed>>

\* append_entity_mutation and record_mutations_appended.
AppendMutation(b) ==
  /\ b \in up /\ Len(log) < MaxLog
  /\ log' = Append(log, id[b])
  /\ stats' = [stats EXCEPT ![b].mutations_appended = @ + 1]
  /\ UNCHANGED <<up, id, seen, outages, nodes, paused, poller, missed>>

\* entity_event_watch_loop takes a row up, unless it is of its own origin or
\* seen, and calls record_remote_mutations.
ConsumeMutation(b) ==
  /\ b \in up
  /\ \E row \in DOMAIN log \ seen[b] :
       /\ log[row] # id[b]
       /\ seen' = [seen EXCEPT ![b] = @ \cup {row}]
  /\ stats' = [stats EXCEPT ![b].mutations_consumed_remote = @ + 1]
  /\ UNCHANGED <<up, id, log, outages, nodes, paused, poller, missed>>

mutations_total(b) == stats[b].mutations_appended + stats[b].mutations_consumed_remote

\* The key p.
TogglePause ==
  /\ paused' = ~ paused
  /\ UNCHANGED <<outside, nodes, poller, missed>>
-------------------------------------------------------------------------------
At(entries, address) == {k \in DOMAIN entries : entries[k].at = address}

\* One of a set that has some, or `other': iter().find().
FirstOf(found, other) == IF found = {} THEN other ELSE CHOOSE k \in found : TRUE

\* Mutant of Upserted: the misses of a node that answers again are kept.
UpsertedKeeping(entries, address, key, count) ==
  LET stale == At(entries, address) \ {key}
      kept  == IF stale = {} THEN DOMAIN entries ELSE DOMAIN entries \ {FirstOf(stale, key)}
  IN  [k \in kept \cup {key} |->
         IF k # key THEN entries[k]
         ELSE [at |-> address, online |-> TRUE, count |-> count,
               misses |-> IF k \in DOMAIN entries THEN entries[k].misses ELSE 0]]

\* Mutant of Upserted: what was filed for the address under another key stays.
UpsertedBeside(entries, address, key, count) ==
  [k \in DOMAIN entries \cup {key} |->
     IF k = key THEN [at |-> address, online |-> TRUE, misses |-> 0, count |-> count]
     ELSE entries[k]]

\* An answer from the address: it is filed under the id, and what was filed
\* for the address under another key goes.
Upserted(entries, address, key, count) ==
  LET stale == At(entries, address) \ {key}
      kept  == IF stale = {} THEN DOMAIN entries ELSE DOMAIN entries \ {FirstOf(stale, key)}
  IN  [k \in kept \cup {key} |->
         IF k = key THEN [at |-> address, online |-> TRUE, misses |-> 0, count |-> count]
         ELSE entries[k]]

\* No answer: what is filed for the address is missed once more, and if there
\* is nothing it is filed under `key', the address as it was listed.
Failed(entries, address, key) ==
  LET missing == FirstOf(At(entries, address), key)
      before  == IF missing \in DOMAIN entries THEN entries[missing]
                 ELSE [at |-> address, online |-> FALSE, misses |-> 0, count |-> 0]
  IN  [k \in DOMAIN entries \cup {missing} |->
         IF k = missing THEN [before EXCEPT !.online = FALSE, !.misses = @ + 1] ELSE entries[k]]

\* Mutant of Increment: a broker met for the first time is counted from zero.
IncrementFromZero(key, count) ==
  LET before == IF key \in DOMAIN brokers THEN brokers[key].count ELSE 0
  IN  IF count > before THEN count - before ELSE 0

\* What a rate is computed from: saturating_sub, and nothing for a new broker.
Increment(key, count) ==
  LET before == IF key \in DOMAIN brokers THEN brokers[key].count ELSE count
  IN  IF count > before THEN count - before ELSE 0

\* Mutant of KnownDefra: only seeds and the nodes named are asked.
KnownNone == {}

KnownDefra == {defra[k].at : k \in DOMAIN defra}

upsert_defra(address) == defra' = Upserted(defra, address, id[address], 0)

mark_defra_failed(address) == defra' = Failed(defra, address, address)

\* The events a rate is computed from: the last that the broker counted.
Rated(b) ==
  LET total == mutations_total(b)
  IN  total - Increment(id[b], total) + 1 .. total

\* They enter one more rate.
Rerated(times, events) ==
  [n \in DOMAIN times \cup events |->
     (IF n \in DOMAIN times THEN times[n] ELSE 0) + (IF n \in events THEN 1 ELSE 0)]

upsert_broker(address) ==
  /\ brokers' = Upserted(brokers, address, id[address], mutations_total(address))
  /\ counted' = [counted EXCEPT ![address] = Rerated(@, Rated(address))]

mark_broker_failed(listing) ==
  /\ brokers' = Failed(brokers, listing[1], listing)
  /\ UNCHANGED counted
-------------------------------------------------------------------------------
\* Mutant of KnownBrokers: ids are taken for addresses.
KnownBrokerKeys == DOMAIN brokers

KnownBrokers == {<<brokers[k].at, "path">> : k \in DOMAIN brokers}
-------------------------------------------------------------------------------
\* run_poller, and poll_once until the first request.
PollStart ==
  /\ phase = "idle" /\ ~ paused
  /\ phase' = "defra"
  /\ listed' = DefraSeeds \cup KnownDefra
  /\ todo' = listed'
  /\ known' = KnownBrokers
  /\ answered' = {}
  /\ UNCHANGED <<outside, nodes, paused, missed>>

\* One node answers, or does not: the nodes it names are asked as well.
FetchDefra ==
  /\ phase = "defra"
  /\ \E address \in todo :
       IF address \in up
       THEN /\ upsert_defra(address)
            /\ listed' = listed \cup Peers[address]
            /\ todo' = (todo \ {address}) \cup (Peers[address] \ listed)
            /\ answered' = answered \cup {address}
       ELSE /\ mark_defra_failed(address)
            /\ todo' = todo \ {address}
            /\ UNCHANGED <<listed, answered>>
  /\ UNCHANGED <<outside, brokers, counted, paused, phase, known, missed>>

\* The crawl is over: the brokers are listed.
ListBrokers ==
  /\ phase = "defra" /\ todo = {}
  /\ phase' = "broker"
  /\ listed' = BrokerSeeds \cup known
                 \cup UNION {Colocated[address] \X {"path"} : address \in KnownDefra}
  /\ todo' = listed'
  /\ UNCHANGED <<outside, nodes, paused, known, answered, missed>>

FetchBroker ==
  /\ phase = "broker"
  /\ \E listing \in todo :
       LET address == listing[1] IN
       /\ todo' = todo \ {listing}
       /\ IF address \in up
          THEN upsert_broker(address) /\ answered' = answered \cup {address}
          ELSE mark_broker_failed(listing) /\ UNCHANGED answered
  /\ UNCHANGED <<outside, defra, paused, phase, listed, known, missed>>

Kept(entries) ==
  {k \in DOMAIN entries : entries[k].online \/ entries[k].misses <= Grace}

Restricted(entries, keys) == [k \in keys |-> entries[k]]

\* finalize_poll.  The history counts the poll for whoever has an entry.
Finalize ==
  /\ phase = "broker" /\ todo = {}
  /\ phase' = "idle"
  /\ defra' = Restricted(defra, Kept(defra))
  /\ brokers' = Restricted(brokers, Kept(brokers))
  /\ missed' = [a \in Address |->
                  IF a \in answered \/ At(defra, a) \cup At(brokers, a) = {} THEN 0
                  ELSE IF missed[a] > Grace THEN missed[a] ELSE missed[a] + 1]
  /\ listed' = {} /\ known' = {} /\ answered' = {}
  /\ UNCHANGED <<outside, counted, paused, todo>>

Poll == PollStart \/ FetchDefra \/ ListBrokers \/ FetchBroker \/ Finalize

Next ==
  \/ \E a \in Address : GoesDown(a) \/ ComesUp(a)
  \/ \E b \in Broker : AppendMutation(b) \/ ConsumeMutation(b)
  \/ TogglePause
  \/ Poll

\* Every request is answered or times out, and the poller loops for ever.
Spec == Init /\ [][Next]_vars /\ WF_vars(Poll)
-------------------------------------------------------------------------------
Entries(S) == [at : S, online : BOOLEAN, misses : Nat, count : Nat]

Counters == [mutations_appended : Nat, mutations_consumed_remote : Nat]

\* Only addresses are ever asked, those of the kind the poll is about.
TypeOK ==
  /\ up \subseteq Address
  /\ DOMAIN id = Address /\ \A a \in Address : id[a] \in Ids[a]
  /\ log \in Seq(UNION {Ids[b] : b \in Broker})
  /\ seen \in [Broker -> SUBSET (DOMAIN log)]
  /\ stats \in [Broker -> Counters]
  /\ outages \in Nat
  /\ DOMAIN counted = Broker
  /\ \A k \in DOMAIN defra : defra[k] \in Entries(Defra)
  /\ \A k \in DOMAIN brokers : brokers[k] \in Entries(Broker)
  /\ paused \in BOOLEAN
  /\ \/ phase = "idle" /\ todo = {}
     \/ phase = "defra" /\ todo \subseteq Defra
     \/ phase = "broker" /\ todo \subseteq Listing
  /\ listed \subseteq Address \cup Listing
  /\ known \subseteq Listing /\ answered \subseteq Address
  /\ missed \in [Address -> Nat]

OnePer(entries) ==
  \A j, k \in DOMAIN entries : entries[j].at = entries[k].at => j = k

\* However nodes come, go and change their ids, no address is on the dashboard
\* twice: not as a node that answered and as one that did not, nor under an old
\* and a new id (the stale_key of upsert_defra and upsert_broker).
OneEntryPerAddress == OnePer(defra) /\ OnePer(brokers)

\* What leaves a list in a step, other than by another id at its address, has
\* not been heard of in `polls' polls in a row.
LeavesAfter(entries, next, polls) ==
  \A k \in DOMAIN entries \ DOMAIN next :
    At(next, entries[k].at) # {} \/ missed'[entries[k].at] >= polls

\* A DefraDB node that leaves the dashboard has not been heard of in more than
\* offline_grace polls in a row, whatever it answered before.
GraceKept == [][LeavesAfter(defra, defra', Grace + 1)]_vars

\* "Offline poll cycles before a node is removed from the dashboard" (main.rs,
\* offline_grace): a broker that leaves was missed in at least as many in a row.
\* The code does not keep this: misses are of requests, and a broker that is
\* listed in both forms is asked twice in a poll.
BrokerGraceKept == [][LeavesAfter(brokers, brokers', Grace)]_vars

\* No event of a broker's counters (a mutation it appended, or consumed from
\* another) enters the rates twice, and none that it did not count: not if the
\* broker was removed and found again, restarted, moved to another address or
\* id, or was asked twice in a poll.
CountedOnce ==
  \A b \in Broker : \A n \in DOMAIN counted[b] :
    counted[b][n] = 1 /\ n \in 1 .. mutations_total(b)

\* A node that is down for good is not shown as online for ever, unless the
\* user pauses the poller, even if no seed and no other node names it any more.
DownIsShown ==
  \A a \in Address :
    <>[](a \notin up) /\ <>[]~ paused =>
      <>[](/\ \A k \in At(defra, a) : ~ defra[k].online
           /\ \A k \in At(brokers, a) : ~ brokers[k].online)
===============================================================================
