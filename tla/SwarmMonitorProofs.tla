-------------------------- MODULE SwarmMonitorProofs --------------------------
(***************************************************************************)
(* What the dashboard shows, for any nodes, brokers, seeds, grace and      *)
(* outages:                                                                *)
(*   - every address at most once: what replaces an entry drops the only   *)
(*     other one there can be for the address;                             *)
(*   - rates that count no event of a broker's counters twice: those that  *)
(*     entered a rate are within the count of the entry that the next      *)
(*     answer of the broker is compared with;                              *)
(*   - DefraDB nodes until they were missed for as long as their grace:    *)
(*     the misses of an entry are bounded by the polls its address missed; *)
(*   - brokers until they were missed for half as long.                    *)
(***************************************************************************)
EXTENDS SwarmMonitor, FiniteSetTheorems, TLAPS

\* What `Upserted' and `Failed' need to know of an entry.
Typed(entries, S) == \A k \in DOMAIN entries : entries[k] \in Entries(S)

LEMMA FirstOfIs ==
  ASSUME NEW found, NEW other
  PROVE  IF found = {} THEN FirstOf(found, other) = other ELSE FirstOf(found, other) \in found
BY DEF FirstOf

\* An answer leaves entries of their type.
LEMMA UpsertedTyped ==
  ASSUME NEW entries, NEW S, NEW address \in S, NEW key, NEW count \in Nat,
         Typed(entries, S)
  PROVE  Typed(Upserted(entries, address, key, count), S)
BY DEF Typed, Upserted, Entries

\* An answer leaves one entry for every address.
LEMMA UpsertedOnePer ==
  ASSUME NEW entries, NEW S, NEW address \in S, NEW key, NEW count \in Nat,
         Typed(entries, S), OnePer(entries)
  PROVE  OnePer(Upserted(entries, address, key, count))
<1> DEFINE stale == At(entries, address) \ {key}
           kept  == IF stale = {} THEN DOMAIN entries ELSE DOMAIN entries \ {FirstOf(stale, key)}
           new   == Upserted(entries, address, key, count)
<1>1. DOMAIN new = kept \cup {key}
  BY DEF Upserted
<1>2. new[key].at = address
  BY DEF Upserted
<1>3. \A k \in kept \ {key} : new[k].at = entries[k].at
  BY DEF Upserted
<1>4. kept \subseteq DOMAIN entries
  OBVIOUS
<1>5. \A k \in kept \ {key} : entries[k].at # address
  <2> SUFFICES ASSUME NEW k \in kept \ {key}, entries[k].at = address
               PROVE  FALSE
    OBVIOUS
  <2>1. k \in stale
    BY <1>4 DEF At
  <2>2. FirstOf(stale, key) \in stale
    BY <2>1, FirstOfIs
  <2>3. FirstOf(stale, key) = k
    BY <2>1, <2>2 DEF At, OnePer
  <2> QED
    BY <2>1, <2>3
<1> HIDE DEF kept, new
<1>6. OnePer(new)
  BY <1>1, <1>2, <1>3, <1>4, <1>5 DEF OnePer
<1> QED
  BY <1>6 DEF new

LEMMA MissedIsEntry ==
  ASSUME NEW S, NEW entry \in Entries(S)
  PROVE  [entry EXCEPT !.online = FALSE, !.misses = @ + 1] \in Entries(S)
<1>1. [entry EXCEPT !.online = FALSE] \in Entries(S)
  BY DEF Entries
<1>2. [entry EXCEPT !.misses = @ + 1] \in Entries(S)
  BY DEF Entries
<1> QED
  BY <1>1, <1>2 DEF Entries

\* A miss leaves entries of their type.
LEMMA FailedTyped ==
  ASSUME NEW entries, NEW S, NEW address \in S, NEW key, Typed(entries, S)
  PROVE  Typed(Failed(entries, address, key), S)
<1> DEFINE missing == FirstOf(At(entries, address), key)
           before  == IF missing \in DOMAIN entries THEN entries[missing]
                      ELSE [at |-> address, online |-> FALSE, misses |-> 0, count |-> 0]
           after   == [before EXCEPT !.online = FALSE, !.misses = @ + 1]
<1>1. before \in Entries(S)
  BY DEF Typed, Entries
<1> HIDE DEF before
<1>2. after \in Entries(S)
  BY <1>1, MissedIsEntry
<1> HIDE DEF after
<1>3. Failed(entries, address, key)
        = [k \in DOMAIN entries \cup {missing} |-> IF k = missing THEN after ELSE entries[k]]
  BY DEF Failed, before, after
<1> QED
  BY <1>2, <1>3 DEF Typed

\* A miss leaves one entry for every address.
LEMMA FailedOnePer ==
  ASSUME NEW entries, NEW S, NEW address \in S, NEW key, Typed(entries, S), OnePer(entries)
  PROVE  OnePer(Failed(entries, address, key))
<1> DEFINE missing == FirstOf(At(entries, address), key)
           before  == IF missing \in DOMAIN entries THEN entries[missing]
                      ELSE [at |-> address, online |-> FALSE, misses |-> 0, count |-> 0]
           after   == [before EXCEPT !.online = FALSE, !.misses = @ + 1]
           new     == Failed(entries, address, key)
<1>1. before \in Entries(S)
  BY DEF Typed, Entries
<1>2. after.at = before.at
  BY <1>1 DEF Entries
<1>3. new = [k \in DOMAIN entries \cup {missing} |-> IF k = missing THEN after ELSE entries[k]]
  BY DEF Failed
<1>4. \A k \in DOMAIN entries : new[k].at = entries[k].at
  BY <1>2, <1>3
<1>5. missing \in DOMAIN entries => DOMAIN new = DOMAIN entries
  BY <1>3
<1>6. ASSUME missing \notin DOMAIN entries
      PROVE  new[missing].at = address /\ At(entries, address) = {}
  <2>1. At(entries, address) = {}
    BY <1>6, FirstOfIs DEF At
  <2>2. before.at = address
    BY <1>6
  <2> HIDE DEF before
  <2>3. new[missing] = after
    BY <1>3
  <2> QED
    BY <1>2, <2>1, <2>2, <2>3
<1>7. CASE missing \in DOMAIN entries
  BY <1>4, <1>5, <1>7 DEF OnePer
<1>8. CASE missing \notin DOMAIN entries
  <2>1. DOMAIN new = DOMAIN entries \cup {missing}
    BY <1>3
  <2>2. \A k \in DOMAIN entries : new[k].at # new[missing].at
    BY <1>4, <1>6, <1>8 DEF At
  <2> HIDE DEF new, missing
  <2>3. OnePer(new)
    BY <1>4, <2>1, <2>2 DEF OnePer
  <2> QED
    BY <2>3 DEF new
<1> QED
  BY <1>7, <1>8

\* Removing entries leaves the others as they are.
LEMMA RestrictedKeeps ==
  ASSUME NEW entries, NEW S, Typed(entries, S), OnePer(entries)
  PROVE  /\ Typed(Restricted(entries, Kept(entries)), S)
         /\ OnePer(Restricted(entries, Kept(entries)))
BY DEF Typed, OnePer, Restricted, Kept
-------------------------------------------------------------------------------
LEMMA InitTyped == Init => TypeOK
<1> SUFFICES ASSUME Init
             PROVE  TypeOK
  OBVIOUS
<1>1. up \subseteq Address /\ DOMAIN id = Address /\ \A a \in Address : id[a] \in Ids[a]
  BY MonitorAssumption DEF Init
<1>2. /\ log \in Seq(UNION {Ids[b] : b \in Broker})
      /\ seen \in [Broker -> SUBSET (DOMAIN log)]
      /\ stats \in [Broker -> Counters]
      /\ DOMAIN counted = Broker /\ missed \in [Address -> Nat]
  BY DEF Init, NoStats, Counters
<1>3. DOMAIN defra = {} /\ DOMAIN brokers = {}
  BY DEF Init, Nobody
<1> QED
  BY <1>1, <1>2, <1>3 DEF Init, TypeOK

LEMMA TotalIsNat ==
  ASSUME TypeOK, NEW b \in Broker
  PROVE  mutations_total(b) \in Nat
BY DEF mutations_total, TypeOK, Counters

\* What one answer of a broker, or none, does to the state.
LEMMA FetchBrokerTyped == TypeOK /\ FetchBroker => TypeOK'
<1> SUFFICES ASSUME TypeOK, FetchBroker
             PROVE  TypeOK'
  OBVIOUS
<1> PICK listing \in todo :
      LET address == listing[1] IN
      /\ todo' = todo \ {listing}
      /\ IF address \in up
         THEN upsert_broker(address) /\ answered' = answered \cup {address}
         ELSE mark_broker_failed(listing) /\ UNCHANGED answered
  BY DEF FetchBroker
<1>1. listing \in Listing /\ listing[1] \in Broker
  BY DEF FetchBroker, TypeOK, Listing
<1>2. Typed(brokers', Broker)
  <2>1. Typed(brokers, Broker) /\ mutations_total(listing[1]) \in Nat
    BY <1>1, TotalIsNat DEF TypeOK, Typed
  <2> QED
    BY <1>1, <2>1, UpsertedTyped, FailedTyped DEF upsert_broker, mark_broker_failed
<1>3. DOMAIN counted' = Broker
  BY DEF TypeOK, upsert_broker, mark_broker_failed
<1>4. answered' \subseteq Address
  BY <1>1 DEF TypeOK, Address
<1> QED
  BY <1>2, <1>3, <1>4 DEF TypeOK, FetchBroker, Typed, outside, broker

LEMMA FetchDefraTyped == TypeOK /\ FetchDefra => TypeOK'
<1> SUFFICES ASSUME TypeOK, FetchDefra
             PROVE  TypeOK'
  OBVIOUS
<1> PICK address \in todo :
      IF address \in up
      THEN /\ upsert_defra(address)
           /\ listed' = listed \cup Peers[address]
           /\ todo' = (todo \ {address}) \cup (Peers[address] \ listed)
           /\ answered' = answered \cup {address}
      ELSE /\ mark_defra_failed(address)
           /\ todo' = todo \ {address}
           /\ UNCHANGED <<listed, answered>>
  BY DEF FetchDefra
<1>1. address \in Defra /\ Peers[address] \subseteq Defra
  BY MonitorAssumption DEF FetchDefra, TypeOK
<1>2. Typed(defra', Defra)
  <2>1. Typed(defra, Defra)
    BY DEF TypeOK, Typed
  <2> QED
    BY <1>1, <2>1, UpsertedTyped, FailedTyped DEF upsert_defra, mark_defra_failed
<1>3. /\ todo' \subseteq Defra
      /\ listed' \subseteq Address \cup Listing
      /\ answered' \subseteq Address
  BY <1>1 DEF TypeOK, FetchDefra, Address
<1> QED
  BY <1>2, <1>3 DEF TypeOK, FetchDefra, Typed, outside, broker

LEMMA FinalizeTyped == TypeOK /\ Finalize => TypeOK'
<1> SUFFICES ASSUME TypeOK, Finalize
             PROVE  TypeOK'
  OBVIOUS
<1>1. \A k \in DOMAIN defra' : defra'[k] \in Entries(Defra)
  BY DEF TypeOK, Finalize, Restricted, Kept
<1>2. \A k \in DOMAIN brokers' : brokers'[k] \in Entries(Broker)
  BY DEF TypeOK, Finalize, Restricted, Kept
<1>3. missed' \in [Address -> Nat]
  BY DEF TypeOK, Finalize
<1> QED
  BY <1>1, <1>2, <1>3 DEF TypeOK, Finalize, outside, broker

LEMMA CountedMore ==
  ASSUME NEW c \in Counters
  PROVE  /\ [c EXCEPT !.mutations_appended = @ + 1] \in Counters
         /\ [c EXCEPT !.mutations_consumed_remote = @ + 1] \in Counters
BY DEF Counters

\* What a broker appends, consumes or forgets keeps the types.
LEMMA BrokerTyped ==
  ASSUME TypeOK, NEW b \in Broker,
         \/ AppendMutation(b)
         \/ ConsumeMutation(b)
         \/ Starts(b) /\ UNCHANGED log
  PROVE  /\ log' \in Seq(UNION {Ids[x] : x \in Broker})
         /\ seen' \in [Broker -> SUBSET (DOMAIN log')]
         /\ stats' \in [Broker -> Counters]
<1>0. /\ log \in Seq(UNION {Ids[x] : x \in Broker})
      /\ seen \in [Broker -> SUBSET (DOMAIN log)]
      /\ stats \in [Broker -> Counters]
  BY DEF TypeOK
<1>1. CASE AppendMutation(b)
  <2>1. id[b] \in UNION {Ids[x] : x \in Broker}
    BY DEF TypeOK, Address
  <2>2. log' = Append(log, id[b]) /\ seen' = seen
    BY <1>1 DEF AppendMutation
  <2>3. log' \in Seq(UNION {Ids[x] : x \in Broker}) /\ DOMAIN log \subseteq DOMAIN log'
    BY <1>0, <2>1, <2>2
  <2>4. stats' \in [Broker -> Counters]
    BY <1>0, <1>1, CountedMore DEF AppendMutation
  <2> QED
    BY <1>0, <2>2, <2>3, <2>4
<1>2. CASE ConsumeMutation(b)
  <2>1. log' = log /\ seen' \in [Broker -> SUBSET (DOMAIN log)]
    BY <1>0, <1>2 DEF ConsumeMutation
  <2>2. stats' \in [Broker -> Counters]
    BY <1>0, <1>2, CountedMore DEF ConsumeMutation
  <2> QED
    BY <1>0, <2>1, <2>2
<1>3. CASE Starts(b) /\ UNCHANGED log
  <2>1. log' = log /\ seen' \in [Broker -> SUBSET (DOMAIN log)]
    BY <1>0, <1>3 DEF Starts
  <2>2. stats' \in [Broker -> Counters]
    BY <1>0, <1>3 DEF Starts, NoStats, Counters
  <2> QED
    BY <1>0, <2>1, <2>2
<1> QED
  BY <1>1, <1>2, <1>3

LEMMA ComesUpTyped ==
  ASSUME TypeOK, NEW a \in Address, ComesUp(a)
  PROVE  TypeOK'
<1>1. /\ up' \subseteq Address
      /\ DOMAIN id' = Address /\ \A x \in Address : id'[x] \in Ids[x]
  BY DEF ComesUp, TypeOK
<1>2. /\ log' \in Seq(UNION {Ids[x] : x \in Broker})
      /\ seen' \in [Broker -> SUBSET (DOMAIN log')]
      /\ stats' \in [Broker -> Counters]
  <2>1. CASE UNCHANGED broker
    BY <2>1 DEF TypeOK, broker
  <2>2. CASE a \in Broker /\ Starts(a) /\ UNCHANGED log
    BY <2>2, BrokerTyped
  <2> QED
    BY <2>1, <2>2 DEF ComesUp, broker
<1>3. DOMAIN counted' = Broker
  BY DEF ComesUp, Starts, TypeOK
<1> QED
  BY <1>1, <1>2, <1>3 DEF ComesUp, TypeOK, poller

LEMMA NextTyped == TypeOK /\ [Next]_vars => TypeOK'
<1> SUFFICES ASSUME TypeOK, [Next]_vars
             PROVE  TypeOK'
  OBVIOUS
<1>2. ASSUME NEW a \in Address, ComesUp(a) PROVE TypeOK'
  BY <1>2, ComesUpTyped
<1>3. ASSUME NEW b \in Broker, AppendMutation(b) \/ ConsumeMutation(b) PROVE TypeOK'
  <2>1. /\ log' \in Seq(UNION {Ids[x] : x \in Broker})
        /\ seen' \in [Broker -> SUBSET (DOMAIN log')]
        /\ stats' \in [Broker -> Counters]
    BY <1>3, BrokerTyped
  <2> QED
    BY <1>3, <2>1 DEF AppendMutation, ConsumeMutation, TypeOK, nodes, poller
<1> USE DEF TypeOK, outside, broker, nodes, poller
<1>1. ASSUME NEW a \in Address, GoesDown(a) PROVE TypeOK'
  BY <1>1 DEF GoesDown
<1>4. CASE TogglePause
  BY <1>4 DEF TogglePause
<1>5. CASE PollStart
  BY <1>5, MonitorAssumption DEF PollStart, KnownDefra, KnownBrokers, Entries, Address, Listing
<1>6. CASE FetchDefra
  BY <1>6, FetchDefraTyped
<1>7. CASE ListBrokers
  BY <1>7, MonitorAssumption DEF ListBrokers, KnownDefra, Entries, Listing
<1>8. CASE FetchBroker
  BY <1>8, FetchBrokerTyped
<1>9. CASE Finalize
  BY <1>9, FinalizeTyped
<1>10. CASE UNCHANGED vars
  BY <1>10 DEF vars
<1> QED
  BY <1>1, <1>2, <1>3, <1>4, <1>5, <1>6, <1>7, <1>8, <1>9, <1>10 DEF Next, Poll

\* The poller asks nothing but addresses, of brokers with their form, whatever
\* the nodes answer and name.
THEOREM TypeCorrect == Spec => []TypeOK
BY InitTyped, NextTyped, PTL DEF Spec
-------------------------------------------------------------------------------
LEMMA NextOnePer == TypeOK /\ OneEntryPerAddress /\ [Next]_vars => OneEntryPerAddress'
<1> SUFFICES ASSUME TypeOK, OneEntryPerAddress, [Next]_vars
             PROVE  OneEntryPerAddress'
  OBVIOUS
<1>1. Typed(defra, Defra) /\ Typed(brokers, Broker)
  BY DEF TypeOK, Typed
<1>2. UNCHANGED <<defra, brokers>> => OneEntryPerAddress'
  BY DEF OneEntryPerAddress
<1>3. CASE \/ \E a \in Address : GoesDown(a) \/ ComesUp(a)
           \/ \E b \in Broker : AppendMutation(b) \/ ConsumeMutation(b)
           \/ TogglePause \/ PollStart \/ ListBrokers \/ UNCHANGED vars
  BY <1>2, <1>3
     DEF GoesDown, ComesUp, AppendMutation, ConsumeMutation, TogglePause, PollStart,
         ListBrokers, vars, nodes
<1>4. CASE FetchDefra
  <2> PICK address \in todo : upsert_defra(address) \/ mark_defra_failed(address)
    BY <1>4 DEF FetchDefra
  <2>1. address \in Defra
    BY <1>4 DEF FetchDefra, TypeOK
  <2>2. OnePer(defra')
    BY <1>1, <2>1, UpsertedOnePer, FailedOnePer
       DEF OneEntryPerAddress, upsert_defra, mark_defra_failed
  <2> QED
    BY <1>4, <2>2 DEF OneEntryPerAddress, FetchDefra
<1>5. CASE FetchBroker
  <2> PICK listing \in todo : upsert_broker(listing[1]) \/ mark_broker_failed(listing)
    BY <1>5 DEF FetchBroker
  <2>1. listing[1] \in Broker
    BY <1>5 DEF FetchBroker, TypeOK, Listing
  <2>2. mutations_total(listing[1]) \in Nat
    BY <2>1, TotalIsNat
  <2>3. OnePer(brokers')
    BY <1>1, <2>1, <2>2, UpsertedOnePer, FailedOnePer
       DEF OneEntryPerAddress, upsert_broker, mark_broker_failed
  <2> QED
    BY <1>5, <2>3 DEF OneEntryPerAddress, FetchBroker
<1>6. CASE Finalize
  BY <1>1, <1>6, RestrictedKeeps DEF Finalize, OneEntryPerAddress
<1> QED
  BY <1>3, <1>4, <1>5, <1>6 DEF Next, Poll

\* No address is on the dashboard twice, whatever goes down, comes back, is
\* started anew with another id or answers at two addresses.
THEOREM OneEntryAlways == Spec => []OneEntryPerAddress
<1>1. Init => OneEntryPerAddress
  BY DEF Init, OneEntryPerAddress, OnePer, Nobody
<1> QED
  BY <1>1, InitTyped, NextTyped, NextOnePer, PTL DEF Spec
-------------------------------------------------------------------------------
(* Counter events and rates                                                  *)

\* The events of the broker at b that entered a rate entered one, and are
\* within the count that the next answer is compared with.
RatedOnce(b) ==
  \A n \in DOMAIN counted[b] :
    /\ counted[b][n] = 1 /\ n \in 1 .. mutations_total(b)
    /\ id[b] \in DOMAIN brokers => n <= brokers[id[b]].count

\* No two brokers answer with the same id.
OneIdEach == \A a, b \in Broker : id[a] = id[b] => a = b

CountInv == TypeOK /\ OneIdEach /\ \A b \in Broker : RatedOnce(b)

\* A counter only grows while its broker runs, and its entry keeps its count.
LEMMA StaysRated ==
  ASSUME TypeOK, TypeOK', NEW b \in Broker, RatedOnce(b),
         counted'[b] = counted[b], id'[b] = id[b],
         mutations_total(b) <= mutations_total(b)',
         id[b] \in DOMAIN brokers' =>
           id[b] \in DOMAIN brokers /\ brokers'[id[b]].count = brokers[id[b]].count
  PROVE  RatedOnce(b)'
<1>1. mutations_total(b) \in Nat /\ mutations_total(b)' \in Nat
  BY DEF mutations_total, TypeOK, Counters
<1> SUFFICES ASSUME NEW n \in DOMAIN counted[b]
             PROVE  /\ counted'[b][n] = 1 /\ n \in 1 .. mutations_total(b)'
                    /\ id'[b] \in DOMAIN brokers' => n <= brokers'[id'[b]].count
  BY DEF RatedOnce
<1>2. /\ counted[b][n] = 1 /\ n \in 1 .. mutations_total(b)
      /\ id[b] \in DOMAIN brokers => n <= brokers[id[b]].count
  BY DEF RatedOnce
<1> QED
  BY <1>1, <1>2

\* What an answer leaves of the other entries.
LEMMA UpsertedLeaves ==
  ASSUME NEW entries, NEW address, NEW key, NEW count, NEW new,
         new = Upserted(entries, address, key, count)
  PROVE  /\ key \in DOMAIN new /\ new[key].count = count
         /\ \A k \in DOMAIN new : k = key \/ (k \in DOMAIN entries /\ new[k] = entries[k])
BY DEF Upserted

\* A miss changes no count, and files under nothing but what was listed.
LEMMA FailedLeaves ==
  ASSUME NEW entries, NEW S, NEW address \in S, NEW key, Typed(entries, S), NEW new,
         new = Failed(entries, address, key)
  PROVE  \A k \in DOMAIN new :
           \/ k \in DOMAIN entries /\ new[k].count = entries[k].count
           \/ k = key /\ k \notin DOMAIN entries
<1> DEFINE missing == FirstOf(At(entries, address), key)
           before  == IF missing \in DOMAIN entries THEN entries[missing]
                      ELSE [at |-> address, online |-> FALSE, misses |-> 0, count |-> 0]
           after   == [before EXCEPT !.online = FALSE, !.misses = @ + 1]
<1>1. new = [k \in DOMAIN entries \cup {missing} |-> IF k = missing THEN after ELSE entries[k]]
  BY DEF Failed
<1>2. before \in Entries(S)
  BY DEF Typed, Entries
<1>3. after.count = before.count
  BY <1>2 DEF Entries
<1>4. missing \in DOMAIN entries \/ missing = key
  BY FirstOfIs DEF At
<1>5. missing \in DOMAIN entries => before = entries[missing]
  OBVIOUS
<1> HIDE DEF missing, before, after
<1> QED
  BY <1>1, <1>3, <1>4, <1>5

\* An answer rates what the counter is past the entry, and the entry follows;
\* a broker without an entry has nothing rated.
LEMMA AnswerRated ==
  ASSUME CountInv, TypeOK', NEW address \in Broker, upsert_broker(address),
         UNCHANGED outside, NEW b \in Broker
  PROVE  RatedOnce(b)'
<1>0. TypeOK /\ OneIdEach /\ RatedOnce(b) /\ RatedOnce(address)
  BY DEF CountInv
<1>1. /\ UNCHANGED id /\ \A x \in Broker : mutations_total(x)' = mutations_total(x)
  BY DEF outside, broker, mutations_total
<1>2. PICK key, total : key = id[address] /\ total = mutations_total(address)
  OBVIOUS
<1>3. total \in Nat
  BY <1>0, <1>2, TotalIsNat
<1>4. /\ key \in DOMAIN brokers' /\ brokers'[key].count = total
      /\ \A k \in DOMAIN brokers' :
           k = key \/ (k \in DOMAIN brokers /\ brokers'[k] = brokers[k])
  <2>1. brokers' = Upserted(brokers, address, key, total)
    BY <1>2 DEF upsert_broker
  <2> QED
    BY <2>1, UpsertedLeaves
<1>5. counted' = [counted EXCEPT ![address] = Rerated(@, Rated(address))]
  BY DEF upsert_broker
<1>6. CASE b # address
  <2>1. id[b] # key
    BY <1>0, <1>2, <1>6 DEF OneIdEach
  <2>2. counted'[b] = counted[b]
    BY <1>0, <1>5, <1>6 DEF TypeOK
  <2>3. mutations_total(b) <= mutations_total(b)'
    BY <1>0, <1>1, TotalIsNat
  <2> QED
    BY <1>0, <1>1, <1>4, <2>1, <2>2, <2>3, StaysRated
<1>7. CASE b = address
  <2>1. PICK old, new : old = counted[address] /\ new = counted'[address]
    OBVIOUS
  <2>2. new = Rerated(old, Rated(address))
    BY <1>0, <1>5, <2>1 DEF TypeOK
  <2>3. \A n \in DOMAIN old :
          /\ old[n] = 1 /\ n \in 1 .. total
          /\ key \in DOMAIN brokers => n <= brokers[key].count
    BY <1>0, <1>2, <2>1 DEF RatedOnce
  <2>4. \A n \in Rated(address) : n \in 1 .. total /\ n \notin DOMAIN old
    <3>1. Rated(address) = total - Increment(key, total) + 1 .. total
      BY <1>2 DEF Rated
    <3>2. CASE key \in DOMAIN brokers
      <4>1. PICK before : before = brokers[key].count
        OBVIOUS
      <4>2. before \in Nat
        BY <1>0, <3>2, <4>1 DEF TypeOK, Entries
      <4>3. Increment(key, total) = IF total > before THEN total - before ELSE 0
        BY <3>2, <4>1 DEF Increment
      <4> QED
        BY <1>3, <2>3, <3>1, <3>2, <4>1, <4>2, <4>3
    <3>3. CASE key \notin DOMAIN brokers
      <4>1. Increment(key, total) = 0
        BY <1>3, <3>3 DEF Increment
      <4> QED
        BY <1>3, <3>1, <4>1
    <3> QED
      BY <3>2, <3>3
  <2>5. \A n \in DOMAIN new : new[n] = 1 /\ n \in 1 .. total
    BY <2>2, <2>3, <2>4 DEF Rerated
  <2>6. \A n \in DOMAIN new : n <= total
    BY <1>3, <2>5
  <2>7. mutations_total(b)' = total /\ id'[b] = key /\ counted'[b] = new
    BY <1>1, <1>2, <1>7, <2>1
  <2> QED
    BY <1>4, <2>5, <2>6, <2>7 DEF RatedOnce
<1> QED
  BY <1>6, <1>7

\* Nothing is rated at first.
LEMMA CountInvInit == Init => CountInv
<1> SUFFICES ASSUME Init PROVE CountInv
  OBVIOUS
<1>1. OneIdEach
  BY MonitorAssumption DEF Init, OneIdEach
<1>2. \A b \in Broker : RatedOnce(b)
  BY DEF Init, RatedOnce, Nobody
<1> QED
  BY <1>1, <1>2, InitTyped DEF CountInv

\* A broker that appends or consumes counts one more.
LEMMA CountsUp ==
  ASSUME TypeOK, NEW b \in Broker, AppendMutation(b) \/ ConsumeMutation(b), NEW x \in Broker
  PROVE  mutations_total(x) <= mutations_total(x)'
<1>1. PICK was, is : was = stats[x] /\ is = stats'[x]
  OBVIOUS
<1>2. was \in Counters
  BY <1>1 DEF TypeOK
<1>3. \/ is = was
      \/ is = [was EXCEPT !.mutations_appended = @ + 1]
      \/ is = [was EXCEPT !.mutations_consumed_remote = @ + 1]
  BY <1>1 DEF TypeOK, AppendMutation, ConsumeMutation
<1>4. is.mutations_appended + is.mutations_consumed_remote
        >= was.mutations_appended + was.mutations_consumed_remote
  BY <1>2, <1>3 DEF Counters
<1> QED
  BY <1>1, <1>2, <1>4 DEF mutations_total, Counters

\* A broker that starts anew has nothing rated, and its id is no other's.
LEMMA ComesUpRated ==
  ASSUME CountInv, TypeOK', NEW a \in Address, ComesUp(a)
  PROVE  CountInv'
<1>0. TypeOK /\ OneIdEach /\ \A b \in Broker : RatedOnce(b)
  BY DEF CountInv
<1>1. DOMAIN id = Address /\ Broker \subseteq Address /\ UNCHANGED brokers
  BY <1>0 DEF TypeOK, Address, ComesUp
<1>2. CASE UNCHANGED <<id, broker, counted>>
  <2>1. \A b \in Broker : mutations_total(b) <= mutations_total(b)'
    BY <1>0, <1>2, TotalIsNat DEF broker, mutations_total
  <2>2. ASSUME NEW b \in Broker PROVE RatedOnce(b)'
    BY <1>0, <1>1, <1>2, <2>1, StaysRated
  <2> QED
    BY <1>0, <1>2, <2>2 DEF CountInv, OneIdEach
<1>3. CASE ~ UNCHANGED <<id, broker, counted>>
  <2>1. PICK i \in Ids[a] : /\ a \in Broker => \A b \in Broker \ {a} : id[b] # i
                            /\ id' = [id EXCEPT ![a] = i]
    BY <1>3 DEF ComesUp
  <2>2. IF a \in Broker THEN Starts(a) ELSE UNCHANGED <<seen, stats, counted>>
    BY <1>3 DEF ComesUp
  <2>3. OneIdEach'
    BY <1>0, <1>1, <2>1 DEF OneIdEach
  <2>4. ASSUME NEW b \in Broker, b = a PROVE RatedOnce(b)'
    <3>1. counted'[b] = Nobody
      BY <1>0, <2>2, <2>4 DEF Starts, TypeOK
    <3> QED
      BY <3>1 DEF RatedOnce, Nobody
  <2>5. ASSUME NEW b \in Broker, b # a PROVE RatedOnce(b)'
    <3>1. id'[b] = id[b] /\ counted'[b] = counted[b] /\ stats'[b] = stats[b]
      BY <1>0, <1>1, <2>1, <2>2, <2>5 DEF Starts, TypeOK
    <3>2. mutations_total(b) <= mutations_total(b)'
      BY <1>0, <3>1, TotalIsNat DEF mutations_total
    <3> QED
      BY <1>0, <1>1, <3>1, <3>2, StaysRated
  <2> QED
    BY <2>3, <2>4, <2>5 DEF CountInv
<1> QED
  BY <1>2, <1>3

\* Every step keeps what was rated within the counts of the entries.
LEMMA CountInvNext == CountInv /\ [Next]_vars => CountInv'
<1> SUFFICES ASSUME CountInv, [Next]_vars PROVE CountInv'
  OBVIOUS
<1>0. TypeOK /\ TypeOK' /\ OneIdEach /\ \A b \in Broker : RatedOnce(b)
  BY NextTyped DEF CountInv
<1>1. ASSUME UNCHANGED <<id, counted>>,
             \A b \in Broker : mutations_total(b) <= mutations_total(b)',
             \A b \in Broker :
               id[b] \in DOMAIN brokers' =>
                 id[b] \in DOMAIN brokers /\ brokers'[id[b]].count = brokers[id[b]].count
      PROVE  CountInv'
  <2>1. OneIdEach'
    BY <1>0, <1>1 DEF OneIdEach
  <2>2. ASSUME NEW b \in Broker PROVE RatedOnce(b)'
    BY <1>0, <1>1, StaysRated
  <2> QED
    BY <1>0, <2>1, <2>2 DEF CountInv
<1>2. ASSUME UNCHANGED stats
      PROVE  \A b \in Broker : mutations_total(b) <= mutations_total(b)'
  BY <1>0, <1>2, TotalIsNat DEF mutations_total
<1>3. ASSUME NEW a \in Address, GoesDown(a) PROVE CountInv'
  BY <1>1, <1>2, <1>3 DEF GoesDown, broker, nodes
<1>4. ASSUME NEW a \in Address, ComesUp(a) PROVE CountInv'
  BY <1>0, <1>4, ComesUpRated
<1>5. ASSUME NEW b \in Broker, AppendMutation(b) \/ ConsumeMutation(b) PROVE CountInv'
  <2>1. \A x \in Broker : mutations_total(x) <= mutations_total(x)'
    BY <1>0, <1>5, CountsUp
  <2>2. UNCHANGED <<id, counted, brokers>>
    BY <1>5 DEF AppendMutation, ConsumeMutation, nodes
  <2> QED
    BY <1>1, <2>1, <2>2
<1>6. CASE TogglePause \/ PollStart \/ FetchDefra \/ ListBrokers \/ UNCHANGED vars
  BY <1>1, <1>2, <1>6
  DEF TogglePause, PollStart, FetchDefra, ListBrokers, vars, outside, broker, nodes
<1>7. CASE FetchBroker
  <2>1. PICK listing \in todo :
          IF listing[1] \in up THEN upsert_broker(listing[1]) ELSE mark_broker_failed(listing)
    BY <1>7 DEF FetchBroker
  <2>2. listing \in Listing /\ listing[1] \in Broker
    BY <1>0, <1>7 DEF FetchBroker, TypeOK, Listing
  <2>3. UNCHANGED outside
    BY <1>7 DEF FetchBroker
  <2>4. CASE upsert_broker(listing[1])
    <3>1. ASSUME NEW b \in Broker PROVE RatedOnce(b)'
      BY <1>0, <2>2, <2>3, <2>4, AnswerRated
    <3>2. OneIdEach'
      BY <1>0, <2>3 DEF OneIdEach, outside
    <3> QED
      BY <1>0, <3>1, <3>2 DEF CountInv
  <2>5. CASE mark_broker_failed(listing)
    <3>1. brokers' = Failed(brokers, listing[1], listing) /\ counted' = counted
      BY <2>5 DEF mark_broker_failed
    <3>2. Typed(brokers, Broker)
      BY <1>0 DEF TypeOK, Typed
    <3>3. ASSUME NEW b \in Broker PROVE id[b] # listing
      <4>1. id[b] \in Ids[b]
        BY <1>0 DEF TypeOK, Address
      <4> QED
        BY <2>2, <4>1, KindsAssumption
    <3>4. \A k \in DOMAIN brokers' :
            \/ k \in DOMAIN brokers /\ brokers'[k].count = brokers[k].count
            \/ k = listing
      BY <2>2, <3>1, <3>2, FailedLeaves
    <3>5. UNCHANGED <<id, counted, stats>>
      BY <2>3, <3>1 DEF outside, broker
    <3>6. \A b \in Broker : mutations_total(b) <= mutations_total(b)'
      BY <1>2, <3>5
    <3>7. \A b \in Broker :
            id[b] \in DOMAIN brokers' =>
              id[b] \in DOMAIN brokers /\ brokers'[id[b]].count = brokers[id[b]].count
      BY <3>3, <3>4
    <3> QED
      BY <1>1, <3>5, <3>6, <3>7
  <2> QED
    BY <2>1, <2>4, <2>5
<1>8. CASE Finalize
  BY <1>1, <1>2, <1>8 DEF Finalize, Restricted, Kept, outside, broker
<1> QED
  BY <1>3, <1>4, <1>5, <1>6, <1>7, <1>8 DEF Next, Poll

\* Whatever brokers restart, move, swap ids, are removed and found again, and
\* however often one is asked in a poll: no event of a counter is rated twice.
THEOREM CountedOnceAlways == Spec => []CountedOnce
<1>1. CountInv => CountedOnce
  BY DEF CountInv, CountedOnce, RatedOnce
<1> QED
  BY <1>1, CountInvInit, CountInvNext, PTL DEF Spec
-------------------------------------------------------------------------------
(* Misses                                                                    *)

\* After an answer the entry of the address has no misses, and what left was
\* the one it had before.
LEMMA UpsertedMisses ==
  ASSUME NEW entries, NEW S, NEW address \in S, NEW key, NEW count \in Nat,
         Typed(entries, S), OnePer(entries), NEW new,
         new = Upserted(entries, address, key, count)
  PROVE  /\ key \in DOMAIN new /\ new[key].at = address /\ new[key].misses = 0
         /\ \A k \in DOMAIN new :
              k = key \/ (k \in DOMAIN entries /\ new[k] = entries[k] /\ new[k].at # address)
         /\ \A k \in DOMAIN entries \ DOMAIN new : entries[k].at = address
<1>1. key \in DOMAIN new /\ new[key].at = address /\ new[key].misses = 0
  BY DEF Upserted
<1>2. \A k \in DOMAIN new : k = key \/ (k \in DOMAIN entries /\ new[k] = entries[k])
  BY DEF Upserted
<1>3. OnePer(new)
  BY UpsertedOnePer
<1>4. ASSUME NEW k \in DOMAIN entries \ DOMAIN new
      PROVE  entries[k].at = address
  <2> DEFINE stale == At(entries, address) \ {key}
  <2>1. stale # {} /\ k = FirstOf(stale, key)
    BY <1>4 DEF Upserted
  <2>2. k \in stale
    BY <2>1, FirstOfIs
  <2> QED
    BY <2>2 DEF At
<1> QED
  BY <1>1, <1>2, <1>3, <1>4 DEF OnePer

\* No answer is one more miss of the entry of the address, or the first one.
LEMMA FailedMisses ==
  ASSUME NEW entries, NEW S, NEW address \in S, NEW key,
         Typed(entries, S), OnePer(entries),
         key \in DOMAIN entries => entries[key].at = address,
         NEW new, new = Failed(entries, address, key)
  PROVE  /\ DOMAIN entries \subseteq DOMAIN new
         /\ \A k \in DOMAIN new :
              \/ /\ k \in DOMAIN entries /\ new[k].at = entries[k].at
                 /\ IF new[k].at = address THEN new[k].misses = entries[k].misses + 1
                                           ELSE new[k].misses = entries[k].misses
              \/ k = key /\ new[k].at = address /\ new[k].misses = 1
<1> DEFINE missing == FirstOf(At(entries, address), key)
           before  == IF missing \in DOMAIN entries THEN entries[missing]
                      ELSE [at |-> address, online |-> FALSE, misses |-> 0, count |-> 0]
           after   == [before EXCEPT !.online = FALSE, !.misses = @ + 1]
<1>1. new = [k \in DOMAIN entries \cup {missing} |-> IF k = missing THEN after ELSE entries[k]]
  BY DEF Failed
<1>2. before \in Entries(S)
  BY DEF Typed, Entries
<1>3. after.at = before.at /\ after.misses = before.misses + 1
  BY <1>2 DEF Entries
<1>4. before.at = address
  BY FirstOfIs DEF At
<1>5. missing \in DOMAIN entries => before = entries[missing]
  OBVIOUS
<1>6. missing \notin DOMAIN entries => before.misses = 0 /\ missing = key
  BY FirstOfIs DEF At
<1>7. \A k \in DOMAIN entries : entries[k].at = address => k = missing
  <2> SUFFICES ASSUME NEW k \in DOMAIN entries, entries[k].at = address
               PROVE  k = missing
    OBVIOUS
  <2>1. missing \in At(entries, address)
    BY FirstOfIs DEF At
  <2> QED
    BY <2>1 DEF At, OnePer
<1> HIDE DEF missing, before, after
<1> QED
  BY <1>1, <1>3, <1>4, <1>5, <1>6, <1>7

\* An entry filed under an address is that of the address.
Keyed ==
  /\ \A k \in DOMAIN defra : k \in Defra => defra[k].at = k
  /\ \A k \in DOMAIN brokers : k \in Listing => brokers[k].at = k[1]

\* How often the broker at b is still to be asked in this poll.
Left(b) ==
  (IF <<b, "root">> \in todo THEN 1 ELSE 0) + (IF <<b, "path">> \in todo THEN 1 ELSE 0)

\* Nobody who is still to be asked has answered, but for brokers listed twice.
Asking ==
  /\ phase = "idle" => answered = {}
  /\ phase = "defra" =>
       todo \subseteq listed /\ listed \subseteq Defra /\ answered \subseteq listed \ todo
  /\ phase = "broker" => \A b \in Broker \cap answered : Left(b) <= 1

\* Whether the DefraDB node at d was asked in this poll.
Asked(d) == phase = "broker" \/ (phase = "defra" /\ d \in listed \ todo)

\* A node has as many misses as polls it missed, with this one.
DefraMisses ==
  \A k \in DOMAIN defra :
    LET d == defra[k].at IN
    /\ missed[d] > Grace \/ defra[k].misses <= missed[d] + (IF Asked(d) THEN 1 ELSE 0)
    /\ d \in answered => defra[k].misses = 0

\* A broker has twice as many, and one more from a poll it answered once.
BrokerMisses ==
  \A k \in DOMAIN brokers :
    LET b == brokers[k].at IN
    /\ missed[b] > Grace \/ brokers[k].misses
                              <= 2 * missed[b] + (IF phase = "broker" THEN 3 - Left(b) ELSE 1)
    /\ b \in answered => brokers[k].misses + Left(b) <= 1

\* The inductive invariant.
GraceInv ==
  TypeOK /\ OneEntryPerAddress /\ Keyed /\ Asking /\ DefraMisses /\ BrokerMisses

\* A broker may be asked, and missed, at both of its listings in a poll.
LeavesInHalfGrace ==
  \A k \in DOMAIN brokers \ DOMAIN brokers' :
    At(brokers', brokers[k].at) # {} \/ 2 * missed'[brokers[k].at] + 1 > Grace

LeavesInGrace == LeavesAfter(defra, defra', Grace + 1) /\ LeavesInHalfGrace

LEMMA GraceInvInit == Init => GraceInv
<1> SUFFICES ASSUME Init PROVE GraceInv
  OBVIOUS
<1>1. DOMAIN defra = {} /\ DOMAIN brokers = {}
  BY DEF Init, Nobody
<1>2. OneEntryPerAddress /\ Keyed /\ DefraMisses /\ BrokerMisses
  BY <1>1 DEF OneEntryPerAddress, OnePer, Keyed, DefraMisses, BrokerMisses
<1>3. Asking
  BY DEF Init, Asking
<1> QED
  BY <1>2, <1>3, InitTyped DEF GraceInv

\* Entries, and what is known of them, change in the steps of the poller only.
LEMMA GraceInvOutside ==
  ASSUME GraceInv, UNCHANGED <<defra, brokers, phase, todo, listed, answered, missed>>
  PROVE  Keyed' /\ Asking' /\ DefraMisses' /\ BrokerMisses'
<1>1. Keyed' /\ Asking'
  BY DEF GraceInv, Keyed, Asking, Left
<1>2. DefraMisses'
  BY DEF GraceInv, DefraMisses, Asked
<1>3. BrokerMisses'
  BY DEF GraceInv, BrokerMisses, Left
<1> QED
  BY <1>1, <1>2, <1>3

LEMMA GraceInvPollStart ==
  ASSUME GraceInv, TypeOK', PollStart
  PROVE  Keyed' /\ Asking' /\ DefraMisses' /\ BrokerMisses'
<1>1. /\ phase = "idle" /\ phase' = "defra" /\ todo' = listed' /\ answered' = {}
      /\ UNCHANGED <<defra, brokers, missed>>
  BY DEF PollStart, nodes
<1>2. Keyed'
  BY <1>1 DEF GraceInv, Keyed
<1>3. Asking'
  BY <1>1 DEF Asking, TypeOK
<1>4. \A d : ~ Asked(d) /\ ~ Asked(d)'
  BY <1>1 DEF Asked
<1>5. DefraMisses'
  BY <1>1, <1>4 DEF GraceInv, DefraMisses
<1>6. BrokerMisses'
  BY <1>1 DEF GraceInv, BrokerMisses
<1> QED
  BY <1>2, <1>3, <1>5, <1>6

LEMMA GraceInvListBrokers ==
  ASSUME GraceInv, ListBrokers
  PROVE  Keyed' /\ Asking' /\ DefraMisses' /\ BrokerMisses'
<1>1. /\ phase = "defra" /\ phase' = "broker"
      /\ UNCHANGED <<defra, brokers, missed, answered>>
  BY DEF ListBrokers, nodes
<1>2. answered \cap Broker = {}
  BY <1>1, KindsAssumption DEF GraceInv, Asking
<1>3. Keyed'
  BY <1>1 DEF GraceInv, Keyed
<1>4. Asking'
  BY <1>1, <1>2 DEF Asking
<1>5. DefraMisses'
  <2> SUFFICES ASSUME NEW k \in DOMAIN defra
               PROVE  LET d == defra[k].at IN
                      /\ missed[d] > Grace \/ defra[k].misses <= missed[d] + 1
                      /\ d \in answered => defra[k].misses = 0
    BY <1>1 DEF DefraMisses, Asked
  <2>1. defra[k].at \in Address /\ defra[k].misses \in Nat
    BY DEF GraceInv, TypeOK, Entries, Address
  <2>2. missed[defra[k].at] \in Nat
    BY <2>1 DEF GraceInv, TypeOK
  <2> QED
    BY <2>1, <2>2 DEF GraceInv, DefraMisses
<1>6. BrokerMisses'
  <2> SUFFICES ASSUME NEW k \in DOMAIN brokers
               PROVE  LET b == brokers[k].at IN
                      /\ \/ missed[b] > Grace
                         \/ brokers[k].misses <= 2 * missed[b] + (3 - Left(b)')
                      /\ b \in answered => brokers[k].misses + Left(b)' <= 1
    BY <1>1 DEF BrokerMisses
  <2>1. brokers[k].at \in Broker /\ brokers[k].misses \in Nat
    BY DEF GraceInv, TypeOK, Entries
  <2>2. missed[brokers[k].at] \in Nat
    BY <2>1 DEF GraceInv, TypeOK, Address
  <2>3. Left(brokers[k].at)' \in 0 .. 2
    BY <1>1 DEF Left
  <2>4. missed[brokers[k].at] > Grace \/ brokers[k].misses <= 2 * missed[brokers[k].at] + 1
    BY <1>1 DEF GraceInv, BrokerMisses
  <2> QED
    BY <1>2, <2>1, <2>2, <2>3, <2>4
<1> QED
  BY <1>3, <1>4, <1>5, <1>6

\* A DefraDB node answers or not, and names others.
LEMMA GraceInvFetchDefra ==
  ASSUME GraceInv, TypeOK', FetchDefra
  PROVE  /\ Keyed' /\ Asking' /\ DefraMisses' /\ BrokerMisses'
         /\ LeavesInGrace
<1>0. /\ phase = "defra" /\ phase' = "defra"
      /\ UNCHANGED <<id, brokers, missed>>
  BY DEF FetchDefra, outside
<1>1. PICK address \in todo :
        IF address \in up
        THEN /\ upsert_defra(address)
             /\ listed' = listed \cup Peers[address]
             /\ todo' = (todo \ {address}) \cup (Peers[address] \ listed)
             /\ answered' = answered \cup {address}
        ELSE /\ mark_defra_failed(address)
             /\ todo' = todo \ {address}
             /\ UNCHANGED <<listed, answered>>
  BY DEF FetchDefra
<1>2. /\ address \in Defra /\ address \in Address /\ Peers[address] \subseteq Defra
      /\ todo \subseteq listed /\ listed \subseteq Defra /\ answered \subseteq listed \ todo
  BY <1>0, MonitorAssumption DEF GraceInv, TypeOK, Asking, Address
<1>3. Typed(defra, Defra) /\ OnePer(defra)
  BY DEF GraceInv, TypeOK, Typed, OneEntryPerAddress
<1>4. Asking'
  BY <1>0, <1>1, <1>2 DEF Asking
<1>5. BrokerMisses'
  <2>1. answered' \cap Broker = {}
    BY <1>1, <1>2, KindsAssumption
  <2> QED
    BY <1>0, <2>1 DEF GraceInv, BrokerMisses, TypeOK, Entries
<1>6. \A k \in DOMAIN brokers : brokers'[k].at = brokers[k].at
  BY <1>0
<1>7. \A d : /\ Asked(d)' <=> Asked(d) \/ d = address
             /\ Asked(d) => d # address
  BY <1>0, <1>1, <1>2 DEF Asked
<1>8. CASE address \in up
  <2>1. defra' = Upserted(defra, address, id[address], 0) /\ answered' = answered \cup {address}
    BY <1>1, <1>8 DEF upsert_defra
  <2>2. /\ id[address] \in DOMAIN defra' /\ defra'[id[address]].at = address
        /\ defra'[id[address]].misses = 0
        /\ \A k \in DOMAIN defra' :
             \/ k = id[address]
             \/ k \in DOMAIN defra /\ defra'[k] = defra[k] /\ defra'[k].at # address
        /\ \A k \in DOMAIN defra \ DOMAIN defra' : defra[k].at = address
    BY <1>2, <1>3, <2>1, UpsertedMisses
  <2>3. Keyed'
    <3>1. id[address] \in Defra => id[address] = address
      BY <1>2, KindsAssumption DEF GraceInv, TypeOK
    <3> QED
      BY <1>0, <2>2, <3>1 DEF GraceInv, Keyed
  <2>4. DefraMisses'
    <3> SUFFICES ASSUME NEW k \in DOMAIN defra', NEW d, d = defra'[k].at
                 PROVE  /\ \/ missed[d] > Grace
                           \/ defra'[k].misses <= missed[d] + (IF Asked(d)' THEN 1 ELSE 0)
                        /\ d \in answered' => defra'[k].misses = 0
      BY <1>0 DEF DefraMisses
    <3>1. CASE k = id[address]
      <4>1. missed[address] \in Nat
        BY <1>2 DEF GraceInv, TypeOK
      <4> QED
        BY <2>2, <3>1, <4>1
    <3>2. CASE k # id[address]
      <4>1. k \in DOMAIN defra /\ defra'[k] = defra[k] /\ defra[k].at = d /\ d # address
        BY <2>2, <3>2
      <4>2. Asked(d)' <=> Asked(d)
        BY <1>7, <4>1
      <4> QED
        BY <2>1, <4>1, <4>2 DEF GraceInv, DefraMisses
    <3> QED
      BY <3>1, <3>2
  <2>5. LeavesInGrace
    BY <1>0, <2>2 DEF LeavesInGrace, LeavesAfter, LeavesInHalfGrace, At
  <2> QED
    BY <1>4, <1>5, <2>3, <2>4, <2>5
<1>9. CASE address \notin up
  <2>1. defra' = Failed(defra, address, address) /\ answered' = answered
    BY <1>1, <1>9 DEF mark_defra_failed
  <2>2. address \in DOMAIN defra => defra[address].at = address
    BY <1>2 DEF GraceInv, Keyed
  <2>3. /\ DOMAIN defra \subseteq DOMAIN defra'
        /\ \A k \in DOMAIN defra' :
             \/ /\ k \in DOMAIN defra /\ defra'[k].at = defra[k].at
                /\ IF defra'[k].at = address THEN defra'[k].misses = defra[k].misses + 1
                                             ELSE defra'[k].misses = defra[k].misses
             \/ k = address /\ defra'[k].at = address /\ defra'[k].misses = 1
    BY <1>2, <1>3, <2>1, <2>2, FailedMisses
  <2>4. Keyed'
    BY <1>0, <2>3 DEF GraceInv, Keyed
  <2>5. DefraMisses'
    <3> SUFFICES ASSUME NEW k \in DOMAIN defra', NEW d, d = defra'[k].at
                 PROVE  /\ \/ missed[d] > Grace
                           \/ defra'[k].misses <= missed[d] + (IF Asked(d)' THEN 1 ELSE 0)
                        /\ d \in answered => defra'[k].misses = 0
      BY <1>0, <2>1 DEF DefraMisses
    <3>1. address \notin answered /\ missed[address] \in Nat
      BY <1>2 DEF GraceInv, TypeOK
    <3>2. CASE defra'[k].at # address
      <4>1. /\ k \in DOMAIN defra /\ defra[k].at = d /\ d # address
            /\ defra'[k].misses = defra[k].misses
        BY <2>3, <3>2
      <4>2. Asked(d)' <=> Asked(d)
        BY <1>7, <3>2, <4>1
      <4> QED
        BY <4>1, <4>2 DEF GraceInv, DefraMisses
    <3>3. CASE defra'[k].at = address
      <4>1. Asked(address)' /\ ~ Asked(address)
        BY <1>7
      <4>2. CASE k \in DOMAIN defra /\ defra[k].at = address /\ defra'[k].misses = defra[k].misses + 1
        <5>1. missed[address] > Grace \/ defra[k].misses <= missed[address]
          BY <4>1, <4>2, <3>1 DEF GraceInv, DefraMisses
        <5>2. defra[k].misses \in Nat
          BY <4>2 DEF GraceInv, TypeOK, Entries
        <5> QED
          BY <3>1, <3>3, <4>1, <4>2, <5>1, <5>2
      <4>3. CASE defra'[k].misses = 1
        BY <3>1, <3>3, <4>1, <4>3
      <4> QED
        BY <2>3, <3>3, <4>2, <4>3
    <3> QED
      BY <3>2, <3>3
  <2>6. LeavesInGrace
    BY <1>0, <2>3 DEF LeavesInGrace, LeavesAfter, LeavesInHalfGrace
  <2> QED
    BY <1>4, <1>5, <2>4, <2>5, <2>6
<1> QED
  BY <1>8, <1>9

\* A broker answers or not, to one of the two listings there may be of it.
LEMMA GraceInvFetchBroker ==
  ASSUME GraceInv, TypeOK', FetchBroker
  PROVE  /\ Keyed' /\ Asking' /\ DefraMisses' /\ BrokerMisses'
         /\ LeavesInGrace
<1>0. /\ phase = "broker" /\ phase' = "broker"
      /\ UNCHANGED <<id, broker, defra, listed, missed>>
  BY DEF FetchBroker, outside
<1>1. PICK listing \in todo :
        /\ todo' = todo \ {listing}
        /\ IF listing[1] \in up
           THEN upsert_broker(listing[1]) /\ answered' = answered \cup {listing[1]}
           ELSE mark_broker_failed(listing) /\ answered' = answered
  BY DEF FetchBroker
<1>2. PICK address : address = listing[1]
  OBVIOUS
<1>3. /\ address \in Broker /\ address \in Address /\ listing \in Listing
      /\ listing = <<address, "root">> \/ listing = <<address, "path">>
  BY <1>0, <1>2 DEF GraceInv, TypeOK, Listing, Address
<1>4. Typed(brokers, Broker) /\ OnePer(brokers)
  BY DEF GraceInv, TypeOK, Typed, OneEntryPerAddress
<1>5. /\ Left(address) \in {1, 2} /\ Left(address)' = Left(address) - 1
      /\ \A b : b # address => Left(b)' = Left(b)
  BY <1>1, <1>3 DEF Left
<1>6. missed[address] \in Nat
  BY <1>3 DEF GraceInv, TypeOK
<1>7. DefraMisses'
  <2> SUFFICES ASSUME NEW k \in DOMAIN defra, NEW d, d = defra[k].at
               PROVE  /\ missed[d] > Grace \/ defra[k].misses <= missed[d] + 1
                      /\ d \in answered' => defra[k].misses = 0
    BY <1>0 DEF DefraMisses, Asked
  <2>1. d \in Defra
    BY DEF GraceInv, TypeOK, Entries
  <2>2. d \in answered' => d \in answered
    BY <1>1, <1>2, <1>3, <2>1, KindsAssumption
  <2> QED
    BY <1>0, <2>2 DEF GraceInv, DefraMisses, Asked
<1>8. Asking'
  <2> SUFFICES ASSUME NEW b \in Broker \cap answered'
               PROVE  Left(b)' <= 1
    BY <1>0 DEF Asking
  <2>1. b # address => b \in answered
    BY <1>1, <1>2
  <2> QED
    BY <1>0, <1>5, <2>1 DEF GraceInv, Asking
<1>9. ASSUME NEW k \in DOMAIN brokers, brokers[k].at # address,
             k \in DOMAIN brokers', NEW b, b = brokers'[k].at,
             brokers'[k].at = brokers[k].at, brokers'[k].misses = brokers[k].misses
      PROVE  /\ missed[b] > Grace \/ brokers'[k].misses <= 2 * missed[b] + (3 - Left(b)')
             /\ b \in answered' => brokers'[k].misses + Left(b)' <= 1
  <2>1. b # address /\ (b \in answered' => b \in answered)
    BY <1>1, <1>2, <1>9
  <2>2. Left(b)' = Left(b)
    BY <1>5, <2>1
  <2> QED
    BY <1>0, <1>9, <2>1, <2>2 DEF GraceInv, BrokerMisses
<1>10. CASE address \in up
  <2>1. /\ brokers' = Upserted(brokers, address, id[address], mutations_total(address))
        /\ answered' = answered \cup {address}
    BY <1>1, <1>2, <1>10 DEF upsert_broker
  <2>2. mutations_total(address) \in Nat
    BY <1>3, TotalIsNat DEF GraceInv
  <2>3. /\ id[address] \in DOMAIN brokers' /\ brokers'[id[address]].at = address
        /\ brokers'[id[address]].misses = 0
        /\ \A k \in DOMAIN brokers' :
             \/ k = id[address]
             \/ k \in DOMAIN brokers /\ brokers'[k] = brokers[k] /\ brokers'[k].at # address
        /\ \A k \in DOMAIN brokers \ DOMAIN brokers' : brokers[k].at = address
    BY <1>3, <1>4, <2>1, <2>2, UpsertedMisses
  <2>4. Keyed'
    <3>1. id[address] \notin Listing
      BY <1>3, KindsAssumption DEF GraceInv, TypeOK
    <3> QED
      BY <1>0, <2>3, <3>1 DEF GraceInv, Keyed
  <2>5. BrokerMisses'
    <3> SUFFICES ASSUME NEW k \in DOMAIN brokers', NEW b, b = brokers'[k].at
                 PROVE  /\ \/ missed[b] > Grace
                           \/ brokers'[k].misses <= 2 * missed[b] + (3 - Left(b)')
                        /\ b \in answered' => brokers'[k].misses + Left(b)' <= 1
      BY <1>0 DEF BrokerMisses
    <3>1. CASE k = id[address]
      BY <1>5, <1>6, <2>3, <3>1
    <3>2. CASE k # id[address]
      BY <1>9, <2>3, <3>2
    <3> QED
      BY <3>1, <3>2
  <2>6. LeavesInGrace
    BY <1>0, <2>3 DEF LeavesInGrace, LeavesAfter, LeavesInHalfGrace, At
  <2> QED
    BY <1>7, <1>8, <2>4, <2>5, <2>6
<1>11. CASE address \notin up
  <2>1. brokers' = Failed(brokers, address, listing) /\ answered' = answered
    BY <1>1, <1>2, <1>11 DEF mark_broker_failed
  <2>2. listing \in DOMAIN brokers => brokers[listing].at = address
    BY <1>2, <1>3 DEF GraceInv, Keyed
  <2>3. /\ DOMAIN brokers \subseteq DOMAIN brokers'
        /\ \A k \in DOMAIN brokers' :
             \/ /\ k \in DOMAIN brokers /\ brokers'[k].at = brokers[k].at
                /\ IF brokers'[k].at = address THEN brokers'[k].misses = brokers[k].misses + 1
                                               ELSE brokers'[k].misses = brokers[k].misses
             \/ k = listing /\ brokers'[k].at = address /\ brokers'[k].misses = 1
    BY <1>3, <1>4, <2>1, <2>2, FailedMisses
  <2>4. Keyed'
    BY <1>0, <1>2, <2>3 DEF GraceInv, Keyed
  <2>5. BrokerMisses'
    <3> SUFFICES ASSUME NEW k \in DOMAIN brokers', NEW b, b = brokers'[k].at
                 PROVE  /\ \/ missed[b] > Grace
                           \/ brokers'[k].misses <= 2 * missed[b] + (3 - Left(b)')
                        /\ b \in answered' => brokers'[k].misses + Left(b)' <= 1
      BY <1>0 DEF BrokerMisses
    <3>1. CASE b # address
      BY <1>9, <2>3, <3>1
    <3>2. CASE b = address /\ k \in DOMAIN brokers /\ brokers[k].at = address
                 /\ brokers'[k].misses = brokers[k].misses + 1
      <4>1. brokers[k].misses \in Nat
        BY <3>2 DEF GraceInv, TypeOK, Entries
      <4>2. /\ \/ missed[address] > Grace
               \/ brokers[k].misses <= 2 * missed[address] + (3 - Left(address))
            /\ address \in answered => brokers[k].misses + Left(address) <= 1
        BY <1>0, <3>2 DEF GraceInv, BrokerMisses
      <4> QED
        BY <1>5, <1>6, <2>1, <3>2, <4>1, <4>2
    <3>3. CASE b = address /\ brokers'[k].misses = 1
      <4>1. address \in answered => Left(address) <= 1
        BY <1>0, <1>3 DEF GraceInv, Asking
      <4> QED
        BY <1>5, <1>6, <2>1, <3>3, <4>1
    <3> QED
      BY <2>3, <3>1, <3>2, <3>3
  <2>6. LeavesInGrace
    BY <1>0, <2>3 DEF LeavesInGrace, LeavesAfter, LeavesInHalfGrace
  <2> QED
    BY <1>7, <1>8, <2>4, <2>5, <2>6
<1> QED
  BY <1>10, <1>11

\* The poll is over: it is counted for whoever was missed in it.
LEMMA GraceInvFinalize ==
  ASSUME GraceInv, TypeOK', Finalize
  PROVE  /\ Keyed' /\ Asking' /\ DefraMisses' /\ BrokerMisses'
         /\ LeavesInGrace
<1>1. /\ phase = "broker" /\ phase' = "idle" /\ todo = {} /\ answered' = {}
      /\ defra' = Restricted(defra, Kept(defra))
      /\ brokers' = Restricted(brokers, Kept(brokers))
  BY DEF Finalize
<1>2. /\ \A k \in DOMAIN defra' : k \in DOMAIN defra /\ defra'[k] = defra[k]
      /\ \A k \in DOMAIN defra \ DOMAIN defra' : defra[k].misses > Grace
  <2>1. \A k \in DOMAIN defra : defra[k].misses \in Nat
    BY DEF GraceInv, TypeOK, Entries
  <2> QED
    BY <1>1, <2>1, MonitorAssumption DEF Restricted, Kept
<1>3. /\ \A k \in DOMAIN brokers' : k \in DOMAIN brokers /\ brokers'[k] = brokers[k]
      /\ \A k \in DOMAIN brokers \ DOMAIN brokers' : brokers[k].misses > Grace
  <2>1. \A k \in DOMAIN brokers : brokers[k].misses \in Nat
    BY DEF GraceInv, TypeOK, Entries
  <2> QED
    BY <1>1, <2>1, MonitorAssumption DEF Restricted, Kept
<1>4. ASSUME NEW a \in Address, At(defra, a) \cup At(brokers, a) # {}
      PROVE  /\ a \in answered => missed'[a] = 0
             /\ a \notin answered =>
                  missed'[a] = IF missed[a] > Grace THEN missed[a] ELSE missed[a] + 1
  BY <1>4 DEF Finalize
<1>5. ASSUME NEW k \in DOMAIN defra, NEW d, d = defra[k].at
      PROVE  missed'[d] > Grace \/ defra[k].misses <= missed'[d]
  <2>1. d \in Address /\ k \in At(defra, d) /\ defra[k].misses \in Nat
    BY <1>5 DEF GraceInv, TypeOK, Entries, Address, At
  <2>2. /\ missed[d] > Grace \/ defra[k].misses <= missed[d] + 1
        /\ d \in answered => defra[k].misses = 0
    BY <1>1, <1>5 DEF GraceInv, DefraMisses, Asked
  <2>3. missed[d] \in Nat /\ Grace \in Nat
    BY <2>1, MonitorAssumption DEF GraceInv, TypeOK
  <2>4. /\ d \in answered => missed'[d] = 0
        /\ d \notin answered =>
             missed'[d] = IF missed[d] > Grace THEN missed[d] ELSE missed[d] + 1
    BY <1>4, <2>1
  <2> QED
    BY <2>1, <2>2, <2>3, <2>4
<1>6. ASSUME NEW k \in DOMAIN brokers, NEW b, b = brokers[k].at
      PROVE  missed'[b] > Grace \/ brokers[k].misses <= 2 * missed'[b] + 1
  <2>1. b \in Address /\ k \in At(brokers, b) /\ brokers[k].misses \in Nat
    BY <1>6 DEF GraceInv, TypeOK, Entries, Address, At
  <2>2. Left(b) = 0
    BY <1>1 DEF Left
  <2>3. /\ missed[b] > Grace \/ brokers[k].misses <= 2 * missed[b] + 3
        /\ b \in answered => brokers[k].misses <= 1
    BY <1>1, <1>6, <2>1, <2>2 DEF GraceInv, BrokerMisses
  <2>4. missed[b] \in Nat /\ Grace \in Nat
    BY <2>1, MonitorAssumption DEF GraceInv, TypeOK
  <2>5. /\ b \in answered => missed'[b] = 0
        /\ b \notin answered =>
             missed'[b] = IF missed[b] > Grace THEN missed[b] ELSE missed[b] + 1
    BY <1>4, <2>1
  <2> QED
    BY <2>1, <2>3, <2>4, <2>5
<1>7. Keyed'
  BY <1>2, <1>3 DEF GraceInv, Keyed
<1>8. Asking'
  BY <1>1 DEF Asking
<1>9. DefraMisses'
  <2> SUFFICES ASSUME NEW k \in DOMAIN defra', NEW d, d = defra'[k].at
               PROVE  missed'[d] > Grace \/ defra'[k].misses <= missed'[d] + 0
    BY <1>1 DEF DefraMisses, Asked
  <2>1. k \in DOMAIN defra /\ defra'[k] = defra[k] /\ d \in Address /\ defra[k].misses \in Nat
    BY <1>2 DEF GraceInv, TypeOK, Entries, Address
  <2>2. missed'[d] \in Nat
    BY <2>1 DEF TypeOK
  <2> QED
    BY <1>5, <2>1, <2>2
<1>10. BrokerMisses'
  <2> SUFFICES ASSUME NEW k \in DOMAIN brokers', NEW b, b = brokers'[k].at
               PROVE  missed'[b] > Grace \/ brokers'[k].misses <= 2 * missed'[b] + 1
    BY <1>1 DEF BrokerMisses
  <2> QED
    BY <1>3, <1>6
<1>11. LeavesInGrace
  <2>1. ASSUME NEW k \in DOMAIN defra \ DOMAIN defra', NEW d, d = defra[k].at
        PROVE  missed'[d] >= Grace + 1
    <3>1. d \in Address /\ defra[k].misses \in Nat /\ defra[k].misses > Grace
      BY <1>2, <2>1 DEF GraceInv, TypeOK, Entries, Address
    <3>2. missed'[d] \in Nat /\ Grace \in Nat
      BY <3>1, MonitorAssumption DEF TypeOK
    <3> QED
      BY <1>5, <2>1, <3>1, <3>2
  <2>2. ASSUME NEW k \in DOMAIN brokers \ DOMAIN brokers', NEW b, b = brokers[k].at
        PROVE  2 * missed'[b] + 1 > Grace
    <3>1. b \in Address /\ brokers[k].misses \in Nat /\ brokers[k].misses > Grace
      BY <1>3, <2>2 DEF GraceInv, TypeOK, Entries, Address
    <3>2. missed'[b] \in Nat /\ Grace \in Nat
      BY <3>1, MonitorAssumption DEF TypeOK
    <3> QED
      BY <1>6, <2>2, <3>1, <3>2
  <2> QED
    BY <2>1, <2>2 DEF LeavesInGrace, LeavesAfter, LeavesInHalfGrace
<1> QED
  BY <1>7, <1>8, <1>9, <1>10, <1>11

\* Every step keeps misses and missed polls together, and so what leaves has
\* been missed enough.
LEMMA GraceInvNext == GraceInv /\ [Next]_vars => GraceInv' /\ [LeavesInGrace]_vars
<1> SUFFICES ASSUME GraceInv, [Next]_vars
             PROVE  GraceInv' /\ [LeavesInGrace]_vars
  OBVIOUS
<1>1. TypeOK' /\ OneEntryPerAddress'
  BY NextTyped, NextOnePer DEF GraceInv
<1>2. UNCHANGED <<defra, brokers>> => LeavesInGrace
  BY DEF LeavesInGrace, LeavesAfter, LeavesInHalfGrace
<1>3. CASE UNCHANGED <<defra, brokers, phase, todo, listed, answered, missed>>
  BY <1>1, <1>2, <1>3, GraceInvOutside DEF GraceInv
<1>4. ASSUME NEW a \in Address, GoesDown(a) \/ ComesUp(a)
      PROVE  UNCHANGED <<defra, brokers, phase, todo, listed, answered, missed>>
  BY <1>4 DEF GoesDown, ComesUp, nodes, poller
<1>5. ASSUME NEW b \in Broker, AppendMutation(b) \/ ConsumeMutation(b)
      PROVE  UNCHANGED <<defra, brokers, phase, todo, listed, answered, missed>>
  BY <1>5 DEF AppendMutation, ConsumeMutation, nodes, poller
<1>6. ASSUME TogglePause \/ UNCHANGED vars
      PROVE  UNCHANGED <<defra, brokers, phase, todo, listed, answered, missed>>
  BY <1>6 DEF TogglePause, vars, nodes, poller
<1>7. CASE PollStart
  BY <1>1, <1>2, <1>7, GraceInvPollStart DEF GraceInv, PollStart, nodes
<1>8. CASE FetchDefra
  BY <1>1, <1>8, GraceInvFetchDefra DEF GraceInv
<1>9. CASE ListBrokers
  BY <1>1, <1>2, <1>9, GraceInvListBrokers DEF GraceInv, ListBrokers, nodes
<1>10. CASE FetchBroker
  BY <1>1, <1>10, GraceInvFetchBroker DEF GraceInv
<1>11. CASE Finalize
  BY <1>1, <1>11, GraceInvFinalize DEF GraceInv
<1> QED
  BY <1>3, <1>4, <1>5, <1>6, <1>7, <1>8, <1>9, <1>10, <1>11 DEF Next, Poll

\* A DefraDB node that leaves the dashboard was missed in more than Grace polls
\* in a row (offline_grace), whatever its ids and outages.
THEOREM GraceAlways == Spec => GraceKept
<1>1. [LeavesInGrace]_vars => [LeavesAfter(defra, defra', Grace + 1)]_vars
  BY DEF LeavesInGrace
<1> QED
  BY <1>1, GraceInvInit, GraceInvNext, PTL DEF Spec, GraceKept

\* A broker that leaves was missed in at least half as many: what the code keeps
\* of the promise BrokerGraceKept, which it breaks (the run monitor_grace).
THEOREM HalfGraceAlways == Spec => [][LeavesInHalfGrace]_vars
<1>1. [LeavesInGrace]_vars => [LeavesInHalfGrace]_vars
  BY DEF LeavesInGrace
<1> QED
  BY <1>1, GraceInvInit, GraceInvNext, PTL DEF Spec
===============================================================================
