---------------------------- MODULE DocumentProofs ----------------------------
(***************************************************************************)
(* What holds of documents: of the history of a temporal entity and of     *)
(* what is read of it, for any attributes, values, times, windows and      *)
(* number of changes; and of the terms a document has, for any contexts    *)
(* and whatever servers hold.                                              *)
(***************************************************************************)
EXTENDS TemporalHistory, ContextResolution, RetentionProofs

\* A record has the four parts of TemporalAttributeRecord, each of its times
\* once or not at all, and a number, or what stands for none, as its value.
Recorded(record) ==
  /\ record = [attr |-> record.attr, id |-> record.id, at |-> record.at, value |-> record.value]
  /\ record.at \in [Times -> SUBSET Int]
  /\ \A property \in Times : \A t, u \in record.at[property] : t = u
  /\ "value" \in DOMAIN record.value => record.value.value \in Int

Records(history) ==
  /\ history \in Seq(ToSet(history))
  /\ \A k \in DOMAIN history : Recorded(history[k])

\* The attributes of the records are among the names.
Covered(history, names) == \A k \in DOMAIN history : history[k].attr \in names

\* A list is one of its own elements.
LEMMA ListOfItself ==
  ASSUME NEW S, NEW s \in Seq(S)
  PROVE  s \in Seq(ToSet(s))
<1>1. Len(s) \in Nat /\ s = [k \in 1 .. Len(s) |-> s[k]] /\ DOMAIN s = 1 .. Len(s)
  OBVIOUS
<1>2. \A k \in 1 .. Len(s) : s[k] \in ToSet(s)
  BY <1>1 DEF ToSet
<1> HIDE DEF ToSet
<1>3. s \in [1 .. Len(s) -> ToSet(s)]
  BY <1>1, <1>2
<1> QED
  BY <1>1, <1>3

\* What is retained of records are records, those at the positions.
LEMMA RetainedRecords ==
  ASSUME NEW history, Records(history), NEW P \in SUBSET DOMAIN history
  PROVE  /\ Records(Retained(history, P))
         /\ ToSet(Retained(history, P)) = {history[i] : i \in P}
         /\ ToSet(Retained(history, P)) \subseteq ToSet(history)
<1>1. PICK S : S = ToSet(history) /\ history \in Seq(S)
  BY DEF Records
<1>2. PICK t \in Seq(S) : t = Retained(history, P)
  BY <1>1, RetainedIs
<1>3. ToSet(t) = {history[i] : i \in P}
  <2>1. {t[k] : k \in DOMAIN t} = {history[i] : i \in P}
    <3>1. {Retained(history, P)[k] : k \in DOMAIN Retained(history, P)} = {history[i] : i \in P}
      BY <1>1, RetainedHolds
    <3> QED
      BY <1>2, <3>1, Zenon
  <2> QED
    BY <2>1 DEF ToSet
<1>4. ToSet(t) \subseteq ToSet(history)
  BY <1>3 DEF ToSet
<1>5. \A k \in DOMAIN t : Recorded(t[k])
  <2> SUFFICES ASSUME NEW k \in DOMAIN t
               PROVE  Recorded(t[k])
    OBVIOUS
  <2>1. t[k] \in ToSet(t)
    BY DEF ToSet
  <2>2. PICK i \in P : t[k] = history[i]
    BY <1>3, <2>1
  <2> QED
    BY <2>2 DEF Records
<1>6. t \in Seq(ToSet(t))
  BY <1>2, ListOfItself
<1> QED
  BY <1>2, <1>3, <1>4, <1>5, <1>6 DEF Records

\* What is retained is of attributes the history is of.
LEMMA RetainedCovered ==
  ASSUME NEW history, Records(history), NEW P \in SUBSET DOMAIN history, NEW names,
         \A i \in P : history[i].attr \in names
  PROVE  Covered(Retained(history, P), names)
<1> SUFFICES ASSUME NEW k \in DOMAIN Retained(history, P)
             PROVE  Retained(history, P)[k].attr \in names
  BY DEF Covered
<1>1. Retained(history, P)[k] \in ToSet(Retained(history, P))
  BY DEF ToSet
<1>2. PICK i \in P : Retained(history, P)[k] = history[i]
  BY <1>1, RetainedRecords
<1> QED
  BY <1>2

\* The record made of a value.
LEMMA RecordMade ==
  ASSUME NEW attr, NEW value,
         \A member \in Times \cup {"value"} : member \in DOMAIN value => value[member] \in Int
  PROVE  Recorded(record_from_value(attr, value)) /\ record_from_value(attr, value).attr = attr
<1> DEFINE times == [property \in Times |-> Present(value, property)]
<1>1. ASSUME NEW property \in Times
      PROVE  /\ Present(value, property) \in SUBSET Int
             /\ \A t, u \in Present(value, property) : t = u
  BY DEF Present
<1>2. times \in [Times -> SUBSET Int] /\ \A property \in Times : \A t, u \in times[property] : t = u
  BY <1>1
<1> HIDE DEF times
<1>3. PICK name : name = IF "instanceId" \in DOMAIN value THEN value.instanceId ELSE <<attr, changes>>
  OBVIOUS
<1>4. record_from_value(attr, value) = [attr |-> attr, id |-> name, at |-> times, value |-> value]
  BY <1>3 DEF record_from_value, times
<1> QED
  BY <1>2, <1>4 DEF Recorded

\* A finite set is listed.
LEMMA SetListed ==
  ASSUME NEW S, IsFiniteSet(S)
  PROVE  /\ Cardinality(S) \in Nat
         /\ SetToSeq(S) \in [1 .. Cardinality(S) -> S]
<1>1. PICK n \in Nat : ExistsBijection(1 .. n, S)
  BY FS_NatBijection
<1>2. Cardinality(S) = n
  BY <1>1, FS_CountingElements
<1>3. PICK f \in Bijection(1 .. n, S) : TRUE
  BY <1>1 DEF ExistsBijection
<1>4. f \in [1 .. Cardinality(S) -> S] /\ IsInjective(f)
  BY <1>2, <1>3 DEF Bijection, Injection
<1> QED
  BY <1>2, <1>4, Zenon DEF SetToSeq

\* The records of what is posted together.
LEMMA FragmentRecords ==
  ASSUME NEW fragment \in Fragment
  PROVE  /\ Records(temporal_history_from_entity(fragment))
         /\ Covered(temporal_history_from_entity(fragment), DOMAIN fragment)
<1>1. /\ IsFiniteSet(DOMAIN fragment)
      /\ \A attr \in DOMAIN fragment : \A member \in Times \cup {"value"} :
           member \in DOMAIN fragment[attr] => fragment[attr][member] \in Int
  BY HistoryAssumption
<1>2. PICK n \in Nat : SetToSeq(DOMAIN fragment) \in [1 .. n -> DOMAIN fragment]
  BY <1>1, SetListed
<1>3. PICK names \in [1 .. n -> DOMAIN fragment] : names = SetToSeq(DOMAIN fragment)
  BY <1>2
<1>4. PICK made : made = [k \in 1 .. n |-> record_from_value(names[k], fragment[names[k]])]
  OBVIOUS
<1>5. temporal_history_from_entity(fragment) = made
  BY <1>3, <1>4 DEF temporal_history_from_entity
<1>6. ASSUME NEW k \in 1 .. n
      PROVE  Recorded(made[k]) /\ made[k].attr \in DOMAIN fragment
  <2>1. PICK attr \in DOMAIN fragment : attr = names[k]
    OBVIOUS
  <2>2. made[k] = record_from_value(attr, fragment[attr])
    BY <1>4, <2>1
  <2> QED
    BY <1>1, <2>1, <2>2, RecordMade
<1>7. DOMAIN made = 1 .. n /\ made \in [1 .. n -> ToSet(made)]
  BY <1>4 DEF ToSet
<1>8. made \in Seq(ToSet(made))
  BY <1>7
<1> QED
  BY <1>5, <1>6, <1>7, <1>8 DEF Records, Covered

\* Records after records.
LEMMA AppendedRecords ==
  ASSUME NEW g, NEW h, Records(g), Records(h),
         NEW names, Covered(g, names), Covered(h, names)
  PROVE  Records(g \o h) /\ Covered(g \o h, names)
<1>1. PICK S : g \in Seq(S) /\ h \in Seq(S)
  <2>1. g \in Seq(ToSet(g) \cup ToSet(h)) /\ h \in Seq(ToSet(g) \cup ToSet(h))
    BY DEF Records
  <2> QED
    BY <2>1
<1>2. /\ Len(g) \in Nat /\ Len(h) \in Nat
      /\ DOMAIN g = 1 .. Len(g) /\ DOMAIN h = 1 .. Len(h)
  BY <1>1
<1>3. /\ g \o h \in Seq(S) /\ DOMAIN (g \o h) = 1 .. Len(g) + Len(h)
      /\ \A k \in 1 .. Len(g) + Len(h) :
           (g \o h)[k] = IF k <= Len(g) THEN g[k] ELSE h[k - Len(g)]
  BY <1>1
<1>4. ASSUME NEW k \in 1 .. Len(g) + Len(h)
      PROVE  Recorded((g \o h)[k]) /\ (g \o h)[k].attr \in names
  <2>1. CASE k <= Len(g)
    <3>1. k \in 1 .. Len(g)
      BY <1>2, <2>1
    <3>2. (g \o h)[k] = g[k]
      BY <1>3, <2>1
    <3> QED
      BY <1>2, <3>1, <3>2 DEF Records, Covered
  <2>2. CASE ~ (k <= Len(g))
    <3>1. PICK l \in 1 .. Len(h) : l = k - Len(g)
      <4>1. k \in Int /\ k <= Len(g) + Len(h) /\ k >= Len(g) + 1
        BY <1>2, <2>2
      <4>2. k - Len(g) \in 1 .. Len(h)
        BY <1>2, <4>1
      <4> QED
        BY <4>2, Zenon
    <3>2. (g \o h)[k] = h[l]
      BY <1>3, <2>2, <3>1
    <3> QED
      BY <1>2, <3>2 DEF Records, Covered
  <2> QED
    BY <2>1, <2>2
<1>5. g \o h \in Seq(ToSet(g \o h))
  BY <1>3, ListOfItself
<1> QED
  BY <1>3, <1>4, <1>5 DEF Records, Covered

\* A record that was patched.
LEMMA PatchedRecord ==
  ASSUME changes \in Nat, NEW record, Recorded(record), NEW change \in Change
  PROVE  Recorded(Patched(record, change)) /\ Patched(record, change).attr = record.attr
<1>1. PICK patched : patched = Patched(record, change)
  OBVIOUS
<1>2. record = [attr |-> record.attr, id |-> record.id, at |-> record.at, value |-> record.value]
  BY DEF Recorded
<1>3. PICK at : at = [record.at EXCEPT !["modifiedAt"] = {changes + 1}]
  OBVIOUS
<1>4. PICK value : value = Over(record.value, change)
  OBVIOUS
<1>5. patched = [attr |-> record.attr, id |-> record.id, at |-> at, value |-> value]
  BY <1>1, <1>2, <1>3, <1>4 DEF Patched
<1>6. at \in [Times -> SUBSET Int] /\ \A property \in Times : \A t, u \in at[property] : t = u
  BY <1>3 DEF Recorded, Times
<1>7. "value" \in DOMAIN value => value["value"] \in Int
  <2>1. "value" \in DOMAIN change => change.value \in Int
    BY HistoryAssumption
  <2>2. "value" \in DOMAIN record.value => record.value.value \in Int
    BY DEF Recorded
  <2> QED
    BY <1>4, <2>1, <2>2 DEF Over
<1> QED
  BY <1>1, <1>5, <1>6, <1>7 DEF Recorded

\* The inductive invariant.
HistoryInv ==
  /\ changes \in Nat
  /\ Records(entity.history)
  /\ Covered(entity.history, DOMAIN entity.doc)

LEMMA EmptyRecords ==
  ASSUME NEW names
  PROVE  Records(<<>>) /\ Covered(<<>>, names)
BY DEF Records, Covered

LEMMA HistoryInvInit == Init => HistoryInv
BY EmptyRecords DEF Init, NoEntity, HistoryInv

\* What is stored counts as a change.
LEMMA StoredInv ==
  ASSUME HistoryInv, NEW doc, NEW history, Stored(doc, history),
         Records(history), Covered(history, DOMAIN doc)
  PROVE  HistoryInv'
<1>1. entity'.doc = doc /\ entity'.history = history /\ changes' \in Nat
  BY DEF Stored, HistoryInv
<1>2. Records(entity'.history) /\ Covered(entity'.history, DOMAIN entity'.doc)
  BY <1>1
<1> QED
  BY <1>1, <1>2 DEF HistoryInv, Records, Covered, Recorded, ToSet

LEMMA HistoryInvNext == HistoryInv /\ [Next]_vars => HistoryInv'
<1> SUFFICES ASSUME HistoryInv, [Next]_vars
             PROVE  HistoryInv'
  OBVIOUS
<1> USE DEF HistoryInv
<1>1. CASE upsert
  <2>1. PICK fragment \in Fragment : Stored(fragment, temporal_history_from_entity(fragment))
    BY <1>1 DEF upsert
  <2> QED
    BY <2>1, FragmentRecords, StoredInv
<1>2. CASE append_attrs
  <2>1. PICK fragment \in Fragment :
          Stored(Over(entity.doc, fragment), entity.history \o temporal_history_from_entity(fragment))
    BY <1>2 DEF append_attrs
  <2>2. PICK names : names = DOMAIN Over(entity.doc, fragment)
    OBVIOUS
  <2>3. DOMAIN entity.doc \subseteq names /\ DOMAIN fragment \subseteq names
    BY <2>2 DEF Over
  <2>4. Covered(entity.history, names) /\ Covered(temporal_history_from_entity(fragment), names)
    BY <2>3, FragmentRecords DEF Covered
  <2>5. PICK made : made = temporal_history_from_entity(fragment) /\ Records(made)
    BY FragmentRecords
  <2>6. Records(entity.history \o made) /\ Covered(entity.history \o made, names)
    BY <2>4, <2>5, AppendedRecords
  <2> QED
    BY <2>1, <2>2, <2>5, <2>6, StoredInv
<1>3. CASE delete_attr
  <2>1. PICK attr :
          Stored([k \in DOMAIN entity.doc \ {attr} |-> entity.doc[k]],
                 Retained(entity.history, {k \in DOMAIN entity.history : entity.history[k].attr # attr}))
    BY <1>3 DEF delete_attr, Only
  <2>2. PICK P \in SUBSET DOMAIN entity.history :
          P = {k \in DOMAIN entity.history : entity.history[k].attr # attr}
    OBVIOUS
  <2>3. PICK doc : doc = [k \in DOMAIN entity.doc \ {attr} |-> entity.doc[k]]
    OBVIOUS
  <2>4. \A i \in P : entity.history[i].attr \in DOMAIN doc
    BY <2>2, <2>3 DEF Covered
  <2>5. Records(Retained(entity.history, P)) /\ Covered(Retained(entity.history, P), DOMAIN doc)
    BY <2>4, RetainedRecords, RetainedCovered
  <2> QED
    BY <2>1, <2>2, <2>3, <2>5, StoredInv
<1>4. CASE patch_instance
  <2>1. PICK named \in ToSet(entity.history), change \in Change :
          Stored(entity.doc,
                 [k \in DOMAIN entity.history |->
                    LET record == entity.history[k]
                    IN  IF Named(record, named.attr, named.id) THEN Patched(record, change) ELSE record])
    BY <1>4 DEF patch_instance
  <2>2. PICK history :
          history = [k \in DOMAIN entity.history |->
                       LET record == entity.history[k]
                       IN  IF Named(record, named.attr, named.id) THEN Patched(record, change) ELSE record]
    OBVIOUS
  <2>3. ASSUME NEW k \in DOMAIN entity.history
        PROVE  Recorded(history[k]) /\ history[k].attr \in DOMAIN entity.doc
    <3>1. PICK record : record = entity.history[k]
      OBVIOUS
    <3>2. Recorded(record) /\ record.attr \in DOMAIN entity.doc
      BY <3>1 DEF Records, Covered
    <3>3. history[k] = record \/ history[k] = Patched(record, change)
      BY <2>2, <3>1
    <3> QED
      BY <3>2, <3>3, PatchedRecord
  <2>4. PICK n \in Nat : DOMAIN entity.history = 1 .. n
    BY DEF Records
  <2>5. DOMAIN history = 1 .. n /\ history \in [1 .. n -> ToSet(history)]
    BY <2>2, <2>4 DEF ToSet
  <2>6. history \in Seq(ToSet(history))
    BY <2>5
  <2>7. Records(history) /\ Covered(history, DOMAIN entity.doc)
    BY <2>3, <2>4, <2>5, <2>6 DEF Records, Covered
  <2> QED
    BY <2>1, <2>2, <2>7, StoredInv
<1>5. CASE delete_instance
  <2>1. PICK named :
          Stored(entity.doc,
                 Retained(entity.history,
                   {k \in DOMAIN entity.history : ~ Named(entity.history[k], named.attr, named.id)}))
    BY <1>5 DEF delete_instance, Only
  <2>2. PICK P \in SUBSET DOMAIN entity.history :
          P = {k \in DOMAIN entity.history : ~ Named(entity.history[k], named.attr, named.id)}
    OBVIOUS
  <2>3. \A i \in P : entity.history[i].attr \in DOMAIN entity.doc
    BY DEF Covered
  <2>4. /\ Records(Retained(entity.history, P))
        /\ Covered(Retained(entity.history, P), DOMAIN entity.doc)
    BY <2>3, RetainedRecords, RetainedCovered
  <2> QED
    BY <2>1, <2>2, <2>4, StoredInv
<1>6. CASE delete_entity
  BY <1>6, EmptyRecords DEF delete_entity, NoEntity, Records, Covered, ToSet
<1>7. CASE UNCHANGED vars
  <2>1. entity' = entity /\ changes' = changes
    BY <1>7 DEF vars
  <2>2. Records(entity'.history) /\ Covered(entity'.history, DOMAIN entity'.doc)
    BY <2>1
  <2> QED
    BY <2>1, <2>2 DEF Records, Covered, Recorded, ToSet
<1> QED
  BY <1>1, <1>2, <1>3, <1>4, <1>5, <1>6, <1>7 DEF Next

\* However a history is added to, patched and cut, what it has is of attributes
\* that the snapshot has.
THEOREM HistoryCovered == Spec => []SnapshotCovers
<1>1. HistoryInv => SnapshotCovers
  BY DEF HistoryInv, Covered, SnapshotCovers, ToSet
<1>2. HistoryInv /\ [Next]_vars => HistoryInv'
  BY HistoryInvNext
<1> QED
  BY <1>1, <1>2, HistoryInvInit, PTL DEF Spec
-------------------------------------------------------------------------------
(* What is read of a history                                                 *)

\* A record has one time of a kind or none.
LEMMA OneTime ==
  ASSUME NEW record, Recorded(record), NEW property
  PROVE  /\ temporal_record_time(record, property) \subseteq Int
         /\ \A t, u \in temporal_record_time(record, property) : t = u
<1>1. /\ record.at \in [Times -> SUBSET Int]
      /\ \A p \in Times : \A t, u \in record.at[p] : t = u
  BY DEF Recorded
<1>2. PICK times \in SUBSET Int :
        /\ \A t, u \in times : t = u
        /\ temporal_record_time(record, property) = Instants(times)
  <2>1. CASE property \in Times \ {"observedAt"}
    BY <1>1, <2>1 DEF temporal_record_time
  <2>2. CASE property \notin Times \ {"observedAt"}
    BY <1>1, <2>2 DEF temporal_record_time, Times
  <2> QED
    BY <2>1, <2>2
<1> QED
  BY <1>2 DEF Instants

\* The records in a window, in the order they were posted.
Window(history, f) == Retained(history, {i \in DOMAIN history : temporal_matches(history[i], f)})

\* They are records of the history and have a time.
LEMMA WindowIs ==
  ASSUME NEW history, Records(history), NEW f
  PROVE  /\ Records(Window(history, f))
         /\ ToSet(Window(history, f)) = {record \in ToSet(history) : temporal_matches(record, f)}
         /\ \A k \in DOMAIN Window(history, f) :
              temporal_record_time(Window(history, f)[k], f.property) # {}
<1>1. PICK P \in SUBSET DOMAIN history :
        P = {i \in DOMAIN history : temporal_matches(history[i], f)}
  OBVIOUS
<1>2. PICK w : w = Window(history, f) /\ w = Retained(history, P)
  BY <1>1 DEF Window
<1>3. Records(w) /\ ToSet(w) = {history[i] : i \in P}
  BY <1>2, RetainedRecords
<1>4. {history[i] : i \in P} = {record \in ToSet(history) : temporal_matches(record, f)}
  BY <1>1 DEF ToSet
<1>5. ASSUME NEW k \in DOMAIN w
      PROVE  temporal_record_time(w[k], f.property) # {}
  <2>1. temporal_matches(w[k], f)
    BY <1>3, <1>4 DEF ToSet
  <2> QED
    BY <2>1 DEF temporal_matches
<1> QED
  BY <1>2, <1>3, <1>4, <1>5

\* The time by which a record is sorted.
TimeOf(records, k, property) == CHOOSE t \in temporal_record_time(records[k], property) : TRUE

\* NewestFirst puts records with times into their order.
LEMMA NewestFirstIs ==
  ASSUME NEW records, Records(records), NEW property,
         \A k \in DOMAIN records : temporal_record_time(records[k], property) # {}
  PROVE  /\ NewestFirst(records, property) \in Seq(ToSet(records))
         /\ Len(NewestFirst(records, property)) = Len(records)
         /\ \A r \in ToSet(records) : r \in ToSet(NewestFirst(records, property))
         /\ \A k, l \in 1 .. Len(records) : k < l =>
              \A t \in temporal_record_time(NewestFirst(records, property)[k], property),
                 u \in temporal_record_time(NewestFirst(records, property)[l], property) : u <= t
<1>1. PICK n \in Nat : n = Len(records) /\ DOMAIN records = 1 .. n
  BY DEF Records
<1>2. PICK time \in [1 .. n -> Int] :
        \A k \in 1 .. n : /\ temporal_record_time(records[k], property) = {time[k]}
                          /\ time[k] = TimeOf(records, k, property)
  <2>1. ASSUME NEW k \in 1 .. n
        PROVE  /\ TimeOf(records, k, property) \in Int
               /\ temporal_record_time(records[k], property) = {TimeOf(records, k, property)}
    <3>1. /\ temporal_record_time(records[k], property) \subseteq Int
          /\ \A t, u \in temporal_record_time(records[k], property) : t = u
      BY <1>1, OneTime DEF Records
    <3>2. TimeOf(records, k, property) \in temporal_record_time(records[k], property)
      BY <1>1 DEF TimeOf
    <3> QED
      BY <3>1, <3>2
  <2> DEFINE f == [k \in 1 .. n |-> TimeOf(records, k, property)]
  <2>2. f \in [1 .. n -> Int]
    BY <2>1
  <2>3. \A k \in 1 .. n : /\ temporal_record_time(records[k], property) = {f[k]}
                          /\ f[k] = TimeOf(records, k, property)
    BY <2>1
  <2> QED
    BY <2>2, <2>3
<1>3. PICK upTo : upTo = [k \in 1 .. n |->
                            {j \in 1 .. n : time[j] > time[k] \/ (time[j] = time[k] /\ j <= k)}]
  OBVIOUS
<1>4. NewestFirst(records, property) = Arranged(records, upTo)
  <2>1. upTo = [k \in DOMAIN records |->
          {j \in DOMAIN records :
             \/ TimeOf(records, j, property) > TimeOf(records, k, property)
             \/ TimeOf(records, j, property) = TimeOf(records, k, property) /\ j <= k}]
    BY <1>1, <1>2, <1>3
  <2> QED
    BY <2>1, Zenon DEF NewestFirst, TimeOf
<1>5. /\ upTo \in [1 .. n -> SUBSET (1 .. n)]
      /\ \A i, j \in 1 .. n : i \in upTo[j] <=> time[i] > time[j] \/ (time[i] = time[j] /\ i <= j)
  BY <1>3
<1>6. InLine(upTo, 1 .. n)
  <2>0. \A i \in 1 .. n : i \in Int /\ time[i] \in Int
    OBVIOUS
  <2>1. \A i \in 1 .. n : i \in upTo[i]
    BY <1>5, <2>0
  <2>2. ASSUME NEW i \in 1 .. n, NEW j \in 1 .. n, i \in upTo[j]
        PROVE  upTo[i] \subseteq upTo[j]
    <3> SUFFICES ASSUME NEW k \in upTo[i]
                 PROVE  k \in upTo[j]
      OBVIOUS
    <3>1. k \in 1 .. n
      BY <1>5
    <3>2. time[k] > time[i] \/ (time[k] = time[i] /\ k <= i)
      BY <1>5, <3>1
    <3>3. time[i] > time[j] \/ (time[i] = time[j] /\ i <= j)
      BY <1>5, <2>2
    <3>4. time[k] > time[j] \/ (time[k] = time[j] /\ k <= j)
      BY <2>0, <3>1, <3>2, <3>3
    <3> QED
      BY <1>5, <3>1, <3>4
  <2>3. \A i, j \in 1 .. n : i # j =>
          \/ i \in upTo[j] /\ j \notin upTo[i]
          \/ j \in upTo[i] /\ i \notin upTo[j]
    BY <1>5, <2>0
  <2> QED
    BY <1>5, <2>1, <2>2, <2>3 DEF InLine
<1>7. PICK S : S = ToSet(records) /\ records \in Seq(S) /\ 1 .. n \in SUBSET DOMAIN records
  BY <1>1 DEF Records
<1>8. PICK sorted : sorted = NewestFirst(records, property) /\ sorted = Arranged(records, upTo)
  BY <1>4
<1>9. /\ sorted \in Seq(S) /\ Len(sorted) = Cardinality(1 .. n)
      /\ \E f : /\ Orders(f, upTo, 1 .. n)
                /\ \A k \in 1 .. Cardinality(1 .. n) : Arranged(records, upTo)[k] = records[f[k]]
  <2>1. PICK P : P = 1 .. n
    OBVIOUS
  <2>2. InLine(upTo, P) /\ P \in SUBSET DOMAIN records
    BY <1>6, <1>7, <2>1
  <2>3. Arranged(records, upTo) \in Seq(S) /\ Len(Arranged(records, upTo)) = Cardinality(P)
    BY <1>7, <2>2, ArrangedIs
  <2>4. \E f : /\ Orders(f, upTo, P)
              /\ \A k \in 1 .. Cardinality(P) : Arranged(records, upTo)[k] = records[f[k]]
    BY <1>7, <2>2, ArrangedIs
  <2> QED
    BY <1>8, <2>1, <2>3, <2>4, Zenon
<1>10. Cardinality(1 .. n) = n
  BY FS_Interval
<1>11. PICK f : /\ Orders(f, upTo, 1 .. n)
                /\ \A k \in 1 .. n : sorted[k] = records[f[k]]
  BY <1>8, <1>9, <1>10
<1>12. /\ f \in [1 .. n -> 1 .. n]
       /\ \A k, l \in 1 .. n : k < l => f[k] \in upTo[f[l]]
       /\ \A i \in 1 .. n : \E k \in 1 .. n : f[k] = i
  BY <1>10, <1>11 DEF Orders
<1>13. ASSUME NEW r \in ToSet(records)
       PROVE  r \in ToSet(sorted)
  <2>1. PICK i \in 1 .. n : r = records[i]
    BY <1>1 DEF ToSet
  <2>2. PICK k \in 1 .. n : f[k] = i
    BY <1>12
  <2>3. sorted[k] = r /\ k \in DOMAIN sorted
    BY <1>9, <1>10, <1>11, <2>1, <2>2
  <2> QED
    BY <2>3 DEF ToSet
<1>14. ASSUME NEW k \in 1 .. n, NEW l \in 1 .. n, k < l,
              NEW t \in temporal_record_time(sorted[k], property),
              NEW u \in temporal_record_time(sorted[l], property)
       PROVE  u <= t
  <2>1. PICK i \in 1 .. n, j \in 1 .. n : i = f[k] /\ j = f[l]
    BY <1>12
  <2>2. i \in upTo[j]
    BY <1>12, <1>14, <2>1
  <2>3. t = time[i] /\ u = time[j]
    <3>1. sorted[k] = records[i] /\ sorted[l] = records[j]
      BY <1>11, <2>1
    <3>2. /\ t \in temporal_record_time(records[i], property)
          /\ u \in temporal_record_time(records[j], property)
      BY <3>1
    <3> QED
      BY <1>2, <3>2
  <2>4. time[i] \in Int /\ time[j] \in Int
    OBVIOUS
  <2>5. time[i] > time[j] \/ time[i] = time[j]
    BY <1>5, <2>2
  <2> QED
    BY <2>3, <2>4, <2>5
<1> QED
  BY <1>1, <1>7, <1>8, <1>9, <1>10, <1>13, <1>14

\* The smaller of two numbers.
LEMMA MinOfTwo ==
  ASSUME NEW m \in Nat, NEW n \in Nat
  PROVE  /\ Min({m, n}) \in Nat /\ Min({m, n}) <= m /\ Min({m, n}) <= n
         /\ Min({m, n}) = m \/ Min({m, n}) = n
<1>1. PICK x \in {m, n} : \A y \in {m, n} : x <= y
  <2>1. m <= n \/ n <= m
    OBVIOUS
  <2> QED
    BY <2>1
<1>2. Min({m, n}) \in {m, n} /\ \A y \in {m, n} : Min({m, n}) <= y
  BY <1>1, Zenon DEF Min
<1> QED
  BY <1>2

\* One time is later than another.
Newer(t, u) == \E x \in t, y \in u : x > y

\* taken are the n newest of records, the newest first.
AreNewest(taken, records, property, n) ==
  /\ taken \in Seq(ToSet(records))
  /\ Len(taken) = Min({n, Len(records)})
  /\ \A record \in ToSet(records) \ ToSet(taken), other \in ToSet(taken) :
       ~ Newer(temporal_record_time(record, property), temporal_record_time(other, property))
  /\ \A j, k \in DOMAIN taken :
       j < k => ~ Newer(temporal_record_time(taken[k], property),
                        temporal_record_time(taken[j], property))

\* The first n of records sorted are the n newest, the newest first.
LEMMA NewestTaken ==
  ASSUME NEW records, Records(records), NEW property,
         \A k \in DOMAIN records : temporal_record_time(records[k], property) # {},
         NEW n \in Nat, NEW taken,
         taken = SubSeq(NewestFirst(records, property), 1, Min({n, Len(records)}))
  PROVE  AreNewest(taken, records, property, n)
<1>1. PICK S : S = ToSet(records)
  OBVIOUS
<1>2. PICK sorted \in Seq(S) : sorted = NewestFirst(records, property)
  BY <1>1, NewestFirstIs
<1>3. /\ Len(sorted) = Len(records)
      /\ \A r \in S : r \in ToSet(sorted)
      /\ \A k, l \in 1 .. Len(records) : k < l =>
           \A t \in temporal_record_time(sorted[k], property),
              u \in temporal_record_time(sorted[l], property) : u <= t
  BY <1>1, <1>2, NewestFirstIs
<1>4. PICK m : m = Min({n, Len(records)})
  OBVIOUS
<1>5. Len(records) \in Nat /\ m \in Nat /\ m <= Len(records)
  BY <1>3, <1>4, MinOfTwo
<1>6. taken = SubSeq(sorted, 1, m)
  BY <1>2, <1>4
<1>7. taken \in Seq(S) /\ Len(taken) = m /\ \A k \in 1 .. m : taken[k] = sorted[k]
  <2>1. 1 \in Int /\ m \in Int /\ 1 <= m + 1 /\ m <= Len(sorted) /\ m - 1 + 1 = m
    BY <1>3, <1>5
  <2>2. SubSeq(sorted, 1, m) \in Seq(S) /\ Len(SubSeq(sorted, 1, m)) = m - 1 + 1
    BY <2>1, PartIs
  <2>3. SubSeq(sorted, 1, m) = [k \in 1 .. m |-> sorted[k]]
    BY <2>1
  <2> QED
    BY <1>6, <2>1, <2>2, <2>3
<1>8. DOMAIN taken = 1 .. m
  BY <1>7
<1>9. \A k, l \in 1 .. Len(records) : k < l =>
        ~ Newer(temporal_record_time(sorted[l], property), temporal_record_time(sorted[k], property))
  <2> SUFFICES ASSUME NEW k \in 1 .. Len(records), NEW l \in 1 .. Len(records), k < l,
                      NEW x \in temporal_record_time(sorted[l], property),
                      NEW y \in temporal_record_time(sorted[k], property), x > y
               PROVE  FALSE
    BY DEF Newer
  <2>1. x <= y
    BY <1>3
  <2>2. sorted[k] \in S /\ sorted[l] \in S
    BY <1>2, <1>3
  <2>3. Recorded(sorted[k]) /\ Recorded(sorted[l])
    BY <1>1, <2>2 DEF Records, ToSet
  <2>4. x \in Int /\ y \in Int
    BY <2>3, OneTime
  <2> QED
    BY <2>1, <2>4
<1>10. ASSUME NEW record \in S \ ToSet(taken), NEW other \in ToSet(taken)
       PROVE  ~ Newer(temporal_record_time(record, property), temporal_record_time(other, property))
  <2>1. PICK k \in 1 .. m : other = sorted[k]
    BY <1>7, <1>8 DEF ToSet
  <2>2. PICK l \in 1 .. Len(records) : record = sorted[l]
    BY <1>2, <1>3 DEF ToSet
  <2>3. ~ (l <= m)
    <3> SUFFICES ASSUME l <= m
                 PROVE  FALSE
      OBVIOUS
    <3>1. l \in 1 .. m
      BY <1>5
    <3>2. taken[l] = record /\ l \in DOMAIN taken
      BY <1>7, <1>8, <2>2, <3>1
    <3> QED
      BY <3>2 DEF ToSet
  <2>4. k \in 1 .. Len(records) /\ k < l
    BY <1>5, <2>3
  <2> QED
    BY <1>9, <2>1, <2>2, <2>4
<1>11. ASSUME NEW j \in DOMAIN taken, NEW k \in DOMAIN taken, j < k
       PROVE  ~ Newer(temporal_record_time(taken[k], property), temporal_record_time(taken[j], property))
  <2>1. j \in 1 .. m /\ k \in 1 .. m /\ j \in 1 .. Len(records) /\ k \in 1 .. Len(records)
    <3>1. j \in 1 .. m /\ k \in 1 .. m
      BY <1>8, Zenon
    <3>2. \A x \in 1 .. m : x \in 1 .. Len(records)
      BY <1>5
    <3> QED
      BY <3>1, <3>2, Zenon
  <2> QED
    BY <1>7, <1>9, <1>11, <2>1
<1> QED
  BY <1>1, <1>4, <1>7, <1>10, <1>11 DEF AreNewest

\* What is selected is the window, or the newest of it.
LEMMA SelectedIs ==
  ASSUME NEW history, NEW f
  PROVE  select_temporal_history(history, f) =
           IF f.lastN = <<>> THEN Window(history, f)
           ELSE SubSeq(NewestFirst(Window(history, f), f.property), 1,
                       Min({f.lastN[1], Len(Window(history, f))}))
BY Zenon DEF select_temporal_history, Only, Window

LEMMA NewestAre == HistoryInv => NewestSelected
<1> SUFFICES ASSUME HistoryInv, NEW f \in Filter, f.lastN # <<>>
             PROVE
    LET selected == select_temporal_history(entity.history, f)
        window   == select_temporal_history(entity.history, [f EXCEPT !.lastN = <<>>])
        Time(record) == temporal_record_time(record, f.property)
    IN  /\ Len(selected) = Min({f.lastN[1], Len(window)})
        /\ ToSet(selected) \subseteq ToSet(window)
        /\ \A record \in ToSet(window) \ ToSet(selected), taken \in ToSet(selected) :
             ~ Newer(Time(record), Time(taken))
        /\ \A j, k \in DOMAIN selected :
             j < k => ~ Newer(Time(selected[k]), Time(selected[j]))
  BY DEF NewestSelected, Newer
<1>1. PICK records : records = Window(entity.history, f)
  OBVIOUS
<1>2. /\ Records(records)
      /\ \A k \in DOMAIN records : temporal_record_time(records[k], f.property) # {}
  BY <1>1, WindowIs DEF HistoryInv
<1>3. PICK selected : selected = select_temporal_history(entity.history, f)
  OBVIOUS
<1>4. f.lastN \in Seq(Nat) /\ f.lastN[1] \in Nat
  <2>1. f.lastN \in Seq(Nat)
    BY HistoryAssumption
  <2> QED
    BY <2>1
<1>5. selected = SubSeq(NewestFirst(records, f.property), 1, Min({f.lastN[1], Len(records)}))
  BY <1>1, <1>3, SelectedIs
<1>6. select_temporal_history(entity.history, [f EXCEPT !.lastN = <<>>]) = records
  <2>1. PICK g : g = [f EXCEPT !.lastN = <<>>]
    OBVIOUS
  <2>2. /\ g.lastN = <<>> /\ g.rel = f.rel /\ g.at = f.at /\ g.end = f.end
        /\ g.property = f.property
    BY <2>1, HistoryAssumption
  <2>3. \A record : temporal_matches(record, g) <=> temporal_matches(record, f)
    BY <2>2, Zenon DEF temporal_matches
  <2>4. Window(entity.history, g) = records
    <3>1. {i \in DOMAIN entity.history : temporal_matches(entity.history[i], g)} =
            {i \in DOMAIN entity.history : temporal_matches(entity.history[i], f)}
      BY <2>3
    <3> QED
      BY <1>1, <3>1, Zenon DEF Window
  <2> QED
    BY <2>1, <2>2, <2>4, SelectedIs
<1>7. /\ selected \in Seq(ToSet(records))
      /\ Len(selected) = Min({f.lastN[1], Len(records)})
      /\ \A record \in ToSet(records) \ ToSet(selected), other \in ToSet(selected) :
           ~ Newer(temporal_record_time(record, f.property), temporal_record_time(other, f.property))
      /\ \A j, k \in DOMAIN selected :
           j < k => ~ Newer(temporal_record_time(selected[k], f.property),
                            temporal_record_time(selected[j], f.property))
  <2>1. AreNewest(selected, records, f.property, f.lastN[1])
    BY <1>2, <1>4, <1>5, NewestTaken
  <2> QED
    BY <2>1, Zenon DEF AreNewest
<1>8. ToSet(selected) \subseteq ToSet(records)
  BY <1>7 DEF ToSet
<1> QED
  BY <1>3, <1>6, <1>7, <1>8, Zenon

\* In whatever order instances were posted, patched and deleted, lastN returns
\* the newest of the window.
THEOREM NewestReturned == Spec => []NewestSelected
<1>1. HistoryInv => NewestSelected
  BY NewestAre
<1>2. HistoryInv /\ [Next]_vars => HistoryInv'
  BY HistoryInvNext
<1> QED
  BY <1>1, <1>2, HistoryInvInit, PTL DEF Spec

\* What is selected are records of the history.
LEMMA SelectedInHistory ==
  ASSUME HistoryInv, NEW f \in Filter
  PROVE  select_temporal_history(entity.history, f) \in Seq(ToSet(entity.history))
<1>1. PICK records : records = Window(entity.history, f)
  OBVIOUS
<1>2. /\ Records(records)
      /\ \A k \in DOMAIN records : temporal_record_time(records[k], f.property) # {}
      /\ ToSet(records) \subseteq ToSet(entity.history)
  BY <1>1, WindowIs DEF HistoryInv
<1>3. PICK S, T : /\ S = ToSet(records) /\ T = ToSet(entity.history)
                  /\ S \subseteq T /\ records \in Seq(S)
  BY <1>2 DEF Records
<1>4. PICK selected : selected = select_temporal_history(entity.history, f)
  OBVIOUS
<1>5. selected \in Seq(S)
  <2>1. CASE f.lastN = <<>>
    BY <1>1, <1>3, <1>4, <2>1, SelectedIs
  <2>2. CASE f.lastN # <<>>
    <3>1. f.lastN[1] \in Nat
      <4>1. f.lastN \in Seq(Nat)
        BY HistoryAssumption
      <4> QED
        BY <2>2, <4>1
    <3>2. selected = SubSeq(NewestFirst(records, f.property), 1, Min({f.lastN[1], Len(records)}))
      BY <1>1, <1>4, <2>2, SelectedIs
    <3>3. AreNewest(selected, records, f.property, f.lastN[1])
      BY <1>2, <3>1, <3>2, NewestTaken
    <3> QED
      BY <1>3, <3>3, Zenon DEF AreNewest
  <2> QED
    BY <2>1, <2>2
<1>6. selected \in Seq(T)
  BY <1>3, <1>5
<1> QED
  BY <1>3, <1>4, <1>6

\* The instances an answer shows of an attribute.
LEMMA ShownAre ==
  ASSUME NEW f, NEW kept, NEW attr,
         attr \in DOMAIN get(f, kept, FALSE), get(f, kept, FALSE)[attr][1] = "instances"
  PROVE  get(f, kept, FALSE)[attr][2] = Of(select_temporal_history(entity.history, f), attr)
<1>1. PICK records : records = select_temporal_history(entity.history, f)
  OBVIOUS
<1>2. PICK shown : shown = {record.attr : record \in ToSet(records)}
  OBVIOUS
<1>3. PICK response : response = temporal_entity_to_response(kept, records, FALSE)
  OBVIOUS
<1>4. response = get(f, kept, FALSE)
  BY <1>1, <1>3, Zenon DEF get
<1>5. response = [a \in (DOMAIN entity.doc \cap kept) \cup shown |->
                    IF a \notin shown THEN <<"snapshot", entity.doc[a]>>
                    ELSE <<"instances", Of(records, a)>>]
  BY <1>2, <1>3 DEF temporal_entity_to_response
<1>6. response[attr] = <<"snapshot", entity.doc[attr]>> \/ response[attr] = <<"instances", Of(records, attr)>>
  BY <1>4, <1>5
<1>7. response[attr] = <<"instances", Of(records, attr)>>
  <2>1. PICK x : x = entity.doc[attr]
    OBVIOUS
  <2>2. <<"snapshot", x>>[1] = "snapshot"
    OBVIOUS
  <2>3. <<"snapshot", x>>[1] # "instances"
    BY <2>2
  <2>4. response[attr][1] = "instances"
    BY <1>4, Zenon
  <2>5. CASE response[attr] = <<"snapshot", entity.doc[attr]>>
    BY <2>1, <2>3, <2>4, <2>5, Zenon
  <2> QED
    BY <1>6, <2>5, Zenon
<1>8. response[attr][2] = Of(records, attr)
  <2>1. PICK of : of = Of(records, attr)
    OBVIOUS
  <2>2. <<"instances", of>>[2] = of
    OBVIOUS
  <2> QED
    BY <1>7, <2>1, <2>2, Zenon
<1> QED
  BY <1>1, <1>4, <1>8, Zenon

\* A set of positions that has two has more than one.
LEMMA TwoPositions ==
  ASSUME NEW n \in Nat, NEW P \in SUBSET (1 .. n), NEW i \in P, NEW j \in P, i # j
  PROVE  Cardinality(P) > 1
<1>1. IsFiniteSet(P) /\ Cardinality(P) \in Nat
  BY PositionsFinite
<1>2. {i, j} \in SUBSET P
  OBVIOUS
<1>3. IsFiniteSet({i}) /\ Cardinality({i}) = 1 /\ j \notin {i}
  BY FS_Singleton
<1>4. Cardinality({i} \cup {j}) = 2
  BY <1>3, FS_AddElement
<1>5. {i, j} = {i} \cup {j}
  OBVIOUS
<1>6. Cardinality({i, j}) <= Cardinality(P)
  BY <1>1, <1>2, FS_Subset
<1> QED
  BY <1>1, <1>4, <1>5, <1>6

LEMMA FetchedAre == HistoryInv => ShownIsFetched
<1> SUFFICES ASSUME HistoryInv, NEW f \in Filter,
                    NEW attr \in DOMAIN get(f, DOMAIN entity.doc, FALSE),
                    get(f, DOMAIN entity.doc, FALSE)[attr][1] = "instances",
                    NEW record \in ToSet(get(f, DOMAIN entity.doc, FALSE)[attr][2]),
                    ~ (Cardinality({k \in DOMAIN entity.history :
                                      Named(entity.history[k], attr, record.id)}) > 1)
             PROVE  get_attr_instance(f, attr, record.id) = {record}
  BY DEF ShownIsFetched
<1>1. PICK history, S : history = entity.history /\ S = ToSet(history) /\ history \in Seq(S)
  BY DEF HistoryInv, Records
<1>2. PICK records \in Seq(S) : records = select_temporal_history(entity.history, f)
  BY <1>1, SelectedInHistory
<1>3. record \in ToSet(Of(records, attr))
  BY <1>2, ShownAre
<1>4. PICK i \in DOMAIN records : record = records[i] /\ records[i].attr = attr
  <2>1. PICK P \in SUBSET DOMAIN records : P = {k \in DOMAIN records : records[k].attr = attr}
    OBVIOUS
  <2>2. Of(records, attr) = Retained(records, P)
    BY <2>1, Zenon DEF Of, Only
  <2>3. ToSet(Retained(records, P)) = {records[k] : k \in P}
    BY RetainedHolds, Zenon DEF ToSet
  <2> QED
    BY <1>3, <2>1, <2>2, <2>3
<1>5. PICK N \in SUBSET DOMAIN history : N = {k \in DOMAIN history : Named(history[k], attr, record.id)}
  OBVIOUS
<1>6. ASSUME NEW k \in N, NEW l \in N
      PROVE  k = l
  <2>1. Len(history) \in Nat /\ N \in SUBSET (1 .. Len(history))
    BY <1>1
  <2> QED
    BY <1>1, <1>5, <2>1, TwoPositions
<1>7. ASSUME NEW r \in S, Named(r, attr, record.id)
      PROVE  \E k \in N : r = history[k]
  BY <1>1, <1>5, <1>7 DEF ToSet
<1>8. record \in S /\ Named(record, attr, record.id)
  BY <1>4 DEF Named
<1>9. \A r \in S : Named(r, attr, record.id) => r = record
  BY <1>6, <1>7, <1>8
<1>10. PICK Q \in SUBSET DOMAIN records : Q = {k \in DOMAIN records : Named(records[k], attr, record.id)}
  OBVIOUS
<1>11. PICK found \in Seq(S) : found = Retained(records, Q)
  BY RetainedIs
<1>12. {found[k] : k \in DOMAIN found} = {records[k] : k \in Q}
  <2>1. {Retained(records, Q)[k] : k \in DOMAIN Retained(records, Q)} = {records[k] : k \in Q}
    BY RetainedHolds
  <2> QED
    BY <1>11, <2>1, Zenon
<1>13. \A k \in Q : records[k] = record
  BY <1>9, <1>10
<1>14. i \in Q
  BY <1>4, <1>8, <1>10
<1>15. found # <<>>
  <2>1. {found[k] : k \in DOMAIN found} # {}
    BY <1>12, <1>14
  <2> QED
    BY <2>1
<1>16. Head(found) = record
  <2>1. 1 \in DOMAIN found /\ Head(found) = found[1]
    BY <1>15
  <2> QED
    BY <1>12, <1>13, <2>1
<1>17. get_attr_instance(f, attr, record.id) = IF found = <<>> THEN {} ELSE {Head(found)}
  BY <1>2, <1>10, <1>11, Zenon DEF get_attr_instance, Only
<1> QED
  BY <1>15, <1>16, <1>17

\* Whatever window it was shown in, an instance is fetched by its id, if no
\* other of the attribute has that id.
THEOREM InstancesFetched == Spec => []ShownIsFetched
<1>1. HistoryInv => ShownIsFetched
  BY FetchedAre
<1>2. HistoryInv /\ [Next]_vars => HistoryInv'
  BY HistoryInvNext
<1> QED
  BY <1>1, <1>2, HistoryInvInit, PTL DEF Spec
-------------------------------------------------------------------------------
(* Aggregates                                                                *)

\* The instances with a number among records, which come from S.
Numeric(S) == {r \in S : \E v \in Present(r.value, "value") : v >= 0}

\* What each of them contributes to an aggregate.
Share(S, method) ==
  [r \in S |-> IF method = "totalCount" THEN 1
               ELSE IF "value" \in DOMAIN r.value THEN r.value.value ELSE 0]

\* What each contributes to the aggregate of an attribute.
ShareOf(S, attr, method) ==
  [r \in S |-> IF r.attr = attr /\ r \in Numeric(S) THEN Share(S, method)[r] ELSE 0]

\* The instances of an attribute with a number.
NumbersOf(records, attr) ==
  Only(Of(records, attr), LAMBDA record : \E v \in Present(record.value, "value") : v >= 0)

\* An aggregate of an attribute, 0 if it has none.
TotalOf(records, attr, method) ==
  IF attr \in DOMAIN aggregate(records) THEN aggregate(records)[attr][method] ELSE 0

LEMMA SharesAre ==
  ASSUME NEW S, \A r \in S : Recorded(r), NEW attr, NEW method
  PROVE  Share(S, method) \in [S -> Int] /\ ShareOf(S, attr, method) \in [S -> Int]
<1>1. \A r \in S : "value" \in DOMAIN r.value => r.value.value \in Int
  BY DEF Recorded
<1>2. PICK share \in [S -> Int] : share = Share(S, method)
  <2>1. PICK f : f = Share(S, method)
    OBVIOUS
  <2>2. \A r \in S : f[r] \in Int
    BY <1>1, <2>1 DEF Share
  <2>3. f \in [S -> Int]
    BY <2>1, <2>2 DEF Share
  <2> QED
    BY <2>1, <2>3
<1>3. ShareOf(S, attr, method) = [r \in S |-> IF r.attr = attr /\ r \in Numeric(S) THEN share[r] ELSE 0]
  BY <1>2 DEF ShareOf
<1> QED
  BY <1>2, <1>3

\* The instances of an attribute with a number weigh what they share.
LEMMA NumbersWeigh ==
  ASSUME NEW S, \A r \in S : Recorded(r), NEW records \in Seq(S), NEW attr, NEW method
  PROVE  /\ NumbersOf(records, attr) \in Seq(S)
         /\ \A k \in DOMAIN NumbersOf(records, attr) : NumbersOf(records, attr)[k] \in Numeric(S)
         /\ \A k \in DOMAIN NumbersOf(records, attr) :
              attr \in {record.attr : record \in ToSet(records)}
         /\ Weigh(NumbersOf(records, attr), Share(S, method)) = Weigh(records, ShareOf(S, attr, method))
<1>1. PICK v \in [S -> Int] : v = Share(S, method)
  BY SharesAre
<1>2. PICK A : A = {r \in S : r.attr = attr}
  OBVIOUS
<1>3. PICK P \in SUBSET DOMAIN records : P = Places(records, A)
  BY DEF Places
<1>4. \A i \in DOMAIN records : records[i] \in S
  OBVIOUS
<1>5. Of(records, attr) = Retained(records, P)
  <2>1. P = {i \in DOMAIN records : records[i].attr = attr}
    BY <1>2, <1>3, <1>4 DEF Places
  <2> QED
    BY <2>1, Zenon DEF Of, Only
<1>6. PICK of \in Seq(S) : of = Of(records, attr) /\ of = Retained(records, P)
  BY <1>5, RetainedIs
<1>7. PICK Q \in SUBSET DOMAIN of : Q = Places(of, Numeric(S))
  BY DEF Places
<1>8. NumbersOf(records, attr) = Retained(of, Q)
  <2>1. \A i \in DOMAIN of : of[i] \in S
    OBVIOUS
  <2>2. Q = {i \in DOMAIN of : \E x \in Present(of[i].value, "value") : x >= 0}
    BY <1>7, <2>1 DEF Numeric, Places
  <2> QED
    BY <1>6, <2>2, Zenon DEF NumbersOf, Only
<1>9. PICK numbers \in Seq(S) : numbers = Retained(of, Q)
  BY RetainedIs
<1>10. {numbers[k] : k \in DOMAIN numbers} = {of[i] : i \in Q}
  <2>1. {Retained(of, Q)[k] : k \in DOMAIN Retained(of, Q)} = {of[i] : i \in Q}
    BY RetainedHolds
  <2> QED
    BY <1>9, <2>1, Zenon
<1>11. {of[i] : i \in DOMAIN of} = {records[i] : i \in P}
  <2>1. {Retained(records, P)[k] : k \in DOMAIN Retained(records, P)} = {records[i] : i \in P}
    BY RetainedHolds
  <2> QED
    BY <1>6, <2>1, Zenon
<1>12. ASSUME NEW k \in DOMAIN numbers
       PROVE  /\ numbers[k] \in Numeric(S)
              /\ attr \in {record.attr : record \in ToSet(records)}
  <2>1. PICK i \in Q : numbers[k] = of[i]
    BY <1>10
  <2>2. PICK j \in P : of[i] = records[j]
    BY <1>11
  <2>3. records[j] \in ToSet(records) /\ records[j].attr = attr
    BY <1>2, <1>3 DEF ToSet, Places
  <2> QED
    BY <1>7, <2>1, <2>3 DEF Places
<1>13. PICK u \in [S -> Int] : /\ u = Within(S, Numeric(S), v)
                               /\ \A x \in S : u[x] = IF x \in Numeric(S) THEN v[x] ELSE 0
  <2>1. PICK f : f = Within(S, Numeric(S), v)
    OBVIOUS
  <2>2. f \in [S -> Int] /\ \A x \in S : f[x] = IF x \in Numeric(S) THEN v[x] ELSE 0
    BY <2>1 DEF Within
  <2> QED
    BY <2>1, <2>2
<1>14. Weigh(numbers, v) = Weigh(of, u)
  <2>1. Weigh(Retained(of, Q), v) = Weigh(of, Within(S, Numeric(S), v))
    BY <1>7, RetainedWeighs
  <2> QED
    BY <1>9, <1>13, <2>1, Zenon
<1>15. Weigh(of, u) = Weigh(records, Within(S, A, u))
  <2>1. Weigh(Retained(records, P), u) = Weigh(records, Within(S, A, u))
    BY <1>3, RetainedWeighs
  <2> QED
    BY <1>6, <2>1, Zenon
<1>16. Within(S, A, u) = ShareOf(S, attr, method)
  BY <1>1, <1>2, <1>13 DEF Within, ShareOf
<1> QED
  BY <1>1, <1>8, <1>9, <1>12, <1>14, <1>15, <1>16

\* An aggregate is what the records share in it.
LEMMA TotalIs ==
  ASSUME NEW S, \A r \in S : Recorded(r), NEW records \in Seq(S), NEW attr,
         NEW method \in {"sum", "totalCount"}
  PROVE  TotalOf(records, attr, method) = Weigh(records, ShareOf(S, attr, method))
<1>1. PICK v \in [S -> Int] : v = Share(S, method)
  BY SharesAre
<1>2. PICK numbers \in Seq(S) :
        /\ numbers = NumbersOf(records, attr)
        /\ \A k \in DOMAIN numbers : numbers[k] \in Numeric(S)
        /\ \A k \in DOMAIN numbers : attr \in {record.attr : record \in ToSet(records)}
        /\ Weigh(numbers, v) = Weigh(records, ShareOf(S, attr, method))
  BY <1>1, NumbersWeigh
<1>3. PICK n \in Nat : n = Len(numbers) /\ DOMAIN numbers = 1 .. n /\ numbers \in [1 .. n -> S]
  OBVIOUS
<1>4. PICK w \in [1 .. n -> Int] : w = [k \in 1 .. n |-> v[numbers[k]]]
  BY <1>3
<1>5. Weigh(numbers, v) = SumOf(w)
  BY <1>3, <1>4, Zenon DEF Weigh
<1>6. PICK attrs : attrs = {a \in {record.attr : record \in ToSet(records)} : NumbersOf(records, a) # <<>>}
  OBVIOUS
<1>7. PICK sums : sums = [a \in attrs |->
        [sum        |-> SumOf([k \in DOMAIN NumbersOf(records, a) |-> NumbersOf(records, a)[k].value.value]),
         totalCount |-> Len(NumbersOf(records, a)),
         min        |-> Min({record.value.value : record \in ToSet(NumbersOf(records, a))}),
         max        |-> Max({record.value.value : record \in ToSet(NumbersOf(records, a))})]]
  OBVIOUS
<1>8. aggregate(records) = sums
  BY <1>6, <1>7, Zenon DEF aggregate, NumbersOf
<1>9. CASE attr \in attrs
  <2>1. PICK total, least, most :
          /\ total = SumOf([k \in DOMAIN numbers |-> numbers[k].value.value])
          /\ sums[attr] = [sum |-> total, totalCount |-> n, min |-> least, max |-> most]
    BY <1>2, <1>3, <1>7, <1>9
  <2>2. CASE method = "sum"
    <3>1. \A k \in 1 .. n : numbers[k].value.value = v[numbers[k]]
      <4> SUFFICES ASSUME NEW k \in 1 .. n
                   PROVE  numbers[k].value.value = v[numbers[k]]
        OBVIOUS
      <4>1. numbers[k] \in S /\ numbers[k] \in Numeric(S)
        BY <1>2, <1>3
      <4>2. "value" \in DOMAIN numbers[k].value
        BY <4>1 DEF Numeric, Present
      <4> QED
        BY <1>1, <2>2, <4>1, <4>2 DEF Share
    <3>2. [k \in DOMAIN numbers |-> numbers[k].value.value] = w
      BY <1>3, <1>4, <3>1
    <3>3. sums[attr][method] = SumOf(w)
      <4>1. total = SumOf(w)
        BY <2>1, <3>2, Zenon
      <4>2. sums[attr].sum = total
        BY <2>1
      <4> QED
        BY <2>2, <4>1, <4>2
    <3> QED
      BY <1>2, <1>5, <1>7, <1>8, <1>9, <3>3 DEF TotalOf
  <2>3. CASE method = "totalCount"
    <3>1. w = [k \in 1 .. n |-> 1]
      BY <1>1, <1>3, <1>4, <2>3 DEF Share
    <3>2. SumOf(w) = n
      BY <3>1, SumOfOnes
    <3>3. sums[attr][method] = n
      BY <2>1, <2>3
    <3> QED
      BY <1>2, <1>5, <1>7, <1>8, <1>9, <3>2, <3>3 DEF TotalOf
  <2> QED
    BY <2>2, <2>3
<1>10. CASE attr \notin attrs
  <2>1. n = 0
    <3> SUFFICES ASSUME n # 0
                 PROVE  FALSE
      OBVIOUS
    <3>1. 1 \in DOMAIN numbers
      BY <1>3
    <3>2. numbers # <<>>
      BY <1>3, <3>1
    <3> QED
      BY <1>2, <1>6, <1>10, <3>1, <3>2
  <2>2. w = [k \in 1 .. n |-> 1]
    BY <1>4, <2>1
  <2>3. SumOf(w) = 0
    BY <2>1, <2>2, SumOfOnes
  <2> QED
    BY <1>2, <1>5, <1>7, <1>8, <1>10, <2>3 DEF TotalOf
<1> QED
  BY <1>9, <1>10

\* A window from one instant to the same.
PartOf(rel, property, instant) ==
  [rel |-> <<rel>>, property |-> property, at |-> <<instant>>, end |-> <<instant>>, lastN |-> <<>>]

\* The records of S with a time, and those before, at and after an instant.
DatedIn(S, property) == {r \in S : temporal_record_time(r, property) # {}}
PartIn(S, rel, property, instant) == {r \in S : temporal_matches(r, PartOf(rel, property, instant))}

\* A record with a time is before, at or after an instant.
LEMMA OnePart ==
  ASSUME NEW S, NEW r \in S, Recorded(r), NEW property, NEW instant \in Int, instant # Unparsable
  PROVE  LET Is(rel) == r \in PartIn(S, rel, property, instant)
         IN  \/ /\ r \in DatedIn(S, property)
                /\ \/ Is("before") /\ ~ Is("between") /\ ~ Is("after")
                   \/ ~ Is("before") /\ Is("between") /\ ~ Is("after")
                   \/ ~ Is("before") /\ ~ Is("between") /\ Is("after")
             \/ /\ r \notin DatedIn(S, property)
                /\ ~ Is("before") /\ ~ Is("between") /\ ~ Is("after")
<1>1. PICK times : times = temporal_record_time(r, property)
  OBVIOUS
<1>2. times \subseteq Int /\ \A t, u \in times : t = u
  BY <1>1, OneTime
<1>3. Instants(ToSet(<<instant>>)) = {instant}
  BY DEF Instants, ToSet
<1>4. /\ <<"before">> # <<"after">> /\ <<"before">> # <<"between">> /\ <<"after">> # <<"between">>
  <2>1. <<"before">>[1] = "before" /\ <<"after">>[1] = "after" /\ <<"between">>[1] = "between"
    OBVIOUS
  <2>2. "before" # "after" /\ "before" # "between" /\ "after" # "between"
    OBVIOUS
  <2> QED
    BY <2>1, <2>2
<1>5. r \in PartIn(S, "before", property, instant) <=> \E time \in times : time < instant
  <2>1. PICK f : f = PartOf("before", property, instant)
    OBVIOUS
  <2>2. f.rel = <<"before">> /\ f.property = property /\ f.at = <<instant>>
    BY <2>1 DEF PartOf
  <2>3. temporal_matches(r, f) <=> \E time \in times, low \in {instant} : time < low
    BY <1>1, <1>3, <2>2 DEF temporal_matches
  <2> QED
    BY <2>1, <2>3 DEF PartIn
<1>6. r \in PartIn(S, "after", property, instant) <=> \E time \in times : time > instant
  <2>1. PICK f : f = PartOf("after", property, instant)
    OBVIOUS
  <2>2. f.rel = <<"after">> /\ f.property = property /\ f.at = <<instant>>
    BY <2>1 DEF PartOf
  <2>3. temporal_matches(r, f) <=> \E time \in times, low \in {instant} : time > low
    BY <1>1, <1>3, <1>4, <2>2 DEF temporal_matches
  <2> QED
    BY <2>1, <2>3 DEF PartIn
<1>7. r \in PartIn(S, "between", property, instant) <=> \E time \in times : time = instant
  <2>1. PICK f : f = PartOf("between", property, instant)
    OBVIOUS
  <2>2. f.rel = <<"between">> /\ f.property = property /\ f.at = <<instant>> /\ f.end = <<instant>>
    BY <2>1 DEF PartOf
  <2>3. temporal_matches(r, f) <=>
          \E time \in times, low \in {instant} : \E high \in {instant} : low <= time /\ time <= high
    BY <1>1, <1>3, <1>4, <2>2 DEF temporal_matches
  <2>4. temporal_matches(r, f) <=> \E time \in times : time = instant
    BY <1>2, <2>3
  <2> QED
    BY <2>1, <2>4 DEF PartIn
<1>8. r \in DatedIn(S, property) <=> times # {}
  BY <1>1 DEF DatedIn
<1>9. CASE times = {}
  BY <1>5, <1>6, <1>7, <1>8, <1>9
<1>10. CASE times # {}
  <2>1. PICK t \in Int : times = {t}
    BY <1>2, <1>10
  <2>2. t < instant \/ t = instant \/ t > instant
    BY <2>1
  <2> QED
    BY <1>5, <1>6, <1>7, <1>8, <2>1, <2>2
<1> QED
  BY <1>9, <1>10

\* Numbers that add up for each element add up for a list.
LEMMA WeighAdds ==
  ASSUME NEW S, NEW s \in Seq(S), NEW w, NEW t, NEW u, NEW v, AddUp(S, w, t, u, v)
  PROVE  Weigh(s, w) = Weigh(s, t) + Weigh(s, u) + Weigh(s, v)
<1>1. PICK n \in Nat : DOMAIN s = 1 .. n /\ s \in [1 .. n -> S]
  <2>1. Len(s) \in Nat /\ DOMAIN s = 1 .. Len(s) /\ s \in [1 .. Len(s) -> S]
    OBVIOUS
  <2> QED
    BY <2>1
<1>2. PICK a, b, c, d : /\ a = [k \in DOMAIN s |-> t[s[k]]] /\ b = [k \in DOMAIN s |-> u[s[k]]]
                        /\ c = [k \in DOMAIN s |-> v[s[k]]] /\ d = [k \in DOMAIN s |-> w[s[k]]]
  OBVIOUS
<1>3. AddUp(1 .. n, d, a, b, c)
  <2>1. /\ a \in [1 .. n -> Int] /\ b \in [1 .. n -> Int]
        /\ c \in [1 .. n -> Int] /\ d \in [1 .. n -> Int]
    BY <1>1, <1>2 DEF AddUp
  <2>2. \A k \in 1 .. n : d[k] = a[k] + b[k] + c[k]
    BY <1>1, <1>2 DEF AddUp
  <2> QED
    BY <2>1, <2>2 DEF AddUp
<1>4. SumOf(d) = SumOf(a) + SumOf(b) + SumOf(c)
  BY <1>3, SumsAdd
<1>5. /\ Weigh(s, t) = SumOf(a) /\ Weigh(s, u) = SumOf(b)
      /\ Weigh(s, v) = SumOf(c) /\ Weigh(s, w) = SumOf(d)
  BY <1>2, Zenon DEF Weigh
<1> QED
  BY <1>4, <1>5

LEMMA PartsAre == HistoryInv => PartsAddUp
<1> SUFFICES ASSUME HistoryInv, NEW property \in Times,
                    NEW instant \in (UNION {ToSet(f.at) : f \in Filter}) \ {Unparsable},
                    NEW attr, NEW method \in {"sum", "totalCount"}
             PROVE
    LET Part(rel) == select_temporal_history(entity.history, PartOf(rel, property, instant))
        dated     == Only(entity.history, LAMBDA record : temporal_record_time(record, property) # {})
    IN  TotalOf(dated, attr, method) =
          TotalOf(Part("before"), attr, method) + TotalOf(Part("between"), attr, method)
            + TotalOf(Part("after"), attr, method)
  BY Zenon DEF PartsAddUp, PartOf, TotalOf
<1>1. instant \in Int /\ instant # Unparsable
  <2>0. PICK g \in Filter : instant \in ToSet(g.at)
    OBVIOUS
  <2>1. PICK at \in Seq(Int) : at = g.at
    BY HistoryAssumption
  <2>2. PICK k \in DOMAIN at : instant = at[k]
    BY <2>0, <2>1, Zenon DEF ToSet
  <2>3. at[k] \in Int
    BY ElementOfSeq
  <2>4. instant # Unparsable
    BY Zenon
  <2> QED
    BY <2>2, <2>3, <2>4
<1>2. PICK history, S : /\ history = entity.history /\ S = ToSet(history) /\ history \in Seq(S)
                        /\ \A r \in S : Recorded(r)
  BY DEF HistoryInv, Records, ToSet
<1>3. PICK w \in [S -> Int] : w = ShareOf(S, attr, method)
  BY <1>2, SharesAre
<1>4. ASSUME NEW A
      PROVE  /\ Within(S, A, w) \in [S -> Int]
             /\ TotalOf(Retained(history, Places(history, A)), attr, method) = Weigh(history, Within(S, A, w))
  <2>1. PICK records \in Seq(S) : records = Retained(history, Places(history, A))
    <3>1. Places(history, A) \in SUBSET DOMAIN history
      BY DEF Places
    <3> QED
      BY <1>2, <3>1, RetainedIs
  <2>2. TotalOf(records, attr, method) = Weigh(records, w)
    BY <1>2, <1>3, TotalIs
  <2>3. Weigh(Retained(history, Places(history, A)), w) = Weigh(history, Within(S, A, w))
    BY <1>2, RetainedWeighs
  <2>4. Within(S, A, w) \in [S -> Int]
    <3>1. PICK f : f = Within(S, A, w)
      OBVIOUS
    <3>2. f \in [S -> Int]
      BY <3>1 DEF Within
    <3> QED
      BY <3>1, <3>2
  <2> QED
    BY <2>1, <2>2, <2>3, <2>4
<1>5. ASSUME NEW rel
      PROVE  select_temporal_history(entity.history, PartOf(rel, property, instant)) =
               Retained(history, Places(history, PartIn(S, rel, property, instant)))
  <2>1. PICK f : f = PartOf(rel, property, instant)
    OBVIOUS
  <2>2. f.lastN = <<>>
    BY <2>1 DEF PartOf
  <2>3. select_temporal_history(history, f) = Window(history, f)
    BY <2>2, SelectedIs
  <2>4. Places(history, PartIn(S, rel, property, instant)) =
          {i \in DOMAIN history : temporal_matches(history[i], f)}
    BY <1>2, <2>1 DEF Places, PartIn, ToSet
  <2> QED
    BY <1>2, <2>1, <2>3, <2>4, Zenon DEF Window
<1>6. Only(entity.history, LAMBDA record : temporal_record_time(record, property) # {}) =
        Retained(history, Places(history, DatedIn(S, property)))
  <2>1. Places(history, DatedIn(S, property)) =
          {i \in DOMAIN history : temporal_record_time(history[i], property) # {}}
    BY <1>2 DEF Places, DatedIn, ToSet
  <2> QED
    BY <1>2, <2>1, Zenon DEF Only
<1>7. PICK D, B, E, A : /\ D = DatedIn(S, property)
                        /\ B = PartIn(S, "before", property, instant)
                        /\ E = PartIn(S, "between", property, instant)
                        /\ A = PartIn(S, "after", property, instant)
  OBVIOUS
<1>8. PICK d \in [S -> Int], b \in [S -> Int], e \in [S -> Int], a \in [S -> Int] :
        /\ d = Within(S, D, w) /\ b = Within(S, B, w)
        /\ e = Within(S, E, w) /\ a = Within(S, A, w)
  BY <1>4
<1>9. ASSUME NEW r \in S
      PROVE  d[r] = b[r] + e[r] + a[r]
  <2>1. w[r] \in Int
    OBVIOUS
  <2>2. /\ d[r] = IF r \in D THEN w[r] ELSE 0
        /\ b[r] = IF r \in B THEN w[r] ELSE 0
        /\ e[r] = IF r \in E THEN w[r] ELSE 0
        /\ a[r] = IF r \in A THEN w[r] ELSE 0
    BY <1>8 DEF Within
  <2>3. \/ /\ r \in D
           /\ \/ r \in B /\ r \notin E /\ r \notin A
              \/ r \notin B /\ r \in E /\ r \notin A
              \/ r \notin B /\ r \notin E /\ r \in A
        \/ r \notin D /\ r \notin B /\ r \notin E /\ r \notin A
    BY <1>1, <1>2, <1>7, OnePart
  <2> QED
    BY <2>1, <2>2, <2>3
<1>10. Weigh(history, d) = Weigh(history, b) + Weigh(history, e) + Weigh(history, a)
  <2>1. AddUp(S, d, b, e, a)
    BY <1>9 DEF AddUp
  <2> QED
    BY <1>2, <2>1, WeighAdds
<1> QED
  BY <1>4, <1>5, <1>6, <1>7, <1>8, <1>10

\* However values were posted, patched and deleted, the aggregates of the parts
\* that an instant divides a history in add up to those of the whole.
THEOREM PartsAlwaysAddUp == Spec => []PartsAddUp
<1>1. HistoryInv => PartsAddUp
  BY PartsAre
<1>2. HistoryInv /\ [Next]_vars => HistoryInv'
  BY HistoryInvNext
<1> QED
  BY <1>1, <1>2, HistoryInvInit, PTL DEF Spec
-------------------------------------------------------------------------------

\* The terms of contexts.  The layer after the last one.
LayerAfter(last) ==
  [met |-> UNION {Leads(v) : v \in {v \in last.met : Fresh(v, last.nearer)}},
   nearer |-> last.nearer \cup Strings(last.met)]

\* L are the layers from start.
AreLayers(L, start) ==
  /\ L[0] = [met |-> Range(start), nearer |-> {}]
  /\ \A n \in 1 .. MaxDepth : L[n] = LayerAfter(L[n - 1])

\* The recursive function of the model is what its equations say.
LEMMA LayersAre ==
  ASSUME NEW start
  PROVE  AreLayers(Layers(start), start)
<1> DEFINE Goes(h, m) ==
      h = [n \in 0 .. m |-> IF n = 0 THEN [met |-> Range(start), nearer |-> {}]
                            ELSE LayerAfter(h[n - 1])]
<1>0. MaxDepth \in Nat
  BY ContextAssumption
<1>1. PICK H : H = {m \in 0 .. MaxDepth : \E h : Goes(h, m)}
  OBVIOUS
<1>2. 0 \in H
  <2>1. PICK h : h = [n \in 0 .. 0 |-> [met |-> Range(start), nearer |-> {}]]
    OBVIOUS
  <2>2. Goes(h, 0)
    BY <2>1
  <2> QED
    BY <1>0, <1>1, <2>2
<1>3. ASSUME NEW m \in 1 .. MaxDepth, m - 1 \in H
      PROVE  m \in H
  <2>1. PICK g : Goes(g, m - 1)
    BY <1>1, <1>3
  <2>2. PICK h : h = [n \in 0 .. m |-> IF n = m THEN LayerAfter(g[m - 1]) ELSE g[n]]
    OBVIOUS
  <2>3. PICK f : f = [n \in 0 .. m |-> IF n = 0 THEN [met |-> Range(start), nearer |-> {}]
                                      ELSE LayerAfter(h[n - 1])]
    OBVIOUS
  <2>4. ASSUME NEW n \in 0 .. m
        PROVE  h[n] = f[n]
    <3>1. CASE n = m
      <4>1. m # 0 /\ m - 1 \in 0 .. m /\ m - 1 # m
        OBVIOUS
      <4>2. h[m - 1] = g[m - 1]
        BY <2>2, <4>1
      <4> QED
        BY <2>2, <2>3, <3>1, <4>1, <4>2
    <3>2. CASE n # m
      <4>1. n \in 0 .. m - 1 /\ h[n] = g[n]
        BY <2>2, <3>2
      <4>2. CASE n = 0
        BY <2>1, <2>3, <4>1, <4>2
      <4>3. CASE n # 0
        <5>1. n - 1 \in 0 .. m /\ n - 1 # m
          <6>1. n \in Int /\ m \in Int /\ 0 <= n /\ n <= m - 1
            BY <4>1
          <6> QED
            BY <4>3, <6>1
        <5>2. h[n - 1] = g[n - 1]
          BY <2>2, <5>1
        <5>3. g[n] = LayerAfter(g[n - 1])
          BY <2>1, <4>1, <4>3
        <5> QED
          BY <2>3, <4>1, <4>3, <5>2, <5>3
      <4> QED
        BY <4>2, <4>3
    <3> QED
      BY <3>1, <3>2
  <2>5. h = f
    BY <2>2, <2>3, <2>4
  <2>6. Goes(h, m)
    BY <2>3, <2>5, Zenon
  <2>7. m \in 0 .. MaxDepth
    BY <1>0
  <2> QED
    BY <1>1, <2>6, <2>7
<1>4. MaxDepth \in H
  <2>1. 0 .. MaxDepth \subseteq H
    BY <1>0, <1>2, <1>3, UpTo
  <2> QED
    BY <1>0, <2>1
<1>5. PICK h : h = CHOOSE g : Goes(g, MaxDepth)
  OBVIOUS
<1>6. Layers(start) = h
  BY <1>5, Zenon DEF Layers, LayerAfter
<1>7. Goes(h, MaxDepth)
  BY <1>1, <1>4, <1>5
<1>8. h[0] = [met |-> Range(start), nearer |-> {}]
  BY <1>0, <1>7
<1>9. ASSUME NEW n \in 1 .. MaxDepth
      PROVE  h[n] = LayerAfter(h[n - 1])
  <2>1. n \in 0 .. MaxDepth /\ n # 0
    BY <1>0
  <2> QED
    BY <1>7, <2>1
<1> QED
  BY <1>6, <1>8, <1>9 DEF AreLayers

\* What the assumption says of the layers from what a client asks.
Good(L) ==
  /\ \A n \in 0 .. MaxDepth : \A v \in L[n].met :
       /\ v[1] = "array" => v[2] \in Seq(Range(v[2]))
       /\ v[1] = "object" => v[2].context \in Seq(Range(v[2].context))
  /\ L[MaxDepth].met = {}

LEMMA AskedGood ==
  ASSUME NEW context \in Local, NEW link \in Link
  PROVE  /\ Good(Layers(context \o link))
         /\ context \o link \in Seq(Range(context \o link))
<1>1. PICK L : L = Layers(context \o link)
  OBVIOUS
<1>2. /\ context \in Seq(Range(context)) /\ link \in Seq(Range(link))
      /\ \A n \in 0 .. MaxDepth : \A v \in L[n].met :
           /\ v[1] = "array" => v[2] \in Seq(Range(v[2]))
           /\ v[1] = "object" => v[2].context \in Seq(Range(v[2].context))
      /\ L[MaxDepth].met = {}
  BY <1>1, ContextAssumption, Zenon
<1>3. PICK S : context \in Seq(S) /\ link \in Seq(S)
  <2>1. PICK S : S = Range(context) \cup Range(link)
    OBVIOUS
  <2>2. context \in Seq(S) /\ link \in Seq(S)
    BY <1>2, <2>1
  <2> QED
    BY <2>2
<1>4. context \o link \in Seq(S)
  BY <1>3
<1>5. context \o link \in Seq(Range(context \o link))
  BY <1>4, SeqOfRange
<1> QED
  BY <1>1, <1>2, <1>5 DEF Good

\* The terms that some value says something of.
LEMMA DefinedInIs ==
  ASSUME NEW values, NEW t
  PROVE  t \in DefinedIn(values) <=> \E v \in values : Meanings(v, t) # {}
BY DEF DefinedIn, Meanings

\* What is found with v, after found.
FoundWith(with, found, v) ==
  \/ v[1] # "object" /\ with = found
  \/ v[1] = "object" /\ with = Inserted(found, v[2])

\* One more value of the last layer, and what is found with it.
LEMMA MeantOneMore ==
  ASSUME NEW n \in Nat, NEW met, NEW more, NEW found, NEW with, NEW v,
         LastMeant(found, met, n),
         \A k \in 0 .. n : more[k] = IF k = n THEN met[k] \cup {v} ELSE met[k],
         FoundWith(with, found, v)
  PROVE  LastMeant(with, more, n)
<1>1. PICK D : D = IF v[1] = "object" THEN Defined(v[2]) ELSE {}
  OBVIOUS
<1>2. /\ DOMAIN with = DOMAIN found \cup D
      /\ \A t \in D : with[t] \in Meanings(v, t)
      /\ \A t \in DOMAIN found \ D : with[t] = found[t] /\ Meanings(v, t) = {}
  <2>1. CASE v[1] = "object"
    BY <1>1, <2>1 DEF FoundWith, Inserted, Meanings
  <2>2. CASE v[1] # "object"
    BY <1>1, <2>2 DEF FoundWith, Meanings
  <2> QED
    BY <2>1, <2>2
<1>3. /\ DOMAIN found = UNION {DefinedIn(met[k]) : k \in 0 .. n}
      /\ \A t \in DOMAIN found : \E k \in 0 .. n :
           /\ \E w \in met[k] : found[t] \in Meanings(w, t)
           /\ \A j \in k + 1 .. n : \A w \in met[j] : Meanings(w, t) = {}
  BY DEF LastMeant
<1>4. n \in 0 .. n
  OBVIOUS
<1>5. \A k \in 0 .. n : k # n => DefinedIn(more[k]) = DefinedIn(met[k])
  OBVIOUS
<1>6. DefinedIn(more[n]) = DefinedIn(met[n]) \cup D
  <2>1. more[n] = met[n] \cup {v}
    BY <1>4
  <2> QED
    BY <1>1, <2>1 DEF DefinedIn
<1>7. DOMAIN with = UNION {DefinedIn(more[k]) : k \in 0 .. n}
  <2>1. UNION {DefinedIn(more[k]) : k \in 0 .. n} = (UNION {DefinedIn(met[k]) : k \in 0 .. n}) \cup D
    BY <1>4, <1>5, <1>6
  <2> QED
    BY <1>2, <1>3, <2>1
<1>8. ASSUME NEW t \in DOMAIN with
      PROVE  \E k \in 0 .. n :
               /\ \E w \in more[k] : with[t] \in Meanings(w, t)
               /\ \A j \in k + 1 .. n : \A w \in more[j] : Meanings(w, t) = {}
  <2>1. CASE t \in D
    <3>1. v \in more[n] /\ with[t] \in Meanings(v, t)
      BY <1>2, <1>4, <2>1
    <3>2. \A j \in n + 1 .. n : FALSE
      OBVIOUS
    <3> QED
      BY <1>4, <3>1, <3>2
  <2>2. CASE t \notin D
    <3>1. t \in DOMAIN found /\ with[t] = found[t] /\ Meanings(v, t) = {}
      BY <1>2, <2>2
    <3>2. PICK k \in 0 .. n :
            /\ \E w \in met[k] : found[t] \in Meanings(w, t)
            /\ \A j \in k + 1 .. n : \A w \in met[j] : Meanings(w, t) = {}
      BY <1>3, <3>1
    <3>3. \E w \in more[k] : with[t] \in Meanings(w, t)
      BY <3>1, <3>2
    <3>4. ASSUME NEW j \in k + 1 .. n, NEW w \in more[j]
          PROVE  Meanings(w, t) = {}
      <4>1. j \in 0 .. n
        OBVIOUS
      <4>2. w \in met[j] \/ w = v
        BY <4>1
      <4> QED
        BY <3>1, <3>2, <4>2
    <3> QED
      BY <3>3, <3>4
  <2> QED
    BY <2>1, <2>2
<1> QED
  BY <1>7, <1>8 DEF LastMeant

\* Layers of nothing farther away.
LEMMA MeantUpTo ==
  ASSUME NEW n \in Nat, NEW m \in Nat, n <= m, NEW met, NEW more, NEW found,
         LastMeant(found, met, n),
         \A k \in 0 .. m : more[k] = IF k <= n THEN met[k] ELSE {}
  PROVE  LastMeant(found, more, m)
<1>1. /\ DOMAIN found = UNION {DefinedIn(met[k]) : k \in 0 .. n}
      /\ \A t \in DOMAIN found : \E k \in 0 .. n :
           /\ \E w \in met[k] : found[t] \in Meanings(w, t)
           /\ \A j \in k + 1 .. n : \A w \in met[j] : Meanings(w, t) = {}
  BY DEF LastMeant
<1>2. \A k \in 0 .. n : k \in 0 .. m /\ more[k] = met[k]
  OBVIOUS
<1>3. \A k \in 0 .. m : k \in 0 .. n \/ more[k] = {}
  OBVIOUS
<1>4. DefinedIn({}) = {}
  BY DEF DefinedIn
<1>5. DOMAIN found = UNION {DefinedIn(more[k]) : k \in 0 .. m}
  <2>1. UNION {DefinedIn(met[k]) : k \in 0 .. n} = UNION {DefinedIn(more[k]) : k \in 0 .. m}
    BY <1>2, <1>3, <1>4
  <2> QED
    BY <1>1, <2>1
<1>6. ASSUME NEW t \in DOMAIN found
      PROVE  \E k \in 0 .. m :
               /\ \E w \in more[k] : found[t] \in Meanings(w, t)
               /\ \A j \in k + 1 .. m : \A w \in more[j] : Meanings(w, t) = {}
  <2>1. PICK k \in 0 .. n :
          /\ \E w \in met[k] : found[t] \in Meanings(w, t)
          /\ \A j \in k + 1 .. n : \A w \in met[j] : Meanings(w, t) = {}
    BY <1>1
  <2>2. k \in 0 .. m /\ \E w \in more[k] : found[t] \in Meanings(w, t)
    BY <1>2, <2>1
  <2>3. ASSUME NEW j \in k + 1 .. m, NEW w \in more[j]
        PROVE  Meanings(w, t) = {}
    <3>1. j \in 0 .. m
      OBVIOUS
    <3>2. j \in 0 .. n
      BY <1>3, <3>1
    <3>3. j \in k + 1 .. n
      BY <3>2
    <3> QED
      BY <1>2, <2>1, <3>2, <3>3
  <2> QED
    BY <2>2, <2>3
<1> QED
  BY <1>5, <1>6 DEF LastMeant

\* The values of a layer that are done with, P, those still ahead of it, and
\* those of the next, in a queue of values, with what was visited and found.
LayersTo(L, n, P) == [k \in 0 .. n |-> IF k = n THEN P ELSE L[k].met]

LedFrom(P, nearer) == UNION {Leads(v) : v \in {v \in P : Fresh(v, nearer)}}

At(L, n, P, ahead, next, values, visited, found) ==
  /\ n \in 0 .. MaxDepth
  /\ P \subseteq L[n].met
  /\ ahead \in Seq(L[n].met) /\ Range(ahead) \cup P = L[n].met
  /\ next \in Seq(LedFrom(P, L[n].nearer)) /\ Range(next) = LedFrom(P, L[n].nearer)
  /\ values = ahead \o next
  /\ visited = L[n].nearer \cup Strings(P)
  /\ LastMeant(found, LayersTo(L, n, P), n)

\* The loop begins with the first layer.
LEMMA AtStart ==
  ASSUME NEW start, start \in Seq(Range(start))
  PROVE  At(Layers(start), 0, {}, start, <<>>, start, {}, NoTerms)
<1>1. PICK L : L = Layers(start)
  OBVIOUS
<1>2. L[0].met = Range(start) /\ L[0].nearer = {}
  <2>1. AreLayers(L, start)
    BY <1>1, LayersAre
  <2>2. L[0] = [met |-> Range(start), nearer |-> {}]
    BY <2>1 DEF AreLayers
  <2> QED
    BY <2>2
<1>3. LedFrom({}, {}) = {} /\ Strings({}) = {}
  BY DEF LedFrom, Strings
<1>4. LastMeant(NoTerms, LayersTo(L, 0, {}), 0)
  <2>1. PICK met : met = LayersTo(L, 0, {}) /\ met[0] = {}
    <3>1. PICK met : met = LayersTo(L, 0, {})
      OBVIOUS
    <3>2. met[0] = {}
      BY <3>1 DEF LayersTo
    <3> QED
      BY <3>1, <3>2
  <2>2. DefinedIn({}) = {} /\ \A k \in 0 .. 0 : k = 0
    BY DEF DefinedIn
  <2>3. DOMAIN NoTerms = {}
    BY DEF NoTerms
  <2>4. UNION {DefinedIn(met[k]) : k \in 0 .. 0} = {}
    BY <2>1, <2>2
  <2> QED
    BY <2>1, <2>3, <2>4 DEF LastMeant
<1>5. start \o <<>> = start /\ Range(<<>>) = {} /\ <<>> \in Seq({})
  BY DEF Range
<1>6. 0 \in 0 .. MaxDepth
  BY ContextAssumption
<1> QED
  BY <1>1, <1>2, <1>3, <1>4, <1>5, <1>6 DEF At

\* The first of two lists after each other, and what is left.
LEMMA FirstOfTwo ==
  ASSUME NEW S, NEW a \in Seq(S), a # <<>>, NEW b \in Seq(S), NEW c \in Seq(S)
  PROVE  /\ a \o b # <<>> /\ (a \o b)[1] = a[1] /\ a[1] \in S
         /\ Tail(a) \in Seq(S) /\ Range(a) = {a[1]} \cup Range(Tail(a))
         /\ Tail(a \o b) \o c = Tail(a) \o (b \o c)
<1>1. /\ Len(a) \in Nat /\ Len(b) \in Nat /\ Len(a) # 0
      /\ Tail(a) \in Seq(S) /\ Len(Tail(a)) = Len(a) - 1
      /\ \A i \in 1 .. Len(a) - 1 : Tail(a)[i] = a[i + 1]
  BY HeadTailProperties
<1>2. /\ a \o b \in Seq(S) /\ Len(a \o b) = Len(a) + Len(b)
      /\ \A i \in 1 .. Len(a) + Len(b) : (a \o b)[i] = IF i <= Len(a) THEN a[i] ELSE b[i - Len(a)]
  BY ConcatProperties
<1>3. a \o b # <<>> /\ (a \o b)[1] = a[1] /\ a[1] \in S
  BY <1>1, <1>2
<1>4. Range(a) = {a[1]} \cup Range(Tail(a))
  <2>1. DOMAIN a = 1 .. Len(a) /\ DOMAIN Tail(a) = 1 .. Len(a) - 1
    BY <1>1
  <2>2. ASSUME NEW i \in 1 .. Len(a)
        PROVE  a[i] \in {a[1]} \cup Range(Tail(a))
    <3>1. CASE i = 1
      BY <3>1
    <3>2. CASE i # 1
      <4>1. PICK j \in 1 .. Len(a) - 1 : i = j + 1
        <5>1. i - 1 \in 1 .. Len(a) - 1 /\ i = i - 1 + 1
          BY <1>1, <3>2
        <5> QED
          BY <5>1
      <4>2. Tail(a)[j] = a[i] /\ j \in DOMAIN Tail(a)
        BY <1>1, <2>1, <4>1
      <4> QED
        BY <4>2 DEF Range
    <3> QED
      BY <3>1, <3>2
  <2>3. ASSUME NEW i \in 1 .. Len(a) - 1
        PROVE  Tail(a)[i] \in Range(a)
    <3>1. i + 1 \in 1 .. Len(a) /\ Tail(a)[i] = a[i + 1]
      BY <1>1
    <3> QED
      BY <2>1, <3>1 DEF Range
  <2>4. 1 \in DOMAIN a
    BY <1>1, <2>1
  <2> QED
    BY <2>1, <2>2, <2>3, <2>4 DEF Range
<1>5. Tail(a \o b) = Tail(a) \o b
  <2>1. /\ Tail(a \o b) \in Seq(S) /\ Len(Tail(a \o b)) = Len(a) + Len(b) - 1
        /\ \A i \in 1 .. Len(a) + Len(b) - 1 : Tail(a \o b)[i] = (a \o b)[i + 1]
    BY <1>2, <1>3, HeadTailProperties
  <2>2. /\ Tail(a) \o b \in Seq(S) /\ Len(Tail(a) \o b) = Len(a) - 1 + Len(b)
        /\ \A i \in 1 .. Len(a) - 1 + Len(b) :
             (Tail(a) \o b)[i] = IF i <= Len(a) - 1 THEN Tail(a)[i] ELSE b[i - (Len(a) - 1)]
    BY <1>1, ConcatProperties
  <2>3. ASSUME NEW i \in 1 .. Len(a) + Len(b) - 1
        PROVE  Tail(a \o b)[i] = (Tail(a) \o b)[i]
    <3>1. i + 1 \in 1 .. Len(a) + Len(b) /\ i \in 1 .. Len(a) - 1 + Len(b)
      BY <1>1
    <3>2. CASE i + 1 <= Len(a)
      <4>1. i \in 1 .. Len(a) - 1 /\ i <= Len(a) - 1
        BY <1>1, <3>2
      <4> QED
        BY <1>1, <1>2, <2>1, <2>2, <3>1, <3>2, <4>1
    <3>3. CASE ~ (i + 1 <= Len(a))
      <4>1. ~ (i <= Len(a) - 1) /\ i + 1 - Len(a) = i - (Len(a) - 1)
        BY <1>1, <3>3
      <4> QED
        BY <1>2, <2>1, <2>2, <3>1, <3>3, <4>1
    <3> QED
      BY <3>2, <3>3
  <2>4. Len(Tail(a \o b)) = Len(Tail(a) \o b)
    BY <1>1, <2>1, <2>2
  <2> QED
    BY <2>1, <2>2, <2>3, <2>4, SeqEqual
<1>6. (Tail(a) \o b) \o c = Tail(a) \o (b \o c)
  BY <1>1, ConcatAssociative
<1> QED
  BY <1>1, <1>3, <1>4, <1>5, <1>6

\* The values ahead in the queue go out before the others.  When there are none
\* left, the next layer is ahead.
LEMMA AtFirst ==
  ASSUME NEW start, NEW L, AreLayers(L, start), Good(L), NEW n, NEW P, NEW ahead, NEW next,
         NEW values, NEW visited, NEW found,
         At(L, n, P, ahead, next, values, visited, found), values # <<>>
  PROVE  \E m, Q, first, later : At(L, m, Q, first, later, values, visited, found) /\ first # <<>>
<1>0. /\ n \in 0 .. MaxDepth /\ MaxDepth \in Nat
      /\ P \subseteq L[n].met
      /\ ahead \in Seq(L[n].met) /\ Range(ahead) \cup P = L[n].met
      /\ next \in Seq(LedFrom(P, L[n].nearer)) /\ Range(next) = LedFrom(P, L[n].nearer)
      /\ values = ahead \o next
      /\ visited = L[n].nearer \cup Strings(P)
      /\ LastMeant(found, LayersTo(L, n, P), n)
  BY ContextAssumption DEF At
<1>1. CASE ahead # <<>>
  BY <1>1
<1>2. CASE ahead = <<>>
  <2>1. values = next /\ next # <<>>
    BY <1>0, <1>2
  <2>2. P = L[n].met
    <3>1. Range(<<>>) = {}
      BY DEF Range
    <3> QED
      BY <1>0, <1>2, <3>1
  <2>3. n # MaxDepth
    <3> SUFFICES ASSUME n = MaxDepth
                 PROVE  FALSE
      OBVIOUS
    <3>1. P = {}
      BY <2>2 DEF Good
    <3>2. LedFrom({}, L[n].nearer) = {}
      BY DEF LedFrom
    <3>3. next \in Seq({})
      BY <1>0, <3>1, <3>2
    <3>4. next = <<>>
      BY <3>3
    <3> QED
      BY <2>1, <3>4
  <2>4. PICK m \in 1 .. MaxDepth : m = n + 1 /\ m - 1 = n
    BY <1>0, <2>3
  <2>5. L[m] = LayerAfter(L[n])
    BY <2>4 DEF AreLayers
  <2>6. L[m].met = LedFrom(P, L[n].nearer) /\ L[m].nearer = visited
    BY <1>0, <2>2, <2>5 DEF LayerAfter, LedFrom
  <2>7. LedFrom({}, L[m].nearer) = {} /\ Strings({}) = {} /\ Range(<<>>) = {} /\ <<>> \in Seq({})
    BY DEF LedFrom, Strings, Range
  <2>8. next \o <<>> = next
    BY <1>0
  <2>9. LastMeant(found, LayersTo(L, m, {}), m)
    <3>1. PICK met, more : met = LayersTo(L, n, P) /\ more = LayersTo(L, m, {})
      OBVIOUS
    <3>2. n \in Nat /\ m \in Nat /\ n <= m
      BY <1>0, <2>4
    <3>3. \A k \in 0 .. m : more[k] = IF k <= n THEN met[k] ELSE {}
      <4> SUFFICES ASSUME NEW k \in 0 .. m
                   PROVE  more[k] = IF k <= n THEN met[k] ELSE {}
        OBVIOUS
      <4>1. more[k] = IF k = m THEN {} ELSE L[k].met
        BY <3>1 DEF LayersTo
      <4>2. k <= n => k \in 0 .. n /\ k # m
        BY <2>4, <3>2
      <4>3. ~ (k <= n) => k = m
        BY <2>4, <3>2
      <4>4. k \in 0 .. n => met[k] = L[k].met
        BY <2>2, <3>1 DEF LayersTo
      <4> QED
        BY <4>1, <4>2, <4>3, <4>4
    <3> QED
      BY <1>0, <3>1, <3>2, <3>3, MeantUpTo
  <2>10. At(L, m, {}, next, <<>>, values, visited, found)
    <3>1. m \in 0 .. MaxDepth
      BY <1>0
    <3> QED
      BY <1>0, <2>1, <2>6, <2>7, <2>8, <2>9, <3>1 DEF At
  <2> QED
    BY <2>1, <2>10
<1> QED
  BY <1>1, <1>2

\* What a round of the loop puts into the queue for v: what v leads to and the
\* values of its layer before it did not.
Put(more, v, P, nearer) ==
  /\ more \in Seq(Range(more))
  /\ LedFrom(P \cup {v}, nearer) = LedFrom(P, nearer) \cup Range(more)

\* A round of the loop.
LEMMA AtStep ==
  ASSUME NEW L, NEW n, NEW P, NEW ahead, NEW next, NEW values, NEW visited, NEW found,
         At(L, n, P, ahead, next, values, visited, found), ahead # <<>>,
         NEW v, v = values[1], NEW more, Put(more, v, P, L[n].nearer), NEW with,
         FoundWith(with, found, v)
  PROVE  At(L, n, P \cup {v}, Tail(ahead), next \o more, Tail(values) \o more,
            visited \cup Strings({v}), with)
<1>0. /\ n \in 0 .. MaxDepth /\ MaxDepth \in Nat
      /\ P \subseteq L[n].met
      /\ ahead \in Seq(L[n].met) /\ Range(ahead) \cup P = L[n].met
      /\ next \in Seq(LedFrom(P, L[n].nearer)) /\ Range(next) = LedFrom(P, L[n].nearer)
      /\ values = ahead \o next
      /\ visited = L[n].nearer \cup Strings(P)
      /\ LastMeant(found, LayersTo(L, n, P), n)
  BY ContextAssumption DEF At
<1>1. PICK Q : Q = P \cup {v}
  OBVIOUS
<1>2. LedFrom(Q, L[n].nearer) = LedFrom(P, L[n].nearer) \cup Range(more)
  BY <1>1 DEF Put
<1>3. PICK S : ahead \in Seq(S) /\ next \in Seq(S) /\ more \in Seq(S)
  <2>1. PICK S : S = L[n].met \cup LedFrom(Q, L[n].nearer)
    OBVIOUS
  <2>2. /\ \A s : s \in Seq(L[n].met) => s \in Seq(S)
        /\ \A s : s \in Seq(LedFrom(P, L[n].nearer)) => s \in Seq(S)
        /\ \A s : s \in Seq(Range(more)) => s \in Seq(S)
    BY <1>2, <2>1
  <2> QED
    BY <1>0, <2>2 DEF Put
<1>4. /\ v = ahead[1]
      /\ Range(ahead) = {ahead[1]} \cup Range(Tail(ahead))
      /\ Tail(ahead \o next) \o more = Tail(ahead) \o (next \o more)
  <2>1. (ahead \o next)[1] = ahead[1]
    BY <1>3, FirstOfTwo
  <2>2. Range(ahead) = {ahead[1]} \cup Range(Tail(ahead))
    BY <1>3, FirstOfTwo
  <2>3. Tail(ahead \o next) \o more = Tail(ahead) \o (next \o more)
    BY <1>3, FirstOfTwo
  <2> QED
    BY <1>0, <2>1, <2>2, <2>3
<1>5. ahead[1] \in L[n].met /\ Tail(ahead) \in Seq(L[n].met)
  BY <1>0, HeadTailProperties
<1>6. Q \subseteq L[n].met /\ Range(Tail(ahead)) \cup Q = L[n].met
  BY <1>0, <1>1, <1>4, <1>5
<1>7. Range(next \o more) = LedFrom(Q, L[n].nearer)
  BY <1>0, <1>2, <1>3, RangeConcatenation
<1>8. next \o more \in Seq(LedFrom(Q, L[n].nearer))
  <2>1. next \o more \in Seq(S)
    BY <1>3
  <2> QED
    BY <1>7, <2>1, SeqOfRange
<1>9. visited \cup Strings({v}) = L[n].nearer \cup Strings(Q)
  BY <1>0, <1>1 DEF Strings
<1>10. LastMeant(with, LayersTo(L, n, Q), n)
  <2>1. PICK met, add : met = LayersTo(L, n, P) /\ add = LayersTo(L, n, Q)
    OBVIOUS
  <2>2. n \in Nat
    BY <1>0
  <2>3. \A k \in 0 .. n : add[k] = IF k = n THEN met[k] \cup {v} ELSE met[k]
    BY <1>1, <2>1 DEF LayersTo
  <2> QED
    BY <1>0, <2>1, <2>2, <2>3, MeantOneMore
<1>11. Tail(values) \o more = Tail(ahead) \o (next \o more)
  BY <1>0, <1>4
<1> QED
  BY <1>0, <1>1, <1>5, <1>6, <1>7, <1>8, <1>9, <1>10, <1>11 DEF At

\* When the queue is empty, no layer is left.
LEMMA AtLast ==
  ASSUME NEW start, NEW L, AreLayers(L, start), NEW n, NEW P, NEW ahead, NEW next,
         NEW visited, NEW found, At(L, n, P, ahead, next, <<>>, visited, found)
  PROVE  LastMeant(found, [k \in 0 .. MaxDepth |-> L[k].met], MaxDepth)
<1>0. /\ n \in 0 .. MaxDepth /\ MaxDepth \in Nat
      /\ ahead \in Seq(L[n].met) /\ Range(ahead) \cup P = L[n].met
      /\ next \in Seq(LedFrom(P, L[n].nearer)) /\ Range(next) = LedFrom(P, L[n].nearer)
      /\ <<>> = ahead \o next
      /\ LastMeant(found, LayersTo(L, n, P), n)
  BY ContextAssumption DEF At
<1>1. ahead = <<>> /\ next = <<>>
  <2>1. Len(ahead) \in Nat /\ Len(next) \in Nat /\ Len(ahead \o next) = Len(ahead) + Len(next)
    BY <1>0
  <2>2. Len(ahead) = 0 /\ Len(next) = 0
    <3>1. Len(<<>>) = 0
      OBVIOUS
    <3>2. Len(ahead) + Len(next) = 0
      BY <1>0, <2>1, <3>1
    <3> QED
      BY <2>1, <3>2
  <2> QED
    BY <1>0, <2>2
<1>2. P = L[n].met /\ LedFrom(L[n].met, L[n].nearer) = {}
  <2>1. Range(<<>>) = {}
    BY DEF Range
  <2> QED
    BY <1>0, <1>1, <2>1
<1>3. PICK H : H = {k \in 0 .. MaxDepth : k > n => L[k].met = {}}
  OBVIOUS
<1>4. 0 \in H
  BY <1>0, <1>3
<1>5. ASSUME NEW k \in 1 .. MaxDepth, k - 1 \in H
      PROVE  k \in H
  <2>1. L[k] = LayerAfter(L[k - 1])
    BY DEF AreLayers
  <2>2. L[k].met = LedFrom(L[k - 1].met, L[k - 1].nearer)
    BY <2>1 DEF LayerAfter, LedFrom
  <2>3. LedFrom({}, L[k - 1].nearer) = {}
    BY DEF LedFrom
  <2>4. k > n => k - 1 = n \/ k - 1 > n
    BY <1>0
  <2>5. k > n => L[k].met = {}
    BY <1>2, <1>3, <1>5, <2>2, <2>3, <2>4
  <2>6. k \in 0 .. MaxDepth
    OBVIOUS
  <2> QED
    BY <1>3, <2>5, <2>6
<1>6. 0 .. MaxDepth \subseteq H
  BY <1>0, <1>4, <1>5, UpTo
<1>7. PICK met, all : met = LayersTo(L, n, P) /\ all = [k \in 0 .. MaxDepth |-> L[k].met]
  OBVIOUS
<1>8. \A k \in 0 .. MaxDepth : all[k] = IF k <= n THEN met[k] ELSE {}
  <2> SUFFICES ASSUME NEW k \in 0 .. MaxDepth
               PROVE  all[k] = IF k <= n THEN met[k] ELSE {}
    OBVIOUS
  <2>1. all[k] = L[k].met
    BY <1>7
  <2>2. CASE k <= n
    <3>1. k \in 0 .. n
      BY <1>0, <2>2
    <3>2. met[k] = L[k].met
      BY <1>2, <1>7, <3>1 DEF LayersTo
    <3> QED
      BY <2>1, <2>2, <3>2
  <2>3. CASE ~ (k <= n)
    <3>1. k > n
      BY <1>0, <2>3
    <3> QED
      BY <1>3, <1>6, <2>1, <2>3, <3>1
  <2> QED
    BY <2>2, <2>3
<1>9. n \in Nat /\ n <= MaxDepth
  BY <1>0
<1> QED
  BY <1>0, <1>7, <1>8, <1>9, MeantUpTo

\* A value of another kind, or a string not visited, leads on.
LEMMA PutFresh ==
  ASSUME NEW v, NEW P, NEW nearer, Fresh(v, nearer),
         NEW more, more \in Seq(Range(more)), Range(more) = Leads(v)
  PROVE  Put(more, v, P, nearer)
BY DEF Put, LedFrom

\* A string visited leads nowhere: it was nearer, or is in its layer before.
LEMMA PutVisited ==
  ASSUME NEW v, v[1] = "string", NEW P, NEW nearer, v[2] \in nearer \cup Strings(P)
  PROVE  Put(<<>>, v, P, nearer)
<1>1. LedFrom(P \cup {v}, nearer) = LedFrom(P, nearer)
  <2>1. CASE v[2] \in nearer
    BY <2>1 DEF LedFrom, Fresh
  <2>2. CASE v[2] \in Strings(P)
    <3>1. PICK w \in P : w[1] = v[1] /\ w[2] = v[2]
      BY <2>2 DEF Strings
    <3>2. Leads(w) = Leads(v)
      BY <3>1, Zenon DEF Leads
    <3>3. Fresh(w, nearer) <=> Fresh(v, nearer)
      BY <3>1 DEF Fresh
    <3> QED
      BY <3>1, <3>2, <3>3 DEF LedFrom
  <2> QED
    BY <2>1, <2>2
<1>2. Range(<<>>) = {} /\ <<>> \in Seq({})
  BY DEF Range
<1> QED
  BY <1>1, <1>2 DEF Put

\* What holds while the loop goes on: the queue is what is left of a layer and
\* what those before led to, and what was found is what these mean.
ResolutionInv ==
  answer \in {"resolving", "resolved"} =>
    /\ \E context \in Local, link \in Link : asked = context \o link
    /\ \E n, P, ahead, next : At(Layers(asked), n, P, ahead, next, queue, visited_urls, terms)
    /\ answer = "resolved" => queue = <<>>

LEMMA ResolutionInvInit == ResolutionInit => ResolutionInv
BY DEF ResolutionInit, ResolutionInv

\* A round of the loop is at a value of a layer.
LEMMA RoundInv ==
  ASSUME ResolutionInv, answer = "resolving", queue # <<>>,
         UNCHANGED <<asked, answer>>, NEW v, v = queue[1], NEW more,
         queue' = Tail(queue) \o more,
         visited_urls' = visited_urls \cup Strings({v}),
         FoundWith(terms', terms, v),
         \A P, nearer : visited_urls = nearer \cup Strings(P) => Put(more, v, P, nearer)
  PROVE  ResolutionInv'
<1>1. PICK context \in Local, link \in Link : asked = context \o link
  BY DEF ResolutionInv
<1>2. PICK L : L = Layers(asked)
  OBVIOUS
<1>3. AreLayers(L, asked) /\ Good(L)
  BY <1>1, <1>2, LayersAre, AskedGood
<1>4. \E n, P, ahead, next : At(L, n, P, ahead, next, queue, visited_urls, terms)
  BY <1>2 DEF ResolutionInv
<1>5. PICK n, P, ahead, next : At(L, n, P, ahead, next, queue, visited_urls, terms) /\ ahead # <<>>
  BY <1>3, <1>4, AtFirst
<1>6. Put(more, v, P, L[n].nearer)
  BY <1>5 DEF At
<1>7. At(L, n, P \cup {v}, Tail(ahead), next \o more, queue', visited_urls', terms')
  BY <1>5, <1>6, AtStep
<1>8. L = Layers(asked') /\ asked' = context \o link /\ answer' = "resolving"
  BY <1>1, <1>2
<1> QED
  BY <1>7, <1>8, Zenon DEF ResolutionInv

\* A value not visited leads on, whichever layer it is in.
LEMMA PutNew ==
  ASSUME NEW v, NEW visited, v[1] = "string" => v[2] \notin visited,
         NEW more, more \in Seq(Range(more)), Range(more) = Leads(v)
  PROVE  \A P, nearer : visited = nearer \cup Strings(P) => Put(more, v, P, nearer)
<1> SUFFICES ASSUME NEW P, NEW nearer, visited = nearer \cup Strings(P)
             PROVE  Put(more, v, P, nearer)
  OBVIOUS
<1>1. Fresh(v, nearer)
  BY DEF Fresh
<1> QED
  BY <1>1, PutFresh

\* What is in the queue first holds lists.
LEMMA FirstGood ==
  ASSUME ResolutionInv, answer = "resolving", queue # <<>>, NEW v, v = queue[1]
  PROVE  /\ v[1] = "array" => v[2] \in Seq(Range(v[2]))
         /\ v[1] = "object" => v[2].context \in Seq(Range(v[2].context))
<1>1. PICK context \in Local, link \in Link : asked = context \o link
  BY DEF ResolutionInv
<1>2. PICK L : L = Layers(asked)
  OBVIOUS
<1>3. AreLayers(L, asked) /\ Good(L)
  BY <1>1, <1>2, LayersAre, AskedGood
<1>4. \E n, P, ahead, next : At(L, n, P, ahead, next, queue, visited_urls, terms)
  BY <1>2 DEF ResolutionInv
<1>5. PICK n, P, ahead, next : At(L, n, P, ahead, next, queue, visited_urls, terms) /\ ahead # <<>>
  BY <1>3, <1>4, AtFirst
<1>6. /\ n \in 0 .. MaxDepth /\ ahead \in Seq(L[n].met) /\ queue = ahead \o next
      /\ next \in Seq(LedFrom(P, L[n].nearer))
  BY <1>5 DEF At
<1>7. v = ahead[1]
  BY <1>5, <1>6
<1>8. v \in L[n].met
  BY <1>5, <1>6, <1>7
<1> QED
  BY <1>3, <1>6, <1>8 DEF Good

LEMMA ResolutionInvNext == ResolutionInv /\ [ResolutionNext]_resolutionVars => ResolutionInv'
<1> SUFFICES ASSUME ResolutionInv, [ResolutionNext]_resolutionVars
             PROVE  ResolutionInv'
  OBVIOUS
<1>1. ASSUME NEW context \in Local, NEW link \in Link, Ask(context, link)
      PROVE  ResolutionInv'
  <2>1. PICK start : start = context \o link
    OBVIOUS
  <2>2. /\ asked' = start /\ queue' = start /\ terms' = NoTerms
        /\ visited_urls' = {} /\ answer' = "resolving"
    BY <1>1, <2>1 DEF Ask
  <2>3. start \in Seq(Range(start))
    BY <2>1, AskedGood
  <2>4. At(Layers(start), 0, {}, start, <<>>, start, {}, NoTerms)
    BY <2>3, AtStart
  <2>5. At(Layers(asked'), 0, {}, start, <<>>, queue', visited_urls', terms')
    BY <2>2, <2>4
  <2> QED
    BY <2>1, <2>2, <2>5, Zenon DEF ResolutionInv
<1>2. PICK v : v = queue[1]
  OBVIOUS
<1>3. Range(<<>>) = {} /\ <<>> \in Seq({})
  BY DEF Range
<1>4. CASE Revisit
  <2>1. answer = "resolving" /\ queue # <<>> /\ v[1] = "string" /\ v[2] \in visited_urls
    BY <1>2, <1>4 DEF Revisit, Takes, Taken
  <2>2. /\ queue' = Tail(queue) \o <<>> /\ UNCHANGED <<asked, answer>>
        /\ terms' = terms /\ visited_urls' = visited_urls
    BY <1>4 DEF Revisit, Queued
  <2>3. visited_urls' = visited_urls \cup Strings({v}) /\ FoundWith(terms', terms, v)
    BY <2>1, <2>2 DEF Strings, FoundWith
  <2>4. \A P, nearer : visited_urls = nearer \cup Strings(P) => Put(<<>>, v, P, nearer)
    BY <2>1, PutVisited
  <2> QED
    BY <1>2, <2>1, <2>2, <2>3, <2>4, RoundInv
<1>5. CASE SkipName
  <2>1. answer = "resolving" /\ queue # <<>> /\ v[1] = "string" /\ v[2] \notin visited_urls \cup Url
    BY <1>2, <1>5 DEF SkipName, Takes, Taken
  <2>2. /\ queue' = Tail(queue) \o <<>> /\ UNCHANGED <<asked, answer>>
        /\ terms' = terms /\ visited_urls' = visited_urls \cup {v[2]}
    BY <1>2, <1>5 DEF SkipName, Queued, Taken
  <2>3. visited_urls' = visited_urls \cup Strings({v}) /\ FoundWith(terms', terms, v)
    BY <2>1, <2>2 DEF Strings, FoundWith
  <2>4. Leads(v) = {}
    BY <2>1 DEF Leads
  <2>5. \A P, nearer : visited_urls = nearer \cup Strings(P) => Put(<<>>, v, P, nearer)
    BY <1>3, <2>1, <2>4, PutNew
  <2> QED
    BY <1>2, <2>1, <2>2, <2>3, <2>5, RoundInv
<1>6. CASE Fetch
  <2>1. /\ answer = "resolving" /\ queue # <<>> /\ v[1] = "string"
        /\ v[2] \notin visited_urls /\ v[2] \in Url
    BY <1>2, <1>6 DEF Fetch, Takes, Taken
  <2>2. PICK more : more = <<Served[v[2]]>>
    OBVIOUS
  <2>3. /\ queue' = Tail(queue) \o more /\ UNCHANGED <<asked, answer>>
        /\ terms' = terms /\ visited_urls' = visited_urls \cup {v[2]}
    BY <1>2, <1>6, <2>2 DEF Fetch, Queued, Taken
  <2>4. visited_urls' = visited_urls \cup Strings({v}) /\ FoundWith(terms', terms, v)
    BY <2>1, <2>3 DEF Strings, FoundWith
  <2>5. Leads(v) = {Served[v[2]]}
    BY <2>1 DEF Leads
  <2>6. Range(more) = {Served[v[2]]}
    BY <2>2 DEF Range
  <2>7. more \in Seq({Served[v[2]]})
    BY <2>2
  <2>8. \A P, nearer : visited_urls = nearer \cup Strings(P) => Put(more, v, P, nearer)
    BY <2>1, <2>5, <2>6, <2>7, PutNew
  <2> QED
    BY <1>2, <2>1, <2>3, <2>4, <2>8, RoundInv
<1>7. CASE FetchFails
  BY <1>7 DEF FetchFails, ResolutionInv
<1>8. CASE Spread
  <2>1. answer = "resolving" /\ queue # <<>> /\ v[1] = "array"
    BY <1>2, <1>8 DEF Spread, Takes
  <2>2. PICK more : more = v[2]
    OBVIOUS
  <2>3. /\ queue' = Tail(queue) \o more /\ UNCHANGED <<asked, answer>>
        /\ terms' = terms /\ visited_urls' = visited_urls
    BY <1>2, <1>8, <2>2 DEF Spread, Queued, Taken
  <2>4. visited_urls' = visited_urls \cup Strings({v}) /\ FoundWith(terms', terms, v)
    BY <2>1, <2>3 DEF Strings, FoundWith
  <2>5. more \in Seq(Range(more)) /\ Range(more) = Leads(v) /\ v[1] # "string"
    BY <1>2, <2>1, <2>2, FirstGood DEF Leads
  <2>6. \A P, nearer : visited_urls = nearer \cup Strings(P) => Put(more, v, P, nearer)
    BY <2>5, PutNew
  <2> QED
    BY <1>2, <2>1, <2>3, <2>4, <2>6, RoundInv
<1>9. CASE Define
  <2>1. answer = "resolving" /\ queue # <<>> /\ v[1] = "object"
    BY <1>2, <1>9 DEF Define, Takes
  <2>2. PICK more : more = v[2].context
    OBVIOUS
  <2>3. /\ queue' = Tail(queue) \o more /\ UNCHANGED <<asked, answer>>
        /\ terms' = Inserted(terms, v[2]) /\ visited_urls' = visited_urls
    BY <1>2, <1>9, <2>2 DEF Define, Queued, Taken
  <2>4. visited_urls' = visited_urls \cup Strings({v}) /\ FoundWith(terms', terms, v)
    BY <2>1, <2>3 DEF Strings, FoundWith
  <2>5. more \in Seq(Range(more)) /\ Range(more) = Leads(v) /\ v[1] # "string"
    BY <1>2, <2>1, <2>2, FirstGood DEF Leads
  <2>6. \A P, nearer : visited_urls = nearer \cup Strings(P) => Put(more, v, P, nearer)
    BY <2>5, PutNew
  <2> QED
    BY <1>2, <2>1, <2>3, <2>4, <2>6, RoundInv
<1>10. CASE Ignore
  <2>1. answer = "resolving" /\ queue # <<>> /\ v[1] = "other"
    BY <1>2, <1>10 DEF Ignore, Takes
  <2>2. /\ queue' = Tail(queue) \o <<>> /\ UNCHANGED <<asked, answer>>
        /\ terms' = terms /\ visited_urls' = visited_urls
    BY <1>10 DEF Ignore, Queued
  <2>3. visited_urls' = visited_urls \cup Strings({v}) /\ FoundWith(terms', terms, v)
    BY <2>1, <2>2 DEF Strings, FoundWith
  <2>4. Leads(v) = {} /\ v[1] # "string"
    BY <2>1 DEF Leads
  <2>5. \A P, nearer : visited_urls = nearer \cup Strings(P) => Put(<<>>, v, P, nearer)
    BY <1>3, <2>4, PutNew
  <2> QED
    BY <1>2, <2>1, <2>2, <2>3, <2>5, RoundInv
<1>11. CASE Finish
  <2>1. /\ answer = "resolving" /\ queue = <<>>
        /\ answer' = "resolved" /\ UNCHANGED <<asked, queue, terms, visited_urls>>
    BY <1>11 DEF Finish
  <2>2. PICK context \in Local, link \in Link : asked = context \o link
    BY <2>1 DEF ResolutionInv
  <2>3. PICK n, P, ahead, next : At(Layers(asked), n, P, ahead, next, queue, visited_urls, terms)
    BY <2>1 DEF ResolutionInv
  <2>4. At(Layers(asked'), n, P, ahead, next, queue', visited_urls', terms')
    BY <2>1, <2>3
  <2>5. asked' = context \o link /\ queue' = <<>>
    BY <2>1, <2>2
  <2> QED
    BY <2>4, <2>5, Zenon DEF ResolutionInv
<1>12. CASE UNCHANGED resolutionVars
  BY <1>12 DEF resolutionVars, ResolutionInv
<1> QED
  BY <1>1, <1>4, <1>5, <1>6, <1>7, <1>8, <1>9, <1>10, <1>11, <1>12 DEF ResolutionNext, Resolve

\* When the loop ends, no layer is left.
LEMMA TermsFound == ResolutionInv => TermsOfAllContexts
<1> SUFFICES ASSUME ResolutionInv, answer = "resolved"
             PROVE  LastMeant(terms, [k \in 0 .. MaxDepth |-> Layers(asked)[k].met], MaxDepth)
  BY DEF TermsOfAllContexts
<1>1. PICK L : L = Layers(asked)
  OBVIOUS
<1>2. AreLayers(L, asked)
  BY <1>1, LayersAre
<1>3. PICK n, P, ahead, next : At(L, n, P, ahead, next, <<>>, visited_urls, terms)
  BY <1>1 DEF ResolutionInv
<1>4. LastMeant(terms, [k \in 0 .. MaxDepth |-> L[k].met], MaxDepth)
  BY <1>2, <1>3, AtLast
<1> QED
  BY <1>1, <1>4

\* A document has exactly the terms that some context it refers to defines, and
\* each means what the most distant of these says (resolve_document_terms and
\* collect_context_terms), whatever the servers hold and however their contexts
\* refer to each other and to themselves.
THEOREM TermsComplete == ResolutionSpec => []TermsOfAllContexts
<1>1. ResolutionInit => ResolutionInv
  BY ResolutionInvInit
<1>2. ResolutionInv /\ [ResolutionNext]_resolutionVars => ResolutionInv'
  BY ResolutionInvNext
<1>3. ResolutionInv => TermsOfAllContexts
  BY TermsFound
<1> QED
  BY <1>1, <1>2, <1>3, PTL DEF ResolutionSpec
===============================================================================
