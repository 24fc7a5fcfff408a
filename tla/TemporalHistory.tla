--------------------------- MODULE TemporalHistory ---------------------------
(***************************************************************************)
(* The instances of a temporal entity and what is read of them             *)
(* (src/src/services/temporal.rs).                                         *)
(*                                                                         *)
(* One entity is followed.  Its snapshot, doc, has the value last posted   *)
(* of each attribute, its history a record of each value, in the order     *)
(* they were posted.  A service that writes is one step here: what comes   *)
(* between its two calls of the repository is the business of EntityStore. *)
(* A service that reads makes one call, and is an operator of what that    *)
(* call returned.                                                          *)
(*                                                                         *)
(* A value is a function from the members it has.  A member that may be    *)
(* missing is a set of none or one where it is read, and a sequence of     *)
(* none or one in a request.  Reserved members of documents are left out.  *)
(***************************************************************************)
EXTENDS Integers, Sequences, FiniteSets, SequencesExt, FiniteSetsExt, Retention

CONSTANTS Fragment,   \* attributes posted together: functions from names to values
          Change,     \* what an instance is patched with: a function from members
          Filter,     \* the windows that are asked for
          MaxChanges  \* bound of the writes between creation and deletion

Unparsable == -1 \* a text that is no date

Times == {"observedAt", "createdAt", "modifiedAt", "deletedAt"}

\* What a request may be, with times as integers, and as its value a number
\* from 0 or, below that, something that is none.
ASSUME HistoryAssumption ==
  /\ \A fragment \in Fragment :
       /\ IsFiniteSet(DOMAIN fragment)
       /\ \A attr \in DOMAIN fragment : \A member \in Times \cup {"value"} :
            member \in DOMAIN fragment[attr] => fragment[attr][member] \in Int
  /\ \A change \in Change : "value" \in DOMAIN change => change.value \in Int
  /\ Filter \subseteq [property : STRING, rel : Seq(STRING), at : Seq(Int), end : Seq(Int),
                       lastN : Seq(Nat)]
  /\ MaxChanges \in Nat

VARIABLES entity,  \* the stored TemporalEntityDocument
          changes  \* writes since the creation, which tell generated ids apart

vars == <<entity, changes>>

NoEntity == [doc |-> <<>>, history |-> <<>>, stored |-> FALSE]

Init == entity = NoEntity /\ changes = 0
-------------------------------------------------------------------------------
Present(value, key) == IF key \in DOMAIN value THEN {value[key]} ELSE {}

\* make_temporal_instance and record_from_value: the times are copied out of
\* the value, and an id is generated if the value has none.
record_from_value(attr, value) ==
  [attr  |-> attr,
   id    |-> IF "instanceId" \in DOMAIN value THEN value.instanceId ELSE <<attr, changes>>,
   at    |-> [property \in Times |-> Present(value, property)],
   value |-> value]

\* temporal_history_from_entity, for the members in any one order.
temporal_history_from_entity(fragment) ==
  LET names == SetToSeq(DOMAIN fragment)
  IN  [k \in DOMAIN names |-> record_from_value(names[k], fragment[names[k]])]

Over(doc, fragment) ==
  [k \in DOMAIN doc \cup DOMAIN fragment |->
     IF k \in DOMAIN fragment THEN fragment[k] ELSE doc[k]]

Stored(doc, history) ==
  /\ changes < MaxChanges
  /\ changes' = changes + 1
  /\ entity' = [doc |-> doc, history |-> history, stored |-> TRUE]

\* Also of an entity that is there: what it had recorded is given up.
upsert ==
  \E fragment \in Fragment : Stored(fragment, temporal_history_from_entity(fragment))

append_attrs ==
  /\ entity.stored
  /\ \E fragment \in Fragment :
       Stored(Over(entity.doc, fragment),
              entity.history \o temporal_history_from_entity(fragment))

\* Mutant of delete_attr: the history is forgotten.
delete_attr_snapshot ==
  /\ entity.stored
  /\ \E attr \in UNION {DOMAIN fragment : fragment \in Fragment} :
       Stored([k \in DOMAIN entity.doc \ {attr} |-> entity.doc[k]], entity.history)

\* An attribute the entity does not have is deleted just as well.
delete_attr ==
  /\ entity.stored
  /\ \E attr \in UNION {DOMAIN fragment : fragment \in Fragment} :
       Stored([k \in DOMAIN entity.doc \ {attr} |-> entity.doc[k]],
              Only(entity.history, LAMBDA record : record.attr # attr))

Named(record, attr, id) == record.attr = attr /\ record.id = id

\* The value is patched, and the time of the patch recorded; the times and the
\* id that were copied out of the value when it was posted stay.
Patched(record, change) ==
  [record EXCEPT !.value = Over(@, change), !.at.modifiedAt = {changes + 1}]

\* Requests name an instance; those that name none change nothing.
patch_instance ==
  /\ entity.stored
  /\ \E named \in ToSet(entity.history), change \in Change :
       Stored(entity.doc,
              [k \in DOMAIN entity.history |->
                 LET record == entity.history[k]
                 IN  IF Named(record, named.attr, named.id) THEN Patched(record, change) ELSE record])

\* The snapshot keeps the value.
delete_instance ==
  /\ entity.stored
  /\ \E named \in ToSet(entity.history) :
       Stored(entity.doc,
              Only(entity.history, LAMBDA record : ~ Named(record, named.attr, named.id)))

delete_entity ==
  /\ entity.stored
  /\ entity' = NoEntity /\ changes' = 0

Next ==
  \/ upsert \/ append_attrs \/ delete_attr \/ patch_instance \/ delete_instance \/ delete_entity

Spec == Init /\ [][Next]_vars
-------------------------------------------------------------------------------
\* TemporalFilter::from_query: what a window must have.
Accepted(f) == f.rel # <<>> /\ f.at # <<>> /\ (f.rel = <<"between">> => f.end # <<>>)

Instants(times) == times \ {Unparsable}

\* The time property asked for; observedAt, and createdAt in its place.
temporal_record_time(record, property) ==
  Instants(IF property \in Times \ {"observedAt"} THEN record.at[property]
           ELSE IF record.at.observedAt # {} THEN record.at.observedAt
           ELSE record.at.createdAt)

\* Mutant of temporal_matches: the bound belongs to what comes after it, too.
temporal_matches_from(record, f) ==
  \E time \in temporal_record_time(record, f.property), low \in Instants(ToSet(f.at)) :
    CASE f.rel = <<"before">> -> time < low
      [] f.rel = <<"after">> -> time >= low
      [] f.rel = <<"between">> -> \E high \in Instants(ToSet(f.end)) : low <= time /\ time <= high
      [] OTHER -> FALSE

temporal_matches(record, f) ==
  \E time \in temporal_record_time(record, f.property), low \in Instants(ToSet(f.at)) :
    CASE f.rel = <<"before">> -> time < low
      [] f.rel = <<"after">> -> time > low
      [] f.rel = <<"between">> -> \E high \in Instants(ToSet(f.end)) : low <= time /\ time <= high
      [] OTHER -> FALSE

\* A stable sort, the newest first.
NewestFirst(records, property) ==
  LET time(k) == CHOOSE t \in temporal_record_time(records[k], property) : TRUE
  IN  Arranged(records, [k \in DOMAIN records |->
        {j \in DOMAIN records : time(j) > time(k) \/ (time(j) = time(k) /\ j <= k)}])

\* Mutant of select_temporal_history: the history is cut before it is sorted.
select_cut_first(history, f) ==
  LET matching == Only(history, LAMBDA record : temporal_matches(record, f))
      Cut(n)   == SubSeq(matching, 1, Min({n, Len(matching)}))
  IN  IF f.lastN = <<>> THEN matching ELSE NewestFirst(Cut(f.lastN[1]), f.property)

\* lastN cuts the selection as a whole, whatever attributes it is of.
select_temporal_history(history, f) ==
  LET matching == Only(history, LAMBDA record : temporal_matches(record, f))
      Cut(n)   == SubSeq(NewestFirst(matching, f.property), 1, Min({n, Len(matching)}))
  IN  IF f.lastN = <<>> THEN matching ELSE Cut(f.lastN[1])

Of(records, attr) == Only(records, LAMBDA record : record.attr = attr)

\* aggregate_temporal_history: the numbers among the values of an attribute.
\* avg is sum over totalCount, and distinctCount is totalCount.
aggregate(records) ==
  LET Numbers(attr) ==
        Only(Of(records, attr), LAMBDA record : \E v \in Present(record.value, "value") : v >= 0)
  IN  [attr \in {attr \in {record.attr : record \in ToSet(records)} : Numbers(attr) # <<>>} |->
         [sum        |-> SumOf([k \in DOMAIN Numbers(attr) |-> Numbers(attr)[k].value.value]),
          totalCount |-> Len(Numbers(attr)),
          min        |-> Min({record.value.value : record \in ToSet(Numbers(attr))}),
          max        |-> Max({record.value.value : record \in ToSet(Numbers(attr))})]]

\* temporal_entity_to_response: attrs, pick and omit leave `kept' of the
\* snapshot; instances are added whatever attribute they are of.
temporal_entity_to_response(kept, records, aggregated) ==
  LET shown == IF aggregated THEN DOMAIN aggregate(records)
               ELSE {record.attr : record \in ToSet(records)}
  IN  [attr \in (DOMAIN entity.doc \cap kept) \cup shown |->
         CASE attr \notin shown -> <<"snapshot", entity.doc[attr]>>
           [] attr \in shown /\ aggregated -> <<"aggregated", aggregate(records)[attr]>>
           [] OTHER -> <<"instances", Of(records, attr)>>]

\* get, get_attrs and what query returns of an entity it selects.
get(f, kept, aggregated) ==
  temporal_entity_to_response(kept, select_temporal_history(entity.history, f), aggregated)

\* Mutant of get_attr_instance: the attribute is not looked at.
get_instance_by_id(f, attr, id) ==
  LET found == Only(select_temporal_history(entity.history, f), LAMBDA record : record.id = id)
  IN  IF found = <<>> THEN {} ELSE {Head(found)}

\* The first that is found, or none.
get_attr_instance(f, attr, id) ==
  LET found == Only(select_temporal_history(entity.history, f),
                         LAMBDA record : Named(record, attr, id))
  IN  IF found = <<>> THEN {} ELSE {Head(found)}
-------------------------------------------------------------------------------
\* What an entity has recorded is of attributes its snapshot has: whatever the
\* services are called in, an attribute that is deleted takes its instances
\* with it, and one that is in the history can be asked for by q.
SnapshotCovers == {record.attr : record \in ToSet(entity.history)} \subseteq DOMAIN entity.doc

\* lastN returns the newest of the instances in the window, as many of them as
\* it says and there are: none that is left out is newer than one returned,
\* in whatever order they were posted.
NewestSelected ==
  \A f \in Filter : Accepted(f) /\ f.lastN # <<>> =>
    LET selected == select_temporal_history(entity.history, f)
        window   == select_temporal_history(entity.history, [f EXCEPT !.lastN = <<>>])
        Time(record) == temporal_record_time(record, f.property)
        Newer(t, u)  == \E x \in t, y \in u : x > y
    IN  /\ Len(selected) = Min({f.lastN[1], Len(window)})
        /\ ToSet(selected) \subseteq ToSet(window)
        /\ \A record \in ToSet(window) \ ToSet(selected), taken \in ToSet(selected) :
             ~ Newer(Time(record), Time(taken))
        /\ \A j, k \in DOMAIN selected :
             j < k => ~ Newer(Time(selected[k]), Time(selected[j]))

\* Time is split without overlap or gap: the aggregates of what came before an
\* instant, at it, and after it add up to those of all instances with a time.
PartsAddUp ==
  \A property \in Times, instant \in (UNION {ToSet(f.at) : f \in Filter}) \ {Unparsable} :
    LET Part(rel) == select_temporal_history(entity.history,
                       [rel |-> <<rel>>, property |-> property, at |-> <<instant>>,
                        end |-> <<instant>>, lastN |-> <<>>])
        dated == Only(entity.history, LAMBDA record : temporal_record_time(record, property) # {})
        Total(records, attr, method) ==
          IF attr \in DOMAIN aggregate(records) THEN aggregate(records)[attr][method] ELSE 0
    IN  \A attr \in DOMAIN entity.doc, method \in {"sum", "totalCount"} :
          Total(dated, attr, method) =
            Total(Part("before"), attr, method) + Total(Part("between"), attr, method)
              + Total(Part("after"), attr, method)

\* An instance that an answer shows is the one its id fetches, unless the
\* client gave that id to two instances of the attribute: such a pair, which a
\* repeated request leaves, is patched and deleted as one, and only the first
\* of it can be fetched.
ShownIsFetched ==
  \A f \in Filter : Accepted(f) =>
    LET answer == get(f, DOMAIN entity.doc, FALSE)
    IN  \A attr \in {attr \in DOMAIN answer : answer[attr][1] = "instances"} :
          \A record \in ToSet(answer[attr][2]) :
            \/ get_attr_instance(f, attr, record.id) = {record}
            \/ Cardinality({k \in DOMAIN entity.history :
                              Named(entity.history[k], attr, record.id)}) > 1
===============================================================================
