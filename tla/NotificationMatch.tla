--------------------------- MODULE NotificationMatch ---------------------------
(***************************************************************************)
(* Which subscriptions hear of a change of an entity                       *)
(* (src/src/services/notifications.rs and the handlers of                  *)
(* src/src/services/entities.rs).                                          *)
(*                                                                         *)
(* A handler changes the stored document, says what it did in an event     *)
(* (created, updated or deleted, and the names of the attributes), records *)
(* the document in pending_local and matches the event against the         *)
(* subscriptions.  The snapshot watcher compares the document with that of *)
(* its last poll, makes an event of the difference, and matches it unless  *)
(* pending_local holds the document.  A quiet write is one of another      *)
(* broker whose row of the mutation log is late or lost: only the watcher  *)
(* tells of it.                                                            *)
(*                                                                         *)
(* One entity is followed, Other is what else the tenant holds.  A handler *)
(* is one step here: what comes between its calls is the business of       *)
(* EntityWatch and EntityStore.  A field a subscription may lack is a      *)
(* sequence of none or one.                                                *)
(***************************************************************************)
EXTENDS QueryLanguage, TLC

CONSTANTS Id,           \* the id of the entity
          Payload,      \* documents posted to create or replace it
          Fragment,     \* payloads posted to change attributes of it
          Patch,        \* merge patches of it
          Value,        \* values posted for one attribute
          Subscription, \* the subscriptions of the tenant
          Other,        \* id -> document of the other entities of the tenant
          MaxWrites     \* bound of the writes

Null == <<"null">>
Absent == Null            \* no document
NoEntry == <<"no entry">> \* nothing recorded in pending_local
NoEvent == [kind |-> "none"]

VARIABLES
  doc,      \* the stored document
  previous, \* the document of the watcher's last poll
  pending,  \* the entry of pending_local
  event,    \* what the last step matched against the subscriptions, if it did
  last,     \* what the last step was, "replace" for those that replace
  writes,   \* writes so far: the clock of modifiedAt
  quiet     \* the writes since the last poll were one, a quiet one

vars == <<doc, previous, pending, event, last, writes, quiet>>

Init ==
  /\ doc = Absent /\ previous = Absent /\ pending = NoEntry
  /\ event = NoEvent /\ last = "start" /\ writes = 0 /\ quiet = FALSE
-------------------------------------------------------------------------------
reserved_member == {"id", "type", "scope", "@context", "createdAt", "modifiedAt", "deletedAt"}

Members(v) == IF v[1] = "obj" THEN DOMAIN v[2] ELSE {}

\* entity_attribute_names and the keys of editable_fragment_members.
Attributes(v) == Members(v) \ reserved_member

\* The document with the members of `over' put over its own.
Put(v, over) ==
  <<"obj", [k \in DOMAIN v[2] \cup DOMAIN over |-> IF k \in DOMAIN over THEN over[k] ELSE v[2][k]]>>

Without(v, keys) == <<"obj", [k \in DOMAIN v[2] \ keys |-> v[2][k]]>>

Only(v, keys) == [k \in keys |-> v[2][k]]

RECURSIVE apply_merge_patch(_, _)
apply_merge_patch(target, patch) ==
  LET base    == IF target[1] = "obj" THEN target ELSE <<"obj", <<>>>>
      removed == {k \in Members(patch) : patch[2][k] = Null}
      Old(k)  == IF k \in Members(base) THEN base[2][k] ELSE Null
  IN  IF patch[1] # "obj" THEN patch
      ELSE Without(Put(base, [k \in Members(patch) \ removed |->
                                apply_merge_patch(Old(k), patch[2][k])]), removed)

Stamped(v) == Put(v, [modifiedAt |-> <<"num", writes + 1>>])
-------------------------------------------------------------------------------
\* event_triggers.
event_triggers(kind) ==
  CASE kind = "Created" -> {"entityCreated", "attributeCreated"}
    [] kind = "Updated" -> {"entityUpdated", "attributeUpdated", "attributeCreated"}
    [] kind = "Deleted" -> {"entityDeleted", "attributeDeleted"}

\* All entities of the tenant, and that of the event if it is not among them.
entity_graph(stored, entity) ==
  Other @@ (IF stored # Absent THEN Id :> stored ELSE Id :> entity)

\* What q and scopeQ are parsed to, at every event again.
Asked(s) == parse_q_expression(s.q)
Scoped(s) == parse_scope_expression(s.scopeQ)

\* Read once for all subscriptions if the q of one of them follows links.
subscription_uses_linked_graph(e) == e # Bad /\ q_expression_uses_linked_entity(e)

\* Mutant of linked_entities: the graph is read only if every subscription needs it.
linked_entities_for_all(stored, entity) ==
  IF \A s \in Subscription : subscription_uses_linked_graph(Asked(s))
  THEN entity_graph(stored, entity) ELSE <<>>

linked_entities(stored, entity) ==
  IF \E s \in Subscription : subscription_uses_linked_graph(Asked(s))
  THEN entity_graph(stored, entity) ELSE <<>>

Queried(e, entity, graph) ==
  /\ e # Bad
  /\ q_expression_matches_value(e, entity,
       [expand |-> {}, keys |-> {}, terms |-> <<>>, linked |-> graph])

InScope(e, entity) == e # Bad /\ scope_expression_matches(e, extract_scope_values(entity))

\* The filters that look at the document alone.
Selects(s, entity, graph) ==
  /\ s.isActive
  /\ \A selectors \in ToSet(s.entities) : \E selector \in selectors :
       /\ \A id \in ToSet(selector.id) : id = Id
       /\ \A pattern \in ToSet(selector.idPattern) : Id \in Matched[pattern]
       /\ \A type \in ToSet(selector.type) :
            entity_type_matches(Member(entity, "type"), {type})
  /\ Queried(Asked(s), entity, graph)
  /\ InScope(Scoped(s), entity)

Triggers(s) ==
  IF s.notificationTrigger = <<>> THEN {"attributeCreated", "attributeUpdated"}
  ELSE s.notificationTrigger[1]

\* subscription_matches_event.
subscription_matches_event(s, e, graph) ==
  /\ \A watched \in ToSet(s.watchedAttributes) : watched \cap e.names # {}
  /\ Triggers(s) \cap event_triggers(e.kind) # {}
  /\ Selects(s, e.entity, graph)

\* The subscriptions an event is posted to, while `stored' is what is stored.
Told(e, stored) ==
  LET graph == linked_entities(stored, e.entity)
  IN  {s \in Subscription : e # NoEvent /\ subscription_matches_event(s, e, graph)}

Event(kind, entity, names) == [kind |-> kind, entity |-> entity, names |-> names]
-------------------------------------------------------------------------------
\* A write leaves `after'.  Here the handler tells and records it; elsewhere
\* it only changes the document.
Write(by, after, kind, names) ==
  /\ writes < MaxWrites
  /\ writes' = writes + 1
  /\ doc' = after
  /\ \/ /\ event' = Event(kind, IF after = Absent THEN doc ELSE after, names)
        /\ pending' = after
        /\ last' = by
        /\ quiet' = FALSE
     \/ /\ event' = NoEvent
        /\ last' = "quiet"
        /\ quiet' = (doc = previous)
        /\ UNCHANGED pending
  /\ UNCHANGED previous

\* A write that changed no attribute is stored, and neither told nor recorded.
WriteUntold ==
  /\ writes < MaxWrites
  /\ writes' = writes + 1
  /\ doc' = Stamped(doc)
  /\ event' = NoEvent /\ last' = "untold" /\ quiet' = FALSE
  /\ UNCHANGED <<previous, pending>>

create ==
  /\ doc = Absent
  /\ \E entity \in Payload :
       Write("create", Stamped(entity), "Created", Attributes(entity))

\* Also one item of batch_delete.
delete ==
  /\ doc # Absent
  /\ Write("delete", Absent, "Deleted", Attributes(doc))

\* Mutant of PatchNames: the attributes of the result, not of the patch.
PatchNamesLeft(patch, after) == Attributes(patch) \cap Attributes(after)

PatchNames(patch, after) == Attributes(patch)

\* Also one item of batch_merge.
merge ==
  /\ doc # Absent
  /\ \E patch \in Patch :
       LET after == Stamped(Put(apply_merge_patch(doc, patch), [id |-> <<"str", Id>>]))
       IN  Write("merge", after, "Updated", PatchNames(patch, after))

\* createdAt is kept, which no document here carries.
replace ==
  /\ doc # Absent
  /\ \E entity \in Payload :
       Write("replace", Stamped(entity), "Updated", Attributes(entity))

\* The attributes in names take their values from the fragment.
Edit(by, fragment, names) ==
  /\ doc # Absent
  /\ IF names = {} THEN WriteUntold
     ELSE Write(by, Stamped(Put(doc, Only(fragment, names))), "Updated", names)

\* Also one item of batch_update, which reports no conflicts.
append_attrs ==
  \E fragment \in Fragment, no_overwrite \in BOOLEAN :
    Edit("append_attrs", fragment,
         IF no_overwrite THEN Attributes(fragment) \ Members(doc) ELSE Attributes(fragment))

update_attrs ==
  \E fragment \in Fragment :
    Edit("update_attrs", fragment, Attributes(fragment) \cap Members(doc))

\* ensure_attribute_exists asks for a member, which may be a reserved one.
patch_attr ==
  \E attr \in Members(doc) \ {"id", "type", "modifiedAt"}, patch \in Value :
    Write("patch_attr", Stamped(Put(doc, attr :> apply_merge_patch(doc[2][attr], patch))),
          "Updated", {attr})

delete_attr ==
  \E attr \in Members(doc) \ {"id", "type", "modifiedAt"} :
    Write("delete_attr", Stamped(Without(doc, {attr})), "Updated", {attr})

replace_attr ==
  \E attr \in Members(doc) \ {"id", "type", "modifiedAt"}, value \in Value :
    Write("replace_attr", Stamped(Put(doc, attr :> value)), "Updated", {attr})

\* One item of batch_upsert that is there already: update mode merges it, the
\* other replaces it.  One that is not there is created.
batch_upsert ==
  /\ doc # Absent
  /\ \E entity \in Payload :
       \/ Write("merge", Stamped(apply_merge_patch(doc, entity)), "Updated", Attributes(entity))
       \/ Write("replace", Stamped(entity), "Updated", Attributes(entity))
-------------------------------------------------------------------------------
\* Mutant of diff_attributes: attributes that are gone are not looked for.
diff_attributes_current(before, after) ==
  {k \in Attributes(after) : Member(before, k) # Member(after, k)}

diff_attributes(before, after) ==
  {k \in Attributes(before) \cup Attributes(after) : Member(before, k) # Member(after, k)}

\* The event the watcher makes of what it finds.
SnapEvent ==
  CASE previous = Absent -> Event("Created", doc, Attributes(doc))
    [] previous # Absent /\ doc # Absent -> Event("Updated", doc, diff_attributes(previous, doc))
    [] OTHER -> Event("Deleted", previous, Attributes(previous))

\* One poll.  If the document is not the one of the last poll there is an
\* event; an entry of pending_local that equals the document silences it, and
\* is used up.
Poll ==
  LET silent == doc # previous /\ pending = doc
  IN  /\ previous' = doc
      /\ pending' = IF silent THEN NoEntry ELSE pending
      /\ event' = IF doc = previous \/ silent THEN NoEvent ELSE SnapEvent
      /\ last' = "poll" /\ quiet' = FALSE
      /\ UNCHANGED <<doc, writes>>

Next ==
  \/ create \/ delete \/ merge \/ replace \/ append_attrs \/ update_attrs
  \/ patch_attr \/ delete_attr \/ replace_attr \/ batch_upsert \/ Poll

Spec == Init /\ [][Next]_vars
-------------------------------------------------------------------------------
\* What a change is, whatever an event says of it.
Fired(before, after) ==
  LET Both == Attributes(before) \cap Attributes(after)
  IN  {t \in {"entityCreated", "entityUpdated", "entityDeleted",
              "attributeCreated", "attributeUpdated", "attributeDeleted"} :
         CASE t = "entityCreated" -> before = Absent
           [] t = "entityUpdated" -> before # Absent /\ after # Absent
           [] t = "entityDeleted" -> after = Absent
           [] t = "attributeCreated" -> Attributes(after) \ Attributes(before) # {}
           [] t = "attributeUpdated" -> \E k \in Both : Member(before, k) # Member(after, k)
           [] t = "attributeDeleted" -> after = Absent /\ Attributes(before) # {}}

\* A subscription a change concerns: the document is one of those it selects,
\* an attribute it watches differs, and it asked to hear of such a change.
Concerned(s, before, after, changed) ==
  LET entity == IF after = Absent THEN before ELSE after
  IN  /\ \A watched \in ToSet(s.watchedAttributes) : watched \cap changed # {}
      /\ Triggers(s) \cap Fired(before, after) # {}
      /\ Selects(s, entity, entity_graph(after, entity))

Changed(before, after) ==
  {k \in Attributes(before) \cup Attributes(after) : Member(before, k) # Member(after, k)}

\* Every write a handler tells of reaches each subscription that the change of
\* the document concerns, whatever names the handler put into its event and
\* whatever the other subscriptions are.  Replacing a document is excepted for
\* the attributes it drops, which its event does not name.
WritesHeard ==
  [][last' \notin {"quiet", "untold", "poll"} =>
       LET dropped == IF last' = "replace" THEN Attributes(doc) \ Attributes(doc') ELSE {}
       IN  \A s \in Subscription \ Told(event', doc') :
             ~ Concerned(s, doc, doc', Changed(doc, doc') \ dropped)]_vars

\* A quiet write that no other follows before the next poll is told by that
\* poll to each subscription it concerns, unless it deleted the entity and an
\* older deletion is still recorded.
QuietWritesHeard ==
  [][last' = "poll" /\ quiet /\ (doc = Absent => pending # Absent) =>
       \A s \in Subscription \ Told(event', doc') :
         ~ Concerned(s, previous, doc, Changed(previous, doc))]_vars
===============================================================================
