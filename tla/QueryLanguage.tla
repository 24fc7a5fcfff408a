---------------------------- MODULE QueryLanguage ----------------------------
(***************************************************************************)
(* What parsed q and scopeQ expressions hold of                            *)
(* (src/src/query/language.rs, the evaluators).                            *)
(*                                                                         *)
(* The code passes vectors of nodes and values from one function to the    *)
(* next and only ever asks whether some or all of them match: they are     *)
(* sets here.  options is a record of                                      *)
(*   expand   expand_values, attributes whose values context_terms expand, *)
(*   keys     json_keys,                                                   *)
(*   terms    context_terms, a function from texts to texts,               *)
(*   linked   linked_entities, a function from ids to documents.           *)
(***************************************************************************)
EXTENDS QuerySyntax

CONSTANTS ScalarOf, \* ScalarOf[text]: <<kind, place>>, what text is compared as
          Matched   \* Matched[pattern]: the texts a regular expression matches

ASSUME RegexAssumption == Regexes \subseteq DOMAIN Matched

Str(token) == <<"str", <<token>>>>

\* The member of a JSON object with that key, as a set of none or one.
Member(v, key) == IF v[1] = "obj" /\ key \in DOMAIN v[2] THEN {v[2][key]} ELSE {}

\* The items of an array, or the value alone.
Items(v) == IF v[1] = "arr" THEN ToSet(v[2]) ELSE {v}

Walk(nodes, key) == UNION {UNION {Member(item, key) : item \in Items(v)} : v \in nodes}

\* resolve_path_nodes and traverse_member_path.
PathNodes(root, path) == FoldLeft(Walk, {root}, path)

\* An attribute with several instances is an array of typed objects.
expand_attribute_instances(v) ==
  IF v[1] = "arr" /\ \A item \in Items(v) : Member(item, "type") # {} THEN Items(v) ELSE {v}

Kinds == {"Property", "GeoProperty", "Relationship", "ListRelationship",
          "LanguageProperty", "VocabProperty", "ListProperty", "JsonProperty"}

attribute_kind(v) ==
  IF \E kind \in Kinds : Member(v, "type") = {Str(kind)}
  THEN CHOOSE kind \in Kinds : Member(v, "type") = {Str(kind)} ELSE "Raw"

relationship_like(v) == attribute_kind(v) \in {"Relationship", "ListRelationship"}

\* Whether a type, a text or an array of texts, is one of types.
entity_type_matches(found, types) ==
  \E v \in found, token \in types : Str(token) \in Items(v)

\* What a relationship points to: documents within it, or in the graph.
linked_entity_targets(v, types, options) ==
  LET objects == UNION {Items(object) : object \in Member(v, "object")}
      inline  == {object \in objects : object[1] = "obj"}
      known   == {object \in objects : object[1] = "str" /\ object[2] \in DOMAIN options.linked}
  IN  {target \in inline \cup {options.linked[object[2]] : object \in known} :
         \/ types = {}
         \/ entity_type_matches(Member(target, "type"), types)
         \/ entity_type_matches(Member(v, "objectType"), types)}

RECURSIVE resolve_query_attribute(_, _, _)
resolve_query_attribute(root, attribute, options) ==
  LET At(path) == UNION {expand_attribute_instances(v) : v \in PathNodes(root, path)}
      related  == {v \in At(<<attribute[2]>>) : relationship_like(v)}
      targets  == UNION {linked_entity_targets(v, ToSet(attribute[3]), options) : v \in related}
  IN  IF attribute[1] = "path" THEN At(attribute[2])
      ELSE UNION {resolve_query_attribute(target, attribute[4], options) : target \in targets}

\* The path at the end of an attribute, behind all relationships.
RECURSIVE own_path(_)
own_path(attribute) == IF attribute[1] = "path" THEN attribute ELSE own_path(attribute[4])

root_name(attribute) == Head(own_path(attribute)[2])
trailing_path(attribute) == own_path(attribute)[3]
-------------------------------------------------------------------------------
RECURSIVE expand_compacted_value(_, _)
expand_compacted_value(v, terms) ==
  CASE v[1] = "str" -> IF v[2] \in DOMAIN terms THEN <<"str", terms[v[2]]>> ELSE v
    [] v[1] = "arr" -> <<"arr", [k \in DOMAIN v[2] |-> expand_compacted_value(v[2][k], terms)]>>
    [] OTHER -> v

Expanded(values, name, options) ==
  IF name \in options.expand THEN {expand_compacted_value(v, options.terms) : v \in values}
  ELSE values

\* The value sought is left alone if the attribute is read as JSON.
coerce_expected_value(v, attribute, options) ==
  IF root_name(attribute) \in options.keys THEN v
  ELSE CHOOSE w \in Expanded({v}, root_name(attribute), options) : TRUE

\* All texts of a language map, whatever the language.
language_map_values(maps) ==
  UNION {UNION {Items(map[2][key]) : key \in DOMAIN map[2]} : map \in {m \in maps : m[1] = "obj"}}

\* What an attribute holds, by its kind, before any trailing path.
seed_target_values(v, attribute, options) ==
  LET name == root_name(attribute)
      json == Member(v, "json")
  IN  CASE attribute_kind(v) = "Raw" -> {v}
        [] attribute_kind(v) \in {"Property", "GeoProperty"} ->
             IF name \in options.keys /\ json # {} THEN json
             ELSE Expanded(Member(v, "value"), name, options)
        [] relationship_like(v) -> Member(v, "object")
        [] attribute_kind(v) = "LanguageProperty" -> Member(v, "languageMap")
        [] attribute_kind(v) = "VocabProperty" -> Expanded(Member(v, "vocab"), name, options)
        [] attribute_kind(v) = "ListProperty" -> Member(v, "valueList")
        [] attribute_kind(v) = "JsonProperty" ->
             IF name \in options.keys \/ Member(v, "value") = {} THEN json ELSE Member(v, "value")

target_values(v, attribute, options) ==
  LET seeds == seed_target_values(v, attribute, options)
      path  == trailing_path(attribute)
      Ends(from, keys) == UNION {PathNodes(seed, keys) : seed \in from}
  IN  IF attribute_kind(v) = "LanguageProperty" THEN
        IF path \in {<<>>, <<"*">>} THEN language_map_values(seeds)
        ELSE LET texts == UNION {Member(map, Head(path)) : map \in seeds}
             IN  IF Len(path) = 1 THEN UNION {Items(text) : text \in texts}
                 ELSE Ends(texts, Tail(path))
      ELSE IF path = <<>> THEN seeds
      ELSE IF path = <<"*">> THEN {} ELSE Ends(seeds, path)
-------------------------------------------------------------------------------
\* Null equals nothing, and values of different kinds differ.
values_equal(v, w) == v[1] = w[1] /\ v[1] # "null" /\ v = w

eq_value(v, expected) ==
  values_equal(v, expected) \/ (v[1] = "arr" /\ \E item \in Items(v) : values_equal(item, expected))

\* compare_query_values: <<kind, place>> of numbers, booleans and texts; dates
\* and times are compared as such, and no two kinds with each other.
comparable_scalar(v) ==
  CASE v[1] = "num" -> <<"number", v[2]>>
    [] v[1] = "bool" -> <<"bool", IF v[2] THEN 1 ELSE 0>>
    [] v[1] = "str" -> ScalarOf[v[2]]
    [] OTHER -> <<"none", 0>>

Compared(v, operator, w) ==
  LET left  == comparable_scalar(v)
      right == comparable_scalar(w)
  IN  /\ left[1] = right[1] /\ left[1] # "none"
      /\ CASE operator = ">"  -> left[2] > right[2]
           [] operator = ">=" -> left[2] >= right[2]
           [] operator = "<"  -> left[2] < right[2]
           [] operator = "<=" -> left[2] <= right[2]

\* Mutant of range_contains: each bound may be met by another item.
range_contains_loosely(v, low, high) ==
  /\ \E item \in {v} \cup Items(v) : Compared(item, ">=", low)
  /\ \E item \in {v} \cup Items(v) : Compared(item, "<=", high)

RECURSIVE range_contains(_, _, _)
range_contains(v, low, high) ==
  \/ Compared(v, ">=", low) /\ Compared(v, "<=", high)
  \/ v[1] = "arr" /\ \E item \in Items(v) : range_contains(item, low, high)

equality_matches(v, attribute, operand, options) ==
  LET Expected(k) == coerce_expected_value(operand[2][k], attribute, options)
  IN  \E target \in target_values(v, attribute, options) :
        IF operand[1] = "range" THEN range_contains(target, Expected(1), Expected(2))
        ELSE \E k \in DOMAIN operand[2] : eq_value(target, Expected(k))

\* One level of arrays is looked into, and relationships have no order.
compare_query_attribute(v, attribute, operator, operand, options) ==
  /\ ~ relationship_like(v)
  /\ \E target \in target_values(v, attribute, options) : \E item \in Items(target) :
       Compared(item, operator, coerce_expected_value(operand, attribute, options))

MatchesText(v, pattern) == v[1] = "str" /\ v[2] \in Matched[pattern[2]]

pattern_matches(v, attribute, pattern, options) ==
  \E target \in target_values(v, attribute, options) : \E item \in Items(target) :
    MatchesText(item, pattern)

not_pattern_matches(v, attribute, pattern, options) ==
  /\ target_values(v, attribute, options) # {}
  /\ \A target \in target_values(v, attribute, options) : \A item \in Items(target) :
       item[1] = "str" /\ ~ MatchesText(item, pattern)

RECURSIVE q_expression_matches_value(_, _, _)
q_expression_matches_value(e, root, options) ==
  LET attribute  == e[2]
      candidates == resolve_query_attribute(root, attribute, options)
      Holds(part) == q_expression_matches_value(part, root, options)
  IN  CASE e[1] = "everything" -> TRUE
        [] e[1] = "and" -> \A k \in DOMAIN e[2] : Holds(e[2][k])
        [] e[1] = "or" -> \E k \in DOMAIN e[2] : Holds(e[2][k])
        [] e[1] = "exists" -> candidates # {}
        [] e[1] = "==" -> \E v \in candidates : equality_matches(v, attribute, e[3], options)
        [] e[1] = "!=" -> /\ candidates # {}
                          /\ \A v \in candidates : ~ equality_matches(v, attribute, e[3], options)
        [] e[1] = "~=" -> \E v \in candidates : pattern_matches(v, attribute, e[3], options)
        [] e[1] = "!~=" -> /\ candidates # {}
                           /\ \A v \in candidates : not_pattern_matches(v, attribute, e[3], options)
        [] OTHER -> \E v \in candidates :
                      compare_query_attribute(v, attribute, e[1], e[3], options)

\* query_matches_value_with_options with unwrap_or(false), as all its callers
\* have it: a text that cannot be parsed matches nothing.
query_matches(q, root, options) ==
  LET e == parse_q_expression(q) IN e # Bad /\ q_expression_matches_value(e, root, options)

\* Mutant of q_expression_uses_linked_entity: the first part stands for all.
uses_linked_first(e) ==
  LET first == IF e[1] \in {"and", "or"} THEN e[2][1] ELSE e
  IN  first[1] \notin {"everything", "and", "or"} /\ first[2][1] = "linked"

RECURSIVE q_expression_uses_linked_entity(_)
q_expression_uses_linked_entity(e) ==
  CASE e[1] = "everything" -> FALSE
    [] e[1] \in {"and", "or"} -> \E k \in DOMAIN e[2] : q_expression_uses_linked_entity(e[2][k])
    [] OTHER -> e[2][1] = "linked"
-------------------------------------------------------------------------------
\* The scopes of an entity: texts that name one level after the other.
extract_scope_values(root) ==
  {v[2] : v \in {v \in UNION {Items(scope) : scope \in Member(root, "scope")} : v[1] = "str"}}

\* Mutant of scope_pattern_matches: as many levels as the pattern always do.
scope_pattern_matches_prefix(scope, pattern) ==
  LET levels == Levels(scope)
  IN  /\ Len(levels) >= Len(pattern[2])
      /\ \A k \in DOMAIN pattern[2] : pattern[2][k] = "+" \/ levels[k] = <<pattern[2][k]>>

scope_pattern_matches(scope, pattern) ==
  LET levels == Levels(scope)
  IN  IF pattern[2] = <<>> THEN scope # <<>>
      ELSE /\ IF pattern[3] THEN Len(levels) >= Len(pattern[2]) ELSE Len(levels) = Len(pattern[2])
           /\ \A k \in DOMAIN pattern[2] : pattern[2][k] = "+" \/ levels[k] = <<pattern[2][k]>>

RECURSIVE scope_expression_matches(_, _)
scope_expression_matches(e, scopes) ==
  CASE e[1] = "everything" -> TRUE
    [] e[1] = "any" -> \E scope \in scopes : scope # <<>>
    [] e[1] = "pattern" -> \E scope \in scopes : scope_pattern_matches(scope, e)
    [] e[1] = "and" -> \A k \in DOMAIN e[2] : scope_expression_matches(e[2][k], scopes)
    [] e[1] = "or" -> \E k \in DOMAIN e[2] : scope_expression_matches(e[2][k], scopes)

\* scope_query_matches_values, false for a text that cannot be parsed.
scope_query_matches(scopes, text) ==
  LET e == parse_scope_expression(text) IN e # Bad /\ scope_expression_matches(e, scopes)
===============================================================================
