----------------------------- MODULE QueryMeaning -----------------------------
(***************************************************************************)
(* What a client means by a q or a scopeQ, against what                    *)
(* src/src/query/language.rs makes of it.                                  *)
(*                                                                         *)
(* A client has an expression in mind, writes it down, with or without     *)
(* parentheses nobody needs, and asks: the request holds the expression    *)
(* and the text.  The entities it may meet are constants.                  *)
(***************************************************************************)
EXTENDS QueryLanguage

CONSTANTS Term,       \* terms of q a client may ask for, as they are parsed
          Simple,     \* those of them that groups of groups are made of
          TextOf,     \* TextOf[v]: how a client writes the JSON value v
          Pattern,    \* patterns of scopeQ, as they are parsed
          Scopes,     \* the sets of scopes entities have
          Root,       \* the documents of the entities asked about
          Linked      \* linked_entities, if it was read

VARIABLE request \* what was asked last

\* A parsed expression of two levels: terms, groups of them, groups of groups.
Pairs(S) == {<<x, y>> : x \in S, y \in S}
Groups(S) == {<<tag, parts>> : tag \in {"and", "or"}, parts \in Pairs(S)}
Expression == Term \cup Groups(Term) \cup Groups(Simple \cup Groups(Simple))

ScopeGroup == {<<"and", parts>> : parts \in Pairs(Pattern)}
ScopeExpression ==
  {<<"any">>} \cup Pattern \cup ScopeGroup
    \cup {<<"or", parts>> : parts \in Pairs({<<"any">>} \cup Pattern \cup ScopeGroup)}

NoRequest == [is |-> "none"]
-------------------------------------------------------------------------------
\* How a client writes: Joined puts a token between the pieces.
Joined(pieces, token) ==
  FoldLeft(LAMBDA text, piece : text \o <<token>> \o piece, pieces[1], Tail(pieces))

Singles(names) == [k \in DOMAIN names |-> <<names[k]>>]

RECURSIVE AttributeText(_)
AttributeText(attribute) ==
  CASE attribute[1] = "path" ->
         Joined(Singles(attribute[2]), ".")
           \o (IF attribute[3] = <<>> THEN <<>>
               ELSE <<"[">> \o Joined(Singles(attribute[3]), ".") \o <<"]">>)
    [] attribute[1] = "linked" ->
         <<attribute[2], "{">>
           \o (IF attribute[3] = <<>> THEN <<>>
               ELSE Joined(Singles(attribute[3]), ",") \o <<":">>)
           \o AttributeText(attribute[4]) \o <<"}">>

OperandText(operator, operand) ==
  LET Written(v) == TextOf[v]
      Each == [k \in DOMAIN operand[2] |-> Written(operand[2][k])]
  IN  IF operator \notin {"==", "!="} THEN Written(operand)
      ELSE Joined(Each, IF operand[1] = "range" THEN ".." ELSE ",")

TermText(term) ==
  AttributeText(term[2])
    \o (IF term[1] = "exists" THEN <<>> ELSE <<term[1]>> \o OperandText(term[1], term[3]))

Grouped(text) == <<"(">> \o text \o <<")">>

\* The parts of a conjunction that are groups need parentheses; those of a
\* disjunction only if the client is generous.
RECURSIVE Text(_, _)
Text(e, generous) ==
  LET Part(part) ==
        IF generous \/ part[1] = "or" \/ (part[1] = "and" /\ e[1] = "and")
        THEN Grouped(Text(part, generous)) ELSE Text(part, generous)
  IN  IF e[1] \in {"and", "or"}
      THEN Joined([k \in DOMAIN e[2] |-> Part(e[2][k])], IF e[1] = "and" THEN ";" ELSE "|")
      ELSE TermText(e)

PatternText(pattern) ==
  (IF pattern[2] = <<>> THEN <<>> ELSE <<"/">> \o Joined(Singles(pattern[2]), "/"))
    \o (IF pattern[3] THEN <<"/", "#">> ELSE <<>>)

RECURSIVE ScopeText(_)
ScopeText(e) ==
  CASE e[1] = "any" -> <<"/", "#">>
    [] e[1] = "pattern" -> PatternText(e)
    [] e[1] = "and" -> Grouped(Joined([k \in DOMAIN e[2] |-> ScopeText(e[2][k])], ";"))
    [] e[1] = "or" -> Joined([k \in DOMAIN e[2] |-> ScopeText(e[2][k])], "|")
-------------------------------------------------------------------------------
Init == request = NoRequest

Ask ==
  /\ request = NoRequest
  /\ \E e \in Expression, generous \in BOOLEAN :
       request' = [is |-> "q", e |-> e, text |-> Text(e, generous)]

AskScope ==
  /\ request = NoRequest
  /\ \E e \in ScopeExpression : request' = [is |-> "scopeQ", e |-> e, text |-> ScopeText(e)]

\* The request is answered and the client asks another.
Answer ==
  /\ request # NoRequest
  /\ request' = NoRequest

Next == Ask \/ AskScope \/ Answer

vars == <<request>>
Spec == Init /\ [][Next]_vars
-------------------------------------------------------------------------------
\* A disjunction that is itself a part of a disjunction, and so is written in
\* parentheses: parse_q_and strips these, and parse_q_term takes what it finds
\* for one term.  `(a==1|b==2)|c==3' compares a with the text `1|b==2'.
RECURSIVE SplitsAlternative(_)
SplitsAlternative(e) ==
  /\ e[1] \in {"and", "or"}
  /\ \E k \in DOMAIN e[2] : (e[1] = "or" /\ e[2][k][1] = "or") \/ SplitsAlternative(e[2][k])

\* The parser reads what the client meant: operators bind as documented,
\* delimiters nest, a text literal may hold any of them, and parentheses
\* change nothing; only an alternative within an alternative is misread.
ParsedAsMeant ==
  request.is = "q" =>
    \/ parse_q_expression(request.text) = request.e
    \/ SplitsAlternative(request.e)

\* What scopes a pattern is meant to match: those it names level by level,
\* and with /# those below them.
RECURSIVE Meant(_, _)
Meant(e, scopes) ==
  LET Fits(scope) ==
        \E prefix \in {SubSeq(scope, 1, 2 * n) : n \in 1 .. Len(scope) \div 2} :
          /\ prefix = scope \/ e[3]
          /\ Len(prefix) = 2 * Len(e[2])
          /\ \A n \in DOMAIN e[2] : e[2][n] \in {"+", prefix[2 * n]}
  IN  CASE e[1] = "any" -> scopes # {}
        [] e[1] = "pattern" -> \E scope \in scopes : e[2] = <<>> \/ Fits(scope)
        [] e[1] = "and" -> \A k \in DOMAIN e[2] : Meant(e[2][k], scopes)
        [] e[1] = "or" -> \E k \in DOMAIN e[2] : Meant(e[2][k], scopes)

\* An entity is selected by a scopeQ as it is written if and only if its
\* scopes fit what was meant.
ScopesAsMeant ==
  request.is = "scopeQ" =>
    \A scopes \in Scopes : scope_query_matches(scopes, request.text) = Meant(request.e, scopes)

Options(linked) == [expand |-> {}, keys |-> {}, terms |-> <<>>, linked |-> linked]

Holds(e, root, linked) == q_expression_matches_value(e, root, Options(linked))

\* Queries and notifications read the graph of the tenant only if a q says
\* that it follows relationships (query_needs_linked_graph and
\* subscription_uses_linked_graph): no other expression may depend on it,
\* whatever relationships the entity has.
GraphOnlyIfUsed ==
  request.is = "q" /\ ~ q_expression_uses_linked_entity(request.e) =>
    \A root \in Root : Holds(request.e, root, Linked) = Holds(request.e, root, <<>>)

\* The operators agree with each other on attributes with many values and many
\* instances: none holds with its negation, a list is one of its values, and a
\* range is met by a value that meets both bounds.
OperatorsAgree ==
  request.is = "q" /\ Len(request.e) = 3 =>
    LET operator  == request.e[1]
        attribute == request.e[2]
        operand   == request.e[3]
        Also(other, value) == <<other, attribute, value>>
    IN  \A root \in Root :
          Holds(request.e, root, Linked) =>
            /\ operator = "==" => ~ Holds(Also("!=", operand), root, Linked)
            /\ operator = "~=" => ~ Holds(Also("!~=", operand), root, Linked)
            /\ operator = "==" /\ operand[1] = "list" =>
                 \E k \in DOMAIN operand[2] :
                   Holds(Also("==", <<"single", <<operand[2][k]>>>>), root, Linked)
            /\ operator = "==" /\ operand[1] = "range" =>
                 \E v \in resolve_query_attribute(root, attribute, Options(Linked)) :
                   \E target \in target_values(v, attribute, Options(Linked)) :
                     \E item \in Items(target) :
                       /\ Compared(item, ">=", operand[2][1])
                       /\ Compared(item, "<=", operand[2][2])
===============================================================================
