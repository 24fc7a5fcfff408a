----------------------------- MODULE MCDocuments -----------------------------
(***************************************************************************)
(* The parts of the broker that work on documents alone, side by side:     *)
(* what a client asks with q and scopeQ (QueryMeaning), which              *)
(* subscriptions hear of a change (NotificationMatch), the instances of a  *)
(* temporal entity (TemporalHistory), and the terms of the contexts a      *)
(* document refers to (ContextResolution).  They share no state, so only   *)
(* one of them moves in a behaviour at a time, the others at their start.  *)
(***************************************************************************)
EXTENDS TemporalHistory, ContextResolution, QueryLanguage, TLC

VARIABLES request, doc, previous, pending, event, last, writes, quiet

Path(names) == <<"path", names, <<>>>>
Num(n) == <<"num", n>>
Property(v) == <<"obj", [type |-> Str("Property"), value |-> v]>>
Relationship(id) == <<"obj", [type |-> Str("Relationship"), object |-> Str(id)]>>

MCName == {"a", "b", "r", "city", "T", "U", "Madrid", "Centre"}
MCNumber == [t \in {"1", "2", "3"} |-> CASE t = "1" -> 1 [] t = "2" -> 2 [] t = "3" -> 3]
Quoted == <<"a", ";", "b", "|", "(">>
MCJsonOf == (<<"\"">> \o Quoted \o <<"\"">>) :> <<"str", Quoted>>
\* Two texts of one instant, in different zones, and a later one.
MCScalarOf == (<<"10Z">> :> <<"datetime", 10>>) @@ (<<"12+02">> :> <<"datetime", 10>>)
                @@ (<<"11Z">> :> <<"datetime", 11>>)
                @@ (<<"urn:e2">> :> <<"text", 1>>) @@ (<<"urn:e3">> :> <<"text", 2>>)
                @@ (Quoted :> <<"text", 3>>)
                @@ (<<"2", "|", "b", "==", "2">> :> <<"text", 4>>)
MCMatched == (<<"urn:">> :> {<<"urn:e1">>, <<"urn:e2">>, <<"urn:e3">>}) @@ (<<"Z$">> :> {<<"10Z">>, <<"11Z">>})
MCRegexes == DOMAIN MCMatched

Single(v) == <<"single", <<v>>>>
MCSimple == {<<"==", Path(<<"a">>), Single(Num(1))>>, <<"exists", <<"linked", "r", <<>>, Path(<<"b">>)>>>>}
MCTerm ==
  MCSimple \cup
  {<<"exists", Path(<<"b">>)>>,
   <<"!=", Path(<<"a">>), Single(Num(1))>>,
   <<"==", Path(<<"a">>), <<"list", <<Num(1), Num(3)>>>>>>,
   <<"==", Path(<<"a">>), <<"range", <<Num(1), Num(2)>>>>>>,
   <<">", Path(<<"a">>), Num(1)>>,
   <<"<=", <<"path", <<"b">>, <<"city">>>>, <<"str", <<"10Z">>>>>>,
   <<"==", <<"path", <<"b", "a">>, <<"*">>>>, Single(<<"str", Quoted>>)>>,
   <<"~=", Path(<<"r">>), <<"str", <<"urn:">>>>>>,
   <<"!~=", Path(<<"b">>), <<"str", <<"Z$">>>>>>,
   <<">=", <<"linked", "r", <<"T", "U">>, <<"path", <<"b">>, <<"city">>>>>>, Num(1)>>}
MCTextOf ==
  (Num(1) :> <<"1">>) @@ (Num(2) :> <<"2">>) @@ (Num(3) :> <<"3">>)
    @@ (<<"str", <<"10Z">>>> :> <<"10Z">>) @@ (<<"str", <<"urn:">>>> :> <<"urn:">>)
    @@ (<<"str", <<"Z$">>>> :> <<"Z$">>) @@ (<<"str", Quoted>> :> <<"\"">> \o Quoted \o <<"\"">>)

MCPattern == {<<"pattern", <<"Madrid">>, TRUE>>, <<"pattern", <<"Madrid">>, FALSE>>,
              <<"pattern", <<"+", "Centre">>, FALSE>>, <<"pattern", <<"Madrid", "+">>, TRUE>>}
Scope(names) == [i \in 1 .. 2 * Len(names) |-> IF i % 2 = 1 THEN "/" ELSE names[i \div 2]]
MCScopes == SUBSET {Scope(<<"Madrid">>), Scope(<<"Madrid", "Centre">>), Scope(<<"U", "Centre">>),
                    Scope(<<"Madrid", "U", "Centre">>)}

Entity(type, a, b, r) == <<"obj", [id |-> Str("urn:e1"), type |-> Str(type), a |-> a, b |-> b, r |-> r]>>
Several(v, w) == <<"arr", <<v, w>>>>
MCRoot ==
  {Entity("T", a, b, r) :
     a \in {Property(Num(1)), Property(Several(Num(0), Num(3))), Several(Property(Num(1)), Property(Num(2)))},
     b \in {Property(<<"str", <<"12+02">>>>), Property(<<"obj", [city |-> <<"str", <<"11Z">>>>]>>)},
     r \in {Relationship("urn:e2"), Several(Relationship("urn:e2"), Relationship("urn:e3"))}}
MCLinked == (<<"urn:e2">> :> Entity("T", Property(Num(1)), Property(<<"obj", [city |-> Num(2)]>>), Relationship("urn:e3")))

Queries == INSTANCE QueryMeaning WITH
  Term <- MCTerm, Simple <- MCSimple, TextOf <- MCTextOf, Pattern <- MCPattern,
  Scopes <- MCScopes, Root <- MCRoot, Linked <- MCLinked

Everyone == [isActive |-> TRUE, entities |-> <<>>, q |-> <<>>, scopeQ |-> <<>>,
             watchedAttributes |-> <<>>, notificationTrigger |-> <<>>]
Selector(type) == [id |-> <<>>, idPattern |-> << <<"urn:">> >>, type |-> <<type>>]
MCSubscription ==
  {[Everyone EXCEPT !.watchedAttributes = <<{"a"}>>, !.entities = <<{Selector("T")}>>],
   [Everyone EXCEPT !.q = <<"a", "==", "1">>,
                    !.notificationTrigger = <<{"entityCreated", "entityUpdated", "entityDeleted"}>>],
   [Everyone EXCEPT !.q = <<"r", "{", "b", "[", "city", "]", "}", ">", "1">>,
                    !.watchedAttributes = <<{"r"}>>, !.notificationTrigger = <<{"attributeCreated"}>>],
   [Everyone EXCEPT !.scopeQ = <<"/", "Madrid", "/", "#">>,
                    !.watchedAttributes = <<{"a"}>>,
                    !.notificationTrigger = <<{"entityUpdated", "attributeDeleted"}>>],
   [Everyone EXCEPT !.isActive = FALSE, !.entities = <<{Selector("T")}>>]}

\* A document with the members of the three that are given.
Has(scope, a, r) ==
  LET given == [scope |-> [k \in DOMAIN scope |-> <<"str", scope[k]>>], a |-> a, r |-> r]
  IN  [k \in {k \in DOMAIN given : given[k] # <<>>} |-> given[k][1]]
Obj(members) == <<"obj", members>>
IdAndType == [id |-> Str("urn:e1"), type |-> Str("T")]
One == <<Property(Num(1))>>
Two == <<Property(Num(2))>>
To == <<Relationship("urn:e2")>>
MCPayload == {Obj(IdAndType @@ Has(<<>>, One, To)), Obj(IdAndType @@ Has(<<Scope(<<"Madrid">>)>>, Two, <<>>)),
              Obj(IdAndType @@ Has(<<>>, <<>>, To))}
MCAttributes == {Obj(Has(<<>>, One, <<>>)), Obj(Has(<<>>, Two, To)), Obj(Has(<<Scope(<<"U">>)>>, <<>>, To))}
MCNull == <<"null">>
MCPatch == {Obj(Has(<<Scope(<<"Madrid">>)>>, <<MCNull>>, <<>>)),
            Obj(Has(<<>>, <<Obj([value |-> Num(2)])>>, <<MCNull>>))}
MCValue == {Obj([value |-> Num(1)]), Property(Num(2))}

MCId == <<"urn:e1">>

Matches == INSTANCE NotificationMatch WITH
  Id <- MCId, Payload <- MCPayload, Fragment <- MCAttributes, Patch <- MCPatch, Value <- MCValue,
  Subscription <- MCSubscription, Other <- MCLinked, MaxWrites <- 3

\* A value of a temporal attribute: -1 stands for one that is no number.
Dated(v, at) == [value |-> v, observedAt |-> at]
Identified(v, at) == [value |-> v, observedAt |-> at, instanceId |-> <<"i">>]
MCPosted ==
  {"a" :> Identified(1, 2), "a" :> Dated(3, 1), "a" :> Dated(-1, 3),
   ("a" :> Dated(2, -1)) @@ ("b" :> Identified(5, 2)),
   "b" :> [value |-> 4, createdAt |-> 1]}
MCChange == {[value |-> 7], [value |-> 6, observedAt |-> 9]}
MCFilter ==
  [property : {"observedAt", "modifiedAt"},
   rel : {<<>>, <<"before">>, <<"after">>, <<"between">>},
   at : {<<2>>}, end : {<<>>, <<3>>}, lastN : {<<>>, <<0>>, <<1>>, <<2>>}]

\* Contexts: A and B refer to each other, C to itself and to a name, and all
\* but D, which is in no circle, redefine terms of others.  The last document
\* repeats a context farther away than one that redefines its term.
Remote(u) == <<"string", u>>
Context(refers, defines) == <<"object", [context |-> refers, defines |-> defines]>>
Uri(u) == <<"uri", u>>
MCServed ==
  ("A" :> Context(<<<<"array", <<Remote("B"), Context(<<>>, "s" :> Uri("inner"))>>>>>>,
                  ("t" :> Uri("ofA")) @@ ("s" :> <<"id", "ofA">>)))
    @@ ("B" :> Context(<<Remote("A")>>, ("t" :> Uri("ofB")) @@ ("u" :> <<"other">>)))
    @@ ("C" :> <<"array", <<Remote("C"), Remote("name"), Context(<<Remote("name")>>, "t" :> Uri("ofC"))>>>>)
    @@ ("D" :> Context(<<>>, "u" :> <<"id", "ofD">>))
MCLocal ==
  {<<>>, <<Remote("A")>>, <<<<"other">>>>, <<Context(<<Remote("C")>>, "t" :> Uri("own"))>>,
   <<<<"array", <<Remote("B"), Remote("D"), Context(<<>>, ("t" :> Uri("own")) @@ ("v" :> Uri("own")))>>>>>>,
   LET again == Context(<<>>, "t" :> Uri("again"))
   IN  <<<<"array", <<again, <<"array", <<Context(<<>>, "t" :> Uri("own")), <<"array", <<again>>>>>>>>>>>>>>}
MCLink == {<<>>, <<Remote("B")>>, <<<<"array", <<Remote("C"), Remote("D")>>>>>>}

\* The parser reads what the client meant.
ParsedAsMeant == Queries!ParsedAsMeant
\* A scopeQ selects the scopes it was meant to.
ScopesAsMeant == Queries!ScopesAsMeant
\* A q that follows no relationship does not depend on the linked graph.
GraphOnlyIfUsed == Queries!GraphOnlyIfUsed
\* An operator, its negation, a list and a range agree with each other.
OperatorsAgree == Queries!OperatorsAgree
\* A write is heard by the subscriptions it concerns.
WritesHeard == Matches!WritesHeard
\* A quiet write is heard from the snapshot by those it concerns.
QuietWritesHeard == Matches!QuietWritesHeard

matchVars == <<doc, previous, pending, event, last, writes, quiet>>

MCInit == Queries!Init /\ Matches!Init /\ ResolutionInit /\ Init

MCNext ==
  \/ /\ Init /\ Matches!Init /\ ResolutionInit /\ Queries!Next
     /\ UNCHANGED <<vars, matchVars, resolutionVars>>
  \/ /\ Queries!Init /\ Init /\ ResolutionInit /\ Matches!Next
     /\ UNCHANGED <<request, vars, resolutionVars>>
  \/ /\ Queries!Init /\ Matches!Init /\ ResolutionInit /\ Next
     /\ UNCHANGED <<request, matchVars, resolutionVars>>
  \/ /\ Queries!Init /\ Init /\ Matches!Init /\ ResolutionNext
     /\ UNCHANGED <<request, vars, matchVars>>

MCSpec == /\ MCInit /\ [][MCNext]_<<request, vars, matchVars, resolutionVars>>
          /\ WF_resolutionVars(Resolve)
===============================================================================
