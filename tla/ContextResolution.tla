-------------------------- MODULE ContextResolution --------------------------
(***************************************************************************)
(* The terms of a document, from its own @context and from the Link header *)
(* of the request (src/src/query/context.rs).  A query resolves them for   *)
(* each entity, a delivery for each subscription, before q is evaluated.   *)
(*                                                                         *)
(* A queue of JSON values is worked off.  What a remote server holds may   *)
(* refer to further contexts, to itself among them, and any server may     *)
(* fail.  Each step is one round of the loop; only the rounds that fetch   *)
(* await.                                                                  *)
(***************************************************************************)
EXTENDS Integers, Sequences, FiniteSets, SequencesExt

CONSTANTS Served,   \* Served[u]: the context the server at the URL u answers with
          Local,    \* @context of the documents asked about: none or one value
          Link,     \* what the Link header refers to: none or one value
          MaxDepth  \* bound of the chains in which contexts refer to each other

\* Values: <<"string", s>>, <<"array", values>>, <<"other">> and objects
\* <<"object", [context |-> none or one value, defines |-> a definition for
\* each other member]>>.  A definition is <<"uri", u>>, <<"id", u>> or <<"other">>.

VARIABLES asked,         \* the values the client's request starts from
          queue,
          terms,         \* the terms found so far, with what they expand to
          visited_urls,
          answer         \* "none", "resolving", "resolved" or "failed"

resolutionVars == <<asked, queue, terms, visited_urls, answer>>

Url == DOMAIN Served \* the strings that start with http:// or https://
NoTerms == [t \in {} |-> t]

ResolutionInit ==
  /\ asked = <<>> /\ queue = <<>> /\ terms = NoTerms
  /\ visited_urls = {} /\ answer = "none"
-------------------------------------------------------------------------------
\* A request needs the terms of a document.
Ask(context, link) ==
  /\ answer # "resolving"
  /\ asked' = context \o link /\ queue' = asked' /\ terms' = NoTerms
  /\ visited_urls' = {} /\ answer' = "resolving"

Takes(kind) == answer = "resolving" /\ queue # <<>> /\ queue[1][1] = kind
Taken == queue[1][2]

\* The value is done with, and leaves more to do.
Queued(more) == queue' = Tail(queue) \o more /\ UNCHANGED <<asked, answer>>

Revisit ==
  /\ Takes("string") /\ Taken \in visited_urls
  /\ Queued(<<>>) /\ UNCHANGED <<terms, visited_urls>>

\* A string that is no address of a server.
SkipName ==
  /\ Takes("string") /\ Taken \notin visited_urls \cup Url
  /\ visited_urls' = visited_urls \cup {Taken}
  /\ Queued(<<>>) /\ UNCHANGED terms

\* Mutant of Fetch: a server that answered is not remembered.
FetchForgetful ==
  /\ Takes("string") /\ Taken \in Url \ visited_urls
  /\ Queued(<<Served[Taken]>>) /\ UNCHANGED <<terms, visited_urls>>

Fetch ==
  /\ Takes("string") /\ Taken \in Url \ visited_urls
  /\ visited_urls' = visited_urls \cup {Taken}
  /\ Queued(<<Served[Taken]>>) /\ UNCHANGED terms

\* No answer in time, an error, or an answer that is not JSON: 400.
FetchFails ==
  /\ Takes("string") /\ Taken \in Url \ visited_urls
  /\ visited_urls' = visited_urls \cup {Taken}
  /\ answer' = "failed" /\ UNCHANGED <<asked, queue, terms>>

Spread ==
  /\ Takes("array")
  /\ Queued(Taken) /\ UNCHANGED <<terms, visited_urls>>

term_definition_uri(definition) ==
  IF definition[1] \in {"uri", "id"} THEN {definition[2]} ELSE {}

Defined(object) == {t \in DOMAIN object.defines : term_definition_uri(object.defines[t]) # {}}

\* Mutant of Inserted: the definition found first stays.
InsertedOnce(found, object) ==
  [t \in DOMAIN found \cup Defined(object) |->
     IF t \in DOMAIN found THEN found[t] ELSE object.defines[t][2]]

\* What the members of an object expand to takes the place of what was found.
Inserted(found, object) ==
  [t \in DOMAIN found \cup Defined(object) |->
     IF t \in Defined(object) THEN object.defines[t][2] ELSE found[t]]

Define ==
  /\ Takes("object")
  /\ terms' = Inserted(terms, Taken)
  /\ Queued(Taken.context) /\ UNCHANGED visited_urls

Ignore == Takes("other") /\ Queued(<<>>) /\ UNCHANGED <<terms, visited_urls>>

Finish ==
  /\ answer = "resolving" /\ queue = <<>>
  /\ answer' = "resolved" /\ UNCHANGED <<asked, queue, terms, visited_urls>>

Resolve == \/ Revisit \/ SkipName \/ Fetch \/ FetchFails
           \/ Spread \/ Define \/ Ignore \/ Finish

ResolutionNext == (\E context \in Local, link \in Link : Ask(context, link)) \/ Resolve

\* The loop goes on until it ends; a server that does not answer in
\* BROKER_OUTBOUND_TIMEOUT_MS has failed (state.rs).
ResolutionFairness == WF_resolutionVars(Resolve)

ResolutionSpec == ResolutionInit /\ [][ResolutionNext]_resolutionVars /\ ResolutionFairness
-------------------------------------------------------------------------------
\* The values a value refers to directly.
Leads(v) ==
  CASE v[1] = "string" -> IF v[2] \in Url THEN {Served[v[2]]} ELSE {}
    [] v[1] = "array" -> Range(v[2])
    [] v[1] = "object" -> Range(v[2].context)
    [] OTHER -> {}

Strings(values) == {v[2] : v \in {v \in values : v[1] = "string"}}

\* Fewer references away from what was asked than v, no string is the same.
Fresh(v, nearer) == v[1] = "string" => v[2] \notin nearer

\* The values n references away from start, and the strings that are nearer.  A
\* string leads on from where it is nearest; other values may be met again.
Layers(start) ==
  LET layer[n \in 0 .. MaxDepth] ==
        IF n = 0 THEN [met |-> Range(start), nearer |-> {}]
        ELSE LET last == layer[n - 1]
             IN  [met |-> UNION {Leads(v) : v \in {v \in last.met : Fresh(v, last.nearer)}},
                  nearer |-> last.nearer \cup Strings(last.met)]
  IN  layer

\* Lists are lists, and every chain of references has an end.
ASSUME ContextAssumption ==
  /\ MaxDepth \in Nat
  /\ \A context \in Local, link \in Link :
       LET layers == Layers(context \o link)
           IsList(s) == s \in Seq(Range(s))
       IN  /\ IsList(context) /\ IsList(link)
           /\ \A n \in 0 .. MaxDepth : \A v \in layers[n].met :
                /\ v[1] = "array" => IsList(v[2])
                /\ v[1] = "object" => IsList(v[2].context)
           /\ layers[MaxDepth].met = {}

\* What v says that t means.
Meanings(v, t) == IF v[1] = "object" /\ t \in Defined(v[2]) THEN {v[2].defines[t][2]} ELSE {}

DefinedIn(values) == UNION {Defined(v[2]) : v \in {v \in values : v[1] = "object"}}

\* The terms found are those of the values met[0] to met[n], and each means what
\* the last of these that says something of it says.
LastMeant(found, met, n) ==
  /\ DOMAIN found = UNION {DefinedIn(met[k]) : k \in 0 .. n}
  /\ \A t \in DOMAIN found : \E k \in 0 .. n :
       /\ \E v \in met[k] : found[t] \in Meanings(v, t)
       /\ \A j \in k + 1 .. n : \A v \in met[j] : Meanings(v, t) = {}

\* A document has exactly the terms that some context it refers to defines,
\* however contexts refer to each other and to themselves, and a term means
\* what the most distant of these says: a remote context wins against the
\* document that redefines its term.
TermsOfAllContexts ==
  answer = "resolved" =>
    LET layers == Layers(asked)
    IN  LastMeant(terms, [n \in 0 .. MaxDepth |-> layers[n].met], MaxDepth)

\* A request is answered, also when contexts refer to each other in a circle.
CirclesEnd == answer = "resolving" ~> answer # "resolving"
===============================================================================
