------------------------------ MODULE EntityQuery ------------------------------
(***************************************************************************)
(* A query of entities, or of temporal entities, against a node whose rows *)
(* others write meanwhile (query in src/src/services/entities.rs and in    *)
(* src/src/services/temporal.rs).                                          *)
(*                                                                         *)
(* The plan (src/src/query/planner.rs) goes to the repository, which lists *)
(* all rows of the tenant, keeps those the plan selects and, if the plan   *)
(* says so, cuts the list at the limit.  The service takes one row of each *)
(* entity, reads the whole tenant once more if q follows relationships,    *)
(* resolves the context of every entity, which may be remote, evaluates q  *)
(* and returns the first `limit' matches with the number of all.           *)
(*                                                                         *)
(* What a document is to a query: `keep' tells whether id, type, idPattern *)
(* and attrs select it, `holds' whether the attribute q asks for has the   *)
(* right value, `ref' the entity its relationship points to.  The values   *)
(* q may compare, scopes and projections are left out, and geo filters,    *)
(* which nothing evaluates.                                                *)
(***************************************************************************)
EXTENDS Naturals, FiniteSets, Sequences, SequencesExt, Retention

CONSTANTS Entity,
          Doc,       \* the documents entities may have: [keep, holds, ref]
          Query,     \* the queries asked: [temporal, q, limit, count]
          MaxRows,   \* bound of the rows, and the limit of who asks for none
          MaxWrites  \* bound of the writes of others

Nothing == "nothing" \* the ref of a document without the relationship

ASSUME QueryAssumption ==
  /\ MaxRows \in Nat /\ MaxWrites \in Nat
  /\ Doc \subseteq [keep : BOOLEAN, holds : BOOLEAN, ref : Entity \cup {Nothing}]
  /\ Query \subseteq [temporal : BOOLEAN, q : {"none", "own", "linked"},
                      limit : 0 .. MaxRows, count : BOOLEAN]

VARIABLES
  rows,         \* the rows of the tenant in the order DefraDB lists them: [id, doc]
  writes,
  phase,        \* "idle", the next call of the query, "answered" or "failed"
  query,        \* what is asked
  cand,         \* the candidates, one of each entity
  graph,        \* linked_entities: entity -> document
  page, total,  \* the answer
  then, later   \* the rows when they were listed, and listed again for graph

asked  == <<query, cand, graph, page, total, then, later>>
vars   == <<rows, writes, phase, asked>>

NoQuery == [temporal |-> FALSE, q |-> "none", limit |-> MaxRows, count |-> FALSE]

Init ==
  /\ rows = <<>> /\ writes = 0
  /\ phase = "idle" /\ query = NoQuery
  /\ cand = <<>> /\ graph = <<>>
  /\ page = <<>> /\ total = 0
  /\ then = <<>> /\ later = <<>>

-------------------------------------------------------------------------------
(* What others write.  DefraDB lists rows in the order of _docIDs, which are *)
(* digests: a new row comes anywhere.  Two creates that overlap leave two    *)
(* rows (EntityStore).                                                       *)

Added ==
  /\ Len(rows) < MaxRows
  /\ \E e \in Entity, d \in Doc, i \in 1 .. Len(rows) + 1 :
       /\ Cardinality({j \in DOMAIN rows : rows[j].id = e}) <= 1
       /\ rows' = InsertAt(rows, i, [id |-> e, doc |-> d])

Updated == \E i \in DOMAIN rows, d \in Doc : rows' = [rows EXCEPT ![i].doc = d]

Deleted == \E i \in DOMAIN rows : rows' = RemoveAt(rows, i)

Written ==
  /\ writes < MaxWrites
  /\ writes' = writes + 1
  /\ Added \/ Updated \/ Deleted
  /\ UNCHANGED <<phase, asked>>

-------------------------------------------------------------------------------
(* The plan and the filters.                                                 *)

Least(m, n) == IF m < n THEN m ELSE n

\* truncate and take
First(n, s) == SubSeq(s, 1, Least(n, Len(s)))

\* Mutant of Pushed: the limit goes into every plan.
PushedAlways(q) == TRUE

\* Whether the limit is part of the plan.
Pushed(q) == q.q = "none" /\ ~ q.count

\* filter_documents: what the plan selects, cut at its limit.
Filtered(s, q) ==
  LET selected == Retained(s, {i \in DOMAIN s : s[i].doc.keep}) IN
  IF Pushed(q) THEN First(q.limit, selected) ELSE selected

\* Mutant of dedupe: rows stand for entities.
dedupeNothing(s) == s

\* The first row of each entity.
dedupe(s) == Retained(s, {i \in DOMAIN s : \A j \in 1 .. i - 1 : s[j].id # s[i].id})

\* The rows q is asked of; query of temporal entities takes all that it finds.
Candidates(s, q) == IF q.temporal THEN Filtered(s, q) ELSE dedupe(Filtered(s, q))

IdsOf(R) == {row.id : row \in R}

\* Of each id the document of its last row.
ById(s) ==
  [e \in IdsOf(ToSet(s)) |->
     s[CHOOSE i \in DOMAIN s : s[i].id = e /\ \A j \in i + 1 .. Len(s) : s[j].id # e].doc]

\* entity_query_linked_graph: all entities as they are now, and of candidates
\* that are gone what was listed.  Of two rows of a candidate the first stays.
Linked(s, candidates) ==
  LET now  == ById(s)
      gone == ById(Reverse(candidates))
  IN  [e \in DOMAIN now \cup DOMAIN gone |-> IF e \in DOMAIN now THEN now[e] ELSE gone[e]]

\* Mutant of Matches: a link to an entity that is not there satisfies q.
MatchesDangling(row, q, g) ==
  /\ row.doc.keep
  /\ q.q = "own" => row.doc.holds
  /\ q.q = "linked" /\ row.doc.ref \in DOMAIN g => g[row.doc.ref].holds

\* entity_matches_query_with_options
Matches(row, q, g) ==
  /\ row.doc.keep
  /\ q.q = "own" => row.doc.holds
  /\ q.q = "linked" => row.doc.ref \in DOMAIN g /\ g[row.doc.ref].holds

\* The candidates that match.
Matched(candidates, q, g) ==
  Retained(candidates, {i \in DOMAIN candidates : Matches(candidates[i], q, g)})

\* Mutant of Returned: nobody takes the first `limit'.
ReturnedAll(matched, q) == matched

\* query of entities returns the first `limit', that of temporal entities all.
Returned(matched, q) == IF q.temporal THEN matched ELSE First(q.limit, matched)

-------------------------------------------------------------------------------
(* The query.                                                                *)

\* A query leaves nothing behind, so one of them is enough.
Ask(q) ==
  /\ phase = "idle"
  /\ phase' = "list"
  /\ query' = q
  /\ UNCHANGED <<rows, writes, cand, graph, page, total, then, later>>

List ==
  /\ phase = "list"
  /\ phase' = IF query.q = "linked" THEN "link" ELSE "match"
  /\ cand' = Candidates(rows, query)
  /\ then' = rows /\ later' = rows
  /\ UNCHANGED <<rows, writes, query, graph, page, total>>

\* The tenant is listed once more, if q follows relationships.
Link ==
  /\ phase = "link"
  /\ phase' = "match"
  /\ graph' = Linked(rows, cand)
  /\ later' = rows
  /\ UNCHANGED <<rows, writes, query, cand, page, total, then>>

\* The contexts are resolved, q is evaluated.
Match ==
  /\ phase = "match"
  /\ phase' = "answered"
  /\ page' = Returned(Matched(cand, query, graph), query)
  /\ total' = Len(Matched(cand, query, graph))
  /\ UNCHANGED <<rows, writes, query, cand, graph, then, later>>

\* A listing fails, or the context of one candidate cannot be fetched.
Fail ==
  /\ phase \in {"list", "link", "match"}
  /\ phase = "match" => cand # <<>>
  /\ phase' = "failed"
  /\ UNCHANGED <<rows, writes, asked>>

Next == Written \/ (\E q \in Query : Ask(q)) \/ List \/ Link \/ Match \/ Fail

Spec == Init /\ [][Next]_vars
-------------------------------------------------------------------------------
Row == [id : Entity, doc : Doc]

\* Types; a page of entities is no longer than the limit, also where the
\* repository was not told of it.
TypeOK ==
  /\ rows \in Seq(Row) /\ Len(rows) <= MaxRows
  /\ writes \in 0 .. MaxWrites
  /\ phase \in {"idle", "list", "link", "match", "answered", "failed"}
  /\ query \in Query \cup {NoQuery}
  /\ \A s \in {cand, page, then, later} : s \in Seq(Row)
  /\ DOMAIN graph \subseteq Entity
  /\ \A e \in DOMAIN graph : graph[e] \in Doc
  /\ total \in 0 .. MaxRows
  /\ ~ query.temporal => Len(page) <= query.limit

Answered == phase = "answered"

\* What an entity's relationship may have led to: the rows of the target when
\* the graph was read or, if there were none, its rows among the candidates.
Targets(row) ==
  LET At(s) == {t \in ToSet(s) : t.id = row.doc.ref} IN
  IF At(later) # {} THEN At(later) ELSE {t \in At(then) : t.doc.keep}

\* By the meaning of the query, as far as the rows it read can tell.
May(row)  == row.doc.keep /\ CASE query.q = "none"   -> TRUE
                               [] query.q = "own"    -> row.doc.holds
                               [] query.q = "linked" -> \E t \in Targets(row) : t.doc.holds
Must(row) == May(row) /\ (query.q = "linked" => \A t \in Targets(row) : t.doc.holds)

\* Whatever is written while a query runs, an entity it returns had that
\* document when it was listed, and matched: a target that is gone, or has
\* changed since the listing, is judged as the graph found it.
Truthful == Answered => \A row \in ToSet(page) : row \in ToSet(then) /\ May(row)

\* One row of each entity, and no write between the two readings: the answer is
\* the query's.  It holds the matching entities, as many of them as the limit
\* allows, and the count is of all; a limit that is pushed into storage must not
\* be cut before q is evaluated (src/src/query/planner.rs).
AnswersSnapshot ==
  /\ Answered
  /\ later = then
  /\ \A i, j \in DOMAIN then : then[i].id = then[j].id => i = j
  => LET all == IdsOf({row \in ToSet(then) : May(row)})
         ids == IdsOf(ToSet(page)) IN
     /\ ids \subseteq all
     /\ ~ query.temporal => Cardinality(ids) = Least(query.limit, Cardinality(all))
     /\ query.temporal /\ ~ Pushed(query) => ids = all
     /\ query.count => total = Cardinality(all)

\* With two rows of an entity too a query of entities returns and counts it
\* once: "Collapse duplicate logical entities" (src/src/services/entities.rs).
\* An entity counts whose selected rows all match, and none counts of which no
\* row does.
CountsOnce ==
  Answered /\ ~ query.temporal =>
    LET selected == {row \in ToSet(then) : row.doc.keep}
        may  == IdsOf({row \in selected : May(row)})
        must == may \ IdsOf({row \in selected : ~ Must(row)}) IN
    /\ \A i, j \in DOMAIN page : page[i].id = page[j].id => i = j
    /\ query.count => Cardinality(must) <= total /\ total <= Cardinality(may)

\* "Result limit that can be pushed into storage-side filtering safely"
\* (src/src/query/planner.rs): a page is short only if there is no more to
\* return.
FullPage ==
  Answered /\ Pushed(query) /\ ~ query.temporal =>
    Len(page) = Least(query.limit, Cardinality(IdsOf({row \in ToSet(then) : May(row)})))
===============================================================================
