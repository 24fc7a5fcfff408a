--------------------------- MODULE EntityQueryProofs ---------------------------
(***************************************************************************)
(* What a query answers, for any entities, documents, rows, limits and     *)
(* writes of others.                                                       *)
(*                                                                         *)
(* All lists the query makes are rows of another list at some positions,   *)
(* and RetentionProofs says what these hold.  The answer is a function of  *)
(* the two listings it was made of, and compared with the meaning of the   *)
(* query.                                                                  *)
(***************************************************************************)
EXTENDS EntityQuery, RetentionProofs

-------------------------------------------------------------------------------
(* Lists of rows                                                             *)

\* One row of each entity.
Distinct(s) == \A i, j \in DOMAIN s : s[i].id = s[j].id => i = j

\* The entities with rows in the list.
Listed(s) == {s[i].id : i \in DOMAIN s}

LEMMA ListedIs ==
  ASSUME NEW s
  PROVE  IdsOf(ToSet(s)) = Listed(s)
BY DEF IdsOf, ToSet, Listed

\* One row of each entity: as many rows as entities.
LEMMA DistinctCount ==
  ASSUME NEW S, NEW s \in Seq(S), Distinct(s)
  PROVE  IsFiniteSet(Listed(s)) /\ Cardinality(Listed(s)) = Len(s)
<1> DEFINE f == [i \in 1 .. Len(s) |-> s[i].id]
<1>1. Len(s) \in Nat /\ DOMAIN s = 1 .. Len(s)
  OBVIOUS
<1>2. f \in Bijection(1 .. Len(s), Listed(s))
  <2>1. f \in [1 .. Len(s) -> Listed(s)]
    BY <1>1 DEF Listed
  <2>2. f \in Injection(1 .. Len(s), Listed(s))
    BY <1>1, <2>1 DEF Injection, IsInjective, Distinct
  <2>3. f \in Surjection(1 .. Len(s), Listed(s))
    BY <1>1, <2>1 DEF Surjection, Listed
  <2> QED
    BY <2>2, <2>3 DEF Bijection
<1>3. ExistsBijection(1 .. Len(s), Listed(s))
  BY <1>2 DEF ExistsBijection
<1>4. Cardinality(Listed(s)) = Len(s)
  BY <1>1, <1>3, FS_CountingElements
<1>5. IsFiniteSet(Listed(s))
  BY <1>1, <1>3, FS_NatBijection
<1> QED
  BY <1>4, <1>5

\* The rows that are retained are those of the positions.
LEMMA RetainedRows ==
  ASSUME NEW S, NEW s \in Seq(S), NEW P \in SUBSET DOMAIN s
  PROVE  /\ ToSet(Retained(s, P)) = {s[i] : i \in P}
         /\ (\A i, j \in P : s[i].id = s[j].id => i = j) => Distinct(Retained(s, P))
<1>1. PICK t \in Seq(S) : t = Retained(s, P)
  BY RetainedIs
<1>2. PICK K : K = 1 .. Cardinality(P)
  OBVIOUS
<1>3. DOMAIN t = K
  BY <1>1, <1>2, RetainedIs
<1>4. PICK f : Finds(f, s, P)
  BY RetainedIs
<1>5. /\ f \in [K -> P]
      /\ \A k \in K : t[k] = s[f[k]]
      /\ \A k, l \in K : f[k] = f[l] => k = l
  <2>1. f \in [K -> P] /\ \A k, l \in K : f[k] = f[l] => k = l
    BY <1>2, <1>4 DEF Finds
  <2>2. \A k \in K : Retained(s, P)[k] = s[f[k]]
    BY <1>2, <1>4 DEF Finds
  <2> QED
    BY <1>1, <2>1, <2>2
<1>6. ToSet(t) = {s[i] : i \in P}
  <2>1. {Retained(s, P)[k] : k \in DOMAIN Retained(s, P)} = {s[i] : i \in P}
    BY RetainedHolds
  <2> QED
    BY <1>1, <2>1, Zenon DEF ToSet
<1>7. (\A i, j \in P : s[i].id = s[j].id => i = j) => Distinct(t)
  <2> SUFFICES ASSUME \A i, j \in P : s[i].id = s[j].id => i = j,
                      NEW k \in K, NEW l \in K, t[k].id = t[l].id
               PROVE  k = l
    BY <1>3 DEF Distinct
  <2>1. f[k] \in P /\ f[l] \in P /\ s[f[k]].id = s[f[l]].id
    BY <1>5
  <2> QED
    BY <1>5, <2>1
<1> QED
  BY <1>1, <1>6, <1>7

\* All positions: nothing is lost.
LEMMA RetainedAll ==
  ASSUME NEW S, NEW s \in Seq(S)
  PROVE  Len(Retained(s, DOMAIN s)) = Len(s) /\ ToSet(Retained(s, DOMAIN s)) = ToSet(s)
<1>1. DOMAIN s = 1 .. Len(s) /\ Len(s) \in Nat
  OBVIOUS
<1>2. Cardinality(DOMAIN s) = Len(s)
  <2>1. /\ 1 \in Int /\ Len(s) \in Int
        /\ (IF 1 > Len(s) THEN 0 ELSE Len(s) - 1 + 1) = Len(s)
    BY <1>1
  <2>2. Cardinality(1 .. Len(s)) = IF 1 > Len(s) THEN 0 ELSE Len(s) - 1 + 1
    BY <2>1, FS_Interval, Zenon
  <2> QED
    BY <1>1, <2>1, <2>2, Zenon
<1>3. DOMAIN s \in SUBSET DOMAIN s
  BY Zenon
<1>4. Len(Retained(s, DOMAIN s)) = Cardinality(DOMAIN s)
  BY <1>3, RetainedIs
<1>5. ToSet(Retained(s, DOMAIN s)) = {s[i] : i \in DOMAIN s}
  BY <1>3, RetainedRows
<1> QED
  BY <1>2, <1>4, <1>5 DEF ToSet

\* The first n rows.
LEMMA FirstIs ==
  ASSUME NEW S, NEW s \in Seq(S), NEW n \in Nat
  PROVE  /\ First(n, s) \in Seq(S)
         /\ Len(First(n, s)) = Least(n, Len(s))
         /\ Len(First(n, s)) <= n /\ Len(First(n, s)) <= Len(s)
         /\ ToSet(First(n, s)) \subseteq ToSet(s)
         /\ Distinct(s) => Distinct(First(n, s))
<1>1. Least(n, Len(s)) \in Nat /\ Least(n, Len(s)) <= n /\ Least(n, Len(s)) <= Len(s)
  BY DEF Least
<1>2. PICK t : t = First(n, s)
  OBVIOUS
<1>3. t \in Seq(S) /\ Len(t) = Least(n, Len(s))
  BY <1>1, <1>2 DEF First
<1>4. \A i \in 1 .. Len(t) : i \in 1 .. Len(s) /\ t[i] = s[i]
  BY <1>1, <1>2, <1>3 DEF First
<1>5. ToSet(t) \subseteq ToSet(s)
  BY <1>3, <1>4 DEF ToSet
<1>6. Distinct(s) => Distinct(t)
  BY <1>3, <1>4 DEF Distinct
<1> QED
  BY <1>1, <1>2, <1>3, <1>5, <1>6

\* One row of each entity stays, and no entity goes.
LEMMA DedupeIs ==
  ASSUME NEW S, NEW s \in Seq(S)
  PROVE  /\ dedupe(s) \in Seq(S) /\ Len(dedupe(s)) <= Len(s)
         /\ ToSet(dedupe(s)) \subseteq ToSet(s)
         /\ Distinct(dedupe(s)) /\ Listed(dedupe(s)) = Listed(s)
         /\ Distinct(s) => Len(dedupe(s)) = Len(s) /\ ToSet(dedupe(s)) = ToSet(s)
<1>0. DOMAIN s = 1 .. Len(s) /\ Len(s) \in Nat
  OBVIOUS
<1>1. PICK P \in SUBSET DOMAIN s :
        P = {i \in DOMAIN s : \A j \in 1 .. i - 1 : s[j].id # s[i].id}
  OBVIOUS
<1>2. dedupe(s) = Retained(s, P)
  BY <1>1 DEF dedupe
<1>3. PICK t \in Seq(S) : t = Retained(s, P) /\ Len(t) <= Len(s)
  BY RetainedIs
<1>4. ToSet(t) = {s[i] : i \in P}
  BY <1>3, RetainedRows
<1>5. \A i, j \in P : s[i].id = s[j].id => i = j
  <2> SUFFICES ASSUME NEW i \in P, NEW j \in P, s[i].id = s[j].id, i < j
               PROVE  FALSE
    BY <1>0
  <2>1. i \in 1 .. j - 1
    BY <1>0
  <2> QED
    BY <1>1, <2>1
<1>6. Distinct(t)
  BY <1>3, <1>5, RetainedRows
<1>7. Listed(t) = Listed(s)
  <2>1. ASSUME NEW i \in DOMAIN s
        PROVE  \E j \in P : s[j].id = s[i].id
    <3>1. PICK Q \in SUBSET (1 .. Len(s)) : Q = {k \in DOMAIN s : s[k].id = s[i].id}
      BY <1>0
    <3>2. Q # {}
      BY <3>1
    <3>3. PICK j \in Q : \A k \in Q : j <= k
      BY <1>0, <3>2, Ends
    <3>4. ASSUME NEW k \in 1 .. j - 1
          PROVE  s[k].id # s[j].id
      <4>1. k \in DOMAIN s /\ ~ j <= k
        BY <1>0
      <4> QED
        BY <3>1, <3>3, <4>1
    <3> QED
      BY <1>1, <3>1, <3>4
  <2>2. Listed(t) = {s[i].id : i \in P}
    <3>1. Listed(t) = IdsOf(ToSet(t))
      BY ListedIs
    <3> QED
      BY <1>4, <3>1 DEF IdsOf
  <2>3. Listed(s) = {s[i].id : i \in P}
    BY <2>1 DEF Listed
  <2> QED
    BY <2>2, <2>3
<1>8. ASSUME Distinct(s)
      PROVE  Len(t) = Len(s) /\ ToSet(t) = ToSet(s)
  <2>1. P = DOMAIN s
    BY <1>0, <1>1, <1>8 DEF Distinct
  <2> QED
    BY <1>3, <2>1, RetainedAll
<1>9. ToSet(t) \subseteq ToSet(s)
  BY <1>4 DEF ToSet
<1> QED
  BY <1>2, <1>3, <1>6, <1>7, <1>8, <1>9

\* The rows the plan selects.
Selected(s) == {row \in ToSet(s) : row.doc.keep}

\* What the repository returns: all rows the plan selects, or the first of them.
LEMMA FilteredIs ==
  ASSUME NEW S, NEW s \in Seq(S), NEW q, q.limit \in Nat
  PROVE  /\ Filtered(s, q) \in Seq(S) /\ Len(Filtered(s, q)) <= Len(s)
         /\ ToSet(Filtered(s, q)) \subseteq Selected(s)
         /\ ~ Pushed(q) => ToSet(Filtered(s, q)) = Selected(s)
         /\ Distinct(s) =>
              /\ Distinct(Filtered(s, q))
              /\ Pushed(q) => Len(Filtered(s, q))
                                = Least(q.limit, Cardinality(IdsOf(Selected(s))))
<1>0. DOMAIN s = 1 .. Len(s) /\ Len(s) \in Nat
  OBVIOUS
<1>1. PICK P \in SUBSET DOMAIN s : P = {i \in DOMAIN s : s[i].doc.keep}
  OBVIOUS
<1>2. PICK t \in Seq(S) : t = Retained(s, P) /\ Len(t) <= Len(s)
  BY RetainedIs
<1>3. ToSet(t) = Selected(s)
  <2>1. ToSet(t) = {s[i] : i \in P}
    BY <1>2, RetainedRows
  <2> QED
    BY <1>1, <2>1 DEF Selected, ToSet
<1>4. Filtered(s, q) = IF Pushed(q) THEN First(q.limit, t) ELSE t
  BY <1>1, <1>2 DEF Filtered
<1>5. Distinct(s) => Distinct(t)
  <2>1. Distinct(s) => \A i, j \in P : s[i].id = s[j].id => i = j
    BY DEF Distinct
  <2> QED
    BY <1>2, <2>1, RetainedRows
<1>6. Distinct(s) => Len(t) = Cardinality(IdsOf(Selected(s)))
  BY <1>3, <1>5, DistinctCount, ListedIs
<1>7. PICK u \in Seq(S) : u = First(q.limit, t)
  BY FirstIs
<1>8. /\ Len(u) = Least(q.limit, Len(t)) /\ Len(u) <= Len(t)
      /\ ToSet(u) \subseteq ToSet(t) /\ (Distinct(t) => Distinct(u))
  BY <1>7, FirstIs
<1>9. Len(u) <= Len(s)
  BY <1>2, <1>8
<1> QED
  BY <1>2, <1>3, <1>4, <1>5, <1>6, <1>7, <1>8, <1>9

\* The candidates are selected rows, of entities one each.
LEMMA CandidatesAre ==
  ASSUME NEW S, NEW s \in Seq(S), NEW q, q.limit \in Nat
  PROVE  /\ Candidates(s, q) \in Seq(S) /\ Len(Candidates(s, q)) <= Len(s)
         /\ ToSet(Candidates(s, q)) \subseteq Selected(s)
         /\ ~ Pushed(q) => Listed(Candidates(s, q)) = IdsOf(Selected(s))
         /\ ~ q.temporal => Distinct(Candidates(s, q))
         /\ Distinct(s) =>
              /\ Distinct(Candidates(s, q))
              /\ ~ Pushed(q) => ToSet(Candidates(s, q)) = Selected(s)
              /\ Pushed(q) => Len(Candidates(s, q))
                                = Least(q.limit, Cardinality(IdsOf(Selected(s))))
<1>1. PICK t \in Seq(S) : t = Filtered(s, q)
  BY FilteredIs
<1>2. /\ Len(t) <= Len(s) /\ ToSet(t) \subseteq Selected(s)
      /\ ~ Pushed(q) => ToSet(t) = Selected(s)
      /\ Distinct(s) =>
           /\ Distinct(t)
           /\ Pushed(q) => Len(t) = Least(q.limit, Cardinality(IdsOf(Selected(s))))
  BY <1>1, FilteredIs
<1>3. Listed(t) = IdsOf(ToSet(t))
  BY ListedIs
<1>4. PICK u \in Seq(S) : u = dedupe(t)
  BY DedupeIs
<1>5. /\ Len(u) <= Len(t) /\ ToSet(u) \subseteq ToSet(t)
      /\ Distinct(u) /\ Listed(u) = Listed(t)
      /\ Distinct(t) => Len(u) = Len(t) /\ ToSet(u) = ToSet(t)
  BY <1>4, DedupeIs
<1>6. Candidates(s, q) = IF q.temporal THEN t ELSE u
  BY <1>1, <1>4 DEF Candidates
<1>7. Len(u) <= Len(s)
  BY <1>2, <1>5
<1> QED
  BY <1>2, <1>3, <1>5, <1>6, <1>7

\* The matches are the candidates that match.
LEMMA MatchedAre ==
  ASSUME NEW S, NEW c \in Seq(S), NEW q, NEW g
  PROVE  /\ Matched(c, q, g) \in Seq(S) /\ Len(Matched(c, q, g)) <= Len(c)
         /\ ToSet(Matched(c, q, g)) = {row \in ToSet(c) : Matches(row, q, g)}
         /\ Distinct(c) => Distinct(Matched(c, q, g))
<1>1. PICK P \in SUBSET DOMAIN c : P = {i \in DOMAIN c : Matches(c[i], q, g)}
  OBVIOUS
<1>2. Matched(c, q, g) = Retained(c, P)
  BY <1>1 DEF Matched
<1>3. Retained(c, P) \in Seq(S) /\ Len(Retained(c, P)) <= Len(c)
  BY RetainedIs
<1>4. ToSet(Retained(c, P)) = {c[i] : i \in P}
  BY RetainedRows
<1>5. ToSet(Retained(c, P)) = {row \in ToSet(c) : Matches(row, q, g)}
  BY <1>1, <1>4 DEF ToSet
<1>6. Distinct(c) => Distinct(Retained(c, P))
  <2>1. Distinct(c) => \A i, j \in P : c[i].id = c[j].id => i = j
    BY DEF Distinct
  <2> QED
    BY <2>1, RetainedRows
<1> QED
  BY <1>2, <1>3, <1>5, <1>6

\* The document of an entity is that of one of its rows.
LEMMA ByIdIs ==
  ASSUME NEW S, NEW s \in Seq(S), NEW e \in Listed(s)
  PROVE  \E row \in ToSet(s) : row.id = e /\ ById(s)[e] = row.doc
<1>0. DOMAIN s = 1 .. Len(s) /\ Len(s) \in Nat
  OBVIOUS
<1>1. PICK Q \in SUBSET (1 .. Len(s)) : Q = {i \in DOMAIN s : s[i].id = e}
  BY <1>0
<1>2. Q # {}
  BY <1>1 DEF Listed
<1>3. PICK l \in Q : \A i \in Q : i <= l
  BY <1>0, <1>2, Ends
<1>4. \A j \in l + 1 .. Len(s) : s[j].id # e
  <2> SUFFICES ASSUME NEW j \in l + 1 .. Len(s), s[j].id = e
               PROVE  FALSE
    OBVIOUS
  <2>1. j \in DOMAIN s /\ ~ j <= l
    BY <1>0
  <2> QED
    BY <1>1, <1>3, <2>1
<1> DEFINE k == CHOOSE i \in DOMAIN s : s[i].id = e /\ \A j \in i + 1 .. Len(s) : s[j].id # e
<1>5. k \in DOMAIN s /\ s[k].id = e
  <2>1. l \in DOMAIN s /\ s[l].id = e /\ \A j \in l + 1 .. Len(s) : s[j].id # e
    BY <1>0, <1>1, <1>4
  <2> QED
    BY <2>1
<1>6. ById(s)[e] = s[k].doc
  BY ListedIs DEF ById
<1> HIDE DEF k
<1> QED
  BY <1>5, <1>6 DEF ToSet

\* The document is that of a row of the entity.
DocOf(e, s, doc) == \E row \in ToSet(s) : row.id = e /\ doc = row.doc

\* The graph has the listed entities, and of the candidates those that are gone.
LEMMA LinkedIs ==
  ASSUME NEW S, NEW s \in Seq(S), NEW c \in Seq(S)
  PROVE  /\ DOMAIN Linked(s, c) = Listed(s) \cup Listed(c)
         /\ \A e \in Listed(s) : DocOf(e, s, Linked(s, c)[e])
         /\ \A e \in Listed(c) \ Listed(s) : DocOf(e, c, Linked(s, c)[e])
<1>1. PICK r \in Seq(S) : r = Reverse(c)
  <2>1. Len(c) \in Nat /\ \A i \in 1 .. Len(c) : Len(c) - i + 1 \in 1 .. Len(c)
    OBVIOUS
  <2>2. Reverse(c) \in [1 .. Len(c) -> S]
    BY <2>1 DEF Reverse
  <2> QED
    BY <2>1, <2>2
<1>2. ToSet(r) = ToSet(c)
  <2>1. Len(c) \in Nat /\ DOMAIN c = 1 .. Len(c) /\ DOMAIN r = 1 .. Len(c)
    BY <1>1 DEF Reverse
  <2>2. \A i \in 1 .. Len(c) : Len(c) - i + 1 \in 1 .. Len(c) /\ r[i] = c[Len(c) - i + 1]
    BY <1>1, <2>1 DEF Reverse
  <2>3. \A i \in 1 .. Len(c) : r[Len(c) - i + 1] = c[i]
    <3> SUFFICES ASSUME NEW i \in 1 .. Len(c)
                 PROVE  r[Len(c) - i + 1] = c[i]
      OBVIOUS
    <3>1. Len(c) - (Len(c) - i + 1) + 1 = i
      BY <2>1
    <3> QED
      BY <2>2, <3>1
  <2>4. ASSUME NEW row \in ToSet(r)
        PROVE  row \in ToSet(c)
    BY <2>1, <2>2 DEF ToSet
  <2>5. ASSUME NEW row \in ToSet(c)
        PROVE  row \in ToSet(r)
    <3>1. PICK i \in 1 .. Len(c) : row = c[i]
      BY <2>1 DEF ToSet
    <3>2. PICK j \in 1 .. Len(c) : r[j] = row
      BY <2>2, <2>3, <3>1
    <3> QED
      BY <2>1, <3>2 DEF ToSet
  <2> QED
    BY <2>4, <2>5
<1>3. Listed(r) = Listed(c)
  BY <1>2, ListedIs
<1>4. DOMAIN ById(s) = Listed(s) /\ DOMAIN ById(r) = Listed(c)
  BY <1>3, ListedIs DEF ById
<1>5. Linked(s, c) = [e \in Listed(s) \cup Listed(c) |->
                        IF e \in Listed(s) THEN ById(s)[e] ELSE ById(r)[e]]
  BY <1>1, <1>4 DEF Linked
<1>6. \A e \in Listed(s) : DocOf(e, s, ById(s)[e])
  BY ByIdIs DEF DocOf
<1>7. \A e \in Listed(c) : DocOf(e, c, ById(r)[e])
  BY <1>2, <1>3, ByIdIs DEF DocOf
<1> QED
  BY <1>5, <1>6, <1>7
-------------------------------------------------------------------------------
(* The query, step by step                                                   *)

\* What a query has in hand is made of the rows it has read.
ReadOnly ==
  /\ Len(cand) <= MaxRows
  /\ Len(then) <= MaxRows
  /\ phase # "answered" => page = <<>>
  /\ phase \in {"link", "match", "answered"} => cand = Candidates(then, query)
  /\ phase = "link" => query.q = "linked"
  /\ phase \in {"match", "answered"} =>
       IF query.q = "linked" THEN graph = Linked(later, cand) ELSE later = then
  /\ phase = "answered" =>
       /\ page = Returned(Matched(cand, query, graph), query)
       /\ total = Len(Matched(cand, query, graph))

QueryInv == TypeOK /\ ReadOnly

\* What is asked has its parts.
LEMMA QueryTyped ==
  ASSUME TypeOK
  PROVE  /\ query \in [temporal : BOOLEAN, q : {"none", "own", "linked"},
                       limit : 0 .. MaxRows, count : BOOLEAN]
         /\ query.limit \in Nat
<1> DEFINE Q == [temporal : BOOLEAN, q : {"none", "own", "linked"},
                 limit : 0 .. MaxRows, count : BOOLEAN]
<1>1. MaxRows \in 0 .. MaxRows /\ Query \subseteq Q
  BY QueryAssumption
<1>2. NoQuery \in Q
  BY <1>1 DEF NoQuery
<1>3. query \in Q
  BY <1>1, <1>2 DEF TypeOK
<1> QED
  BY <1>3

LEMMA QueryInvInit == Init => QueryInv
<1> SUFFICES ASSUME Init PROVE QueryInv
  OBVIOUS
<1>1. Len(<<>>) = 0 /\ <<>> \in Seq(Row) /\ DOMAIN <<>> = {}
  OBVIOUS
<1>2. NoQuery.limit = MaxRows /\ MaxRows \in Nat /\ MaxWrites \in Nat
  BY QueryAssumption DEF NoQuery
<1>3. TypeOK
  BY <1>1, <1>2 DEF Init, TypeOK
<1>4. ReadOnly
  BY <1>1, <1>2 DEF Init, ReadOnly
<1> QED
  BY <1>3, <1>4 DEF QueryInv

\* Others write rows, MaxRows of them at most.
LEMMA RowsTyped == TypeOK /\ Written => rows' \in Seq(Row) /\ Len(rows') <= MaxRows
<1> SUFFICES ASSUME TypeOK, Written
             PROVE  rows' \in Seq(Row) /\ Len(rows') <= MaxRows
  OBVIOUS
<1>0. rows \in Seq(Row) /\ Len(rows) \in Nat /\ Len(rows) <= MaxRows /\ MaxRows \in Nat
  BY QueryAssumption DEF TypeOK
<1>1. CASE Added
  <2>1. PICK row \in Row, i \in 1 .. Len(rows) + 1 : rows' = InsertAt(rows, i, row)
    BY <1>1 DEF Added, Row
  <2>2. PICK a \in Seq(Row) : a = SubSeq(rows, 1, i - 1) /\ Len(a) = i - 1
    <3>1. /\ 1 \in Int /\ i - 1 \in Int /\ 1 <= 1 /\ 1 <= i - 1 + 1 /\ i - 1 <= Len(rows)
          /\ i - 1 - 1 + 1 = i - 1
      BY <1>0
    <3>2. SubSeq(rows, 1, i - 1) \in Seq(Row) /\ Len(SubSeq(rows, 1, i - 1)) = i - 1 - 1 + 1
      BY <1>0, <3>1, PartIs, Zenon
    <3> QED
      BY <3>1, <3>2, Zenon
  <2>3. PICK b \in Seq(Row) : b = SubSeq(rows, i, Len(rows)) /\ Len(b) = Len(rows) - i + 1
    <3>1. i \in Int /\ 1 <= i /\ i <= Len(rows) + 1 /\ Len(rows) \in Int
      BY <1>0
    <3>2. /\ SubSeq(rows, i, Len(rows)) \in Seq(Row)
          /\ Len(SubSeq(rows, i, Len(rows))) = Len(rows) - i + 1
      BY <1>0, <3>1, PartIs
    <3> QED
      BY <3>2, Zenon
  <2>4. rows' = a \o <<row>> \o b
    BY <2>1, <2>2, <2>3 DEF InsertAt
  <2>5. PICK one \in Seq(Row) : one = <<row>> /\ Len(one) = 1
    <3>1. <<row>> \in Seq(Row) /\ Len(<<row>>) = 1
      OBVIOUS
    <3> QED
      BY <3>1, Zenon
  <2>6. PICK ab \in Seq(Row) : ab = a \o one /\ Len(ab) = i - 1 + 1
    <3>1. a \o one \in Seq(Row) /\ Len(a \o one) = Len(a) + Len(one)
      BY ConcatProperties
    <3> QED
      BY <2>2, <2>5, <3>1, Zenon
  <2>7. rows' \in Seq(Row) /\ Len(rows') = (i - 1 + 1) + (Len(rows) - i + 1)
    <3>1. ab \o b \in Seq(Row) /\ Len(ab \o b) = Len(ab) + Len(b)
      BY ConcatProperties
    <3>2. rows' = ab \o b
      BY <2>4, <2>5, <2>6, Zenon
    <3> QED
      BY <2>3, <2>6, <3>1, <3>2, Zenon
  <2>8. Len(rows') = Len(rows) + 1
    BY <1>0, <2>7
  <2> QED
    BY <1>0, <1>1, <2>7, <2>8 DEF Added
<1>2. CASE Updated
  <2>1. PICK i \in DOMAIN rows, d \in Doc : rows' = [rows EXCEPT ![i].doc = d]
    BY <1>2 DEF Updated
  <2>2. rows[i] \in Row
    BY <1>0
  <2>3. PICK row \in Row : row = [rows[i] EXCEPT !.doc = d]
    BY <2>2 DEF Row
  <2>4. rows' = [rows EXCEPT ![i] = row]
    BY <2>1, <2>3
  <2> QED
    BY <1>0, <2>4
<1>3. CASE Deleted
  <2>1. PICK i \in 1 .. Len(rows) : rows' = RemoveAt(rows, i)
    BY <1>0, <1>3 DEF Deleted
  <2>2. PICK a \in Seq(Row) : a = SubSeq(rows, 1, i - 1) /\ Len(a) = i - 1
    <3>1. /\ 1 \in Int /\ i - 1 \in Int /\ 1 <= 1 /\ 1 <= i - 1 + 1 /\ i - 1 <= Len(rows)
          /\ i - 1 - 1 + 1 = i - 1
      BY <1>0
    <3>2. SubSeq(rows, 1, i - 1) \in Seq(Row) /\ Len(SubSeq(rows, 1, i - 1)) = i - 1 - 1 + 1
      BY <1>0, <3>1, PartIs, Zenon
    <3> QED
      BY <3>1, <3>2, Zenon
  <2>3. PICK b \in Seq(Row) : b = SubSeq(rows, i + 1, Len(rows)) /\ Len(b) = Len(rows) - i
    <3>1. /\ i + 1 \in Int /\ 1 <= i + 1 /\ i + 1 <= Len(rows) + 1 /\ Len(rows) \in Int
          /\ Len(rows) <= Len(rows)
          /\ Len(rows) - (i + 1) + 1 = Len(rows) - i
      BY <1>0
    <3>2. /\ SubSeq(rows, i + 1, Len(rows)) \in Seq(Row)
          /\ Len(SubSeq(rows, i + 1, Len(rows))) = Len(rows) - (i + 1) + 1
      BY <1>0, <3>1, PartIs, Zenon
    <3> QED
      BY <3>1, <3>2, Zenon
  <2>4. rows' = a \o b
    BY <2>1, <2>2, <2>3 DEF RemoveAt
  <2>5. rows' \in Seq(Row) /\ Len(rows') = (i - 1) + (Len(rows) - i)
    <3>1. a \o b \in Seq(Row) /\ Len(a \o b) = Len(a) + Len(b)
      BY ConcatProperties
    <3> QED
      BY <2>2, <2>3, <2>4, <3>1, Zenon
  <2>6. Len(rows') = Len(rows) - 1
    BY <1>0, <2>5
  <2> QED
    BY <1>0, <2>5, <2>6
<1> QED
  BY <1>1, <1>2, <1>3 DEF Written

\* The graph has documents.
LEMMA LinkedTyped ==
  ASSUME NEW s \in Seq(Row), NEW c \in Seq(Row)
  PROVE  /\ DOMAIN Linked(s, c) \subseteq Entity
         /\ \A e \in DOMAIN Linked(s, c) : Linked(s, c)[e] \in Doc
<1>1. ASSUME NEW t \in Seq(Row)
      PROVE  (\A row \in ToSet(t) : row.doc \in Doc) /\ Listed(t) \subseteq Entity
  <2>1. \A i \in DOMAIN t : t[i] \in Row
    OBVIOUS
  <2> QED
    BY <2>1 DEF ToSet, Listed, Row
<1>2. /\ DOMAIN Linked(s, c) = Listed(s) \cup Listed(c)
      /\ \A e \in Listed(s) : DocOf(e, s, Linked(s, c)[e])
      /\ \A e \in Listed(c) \ Listed(s) : DocOf(e, c, Linked(s, c)[e])
  BY LinkedIs
<1>3. Listed(s) \subseteq Entity /\ Listed(c) \subseteq Entity
  BY <1>1
<1>4. ASSUME NEW e \in DOMAIN Linked(s, c)
      PROVE  Linked(s, c)[e] \in Doc
  <2>1. PICK row : /\ row \in ToSet(s) \/ row \in ToSet(c)
                   /\ Linked(s, c)[e] = row.doc
    BY <1>2, <1>4 DEF DocOf
  <2>2. row.doc \in Doc
    BY <1>1, <2>1
  <2> QED
    BY <2>1, <2>2
<1> QED
  BY <1>2, <1>3, <1>4

\* An answer has the rows of candidates, and entities no more than the limit.
LEMMA AnswerTyped == QueryInv /\ Match => QueryInv'
<1> SUFFICES ASSUME QueryInv, Match PROVE QueryInv'
  OBVIOUS
<1>0. cand \in Seq(Row) /\ Len(cand) <= MaxRows /\ Len(cand) \in Nat /\ MaxRows \in Nat
  BY QueryAssumption DEF QueryInv, ReadOnly, TypeOK
<1>1. PICK m \in Seq(Row) : m = Matched(cand, query, graph) /\ Len(m) <= Len(cand)
  BY <1>0, MatchedAre
<1>2. query.limit \in Nat
  BY QueryTyped DEF QueryInv
<1>3. First(query.limit, m) \in Seq(Row) /\ Len(First(query.limit, m)) <= query.limit
  BY <1>2, FirstIs
<1>4. /\ page' \in Seq(Row) /\ (~ query.temporal => Len(page') <= query.limit)
      /\ total' = Len(m)
  BY <1>1, <1>3 DEF Match, Returned
<1>5. total' \in 0 .. MaxRows
  BY <1>0, <1>1, <1>4
<1>6. TypeOK'
  BY <1>4, <1>5 DEF QueryInv, TypeOK, Match
<1>7. ReadOnly'
  BY DEF QueryInv, ReadOnly, Match
<1> QED
  BY <1>6, <1>7 DEF QueryInv

\* Writes of others leave what a query has in hand.
LEMMA QueryInvNext == QueryInv /\ [Next]_vars => QueryInv'
<1> SUFFICES ASSUME QueryInv, [Next]_vars PROVE QueryInv'
  OBVIOUS
<1>0. TypeOK /\ ReadOnly /\ MaxRows \in Nat /\ MaxWrites \in Nat
  BY QueryAssumption DEF QueryInv
<1>1. CASE Written
  <2>1. rows' \in Seq(Row) /\ Len(rows') <= MaxRows
    BY <1>0, <1>1, RowsTyped
  <2>2. writes' \in 0 .. MaxWrites
    BY <1>0, <1>1 DEF Written, TypeOK
  <2>3. TypeOK'
    BY <1>0, <1>1, <2>1, <2>2 DEF Written, asked, TypeOK
  <2>4. ReadOnly'
    BY <1>0, <1>1 DEF Written, asked, ReadOnly
  <2> QED
    BY <2>3, <2>4 DEF QueryInv
<1>2. ASSUME NEW q \in Query, Ask(q) PROVE QueryInv'
  <2>1. q.limit \in Nat
    BY <1>0, QueryAssumption
  <2>2. Len(page) = 0
    BY <1>0, <1>2 DEF Ask, ReadOnly
  <2>3. TypeOK'
    BY <1>0, <1>2, <2>1, <2>2 DEF Ask, TypeOK
  <2>4. ReadOnly'
    BY <1>0, <1>2 DEF Ask, ReadOnly
  <2> QED
    BY <2>3, <2>4 DEF QueryInv
<1>3. CASE List
  <2>1. rows \in Seq(Row) /\ Len(rows) \in Nat /\ Len(rows) <= MaxRows
    BY <1>0 DEF TypeOK
  <2>2. query.limit \in Nat /\ query.q \in {"none", "own", "linked"}
    BY <1>0, QueryTyped
  <2>3. PICK c \in Seq(Row) : c = Candidates(rows, query) /\ Len(c) <= Len(rows)
    BY <2>1, <2>2, CandidatesAre
  <2>4. cand' \in Seq(Row) /\ Len(cand') <= MaxRows
    BY <1>0, <1>3, <2>1, <2>3 DEF List
  <2>5. TypeOK'
    BY <1>0, <1>3, <2>4 DEF List, TypeOK
  <2>6. ReadOnly'
    BY <1>0, <1>3, <2>1, <2>2, <2>4 DEF List, ReadOnly
  <2> QED
    BY <2>5, <2>6 DEF QueryInv
<1>4. CASE Link
  <2>1. rows \in Seq(Row) /\ cand \in Seq(Row)
    BY <1>0 DEF TypeOK
  <2>2. DOMAIN graph' \subseteq Entity /\ \A e \in DOMAIN graph' : graph'[e] \in Doc
    BY <1>4, <2>1, LinkedTyped DEF Link
  <2>3. TypeOK'
    BY <1>0, <1>4, <2>2 DEF Link, TypeOK
  <2>4. ReadOnly'
    BY <1>0, <1>4 DEF Link, ReadOnly
  <2> QED
    BY <2>3, <2>4 DEF QueryInv
<1>5. CASE Match
  BY <1>5, AnswerTyped
<1>6. CASE Fail
  <2>1. TypeOK'
    BY <1>0, <1>6 DEF Fail, asked, TypeOK
  <2>2. ReadOnly'
    BY <1>0, <1>6 DEF Fail, asked, ReadOnly
  <2> QED
    BY <2>1, <2>2 DEF QueryInv
<1>7. CASE UNCHANGED vars
  <2>1. TypeOK'
    BY <1>0, <1>7 DEF vars, asked, TypeOK
  <2>2. ReadOnly'
    BY <1>0, <1>7 DEF vars, asked, ReadOnly
  <2> QED
    BY <2>1, <2>2 DEF QueryInv
<1> QED
  BY <1>1, <1>2, <1>3, <1>4, <1>5, <1>6, <1>7 DEF Next

\* Types, and a page of entities is no longer than its limit, for any rows,
\* documents and limits, also where the repository was not told of it.
THEOREM TypeCorrect == Spec => []TypeOK
<1>1. QueryInv => TypeOK
  BY DEF QueryInv
<1> QED
  BY <1>1, QueryInvInit, QueryInvNext, PTL DEF Spec
-------------------------------------------------------------------------------
(* The answer and the meaning of the query                                   *)

\* Where a link may have led, by the entities listed the second time.
LEMMA TargetsAre ==
  ASSUME NEW row
  PROVE  /\ row.doc.ref \in Listed(later) =>
              Targets(row) = {t \in ToSet(later) : t.id = row.doc.ref}
         /\ row.doc.ref \notin Listed(later) =>
              Targets(row) = {t \in Selected(then) : t.id = row.doc.ref}
<1>1. row.doc.ref \in Listed(later) <=> \E t \in ToSet(later) : t.id = row.doc.ref
  BY DEF Listed, ToSet
<1> QED
  BY <1>1 DEF Targets, Selected

\* What was read when the query is answered.
LEMMA AnswerReads ==
  ASSUME QueryInv, Answered
  PROVE  /\ then \in Seq(Row) /\ later \in Seq(Row) /\ cand \in Seq(Row) /\ page \in Seq(Row)
         /\ query.q \in {"none", "own", "linked"} /\ query.limit \in Nat
         /\ query.temporal \in BOOLEAN /\ query.count \in BOOLEAN
         /\ cand = Candidates(then, query)
         /\ query.q = "linked" => graph = Linked(later, cand)
         /\ page = Returned(Matched(cand, query, graph), query)
         /\ total = Len(Matched(cand, query, graph))
BY QueryTyped DEF QueryInv, ReadOnly, TypeOK, Answered

\* The candidates, when the query is answered.
LEMMA AnswerCandidates ==
  ASSUME QueryInv, Answered
  PROVE  /\ ToSet(cand) \subseteq Selected(then)
         /\ ~ Pushed(query) => Listed(cand) = IdsOf(Selected(then))
         /\ ~ query.temporal => Distinct(cand)
         /\ Distinct(then) =>
              /\ Distinct(cand)
              /\ ~ Pushed(query) => ToSet(cand) = Selected(then)
              /\ Pushed(query) => Len(cand)
                                    = Least(query.limit, Cardinality(IdsOf(Selected(then))))
<1>1. then \in Seq(Row) /\ query.limit \in Nat /\ cand = Candidates(then, query)
  BY AnswerReads
<1> QED
  BY <1>1, CandidatesAre

\* The graph, when the query is answered: an entity has the document of a row
\* it may have led to.
LEMMA AnswerGraph ==
  ASSUME QueryInv, Answered, query.q = "linked", NEW row
  PROVE  /\ row.doc.ref \in DOMAIN graph =>
              \E t \in Targets(row) : graph[row.doc.ref] = t.doc
         /\ Targets(row) # {} => row.doc.ref \in DOMAIN graph
<1>1. /\ DOMAIN graph = Listed(later) \cup Listed(cand)
      /\ \A e \in Listed(later) : DocOf(e, later, graph[e])
      /\ \A e \in Listed(cand) \ Listed(later) : DocOf(e, cand, graph[e])
  <2>1. later \in Seq(Row) /\ cand \in Seq(Row) /\ graph = Linked(later, cand)
    BY AnswerReads
  <2> QED
    BY <2>1, LinkedIs
<1>2. ~ Pushed(query)
  BY DEF Pushed
<1>3. ToSet(cand) \subseteq Selected(then) /\ Listed(cand) = IdsOf(Selected(then))
  BY <1>2, AnswerCandidates
<1>4. CASE row.doc.ref \in Listed(later)
  <2>1. Targets(row) = {t \in ToSet(later) : t.id = row.doc.ref}
    BY <1>4, TargetsAre
  <2>2. DocOf(row.doc.ref, later, graph[row.doc.ref])
    BY <1>1, <1>4
  <2> QED
    BY <1>1, <1>4, <2>1, <2>2 DEF DocOf
<1>5. CASE row.doc.ref \notin Listed(later)
  <2>1. Targets(row) = {t \in Selected(then) : t.id = row.doc.ref}
    BY <1>5, TargetsAre
  <2>2. row.doc.ref \in Listed(cand) => DocOf(row.doc.ref, cand, graph[row.doc.ref])
    BY <1>1, <1>5
  <2>3. Targets(row) # {} => row.doc.ref \in Listed(cand)
    BY <1>3, <2>1 DEF IdsOf
  <2> QED
    BY <1>1, <1>3, <1>5, <2>1, <2>2, <2>3 DEF DocOf
<1> QED
  BY <1>4, <1>5

\* Who matches may match by what was read, and who must match does.
LEMMA MatchesMean ==
  ASSUME QueryInv, Answered, NEW row
  PROVE  /\ Matches(row, query, graph) => May(row)
         /\ Must(row) => Matches(row, query, graph)
<1>1. query.q \in {"none", "own", "linked"}
  BY AnswerReads
<1>2. CASE query.q = "none"
  BY <1>2 DEF Matches, May, Must
<1>3. CASE query.q = "own"
  BY <1>3 DEF Matches, May, Must
<1>4. CASE query.q = "linked"
  <2>1. /\ row.doc.ref \in DOMAIN graph =>
             \E t \in Targets(row) : graph[row.doc.ref] = t.doc
        /\ Targets(row) # {} => row.doc.ref \in DOMAIN graph
    BY <1>4, AnswerGraph
  <2>2. May(row) <=> row.doc.keep /\ \E t \in Targets(row) : t.doc.holds
    BY <1>4 DEF May
  <2>3. Must(row) <=> May(row) /\ \A t \in Targets(row) : t.doc.holds
    BY <1>4 DEF Must
  <2>4. Matches(row, query, graph)
          <=> row.doc.keep /\ row.doc.ref \in DOMAIN graph /\ graph[row.doc.ref].holds
    BY <1>4 DEF Matches
  <2> QED
    BY <2>1, <2>2, <2>3, <2>4
<1> QED
  BY <1>1, <1>2, <1>3, <1>4

\* The matches, when the query is answered.
LEMMA AnswerMatches ==
  ASSUME QueryInv, Answered
  PROVE  \E m \in Seq(Row) :
           /\ ToSet(m) = {row \in ToSet(cand) : Matches(row, query, graph)}
           /\ Distinct(cand) => Distinct(m)
           /\ page = IF query.temporal THEN m ELSE First(query.limit, m)
           /\ total = Len(m)
<1>1. PICK m \in Seq(Row) : m = Matched(cand, query, graph)
  BY AnswerReads, MatchedAre
<1>2. /\ ToSet(m) = {row \in ToSet(cand) : Matches(row, query, graph)}
      /\ Distinct(cand) => Distinct(m)
  <2>1. cand \in Seq(Row)
    BY AnswerReads
  <2> QED
    BY <1>1, <2>1, MatchedAre
<1>3. page = IF query.temporal THEN m ELSE First(query.limit, m)
  BY <1>1, AnswerReads DEF Returned
<1>4. total = Len(m)
  BY <1>1, AnswerReads
<1> QED
  BY <1>2, <1>3, <1>4

\* What is returned was listed, and matches by what was read.
LEMMA AnswerTruthful == QueryInv => Truthful
<1> SUFFICES ASSUME QueryInv, Answered, NEW row \in ToSet(page)
             PROVE  row \in ToSet(then) /\ May(row)
  BY DEF Truthful
<1>1. PICK m \in Seq(Row) :
        /\ ToSet(m) = {r \in ToSet(cand) : Matches(r, query, graph)}
        /\ page = IF query.temporal THEN m ELSE First(query.limit, m)
  BY AnswerMatches
<1>2. query.limit \in Nat
  BY AnswerReads
<1>3. ToSet(First(query.limit, m)) \subseteq ToSet(m)
  BY <1>2, FirstIs
<1>4. row \in ToSet(cand) /\ Matches(row, query, graph)
  BY <1>1, <1>3
<1>5. row \in Selected(then)
  BY <1>4, AnswerCandidates
<1> QED
  BY <1>4, <1>5, MatchesMean DEF Selected

\* Whatever is written while a query runs, and however many rows an entity has,
\* what is returned had that document when it was listed, and matched.
THEOREM TruthfulAlways == Spec => []Truthful
BY AnswerTruthful, QueryInvInit, QueryInvNext, PTL DEF Spec
-------------------------------------------------------------------------------
(* Counts                                                                    *)

\* A list has finitely many entities.
LEMMA ListedFinite ==
  ASSUME NEW S, NEW s \in Seq(S), NEW E \in SUBSET Listed(s)
  PROVE  IsFiniteSet(E) /\ Cardinality(E) \in Nat
<1>1. PICK t \in Seq(S) : Distinct(t) /\ Listed(t) = Listed(s)
  BY DedupeIs
<1>2. IsFiniteSet(Listed(s))
  BY <1>1, DistinctCount
<1> QED
  BY <1>2, FS_Subset, FS_CardinalityType

\* An entity is counted once, if it must be, and not if it may not.
LEMMA AnswerCounts == QueryInv => CountsOnce
<1> SUFFICES ASSUME QueryInv, Answered, ~ query.temporal PROVE CountsOnce
  BY DEF CountsOnce
<1> DEFINE may  == IdsOf({row \in Selected(then) : May(row)})
           must == may \ IdsOf({row \in Selected(then) : ~ Must(row)})
<1>1. PICK m \in Seq(Row) :
        /\ ToSet(m) = {row \in ToSet(cand) : Matches(row, query, graph)}
        /\ Distinct(cand) => Distinct(m)
        /\ page = IF query.temporal THEN m ELSE First(query.limit, m)
        /\ total = Len(m)
  BY AnswerMatches
<1>2. Distinct(m)
  BY <1>1, AnswerCandidates
<1>3. Distinct(page)
  <2>1. query.limit \in Nat
    BY AnswerReads
  <2>2. Distinct(First(query.limit, m))
    BY <1>2, <2>1, FirstIs
  <2> QED
    BY <1>1, <2>2
<1>4. ASSUME query.count
      PROVE  Cardinality(must) <= total /\ total <= Cardinality(may)
  <2>1. Listed(cand) = IdsOf(Selected(then)) /\ ToSet(cand) \subseteq Selected(then)
    <3>1. ~ Pushed(query)
      BY <1>4 DEF Pushed
    <3> QED
      BY <3>1, AnswerCandidates
  <2>2. Listed(m) \subseteq may
    <3>1. Listed(m) = IdsOf(ToSet(m))
      BY ListedIs
    <3> QED
      BY <1>1, <2>1, <3>1, MatchesMean DEF IdsOf
  <2>3. must \subseteq Listed(m)
    <3> SUFFICES ASSUME NEW e \in must PROVE e \in Listed(m)
      OBVIOUS
    <3>1. e \in Listed(cand)
      BY <2>1 DEF IdsOf
    <3>2. PICK row \in ToSet(cand) : row.id = e
      BY <3>1 DEF Listed, ToSet
    <3>3. Must(row)
      BY <2>1, <3>2 DEF IdsOf
    <3>4. row \in ToSet(m)
      BY <1>1, <3>2, <3>3, MatchesMean
    <3>5. Listed(m) = IdsOf(ToSet(m))
      BY ListedIs
    <3> QED
      BY <3>2, <3>4, <3>5 DEF IdsOf
  <2>4. may \in SUBSET Listed(then)
    <3>1. Listed(then) = IdsOf(ToSet(then))
      BY ListedIs
    <3> QED
      BY <3>1 DEF IdsOf, Selected
  <2>5. IsFiniteSet(may) /\ Cardinality(may) \in Nat
    <3>1. then \in Seq(Row)
      BY AnswerReads
    <3> HIDE DEF may
    <3> QED
      BY <2>4, <3>1, ListedFinite
  <2>6. IsFiniteSet(Listed(m)) /\ Cardinality(Listed(m)) = total
    BY <1>1, <1>2, DistinctCount
  <2> HIDE DEF may, must
  <2>7. Cardinality(must) <= Cardinality(Listed(m))
    BY <2>3, <2>6, FS_Subset
  <2>8. Cardinality(Listed(m)) <= Cardinality(may)
    BY <2>2, <2>5, FS_Subset
  <2> QED
    BY <2>6, <2>7, <2>8
<1>5. \A i, j \in DOMAIN page : page[i].id = page[j].id => i = j
  BY <1>3 DEF Distinct
<1> QED
  BY <1>4, <1>5 DEF CountsOnce, Selected

\* With any number of rows of an entity, a query of entities returns and counts
\* it once.
THEOREM CountsOnceAlways == Spec => []CountsOnce
BY AnswerCounts, QueryInvInit, QueryInvNext, PTL DEF Spec
-------------------------------------------------------------------------------
(* A store that stands still                                                 *)

\* With one row of each entity, all of them listed at once, what may match must.
LEMMA MayIsMust ==
  ASSUME later = then, Distinct(then), NEW row, May(row),
         query.q \in {"none", "own", "linked"}
  PROVE  Must(row)
<1>1. CASE query.q # "linked"
  BY <1>1 DEF Must
<1>2. CASE query.q = "linked"
  <2>1. \A t, u \in ToSet(then) : t.id = u.id => t = u
    BY DEF Distinct, ToSet
  <2>2. \A t, u \in Targets(row) : t = u
    BY <2>1, TargetsAre DEF Selected
  <2>3. \E t \in Targets(row) : t.doc.holds
    BY <1>2 DEF May
  <2> QED
    BY <2>2, <2>3 DEF Must
<1> QED
  BY <1>1, <1>2

\* The answer has the entities that the query means.
LEMMA AnswerSnapshot == QueryInv => AnswersSnapshot
<1> SUFFICES ASSUME QueryInv, Answered, later = then, Distinct(then)
             PROVE  LET all == IdsOf({row \in ToSet(then) : May(row)})
                        ids == IdsOf(ToSet(page)) IN
                    /\ ids \subseteq all
                    /\ ~ query.temporal =>
                         Cardinality(ids) = Least(query.limit, Cardinality(all))
                    /\ query.temporal /\ ~ Pushed(query) => ids = all
                    /\ query.count => total = Cardinality(all)
  BY DEF AnswersSnapshot, Distinct
<1> DEFINE all == IdsOf({row \in ToSet(then) : May(row)})
<1>1. PICK m \in Seq(Row) :
        /\ ToSet(m) = {row \in ToSet(cand) : Matches(row, query, graph)}
        /\ Distinct(cand) => Distinct(m)
        /\ page = IF query.temporal THEN m ELSE First(query.limit, m)
        /\ total = Len(m)
  BY AnswerMatches
<1>2. /\ then \in Seq(Row) /\ cand \in Seq(Row) /\ query.limit \in Nat
      /\ query.q \in {"none", "own", "linked"}
  BY AnswerReads
<1>3. Distinct(cand) /\ Distinct(m)
  BY <1>1, AnswerCandidates
<1>4. \A row : Matches(row, query, graph) <=> May(row)
  BY <1>2, MatchesMean, MayIsMust
<1>5. \A row : May(row) => row.doc.keep
  BY DEF May
<1>6. IsFiniteSet(all) /\ Cardinality(all) \in Nat
  <2>1. all \in SUBSET Listed(then)
    <3>1. Listed(then) = IdsOf(ToSet(then))
      BY ListedIs
    <3> QED
      BY <3>1 DEF IdsOf
  <2> HIDE DEF all
  <2> QED
    BY <1>2, <2>1, ListedFinite
<1>7. Listed(m) = IdsOf(ToSet(m)) /\ Listed(page) = IdsOf(ToSet(page))
  BY ListedIs
<1>8. Cardinality(Listed(m)) = Len(m) /\ Len(m) \in Nat
  BY <1>3, DistinctCount
<1>9. ASSUME ~ Pushed(query)
      PROVE  Listed(m) = all
  <2>1. ToSet(cand) = Selected(then)
    BY <1>9, AnswerCandidates
  <2>2. ToSet(m) = {row \in ToSet(then) : May(row)}
    BY <1>1, <1>4, <1>5, <2>1 DEF Selected
  <2> QED
    BY <1>7, <2>2
<1>10. ASSUME Pushed(query)
       PROVE  Listed(m) \subseteq all /\ Len(m) = Least(query.limit, Cardinality(all))
  <2>1. \A row : May(row) <=> row.doc.keep
    BY <1>10 DEF Pushed, May
  <2>2. all = IdsOf(Selected(then))
    BY <2>1 DEF Selected
  <2>3. ToSet(cand) \subseteq Selected(then) /\ Len(cand) = Least(query.limit, Cardinality(all))
    BY <1>10, <2>2, AnswerCandidates
  <2>4. ToSet(m) = ToSet(cand)
    BY <1>1, <1>4, <2>1, <2>3 DEF Selected
  <2>5. Listed(m) = Listed(cand)
    BY <2>4, ListedIs
  <2>6. Cardinality(Listed(cand)) = Len(cand)
    BY <1>2, <1>3, DistinctCount
  <2>7. Listed(m) \subseteq all
    BY <1>7, <2>2, <2>3, <2>4 DEF IdsOf
  <2> QED
    BY <1>8, <2>3, <2>5, <2>6, <2>7
<1>11. CASE query.temporal
  <2>1. Listed(page) = Listed(m)
    BY <1>1, <1>11
  <2>2. query.count => ~ Pushed(query)
    BY DEF Pushed
  <2> HIDE DEF all
  <2>3. /\ IdsOf(ToSet(page)) \subseteq all
        /\ ~ Pushed(query) => IdsOf(ToSet(page)) = all
        /\ query.count => total = Cardinality(all)
    BY <1>1, <1>7, <1>8, <1>9, <1>10, <2>1, <2>2
  <2> QED
    BY <1>11, <2>3 DEF all
<1>12. CASE ~ query.temporal
  <2>1. PICK p \in Seq(Row) : p = First(query.limit, m) /\ p = page
    BY <1>1, <1>2, <1>12, FirstIs
  <2>2. Len(p) = Least(query.limit, Len(m)) /\ ToSet(p) \subseteq ToSet(m) /\ Distinct(p)
    BY <1>2, <1>3, <2>1, FirstIs
  <2>3. Cardinality(Listed(page)) = Len(p)
    BY <2>1, <2>2, DistinctCount
  <2>4. Listed(page) \subseteq Listed(m)
    BY <1>7, <2>1, <2>2 DEF IdsOf
  <2>5. query.count => ~ Pushed(query)
    BY DEF Pushed
  <2> HIDE DEF all
  <2>6. Len(m) = Cardinality(all) \/ Len(m) = Least(query.limit, Cardinality(all))
    BY <1>8, <1>9, <1>10
  <2>7. Least(query.limit, Len(m)) = Least(query.limit, Cardinality(all))
    BY <1>2, <1>6, <1>8, <2>6 DEF Least
  <2>8. /\ IdsOf(ToSet(page)) \subseteq all
        /\ Cardinality(IdsOf(ToSet(page))) = Least(query.limit, Cardinality(all))
        /\ query.count => total = Cardinality(all)
    BY <1>1, <1>7, <1>8, <1>9, <1>10, <2>2, <2>3, <2>4, <2>5, <2>7
  <2> QED
    BY <1>12, <2>8 DEF all
<1> QED
  BY <1>11, <1>12

\* Of a store with one row of each entity that stands still, the page and the
\* count are those the query means, whatever its limit, its q and its rows.
THEOREM SnapshotAnswered == Spec => []AnswersSnapshot
BY AnswerSnapshot, QueryInvInit, QueryInvNext, PTL DEF Spec
===============================================================================
