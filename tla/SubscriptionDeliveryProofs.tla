----------------------- MODULE SubscriptionDeliveryProofs -----------------------
(***************************************************************************)
(* The counters of a subscription never exceed what was posted, for any    *)
(* requests, tasks and bounds (NeverOvercounted, TypeOK).                  *)
(*                                                                         *)
(* That is not inductive: a counter read before a delivery is written      *)
(* after it.  The strengthening is a ledger.  It gives every notification  *)
(* that was posted to one owner: to the task that still owes it to the     *)
(* document, or to nobody, once that task has finished.  Then a document   *)
(* shows no more than what is nobody's, and a copy that a task has added   *)
(* its own counts to no more than what is nobody's or its own.  There is   *)
(* one ledger of the notifications that were accepted and one of those     *)
(* that failed.                                                            *)
(*                                                                         *)
(* And as long as no read fell between another's read and write, each step *)
(* is one of the in-memory repository or changes nothing there             *)
(* (AloneImplementsMap): there is one row, and who is about to write it    *)
(* holds the change of the row as it is (Alone).                           *)
(***************************************************************************)
EXTENDS SubscriptionDelivery, FiniteSetTheorems, TLAPS

\* The owners of n notifications.
Nobody == CHOOSE x : x \notin Worker
Owners == Worker \cup {Nobody}
LedgerOf(n) == [1 .. n -> Owners]

\* How many notifications of a ledger belong to one of W.
Items(own, W) == {i \in DOMAIN own : own[i] \in W}
Owned(own, W) == Cardinality(Items(own, W))

LEMMA ItemsFinite ==
  ASSUME NEW n \in Nat, NEW own \in LedgerOf(n), NEW W
  PROVE  /\ IsFiniteSet(Items(own, W))
         /\ Owned(own, W) \in Nat /\ Owned(own, W) <= n
<1>1. IsFiniteSet(1 .. n) /\ Cardinality(1 .. n) = n
  BY FS_Interval
<1>2. Items(own, W) \in SUBSET (1 .. n)
  BY DEF Items, LedgerOf
<1> QED
  BY <1>1, <1>2, FS_Subset, FS_CardinalityType DEF Owned

LEMMA OwnedGrows ==
  ASSUME NEW n \in Nat, NEW own \in LedgerOf(n), NEW V, NEW W,
         Items(own, V) \subseteq Items(own, W)
  PROVE  Owned(own, V) <= Owned(own, W)
<1>1. IsFiniteSet(Items(own, W))
  BY ItemsFinite
<1> QED
  BY <1>1, FS_Subset DEF Owned

\* What two owners have is theirs together.
LEMMA OwnedTogether ==
  ASSUME NEW n \in Nat, NEW own \in LedgerOf(n), NEW x, NEW y, x # y
  PROVE  Owned(own, {x, y}) = Owned(own, {x}) + Owned(own, {y})
<1>1. /\ IsFiniteSet(Items(own, {x})) /\ IsFiniteSet(Items(own, {y}))
      /\ Owned(own, {x}) \in Nat /\ Owned(own, {y}) \in Nat
  BY ItemsFinite
<1>2. Items(own, {x, y}) = Items(own, {x}) \cup Items(own, {y})
  BY DEF Items
<1>3. Items(own, {x}) \cap Items(own, {y}) = {}
  BY DEF Items
<1>4. Cardinality({}) = 0
  BY FS_EmptySet
<1>5. Cardinality(Items(own, {x}) \cup Items(own, {y})) =
        Cardinality(Items(own, {x})) + Cardinality(Items(own, {y}))
          - Cardinality(Items(own, {x}) \cap Items(own, {y}))
  BY <1>1, FS_Union
<1>6. Owned(own, {x, y}) = Owned(own, {x}) + Owned(own, {y}) - 0
  BY <1>2, <1>3, <1>4, <1>5 DEF Owned
<1> QED
  BY <1>1, <1>6

\* One more notification, owed by w.
Extended(n, own, w) == [i \in 1 .. n + 1 |-> IF i = n + 1 THEN w ELSE own[i]]

LEMMA OwnedExtended ==
  ASSUME NEW n \in Nat, NEW own \in LedgerOf(n), NEW w \in Owners, NEW W,
         NEW new, new = Extended(n, own, w)
  PROVE  /\ new \in LedgerOf(n + 1)
         /\ w \in W => Owned(new, W) = Owned(own, W) + 1
         /\ w \notin W => Owned(new, W) = Owned(own, W)
<1>1. new \in LedgerOf(n + 1)
  BY DEF Extended, LedgerOf
<1>2. Items(new, W) = IF w \in W THEN Items(own, W) \cup {n + 1} ELSE Items(own, W)
  BY DEF Items, Extended, LedgerOf
<1>3. n + 1 \notin Items(own, W)
  BY DEF Items, LedgerOf
<1>4. IsFiniteSet(Items(own, W))
  BY ItemsFinite
<1>5. Cardinality(Items(own, W) \cup {n + 1}) = Cardinality(Items(own, W)) + 1
  BY <1>3, <1>4, FS_AddElement
<1> QED
  BY <1>1, <1>2, <1>5 DEF Owned

LEMMA OneMore ==
  ASSUME NEW n \in Nat, NEW own \in LedgerOf(n), NEW w \in Owners
  PROVE  \E new \in LedgerOf(n + 1) : \A W :
           /\ Owned(own, W) \in Nat
           /\ Owned(new, W) = Owned(own, W) + (IF w \in W THEN 1 ELSE 0)
<1>1. PICK new : new = Extended(n, own, w)
  OBVIOUS
<1>2. new \in LedgerOf(n + 1)
  BY <1>1, OwnedExtended
<1>3. ASSUME NEW W
      PROVE  /\ Owned(own, W) \in Nat
             /\ Owned(new, W) = Owned(own, W) + (IF w \in W THEN 1 ELSE 0)
  <2>1. Owned(own, W) \in Nat
    BY ItemsFinite
  <2>2. /\ w \in W => Owned(new, W) = Owned(own, W) + 1
        /\ w \notin W => Owned(new, W) = Owned(own, W)
    BY <1>1, OwnedExtended
  <2> QED
    BY <2>1, <2>2
<1> QED
  BY <1>2, <1>3

\* What w owed becomes z's.
Passed(own, w, z) == [i \in DOMAIN own |-> IF own[i] = w THEN z ELSE own[i]]

LEMMA OwnedPassed ==
  ASSUME NEW n \in Nat, NEW own \in LedgerOf(n), NEW w \in Owners, NEW z \in Owners, w # z,
         NEW new, new = Passed(own, w, z)
  PROVE  /\ new \in LedgerOf(n)
         /\ Owned(new, {z}) = Owned(own, {z, w})
         /\ Owned(new, {z}) >= Owned(own, {z})
         /\ \A v \in Owners \ {w, z} :
              /\ Owned(new, {v}) = Owned(own, {v})
              /\ Owned(new, {z, v}) >= Owned(own, {z, v})
<1>1. new \in LedgerOf(n)
  BY DEF Passed, LedgerOf
<1>2. \A i \in 1 .. n : new[i] = IF own[i] = w THEN z ELSE own[i]
  BY DEF Passed, LedgerOf
<1>3. Items(new, {z}) = Items(own, {z, w})
  BY <1>1, <1>2 DEF Items, LedgerOf
<1>4. Owned(new, {z}) = Owned(own, {z, w})
  BY <1>3 DEF Owned
<1>5. Owned(own, {z, w}) >= Owned(own, {z})
  <2>1. Items(own, {z}) \subseteq Items(own, {z, w})
    BY DEF Items
  <2> QED
    BY <2>1, OwnedGrows, ItemsFinite
<1>6. ASSUME NEW v \in Owners \ {w, z}
      PROVE  Owned(new, {v}) = Owned(own, {v}) /\ Owned(new, {z, v}) >= Owned(own, {z, v})
  <2>1. Items(new, {v}) = Items(own, {v})
    BY <1>1, <1>2 DEF Items, LedgerOf
  <2>2. Items(own, {z, v}) \subseteq Items(new, {z, v})
    BY <1>1, <1>2 DEF Items, LedgerOf
  <2>3. IsFiniteSet(Items(new, {z, v})) /\ Owned(new, {z, v}) \in Nat /\ Owned(own, {z, v}) \in Nat
    BY <1>1, ItemsFinite
  <2> QED
    BY <2>1, <2>2, <2>3, FS_Subset DEF Owned
<1>7. Owned(new, {z}) >= Owned(own, {z})
  BY <1>4, <1>5
<1> QED
  BY <1>1, <1>4, <1>6, <1>7

-------------------------------------------------------------------------------
(* The invariant.                                                            *)

Kinds == {"ok", "bad"}
Part(d, k)    == IF k = "ok" THEN d.ok ELSE d.bad
Shown(doc, k) == IF k = "ok" THEN doc.sent - doc.failed ELSE doc.failed
Posted(k)     == IF k = "ok" THEN posts - failedPosts ELSE failedPosts

\* p has changed its copy and not yet written it.
Holds(p) == pc[p] \in {"find", "write", "add"}
Share(p) == IF p \in Worker THEN {Nobody, p} ELSE {Nobody}

\* A ledger that accounts for all that is shown and due.
Accounts(own, k) ==
  /\ own \in LedgerOf(Posted(k))
  /\ \A w \in Worker : Part(due[w], k) <= Owned(own, {w})
  /\ \A row \in rows : Shown(row.doc, k) <= Owned(own, {Nobody})
  /\ \A p \in Process : Holds(p) => Shown(copy[p], k) <= Owned(own, Share(p))

Ledger == \A k \in Kinds : \E own : Accounts(own, k)

\* TypeOK without the bounds of the counters, which rest on the ledger.
Counted == [patches : SUBSET Client, sent : Nat, failed : Nat]

TypeInv ==
  /\ rows \subseteq [id : 1 .. made, doc : Counted]
  /\ \A x, y \in rows : x.id = y.id => x = y
  /\ made \in 0 .. MaxRows
  /\ pc \in [Process -> {"idle", "check", "get", "lookup", "deliver", "find", "write",
                         "add", "remove", "done"}]
  /\ copy \in [Process -> Counted]
  /\ target \in [Process -> 0 .. made]
  /\ listed \in [Worker -> BOOLEAN]
  /\ due \in [Worker -> [ok : Nat, bad : Nat]]
  /\ reply \in [Client -> {"none", "ok", "exists", "missing", "error"}]
  /\ gone \in BOOLEAN /\ crossed \in BOOLEAN
  /\ posts \in 0 .. MaxPosts /\ failedPosts \in 0 .. posts
  /\ failures \in 0 .. MaxFailures

\* A copy nobody writes any more shows no more than was posted either.
CopiesPosted ==
  \A p \in Process : copy[p].sent <= posts /\ copy[p].failed <= failedPosts

CountInv == TypeInv /\ Ledger /\ CopiesPosted

LEMMA NobodyElse == Nobody \notin Worker
BY NoSetContainsEverything DEF Nobody

LEMMA PostedNat ==
  ASSUME TypeInv, NEW k \in Kinds
  PROVE  Posted(k) \in Nat
BY DeliveryAssumption DEF TypeInv, Kinds, Posted

LEMMA ShownOwned ==
  ASSUME TypeInv, NEW k \in Kinds, NEW own, Accounts(own, k), NEW W
  PROVE  Owned(own, W) \in Nat /\ Owned(own, W) <= Posted(k)
BY PostedNat, ItemsFinite DEF Accounts

\* What nobody and a task have together is no more than what was posted.
LEMMA LedgerBounds ==
  ASSUME TypeInv, Ledger
  PROVE  /\ \A w \in Worker : due[w].ok <= posts - failedPosts /\ due[w].bad <= failedPosts
         /\ \A row \in rows : /\ row.doc.sent - row.doc.failed <= posts - failedPosts
                              /\ row.doc.failed <= failedPosts
                              /\ row.doc.sent <= posts
         /\ \A p \in Process : Holds(p) => /\ copy[p].sent <= posts
                                           /\ copy[p].failed <= failedPosts
<1>1. PICK ok : Accounts(ok, "ok")
  BY DEF Ledger, Kinds
<1>2. PICK bad : Accounts(bad, "bad")
  BY DEF Ledger, Kinds
<1>3. \A W : Owned(ok, W) \in Nat /\ Owned(ok, W) <= posts - failedPosts
  BY <1>1, ShownOwned DEF Kinds, Posted
<1>4. \A W : Owned(bad, W) \in Nat /\ Owned(bad, W) <= failedPosts
  BY <1>2, ShownOwned DEF Kinds, Posted
<1>5. posts \in Nat /\ failedPosts \in Nat
  BY DEF TypeInv
<1>6. ASSUME NEW w \in Worker
      PROVE  due[w].ok <= posts - failedPosts /\ due[w].bad <= failedPosts
  <2>1. due[w].ok \in Nat /\ due[w].bad \in Nat
    BY DEF TypeInv
  <2>2. due[w].ok <= Owned(ok, {w}) /\ due[w].bad <= Owned(bad, {w})
    BY <1>1, <1>2 DEF Accounts, Part
  <2> QED
    BY <2>1, <2>2, <1>3, <1>4, <1>5
<1>7. ASSUME NEW row \in rows
      PROVE  /\ row.doc.sent - row.doc.failed <= posts - failedPosts
             /\ row.doc.failed <= failedPosts
             /\ row.doc.sent <= posts
  <2>1. row.doc.sent \in Nat /\ row.doc.failed \in Nat
    BY DEF TypeInv, Counted
  <2>2. /\ row.doc.sent - row.doc.failed <= Owned(ok, {Nobody})
        /\ row.doc.failed <= Owned(bad, {Nobody})
    BY <1>1, <1>2 DEF Accounts, Shown
  <2> QED
    BY <2>1, <2>2, <1>3, <1>4, <1>5
<1>8. ASSUME NEW p \in Process, Holds(p)
      PROVE  copy[p].sent <= posts /\ copy[p].failed <= failedPosts
  <2>1. copy[p].sent \in Nat /\ copy[p].failed \in Nat
    BY DEF TypeInv, Counted
  <2>2. /\ copy[p].sent - copy[p].failed <= Owned(ok, Share(p))
        /\ copy[p].failed <= Owned(bad, Share(p))
    BY <1>1, <1>2, <1>8 DEF Accounts, Shown
  <2> QED
    BY <2>1, <2>2, <1>3, <1>4, <1>5
<1> QED
  BY <1>6, <1>7, <1>8

\* Nothing is posted, and p does not end.
LEMMA LedgerKept ==
  ASSUME TypeInv, NEW k \in Kinds, NEW own, Accounts(own, k),
         UNCHANGED <<due, posts, failedPosts>>,
         \A row \in rows' : \/ \E old \in rows : old.doc = row.doc
                            \/ Shown(row.doc, k) <= Owned(own, {Nobody}),
         \A p \in Process : Holds(p)' => \/ Holds(p) /\ copy'[p] = copy[p]
                                         \/ Shown(copy'[p], k) <= Owned(own, Share(p))
  PROVE  Accounts(own, k)'
<1>1. \A row \in rows' : Shown(row.doc, k) <= Owned(own, {Nobody})
  BY DEF Accounts
<1>2. \A p \in Process : Holds(p)' => Shown(copy'[p], k) <= Owned(own, Share(p))
  BY DEF Accounts
<1> QED
  BY <1>1, <1>2 DEF Accounts, Posted, Owned, Items, Share

\* w is through: what it owed becomes nobody's, and w may have written it.
LEMMA LedgerPassed ==
  ASSUME TypeInv, NEW k \in Kinds, NEW own, Accounts(own, k), NEW w \in Worker,
         UNCHANGED <<posts, failedPosts, copy>>,
         due' = [due EXCEPT ![w] = Map!NothingDue],
         \A row \in rows' : \/ \E old \in rows : old.doc = row.doc
                            \/ Holds(w) /\ row.doc = copy[w],
         \A p \in Process : Holds(p)' => Holds(p) /\ p # w
  PROVE  \E new : Accounts(new, k)'
<1> DEFINE new == Passed(own, w, Nobody)
<1>1. /\ new \in LedgerOf(Posted(k))
      /\ Owned(new, {Nobody}) = Owned(own, {Nobody, w})
      /\ Owned(new, {Nobody}) >= Owned(own, {Nobody})
      /\ \A v \in Owners \ {w, Nobody} :
           /\ Owned(new, {v}) = Owned(own, {v})
           /\ Owned(new, {Nobody, v}) >= Owned(own, {Nobody, v})
  BY PostedNat, OwnedPassed, NobodyElse DEF Accounts, Owners
<1> HIDE DEF new
<1>2. \A W : Owned(own, W) \in Nat
  BY ShownOwned
<1>3. \A W : Owned(new, W) \in Nat
  BY <1>1, PostedNat, ItemsFinite
<1>4. new \in LedgerOf(Posted(k)')
  BY <1>1 DEF Posted
<1>5. \A v \in Worker : Part(due'[v], k) <= Owned(new, {v})
  <2>1. Part(due'[w], k) <= Owned(new, {w})
    BY <1>3 DEF TypeInv, Part, Map!NothingDue
  <2>2. ASSUME NEW v \in Worker, v # w
        PROVE  Part(due'[v], k) <= Owned(new, {v})
    BY <1>1, <2>2, NobodyElse DEF TypeInv, Accounts, Owners
  <2> QED
    BY <2>1, <2>2
<1>6. ASSUME NEW row \in rows'
      PROVE  Shown(row.doc, k) <= Owned(new, {Nobody})
  <2>1. CASE \E old \in rows : old.doc = row.doc
    <3>1. PICK old \in rows : old.doc = row.doc
      BY <2>1
    <3>2. Shown(old.doc, k) <= Owned(own, {Nobody})
      BY DEF Accounts
    <3>3. Shown(old.doc, k) \in Int
      BY DEF TypeInv, Shown, Counted
    <3> QED
      BY <3>1, <3>2, <3>3, <1>1, <1>2, <1>3
  <2>2. CASE Holds(w) /\ row.doc = copy[w]
    BY <2>2, <1>1 DEF Accounts, Share, Process
  <2> QED
    BY <2>1, <2>2
<1>7. ASSUME NEW p \in Process, Holds(p)'
      PROVE  Shown(copy'[p], k) <= Owned(new, Share(p))
  <2>1. Shown(copy[p], k) <= Owned(own, Share(p)) /\ p # w
    BY <1>7 DEF Accounts
  <2>2. Shown(copy[p], k) \in Int
    BY DEF TypeInv, Shown, Counted
  <2>3. Owned(new, Share(p)) >= Owned(own, Share(p))
    BY <1>1, <2>1, NobodyElse DEF Share, Owners
  <2> QED
    BY <2>1, <2>2, <2>3, <1>2, <1>3
<1>8. Accounts(new, k)'
  BY <1>4, <1>5, <1>6, <1>7 DEF Accounts, Owned, Items, Share
<1> QED
  BY <1>8

\* One more notification is posted, and owed by w.
LEMMA LedgerExtended ==
  ASSUME TypeInv, NEW k \in Kinds, NEW own, Accounts(own, k), NEW w \in Worker,
         UNCHANGED <<rows, pc, copy>>,
         Posted(k)' = Posted(k) + 1,
         \A v \in Worker : Part(due'[v], k) = IF v = w THEN Part(due[v], k) + 1
                                              ELSE Part(due[v], k)
  PROVE  \E new : Accounts(new, k)'
<1>1. PICK n \in Nat : n = Posted(k)
  BY PostedNat
<1>2. w \in Owners /\ own \in LedgerOf(n)
  BY <1>1 DEF Owners, Accounts
<1>3. PICK new \in LedgerOf(n + 1) : \A W :
        /\ Owned(own, W) \in Nat
        /\ Owned(new, W) = Owned(own, W) + (IF w \in W THEN 1 ELSE 0)
  <2>1. n \in Nat
    OBVIOUS
  <2>2. own \in LedgerOf(n)
    BY <1>2
  <2>3. w \in Owners
    BY <1>2
  <2>4. \E new \in LedgerOf(n + 1) : \A W :
          /\ Owned(own, W) \in Nat
          /\ Owned(new, W) = Owned(own, W) + (IF w \in W THEN 1 ELSE 0)
    BY <2>1, <2>2, <2>3, OneMore
  <2> QED
    BY <2>4
<1>4. \A W : /\ Owned(own, W) \in Nat /\ Owned(new, W) \in Nat
             /\ Owned(new, W) >= Owned(own, W)
             /\ w \in W => Owned(new, W) = Owned(own, W) + 1
  BY <1>3
<1>5. ASSUME NEW v \in Worker
      PROVE  Part(due'[v], k) <= Owned(new, {v})
  <2>1. Part(due[v], k) <= Owned(own, {v}) /\ Part(due[v], k) \in Nat
    BY DEF Accounts, Part, TypeInv
  <2>2. /\ Owned(new, {v}) \in Nat
        /\ Owned(new, {v}) >= Owned(own, {v})
        /\ v = w => Owned(new, {v}) = Owned(own, {v}) + 1
        /\ Owned(own, {v}) \in Nat
    BY <1>4
  <2> QED
    BY <2>1, <2>2
<1>6. ASSUME NEW row \in rows
      PROVE  Shown(row.doc, k) <= Owned(new, {Nobody})
  <2>1. Shown(row.doc, k) <= Owned(own, {Nobody})
    BY DEF Accounts
  <2>2. Shown(row.doc, k) \in Int
    BY DEF Shown, TypeInv, Counted
  <2>3. /\ Owned(own, {Nobody}) \in Nat /\ Owned(new, {Nobody}) \in Nat
        /\ Owned(new, {Nobody}) >= Owned(own, {Nobody})
    BY <1>4
  <2> QED
    BY <2>1, <2>2, <2>3
<1>7. ASSUME NEW p \in Process, Holds(p)
      PROVE  Shown(copy[p], k) <= Owned(new, Share(p))
  <2>1. Shown(copy[p], k) <= Owned(own, Share(p))
    BY <1>7 DEF Accounts
  <2>2. Shown(copy[p], k) \in Int
    BY DEF Shown, TypeInv, Counted
  <2>3. /\ Owned(own, Share(p)) \in Nat /\ Owned(new, Share(p)) \in Nat
        /\ Owned(new, Share(p)) >= Owned(own, Share(p))
    BY <1>4
  <2> QED
    BY <2>1, <2>2, <2>3
<1>8. new \in LedgerOf(Posted(k)')
  BY <1>1, <1>3
<1>9. \A row \in rows' : Shown(row.doc, k) <= Owned(new, {Nobody})
  BY <1>6
<1>10. \A p \in Process : Holds(p)' => Shown(copy'[p], k) <= Owned(new, Share(p))
  BY <1>7 DEF Holds
<1>11. Accounts(new, k)'
  BY <1>5, <1>8, <1>9, <1>10 DEF Accounts, Owned, Items, Share
<1> QED
  BY <1>11

\* A request or a task ends, and writes its copy or nothing new.
LEMMA LedgerFinished ==
  ASSUME TypeInv, NEW k \in Kinds, NEW own, Accounts(own, k), NEW p \in Process,
         NEW a, Finish(p, a), UNCHANGED <<posts, failedPosts, copy>>,
         \A row \in rows' : \/ \E old \in rows : old.doc = row.doc
                            \/ Holds(p) /\ row.doc = copy[p]
  PROVE  \E new : Accounts(new, k)'
<1>1. \A q \in Process : Holds(q)' => Holds(q) /\ q # p
  BY DEF Finish, Goto, Holds, TypeInv
<1>2. CASE p \in Worker
  <2>1. due' = [due EXCEPT ![p] = Map!NothingDue]
    BY <1>2 DEF Finish
  <2> QED
    BY <1>1, <1>2, <2>1, LedgerPassed
<1>3. CASE p \in Client
  <2>1. p \notin Worker
    BY <1>3, DeliveryAssumption
  <2>2. due' = due
    BY <2>1 DEF Finish
  <2>3. Holds(p) => Shown(copy[p], k) <= Owned(own, {Nobody})
    BY <2>1 DEF Accounts, Share
  <2> QED
    BY <1>1, <2>2, <2>3, LedgerKept
<1> QED
  BY <1>2, <1>3 DEF Process

\* A patch changes no counter; a task adds what it owes.
LEMMA PatchedShown ==
  ASSUME NEW k \in Kinds, NEW doc \in Counted, NEW c \in Client
  PROVE  /\ Map!Patched(doc, c) \in Counted
         /\ Shown(Map!Patched(doc, c), k) = Shown(doc, k)
BY DEF Map!Patched, Counted, Shown

LEMMA CountedShown ==
  ASSUME NEW k \in Kinds, NEW doc \in Counted, NEW d \in [ok : Nat, bad : Nat]
  PROVE  /\ Map!Counted(doc, d) \in Counted
         /\ Shown(Map!Counted(doc, d), k) = Shown(doc, k) + Part(d, k)
<1>1. Map!Counted(doc, d) = [patches |-> doc.patches, sent |-> doc.sent + d.ok + d.bad,
                             failed |-> doc.failed + d.bad]
  <2>1. [doc EXCEPT !.sent = @ + d.ok + d.bad] =
          [patches |-> doc.patches, sent |-> doc.sent + d.ok + d.bad, failed |-> doc.failed]
    BY DEF Counted
  <2>2. Map!Counted(doc, d) =
          [[doc EXCEPT !.sent = @ + d.ok + d.bad] EXCEPT !.failed = @ + d.bad]
    BY DEF Map!Counted
  <2> QED
    BY <2>1, <2>2 DEF Counted
<1> QED
  BY <1>1 DEF Counted, Shown, Part, Kinds
-------------------------------------------------------------------------------
(* Each step keeps the ledger.                                               *)

LEMMA LedgerInit == Init => Ledger
<1> SUFFICES ASSUME Init, NEW k \in Kinds
             PROVE  \E own : Accounts(own, k)
  BY DEF Ledger
<1> DEFINE own == [i \in 1 .. 0 |-> Nobody]
<1>1. own \in LedgerOf(0)
  BY DEF LedgerOf, Owners
<1>2. Posted(k) = 0
  BY DEF Init, Posted
<1> HIDE DEF own
<1>3. \A W : Owned(own, W) \in Nat
  BY <1>1, ItemsFinite
<1>4. \A w \in Worker : Part(due[w], k) <= Owned(own, {w})
  BY <1>3 DEF Init, Part, Map!NothingDue
<1>5. rows = {} /\ \A p \in Process : ~ Holds(p)
  BY DEF Init, Holds
<1>6. Accounts(own, k)
  BY <1>1, <1>2, <1>4, <1>5 DEF Accounts
<1> QED
  BY <1>6

\* Whoever takes up a document or adds to it owns what its copy shows more.
LEMMA CopyOwned ==
  ASSUME TypeInv, NEW k \in Kinds, NEW own, Accounts(own, k), NEW p \in Process,
         NEW row \in rows, NEW doc,
         doc = IF p \in Client THEN Map!Patched(row.doc, p)
               ELSE Map!Counted(row.doc, due[p])
  PROVE  Shown(doc, k) <= Owned(own, Share(p))
<1>1. row.doc \in Counted
  BY DEF TypeInv
<1>2. Shown(row.doc, k) <= Owned(own, {Nobody}) /\ Shown(row.doc, k) \in Int
  <2>1. Shown(row.doc, k) <= Owned(own, {Nobody})
    BY DEF Accounts
  <2>2. Shown(row.doc, k) \in Int
    BY <1>1 DEF Shown, Counted
  <2> QED
    BY <2>1, <2>2
<1>3. \A W : Owned(own, W) \in Nat
  BY ShownOwned
<1>4. CASE p \in Client
  <2>1. p \notin Worker
    BY <1>4, DeliveryAssumption
  <2>2. Shown(Map!Patched(row.doc, p), k) = Shown(row.doc, k)
    BY <1>1, <1>4, PatchedShown
  <2> QED
    BY <1>2, <1>4, <2>1, <2>2 DEF Share
<1>5. CASE p \in Worker
  <2>1. p \notin Client
    BY <1>5, DeliveryAssumption
  <2>2. due[p] \in [ok : Nat, bad : Nat]
    BY <1>5 DEF TypeInv
  <2>3. Shown(Map!Counted(row.doc, due[p]), k) = Shown(row.doc, k) + Part(due[p], k)
    BY <1>1, <2>2, CountedShown
  <2>4. Part(due[p], k) <= Owned(own, {p}) /\ Part(due[p], k) \in Nat
    BY <1>5, <2>2 DEF Accounts, Part
  <2>5. Owned(own, {Nobody, p}) = Owned(own, {Nobody}) + Owned(own, {p})
    BY <1>5, NobodyElse, PostedNat, OwnedTogether DEF Accounts
  <2> QED
    BY <1>2, <1>3, <1>5, <2>1, <2>3, <2>4, <2>5 DEF Share
<1> QED
  BY <1>4, <1>5 DEF Process

LEMMA LedgerNext == TypeInv /\ Ledger /\ [Next]_vars => Ledger'
<1> SUFFICES ASSUME TypeInv, Ledger, [Next]_vars, NEW k \in Kinds
             PROVE  \E new : Accounts(new, k)'
  BY DEF Ledger
<1>1. PICK own : Accounts(own, k)
  BY DEF Ledger
<1> USE <1>1
<1>2. \A W : Owned(own, W) \in Nat
  BY ShownOwned
<1>3. ASSUME NEW c \in Client, Request(c)
      PROVE  Accounts(own, k)'
  BY <1>3, LedgerKept DEF Request, Goto, Holds, TypeInv, counters
<1>4. ASSUME NEW c \in Client, Check(c)
      PROVE  \E new : Accounts(new, k)'
  <2>1. c \in Process /\ c \notin Worker
    BY DeliveryAssumption DEF Process
  <2>2. Shown(Map!Fresh, k) = 0
    BY DEF Shown, Map!Fresh
  <2>3. CASE rows = {}
    <3>1. Shown(copy'[c], k) <= Owned(own, Share(c))
      <4>1. copy'[c] = Map!Fresh
        BY <1>4, <2>1 DEF Check, TypeInv
      <4> QED
        BY <1>2, <4>1, <2>2 DEF Shown
    <3>2. \A p \in Process : Holds(p)' => p = c \/ (Holds(p) /\ copy'[p] = copy[p])
      BY <1>4, <2>1, <2>3 DEF Check, Goto, Holds, TypeInv
    <3> QED
      BY <1>4, <2>3, <3>1, <3>2, LedgerKept DEF Check, counters
  <2>4. CASE rows # {}
    <3>1. due' = due
      BY <1>4, <2>1, <2>4 DEF Check, Finish
    <3>2. \A p \in Process : Holds(p)' => Holds(p) /\ copy'[p] = copy[p]
      BY <1>4, <2>1, <2>4 DEF Check, Finish, Goto, Holds, TypeInv
    <3> QED
      BY <1>4, <3>1, <3>2, LedgerKept DEF Check, counters
  <2> QED
    BY <2>3, <2>4
<1>5. ASSUME NEW c \in Client, Lookup(c)
      PROVE  \E new : Accounts(new, k)'
  <2>1. c \in Process /\ c \notin Worker
    BY DeliveryAssumption DEF Process
  <2>2. due' = due
    BY <1>5, <2>1 DEF Lookup, Finish
  <2>3. \A p \in Process : Holds(p)' => Holds(p)
    BY <1>5, <2>1 DEF Lookup, Finish, Goto, Holds, TypeInv
  <2> QED
    BY <1>5, <2>2, <2>3, LedgerKept DEF Lookup, counters
<1>6. ASSUME NEW c \in Client, Remove(c)
      PROVE  \E new : Accounts(new, k)'
  BY <1>6, LedgerFinished DEF Remove, counters, Process
<1>7. ASSUME NEW w \in Worker, List(w)
      PROVE  Accounts(own, k)'
  BY <1>7, LedgerKept DEF List, Goto, Holds, TypeInv, counters
<1>8. ASSUME NEW w \in Worker, Post(w)
      PROVE  \E new : Accounts(new, k)'
  <2>1. /\ UNCHANGED <<rows, pc, copy>>
        /\ \A v \in Worker : due[v] \in [ok : Nat, bad : Nat]
        /\ posts \in Nat /\ failedPosts \in Nat /\ posts' = posts + 1
    BY <1>8 DEF Post, TypeInv
  <2>2. CASE due' = [due EXCEPT ![w].ok = @ + 1] /\ failedPosts' = failedPosts
    <3>1. \A v \in Worker : /\ due'[v].ok = IF v = w THEN due[v].ok + 1 ELSE due[v].ok
                            /\ due'[v].bad = due[v].bad
      BY <2>1, <2>2 DEF TypeInv
    <3>2. CASE k = "ok"
      <4>1. Posted(k)' = Posted(k) + 1
        BY <2>1, <2>2, <3>2 DEF Posted
      <4>2. \A v \in Worker : Part(due'[v], k) = IF v = w THEN Part(due[v], k) + 1
                                                 ELSE Part(due[v], k)
        BY <3>1, <3>2 DEF Part
      <4> QED
        BY <2>1, <4>1, <4>2, LedgerExtended
    <3>3. CASE k = "bad"
      <4>1. Posted(k)' = Posted(k)
        BY <2>2, <3>3 DEF Posted
      <4>2. \A v \in Worker : Part(due'[v], k) = Part(due[v], k)
        BY <3>1, <3>3 DEF Part
      <4> QED
        BY <2>1, <4>1, <4>2 DEF Accounts, Holds, Owned, Items, Share
    <3> QED
      BY <3>2, <3>3 DEF Kinds
  <2>3. CASE due' = [due EXCEPT ![w].bad = @ + 1] /\ failedPosts' = failedPosts + 1
    <3>1. \A v \in Worker : /\ due'[v].bad = IF v = w THEN due[v].bad + 1 ELSE due[v].bad
                            /\ due'[v].ok = due[v].ok
      BY <2>1, <2>3 DEF TypeInv
    <3>2. CASE k = "bad"
      <4>1. Posted(k)' = Posted(k) + 1
        BY <2>1, <2>3, <3>2 DEF Posted
      <4>2. \A v \in Worker : Part(due'[v], k) = IF v = w THEN Part(due[v], k) + 1
                                                 ELSE Part(due[v], k)
        BY <3>1, <3>2 DEF Part
      <4> QED
        BY <2>1, <4>1, <4>2, LedgerExtended
    <3>3. CASE k = "ok"
      <4>1. Posted(k)' = Posted(k)
        BY <2>1, <2>3, <3>3 DEF Posted
      <4>2. \A v \in Worker : Part(due'[v], k) = Part(due[v], k)
        BY <3>1, <3>3 DEF Part
      <4> QED
        BY <2>1, <4>1, <4>2 DEF Accounts, Holds, Owned, Items, Share
    <3> QED
      BY <3>2, <3>3 DEF Kinds
  <2> QED
    BY <1>8, <2>2, <2>3 DEF Post
<1>9. ASSUME NEW w \in Worker, Delivered(w)
      PROVE  Accounts(own, k)'
  BY <1>9, LedgerKept DEF Delivered, Goto, Holds, TypeInv, counters
<1>10. ASSUME NEW p \in Process, Get(p)
       PROVE  \E new : Accounts(new, k)'
  <2>1. CASE rows = {} /\ Finish(p, "missing") /\ UNCHANGED copy
    BY <1>10, <2>1, LedgerFinished DEF Get, counters
  <2>2. ASSUME NEW row \in rows,
               copy' = [copy EXCEPT ![p] = IF p \in Client THEN Map!Patched(row.doc, p)
                                           ELSE Map!Counted(row.doc, due[p])],
               Goto(p, "find"), UNCHANGED <<reply, due>>
        PROVE  Accounts(own, k)'
    <3>1. Shown(copy'[p], k) <= Owned(own, Share(p))
      <4>1. copy'[p] = IF p \in Client THEN Map!Patched(row.doc, p)
                       ELSE Map!Counted(row.doc, due[p])
        BY <2>2 DEF TypeInv
      <4> QED
        BY <4>1, CopyOwned
    <3>2. \A q \in Process : Holds(q)' => q = p \/ (Holds(q) /\ copy'[q] = copy[q])
      BY <2>2 DEF Goto, Holds, TypeInv
    <3> QED
      BY <1>10, <2>2, <3>1, <3>2, LedgerKept DEF Get, counters
  <2> QED
    BY <1>10, <2>1, <2>2 DEF Get
<1>11. ASSUME NEW p \in Process, Find(p)
       PROVE  Accounts(own, k)'
  BY <1>11, LedgerKept DEF Find, Goto, Holds, TypeInv, counters
<1>12. ASSUME NEW p \in Process, Write(p)
       PROVE  \E new : Accounts(new, k)'
  <2>1. Holds(p) /\ Finish(p, "ok") /\ UNCHANGED <<posts, failedPosts, copy>>
    BY <1>12 DEF Write, Holds, counters
  <2>2. \A row \in rows' : (\E old \in rows : old.doc = row.doc) \/ row.doc = copy[p]
    BY <1>12 DEF Write, TypeInv
  <2> QED
    BY <2>1, <2>2, LedgerFinished
<1>13. ASSUME NEW p \in Process, Add(p)
       PROVE  \E new : Accounts(new, k)'
  <2>1. Holds(p) /\ Finish(p, "ok") /\ UNCHANGED <<posts, failedPosts, copy>>
    BY <1>13 DEF Add, Holds, counters
  <2>2. \A row \in rows' : (\E old \in rows : old.doc = row.doc) \/ row.doc = copy[p]
    BY <1>13 DEF Add
  <2> QED
    BY <2>1, <2>2, LedgerFinished
<1>14. ASSUME NEW p \in Process, Die(p)
       PROVE  \E new : Accounts(new, k)'
  BY <1>14, LedgerFinished DEF Die
<1>15. CASE UNCHANGED vars
  BY <1>15 DEF vars, counters, Accounts, Holds, Owned, Items, Share, Posted
<1> QED
  BY <1>3, <1>4, <1>5, <1>6, <1>7, <1>8, <1>9, <1>10, <1>11, <1>12, <1>13, <1>14, <1>15
     DEF Next
-------------------------------------------------------------------------------
(* Each step keeps the types, and what copies show.                          *)

LEMMA InitInv == Init => CountInv
<1> SUFFICES ASSUME Init
             PROVE  CountInv
  OBVIOUS
<1>1. Map!Fresh \in Counted /\ Map!NothingDue \in [ok : Nat, bad : Nat]
  BY DEF Map!Fresh, Map!NothingDue, Counted
<1>2. TypeInv
  <2>1. copy \in [Process -> Counted] /\ due \in [Worker -> [ok : Nat, bad : Nat]]
    BY <1>1 DEF Init
  <2>2. /\ posts \in 0 .. MaxPosts /\ failedPosts \in 0 .. posts
        /\ failures \in 0 .. MaxFailures /\ made \in 0 .. MaxRows
    BY DeliveryAssumption DEF Init
  <2>3. target \in [Process -> 0 .. made]
    BY DEF Init
  <2> QED
    BY <2>1, <2>2, <2>3 DEF Init, TypeInv
<1>3. CopiesPosted
  BY DEF Init, CopiesPosted, Map!Fresh
<1> QED
  BY <1>2, <1>3, LedgerInit DEF CountInv

LEMMA FinishTypes ==
  ASSUME TypeInv, NEW p \in Process,
         NEW a \in {"ok", "exists", "missing", "error"}, Finish(p, a)
  PROVE  /\ pc' \in [Process -> {"idle", "check", "get", "lookup", "deliver", "find",
                                 "write", "add", "remove", "done"}]
         /\ due' \in [Worker -> [ok : Nat, bad : Nat]]
         /\ reply' \in [Client -> {"none", "ok", "exists", "missing", "error"}]
BY DEF TypeInv, Finish, Goto, Map!NothingDue

LEMMA TypeNext == TypeInv /\ [Next]_vars => TypeInv'
<1> SUFFICES ASSUME TypeInv, [Next]_vars
             PROVE  TypeInv'
  OBVIOUS
<1> USE DeliveryAssumption
<1>1. ASSUME NEW c \in Client, Request(c)
      PROVE  TypeInv'
  BY <1>1 DEF Request, Goto, TypeInv, counters
<1>2. ASSUME NEW c \in Client, Check(c)
      PROVE  TypeInv'
  <2>1. Map!Fresh \in Counted /\ c \in Process
    BY DEF Map!Fresh, Counted, Process
  <2>2. copy' \in [Process -> Counted] /\ crossed' \in BOOLEAN
    BY <1>2, <2>1 DEF Check, Read, TypeInv
  <2>3. CASE rows = {}
    BY <1>2, <2>2, <2>3 DEF Check, Goto, TypeInv, counters
  <2>4. CASE rows # {}
    BY <1>2, <2>1, <2>2, <2>4, FinishTypes DEF Check, TypeInv, counters
  <2> QED
    BY <2>3, <2>4
<1>3. ASSUME NEW c \in Client, Lookup(c)
      PROVE  TypeInv'
  <2>1. c \in Process /\ crossed' \in BOOLEAN
    BY <1>3 DEF Lookup, Read, Process, TypeInv
  <2>2. CASE rows = {} /\ Finish(c, "missing") /\ UNCHANGED target
    BY <1>3, <2>1, <2>2, FinishTypes DEF Lookup, TypeInv, counters
  <2>3. ASSUME NEW row \in rows, target' = [target EXCEPT ![c] = row.id],
               Goto(c, "remove"), UNCHANGED <<reply, due>>
        PROVE  TypeInv'
    <3>1. row.id \in 0 .. made
      BY DEF TypeInv
    <3> QED
      BY <1>3, <2>1, <2>3, <3>1 DEF Lookup, Goto, TypeInv, counters
  <2> QED
    BY <1>3, <2>2, <2>3 DEF Lookup
<1>4. ASSUME NEW c \in Client, Remove(c)
      PROVE  TypeInv'
  <2>1. c \in Process
    BY DEF Process
  <2> QED
    BY <1>4, <2>1, FinishTypes DEF Remove, TypeInv, counters
<1>5. ASSUME NEW w \in Worker, List(w)
      PROVE  TypeInv'
  BY <1>5 DEF List, Goto, TypeInv, counters
<1>6. ASSUME NEW w \in Worker, Post(w)
      PROVE  TypeInv'
  <2>1. posts' \in 0 .. MaxPosts /\ failedPosts' \in 0 .. posts'
    BY <1>6 DEF Post, TypeInv
  <2>2. due' \in [Worker -> [ok : Nat, bad : Nat]]
    BY <1>6 DEF Post, TypeInv
  <2> QED
    BY <1>6, <2>1, <2>2 DEF Post, TypeInv
<1>7. ASSUME NEW w \in Worker, Delivered(w)
      PROVE  TypeInv'
  BY <1>7 DEF Delivered, Goto, TypeInv, counters
<1>8. ASSUME NEW p \in Process, Get(p)
      PROVE  TypeInv'
  <2>1. crossed' \in BOOLEAN
    BY <1>8 DEF Get, Read, TypeInv
  <2>2. CASE rows = {} /\ Finish(p, "missing") /\ UNCHANGED copy
    BY <1>8, <2>1, <2>2, FinishTypes DEF Get, TypeInv, counters
  <2>3. ASSUME NEW row \in rows,
               copy' = [copy EXCEPT ![p] = IF p \in Client THEN Map!Patched(row.doc, p)
                                           ELSE Map!Counted(row.doc, due[p])],
               Goto(p, "find"), UNCHANGED <<reply, due>>
        PROVE  TypeInv'
    <3>1. row.doc \in Counted /\ "ok" \in Kinds
      BY DEF TypeInv, Kinds
    <3>2. p \in Client => Map!Patched(row.doc, p) \in Counted
      BY <3>1, PatchedShown
    <3>3. p \in Worker => Map!Counted(row.doc, due[p]) \in Counted
      BY <3>1, CountedShown DEF TypeInv
    <3>4. copy' \in [Process -> Counted]
      BY <2>3, <3>2, <3>3 DEF TypeInv, Process
    <3> QED
      BY <1>8, <2>1, <2>3, <3>4 DEF Get, Goto, TypeInv, counters
  <2> QED
    BY <1>8, <2>2, <2>3 DEF Get
<1>9. ASSUME NEW p \in Process, Find(p)
      PROVE  TypeInv'
  <2>1. \A row \in rows : row.id \in 0 .. made
    BY DEF TypeInv
  <2>2. target' \in [Process -> 0 .. made]
    BY <1>9, <2>1 DEF Find, TypeInv
  <2>3. pc' \in [Process -> {"idle", "check", "get", "lookup", "deliver", "find", "write",
                             "add", "remove", "done"}]
    BY <1>9 DEF Find, Goto, TypeInv
  <2> QED
    BY <1>9, <2>2, <2>3 DEF Find, TypeInv, counters
<1>10. ASSUME NEW p \in Process, Write(p)
       PROVE  TypeInv'
  <2>1. rows' \subseteq [id : 1 .. made, doc : Counted]
    BY <1>10 DEF Write, TypeInv
  <2>2. \A x, y \in rows' : x.id = y.id => x = y
    BY <1>10 DEF Write, TypeInv
  <2> QED
    BY <1>10, <2>1, <2>2, FinishTypes DEF Write, TypeInv, counters
<1>11. ASSUME NEW p \in Process, Add(p)
       PROVE  TypeInv'
  <2>1. made' \in 0 .. MaxRows /\ made' = made + 1 /\ made \in Nat
    BY <1>11 DEF Add, TypeInv
  <2>2. rows' \subseteq [id : 1 .. made', doc : Counted]
    BY <1>11, <2>1 DEF Add, TypeInv
  <2>3. \A x, y \in rows' : x.id = y.id => x = y
    BY <1>11, <2>1 DEF Add, TypeInv
  <2>4. target' \in [Process -> 0 .. made']
    BY <1>11, <2>1 DEF Add, TypeInv
  <2>5. gone' \in BOOLEAN
    BY <1>11 DEF Add, TypeInv
  <2> QED
    BY <1>11, <2>1, <2>2, <2>3, <2>4, <2>5, FinishTypes DEF Add, TypeInv, counters
<1>12. ASSUME NEW p \in Process, Die(p)
       PROVE  TypeInv'
  BY <1>12, FinishTypes DEF Die, TypeInv
<1>13. CASE UNCHANGED vars
  BY <1>13 DEF vars, counters, TypeInv
<1> QED
  BY <1>1, <1>2, <1>3, <1>4, <1>5, <1>6, <1>7, <1>8, <1>9, <1>10, <1>11, <1>12, <1>13
     DEF Next

HeldPosted ==
  \A p \in Process : Holds(p) => copy[p].sent <= posts /\ copy[p].failed <= failedPosts

LEMMA HeldPostedNext == TypeInv' /\ Ledger' => HeldPosted'
<1>1. TypeInv /\ Ledger => HeldPosted
  BY LedgerBounds DEF HeldPosted
<1> QED
  BY <1>1, PTL

\* Copies are made within the ledger, and what was posted only grows.
LEMMA CopiesNext ==
  TypeInv /\ CopiesPosted /\ Ledger' /\ TypeInv' /\ [Next]_vars => CopiesPosted'
<1> SUFFICES ASSUME TypeInv, CopiesPosted, Ledger', TypeInv', [Next]_vars, NEW p \in Process
             PROVE  copy'[p].sent <= posts' /\ copy'[p].failed <= failedPosts'
  BY DEF CopiesPosted
<1>1. copy[p].sent <= posts /\ copy[p].failed <= failedPosts
  BY DEF CopiesPosted
<1>2. /\ copy[p].sent \in Nat /\ copy[p].failed \in Nat
      /\ posts \in Nat /\ failedPosts \in Nat
  BY DEF TypeInv, Counted
<1>3. /\ posts' >= posts /\ failedPosts' >= failedPosts
      /\ posts' \in Nat /\ failedPosts' \in Nat
  <2>1. posts' = posts \/ posts' = posts + 1
    BY DEF Next, Request, Check, Lookup, Remove, List, Post, Delivered, Get, Find, Write, Add,
           Die, vars, counters
  <2>2. failedPosts' = failedPosts \/ failedPosts' = failedPosts + 1
    BY DEF Next, Request, Check, Lookup, Remove, List, Post, Delivered, Get, Find, Write, Add,
           Die, vars, counters
  <2> QED
    BY <1>2, <2>1, <2>2
<1>4. \/ copy'[p] = copy[p]
      \/ copy'[p] = Map!Fresh
      \/ Holds(p)'
  <2>1. ASSUME NEW c \in Client, Check(c)
        PROVE  copy'[p] = copy[p] \/ copy'[p] = Map!Fresh
    BY <2>1 DEF Check, TypeInv
  <2>2. ASSUME NEW q \in Process, Get(q)
        PROVE  copy'[p] = copy[p] \/ Holds(p)'
    BY <2>2 DEF Get, Goto, Holds, TypeInv
  <2> QED
    BY <2>1, <2>2
       DEF Next, Request, Lookup, Remove, List, Post, Delivered, Find, Write, Add, Die, vars
<1>5. CASE copy'[p] = copy[p]
  BY <1>1, <1>2, <1>3, <1>5
<1>6. CASE copy'[p] = Map!Fresh
  BY <1>2, <1>3, <1>6 DEF Map!Fresh
<1>7. CASE Holds(p)'
  BY <1>7, HeldPostedNext DEF HeldPosted
<1> QED
  BY <1>4, <1>5, <1>6, <1>7
-------------------------------------------------------------------------------
(* One step of the in-memory repository.                                     *)

\* What p makes of a document it read.
Changed(p, doc) == IF p \in Client THEN Map!Patched(doc, p) ELSE Map!Counted(doc, due[p])

\* While no read has crossed a change, at most one change is open, and the row
\* it is about is as it was when it was read.
Prepared(p) ==
  /\ pc[p] = "find" => \E row \in rows : copy[p] = Changed(p, row.doc)
  /\ pc[p] = "write" =>
       \E row \in rows : target[p] = row.id /\ copy[p] = Changed(p, row.doc)
  /\ pc[p] = "add" => p \in Client /\ rows = {} /\ copy[p] = Map!Fresh
  /\ pc[p] = "remove" => p \in Client /\ \E row \in rows : target[p] = row.id

OneRow  == \A x, y \in rows : x = y
OneOpen == \A p, q \in Open : p = q
Alone   == ~ crossed => OneRow /\ OneOpen /\ \A p \in Process : Prepared(p)

AloneInv == TypeInv /\ Alone

\* A process that is not open itself leaves those that are alone.
LEMMA PreparedKept ==
  ASSUME TypeInv, Alone, NEW q \in Process, ~ crossed, ~ crossed', UNCHANGED rows,
         \A p \in Process \ {q} : pc'[p] = pc[p],
         pc'[q] \in {"find", "write", "add", "remove"} => Open \subseteq {q},
         \A p \in Process \ {q} : p \in Open =>
           /\ copy'[p] = copy[p] /\ target'[p] = target[p]
           /\ p \in Worker => due'[p] = due[p],
         Prepared(q)'
  PROVE  Alone'
<1>1. OneRow'
  BY DEF Alone, OneRow
<1>2. OneOpen'
  BY DEF Alone, OneOpen, Open
<1>3. ASSUME NEW p \in Process, p # q
      PROVE  Prepared(p)'
  <2>1. Prepared(p) /\ pc'[p] = pc[p]
    BY <1>3 DEF Alone
  <2>2. CASE p \in Open
    <3>1. \A doc : Changed(p, doc)' = Changed(p, doc)
      BY <1>3, <2>2 DEF Changed, Process
    <3> QED
      BY <1>3, <2>1, <2>2, <3>1 DEF Prepared
  <2>3. CASE p \notin Open
    BY <2>1, <2>3 DEF Prepared, Open
  <2> QED
    BY <2>2, <2>3
<1> QED
  BY <1>1, <1>2, <1>3 DEF Alone

LEMMA AloneClosed ==
  ASSUME TypeInv', Open' = {}, OneRow'
  PROVE  Alone'
<1>1. \A p \in Process : Prepared(p)'
  BY DEF Prepared, Open
<1>2. OneOpen'
  BY DEF OneOpen
<1> QED
  BY <1>1, <1>2 DEF Alone

\* What ends p leaves no change open, if p had the only one.
LEMMA FinishCloses ==
  ASSUME TypeInv, NEW p \in Process, NEW a, Finish(p, a), Open \subseteq {p}
  PROVE  Open' = {}
BY DEF Finish, Goto, Open, TypeInv

LEMMA AloneNext == AloneInv /\ TypeInv' /\ [Next]_vars => Alone'
<1> SUFFICES ASSUME TypeInv, TypeInv', Alone, [Next]_vars, ~ crossed'
             PROVE  Alone'
  BY DEF AloneInv, Alone
<1>1. ~ crossed
  BY DEF Next, Request, Check, Lookup, Remove, List, Post, Delivered, Get, Find, Write, Add,
         Die, vars, Read
<1>2. OneRow /\ OneOpen /\ \A p \in Process : Prepared(p)
  BY <1>1 DEF Alone
<1>3. ASSUME NEW p \in Process, p \in Open
      PROVE  Open \subseteq {p}
  BY <1>2, <1>3 DEF OneOpen
<1>4. ASSUME NEW c \in Client, Request(c)
      PROVE  Alone'
  <2>1. c \in Process /\ Prepared(c)'
    BY <1>4 DEF Request, Goto, Prepared, Process, TypeInv
  <2> QED
    BY <1>1, <1>4, <2>1, PreparedKept DEF Request, Goto, TypeInv, counters
<1>5. ASSUME NEW c \in Client, Check(c)
      PROVE  Alone'
  <2>1. c \in Process /\ c \notin Worker /\ Open = {}
    BY <1>5, DeliveryAssumption DEF Check, Read, Process
  <2>2. due' = due /\ (pc'[c] = "add" => rows = {})
    BY <1>5, <2>1 DEF Check, Finish, Goto, TypeInv
  <2>3. pc'[c] \in {"add", "done"} /\ copy'[c] = Map!Fresh
    BY <1>5, <2>1 DEF Check, Finish, Goto, TypeInv
  <2>4. \A p \in Process \ {c} : pc'[p] = pc[p]
    BY <1>5 DEF Check, Finish, Goto, TypeInv
  <2>5. Prepared(c)' /\ UNCHANGED rows
    BY <1>5, <2>2, <2>3 DEF Check, Prepared
  <2> QED
    BY <1>1, <2>1, <2>2, <2>3, <2>4, <2>5, PreparedKept
<1>6. ASSUME NEW c \in Client, Lookup(c)
      PROVE  Alone'
  <2>1. c \in Process /\ c \notin Worker /\ Open = {} /\ UNCHANGED rows
    BY <1>6, DeliveryAssumption DEF Lookup, Read, Process
  <2>2. \A p \in Process \ {c} : pc'[p] = pc[p]
    BY <1>6 DEF Lookup, Finish, Goto, TypeInv
  <2>3. \/ pc'[c] = "done"
        \/ pc'[c] = "remove" /\ \E row \in rows : target'[c] = row.id
    BY <1>6, <2>1 DEF Lookup, Finish, Goto, TypeInv
  <2>4. Prepared(c)'
    BY <2>1, <2>3 DEF Prepared
  <2> QED
    BY <1>1, <2>1, <2>2, <2>4, PreparedKept
<1>7. ASSUME NEW c \in Client, Remove(c)
      PROVE  Alone'
  <2>1. c \in Process /\ c \in Open
    BY <1>7 DEF Remove, Open, Process
  <2>2. OneRow'
    BY <1>2, <1>7 DEF Remove, OneRow
  <2> QED
    BY <1>3, <1>7, <2>1, <2>2, FinishCloses, AloneClosed DEF Remove
<1>8. ASSUME NEW w \in Worker, List(w)
      PROVE  Alone'
  <2>1. w \in Process /\ Prepared(w)'
    BY <1>8 DEF List, Goto, Prepared, Process, TypeInv
  <2> QED
    BY <1>1, <1>8, <2>1, PreparedKept DEF List, Goto, TypeInv, counters
<1>9. ASSUME NEW w \in Worker, Post(w)
      PROVE  Alone'
  <2>1. w \in Process /\ Prepared(w)'
    BY <1>9 DEF Post, Prepared, Process, TypeInv
  <2>2. \A v \in Worker \ {w} : due'[v] = due[v]
    BY <1>9 DEF Post, TypeInv
  <2>3. UNCHANGED <<rows, pc, copy, target>> /\ pc[w] = "deliver"
    BY <1>9 DEF Post
  <2> QED
    BY <1>1, <2>1, <2>2, <2>3, PreparedKept
<1>10. ASSUME NEW w \in Worker, Delivered(w)
       PROVE  Alone'
  <2>1. w \in Process /\ Prepared(w)'
    BY <1>10 DEF Delivered, Goto, Prepared, Process, TypeInv
  <2> QED
    BY <1>1, <1>10, <2>1, PreparedKept DEF Delivered, Goto, TypeInv, counters
<1>11. ASSUME NEW p \in Process, Get(p)
       PROVE  Alone'
  <2>1. Open = {} /\ UNCHANGED rows
    BY <1>11 DEF Get, Read
  <2>2. \A q \in Process \ {p} : pc'[q] = pc[q]
    BY <1>11 DEF Get, Finish, Goto, TypeInv
  <2>3. CASE Finish(p, "missing")
    <3>1. Prepared(p)'
      BY <2>3 DEF Finish, Goto, Prepared, TypeInv
    <3> QED
      BY <1>1, <2>1, <2>2, <3>1, PreparedKept
  <2>4. ASSUME NEW row \in rows,
               copy' = [copy EXCEPT ![p] = IF p \in Client THEN Map!Patched(row.doc, p)
                                           ELSE Map!Counted(row.doc, due[p])],
               Goto(p, "find"), UNCHANGED <<reply, due>>
        PROVE  Alone'
    <3>1. copy'[p] = Changed(p, row.doc)'
      BY <2>4 DEF Changed, TypeInv
    <3>2. Prepared(p)'
      BY <2>1, <2>4, <3>1 DEF Goto, Prepared, TypeInv
    <3> QED
      BY <1>1, <2>1, <2>2, <3>2, PreparedKept
  <2> QED
    BY <1>11, <2>3, <2>4 DEF Get
<1>12. ASSUME NEW p \in Process, Find(p)
       PROVE  Alone'
  <2>1. PICK row \in rows : copy[p] = Changed(p, row.doc)
    BY <1>2, <1>12 DEF Find, Prepared
  <2>2. target'[p] = row.id /\ pc'[p] = "write"
    BY <1>2, <1>12, <2>1 DEF Find, Goto, OneRow, TypeInv
  <2>3. UNCHANGED <<rows, copy, due>>
    BY <1>12 DEF Find
  <2>4. Prepared(p)'
    BY <2>1, <2>2, <2>3 DEF Prepared, Changed
  <2>5. /\ \A q \in Process \ {p} : pc'[q] = pc[q] /\ target'[q] = target[q]
        /\ p \in Open
    BY <1>12 DEF Find, Goto, Open, TypeInv
  <2> QED
    BY <1>1, <1>3, <2>3, <2>4, <2>5, PreparedKept
<1>13. ASSUME NEW p \in Process, Write(p)
       PROVE  Alone'
  <2>1. p \in Open
    BY <1>13 DEF Write, Open
  <2>2. OneRow'
    BY <1>2, <1>13 DEF Write, OneRow
  <2> QED
    BY <1>3, <1>13, <2>1, <2>2, FinishCloses, AloneClosed DEF Write
<1>14. ASSUME NEW p \in Process, Add(p)
       PROVE  Alone'
  <2>1. p \in Open
    BY <1>14 DEF Add, Open
  <2>2. OneRow'
    BY <1>2, <1>14 DEF Add, OneRow, Prepared
  <2> QED
    BY <1>3, <1>14, <2>1, <2>2, FinishCloses, AloneClosed DEF Add
<1>15. ASSUME NEW p \in Process, Die(p)
       PROVE  Alone'
  <2>1. Prepared(p)'
    BY <1>15 DEF Die, Finish, Goto, Prepared, TypeInv
  <2>2. \A q \in Process \ {p} : pc'[q] = pc[q] /\ (q \in Worker => due'[q] = due[q])
    BY <1>15 DEF Die, Finish, Goto, TypeInv
  <2>3. UNCHANGED <<rows, copy, target>> /\ pc'[p] \in {"done", "idle"}
    BY <1>15 DEF Die, Finish, Goto, TypeInv
  <2> QED
    BY <1>1, <2>1, <2>2, <2>3, PreparedKept
<1>16. CASE UNCHANGED vars
  BY <1>16 DEF vars, counters, Alone, OneRow, OneOpen, Open, Prepared, Changed
<1> QED
  BY <1>4, <1>5, <1>6, <1>7, <1>8, <1>9, <1>10, <1>11, <1>12, <1>13, <1>14, <1>15, <1>16
     DEF Next

\* The end of p is a drop of its counts, or nothing.
LEMMA FinishMaps ==
  ASSUME TypeInv, NEW p \in Process, NEW a, Finish(p, a), UNCHANGED rows
  PROVE  [Map!Next]_(Map!vars)
<1>1. CASE p \in Worker
  BY <1>1 DEF Finish, Map!Next, Map!Drop, Map!NothingDue
<1>2. CASE p \in Client
  BY <1>2, DeliveryAssumption DEF Finish, Map!vars
<1> QED
  BY <1>1, <1>2 DEF Process

LEMMA StepMaps == AloneInv /\ [Next]_vars /\ ~ crossed' => [Map!Next]_(Map!vars)
<1> SUFFICES ASSUME TypeInv, Alone, [Next]_vars, ~ crossed'
             PROVE  [Map!Next]_(Map!vars)
  BY DEF AloneInv
<1>1. ~ crossed
  BY DEF Next, Request, Check, Lookup, Remove, List, Post, Delivered, Get, Find, Write, Add,
         Die, vars, Read
<1>2. OneRow /\ \A p \in Process : Prepared(p)
  BY <1>1 DEF Alone
<1>3. ASSUME UNCHANGED <<rows, due>>
      PROVE  [Map!Next]_(Map!vars)
  BY <1>3 DEF Map!vars
<1>4. ASSUME NEW c \in Client, Check(c) \/ Lookup(c)
      PROVE  [Map!Next]_(Map!vars)
  <2>1. UNCHANGED <<rows, due>>
    BY <1>4, DeliveryAssumption DEF Check, Lookup, Finish
  <2> QED
    BY <1>3, <2>1
<1>5. ASSUME NEW c \in Client, Remove(c)
      PROVE  [Map!Next]_(Map!vars)
  <2>1. PICK row \in rows : target[c] = row.id
    BY <1>2, <1>5 DEF Remove, Prepared, Process
  <2>2. rows = {row} /\ rows' = {}
    BY <1>2, <1>5, <2>1 DEF Remove, OneRow
  <2>3. due' = due
    BY <1>5, DeliveryAssumption DEF Remove, Finish
  <2> QED
    BY <2>2, <2>3 DEF Map!Next, Map!Delete
<1>6. ASSUME NEW w \in Worker, Post(w)
      PROVE  [Map!Next]_(Map!vars)
  BY <1>6 DEF Post, Map!Next, Map!Post
<1>7. ASSUME NEW p \in Process, Get(p)
      PROVE  [Map!Next]_(Map!vars)
  BY <1>3, <1>7, FinishMaps DEF Get
<1>8. ASSUME NEW p \in Process, Write(p)
      PROVE  [Map!Next]_(Map!vars)
  <2>1. PICK row \in rows : target[p] = row.id /\ copy[p] = Changed(p, row.doc)
    BY <1>2, <1>8 DEF Write, Prepared
  <2>2. rows = {row} /\ rows' = {[row EXCEPT !.doc = copy[p]]}
    BY <1>2, <1>8, <2>1 DEF Write, OneRow
  <2>3. [row EXCEPT !.doc = copy[p]].doc = copy[p]
    BY DEF TypeInv
  <2>4. {x.doc : x \in rows} = {row.doc} /\ {x.doc : x \in rows}' = {Changed(p, row.doc)}
    BY <2>1, <2>2, <2>3
  <2>5. CASE p \in Client
    <3>1. due' = due
      BY <1>8, <2>5, DeliveryAssumption DEF Write, Finish
    <3>2. {x.doc : x \in rows}' = {Map!Patched(row.doc, p)}
      BY <2>4, <2>5 DEF Changed
    <3>3. Map!Patch(p)
      BY <2>4, <3>1, <3>2 DEF Map!Patch
    <3> QED
      BY <2>5, <3>3 DEF Map!Next
  <2>6. CASE p \in Worker
    <3>1. due' = [due EXCEPT ![p] = Map!NothingDue]
      BY <1>8, <2>6 DEF Write, Finish
    <3>2. {x.doc : x \in rows}' = {Map!Counted(row.doc, due[p])}
      BY <2>4, <2>6, DeliveryAssumption DEF Changed
    <3>3. Map!Mark(p)
      BY <2>4, <3>1, <3>2 DEF Map!Mark
    <3> QED
      BY <2>6, <3>3 DEF Map!Next
  <2> QED
    BY <2>5, <2>6 DEF Process
<1>9. ASSUME NEW p \in Process, Add(p)
      PROVE  [Map!Next]_(Map!vars)
  <2>1. p \in Client /\ rows = {} /\ copy[p] = Map!Fresh
    BY <1>2, <1>9 DEF Add, Prepared
  <2>2. rows' = {[id |-> made + 1, doc |-> Map!Fresh]} /\ due' = due
    BY <1>9, <2>1, DeliveryAssumption DEF Add, Finish
  <2> QED
    BY <2>1, <2>2 DEF Map!Next, Map!Create
<1>10. ASSUME NEW p \in Process, Die(p)
       PROVE  [Map!Next]_(Map!vars)
  BY <1>10, FinishMaps DEF Die
<1> QED
  BY <1>3, <1>4, <1>5, <1>6, <1>7, <1>8, <1>9, <1>10
     DEF Next, Request, List, Delivered, Find, vars
-------------------------------------------------------------------------------
(* The theorems.                                                             *)

LEMMA CountCorrect == Spec => []CountInv
<1>1. CountInv /\ [Next]_vars => CountInv'
  BY LedgerNext, TypeNext, CopiesNext DEF CountInv
<1> QED
  BY <1>1, InitInv, PTL DEF Spec

LEMMA CountTypes == CountInv => TypeOK
<1> SUFFICES ASSUME CountInv
             PROVE  TypeOK
  OBVIOUS
<1>1. TypeInv /\ Ledger /\ CopiesPosted
  BY DEF CountInv
<1>2. /\ \A w \in Worker : due[w].ok <= posts - failedPosts /\ due[w].bad <= failedPosts
      /\ \A row \in rows : row.doc.sent <= posts /\ row.doc.failed <= failedPosts
  BY <1>1, LedgerBounds
<1>3. posts \in 0 .. MaxPosts /\ failedPosts \in 0 .. posts /\ MaxPosts \in Nat
  BY <1>1, DeliveryAssumption DEF TypeInv
<1>4. due \in [Worker -> [ok : 0 .. MaxPosts, bad : 0 .. MaxPosts]]
  <2>1. \A w \in Worker : due[w] \in [ok : 0 .. MaxPosts, bad : 0 .. MaxPosts]
    <3> SUFFICES ASSUME NEW w \in Worker
                 PROVE  due[w] \in [ok : 0 .. MaxPosts, bad : 0 .. MaxPosts]
      OBVIOUS
    <3>1. due[w] \in [ok : Nat, bad : Nat]
      BY <1>1 DEF TypeInv
    <3>2. due[w].ok <= posts - failedPosts /\ due[w].bad <= failedPosts
      BY <1>2
    <3> QED
      BY <1>3, <3>1, <3>2
  <2> QED
    BY <1>1, <2>1 DEF TypeInv
<1>5. ASSUME NEW doc \in Counted, doc.sent <= posts, doc.failed <= failedPosts
      PROVE  doc \in Document
  BY <1>3, <1>5 DEF Counted, Document
<1>6. copy \in [Process -> Document]
  BY <1>1, <1>5 DEF TypeInv, CopiesPosted
<1>7. rows \subseteq [id : 1 .. made, doc : Document]
  <2> SUFFICES ASSUME NEW row \in rows
               PROVE  row \in [id : 1 .. made, doc : Document]
    OBVIOUS
  <2>1. row \in [id : 1 .. made, doc : Counted]
    BY <1>1 DEF TypeInv
  <2>2. row.doc \in Document
    BY <1>2, <1>5, <2>1
  <2> QED
    BY <2>1, <2>2
<1> QED
  BY <1>1, <1>4, <1>6, <1>7 DEF TypeInv, TypeOK

\* Counters, copies and what is due stay within the number of notifications
\* that were posted, for any requests and tasks.
THEOREM TypeCorrect == Spec => []TypeOK
BY CountCorrect, CountTypes, PTL

\* However deliveries, patches, deletes and failures overlap, no subscription
\* counts more notifications than were posted, nor more failed ones than failed.
THEOREM NeverTooMany == Spec => []NeverOvercounted
<1>1. CountInv => NeverOvercounted
  BY LedgerBounds DEF CountInv, NeverOvercounted
<1> QED
  BY <1>1, CountCorrect, PTL

\* As long as no document is read while a change of it is under way, patches,
\* deletes and accounting writes, each of three calls, are steps of the
\* in-memory repository, for any requests and tasks and whatever fails.
THEOREM AloneImplements == Spec => AloneImplementsMap
<1>1. Init => AloneInv /\ Map!Init
  <2>1. Init => TypeInv
    BY InitInv DEF CountInv
  <2>2. Init => Alone
    BY DEF Init, Alone, OneRow, OneOpen, Open, Prepared
  <2>3. Init => Map!Init
    BY DEF Init, Map!Init
  <2> QED
    BY <2>1, <2>2, <2>3 DEF AloneInv
<1>2. AloneInv /\ [Next]_vars => AloneInv'
  BY TypeNext, AloneNext DEF AloneInv
<1>3. AloneInv /\ [Next]_vars => [~ crossed' => [Map!Next]_(Map!vars)]_vars
  BY StepMaps
<1> QED
  BY <1>1, <1>2, <1>3, PTL DEF Spec, AloneImplementsMap
===============================================================================
