---------------------------- MODULE RetentionProofs ----------------------------
(***************************************************************************)
(* What the loops over lists leave, for any list: every element at the     *)
(* positions kept, once, and in their order.                               *)
(*                                                                         *)
(* No induction is needed: if the positions are in a line, the numbers of  *)
(* those up to each are different, and as many as there are positions, so  *)
(* each number up to that is the one of some position.                     *)
(***************************************************************************)
EXTENDS Retention, FiniteSetTheorems, SequenceTheorems, TLAPS

\* The positions P in a line: each has those before it and itself up to it.
InLine(upTo, P) ==
  /\ upTo \in [P -> SUBSET P]
  /\ \A i \in P : i \in upTo[i]
  /\ \A i, j \in P : i \in upTo[j] => upTo[i] \subseteq upTo[j]
  /\ \A i, j \in P : i # j => \/ i \in upTo[j] /\ j \notin upTo[i]
                              \/ j \in upTo[i] /\ i \notin upTo[j]

\* Sets of positions are finite.
LEMMA PositionsFinite ==
  ASSUME NEW n \in Nat, NEW P \in SUBSET (1 .. n)
  PROVE  IsFiniteSet(P) /\ Cardinality(P) \in Nat /\ Cardinality(P) <= n
<1>1. IsFiniteSet(1 .. n) /\ Cardinality(1 .. n) = n
  BY FS_Interval
<1> QED
  BY <1>1, FS_Subset, FS_CardinalityType

\* There is one of them for every number up to theirs, and a position that
\* comes later has a larger number.
Numbered(upTo, P) ==
  /\ \A i \in P : Cardinality(upTo[i]) \in 1 .. Cardinality(P)
  /\ \A i, j \in P : i \in upTo[j] /\ i # j => Cardinality(upTo[i]) < Cardinality(upTo[j])
  /\ \A i, j \in P : Cardinality(upTo[i]) = Cardinality(upTo[j]) => i = j
  /\ \A k \in 1 .. Cardinality(P) : \E i \in P : Cardinality(upTo[i]) = k

\* Positions in a line are numbered by how many there are up to each.
LEMMA Ranks ==
  ASSUME NEW P, IsFiniteSet(P), NEW upTo, InLine(upTo, P)
  PROVE  Numbered(upTo, P)
<1>1. Cardinality(P) \in Nat
  BY FS_CardinalityType
<1>2. ASSUME NEW S \in SUBSET P
      PROVE  IsFiniteSet(S) /\ Cardinality(S) \in Nat /\ Cardinality(S) <= Cardinality(P)
  BY FS_Subset, FS_CardinalityType
<1>3. ASSUME NEW i \in P
      PROVE  Cardinality(upTo[i]) \in 1 .. Cardinality(P)
  <2>1. upTo[i] \in SUBSET P /\ upTo[i] # {}
    BY DEF InLine
  <2>2. /\ IsFiniteSet(upTo[i]) /\ Cardinality(upTo[i]) \in Nat
        /\ Cardinality(upTo[i]) <= Cardinality(P)
    BY <1>2, <2>1
  <2>3. Cardinality(upTo[i]) # 0
    BY <2>1, <2>2, FS_EmptySet
  <2> QED
    BY <1>1, <2>2, <2>3
<1>4. ASSUME NEW i \in P, NEW j \in P, i \in upTo[j], i # j
      PROVE  Cardinality(upTo[i]) < Cardinality(upTo[j])
  <2>1. PICK S \in SUBSET P : S = upTo[i]
    BY DEF InLine
  <2>2. PICK T \in SUBSET P : T = upTo[j]
    BY DEF InLine
  <2>3. S \in SUBSET T /\ S # T
    <3>1. S \subseteq T
      BY <1>4, <2>1, <2>2 DEF InLine
    <3>2. j \in T /\ j \notin S
      BY <1>4, <2>1, <2>2 DEF InLine
    <3> QED
      BY <3>1, <3>2
  <2>4. Cardinality(S) <= Cardinality(T) /\ Cardinality(S) # Cardinality(T)
    <3>1. IsFiniteSet(T)
      BY <1>2
    <3>2. Cardinality(S) <= Cardinality(T) /\ (Cardinality(T) = Cardinality(S) => T = S)
      BY <2>3, <3>1, FS_Subset, Zenon
    <3> QED
      BY <2>3, <3>2
  <2>5. Cardinality(S) \in Nat /\ Cardinality(T) \in Nat
    BY <1>2
  <2> QED
    BY <2>1, <2>2, <2>4, <2>5
<1>5. \A i, j \in P : Cardinality(upTo[i]) = Cardinality(upTo[j]) => i = j
  <2> SUFFICES ASSUME NEW i \in P, NEW j \in P, Cardinality(upTo[i]) = Cardinality(upTo[j]), i # j
               PROVE  FALSE
    OBVIOUS
  <2>1. i \in upTo[j] \/ j \in upTo[i]
    BY DEF InLine
  <2>2. Cardinality(upTo[i]) \in Nat /\ Cardinality(upTo[j]) \in Nat
    BY <1>3
  <2> QED
    BY <1>4, <2>1, <2>2
<1>6. ASSUME NEW k \in 1 .. Cardinality(P)
      PROVE  \E i \in P : Cardinality(upTo[i]) = k
  <2> DEFINE f == [i \in P |-> Cardinality(upTo[i])]
  <2>1. f \in [P -> 1 .. Cardinality(P)]
    BY <1>3
  <2>2. f \in Injection(P, 1 .. Cardinality(P))
    BY <1>5, <2>1 DEF Injection, IsInjective
  <2>3. /\ IsFiniteSet(1 .. Cardinality(P))
        /\ Cardinality(1 .. Cardinality(P)) = Cardinality(P)
    BY <1>1, FS_Interval
  <2>4. f \in Surjection(P, 1 .. Cardinality(P))
    BY <2>2, <2>3, FS_Injection
  <2> QED
    BY <2>4 DEF Surjection
<1> QED
  BY <1>3, <1>4, <1>5, <1>6 DEF Numbered

\* f puts the positions P into their order.
Orders(f, upTo, P) ==
  /\ f \in [1 .. Cardinality(P) -> P]
  /\ \A k, l \in 1 .. Cardinality(P) : f[k] = f[l] => k = l
  /\ \A k, l \in 1 .. Cardinality(P) : k < l => f[k] \in upTo[f[l]]
  /\ \A i \in P : \E k \in 1 .. Cardinality(P) : f[k] = i

\* Arranged holds the elements at positions in a line, each once, in order.
LEMMA ArrangedIs ==
  ASSUME NEW S, NEW s \in Seq(S), NEW P \in SUBSET DOMAIN s, NEW upTo, InLine(upTo, P)
  PROVE  /\ Arranged(s, upTo) \in Seq(S)
         /\ Cardinality(P) \in Nat /\ Cardinality(P) <= Len(s)
         /\ Len(Arranged(s, upTo)) = Cardinality(P)
         /\ \E f : /\ Orders(f, upTo, P)
                   /\ \A k \in 1 .. Cardinality(P) : Arranged(s, upTo)[k] = s[f[k]]
<1> DEFINE nth(k) == CHOOSE i \in P : Cardinality(upTo[i]) = k
           c == Cardinality(P)
           f == [k \in 1 .. c |-> nth(k)]
<1>0. P \in SUBSET (1 .. Len(s)) /\ Len(s) \in Nat /\ DOMAIN upTo = P
  BY DEF InLine
<1>1. IsFiniteSet(P) /\ c \in Nat /\ c <= Len(s)
  BY <1>0, PositionsFinite
<1>2. /\ \A i \in P : Cardinality(upTo[i]) \in 1 .. c
      /\ \A i, j \in P : i \in upTo[j] /\ i # j => Cardinality(upTo[i]) < Cardinality(upTo[j])
      /\ \A i, j \in P : Cardinality(upTo[i]) = Cardinality(upTo[j]) => i = j
      /\ \A k \in 1 .. c : \E i \in P : Cardinality(upTo[i]) = k
  BY <1>1, Ranks DEF Numbered
<1>3. \A k \in 1 .. c : nth(k) \in P /\ Cardinality(upTo[nth(k)]) = k
  BY <1>2
<1>4. Arranged(s, upTo) = [k \in 1 .. c |-> s[nth(k)]]
  BY <1>0 DEF Arranged
<1> HIDE DEF nth, c
<1>5. f \in [1 .. c -> P] /\ \A k \in 1 .. c : f[k] = nth(k)
  BY <1>3
<1> HIDE DEF f
<1>6. Arranged(s, upTo) \in [1 .. c -> S]
  BY <1>3, <1>4
<1>7. Arranged(s, upTo) \in Seq(S) /\ Len(Arranged(s, upTo)) = c
  BY <1>1, <1>6
<1>8. \A k \in 1 .. c : Arranged(s, upTo)[k] = s[f[k]]
  BY <1>4, <1>5
<1>9. Orders(f, upTo, P)
  <2>1. \A k, l \in 1 .. c : f[k] = f[l] => k = l
    BY <1>3, <1>5
  <2>2. ASSUME NEW k \in 1 .. c, NEW l \in 1 .. c, k < l
        PROVE  f[k] \in upTo[f[l]]
    <3> DEFINE i == f[k]
               j == f[l]
    <3>1. i \in P /\ j \in P /\ Cardinality(upTo[i]) = k /\ Cardinality(upTo[j]) = l
      BY <1>3, <1>5
    <3> HIDE DEF i, j
    <3>2. i # j
      BY <2>2, <3>1
    <3>3. ~ (Cardinality(upTo[j]) < Cardinality(upTo[i]))
      BY <1>1, <2>2, <3>1
    <3>4. i \in upTo[j]
      BY <1>2, <3>1, <3>2, <3>3 DEF InLine
    <3> QED
      BY <3>4 DEF i, j
  <2>3. \A i \in P : \E k \in 1 .. c : f[k] = i
    BY <1>2, <1>3, <1>5
  <2> QED
    BY <1>5, <2>1, <2>2, <2>3 DEF Orders, c
<1> QED
  BY <1>1, <1>7, <1>8, <1>9, Zenon DEF c

\* Positions are in the line of their numbers.
LEMMA NumbersInLine ==
  ASSUME NEW n \in Nat, NEW P \in SUBSET (1 .. n)
  PROVE  InLine([i \in P |-> {j \in P : j <= i}], P)
<1> DEFINE upTo == [i \in P |-> {j \in P : j <= i}]
<1>1. \A i \in P : i \in Int
  OBVIOUS
<1>2. upTo \in [P -> SUBSET P] /\ \A i, j \in P : i \in upTo[j] <=> i <= j
  <2>1. \A i \in P : {j \in P : j <= i} \in SUBSET P
    OBVIOUS
  <2> QED
    BY <2>1
<1> HIDE DEF upTo
<1>3. \A i \in P : i \in upTo[i]
  BY <1>1, <1>2
<1>4. ASSUME NEW i \in P, NEW j \in P, i \in upTo[j]
      PROVE  upTo[i] \subseteq upTo[j]
  <2> SUFFICES ASSUME NEW k \in upTo[i]
               PROVE  k \in upTo[j]
    OBVIOUS
  <2>1. k \in P /\ k <= i /\ i <= j
    BY <1>2, <1>4
  <2> QED
    BY <1>1, <1>2, <2>1
<1>5. \A i, j \in P : i # j =>
        \/ i \in upTo[j] /\ j \notin upTo[i]
        \/ j \in upTo[i] /\ i \notin upTo[j]
  BY <1>1, <1>2
<1>6. InLine(upTo, P)
  BY <1>2, <1>3, <1>4, <1>5 DEF InLine
<1> QED
  BY <1>6 DEF upTo

\* f finds what Retained keeps: the elements at the positions, each once.
Finds(f, s, P) ==
  /\ f \in [1 .. Cardinality(P) -> P]
  /\ \A k \in 1 .. Cardinality(P) : Retained(s, P)[k] = s[f[k]]
  /\ \A k, l \in 1 .. Cardinality(P) : f[k] = f[l] => k = l
  /\ \A i \in P : \E k \in 1 .. Cardinality(P) : f[k] = i

\* Retained keeps the elements at the positions.
LEMMA RetainedIs ==
  ASSUME NEW S, NEW s \in Seq(S), NEW P \in SUBSET DOMAIN s
  PROVE  /\ Retained(s, P) \in Seq(S)
         /\ Len(Retained(s, P)) = Cardinality(P)
         /\ Len(Retained(s, P)) <= Len(s)
         /\ \E f : Finds(f, s, P)
<1>1. P \in SUBSET (1 .. Len(s)) /\ Len(s) \in Nat
  OBVIOUS
<1>2. PICK upTo : upTo = [i \in P |-> {j \in P : j <= i}]
  OBVIOUS
<1>3. InLine(upTo, P)
  BY <1>1, <1>2, NumbersInLine
<1>4. Retained(s, P) = Arranged(s, upTo)
  BY <1>2 DEF Retained
<1>5. /\ Arranged(s, upTo) \in Seq(S)
      /\ Cardinality(P) <= Len(s)
      /\ Len(Arranged(s, upTo)) = Cardinality(P)
  BY <1>3, ArrangedIs
<1>6. PICK f : /\ Orders(f, upTo, P)
               /\ \A k \in 1 .. Cardinality(P) : Arranged(s, upTo)[k] = s[f[k]]
  BY <1>3, ArrangedIs
<1>7. /\ f \in [1 .. Cardinality(P) -> P]
      /\ \A k, l \in 1 .. Cardinality(P) : f[k] = f[l] => k = l
      /\ \A i \in P : \E k \in 1 .. Cardinality(P) : f[k] = i
  BY <1>6 DEF Orders
<1>8. Finds(f, s, P)
  BY <1>4, <1>6, <1>7 DEF Finds
<1> QED
  BY <1>4, <1>5, <1>8

\* The elements retained are those at the positions.
LEMMA RetainedHolds ==
  ASSUME NEW S, NEW s \in Seq(S), NEW P \in SUBSET DOMAIN s
  PROVE  {Retained(s, P)[k] : k \in DOMAIN Retained(s, P)} = {s[i] : i \in P}
<1>1. PICK t \in Seq(S) : t = Retained(s, P)
  BY RetainedIs
<1>2. PICK K : K = 1 .. Cardinality(P)
  OBVIOUS
<1>3. DOMAIN t = K
  BY <1>1, <1>2, RetainedIs
<1>4. PICK f : Finds(f, s, P)
  BY RetainedIs
<1>5. /\ f \in [K -> P]
      /\ \A k \in K : t[k] = s[f[k]]
      /\ \A i \in P : \E k \in K : f[k] = i
  BY <1>1, <1>2, <1>4, Zenon DEF Finds
<1>6. ASSUME NEW k \in K PROVE t[k] \in {s[i] : i \in P}
  <2>1. f[k] \in P
    BY <1>5
  <2>2. t[k] = s[f[k]]
    BY <1>5
  <2> QED
    BY <2>1, <2>2, Zenon
<1>7. ASSUME NEW i \in P PROVE s[i] \in {t[k] : k \in K}
  <2>1. PICK k \in K : f[k] = i
    BY <1>5
  <2> QED
    BY <1>5, <2>1
<1>8. {t[k] : k \in K} = {s[i] : i \in P}
  <2>1. {t[k] : k \in K} \subseteq {s[i] : i \in P}
    BY <1>6
  <2>2. {s[i] : i \in P} \subseteq {t[k] : k \in K}
    BY <1>7
  <2> QED
    BY <2>1, <2>2, Zenon
<1> QED
  BY <1>1, <1>3, <1>8, Zenon

\* Rows of a list, from m to n.
LEMMA PartIs ==
  ASSUME NEW S, NEW s \in Seq(S), NEW m \in Int, NEW n \in Int, 1 <= m, m <= n + 1, n <= Len(s)
  PROVE  SubSeq(s, m, n) \in Seq(S) /\ Len(SubSeq(s, m, n)) = n - m + 1
<1>1. \A i \in m .. n : s[i] \in S
  <2> SUFFICES ASSUME NEW i \in m .. n PROVE s[i] \in S
    OBVIOUS
  <2>1. i \in 1 .. Len(s)
    BY LenProperties
  <2> QED
    BY <2>1, ElementOfSeq
<1> QED
  BY <1>1, SubSeqProperties

\* A set of positions has a first and a last.
LEMMA Ends ==
  ASSUME NEW n \in Nat, NEW P \in SUBSET (1 .. n), P # {}
  PROVE  /\ \E i \in P : \A j \in P : i <= j
         /\ \E i \in P : \A j \in P : j <= i
<1>0. PICK upTo : upTo = [i \in P |-> {j \in P : j <= i}]
  OBVIOUS
<1> DEFINE rank(i) == Cardinality(upTo[i])
           c == Cardinality(P)
<1>1. IsFiniteSet(P) /\ c \in Nat /\ c # 0
  BY PositionsFinite, FS_EmptySet
<1>2. \A i \in P : i \in Int
  OBVIOUS
<1>3. \A i, j \in P : i \in upTo[j] <=> i <= j
  BY <1>0
<1>4. InLine(upTo, P)
  BY <1>0, NumbersInLine
<1>5. /\ \A i \in P : rank(i) \in 1 .. c
      /\ \A i, j \in P : i \in upTo[j] /\ i # j => rank(i) < rank(j)
      /\ \A k \in 1 .. c : \E i \in P : rank(i) = k
  <2>1. Numbered(upTo, P)
    BY <1>1, <1>4, Ranks
  <2> QED
    BY <2>1 DEF Numbered
<1> HIDE DEF rank, c
<1>6. \A i, j \in P : i < j => rank(i) < rank(j)
  BY <1>2, <1>3, <1>5
<1>7. PICK i \in P, l \in P : rank(i) = 1 /\ rank(l) = c
  <2>1. 1 \in 1 .. c /\ c \in 1 .. c
    BY <1>1
  <2> QED
    BY <1>5, <2>1
<1>8. ASSUME NEW j \in P
      PROVE  i <= j /\ j <= l
  <2>1. i \in Int /\ j \in Int /\ l \in Int
    BY <1>2
  <2>2. rank(j) \in Int /\ rank(j) >= 1 /\ rank(j) <= c /\ c \in Int
    BY <1>1, <1>5
  <2>3. ~ j < i
    BY <1>6, <1>7, <2>2
  <2>4. ~ l < j
    BY <1>6, <1>7, <2>2
  <2> QED
    BY <2>1, <2>3, <2>4
<1> QED
  BY <1>7, <1>8
-------------------------------------------------------------------------------
(* Sums over lists                                                           *)

\* What holds at 0 and is passed on from each number to the next holds up to n.
LEMMA UpTo ==
  ASSUME NEW n \in Nat, NEW H, 0 \in H, \A m \in 1 .. n : m - 1 \in H => m \in H
  PROVE  0 .. n \subseteq H
<1>1. PICK P \in SUBSET (1 .. n) : P = {m \in 1 .. n : m \notin H}
  OBVIOUS
<1>2. P = {}
  <2> SUFFICES ASSUME P # {}
               PROVE  FALSE
    OBVIOUS
  <2>1. PICK i \in P : \A j \in P : i <= j
    BY Ends
  <2>2. i - 1 = 0 \/ i - 1 \in 1 .. n
    OBVIOUS
  <2>3. i - 1 \in H
    <3>1. ~ (i <= i - 1)
      OBVIOUS
    <3> QED
      BY <1>1, <2>1, <2>2, <3>1
  <2> QED
    BY <1>1, <2>3
<1>3. \A m \in 0 .. n : m = 0 \/ m \in 1 .. n
  OBVIOUS
<1> QED
  BY <1>1, <1>2, <1>3

\* g has the sums of the first numbers of w: of none, of one, up to all n.
AreSums(g, n, w) ==
  /\ g \in [0 .. n -> Int]
  /\ g[0] = 0
  /\ \A k \in 1 .. n : g[k] = g[k - 1] + w[k]

LEMMA SumsExist ==
  ASSUME NEW n \in Nat, NEW w \in [1 .. n -> Int]
  PROVE  \E g : AreSums(g, n, w)
<1>1. PICK H : H = {m \in 0 .. n : \E g : AreSums(g, m, w)}
  OBVIOUS
<1>2. 0 \in H
  <2>1. PICK g : g = [k \in 0 .. 0 |-> 0]
    OBVIOUS
  <2>2. AreSums(g, 0, w)
    BY <2>1 DEF AreSums
  <2> QED
    BY <1>1, <2>2
<1>3. ASSUME NEW m \in 1 .. n, m - 1 \in H
      PROVE  m \in H
  <2>1. PICK g : AreSums(g, m - 1, w)
    BY <1>1, <1>3
  <2>2. /\ g \in [0 .. m - 1 -> Int] /\ g[0] = 0
        /\ \A k \in 1 .. m - 1 : g[k] = g[k - 1] + w[k]
    BY <2>1 DEF AreSums
  <2>3. PICK h : h = [k \in 0 .. m |-> IF k = m THEN g[m - 1] + w[m] ELSE g[k]]
    OBVIOUS
  <2>4. m - 1 \in 0 .. m - 1 /\ g[m - 1] \in Int /\ w[m] \in Int
    BY <2>2
  <2>5. \A k \in 0 .. m : k # m => k \in 0 .. m - 1
    OBVIOUS
  <2>6. h \in [0 .. m -> Int]
    BY <2>2, <2>3, <2>4, <2>5
  <2>7. h[0] = 0
    BY <2>2, <2>3
  <2>8. ASSUME NEW k \in 1 .. m
        PROVE  h[k] = h[k - 1] + w[k]
    <3>1. h[k - 1] = g[k - 1]
      BY <2>3
    <3>2. CASE k = m
      BY <2>3, <3>1, <3>2
    <3>3. CASE k # m
      <4>1. k \in 1 .. m - 1 /\ h[k] = g[k]
        BY <2>3, <3>3
      <4> QED
        BY <2>2, <3>1, <4>1
    <3> QED
      BY <3>2, <3>3
  <2>9. AreSums(h, m, w) /\ m \in 0 .. n
    BY <2>6, <2>7, <2>8 DEF AreSums
  <2> QED
    BY <1>1, <2>9
<1>4. n \in H
  <2>1. 0 .. n \subseteq H
    BY <1>2, <1>3, UpTo
  <2> QED
    BY <2>1
<1> QED
  BY <1>1, <1>4

\* There are no other sums.
LEMMA SumsAre ==
  ASSUME NEW n \in Nat, NEW w, NEW g, AreSums(g, n, w), NEW h, AreSums(h, n, w)
  PROVE  g = h
<1>1. PICK H : H = {m \in 0 .. n : g[m] = h[m]}
  OBVIOUS
<1>2. /\ g \in [0 .. n -> Int] /\ g[0] = 0 /\ \A k \in 1 .. n : g[k] = g[k - 1] + w[k]
      /\ h \in [0 .. n -> Int] /\ h[0] = 0 /\ \A k \in 1 .. n : h[k] = h[k - 1] + w[k]
  BY DEF AreSums
<1>3. 0 \in H
  BY <1>1, <1>2
<1>4. ASSUME NEW m \in 1 .. n, m - 1 \in H
      PROVE  m \in H
  <2>1. g[m] = h[m] /\ m \in 0 .. n
    BY <1>1, <1>2, <1>4
  <2> QED
    BY <1>1, <2>1
<1>5. 0 .. n \subseteq H
  BY <1>3, <1>4, UpTo
<1> QED
  BY <1>1, <1>2, <1>5

\* What the loop ends with is the last of the sums.
LEMMA SumIs ==
  ASSUME NEW n \in Nat, NEW w \in [1 .. n -> Int], NEW g, AreSums(g, n, w)
  PROVE  SumOf(w) = g[n]
<1> DEFINE Goes(h) == h = [k \in 0 .. Len(w) |-> IF k = 0 THEN 0 ELSE h[k - 1] + w[k]]
<1>1. Len(w) = n
  OBVIOUS
<1>2. Goes(g)
  <2>1. PICK f : f = [k \in 0 .. n |-> IF k = 0 THEN 0 ELSE g[k - 1] + w[k]]
    OBVIOUS
  <2>2. g \in [0 .. n -> Int] /\ g[0] = 0 /\ \A k \in 1 .. n : g[k] = g[k - 1] + w[k]
    BY DEF AreSums
  <2>3. \A k \in 0 .. n : f[k] = g[k]
    BY <2>1, <2>2
  <2>4. f = g
    BY <2>1, <2>2, <2>3
  <2> QED
    BY <1>1, <2>1, <2>4
<1>3. PICK h : h = CHOOSE f : Goes(f)
  OBVIOUS
<1>4. SumOf(w) = h[Len(w)]
  BY <1>3, Zenon DEF SumOf
<1>5. Goes(h)
  BY <1>2, <1>3
<1>6. AreSums(h, n, w)
  <2>1. h = [k \in 0 .. n |-> IF k = 0 THEN 0 ELSE h[k - 1] + w[k]]
    BY <1>1, <1>5
  <2>2. h[0] = 0 /\ \A k \in 1 .. n : h[k] = h[k - 1] + w[k]
    BY <2>1
  <2>3. PICK H : H = {m \in 0 .. n : h[m] \in Int}
    OBVIOUS
  <2>4. 0 \in H
    BY <2>2, <2>3
  <2>5. ASSUME NEW m \in 1 .. n, m - 1 \in H
        PROVE  m \in H
    <3>1. h[m - 1] \in Int /\ w[m] \in Int /\ m \in 0 .. n
      BY <2>3, <2>5
    <3> QED
      BY <2>2, <2>3, <3>1
  <2>6. 0 .. n \subseteq H
    BY <2>4, <2>5, UpTo
  <2>7. \A m \in 0 .. n : h[m] \in Int
    BY <2>3, <2>6
  <2>8. h \in [0 .. n -> Int]
    BY <2>1, <2>7
  <2> QED
    BY <2>2, <2>8 DEF AreSums
<1>7. h = g
  BY <1>6, SumsAre
<1> QED
  BY <1>1, <1>4, <1>7

\* The numbers w add t, u and v up, for each element of K.
AddUp(K, w, t, u, v) ==
  /\ t \in [K -> Int] /\ u \in [K -> Int] /\ v \in [K -> Int] /\ w \in [K -> Int]
  /\ \A k \in K : w[k] = t[k] + u[k] + v[k]

\* A list that adds three others up has the sum of their sums.
LEMMA SumsAdd ==
  ASSUME NEW n \in Nat, NEW w, NEW t, NEW u, NEW v, AddUp(1 .. n, w, t, u, v)
  PROVE  SumOf(w) = SumOf(t) + SumOf(u) + SumOf(v)
<1>0. /\ t \in [1 .. n -> Int] /\ u \in [1 .. n -> Int]
      /\ v \in [1 .. n -> Int] /\ w \in [1 .. n -> Int]
      /\ \A k \in 1 .. n : w[k] = t[k] + u[k] + v[k]
  BY DEF AddUp
<1>1. PICK f, g, h : AreSums(f, n, t) /\ AreSums(g, n, u) /\ AreSums(h, n, v)
  BY <1>0, SumsExist
<1>2. PICK s : s = [k \in 0 .. n |-> f[k] + g[k] + h[k]]
  OBVIOUS
<1>3. /\ f \in [0 .. n -> Int] /\ f[0] = 0 /\ \A k \in 1 .. n : f[k] = f[k - 1] + t[k]
      /\ g \in [0 .. n -> Int] /\ g[0] = 0 /\ \A k \in 1 .. n : g[k] = g[k - 1] + u[k]
      /\ h \in [0 .. n -> Int] /\ h[0] = 0 /\ \A k \in 1 .. n : h[k] = h[k - 1] + v[k]
  BY <1>1 DEF AreSums
<1>4. s \in [0 .. n -> Int] /\ s[0] = 0
  BY <1>2, <1>3
<1>5. ASSUME NEW k \in 1 .. n
      PROVE  s[k] = s[k - 1] + w[k]
  <2>1. /\ k \in 0 .. n /\ k - 1 \in 0 .. n
        /\ t[k] \in Int /\ u[k] \in Int /\ v[k] \in Int
    BY <1>0
  <2>2. f[k - 1] \in Int /\ g[k - 1] \in Int /\ h[k - 1] \in Int
    BY <1>3, <2>1
  <2>3. /\ s[k] = f[k] + g[k] + h[k]
        /\ s[k - 1] = f[k - 1] + g[k - 1] + h[k - 1]
    BY <1>2, <2>1
  <2>4. f[k] = f[k - 1] + t[k] /\ g[k] = g[k - 1] + u[k] /\ h[k] = h[k - 1] + v[k]
    BY <1>3
  <2>5. w[k] = t[k] + u[k] + v[k]
    BY <1>0
  <2>6. PICK a \in Int, b \in Int, c \in Int : a = f[k - 1] /\ b = g[k - 1] /\ c = h[k - 1]
    BY <2>2, Zenon
  <2>7. PICK x \in Int, y \in Int, z \in Int : x = t[k] /\ y = u[k] /\ z = v[k]
    BY <2>1, Zenon
  <2>8. s[k] = (a + x) + (b + y) + (c + z)
    BY <2>3, <2>4, <2>6, <2>7, Zenon
  <2>9. s[k - 1] + w[k] = (a + b + c) + (x + y + z)
    BY <2>3, <2>5, <2>6, <2>7, Zenon
  <2>10. (a + x) + (b + y) + (c + z) = (a + b + c) + (x + y + z)
    OBVIOUS
  <2> QED
    BY <2>8, <2>9, <2>10, Zenon
<1>6. AreSums(s, n, w)
  BY <1>4, <1>5 DEF AreSums
<1>7. SumOf(w) = s[n] /\ SumOf(t) = f[n] /\ SumOf(u) = g[n] /\ SumOf(v) = h[n]
  BY <1>0, <1>1, <1>6, SumIs
<1>8. s[n] = f[n] + g[n] + h[n]
  BY <1>2
<1> QED
  BY <1>7, <1>8

\* A list of as many ones has its length for a sum.
LEMMA SumOfOnes ==
  ASSUME NEW n \in Nat, NEW w, w = [k \in 1 .. n |-> 1]
  PROVE  SumOf(w) = n
<1>1. PICK g : g = [k \in 0 .. n |-> k]
  OBVIOUS
<1>2. AreSums(g, n, w) /\ w \in [1 .. n -> Int]
  BY <1>1 DEF AreSums
<1>3. SumOf(w) = g[n]
  BY <1>2, SumIs
<1> QED
  BY <1>1, <1>3

\* c counts what retain leaves of the positions up to each: the last of that is
\* the position itself if it is kept.
Counts(c, s, P) ==
  /\ c \in [0 .. Len(s) -> 0 .. Cardinality(P)]
  /\ c[0] = 0 /\ c[Len(s)] = Cardinality(P)
  /\ \A m \in 1 .. Len(s) :
       /\ m \in P => c[m] = c[m - 1] + 1 /\ Retained(s, P)[c[m]] = s[m]
       /\ m \notin P => c[m] = c[m - 1]

LEMMA RetainedUpTo ==
  ASSUME NEW S, NEW s \in Seq(S), NEW P \in SUBSET DOMAIN s
  PROVE  \E c : Counts(c, s, P)
<1>0. PICK c : c = [m \in 0 .. Len(s) |-> Cardinality({j \in P : j <= m})]
  OBVIOUS
<1>1. PICK n \in Nat : n = Len(s) /\ P \in SUBSET (1 .. n)
  OBVIOUS
<1>2. IsFiniteSet(P) /\ Cardinality(P) \in Nat
  BY <1>1, PositionsFinite
<1>3. \A j \in P : j \in 1 .. n
  BY <1>1
<1>4. ASSUME NEW m \in 0 .. n
      PROVE  /\ IsFiniteSet({j \in P : j <= m})
             /\ c[m] = Cardinality({j \in P : j <= m}) /\ c[m] \in 0 .. Cardinality(P)
  <2>1. PICK Q \in SUBSET P : Q = {j \in P : j <= m}
    OBVIOUS
  <2>2. IsFiniteSet(Q) /\ Cardinality(Q) <= Cardinality(P) /\ Cardinality(Q) \in Nat
    BY <1>2, FS_Subset, FS_CardinalityType
  <2>3. c[m] = Cardinality(Q)
    BY <1>0, <1>1, <2>1
  <2> QED
    BY <1>2, <2>1, <2>2, <2>3
<1>5. c[0] = 0
  <2>1. {j \in P : j <= 0} = {}
    BY <1>3
  <2> QED
    BY <1>4, <2>1, FS_EmptySet
<1>6. c[n] = Cardinality(P)
  <2>1. {j \in P : j <= n} = P
    BY <1>3
  <2>2. n \in 0 .. n
    OBVIOUS
  <2> QED
    BY <1>4, <2>1, <2>2
<1>7. ASSUME NEW m \in 1 .. n, m \notin P
      PROVE  c[m] = c[m - 1]
  <2>1. {j \in P : j <= m} = {j \in P : j <= m - 1}
    BY <1>3, <1>7
  <2>2. m \in 0 .. n /\ m - 1 \in 0 .. n
    OBVIOUS
  <2> QED
    BY <1>4, <2>1, <2>2
<1>8. ASSUME NEW m \in 1 .. n, m \in P
      PROVE  c[m] = c[m - 1] + 1 /\ Retained(s, P)[c[m]] = s[m]
  <2>1. PICK Q \in SUBSET P : Q = {j \in P : j <= m - 1}
    OBVIOUS
  <2>2. m \in 0 .. n /\ m - 1 \in 0 .. n
    OBVIOUS
  <2>3. {j \in P : j <= m} = Q \cup {m}
    BY <1>3, <1>8, <2>1
  <2>4. m \notin Q /\ IsFiniteSet(Q)
    <3>1. ~ (m <= m - 1)
      OBVIOUS
    <3> QED
      BY <1>2, <2>1, <3>1, FS_Subset
  <2>5. c[m] = c[m - 1] + 1
    <3>1. Cardinality(Q \cup {m}) = Cardinality(Q) + 1
      BY <2>4, FS_AddElement
    <3> QED
      BY <1>4, <2>1, <2>2, <2>3, <3>1
  <2>6. PICK upTo : upTo = [i \in P |-> {j \in P : j <= i}]
    OBVIOUS
  <2>7. Retained(s, P) = [k \in 1 .. Cardinality(P) |->
                            s[CHOOSE i \in P : Cardinality(upTo[i]) = k]]
    <3>1. DOMAIN upTo = P
      BY <2>6
    <3>2. Retained(s, P) = Arranged(s, upTo)
      BY <2>6, Zenon DEF Retained
    <3>3. Arranged(s, upTo) = [k \in 1 .. Cardinality(DOMAIN upTo) |->
                                 s[CHOOSE i \in DOMAIN upTo : Cardinality(upTo[i]) = k]]
      BY DEF Arranged
    <3> QED
      BY <3>1, <3>2, <3>3
  <2>8. Numbered(upTo, P)
    BY <1>1, <1>2, <2>6, NumbersInLine, Ranks
  <2>9. Cardinality(upTo[m]) = c[m]
    BY <1>4, <1>8, <2>2, <2>6
  <2>10. (CHOOSE i \in P : Cardinality(upTo[i]) = c[m]) = m
    <3>1. PICK k : k = CHOOSE i \in P : Cardinality(upTo[i]) = c[m]
      OBVIOUS
    <3>2. k \in P /\ Cardinality(upTo[k]) = c[m]
      BY <1>8, <2>9, <3>1, Zenon
    <3> QED
      BY <1>8, <2>8, <2>9, <3>1, <3>2, Zenon DEF Numbered
  <2>11. c[m] \in 1 .. Cardinality(P)
    BY <1>8, <2>8, <2>9 DEF Numbered
  <2>12. Retained(s, P)[c[m]] = s[CHOOSE i \in P : Cardinality(upTo[i]) = c[m]]
    BY <2>7, <2>11, Zenon
  <2> QED
    BY <2>5, <2>10, <2>12, Zenon
<1>9. c \in [0 .. n -> 0 .. Cardinality(P)]
  BY <1>0, <1>1, <1>4
<1>10. Counts(c, s, P)
  BY <1>1, <1>5, <1>6, <1>7, <1>8, <1>9 DEF Counts
<1> QED
  BY <1>10

\* The elements of a list, each with the number v has for it, add up to this.
Weigh(s, v) == SumOf([k \in DOMAIN s |-> v[s[k]]])

\* The positions of the elements in A.
Places(s, A) == {i \in DOMAIN s : s[i] \in A}

\* The numbers of the elements in A, and 0 for the others.
Within(S, A, v) == [x \in S |-> IF x \in A THEN v[x] ELSE 0]

\* What retain leaves weighs what it keeps of the list weighs in it.
LEMMA RetainedWeighs ==
  ASSUME NEW S, NEW s \in Seq(S), NEW A, NEW v \in [S -> Int]
  PROVE  Weigh(Retained(s, Places(s, A)), v) = Weigh(s, Within(S, A, v))
<1>0. PICK P \in SUBSET DOMAIN s : P = Places(s, A) /\ P = {i \in DOMAIN s : s[i] \in A}
  BY DEF Places
<1>1. PICK n \in Nat : n = Len(s) /\ DOMAIN s = 1 .. n /\ s \in [1 .. n -> S]
  OBVIOUS
<1>2. PICK r \in Seq(S) : r = Retained(s, P) /\ Len(r) = Cardinality(P)
  BY RetainedIs
<1>3. PICK l \in Nat : l = Cardinality(P) /\ DOMAIN r = 1 .. l /\ r \in [1 .. l -> S]
  <2>1. Len(r) \in Nat /\ DOMAIN r = 1 .. Len(r) /\ r \in [1 .. Len(r) -> S]
    OBVIOUS
  <2> QED
    BY <1>2, <2>1
<1>4. PICK u \in [1 .. l -> Int] : u = [k \in DOMAIN r |-> v[r[k]]]
  BY <1>3
<1>5. PICK w \in [1 .. n -> Int] : /\ w = [k \in 1 .. n |-> IF k \in P THEN v[s[k]] ELSE 0]
  <2>1. \A k \in 1 .. n : v[s[k]] \in Int
    BY <1>1
  <2>2. [k \in 1 .. n |-> IF k \in P THEN v[s[k]] ELSE 0] \in [1 .. n -> Int]
    BY <2>1
  <2> QED
    BY <2>2
<1>6. PICK g : AreSums(g, l, u)
  BY SumsExist
<1>7. PICK c : Counts(c, s, P)
  BY RetainedUpTo
<1>8. /\ c \in [0 .. n -> 0 .. l]
      /\ c[0] = 0 /\ c[n] = l
      /\ \A m \in 1 .. n : /\ m \in P => c[m] = c[m - 1] + 1 /\ r[c[m]] = s[m]
                           /\ m \notin P => c[m] = c[m - 1]
  BY <1>1, <1>2, <1>3, <1>7 DEF Counts
<1>9. PICK h : h = [m \in 0 .. n |-> g[c[m]]]
  OBVIOUS
<1>10. g \in [0 .. l -> Int] /\ g[0] = 0 /\ \A k \in 1 .. l : g[k] = g[k - 1] + u[k]
  BY <1>6 DEF AreSums
<1>11. h \in [0 .. n -> Int] /\ h[0] = 0
  BY <1>8, <1>9, <1>10
<1>12. ASSUME NEW m \in 1 .. n
       PROVE  h[m] = h[m - 1] + w[m]
  <2>1. m \in 0 .. n /\ m - 1 \in 0 .. n
    OBVIOUS
  <2>2. h[m] = g[c[m]] /\ h[m - 1] = g[c[m - 1]] /\ h[m - 1] \in Int
    BY <1>9, <1>11, <2>1
  <2>3. CASE m \in P
    <3>1. c[m] = c[m - 1] + 1 /\ r[c[m]] = s[m]
      BY <1>8, <2>3
    <3>2. c[m - 1] \in 0 .. l /\ c[m] \in 0 .. l
      BY <1>8, <2>1
    <3>3. c[m] \in 1 .. l /\ c[m] - 1 = c[m - 1]
      <4>1. PICK x \in 0 .. l : x = c[m - 1]
        BY <3>2
      <4>2. c[m] = x + 1 /\ x + 1 \in 0 .. l
        BY <3>1, <3>2, <4>1
      <4>3. x + 1 \in 1 .. l /\ x + 1 - 1 = x
        BY <4>2
      <4> QED
        BY <4>1, <4>2, <4>3
    <3>4. g[c[m]] = g[c[m - 1]] + u[c[m]]
      BY <1>10, <3>3
    <3>5. u[c[m]] = v[s[m]]
      BY <1>3, <1>4, <3>1, <3>3
    <3>6. w[m] = v[s[m]]
      BY <1>5, <2>3
    <3> QED
      BY <2>2, <3>4, <3>5, <3>6
  <2>4. CASE m \notin P
    <3>1. c[m] = c[m - 1] /\ w[m] = 0
      BY <1>5, <1>8, <2>4
    <3> QED
      BY <2>2, <3>1
  <2> QED
    BY <2>3, <2>4
<1>13. AreSums(h, n, w)
  BY <1>11, <1>12 DEF AreSums
<1>14. SumOf(w) = h[n] /\ SumOf(u) = g[l]
  BY <1>6, <1>13, SumIs
<1>15. h[n] = g[l]
  BY <1>8, <1>9
<1>16. Weigh(Retained(s, P), v) = SumOf(u)
  BY <1>2, <1>4, Zenon DEF Weigh
<1>17. Weigh(s, Within(S, A, v)) = SumOf(w)
  <2>1. PICK q : q = Within(S, A, v) /\ q = [x \in S |-> IF x \in A THEN v[x] ELSE 0]
    BY DEF Within
  <2>2. \A k \in 1 .. n : q[s[k]] = IF k \in P THEN v[s[k]] ELSE 0
    BY <1>0, <1>1, <2>1
  <2>3. [k \in DOMAIN s |-> q[s[k]]] = w
    BY <1>1, <1>5, <2>2
  <2>4. Weigh(s, q) = SumOf(w)
    BY <2>3, Zenon DEF Weigh
  <2> QED
    BY <2>1, <2>4
<1> QED
  BY <1>0, <1>14, <1>15, <1>16, <1>17
===============================================================================
