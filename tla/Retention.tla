------------------------------- MODULE Retention -------------------------------
(***************************************************************************)
(* The loops of the broker over lists: retain and filter, a loop that      *)
(* pushes what passes a test, a stable sort, a sum.                        *)
(*                                                                         *)
(* All but the sum make a list of the elements at some positions of        *)
(* another one.  Where an element comes is told by counting the positions  *)
(* that do not come after its own, so what a list holds can be reasoned    *)
(* about without going through it.                                         *)
(***************************************************************************)
EXTENDS Naturals, FiniteSets, Sequences

\* The elements of s at the positions upTo is of, each after the elements at
\* the other positions in upTo[i]: the n-th is at the one with n up to it.
Arranged(s, upTo) ==
  [n \in 1 .. Cardinality(DOMAIN upTo) |->
     s[CHOOSE i \in DOMAIN upTo : Cardinality(upTo[i]) = n]]

\* What retain leaves if it keeps the positions P.
Retained(s, P) == Arranged(s, [i \in P |-> {j \in P : j <= i}])

\* What retain leaves if it keeps the elements of the Test.
Only(s, Test(_)) == Retained(s, {i \in DOMAIN s : Test(s[i])})

\* What a loop that adds up the numbers of s ends with.
SumOf(s) ==
  LET sum[n \in 0 .. Len(s)] == IF n = 0 THEN 0 ELSE sum[n - 1] + s[n]
  IN  sum[Len(s)]
===============================================================================
