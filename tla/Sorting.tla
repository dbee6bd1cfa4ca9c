------------------------------ MODULE Sorting -------------------------------
(***************************************************************************)
(* Array.prototype.sort by a comparison that never calls two different     *)
(* elements equal: there is one way to sort a set by it.                   *)
(***************************************************************************)
EXTENDS Naturals, FiniteSets

\* The elements of S in the order of before.
Sorted(S, before(_, _)) ==
  CHOOSE s \in [1 .. Cardinality(S) -> S] :
    \A i, j \in DOMAIN s : i < j => before(s[i], s[j])

\* R is a strict and total order of S.
Orders(S, R) ==
  /\ \A x, y \in S : x # y => <<x, y>> \in R \/ <<y, x>> \in R
  /\ \A x, y \in S : <<x, y>> \in R => <<y, x>> \notin R
  /\ \A x, y, z \in S : <<x, y>> \in R /\ <<y, z>> \in R => <<x, z>> \in R

InOrder(s, R) == \A i, j \in DOMAIN s : i < j => <<s[i], s[j]>> \in R
=============================================================================
