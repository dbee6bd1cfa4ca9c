----------------------------- MODULE MCAccountUI ----------------------------
(* Two pages with one call each at a time, one account, and two logins.    *)
EXTENDS AccountUI, TLC

Symmetry == Permutations(Callers) \cup Permutations(Sessions)
=============================================================================
