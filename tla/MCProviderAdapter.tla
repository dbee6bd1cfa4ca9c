-------------------------- MODULE MCProviderAdapter -------------------------
(* Two calls and a drain at a time, over two sessions of two models.       *)
(* Neither the fairness nor a property names a session or a model, and a   *)
(* permutation of them leaves each of their formulas as it is: the         *)
(* symmetry is sound for the liveness property too.                        *)
EXTENDS ProviderAdapter, TLC

Symmetry == Permutations(Threads) \cup Permutations(Models)
=============================================================================
