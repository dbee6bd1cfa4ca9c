----------------------------- MODULE MCLifecycle ----------------------------
(* Two decisions at a time on the approvals of one provider, one of them asked for *)
(* twice under different events, and two messages where one is kept.               *)
EXTENDS Lifecycle, TLC

Symmetry == Permutations(Deciders) \cup Permutations(Events) \cup Permutations(Items)
              \cup Permutations(Approvals)
=============================================================================
