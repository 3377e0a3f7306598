---------------------------- MODULE MC_DraftSync ----------------------------
(* DraftSync instances for TLC: two pushes that may overlap, a few texts. *)
EXTENDS DraftSync, TLC

Symmetry == Permutations(Pushes)
=============================================================================
