----------------------------- MODULE MC_Outbox -----------------------------
(* Outbox instances for TLC: two drafts contend for one channel slot. *)
EXTENDS OutboxInv, TLC

Symmetry == Permutations(Drafts)
=============================================================================
