-------------------------- MODULE MC_MailboxSync --------------------------
(* MailboxSync instances for TLC: a couple of messages, one renumbering. *)
EXTENDS MailboxSync, TLC

Symmetry == Permutations(Msgs)
=============================================================================
