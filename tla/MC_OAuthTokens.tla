---------------------------- MODULE MC_OAuthTokens ----------------------------
(* OAuthTokens alone for TLC. *)
EXTENDS OAuthTokens

Spec == TokenInit /\ [][TokenNext]_tokenVars
=============================================================================
