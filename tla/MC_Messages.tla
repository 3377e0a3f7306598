----------------------------- MODULE MC_Messages -----------------------------
(* MessageActions and UnreadCache for TLC. They share no variable, so a behaviour   *)
(* is one of the one component or of the other.                                     *)
EXTENDS MessageActions, UnreadCache

VARIABLE component   \* the component a behaviour exercises

vars == <<component, mailVars, cacheVars>>

Init ==
  /\ MailInit /\ CacheInit /\ component \in {"mail", "cache"}
  /\ component # "mail" => caps = "move"

Next ==
  /\ UNCHANGED component
  /\ \/ component = "mail" /\ MailNext /\ UNCHANGED cacheVars
     \/ component = "cache" /\ CacheNext /\ UNCHANGED mailVars

\* The periodic pass runs for as long as the account is connected; a request has a
\* 30 s deadline, and the mutexes it waits for are handed over.
MailFairness ==
  /\ SF_mailVars(component = "mail" /\ Sync)
  /\ \A k \in Clicks : SF_mailVars(component = "mail" /\ Step(k))

FairSpec == Init /\ [][Next]_vars /\ MailFairness

\* The type invariants of both.
TypesOK == MailTypeOK /\ CacheTypeOK
=============================================================================
