------------------------------ MODULE Delivery ------------------------------
(***************************************************************************)
(* What the outbox promises the user about one "send", with every queue,   *)
(* timer, retry and restart hidden.  It is the delivery state machine of   *)
(* docs/architecture-plan.md with Queued, Sending and RetryWait seen from  *)
(* outside as one phase, "outstanding":                                    *)
(*                                                                         *)
(*   - a copy leaves only for a request that is outstanding, and at most   *)
(*     one copy per request;                                               *)
(*   - "sent" is reported only of a message that left, "failed" only of    *)
(*     one that did not, "unknown" when it cannot be told;                 *)
(*   - no settled request becomes outstanding again except by the user.    *)
(***************************************************************************)
EXTENDS Naturals

CONSTANT Drafts

VARIABLES
  phase,    \* phase[d]: what the user is told about draft d
  copies    \* copies[d]: copies the provider accepted for the latest request

contractVars == <<phase, copies>>

Phases == {"none", "editing", "outstanding", "sent", "failed", "unknown", "gone"}

Init ==
  /\ phase = [d \in Drafts |-> "none"]
  /\ copies = [d \in Drafts |-> 0]

Write(d) ==
  /\ phase[d] = "none"
  /\ phase' = [phase EXCEPT ![d] = "editing"]
  /\ UNCHANGED copies

\* The user asks for a delivery; a failed or doubtful one may be asked for again.
Submit(d) ==
  /\ phase[d] \in {"editing", "failed", "unknown"}
  /\ phase' = [phase EXCEPT ![d] = "outstanding"]
  /\ copies' = [copies EXCEPT ![d] = 0]

\* The provider takes the message.  A row the user removed while the
\* conversation was running does not call the message back.
Transmit(d) ==
  /\ phase[d] \in {"outstanding", "gone"}
  /\ copies[d] = 0
  /\ copies' = [copies EXCEPT ![d] = 1]
  /\ UNCHANGED phase

ReportSent(d) ==
  /\ phase[d] = "outstanding"
  /\ copies[d] = 1
  /\ phase' = [phase EXCEPT ![d] = "sent"]
  /\ UNCHANGED copies

ReportFailed(d) ==
  /\ phase[d] = "outstanding"
  /\ copies[d] = 0
  /\ phase' = [phase EXCEPT ![d] = "failed"]
  /\ UNCHANGED copies

\* A broken conversation makes one request doubtful, a restart several at once.
ReportUnknown(S) ==
  /\ \A d \in S : phase[d] = "outstanding"
  /\ phase' = [d \in Drafts |-> IF d \in S THEN "unknown" ELSE phase[d]]
  /\ UNCHANGED copies

Discard(S) ==
  /\ phase' = [d \in Drafts |-> IF d \in S THEN "gone" ELSE phase[d]]
  /\ UNCHANGED copies

Next ==
  \/ \E d \in Drafts :
       Write(d) \/ Submit(d) \/ Transmit(d) \/ ReportSent(d) \/ ReportFailed(d)
  \/ \E S \in SUBSET Drafts : ReportUnknown(S) \/ Discard(S)

Spec == Init /\ [][Next]_contractVars
=============================================================================
