------------------------------ MODULE OutboxInv ------------------------------
(***************************************************************************)
(* The inductive invariant of Outbox: the safety properties, strengthened  *)
(* with what each point of deliver and complete knows about the row and    *)
(* the wire.  Outbox_proofs proves it.                                      *)
(***************************************************************************)
EXTENDS Outbox

\* The worker's locals at each point of its program.
WorkerInv ==
  /\ worker.pc \in Delivering => worker.attempt >= 1
  /\ worker.pc = "settling" /\ worker.verdict = "retry_wait"
       => worker.attempt < MaxAttempts

\* A process that is down holds nothing.
DownInv == mode = "down" => worker.pc = "idle"

\* What has left, by the row's status and by the worker's place in deliver.
WireInv ==
  \A d \in Drafts :
    /\ copies[d] <= 1
    /\ status[d] \in {"new", "draft", "queued", "retry_wait", "failed"} => copies[d] = 0
    /\ status[d] = "sent" => copies[d] = 1
    /\ worker.draft = d =>
         /\ worker.pc \in {"preparing", "transmitting"} => copies[d] = 0
         /\ worker.pc = "settling" /\ worker.verdict # "unknown" => copies[d] = 0
         /\ worker.pc \in {"accepted", "filing", "marking"} \cup Finishing => copies[d] = 1

\* Who owns a row in "sending".
OwnerInv ==
  \A d \in Drafts :
    /\ status[d] = "sending" => Holds(d) \/ d \in orphaned
    /\ Holds(d) => status[d] \in {"sending", "deleted"}
    /\ worker.pc \in Finishing /\ worker.draft = d
         => status[d] \in {"sending", "sent", "deleted"}

\* The retry ladder and the pause between two conversations.
LadderInv ==
  \A d \in Drafts :
    /\ unpaused[d] <= 1
    /\ Eligible(d) => unpaused[d] = 0
    /\ status[d] = "retry_wait" => due[d] # "none" /\ attempt[d] \in 1..(MaxAttempts - 1)

\* The local Sent copy, or the drift complete is going to report.
FiledInv ==
  /\ \A d \in Drafts : status[d] = "sent" => d \in sentCopy \cup noted
  /\ worker.pc = "marking" => worker.draft \in sentCopy \/ worker.drift # {}
  /\ worker.pc = "remarking" => worker.drift # {}

IInv == WorkerInv /\ DownInv /\ WireInv /\ OwnerInv /\ LadderInv /\ FiledInv
=============================================================================
