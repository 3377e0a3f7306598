---------------------------- MODULE Outbox_proofs ----------------------------
(***************************************************************************)
(* Proofs about Outbox, for any set of drafts, any retry budget and any    *)
(* channel capacity.  Everything rests on one inductive invariant, IInv,   *)
(* which ties the row of a draft to what the worker remembers of it and to *)
(* the copies that left; MC_OutboxInv also checks it with TLC.             *)
(***************************************************************************)
EXTENDS OutboxInv, TLAPS

USE OutboxAssumption

-----------------------------------------------------------------------------
(* Types. *)

LEMMA IdleType == Idle \in WorkerState /\ Starting \in WorkerState
BY DEF WorkerState, Idle, Starting, WorkerPc

\* The worker's locals stay in their type: moving, concluding, and the drift.
LEMMA WorkerTypes ==
  ASSUME worker \in WorkerState
  PROVE  /\ \A pc \in WorkerPc : [worker EXCEPT !.pc = pc] \in WorkerState
         /\ \A v \in {"failed", "retry_wait", "unknown"} :
              [worker EXCEPT !.pc = "settling", !.verdict = v] \in WorkerState
         /\ \A n \in Nat : [worker EXCEPT !.pc = "preparing", !.attempt = n] \in WorkerState
         /\ \A d \in Drafts : [worker EXCEPT !.pc = "received", !.draft = d] \in WorkerState
         /\ \A S \in SUBSET Drafts :
              /\ [worker EXCEPT !.pc = "ticking", !.todo = S] \in WorkerState
              /\ [worker EXCEPT !.todo = S] \in WorkerState
         /\ [worker EXCEPT !.pc = "marking", !.drift = {"sent copy"}] \in WorkerState
         /\ [worker EXCEPT !.pc = "remarking", !.drift = @ \cup {"remote sent"}] \in WorkerState
<1> USE DEF WorkerState
<1>1. {"preparing", "received", "ticking", "settling", "marking", "remarking"} \in SUBSET WorkerPc
  BY DEF WorkerPc, Delivering, Finishing
<1> QED
  BY <1>1

LEMMA WorkerFields ==
  ASSUME worker \in WorkerState
  PROVE  /\ worker.pc \in WorkerPc
         /\ worker.draft \in Drafts \cup {NoDraft}
         /\ worker.attempt \in Nat
         /\ worker.verdict \in {"none", "failed", "retry_wait", "unknown"}
         /\ worker.todo \in SUBSET Drafts
BY DEF WorkerState

\* Step moves the worker within its type.
LEMMA StepType ==
  ASSUME worker \in WorkerState, NEW pc, Step(pc),
         pc \in {"claiming", "transmitting", "accepted", "filing", "marking", "cleaning"}
  PROVE  worker' \in WorkerState
<1>1. pc \in WorkerPc
  BY DEF WorkerPc, Delivering, Finishing
<1> QED
  BY <1>1, WorkerTypes DEF Step

\* The worker's locals keep their type on every step.
LEMMA WorkerStep == TypeOK /\ [Next]_vars => worker' \in WorkerState
<1> SUFFICES ASSUME TypeOK, [Next]_vars PROVE worker' \in WorkerState
  OBVIOUS
<1>1. worker \in WorkerState /\ attempt \in [Drafts -> Nat] /\ queue \in Seq(Drafts)
  BY DEF TypeOK
<1>2. CASE worker' = worker
  BY <1>1, <1>2
<1>3. ASSUME worker' # worker, NEW d \in Drafts, UserStep(d) \/ BackoffElapses(d) PROVE FALSE
  BY <1>3 DEF UserStep, CreateDraft, QueueDelivery, DeleteDraft, EnqueueMark, EnqueueOffer,
              BackoffElapses, memoryVars
<1>4. CASE LoopStep
  <2>1. CASE Recover \/ RecoverFails
    BY <2>1, IdleType DEF Recover, RecoverFails
  <2>2. CASE Tick
    BY <1>1, <2>2, WorkerTypes, {d \in Drafts : Due(d)} \in SUBSET Drafts DEF Tick
  <2>3. CASE Receive
    <3>1. Head(queue) \in Drafts
      BY <1>1, <2>3 DEF Receive
    <3> QED
      BY <1>1, <2>3, <3>1, WorkerTypes DEF Receive
  <2>4. CASE Unmark
    BY <1>1, <2>4, StepType DEF Unmark
  <2>5. ASSUME NEW d \in Drafts, TickEnqueue(d) PROVE worker' \in WorkerState
    <3>1. [worker EXCEPT !.todo = @ \ {d}] \in WorkerState
      BY <1>1, WorkerTypes, WorkerFields, worker.todo \ {d} \in SUBSET Drafts
    <3> QED
      BY <2>5, <3>1, IdleType DEF TickEnqueue
  <2> QED
    BY <1>4, <2>1, <2>2, <2>3, <2>4, <2>5 DEF LoopStep
<1>5. CASE DeliverStep
  <2>1. CASE Claim
    <3>1. worker.draft \in Drafts => attempt[worker.draft] + 1 \in Nat
      BY <1>1
    <3>2. worker.draft \in Drafts
      BY <2>1 DEF Claim, At, TypeOK
    <3> QED
      BY <1>1, <2>1, <3>1, <3>2, WorkerTypes DEF Claim
  <2>2. CASE PrepareFails \/ LinkLost
    BY <1>1, <2>2, WorkerTypes DEF PrepareFails, LinkLost, Conclude
  <2>3. CASE Refused
    <3>1. \A t \in BOOLEAN : Verdict(t) \in {"failed", "retry_wait"}
      BY DEF Verdict
    <3> QED
      BY <1>1, <2>3, <3>1, WorkerTypes DEF Refused, Conclude
  <2>4. CASE Prepared \/ ServerAccepts \/ ReplyRead \/ FileSentCopy
             \/ MarkSentFirst \/ MarkSentFirstFails
    BY <1>1, <2>4, StepType
       DEF Prepared, ServerAccepts, ReplyRead, FileSentCopy, MarkSentFirst, MarkSentFirstFails
  <2>5. CASE FileSentCopyFails \/ AppendSentFails
    BY <1>1, <2>5, WorkerTypes DEF FileSentCopyFails, AppendSentFails
  <2>6. CASE ClaimRefused \/ SettleWrite \/ SettleWriteFails \/ CleanUp
             \/ MarkSentAgain \/ MarkSentAgainFails
    BY <2>6, IdleType
       DEF ClaimRefused, SettleWrite, SettleWriteFails, CleanUp, MarkSentAgain, MarkSentAgainFails
  <2> QED
    BY <1>5, <2>1, <2>2, <2>3, <2>4, <2>5, <2>6 DEF DeliverStep
<1>6. CASE ProcessStep
  <2>1. CASE Stop
    BY <1>1, <2>1 DEF Stop, memoryVars
  <2>2. CASE Crash \/ Exit \/ Restart
    BY <2>2, IdleType DEF Crash, Exit, Restart, LoseMemory
  <2> QED
    BY <1>6, <2>1, <2>2 DEF ProcessStep
<1>7. CASE DeleteAccount \/ UNCHANGED vars
  BY <1>1, <1>7 DEF DeleteAccount, vars, memoryVars
<1> QED
  BY <1>2, <1>3, <1>4, <1>5, <1>6, <1>7 DEF Next

\* A worker that is past its select has a draft in its hands.
LEMMA DraftStep ==
  ASSUME TypeOK, [Next]_vars
  PROVE  /\ worker'.pc \notin {"starting", "idle", "ticking"} => worker'.draft \in Drafts
         /\ worker'.pc = "settling" => worker'.verdict # "none"
<1>1. /\ worker \in WorkerState /\ queue \in Seq(Drafts)
      /\ worker.pc \notin {"starting", "idle", "ticking"} => worker.draft \in Drafts
      /\ worker.pc = "settling" => worker.verdict # "none"
  BY DEF TypeOK
<1>2. CASE worker' = worker
  BY <1>1, <1>2
<1>3. CASE worker' = Idle \/ worker' = Starting
  BY <1>3 DEF Idle, Starting
<1>4. ASSUME worker' # worker, NEW d \in Drafts, UserStep(d) \/ BackoffElapses(d) PROVE FALSE
  BY <1>4 DEF UserStep, CreateDraft, QueueDelivery, DeleteDraft, EnqueueMark, EnqueueOffer,
              BackoffElapses, memoryVars
<1>5. CASE LoopStep
  <2>1. CASE Receive
    <3>1. Head(queue) \in Drafts
      BY <1>1, <2>1 DEF Receive
    <3> QED
      BY <1>1, <2>1, <3>1 DEF Receive, WorkerState
  <2>2. CASE Tick \/ Unmark
    BY <1>1, <2>2 DEF Tick, Unmark, At, Step, WorkerState
  <2>3. ASSUME NEW d \in Drafts, TickEnqueue(d)
        PROVE  worker' = Idle \/ worker'.pc = "ticking"
    BY <1>1, <2>3 DEF TickEnqueue, At, WorkerState
  <2>4. CASE Recover \/ RecoverFails
    BY <1>3, <2>4 DEF Recover, RecoverFails
  <2> QED
    BY <1>3, <1>5, <2>1, <2>2, <2>3, <2>4 DEF LoopStep
<1>6. CASE DeliverStep
  <2>1. CASE ClaimRefused \/ SettleWrite \/ SettleWriteFails \/ CleanUp
             \/ MarkSentAgain \/ MarkSentAgainFails
    BY <1>3, <2>1
       DEF ClaimRefused, SettleWrite, SettleWriteFails, CleanUp, MarkSentAgain, MarkSentAgainFails
  <2>2. CASE Claim \/ PrepareFails \/ Prepared \/ Refused \/ ServerAccepts \/ LinkLost
    <3>1. \A t \in BOOLEAN : Verdict(t) \in {"failed", "retry_wait"}
      BY DEF Verdict
    <3> QED
      BY <1>1, <2>2, <3>1 DEF Claim, PrepareFails, Prepared, Refused, ServerAccepts, LinkLost,
                             At, Step, Conclude, WorkerState
  <2>3. CASE ReplyRead \/ FileSentCopy \/ FileSentCopyFails \/ MarkSentFirst
             \/ MarkSentFirstFails \/ AppendSentFails
    BY <1>1, <2>3 DEF ReplyRead, FileSentCopy, FileSentCopyFails, MarkSentFirst,
                     MarkSentFirstFails, AppendSentFails, At, Step, WorkerState
  <2> QED
    BY <1>6, <2>1, <2>2, <2>3 DEF DeliverStep
<1>7. CASE ProcessStep
  BY <1>2, <1>3, <1>7 DEF ProcessStep, Crash, Stop, Exit, Restart, LoseMemory, memoryVars
<1>8. CASE DeleteAccount \/ UNCHANGED vars
  BY <1>2, <1>8 DEF DeleteAccount, vars, memoryVars
<1> QED
  BY <1>2, <1>4, <1>5, <1>6, <1>7, <1>8 DEF Next

\* The row's columns after the outcome write.
LEMMA SetDeliveryType ==
  ASSUME TypeOK, NEW d, NEW s \in Statuses, NEW n \in Nat,
         NEW next \in {"none", "pending", "elapsed"}, SetDelivery(d, s, n, next)
  PROVE  /\ status' \in [Drafts -> Statuses]
         /\ attempt' \in [Drafts -> Nat]
         /\ due' \in [Drafts -> {"none", "pending", "elapsed"}]
BY DEF TypeOK, SetDelivery, Statuses

\* The rest of the state: every step keeps every other variable in its type.
LEMMA OthersStep ==
  ASSUME TypeOK, [Next]_vars
  PROVE  /\ status' \in [Drafts -> Statuses]
         /\ attempt' \in [Drafts -> Nat]
         /\ due' \in [Drafts -> {"none", "pending", "elapsed"}]
         /\ sentCopy' \in SUBSET Drafts /\ noted' \in SUBSET Drafts
         /\ queue' \in Seq(Drafts) /\ marked' \in SUBSET Drafts
         /\ calls' \in [Drafts -> Nat] /\ offering' \in SUBSET Drafts
         /\ mode' \in {"up", "stopping", "down"}
         /\ copies' \in [Drafts -> Nat] /\ unpaused' \in [Drafts -> Nat]
         /\ orphaned' \in SUBSET Drafts
         /\ requests' \in Nat /\ stops' \in Nat
<1> DEFINE Goal ==
         /\ status' \in [Drafts -> Statuses]
         /\ attempt' \in [Drafts -> Nat]
         /\ due' \in [Drafts -> {"none", "pending", "elapsed"}]
         /\ sentCopy' \in SUBSET Drafts /\ noted' \in SUBSET Drafts
         /\ queue' \in Seq(Drafts) /\ marked' \in SUBSET Drafts
         /\ calls' \in [Drafts -> Nat] /\ offering' \in SUBSET Drafts
         /\ mode' \in {"up", "stopping", "down"}
         /\ copies' \in [Drafts -> Nat] /\ unpaused' \in [Drafts -> Nat]
         /\ orphaned' \in SUBSET Drafts
         /\ requests' \in Nat /\ stops' \in Nat
<1> USE DEF rowVars, memoryVars
<1>0. /\ worker.pc \notin {"starting", "idle", "ticking"} => worker.draft \in Drafts
      /\ worker.attempt \in Nat
      /\ worker.verdict \in {"none", "failed", "retry_wait", "unknown"}
  BY WorkerFields DEF TypeOK
<1>1. ASSUME NEW d \in Drafts, UserStep(d) PROVE Goal
  <2>1. CASE CreateDraft(d)
    BY <2>1 DEF CreateDraft, TypeOK, Statuses
  <2>2. CASE QueueDelivery(d)
    <3>1. status' \in [Drafts -> Statuses]
      BY <2>2 DEF QueueDelivery, TypeOK, Statuses
    <3>2. calls' \in [Drafts -> Nat]
      BY <2>2 DEF QueueDelivery, TypeOK
    <3>3. copies' \in [Drafts -> Nat] /\ unpaused' \in [Drafts -> Nat]
      BY <2>2 DEF QueueDelivery, TypeOK
    <3>4. requests' \in Nat
      BY <2>2 DEF QueueDelivery, TypeOK
    <3> QED
      BY <2>2, <3>1, <3>2, <3>3, <3>4 DEF QueueDelivery, TypeOK
  <2>3. CASE DeleteDraft(d)
    BY <2>3 DEF DeleteDraft, TypeOK, Statuses
  <2>4. CASE EnqueueMark(d)
    <3>1. calls' \in [Drafts -> Nat]
      BY <2>4 DEF EnqueueMark, TypeOK
    <3> QED
      BY <2>4, <3>1 DEF EnqueueMark, TypeOK
  <2>5. CASE EnqueueOffer(d)
    <3>1. queue' \in Seq(Drafts) /\ marked' \in SUBSET Drafts
      <4>1. Append(queue, d) \in Seq(Drafts) /\ queue \in Seq(Drafts)
        BY DEF TypeOK
      <4>2. marked \in SUBSET Drafts /\ marked \ {d} \in SUBSET Drafts
            /\ marked \cup {d} \in SUBSET Drafts
        BY DEF TypeOK
      <4> QED
        BY <2>5, <4>1, <4>2 DEF EnqueueOffer
    <3> QED
      BY <2>5, <3>1 DEF EnqueueOffer, TypeOK
  <2> QED
    BY <1>1, <2>1, <2>2, <2>3, <2>4, <2>5 DEF UserStep
<1>2. ASSUME NEW d \in Drafts, BackoffElapses(d) PROVE Goal
  BY <1>2 DEF BackoffElapses, TypeOK
<1>3. CASE DeleteAccount
  BY <1>3 DEF DeleteAccount, TypeOK, Statuses
<1>4. CASE LoopStep
  <2>1. CASE Recover
    BY <2>1 DEF Recover, AfterRecovery, TypeOK, Statuses
  <2>2. CASE RecoverFails \/ Tick
    BY <2>2 DEF RecoverFails, Tick, TypeOK
  <2>3. CASE Receive
    <3>1. queue' \in Seq(Drafts)
      BY <2>3 DEF Receive, TypeOK
    <3> QED
      BY <2>3, <3>1 DEF Receive, TypeOK
  <2>4. CASE Unmark
    BY <2>4 DEF Unmark, TypeOK
  <2>5. ASSUME NEW d \in Drafts, TickEnqueue(d) PROVE Goal
    <3>1. queue' \in Seq(Drafts) /\ marked' \in SUBSET Drafts
      <4>1. Append(queue, d) \in Seq(Drafts) /\ queue \in Seq(Drafts)
        BY DEF TypeOK
      <4>2. marked \in SUBSET Drafts /\ marked \ {d} \in SUBSET Drafts
            /\ marked \cup {d} \in SUBSET Drafts
        BY DEF TypeOK
      <4> QED
        BY <2>5, <4>1, <4>2 DEF TickEnqueue
    <3> QED
      BY <2>5, <3>1 DEF TickEnqueue, TypeOK
  <2> QED
    BY <1>4, <2>1, <2>2, <2>3, <2>4, <2>5 DEF LoopStep
<1>5. CASE DeliverStep
  <2>1. CASE Claim
    <3>1. status' \in [Drafts -> Statuses]
      BY <2>1 DEF Claim, TypeOK, Statuses
    <3>2. attempt' \in [Drafts -> Nat] /\ unpaused' \in [Drafts -> Nat]
      <4>1. \A f \in [Drafts -> Nat], d \in Drafts : f[d] + 1 \in Nat
        OBVIOUS
      <4>2. worker.draft \in Drafts
        BY <1>0, <2>1 DEF Claim, At
      <4>3. attempt \in [Drafts -> Nat] /\ unpaused \in [Drafts -> Nat]
        BY DEF TypeOK
      <4> QED
        BY <2>1, <4>1, <4>2, <4>3 DEF Claim
    <3> QED
      BY <2>1, <3>1, <3>2 DEF Claim, TypeOK
  <2>2. CASE ClaimRefused \/ PrepareFails \/ Prepared \/ Refused \/ LinkLost \/ ReplyRead
    BY <2>2 DEF ClaimRefused, PrepareFails, Prepared, Refused, LinkLost, ReplyRead, TypeOK
  <2>3. CASE ServerAccepts
    <3>1. copies' \in [Drafts -> Nat]
      <4>1. worker.draft \in Drafts /\ copies \in [Drafts -> Nat]
        BY <1>0, <2>3 DEF ServerAccepts, At, TypeOK
      <4>2. copies[worker.draft] + 1 \in Nat
        BY <4>1
      <4> QED
        BY <2>3, <4>1, <4>2 DEF ServerAccepts
    <3> QED
      BY <2>3, <3>1 DEF ServerAccepts, TypeOK
  <2>4. CASE SettleWrite
    <3>1. /\ status' \in [Drafts -> Statuses]
          /\ attempt' \in [Drafts -> Nat]
          /\ due' \in [Drafts -> {"none", "pending", "elapsed"}]
      <4>1. worker.verdict # "none"
        BY <2>4 DEF SettleWrite, At, TypeOK
      <4> QED
        BY <1>0, <2>4, <4>1, SetDeliveryType DEF SettleWrite, Statuses
    <3> QED
      BY <2>4, <3>1 DEF SettleWrite, TypeOK
  <2>5. CASE SettleWriteFails
    BY <1>0, <2>5 DEF SettleWriteFails, At, TypeOK
  <2>6. CASE FileSentCopy \/ FileSentCopyFails
    BY <1>0, <2>6 DEF FileSentCopy, FileSentCopyFails, At, TypeOK
  <2>7. CASE MarkSentFirst \/ MarkSentAgain
    <3>1. MarkSent /\ worker.draft \in Drafts
      BY <1>0, <2>7 DEF MarkSentFirst, MarkSentAgain, At
    <3>2. /\ status' \in [Drafts -> Statuses]
          /\ attempt' \in [Drafts -> Nat]
          /\ due' \in [Drafts -> {"none", "pending", "elapsed"}]
      BY <1>0, <3>1, SetDeliveryType DEF MarkSent, Statuses
    <3>3. noted' \in SUBSET Drafts /\ orphaned' \in SUBSET Drafts
      BY <3>1 DEF MarkSent, TypeOK
    <3> QED
      BY <2>7, <3>2, <3>3 DEF MarkSentFirst, MarkSentAgain, TypeOK
  <2>8. CASE MarkSentFirstFails
    BY <1>0, <2>8 DEF MarkSentFirstFails, At, TypeOK
  <2>9. CASE CleanUp \/ AppendSentFails \/ MarkSentAgainFails
    BY <2>9 DEF CleanUp, AppendSentFails, MarkSentAgainFails, TypeOK
  <2> QED
    BY <1>5, <2>1, <2>2, <2>3, <2>4, <2>5, <2>6, <2>7, <2>8, <2>9 DEF DeliverStep
<1>6. CASE ProcessStep
  <2>1. CASE Crash
    BY <2>1 DEF Crash, LoseMemory, TypeOK
  <2>2. CASE Stop
    BY <2>2 DEF Stop, TypeOK
  <2>3. CASE Exit
    BY <2>3 DEF Exit, LoseMemory, TypeOK
  <2>4. CASE Restart
    BY <2>4 DEF Restart, TypeOK
  <2> QED
    BY <1>6, <2>1, <2>2, <2>3, <2>4 DEF ProcessStep
<1>7. CASE UNCHANGED vars
  BY <1>7 DEF vars, TypeOK
<1>8. Goal
  BY <1>1, <1>2, <1>3, <1>4, <1>5, <1>6, <1>7 DEF Next
<1> QED
  BY <1>8

\* Every step of the outbox keeps every variable in its type.
LEMMA TypeStep == TypeOK /\ [Next]_vars => TypeOK'
BY WorkerStep, DraftStep, OthersStep DEF TypeOK

LEMMA TypeInit == Init => TypeOK
<1> SUFFICES ASSUME Init PROVE TypeOK
  OBVIOUS
<1>1. /\ worker \in WorkerState
      /\ worker.pc = "starting"
  BY IdleType DEF Init, Starting, Idle
<1>2. <<>> \in Seq(Drafts)
  OBVIOUS
<1> QED
  BY <1>1, <1>2 DEF Init, TypeOK, Statuses

\* The outbox is well typed in every reachable state.
THEOREM TypeCorrect == Spec => []TypeOK
BY TypeInit, TypeStep, PTL DEF Spec

-----------------------------------------------------------------------------
(* The inductive invariant. *)

\* What the worker's locals are after each way of moving it.
LEMMA Moved ==
  ASSUME worker \in WorkerState, NEW pc, Step(pc)
  PROVE  /\ worker'.pc = pc
         /\ worker'.draft = worker.draft /\ worker'.attempt = worker.attempt
         /\ worker'.verdict = worker.verdict /\ worker'.drift = worker.drift
BY DEF WorkerState, Step

LEMMA Concluded ==
  ASSUME worker \in WorkerState, NEW v, Conclude(v)
  PROVE  /\ worker'.pc = "settling" /\ worker'.verdict = v
         /\ worker'.draft = worker.draft /\ worker'.attempt = worker.attempt
BY DEF WorkerState, Conclude

LEMMA IdleFields ==
  /\ Idle.pc = "idle" /\ Idle.draft = NoDraft
  /\ Starting.pc = "starting" /\ Starting.draft = NoDraft
BY DEF Idle, Starting

\* The steps that leave the worker with nothing in its hands.
LEMMA Released ==
  ASSUME TypeOK, Recover \/ RecoverFails \/ ClaimRefused \/ SettleWrite \/ SettleWriteFails
         \/ CleanUp \/ MarkSentAgain \/ MarkSentAgainFails \/ Crash \/ Exit \/ Restart
  PROVE  worker'.pc \in {"idle", "starting"} /\ worker'.draft = NoDraft
BY IdleFields DEF Recover, RecoverFails, ClaimRefused, SettleWrite, SettleWriteFails, CleanUp,
   MarkSentAgain, MarkSentAgainFails, Crash, Exit, Restart, LoseMemory

\* The steps of the loop that keep or take a draft, but deliver nothing.
LEMMA Looped ==
  ASSUME TypeOK, Tick \/ Receive \/ Unmark \/ (\E d \in Drafts : TickEnqueue(d))
  PROVE  /\ worker'.pc \in {"ticking", "idle", "received", "claiming"}
         /\ worker.pc \in {"ticking", "idle", "received"}
<1>1. worker \in WorkerState
  BY DEF TypeOK
<1>2. CASE Tick \/ Receive \/ Unmark
  BY <1>1, <1>2 DEF Tick, Receive, Unmark, At, Step, WorkerState
<1>3. ASSUME NEW d \in Drafts, TickEnqueue(d)
      PROVE  worker'.pc \in {"ticking", "idle"} /\ worker.pc = "ticking"
  BY <1>1, <1>3, IdleFields DEF TickEnqueue, At, WorkerState
<1> QED
  BY <1>2, <1>3

\* The worker's locals at each point of deliver.
LEMMA WorkerInvStep ==
  ASSUME TypeOK, IInv, [Next]_vars
  PROVE  WorkerInv'
<1>1. worker \in WorkerState /\ WorkerInv /\ worker.attempt \in Nat
  BY WorkerFields DEF TypeOK, IInv
<1> USE DEF WorkerInv, Delivering, Finishing
<1>2. CASE worker' = worker
  BY <1>1, <1>2
<1>3. CASE worker'.pc \notin Delivering
  BY <1>3
<1>4. CASE LoopStep
  BY <1>3, <1>4, Looped, Released DEF LoopStep
<1>5. CASE DeliverStep
  <2>1. CASE Claim
    <3>1. worker.draft \in Drafts /\ attempt[worker.draft] \in Nat
      BY <2>1 DEF Claim, At, TypeOK
    <3>2. worker'.pc = "preparing" /\ worker'.attempt = attempt[worker.draft] + 1
      BY <1>1, <2>1 DEF Claim, WorkerState
    <3> QED
      BY <3>1, <3>2
  <2>2. CASE PrepareFails
    BY <1>1, <2>2, Concluded DEF PrepareFails, At
  <2>3. CASE LinkLost
    BY <1>1, <2>3, Concluded DEF LinkLost, At
  <2>4. CASE Refused
    <3>1. PICK t \in BOOLEAN : Conclude(Verdict(t))
      BY <2>4 DEF Refused
    <3>2. worker'.pc = "settling" /\ worker'.verdict = Verdict(t) /\ worker'.attempt = worker.attempt
      BY <1>1, <3>1, Concluded
    <3> QED
      BY <1>1, <2>4, <3>2 DEF Refused, At, Verdict
  <2>5. CASE Prepared \/ ServerAccepts \/ ReplyRead \/ FileSentCopy
             \/ MarkSentFirst \/ MarkSentFirstFails
    BY <1>1, <2>5, Moved
       DEF Prepared, ServerAccepts, ReplyRead, FileSentCopy, MarkSentFirst, MarkSentFirstFails, At
  <2>6. CASE FileSentCopyFails \/ AppendSentFails
    BY <1>1, <2>6 DEF FileSentCopyFails, AppendSentFails, At, WorkerState
  <2>7. CASE ClaimRefused \/ SettleWrite \/ SettleWriteFails \/ CleanUp
             \/ MarkSentAgain \/ MarkSentAgainFails
    BY <1>3, <2>7, Released
  <2> QED
    BY <1>5, <2>1, <2>2, <2>3, <2>4, <2>5, <2>6, <2>7 DEF DeliverStep
<1>6. CASE ProcessStep
  BY <1>2, <1>3, <1>6, Released DEF ProcessStep, Stop, memoryVars
<1>7. ASSUME NEW d \in Drafts, UserStep(d) \/ BackoffElapses(d) PROVE worker' = worker
  BY <1>7 DEF UserStep, CreateDraft, QueueDelivery, DeleteDraft, EnqueueMark, EnqueueOffer,
              BackoffElapses, memoryVars
<1>8. CASE DeleteAccount \/ UNCHANGED vars
  BY <1>2, <1>8 DEF DeleteAccount, vars, memoryVars
<1> QED
  BY <1>2, <1>4, <1>5, <1>6, <1>7, <1>8 DEF Next

\* A process that is down holds nothing.
LEMMA DownInvStep ==
  ASSUME TypeOK, IInv, [Next]_vars
  PROVE  DownInv'
<1>1. mode = "down" => worker.pc = "idle"
  BY DEF IInv, DownInv
<1>2. CASE worker' = worker /\ mode' = mode
  BY <1>1, <1>2 DEF DownInv
<1>3. CASE Serving /\ mode' = mode
  BY <1>3 DEF Serving, DownInv
<1>4. CASE LoopStep \/ DeliverStep
  BY <1>3, <1>4 DEF LoopStep, Recover, RecoverFails, Tick, Receive, Unmark, TickEnqueue, DeliverStep,
     Claim, ClaimRefused, PrepareFails, Prepared, Refused, ServerAccepts, LinkLost, ReplyRead,
     SettleWrite, SettleWriteFails, FileSentCopy, FileSentCopyFails, MarkSentFirst,
     MarkSentFirstFails, CleanUp, AppendSentFails, MarkSentAgain, MarkSentAgainFails, At
<1>5. CASE ProcessStep
  BY <1>5, IdleFields DEF ProcessStep, Crash, Stop, Exit, Restart, LoseMemory, DownInv
<1>6. ASSUME NEW d \in Drafts, UserStep(d) \/ BackoffElapses(d)
      PROVE  worker' = worker /\ mode' = mode
  BY <1>6 DEF UserStep, CreateDraft, QueueDelivery, DeleteDraft, EnqueueMark, EnqueueOffer,
              BackoffElapses, memoryVars
<1>7. CASE DeleteAccount \/ UNCHANGED vars
  BY <1>2, <1>7 DEF DeleteAccount, vars, memoryVars
<1> QED
  BY <1>2, <1>4, <1>5, <1>6, <1>7 DEF Next

\* Rows the outcome write can change, and to what.
LEMMA Written ==
  ASSUME TypeOK, NEW d \in Drafts, NEW s, NEW n, NEW next, SetDelivery(d, s, n, next)
  PROVE  /\ \A e \in Drafts \ {d} :
              status'[e] = status[e] /\ attempt'[e] = attempt[e] /\ due'[e] = due[e]
         /\ status[d] = "deleted" => status'[d] = "deleted"
         /\ status[d] # "deleted" => status'[d] = s /\ attempt'[d] = n /\ due'[d] = next
BY DEF TypeOK, SetDelivery

\* What the user does leaves the worker alone.
LEMMA UserLeavesWorker ==
  ASSUME NEW d \in Drafts, UserStep(d) \/ BackoffElapses(d)
  PROVE  worker' = worker
BY DEF UserStep, CreateDraft, QueueDelivery, DeleteDraft, EnqueueMark, EnqueueOffer,
       BackoffElapses, memoryVars

\* A row in "sending" stays owned.
LEMMA OwnerInvStep ==
  ASSUME TypeOK, IInv, [Next]_vars
  PROVE  OwnerInv'
<1> DEFINE Goal(d) ==
      /\ status'[d] = "sending" => Holds(d)' \/ d \in orphaned'
      /\ Holds(d)' => status'[d] \in {"sending", "deleted"}
      /\ worker'.pc \in Finishing /\ worker'.draft = d
           => status'[d] \in {"sending", "sent", "deleted"}
<1> SUFFICES ASSUME NEW d \in Drafts PROVE Goal(d)
  BY DEF OwnerInv
<1>1. /\ worker \in WorkerState
      /\ status \in [Drafts -> Statuses]
      /\ worker.pc \notin {"starting", "idle", "ticking"} => worker.draft \in Drafts
  BY DEF TypeOK
<1>2. /\ status[d] = "sending" => Holds(d) \/ d \in orphaned
      /\ Holds(d) => status[d] \in {"sending", "deleted"}
      /\ worker.pc \in Finishing /\ worker.draft = d
           => status[d] \in {"sending", "sent", "deleted"}
  BY DEF IInv, OwnerInv
<1> USE DEF Holds, Delivering, Finishing
<1>3. CASE UNCHANGED <<status, worker, orphaned>>
  BY <1>2, <1>3
<1>4. ASSUME NEW e \in Drafts, UserStep(e) \/ BackoffElapses(e) PROVE Goal(d)
  <2>1. /\ worker' = worker /\ orphaned' = orphaned
        /\ \/ status'[d] = status[d]
           \/ /\ status[d] \in {"new", "draft", "retry_wait", "sent", "failed", "unknown"}
              /\ status'[d] \in {"draft", "queued", "deleted"}
              /\ status[d] = "sent" => status'[d] = "deleted"
    BY <1>1, <1>4, UserLeavesWorker
       DEF UserStep, CreateDraft, QueueDelivery, DeleteDraft, EnqueueMark, EnqueueOffer,
           BackoffElapses, rowVars, Queueable
  <2> QED
    BY <1>2, <2>1
<1>5. CASE DeleteAccount
  BY <1>2, <1>5 DEF DeleteAccount, memoryVars
<1>6. CASE LoopStep
  <2>1. CASE Recover
    BY <1>1, <1>2, <2>1, Released DEF Recover, AfterRecovery, At
  <2>2. CASE RecoverFails
    BY <1>1, <1>2, <2>2, Released DEF RecoverFails, At, rowVars
  <2>3. CASE Tick \/ Receive \/ Unmark \/ (\E e \in Drafts : TickEnqueue(e))
    <3>1. status' = status /\ orphaned' = orphaned
      BY <2>3 DEF Tick, Receive, Unmark, TickEnqueue, rowVars
    <3> QED
      BY <1>2, <2>3, <3>1, Looped
  <2> QED
    BY <1>6, <2>1, <2>2, <2>3 DEF LoopStep
<1>7. CASE DeliverStep
  <2>1. CASE Claim
    <3>1. worker'.pc = "preparing" /\ worker'.draft = worker.draft /\ worker.pc = "claiming"
      BY <1>1, <2>1 DEF Claim, At, WorkerState
    <3> QED
      BY <1>1, <1>2, <2>1, <3>1 DEF Claim
  <2>2. CASE ClaimRefused
    BY <1>2, <2>2, Released DEF ClaimRefused, At, rowVars
  <2>3. CASE PrepareFails \/ Refused \/ LinkLost
    <3>1. /\ worker'.pc = "settling" /\ worker'.draft = worker.draft
          /\ worker.pc \in Delivering
      BY <1>1, <2>3, Concluded DEF PrepareFails, Refused, LinkLost, At
    <3> QED
      BY <1>2, <2>3, <3>1 DEF PrepareFails, Refused, LinkLost, rowVars
  <2>4. CASE Prepared \/ ServerAccepts \/ ReplyRead \/ FileSentCopy
    <3>1. /\ worker'.pc \in Delivering /\ worker'.draft = worker.draft
          /\ worker.pc \in Delivering
      BY <1>1, <2>4, Moved DEF Prepared, ServerAccepts, ReplyRead, FileSentCopy, At
    <3> QED
      BY <1>2, <2>4, <3>1 DEF Prepared, ServerAccepts, ReplyRead, FileSentCopy, rowVars
  <2>5. CASE FileSentCopyFails
    <3>1. /\ worker'.pc = "marking" /\ worker'.draft = worker.draft
          /\ worker.pc = "filing"
      BY <1>1, <2>5 DEF FileSentCopyFails, At, WorkerState
    <3> QED
      BY <1>2, <2>5, <3>1 DEF FileSentCopyFails, rowVars
  <2>6. CASE SettleWrite
    <3>1. CASE worker.draft = d
      BY <1>1, <1>2, <2>6, <3>1, Written, Released, WorkerFields DEF SettleWrite, At
    <3>2. CASE worker.draft # d
      BY <1>1, <1>2, <2>6, <3>2, Written, Released DEF SettleWrite, At
    <3> QED
      BY <3>1, <3>2
  <2>7. CASE SettleWriteFails
    BY <1>1, <1>2, <2>7, Released DEF SettleWriteFails, At, rowVars
  <2>8. CASE MarkSentFirst
    <3>1. worker'.pc = "cleaning" /\ worker'.draft = worker.draft /\ worker.pc = "marking"
      BY <1>1, <2>8, Moved DEF MarkSentFirst, At
    <3> QED
      BY <1>1, <1>2, <2>8, <3>1, Written DEF MarkSentFirst, MarkSent
  <2>9. CASE MarkSentFirstFails
    <3>1. worker'.pc = "cleaning" /\ worker'.draft = worker.draft /\ worker.pc = "marking"
      BY <1>1, <2>9, Moved DEF MarkSentFirstFails, At
    <3> QED
      BY <1>1, <1>2, <2>9, <3>1 DEF MarkSentFirstFails, rowVars
  <2>10. CASE AppendSentFails
    <3>1. worker'.pc = "remarking" /\ worker'.draft = worker.draft /\ worker.pc = "cleaning"
      BY <1>1, <2>10 DEF AppendSentFails, At, WorkerState
    <3> QED
      BY <1>2, <2>10, <3>1 DEF AppendSentFails, rowVars
  <2>11. CASE CleanUp \/ MarkSentAgainFails
    BY <1>2, <2>11, Released DEF CleanUp, MarkSentAgainFails, At, rowVars
  <2>12. CASE MarkSentAgain
    BY <1>1, <1>2, <2>12, Written, Released DEF MarkSentAgain, MarkSent, At
  <2> QED
    BY <1>7, <2>1, <2>2, <2>3, <2>4, <2>5, <2>6, <2>7, <2>8, <2>9, <2>10, <2>11, <2>12
       DEF DeliverStep
<1>8. CASE ProcessStep
  <2>1. CASE Crash
    BY <1>1, <1>2, <2>1, Released DEF Crash, rowVars
  <2>2. CASE Stop
    BY <1>3, <2>2 DEF Stop, rowVars, memoryVars
  <2>3. CASE Exit
    BY <1>2, <2>3, Released DEF Exit, rowVars
  <2>4. CASE Restart
    <3>1. worker.pc \notin Delivering
      BY <2>4 DEF Restart, IInv, DownInv
    <3> QED
      BY <1>2, <2>4, <3>1, Released DEF Restart, rowVars
  <2> QED
    BY <1>8, <2>1, <2>2, <2>3, <2>4 DEF ProcessStep
<1>9. CASE UNCHANGED vars
  BY <1>3, <1>9 DEF vars, rowVars, memoryVars
<1> QED
  BY <1>2, <1>4, <1>5, <1>6, <1>7, <1>8, <1>9 DEF Next

\* What left agrees with the row and with the worker's place in deliver.
LEMMA WireInvStep ==
  ASSUME TypeOK, IInv, [Next]_vars
  PROVE  WireInv'
<1> DEFINE Goal(d) ==
      /\ copies'[d] <= 1
      /\ status'[d] \in {"new", "draft", "queued", "retry_wait", "failed"} => copies'[d] = 0
      /\ status'[d] = "sent" => copies'[d] = 1
      /\ worker'.draft = d =>
           /\ worker'.pc \in {"preparing", "transmitting"} => copies'[d] = 0
           /\ worker'.pc = "settling" /\ worker'.verdict # "unknown" => copies'[d] = 0
           /\ worker'.pc \in {"accepted", "filing", "marking"} \cup Finishing => copies'[d] = 1
<1> SUFFICES ASSUME NEW d \in Drafts PROVE Goal(d)
  BY DEF WireInv
<1>1. /\ worker \in WorkerState
      /\ status \in [Drafts -> Statuses]
      /\ copies \in [Drafts -> Nat]
      /\ worker.pc \notin {"starting", "idle", "ticking"} => worker.draft \in Drafts
      /\ worker.pc = "settling" => worker.verdict \in {"failed", "retry_wait", "unknown"}
  BY WorkerFields DEF TypeOK
<1>2. /\ copies[d] <= 1
      /\ status[d] \in {"new", "draft", "queued", "retry_wait", "failed"} => copies[d] = 0
      /\ status[d] = "sent" => copies[d] = 1
      /\ worker.draft = d =>
           /\ worker.pc \in {"preparing", "transmitting"} => copies[d] = 0
           /\ worker.pc = "settling" /\ worker.verdict # "unknown" => copies[d] = 0
           /\ worker.pc \in {"accepted", "filing", "marking"} \cup Finishing => copies[d] = 1
  BY DEF IInv, WireInv
<1>3. /\ worker.pc \in Delivering /\ worker.draft = d => status[d] \in {"sending", "deleted"}
      /\ worker.pc \in Finishing /\ worker.draft = d
           => status[d] \in {"sending", "sent", "deleted"}
  BY DEF IInv, OwnerInv, Holds
<1> USE DEF Delivering, Finishing
<1>4. CASE UNCHANGED <<status, worker, copies>>
  BY <1>2, <1>4
<1>5. ASSUME NEW e \in Drafts, UserStep(e) \/ BackoffElapses(e) PROVE Goal(d)
  <2>1. CASE QueueDelivery(e)
    BY <1>1, <1>2, <1>3, <2>1 DEF QueueDelivery, Queueable
  <2>2. CASE CreateDraft(e) \/ DeleteDraft(e)
    BY <1>1, <1>2, <2>2 DEF CreateDraft, DeleteDraft, memoryVars
  <2>3. CASE EnqueueMark(e) \/ EnqueueOffer(e) \/ BackoffElapses(e)
    BY <1>4, <2>3 DEF EnqueueMark, EnqueueOffer, BackoffElapses, rowVars, memoryVars
  <2> QED
    BY <1>5, <2>1, <2>2, <2>3 DEF UserStep
<1>6. CASE DeleteAccount
  BY <1>2, <1>6 DEF DeleteAccount, memoryVars
<1>7. CASE LoopStep
  <2>1. CASE Recover
    BY <1>1, <1>2, <2>1, Released DEF Recover, AfterRecovery
  <2>2. CASE RecoverFails
    BY <1>2, <2>2, Released DEF RecoverFails, rowVars
  <2>3. CASE Tick \/ Receive \/ Unmark \/ (\E e \in Drafts : TickEnqueue(e))
    <3>1. status' = status /\ copies' = copies
      BY <2>3 DEF Tick, Receive, Unmark, TickEnqueue, rowVars
    <3> QED
      BY <1>2, <2>3, <3>1, Looped
  <2> QED
    BY <1>7, <2>1, <2>2, <2>3 DEF LoopStep
<1>8. CASE DeliverStep
  <2>1. CASE Claim
    <3>1. worker'.pc = "preparing" /\ worker'.draft = worker.draft /\ worker.draft \in Drafts
      BY <1>1, <2>1 DEF Claim, At, WorkerState
    <3>2. copies' = copies /\ status' = [status EXCEPT ![worker.draft] = "sending"]
          /\ status[worker.draft] \in {"queued", "retry_wait"}
      BY <2>1 DEF Claim, Eligible
    <3> QED
      BY <1>1, <1>2, <3>1, <3>2
  <2>2. CASE ClaimRefused
    BY <1>2, <2>2, Released DEF ClaimRefused, rowVars
  <2>3. CASE PrepareFails
    BY <1>1, <1>2, <2>3, Concluded DEF PrepareFails, At, rowVars
  <2>4. CASE Refused
    <3>1. PICK t \in BOOLEAN : Conclude(Verdict(t))
      BY <2>4 DEF Refused
    <3>2. worker'.pc = "settling" /\ worker'.draft = worker.draft
      BY <1>1, <3>1, Concluded
    <3> QED
      BY <1>2, <2>4, <3>2 DEF Refused, At, rowVars
  <2>5. CASE LinkLost
    BY <1>1, <1>2, <2>5, Concluded DEF LinkLost, rowVars
  <2>6. CASE ServerAccepts
    <3>1. worker'.pc = "accepted" /\ worker'.draft = worker.draft
          /\ worker.pc = "transmitting" /\ worker.draft \in Drafts
      BY <1>1, <2>6, Moved DEF ServerAccepts, At
    <3>2. copies' = [copies EXCEPT ![worker.draft] = @ + 1] /\ status' = status
      BY <2>6 DEF ServerAccepts, rowVars
    <3> QED
      BY <1>1, <1>2, <1>3, <3>1, <3>2
  <2>7. CASE Prepared \/ ReplyRead \/ FileSentCopy
    <3>1. /\ worker'.draft = worker.draft
          /\ \/ worker.pc = "preparing" /\ worker'.pc = "transmitting"
             \/ worker.pc = "accepted" /\ worker'.pc = "filing"
             \/ worker.pc = "filing" /\ worker'.pc = "marking"
      BY <1>1, <2>7, Moved DEF Prepared, ReplyRead, FileSentCopy, At
    <3> QED
      BY <1>2, <2>7, <3>1 DEF Prepared, ReplyRead, FileSentCopy, rowVars
  <2>8. CASE FileSentCopyFails \/ AppendSentFails
    <3>1. /\ worker'.draft = worker.draft
          /\ \/ worker.pc = "filing" /\ worker'.pc = "marking"
             \/ worker.pc = "cleaning" /\ worker'.pc = "remarking"
      BY <1>1, <2>8 DEF FileSentCopyFails, AppendSentFails, At, WorkerState
    <3> QED
      BY <1>2, <2>8, <3>1 DEF FileSentCopyFails, AppendSentFails, rowVars
  <2>9. CASE SettleWrite
    <3>1. CASE worker.draft = d
      BY <1>1, <1>2, <2>9, <3>1, Written, Released DEF SettleWrite, At
    <3>2. CASE worker.draft # d
      BY <1>1, <1>2, <2>9, <3>2, Written, Released DEF SettleWrite, At
    <3> QED
      BY <3>1, <3>2
  <2>10. CASE SettleWriteFails \/ CleanUp \/ MarkSentAgainFails
    BY <1>2, <2>10, Released DEF SettleWriteFails, CleanUp, MarkSentAgainFails, rowVars
  <2>11. CASE MarkSentFirst
    <3>1. worker'.pc = "cleaning" /\ worker'.draft = worker.draft /\ worker.pc = "marking"
      BY <1>1, <2>11, Moved DEF MarkSentFirst, At
    <3> QED
      BY <1>1, <1>2, <2>11, <3>1, Written DEF MarkSentFirst, MarkSent
  <2>12. CASE MarkSentFirstFails
    <3>1. worker'.pc = "cleaning" /\ worker'.draft = worker.draft /\ worker.pc = "marking"
      BY <1>1, <2>12, Moved DEF MarkSentFirstFails, At
    <3> QED
      BY <1>2, <2>12, <3>1 DEF MarkSentFirstFails, rowVars
  <2>13. CASE MarkSentAgain
    BY <1>1, <1>2, <2>13, Written, Released DEF MarkSentAgain, MarkSent, At
  <2> QED
    BY <1>8, <2>1, <2>2, <2>3, <2>4, <2>5, <2>6, <2>7, <2>8, <2>9, <2>10, <2>11, <2>12, <2>13
       DEF DeliverStep
<1>9. CASE ProcessStep
  <2>1. CASE Crash \/ Exit \/ Restart
    BY <1>2, <2>1, Released DEF Crash, Exit, Restart, rowVars
  <2>2. CASE Stop
    BY <1>4, <2>2 DEF Stop, rowVars, memoryVars
  <2> QED
    BY <1>9, <2>1, <2>2 DEF ProcessStep
<1>10. CASE UNCHANGED vars
  BY <1>4, <1>10 DEF vars, rowVars, memoryVars
<1> QED
  BY <1>5, <1>6, <1>7, <1>8, <1>9, <1>10 DEF Next

\* The retry ladder, and the pause before every further conversation.
LEMMA LadderInvStep ==
  ASSUME TypeOK, IInv, [Next]_vars
  PROVE  LadderInv'
<1> DEFINE Goal(d) ==
      /\ unpaused'[d] <= 1
      /\ Eligible(d)' => unpaused'[d] = 0
      /\ status'[d] = "retry_wait" => due'[d] # "none" /\ attempt'[d] \in 1..(MaxAttempts - 1)
<1> SUFFICES ASSUME NEW d \in Drafts PROVE Goal(d)
  BY DEF LadderInv
<1>1. /\ worker \in WorkerState
      /\ status \in [Drafts -> Statuses] /\ due \in [Drafts -> {"none", "pending", "elapsed"}]
      /\ attempt \in [Drafts -> Nat] /\ unpaused \in [Drafts -> Nat]
      /\ worker.pc \notin {"starting", "idle", "ticking"} => worker.draft \in Drafts
      /\ worker.pc = "settling" => worker.verdict \in {"failed", "retry_wait", "unknown"}
      /\ worker.attempt \in Nat
  BY WorkerFields DEF TypeOK
<1>2. /\ unpaused[d] <= 1
      /\ Eligible(d) => unpaused[d] = 0
      /\ status[d] = "retry_wait" => due[d] # "none" /\ attempt[d] \in 1..(MaxAttempts - 1)
  BY DEF IInv, LadderInv
<1>3. worker.pc = "settling" =>
        /\ worker.attempt >= 1
        /\ worker.verdict = "retry_wait" => worker.attempt < MaxAttempts
  BY DEF IInv, WorkerInv, Delivering
<1> USE DEF Eligible
<1>4. CASE UNCHANGED <<status, due, attempt, unpaused>>
  BY <1>2, <1>4
<1>5. ASSUME NEW e \in Drafts, UserStep(e) \/ BackoffElapses(e) PROVE Goal(d)
  <2>1. CASE QueueDelivery(e)
    BY <1>1, <1>2, <2>1 DEF QueueDelivery
  <2>2. CASE CreateDraft(e) \/ DeleteDraft(e)
    BY <1>1, <1>2, <2>2 DEF CreateDraft, DeleteDraft
  <2>3. CASE EnqueueMark(e) \/ EnqueueOffer(e)
    BY <1>4, <2>3 DEF EnqueueMark, EnqueueOffer, rowVars
  <2>4. CASE BackoffElapses(e)
    BY <1>1, <1>2, <2>4 DEF BackoffElapses
  <2> QED
    BY <1>5, <2>1, <2>2, <2>3, <2>4 DEF UserStep
<1>6. CASE DeleteAccount
  BY <1>2, <1>6 DEF DeleteAccount
<1>7. CASE LoopStep
  <2>1. CASE Recover
    BY <1>1, <1>2, <2>1 DEF Recover, AfterRecovery
  <2>2. CASE RecoverFails \/ Tick \/ Receive \/ Unmark \/ (\E e \in Drafts : TickEnqueue(e))
    BY <1>4, <2>2 DEF RecoverFails, Tick, Receive, Unmark, TickEnqueue, rowVars
  <2> QED
    BY <1>7, <2>1, <2>2 DEF LoopStep
<1>8. CASE DeliverStep
  <2>1. CASE Claim
    <3>1. worker.draft \in Drafts
      BY <1>1, <2>1 DEF Claim, At
    <3>2. Eligible(worker.draft) => unpaused[worker.draft] = 0
      BY <3>1 DEF IInv, LadderInv
    <3> QED
      BY <1>1, <1>2, <2>1, <3>1, <3>2 DEF Claim
  <2>2. CASE SettleWrite
    <3>1. CASE worker.draft = d
      BY <1>1, <1>2, <1>3, <2>2, <3>1, Written DEF SettleWrite, At
    <3>2. CASE worker.draft # d
      BY <1>1, <1>2, <2>2, <3>2, Written DEF SettleWrite, At
    <3> QED
      BY <3>1, <3>2
  <2>3. CASE MarkSentFirst \/ MarkSentAgain
    <3>1. MarkSent /\ worker.draft \in Drafts /\ unpaused' = unpaused
      BY <1>1, <2>3 DEF MarkSentFirst, MarkSentAgain, At
    <3> QED
      BY <1>1, <1>2, <3>1, Written DEF MarkSent
  <2>4. CASE \/ ClaimRefused \/ PrepareFails \/ Prepared \/ Refused \/ ServerAccepts \/ LinkLost
             \/ ReplyRead \/ SettleWriteFails \/ FileSentCopy \/ FileSentCopyFails
             \/ MarkSentFirstFails \/ CleanUp \/ AppendSentFails \/ MarkSentAgainFails
    BY <1>4, <2>4
       DEF ClaimRefused, PrepareFails, Prepared, Refused, ServerAccepts, LinkLost, ReplyRead,
           SettleWriteFails, FileSentCopy, FileSentCopyFails, MarkSentFirstFails, CleanUp,
           AppendSentFails, MarkSentAgainFails, rowVars
  <2> QED
    BY <1>8, <2>1, <2>2, <2>3, <2>4 DEF DeliverStep
<1>9. CASE ProcessStep
  BY <1>4, <1>9 DEF ProcessStep, Crash, Stop, Exit, Restart, rowVars
<1>10. CASE UNCHANGED vars
  BY <1>4, <1>10 DEF vars, rowVars
<1> QED
  BY <1>5, <1>6, <1>7, <1>8, <1>9, <1>10 DEF Next

\* A draft reported sent is filed, or says that it is not.
LEMMA FiledInvStep ==
  ASSUME TypeOK, IInv, [Next]_vars
  PROVE  FiledInv'
<1> DEFINE Goal ==
      /\ \A d \in Drafts : status'[d] = "sent" => d \in sentCopy' \cup noted'
      /\ worker'.pc = "marking" => worker'.draft \in sentCopy' \/ worker'.drift # {}
      /\ worker'.pc = "remarking" => worker'.drift # {}
<1> SUFFICES Goal
  BY DEF FiledInv
<1>1. /\ worker \in WorkerState
      /\ status \in [Drafts -> Statuses]
      /\ worker.pc \notin {"starting", "idle", "ticking"} => worker.draft \in Drafts
      /\ worker.pc = "settling" => worker.verdict \in {"failed", "retry_wait", "unknown"}
  BY WorkerFields DEF TypeOK
<1>2. /\ \A d \in Drafts : status[d] = "sent" => d \in sentCopy \cup noted
      /\ worker.pc = "marking" => worker.draft \in sentCopy \/ worker.drift # {}
      /\ worker.pc = "remarking" => worker.drift # {}
  BY DEF IInv, FiledInv
<1>3. CASE UNCHANGED <<status, sentCopy, noted, worker>>
  BY <1>2, <1>3
<1>4. ASSUME NEW e \in Drafts, UserStep(e) \/ BackoffElapses(e) PROVE Goal
  <2>1. CASE CreateDraft(e) \/ QueueDelivery(e) \/ DeleteDraft(e)
    BY <1>1, <1>2, <2>1 DEF CreateDraft, QueueDelivery, DeleteDraft, memoryVars
  <2>2. CASE EnqueueMark(e) \/ EnqueueOffer(e) \/ BackoffElapses(e)
    BY <1>3, <2>2 DEF EnqueueMark, EnqueueOffer, BackoffElapses, rowVars, memoryVars
  <2> QED
    BY <1>4, <2>1, <2>2 DEF UserStep
<1>5. CASE DeleteAccount
  BY <1>2, <1>5 DEF DeleteAccount, memoryVars
<1>6. CASE LoopStep
  <2>1. CASE Recover
    BY <1>1, <1>2, <2>1, Released DEF Recover, AfterRecovery
  <2>2. CASE RecoverFails
    BY <1>2, <2>2, Released DEF RecoverFails, rowVars
  <2>3. CASE Tick \/ Receive \/ Unmark \/ (\E e \in Drafts : TickEnqueue(e))
    <3>1. UNCHANGED <<status, sentCopy, noted>>
      BY <2>3 DEF Tick, Receive, Unmark, TickEnqueue, rowVars
    <3> QED
      BY <1>2, <2>3, <3>1, Looped
  <2> QED
    BY <1>6, <2>1, <2>2, <2>3 DEF LoopStep
<1>7. CASE DeliverStep
  <2>1. CASE Claim
    <3>1. worker'.pc = "preparing"
      BY <1>1, <2>1 DEF Claim, WorkerState
    <3> QED
      BY <1>1, <1>2, <2>1, <3>1 DEF Claim
  <2>2. CASE ClaimRefused \/ SettleWriteFails \/ CleanUp \/ MarkSentAgainFails
    BY <1>2, <2>2, Released
       DEF ClaimRefused, SettleWriteFails, CleanUp, MarkSentAgainFails, rowVars
  <2>3. CASE PrepareFails \/ Refused \/ LinkLost
    <3>1. worker'.pc = "settling"
      BY <1>1, <2>3, Concluded DEF PrepareFails, Refused, LinkLost
    <3> QED
      BY <1>2, <2>3, <3>1 DEF PrepareFails, Refused, LinkLost, rowVars
  <2>4. CASE Prepared \/ ServerAccepts \/ ReplyRead \/ MarkSentFirstFails
    <3>1. worker'.pc \in {"transmitting", "accepted", "filing", "cleaning"}
      BY <1>1, <2>4, Moved DEF Prepared, ServerAccepts, ReplyRead, MarkSentFirstFails
    <3> QED
      BY <1>2, <2>4, <3>1 DEF Prepared, ServerAccepts, ReplyRead, MarkSentFirstFails, rowVars
  <2>5. CASE SettleWrite
    <3>1. \A d \in Drafts : status'[d] = "sent" => status[d] = "sent"
      BY <1>1, <2>5, Written DEF SettleWrite, At
    <3> QED
      BY <1>2, <2>5, <3>1, Released DEF SettleWrite
  <2>6. CASE FileSentCopy
    <3>1. worker'.pc = "marking" /\ worker'.draft = worker.draft
      BY <1>1, <2>6, Moved DEF FileSentCopy
    <3> QED
      BY <1>2, <2>6, <3>1 DEF FileSentCopy
  <2>7. CASE FileSentCopyFails
    <3>1. worker'.pc = "marking" /\ worker'.drift # {}
      BY <1>1, <2>7 DEF FileSentCopyFails, WorkerState
    <3> QED
      BY <1>2, <2>7, <3>1 DEF FileSentCopyFails, rowVars
  <2>8. CASE AppendSentFails
    <3>1. worker'.pc = "remarking" /\ worker'.drift # {}
      BY <1>1, <2>8 DEF AppendSentFails, WorkerState
    <3> QED
      BY <1>2, <2>8, <3>1 DEF AppendSentFails, rowVars
  <2>9. CASE MarkSentFirst \/ MarkSentAgain
    <3>1. /\ MarkSent /\ worker.draft \in Drafts /\ sentCopy' = sentCopy
          /\ worker.pc \in {"marking", "remarking"}
      BY <1>1, <2>9 DEF MarkSentFirst, MarkSentAgain, At
    <3>2. worker'.pc \in {"cleaning", "idle"}
      BY <1>1, <2>9, Moved, IdleFields DEF MarkSentFirst, MarkSentAgain
    <3>3. ASSUME NEW d \in Drafts, status'[d] = "sent" PROVE d \in sentCopy' \cup noted'
      <4>1. CASE d = worker.draft
        BY <1>2, <3>1, <3>3, <4>1, Written DEF MarkSent
      <4>2. CASE d # worker.draft
        BY <1>2, <3>1, <3>3, <4>2, Written DEF MarkSent
      <4> QED
        BY <4>1, <4>2
    <3> QED
      BY <3>2, <3>3
  <2> QED
    BY <1>7, <2>1, <2>2, <2>3, <2>4, <2>5, <2>6, <2>7, <2>8, <2>9 DEF DeliverStep
<1>8. CASE ProcessStep
  <2>1. CASE Crash \/ Exit \/ Restart
    BY <1>2, <2>1, Released DEF Crash, Exit, Restart, rowVars
  <2>2. CASE Stop
    BY <1>3, <2>2 DEF Stop, rowVars, memoryVars
  <2> QED
    BY <1>8, <2>1, <2>2 DEF ProcessStep
<1>9. CASE UNCHANGED vars
  BY <1>3, <1>9 DEF vars, rowVars, memoryVars
<1> QED
  BY <1>4, <1>5, <1>6, <1>7, <1>8, <1>9 DEF Next

LEMMA IInvInit == Init => IInv
<1> SUFFICES ASSUME Init PROVE IInv
  OBVIOUS
<1>1. worker.pc = "starting" /\ worker.draft = NoDraft
  BY IdleFields DEF Init
<1> QED
  BY <1>1 DEF Init, IInv, WorkerInv, DownInv, WireInv, OwnerInv, LadderInv, FiledInv,
              Holds, Eligible, Delivering, Finishing

\* The strengthened invariant holds in every reachable state.
THEOREM Invariance == Spec => [](TypeOK /\ IInv)
<1>1. Init => TypeOK /\ IInv
  BY TypeInit, IInvInit
<1>2. TypeOK /\ IInv /\ [Next]_vars => (TypeOK /\ IInv)'
  BY TypeStep, WorkerInvStep, DownInvStep, WireInvStep, OwnerInvStep, LadderInvStep,
     FiledInvStep DEF IInv
<1> QED
  BY <1>1, <1>2, PTL DEF Spec

-----------------------------------------------------------------------------
(* What follows for the user. *)

\* One press of "send" never puts two copies on the wire.
THEOREM OneCopy == Spec => []AtMostOneCopy
<1>1. TypeOK /\ IInv => AtMostOneCopy
  BY DEF IInv, WireInv, AtMostOneCopy
<1> QED
  BY <1>1, Invariance, PTL

\* "failed", "retry_wait" and "sent" say the truth about the wire.
THEOREM StatusIsTruthful == Spec => []TruthfulStatus
<1>1. TypeOK /\ IInv => TruthfulStatus
  BY DEF IInv, WireInv, TruthfulStatus
<1> QED
  BY <1>1, Invariance, PTL

\* No row waits in "sending" that nobody will settle, and nobody settles a row
\* under the worker.
THEOREM SendingHasOwner == Spec => []SendingIsOwned
<1>1. TypeOK /\ IInv => SendingIsOwned
  BY DEF IInv, OwnerInv, SendingIsOwned
<1> QED
  BY <1>1, Invariance, PTL

\* The back-off always lies between two conversations for one request.
THEOREM PauseKept == Spec => []NoBackToBack
<1>1. TypeOK /\ IInv => NoBackToBack
  BY DEF IInv, LadderInv, NoBackToBack
<1> QED
  BY <1>1, Invariance, PTL

\* The ladder is never indexed outside its rungs.
THEOREM LadderBounded == Spec => []RetryHasRung
<1>1. TypeOK /\ IInv => RetryHasRung
  BY DEF IInv, LadderInv, RetryHasRung
<1> QED
  BY <1>1, Invariance, PTL

\* Both together, as the runs check it: a delivery that is tried again is on the ladder and
\* has waited (fail, ClaimSendableDraft).
THEOREM LadderKept == Spec => []LadderHolds
<1>1. NoBackToBack /\ RetryHasRung => LadderHolds
  BY DEF LadderHolds
<1> QED
  BY <1>1, PauseKept, LadderBounded, PTL

\* A sent message has its local copy, or the row says it has none.
THEOREM SentFiled == Spec => []SentIsFiled
<1>1. TypeOK /\ IInv => SentIsFiled
  BY DEF IInv, FiledInv, SentIsFiled
<1> QED
  BY <1>1, Invariance, PTL

-----------------------------------------------------------------------------
(* The outbox implements Delivery. *)

LEMMA PhaseNames ==
  /\ PhaseOf("new") = "none" /\ PhaseOf("draft") = "editing"
  /\ PhaseOf("queued") = "outstanding" /\ PhaseOf("sending") = "outstanding"
  /\ PhaseOf("retry_wait") = "outstanding" /\ PhaseOf("deleted") = "gone"
  /\ PhaseOf("sent") = "sent" /\ PhaseOf("failed") = "failed"
  /\ PhaseOf("unknown") = "unknown"
BY DEF PhaseOf

\* Steps that the user cannot tell apart: the phases and the copies stay.
LEMMA Hidden ==
  ASSUME copies' = copies, \A d \in Drafts : PhaseOf(status'[d]) = PhaseOf(status[d])
  PROVE  UNCHANGED Contract!contractVars
<1>1. phaseOf' = phaseOf
  BY DEF phaseOf
<1> QED
  BY <1>1 DEF Contract!contractVars

\* The step that changes the phase of one draft.
LEMMA Shown ==
  ASSUME NEW d \in Drafts, NEW p, PhaseOf(status'[d]) = p,
         \A e \in Drafts \ {d} : status'[e] = status[e]
  PROVE  phaseOf' = [phaseOf EXCEPT ![d] = p]
BY DEF phaseOf

LEMMA StepSimulates ==
  ASSUME TypeOK, IInv, [Next]_vars
  PROVE  [Contract!Next]_(Contract!contractVars)
<1> DEFINE Goal == Contract!Next \/ UNCHANGED Contract!contractVars
<1>1. /\ worker \in WorkerState
      /\ status \in [Drafts -> Statuses] /\ copies \in [Drafts -> Nat]
      /\ worker.pc \notin {"starting", "idle", "ticking"} => worker.draft \in Drafts
      /\ worker.pc = "settling" => worker.verdict \in {"failed", "retry_wait", "unknown"}
  BY WorkerFields DEF TypeOK
<1>2. \A d \in Drafts : phaseOf[d] = PhaseOf(status[d])
  BY DEF phaseOf
<1>3. CASE UNCHANGED <<status, copies>>
  BY <1>3, Hidden
<1>4. ASSUME NEW d \in Drafts, UserStep(d) \/ BackoffElapses(d) PROVE Goal
  <2>1. CASE CreateDraft(d)
    <3>1. status[d] = "new" /\ status'[d] = "draft" /\ copies' = copies
          /\ \A e \in Drafts \ {d} : status'[e] = status[e]
      BY <1>1, <2>1 DEF CreateDraft
    <3>2. Contract!Write(d)
      BY <1>2, <3>1, PhaseNames, Shown DEF Contract!Write
    <3> QED
      BY <3>2 DEF Contract!Next
  <2>2. CASE QueueDelivery(d)
    <3>1. /\ status[d] \in {"draft", "failed", "unknown"} /\ status'[d] = "queued"
          /\ copies' = [copies EXCEPT ![d] = 0]
          /\ \A e \in Drafts \ {d} : status'[e] = status[e]
      BY <1>1, <2>2 DEF QueueDelivery, Queueable
    <3>2. Contract!Submit(d)
      BY <1>2, <3>1, PhaseNames, Shown DEF Contract!Submit
    <3> QED
      BY <3>2 DEF Contract!Next
  <2>3. CASE DeleteDraft(d)
    <3>1. Contract!Discard({d})
      BY <1>1, <2>3, PhaseNames DEF DeleteDraft, Contract!Discard, phaseOf
    <3> QED
      BY <3>1 DEF Contract!Next
  <2>4. CASE EnqueueMark(d) \/ EnqueueOffer(d) \/ BackoffElapses(d)
    BY <1>3, <2>4 DEF EnqueueMark, EnqueueOffer, BackoffElapses, rowVars
  <2> QED
    BY <1>4, <2>1, <2>2, <2>3, <2>4 DEF UserStep
<1>5. CASE DeleteAccount
  <2>1. Contract!Discard(Drafts)
    BY <1>5, PhaseNames DEF DeleteAccount, Contract!Discard, phaseOf
  <2> QED
    BY <2>1 DEF Contract!Next
<1>6. CASE LoopStep
  <2>1. CASE Recover
    <3> DEFINE S == {d \in Drafts : status[d] = "sending"}
    <3>1. phaseOf' = [d \in Drafts |-> IF d \in S THEN "unknown" ELSE phaseOf[d]]
      BY <2>1, PhaseNames DEF Recover, AfterRecovery, phaseOf
    <3>2. \A d \in S : phaseOf[d] = "outstanding"
      BY <1>2, PhaseNames
    <3>3. Contract!ReportUnknown(S)
      BY <2>1, <3>1, <3>2 DEF Recover, Contract!ReportUnknown
    <3> QED
      BY <3>3 DEF Contract!Next
  <2>2. CASE RecoverFails \/ Tick \/ Receive \/ Unmark \/ (\E d \in Drafts : TickEnqueue(d))
    BY <1>3, <2>2 DEF RecoverFails, Tick, Receive, Unmark, TickEnqueue, rowVars
  <2> QED
    BY <1>6, <2>1, <2>2 DEF LoopStep
<1>7. CASE DeliverStep
  <2> DEFINE d == worker.draft
  <2>1. CASE Claim
    <3>1. \A e \in Drafts : PhaseOf(status'[e]) = PhaseOf(status[e])
      BY <1>1, <2>1, PhaseNames DEF Claim, Eligible
    <3> QED
      BY <2>1, <3>1, Hidden DEF Claim
  <2>2. CASE ServerAccepts
    <3>1. d \in Drafts /\ status[d] \in {"sending", "deleted"} /\ copies[d] = 0
      BY <1>1, <2>2 DEF ServerAccepts, At, IInv, OwnerInv, WireInv, Holds, Delivering
    <3>2. copies' = [copies EXCEPT ![d] = 1] /\ phaseOf' = phaseOf
      BY <1>1, <2>2, <3>1 DEF ServerAccepts, rowVars, phaseOf
    <3>3. Contract!Transmit(d)
      BY <1>2, <3>1, <3>2, PhaseNames DEF Contract!Transmit
    <3> QED
      BY <3>1, <3>3 DEF Contract!Next
  <2>3. CASE SettleWrite
    <3>1. /\ d \in Drafts /\ status[d] \in {"sending", "deleted"}
          /\ worker.verdict # "unknown" => copies[d] = 0
      BY <1>1, <2>3 DEF SettleWrite, At, IInv, OwnerInv, WireInv, Holds, Delivering
    <3>2. /\ copies' = copies
          /\ \A e \in Drafts \ {d} : status'[e] = status[e]
          /\ status[d] = "deleted" => status'[d] = "deleted"
          /\ status[d] # "deleted" => status'[d] = worker.verdict
      BY <2>3, <3>1, Written DEF SettleWrite
    <3>3. CASE status[d] = "deleted" \/ worker.verdict = "retry_wait"
      BY <3>1, <3>2, <3>3, PhaseNames, Hidden
    <3>4. CASE status[d] = "sending" /\ worker.verdict = "failed"
      <4>1. Contract!ReportFailed(d)
        BY <1>2, <3>1, <3>2, <3>4, PhaseNames, Shown DEF Contract!ReportFailed
      <4> QED
        BY <3>1, <4>1 DEF Contract!Next
    <3>5. CASE status[d] = "sending" /\ worker.verdict = "unknown"
      <4>1. phaseOf' = [e \in Drafts |-> IF e \in {d} THEN "unknown" ELSE phaseOf[e]]
        BY <3>1, <3>2, <3>5, PhaseNames DEF phaseOf
      <4>2. Contract!ReportUnknown({d})
        BY <1>2, <3>1, <3>2, <3>5, <4>1, PhaseNames DEF Contract!ReportUnknown
      <4> QED
        BY <3>1, <4>2 DEF Contract!Next
    <3> QED
      BY <1>1, <2>3, <3>1, <3>3, <3>4, <3>5 DEF SettleWrite, At
  <2>4. CASE MarkSentFirst \/ MarkSentAgain
    <3>1. /\ d \in Drafts /\ status[d] \in {"sending", "sent", "deleted"} /\ copies[d] = 1
      BY <1>1, <2>4 DEF MarkSentFirst, MarkSentAgain, At, IInv, OwnerInv, WireInv, Holds,
                       Delivering, Finishing
    <3>2. /\ copies' = copies
          /\ \A e \in Drafts \ {d} : status'[e] = status[e]
          /\ status[d] = "deleted" => status'[d] = "deleted"
          /\ status[d] # "deleted" => status'[d] = "sent"
      BY <2>4, <3>1, Written DEF MarkSentFirst, MarkSentAgain, MarkSent
    <3>3. CASE status[d] = "deleted" \/ status[d] = "sent"
      BY <3>1, <3>2, <3>3, PhaseNames, Hidden
    <3>4. CASE status[d] = "sending"
      <4>1. Contract!ReportSent(d)
        BY <1>2, <3>1, <3>2, <3>4, PhaseNames, Shown DEF Contract!ReportSent
      <4> QED
        BY <3>1, <4>1 DEF Contract!Next
    <3> QED
      BY <3>1, <3>3, <3>4
  <2>5. CASE \/ ClaimRefused \/ PrepareFails \/ Prepared \/ Refused \/ LinkLost \/ ReplyRead
             \/ SettleWriteFails \/ FileSentCopy \/ FileSentCopyFails \/ MarkSentFirstFails
             \/ CleanUp \/ AppendSentFails \/ MarkSentAgainFails
    BY <1>3, <2>5
       DEF ClaimRefused, PrepareFails, Prepared, Refused, LinkLost, ReplyRead,
           SettleWriteFails, FileSentCopy, FileSentCopyFails, MarkSentFirstFails, CleanUp,
           AppendSentFails, MarkSentAgainFails, rowVars
  <2> QED
    BY <1>7, <2>1, <2>2, <2>3, <2>4, <2>5 DEF DeliverStep
<1>8. CASE ProcessStep
  BY <1>3, <1>8 DEF ProcessStep, Crash, Stop, Exit, Restart, rowVars
<1>9. CASE UNCHANGED vars
  BY <1>3, <1>9 DEF vars, rowVars
<1> QED
  BY <1>4, <1>5, <1>6, <1>7, <1>8, <1>9 DEF Next

\* The outbox keeps the contract made with the user, for every number of
\* drafts, requests, retries, crashes and restarts.
THEOREM Implements == Spec => KeepsContract
<1>1. Init => Contract!Init
  <2>1. Init => phaseOf = [d \in Drafts |-> "none"]
    BY PhaseNames DEF Init, phaseOf
  <2> QED
    BY <2>1 DEF Init, Contract!Init
<1>2. TypeOK /\ IInv /\ [Next]_vars => [Contract!Next]_(Contract!contractVars)
  BY StepSimulates
<1> QED
  BY <1>1, <1>2, Invariance, PTL DEF Spec, KeepsContract, Contract!Spec

=============================================================================
