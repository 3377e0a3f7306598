------------------------------- MODULE Outbox -------------------------------
(***************************************************************************)
(* The outbox: the delivery columns of the drafts table                    *)
(* (internal/repository/sqlite/drafts.go), the send worker that drains     *)
(* them (internal/service/send/worker.go) and what it may conclude from an *)
(* SMTP conversation (internal/provider/smtp/client.go).                   *)
(*                                                                         *)
(* Actors: HTTP goroutines calling Worker.Queue, draft deletion and        *)
(* account deletion; the one worker goroutine, whose select loop receives  *)
(* from a bounded channel or scans for due rows on a ticker; the provider; *)
(* and the process, which may crash, be stopped and be restarted at any    *)
(* point.  Each store method runs under writeMu and is one step; a worker  *)
(* function that calls several of them is as many steps, linked by         *)
(* worker.pc.                                                              *)
(***************************************************************************)
EXTENDS Naturals, Sequences, FiniteSets

CONSTANTS
  Drafts,           \* draft ids; AUTOINCREMENT, so an id is never reused
  MaxAttempts,      \* 5 in fail(); the retry ladder has MaxAttempts - 1 rungs
  QueueCap,         \* capacity of Worker.queue, 128 in New
  ServerSavesSent,  \* provider preset: the server files sent mail by itself
  NoDraft,          \* no draft in the worker's hands
  MaxRequests,      \* bound: how often the user presses send
  MaxStops          \* bound: crashes and shutdowns

ASSUME OutboxAssumption ==
  /\ NoDraft \notin Drafts
  /\ MaxAttempts \in Nat \ {0}
  /\ QueueCap \in Nat \ {0}
  /\ ServerSavesSent \in BOOLEAN
  /\ MaxRequests \in Nat
  /\ MaxStops \in Nat

VARIABLES
  status,     \* drafts.status; "new" before the insert, "deleted" after
  attempt,    \* drafts.attempt_count
  due,        \* drafts.next_attempt_at: none, in the future, or passed
  sentCopy,   \* drafts whose outgoing row CreateSentMessage has committed
  noted,      \* drafts whose last_error says "message sent, but ..."
  queue,      \* Worker.queue
  marked,     \* Worker.queued, the de-duplication map
  calls,      \* calls[d]: Queue calls that have committed and not enqueued yet
  offering,   \* drafts marked by an HTTP goroutine that has not offered them yet
  worker,     \* the worker goroutine: where it is, and deliver's locals
  mode,       \* the process: up, stopping (ctx cancelled), down
  copies,     \* observer: copies accepted since the user last pressed send
  unpaused,   \* observer: claims since the last request or elapsed back-off
  orphaned,   \* observer: drafts whose delivery was cut off from its outcome write
  requests,   \* bound counter
  stops       \* bound counter

rowVars    == <<status, attempt, due, sentCopy, noted>>
memoryVars == <<queue, marked, calls, offering, worker>>
vars == <<rowVars, memoryVars, mode, copies, unpaused, orphaned, requests, stops>>

Statuses == {"new", "draft", "queued", "sending", "retry_wait",
             "sent", "failed", "unknown", "deleted"}

\* Mutant: Queue also accepts a draft the worker is sending.
QueueableWhileSending == {"draft", "failed", "unknown", "sending"}
Queueable == {"draft", "failed", "unknown"}

\* The worker has claimed the row and not yet tried to write its outcome.
Delivering == {"preparing", "transmitting", "accepted", "settling", "filing", "marking"}
Finishing  == {"cleaning", "remarking"}
WorkerPc   == {"starting", "idle", "ticking", "received", "claiming"} \cup Delivering \cup Finishing

\* deliver's and complete's locals: the draft, its AttemptCount as claimed, the
\* status about to be written, the drift collected so far; and the ticker's ids.
WorkerState ==
  [pc : WorkerPc, draft : Drafts \cup {NoDraft}, attempt : Nat,
   verdict : {"none", "failed", "retry_wait", "unknown"},
   drift : SUBSET {"sent copy", "remote sent"}, todo : SUBSET Drafts]

Idle == [pc |-> "idle", draft |-> NoDraft, attempt |-> 0, verdict |-> "none",
         drift |-> {}, todo |-> {}]
Starting == [Idle EXCEPT !.pc = "starting"]

Serving == mode \in {"up", "stopping"}
At(pc)  == Serving /\ worker.pc = pc
Step(pc) == worker' = [worker EXCEPT !.pc = pc]
Holds(d) == worker.pc \in Delivering /\ worker.draft = d

\* Mutant: the claim does not look at next_attempt_at.
EligibleAnyTime(d) == status[d] \in {"queued", "retry_wait"}
\* What ClaimSendableDraft accepts, and what ListDueDraftIDs lists: a draft
\* that waits without a deadline is claimable and never listed.
Eligible(d) == status[d] = "queued" \/ (status[d] = "retry_wait" /\ due[d] # "pending")
Due(d)      == status[d] = "queued" \/ (status[d] = "retry_wait" /\ due[d] = "elapsed")

-----------------------------------------------------------------------------
(* The user, through the HTTP handlers. *)

\* Service.Create and CreateDraft.
CreateDraft(d) ==
  /\ Serving
  /\ status[d] = "new"
  /\ status' = [status EXCEPT ![d] = "draft"]
  /\ UNCHANGED <<attempt, due, sentCopy, noted, memoryVars, mode,
                 copies, unpaused, orphaned, requests, stops>>

\* Worker.Queue up to its enqueue call: QueueDraftDelivery leaves
\* attempt_count and next_attempt_at alone.
QueueDelivery(d) ==
  /\ Serving
  /\ requests < MaxRequests
  /\ status[d] \in Queueable
  /\ status' = [status EXCEPT ![d] = "queued"]
  /\ calls' = [calls EXCEPT ![d] = @ + 1]
  /\ copies' = [copies EXCEPT ![d] = 0]
  /\ unpaused' = [unpaused EXCEPT ![d] = 0]
  /\ requests' = requests + 1
  /\ UNCHANGED <<attempt, due, sentCopy, noted, queue, marked, offering, worker,
                 mode, orphaned, stops>>

\* enqueue, first half: the map insert under queuedMu, or the early return.
EnqueueMark(d) ==
  /\ Serving
  /\ calls[d] > 0
  /\ calls' = [calls EXCEPT ![d] = @ - 1]
  /\ marked' = marked \cup {d}
  /\ offering' = IF d \in marked THEN offering ELSE offering \cup {d}
  /\ UNCHANGED <<rowVars, queue, worker, mode, copies, unpaused, orphaned, requests, stops>>

\* Mutant: the default case of enqueue's select forgets to take the mark back.
OfferKeepsMark(d) ==
  /\ Serving
  /\ d \in offering
  /\ offering' = offering \ {d}
  /\ queue' = IF Len(queue) < QueueCap THEN Append(queue, d) ELSE queue
  /\ UNCHANGED <<rowVars, marked, calls, worker, mode, copies, unpaused, orphaned, requests, stops>>

\* enqueue, second half: the non-blocking channel send.
EnqueueOffer(d) ==
  /\ Serving
  /\ d \in offering
  /\ offering' = offering \ {d}
  /\ IF Len(queue) < QueueCap
       THEN queue' = Append(queue, d) /\ UNCHANGED marked
       ELSE marked' = marked \ {d} /\ UNCHANGED queue
  /\ UNCHANGED <<rowVars, calls, worker, mode, copies, unpaused, orphaned, requests, stops>>

\* DeleteDraft: refused while the draft is queued or sending.
DeleteDraft(d) ==
  /\ Serving
  /\ status[d] \in {"draft", "retry_wait", "sent", "failed", "unknown"}
  /\ status' = [status EXCEPT ![d] = "deleted"]
  /\ UNCHANGED <<attempt, due, sentCopy, noted, memoryVars, mode,
                 copies, unpaused, orphaned, requests, stops>>

\* Deleting the account cascades to every draft, whatever its status.
DeleteAccount ==
  /\ Serving
  /\ status' = [d \in Drafts |-> "deleted"]
  /\ UNCHANGED <<attempt, due, sentCopy, noted, memoryVars, mode,
                 copies, unpaused, orphaned, requests, stops>>

-----------------------------------------------------------------------------
(* The worker's loop: Start. *)

\* Mutant: a restart sends interrupted drafts again.
AfterRecoveryResend(s) == IF s = "sending" THEN "queued" ELSE s
AfterRecovery(s) == IF s = "sending" THEN "unknown" ELSE s

\* RecoverSendingDrafts, the first thing a new process does to the outbox.
Recover ==
  /\ At("starting")
  /\ mode = "up"
  /\ status' = [d \in Drafts |-> AfterRecovery(status[d])]
  /\ attempt' = [d \in Drafts |-> IF status[d] = "sending" THEN 0 ELSE attempt[d]]
  /\ orphaned' = {}
  /\ worker' = Idle
  /\ UNCHANGED <<due, sentCopy, noted, queue, marked, calls, offering, mode,
                 copies, unpaused, requests, stops>>

\* The sweep failed: logged, and not tried again by this process.
RecoverFails ==
  /\ At("starting")
  /\ worker' = Idle
  /\ UNCHANGED <<rowVars, queue, marked, calls, offering, mode,
                 copies, unpaused, orphaned, requests, stops>>

\* The ticker fired: ListDueDraftIDs.
Tick ==
  /\ At("idle")
  /\ mode = "up"
  /\ \E d \in Drafts : Due(d)
  /\ worker' = [worker EXCEPT !.pc = "ticking", !.todo = {d \in Drafts : Due(d)}]
  /\ UNCHANGED <<rowVars, queue, marked, calls, offering, mode,
                 copies, unpaused, orphaned, requests, stops>>

\* enqueue of one listed id, by the goroutine that would receive it.
TickEnqueue(d) ==
  /\ At("ticking")
  /\ d \in worker.todo
  /\ IF d \notin marked /\ Len(queue) < QueueCap
       THEN queue' = Append(queue, d) /\ marked' = marked \cup {d}
       ELSE UNCHANGED <<queue, marked>>
  /\ worker' = IF worker.todo = {d} THEN Idle ELSE [worker EXCEPT !.todo = @ \ {d}]
  /\ UNCHANGED <<rowVars, calls, offering, mode, copies, unpaused, orphaned, requests, stops>>

Receive ==
  /\ At("idle")
  /\ queue # <<>>
  /\ worker' = [worker EXCEPT !.pc = "received", !.draft = Head(queue)]
  /\ queue' = Tail(queue)
  /\ UNCHANGED <<rowVars, marked, calls, offering, mode,
                 copies, unpaused, orphaned, requests, stops>>

Unmark ==
  /\ At("received")
  /\ marked' = marked \ {worker.draft}
  /\ Step("claiming")
  /\ UNCHANGED <<rowVars, queue, calls, offering, mode,
                 copies, unpaused, orphaned, requests, stops>>

-----------------------------------------------------------------------------
(* deliver. *)

\* ClaimSendableDraft.
Claim ==
  LET d == worker.draft IN
  /\ At("claiming")
  /\ mode = "up"
  /\ Eligible(d)
  /\ status' = [status EXCEPT ![d] = "sending"]
  /\ attempt' = [attempt EXCEPT ![d] = @ + 1]
  /\ worker' = [worker EXCEPT !.pc = "preparing", !.attempt = attempt[d] + 1]
  /\ unpaused' = [unpaused EXCEPT ![d] = @ + 1]
  /\ UNCHANGED <<due, sentCopy, noted, queue, marked, calls, offering, mode,
                 copies, orphaned, requests, stops>>

\* Not eligible, gone, the context cancelled, or the database refused.
ClaimRefused ==
  /\ At("claiming")
  /\ worker' = Idle
  /\ UNCHANGED <<rowVars, queue, marked, calls, offering, mode,
                 copies, unpaused, orphaned, requests, stops>>

\* deliver returns through fail, or through the unknown branch.
Conclude(verdict) == worker' = [worker EXCEPT !.pc = "settling", !.verdict = verdict]

\* Attachment budget, account, credential, token, compose or size check failed:
\* fail(..., temporary = false).
PrepareFails ==
  /\ At("preparing")
  /\ Conclude("failed")
  /\ UNCHANGED <<rowVars, queue, marked, calls, offering, mode,
                 copies, unpaused, orphaned, requests, stops>>

Prepared ==
  /\ At("preparing")
  /\ Step("transmitting")
  /\ UNCHANGED <<rowVars, queue, marked, calls, offering, mode,
                 copies, unpaused, orphaned, requests, stops>>

\* Mutant: one retry too many.
VerdictOffByOne(temporary) ==
  IF temporary /\ worker.attempt <= MaxAttempts THEN "retry_wait" ELSE "failed"

\* Mutant: a status the schema does not know.
VerdictMisspelt(temporary) ==
  IF temporary /\ worker.attempt < MaxAttempts THEN "retrywait" ELSE "failed"

\* fail's choice: a temporary failure is retried while the budget lasts.
Verdict(temporary) ==
  IF temporary /\ worker.attempt < MaxAttempts THEN "retry_wait" ELSE "failed"

\* The server did not take the message and said so, or the link broke before
\* DATA: a 4xx or a network error is temporary, a 5xx is not.
Refused ==
  /\ At("transmitting")
  /\ \E temporary \in BOOLEAN : Conclude(Verdict(temporary))
  /\ UNCHANGED <<rowVars, queue, marked, calls, offering, mode,
                 copies, unpaused, orphaned, requests, stops>>

\* The dot that ends DATA reached the server and the server took the message.
ServerAccepts ==
  /\ At("transmitting")
  /\ copies' = [copies EXCEPT ![worker.draft] = @ + 1]
  /\ Step("accepted")
  /\ UNCHANGED <<rowVars, queue, marked, calls, offering, mode,
                 unpaused, orphaned, requests, stops>>

\* Mutant: a conversation broken after DATA counts as a temporary failure.
LinkLostRetried ==
  /\ At("transmitting") \/ At("accepted")
  /\ Conclude(Verdict(TRUE))
  /\ UNCHANGED <<rowVars, queue, marked, calls, offering, mode,
                 copies, unpaused, orphaned, requests, stops>>

\* A stage "data-write" error, or a "data-commit" error without a reply: the
\* client cannot tell this from a lost answer.
LinkLost ==
  /\ At("transmitting") \/ At("accepted")
  /\ Conclude("unknown")
  /\ UNCHANGED <<rowVars, queue, marked, calls, offering, mode,
                 copies, unpaused, orphaned, requests, stops>>

ReplyRead ==
  /\ At("accepted")
  /\ Step("filing")
  /\ UNCHANGED <<rowVars, queue, marked, calls, offering, mode,
                 copies, unpaused, orphaned, requests, stops>>

\* SetDraftDelivery: WHERE id only, so writing to a deleted row changes nothing.
SetDelivery(d, s, n, next) ==
  /\ status' = [status EXCEPT ![d] = IF @ = "deleted" THEN @ ELSE s]
  /\ attempt' = [attempt EXCEPT ![d] = IF status[d] = "deleted" THEN @ ELSE n]
  /\ due' = [due EXCEPT ![d] = IF status[d] = "deleted" THEN @ ELSE next]

\* fail's write, or the unknown branch's, which also resets the attempts.
SettleWrite ==
  /\ At("settling")
  /\ SetDelivery(worker.draft, worker.verdict,
                 IF worker.verdict = "unknown" THEN 0 ELSE worker.attempt,
                 IF worker.verdict = "retry_wait" THEN "pending" ELSE "none")
  /\ worker' = Idle
  /\ UNCHANGED <<sentCopy, noted, queue, marked, calls, offering, mode,
                 copies, unpaused, orphaned, requests, stops>>

\* The write failed: logged, and the row stays in 'sending'.
SettleWriteFails ==
  /\ At("settling")
  /\ orphaned' = orphaned \cup {worker.draft}
  /\ worker' = Idle
  /\ UNCHANGED <<rowVars, queue, marked, calls, offering, mode,
                 copies, unpaused, requests, stops>>

-----------------------------------------------------------------------------
(* complete: the provider has the message, nothing below may send it again. *)

\* CreateSentMessage; a row that already has the de-duplication key is reused.
\* The insert needs the account's row.
FileSentCopy ==
  /\ At("filing")
  /\ status[worker.draft] # "deleted"
  /\ sentCopy' = sentCopy \cup {worker.draft}
  /\ Step("marking")
  /\ UNCHANGED <<status, attempt, due, noted, queue, marked, calls, offering, mode,
                 copies, unpaused, orphaned, requests, stops>>

\* Mutant: a local copy that cannot be stored fails the delivery.
FileSentCopyAborts ==
  /\ At("filing")
  /\ Conclude("failed")
  /\ UNCHANGED <<rowVars, queue, marked, calls, offering, mode,
                 copies, unpaused, orphaned, requests, stops>>

FileSentCopyFails ==
  /\ At("filing")
  /\ worker' = [worker EXCEPT !.pc = "marking", !.drift = {"sent copy"}]
  /\ UNCHANGED <<rowVars, queue, marked, calls, offering, mode,
                 copies, unpaused, orphaned, requests, stops>>

\* Mutant: the drift is dropped.
MarkSentSilently ==
  /\ SetDelivery(worker.draft, "sent", worker.attempt, "none")
  /\ orphaned' = orphaned \ {worker.draft}
  /\ UNCHANGED noted

\* markSent, with whatever drift complete has collected so far.
MarkSent ==
  LET d == worker.draft IN
  /\ SetDelivery(d, "sent", worker.attempt, "none")
  /\ noted' = IF worker.drift # {} /\ status[d] # "deleted" THEN noted \cup {d} ELSE noted
  /\ orphaned' = orphaned \ {d}

MarkSentFirst ==
  /\ At("marking")
  /\ MarkSent
  /\ Step("cleaning")
  /\ UNCHANGED <<sentCopy, queue, marked, calls, offering, mode,
                 copies, unpaused, requests, stops>>

\* A failed first write is logged and complete carries on.
MarkSentFirstFails ==
  /\ At("marking")
  /\ orphaned' = orphaned \cup {worker.draft}
  /\ Step("cleaning")
  /\ UNCHANGED <<rowVars, queue, marked, calls, offering, mode,
                 copies, unpaused, requests, stops>>

\* DeleteRemoteDraft, whose failure is only logged, then AppendSent unless the
\* server files sent mail itself.
CleanUp ==
  /\ At("cleaning")
  /\ worker' = Idle
  /\ UNCHANGED <<rowVars, queue, marked, calls, offering, mode,
                 copies, unpaused, orphaned, requests, stops>>

AppendSentFails ==
  /\ At("cleaning")
  /\ ~ServerSavesSent
  /\ worker' = [worker EXCEPT !.pc = "remarking", !.drift = @ \cup {"remote sent"}]
  /\ UNCHANGED <<rowVars, queue, marked, calls, offering, mode,
                 copies, unpaused, orphaned, requests, stops>>

MarkSentAgain ==
  /\ At("remarking")
  /\ MarkSent
  /\ worker' = Idle
  /\ UNCHANGED <<sentCopy, queue, marked, calls, offering, mode,
                 copies, unpaused, requests, stops>>

MarkSentAgainFails ==
  /\ At("remarking")
  /\ worker' = Idle
  /\ UNCHANGED <<rowVars, queue, marked, calls, offering, mode,
                 copies, unpaused, orphaned, requests, stops>>

-----------------------------------------------------------------------------
(* Time and the process. *)

\* next_attempt_at of a waiting draft passes.
BackoffElapses(d) ==
  /\ status[d] = "retry_wait"
  /\ due[d] = "pending"
  /\ due' = [due EXCEPT ![d] = "elapsed"]
  /\ unpaused' = [unpaused EXCEPT ![d] = 0]
  /\ UNCHANGED <<status, attempt, sentCopy, noted, memoryVars, mode,
                 copies, orphaned, requests, stops>>

\* What the end of the process does to its memory.
LoseMemory ==
  /\ queue' = <<>>
  /\ marked' = {}
  /\ calls' = [d \in Drafts |-> 0]
  /\ offering' = {}
  /\ worker' = Idle
  /\ mode' = "down"

Crash ==
  /\ Serving
  /\ stops < MaxStops
  /\ LoseMemory
  /\ orphaned' = orphaned \cup {d \in Drafts : Holds(d)}
  /\ stops' = stops + 1
  /\ UNCHANGED <<rowVars, copies, unpaused, requests>>

\* SIGTERM: workerCtx is cancelled, which fails every store call that uses it.
\* The outcome writes use a context of their own.
Stop ==
  /\ mode = "up"
  /\ stops < MaxStops
  /\ mode' = "stopping"
  /\ stops' = stops + 1
  /\ UNCHANGED <<rowVars, memoryVars, copies, unpaused, orphaned, requests>>

\* run waits for the worker to return before it closes the database.
Exit ==
  /\ mode = "stopping"
  /\ worker.pc = "idle"
  /\ LoseMemory
  /\ UNCHANGED <<rowVars, copies, unpaused, orphaned, requests, stops>>

Restart ==
  /\ mode = "down"
  /\ mode' = "up"
  /\ worker' = Starting
  /\ UNCHANGED <<rowVars, queue, marked, calls, offering,
                 copies, unpaused, orphaned, requests, stops>>

-----------------------------------------------------------------------------
Init ==
  /\ status = [d \in Drafts |-> "new"]
  /\ attempt = [d \in Drafts |-> 0]
  /\ due = [d \in Drafts |-> "none"]
  /\ sentCopy = {}
  /\ noted = {}
  /\ queue = <<>>
  /\ marked = {}
  /\ calls = [d \in Drafts |-> 0]
  /\ offering = {}
  /\ worker = Starting
  /\ mode = "up"
  /\ copies = [d \in Drafts |-> 0]
  /\ unpaused = [d \in Drafts |-> 0]
  /\ orphaned = {}
  /\ requests = 0
  /\ stops = 0

UserStep(d) ==
  \/ CreateDraft(d) \/ QueueDelivery(d) \/ DeleteDraft(d)
  \/ EnqueueMark(d) \/ EnqueueOffer(d)

DeliverStep ==
  \/ Claim \/ ClaimRefused
  \/ PrepareFails \/ Prepared
  \/ Refused \/ ServerAccepts \/ LinkLost \/ ReplyRead
  \/ SettleWrite \/ SettleWriteFails
  \/ FileSentCopy \/ FileSentCopyFails
  \/ MarkSentFirst \/ MarkSentFirstFails
  \/ CleanUp \/ AppendSentFails
  \/ MarkSentAgain \/ MarkSentAgainFails

LoopStep ==
  \/ Recover \/ RecoverFails
  \/ Tick \/ Receive \/ Unmark
  \/ \E d \in Drafts : TickEnqueue(d)

ProcessStep == Crash \/ Stop \/ Exit \/ Restart

Next ==
  \/ \E d \in Drafts : UserStep(d) \/ BackoffElapses(d)
  \/ DeleteAccount
  \/ LoopStep
  \/ DeliverStep
  \/ ProcessStep

Spec == Init /\ [][Next]_vars

(***************************************************************************)
(* The worker is one goroutine that never blocks for ever (every network   *)
(* and database call has a deadline), HTTP goroutines run to completion,   *)
(* time passes, and docker-compose restarts a dead process.  Go's select   *)
(* picks a ready case at random, so neither the ticker nor the channel can *)
(* be passed over for ever, and a database that answers now and then       *)
(* eventually answers a claim: those three are strongly fair.  The user,   *)
(* the provider's answers, failures, crashes and shutdowns owe nothing.    *)
(***************************************************************************)
Fairness ==
  /\ \A d \in Drafts : WF_vars(EnqueueMark(d)) /\ WF_vars(EnqueueOffer(d))
  /\ \A d \in Drafts : WF_vars(BackoffElapses(d))
  /\ \A d \in Drafts : WF_vars(TickEnqueue(d))
  /\ WF_vars(Recover \/ RecoverFails)
  /\ WF_vars(Unmark)
  /\ WF_vars(DeliverStep)
  /\ WF_vars(Exit)
  /\ WF_vars(Restart)
  /\ SF_vars(Tick)
  /\ SF_vars(Receive)
  /\ SF_vars(Claim)

FairSpec == Spec /\ Fairness

-----------------------------------------------------------------------------
(* What must hold. *)

\* The type invariant: every column, map, channel and local of the outbox.
TypeOK ==
  /\ status \in [Drafts -> Statuses]
  /\ attempt \in [Drafts -> Nat]
  /\ due \in [Drafts -> {"none", "pending", "elapsed"}]
  /\ sentCopy \in SUBSET Drafts
  /\ noted \in SUBSET Drafts
  /\ queue \in Seq(Drafts)
  /\ marked \in SUBSET Drafts
  /\ calls \in [Drafts -> Nat]
  /\ offering \in SUBSET Drafts
  /\ worker \in WorkerState
  /\ worker.pc \notin {"starting", "idle", "ticking"} => worker.draft \in Drafts
  /\ worker.pc = "settling" => worker.verdict # "none"
  /\ mode \in {"up", "stopping", "down"}
  /\ copies \in [Drafts -> Nat]
  /\ unpaused \in [Drafts -> Nat]
  /\ orphaned \in SUBSET Drafts
  /\ requests \in Nat
  /\ stops \in Nat

\* One press of "send" puts at most one copy on the wire, across retries,
\* duplicate wake-ups, failed writes and restarts (complete's comment: "the
\* provider has the message, and a second transmission is not something the
\* user can take back").
AtMostOneCopy == \A d \in Drafts : copies[d] <= 1

\* What the row says of a settled delivery is what happened on the wire: a
\* draft that failed or waits for a retry has not left, a sent one has.
TruthfulStatus ==
  \A d \in Drafts :
    /\ status[d] \in {"failed", "retry_wait"} => copies[d] = 0
    /\ status[d] = "sent" => copies[d] = 1

\* A row in "sending" is in the worker's hands, or its outcome was lost with a
\* crash or a failed write and waits for RecoverSendingDrafts; and nobody
\* takes a row out of "sending" under the worker, short of deleting it.
SendingIsOwned ==
  \A d \in Drafts :
    /\ status[d] = "sending" => Holds(d) \/ d \in orphaned
    /\ Holds(d) => status[d] \in {"sending", "deleted"}

\* The provider is never approached twice for one request without the back-off
\* between, however many goroutines queued the draft (ClaimSendableDraft's
\* comment on the second entry that skipped the ladder).
NoBackToBack == \A d \in Drafts : unpaused[d] <= 1

\* A draft waits for a retry only with a deadline and only on a rung the ladder
\* has: fail indexes it with AttemptCount - 1.
RetryHasRung ==
  \A d \in Drafts :
    status[d] = "retry_wait" => due[d] # "none" /\ attempt[d] \in 1..(MaxAttempts - 1)

\* What fail promises of a delivery that is tried again: it is on the ladder, and it waits.
LadderHolds == NoBackToBack /\ RetryHasRung

\* A draft reported sent has its local Sent copy, or says that it has none.
SentIsFiled == \A d \in Drafts : status[d] = "sent" => d \in sentCopy \cup noted

\* The outbox implements the promise made to the user.
PhaseOf(s) ==
  CASE s = "new" -> "none"
    [] s = "draft" -> "editing"
    [] s \in {"queued", "sending", "retry_wait"} -> "outstanding"
    [] s = "deleted" -> "gone"
    [] OTHER -> s
phaseOf == [d \in Drafts |-> PhaseOf(status[d])]
Contract == INSTANCE Delivery WITH phase <- phaseOf
KeepsContract == Contract!Spec

\* A requested delivery is settled in the end, one way or the other, even when
\* the channel was full at the moment of the request; the exception is a draft
\* whose outcome write was lost, which waits for the next start.
Settles ==
  \A d \in Drafts :
    status[d] \in {"queued", "retry_wait"}
      ~> (status[d] \in {"sent", "failed", "unknown", "deleted"} \/ d \in orphaned)

=============================================================================
