---------------------------- MODULE BodyPrefetch ----------------------------
(***************************************************************************)
(* Message bodies: the candidate scan, the queue and the workers of the    *)
(* prefetch, the foreground fetch of an opened message, and the two-level  *)
(* lock of the account's command connection (internal/provider/imap/       *)
(* body.go and runtime.go, transport/http getMessage).                     *)
(*                                                                         *)
(* The bodies are those of the candidate query: incoming and not too big.  *)
(* A fetch fails for every reason but a failing database, its budget among *)
(* them. The urgent counter is the number of calls blocked in lock;        *)
(* bodySlots, which only the foreground takes, is not modelled.            *)
(***************************************************************************)
EXTENDS Naturals, FiniteSets, SequencesExt

CONSTANTS
  Bodies,           \* messages
  Workers,          \* bodyWorker goroutines
  Openers,          \* getMessage handlers
  QueueRoom,        \* capacity of bodyQueue
  maxBodyAttempts,
  MaxFaults         \* bound: crashes and refused batch writes

ASSUME PrefetchAssumption ==
  /\ Workers \intersect Openers = {} /\ {"free", "loop"} \intersect (Workers \union Openers) = {}
  /\ "none" \notin Bodies /\ QueueRoom \in Nat

VARIABLES
  body,       \* messages.body_state
  claimed,    \* bodySeen
  failures,   \* bodyAttempts
  bodyQueue,
  fetch,      \* per worker and opener: step, message, succeeded, failures loaded
  scan,       \* the command loop: step, candidates
  cmdMu,      \* holder of the command connection
  faults      \* bound counter

prefetchVars == <<body, claimed, failures, bodyQueue, fetch, scan, cmdMu, faults>>

Fetchers == Workers \union Openers
BodyStates == {"metadata", "queued", "fetching", "error", "ready"}
NoFetch == [pc |-> "idle", m |-> "none", ok |-> FALSE, n |-> 0]
NoScan  == [pc |-> "idle", mine |-> {}]

\* Calls counted in urgent.
Urgent == {o \in Openers : fetch[o].pc = "blocked"} \union {s \in {"loop"} : scan.pc = "blocked"}
StepFetch(f, pc) == fetch' = [fetch EXCEPT ![f].pc = pc]

\* SetMessageBodyState and BatchSetMessageBodyState leave a ready row alone.
BodyState(ms, s) == body' = [b \in Bodies |-> IF b \in ms /\ body[b] # "ready" THEN s ELSE body[b]]
\* Mutant: every row is written.
AnyBodyState(ms, s) == body' = [b \in Bodies |-> IF b \in ms /\ s # "queued" THEN s ELSE body[b]]
SetBodyState(ms, s) == BodyState(ms, s)

-----------------------------------------------------------------------------
(* The command loop: a probe under the lock, then enqueueBodyCandidates. *)

Probe ==
  /\ scan.pc = "idle" /\ scan' = [NoScan EXCEPT !.pc = "blocked"]
  /\ UNCHANGED <<body, claimed, failures, bodyQueue, fetch, cmdMu, faults>>

ProbeLocks ==
  /\ scan.pc = "blocked" /\ cmdMu = "free"
  /\ scan' = [scan EXCEPT !.pc = "probe"] /\ cmdMu' = "loop"
  /\ UNCHANGED <<body, claimed, failures, bodyQueue, fetch, faults>>

\* The lock is released and ListBodyCandidateIDs answers whatever is not ready; its order,
\* newest first, is left open.
ListCandidates ==
  /\ scan.pc = "probe" /\ cmdMu' = "free"
  /\ scan' = [pc |-> "claim", mine |-> {b \in Bodies : body[b] # "ready"}]
  /\ UNCHANGED <<body, claimed, failures, bodyQueue, fetch, faults>>

\* The pre-filter: exhausted messages and those already claimed are passed over.
Claim ==
  /\ scan.pc = "claim"
  /\ LET mine == {m \in scan.mine : failures[m] < maxBodyAttempts /\ m \notin claimed}
     IN /\ claimed' = claimed \union mine
        /\ scan' = IF mine = {} THEN NoScan ELSE [pc |-> "mark", mine |-> mine]
  /\ UNCHANGED <<body, failures, bodyQueue, fetch, cmdMu, faults>>

\* The batch write, or its failure.
MarkQueued ==
  /\ scan.pc = "mark"
  /\ \/ /\ scan' = [scan EXCEPT !.pc = "push"] /\ SetBodyState(scan.mine, "queued")
        /\ UNCHANGED <<claimed, faults>>
     \/ /\ faults < MaxFaults /\ faults' = faults + 1
        /\ scan' = NoScan /\ claimed' = claimed \ scan.mine
        /\ UNCHANGED body
  /\ UNCHANGED <<failures, bodyQueue, fetch, cmdMu>>

\* A queue with room takes the candidate; a full one sends the whole rest to releaseCandidates.
Push ==
  /\ scan.pc = "push"
  /\ \/ scan.mine = {} /\ scan' = NoScan /\ UNCHANGED bodyQueue
     \/ /\ Len(bodyQueue) < QueueRoom
        /\ \E m \in scan.mine : /\ bodyQueue' = Append(bodyQueue, m)
                                 /\ scan' = [scan EXCEPT !.mine = @ \ {m}]
     \/ /\ Len(bodyQueue) >= QueueRoom /\ scan.mine # {}
        /\ scan' = [scan EXCEPT !.pc = "release"] /\ UNCHANGED bodyQueue
  /\ UNCHANGED <<body, claimed, failures, fetch, cmdMu, faults>>

\* Mutant: the rows go back and the claims stay.
ReleaseRows ==
  /\ scan.pc = "release" /\ scan' = NoScan
  /\ SetBodyState(scan.mine, "metadata")
  /\ UNCHANGED <<claimed, failures, bodyQueue, fetch, cmdMu, faults>>
Release ==
  /\ scan.pc = "release" /\ scan' = NoScan
  /\ claimed' = claimed \ scan.mine /\ SetBodyState(scan.mine, "metadata")
  /\ UNCHANGED <<failures, bodyQueue, fetch, cmdMu, faults>>

-----------------------------------------------------------------------------
(* fetchBody, for a worker and for an opened message. *)

\* What follows the fetch: a worker settles its claim, an opener has answered.
Leave(f) == IF f \in Workers THEN [fetch[f] EXCEPT !.pc = "drop"] ELSE NoFetch

\* A body that has arrived since it was listed ends a worker's fetch.
Dequeue(w) ==
  /\ fetch[w].pc = "idle" /\ bodyQueue # <<>>
  /\ bodyQueue' = Tail(bodyQueue)
  /\ LET m == Head(bodyQueue) IN
       IF body[m] = "ready"
       THEN /\ fetch' = [fetch EXCEPT ![w] = [pc |-> "drop", m |-> m, ok |-> TRUE, n |-> 0]]
            /\ UNCHANGED body
       ELSE /\ fetch' = [fetch EXCEPT ![w] = [NoFetch EXCEPT !.pc = "poll", !.m = m]]
            /\ SetBodyState({m}, "fetching")
  /\ UNCHANGED <<claimed, failures, scan, cmdMu, faults>>

\* getMessage starts a fetch of its own for a body that is not there.
Open(o) ==
  /\ fetch[o].pc = "idle"
  /\ \E m \in {b \in Bodies : body[b] # "ready"} :
       /\ fetch' = [fetch EXCEPT ![o] = [NoFetch EXCEPT !.pc = "blocked", !.m = m]]
       /\ SetBodyState({m}, "fetching")
  /\ UNCHANGED <<claimed, failures, bodyQueue, scan, cmdMu, faults>>

\* lockBackground: a glance at urgent before the mutex.
Poll(w) ==
  /\ fetch[w].pc = "poll" /\ Urgent = {} /\ StepFetch(w, "blocked")
  /\ UNCHANGED <<body, claimed, failures, bodyQueue, scan, cmdMu, faults>>

\* Its budget runs out: it is looked at before the glance, and nowhere after it.
TimesOut(w) ==
  /\ fetch[w].pc = "poll" /\ StepFetch(w, "undo")
  /\ UNCHANGED <<body, claimed, failures, bodyQueue, scan, cmdMu, faults>>

\* Mutant: urgent is not looked at again.
LockUnchecked(w) ==
  /\ fetch[w].pc = "blocked" /\ cmdMu = "free"
  /\ StepFetch(w, "fetch") /\ cmdMu' = w
  /\ UNCHANGED <<body, claimed, failures, bodyQueue, scan, faults>>
\* The mutex, and a second look under it.
LockBackground(w) ==
  /\ fetch[w].pc = "blocked" /\ cmdMu = "free"
  /\ IF Urgent = {} THEN StepFetch(w, "fetch") /\ cmdMu' = w
     ELSE StepFetch(w, "poll") /\ UNCHANGED cmdMu
  /\ UNCHANGED <<body, claimed, failures, bodyQueue, scan, faults>>

\* lock takes no context.
Lock(o) ==
  /\ fetch[o].pc = "blocked" /\ cmdMu = "free"
  /\ StepFetch(o, "fetch") /\ cmdMu' = o
  /\ UNCHANGED <<body, claimed, failures, bodyQueue, scan, faults>>

\* Mutant: an error returns without releasing the lock.
FetchKeepsLock(f) ==
  /\ fetch[f].pc = "fetch"
  /\ \/ /\ fetch' = [fetch EXCEPT ![f] = [Leave(f) EXCEPT !.ok = f \in Workers]]
        /\ body' = [body EXCEPT ![fetch[f].m] = "ready"] /\ cmdMu' = "free"
     \/ StepFetch(f, "undo") /\ UNCHANGED <<body, cmdMu>>
  /\ UNCHANGED <<claimed, failures, bodyQueue, scan, faults>>
\* SELECT, FETCH, the blob and the row; then the lock is released.
FetchBody(f) ==
  /\ fetch[f].pc = "fetch" /\ cmdMu' = "free"
  /\ \/ /\ fetch' = [fetch EXCEPT ![f] = [Leave(f) EXCEPT !.ok = f \in Workers]]
        /\ body' = [body EXCEPT ![fetch[f].m] = "ready"]
     \/ StepFetch(f, "undo") /\ UNCHANGED body
  /\ UNCHANGED <<claimed, failures, bodyQueue, scan, faults>>

\* Mutant: the undo is written on the caller's context, which may be done.
UndoOnCallersContext(f) ==
  /\ fetch[f].pc = "undo"
  /\ UNCHANGED body \/ SetBodyState({fetch[f].m}, "error")
  /\ fetch' = [fetch EXCEPT ![f] = Leave(f)]
  /\ UNCHANGED <<claimed, failures, bodyQueue, scan, cmdMu, faults>>
\* The deferred write, on rollbackCtx, after the lock is released.
Undo(f) ==
  /\ fetch[f].pc = "undo"
  /\ SetBodyState({fetch[f].m}, "error")
  /\ fetch' = [fetch EXCEPT ![f] = Leave(f)]
  /\ UNCHANGED <<claimed, failures, bodyQueue, scan, cmdMu, faults>>

-----------------------------------------------------------------------------
(* bodyWorker after a fetch. *)

\* The claim goes before the failure is counted.
DropClaim(w) ==
  /\ fetch[w].pc = "drop" /\ claimed' = claimed \ {fetch[w].m}
  /\ fetch' = [fetch EXCEPT ![w].pc = "count", ![w].n = failures[fetch[w].m]]
  /\ UNCHANGED <<body, failures, bodyQueue, scan, cmdMu, faults>>

\* Mutant: a failure clears the count as well.
RecordNothing(w) ==
  /\ fetch[w].pc = "count"
  /\ failures' = [failures EXCEPT ![fetch[w].m] = 0]
  /\ fetch' = [fetch EXCEPT ![w] = NoFetch]
  /\ UNCHANGED <<body, claimed, bodyQueue, scan, cmdMu, faults>>
\* recordBodyAttempt stores one more than it loaded.
RecordBodyAttempt(w) ==
  /\ fetch[w].pc = "count"
  /\ failures' = [failures EXCEPT ![fetch[w].m] = IF fetch[w].ok THEN 0 ELSE fetch[w].n + 1]
  /\ fetch' = [fetch EXCEPT ![w] = NoFetch]
  /\ UNCHANGED <<body, claimed, bodyQueue, scan, cmdMu, faults>>

\* The process dies: memory is lost, rows keep the state they were in.
PrefetchCrash ==
  /\ faults < MaxFaults /\ faults' = faults + 1
  /\ claimed' = {} /\ failures' = [b \in Bodies |-> 0] /\ bodyQueue' = <<>>
  /\ fetch' = [f \in Fetchers |-> NoFetch] /\ scan' = NoScan /\ cmdMu' = "free"
  /\ UNCHANGED body

-----------------------------------------------------------------------------
PrefetchInit ==
  /\ body = [b \in Bodies |-> "metadata"] /\ claimed = {} /\ failures = [b \in Bodies |-> 0]
  /\ bodyQueue = <<>> /\ fetch = [f \in Fetchers |-> NoFetch] /\ scan = NoScan
  /\ cmdMu = "free" /\ faults = 0

ScanStep == Probe \/ ProbeLocks \/ ListCandidates \/ Claim \/ MarkQueued \/ Push \/ Release
FetchStep(f) == FetchBody(f) \/ Undo(f)
WorkerStep(w) == Dequeue(w) \/ FetchStep(w) \/ Poll(w) \/ TimesOut(w) \/ LockBackground(w) \/ DropClaim(w) \/ RecordBodyAttempt(w)

PrefetchNext ==
  \/ ScanStep \/ PrefetchCrash
  \/ \E w \in Workers : WorkerStep(w)
  \/ \E o \in Openers : Open(o) \/ Lock(o) \/ FetchStep(o)

PrefetchSpec == PrefetchInit /\ [][PrefetchNext]_prefetchVars

-----------------------------------------------------------------------------
(* Properties. *)

\* Types, and: the lock is held exactly by the call in its critical section; the queue
\* within its capacity.
PrefetchTypeOK ==
  /\ body \in [Bodies -> BodyStates] /\ claimed \subseteq Bodies
  /\ failures \in [Bodies -> Nat] /\ Len(bodyQueue) <= QueueRoom
  /\ {f \in Fetchers : fetch[f].pc = "fetch"} \union {s \in {"loop"} : scan.pc = "probe"}
       = {cmdMu} \ {"free"}

\* Every claim is work in hand: a claimed message is in the queue, with exactly one worker or
\* with the scan, and what is queued is claimed (enqueueBodyCandidates: "an id abandoned here is
\* skipped by the pre-filter for the life of the process").
Hands(m) == {f \in Workers : fetch[f].m = m /\ fetch[f].pc # "count"}
ClaimsAreWork ==
  /\ IsInjective(bodyQueue)
  /\ \A m \in Bodies :
       (IF m \in claimed THEN 1 ELSE 0) =
         Cardinality(Hands(m)) + (IF m \in ToSet(bodyQueue) THEN 1 ELSE 0) + (IF scan.pc # "claim" /\ m \in scan.mine THEN 1 ELSE 0)

\* No prefetch takes the connection past a call that is waiting for it: probe or opened message
\* (lockBackground "steps aside whenever foreground work is waiting").
ForegroundFirst ==
  [][\A w \in Workers : cmdMu' = w /\ cmdMu # w => Urgent = {}]_prefetchVars

\* A body that has arrived is not taken back by a slower fetch of the same message that fails.
BodyStays == [][\A m \in Bodies : body[m] = "ready" => body'[m] = "ready"]_prefetchVars

\* "queued" and "fetching" are promises to the reading pane: each is followed by the body, by an
\* error, or by the row's return to "metadata", after a crash too.
PromiseKept == \A m \in Bodies : body[m] \in {"queued", "fetching"} ~> body[m] \notin {"queued", "fetching"}

\* The prefetch settles: every candidate gets its body or is left alone for good.
PrefetchSettles ==
  \A m \in Bodies : <>[](body[m] = "ready" \/ (failures[m] >= maxBodyAttempts /\ m \notin claimed))
=============================================================================
