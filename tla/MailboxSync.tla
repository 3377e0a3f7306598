---------------------------- MODULE MailboxSync ----------------------------
(***************************************************************************)
(* One synchronised mailbox: the provider's side (UIDs under a             *)
(* UIDVALIDITY), the local side (the mailboxes row and its                 *)
(* mailbox_messages mapping) and the three parties that touch both:        *)
(* the account's command loop, which runs sync passes under cmdMu          *)
(* (internal/provider/imap/sync.go, reconcile.go, loop.go); HTTP           *)
(* goroutines that act on a stored UID (actions.go, body.go); and other    *)
(* clients of the same mailbox.                                            *)
(*                                                                         *)
(* A pass is many steps, each one command or one store transaction, and it *)
(* may be cut short between any two of them by a broken connection or a    *)
(* restart.  UIDVALIDITY never changes under a selected mailbox.           *)
(***************************************************************************)
EXTENDS Integers, FiniteSets, FiniteSetsExt

CONSTANTS
  Msgs,            \* messages; a message enters the mailbox at most once
  NoMsg,           \* an unused UID
  IsInbox,         \* the inbox is probed, the other roles are skipped when quiet
  Kinds,           \* what users do: "flag" (flags, a body), "move", "attachment"
  ChunkSize,       \* 100 in syncMailbox: messages per FETCH and transaction
  MaxIncarnation,  \* bound: UIDVALIDITY values
  MaxCuts          \* bound: broken connections and restarts

ASSUME SyncAssumption ==
  /\ IsFiniteSet(Msgs)
  /\ NoMsg \notin Msgs
  /\ IsInbox \in BOOLEAN
  /\ Kinds \subseteq {"flag", "move", "attachment"}
  /\ ChunkSize \in Nat \ {0}
  /\ MaxIncarnation \in Nat \ {0}
  /\ MaxCuts \in Nat

VARIABLES
  incarnation,  \* the provider's UIDVALIDITY
  uid,          \* uid[m]: UID of m on the provider, 0 when it is not there
  nextUid,      \* the provider's UIDNEXT
  unborn,       \* messages that have not arrived yet
  old,          \* messages whose INTERNALDATE is more than 30 days back
  box,          \* the mailboxes row: uid_validity, last_uid, uid_next (0 for none)
  rows,         \* mailbox_messages: rows[u] is the message stored under UID u
  reconciled,   \* lastReconcile is within reconcileIntervalFor
  cmdMu,        \* who holds the account's command lock
  listed,       \* syncAllMailboxes' copy of the row, until its turn comes
  pass,         \* the sync pass: place and locals of syncMailbox
  op,           \* an HTTP goroutine acting on one stored message
  dropped,      \* observer: messages a reset dropped and nothing has stored since
  blind,        \* observer: a pass began without a UIDVALIDITY though rows were stored
  stray,        \* observer: why operations reached a message they did not mean
  cuts          \* bound counter

serverVars == <<incarnation, uid, nextUid, unborn, old>>
storeVars  == <<box, rows>>
vars == <<serverVars, storeVars, reconciled, cmdMu, listed, pass, op,
          dropped, blind, stray, cuts>>

Uids  == 1..Cardinality(Msgs)
NoBox == [validity |-> 0, lastUid |-> 0, uidNext |-> 0]

Live == {m \in Msgs : uid[m] # 0}
Stored(m) == {u \in Uids : rows[u] = m}
At(pc) == pass.pc = pc
Goto(pc) == pass' = [pass EXCEPT !.pc = pc]

NoPass == [pc |-> "idle", box |-> NoBox, validity |-> 0, next |-> 0, rebuilt |-> FALSE,
           skip |-> FALSE, todo |-> {}, lastUid |-> 0, stored |-> {}, present |-> {}]
NoOp   == [pc |-> "none", kind |-> "flag", msg |-> NoMsg, uid |-> 0, validity |-> 0,
           seen |-> 0]

Selected == {"reset", "search", "fetch", "reconcile", "flags", "expunge", "cursor"}

-----------------------------------------------------------------------------
(* The provider and its other clients. *)

localVars == <<storeVars, reconciled, cmdMu, listed, pass, op, dropped, blind, stray, cuts>>

Arrive(m) ==
  /\ m \in unborn
  /\ unborn' = unborn \ {m}
  /\ uid' = [uid EXCEPT ![m] = nextUid]
  /\ nextUid' = nextUid + 1
  /\ UNCHANGED <<incarnation, old, localVars>>

Expunge(m) ==
  /\ uid[m] # 0
  /\ uid' = [uid EXCEPT ![m] = 0]
  /\ UNCHANGED <<incarnation, nextUid, unborn, old, localVars>>

Ages(m) ==
  /\ m \in Msgs \ (unborn \cup old)
  /\ old' = old \cup {m}
  /\ UNCHANGED <<incarnation, uid, nextUid, unborn, localVars>>

\* The server rebuilds its index: every message gets a new UID, in any order.
Renumber ==
  /\ incarnation < MaxIncarnation
  /\ pass.pc \notin Selected
  /\ op.pc # "selected"
  /\ incarnation' = incarnation + 1
  /\ nextUid' = Cardinality(Live) + 1
  /\ \E f \in [Live -> 1..Cardinality(Live)] :
       /\ \A m, n \in Live : m # n => f[m] # f[n]
       /\ uid' = [m \in Msgs |-> IF m \in Live THEN f[m] ELSE 0]
  /\ UNCHANGED <<unborn, old, localVars>>

ServerStep == Renumber \/ \E m \in Msgs : Arrive(m) \/ Expunge(m) \/ Ages(m)

-----------------------------------------------------------------------------
(* Sessions: taking the command lock and choosing the mailbox row to sync. *)

\* The STATUS comparison of probeInbox and mailboxQuiet.
Unchanged(row) == row.uidNext # 0 /\ row.uidNext = nextUid /\ row.validity = incarnation

StartPass(row, skip) ==
  pass' = [NoPass EXCEPT !.pc = "loaded", !.box = row, !.skip = skip]

\* syncAllMailboxes reads the catalog once, for the whole session.
BeginFull ==
  /\ At("idle") /\ cmdMu = "free"
  /\ cmdMu' = "sync"
  /\ listed' = {box}
  /\ Goto("session")
  /\ UNCHANGED <<serverVars, storeVars, reconciled, op, dropped, blind, stray, cuts>>

\* serviceSyncRequest: the user opened the folder, or IDLE signalled.
BeginRequested ==
  /\ At("idle") /\ cmdMu = "free"
  /\ cmdMu' = "sync"
  /\ StartPass(box, FALSE)
  /\ UNCHANGED <<serverVars, storeVars, reconciled, listed, op, dropped, blind, stray, cuts>>

\* probeInbox.
Probe ==
  /\ IsInbox
  /\ At("idle") /\ cmdMu = "free"
  /\ ~Unchanged(box)
  /\ cmdMu' = "sync"
  /\ StartPass(box, TRUE)
  /\ UNCHANGED <<serverVars, storeVars, reconciled, listed, op, dropped, blind, stray, cuts>>

\* drainPending, between two mailboxes of a full session: re-reads the row.
ServicePending ==
  /\ At("session")
  /\ StartPass(box, FALSE)
  /\ UNCHANGED <<serverVars, storeVars, reconciled, cmdMu, listed, op, dropped, blind, stray, cuts>>

\* The full session reaches this mailbox, with the row it read at the start.
SyncListed ==
  /\ At("session")
  /\ \E row \in listed : StartPass(row, FALSE)
  /\ listed' = {}
  /\ UNCHANGED <<serverVars, storeVars, reconciled, cmdMu, op, dropped, blind, stray, cuts>>

\* mailboxQuiet.
Quiet(row) == ~IsInbox /\ reconciled /\ row.validity # 0 /\ Unchanged(row)

SkipQuiet ==
  /\ At("session")
  /\ \E row \in listed : Quiet(row)
  /\ listed' = {}
  /\ cmdMu' = "free"
  /\ pass' = NoPass
  /\ UNCHANGED <<serverVars, storeVars, reconciled, op, dropped, blind, stray, cuts>>

-----------------------------------------------------------------------------
(* syncMailbox. *)

passOnly == <<serverVars, storeVars, reconciled, cmdMu, listed, op, dropped, blind, stray, cuts>>

\* Mutant: UIDVALIDITY is not compared.
NeverRenumbered(row) == FALSE
Renumbered(row) == row.validity # 0 /\ row.validity # incarnation

Select ==
  /\ At("loaded")
  /\ pass' = [pass EXCEPT !.pc = IF Renumbered(pass.box) THEN "reset" ELSE "search",
                          !.validity = incarnation, !.next = nextUid,
                          !.lastUid = pass.box.lastUid, !.box = NoBox]
  /\ blind' = (blind \/ (pass.box.validity = 0 /\ \E u \in Uids : rows[u] # NoMsg))
  /\ UNCHANGED <<serverVars, storeVars, reconciled, cmdMu, listed, op, dropped, stray, cuts>>

\* ResetMailbox, one transaction; uid_next keeps its value.
Reset ==
  /\ At("reset")
  /\ rows' = [u \in Uids |-> NoMsg]
  /\ box' = [box EXCEPT !.validity = pass.validity, !.lastUid = 0]
  /\ pass' = [pass EXCEPT !.pc = "search", !.rebuilt = TRUE, !.lastUid = 0]
  /\ dropped' = dropped \cup {rows[u] : u \in {v \in Uids : rows[v] # NoMsg}}
  /\ UNCHANGED <<serverVars, reconciled, cmdMu, listed, op, blind, stray, cuts>>

\* Mutant: the range starts one too late.
SearchFromNext(lastUid) == lastUid + 2
\* incrementalUIDRange: the first UID above the cursor.
SearchFrom(lastUid) == lastUid + 1

\* searchNewUIDs: without a cursor the last 30 days, otherwise what the cursor
\* has not covered when the mailbox was selected.
NewUids ==
  IF pass.lastUid = 0 /\ ~pass.rebuilt
    THEN {uid[m] : m \in Live \ old}
    ELSE {uid[m] : m \in Live} \cap (SearchFrom(pass.lastUid)..(pass.next - 1))

Search ==
  /\ At("search")
  /\ pass' = [pass EXCEPT !.pc = "fetch", !.todo = NewUids]
  /\ UNCHANGED passOnly

\* One chunk: FETCH, then flushPending's transaction.  A message that is gone by
\* now is not in the answer.
Chunk == CHOOSE S \in SUBSET pass.todo :
           /\ Cardinality(S) = IF Cardinality(pass.todo) < ChunkSize
                                 THEN Cardinality(pass.todo) ELSE ChunkSize
           /\ \A u \in S, v \in pass.todo \ S : u < v

FetchChunk ==
  LET fetched == {m \in Live : uid[m] \in Chunk} IN
  /\ At("fetch")
  /\ pass.todo # {}
  /\ rows' = [u \in Uids |-> IF \E m \in fetched : uid[m] = u
                               THEN CHOOSE m \in fetched : uid[m] = u ELSE rows[u]]
  /\ dropped' = dropped \ fetched
  /\ pass' = [pass EXCEPT !.todo = @ \ Chunk,
                          !.lastUid = Max({@} \cup {uid[m] : m \in fetched})]
  /\ UNCHANGED <<serverVars, box, reconciled, cmdMu, listed, op, blind, stray, cuts>>

\* The probe skips reconciliation, and so does one that is not due yet.
Fetched ==
  /\ At("fetch")
  /\ pass.todo = {}
  /\ Goto(IF pass.skip \/ reconciled THEN "cursor" ELSE "reconcile")
  /\ UNCHANGED passOnly

\* ListMailboxUIDs.
Reconcile ==
  /\ At("reconcile")
  /\ pass' = [pass EXCEPT !.pc = "flags", !.stored = {u \in Uids : rows[u] # NoMsg}]
  /\ UNCHANGED passOnly

\* Mutant: FETCH with CHANGEDSINCE, which answers only for what moved.
AnswerChangedSince == {uid[m] : m \in Live} \cap {u \in pass.stored : u > box.lastUid}
\* reconcileFlags: a UID the provider no longer has is absent from the answer.
Answer == {uid[m] : m \in Live} \cap pass.stored

FetchFlags ==
  /\ At("flags")
  /\ pass' = [pass EXCEPT !.pc = "expunge", !.present = Answer]
  /\ UNCHANGED passOnly

\* DeleteMailboxUIDs of staleUIDs, then lastReconcile.
DropExpunged ==
  /\ At("expunge")
  /\ rows' = [u \in Uids |-> IF u \in pass.stored \ pass.present THEN NoMsg ELSE rows[u]]
  /\ reconciled' = TRUE
  /\ Goto("cursor")
  /\ UNCHANGED <<serverVars, box, cmdMu, listed, op, dropped, blind, stray, cuts>>

\* A failed reconciliation is logged; the pass still commits its cursor.
ReconcileFails ==
  /\ pass.pc \in {"reconcile", "flags", "expunge"}
  /\ Goto("cursor")
  /\ UNCHANGED passOnly

\* Mutant: the cursor takes UIDNEXT itself.
CursorAtNext == [validity |-> pass.validity, lastUid |-> pass.next, uidNext |-> pass.next]
Cursor == [validity |-> pass.validity, lastUid |-> pass.lastUid, uidNext |-> pass.next]

\* UpdateMailboxCursor; a full session goes on, any other one is over.
Commit ==
  /\ At("cursor")
  /\ box' = Cursor
  /\ pass' = [NoPass EXCEPT !.pc = IF listed # {} THEN "session" ELSE "idle"]
  /\ cmdMu' = IF listed # {} THEN "sync" ELSE "free"
  /\ UNCHANGED <<serverVars, rows, reconciled, listed, op, dropped, blind, stray, cuts>>

PassStep ==
  \/ Select \/ Reset \/ Search \/ FetchChunk \/ Fetched
  \/ Reconcile \/ FetchFlags \/ DropExpunged \/ ReconcileFails \/ Commit

ReconcileFallsDue ==
  /\ reconciled
  /\ reconciled' = FALSE
  /\ UNCHANGED <<serverVars, storeVars, cmdMu, listed, pass, op, dropped, blind, stray, cuts>>

\* A command or a store call failed, or the context ended: the pass returns.
Cut ==
  /\ pass.pc # "idle"
  /\ cuts < MaxCuts
  /\ cuts' = cuts + 1
  /\ pass' = NoPass
  /\ listed' = {}
  /\ cmdMu' = "free"
  /\ UNCHANGED <<serverVars, storeVars, reconciled, op, dropped, blind, stray>>

\* The process dies and starts again.
Restart ==
  /\ cuts < MaxCuts
  /\ cuts' = cuts + 1
  /\ pass' = NoPass
  /\ op' = NoOp
  /\ listed' = {}
  /\ cmdMu' = "free"
  /\ reconciled' = FALSE
  /\ UNCHANGED <<serverVars, storeVars, dropped, blind, stray>>

-----------------------------------------------------------------------------
(* An operation on a stored message: onMessageConn, fetchBody, FetchAttachment. *)

opOnly == <<serverVars, storeVars, reconciled, listed, pass, dropped, blind, cuts>>

\* MessageLocation, first query: the mapping ("seen" is an observer).
ReadMapping(m, kind) ==
  /\ op.pc = "none"
  /\ \E u \in Stored(m) :
       op' = [NoOp EXCEPT !.pc = "mapped", !.kind = kind, !.msg = m, !.uid = u,
                            !.seen = box.validity]
  /\ UNCHANGED <<opOnly, cmdMu, stray>>

\* MessageLocation, last query: the mailbox row, with its UIDVALIDITY.
ReadMailbox ==
  /\ op.pc = "mapped"
  /\ op' = [op EXCEPT !.pc = "located", !.validity = box.validity]
  /\ UNCHANGED <<opOnly, cmdMu, stray>>

\* Mutant: nobody compares the incarnation.
AcceptsAnyIncarnation == TRUE
\* selectForStoredUID; FetchAttachment selects without it.
AcceptsIncarnation ==
  op.kind = "attachment" \/ op.validity = 0 \/ op.validity = incarnation

SelectForStored ==
  /\ op.pc = "located" /\ cmdMu = "free"
  /\ IF AcceptsIncarnation
       THEN op' = [op EXCEPT !.pc = "selected"] /\ cmdMu' = "user"
       ELSE op' = NoOp /\ UNCHANGED cmdMu
  /\ UNCHANGED <<opOnly, stray>>

\* Why the command names another message than the one the user meant.
Cause == IF op.kind = "attachment" THEN "unchecked"
         ELSE IF op.seen # op.validity THEN "torn"
         ELSE IF op.validity = 0 \/ blind THEN "blind"
         ELSE "unexplained"
Misses == uid[op.msg] # op.uid /\ (op.msg \in Live \/ \E n \in Live : uid[n] = op.uid)

\* STORE, MOVE or FETCH on the stored UID.
ActRemotely ==
  /\ op.pc = "selected"
  /\ stray' = IF Misses THEN stray \cup {Cause} ELSE stray
  /\ uid' = IF op.kind = "move"
              THEN [m \in Msgs |-> IF uid[m] = op.uid THEN 0 ELSE uid[m]] ELSE uid
  /\ op' = IF op.kind = "move" THEN [op EXCEPT !.pc = "moved"] ELSE NoOp
  /\ cmdMu' = IF op.kind = "move" THEN "user" ELSE "free"
  /\ UNCHANGED <<incarnation, nextUid, unborn, old, storeVars, reconciled, listed, pass,
                 dropped, blind, cuts>>

\* MoveMessageLocation drops every mapping of the message in this mailbox; when the
\* mapping has gone meanwhile it fails (OpFails).
MoveLocation ==
  /\ op.pc = "moved"
  /\ rows' = [u \in Uids |-> IF rows[u] = op.msg THEN NoMsg ELSE rows[u]]
  /\ op' = NoOp
  /\ cmdMu' = "free"
  /\ UNCHANGED <<serverVars, box, reconciled, listed, pass, dropped, blind, stray, cuts>>

\* The command or the store call failed.
OpFails ==
  /\ op.pc # "none"
  /\ op' = NoOp
  /\ cmdMu' = IF op.pc \in {"selected", "moved"} THEN "free" ELSE cmdMu
  /\ UNCHANGED <<opOnly, stray>>

OpStep ==
  \/ \E m \in Msgs, kind \in Kinds : ReadMapping(m, kind)
  \/ ReadMailbox \/ SelectForStored \/ ActRemotely \/ MoveLocation \/ OpFails

-----------------------------------------------------------------------------
Init ==
  /\ incarnation = 1
  /\ unborn \in SUBSET Msgs
  /\ nextUid = Cardinality(Msgs \ unborn) + 1
  /\ uid \in [Msgs -> 0..Cardinality(Msgs)]
  /\ {uid[m] : m \in Msgs \ unborn} = 1..(nextUid - 1)
  /\ \A m \in unborn : uid[m] = 0
  /\ old \in SUBSET (Msgs \ unborn)
  /\ box = NoBox
  /\ rows = [u \in Uids |-> NoMsg]
  /\ reconciled = FALSE
  /\ cmdMu = "free"
  /\ listed = {}
  /\ pass = NoPass
  /\ op = NoOp
  /\ dropped = {}
  /\ blind = FALSE
  /\ stray = {}
  /\ cuts = 0

BeginStep == BeginFull \/ BeginRequested \/ Probe \/ ServicePending \/ SyncListed \/ SkipQuiet

Next == ServerStep \/ BeginStep \/ PassStep \/ ReconcileFallsDue \/ Cut \/ Restart \/ OpStep

Spec == Init /\ [][Next]_vars

(***************************************************************************)
(* Every command on the connection ends (stallGuard), so a pass and an     *)
(* operation run to their end; periodicSync comes round for ever, although *)
(* others may hold the lock when its turn comes; the reconcile interval    *)
(* passes.                                                                 *)
(***************************************************************************)
Fairness ==
  /\ WF_vars(PassStep) /\ WF_vars(SyncListed \/ SkipQuiet)
  /\ WF_vars(ReadMailbox \/ ActRemotely \/ MoveLocation) /\ SF_vars(SelectForStored)
  /\ SF_vars(BeginFull)
  /\ SF_vars(ReconcileFallsDue)

FairSpec == Spec /\ Fairness

-----------------------------------------------------------------------------
(* What must hold. *)

\* The type invariant.
TypeOK ==
  /\ incarnation \in 1..MaxIncarnation
  /\ uid \in [Msgs -> {0} \cup Uids]
  /\ nextUid \in 1..(Cardinality(Msgs) + 1)
  /\ unborn \in SUBSET Msgs /\ old \in SUBSET Msgs /\ dropped \in SUBSET Msgs
  /\ box \in [validity : 0..MaxIncarnation, lastUid : {0} \cup Uids,
              uidNext : 0..(Cardinality(Msgs) + 1)]
  /\ rows \in [Uids -> Msgs \cup {NoMsg}]
  /\ reconciled \in BOOLEAN /\ blind \in BOOLEAN
  /\ cmdMu \in {"free", "sync", "user"}
  /\ cmdMu = "sync" <=> pass.pc # "idle"
  /\ cmdMu = "user" <=> op.pc \in {"selected", "moved"}
  /\ stray \in SUBSET {"unchecked", "torn", "blind", "unexplained"}
  /\ cuts \in 0..MaxCuts

\* What the mailbox row claims to have covered.
Covered(m) == m \in Live /\ box.validity = incarnation /\ uid[m] <= box.lastUid

\* The cursor never passes a message of the last 30 days that is not stored: the
\* next pass would not ask for it again.  An operation that hit another message
\* than the user's breaks the mapping behind the sync's back.
CursorCoversRecentMail ==
  stray = {} => \A m \in Msgs : Covered(m) /\ m \notin old => rows[uid[m]] = m

\* A mapping written under the current UIDVALIDITY names the message that has
\* this UID, unless the message has left: a stored UID never names a stranger.
\* Excepted is a mailbox whose rows a pass met without a UIDVALIDITY to compare
\* (a first import cut half way, or a stale copy of the row).
MappingsTrueAfterImport ==
  box.validity = incarnation /\ ~blind =>
    \A u \in Uids : rows[u] # NoMsg => \A m \in Live : uid[m] = u => rows[u] = m

\* An operation that carries the UIDVALIDITY its UID was read under never
\* reaches another message (selectForStoredUID's comment); what can still go
\* wrong is a torn location, a row without a UIDVALIDITY, and attachments.
NoUnexplainedStray == "unexplained" \notin stray

\* Reconciliation drops only what the provider no longer holds (staleUIDs and
\* reconcileFlags: an unchanged flag must not look like an expunge).
DropsOnlyTheGone ==
  [][At("expunge") /\ ~blind =>
       \A u \in Uids : rows[u] # NoMsg /\ rows'[u] = NoMsg => \A m \in Live : uid[m] # u]_vars

\* New mail surfaces: a message the provider holds is stored in the end, unless
\* it leaves or grows older than the import window first.
MailSurfaces ==
  \A m \in Msgs : m \in Live ~> (m \notin Live \/ m \in old \/ Stored(m) # {})

-----------------------------------------------------------------------------
(* What the code's comments promise and the code does not keep. *)

\* searchNewUIDs: "on a UIDVALIDITY change it would instead lose mail ...
\* anything the window excludes is gone from this app while still sitting on the
\* provider".  A message that was stored once is stored again after a rebuild.
RebuildKeepsHeldMail ==
  stray = {} => \A m \in dropped : ~Covered(m)

=============================================================================
