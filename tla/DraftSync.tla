----------------------------- MODULE DraftSync -----------------------------
(***************************************************************************)
(* One draft and its copies in the provider's Drafts mailbox: the composer *)
(* that saves it, the debounced pushes (internal/service/draft/service.go),*)
(* SyncDraft and DeleteRemoteDraft (internal/provider/imap/remotedrafts.go)*)
(* and the import that reconciles what the mailbox holds                   *)
(* (internal/repository/sqlite/drafts.go, ReconcileRemoteDraft).           *)
(*                                                                         *)
(* A push reads the row, waits for the account's command lock, appends,    *)
(* removes the copy it remembers and only then writes the row again; the   *)
(* user, other pushes and other mail clients act in between.               *)
(*                                                                         *)
(* Time is a clock whose tick is the debounce and the clock-skew window    *)
(* (five seconds both): two moments of one tick are within the window.     *)
(***************************************************************************)
EXTENDS Integers, FiniteSets

CONSTANTS
  Pushes,       \* bound: pushes that may be under way at once
  MaxTexts,     \* bound: texts written by the user and by other clients
  MaxClock,     \* bound: ticks
  MaxFailures   \* bound: failed pushes and restarts

ASSUME DraftAssumption ==
  /\ {"free", "import"} \cap Pushes = {}
  /\ MaxTexts \in Nat \ {0} /\ MaxClock \in Nat /\ MaxFailures \in Nat

VARIABLES
  row,        \* the drafts row: status, revision, text, sync state, remote_uid, updated_at
  editor,     \* what the composer has open: the revision and the text it last saw
  copies,     \* the provider's copies of this draft: UID, text, INTERNALDATE
  nextUid,    \* the provider's UIDNEXT
  uidPlus,    \* whether it answers APPENDUID and takes UID EXPUNGE
  slot,       \* Service.timers[id]: no entry, a pending timer, a timer that fired
  loose,      \* deadlines of pending timers the map has lost track of
  push,       \* push[p]: a SyncDraft call
  import,     \* the sync pass over the Drafts mailbox
  cursor,     \* mailboxes.last_uid of the Drafts mailbox
  drop,       \* DeleteRemoteDraft, called when the draft has been sent
  lock,       \* the account's command lock
  clock,      \* the time
  texts,      \* texts written so far; a text is named by its number
  apart,      \* texts kept in conflict copies
  abandoned,  \* observer: the last edit's push failed, was skipped or died
  foreign,    \* observer: another client has changed the Drafts mailbox
  failures    \* bound counter

providerVars == <<copies, nextUid, uidPlus>>
timerVars    == <<slot, loose>>
observers    == <<apart, abandoned, foreign, failures>>
vars == <<row, editor, providerVars, timerVars, push, import, cursor, drop, lock,
          clock, texts, observers>>

NoRow     == [status |-> "none", rev |-> 0, text |-> 0, sync |-> "dirty", uid |-> 0, at |-> 0]
IdlePush  == [pc |-> "idle", text |-> 0, old |-> 0, uid |-> 0]
NoImport  == [pc |-> "idle", todo |-> {}, last |-> 0]
NoDrop    == [pc |-> "idle", uid |-> 0]
NoTimer   == [st |-> "empty", at |-> 0]

Exists   == row.status \notin {"none", "deleted"}
Editable == row.status \in {"draft", "failed"}

-----------------------------------------------------------------------------
(* The user and the debounce. *)

\* Mutant: a timer already in the map is trusted to do the work.
ScheduleOnce ==
  /\ slot' = IF slot.st = "empty" THEN [st |-> "pending", at |-> clock] ELSE slot
  /\ UNCHANGED loose
\* schedule: stops the timer the map knows, if it still can, and starts another.
Schedule ==
  /\ slot' = [st |-> "pending", at |-> clock]
  /\ UNCHANGED loose

\* Service.Create.
Create ==
  /\ row.status = "none"
  /\ texts < MaxTexts /\ clock < MaxClock
  /\ texts' = texts + 1
  /\ row' = [status |-> "draft", rev |-> 1, text |-> texts', sync |-> "dirty",
             uid |-> 0, at |-> clock]
  /\ editor' = [rev |-> 1, text |-> texts']
  /\ Schedule
  /\ UNCHANGED <<providerVars, push, import, cursor, drop, lock, clock, observers>>

\* The composer reads the row.
Open ==
  /\ Exists
  /\ editor # [rev |-> row.rev, text |-> row.text]
  /\ editor' = [rev |-> row.rev, text |-> row.text]
  /\ UNCHANGED <<row, providerVars, timerVars, push, import, cursor, drop, lock,
                 clock, texts, observers>>

\* Service.Update and UpdateDraft; another revision answers 409 and changes nothing.
Save ==
  /\ Editable
  /\ editor.rev = row.rev
  /\ texts < MaxTexts /\ clock < MaxClock
  /\ texts' = texts + 1
  /\ row' = [row EXCEPT !.rev = @ + 1, !.text = texts', !.sync = "dirty", !.at = clock]
  /\ editor' = [rev |-> row'.rev, text |-> texts']
  /\ abandoned' = FALSE
  /\ Schedule
  /\ UNCHANGED <<providerVars, push, import, cursor, drop, lock, clock,
                 apart, foreign, failures>>

\* Service.Delete: cancel, DeleteDraft, and DeleteRemoteDraft, which begins by
\* reading the row that has just gone and returns ErrNotFound.
Delete ==
  /\ row.status \in {"draft", "failed", "sent"}
  /\ row' = [row EXCEPT !.status = "deleted"]
  /\ slot' = NoTimer
  /\ UNCHANGED <<editor, providerVars, loose, push, import, cursor, drop, lock, clock,
                 texts, observers>>

\* QueueDraftDelivery, and the two ways a delivery ends; each moves updated_at.
Send ==
  /\ Editable
  /\ row' = [row EXCEPT !.status = "queued", !.at = clock]
  /\ UNCHANGED <<editor, providerVars, timerVars, push, import, cursor, drop, lock, clock,
                 texts, observers>>

SendFails ==
  /\ row.status = "queued"
  /\ row' = [row EXCEPT !.status = "failed", !.at = clock]
  /\ UNCHANGED <<editor, providerVars, timerVars, push, import, cursor, drop, lock, clock,
                 texts, observers>>

\* complete: markSent, and the start of DeleteRemoteDraft, which reads the row.
SendDone ==
  /\ row.status = "queued"
  /\ row' = [row EXCEPT !.status = "sent", !.at = clock]
  /\ drop' = IF row.uid # 0 THEN [pc |-> "waiting", uid |-> row.uid] ELSE NoDrop
  /\ UNCHANGED <<editor, providerVars, timerVars, push, import, cursor, lock, clock,
                 texts, observers>>

\* DeleteRemoteDraft under the lock; without UIDPLUS the copy is only flagged.
DropCopy ==
  /\ drop.pc = "waiting"
  /\ lock = "free"
  /\ copies' = IF uidPlus THEN {c \in copies : c.uid # drop.uid} ELSE copies
  /\ drop' = NoDrop
  /\ UNCHANGED <<row, editor, nextUid, uidPlus, timerVars, push, import, cursor, lock, clock,
                 texts, observers>>

DropFails ==
  /\ drop.pc = "waiting"
  /\ drop' = NoDrop
  /\ UNCHANGED <<row, editor, providerVars, timerVars, push, import, cursor, lock, clock,
                 texts, observers>>

-----------------------------------------------------------------------------
(* SyncDraft, from the timer's goroutine. *)

\* The pending timer of the map, or one the map has lost, goes off.
Fire(p) ==
  /\ push[p].pc = "idle"
  /\ \/ /\ slot.st = "pending" /\ clock > slot.at
        /\ slot' = [slot EXCEPT !.st = "fired"]
        /\ UNCHANGED loose
     \/ /\ \E at \in loose : clock > at /\ loose' = loose \ {at}
        /\ UNCHANGED slot
  /\ push' = [push EXCEPT ![p].pc = "started"]
  /\ UNCHANGED <<row, editor, providerVars, import, cursor, drop, lock, clock, texts, observers>>

\* GetDraft; a draft that is on its way out is left alone.
Read(p) ==
  /\ push[p].pc = "started"
  /\ IF Editable
       THEN /\ push' = [push EXCEPT ![p].pc = "waiting", ![p].text = row.text, ![p].old = row.uid]
            /\ UNCHANGED abandoned
       ELSE /\ push' = [push EXCEPT ![p].pc = "leaving"]
            /\ abandoned' = TRUE
  /\ UNCHANGED <<row, editor, providerVars, timerVars, import, cursor, drop, lock, clock,
                 texts, apart, foreign, failures>>

\* The APPEND, under the command lock.  Only APPENDUID tells the copy's UID.
Append(p) ==
  /\ push[p].pc = "waiting"
  /\ lock = "free"
  /\ lock' = p
  /\ copies' = copies \cup {[uid |-> nextUid, text |-> push[p].text, at |-> clock]}
  /\ nextUid' = nextUid + 1
  /\ push' = [push EXCEPT ![p].pc = "appended", ![p].uid = IF uidPlus THEN nextUid ELSE 0]
  /\ UNCHANGED <<row, editor, uidPlus, timerVars, import, cursor, drop, clock, texts, observers>>

\* The copy the push read from the row goes; a failure here is ignored.
RemoveOld(p) ==
  /\ push[p].pc = "appended"
  /\ copies' = IF uidPlus THEN {c \in copies : c.uid # push[p].old} ELSE copies
  /\ push' = [push EXCEPT ![p].pc = "removed"]
  /\ UNCHANGED <<row, editor, nextUid, uidPlus, timerVars, import, cursor, drop, lock, clock,
                 texts, observers>>

RemoveOldFails(p) ==
  /\ push[p].pc = "appended"
  /\ failures < MaxFailures
  /\ failures' = failures + 1
  /\ push' = [push EXCEPT ![p].pc = "removed"]
  /\ UNCHANGED <<row, editor, providerVars, timerVars, import, cursor, drop, lock, clock,
                 texts, apart, abandoned, foreign>>

\* Mutant: the outcome is written to another column.
UploadedElsewhere(p) == [row EXCEPT !.uid = push[p].uid, !.sync = "uploaded"]
Uploaded(p) == [row EXCEPT !.uid = push[p].uid, !.sync = "synced"]

\* UpdateDraftRemote, whatever the row has become since it was read.
Commit(p) ==
  /\ push[p].pc = "removed"
  /\ row' = IF Exists THEN Uploaded(p) ELSE row
  /\ push' = [push EXCEPT ![p].pc = "leaving"]
  /\ lock' = "free"
  /\ UNCHANGED <<editor, providerVars, timerVars, import, cursor, drop, clock, texts, observers>>

\* The mailbox, the account, the connection or the store failed, or the 45 s are over.
PushFails(p) ==
  /\ push[p].pc \in {"started", "waiting", "appended", "removed"}
  /\ failures < MaxFailures
  /\ failures' = failures + 1
  /\ push' = [push EXCEPT ![p].pc = "leaving"]
  /\ lock' = IF lock = p THEN "free" ELSE lock
  /\ abandoned' = TRUE
  /\ UNCHANGED <<row, editor, providerVars, timerVars, import, cursor, drop, clock,
                 texts, apart, foreign>>

\* The callback deletes the map's entry, be it its own or a newer timer's.
Leave(p) ==
  /\ push[p].pc = "leaving"
  /\ push' = [push EXCEPT ![p] = IdlePush]
  /\ loose' = IF slot.st = "pending" THEN loose \cup {slot.at} ELSE loose
  /\ slot' = NoTimer
  /\ UNCHANGED <<row, editor, providerVars, import, cursor, drop, lock, clock, texts, observers>>

PushStep(p) ==
  Read(p) \/ Append(p) \/ RemoveOld(p) \/ RemoveOldFails(p) \/ Commit(p) \/ PushFails(p) \/ Leave(p)

-----------------------------------------------------------------------------
(* The sync pass over the Drafts mailbox: importRemoteDraft for each new UID. *)

BeginImport ==
  /\ import.pc = "idle"
  /\ lock = "free"
  /\ \E c \in copies : c.uid > cursor
  /\ lock' = "import"
  /\ import' = [pc |-> "running", todo |-> {c \in copies : c.uid > cursor}, last |-> cursor]
  /\ UNCHANGED <<row, editor, providerVars, timerVars, push, cursor, drop, clock,
                 texts, observers>>

\* Mutant: an import leaves the revision alone.
TakenQuietly(c) == [row EXCEPT !.text = c.text, !.uid = c.uid, !.sync = "synced", !.at = c.at]
Taken(c) ==
  [row EXCEPT !.text = c.text, !.uid = c.uid, !.sync = "synced", !.at = c.at, !.rev = @ + 1]

\* Mutant: the tie goes to the provider.
TiesTaken(c) == FALSE
\* Both sides changed within the window.
Ties(c) == row.sync = "dirty" /\ row.at = c.at

\* ReconcileRemoteDraft of one copy: the row's own, one of a draft that is gone,
\* a tie, one older than an unsynchronised edit, or any other, which replaces the
\* row whatever its status.
ReconcileRemoteDraft(c) ==
  CASE ~Exists -> UNCHANGED <<row, apart>>
    [] Exists /\ row.uid = c.uid -> UNCHANGED <<row, apart>>
    [] Exists /\ row.uid # c.uid /\ Ties(c) ->
         apart' = apart \cup {c.text} /\ UNCHANGED row
    [] Exists /\ row.uid # c.uid /\ ~Ties(c) ->
         /\ row' = IF row.sync = "dirty" /\ row.at > c.at THEN row ELSE Taken(c)
         /\ UNCHANGED apart

ImportOne ==
  /\ import.pc = "running"
  /\ \E c \in import.todo :
       /\ \A d \in import.todo : c.uid <= d.uid
       /\ ReconcileRemoteDraft(c)
       /\ import' = [import EXCEPT !.todo = @ \ {c}, !.last = c.uid]
  /\ UNCHANGED <<editor, providerVars, timerVars, push, cursor, drop, lock, clock,
                 texts, abandoned, foreign, failures>>

\* storeRemoteDraft failed: the error is logged and the cursor passes the copy.
ImportFails ==
  /\ import.pc = "running"
  /\ failures < MaxFailures
  /\ failures' = failures + 1
  /\ \E c \in import.todo :
       /\ \A d \in import.todo : c.uid <= d.uid
       /\ import' = [import EXCEPT !.todo = @ \ {c}, !.last = c.uid]
  /\ UNCHANGED <<row, editor, providerVars, timerVars, push, cursor, drop, lock, clock,
                 texts, apart, abandoned, foreign>>

EndImport ==
  /\ import.pc = "running"
  /\ import.todo = {}
  /\ cursor' = import.last
  /\ import' = NoImport
  /\ lock' = "free"
  /\ UNCHANGED <<row, editor, providerVars, timerVars, push, drop, clock, texts, observers>>

\* The pass ends early: what it stored stays, the cursor does not move.
CutImport ==
  /\ import.pc = "running"
  /\ failures < MaxFailures
  /\ failures' = failures + 1
  /\ import' = NoImport
  /\ lock' = "free"
  /\ UNCHANGED <<row, editor, providerVars, timerVars, push, cursor, drop, clock, texts,
                 apart, abandoned, foreign>>

ImportStep == ImportOne \/ ImportFails \/ EndImport \/ CutImport

-----------------------------------------------------------------------------
(* Other mail clients, time and the process. *)

\* Another client saves its version of the draft: a new copy for the old one.
OtherEdit ==
  /\ texts < MaxTexts
  /\ texts' = texts + 1
  /\ \E c \in copies :
       copies' = (copies \ {c}) \cup {[uid |-> nextUid, text |-> texts', at |-> clock]}
  /\ nextUid' = nextUid + 1
  /\ foreign' = TRUE
  /\ UNCHANGED <<row, editor, uidPlus, timerVars, push, import, cursor, drop, lock, clock,
                 apart, abandoned, failures>>

Tick ==
  /\ clock < MaxClock
  /\ clock' = clock + 1
  /\ UNCHANGED <<row, editor, providerVars, timerVars, push, import, cursor, drop, lock,
                 texts, observers>>

\* Timers and pushes live in memory, and nothing looks for dirty rows at startup.
Restart ==
  /\ failures < MaxFailures
  /\ failures' = failures + 1
  /\ slot' = NoTimer
  /\ loose' = {}
  /\ push' = [p \in Pushes |-> IdlePush]
  /\ import' = NoImport
  /\ drop' = NoDrop
  /\ lock' = "free"
  /\ abandoned' = TRUE
  /\ UNCHANGED <<row, editor, providerVars, cursor, clock, texts, apart, foreign>>

-----------------------------------------------------------------------------
Init ==
  /\ row = NoRow
  /\ editor = [rev |-> 0, text |-> 0]
  /\ copies = {} /\ nextUid = 1 /\ uidPlus \in BOOLEAN
  /\ slot = NoTimer /\ loose = {}
  /\ push = [p \in Pushes |-> IdlePush]
  /\ import = NoImport /\ cursor = 0
  /\ drop = NoDrop /\ lock = "free"
  /\ clock = 0 /\ texts = 0
  /\ apart = {} /\ abandoned = FALSE /\ foreign = FALSE /\ failures = 0

UserStep == Create \/ Open \/ Save \/ Delete \/ Send

Next ==
  \/ UserStep \/ SendFails \/ SendDone \/ DropCopy \/ DropFails
  \/ \E p \in Pushes : Fire(p) \/ PushStep(p)
  \/ BeginImport \/ ImportStep
  \/ OtherEdit \/ Tick \/ Restart

\* The system rests once the user and time have used up their bounds.
Spec == Init /\ [][Next]_vars

(***************************************************************************)
(* A timer goes off, a goroutine runs to its end, every command on the     *)
(* connection ends (stallGuard), and whoever waits for the command lock    *)
(* gets it some day: sync.Mutex hands it over after a millisecond of       *)
(* starving.                                                               *)
(***************************************************************************)
Fairness ==
  /\ WF_vars(Tick)
  /\ SF_vars(\E p \in Pushes : Fire(p))
  /\ \A p \in Pushes : WF_vars(Read(p)) /\ WF_vars(RemoveOld(p)) /\ WF_vars(Commit(p))
                         /\ WF_vars(Leave(p)) /\ SF_vars(Append(p))
  /\ WF_vars(ImportOne) /\ WF_vars(EndImport)

FairSpec == Spec /\ Fairness

-----------------------------------------------------------------------------
(* What must hold. *)

\* The type invariant.
TypeOK ==
  /\ row \in [status : {"none", "draft", "queued", "failed", "sent", "deleted"}, rev : Nat,
              text : 0..MaxTexts, sync : {"dirty", "synced"}, uid : Nat, at : 0..MaxClock]
  /\ editor \in [rev : Nat, text : 0..MaxTexts]
  /\ \A c \in copies : c \in [uid : 1..(nextUid - 1), text : 1..MaxTexts, at : 0..MaxClock]
  /\ slot \in [st : {"empty", "pending", "fired"}, at : 0..MaxClock]
  /\ uidPlus \in BOOLEAN /\ loose \in SUBSET (0..MaxClock)
  /\ push \in [Pushes -> [pc : {"idle", "started", "waiting", "appended", "removed", "leaving"},
                          text : 0..MaxTexts, old : Nat, uid : Nat]]
  /\ \A p \in Pushes : lock = p <=> push[p].pc \in {"appended", "removed"}
  /\ lock = "import" <=> import.pc = "running"
  /\ import.todo # {} => import.pc = "running"
  /\ cursor < nextUid /\ apart \in SUBSET (1..MaxTexts)

\* A save replaces only the text its author had before them: an import in between
\* makes the revision differ (UpdateDraft's optimistic locking).
NoBlindOverwrite == [][Save => row.text = editor.text]_vars

\* An edit that has not been uploaded is replaced only by a later one, and one made
\* within the clock-skew window survives beside it (ReconcileRemoteDraft's comment:
\* "a tie inside the five-second clock-skew window is preserved as a conflict copy").
LocalEditSurvives ==
  [][ImportOne /\ row.sync = "dirty" /\ Exists =>
       \/ row'.text # row.text /\ row'.at > row.at
       \/ /\ row'.text = row.text
          /\ \A c \in import.todo \ import'.todo :
               c.at = row.at /\ c.uid # row.uid => c.text \in apart']_vars

Uploading(t) == row.text = t /\ row.sync = "dirty" /\ Editable
OnProvider(t) == \E c \in copies : c.text = t

\* An edit whose push neither failed nor was cut off reaches the provider, unless it is
\* replaced or sent first, or another client meddles with the copies.
EditIsUploaded ==
  \A t \in 1..MaxTexts :
    Uploading(t) ~> (OnProvider(t) \/ row.text # t \/ ~Editable \/ abandoned \/ foreign)

=============================================================================
