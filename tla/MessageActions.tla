--------------------------- MODULE MessageActions ---------------------------
(***************************************************************************)
(* What a click does to stored mail: Patch and MarkRead                    *)
(* (internal/service/message/service.go), SetFlags, SetSeenBulk, Archive   *)
(* and moveToMailbox with its COPY fallback (internal/provider/imap/       *)
(* actions.go) and the writes of internal/repository/sqlite, against the   *)
(* synchronisation and another client.                                     *)
(*                                                                         *)
(* The provider is changed first, under the command connection's lock; the *)
(* row is written after the lock is released. UIDs and renumbering are     *)
(* those of MailboxSync; here a message is found where its row says.       *)
(***************************************************************************)
EXTENDS Naturals, FiniteSets

CONSTANTS
  Mail,        \* incoming messages of one account's inbox
  Clicks,      \* user requests, each made once
  MaxForeign   \* bound: changes made in another client

ASSUME MailAssumption == {"free", "sync"} \intersect Clicks = {} /\ MaxForeign \in Nat

VARIABLES
  seen,      \* remote: messages flagged \Seen
  inInbox,   \* remote: messages the inbox holds
  doomed,    \* remote: inbox messages flagged \Deleted
  archived,  \* remote: copies in the archive folder
  gone,      \* remote: messages deleted in another client, or for it
  caps,      \* what the provider advertises: MOVE, UIDPLUS or neither
  isRead,    \* messages.is_read
  filed,     \* mailbox_messages: inbox, archive, or no mailbox
  conn,      \* who holds the command connection's lock
  click,     \* requests: step, operation, messages left, messages accepted
  pass,      \* the synchronisation: step, what FETCH answered
  excused,   \* observer: messages whose row may claim more than the provider knows
  foreign    \* bound counter

remoteVars == <<seen, inInbox, doomed, archived, gone, caps>>
rowVars    == <<isRead, filed>>
mailVars   == <<remoteVars, rowVars, conn, click, pass, excused, foreign>>

NewClick == [pc |-> "new", op |-> "none", todo |-> {}, done |-> {}, safe |-> FALSE, late |-> {}]
Over     == [NewClick EXCEPT !.pc = "over"]
NoPass   == [pc |-> "idle", seen |-> {}, inbox |-> {}, archive |-> {}]
Unread   == {m \in Mail \ isRead : filed[m] = "inbox"}

Underway(m) == \E k \in Clicks : /\ click[k].pc \notin {"new", "over"}
                                 /\ m \in click[k].todo \union click[k].done
\* The message of a Patch.
The(k)      == CHOOSE m \in click[k].todo : TRUE
To(k, pc)   == click' = [click EXCEPT ![k].pc = pc]

-----------------------------------------------------------------------------
(* Requests: Patch and MarkRead. *)

\* UnreadMessageIDs applies the scope of the view, and not its sender.
Start(k) ==
  /\ click[k].pc = "new"
  /\ \E op \in {"read", "unread", "bulk", "archive"}, m \in Mail :
       LET ids == IF op = "bulk" THEN Unread ELSE {m} IN
       /\ click' = [click EXCEPT ![k] = IF ids = {} THEN Over
                                        ELSE [@ EXCEPT !.pc = "locate", !.op = op, !.todo = ids]]
       /\ excused' = excused \union {i \in ids : Underway(i)}
  /\ UNCHANGED <<remoteVars, rowVars, conn, pass, foreign>>

\* A STORE on a UID the inbox no longer holds changes nothing and is answered OK.
Store(m, flag) == CASE m \notin inInbox -> seen
                    [] m \in inInbox /\ flag -> seen \union {m}
                    [] OTHER -> seen \ {m}
\* A command is refused, or done, or done with its answer lost.
Outcomes == {[taken |-> FALSE, told |-> FALSE], [taken |-> TRUE, told |-> TRUE], [taken |-> TRUE, told |-> FALSE]}

\* SetFlags; a message in no mailbox is a 404, and without a connection a 503.
SetFlags(k) ==
  /\ click[k].pc = "locate" /\ click[k].op \in {"read", "unread"} /\ conn = "free"
  /\ \E r \in Outcomes :
       LET m == The(k)  read == click[k].op = "read" IN
       /\ r.taken => filed[m] = "inbox"
       /\ seen' = IF r.taken THEN Store(m, read) ELSE seen
       /\ click' = [click EXCEPT ![k] = IF r.told THEN [@ EXCEPT !.pc = "write", !.todo = {}, !.done = {m}]
                                        ELSE Over]
       /\ excused' = IF r.taken /\ ~r.told /\ ~read THEN excused \union {m} ELSE excused
  /\ UNCHANGED <<inInbox, doomed, archived, gone, caps, rowVars, conn, pass, foreign>>

\* Mutant: a chunk the provider refused is written as well.
AcceptAnyway(k, m, told) == [click[k] EXCEPT !.todo = @ \ {m}, !.done = @ \union {m}]
\* The next chunk, and the ids whose STORE the provider answered.
Accept(k, m, told) ==
  [click[k] EXCEPT !.todo = @ \ {m}, !.done = IF told THEN @ \union {m} ELSE @]

\* SetSeenBulk, chunk by chunk: the lock is taken again for each mailbox.
SetSeen(k) ==
  /\ click[k].pc = "locate" /\ click[k].op = "bulk" /\ conn = "free" /\ click[k].todo # {}
  /\ \E m \in click[k].todo, r \in Outcomes :
       /\ seen' = IF r.taken THEN Store(m, TRUE) ELSE seen
       /\ click' = [click EXCEPT ![k] = Accept(k, m, r.told)]
  /\ UNCHANGED <<inInbox, doomed, archived, gone, caps, rowVars, conn, pass,
                 excused, foreign>>

\* setSeenAccount finds the connection gone: it answers no id, those of the
\* mailboxes already done included.
GoesOffline(k) ==
  /\ click[k].pc = "locate" /\ click[k].op = "bulk" /\ conn = "free" /\ click[k].todo # {}
  /\ click' = [click EXCEPT ![k] = Over]
  /\ UNCHANGED <<remoteVars, rowVars, conn, pass, excused, foreign>>

Accepted(k) ==
  /\ click[k].pc = "locate" /\ click[k].op = "bulk" /\ click[k].todo = {}
  /\ click' = [click EXCEPT ![k] = IF click[k].done = {} THEN Over ELSE [@ EXCEPT !.pc = "write"]]
  /\ UNCHANGED <<remoteVars, rowVars, conn, pass, excused, foreign>>

\* UpdateMessage and UpdateMessages: one transaction under writeMu, or an error.
WriteRow(k) ==
  /\ click[k].pc = "write"
  /\ click' = [click EXCEPT ![k] = Over]
  /\ \/ /\ isRead' = CASE click[k].op \in {"read", "bulk"} -> isRead \union click[k].done
                       [] click[k].op = "unread" -> isRead \ click[k].done
                       [] OTHER -> isRead
        /\ UNCHANGED excused
     \/ /\ excused' = IF click[k].op = "unread" THEN excused \union click[k].done ELSE excused
        /\ UNCHANGED isRead
  /\ UNCHANGED <<remoteVars, filed, conn, pass, foreign>>

-----------------------------------------------------------------------------
(* Archive and moveToMailbox: the connection is held throughout. *)

\* A message that is in the archive already needs no move.
Locate(k) ==
  /\ click[k].pc = "locate" /\ click[k].op = "archive" /\ conn = "free"
  /\ CASE filed[The(k)] = "inbox" ->
            /\ conn' = k /\ To(k, IF caps = "move" THEN "move" ELSE "search")
       [] filed[The(k)] = "archive" -> To(k, "write") /\ UNCHANGED conn
       [] OTHER -> click' = [click EXCEPT ![k] = Over] /\ UNCHANGED conn
  /\ UNCHANGED <<remoteVars, rowVars, pass, excused, foreign>>

\* Mutant: the lock is not released on the error path.
GiveUpLocked(k) == UNCHANGED conn /\ click' = [click EXCEPT ![k] = Over]
\* A command fails: the request ends with the source mapping in place.
GiveUp(k) == conn' = "free" /\ click' = [click EXCEPT ![k] = Over]

Here(k)    == The(k) \in inInbox
CopyOf(k)  == archived' = IF Here(k) THEN [archived EXCEPT ![The(k)] = @ + 1] ELSE archived

Move(k) ==
  /\ click[k].pc = "move"
  /\ \E r \in Outcomes :
       /\ IF r.taken THEN CopyOf(k) /\ inInbox' = inInbox \ {The(k)} /\ doomed' = doomed \ {The(k)}
                     ELSE UNCHANGED <<archived, inInbox, doomed>>
       /\ IF r.told THEN To(k, "relocate") /\ UNCHANGED conn ELSE GiveUp(k)
  /\ UNCHANGED <<seen, gone, caps, rowVars, pass, excused, foreign>>

\* noPendingDeletes; only an empty answer is safe.
\* Mutant: the search is not made.
SearchNothing(k) ==
  /\ click[k].pc = "search"
  /\ click' = [click EXCEPT ![k].pc = "copy", ![k].safe = TRUE]
  /\ UNCHANGED <<remoteVars, rowVars, conn, pass, excused, foreign>>
Search(k) ==
  /\ click[k].pc = "search"
  /\ \/ click' = [click EXCEPT ![k].pc = "copy", ![k].safe = doomed = {}] /\ UNCHANGED conn
     \/ GiveUp(k)
  /\ UNCHANGED <<remoteVars, rowVars, pass, excused, foreign>>

\* Mutant: an error of COPY is not looked at.
CopyUnchecked(k) ==
  /\ click[k].pc = "copy"
  /\ \E r \in Outcomes : IF r.taken THEN CopyOf(k) ELSE UNCHANGED archived
  /\ To(k, "flag")
  /\ UNCHANGED <<seen, inInbox, doomed, gone, caps, rowVars, conn, pass, excused, foreign>>
Copy(k) ==
  /\ click[k].pc = "copy"
  /\ \E r \in Outcomes :
       /\ IF r.taken THEN CopyOf(k) ELSE UNCHANGED archived
       /\ IF r.told THEN To(k, "flag") /\ UNCHANGED conn ELSE GiveUp(k)
  /\ UNCHANGED <<seen, inInbox, doomed, gone, caps, rowVars, pass, excused, foreign>>

FlagDeleted(k) ==
  /\ click[k].pc = "flag"
  /\ \E r \in Outcomes :
       /\ doomed' = IF r.taken /\ Here(k) THEN doomed \union {The(k)} ELSE doomed
       /\ IF r.told THEN To(k, "expunge") /\ UNCHANGED conn ELSE GiveUp(k)
  /\ UNCHANGED <<seen, inInbox, archived, gone, caps, rowVars, pass, excused, foreign>>

\* UIDPLUS names the message; a plain EXPUNGE takes whatever is flagged; neither
\* is a conflict, and the copy has been made.
Expunged(k) == IF caps = "uidplus" THEN doomed \intersect {The(k)} ELSE doomed
\* Mutant: the conflict is reported as a success.
ConflictFiles(k) == To(k, "relocate") /\ UNCHANGED conn
Conflict(k)      == GiveUp(k)
Expunge(k) ==
  /\ click[k].pc = "expunge"
  /\ IF caps = "plain" /\ ~click[k].safe
     THEN Conflict(k) /\ UNCHANGED <<inInbox, doomed, gone>>
     ELSE \E r \in Outcomes :
            /\ IF r.taken THEN /\ inInbox' = inInbox \ Expunged(k)
                               /\ doomed' = doomed \ Expunged(k)
                               /\ gone' = gone \union {m \in Expunged(k) \ {The(k)} : archived[m] = 0}
                          ELSE UNCHANGED <<inInbox, doomed, gone>>
            /\ IF r.told THEN To(k, "relocate") /\ UNCHANGED conn ELSE GiveUp(k)
  /\ UNCHANGED <<seen, archived, caps, rowVars, pass, excused, foreign>>

\* MoveMessageLocation: the destination UID is known
\* only with MOVE or UIDPLUS; a source mapping that is gone is a 404.
Relocate(k) ==
  /\ click[k].pc = "relocate"
  /\ conn' = "free"
  /\ \/ /\ filed[The(k)] = "inbox"
        /\ filed' = [filed EXCEPT ![The(k)] = IF caps = "plain" THEN "nowhere" ELSE "archive"]
        /\ To(k, "write")
     \/ click' = [click EXCEPT ![k] = Over] /\ UNCHANGED filed
  /\ UNCHANGED <<remoteVars, isRead, pass, excused, foreign>>

-----------------------------------------------------------------------------
(* The synchronisation of both folders, and the other client. *)

\* FETCH, under the lock until the rows are written.
Fetch ==
  /\ pass.pc = "idle" /\ conn = "free" /\ conn' = "sync"
  /\ pass' = [pc |-> "fetched", seen |-> seen, inbox |-> inInbox,
              archive |-> {m \in Mail : archived[m] > 0}]
  /\ UNCHANGED <<remoteVars, rowVars, click, excused, foreign>>

\* Mutant: a flag the provider has lost is not taken over.
ReadFlagsOnly == isRead' = isRead \union pass.seen
\* ReconcileMailboxFlags.
ReconcileFlags ==
  isRead' = {m \in Mail : IF m \in pass.inbox \union pass.archive THEN m \in pass.seen ELSE m \in isRead}

\* With it DeleteMailboxUIDs, and the ingest of what is new.
Reconcile ==
  /\ pass.pc = "fetched" /\ pass' = NoPass /\ conn' = "free"
  /\ ReconcileFlags
  /\ filed' = [m \in Mail |-> CASE m \in pass.inbox -> "inbox"
                                [] m \in pass.archive \ pass.inbox -> "archive"
                                [] OTHER -> "nowhere"]
  /\ excused' = {m \in excused : Underway(m) \/ (m \in seen) # (m \in pass.seen)}
  /\ UNCHANGED <<remoteVars, click, foreign>>

OtherClient ==
  /\ foreign < MaxForeign /\ foreign' = foreign + 1
  /\ \E m \in inInbox :
       \/ seen' = seen \ {m} /\ excused' = excused \union {m} /\ UNCHANGED <<inInbox, doomed, gone, click>>
       \/ seen' = seen \union {m} /\ UNCHANGED <<excused, inInbox, doomed, gone, click>>
       \/ /\ doomed' = doomed \union {m}
          /\ click' = [k \in Clicks |-> IF click[k].pc \in {"copy", "flag", "expunge"}
                                        THEN [click[k] EXCEPT !.late = @ \union {m}] ELSE click[k]]
          /\ UNCHANGED <<seen, excused, inInbox, gone>>
       \/ /\ inInbox' = inInbox \ {m} /\ doomed' = doomed \ {m}
          /\ gone' = IF archived[m] = 0 THEN gone \union {m} ELSE gone
          /\ UNCHANGED <<seen, excused, click>>
  /\ UNCHANGED <<archived, caps, rowVars, conn, pass>>

MailInit ==
  /\ seen = {} /\ inInbox = Mail /\ doomed = {} /\ gone = {}
  /\ archived = [m \in Mail |-> 0]
  /\ caps \in {"move", "uidplus", "plain"}
  /\ isRead = {} /\ filed = [m \in Mail |-> "inbox"]
  /\ conn = "free"
  /\ click = [k \in Clicks |-> NewClick] /\ pass = NoPass
  /\ excused = {} /\ foreign = 0

Sync == Fetch \/ Reconcile
Step(k) ==
  \/ SetFlags(k) \/ SetSeen(k) \/ GoesOffline(k) \/ Accepted(k) \/ WriteRow(k)
  \/ Locate(k) \/ Move(k) \/ Search(k) \/ Copy(k) \/ FlagDeleted(k) \/ Expunge(k) \/ Relocate(k)

MailNext ==
  \/ \E k \in Clicks : Start(k) \/ Step(k)
  \/ Sync \/ OtherClient

MailSpec == MailInit /\ [][MailNext]_mailVars

-----------------------------------------------------------------------------
(* Properties. *)

\* The types, and the discipline of the command connection's lock.
MailTypeOK ==
  /\ doomed \subseteq inInbox /\ gone \intersect inInbox = {}
  /\ filed \in [Mail -> {"inbox", "archive", "nowhere"}]
  /\ \A k \in Clicks :
       click[k].pc \in {"move", "search", "copy", "flag", "expunge", "relocate"} <=> conn = k
  /\ pass.pc # "idle" <=> conn = "sync"

\* A row reads as read only when the provider was told (service.go:99-102: otherwise it
\* "would otherwise look read here and unread in every other client"), except where
\* another client has changed it, an answer was lost, or two requests overlapped.
ReadHereReadThere ==
  \A m \in isRead \ excused : ~Underway(m) => m \in seen \/ m \notin inInbox

\* Divergence does not last: with the requests made and the other client quiet, the
\* rows end up as the provider has them.
FlagsConverge ==
  <>[](\A m \in inInbox : filed[m] = "inbox" /\ (m \in isRead <=> m \in seen))

\* Archiving loses nothing: a message is in the inbox, in the archive, or was deleted
\* in another client.
NeverLost == \A m \in Mail : m \in inInbox \/ m \in gone \/ archived[m] > 0

\* What is filed here is not left in the inbox there (actions.go:142-146, 170-176).
FiledMeansMoved == \A m \in Mail : filed[m] # "inbox" => m \notin inInbox

\* An archived message is in one place, there and here.
ArchiveIsWhole == NeverLost /\ FiledMeansMoved

\* Another client's pending deletion is only finalised if it was made after the search
\* (actions.go:164-166).
PendingDeletesKept ==
  [][\A k \in Clicks : click[k].pc = "expunge" /\ conn = k /\ inInbox' # inInbox /\ foreign' = foreign
        => inInbox \ inInbox' \subseteq {The(k)} \union click[k].late]_mailVars
=============================================================================
