---------------------------- MODULE AccountLoops ----------------------------
(***************************************************************************)
(* One account's two loops and what starts and stops them: commandLoop and *)
(* idleLoop (internal/provider/imap/loop.go), the classification of their  *)
(* failures (errors.go), StartAccount, StopAccount and the recovery of a   *)
(* panic (supervisor.go), and the handlers that create and delete an       *)
(* account (internal/transport/http/handlers_account.go).                  *)
(*                                                                         *)
(* The passes a session runs are those of MailboxSync; here a pass is its  *)
(* answer. A delay is named by the window it comes from, and a timer may   *)
(* fire at any moment: no property depends on how long a window is, only   *)
(* on which window is waited out.                                          *)
(***************************************************************************)
EXTENDS Naturals

CONSTANTS
  MaxMoods,     \* bound: changes of the provider's mood
  MaxFaults     \* bound: panics, broken sockets, failed deletions, restarts

ASSUME LoopsAssumption == MaxMoods \in Nat /\ MaxFaults \in Nat

VARIABLES
  mood,       \* how the provider answers
  cmd,        \* the command loop: pc, the failure in hand, its verdict
  idle,       \* the IDLE loop: pc, the failure in hand
  sock,       \* the command connection
  probes,     \* probeFailures of the session
  rejections, \* runtime.authFailures
  catalog,    \* whether the mailbox list has been recorded
  reg,        \* the runtime: not registered, live, or unregistered and cancelled
  row,        \* accounts.status, or "none"
  handlers,   \* the create and the delete request under way
  dot,        \* whether the status the web client read last was connected
  news,       \* an ACCOUNT_STATUS event it has not acted on
  strikes,    \* observer: rejections answered since either loop last logged in
  spaced,     \* observer: the command loop waited or did its work since its last login
  causes,     \* observer: why a row may have no loops, or loops no row
  moods, faults  \* bound counters

loopVars  == <<cmd, idle, sock, probes, rejections, catalog>>
userVars  == <<dot, news>>
observers == <<strikes, spaced, causes, moods, faults>>
vars == <<mood, loopVars, reg, row, handlers, userVars, observers>>

maxAuthFailures  == 3
maxProbeFailures == 3
Moods    == {"ok", "offline", "throttling", "refusing", "vague", "revoked"}
Failures == {"network", "throttle", "auth", "vague", "rejected"}
Verdicts == {"none", "ladder", "retry", "throttle", "park"}

\* What the provider (and the token endpoint) answers to a login. A throttling
\* provider may well authenticate and refuse what follows.
LoginAnswers ==
  [ok |-> {"ok"}, offline |-> {"network"}, throttling |-> {"ok", "throttle"},
   refusing |-> {"auth"}, vague |-> {"vague"}, revoked |-> {"rejected"}][mood]

\* What it answers to a command on an authenticated connection.
CommandAnswers ==
  [ok |-> {"ok"}, offline |-> {"network"}, throttling |-> {"throttle"},
   refusing |-> {"ok", "auth"}, vague |-> {"ok"}, revoked |-> {"ok", "auth"}][mood]

\* The same on the command connection: nothing arrives over a broken one.
SessionAnswers == IF sock \in {"dead", "closed"} THEN {"network"} ELSE CommandAnswers

CmdOff  == [pc |-> "off", err |-> "none", v |-> "none"]
IdleOff == [pc |-> "off", err |-> "none"]

\* The command connection is in runtime.client from authSucceeded to closeCommand.
Stored == cmd.pc \in {"opening", "announce", "serving", "closing"}

-----------------------------------------------------------------------------
(* Status, classification and the two ways a loop waits. *)

\* UpdateAccountStatus under the loop's context; a deleted row is not there to update.
SetStatus(s) == row' = IF reg = "live" /\ row # "none" THEN s ELSE row

\* classifyFailure and corroborateAuth: the window, which also fixes the status,
\* whether the text is stored and whether the ladder advances.
Classify(err) ==
  LET believed == rejections + 1 >= maxAuthFailures IN
  CASE err = "rejected" -> "park"
    [] err = "vague"    -> IF believed THEN "park" ELSE "throttle"
    [] err = "auth"     -> IF believed THEN "park" ELSE "retry"
    [] err = "throttle" -> "throttle"
    [] OTHER            -> "ladder"

\* The counters are only ever compared with maxAuthFailures, so they stop there.
Saturating(n) == IF n < maxAuthFailures THEN n + 1 ELSE n
Counted(err)  == IF err \in {"vague", "auth"} THEN Saturating(rejections) ELSE rejections
StatusOf(v)  == IF v = "park" THEN "auth_error" ELSE "backoff"

\* The observer's count of what the provider really answered.
Struck(answer) == strikes' = CASE answer = "ok" -> 0
                               [] answer \in {"auth", "vague"} -> Saturating(strikes)
                               [] OTHER -> strikes

\* Mutant: a loop looks at its context only while it waits.
AtTopBlindly(l, next) == [l EXCEPT !.pc = next]
\* A loop that finds its context done between two attempts returns.
AtTop(l, next) == IF reg = "live" THEN [l EXCEPT !.pc = next] ELSE [l EXCEPT !.pc = "done"]

-----------------------------------------------------------------------------
(* commandLoop. *)

\* Top of the loop: the status is rewritten before anything is known.
CmdTop ==
  /\ cmd.pc = "top"
  /\ cmd' = AtTop(cmd, "login")
  /\ SetStatus("connecting")
  /\ UNCHANGED <<mood, idle, sock, probes, rejections, catalog, reg, handlers, userVars, observers>>

\* connect.
CmdLogin ==
  /\ cmd.pc = "login"
  /\ \E answer \in LoginAnswers :
       /\ cmd' = IF answer = "ok" THEN [cmd EXCEPT !.pc = "authenticated"]
                                  ELSE [cmd EXCEPT !.pc = "failed", !.err = answer]
       /\ sock' = IF answer = "ok" THEN "good" ELSE "none"
       /\ Struck(answer)
  /\ spaced' = FALSE
  /\ UNCHANGED <<mood, idle, probes, rejections, catalog, reg, row, handlers, userVars,
                 causes, moods, faults>>

\* classifyFailure, on the connect path and after a failed opening sync.
CmdFailed ==
  /\ cmd.pc = "failed"
  /\ cmd' = [cmd EXCEPT !.pc = IF sock = "none" THEN "report" ELSE "closing",
                        !.err = "none", !.v = Classify(cmd.err)]
  /\ rejections' = Counted(cmd.err)
  /\ UNCHANGED <<mood, idle, sock, probes, catalog, reg, row, handlers, userVars, observers>>

\* setError: the row, then the event.
CmdReport ==
  /\ cmd.pc = "report"
  /\ cmd' = [cmd EXCEPT !.pc = "waiting"]
  /\ SetStatus(StatusOf(cmd.v))
  /\ news' = TRUE
  /\ UNCHANGED <<mood, idle, sock, probes, rejections, catalog, reg, handlers, dot, observers>>

\* Mutant: an account parked on its credentials is not tried again.
ParkForGood ==
  /\ cmd.pc = "waiting" /\ cmd.v # "park"
  /\ cmd' = AtTop([cmd EXCEPT !.v = "none"], "top")
  /\ spaced' = TRUE
  /\ UNCHANGED <<mood, idle, sock, probes, rejections, catalog, reg, row, handlers, userVars,
                 strikes, causes, moods, faults>>
\* waitBackoff.
CmdWait ==
  /\ cmd.pc = "waiting"
  /\ cmd' = AtTop([cmd EXCEPT !.v = "none"], "top")
  /\ spaced' = TRUE
  /\ UNCHANGED <<mood, idle, sock, probes, rejections, catalog, reg, row, handlers, userVars,
                 strikes, causes, moods, faults>>

\* authSucceeded; the connection becomes runtime.client and runSession begins.
CmdAuthenticated ==
  /\ cmd.pc = "authenticated"
  /\ cmd' = [cmd EXCEPT !.pc = "opening"]
  /\ rejections' = 0
  /\ SetStatus("syncing")
  /\ UNCHANGED <<mood, idle, sock, probes, catalog, reg, handlers, userVars, observers>>

\* refreshMailboxCatalog: any failure, whatever it says, is put on the ladder. It
\* also fails to store under a cancelled context or without the account's row.
CmdCatalogFails ==
  /\ cmd.pc = "opening"
  /\ \/ reg # "live" \/ row = "none"
     \/ \E answer \in SessionAnswers : answer # "ok"
  /\ cmd' = [cmd EXCEPT !.pc = "closing", !.v = "ladder"]
  /\ UNCHANGED <<mood, idle, sock, probes, rejections, catalog, reg, row, handlers, userVars, observers>>

\* The list is recorded; the opening sync succeeds, or fails and is classified.
CmdOpening ==
  /\ cmd.pc = "opening" /\ reg = "live" /\ row # "none" /\ sock \in {"good", "stale"}
  /\ catalog' = TRUE
  /\ \E answer \in SessionAnswers :
       /\ cmd' = IF answer = "ok" THEN [cmd EXCEPT !.pc = "announce"]
                                  ELSE [cmd EXCEPT !.pc = "failed", !.err = answer]
       /\ strikes' = IF answer = "auth" THEN Saturating(strikes) ELSE strikes
  /\ UNCHANGED <<mood, idle, sock, probes, rejections, reg, row, handlers, userVars,
                 spaced, causes, moods, faults>>

\* Mutant: the status is written without the event.
AnnounceQuietly ==
  /\ cmd.pc = "announce"
  /\ cmd' = [cmd EXCEPT !.pc = "serving"]
  /\ SetStatus("connected")
  /\ spaced' = TRUE
  /\ UNCHANGED <<mood, idle, sock, probes, rejections, catalog, reg, handlers, userVars,
                 strikes, causes, moods, faults>>
\* The account is declared connected and serveConnected begins.
CmdAnnounce ==
  /\ cmd.pc = "announce"
  /\ cmd' = [cmd EXCEPT !.pc = "serving"]
  /\ SetStatus("connected")
  /\ news' = TRUE
  /\ spaced' = TRUE
  /\ UNCHANGED <<mood, idle, sock, probes, rejections, catalog, reg, handlers, dot,
                 strikes, causes, moods, faults>>

\* runProbe: one failure is tolerated, a throttle or the third in a row is not.
CmdProbe ==
  /\ cmd.pc = "serving"
  /\ \E answer \in SessionAnswers :
       /\ probes' = IF answer = "ok" THEN 0 ELSE probes + 1
       /\ cmd' = IF answer = "throttle" \/ probes' >= maxProbeFailures
                 THEN [cmd EXCEPT !.pc = "closing"] ELSE cmd
  /\ UNCHANGED <<mood, idle, sock, rejections, catalog, reg, row, handlers, userVars, observers>>

\* serviceSyncRequest and periodicSync end the session on any error.
CmdSyncFails ==
  /\ cmd.pc = "serving"
  /\ \E answer \in SessionAnswers : answer # "ok"
  /\ cmd' = [cmd EXCEPT !.pc = "closing"]
  /\ UNCHANGED <<mood, idle, sock, probes, rejections, catalog, reg, row, handlers, userVars, observers>>

\* Mutant: no scheduled rebuild.
EndWhenClosed ==
  /\ cmd.pc = "serving" /\ (reg # "live" \/ sock = "closed")
  /\ cmd' = [cmd EXCEPT !.pc = "closing"]
  /\ UNCHANGED <<mood, idle, sock, probes, rejections, catalog, reg, row, handlers, userVars, observers>>
\* The scheduled rebuild, and the connection or the context ending.
CmdEnd ==
  /\ cmd.pc = "serving"
  /\ cmd' = [cmd EXCEPT !.pc = "closing"]
  /\ UNCHANGED <<mood, idle, sock, probes, rejections, catalog, reg, row, handlers, userVars, observers>>

\* Mutant: a session that failed before it was usable reconnects at once.
CloseAndRetry ==
  /\ cmd.pc = "closing"
  /\ cmd' = AtTop([cmd EXCEPT !.v = "none"], "top")
  /\ sock' = "none" /\ probes' = 0
  /\ UNCHANGED <<mood, idle, rejections, catalog, reg, row, handlers, userVars, observers>>
\* closeCommand; a session that got as far as serving is not a failure.
CmdClose ==
  /\ cmd.pc = "closing"
  /\ cmd' = IF cmd.v = "none" THEN AtTop(cmd, "top")
                              ELSE [cmd EXCEPT !.pc = "report"]
  /\ sock' = "none" /\ probes' = 0
  /\ UNCHANGED <<mood, idle, rejections, catalog, reg, row, handlers, userVars, observers>>

-----------------------------------------------------------------------------
(* idleLoop. *)

IdleOnly == UNCHANGED <<mood, cmd, sock, probes, catalog, reg, row, handlers, userVars, causes, moods, faults>>

IdleLogin ==
  /\ idle.pc = "login"
  /\ \E answer \in LoginAnswers :
       /\ idle' = IF answer = "ok" THEN [idle EXCEPT !.pc = "authenticated"]
                                   ELSE [idle EXCEPT !.pc = "failed", !.err = answer]
       /\ Struck(answer)
  /\ IdleOnly /\ UNCHANGED <<rejections, spaced>>

\* Mutant: only the command loop's login clears the count.
IdleAuthenticatedQuietly ==
  /\ idle.pc = "authenticated"
  /\ idle' = [idle EXCEPT !.pc = "inbox"]
  /\ IdleOnly /\ UNCHANGED <<rejections, strikes, spaced>>
IdleAuthenticated ==
  /\ idle.pc = "authenticated"
  /\ idle' = [idle EXCEPT !.pc = "inbox"]
  /\ rejections' = 0
  /\ IdleOnly /\ UNCHANGED <<strikes, spaced>>

\* GetMailboxByRole: without a catalogue the connection is closed and the loop
\* starts over after 500 ms, outside retry.
IdleInbox ==
  /\ idle.pc = "inbox"
  /\ idle' = AtTop(idle, IF catalog THEN "select" ELSE "login")
  /\ IdleOnly /\ UNCHANGED <<rejections, strikes, spaced>>

\* SELECT and IDLE, or pollWithoutIdle for a server that has no IDLE: each failure
\* goes through retry.
IdleSelect ==
  /\ idle.pc = "select"
  /\ \E answer \in CommandAnswers :
       /\ \/ answer # "ok" /\ idle' = [idle EXCEPT !.pc = "failed", !.err = answer]
          \/ answer = "ok" /\ idle' = [idle EXCEPT !.pc = "idling"]
       /\ strikes' = IF answer = "auth" THEN Saturating(strikes) ELSE strikes
  /\ IdleOnly /\ UNCHANGED <<rejections, spaced>>

\* The refresh, the recheck, a closed connection or a cancelled context.
IdleEnd ==
  /\ idle.pc = "idling"
  /\ idle' = AtTop(idle, "login")
  /\ IdleOnly /\ UNCHANGED <<rejections, strikes, spaced>>

\* retry: close, classify for the delay alone, wait.
IdleFailed ==
  /\ idle.pc = "failed"
  /\ idle' = [idle EXCEPT !.pc = "waiting", !.err = "none"]
  /\ rejections' = Counted(idle.err)
  /\ IdleOnly /\ UNCHANGED <<strikes, spaced>>

IdleWait ==
  /\ idle.pc = "waiting"
  /\ idle' = AtTop(idle, "login")
  /\ IdleOnly /\ UNCHANGED <<rejections, strikes, spaced>>

-----------------------------------------------------------------------------
(* Starting, stopping, panics. *)

\* StartAccount: one runtime and two loops, unless the account is registered.
StartAccount ==
  IF reg = "none" THEN reg' = "live" /\ cmd' = [CmdOff EXCEPT !.pc = "top"]
                                      /\ idle' = [IdleOff EXCEPT !.pc = "login"]
                  ELSE UNCHANGED <<reg, cmd, idle>>

\* StopAccount: unregister, cancel, close what runtime.client holds. It waits for nothing.
StopAccount ==
  /\ reg' = IF reg = "live" THEN "stopped" ELSE reg
  /\ sock' = IF reg = "live" /\ Stored THEN "closed" ELSE sock

\* Mutant: commandLoop without its deferred close.
PanicLeavesSocket ==
  /\ cmd.pc \in {"login", "opening", "serving"} /\ faults < MaxFaults
  /\ faults' = faults + 1
  /\ cmd' = [cmd EXCEPT !.pc = "panicked", !.v = "none"]
  /\ UNCHANGED <<mood, idle, sock, probes, rejections, catalog, reg, row, handlers, userVars,
                 strikes, spaced, causes, moods>>
\* A panic where a loop walks responses or rows: the deferred close of commandLoop, then the recovery ...
CmdPanics ==
  /\ cmd.pc \in {"login", "opening", "serving"} /\ faults < MaxFaults
  /\ faults' = faults + 1
  /\ cmd' = [cmd EXCEPT !.pc = "panicked", !.v = "none"]
  /\ sock' = "none" /\ probes' = 0
  /\ UNCHANGED <<mood, idle, rejections, catalog, reg, row, handlers, userVars,
                 strikes, spaced, causes, moods>>

IdlePanics ==
  /\ idle.pc \in {"login", "inbox", "select", "idling"} /\ faults < MaxFaults
  /\ faults' = faults + 1
  /\ idle' = [idle EXCEPT !.pc = "panicked"]
  /\ UNCHANGED <<mood, cmd, sock, probes, rejections, catalog, reg, row, handlers, userVars,
                 strikes, spaced, causes, moods>>

\* ... which writes error under a context of its own and publishes it ...
PanicReport ==
  /\ \/ cmd.pc = "panicked"  /\ cmd'  = [cmd EXCEPT !.pc = "parking"]  /\ UNCHANGED idle
     \/ idle.pc = "panicked" /\ idle' = [idle EXCEPT !.pc = "parking"] /\ UNCHANGED cmd
  /\ row' = IF row = "none" THEN row ELSE "error"
  /\ news' = TRUE
  /\ causes' = causes \cup {"panicked"}
  /\ UNCHANGED <<mood, sock, probes, rejections, catalog, reg, handlers, dot,
                 strikes, spaced, moods, faults>>

\* Mutant: the sibling is left running.
PanicStopsItself ==
  /\ \/ cmd.pc = "parking"  /\ cmd'  = [cmd EXCEPT !.pc = "done"]  /\ UNCHANGED idle
     \/ idle.pc = "parking" /\ idle' = [idle EXCEPT !.pc = "done"] /\ UNCHANGED cmd
  /\ UNCHANGED <<mood, sock, reg, probes, rejections, catalog, row, handlers, userVars, observers>>
\* ... and only then stops the sibling.
PanicStop ==
  /\ \/ cmd.pc = "parking"  /\ cmd'  = [cmd EXCEPT !.pc = "done"]  /\ UNCHANGED idle
     \/ idle.pc = "parking" /\ idle' = [idle EXCEPT !.pc = "done"] /\ UNCHANGED cmd
  /\ StopAccount
  /\ UNCHANGED <<mood, probes, rejections, catalog, row, handlers, userVars, observers>>

\* createAccount and the OAuth handlers: insert the row, then start the loops.
CreateRow ==
  /\ row = "none" /\ reg = "none" /\ handlers.create = "idle"
  /\ row' = "disconnected"
  /\ handlers' = [handlers EXCEPT !.create = "inserted"]
  /\ UNCHANGED <<mood, loopVars, reg, userVars, observers>>

CreateStarts ==
  /\ handlers.create = "inserted"
  /\ handlers' = [handlers EXCEPT !.create = "idle"]
  /\ StartAccount
  /\ UNCHANGED <<mood, sock, probes, rejections, catalog, row, userVars, observers>>

\* deleteAccount: loops first, rows second.
DeleteStops ==
  /\ row # "none" /\ handlers.delete = "idle"
  /\ handlers' = [handlers EXCEPT !.delete = "stopped"]
  /\ StopAccount
  /\ UNCHANGED <<mood, cmd, idle, probes, rejections, catalog, row, userVars, observers>>

DeleteRow ==
  /\ handlers.delete = "stopped"
  /\ handlers' = [handlers EXCEPT !.delete = "idle"]
  /\ row' = "none" /\ catalog' = FALSE
  /\ causes' = IF handlers.create = "inserted" \/ reg = "live"
               THEN causes \cup {"overtaken"} ELSE causes
  /\ UNCHANGED <<mood, cmd, idle, sock, probes, rejections, reg, userVars,
                 strikes, spaced, moods, faults>>

DeleteFails ==
  /\ handlers.delete = "stopped" /\ faults < MaxFaults
  /\ faults' = faults + 1
  /\ handlers' = [handlers EXCEPT !.delete = "idle"]
  /\ causes' = causes \cup {"deleteFailed"}
  /\ UNCHANGED <<mood, loopVars, reg, row, userVars, strikes, spaced, moods>>

\* Supervisor.Stop, which cancels every runtime and waits for the loops.
Stop ==
  /\ reg = "live" /\ faults < MaxFaults
  /\ faults' = faults + 1
  /\ StopAccount
  /\ causes' = causes \cup {"shutdown"}
  /\ UNCHANGED <<mood, cmd, idle, probes, rejections, catalog, row, handlers, userVars,
                 strikes, spaced, moods>>

\* The process ends, however it does, and Start starts every account with a row.
Restart ==
  /\ faults < MaxFaults
  /\ faults' = faults + 1
  /\ reg' = IF row = "none" THEN "none" ELSE "live"
  /\ cmd'  = [CmdOff EXCEPT !.pc = IF row = "none" THEN "off" ELSE "top"]
  /\ idle' = [IdleOff EXCEPT !.pc = IF row = "none" THEN "off" ELSE "login"]
  /\ sock' = "none" /\ probes' = 0 /\ rejections' = 0
  /\ handlers' = [create |-> "idle", delete |-> "idle"]
  /\ news' = TRUE
  /\ strikes' = 0 /\ spaced' = TRUE /\ causes' = {}
  /\ UNCHANGED <<mood, catalog, row, dot, moods>>

-----------------------------------------------------------------------------
(* The provider and the web client. *)

MoodChanges ==
  /\ moods < MaxMoods
  /\ moods' = moods + 1
  /\ mood' \in Moods \ {mood}
  /\ UNCHANGED <<loopVars, reg, row, handlers, userVars, strikes, spaced, causes, faults>>

\* A socket that dies without being closed, or that stops reporting new mail.
SocketFails ==
  /\ sock = "good" /\ faults < MaxFaults
  /\ faults' = faults + 1
  /\ sock' \in {"dead", "stale"}
  /\ UNCHANGED <<mood, cmd, idle, probes, rejections, catalog, reg, row, handlers, userVars,
                 strikes, spaced, causes, moods>>

\* The web client reads the account list again on an ACCOUNT_STATUS event.
Reread ==
  /\ news
  /\ news' = FALSE
  /\ dot' = (row = "connected")
  /\ UNCHANGED <<mood, loopVars, reg, row, handlers, observers>>

Init ==
  /\ mood \in Moods
  /\ row \in {"none", "connected"}
  /\ reg = (IF row = "none" THEN "none" ELSE "live")
  /\ cmd  = [CmdOff EXCEPT !.pc = IF row = "none" THEN "off" ELSE "top"]
  /\ idle = [IdleOff EXCEPT !.pc = IF row = "none" THEN "off" ELSE "login"]
  /\ sock = "none" /\ probes = 0 /\ rejections = 0 /\ catalog = (row = "connected")
  /\ handlers = [create |-> "idle", delete |-> "idle"]
  /\ dot = (row = "connected") /\ news = FALSE
  /\ strikes = 0 /\ spaced = TRUE /\ causes = {}
  /\ moods = 0 /\ faults = 0

CmdStep == \/ CmdTop \/ CmdLogin \/ CmdFailed \/ CmdReport \/ CmdWait \/ CmdAuthenticated
           \/ CmdCatalogFails \/ CmdOpening \/ CmdAnnounce \/ CmdClose
IdleStep == \/ IdleLogin \/ IdleAuthenticated \/ IdleInbox \/ IdleSelect
            \/ IdleFailed \/ IdleWait
RecoverStep == PanicReport \/ PanicStop

Next ==
  \/ CmdStep \/ CmdProbe \/ CmdSyncFails \/ CmdEnd \/ IdleStep \/ IdleEnd
  \/ CmdPanics \/ IdlePanics \/ RecoverStep
  \/ CreateRow \/ CreateStarts \/ DeleteStops \/ DeleteRow \/ DeleteFails
  \/ Stop \/ Restart \/ MoodChanges \/ SocketFails \/ Reread

Spec == Init /\ [][Next]_vars

\* The goroutines run, their timers (the session's rebuild among them) fire, and the
\* web client reads the list well within the ten minutes a healthy session lasts.
Fairness ==
  /\ WF_vars(CmdStep) /\ WF_vars(CmdProbe) /\ WF_vars(CmdEnd)
  /\ WF_vars(IdleStep) /\ WF_vars(IdleEnd) /\ WF_vars(RecoverStep)
  /\ SF_vars(Reread /\ row = "connected")

FairSpec == Spec /\ Fairness

-----------------------------------------------------------------------------
(* Properties. *)

Errs    == Failures \cup {"none"}
Ends    == {"off", "login", "authenticated", "failed", "waiting", "panicked", "parking", "done"}
CmdPcs  == Ends \cup {"top", "report", "opening", "announce", "serving", "closing"}
IdlePcs == Ends \cup {"inbox", "select", "idling"}

TypeOK ==
  /\ mood \in Moods /\ cmd \in [pc : CmdPcs, err : Errs, v : Verdicts]
  /\ idle \in [pc : IdlePcs, err : Errs]
  /\ sock \in {"none", "good", "dead", "stale", "closed"}
  /\ probes \in 0 .. maxProbeFailures /\ rejections \in 0 .. maxAuthFailures /\ catalog \in BOOLEAN
  /\ reg \in {"none", "live", "stopped"}
  /\ row \in {"none", "disconnected", "connecting", "syncing", "connected", "backoff",
              "auth_error", "error"}
  /\ handlers \in [create : {"idle", "inserted"}, delete : {"idle", "stopped"}]
  /\ news \in BOOLEAN /\ dot \in BOOLEAN /\ strikes \in 0 .. maxAuthFailures /\ spaced \in BOOLEAN
  /\ causes \subseteq {"panicked", "overtaken", "deleteFailed", "shutdown"}
  \* a connection is only there while the loop that made it holds it
  /\ sock # "none" => Stored \/ cmd.pc \in {"authenticated", "failed"}

\* A rejection is believed (errors.go, classifyFailure) only when the token endpoint
\* gave it or when both loops together have met maxAuthFailures rejections with no
\* login in between. Two loops and one counter leave a margin of one: a rejection
\* answered before the other loop's login may be counted after it, and a login the
\* other loop has not recorded yet does not reset anything.
ParkedOnEvidence ==
  [][/\ (cmd.v # "park" /\ cmd'.v = "park" /\ cmd.err # "rejected") =>
          strikes >= maxAuthFailures - 1 \/ idle.pc = "authenticated"
     /\ (idle.pc = "failed" /\ idle'.pc = "waiting" /\ idle.err # "rejected"
           /\ Classify(idle.err) = "park") =>
          strikes >= maxAuthFailures - 1 \/ cmd.pc = "authenticated"]_vars

\* Loops and row belong together (deleteAccount stops the loops first, and both of a
\* live runtime's loops run): a live runtime has a row unless a deletion overtook
\* the creation's StartAccount, and a row has a live runtime unless a panic parked
\* it, its deletion is under way or failed half-way, or the process is stopping.
LoopsMatchRow ==
  /\ reg = "live" =>
       /\ row # "none" \/ "overtaken" \in causes
       /\ cmd.pc \notin {"off", "done"} /\ idle.pc \notin {"off", "done"}
  /\ row # "none" /\ reg # "live" =>
       \/ handlers.create = "inserted" \/ handlers.delete = "stopped"
       \/ causes \cap {"panicked", "deleteFailed", "shutdown"} # {}

\* The command loop never logs in twice without a wait or a working session in
\* between (loop.go, runSession: "a tight reconnect loop against the provider").
CommandLoginsSpaced == cmd.pc = "login" => spaced

Healthy == mood = "ok" /\ reg = "live" /\ row # "none"

\* Whatever the provider did before, parking included: once it stays well, the account
\* is connected again and again, over a socket that works (one that died unclosed or went
\* silent is replaced), and the web client sees it (the event follows the status).
Recovers == <>[]Healthy => []<>(row = "connected" /\ sock = "good" /\ dot)

\* A cancelled runtime's loops end by themselves and leave no socket behind
\* (StopAccount waits for nothing; Supervisor.Stop waits for exactly this), unless
\* the process goes first.
Ended    == cmd.pc \in {"done", "off"} /\ idle.pc \in {"done", "off"} /\ sock = "none"
StopEnds == reg = "stopped" ~> (Ended \/ reg # "stopped")
=============================================================================
