----------------------------- MODULE OAuthTokens -----------------------------
(***************************************************************************)
(* Access tokens of one OAuth account: AccessToken and its per-account     *)
(* entry (internal/provider/oauth/manager.go), the reseal of a rotated     *)
(* refresh token (internal/service/account/service.go), and the three      *)
(* callers: the two loops, which authenticate from the account they were   *)
(* started with, and the send worker, which reads the row each time.       *)
(*                                                                         *)
(* Refresh tokens are numbered in the order the provider issues them.      *)
(* Deleting the account is part of AccountLoops, not of this module.       *)
(***************************************************************************)
EXTENDS Naturals, FiniteSets

CONSTANTS
  Loops,      \* the command and the idle loop
  Senders,    \* deliveries of the send worker
  MaxIssued   \* bound: refresh tokens ever issued

ASSUME TokenAssumption == MaxIssued \in Nat \ {0} /\ "free" \notin Loops \union Senders

VARIABLES
  policy,     \* provider: keeps the refresh token, rotates it, or rotates and revokes the old one
  issued,     \* provider: the newest refresh token
  secret,     \* accounts.secret_ciphertext
  captured,   \* rt.account: the secret as it was when the loops started
  token,      \* the cached access token
  entryMu,    \* holder of the entry's mutex
  call,       \* AccessToken calls: step, refresh token in hand
  lost        \* observer: a rotated token never reached the row

tokenVars == <<policy, issued, secret, captured, token, entryMu, call, lost>>

Callers == Loops \union Senders
NoToken == [pc |-> "idle", has |-> 0]
Rotates == policy # "keeps"
Accepts(t) == policy # "revokes" \/ t = issued
ReturnToken(c) == call' = [call EXCEPT ![c] = NoToken] /\ entryMu' = "free"

-----------------------------------------------------------------------------
(* Callers. *)

\* connect opens the sealed secret of rt.account; deliver opens the row's.
Ask(c) ==
  /\ call[c].pc = "idle"
  /\ call' = [call EXCEPT ![c] = [pc |-> "wait", has |-> IF c \in Loops THEN captured ELSE secret]]
  /\ UNCHANGED <<policy, issued, secret, captured, token, entryMu, lost>>

\* Mutant: the cached token is looked at before the mutex, and a refresh begins without a second look.
EnterUnchecked(c) ==
  /\ call[c].pc = "wait" /\ entryMu = "free"
  /\ call' = [call EXCEPT ![c].pc = "refresh"] /\ entryMu' = c
  /\ UNCHANGED <<policy, issued, secret, captured, token, lost>>
\* Under the mutex, a token with a minute left is the answer.
Enter(c) ==
  /\ call[c].pc = "wait" /\ entryMu = "free"
  /\ IF token = "fresh" THEN ReturnToken(c)
     ELSE call' = [call EXCEPT ![c].pc = "refresh"] /\ entryMu' = c
  /\ UNCHANGED <<policy, issued, secret, captured, token, lost>>

\* Mutant: the mutex is released as soon as the access token is there.
RefreshUnlocks(c) ==
  /\ call[c].pc = "refresh" /\ Accepts(call[c].has)
  /\ token' = "fresh" /\ entryMu' = "free"
  /\ IF Rotates
     THEN /\ issued < MaxIssued /\ issued' = issued + 1
          /\ call' = [call EXCEPT ![c] = [pc |-> "persist", has |-> issued']]
     ELSE call' = [call EXCEPT ![c] = NoToken] /\ UNCHANGED issued
  /\ UNCHANGED <<policy, secret, captured, lost>>
\* The provider answers, with another refresh token if it rotates them.
Refresh(c) ==
  /\ call[c].pc = "refresh" /\ Accepts(call[c].has)
  /\ token' = "fresh"
  /\ IF Rotates
     THEN /\ issued < MaxIssued /\ issued' = issued + 1
          /\ call' = [call EXCEPT ![c] = [pc |-> "persist", has |-> issued']]
          /\ UNCHANGED entryMu
     ELSE ReturnToken(c) /\ UNCHANGED issued
  /\ UNCHANGED <<policy, secret, captured, lost>>

\* No token: the grant is refused, the endpoint fails, or the answer is lost or lacks the mail
\* scope, which is looked at before the rotated token is kept.
RefreshFails(c) ==
  /\ call[c].pc = "refresh" /\ ReturnToken(c)
  /\ \/ UNCHANGED <<issued, lost>>
     \/ /\ Rotates /\ Accepts(call[c].has) /\ issued < MaxIssued
        /\ issued' = issued + 1 /\ lost' = TRUE
  /\ UNCHANGED <<policy, secret, captured, token>>

\* Mutant: the mutex is not released when the token cannot be stored.
PersistKeepsLock(c) ==
  /\ call[c].pc = "persist"
  /\ \/ secret' = call[c].has /\ ReturnToken(c) /\ UNCHANGED lost
     \/ lost' = TRUE /\ call' = [call EXCEPT ![c] = NoToken] /\ UNCHANGED <<secret, entryMu>>
  /\ UNCHANGED <<policy, issued, captured, token>>
\* UpdateRefreshToken; a failure is logged and the access token is used.
Persist(c) ==
  /\ call[c].pc = "persist" /\ ReturnToken(c)
  /\ \/ secret' = call[c].has /\ UNCHANGED lost
     \/ lost' = TRUE /\ UNCHANGED secret
  /\ UNCHANGED <<policy, issued, captured, token>>

Expires ==
  /\ token = "fresh" /\ token' = "expired"
  /\ UNCHANGED <<policy, issued, secret, captured, entryMu, call, lost>>

\* The process ends, in the middle of a refresh perhaps, and the loops start from the row.
RestartLoops ==
  /\ captured' = secret /\ token' = "none" /\ entryMu' = "free"
  /\ call' = [c \in Callers |-> NoToken]
  /\ lost' = (lost \/ \E c \in Callers : call[c].pc = "persist")
  /\ UNCHANGED <<policy, issued, secret>>

-----------------------------------------------------------------------------
TokenInit ==
  /\ policy \in {"keeps", "rotates", "revokes"} /\ issued = 1 /\ secret = 1 /\ captured = 1
  /\ token = "none" /\ entryMu = "free" /\ call = [c \in Callers |-> NoToken] /\ lost = FALSE

TokenNext ==
  \/ Expires \/ RestartLoops
  \/ \E c \in Callers : Ask(c) \/ Enter(c) \/ Refresh(c) \/ RefreshFails(c) \/ Persist(c)

TokenSpec == TokenInit /\ [][TokenNext]_tokenVars

-----------------------------------------------------------------------------
(* Properties. *)

\* Types, and: the mutex is held exactly by the call that refreshes or persists.
TokenTypeOK ==
  /\ issued \in 1..MaxIssued /\ secret \in 1..issued /\ captured \in 1..issued
  /\ token \in {"none", "fresh", "expired"} /\ lost \in BOOLEAN
  /\ call \in [Callers -> [pc : {"idle", "wait", "refresh", "persist"}, has : 0..issued]]
  /\ {c \in Callers : call[c].pc \in {"refresh", "persist"}} = {entryMu} \ {"free"}

\* The row holds the newest refresh token, however refreshes of the two loops and of deliveries
\* fall, unless one was lost on its way (AccessToken: "Persisted under entry.mu so the write
\* cannot interleave with another refresh for the same account and store the older of the two").
RowHoldsNewest ==
  ~lost /\ (\A c \in Callers : call[c].pc # "persist") => secret = issued

\* Callers that find the token expired together refresh it once: nobody asks the provider while
\* a usable token is cached (a second refresh would present a superseded refresh token).
RefreshedOnce == \A c \in Callers : call[c].pc = "refresh" => token # "fresh"

\* What the entry's mutex is for.
NewestTokenKept == RowHoldsNewest /\ RefreshedOnce

\* Refuted: a loop presents the refresh token the row holds ("without this the app keeps
\* presenting a superseded token").
LoopsPresentNewest == ~lost => \A c \in Loops : call[c].pc = "refresh" => call[c].has = issued
=============================================================================
