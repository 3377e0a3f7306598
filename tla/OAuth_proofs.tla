---------------------------- MODULE OAuth_proofs ----------------------------
(***************************************************************************)
(* Proofs about OAuthTokens and OAuthSetup: for any callers and any number *)
(* of issued tokens, any authorization states, requests and credentials.   *)
(***************************************************************************)
EXTENDS OAuthTokens, OAuthSetup, TLAPS

-----------------------------------------------------------------------------
(* Access tokens.  The mutex makes the call that refreshes or persists     *)
(* unique; what it has in hand is then the newest token, and nobody else   *)
(* can have put a fresh one into the cache.                                *)

\* Types, and the mutex as each call sees it.
TokenTypes ==
  /\ issued \in 1..MaxIssued /\ secret \in 1..issued /\ captured \in 1..issued
  /\ token \in {"none", "fresh", "expired"} /\ lost \in BOOLEAN
  /\ call \in [Callers -> [pc : {"idle", "wait", "refresh", "persist"}, has : 0..issued]]
  /\ entryMu \in Callers \union {"free"}

Inside(c) == call[c].pc \in {"refresh", "persist"}
MutexInv == \A c \in Callers : Inside(c) <=> entryMu = c

\* Inside the mutex a call knows the cache is not fresh, or has the newest token in hand; outside
\* it the row has it.
InHandInv ==
  /\ \A c \in Callers :
       /\ call[c].pc = "refresh" => token # "fresh"
       /\ call[c].pc = "persist" => call[c].has = issued
  /\ ~lost /\ (\A c \in Callers : call[c].pc # "persist") => secret = issued

TokenInv == TokenTypes /\ MutexInv /\ InHandInv

LEMMA TokenInitial == TokenInit => TokenInv
<1> SUFFICES ASSUME TokenInit PROVE TokenInv
  OBVIOUS
<1>1. NoToken \in [pc : {"idle", "wait", "refresh", "persist"}, has : 0..1] /\ NoToken.pc = "idle"
  BY DEF NoToken
<1>2. TokenTypes
  <2>1. issued \in 1..MaxIssued /\ secret \in 1..issued /\ captured \in 1..issued
    BY TokenAssumption DEF TokenInit
  <2>2. call \in [Callers -> [pc : {"idle", "wait", "refresh", "persist"}, has : 0..issued]]
    BY <1>1 DEF TokenInit
  <2> QED
    BY <2>1, <2>2 DEF TokenInit, TokenTypes
<1>3. \A c \in Callers : call[c].pc = "idle" /\ entryMu # c
  BY <1>1, TokenAssumption DEF TokenInit, Callers
<1> QED
  BY <1>2, <1>3 DEF TokenInit, TokenInv, MutexInv, InHandInv, Inside

\* The record of a call, field by field.
LEMMA CallFields ==
  ASSUME TokenTypes, NEW c \in Callers
  PROVE  /\ call[c] \in [pc : {"idle", "wait", "refresh", "persist"}, has : 0..issued]
         /\ call[c].pc \in {"idle", "wait", "refresh", "persist"}
         /\ call[c].has \in 0..issued
BY DEF TokenTypes

\* A call that returns leaves the mutex free and the others as they were.
LEMMA Returns ==
  ASSUME TokenTypes, MutexInv, NEW c \in Callers, Inside(c) \/ entryMu = "free", ReturnToken(c)
  PROVE  /\ call' \in [Callers -> [pc : {"idle", "wait", "refresh", "persist"}, has : 0..issued]]
         /\ \A d \in Callers : call'[d].pc \notin {"refresh", "persist"}
         /\ entryMu' = "free" /\ MutexInv'
<1>1. \A d \in Callers : call'[d] = IF d = c THEN NoToken ELSE call[d]
  BY DEF ReturnToken, TokenTypes
<1>2. \A d \in Callers \ {c} : ~ Inside(d)
  BY TokenAssumption DEF MutexInv, Callers
<1> QED
  BY <1>1, <1>2, TokenAssumption DEF ReturnToken, TokenTypes, MutexInv, Inside, NoToken, Callers

LEMMA TokenStep == TokenInv /\ [TokenNext]_tokenVars => TokenInv'
<1> SUFFICES ASSUME TokenInv, [TokenNext]_tokenVars PROVE TokenInv'
  OBVIOUS
<1> USE TokenAssumption DEF TokenInv
<1>1. CASE Expires
  BY <1>1 DEF Expires, TokenTypes, MutexInv, InHandInv, Inside
<1>2. CASE RestartLoops
  <2>1. NoToken \in [pc : {"idle", "wait", "refresh", "persist"}, has : 0..issued] /\ NoToken.pc = "idle"
    BY DEF NoToken, TokenTypes
  <2>2. TokenTypes'
    BY <1>2, <2>1 DEF RestartLoops, TokenTypes
  <2>3. \A c \in Callers : call'[c].pc = "idle" /\ entryMu' # c
    BY <1>2, <2>1 DEF RestartLoops, Callers
  <2>4. ~lost' => \A c \in Callers : call[c].pc # "persist"
    BY <1>2 DEF RestartLoops
  <2>5. ~lost' => secret = issued
    BY <1>2, <2>4 DEF RestartLoops, InHandInv, TokenTypes
  <2> QED
    BY <1>2, <2>2, <2>3, <2>5 DEF RestartLoops, MutexInv, InHandInv, Inside
<1>3. ASSUME NEW c \in Callers, Ask(c) PROVE TokenInv'
  <2>1. TokenTypes'
    BY <1>3 DEF Ask, TokenTypes
  <2>2. \A d \in Callers : call'[d] = IF d = c THEN call'[c] ELSE call[d]
    BY <1>3 DEF Ask, TokenTypes
  <2>3. call'[c].pc = "wait"
    BY <1>3 DEF Ask, TokenTypes
  <2> QED
    BY <1>3, <2>1, <2>2, <2>3 DEF Ask, MutexInv, InHandInv, Inside
<1>4. ASSUME NEW c \in Callers, Enter(c) PROVE TokenInv'
  <2>1. CASE token = "fresh"
    <3>1. entryMu = "free" /\ \A d \in Callers : ~ Inside(d)
      BY <1>4 DEF Enter, MutexInv, Callers
    <3>2. /\ \A d \in Callers : call'[d].pc \notin {"refresh", "persist"}
          /\ entryMu' = "free" /\ MutexInv'
          /\ call' \in [Callers -> [pc : {"idle", "wait", "refresh", "persist"}, has : 0..issued]]
      BY <1>4, <2>1, <3>1, Returns DEF Enter
    <3> QED
      BY <1>4, <3>1, <3>2 DEF Enter, TokenTypes, InHandInv, Inside
  <2>2. CASE token # "fresh"
    <3>1. call' = [call EXCEPT ![c].pc = "refresh"] /\ entryMu' = c /\ entryMu = "free"
      BY <1>4, <2>2 DEF Enter
    <3>2. \A d \in Callers : call'[d].pc = IF d = c THEN "refresh" ELSE call[d].pc
      BY <3>1, CallFields DEF TokenTypes
    <3>3. TokenTypes'
      BY <1>4, <3>1, CallFields DEF Enter, TokenTypes
    <3>4. \A d \in Callers \ {c} : ~ Inside(d)
      BY <3>1 DEF MutexInv, Callers
    <3> QED
      BY <1>4, <2>2, <3>1, <3>2, <3>3, <3>4 DEF Enter, MutexInv, InHandInv, Inside
  <2> QED
    BY <2>1, <2>2
<1>5. ASSUME NEW c \in Callers, Refresh(c) PROVE TokenInv'
  <2>1. Inside(c) /\ entryMu = c /\ \A d \in Callers \ {c} : ~ Inside(d)
    BY <1>5 DEF Refresh, MutexInv, Inside
  <2>2. CASE Rotates
    <3>1. call' = [call EXCEPT ![c] = [pc |-> "persist", has |-> issued']] /\ entryMu' = entryMu
          /\ issued' = issued + 1 /\ issued < MaxIssued
      BY <1>5, <2>2 DEF Refresh
    <3>2. \A d \in Callers : call'[d] = IF d = c THEN [pc |-> "persist", has |-> issued'] ELSE call[d]
      BY <3>1 DEF TokenTypes
    <3>3. TokenTypes'
      BY <1>5, <3>1, CallFields DEF Refresh, TokenTypes
    <3> QED
      BY <1>5, <2>1, <3>1, <3>2, <3>3 DEF Refresh, MutexInv, InHandInv, Inside
  <2>3. CASE ~ Rotates
    BY <1>5, <2>1, <2>3, Returns DEF Refresh, TokenTypes, InHandInv, Inside
  <2> QED
    BY <2>2, <2>3
<1>6. ASSUME NEW c \in Callers, RefreshFails(c) PROVE TokenInv'
  <2>1. Inside(c) /\ \A d \in Callers : call[d].pc # "persist"
    BY <1>6 DEF RefreshFails, MutexInv, Inside
  <2>2. /\ \A d \in Callers : call'[d].pc \notin {"refresh", "persist"}
        /\ entryMu' = "free" /\ MutexInv'
        /\ call' \in [Callers -> [pc : {"idle", "wait", "refresh", "persist"}, has : 0..issued]]
    BY <1>6, <2>1, Returns DEF RefreshFails
  <2>3. issued' \in {issued, issued + 1} /\ issued' \in 1..MaxIssued
    BY <1>6 DEF RefreshFails, TokenTypes
  <2>4. TokenTypes'
    <3>1. issued \in Nat /\ issued <= issued' /\ issued' \in Nat
      BY <2>3 DEF TokenTypes
    <3>2. call' \in [Callers -> [pc : {"idle", "wait", "refresh", "persist"}, has : 0..issued']]
      BY <2>2, <3>1
    <3>3. secret' \in 1..issued' /\ captured' \in 1..issued' /\ lost' \in BOOLEAN
      <4>1. secret' = secret /\ captured' = captured /\ lost' \in {lost, TRUE}
        BY <1>6 DEF RefreshFails
      <4>2. lost' \in BOOLEAN
        BY <4>1, Zenon DEF TokenTypes
      <4> QED
        BY <3>1, <4>1, <4>2 DEF TokenTypes
    <3> QED
      BY <1>6, <2>2, <2>3, <3>2, <3>3 DEF RefreshFails, TokenTypes
  <2> QED
    BY <1>6, <2>1, <2>2, <2>4 DEF RefreshFails, InHandInv
<1>7. ASSUME NEW c \in Callers, Persist(c) PROVE TokenInv'
  <2>1. Inside(c) /\ call[c].has = issued
    BY <1>7 DEF Persist, InHandInv, Inside
  <2>2. /\ \A d \in Callers : call'[d].pc \notin {"refresh", "persist"}
        /\ entryMu' = "free" /\ MutexInv'
        /\ call' \in [Callers -> [pc : {"idle", "wait", "refresh", "persist"}, has : 0..issued]]
    BY <1>7, <2>1, Returns DEF Persist
  <2>3. secret' \in {secret, issued} /\ (~lost' => secret' = issued) /\ lost' \in BOOLEAN
    BY <1>7, <2>1 DEF Persist, TokenTypes
  <2> QED
    BY <1>7, <2>2, <2>3 DEF Persist, TokenTypes, InHandInv
<1>8. CASE UNCHANGED tokenVars
  BY <1>8 DEF tokenVars, TokenTypes, MutexInv, InHandInv, Inside
<1> QED
  BY <1>1, <1>2, <1>3, <1>4, <1>5, <1>6, <1>7, <1>8 DEF TokenNext

\* The mutex is held exactly by the call that refreshes or persists, and every component of the
\* state keeps its type, whatever the provider's policy and however many callers there are.
THEOREM TokenTypeCorrect == TokenSpec => []TokenTypeOK
<1>1. TokenInv => TokenTypeOK
  BY TokenAssumption DEF TokenInv, TokenTypes, MutexInv, Inside, TokenTypeOK, Callers
<1> QED
  BY <1>1, TokenInitial, TokenStep, PTL DEF TokenSpec

\* The row holds the newest refresh token unless one was lost on its way, and callers that find
\* the token expired together refresh it once: AccessToken under entry.mu.
THEOREM NewestKept == TokenSpec => []NewestTokenKept
<1>1. TokenInv => NewestTokenKept
  BY DEF TokenInv, InHandInv, NewestTokenKept, RowHoldsNewest, RefreshedOnce
<1> QED
  BY <1>1, TokenInitial, TokenStep, PTL DEF TokenSpec

-----------------------------------------------------------------------------
(* Setting an account up.  A state that can still be redeemed has granted  *)
(* nothing, and the request that took it is the only one that holds it.    *)

SetupTypes ==
  /\ pending \in [States -> {"none", "open", "expired", "deleted"}]
  /\ redeem \in [Redeemers -> [pc : {"idle", "exchange", "create"}, state : States \union {"none"}]]
  /\ made \in 0..1
  /\ stored \in Pairs \union {NoPair} /\ cached \in Pairs \union {NoPair}
  /\ saver \in [Savers -> [pc : {"idle", "cache"}, pair : Pairs \union {NoPair}]]
  /\ granted \in [States -> Nat]

Redeeming(x, s) == redeem[x].pc = "exchange" /\ redeem[x].state = s

\* What a state may still grant.
RedeemInv ==
  /\ \A x \in Redeemers : redeem[x].pc = "exchange" => redeem[x].state \in States
  /\ \A s \in States :
       /\ granted[s] <= 1
       /\ pending[s] # "deleted" => granted[s] = 0
       /\ \A x \in Redeemers : Redeeming(x, s) =>
            /\ pending[s] = "deleted" /\ granted[s] = 0
            /\ \A y \in Redeemers : Redeeming(y, s) => y = x

\* The memory, and what is about to enter it, come from a row.
StoredInv ==
  /\ stored \in everStored /\ cached \in everStored
  /\ \A v \in Savers : saver[v].pc = "cache" => saver[v].pair \in everStored

SetupInv == SetupTypes /\ RedeemInv /\ StoredInv

LEMMA SetupInitial == SetupInit => SetupInv
<1> SUFFICES ASSUME SetupInit PROVE SetupInv
  OBVIOUS
<1>1. /\ NoRedeem \in [pc : {"idle", "exchange", "create"}, state : States \union {"none"}]
      /\ NoSaver \in [pc : {"idle", "cache"}, pair : Pairs \union {NoPair}]
      /\ NoRedeem.pc = "idle" /\ NoSaver.pc = "idle"
  BY DEF NoRedeem, NoSaver
<1>2. SetupTypes
  BY <1>1 DEF SetupInit, SetupTypes
<1> QED
  BY <1>1, <1>2 DEF SetupInit, SetupInv, RedeemInv, StoredInv, Redeeming

LEMMA SetupStep == SetupInv /\ [SetupNext]_setupVars => SetupInv'
<1> SUFFICES ASSUME SetupInv, [SetupNext]_setupVars PROVE SetupInv'
  OBVIOUS
<1> USE DEF SetupInv
<1>1. /\ NoRedeem \in [pc : {"idle", "exchange", "create"}, state : States \union {"none"}]
      /\ NoSaver \in [pc : {"idle", "cache"}, pair : Pairs \union {NoPair}]
      /\ NoRedeem.pc = "idle" /\ NoSaver.pc = "idle"
  BY DEF NoRedeem, NoSaver
<1>2. CASE Reload
  <2>1. SetupTypes'
    BY <1>1, <1>2 DEF Reload, SetupTypes
  <2>2. RedeemInv'
    <3>1. \A x \in Redeemers : redeem'[x].pc = "idle"
      BY <1>1, <1>2 DEF Reload
    <3>2. \A s \in States : pending'[s] # "deleted" => pending[s] # "deleted"
      BY <1>2 DEF Reload, SetupTypes
    <3> QED
      BY <1>2, <3>1, <3>2 DEF Reload, RedeemInv, Redeeming
  <2>3. StoredInv'
    BY <1>1, <1>2 DEF Reload, StoredInv
  <2> QED
    BY <2>1, <2>2, <2>3
<1>3. ASSUME NEW s \in States, StartAuthorization(s) \/ StateExpires(s) PROVE SetupInv'
  <2>1. SetupTypes'
    BY <1>3 DEF StartAuthorization, StateExpires, SetupTypes
  <2>2. \A t \in States : /\ pending'[t] # "deleted" => pending[t] # "deleted"
                          /\ pending[t] = "deleted" => pending'[t] = "deleted"
    BY <1>3 DEF StartAuthorization, StateExpires, SetupTypes
  <2>3. UNCHANGED <<redeem, granted, stored, cached, saver, everStored>>
    BY <1>3 DEF StartAuthorization, StateExpires
  <2> QED
    BY <2>1, <2>2, <2>3 DEF RedeemInv, StoredInv, Redeeming
<1>4. ASSUME NEW x \in Redeemers, TakeState(x) PROVE SetupInv'
  <2>1. PICK s \in States :
          /\ pending[s] # "none" /\ pending' = [pending EXCEPT ![s] = "deleted"]
          /\ redeem' = [redeem EXCEPT ![x] = IF pending[s] = "open" THEN [pc |-> "exchange", state |-> s] ELSE NoRedeem]
    BY <1>4 DEF TakeState
  <2>2. UNCHANGED <<granted, stored, cached, saver, everStored, made>>
    BY <1>4 DEF TakeState
  <2>3. SetupTypes'
    BY <1>1, <2>1, <2>2 DEF SetupTypes
  <2>4. \A t \in States : pending'[t] = IF t = s THEN "deleted" ELSE pending[t]
    BY <2>1 DEF SetupTypes
  <2>5. \A y \in Redeemers, t \in States :
          (Redeeming(y, t))' <=> IF y = x THEN pending[s] = "open" /\ t = s ELSE Redeeming(y, t)
    BY <1>1, <2>1 DEF SetupTypes, Redeeming
  <2>6. \A y \in Redeemers : redeem'[y].pc = "exchange" => redeem'[y].state \in States
    BY <1>1, <2>1 DEF SetupTypes, RedeemInv
  <2>7. pending[s] = "open" => granted[s] = 0 /\ \A y \in Redeemers : ~ Redeeming(y, s)
    BY DEF RedeemInv
  <2>8. RedeemInv'
    BY <2>2, <2>4, <2>5, <2>6, <2>7 DEF RedeemInv
  <2> QED
    BY <2>2, <2>3, <2>8 DEF StoredInv
<1>5. ASSUME NEW x \in Redeemers, ExchangeCode(x) PROVE SetupInv'
  <2>1. PICK s \in States : s = redeem[x].state /\ Redeeming(x, s)
    BY <1>5 DEF ExchangeCode, RedeemInv, Redeeming
  <2>2. UNCHANGED <<pending, stored, cached, saver, everStored, made>>
    BY <1>5 DEF ExchangeCode
  <2>3. redeem' = [redeem EXCEPT ![x].pc = "create"] \/ redeem' = [redeem EXCEPT ![x] = NoRedeem]
    BY <1>5 DEF ExchangeCode
  <2>4. granted' = granted \/ granted' = [granted EXCEPT ![s] = @ + 1]
    BY <1>5, <2>1 DEF ExchangeCode
  <2>5. SetupTypes'
    BY <1>1, <2>2, <2>3, <2>4 DEF SetupTypes
  <2>6. \A y \in Redeemers : IF y = x THEN redeem'[y].pc # "exchange" ELSE redeem'[y] = redeem[y]
    BY <1>1, <2>3 DEF SetupTypes
  <2>7. \A t \in States : granted'[t] = granted[t] \/ (t = s /\ granted'[t] = granted[t] + 1)
    BY <2>1, <2>4 DEF SetupTypes
  <2>8. RedeemInv'
    BY <2>1, <2>2, <2>6, <2>7 DEF RedeemInv, Redeeming
  <2> QED
    BY <2>2, <2>5, <2>8 DEF StoredInv
<1>6. ASSUME NEW x \in Redeemers, CreateOAuth(x) PROVE SetupInv'
  <2>1. redeem' = [redeem EXCEPT ![x] = NoRedeem] /\ made' \in 0..1
    BY <1>6 DEF CreateOAuth, SetupTypes
  <2>2. UNCHANGED <<pending, stored, cached, saver, everStored, granted>>
    BY <1>6 DEF CreateOAuth
  <2>3. SetupTypes'
    BY <1>1, <2>1, <2>2 DEF SetupTypes
  <2>4. \A y \in Redeemers : IF y = x THEN redeem'[y].pc # "exchange" ELSE redeem'[y] = redeem[y]
    BY <1>1, <2>1 DEF SetupTypes
  <2> QED
    BY <2>2, <2>3, <2>4 DEF RedeemInv, Redeeming, StoredInv
<1>7. ASSUME NEW v \in Savers, SaveRow(v) \/ SaveCache(v) PROVE SetupInv'
  <2>1. UNCHANGED <<pending, redeem, made, granted>>
    BY <1>7 DEF SaveRow, SaveCache
  <2>2. RedeemInv'
    BY <2>1 DEF RedeemInv, Redeeming
  <2>3. CASE SaveRow(v)
    <3>1. PICK p \in Pairs \union {NoPair} :
            /\ stored' = p /\ everStored' = everStored \union {p}
            /\ saver' = [saver EXCEPT ![v] = [pc |-> "cache", pair |-> p]]
      BY <2>3 DEF SaveRow
    <3>2. cached' = cached
      BY <2>3 DEF SaveRow
    <3> QED
      BY <2>1, <2>2, <3>1, <3>2 DEF SetupTypes, StoredInv
  <2>4. CASE SaveCache(v)
    <3>1. saver[v] \in [pc : {"idle", "cache"}, pair : Pairs \union {NoPair}]
      BY DEF SetupTypes
    <3> QED
      BY <1>1, <2>1, <2>2, <2>4, <3>1 DEF SaveCache, SetupTypes, StoredInv
  <2> QED
    BY <1>7, <2>3, <2>4
<1>8. CASE UNCHANGED setupVars
  BY <1>8 DEF setupVars, SetupTypes, RedeemInv, Redeeming, StoredInv
<1> QED
  BY <1>2, <1>3, <1>4, <1>5, <1>6, <1>7, <1>8 DEF SetupNext

\* One account is made for the address, however many windows complete its authorization.
THEOREM SetupTypeCorrect == SetupSpec => []SetupTypeOK
<1>1. SetupInv => SetupTypeOK
  BY DEF SetupInv, SetupTypes, SetupTypeOK
<1> QED
  BY <1>1, SetupInitial, SetupStep, PTL DEF SetupSpec

\* A state is good for one exchange, whether the callback or the pasted code comes first, and the
\* process never serves credentials the database did not hold.
THEOREM SetupKept == SetupSpec => []SetupHolds
<1>1. SetupInv => SetupHolds
  BY DEF SetupInv, RedeemInv, StoredInv, SetupHolds, StateRedeemedOnce, ServedWasStored
<1> QED
  BY <1>1, SetupInitial, SetupStep, PTL DEF SetupSpec
=============================================================================
