----------------------------- MODULE OAuthSetup -----------------------------
(***************************************************************************)
(* Setting an OAuth account up: the authorization states of Start and      *)
(* Exchange (internal/provider/oauth/manager.go), redeemed by the callback *)
(* or by hand, the account made of them, and the client credentials of one *)
(* provider as the settings page stores them and providerConfig reads them *)
(* (internal/service/oauthclient/service.go).                              *)
(*                                                                         *)
(* One address is authorized, as often as the user likes. The provider     *)
(* redeems a code for the client that asked for it.                        *)
(***************************************************************************)
EXTENDS Naturals, FiniteSets

CONSTANTS
  States,      \* authorization attempts
  Redeemers,   \* oauthCallback and completeOAuth requests
  Pairs,       \* client credentials the user may save
  Savers,      \* requests of the settings page
  HasEnv,      \* whether the environment has a pair of its own
  NoPair

VARIABLES
  pending,     \* states: none, open, expired, deleted
  redeem,      \* per request: step, state, client the code is presented for
  askedFor,    \* per state: the client of its authorization URL
  made,        \* accounts created
  stored,      \* oauth_clients: the pair of the provider
  cached,      \* Service.stored
  saver,       \* per request: step, pair
  everStored,  \* observer
  granted      \* observer: per state, codes redeemed under it

setupVars == <<pending, redeem, askedFor, made, stored, cached, saver, everStored, granted>>

NoRedeem == [pc |-> "idle", state |-> "none"]
NoSaver  == [pc |-> "idle", pair |-> NoPair]
\* providerConfig: the page's pair before the environment's.
Config == IF cached # NoPair THEN cached ELSE IF HasEnv THEN "env" ELSE NoPair

-----------------------------------------------------------------------------
\* Expired states are swept when the next is made.
StartAuthorization(s) ==
  /\ pending[s] = "none" /\ Config # NoPair
  /\ pending' = [t \in States |-> IF t = s THEN "open" ELSE IF pending[t] = "expired" THEN "deleted" ELSE pending[t]]
  /\ askedFor' = [askedFor EXCEPT ![s] = Config]
  /\ UNCHANGED <<redeem, made, stored, cached, saver, everStored, granted>>

\* Ten minutes pass.
StateExpires(s) ==
  /\ pending[s] = "open" /\ pending' = [pending EXCEPT ![s] = "expired"]
  /\ UNCHANGED <<redeem, askedFor, made, stored, cached, saver, everStored, granted>>

\* Mutant: the state is deleted when the exchange has succeeded.
TakeLater(x) ==
  /\ redeem[x].pc = "idle"
  /\ \E s \in States :
       /\ pending[s] # "none" /\ UNCHANGED pending
       /\ redeem' = [redeem EXCEPT ![x] = IF pending[s] = "open" THEN [pc |-> "exchange", state |-> s] ELSE NoRedeem]
  /\ UNCHANGED <<askedFor, made, stored, cached, saver, everStored, granted>>
\* Exchange takes the state out of the map before it looks at it.
TakeState(x) ==
  /\ redeem[x].pc = "idle"
  /\ \E s \in States :
       /\ pending[s] # "none" /\ pending' = [pending EXCEPT ![s] = "deleted"]
       /\ redeem' = [redeem EXCEPT ![x] = IF pending[s] = "open" THEN [pc |-> "exchange", state |-> s] ELSE NoRedeem]
  /\ UNCHANGED <<askedFor, made, stored, cached, saver, everStored, granted>>

\* The code is presented for the client configured by now; without one, or for another client,
\* the provider or the network, it fails.
ExchangeCode(x) ==
  /\ redeem[x].pc = "exchange"
  /\ LET s == redeem[x].state IN
     \/ /\ Config # NoPair /\ Config = askedFor[s]
        /\ redeem' = [redeem EXCEPT ![x].pc = "create"]
        /\ granted' = [granted EXCEPT ![s] = @ + 1]
     \/ redeem' = [redeem EXCEPT ![x] = NoRedeem] /\ UNCHANGED granted
  /\ UNCHANGED <<pending, askedFor, made, stored, cached, saver, everStored>>

\* Mutant: the address is looked up and not held unique.
CreateAnyway(x) ==
  /\ redeem[x].pc = "create" /\ redeem' = [redeem EXCEPT ![x] = NoRedeem]
  /\ made' = made + 1
  /\ UNCHANGED <<pending, askedFor, stored, cached, saver, everStored, granted>>
\* AddOAuth; the index on provider and address refuses a second account.
CreateOAuth(x) ==
  /\ redeem[x].pc = "create" /\ redeem' = [redeem EXCEPT ![x] = NoRedeem]
  /\ made' \in {made, 1}
  /\ UNCHANGED <<pending, askedFor, stored, cached, saver, everStored, granted>>

-----------------------------------------------------------------------------
(* The client credentials: Save and Clear are a row and then the memory. *)

\* Mutant: the memory is written first, and the row then is not.
SaveCacheFirst(v) ==
  /\ saver[v].pc = "idle"
  /\ cached' \in Pairs \union {NoPair}
  /\ UNCHANGED <<pending, redeem, askedFor, made, stored, saver, everStored, granted>>
\* A row that is not written ends the request.
SaveRow(v) ==
  /\ saver[v].pc = "idle"
  /\ \E p \in Pairs \union {NoPair} :
       /\ stored' = p /\ everStored' = everStored \union {p}
       /\ saver' = [saver EXCEPT ![v] = [pc |-> "cache", pair |-> p]]
  /\ UNCHANGED <<pending, redeem, askedFor, made, cached, granted>>

SaveCache(v) ==
  /\ saver[v].pc = "cache" /\ cached' = saver[v].pair
  /\ saver' = [saver EXCEPT ![v] = NoSaver]
  /\ UNCHANGED <<pending, redeem, askedFor, made, stored, everStored, granted>>

\* A restart: states are lost, Load reads the row.
Reload ==
  /\ cached' = stored /\ saver' = [v \in Savers |-> NoSaver] /\ redeem' = [x \in Redeemers |-> NoRedeem]
  /\ pending' = [s \in States |-> IF pending[s] = "none" THEN "none" ELSE "deleted"]
  /\ UNCHANGED <<askedFor, made, stored, everStored, granted>>

-----------------------------------------------------------------------------
SetupInit ==
  /\ pending = [s \in States |-> "none"] /\ redeem = [x \in Redeemers |-> NoRedeem]
  /\ askedFor = [s \in States |-> NoPair] /\ made = 0
  /\ stored = NoPair /\ cached = NoPair /\ saver = [v \in Savers |-> NoSaver]
  /\ everStored = {NoPair} /\ granted = [s \in States |-> 0]

SetupNext ==
  \/ Reload
  \/ \E s \in States : StartAuthorization(s) \/ StateExpires(s)
  \/ \E x \in Redeemers : TakeState(x) \/ ExchangeCode(x) \/ CreateOAuth(x)
  \/ \E v \in Savers : SaveRow(v) \/ SaveCache(v)

SetupSpec == SetupInit /\ [][SetupNext]_setupVars

-----------------------------------------------------------------------------
(* Properties. *)

\* Types, and one account for the address, however many windows complete it.
SetupTypeOK ==
  /\ pending \in [States -> {"none", "open", "expired", "deleted"}]
  /\ \A x \in Redeemers : redeem[x].pc \in {"idle", "exchange", "create"}
  /\ made \in 0..1
  /\ stored \in Pairs \union {NoPair} /\ cached \in Pairs \union {NoPair}

\* A state is good for one exchange: the callback and the pasted code cannot both redeem it
\* ("a state is single-use").
StateRedeemedOnce == \A s \in States : granted[s] <= 1

\* The process never serves credentials the database did not hold (Save: "a failed write cannot
\* leave the process serving credentials the database does not have").
ServedWasStored == cached \in everStored

\* The two promises of the setup.
SetupHolds == StateRedeemedOnce /\ ServedWasStored
=============================================================================
