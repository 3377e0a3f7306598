----------------------------- MODULE MC_Services -----------------------------
(* Six components for TLC. They share no variable, so a behaviour is one of a       *)
(* single component.                                                                *)
EXTENDS BlobStore, BodyPrefetch, OAuthTokens, OAuthSetup, WebSessions, RealtimeHub

VARIABLE component   \* the component a behaviour exercises

vars == <<component, blobVars, prefetchVars, tokenVars, setupVars, webVars, hubVars>>

\* c1 is what the composer uploads; the part consists of the same bytes or of others.
MCHolds == [w \in Parts \union Composers |-> IF w \in Parts THEN {"c1", "c2"} ELSE {"c1"}]

Init ==
  /\ BlobInit /\ PrefetchInit /\ TokenInit /\ SetupInit /\ WebInit /\ HubInit
  /\ component \in {"blobs", "prefetch", "tokens", "setup", "web", "hub"}
  /\ component # "tokens" => policy = "keeps"

OnBlobs    == BlobNext /\ UNCHANGED <<prefetchVars, tokenVars, setupVars, webVars, hubVars>>
OnPrefetch == PrefetchNext /\ UNCHANGED <<blobVars, tokenVars, setupVars, webVars, hubVars>>
OnTokens   == TokenNext /\ UNCHANGED <<blobVars, prefetchVars, setupVars, webVars, hubVars>>
OnSetup    == SetupNext /\ UNCHANGED <<blobVars, prefetchVars, tokenVars, webVars, hubVars>>
OnWeb      == WebNext /\ UNCHANGED <<blobVars, prefetchVars, tokenVars, setupVars, hubVars>>
OnHub      == HubNext /\ UNCHANGED <<blobVars, prefetchVars, tokenVars, setupVars, webVars>>

Next ==
  /\ UNCHANGED component
  /\ \/ component = "blobs" /\ OnBlobs
     \/ component = "prefetch" /\ OnPrefetch
     \/ component = "tokens" /\ OnTokens
     \/ component = "setup" /\ OnSetup
     \/ component = "web" /\ OnWeb
     \/ component = "hub" /\ OnHub

Blobs(A) == component = "blobs" /\ A
Prefetch(A) == component = "prefetch" /\ A

\* The maintenance ticker never stops, a request ends, and an hour passes.
BlobFairness ==
  /\ WF_blobVars(Blobs(Maintain))
  /\ \A d \in Composers : WF_blobVars(Blobs(Attach(d)))
  /\ \A c \in Contents : WF_blobVars(Blobs(Age(c)))

\* Commands, database calls and goroutines end; a call blocked on the mutex gets it in the
\* end (it is handed to the longest waiter); a worker that polls on and on times out. Nobody
\* has to open a message.
PrefetchFairness ==
  /\ WF_prefetchVars(Prefetch(ScanStep)) /\ SF_prefetchVars(Prefetch(ProbeLocks))
  /\ \A w \in Workers : /\ WF_prefetchVars(Prefetch(WorkerStep(w)))
                         /\ SF_prefetchVars(Prefetch(LockBackground(w)))
                         /\ SF_prefetchVars(Prefetch(TimesOut(w)))
  /\ \A o \in Openers : /\ WF_prefetchVars(Prefetch(FetchStep(o)))
                         /\ SF_prefetchVars(Prefetch(Lock(o)))

FairSpec == Init /\ [][Next]_vars /\ BlobFairness /\ PrefetchFairness

\* The type invariants of all six.
TypesOK == BlobTypeOK /\ PrefetchTypeOK /\ TokenTypeOK /\ SetupTypeOK /\ WebTypeOK /\ HubTypeOK

\* What the reading pane is told comes true: a body stays, a promise of one is kept, and a
\* behaviour in which the prefetch runs leaves every body there or given up.
PaneIsServed == BodyStays /\ PromiseKept /\ (component = "prefetch" => PrefetchSettles)
=============================================================================
