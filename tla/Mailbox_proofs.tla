--------------------------- MODULE Mailbox_proofs ---------------------------
(***************************************************************************)
(* Proofs about MailboxSync, for any number of messages, UIDVALIDITY       *)
(* changes and cuts, any chunk size and any mix of operations: types and   *)
(* the command lock, the cursor, the UID mapping, what an operation        *)
(* reaches and what a reconciliation drops.  The cursor needs the claim    *)
(* for every copy of the row a pass may start from, for the cursor inside  *)
(* a running pass, and for what the pass has still to fetch.               *)
(***************************************************************************)
EXTENDS MailboxSync, FiniteSetTheorems, WellFoundedInduction, TLAPS

USE SyncAssumption

\* A set of naturals has a least element, and a bounded one a greatest.
LEMMA Least ==
  ASSUME NEW S \in SUBSET Nat, S # {}
  PROVE  \E x \in S : \A y \in S : x <= y
<1>1. PICK x \in S : \A y \in S : ~ (<<y, x>> \in OpToRel(<, Nat))
  BY NatLessThanWellFounded, WFMin
<1>2. \A a, b \in Nat : a < b => <<a, b>> \in OpToRel(<, Nat)
  BY DEF OpToRel
<1>3. \A y \in S : ~ (y < x) /\ y \in Nat /\ x \in Nat
  BY <1>1, <1>2
<1>4. \A y \in S : x <= y
  BY <1>3
<1> QED
  BY <1>4

LEMMA MaxIsGreatest ==
  ASSUME NEW S \in SUBSET Nat, S # {}, NEW n \in Nat, \A x \in S : x <= n
  PROVE  Max(S) \in S /\ \A y \in S : y <= Max(S)
<1> DEFINE T == {k \in Nat : \A y \in S : y <= k}
<1>1. T # {} /\ T \in SUBSET Nat
  BY n \in T
<1>2. PICK k \in T : \A j \in T : k <= j
  BY <1>1, Least
<1>3. k \in S
  <2> SUFFICES ASSUME k \notin S PROVE FALSE
    OBVIOUS
  <2>1. \A y \in S : y <= k - 1 /\ y \in Nat /\ k \in Nat
    OBVIOUS
  <2>2. PICK z \in S : TRUE
    OBVIOUS
  <2>3. k - 1 \in Nat
    BY <2>1, <2>2
  <2> QED
    BY <1>2, <2>1, <2>3
<1>4. \A y \in S : k >= y
  OBVIOUS
<1>5. \E x \in S : \A y \in S : x >= y
  BY <1>3, <1>4
<1>6. Max(S) \in S /\ \A y \in S : Max(S) >= y
  BY <1>5 DEF Max
<1> QED
  BY <1>6

\* What a chunk is; the set it is taken from need not be sorted.
IsChunk(S, T, size) ==
  /\ S \subseteq T /\ Cardinality(S) = size
  /\ \A u \in S, v \in T \ S : u < v

LEMMA ChunkExists ==
  ASSUME NEW T \in SUBSET Nat, IsFiniteSet(T), NEW size \in 0..Cardinality(T)
  PROVE  \E S \in SUBSET T : IsChunk(S, T, size)
<1> DEFINE Bad == {k \in Nat : k <= Cardinality(T) /\ ~ \E S \in SUBSET T : IsChunk(S, T, k)}
<1> SUFFICES ASSUME Bad # {} PROVE FALSE
  BY FS_CardinalityType
<1>1. PICK k \in Bad : \A j \in Bad : k <= j
  BY Least, Bad \in SUBSET Nat
<1>2. k # 0
  BY FS_EmptySet DEF IsChunk
<1>3. PICK S \in SUBSET T : IsChunk(S, T, k - 1)
  BY <1>1, <1>2, FS_CardinalityType
<1>4. IsFiniteSet(S) /\ k \in Nat /\ Cardinality(S) = k - 1 /\ k <= Cardinality(T)
  BY <1>3, FS_Subset DEF IsChunk
<1>41. T \ S # {}
  <2>1. SUFFICES ASSUME T = S PROVE FALSE
    BY <1>3 DEF IsChunk
  <2> QED
    BY <1>4, <2>1
<1>5. PICK x \in T \ S : \A y \in T \ S : x <= y
  BY <1>41, Least
<1>6. Cardinality(S \cup {x}) = k
  <2>1. x \notin S
    BY <1>5
  <2> QED
    <3>1. Cardinality(S \cup {x}) = Cardinality(S) + 1
      BY <1>4, <2>1, FS_AddElement, Zenon
    <3> QED
      BY <1>4, <3>1
<1>7. IsChunk(S \cup {x}, T, k)
  BY <1>3, <1>5, <1>6 DEF IsChunk
<1> QED
  BY <1>7

-----------------------------------------------------------------------------
(* The provider: a UID names one message, and none has been given yet that *)
(* is not below UIDNEXT.                                                   *)

ServerTypes ==
  /\ incarnation \in 1..MaxIncarnation /\ nextUid \in Nat \ {0}
  /\ uid \in [Msgs -> Nat] /\ unborn \subseteq Msgs /\ old \subseteq Msgs
ServerInv ==
  /\ \A m \in Msgs : uid[m] < nextUid
  /\ \A m \in unborn : uid[m] = 0
  /\ \A m, n \in Live : uid[m] = uid[n] => m = n
  /\ nextUid + Cardinality(unborn) <= Cardinality(Msgs) + 1

\* Every set of messages is finite.
LEMMA Cardinals ==
  ASSUME NEW S \in SUBSET Msgs
  PROVE  IsFiniteSet(S) /\ Cardinality(S) \in Nat /\ Cardinality(S) <= Cardinality(Msgs)
         /\ Cardinality(Msgs) \in Nat
BY FS_Subset, FS_CardinalityType

\* What UIDs are handed out at first, and again when the index is rebuilt.
LEMMA ServerInitial == Init => ServerTypes /\ ServerInv
<1> SUFFICES ASSUME Init PROVE ServerTypes /\ ServerInv
  OBVIOUS
<1> DEFINE born == Msgs \ unborn
<1>1. /\ unborn \subseteq Msgs /\ old \subseteq Msgs /\ uid \in [Msgs -> Nat]
      /\ IsFiniteSet(born) /\ Cardinality(born) \in Nat /\ Cardinality(unborn) \in Nat
      /\ nextUid = Cardinality(born) + 1
  BY Cardinals DEF Init
<1>11. nextUid - 1 = Cardinality(born)
  BY <1>1
<1>12. {uid[m] : m \in born} = 1..(nextUid - 1)
  BY DEF Init
<1>2. Cardinality(born) = Cardinality(Msgs) - Cardinality(unborn)
  BY <1>1, FS_Difference, Cardinals, Msgs \cap unborn = unborn
<1>3. ServerTypes
  BY <1>1 DEF Init, ServerTypes
<1>4. Live = born
  <2>1. \A m \in born : uid[m] \in 1..(nextUid - 1)
    BY DEF Init
  <2> QED
    BY <1>1, <2>1 DEF Init, Live
<1>5. \A m, n \in born : uid[m] = uid[n] => m = n
  <2> DEFINE f == [m \in born |-> uid[m]]
  <2>1. f \in Surjection(born, 1..Cardinality(born))
    <3>1. {uid[m] : m \in born} = 1..Cardinality(born)
      BY <1>11, <1>12
    <3>2. f \in [born -> 1..Cardinality(born)]
      BY <3>1
    <3>3. \A t \in 1..Cardinality(born) : \E m \in born : f[m] = t
      BY <3>1
    <3> QED
      BY <3>2, <3>3 DEF Surjection
  <2>2. Cardinality(1..Cardinality(born)) = Cardinality(born)
    BY <1>1, FS_Interval
  <2>3. f \in Injection(born, 1..Cardinality(born))
    BY <1>1, <2>1, <2>2, FS_SurjSameCardinalityImpliesInj
  <2> QED
    BY <2>3 DEF Injection, IsInjective
<1>6. \A m \in Msgs : uid[m] < nextUid
  <2>1. \A m \in born : uid[m] \in 1..(nextUid - 1)
    BY <1>12
  <2>2. \A m \in unborn : uid[m] = 0
    BY DEF Init
  <2> QED
    BY <1>1, <2>1, <2>2
<1>7. \A m \in unborn : uid[m] = 0
  BY DEF Init
<1>8. nextUid + Cardinality(unborn) <= Cardinality(Msgs) + 1
  BY <1>1, <1>2, Cardinals
<1> QED
  BY <1>3, <1>4, <1>5, <1>6, <1>7, <1>8 DEF ServerInv

LEMMA ServerKept == (ServerTypes /\ ServerInv) /\ [Next]_vars => (ServerTypes /\ ServerInv)'
<1> SUFFICES ASSUME (ServerTypes /\ ServerInv), [Next]_vars PROVE (ServerTypes /\ ServerInv)'
  OBVIOUS
<1> USE DEF ServerTypes, ServerInv
<1>1. ASSUME NEW m \in Msgs, Arrive(m) PROVE (ServerTypes /\ ServerInv)'
  <2>1. /\ unborn' = unborn \ {m} /\ uid' = [uid EXCEPT ![m] = nextUid] /\ nextUid' = nextUid + 1
        /\ m \in unborn /\ UNCHANGED <<incarnation, old>>
    BY <1>1 DEF Arrive
  <2>2. Cardinality(unborn \ {m}) = Cardinality(unborn) - 1
    BY <2>1, Cardinals, FS_RemoveElement
  <2>3. ServerTypes'
    BY <2>1
  <2>4. \A n \in Msgs : uid'[n] = IF n = m THEN nextUid ELSE uid[n]
    BY <2>1
  <2>5. \A n \in unborn' : uid'[n] = 0
    BY <2>1, <2>4
  <2>6. \A a, b \in Live' : uid'[a] = uid'[b] => a = b
    BY <2>4 DEF Live
  <2> QED
    BY <2>1, <2>2, <2>3, <2>4, <2>5, <2>6, Cardinals
<1>2. ASSUME NEW m \in Msgs, Expunge(m) PROVE (ServerTypes /\ ServerInv)'
  <2>1. uid' \in [Msgs -> Nat] /\ \A n \in Msgs : uid'[n] \in {0, uid[n]}
    BY <1>2 DEF Expunge
  <2>2. UNCHANGED <<incarnation, nextUid, unborn, old>>
    BY <1>2 DEF Expunge
  <2> QED
    BY <2>1, <2>2 DEF Live
<1>3. ASSUME NEW m \in Msgs, Ages(m) PROVE (ServerTypes /\ ServerInv)'
  <2>1. UNCHANGED <<incarnation, uid, nextUid, unborn>> /\ old' \subseteq Msgs
    BY <1>3 DEF Ages
  <2> QED
    BY <2>1 DEF Live
<1>4. CASE Renumber
  <2> DEFINE n == Cardinality(Live)
  <2>1. PICK f \in [Live -> 1..n] :
          /\ \A a, b \in Live : a # b => f[a] # f[b]
          /\ uid' = [m \in Msgs |-> IF m \in Live THEN f[m] ELSE 0]
    BY <1>4 DEF Renumber
  <2>2. nextUid' = n + 1 /\ incarnation' \in 1..MaxIncarnation /\ UNCHANGED <<unborn, old>>
    BY <1>4 DEF Renumber
  <2>3. n \in Nat /\ n + Cardinality(unborn) <= Cardinality(Msgs)
    <3>1. Live \subseteq Msgs \ unborn
      BY DEF Live
    <3>2. Cardinality(Msgs \ unborn) = Cardinality(Msgs) - Cardinality(unborn)
      BY FS_Difference, Cardinals, Msgs \cap unborn = unborn
    <3>3. Cardinality(Live) <= Cardinality(Msgs \ unborn)
      BY <3>1, FS_Subset, Cardinals
    <3> QED
      BY <3>1, <3>2, <3>3, Cardinals
  <2>4. \A m \in Live : f[m] \in 1..n
    OBVIOUS
  <2>5. \A m \in Msgs : uid'[m] \in 0..n /\ (m \notin Live => uid'[m] = 0) /\ (m \in Live => uid'[m] = f[m])
    BY <2>1, <2>3, <2>4
  <2>6. ServerTypes'
    BY <2>1, <2>2, <2>3, <2>5
  <2>7. \A a, b \in Live' : uid'[a] = uid'[b] => a = b
    BY <2>1, <2>5 DEF Live
  <2>8. \A m \in unborn' : uid'[m] = 0
    BY <2>2, <2>5 DEF Live
  <2>9. \A m \in Msgs : uid'[m] < nextUid'
    BY <2>2, <2>3, <2>5
  <2>10. nextUid' + Cardinality(unborn') <= Cardinality(Msgs) + 1
    BY <2>2, <2>3, Cardinals
  <2> QED
    BY <2>6, <2>7, <2>8, <2>9, <2>10
<1>5. CASE ActRemotely
  <2>1. uid' \in [Msgs -> Nat] /\ \A m \in Msgs : uid'[m] \in {0, uid[m]}
    BY <1>5 DEF ActRemotely
  <2>2. UNCHANGED <<incarnation, nextUid, unborn, old>>
    BY <1>5 DEF ActRemotely
  <2> QED
    BY <2>1, <2>2 DEF Live
<1>6. ASSUME NEW m \in Msgs, NEW kind \in Kinds, ReadMapping(m, kind) PROVE (ServerTypes /\ ServerInv)'
  <2>1. UNCHANGED <<incarnation, uid, nextUid, unborn, old>>
    BY <1>6 DEF ReadMapping, opOnly, serverVars, storeVars
  <2> QED
    BY <2>1 DEF Live
<1>7. CASE BeginFull \/ BeginRequested \/ Probe \/ ServicePending \/ SyncListed \/ SkipQuiet \/
     Select \/ Reset \/ Search \/ FetchChunk \/ Fetched \/ Reconcile \/ FetchFlags \/
     DropExpunged \/ ReconcileFails \/ Commit \/ ReconcileFallsDue \/ Cut \/ Restart \/
     ReadMailbox \/ SelectForStored \/ MoveLocation \/ OpFails \/ UNCHANGED vars
  <2>1. UNCHANGED <<incarnation, uid, nextUid, unborn, old>>
    BY <1>7 DEF BeginFull, serverVars, storeVars, Goto, At, BeginRequested, StartPass, NoPass,
         NoBox, Probe, ServicePending, SyncListed, SkipQuiet, Select, Reset, Search, passOnly,
         FetchChunk, Fetched, Reconcile, FetchFlags, DropExpunged, ReconcileFails, Commit,
         ReconcileFallsDue, Cut, Restart, NoOp, ReadMailbox, opOnly, SelectForStored,
         MoveLocation, OpFails, vars
  <2> QED
    BY <2>1 DEF Live
<1> QED
  BY <1>1, <1>2, <1>3, <1>4, <1>5, <1>6, <1>7 DEF Next, ServerStep, BeginStep, PassStep, OpStep

-----------------------------------------------------------------------------
(* Types. *)

BoxRec == [validity : 0..MaxIncarnation, lastUid : {0} \cup Uids,
           uidNext : 0..(Cardinality(Msgs) + 1)]
PassRec ==
  [pc : Selected \cup {"idle", "session", "loaded"}, box : BoxRec, validity : 0..MaxIncarnation,
   next : 0..(Cardinality(Msgs) + 1), rebuilt : BOOLEAN, skip : BOOLEAN, todo : SUBSET Uids,
   lastUid : {0} \cup Uids, stored : SUBSET Uids, present : SUBSET Uids]
OpRec ==
  [pc : {"none", "mapped", "located", "selected", "moved"}, kind : {"flag", "move", "attachment"},
   msg : Msgs \cup {NoMsg}, uid : {0} \cup Uids, validity : 0..MaxIncarnation,
   seen : 0..MaxIncarnation]
Server == ServerTypes /\ ServerInv
StoreTypes ==
  /\ box \in BoxRec /\ listed \subseteq BoxRec /\ rows \in [Uids -> Msgs \cup {NoMsg}]
  /\ dropped \subseteq Msgs /\ cuts \in 0..MaxCuts
PassTypes == pass \in PassRec
OpTypes == op \in OpRec /\ stray \subseteq {"unchecked", "torn", "blind", "unexplained"}
LockInv ==
  /\ cmdMu \in {"free", "sync", "user"}
  /\ cmdMu = "sync" <=> pass.pc # "idle"
  /\ cmdMu = "user" <=> op.pc \in {"selected", "moved"}
Types == Server /\ StoreTypes /\ PassTypes /\ OpTypes

\* The UIDs of the messages that are there are within the bounds of the rows.
LEMMA UidsTyped ==
  ASSUME Server
  PROVE  /\ Cardinality(Msgs) \in Nat /\ nextUid \in 1..(Cardinality(Msgs) + 1)
         /\ incarnation \in 1..MaxIncarnation
         /\ \A m \in Msgs : uid[m] \in {0} \cup Uids /\ uid[m] < nextUid
         /\ \A m \in Live : m \in Msgs /\ uid[m] \in Uids
<1>1. Cardinality(Msgs) \in Nat /\ nextUid \in 1..(Cardinality(Msgs) + 1)
  BY Cardinals DEF Server, ServerTypes, ServerInv
<1>2. \A m \in Msgs : uid[m] \in Nat /\ uid[m] < nextUid
  BY DEF Server, ServerTypes, ServerInv
<1>3. \A m \in Msgs : uid[m] \in {0} \cup Uids
  BY <1>1, <1>2 DEF Uids
<1> QED
  BY <1>1, <1>2, <1>3 DEF Server, ServerTypes, Live

\* A chunk is the low end of what is left.
LEMMA ChunkIsLow ==
  ASSUME PassTypes, Cardinality(Msgs) \in Nat
  PROVE  Chunk \subseteq pass.todo /\ \A u \in Chunk, v \in pass.todo \ Chunk : u < v
<1> DEFINE size == IF Cardinality(pass.todo) < ChunkSize THEN Cardinality(pass.todo) ELSE ChunkSize
<1>1. pass.todo \in SUBSET Uids
  BY DEF PassTypes, PassRec
<1>2. pass.todo \in SUBSET Nat /\ IsFiniteSet(pass.todo)
  <2>1. IsFiniteSet(1..Cardinality(Msgs))
    BY FS_Interval
  <2> QED
    BY <1>1, <2>1, FS_Subset DEF Uids
<1>3. size \in 0..Cardinality(pass.todo)
  BY <1>2, FS_CardinalityType
<1>4. \E S \in SUBSET pass.todo : IsChunk(S, pass.todo, size)
  BY <1>2, <1>3, ChunkExists
<1>5. \E S \in SUBSET pass.todo :
        /\ Cardinality(S) = size
        /\ \A u \in S, v \in pass.todo \ S : u < v
  BY <1>4 DEF IsChunk
<1> QED
  BY <1>5 DEF Chunk

\* What one chunk does: its messages that are still there are stored under their
\* UIDs, and the cursor of the pass rises over them.
Fetches(C, l) ==
  /\ At("fetch")
  /\ \A u \in C, v \in pass.todo \ C : u < v
  /\ pass' = [pass EXCEPT !.todo = @ \ C, !.lastUid = l]
  /\ pass.lastUid <= l /\ (l = pass.lastUid \/ \E m \in Live : uid[m] \in C /\ uid[m] = l)
  /\ rows' \in [Uids -> Msgs \cup {NoMsg}]
  /\ \A m \in Live : uid[m] \in C => uid[m] <= l /\ rows'[uid[m]] = m
  /\ \A u \in Uids : rows'[u] = rows[u] \/ \E m \in Live : uid[m] = u /\ u \in C /\ rows'[u] = m

LEMMA FetchStep ==
  ASSUME Types, FetchChunk
  PROVE  \E C \in SUBSET pass.todo, l \in {0} \cup Uids : Fetches(C, l)
<1> USE DEF Types
<1> DEFINE C == Chunk
           fetched == {m \in Live : uid[m] \in C}
           seen == {pass.lastUid} \cup {uid[m] : m \in fetched}
           l == Max(seen)
<1>0. Cardinality(Msgs) \in Nat /\ \A m \in Live : m \in Msgs /\ uid[m] \in Uids
  BY UidsTyped
<1>1. C \subseteq pass.todo /\ \A u \in C, v \in pass.todo \ C : u < v
  BY <1>0, ChunkIsLow
<1>2. /\ pass' = [pass EXCEPT !.todo = @ \ C, !.lastUid = l] /\ At("fetch")
      /\ rows' = [u \in Uids |-> IF \E m \in fetched : uid[m] = u
                                   THEN CHOOSE m \in fetched : uid[m] = u ELSE rows[u]]
  BY DEF FetchChunk
<1>3. pass.lastUid \in {0} \cup Uids
  BY DEF PassTypes, PassRec
<1>4. l \in seen /\ \A x \in seen : x <= l
  <2>1. \A x \in seen : x \in {0} \cup Uids
    BY <1>0, <1>3
  <2>2. \A x \in seen : x \in Nat /\ x <= Cardinality(Msgs)
    BY <2>1, <1>0 DEF Uids
  <2> QED
    BY <2>2, <1>0, MaxIsGreatest
<1>5. l \in {0} \cup Uids /\ pass.lastUid <= l
  BY <1>0, <1>3, <1>4
<1>6. l = pass.lastUid \/ \E m \in Live : uid[m] \in C /\ uid[m] = l
  BY <1>4
<1>7. \A m \in Live : uid[m] \in C => uid[m] <= l
  BY <1>4
<1>8. \A u \in Uids : \/ rows'[u] = rows[u]
                      \/ \E m \in fetched : uid[m] = u /\ rows'[u] = m
  <2> TAKE u \in Uids
  <2>1. CASE \E m \in fetched : uid[m] = u
    BY <1>2, <2>1
  <2>2. CASE ~ \E m \in fetched : uid[m] = u
    BY <1>2, <2>2
  <2> QED
    BY <2>1, <2>2
<1>9. \A m \in fetched : rows'[uid[m]] = m
  <2> TAKE m \in fetched
  <2>1. \A k \in fetched : uid[k] = uid[m] => k = m
    BY DEF Server, ServerInv
  <2>2. uid[m] \in Uids
    BY <1>0
  <2>3. rows'[uid[m]] = CHOOSE k \in fetched : uid[k] = uid[m]
    BY <1>2, <2>2
  <2> QED
    BY <2>1, <2>3
<1>10. rows' \in [Uids -> Msgs \cup {NoMsg}]
  <2>1. \A u \in Uids : rows'[u] \in Msgs \cup {NoMsg}
    BY <1>0, <1>8 DEF StoreTypes
  <2> QED
    BY <1>2, <2>1
<1>11. /\ \A m \in Live : uid[m] \in C => uid[m] <= l /\ rows'[uid[m]] = m
       /\ \A u \in Uids : rows'[u] = rows[u] \/ \E m \in Live : uid[m] = u /\ u \in C /\ rows'[u] = m
  BY <1>7, <1>8, <1>9
<1>12. Fetches(C, l)
  <2> HIDE DEF C, l, fetched, seen
  <2>1. pass' = [pass EXCEPT !.todo = @ \ C, !.lastUid = l] /\ At("fetch")
    BY <1>2
  <2> QED
    BY <1>1, <2>1, <1>5, <1>6, <1>10, <1>11 DEF Fetches
<1> QED
  BY <1>1, <1>5, <1>12

\* Each part of the types is kept.
LEMMA StoreKept == Types /\ StoreTypes /\ [Next]_vars => StoreTypes'
<1> SUFFICES ASSUME Types, StoreTypes, [Next]_vars PROVE StoreTypes'
  OBVIOUS
<1>0. /\ Cardinality(Msgs) \in Nat /\ nextUid \in 1..(Cardinality(Msgs) + 1)
      /\ incarnation \in 1..MaxIncarnation /\ \A m \in Live : uid[m] \in Uids /\ m \in Msgs
  BY UidsTyped DEF Types
<1> USE DEF StoreTypes
<1>1. CASE BeginFull
  BY <1>1 DEF BeginFull, serverVars, storeVars, Goto, At
<1>2. CASE SyncListed
  BY <1>2 DEF SyncListed, serverVars, storeVars, StartPass, At, NoPass, NoBox
<1>3. CASE SkipQuiet
  BY <1>3 DEF SkipQuiet, serverVars, storeVars, NoPass, At, NoBox
<1>4. CASE Reset
  <2>1. rows' \in [Uids -> Msgs \cup {NoMsg}] /\ dropped' \subseteq Msgs
    BY <1>4 DEF Reset
  <2>2. box' \in BoxRec
    BY <1>4 DEF Reset, BoxRec, PassTypes, PassRec, Types
  <2>3. UNCHANGED <<listed, cuts>>
    BY <1>4 DEF Reset
  <2> QED
    BY <2>1, <2>2, <2>3
<1>5. CASE FetchChunk
  <2>1. rows' \in [Uids -> Msgs \cup {NoMsg}]
    BY <1>5, FetchStep DEF Fetches, Types
  <2>2. UNCHANGED <<box, listed, cuts>> /\ dropped' \subseteq Msgs
    BY <1>5 DEF FetchChunk
  <2> QED
    BY <2>1, <2>2
<1>6. CASE DropExpunged
  BY <1>6 DEF DropExpunged, serverVars, Goto, At
<1>7. CASE Commit
  <2>1. box' = [validity |-> pass.validity, lastUid |-> pass.lastUid, uidNext |-> pass.next]
    BY <1>7 DEF Commit, Cursor
  <2>2. UNCHANGED <<rows, listed, dropped, cuts>>
    BY <1>7 DEF Commit
  <2> QED
    BY <2>1, <2>2 DEF BoxRec, PassTypes, PassRec, Types
<1>8. CASE Cut
  BY <1>8 DEF Cut, serverVars, storeVars, NoPass, NoBox
<1>9. CASE Restart
  BY <1>9 DEF Restart, serverVars, storeVars, NoPass, NoOp, NoBox
<1>10. CASE MoveLocation
  BY <1>10 DEF MoveLocation, serverVars, NoOp
<1>11. ASSUME NEW m \in Msgs, Arrive(m) \/ Expunge(m) \/ Ages(m) PROVE StoreTypes'
  <2>1. UNCHANGED <<box, listed, rows, dropped, cuts>>
    BY <1>11 DEF Arrive, localVars, storeVars, Expunge, Ages, storeVars
  <2> QED
    BY <2>1
<1>12. ASSUME NEW m \in Msgs, NEW kind \in Kinds, ReadMapping(m, kind) PROVE StoreTypes'
  <2>1. UNCHANGED <<box, listed, rows, dropped, cuts>>
    BY <1>12 DEF ReadMapping, opOnly, serverVars, storeVars
  <2> QED
    BY <2>1
<1>13. CASE Renumber \/ BeginRequested \/ Probe \/ ServicePending \/ Select \/ Search \/ Fetched
     \/ Reconcile \/ FetchFlags \/ ReconcileFails \/ ReconcileFallsDue \/ ReadMailbox \/
     SelectForStored \/ ActRemotely \/ OpFails \/ UNCHANGED vars
  <2>1. UNCHANGED <<box, listed, rows, dropped, cuts>>
    BY <1>13 DEF Renumber, localVars, storeVars, BeginRequested, serverVars, StartPass, At,
         NoPass, NoBox, Probe, ServicePending, Select, Search, passOnly, Fetched, Goto,
         Reconcile, FetchFlags, ReconcileFails, ReconcileFallsDue, ReadMailbox, opOnly,
         SelectForStored, NoOp, ActRemotely, OpFails, vars
  <2> QED
    BY <2>1
<1> QED
  BY <1>1, <1>2, <1>3, <1>4, <1>5, <1>6, <1>7, <1>8, <1>9, <1>10, <1>11, <1>12, <1>13 DEF Next,
       ServerStep, BeginStep, PassStep, OpStep

LEMMA PassKept == Types /\ PassTypes /\ [Next]_vars => PassTypes'
<1> SUFFICES ASSUME Types, PassTypes, [Next]_vars PROVE PassTypes'
  OBVIOUS
<1>0. /\ Cardinality(Msgs) \in Nat /\ nextUid \in 1..(Cardinality(Msgs) + 1)
      /\ incarnation \in 1..MaxIncarnation /\ \A m \in Live : uid[m] \in Uids /\ m \in Msgs
  BY UidsTyped DEF Types
<1>1. CASE BeginFull
  BY <1>1, <1>0 DEF BeginFull, serverVars, storeVars, Goto, At, PassTypes, PassRec, Selected
<1>2. CASE BeginRequested
  <2>1. NoPass \in PassRec
    BY <1>0 DEF PassRec, BoxRec, NoPass, NoBox, Selected
  <2> QED
    BY <1>2, <2>1 DEF BeginRequested, StartPass, PassTypes, PassRec, StoreTypes, Types
<1>3. CASE Probe
  <2>1. NoPass \in PassRec
    BY <1>0 DEF PassRec, BoxRec, NoPass, NoBox, Selected
  <2> QED
    BY <1>3, <2>1 DEF Probe, StartPass, PassTypes, PassRec, StoreTypes, Types
<1>4. CASE ServicePending
  <2>1. NoPass \in PassRec
    BY <1>0 DEF PassRec, BoxRec, NoPass, NoBox, Selected
  <2> QED
    BY <1>4, <2>1 DEF ServicePending, StartPass, PassTypes, PassRec, StoreTypes, Types
<1>5. CASE SyncListed
  <2>1. NoPass \in PassRec
    BY <1>0 DEF PassRec, BoxRec, NoPass, NoBox, Selected
  <2>2. PICK row \in listed : pass' = [NoPass EXCEPT !.pc = "loaded", !.box = row, !.skip = FALSE]
    BY <1>5 DEF SyncListed, StartPass
  <2>3. row \in BoxRec
    BY DEF Types, StoreTypes
  <2> QED
    BY <2>1, <2>2, <2>3 DEF PassTypes, PassRec
<1>6. CASE SkipQuiet
  BY <1>6, <1>0 DEF SkipQuiet, PassTypes, PassRec, Selected, BoxRec, NoPass, NoBox
<1>7. CASE Select
  <2>1. NoBox \in BoxRec /\ pass.box \in BoxRec
    BY <1>0 DEF BoxRec, NoBox, PassTypes, PassRec, Types
  <2>2. pass.box.lastUid \in {0} \cup Uids
    BY <2>1 DEF BoxRec
  <2>3. PICK pc \in Selected : pass' = [pass EXCEPT !.pc = pc, !.validity = incarnation,
                                         !.next = nextUid, !.lastUid = pass.box.lastUid, !.box = NoBox]
    BY <1>7 DEF Select, Selected
  <2>4. incarnation \in 0..MaxIncarnation /\ nextUid \in 0..(Cardinality(Msgs) + 1)
    BY <1>0
  <2>5. pass \in PassRec
    BY DEF PassTypes, Types
  <2> QED
    BY <2>1, <2>2, <2>3, <2>4, <2>5 DEF PassTypes, PassRec
<1>8. CASE Reset
  BY <1>8, <1>0 DEF Reset, Goto, PassTypes, PassRec, Selected, Types
<1>9. CASE Search
  <2>1. NewUids \subseteq Uids
    BY <1>0 DEF NewUids
  <2> QED
    BY <1>9, <2>1 DEF Search, PassTypes, PassRec, Selected, Types
<1>10. CASE FetchChunk
  <2>1. PICK C \in SUBSET pass.todo, l \in {0} \cup Uids : Fetches(C, l)
    BY <1>10, FetchStep
  <2> QED
    BY <2>1 DEF Fetches, PassTypes, PassRec, Types
<1>11. CASE Fetched
  BY <1>11, <1>0 DEF Fetched, Goto, PassTypes, PassRec, Selected, Types
<1>12. CASE Reconcile
  BY <1>12, <1>0 DEF Reconcile, Goto, PassTypes, PassRec, Selected, Types
<1>13. CASE FetchFlags
  BY <1>13, <1>0 DEF FetchFlags, Goto, Answer, PassTypes, PassRec, Selected, Types
<1>14. CASE DropExpunged
  BY <1>14, <1>0 DEF DropExpunged, Goto, PassTypes, PassRec, Selected, Types
<1>15. CASE ReconcileFails
  BY <1>15, <1>0 DEF ReconcileFails, Goto, PassTypes, PassRec, Selected, Types
<1>16. CASE Commit
  <2>1. NoPass \in PassRec
    BY <1>0 DEF PassRec, BoxRec, NoPass, NoBox, Selected
  <2>2. \E pc \in {"session", "idle"} : pass' = [NoPass EXCEPT !.pc = pc]
    BY <1>16 DEF Commit
  <2> QED
    BY <2>1, <2>2 DEF PassTypes, PassRec
<1>17. CASE Cut
  BY <1>17, <1>0 DEF Cut, PassTypes, PassRec, Selected, BoxRec, NoPass, NoBox
<1>18. CASE Restart
  BY <1>18, <1>0 DEF Restart, PassTypes, PassRec, Selected, BoxRec, NoPass, NoBox
<1>19. ASSUME NEW m \in Msgs, Arrive(m) \/ Expunge(m) \/ Ages(m) PROVE PassTypes'
  <2>1. UNCHANGED <<pass>>
    BY <1>19 DEF Arrive, localVars, storeVars, Expunge, Ages, storeVars
  <2> QED
    BY <2>1 DEF PassTypes, Types
<1>20. ASSUME NEW m \in Msgs, NEW kind \in Kinds, ReadMapping(m, kind) PROVE PassTypes'
  <2>1. UNCHANGED <<pass>>
    BY <1>20 DEF ReadMapping, opOnly, serverVars, storeVars
  <2> QED
    BY <2>1 DEF PassTypes, Types
<1>21. CASE Renumber \/ ReconcileFallsDue \/ ReadMailbox \/ SelectForStored \/ ActRemotely \/
     MoveLocation \/ OpFails \/ UNCHANGED vars
  <2>1. UNCHANGED <<pass>>
    BY <1>21 DEF Renumber, localVars, storeVars, ReconcileFallsDue, serverVars, ReadMailbox,
         opOnly, SelectForStored, NoOp, ActRemotely, MoveLocation, OpFails, vars
  <2> QED
    BY <2>1 DEF PassTypes, Types
<1> QED
  BY <1>1, <1>2, <1>3, <1>4, <1>5, <1>6, <1>7, <1>8, <1>9, <1>10, <1>11, <1>12, <1>13, <1>14,
       <1>15, <1>16, <1>17, <1>18, <1>19, <1>20, <1>21 DEF Next, ServerStep, BeginStep,
       PassStep, OpStep

LEMMA OpKept == Types /\ OpTypes /\ [Next]_vars => OpTypes'
<1> SUFFICES ASSUME Types, OpTypes, [Next]_vars PROVE OpTypes'
  OBVIOUS
<1>1. CASE Restart
  BY <1>1 DEF Restart, opOnly, NoOp, OpTypes, OpRec, StoreTypes, BoxRec, Types
<1>2. ASSUME NEW m \in Msgs, NEW kind \in Kinds, ReadMapping(m, kind) PROVE OpTypes'
  <2>1. PICK u \in Uids : op' = [NoOp EXCEPT !.pc = "mapped", !.kind = kind, !.msg = m, !.uid = u,
                                          !.seen = box.validity]
    BY <1>2 DEF ReadMapping, Stored
  <2>2. UNCHANGED stray
    BY <1>2 DEF ReadMapping
  <2>3. NoOp \in OpRec
    BY DEF NoOp, OpRec
  <2>4. box.validity \in 0..MaxIncarnation /\ kind \in {"flag", "move", "attachment"}
    BY DEF StoreTypes, BoxRec, Types
  <2> QED
    BY <2>1, <2>2, <2>3, <2>4 DEF OpTypes, OpRec, Types
<1>3. CASE ReadMailbox
  BY <1>3 DEF ReadMailbox, opOnly, NoOp, OpTypes, OpRec, StoreTypes, BoxRec, Types
<1>4. CASE SelectForStored
  BY <1>4 DEF SelectForStored, opOnly, NoOp, OpTypes, OpRec, StoreTypes, BoxRec, Types
<1>5. CASE ActRemotely
  <2>1. stray' \subseteq {"unchecked", "torn", "blind", "unexplained"}
    BY <1>5 DEF ActRemotely, Cause, Types, OpTypes
  <2>2. op' \in OpRec
    BY <1>5 DEF ActRemotely, Types, OpTypes, OpRec, NoOp
  <2> QED
    BY <2>1, <2>2 DEF OpTypes
<1>6. CASE MoveLocation
  BY <1>6 DEF MoveLocation, opOnly, NoOp, OpTypes, OpRec, StoreTypes, BoxRec, Types
<1>7. CASE OpFails
  BY <1>7 DEF OpFails, opOnly, NoOp, OpTypes, OpRec, StoreTypes, BoxRec, Types
<1>8. ASSUME NEW m \in Msgs, Arrive(m) \/ Expunge(m) \/ Ages(m) PROVE OpTypes'
  <2>1. UNCHANGED <<op, stray>>
    BY <1>8 DEF Arrive, localVars, storeVars, Expunge, Ages, storeVars
  <2> QED
    BY <2>1 DEF OpTypes, Types
<1>9. CASE Renumber \/ BeginFull \/ BeginRequested \/ Probe \/ ServicePending \/ SyncListed \/
     SkipQuiet \/ Select \/ Reset \/ Search \/ FetchChunk \/ Fetched \/ Reconcile \/ FetchFlags
     \/ DropExpunged \/ ReconcileFails \/ Commit \/ ReconcileFallsDue \/ Cut \/ UNCHANGED vars
  <2>1. UNCHANGED <<op, stray>>
    BY <1>9 DEF Renumber, localVars, storeVars, BeginFull, serverVars, Goto, At, BeginRequested,
         StartPass, NoPass, NoBox, Probe, ServicePending, SyncListed, SkipQuiet, Select, Reset,
         Search, passOnly, FetchChunk, Fetched, Reconcile, FetchFlags, DropExpunged,
         ReconcileFails, Commit, ReconcileFallsDue, Cut, vars
  <2> QED
    BY <2>1 DEF OpTypes, Types
<1> QED
  BY <1>1, <1>2, <1>3, <1>4, <1>5, <1>6, <1>7, <1>8, <1>9 DEF Next, ServerStep, BeginStep,
       PassStep, OpStep

LEMMA LockKept == PassTypes /\ OpTypes /\ LockInv /\ [Next]_vars => LockInv'
<1> SUFFICES ASSUME PassTypes, OpTypes, LockInv, [Next]_vars PROVE LockInv'
  OBVIOUS
<1> USE DEF LockInv, PassTypes, PassRec, OpTypes, OpRec
<1>1. CASE BeginFull
  <2>1. pass'.pc = "session" /\ pass.pc = "idle" /\ cmdMu = "free" /\ cmdMu' = "sync" /\ op' =
       op
    BY <1>1 DEF BeginFull, At, Goto, passOnly, PassTypes, PassRec
  <2> QED
    BY <2>1
<1>2. CASE BeginRequested
  BY <1>2 DEF BeginRequested, StartPass, At, Goto, NoPass, NoOp, opOnly, passOnly, Selected
<1>3. CASE Probe
  BY <1>3 DEF Probe, StartPass, At, Goto, NoPass, NoOp, opOnly, passOnly, Selected
<1>4. CASE ServicePending
  BY <1>4 DEF ServicePending, StartPass, At, Goto, NoPass, NoOp, opOnly, passOnly, Selected
<1>5. CASE SyncListed
  BY <1>5 DEF SyncListed, StartPass, At, Goto, NoPass, NoOp, opOnly, passOnly, Selected
<1>6. CASE SkipQuiet
  BY <1>6 DEF SkipQuiet, At, Goto, NoPass, NoOp, opOnly, passOnly, Selected
<1>7. CASE Select
  <2>1. pass'.pc \in {"reset", "search"} /\ pass.pc # "idle" /\ UNCHANGED <<cmdMu, op>>
    BY <1>7 DEF Select, At, Goto, passOnly, PassTypes, PassRec
  <2> QED
    BY <2>1
<1>8. CASE Reset
  <2>1. pass'.pc = "search" /\ pass.pc # "idle" /\ UNCHANGED <<cmdMu, op>>
    BY <1>8 DEF Reset, At, Goto, passOnly, PassTypes, PassRec
  <2> QED
    BY <2>1
<1>9. CASE Search
  <2>1. pass'.pc = "fetch" /\ pass.pc # "idle" /\ UNCHANGED <<cmdMu, op>>
    BY <1>9 DEF Search, At, Goto, passOnly, PassTypes, PassRec
  <2> QED
    BY <2>1
<1>10. CASE FetchChunk
  <2>1. pass'.pc = pass.pc /\ UNCHANGED <<cmdMu, op>>
    BY <1>10 DEF FetchChunk, PassTypes, PassRec
  <2> QED
    BY <2>1
<1>11. CASE Fetched
  <2>1. pass'.pc \in {"cursor", "reconcile"} /\ pass.pc # "idle" /\ UNCHANGED <<cmdMu, op>>
    BY <1>11 DEF Fetched, At, Goto, passOnly, PassTypes, PassRec
  <2> QED
    BY <2>1
<1>12. CASE Reconcile
  <2>1. pass'.pc = "flags" /\ pass.pc # "idle" /\ UNCHANGED <<cmdMu, op>>
    BY <1>12 DEF Reconcile, At, Goto, passOnly, PassTypes, PassRec
  <2> QED
    BY <2>1
<1>13. CASE FetchFlags
  <2>1. pass'.pc = "expunge" /\ pass.pc # "idle" /\ UNCHANGED <<cmdMu, op>>
    BY <1>13 DEF FetchFlags, At, Goto, passOnly, PassTypes, PassRec
  <2> QED
    BY <2>1
<1>14. CASE DropExpunged
  <2>1. pass'.pc = "cursor" /\ pass.pc # "idle" /\ UNCHANGED <<cmdMu, op>>
    BY <1>14 DEF DropExpunged, At, Goto, passOnly, PassTypes, PassRec
  <2> QED
    BY <2>1
<1>15. CASE ReconcileFails
  <2>1. pass'.pc = "cursor" /\ pass.pc # "idle" /\ UNCHANGED <<cmdMu, op>>
    BY <1>15 DEF ReconcileFails, At, Goto, passOnly, PassTypes, PassRec
  <2> QED
    BY <2>1
<1>16. CASE Commit
  BY <1>16 DEF Commit, At, Goto, NoPass, NoOp, opOnly, passOnly, Selected
<1>17. CASE Cut
  BY <1>17 DEF Cut, At, Goto, NoPass, NoOp, opOnly, passOnly, Selected
<1>18. CASE Restart
  BY <1>18 DEF Restart, At, Goto, NoPass, NoOp, opOnly, passOnly, Selected
<1>19. ASSUME NEW m \in Msgs, NEW kind \in Kinds, ReadMapping(m, kind) PROVE LockInv'
  BY <1>19 DEF ReadMapping, At, Goto, NoPass, NoOp, opOnly, passOnly, Selected
<1>20. CASE ReadMailbox
  BY <1>20 DEF ReadMailbox, At, Goto, NoPass, NoOp, opOnly, passOnly, Selected
<1>21. CASE SelectForStored
  BY <1>21 DEF SelectForStored, At, Goto, NoPass, NoOp, opOnly, passOnly, Selected
<1>22. CASE ActRemotely
  <2>1. /\ op.pc = "selected" /\ UNCHANGED pass /\ cmdMu' \in {"user", "free"}
        /\ cmdMu' = "user" <=> op'.pc = "moved"
        /\ op'.pc \in {"none", "moved"}
    BY <1>22 DEF ActRemotely, OpTypes, OpRec, NoOp
  <2> QED
    BY <2>1
<1>23. CASE MoveLocation
  BY <1>23 DEF MoveLocation, At, Goto, NoPass, NoOp, opOnly, passOnly, Selected
<1>24. CASE OpFails
  BY <1>24 DEF OpFails, At, Goto, NoPass, NoOp, opOnly, passOnly, Selected
<1>25. ASSUME NEW m \in Msgs, Arrive(m) \/ Expunge(m) \/ Ages(m) PROVE LockInv'
  <2>1. UNCHANGED <<cmdMu, pass, op>>
    BY <1>25 DEF Arrive, localVars, storeVars, Expunge, Ages, storeVars
  <2> QED
    BY <2>1
<1>26. CASE Renumber \/ ReconcileFallsDue \/ UNCHANGED vars
  <2>1. UNCHANGED <<cmdMu, pass, op>>
    BY <1>26 DEF Renumber, localVars, storeVars, ReconcileFallsDue, serverVars, vars
  <2> QED
    BY <2>1
<1> QED
  BY <1>1, <1>2, <1>3, <1>4, <1>5, <1>6, <1>7, <1>8, <1>9, <1>10, <1>11, <1>12, <1>13, <1>14,
       <1>15, <1>16, <1>17, <1>18, <1>19, <1>20, <1>21, <1>22, <1>23, <1>24, <1>25, <1>26 DEF
       Next, ServerStep, BeginStep, PassStep, OpStep

-----------------------------------------------------------------------------
(* Where things stand: copies of the row are no newer than the row, a      *)
(* selected mailbox keeps its UIDVALIDITY, an operation that was let       *)
(* through carries the current one.                                        *)

Known == {box, pass.box} \cup listed

RowInv ==
  /\ box.validity <= incarnation
  /\ \A row \in Known : row.validity <= box.validity /\ (row.validity = 0 => row.lastUid = 0)
  /\ At("loaded") => \A row \in listed : row.validity <= pass.box.validity
  /\ At("reset") => \A row \in listed \cup {pass.box} : row.validity # incarnation
SelectedInv ==
  /\ pass.pc \in Selected => pass.validity = incarnation /\ pass.next <= nextUid
  /\ At("fetch") => \A u \in pass.todo : u < nextUid
OpInv ==
  /\ op.seen <= incarnation /\ op.validity <= incarnation
  /\ op.pc = "selected" /\ op.kind # "attachment" => op.validity \in {0, incarnation}
  /\ op.pc # "none" => op.msg \in Msgs \ unborn
  /\ \A u \in Uids : rows[u] \notin unborn
PlaceInv == RowInv /\ SelectedInv /\ OpInv

LEMMA RowKept == Types /\ SelectedInv /\ RowInv /\ [Next]_vars => RowInv'
<1> SUFFICES ASSUME Types, SelectedInv, RowInv, [Next]_vars PROVE RowInv'
  OBVIOUS
<1>0. /\ incarnation \in 1..MaxIncarnation /\ pass \in PassRec /\ pass.box \in BoxRec
      /\ box \in BoxRec /\ listed \subseteq BoxRec
  BY UidsTyped DEF Types, StoreTypes, PassTypes, PassRec
<1> USE DEF RowInv
<1>1. CASE Renumber
  <2>1. incarnation' = incarnation + 1 /\ UNCHANGED <<box, listed, pass>> /\ pass.pc # "reset"
    BY <1>1 DEF Renumber, localVars, storeVars, Selected
  <2> QED
    BY <1>0, <2>1 DEF At, Known, BoxRec
<1>2. CASE BeginFull
  <2>1. pass'.pc = "session" /\ pass'.box = pass.box /\ listed' = {box} /\ UNCHANGED <<box, incarnation>>
    BY <1>2, <1>0 DEF BeginFull, Goto, PassRec, serverVars, storeVars
  <2> QED
    BY <2>1 DEF At, Known
<1>3. CASE BeginRequested
  <2>1. pass'.pc = "loaded" /\ pass'.box = box /\ UNCHANGED <<box, incarnation, listed>>
    BY <1>3 DEF BeginRequested, StartPass, NoPass, serverVars, storeVars
  <2> QED
    BY <2>1 DEF At, Known
<1>4. CASE Probe
  <2>1. pass'.pc = "loaded" /\ pass'.box = box /\ UNCHANGED <<box, incarnation, listed>>
    BY <1>4 DEF Probe, StartPass, NoPass, serverVars, storeVars
  <2> QED
    BY <2>1 DEF At, Known
<1>5. CASE ServicePending
  <2>1. pass'.pc = "loaded" /\ pass'.box = box /\ UNCHANGED <<box, incarnation, listed>>
    BY <1>5 DEF ServicePending, StartPass, NoPass, serverVars, storeVars
  <2> QED
    BY <2>1 DEF At, Known
<1>6. CASE SyncListed
  <2>1. PICK row \in listed : pass' = [NoPass EXCEPT !.pc = "loaded", !.box = row, !.skip = FALSE]
    BY <1>6 DEF SyncListed, StartPass
  <2>2. pass'.pc = "loaded" /\ pass'.box = row /\ listed' = {} /\ UNCHANGED <<box, incarnation>>
    BY <1>6, <2>1 DEF SyncListed, NoPass, serverVars, storeVars
  <2> QED
    BY <2>2 DEF At, Known
<1>7. CASE SkipQuiet
  <2>1. pass'.pc = "idle" /\ pass'.box = [validity |-> 0, lastUid |-> 0, uidNext |-> 0] /\
       listed' = {} /\ UNCHANGED <<box, incarnation>>
    BY <1>7 DEF SkipQuiet, NoPass, NoBox, serverVars, storeVars
  <2> QED
    BY <1>0, <2>1 DEF At, Known, BoxRec
<1>8. CASE Select
  <2>1. /\ pass'.box = [validity |-> 0, lastUid |-> 0, uidNext |-> 0] /\ UNCHANGED <<box, listed, incarnation>>
        /\ At("loaded") /\ pass'.pc \in {"reset", "search"}
        /\ pass'.pc = "reset" => pass.box.validity # 0 /\ pass.box.validity # incarnation
    BY <1>8, <1>0 DEF Select, NoBox, Renumbered, serverVars, storeVars, PassRec
  <2>2. \A row \in listed : row.validity \in Nat /\ pass.box.validity \in Nat /\ box.validity \in Nat
    BY <1>0 DEF BoxRec
  <2>3. pass'.pc = "reset" => \A row \in listed \cup {pass'.box} : row.validity # incarnation
    BY <1>0, <2>1, <2>2 DEF Known
  <2> QED
    BY <1>0, <2>1, <2>3 DEF At, Known, BoxRec
<1>9. CASE Reset
  <2>1. /\ pass.validity = incarnation /\ pass'.box = pass.box /\ pass'.pc = "search"
        /\ box'.validity = incarnation /\ box'.lastUid = 0
        /\ UNCHANGED <<listed, incarnation>>
    BY <1>9, <1>0 DEF Reset, At, Selected, SelectedInv, serverVars, PassRec, BoxRec
  <2> QED
    BY <1>0, <2>1 DEF At, Known, BoxRec
<1>10. CASE Search
  <2>1. pass'.pc = "fetch" /\ pass'.box = pass.box /\ UNCHANGED <<box, listed, incarnation>>
    BY <1>10, <1>0 DEF Search, At, Goto, passOnly, serverVars, storeVars, PassRec
  <2> QED
    BY <2>1 DEF At, Known
<1>11. CASE FetchChunk
  <2>1. pass'.pc = "fetch" /\ pass.pc = "fetch" /\ pass'.box = pass.box /\ UNCHANGED <<box,
       listed, incarnation>>
    BY <1>11, <1>0 DEF FetchChunk, At, Goto, passOnly, serverVars, storeVars, PassRec
  <2> QED
    BY <2>1 DEF At, Known
<1>12. CASE Fetched
  <2>1. pass'.pc \in {"cursor", "reconcile"} /\ pass'.box = pass.box /\ UNCHANGED <<box, listed,
       incarnation>>
    BY <1>12, <1>0 DEF Fetched, At, Goto, passOnly, serverVars, storeVars, PassRec
  <2> QED
    BY <2>1 DEF At, Known
<1>13. CASE Reconcile
  <2>1. pass'.pc = "flags" /\ pass'.box = pass.box /\ UNCHANGED <<box, listed, incarnation>>
    BY <1>13, <1>0 DEF Reconcile, At, Goto, passOnly, serverVars, storeVars, PassRec
  <2> QED
    BY <2>1 DEF At, Known
<1>14. CASE FetchFlags
  <2>1. pass'.pc = "expunge" /\ pass'.box = pass.box /\ UNCHANGED <<box, listed, incarnation>>
    BY <1>14, <1>0 DEF FetchFlags, At, Goto, passOnly, serverVars, storeVars, PassRec
  <2> QED
    BY <2>1 DEF At, Known
<1>15. CASE DropExpunged
  <2>1. pass'.pc = "cursor" /\ pass'.box = pass.box /\ UNCHANGED <<box, listed, incarnation>>
    BY <1>15, <1>0 DEF DropExpunged, At, Goto, passOnly, serverVars, storeVars, PassRec
  <2> QED
    BY <2>1 DEF At, Known
<1>16. CASE ReconcileFails
  <2>1. pass'.pc = "cursor" /\ pass'.box = pass.box /\ UNCHANGED <<box, listed, incarnation>>
    BY <1>16, <1>0 DEF ReconcileFails, At, Goto, passOnly, serverVars, storeVars, PassRec
  <2> QED
    BY <2>1 DEF At, Known
<1>17. CASE Commit
  <2>1. /\ pass.validity = incarnation /\ box'.validity = incarnation
        /\ pass'.pc \in {"session", "idle"}
        /\ pass'.box = [validity |-> 0, lastUid |-> 0, uidNext |-> 0]
        /\ UNCHANGED <<listed, incarnation>>
    BY <1>17 DEF Commit, At, Selected, SelectedInv, serverVars, NoPass, NoBox, Cursor
  <2> QED
    BY <1>0, <2>1 DEF At, Known, BoxRec
<1>18. CASE Cut
  <2>1. pass'.pc = "idle" /\ pass'.box = [validity |-> 0, lastUid |-> 0, uidNext |-> 0] /\
       listed' = {} /\ UNCHANGED <<box, incarnation>>
    BY <1>18 DEF Cut, NoPass, NoBox, serverVars, storeVars
  <2> QED
    BY <1>0, <2>1 DEF At, Known, BoxRec
<1>19. CASE Restart
  <2>1. pass'.pc = "idle" /\ pass'.box = [validity |-> 0, lastUid |-> 0, uidNext |-> 0] /\
       listed' = {} /\ UNCHANGED <<box, incarnation>>
    BY <1>19 DEF Restart, NoPass, NoBox, serverVars, storeVars
  <2> QED
    BY <1>0, <2>1 DEF At, Known, BoxRec
<1>20. ASSUME NEW m \in Msgs, Arrive(m) \/ Expunge(m) \/ Ages(m) PROVE RowInv'
  <2>1. UNCHANGED <<box, pass, listed, incarnation>>
    BY <1>20 DEF Arrive, localVars, storeVars, Expunge, Ages, storeVars
  <2> QED
    BY <2>1 DEF At, Known
<1>21. ASSUME NEW m \in Msgs, NEW kind \in Kinds, ReadMapping(m, kind) PROVE RowInv'
  <2>1. UNCHANGED <<box, pass, listed, incarnation>>
    BY <1>21 DEF ReadMapping, opOnly, serverVars, storeVars
  <2> QED
    BY <2>1 DEF At, Known
<1>22. CASE ReconcileFallsDue \/ ReadMailbox \/ SelectForStored \/ ActRemotely \/ MoveLocation
     \/ OpFails \/ UNCHANGED vars
  <2>1. UNCHANGED <<box, pass, listed, incarnation>>
    BY <1>22 DEF ReconcileFallsDue, serverVars, storeVars, ReadMailbox, opOnly, SelectForStored,
         NoOp, ActRemotely, MoveLocation, OpFails, vars
  <2> QED
    BY <2>1 DEF At, Known
<1> QED
  BY <1>1, <1>2, <1>3, <1>4, <1>5, <1>6, <1>7, <1>8, <1>9, <1>10, <1>11, <1>12, <1>13, <1>14,
       <1>15, <1>16, <1>17, <1>18, <1>19, <1>20, <1>21, <1>22 DEF Next, ServerStep, BeginStep,
       PassStep, OpStep

LEMMA SelectedKept == Types /\ SelectedInv /\ [Next]_vars => SelectedInv'
<1> SUFFICES ASSUME Types, SelectedInv, [Next]_vars PROVE SelectedInv'
  OBVIOUS
<1>0. /\ incarnation \in 1..MaxIncarnation /\ pass \in PassRec /\ pass.box \in BoxRec
      /\ box \in BoxRec /\ listed \subseteq BoxRec
  BY UidsTyped DEF Types, StoreTypes, PassTypes, PassRec
<1> USE DEF SelectedInv
<1>1. ASSUME NEW m \in Msgs, Arrive(m) PROVE SelectedInv'
  <2>1. UNCHANGED <<pass, incarnation>> /\ nextUid' = nextUid + 1
    BY <1>1 DEF Arrive, localVars
  <2>2. pass.next \in Nat /\ nextUid \in Nat /\ pass.todo \subseteq Nat
    BY <1>0, UidsTyped DEF PassRec, Types, Uids
  <2> QED
    BY <2>1, <2>2 DEF At
<1>2. CASE Renumber
  <2>1. UNCHANGED pass /\ pass.pc \notin Selected
    BY <1>2 DEF Renumber, localVars
  <2> QED
    BY <2>1 DEF At, Selected
<1>3. CASE BeginFull
  <2>1. pass'.pc = "session"
    BY <1>3, <1>0 DEF BeginFull, Goto, StartPass, NoPass, PassRec
  <2> QED
    BY <2>1 DEF At, Selected
<1>4. CASE BeginRequested
  <2>1. pass'.pc = "loaded"
    BY <1>4, <1>0 DEF BeginRequested, Goto, StartPass, NoPass, PassRec
  <2> QED
    BY <2>1 DEF At, Selected
<1>5. CASE Probe
  <2>1. pass'.pc = "loaded"
    BY <1>5, <1>0 DEF Probe, Goto, StartPass, NoPass, PassRec
  <2> QED
    BY <2>1 DEF At, Selected
<1>6. CASE ServicePending
  <2>1. pass'.pc = "loaded"
    BY <1>6, <1>0 DEF ServicePending, Goto, StartPass, NoPass, PassRec
  <2> QED
    BY <2>1 DEF At, Selected
<1>7. CASE SyncListed
  <2>1. pass'.pc = "loaded"
    BY <1>7, <1>0 DEF SyncListed, Goto, StartPass, NoPass, PassRec
  <2> QED
    BY <2>1 DEF At, Selected
<1>8. CASE SkipQuiet
  <2>1. pass'.pc = "idle"
    BY <1>8, <1>0 DEF SkipQuiet, Goto, StartPass, NoPass, PassRec
  <2> QED
    BY <2>1 DEF At, Selected
<1>9. CASE Select
  <2>1. pass'.pc # "fetch" /\ pass'.validity = incarnation /\ pass'.next = nextUid /\ UNCHANGED <<incarnation, nextUid>>
    BY <1>9, <1>0 DEF Select, serverVars, PassRec
  <2>2. nextUid \in Nat
    BY UidsTyped DEF Types
  <2> QED
    BY <2>1, <2>2 DEF At
<1>10. CASE Reset
  <2>1. pass.pc = "reset" /\ pass'.pc # "fetch" /\ pass'.validity = pass.validity /\ pass'.next = pass.next
        /\ UNCHANGED <<incarnation, nextUid>>
    BY <1>10, <1>0 DEF Reset, At, Goto, passOnly, serverVars, PassRec
  <2> QED
    BY <2>1 DEF At, Selected
<1>11. CASE Search
  <2>1. /\ pass.pc = "search" /\ pass'.validity = pass.validity /\ pass'.next = pass.next
        /\ pass'.todo = NewUids /\ UNCHANGED <<incarnation, nextUid>>
    BY <1>11, <1>0 DEF Search, At, passOnly, serverVars, PassRec
  <2>2. \A u \in NewUids : u < nextUid
    BY UidsTyped DEF NewUids, Types
  <2> QED
    BY <2>1, <2>2 DEF At, Selected
<1>12. CASE FetchChunk
  <2>1. PICK C \in SUBSET pass.todo, l \in {0} \cup Uids : Fetches(C, l)
    BY <1>12, FetchStep
  <2>2. /\ pass.pc = "fetch" /\ pass'.validity = pass.validity /\ pass'.next = pass.next
        /\ pass'.todo \subseteq pass.todo
    BY <1>0, <2>1 DEF Fetches, At, PassRec
  <2>3. UNCHANGED <<incarnation, nextUid>>
    BY <1>12 DEF FetchChunk, serverVars
  <2> QED
    BY <2>2, <2>3 DEF At, Selected
<1>13. CASE Fetched
  <2>1. pass.pc = "fetch" /\ pass'.pc # "fetch" /\ pass'.validity = pass.validity /\ pass'.next = pass.next
        /\ UNCHANGED <<incarnation, nextUid>>
    BY <1>13, <1>0 DEF Fetched, At, Goto, passOnly, serverVars, PassRec
  <2> QED
    BY <2>1 DEF At, Selected
<1>14. CASE Reconcile
  <2>1. pass.pc = "reconcile" /\ pass'.pc # "fetch" /\ pass'.validity = pass.validity /\ pass'.next = pass.next
        /\ UNCHANGED <<incarnation, nextUid>>
    BY <1>14, <1>0 DEF Reconcile, At, Goto, passOnly, serverVars, PassRec
  <2> QED
    BY <2>1 DEF At, Selected
<1>15. CASE FetchFlags
  <2>1. pass.pc = "flags" /\ pass'.pc # "fetch" /\ pass'.validity = pass.validity /\ pass'.next = pass.next
        /\ UNCHANGED <<incarnation, nextUid>>
    BY <1>15, <1>0 DEF FetchFlags, At, Goto, passOnly, serverVars, PassRec
  <2> QED
    BY <2>1 DEF At, Selected
<1>16. CASE DropExpunged
  <2>1. pass.pc = "expunge" /\ pass'.pc # "fetch" /\ pass'.validity = pass.validity /\ pass'.next = pass.next
        /\ UNCHANGED <<incarnation, nextUid>>
    BY <1>16, <1>0 DEF DropExpunged, At, Goto, passOnly, serverVars, PassRec
  <2> QED
    BY <2>1 DEF At, Selected
<1>17. CASE ReconcileFails
  <2>1. pass.pc \in {"reconcile", "flags", "expunge"} /\ pass'.pc # "fetch" /\ pass'.validity = pass.validity /\ pass'.next = pass.next
        /\ UNCHANGED <<incarnation, nextUid>>
    BY <1>17, <1>0 DEF ReconcileFails, At, Goto, passOnly, serverVars, PassRec
  <2> QED
    BY <2>1 DEF At, Selected
<1>18. CASE Commit
  <2>1. pass'.pc \in {"session", "idle"}
    BY <1>18, <1>0 DEF Commit, Goto, StartPass, NoPass, PassRec
  <2> QED
    BY <2>1 DEF At, Selected
<1>19. CASE Cut
  <2>1. pass'.pc = "idle"
    BY <1>19, <1>0 DEF Cut, Goto, StartPass, NoPass, PassRec
  <2> QED
    BY <2>1 DEF At, Selected
<1>20. CASE Restart
  <2>1. pass'.pc = "idle"
    BY <1>20, <1>0 DEF Restart, Goto, StartPass, NoPass, PassRec
  <2> QED
    BY <2>1 DEF At, Selected
<1>21. ASSUME NEW m \in Msgs, Expunge(m) \/ Ages(m) PROVE SelectedInv'
  <2>1. UNCHANGED <<pass, incarnation, nextUid>>
    BY <1>21 DEF Expunge, localVars, storeVars, Ages, storeVars
  <2> QED
    BY <2>1 DEF At
<1>22. ASSUME NEW m \in Msgs, NEW kind \in Kinds, ReadMapping(m, kind) PROVE SelectedInv'
  <2>1. UNCHANGED <<pass, incarnation, nextUid>>
    BY <1>22 DEF ReadMapping, opOnly, serverVars, storeVars
  <2> QED
    BY <2>1 DEF At
<1>23. CASE ReconcileFallsDue \/ ReadMailbox \/ SelectForStored \/ ActRemotely \/ MoveLocation
     \/ OpFails \/ UNCHANGED vars
  <2>1. UNCHANGED <<pass, incarnation, nextUid>>
    BY <1>23 DEF ReconcileFallsDue, serverVars, storeVars, ReadMailbox, opOnly, SelectForStored,
         NoOp, ActRemotely, MoveLocation, OpFails, vars
  <2> QED
    BY <2>1 DEF At
<1> QED
  BY <1>1, <1>2, <1>3, <1>4, <1>5, <1>6, <1>7, <1>8, <1>9, <1>10, <1>11, <1>12, <1>13, <1>14,
       <1>15, <1>16, <1>17, <1>18, <1>19, <1>20, <1>21, <1>22, <1>23 DEF Next, ServerStep,
       BeginStep, PassStep, OpStep

LEMMA OpPlaceKept == Types /\ RowInv /\ OpInv /\ [Next]_vars => OpInv'
<1> SUFFICES ASSUME Types, RowInv, OpInv, [Next]_vars PROVE OpInv'
  OBVIOUS
<1>0. incarnation \in 1..MaxIncarnation /\ op \in OpRec /\ box \in BoxRec
  BY UidsTyped DEF Types, OpTypes, StoreTypes
<1> USE DEF OpInv
<1>1. ASSUME NEW m \in Msgs, Arrive(m) PROVE OpInv'
  <2>1. unborn' \subseteq unborn /\ UNCHANGED <<op, rows, incarnation>>
    BY <1>1 DEF Arrive, localVars, storeVars
  <2> QED
    BY <2>1
<1>2. CASE Renumber
  <2>1. UNCHANGED <<op, rows, unborn>> /\ incarnation' = incarnation + 1 /\ op.pc # "selected"
    BY <1>2 DEF Renumber, localVars, storeVars
  <2> QED
    BY <1>0, <2>1 DEF OpRec
<1>3. CASE Reset
  <2>1. rows' = [u \in Uids |-> NoMsg] /\ UNCHANGED <<op, incarnation, unborn>>
    BY <1>3 DEF Reset, serverVars
  <2>2. NoMsg \notin unborn
    BY DEF Types, Server, ServerTypes
  <2> QED
    BY <2>1, <2>2
<1>4. CASE FetchChunk
  <2>1. PICK C \in SUBSET pass.todo, l \in {0} \cup Uids : Fetches(C, l)
    BY <1>4, FetchStep
  <2>2. UNCHANGED <<op, incarnation, unborn>>
    BY <1>4 DEF FetchChunk, serverVars
  <2>3. \A m \in Live : m \notin unborn
    BY DEF Live, Types, Server, ServerInv
  <2>4. \A u \in Uids : rows'[u] \notin unborn
    BY <2>1, <2>3 DEF Fetches
  <2> QED
    BY <2>2, <2>4
<1>5. CASE DropExpunged
  <2>1. \A u \in Uids : rows'[u] \in {rows[u], NoMsg}
    BY <1>5 DEF DropExpunged
  <2>2. UNCHANGED <<incarnation, unborn>> /\ op' = op
    BY <1>5 DEF DropExpunged, serverVars
  <2>3. NoMsg \notin unborn
    BY DEF Types, Server, ServerTypes
  <2> QED
    BY <1>0, <2>1, <2>2, <2>3
<1>6. CASE Restart
  <2>1. op' = NoOp /\ UNCHANGED <<rows, incarnation, unborn>>
    BY <1>6 DEF Restart, opOnly, serverVars, storeVars
  <2> QED
    BY <1>0, <2>1 DEF NoOp
<1>7. ASSUME NEW m \in Msgs, NEW kind \in Kinds, ReadMapping(m, kind) PROVE OpInv'
  <2>1. PICK u \in Stored(m) : op' = [NoOp EXCEPT !.pc = "mapped", !.kind = kind, !.msg = m, !.uid = u,
                                          !.seen = box.validity]
    BY <1>7 DEF ReadMapping
  <2>2. UNCHANGED <<rows, incarnation, unborn>>
    BY <1>7 DEF ReadMapping, opOnly, serverVars, storeVars
  <2>3. m \notin unborn /\ box.validity <= incarnation
    BY <2>1 DEF Stored, RowInv
  <2>4. op'.seen = box.validity /\ op'.validity = 0 /\ op'.pc = "mapped" /\ op'.msg = m
    BY <2>1 DEF NoOp
  <2> QED
    BY <1>0, <2>2, <2>3, <2>4
<1>8. CASE ReadMailbox
  <2>1. /\ op'.seen = op.seen /\ op'.validity = box.validity /\ op'.pc = "located" /\ op'.msg = op.msg
        /\ op.pc = "mapped" /\ UNCHANGED <<rows, incarnation, unborn>>
    BY <1>8, <1>0 DEF ReadMailbox, opOnly, serverVars, storeVars, OpRec
  <2> QED
    BY <2>1 DEF RowInv
<1>9. CASE SelectForStored
  <2>1. op.pc = "located" /\ UNCHANGED <<rows, incarnation, unborn>>
    BY <1>9 DEF SelectForStored, opOnly, serverVars, storeVars
  <2>2. CASE AcceptsIncarnation
    <3>1. /\ op'.seen = op.seen /\ op'.validity = op.validity /\ op'.pc = "selected" /\ op'.msg = op.msg
          /\ op'.kind = op.kind
      BY <1>9, <1>0, <2>2 DEF SelectForStored, OpRec
    <3> QED
      BY <2>1, <2>2, <3>1 DEF AcceptsIncarnation
  <2>3. CASE ~AcceptsIncarnation
    <3>1. op' = NoOp
      BY <1>9, <2>3 DEF SelectForStored
    <3> QED
      BY <1>0, <2>1, <3>1 DEF NoOp
  <2> QED
    BY <2>2, <2>3
<1>10. CASE ActRemotely
  <2>1. op.pc = "selected" /\ UNCHANGED <<rows, incarnation, unborn>>
    BY <1>10 DEF ActRemotely, storeVars
  <2>2. \/ op' = NoOp
        \/ op'.seen = op.seen /\ op'.validity = op.validity /\ op'.pc = "moved" /\ op'.msg = op.msg
    BY <1>10, <1>0 DEF ActRemotely, OpRec
  <2> QED
    BY <1>0, <2>1, <2>2 DEF NoOp
<1>11. CASE MoveLocation
  <2>1. \A u \in Uids : rows'[u] \in {rows[u], NoMsg}
    BY <1>11 DEF MoveLocation
  <2>2. UNCHANGED <<incarnation, unborn>> /\ op' = NoOp
    BY <1>11 DEF MoveLocation, serverVars
  <2>3. NoMsg \notin unborn
    BY DEF Types, Server, ServerTypes
  <2> QED
    BY <1>0, <2>1, <2>2, <2>3 DEF NoOp
<1>12. CASE OpFails
  <2>1. op' = NoOp /\ UNCHANGED <<rows, incarnation, unborn>>
    BY <1>12 DEF OpFails, opOnly, serverVars, storeVars
  <2> QED
    BY <1>0, <2>1 DEF NoOp
<1>13. ASSUME NEW m \in Msgs, Expunge(m) \/ Ages(m) PROVE OpInv'
  <2>1. UNCHANGED <<op, rows, incarnation, unborn>>
    BY <1>13 DEF Expunge, localVars, storeVars, Ages, storeVars
  <2> QED
    BY <2>1
<1>14. CASE BeginFull \/ BeginRequested \/ Probe \/ ServicePending \/ SyncListed \/ SkipQuiet \/
     Select \/ Search \/ Fetched \/ Reconcile \/ FetchFlags \/ ReconcileFails \/ Commit \/
     ReconcileFallsDue \/ Cut \/ UNCHANGED vars
  <2>1. UNCHANGED <<op, rows, incarnation, unborn>>
    BY <1>14 DEF BeginFull, serverVars, storeVars, Goto, At, BeginRequested, StartPass, NoPass,
         NoBox, Probe, ServicePending, SyncListed, SkipQuiet, Select, Search, passOnly, Fetched,
         Reconcile, FetchFlags, ReconcileFails, Commit, ReconcileFallsDue, Cut, vars
  <2> QED
    BY <2>1
<1> QED
  BY <1>1, <1>2, <1>3, <1>4, <1>5, <1>6, <1>7, <1>8, <1>9, <1>10, <1>11, <1>12, <1>13, <1>14 DEF
       Next, ServerStep, BeginStep, PassStep, OpStep

-----------------------------------------------------------------------------
(* The mapping: a stored UID names the message it was stored for.          *)

\* No row is written, and the provider does not rebuild its index: a message that
\* is there was there under the same UID, or arrives above UIDNEXT.
Calm ==
  /\ nextUid' \in Nat /\ nextUid' >= nextUid /\ old \subseteq old' /\ unborn' \subseteq unborn
  /\ \A n \in Live' : \/ n \in Live /\ uid'[n] = uid[n]
                      \/ n \in unborn /\ uid'[n] \in Nat /\ uid'[n] >= nextUid

LEMMA OnlyRenumberDisturbs == Types /\ [Next]_vars => Renumber \/ Calm
<1> SUFFICES ASSUME Types, [Next]_vars PROVE Renumber \/ Calm
  OBVIOUS
<1>0. nextUid \in Nat /\ uid \in [Msgs -> Nat]
  BY UidsTyped DEF Types, Server, ServerTypes
<1>1. ASSUME NEW m \in Msgs, Arrive(m) PROVE Renumber \/ Calm
  <2>1. /\ m \in unborn /\ unborn' = unborn \ {m} /\ nextUid' = nextUid + 1 /\ UNCHANGED old
        /\ \A n \in Msgs : uid'[n] = IF n = m THEN nextUid ELSE uid[n]
    BY <1>1, <1>0 DEF Arrive
  <2> QED
    BY <1>0, <2>1 DEF Calm, Live
<1>2. ASSUME NEW m \in Msgs, Expunge(m) PROVE Renumber \/ Calm
  <2>1. UNCHANGED <<nextUid, unborn, old>> /\ \A n \in Msgs : uid'[n] \in {0, uid[n]}
    BY <1>2, <1>0 DEF Expunge
  <2> QED
    BY <1>0, <2>1 DEF Calm, Live
<1>3. ASSUME NEW m \in Msgs, Ages(m) PROVE Renumber \/ Calm
  <2>1. UNCHANGED <<nextUid, unborn, uid>> /\ old \subseteq old'
    BY <1>3 DEF Ages
  <2> QED
    BY <1>0, <2>1 DEF Calm, Live
<1>4. CASE Renumber
  BY <1>4
<1>5. CASE ActRemotely
  <2>1. UNCHANGED <<nextUid, unborn, old>> /\ \A n \in Msgs : uid'[n] \in {0, uid[n]}
    BY <1>5, <1>0 DEF ActRemotely
  <2> QED
    BY <1>0, <2>1 DEF Calm, Live
<1>6. ASSUME NEW m \in Msgs, NEW kind \in Kinds, ReadMapping(m, kind) PROVE Renumber \/ Calm
  <2>1. UNCHANGED <<uid, nextUid, unborn, old>>
    BY <1>6 DEF ReadMapping, opOnly, serverVars, storeVars
  <2> QED
    BY <2>1, <1>0 DEF Calm, Live
<1>7. CASE BeginFull \/ BeginRequested \/ Probe \/ ServicePending \/ SyncListed \/ SkipQuiet \/
     Select \/ Reset \/ Search \/ FetchChunk \/ Fetched \/ Reconcile \/ FetchFlags \/
     DropExpunged \/ ReconcileFails \/ Commit \/ ReconcileFallsDue \/ Cut \/ Restart \/
     ReadMailbox \/ SelectForStored \/ MoveLocation \/ OpFails \/ UNCHANGED vars
  <2>1. UNCHANGED <<uid, nextUid, unborn, old>>
    BY <1>7 DEF BeginFull, serverVars, storeVars, Goto, At, BeginRequested, StartPass, NoPass,
         NoBox, Probe, ServicePending, SyncListed, SkipQuiet, Select, Reset, Search, passOnly,
         FetchChunk, Fetched, Reconcile, FetchFlags, DropExpunged, ReconcileFails, Commit,
         ReconcileFallsDue, Cut, Restart, NoOp, ReadMailbox, opOnly, SelectForStored,
         MoveLocation, OpFails, vars
  <2> QED
    BY <2>1, <1>0 DEF Calm, Live
<1> QED
  BY <1>1, <1>2, <1>3, <1>4, <1>5, <1>6, <1>7 DEF Next, ServerStep, BeginStep, PassStep, OpStep

Importing == pass.pc \in Selected \ {"reset"}
Names(u, m) == u < nextUid /\ \A n \in Live : uid[n] = u <=> n = m
RowsTrue == \A u \in Uids : rows[u] # NoMsg => Names(u, rows[u])
RowsTrueInv == ~blind /\ (box.validity = incarnation \/ Importing) => RowsTrue
MeantInv == ~blind /\ op.pc # "none" /\ op.seen = incarnation => Names(op.uid, op.msg)
GoneInv ==
  ~blind =>
    /\ pass.pc \in {"flags", "expunge"} => \A u \in pass.stored : u < nextUid
    /\ At("expunge") => \A m \in Live : uid[m] \notin pass.stored \ pass.present
MappingInv == RowsTrueInv /\ MeantInv /\ GoneInv

LEMMA NamesCarried ==
  ASSUME Types, Calm, NEW u \in Nat, NEW m \in Msgs \ unborn, Names(u, m)
  PROVE  Names(u, m)'
<1>1. nextUid \in Nat /\ u < nextUid /\ u < nextUid'
  BY UidsTyped DEF Types, Names, Calm
<1>2. \A n \in Live' : uid'[n] = u <=> n = m
  <2> TAKE n \in Live'
  <2>1. CASE n \in Live /\ uid'[n] = uid[n]
    BY <2>1 DEF Names
  <2>2. CASE n \in unborn /\ uid'[n] >= nextUid
    BY <1>1, <2>2
  <2> QED
    BY <2>1, <2>2 DEF Calm
<1> QED
  BY <1>1, <1>2 DEF Names, Calm

LEMMA RowsCarried ==
  ASSUME Types, OpInv, Calm, RowsTrue, \A u \in Uids : rows'[u] \in {rows[u], NoMsg}
  PROVE  RowsTrue'
<1> SUFFICES ASSUME NEW u \in Uids, rows'[u] # NoMsg PROVE Names(u, rows[u])' /\ rows'[u] = rows[u]
  BY DEF RowsTrue, Names
<1>1. rows'[u] = rows[u] /\ rows[u] \in Msgs \ unborn /\ u \in Nat
  BY UidsTyped DEF Types, StoreTypes, OpInv, Uids
<1>2. Names(u, rows[u])
  BY <1>1 DEF RowsTrue
<1>3. ASSUME NEW m \in Msgs \ unborn, m = rows[u] PROVE Names(u, m)'
  BY <1>1, <1>2, <1>3, NamesCarried
<1> QED
  BY <1>1, <1>3 DEF Names

LEMMA RowsTrueKept == Types /\ RowInv /\ OpInv /\ RowsTrueInv /\ [Next]_vars => RowsTrueInv'
<1> SUFFICES ASSUME Types, RowInv, OpInv, RowsTrueInv, [Next]_vars PROVE RowsTrueInv'
  OBVIOUS
<1>0. /\ incarnation \in 1..MaxIncarnation /\ pass \in PassRec /\ pass.box \in BoxRec /\ box \in BoxRec
      /\ rows \in [Uids -> Msgs \cup {NoMsg}]
  BY UidsTyped DEF Types, StoreTypes, PassTypes, PassRec
<1>C. Renumber \/ Calm
  BY OnlyRenumberDisturbs
<1> USE DEF RowsTrueInv
<1>1. CASE Renumber
  <2>1. incarnation' = incarnation + 1 /\ pass.pc \notin Selected /\ UNCHANGED <<pass, box>>
    BY <1>1 DEF Renumber, localVars, storeVars
  <2> QED
    BY <1>0, <2>1 DEF Importing, RowInv, BoxRec
<1>2. CASE BeginFull
  <2>1. pass'.pc = "session" /\ UNCHANGED <<rows, box, blind, incarnation>>
    BY <1>2, <1>0 DEF BeginFull, Goto, StartPass, NoPass, serverVars, storeVars, PassRec
  <2>2. Calm
    BY <1>0, <1>C, <2>1 DEF Renumber
  <2> QED
    BY <2>1, <2>2, RowsCarried DEF Importing, Selected
<1>3. CASE BeginRequested
  <2>1. pass'.pc = "loaded" /\ UNCHANGED <<rows, box, blind, incarnation>>
    BY <1>3, <1>0 DEF BeginRequested, Goto, StartPass, NoPass, serverVars, storeVars, PassRec
  <2>2. Calm
    BY <1>0, <1>C, <2>1 DEF Renumber
  <2> QED
    BY <2>1, <2>2, RowsCarried DEF Importing, Selected
<1>4. CASE Probe
  <2>1. pass'.pc = "loaded" /\ UNCHANGED <<rows, box, blind, incarnation>>
    BY <1>4, <1>0 DEF Probe, Goto, StartPass, NoPass, serverVars, storeVars, PassRec
  <2>2. Calm
    BY <1>0, <1>C, <2>1 DEF Renumber
  <2> QED
    BY <2>1, <2>2, RowsCarried DEF Importing, Selected
<1>5. CASE ServicePending
  <2>1. pass'.pc = "loaded" /\ UNCHANGED <<rows, box, blind, incarnation>>
    BY <1>5, <1>0 DEF ServicePending, Goto, StartPass, NoPass, serverVars, storeVars, PassRec
  <2>2. Calm
    BY <1>0, <1>C, <2>1 DEF Renumber
  <2> QED
    BY <2>1, <2>2, RowsCarried DEF Importing, Selected
<1>6. CASE SyncListed
  <2>1. pass'.pc = "loaded" /\ UNCHANGED <<rows, box, blind, incarnation>>
    BY <1>6, <1>0 DEF SyncListed, Goto, StartPass, NoPass, serverVars, storeVars, PassRec
  <2>2. Calm
    BY <1>0, <1>C, <2>1 DEF Renumber
  <2> QED
    BY <2>1, <2>2, RowsCarried DEF Importing, Selected
<1>7. CASE SkipQuiet
  <2>1. pass'.pc = "idle" /\ UNCHANGED <<rows, box, blind, incarnation>>
    BY <1>7, <1>0 DEF SkipQuiet, Goto, StartPass, NoPass, serverVars, storeVars, PassRec
  <2>2. Calm
    BY <1>0, <1>C, <2>1 DEF Renumber
  <2> QED
    BY <2>1, <2>2, RowsCarried DEF Importing, Selected
<1>8. CASE Select
  <2>0. /\ At("loaded") /\ UNCHANGED <<rows, box, incarnation>>
        /\ pass' = [pass EXCEPT !.pc = IF Renumbered(pass.box) THEN "reset" ELSE "search",
                                !.validity = incarnation, !.next = nextUid,
                                !.lastUid = pass.box.lastUid, !.box = NoBox]
    BY <1>8 DEF Select, serverVars, storeVars
  <2>1. /\ At("loaded") /\ UNCHANGED <<rows, box, incarnation>>
        /\ pass'.pc = "reset" \/ pass.box.validity = 0 \/ pass.box.validity = incarnation
    BY <2>0, <1>0 DEF PassRec, Renumbered
  <2>11. ~blind' => ~blind /\ (pass.box.validity = 0 => \A u \in Uids : rows[u] = NoMsg)
    BY <1>8, Zenon DEF Select
  <2>2. Calm
    BY <1>0, <1>C, <2>1 DEF Renumber
  <2> SUFFICES ASSUME ~blind', (box.validity = incarnation \/ Importing)' PROVE RowsTrue'
    OBVIOUS
  <2>3. CASE box.validity = incarnation
    BY <2>1, <2>2, <2>3, <2>11, RowsCarried
  <2>4. CASE box.validity # incarnation
    <3>1. pass.box.validity = 0 \/ pass.box.validity = incarnation
      BY <2>1, <2>4 DEF Importing, Selected
    <3>2. pass.box.validity # incarnation
      BY <1>0, <2>4 DEF RowInv, Known, BoxRec
    <3>3. \A u \in Uids : rows'[u] = NoMsg
      BY <2>1, <2>11, <3>1, <3>2
    <3> QED
      BY <3>3 DEF RowsTrue
  <2> QED
    BY <2>3, <2>4
<1>9. CASE Reset
  <2>1. rows' = [u \in Uids |-> NoMsg]
    BY <1>9 DEF Reset
  <2> QED
    BY <2>1 DEF RowsTrue
<1>10. CASE Search
  <2>1. Importing /\ (\A u \in Uids : rows'[u] \in {rows[u], NoMsg}) /\ UNCHANGED <<box, blind, incarnation>>
    BY <1>10, <1>0 DEF Search, At, Importing, Selected, passOnly, serverVars, storeVars
  <2>2. Calm
    BY <1>0, <1>C, <2>1 DEF Renumber
  <2> QED
    BY <2>1, <2>2, RowsCarried
<1>11. CASE FetchChunk
  <2>1. PICK C \in SUBSET pass.todo, l \in {0} \cup Uids : Fetches(C, l)
    BY <1>11, FetchStep
  <2>2. Importing /\ UNCHANGED <<uid, nextUid, blind>>
    BY <1>11 DEF FetchChunk, At, Importing, Selected, serverVars
  <2>3. ASSUME ~blind, NEW u \in Uids, rows'[u] # NoMsg PROVE Names(u, rows'[u])
    <3>1. CASE rows'[u] = rows[u]
      BY <2>2, <2>3, <3>1 DEF RowsTrue
    <3>2. ASSUME NEW m \in Live, uid[m] = u, rows'[u] = m PROVE Names(u, m)
      BY <3>2 DEF Types, Server, ServerInv, Live, Names
    <3> QED
      BY <2>1, <3>1, <3>2 DEF Fetches
  <2> QED
    BY <2>2, <2>3 DEF RowsTrue, Names, Live
<1>12. CASE Fetched
  <2>1. Importing /\ (\A u \in Uids : rows'[u] \in {rows[u], NoMsg}) /\ UNCHANGED <<box, blind, incarnation>>
    BY <1>12, <1>0 DEF Fetched, At, Importing, Selected, passOnly, serverVars, storeVars
  <2>2. Calm
    BY <1>0, <1>C, <2>1 DEF Renumber
  <2> QED
    BY <2>1, <2>2, RowsCarried
<1>13. CASE Reconcile
  <2>1. Importing /\ (\A u \in Uids : rows'[u] \in {rows[u], NoMsg}) /\ UNCHANGED <<box, blind, incarnation>>
    BY <1>13, <1>0 DEF Reconcile, At, Importing, Selected, passOnly, serverVars, storeVars
  <2>2. Calm
    BY <1>0, <1>C, <2>1 DEF Renumber
  <2> QED
    BY <2>1, <2>2, RowsCarried
<1>14. CASE FetchFlags
  <2>1. Importing /\ (\A u \in Uids : rows'[u] \in {rows[u], NoMsg}) /\ UNCHANGED <<box, blind, incarnation>>
    BY <1>14, <1>0 DEF FetchFlags, At, Importing, Selected, passOnly, serverVars, storeVars
  <2>2. Calm
    BY <1>0, <1>C, <2>1 DEF Renumber
  <2> QED
    BY <2>1, <2>2, RowsCarried
<1>15. CASE DropExpunged
  <2>1. Importing /\ (\A u \in Uids : rows'[u] \in {rows[u], NoMsg}) /\ UNCHANGED <<box, blind, incarnation>>
    BY <1>15, <1>0 DEF DropExpunged, At, Importing, Selected, passOnly, serverVars, storeVars
  <2>2. Calm
    BY <1>0, <1>C, <2>1 DEF Renumber
  <2> QED
    BY <2>1, <2>2, RowsCarried
<1>16. CASE ReconcileFails
  <2>1. Importing /\ (\A u \in Uids : rows'[u] \in {rows[u], NoMsg}) /\ UNCHANGED <<box, blind, incarnation>>
    BY <1>16, <1>0 DEF ReconcileFails, At, Importing, Selected, passOnly, serverVars, storeVars
  <2>2. Calm
    BY <1>0, <1>C, <2>1 DEF Renumber
  <2> QED
    BY <2>1, <2>2, RowsCarried
<1>17. CASE Commit
  <2>1. Importing /\ UNCHANGED <<rows, blind, incarnation>>
    BY <1>17 DEF Commit, At, Importing, Selected, serverVars
  <2>2. Calm
    BY <1>0, <1>C, <2>1 DEF Renumber
  <2> QED
    BY <2>1, <2>2, RowsCarried
<1>18. CASE Cut
  <2>1. pass'.pc = "idle" /\ UNCHANGED <<rows, box, blind, incarnation>>
    BY <1>18, <1>0 DEF Cut, Goto, StartPass, NoPass, serverVars, storeVars, PassRec
  <2>2. Calm
    BY <1>0, <1>C, <2>1 DEF Renumber
  <2> QED
    BY <2>1, <2>2, RowsCarried DEF Importing, Selected
<1>19. CASE Restart
  <2>1. pass'.pc = "idle" /\ UNCHANGED <<rows, box, blind, incarnation>>
    BY <1>19, <1>0 DEF Restart, Goto, StartPass, NoPass, serverVars, storeVars, PassRec
  <2>2. Calm
    BY <1>0, <1>C, <2>1 DEF Renumber
  <2> QED
    BY <2>1, <2>2, RowsCarried DEF Importing, Selected
<1>20. CASE MoveLocation
  <2>1. /\ UNCHANGED <<pass, box, blind, incarnation>>
        /\ \A u \in Uids : rows'[u] \in {rows[u], NoMsg}
    BY <1>20 DEF MoveLocation, serverVars
  <2>2. Calm
    BY <1>0, <1>C, <2>1 DEF Renumber
  <2> QED
    BY <2>1, <2>2, RowsCarried DEF Importing
<1>21. ASSUME NEW m \in Msgs, Arrive(m) \/ Expunge(m) \/ Ages(m) PROVE RowsTrueInv'
  <2>1. UNCHANGED <<rows, box, pass, blind, incarnation>>
    BY <1>21 DEF Arrive, localVars, storeVars, Expunge, Ages, storeVars
  <2> QED
    BY <1>0, <2>1, <1>C, RowsCarried DEF Importing, Renumber
<1>22. ASSUME NEW m \in Msgs, NEW kind \in Kinds, ReadMapping(m, kind) PROVE RowsTrueInv'
  <2>1. UNCHANGED <<rows, box, pass, blind, incarnation>>
    BY <1>22 DEF ReadMapping, opOnly, serverVars, storeVars
  <2> QED
    BY <1>0, <2>1, <1>C, RowsCarried DEF Importing, Renumber
<1>23. CASE ReconcileFallsDue \/ ReadMailbox \/ SelectForStored \/ ActRemotely \/ OpFails \/
     UNCHANGED vars
  <2>1. UNCHANGED <<rows, box, pass, blind, incarnation>>
    BY <1>23 DEF ReconcileFallsDue, serverVars, storeVars, ReadMailbox, opOnly, SelectForStored,
         NoOp, ActRemotely, OpFails, vars
  <2> QED
    BY <1>0, <2>1, <1>C, RowsCarried DEF Importing, Renumber
<1> QED
  BY <1>1, <1>2, <1>3, <1>4, <1>5, <1>6, <1>7, <1>8, <1>9, <1>10, <1>11, <1>12, <1>13, <1>14,
       <1>15, <1>16, <1>17, <1>18, <1>19, <1>20, <1>21, <1>22, <1>23 DEF Next, ServerStep,
       BeginStep, PassStep, OpStep

LEMMA MeantKept == Types /\ OpInv /\ RowsTrueInv /\ MeantInv /\ [Next]_vars => MeantInv'
<1> SUFFICES ASSUME Types, OpInv, RowsTrueInv, MeantInv, [Next]_vars PROVE MeantInv'
  OBVIOUS
<1>0. incarnation \in 1..MaxIncarnation /\ op \in OpRec /\ box \in BoxRec
  BY UidsTyped DEF Types, OpTypes, StoreTypes
<1>C. Renumber \/ Calm
  BY OnlyRenumberDisturbs
<1>D. ASSUME Calm, NEW o \in OpRec, o.pc # "none", o.uid = op.uid, o.msg = op.msg, op.pc # "none",
             Names(op.uid, op.msg)
      PROVE  Names(o.uid, o.msg)'
  <2>1. op.uid \in Nat /\ op.msg \in Msgs \ unborn
    <3>1. Cardinality(Msgs) \in Nat
      BY UidsTyped DEF Types
    <3>2. op.uid \in {0} \cup Uids /\ op.msg \in Msgs \ unborn
      BY <1>0, <1>D DEF OpRec, OpInv
    <3> QED
      BY <3>1, <3>2 DEF Uids
  <2>2. ASSUME NEW u \in Nat, NEW m \in Msgs \ unborn, Names(u, m) PROVE Names(u, m)'
    BY <1>D, <2>2, NamesCarried
  <2> QED
    BY <1>D, <2>1, <2>2 DEF Names
<1> USE DEF MeantInv
<1>1. CASE Renumber
  <2>1. incarnation' = incarnation + 1 /\ UNCHANGED op
    BY <1>1 DEF Renumber, localVars
  <2> QED
    BY <1>0, <2>1 DEF OpInv, OpRec
<1>2. CASE Select
  <2>1. UNCHANGED <<op, incarnation>> /\ (~blind' => ~blind)
    BY <1>2 DEF Select, serverVars
  <2>2. Calm
    BY <1>0, <1>C, <2>1 DEF Renumber
  <2> QED
    BY <1>0, <1>D, <2>1, <2>2
<1>3. CASE Restart
  <2>1. op'.pc = "none"
    BY <1>3 DEF Restart, NoOp
  <2> QED
    BY <2>1, <1>0, <1>C, <1>D DEF Renumber
<1>4. ASSUME NEW m \in Msgs, NEW kind \in Kinds, ReadMapping(m, kind) PROVE MeantInv'
  <2>1. PICK u \in Stored(m) : op' = [NoOp EXCEPT !.pc = "mapped", !.kind = kind, !.msg = m, !.uid = u,
                                          !.seen = box.validity]
    BY <1>4 DEF ReadMapping
  <2>2. op'.uid = u /\ op'.msg = m /\ op'.seen = box.validity /\ u \in Uids /\ rows[u] = m
    BY <2>1 DEF NoOp, Stored
  <2>3. UNCHANGED <<rows, incarnation, uid, nextUid, blind>>
    BY <1>4 DEF ReadMapping, opOnly, serverVars, storeVars
  <2>4. ~blind /\ box.validity = incarnation => Names(u, m)
    BY <2>2 DEF RowsTrueInv, RowsTrue
  <2> QED
    BY <2>2, <2>3, <2>4 DEF Names, Live
<1>5. CASE ReadMailbox
  <2>1. /\ op'.seen = op.seen /\ op'.uid = op.uid /\ op'.pc = "located" /\ op'.msg = op.msg
        /\ op.pc = "mapped" /\ op' \in OpRec /\ UNCHANGED <<incarnation, blind>>
    BY <1>5, <1>0 DEF ReadMailbox, opOnly, serverVars, storeVars, OpRec, BoxRec
  <2>2. Calm
    BY <1>0, <1>C, <2>1 DEF Renumber
  <2> QED
    BY <1>0, <1>D, <2>1, <2>2
<1>6. CASE SelectForStored
  <2>1. /\ \/ op'.pc = "none"
           \/ op'.seen = op.seen /\ op'.uid = op.uid /\ op'.msg = op.msg /\ op'.pc = "selected"
        /\ op.pc = "located" /\ op' \in OpRec /\ UNCHANGED <<incarnation, blind>>
    BY <1>6, <1>0 DEF SelectForStored, opOnly, serverVars, NoOp, OpRec
  <2>2. Calm
    BY <1>0, <1>C, <2>1 DEF Renumber
  <2> QED
    BY <1>0, <1>D, <2>1, <2>2
<1>7. CASE ActRemotely
  <2>1. /\ \/ op'.pc = "none"
           \/ op'.seen = op.seen /\ op'.uid = op.uid /\ op'.msg = op.msg /\ op'.pc = "moved"
        /\ op.pc = "selected" /\ op' \in OpRec /\ UNCHANGED <<incarnation, blind>>
    BY <1>7, <1>0 DEF ActRemotely, NoOp, OpRec
  <2>2. Calm
    BY <1>0, <1>C, <2>1 DEF Renumber
  <2> QED
    BY <1>0, <1>D, <2>1, <2>2
<1>8. CASE MoveLocation
  <2>1. op'.pc = "none"
    BY <1>8 DEF MoveLocation, NoOp
  <2> QED
    BY <2>1, <1>0, <1>C, <1>D DEF Renumber
<1>9. CASE OpFails
  <2>1. op'.pc = "none"
    BY <1>9 DEF OpFails, NoOp
  <2> QED
    BY <2>1, <1>0, <1>C, <1>D DEF Renumber
<1>10. ASSUME NEW m \in Msgs, Arrive(m) \/ Expunge(m) \/ Ages(m) PROVE MeantInv'
  <2>1. UNCHANGED <<op, blind, incarnation>>
    BY <1>10 DEF Arrive, localVars, storeVars, Expunge, Ages, storeVars
  <2> QED
    BY <2>1, <1>0, <1>C, <1>D DEF Renumber
<1>11. CASE BeginFull \/ BeginRequested \/ Probe \/ ServicePending \/ SyncListed \/ SkipQuiet \/
     Reset \/ Search \/ FetchChunk \/ Fetched \/ Reconcile \/ FetchFlags \/ DropExpunged \/
     ReconcileFails \/ Commit \/ ReconcileFallsDue \/ Cut \/ UNCHANGED vars
  <2>1. UNCHANGED <<op, blind, incarnation>>
    BY <1>11 DEF BeginFull, serverVars, storeVars, Goto, At, BeginRequested, StartPass, NoPass,
         NoBox, Probe, ServicePending, SyncListed, SkipQuiet, Reset, Search, passOnly,
         FetchChunk, Fetched, Reconcile, FetchFlags, DropExpunged, ReconcileFails, Commit,
         ReconcileFallsDue, Cut, vars
  <2> QED
    BY <2>1, <1>0, <1>C, <1>D DEF Renumber
<1> QED
  BY <1>1, <1>2, <1>3, <1>4, <1>5, <1>6, <1>7, <1>8, <1>9, <1>10, <1>11 DEF Next, ServerStep,
       BeginStep, PassStep, OpStep

LEMMA GoneKept == Types /\ RowsTrueInv /\ GoneInv /\ [Next]_vars => GoneInv'
<1> SUFFICES ASSUME Types, RowsTrueInv, GoneInv, [Next]_vars PROVE GoneInv'
  OBVIOUS
<1>0. /\ incarnation \in 1..MaxIncarnation /\ pass \in PassRec /\ nextUid \in Nat
      /\ uid \in [Msgs -> Nat] /\ pass.stored \subseteq Nat
  <2>1. pass \in PassRec /\ Cardinality(Msgs) \in Nat
    BY UidsTyped DEF Types, PassTypes
  <2> QED
    BY <2>1, UidsTyped DEF Types, Server, ServerTypes, PassRec, Uids
<1>C. Renumber \/ Calm
  BY OnlyRenumberDisturbs
<1> USE DEF GoneInv
<1>1. CASE Renumber
  <2>1. pass.pc \notin Selected /\ UNCHANGED pass
    BY <1>1 DEF Renumber, localVars
  <2> QED
    BY <2>1 DEF Selected, At
<1>2. CASE BeginFull
  <2>1. pass'.pc = "session"
    BY <1>2, <1>0 DEF BeginFull, At, Goto, StartPass, NoPass, PassRec
  <2> QED
    BY <2>1 DEF At
<1>3. CASE BeginRequested
  <2>1. pass'.pc = "loaded"
    BY <1>3, <1>0 DEF BeginRequested, At, Goto, StartPass, NoPass, PassRec
  <2> QED
    BY <2>1 DEF At
<1>4. CASE Probe
  <2>1. pass'.pc = "loaded"
    BY <1>4, <1>0 DEF Probe, At, Goto, StartPass, NoPass, PassRec
  <2> QED
    BY <2>1 DEF At
<1>5. CASE ServicePending
  <2>1. pass'.pc = "loaded"
    BY <1>5, <1>0 DEF ServicePending, At, Goto, StartPass, NoPass, PassRec
  <2> QED
    BY <2>1 DEF At
<1>6. CASE SyncListed
  <2>1. pass'.pc = "loaded"
    BY <1>6, <1>0 DEF SyncListed, At, Goto, StartPass, NoPass, PassRec
  <2> QED
    BY <2>1 DEF At
<1>7. CASE SkipQuiet
  <2>1. pass'.pc = "idle"
    BY <1>7, <1>0 DEF SkipQuiet, At, Goto, StartPass, NoPass, PassRec
  <2> QED
    BY <2>1 DEF At
<1>8. CASE Select
  <2>1. pass'.pc \in {"reset", "search"}
    BY <1>8, <1>0 DEF Select, Goto, NoPass, PassRec
  <2> QED
    BY <2>1 DEF At
<1>9. CASE Reset
  <2>1. pass'.pc = "search"
    BY <1>9, <1>0 DEF Reset, Goto, NoPass, PassRec
  <2> QED
    BY <2>1 DEF At
<1>10. CASE Search
  <2>1. pass'.pc = "fetch"
    BY <1>10, <1>0 DEF Search, At, Goto, StartPass, NoPass, PassRec
  <2> QED
    BY <2>1 DEF At
<1>11. CASE FetchChunk
  <2>1. pass'.pc = "fetch"
    BY <1>11, <1>0 DEF FetchChunk, At, Goto, StartPass, NoPass, PassRec
  <2> QED
    BY <2>1 DEF At
<1>12. CASE Fetched
  <2>1. pass'.pc \in {"cursor", "reconcile"}
    BY <1>12, <1>0 DEF Fetched, Goto, NoPass, PassRec
  <2> QED
    BY <2>1 DEF At
<1>13. CASE Reconcile
  <2>1. /\ Importing /\ UNCHANGED <<blind, nextUid>> /\ pass'.pc = "flags"
        /\ pass'.stored = {u \in Uids : rows[u] # NoMsg}
    BY <1>13, <1>0 DEF Reconcile, At, Importing, Selected, passOnly, serverVars, PassRec
  <2>2. ~blind => \A u \in Uids : rows[u] # NoMsg => u < nextUid
    BY <2>1 DEF RowsTrueInv, RowsTrue, Names
  <2> QED
    BY <2>1, <2>2 DEF At
<1>14. CASE FetchFlags
  <2>1. /\ pass.pc = "flags" /\ pass'.pc = "expunge" /\ pass'.stored = pass.stored
        /\ pass'.present = {uid[m] : m \in Live} \cap pass.stored
        /\ UNCHANGED <<uid, nextUid, blind>>
    BY <1>14, <1>0 DEF FetchFlags, At, Answer, passOnly, serverVars, PassRec
  <2> QED
    BY <2>1 DEF At, Live
<1>15. CASE DropExpunged
  <2>1. pass'.pc = "cursor"
    BY <1>15, <1>0 DEF DropExpunged, Goto, NoPass, PassRec
  <2> QED
    BY <2>1 DEF At
<1>16. CASE ReconcileFails
  <2>1. pass'.pc = "cursor"
    BY <1>16, <1>0 DEF ReconcileFails, Goto, NoPass, PassRec
  <2> QED
    BY <2>1 DEF At
<1>17. CASE Commit
  <2>1. pass'.pc \in {"session", "idle"}
    BY <1>17, <1>0 DEF Commit, Goto, NoPass, PassRec
  <2> QED
    BY <2>1 DEF At
<1>18. CASE Cut
  <2>1. pass'.pc = "idle"
    BY <1>18, <1>0 DEF Cut, At, Goto, StartPass, NoPass, PassRec
  <2> QED
    BY <2>1 DEF At
<1>19. CASE Restart
  <2>1. pass'.pc = "idle"
    BY <1>19, <1>0 DEF Restart, At, Goto, StartPass, NoPass, PassRec
  <2> QED
    BY <2>1 DEF At
<1>20. ASSUME NEW msg \in Msgs, Arrive(msg) \/ Expunge(msg) \/ Ages(msg) PROVE GoneInv'
  <2>1. UNCHANGED <<pass, blind, incarnation>>
    BY <1>20 DEF Arrive, localVars, storeVars, Expunge, Ages, storeVars
  <2> QED
    <3>1. Calm
      BY <1>0, <1>C, <2>1 DEF Renumber
    <3>2. \A u \in Nat : u < nextUid => u < nextUid'
      BY <1>0, <3>1 DEF Calm
    <3>3. \A m \in Live' : (m \in Live /\ uid'[m] = uid[m]) \/ uid'[m] >= nextUid
      BY <3>1 DEF Calm
    <3> QED
      BY <1>0, <2>1, <3>2, <3>3 DEF At
<1>21. ASSUME NEW msg \in Msgs, NEW kind \in Kinds, ReadMapping(msg, kind) PROVE GoneInv'
  <2>1. UNCHANGED <<pass, blind, incarnation>>
    BY <1>21 DEF ReadMapping, opOnly, serverVars, storeVars
  <2> QED
    <3>1. Calm
      BY <1>0, <1>C, <2>1 DEF Renumber
    <3>2. \A u \in Nat : u < nextUid => u < nextUid'
      BY <1>0, <3>1 DEF Calm
    <3>3. \A m \in Live' : (m \in Live /\ uid'[m] = uid[m]) \/ uid'[m] >= nextUid
      BY <3>1 DEF Calm
    <3> QED
      BY <1>0, <2>1, <3>2, <3>3 DEF At
<1>22. CASE ReconcileFallsDue \/ ReadMailbox \/ SelectForStored \/ ActRemotely \/ MoveLocation
     \/ OpFails \/ UNCHANGED vars
  <2>1. UNCHANGED <<pass, blind, incarnation>>
    BY <1>22 DEF ReconcileFallsDue, serverVars, storeVars, ReadMailbox, opOnly, SelectForStored,
         NoOp, ActRemotely, MoveLocation, OpFails, vars
  <2> QED
    <3>1. Calm
      BY <1>0, <1>C, <2>1 DEF Renumber
    <3>2. \A u \in Nat : u < nextUid => u < nextUid'
      BY <1>0, <3>1 DEF Calm
    <3>3. \A m \in Live' : (m \in Live /\ uid'[m] = uid[m]) \/ uid'[m] >= nextUid
      BY <3>1 DEF Calm
    <3> QED
      BY <1>0, <2>1, <3>2, <3>3 DEF At
<1> QED
  BY <1>1, <1>2, <1>3, <1>4, <1>5, <1>6, <1>7, <1>8, <1>9, <1>10, <1>11, <1>12, <1>13, <1>14,
       <1>15, <1>16, <1>17, <1>18, <1>19, <1>20, <1>21, <1>22 DEF Next, ServerStep, BeginStep,
       PassStep, OpStep

-----------------------------------------------------------------------------
(* The cursor: everything recent at or below it is stored, also below the  *)
(* cursor a running pass has reached and below the copies of the row a     *)
(* pass may still start from.                                              *)

Safe(l) ==
  l < nextUid /\ (stray = {} => \A m \in Live \ old : uid[m] <= l => rows[uid[m]] = m)
\* What this reconciliation is about to drop lies above the cursor.
Late(l) ==
  At("expunge") => \A m \in Live : uid[m] \in pass.stored \ pass.present => l < uid[m]

KnownSafe == \A row \in Known : row.validity = incarnation => Safe(row.lastUid) /\ Late(row.lastUid)
PassSafe == Importing => Safe(pass.lastUid) /\ Late(pass.lastUid)
\* What is recent and above the pass's cursor is asked for, or above all that is.
AskedInv ==
  At("fetch") => \A m \in Live \ old : uid[m] > pass.lastUid =>
                   uid[m] \in pass.todo \/ \A t \in pass.todo : t < uid[m]
MovedInv == stray = {} /\ op.pc = "moved" => op.msg \notin Live
CursorInv == KnownSafe /\ PassSafe /\ AskedInv /\ MovedInv

LEMMA SafeCarried ==
  ASSUME Types, Calm, stray' = {} => stray = {}, NEW l \in Nat, Safe(l),
         \A m \in Live \ old : stray = {} /\ uid[m] <= l /\ rows[uid[m]] = m => rows'[uid[m]] = m
  PROVE  Safe(l)'
<1>0. nextUid \in Nat /\ unborn \subseteq Msgs /\ uid \in [Msgs -> Nat]
  BY UidsTyped DEF Types, Server, ServerTypes
<1>1. l < nextUid'
  BY <1>0 DEF Calm, Safe
<1>2. ASSUME stray' = {}, NEW m \in Live' \ old', uid'[m] <= l PROVE rows'[uid'[m]] = m
  <2>1. CASE m \in Live /\ uid'[m] = uid[m]
    BY <1>2, <2>1 DEF Safe, Calm
  <2>2. CASE m \in unborn /\ uid'[m] \in Nat /\ uid'[m] >= nextUid
    BY <1>0, <1>2, <2>2 DEF Safe
  <2> QED
    BY <1>2, <2>1, <2>2 DEF Calm
<1> QED
  BY <1>1, <1>2 DEF Safe

\* What is covered stays covered, up to a new UIDVALIDITY.
LEMMA SafeKept ==
  Types /\ MovedInv /\ [Next]_vars =>
    Renumber \/ Reset \/ \A l \in Nat : Safe(l) /\ Late(l) => Safe(l)'
<1> SUFFICES ASSUME Types, MovedInv, [Next]_vars
             PROVE  Renumber \/ Reset \/ (\A l \in Nat : Safe(l) /\ Late(l) => Safe(l)')
  OBVIOUS
<1>0. /\ incarnation \in 1..MaxIncarnation /\ nextUid \in Nat
      /\ \A m \in Live : uid[m] \in Uids /\ m \in Msgs /\ uid[m] \in Nat
  BY UidsTyped DEF Types, Uids
<1>C. Renumber \/ Calm
  BY OnlyRenumberDisturbs
<1>1. CASE Renumber
  BY <1>1
<1>2. CASE Reset
  BY <1>2
<1>3. CASE FetchChunk
  <2>1. PICK C \in SUBSET pass.todo, l \in {0} \cup Uids : Fetches(C, l)
    BY <1>3, FetchStep
  <2>2. \A m \in Live : rows[uid[m]] = m => rows'[uid[m]] = m
    BY <1>0, <2>1 DEF Fetches, Types, Server, ServerInv
  <2>3. UNCHANGED <<stray, incarnation>>
    BY <1>3 DEF FetchChunk, serverVars
  <2> QED
    BY <1>0, <1>C, <2>2, <2>3, SafeCarried DEF Renumber
<1>4. CASE DropExpunged
  <2>1. /\ At("expunge") /\ UNCHANGED <<stray, incarnation>>
        /\ \A u \in Uids : rows'[u] = IF u \in pass.stored \ pass.present THEN NoMsg ELSE rows[u]
    BY <1>4 DEF DropExpunged, serverVars
  <2>2. ASSUME NEW l \in Nat, Late(l), NEW m \in Live, uid[m] <= l PROVE rows'[uid[m]] = rows[uid[m]]
    <3>1. uid[m] \in Uids /\ uid[m] \notin pass.stored \ pass.present
      BY <1>0, <2>1, <2>2 DEF Late
    <3> QED
      BY <2>1, <3>1
  <2> QED
    BY <1>0, <1>C, <2>1, <2>2, SafeCarried DEF Renumber
<1>5. CASE ActRemotely
  <2>1. stray' = {} => stray = {}
    BY <1>5 DEF ActRemotely
  <2>2. UNCHANGED <<rows, incarnation>>
    BY <1>5 DEF ActRemotely, storeVars
  <2> QED
    BY <1>0, <1>C, <2>1, <2>2, SafeCarried DEF Renumber
<1>6. CASE MoveLocation
  <2>1. /\ op.pc = "moved" /\ UNCHANGED <<stray, incarnation>>
        /\ \A u \in Uids : rows'[u] = IF rows[u] = op.msg THEN NoMsg ELSE rows[u]
    BY <1>6 DEF MoveLocation, serverVars
  <2>2. stray = {} => \A m \in Live : rows[uid[m]] = m => rows'[uid[m]] = m
    BY <1>0, <2>1 DEF MovedInv
  <2> QED
    BY <1>0, <1>C, <2>1, <2>2, SafeCarried DEF Renumber
<1>7. ASSUME NEW m \in Msgs, Arrive(m) \/ Expunge(m) \/ Ages(m) PROVE Renumber \/ Reset \/ (\A l \in Nat : Safe(l) /\ Late(l) => Safe(l)')
  <2>1. UNCHANGED <<rows, stray, incarnation>>
    BY <1>7 DEF Arrive, localVars, storeVars, Expunge, Ages, storeVars
  <2> QED
    BY <2>1, <1>0, <1>C, SafeCarried DEF Renumber
<1>8. ASSUME NEW m \in Msgs, NEW kind \in Kinds, ReadMapping(m, kind) PROVE Renumber \/ Reset \/ (\A l \in Nat : Safe(l) /\ Late(l) => Safe(l)')
  <2>1. UNCHANGED <<rows, stray, incarnation>>
    BY <1>8 DEF ReadMapping, opOnly, serverVars, storeVars
  <2> QED
    BY <2>1, <1>0, <1>C, SafeCarried DEF Renumber
<1>9. CASE BeginFull \/ BeginRequested \/ Probe \/ ServicePending \/ SyncListed \/ SkipQuiet \/
     Select \/ Search \/ Fetched \/ Reconcile \/ FetchFlags \/ ReconcileFails \/ Commit \/
     ReconcileFallsDue \/ Cut \/ Restart \/ ReadMailbox \/ SelectForStored \/ OpFails \/
     UNCHANGED vars
  <2>1. UNCHANGED <<rows, stray, incarnation>>
    BY <1>9 DEF BeginFull, serverVars, storeVars, Goto, At, BeginRequested, StartPass, NoPass,
         NoBox, Probe, ServicePending, SyncListed, SkipQuiet, Select, Search, passOnly, Fetched,
         Reconcile, FetchFlags, ReconcileFails, Commit, ReconcileFallsDue, Cut, Restart, NoOp,
         ReadMailbox, opOnly, SelectForStored, OpFails, vars
  <2> QED
    BY <2>1, <1>0, <1>C, SafeCarried DEF Renumber
<1> QED
  BY <1>1, <1>2, <1>3, <1>4, <1>5, <1>6, <1>7, <1>8, <1>9 DEF Next, ServerStep, BeginStep,
       PassStep, OpStep

LEMMA LateKept ==
  Types /\ [Next]_vars => Renumber \/ \A l \in Nat : l < nextUid /\ Late(l) => Late(l)'
<1> SUFFICES ASSUME Types, [Next]_vars
             PROVE  Renumber \/ (\A l \in Nat : l < nextUid /\ Late(l) => Late(l)')
  OBVIOUS
<1>0. /\ incarnation \in 1..MaxIncarnation /\ pass \in PassRec /\ nextUid \in Nat
      /\ pass.stored \subseteq Nat
  <2>1. pass \in PassRec /\ Cardinality(Msgs) \in Nat
    BY UidsTyped DEF Types, PassTypes
  <2> QED
    BY <2>1, UidsTyped DEF Types, PassRec, Uids
<1>C. Renumber \/ Calm
  BY OnlyRenumberDisturbs
<1>1. CASE Renumber
  BY <1>1
<1>2. CASE BeginFull
  <2>1. pass'.pc = "session"
    BY <1>2, <1>0 DEF BeginFull, At, Goto, StartPass, NoPass, PassRec
  <2> QED
    BY <2>1 DEF At, Late
<1>3. CASE BeginRequested
  <2>1. pass'.pc = "loaded"
    BY <1>3, <1>0 DEF BeginRequested, At, Goto, StartPass, NoPass, PassRec
  <2> QED
    BY <2>1 DEF At, Late
<1>4. CASE Probe
  <2>1. pass'.pc = "loaded"
    BY <1>4, <1>0 DEF Probe, At, Goto, StartPass, NoPass, PassRec
  <2> QED
    BY <2>1 DEF At, Late
<1>5. CASE ServicePending
  <2>1. pass'.pc = "loaded"
    BY <1>5, <1>0 DEF ServicePending, At, Goto, StartPass, NoPass, PassRec
  <2> QED
    BY <2>1 DEF At, Late
<1>6. CASE SyncListed
  <2>1. pass'.pc = "loaded"
    BY <1>6, <1>0 DEF SyncListed, At, Goto, StartPass, NoPass, PassRec
  <2> QED
    BY <2>1 DEF At, Late
<1>7. CASE SkipQuiet
  <2>1. pass'.pc = "idle"
    BY <1>7, <1>0 DEF SkipQuiet, At, Goto, StartPass, NoPass, PassRec
  <2> QED
    BY <2>1 DEF At, Late
<1>8. CASE Select
  <2>1. pass'.pc \in {"reset", "search"}
    BY <1>8, <1>0 DEF Select, Goto, NoPass, PassRec
  <2> QED
    BY <2>1 DEF At, Late
<1>9. CASE Reset
  <2>1. pass'.pc = "search"
    BY <1>9, <1>0 DEF Reset, Goto, NoPass, PassRec
  <2> QED
    BY <2>1 DEF At, Late
<1>10. CASE Search
  <2>1. pass'.pc = "fetch"
    BY <1>10, <1>0 DEF Search, At, Goto, StartPass, NoPass, PassRec
  <2> QED
    BY <2>1 DEF At, Late
<1>11. CASE FetchChunk
  <2>1. pass'.pc = "fetch"
    BY <1>11, <1>0 DEF FetchChunk, At, Goto, StartPass, NoPass, PassRec
  <2> QED
    BY <2>1 DEF At, Late
<1>12. CASE Fetched
  <2>1. pass'.pc \in {"cursor", "reconcile"}
    BY <1>12, <1>0 DEF Fetched, Goto, NoPass, PassRec
  <2> QED
    BY <2>1 DEF At, Late
<1>13. CASE Reconcile
  <2>1. pass'.pc = "flags"
    BY <1>13, <1>0 DEF Reconcile, Goto, NoPass, PassRec
  <2> QED
    BY <2>1 DEF At, Late
<1>14. CASE FetchFlags
  <2>1. /\ pass'.stored = pass.stored /\ UNCHANGED uid
        /\ pass'.present = {uid[m] : m \in Live} \cap pass.stored
    BY <1>14, <1>0 DEF FetchFlags, Answer, passOnly, serverVars, PassRec
  <2> QED
    BY <2>1 DEF Live, Late
<1>15. CASE DropExpunged
  <2>1. pass'.pc = "cursor"
    BY <1>15, <1>0 DEF DropExpunged, Goto, NoPass, PassRec
  <2> QED
    BY <2>1 DEF At, Late
<1>16. CASE ReconcileFails
  <2>1. pass'.pc = "cursor"
    BY <1>16, <1>0 DEF ReconcileFails, Goto, NoPass, PassRec
  <2> QED
    BY <2>1 DEF At, Late
<1>17. CASE Commit
  <2>1. pass'.pc \in {"session", "idle"}
    BY <1>17, <1>0 DEF Commit, Goto, NoPass, PassRec
  <2> QED
    BY <2>1 DEF At, Late
<1>18. CASE Cut
  <2>1. pass'.pc = "idle"
    BY <1>18, <1>0 DEF Cut, At, Goto, StartPass, NoPass, PassRec
  <2> QED
    BY <2>1 DEF At, Late
<1>19. CASE Restart
  <2>1. pass'.pc = "idle"
    BY <1>19, <1>0 DEF Restart, At, Goto, StartPass, NoPass, PassRec
  <2> QED
    BY <2>1 DEF At, Late
<1>20. ASSUME NEW msg \in Msgs, Arrive(msg) \/ Expunge(msg) \/ Ages(msg) PROVE Renumber \/ (\A l \in Nat : l < nextUid /\ Late(l) => Late(l)')
  <2>1. UNCHANGED <<pass, incarnation>>
    BY <1>20 DEF Arrive, localVars, storeVars, Expunge, Ages, storeVars
  <2> QED
    <3>1. Calm
      BY <1>0, <1>C, <2>1 DEF Renumber
    <3>2. \A m \in Live' : (m \in Live /\ uid'[m] = uid[m]) \/ uid'[m] >= nextUid
      BY <3>1 DEF Calm
    <3>3. ASSUME NEW l \in Nat, l < nextUid, Late(l), At("expunge"),
                 NEW m \in Live', uid'[m] \in pass.stored \ pass.present
          PROVE  l < uid'[m]
      BY <1>0, <3>2, <3>3 DEF Late
    <3> QED
      BY <2>1, <3>3 DEF At, Late
<1>21. ASSUME NEW msg \in Msgs, NEW kind \in Kinds, ReadMapping(msg, kind) PROVE Renumber \/ (\A l \in Nat : l < nextUid /\ Late(l) => Late(l)')
  <2>1. UNCHANGED <<pass, incarnation>>
    BY <1>21 DEF ReadMapping, opOnly, serverVars, storeVars
  <2> QED
    <3>1. Calm
      BY <1>0, <1>C, <2>1 DEF Renumber
    <3>2. \A m \in Live' : (m \in Live /\ uid'[m] = uid[m]) \/ uid'[m] >= nextUid
      BY <3>1 DEF Calm
    <3>3. ASSUME NEW l \in Nat, l < nextUid, Late(l), At("expunge"),
                 NEW m \in Live', uid'[m] \in pass.stored \ pass.present
          PROVE  l < uid'[m]
      BY <1>0, <3>2, <3>3 DEF Late
    <3> QED
      BY <2>1, <3>3 DEF At, Late
<1>22. CASE ReconcileFallsDue \/ ReadMailbox \/ SelectForStored \/ ActRemotely \/ MoveLocation
     \/ OpFails \/ UNCHANGED vars
  <2>1. UNCHANGED <<pass, incarnation>>
    BY <1>22 DEF ReconcileFallsDue, serverVars, storeVars, ReadMailbox, opOnly, SelectForStored,
         NoOp, ActRemotely, MoveLocation, OpFails, vars
  <2> QED
    <3>1. Calm
      BY <1>0, <1>C, <2>1 DEF Renumber
    <3>2. \A m \in Live' : (m \in Live /\ uid'[m] = uid[m]) \/ uid'[m] >= nextUid
      BY <3>1 DEF Calm
    <3>3. ASSUME NEW l \in Nat, l < nextUid, Late(l), At("expunge"),
                 NEW m \in Live', uid'[m] \in pass.stored \ pass.present
          PROVE  l < uid'[m]
      BY <1>0, <3>2, <3>3 DEF Late
    <3> QED
      BY <2>1, <3>3 DEF At, Late
<1> QED
  BY <1>1, <1>2, <1>3, <1>4, <1>5, <1>6, <1>7, <1>8, <1>9, <1>10, <1>11, <1>12, <1>13, <1>14,
       <1>15, <1>16, <1>17, <1>18, <1>19, <1>20, <1>21, <1>22 DEF Next, ServerStep, BeginStep,
       PassStep, OpStep

LEMMA CoverKept ==
  Types /\ MovedInv /\ [Next]_vars =>
    Renumber \/ Reset \/ \A l \in Nat : Safe(l) /\ Late(l) => Safe(l)' /\ Late(l)'
BY SafeKept, LateKept DEF Safe

\* Nothing lies at or below the cursor of a mailbox that was never imported.
LEMMA NothingCovered == Types => Safe(0) /\ Late(0)
<1> SUFFICES ASSUME Types PROVE Safe(0) /\ Late(0)
  OBVIOUS
<1>1. nextUid \in Nat \ {0} /\ \A m \in Live : uid[m] \in Nat /\ uid[m] > 0
  BY UidsTyped DEF Types, Uids
<1> QED
  BY <1>1 DEF Safe, Late

LEMMA KnownSafeKept == Types /\ RowInv /\ PassSafe /\ MovedInv /\ KnownSafe /\ [Next]_vars =>
     KnownSafe'
<1> SUFFICES ASSUME Types, RowInv, PassSafe, MovedInv, KnownSafe, [Next]_vars PROVE KnownSafe'
  OBVIOUS
<1>0. /\ incarnation \in 1..MaxIncarnation /\ pass \in PassRec /\ pass.box \in BoxRec /\ box \in BoxRec
      /\ listed \subseteq BoxRec /\ pass.lastUid \in Nat
      /\ \A row \in BoxRec : row.validity \in Nat /\ row.lastUid \in Nat
  <2>1. Cardinality(Msgs) \in Nat /\ incarnation \in 1..MaxIncarnation
    BY UidsTyped DEF Types
  <2>2. pass \in PassRec /\ box \in BoxRec /\ listed \subseteq BoxRec
    BY DEF Types, StoreTypes, PassTypes
  <2>3. pass.box \in BoxRec /\ pass.lastUid \in {0} \cup Uids
    BY <2>2 DEF PassRec
  <2>4. \A row \in BoxRec : row.validity \in Nat /\ row.lastUid \in {0} \cup Uids
    BY DEF BoxRec
  <2> QED
    BY <2>1, <2>2, <2>3, <2>4 DEF Uids
<1>R. Reset => pass.pc = "reset" /\ pass'.pc = "search"
  BY <1>0 DEF Reset, At, PassRec
<1>C. Renumber \/ Reset \/ \A l \in Nat : Safe(l) /\ Late(l) => Safe(l)' /\ Late(l)'
  BY CoverKept
<1> USE DEF KnownSafe
<1>1. CASE Renumber
  <2>1. incarnation' = incarnation + 1 /\ UNCHANGED <<box, listed, pass>>
    BY <1>1 DEF Renumber, localVars, storeVars
  <2>2. \A row \in Known' : row.validity # incarnation'
    BY <1>0, <2>1 DEF RowInv, Known
  <2> QED
    BY <2>2
<1>2. CASE BeginFull
  <2>1. pass'.box = pass.box /\ listed' = {box} /\ UNCHANGED <<box, incarnation>>
    BY <1>2, <1>0 DEF BeginFull, Goto, StartPass, NoPass, NoBox, Cursor, serverVars, storeVars,
         PassRec
  <2>0. ~Renumber /\ ~Reset
    BY <1>0, <1>2, <1>R, <2>1 DEF Renumber, At, NoPass, Goto, StartPass, PassRec, BeginFull
  <2>2. \A l \in Nat : Safe(l) /\ Late(l) => Safe(l)' /\ Late(l)'
    BY <1>C, <2>0
  <2> QED
    BY <1>0, <2>1, <2>2, NothingCovered DEF Known
<1>3. CASE BeginRequested
  <2>1. pass'.box = box /\ UNCHANGED <<box, incarnation, listed>>
    BY <1>3, <1>0 DEF BeginRequested, Goto, StartPass, NoPass, NoBox, Cursor, serverVars,
         storeVars, PassRec
  <2>0. ~Renumber /\ ~Reset
    BY <1>0, <1>3, <1>R, <2>1 DEF Renumber, At, NoPass, Goto, StartPass, PassRec, BeginRequested
  <2>2. \A l \in Nat : Safe(l) /\ Late(l) => Safe(l)' /\ Late(l)'
    BY <1>C, <2>0
  <2> QED
    BY <1>0, <2>1, <2>2, NothingCovered DEF Known
<1>4. CASE Probe
  <2>1. pass'.box = box /\ UNCHANGED <<box, incarnation, listed>>
    BY <1>4, <1>0 DEF Probe, Goto, StartPass, NoPass, NoBox, Cursor, serverVars, storeVars,
         PassRec
  <2>0. ~Renumber /\ ~Reset
    BY <1>0, <1>4, <1>R, <2>1 DEF Renumber, At, NoPass, Goto, StartPass, PassRec, Probe
  <2>2. \A l \in Nat : Safe(l) /\ Late(l) => Safe(l)' /\ Late(l)'
    BY <1>C, <2>0
  <2> QED
    BY <1>0, <2>1, <2>2, NothingCovered DEF Known
<1>5. CASE ServicePending
  <2>1. pass'.box = box /\ UNCHANGED <<box, incarnation, listed>>
    BY <1>5, <1>0 DEF ServicePending, Goto, StartPass, NoPass, NoBox, Cursor, serverVars,
         storeVars, PassRec
  <2>0. ~Renumber /\ ~Reset
    BY <1>0, <1>5, <1>R, <2>1 DEF Renumber, At, NoPass, Goto, StartPass, PassRec, ServicePending
  <2>2. \A l \in Nat : Safe(l) /\ Late(l) => Safe(l)' /\ Late(l)'
    BY <1>C, <2>0
  <2> QED
    BY <1>0, <2>1, <2>2, NothingCovered DEF Known
<1>6. CASE SyncListed
  <2>1. PICK row \in listed : pass' = [NoPass EXCEPT !.pc = "loaded", !.box = row, !.skip = FALSE]
    BY <1>6 DEF SyncListed, StartPass
  <2>2. pass'.box = row /\ listed' = {} /\ UNCHANGED <<box, incarnation>>
    BY <1>6, <2>1 DEF SyncListed, NoPass, serverVars, storeVars
  <2>3. ~Renumber /\ ~Reset
    BY <1>0, <1>6, <1>R, <2>2 DEF Renumber, At, SyncListed
  <2>4. \A l \in Nat : Safe(l) /\ Late(l) => Safe(l)' /\ Late(l)'
    BY <1>C, <2>3
  <2> QED
    BY <1>0, <2>2, <2>4 DEF Known
<1>7. CASE SkipQuiet
  <2>1. pass'.box = [validity |-> 0, lastUid |-> 0, uidNext |-> 0] /\ listed' = {} /\ UNCHANGED <<box, incarnation>>
    BY <1>7, <1>0 DEF SkipQuiet, Goto, StartPass, NoPass, NoBox, Cursor, serverVars, storeVars,
         PassRec
  <2>0. ~Renumber /\ ~Reset
    BY <1>0, <1>7, <1>R, <2>1 DEF Renumber, At, NoPass, Goto, StartPass, PassRec, SkipQuiet
  <2>2. \A l \in Nat : Safe(l) /\ Late(l) => Safe(l)' /\ Late(l)'
    BY <1>C, <2>0
  <2> QED
    BY <1>0, <2>1, <2>2, NothingCovered DEF Known
<1>8. CASE Select
  <2>1. pass'.box = [validity |-> 0, lastUid |-> 0, uidNext |-> 0] /\ UNCHANGED <<box, listed, incarnation>>
    BY <1>8, <1>0 DEF Select, Goto, StartPass, NoPass, NoBox, Cursor, serverVars, storeVars,
         PassRec
  <2>0. ~Renumber /\ ~Reset
    BY <1>0, <1>8, <1>R, <2>1 DEF Renumber, At, NoPass, Goto, StartPass, PassRec, Select
  <2>2. \A l \in Nat : Safe(l) /\ Late(l) => Safe(l)' /\ Late(l)'
    BY <1>C, <2>0
  <2> QED
    BY <1>0, <2>1, <2>2, NothingCovered DEF Known
<1>9. CASE Reset
  <2>1. /\ At("reset") /\ box'.lastUid = 0 /\ UNCHANGED <<listed, uid, nextUid, incarnation>>
        /\ pass'.box = pass.box /\ pass'.pc = "search"
    BY <1>9, <1>0 DEF Reset, serverVars, BoxRec, PassRec
  <2>2. Safe(0)' /\ Late(0)'
    <3>1. nextUid \in Nat \ {0} /\ \A m \in Live : uid[m] \in Nat /\ uid[m] > 0
      BY UidsTyped DEF Types, Uids
    <3> QED
      BY <2>1, <3>1 DEF Safe, Late, At, Live
  <2>3. \A row \in listed \cup {pass.box} : row.validity # incarnation
    BY <2>1 DEF RowInv
  <2>4. ASSUME NEW row \in Known', row.validity = incarnation' PROVE row.lastUid = 0
    BY <2>1, <2>3, <2>4 DEF Known
  <2> QED
    BY <2>2, <2>4
<1>10. CASE Commit
  <2>1. At("cursor") /\ pass'.box = [validity |-> 0, lastUid |-> 0, uidNext |-> 0] /\ UNCHANGED <<listed, incarnation>>
        /\ box'.lastUid = pass.lastUid
    BY <1>10, <1>0 DEF Commit, Goto, StartPass, NoPass, NoBox, Cursor, serverVars, storeVars,
         PassRec
  <2>0. ~Renumber /\ ~Reset
    BY <1>0, <1>10, <1>R, <2>1 DEF Renumber, At, NoPass, Goto, StartPass, PassRec, Commit
  <2>2. \A l \in Nat : Safe(l) /\ Late(l) => Safe(l)' /\ Late(l)'
    BY <1>C, <2>0
  <2> QED
    BY <1>0, <2>1, <2>2, NothingCovered DEF Known, PassSafe, Importing, Selected, At
<1>11. CASE Cut
  <2>1. pass'.box = [validity |-> 0, lastUid |-> 0, uidNext |-> 0] /\ listed' = {} /\ UNCHANGED <<box, incarnation>>
    BY <1>11, <1>0 DEF Cut, Goto, StartPass, NoPass, NoBox, Cursor, serverVars, storeVars,
         PassRec
  <2>0. ~Renumber /\ ~Reset
    BY <1>0, <1>11, <1>R, <2>1 DEF Renumber, At, NoPass, Goto, StartPass, PassRec, Cut
  <2>2. \A l \in Nat : Safe(l) /\ Late(l) => Safe(l)' /\ Late(l)'
    BY <1>C, <2>0
  <2> QED
    BY <1>0, <2>1, <2>2, NothingCovered DEF Known
<1>12. CASE Restart
  <2>1. pass'.box = [validity |-> 0, lastUid |-> 0, uidNext |-> 0] /\ listed' = {} /\ UNCHANGED <<box, incarnation>>
    BY <1>12, <1>0 DEF Restart, Goto, StartPass, NoPass, NoBox, Cursor, serverVars, storeVars,
         PassRec
  <2>0. ~Renumber /\ ~Reset
    BY <1>0, <1>12, <1>R, <2>1 DEF Renumber, At, NoPass, Goto, StartPass, PassRec, Restart
  <2>2. \A l \in Nat : Safe(l) /\ Late(l) => Safe(l)' /\ Late(l)'
    BY <1>C, <2>0
  <2> QED
    BY <1>0, <2>1, <2>2, NothingCovered DEF Known
<1>13. ASSUME NEW m \in Msgs, Arrive(m) \/ Expunge(m) \/ Ages(m) PROVE KnownSafe'
  <2>1. UNCHANGED <<box, listed, incarnation, pass.box>>
    BY <1>13, <1>0 DEF Arrive, localVars, storeVars, Expunge, Ages, storeVars, PassRec
  <2>2. ~Reset
    BY <1>13, <1>0, <1>R DEF Arrive, localVars, storeVars, Expunge, Ages, storeVars, At, PassRec
  <2> QED
    <3>1. \A l \in Nat : Safe(l) /\ Late(l) => Safe(l)' /\ Late(l)'
      BY <1>0, <1>C, <2>1, <2>2 DEF Renumber
    <3> QED
      BY <1>0, <2>1, <3>1 DEF Known
<1>14. ASSUME NEW m \in Msgs, NEW kind \in Kinds, ReadMapping(m, kind) PROVE KnownSafe'
  <2>1. UNCHANGED <<box, listed, incarnation, pass.box>>
    BY <1>14, <1>0 DEF ReadMapping, opOnly, serverVars, storeVars, PassRec
  <2>2. ~Reset
    BY <1>14, <1>0, <1>R DEF ReadMapping, opOnly, serverVars, storeVars, At, PassRec
  <2> QED
    <3>1. \A l \in Nat : Safe(l) /\ Late(l) => Safe(l)' /\ Late(l)'
      BY <1>0, <1>C, <2>1, <2>2 DEF Renumber
    <3> QED
      BY <1>0, <2>1, <3>1 DEF Known
<1>15. CASE Search \/ FetchChunk \/ Fetched \/ Reconcile \/ FetchFlags \/ DropExpunged \/
     ReconcileFails \/ ReconcileFallsDue \/ ReadMailbox \/ SelectForStored \/ ActRemotely \/
     MoveLocation \/ OpFails \/ UNCHANGED vars
  <2>1. UNCHANGED <<box, listed, incarnation, pass.box>>
    BY <1>15, <1>0 DEF Search, passOnly, At, serverVars, storeVars, FetchChunk, Fetched, Goto,
         Reconcile, FetchFlags, DropExpunged, ReconcileFails, ReconcileFallsDue, ReadMailbox,
         opOnly, SelectForStored, NoOp, ActRemotely, MoveLocation, OpFails, vars, PassRec
  <2>2. ~Reset
    BY <1>15, <1>0, <1>R DEF Search, passOnly, At, serverVars, storeVars, FetchChunk, Fetched,
         Reconcile, FetchFlags, DropExpunged, ReconcileFails, ReconcileFallsDue, ReadMailbox,
         opOnly, SelectForStored, NoOp, ActRemotely, MoveLocation, OpFails, vars, Goto, PassRec
  <2> QED
    <3>1. \A l \in Nat : Safe(l) /\ Late(l) => Safe(l)' /\ Late(l)'
      BY <1>0, <1>C, <2>1, <2>2 DEF Renumber
    <3> QED
      BY <1>0, <2>1, <3>1 DEF Known
<1> QED
  BY <1>1, <1>2, <1>3, <1>4, <1>5, <1>6, <1>7, <1>8, <1>9, <1>10, <1>11, <1>12, <1>13, <1>14,
       <1>15 DEF Next, ServerStep, BeginStep, PassStep, OpStep

LEMMA PassSafeKept == Types /\ RowInv /\ KnownSafe /\ AskedInv /\ MovedInv /\ PassSafe /\
     [Next]_vars => PassSafe'
<1> SUFFICES ASSUME Types, RowInv, KnownSafe, AskedInv, MovedInv, PassSafe, [Next]_vars PROVE
     PassSafe'
  OBVIOUS
<1>0. /\ incarnation \in 1..MaxIncarnation /\ pass \in PassRec /\ pass.box \in BoxRec /\ box \in BoxRec
      /\ listed \subseteq BoxRec /\ pass.lastUid \in Nat
      /\ \A row \in BoxRec : row.validity \in Nat /\ row.lastUid \in Nat
  <2>1. Cardinality(Msgs) \in Nat /\ incarnation \in 1..MaxIncarnation
    BY UidsTyped DEF Types
  <2>2. pass \in PassRec /\ box \in BoxRec /\ listed \subseteq BoxRec
    BY DEF Types, StoreTypes, PassTypes
  <2>3. pass.box \in BoxRec /\ pass.lastUid \in {0} \cup Uids
    BY <2>2 DEF PassRec
  <2>4. \A row \in BoxRec : row.validity \in Nat /\ row.lastUid \in {0} \cup Uids
    BY DEF BoxRec
  <2> QED
    BY <2>1, <2>2, <2>3, <2>4 DEF Uids
<1>R. Reset => pass.pc = "reset" /\ pass'.pc = "search"
  BY <1>0 DEF Reset, At, PassRec
<1>C. Renumber \/ Reset \/ \A l \in Nat : Safe(l) /\ Late(l) => Safe(l)' /\ Late(l)'
  BY CoverKept
<1> USE DEF PassSafe
<1>1. CASE Renumber
  <2>1. pass.pc \notin Selected /\ UNCHANGED pass
    BY <1>1 DEF Renumber, localVars
  <2> QED
    BY <2>1 DEF Importing
<1>2. CASE BeginFull
  <2>1. pass'.pc = "session"
    BY <1>2, <1>0 DEF BeginFull, Goto, StartPass, NoPass, PassRec
  <2> QED
    BY <2>1 DEF Importing, Selected
<1>3. CASE BeginRequested
  <2>1. pass'.pc = "loaded"
    BY <1>3, <1>0 DEF BeginRequested, Goto, StartPass, NoPass, PassRec
  <2> QED
    BY <2>1 DEF Importing, Selected
<1>4. CASE Probe
  <2>1. pass'.pc = "loaded"
    BY <1>4, <1>0 DEF Probe, Goto, StartPass, NoPass, PassRec
  <2> QED
    BY <2>1 DEF Importing, Selected
<1>5. CASE ServicePending
  <2>1. pass'.pc = "loaded"
    BY <1>5, <1>0 DEF ServicePending, Goto, StartPass, NoPass, PassRec
  <2> QED
    BY <2>1 DEF Importing, Selected
<1>6. CASE SyncListed
  <2>1. pass'.pc = "loaded"
    BY <1>6, <1>0 DEF SyncListed, Goto, StartPass, NoPass, PassRec
  <2> QED
    BY <2>1 DEF Importing, Selected
<1>7. CASE SkipQuiet
  <2>1. pass'.pc = "idle"
    BY <1>7, <1>0 DEF SkipQuiet, Goto, StartPass, NoPass, PassRec
  <2> QED
    BY <2>1 DEF Importing, Selected
<1>8. CASE Select
  <2>1. /\ At("loaded") /\ pass'.lastUid = pass.box.lastUid /\ UNCHANGED incarnation
        /\ pass'.pc = "reset" \/ pass.box.validity = 0 \/ pass.box.validity = incarnation
    <3>1. /\ At("loaded") /\ UNCHANGED incarnation
          /\ pass' = [pass EXCEPT !.pc = IF Renumbered(pass.box) THEN "reset" ELSE "search",
                                  !.validity = incarnation, !.next = nextUid,
                                  !.lastUid = pass.box.lastUid, !.box = NoBox]
      BY <1>8 DEF Select, serverVars
    <3> QED
      BY <3>1, <1>0 DEF PassRec, Renumbered
  <2>2. ~Renumber /\ ~Reset
    BY <1>0, <1>R, <2>1 DEF Renumber, At
  <2>3. \A l \in Nat : Safe(l) /\ Late(l) => Safe(l)' /\ Late(l)'
    BY <1>C, <2>2
  <2> SUFFICES ASSUME Importing' PROVE Safe(pass.box.lastUid) /\ Late(pass.box.lastUid)
    BY <1>0, <2>1, <2>3
  <2>4. CASE pass.box.validity = 0
    BY <2>4, NothingCovered DEF RowInv, Known
  <2>5. CASE pass.box.validity = incarnation
    BY <2>5 DEF KnownSafe, Known
  <2> QED
    BY <2>1, <2>4, <2>5 DEF Importing
<1>9. CASE Reset
  <2>1. pass'.lastUid = 0 /\ pass'.pc = "search" /\ UNCHANGED <<uid, nextUid>>
    BY <1>9, <1>0 DEF Reset, serverVars, PassRec
  <2>2. nextUid \in Nat \ {0} /\ \A m \in Live : uid[m] \in Nat /\ uid[m] > 0
    BY UidsTyped DEF Types, Uids
  <2> QED
    BY <2>1, <2>2 DEF Safe, Late, At, Live
<1>10. CASE Search
  <2>1. Importing /\ pass'.lastUid = pass.lastUid /\ pass'.pc # pass.pc /\ pass.pc # "reset" /\ UNCHANGED incarnation
    BY <1>10, <1>0 DEF Search, At, Goto, Importing, Selected, passOnly, serverVars, PassRec
  <2>2. \A l \in Nat : Safe(l) /\ Late(l) => Safe(l)' /\ Late(l)'
    BY <1>0, <1>C, <1>R, <2>1 DEF Renumber
  <2> QED
    BY <1>0, <2>1, <2>2
<1>11. CASE FetchChunk
  <2>1. PICK C \in SUBSET pass.todo, l \in {0} \cup Uids : Fetches(C, l)
    BY <1>11, FetchStep
  <2>2. /\ pass'.lastUid = l /\ pass'.pc = "fetch" /\ pass.pc = "fetch"
    BY <1>0, <2>1 DEF Fetches, PassRec, At
  <2>3. UNCHANGED <<uid, nextUid, incarnation, old, stray>>
    BY <1>11 DEF FetchChunk, serverVars
  <2>4. \A k \in Nat : Safe(k) /\ Late(k) => Safe(k)' /\ Late(k)'
    BY <1>0, <1>C, <1>R, <2>2, <2>3 DEF Renumber
  <2>6. /\ \A m \in Live : m \in Msgs /\ uid[m] \in Nat /\ uid[m] \in Uids /\ uid[m] < nextUid
        /\ nextUid \in Nat /\ l \in Nat /\ pass.todo \subseteq Nat
    <3>1. Cardinality(Msgs) \in Nat
      BY UidsTyped DEF Types
    <3>2. pass.todo \subseteq Uids
      BY <1>0 DEF PassRec
    <3> QED
      BY <3>1, <3>2, UidsTyped DEF Types, Uids
  <2>7. l < nextUid
    BY <2>1, <2>2, <2>6 DEF Fetches, PassSafe, Importing, Selected, Safe
  <2>8. ASSUME stray = {}, NEW m \in Live \ old, uid[m] <= l PROVE rows'[uid[m]] = m
    <3>1. CASE uid[m] <= pass.lastUid
      <4>1. rows[uid[m]] = m
        BY <2>2, <2>8, <3>1 DEF PassSafe, Importing, Selected, Safe
      <4>2. \A n \in Live : uid[n] = uid[m] => n = m
        BY <2>8 DEF Types, Server, ServerInv
      <4> QED
        BY <2>1, <2>6, <2>8, <4>1, <4>2 DEF Fetches
    <3>2. CASE uid[m] > pass.lastUid
      <4>1. PICK n \in Live : uid[n] \in C /\ uid[n] = l
        BY <1>0, <2>1, <2>6, <2>8, <3>2 DEF Fetches
      <4>2. uid[m] \in pass.todo
        BY <2>2, <2>6, <2>8, <3>2, <4>1 DEF AskedInv, At
      <4>3. uid[m] \in C
        BY <2>1, <2>6, <2>8, <4>1, <4>2 DEF Fetches
      <4> QED
        BY <2>1, <2>8, <4>3 DEF Fetches
    <3> QED
      BY <1>0, <2>6, <3>1, <3>2
  <2>9. Safe(l)'
    BY <2>3, <2>7, <2>8 DEF Safe, Live
  <2>10. Late(l)'
    BY <2>2 DEF Late, At
  <2>11. \A k \in Nat : k = l => Safe(k)' /\ Late(k)'
    BY <2>9, <2>10 DEF Safe, Late
  <2> QED
    BY <2>2, <2>6, <2>11
<1>12. CASE Fetched
  <2>1. Importing /\ pass'.lastUid = pass.lastUid /\ pass'.pc # pass.pc /\ pass.pc # "reset" /\ UNCHANGED incarnation
    BY <1>12, <1>0 DEF Fetched, At, Goto, Importing, Selected, passOnly, serverVars, PassRec
  <2>2. \A l \in Nat : Safe(l) /\ Late(l) => Safe(l)' /\ Late(l)'
    BY <1>0, <1>C, <1>R, <2>1 DEF Renumber
  <2> QED
    BY <1>0, <2>1, <2>2
<1>13. CASE Reconcile
  <2>1. Importing /\ pass'.lastUid = pass.lastUid /\ pass'.pc # pass.pc /\ pass.pc # "reset" /\ UNCHANGED incarnation
    BY <1>13, <1>0 DEF Reconcile, At, Goto, Importing, Selected, passOnly, serverVars, PassRec
  <2>2. \A l \in Nat : Safe(l) /\ Late(l) => Safe(l)' /\ Late(l)'
    BY <1>0, <1>C, <1>R, <2>1 DEF Renumber
  <2> QED
    BY <1>0, <2>1, <2>2
<1>14. CASE FetchFlags
  <2>1. Importing /\ pass'.lastUid = pass.lastUid /\ pass'.pc # pass.pc /\ pass.pc # "reset" /\ UNCHANGED incarnation
    BY <1>14, <1>0 DEF FetchFlags, At, Goto, Importing, Selected, passOnly, serverVars, PassRec
  <2>2. \A l \in Nat : Safe(l) /\ Late(l) => Safe(l)' /\ Late(l)'
    BY <1>0, <1>C, <1>R, <2>1 DEF Renumber
  <2> QED
    BY <1>0, <2>1, <2>2
<1>15. CASE DropExpunged
  <2>1. Importing /\ pass'.lastUid = pass.lastUid /\ pass'.pc # pass.pc /\ pass.pc # "reset" /\ UNCHANGED incarnation
    BY <1>15, <1>0 DEF DropExpunged, At, Goto, Importing, Selected, passOnly, serverVars, PassRec
  <2>2. \A l \in Nat : Safe(l) /\ Late(l) => Safe(l)' /\ Late(l)'
    BY <1>0, <1>C, <1>R, <2>1 DEF Renumber
  <2> QED
    BY <1>0, <2>1, <2>2
<1>16. CASE ReconcileFails
  <2>1. Importing /\ pass'.lastUid = pass.lastUid /\ pass'.pc # pass.pc /\ pass.pc # "reset" /\ UNCHANGED incarnation
    BY <1>16, <1>0 DEF ReconcileFails, At, Goto, Importing, Selected, passOnly, serverVars,
         PassRec
  <2>2. \A l \in Nat : Safe(l) /\ Late(l) => Safe(l)' /\ Late(l)'
    BY <1>0, <1>C, <1>R, <2>1 DEF Renumber
  <2> QED
    BY <1>0, <2>1, <2>2
<1>17. CASE Commit
  <2>1. pass'.pc \in {"session", "idle"}
    BY <1>17, <1>0 DEF Commit, Goto, StartPass, NoPass, PassRec
  <2> QED
    BY <2>1 DEF Importing, Selected
<1>18. CASE Cut
  <2>1. pass'.pc = "idle"
    BY <1>18, <1>0 DEF Cut, Goto, StartPass, NoPass, PassRec
  <2> QED
    BY <2>1 DEF Importing, Selected
<1>19. CASE Restart
  <2>1. pass'.pc = "idle"
    BY <1>19, <1>0 DEF Restart, Goto, StartPass, NoPass, PassRec
  <2> QED
    BY <2>1 DEF Importing, Selected
<1>20. ASSUME NEW m \in Msgs, Arrive(m) \/ Expunge(m) \/ Ages(m) PROVE PassSafe'
  <2>1. UNCHANGED <<pass, incarnation>>
    BY <1>20 DEF Arrive, localVars, storeVars, Expunge, Ages, storeVars
  <2> QED
    <3>1. \A l \in Nat : Safe(l) /\ Late(l) => Safe(l)' /\ Late(l)'
      BY <1>0, <1>C, <1>R, <2>1 DEF Renumber
    <3> QED
      BY <1>0, <2>1, <3>1 DEF Importing
<1>21. ASSUME NEW m \in Msgs, NEW kind \in Kinds, ReadMapping(m, kind) PROVE PassSafe'
  <2>1. UNCHANGED <<pass, incarnation>>
    BY <1>21 DEF ReadMapping, opOnly, serverVars, storeVars
  <2> QED
    <3>1. \A l \in Nat : Safe(l) /\ Late(l) => Safe(l)' /\ Late(l)'
      BY <1>0, <1>C, <1>R, <2>1 DEF Renumber
    <3> QED
      BY <1>0, <2>1, <3>1 DEF Importing
<1>22. CASE ReconcileFallsDue \/ ReadMailbox \/ SelectForStored \/ ActRemotely \/ MoveLocation
     \/ OpFails \/ UNCHANGED vars
  <2>1. UNCHANGED <<pass, incarnation>>
    BY <1>22 DEF ReconcileFallsDue, serverVars, storeVars, ReadMailbox, opOnly, SelectForStored,
         NoOp, ActRemotely, MoveLocation, OpFails, vars
  <2> QED
    <3>1. \A l \in Nat : Safe(l) /\ Late(l) => Safe(l)' /\ Late(l)'
      BY <1>0, <1>C, <1>R, <2>1 DEF Renumber
    <3> QED
      BY <1>0, <2>1, <3>1 DEF Importing
<1> QED
  BY <1>1, <1>2, <1>3, <1>4, <1>5, <1>6, <1>7, <1>8, <1>9, <1>10, <1>11, <1>12, <1>13, <1>14,
       <1>15, <1>16, <1>17, <1>18, <1>19, <1>20, <1>21, <1>22 DEF Next, ServerStep, BeginStep,
       PassStep, OpStep

LEMMA AskedKept == Types /\ SelectedInv /\ AskedInv /\ [Next]_vars => AskedInv'
<1> SUFFICES ASSUME Types, SelectedInv, AskedInv, [Next]_vars PROVE AskedInv'
  OBVIOUS
<1>0. /\ incarnation \in 1..MaxIncarnation /\ pass \in PassRec /\ pass.lastUid \in Nat
      /\ nextUid \in Nat /\ pass.todo \subseteq Nat /\ \A m \in Live : uid[m] \in Nat
  <2>1. Cardinality(Msgs) \in Nat /\ pass \in PassRec
    BY UidsTyped DEF Types, PassTypes
  <2> QED
    BY <2>1, UidsTyped DEF Types, PassRec, Uids
<1>C. Renumber \/ Calm
  BY OnlyRenumberDisturbs
<1> USE DEF AskedInv
<1>1. CASE Renumber
  <2>1. pass.pc # "fetch" /\ UNCHANGED pass
    BY <1>1 DEF Renumber, localVars, Selected
  <2> QED
    BY <2>1 DEF At
<1>2. CASE BeginFull
  <2>1. pass'.pc = "session"
    BY <1>2, <1>0 DEF BeginFull, Goto, StartPass, NoPass, PassRec
  <2> QED
    BY <2>1 DEF At
<1>3. CASE BeginRequested
  <2>1. pass'.pc = "loaded"
    BY <1>3, <1>0 DEF BeginRequested, Goto, StartPass, NoPass, PassRec
  <2> QED
    BY <2>1 DEF At
<1>4. CASE Probe
  <2>1. pass'.pc = "loaded"
    BY <1>4, <1>0 DEF Probe, Goto, StartPass, NoPass, PassRec
  <2> QED
    BY <2>1 DEF At
<1>5. CASE ServicePending
  <2>1. pass'.pc = "loaded"
    BY <1>5, <1>0 DEF ServicePending, Goto, StartPass, NoPass, PassRec
  <2> QED
    BY <2>1 DEF At
<1>6. CASE SyncListed
  <2>1. pass'.pc = "loaded"
    BY <1>6, <1>0 DEF SyncListed, Goto, StartPass, NoPass, PassRec
  <2> QED
    BY <2>1 DEF At
<1>7. CASE SkipQuiet
  <2>1. pass'.pc = "idle"
    BY <1>7, <1>0 DEF SkipQuiet, Goto, StartPass, NoPass, PassRec
  <2> QED
    BY <2>1 DEF At
<1>8. CASE Select
  <2>1. pass'.pc \in {"reset", "search"}
    BY <1>8, <1>0 DEF Select, Goto, NoPass, PassRec
  <2> QED
    BY <2>1 DEF At
<1>9. CASE Reset
  <2>1. pass'.pc = "search"
    BY <1>9, <1>0 DEF Reset, Goto, StartPass, NoPass, PassRec
  <2> QED
    BY <2>1 DEF At
<1>10. CASE Search
  <2>1. /\ pass'.lastUid = pass.lastUid /\ pass'.todo = NewUids /\ UNCHANGED <<uid, old>>
        /\ pass.next \in Nat
    BY <1>10, <1>0 DEF Search, passOnly, serverVars, PassRec
  <2>2. \A m \in Live \ old : uid[m] > pass.lastUid =>
          uid[m] \in NewUids \/ \A t \in NewUids : t < uid[m]
    <3>1. CASE pass.lastUid = 0 /\ ~pass.rebuilt
      BY <3>1 DEF NewUids
    <3>2. CASE ~(pass.lastUid = 0 /\ ~pass.rebuilt)
      <4>1. NewUids = {uid[m] : m \in Live} \cap ((pass.lastUid + 1)..(pass.next - 1))
        BY <3>2 DEF NewUids, SearchFrom
      <4> QED
        BY <1>0, <2>1, <4>1
    <3> QED
      BY <3>1, <3>2
  <2> QED
    BY <2>1, <2>2 DEF Live
<1>11. CASE FetchChunk
  <2>1. PICK C \in SUBSET pass.todo, l \in {0} \cup Uids : Fetches(C, l)
    BY <1>11, FetchStep
  <2>2. /\ pass'.lastUid = l /\ pass'.todo = pass.todo \ C /\ pass.pc = "fetch"
        /\ pass.lastUid <= l
    BY <1>0, <2>1 DEF Fetches, PassRec, At
  <2>3. UNCHANGED <<uid, old>> /\ l \in Nat
    <3>1. Cardinality(Msgs) \in Nat
      BY UidsTyped DEF Types
    <3> QED
      BY <1>11, <3>1 DEF FetchChunk, serverVars, Uids
  <2>4. ASSUME NEW m \in Live \ old, uid[m] > l PROVE uid[m] \in pass.todo \ C \/ \A t \in pass.todo \ C : t < uid[m]
    <3>1. uid[m] \notin C
      BY <1>0, <2>1, <2>3, <2>4 DEF Fetches
    <3>2. uid[m] > pass.lastUid
      BY <1>0, <2>2, <2>3, <2>4
    <3> QED
      BY <2>2, <2>4, <3>1, <3>2 DEF AskedInv, At
  <2> QED
    BY <2>2, <2>3, <2>4 DEF Live
<1>12. CASE Fetched
  <2>1. pass'.pc \in {"cursor", "reconcile"}
    BY <1>12, <1>0 DEF Fetched, Goto, NoPass, PassRec
  <2> QED
    BY <2>1 DEF At
<1>13. CASE Reconcile
  <2>1. pass'.pc = "flags"
    BY <1>13, <1>0 DEF Reconcile, Goto, StartPass, NoPass, PassRec
  <2> QED
    BY <2>1 DEF At
<1>14. CASE FetchFlags
  <2>1. pass'.pc = "expunge"
    BY <1>14, <1>0 DEF FetchFlags, Goto, StartPass, NoPass, PassRec
  <2> QED
    BY <2>1 DEF At
<1>15. CASE DropExpunged
  <2>1. pass'.pc = "cursor"
    BY <1>15, <1>0 DEF DropExpunged, Goto, StartPass, NoPass, PassRec
  <2> QED
    BY <2>1 DEF At
<1>16. CASE ReconcileFails
  <2>1. pass'.pc = "cursor"
    BY <1>16, <1>0 DEF ReconcileFails, Goto, StartPass, NoPass, PassRec
  <2> QED
    BY <2>1 DEF At
<1>17. CASE Commit
  <2>1. pass'.pc \in {"session", "idle"}
    BY <1>17, <1>0 DEF Commit, Goto, NoPass, PassRec
  <2> QED
    BY <2>1 DEF At
<1>18. CASE Cut
  <2>1. pass'.pc = "idle"
    BY <1>18, <1>0 DEF Cut, Goto, StartPass, NoPass, PassRec
  <2> QED
    BY <2>1 DEF At
<1>19. CASE Restart
  <2>1. pass'.pc = "idle"
    BY <1>19, <1>0 DEF Restart, Goto, StartPass, NoPass, PassRec
  <2> QED
    BY <2>1 DEF At
<1>20. ASSUME NEW msg \in Msgs, Arrive(msg) \/ Expunge(msg) \/ Ages(msg) PROVE AskedInv'
  <2>1. UNCHANGED <<pass, incarnation>>
    BY <1>20 DEF Arrive, localVars, storeVars, Expunge, Ages, storeVars
  <2> QED
    <3>1. Calm
      BY <1>0, <1>C, <2>1 DEF Renumber
    <3>2. \A m \in Live' : \/ m \in Live /\ uid'[m] = uid[m]
                           \/ uid'[m] \in Nat /\ uid'[m] >= nextUid
      BY <3>1 DEF Calm
    <3>3. old \subseteq old'
      BY <3>1 DEF Calm
    <3>4. At("fetch") => \A t \in pass.todo : t < nextUid
      BY DEF SelectedInv
    <3> QED
      BY <1>0, <2>1, <3>2, <3>3, <3>4 DEF At
<1>21. ASSUME NEW msg \in Msgs, NEW kind \in Kinds, ReadMapping(msg, kind) PROVE AskedInv'
  <2>1. UNCHANGED <<pass, incarnation>>
    BY <1>21 DEF ReadMapping, opOnly, serverVars, storeVars
  <2> QED
    <3>1. Calm
      BY <1>0, <1>C, <2>1 DEF Renumber
    <3>2. \A m \in Live' : \/ m \in Live /\ uid'[m] = uid[m]
                           \/ uid'[m] \in Nat /\ uid'[m] >= nextUid
      BY <3>1 DEF Calm
    <3>3. old \subseteq old'
      BY <3>1 DEF Calm
    <3>4. At("fetch") => \A t \in pass.todo : t < nextUid
      BY DEF SelectedInv
    <3> QED
      BY <1>0, <2>1, <3>2, <3>3, <3>4 DEF At
<1>22. CASE ReconcileFallsDue \/ ReadMailbox \/ SelectForStored \/ ActRemotely \/ MoveLocation
     \/ OpFails \/ UNCHANGED vars
  <2>1. UNCHANGED <<pass, incarnation>>
    BY <1>22 DEF ReconcileFallsDue, serverVars, storeVars, ReadMailbox, opOnly, SelectForStored,
         NoOp, ActRemotely, MoveLocation, OpFails, vars
  <2> QED
    <3>1. Calm
      BY <1>0, <1>C, <2>1 DEF Renumber
    <3>2. \A m \in Live' : \/ m \in Live /\ uid'[m] = uid[m]
                           \/ uid'[m] \in Nat /\ uid'[m] >= nextUid
      BY <3>1 DEF Calm
    <3>3. old \subseteq old'
      BY <3>1 DEF Calm
    <3>4. At("fetch") => \A t \in pass.todo : t < nextUid
      BY DEF SelectedInv
    <3> QED
      BY <1>0, <2>1, <3>2, <3>3, <3>4 DEF At
<1> QED
  BY <1>1, <1>2, <1>3, <1>4, <1>5, <1>6, <1>7, <1>8, <1>9, <1>10, <1>11, <1>12, <1>13, <1>14,
       <1>15, <1>16, <1>17, <1>18, <1>19, <1>20, <1>21, <1>22 DEF Next, ServerStep, BeginStep,
       PassStep, OpStep

LEMMA MovedKept == Types /\ OpInv /\ MovedInv /\ [Next]_vars => MovedInv'
<1> SUFFICES ASSUME Types, OpInv, MovedInv, [Next]_vars PROVE MovedInv'
  OBVIOUS
<1>0. op \in OpRec /\ uid \in [Msgs -> Nat] /\ incarnation \in Nat
  BY UidsTyped DEF Types, OpTypes, Server, ServerTypes
<1>C. Renumber \/ Calm
  BY OnlyRenumberDisturbs
<1> USE DEF MovedInv
<1>1. CASE Renumber
  <2>1. UNCHANGED <<op, stray>> /\ \A m \in Msgs : m \notin Live => uid'[m] = 0
    BY <1>1 DEF Renumber, localVars
  <2> QED
    BY <2>1 DEF Live
<1>2. CASE Restart
  <2>1. op'.pc = "none"
    BY <1>2 DEF Restart, NoOp
  <2> QED
    BY <2>1, <1>0, <1>C DEF Calm, OpInv, Renumber
<1>3. ASSUME NEW m \in Msgs, NEW kind \in Kinds, ReadMapping(m, kind) PROVE MovedInv'
  <2>1. op'.pc = "mapped"
    BY <1>3 DEF ReadMapping, NoOp
  <2> QED
    BY <2>1, <1>0, <1>C DEF Calm, OpInv, Renumber
<1>4. CASE ReadMailbox
  <2>1. op'.pc \in {"located"}
    BY <1>4, <1>0 DEF ReadMailbox, NoOp, OpRec
  <2> QED
    BY <2>1, <1>0, <1>C DEF Calm, OpInv, Renumber
<1>5. CASE SelectForStored
  <2>1. op'.pc \in {"selected", "none"}
    BY <1>5, <1>0 DEF SelectForStored, NoOp, OpRec
  <2> QED
    BY <2>1, <1>0, <1>C DEF Calm, OpInv, Renumber
<1>6. CASE ActRemotely
  <2>1. CASE op.kind = "move"
    <3>1. /\ op'.msg = op.msg /\ op.pc = "selected"
          /\ uid' = [m \in Msgs |-> IF uid[m] = op.uid THEN 0 ELSE uid[m]]
      BY <1>6, <1>0, <2>1 DEF ActRemotely, OpRec
    <3>2. stray' = {} => ~Misses
      BY <1>6 DEF ActRemotely
    <3>3. ~Misses => uid[op.msg] = op.uid \/ op.msg \notin Live
      BY DEF Misses
    <3>4. op.msg \in Msgs
      BY <3>1 DEF OpInv
    <3> QED
      BY <3>1, <3>2, <3>3, <3>4 DEF Live
  <2>2. CASE op.kind # "move"
    <3>1. op'.pc = "none"
      BY <1>6, <2>2 DEF ActRemotely, NoOp
    <3> QED
      BY <3>1
  <2> QED
    BY <2>1, <2>2
<1>7. CASE MoveLocation
  <2>1. op'.pc = "none"
    BY <1>7 DEF MoveLocation, NoOp
  <2> QED
    BY <2>1, <1>0, <1>C DEF Calm, OpInv, Renumber
<1>8. CASE OpFails
  <2>1. op'.pc = "none"
    BY <1>8 DEF OpFails, NoOp
  <2> QED
    BY <2>1, <1>0, <1>C DEF Calm, OpInv, Renumber
<1>9. ASSUME NEW m \in Msgs, Arrive(m) \/ Expunge(m) \/ Ages(m) PROVE MovedInv'
  <2>1. UNCHANGED <<op, stray, incarnation>>
    BY <1>9 DEF Arrive, localVars, storeVars, Expunge, Ages, storeVars
  <2> QED
    BY <2>1, <1>0, <1>C DEF Calm, OpInv, Renumber
<1>10. CASE BeginFull \/ BeginRequested \/ Probe \/ ServicePending \/ SyncListed \/ SkipQuiet \/
     Select \/ Reset \/ Search \/ FetchChunk \/ Fetched \/ Reconcile \/ FetchFlags \/
     DropExpunged \/ ReconcileFails \/ Commit \/ ReconcileFallsDue \/ Cut \/ UNCHANGED vars
  <2>1. UNCHANGED <<op, stray, incarnation>>
    BY <1>10 DEF BeginFull, serverVars, storeVars, Goto, At, BeginRequested, StartPass, NoPass,
         NoBox, Probe, ServicePending, SyncListed, SkipQuiet, Select, Reset, Search, passOnly,
         FetchChunk, Fetched, Reconcile, FetchFlags, DropExpunged, ReconcileFails, Commit,
         ReconcileFallsDue, Cut, vars
  <2> QED
    BY <2>1, <1>0, <1>C DEF Calm, OpInv, Renumber
<1> QED
  BY <1>1, <1>2, <1>3, <1>4, <1>5, <1>6, <1>7, <1>8, <1>9, <1>10 DEF Next, ServerStep,
       BeginStep, PassStep, OpStep

-----------------------------------------------------------------------------
(* An operation that was let through under the UIDVALIDITY its UID was     *)
(* read under reaches the message it means, or nothing; and a              *)
(* reconciliation drops what is gone.                                      *)

LEMMA StrayKept == OpInv /\ MeantInv /\ NoUnexplainedStray /\ [Next]_vars => NoUnexplainedStray'
<1> SUFFICES ASSUME OpInv, MeantInv, NoUnexplainedStray, [Next]_vars PROVE NoUnexplainedStray'
  OBVIOUS
<1> USE DEF NoUnexplainedStray
<1>1. CASE ActRemotely
  <2>1. stray' = (IF Misses THEN stray \cup {Cause} ELSE stray) /\ op.pc = "selected"
    BY <1>1 DEF ActRemotely
  <2>2. Cause = "unexplained" =>
          /\ op.kind # "attachment" /\ op.seen = op.validity /\ op.validity # 0 /\ ~blind
    BY DEF Cause
  <2>3. Cause = "unexplained" => Names(op.uid, op.msg)
    BY <2>1, <2>2 DEF OpInv, MeantInv
  <2>4. Names(op.uid, op.msg) => ~Misses
    BY <2>1 DEF Names, Misses
  <2> QED
    BY <2>1, <2>3, <2>4
<1>2. ASSUME NEW m \in Msgs, Arrive(m) \/ Expunge(m) \/ Ages(m) PROVE NoUnexplainedStray'
  <2>1. UNCHANGED <<stray>>
    BY <1>2 DEF Arrive, localVars, storeVars, Expunge, Ages, storeVars
  <2> QED
    BY <2>1
<1>3. ASSUME NEW m \in Msgs, NEW kind \in Kinds, ReadMapping(m, kind) PROVE NoUnexplainedStray'
  <2>1. UNCHANGED <<stray>>
    BY <1>3 DEF ReadMapping, opOnly, serverVars, storeVars
  <2> QED
    BY <2>1
<1>4. CASE Renumber \/ BeginFull \/ BeginRequested \/ Probe \/ ServicePending \/ SyncListed \/
     SkipQuiet \/ Select \/ Reset \/ Search \/ FetchChunk \/ Fetched \/ Reconcile \/ FetchFlags
     \/ DropExpunged \/ ReconcileFails \/ Commit \/ ReconcileFallsDue \/ Cut \/ Restart \/
     ReadMailbox \/ SelectForStored \/ MoveLocation \/ OpFails \/ UNCHANGED vars
  <2>1. UNCHANGED <<stray>>
    BY <1>4 DEF Renumber, localVars, storeVars, BeginFull, serverVars, Goto, At, BeginRequested,
         StartPass, NoPass, NoBox, Probe, ServicePending, SyncListed, SkipQuiet, Select, Reset,
         Search, passOnly, FetchChunk, Fetched, Reconcile, FetchFlags, DropExpunged,
         ReconcileFails, Commit, ReconcileFallsDue, Cut, Restart, NoOp, ReadMailbox, opOnly,
         SelectForStored, MoveLocation, OpFails, vars
  <2> QED
    BY <2>1
<1> QED
  BY <1>1, <1>2, <1>3, <1>4 DEF Next, ServerStep, BeginStep, PassStep, OpStep

DropsGone ==
  At("expunge") /\ ~blind =>
    \A u \in Uids : rows[u] # NoMsg /\ rows'[u] = NoMsg => \A m \in Live : uid[m] # u

LEMMA DropsStep == LockInv /\ GoneInv /\ [Next]_vars => DropsGone
<1> SUFFICES ASSUME LockInv, GoneInv, [Next]_vars PROVE DropsGone
  OBVIOUS
<1> USE DEF DropsGone
<1>1. CASE Reset
  BY <1>1 DEF Reset, At
<1>2. CASE FetchChunk
  BY <1>2 DEF FetchChunk, At
<1>3. CASE DropExpunged
  <2>1. \A u \in Uids : rows'[u] = NoMsg /\ rows[u] # NoMsg => u \in pass.stored \ pass.present
    BY <1>3 DEF DropExpunged
  <2> QED
    BY <2>1 DEF GoneInv
<1>4. CASE MoveLocation
  <2>1. op.pc = "moved"
    BY <1>4 DEF MoveLocation
  <2> QED
    BY <2>1 DEF LockInv, At
<1>5. ASSUME NEW m \in Msgs, Arrive(m) \/ Expunge(m) \/ Ages(m) PROVE DropsGone
  <2>1. UNCHANGED <<rows>>
    BY <1>5 DEF Arrive, localVars, storeVars, Expunge, Ages, storeVars
  <2> QED
    BY <2>1
<1>6. ASSUME NEW m \in Msgs, NEW kind \in Kinds, ReadMapping(m, kind) PROVE DropsGone
  <2>1. UNCHANGED <<rows>>
    BY <1>6 DEF ReadMapping, opOnly, serverVars, storeVars
  <2> QED
    BY <2>1
<1>7. CASE Renumber \/ BeginFull \/ BeginRequested \/ Probe \/ ServicePending \/ SyncListed \/
     SkipQuiet \/ Select \/ Search \/ Fetched \/ Reconcile \/ FetchFlags \/ ReconcileFails \/
     Commit \/ ReconcileFallsDue \/ Cut \/ Restart \/ ReadMailbox \/ SelectForStored \/
     ActRemotely \/ OpFails \/ UNCHANGED vars
  <2>1. UNCHANGED <<rows>>
    BY <1>7 DEF Renumber, localVars, storeVars, BeginFull, serverVars, Goto, At, BeginRequested,
         StartPass, NoPass, NoBox, Probe, ServicePending, SyncListed, SkipQuiet, Select, Search,
         passOnly, Fetched, Reconcile, FetchFlags, ReconcileFails, Commit, ReconcileFallsDue,
         Cut, Restart, NoOp, ReadMailbox, opOnly, SelectForStored, ActRemotely, OpFails, vars
  <2> QED
    BY <2>1
<1> QED
  BY <1>1, <1>2, <1>3, <1>4, <1>5, <1>6, <1>7 DEF Next, ServerStep, BeginStep, PassStep, OpStep

-----------------------------------------------------------------------------
(* The theorems. *)

Flags == reconciled \in BOOLEAN /\ blind \in BOOLEAN
MailboxInv ==
  /\ Types /\ Flags /\ LockInv
  /\ PlaceInv /\ MappingInv /\ CursorInv /\ NoUnexplainedStray

LEMMA FlagsKept == Flags /\ [Next]_vars => Flags'
<1> SUFFICES ASSUME Flags, [Next]_vars PROVE Flags'
  OBVIOUS
<1> USE DEF Flags
<1>1. CASE Select
  <2>1. UNCHANGED reconciled /\ blind' \in BOOLEAN
    BY <1>1, Zenon DEF Select
  <2> QED
    BY <2>1, Zenon
<1>2. CASE DropExpunged
  <2>1. reconciled' = TRUE /\ UNCHANGED blind
    BY <1>2, Zenon DEF DropExpunged
  <2> QED
    BY <2>1, Zenon
<1>3. CASE ReconcileFallsDue
  <2>1. reconciled' = FALSE /\ UNCHANGED blind
    BY <1>3, Zenon DEF ReconcileFallsDue
  <2> QED
    BY <2>1, Zenon
<1>4. CASE Restart
  <2>1. reconciled' = FALSE /\ UNCHANGED blind
    BY <1>4, Zenon DEF Restart
  <2> QED
    BY <2>1, Zenon
<1>5. ASSUME NEW m \in Msgs, Arrive(m) \/ Expunge(m) \/ Ages(m) PROVE Flags'
  <2>1. UNCHANGED <<reconciled, blind>>
    BY <1>5 DEF Arrive, localVars, storeVars, Expunge, Ages, storeVars
  <2> QED
    BY <2>1, Zenon
<1>6. ASSUME NEW m \in Msgs, NEW kind \in Kinds, ReadMapping(m, kind) PROVE Flags'
  <2>1. UNCHANGED <<reconciled, blind>>
    BY <1>6 DEF ReadMapping, opOnly, serverVars, storeVars
  <2> QED
    BY <2>1, Zenon
<1>7. CASE Renumber \/ BeginFull \/ BeginRequested \/ Probe \/ ServicePending \/ SyncListed \/
     SkipQuiet \/ Reset \/ Search \/ FetchChunk \/ Fetched \/ Reconcile \/ FetchFlags \/
     ReconcileFails \/ Commit \/ Cut \/ ReadMailbox \/ SelectForStored \/ ActRemotely \/
     MoveLocation \/ OpFails \/ UNCHANGED vars
  <2>1. UNCHANGED <<reconciled, blind>>
    BY <1>7 DEF Renumber, localVars, storeVars, BeginFull, serverVars, Goto, At, BeginRequested,
         StartPass, NoPass, NoBox, Probe, ServicePending, SyncListed, SkipQuiet, Reset, Search,
         passOnly, FetchChunk, Fetched, Reconcile, FetchFlags, ReconcileFails, Commit, Cut,
         ReadMailbox, opOnly, SelectForStored, NoOp, ActRemotely, MoveLocation, OpFails, vars
  <2> QED
    BY <2>1, Zenon
<1> QED
  BY <1>1, <1>2, <1>3, <1>4, <1>5, <1>6, <1>7 DEF Next, ServerStep, BeginStep, PassStep, OpStep

LEMMA Initial == Init => MailboxInv
<1> SUFFICES ASSUME Init PROVE MailboxInv
  OBVIOUS
<1>1. Server
  BY ServerInitial DEF Server
<1>2. /\ incarnation = 1 /\ box = NoBox /\ rows = [u \in Uids |-> NoMsg] /\ cmdMu = "free"
      /\ listed = {} /\ pass = NoPass /\ op = NoOp /\ dropped = {} /\ stray = {} /\ cuts = 0
      /\ reconciled = FALSE /\ blind = FALSE
  BY DEF Init
<1>3. incarnation \in 0..MaxIncarnation /\ nextUid \in Nat \ {0} /\ Cardinality(Msgs) \in Nat
  BY <1>1, UidsTyped
<1>4. Types /\ Flags /\ LockInv
  <2>1. NoBox \in BoxRec
    BY <1>3 DEF NoBox, BoxRec
  <2>2. NoPass \in PassRec
    BY <1>3, <2>1 DEF NoPass, PassRec, Selected
  <2>3. NoOp \in OpRec
    BY <1>3 DEF NoOp, OpRec
  <2>4. StoreTypes /\ PassTypes /\ OpTypes
    BY <1>2, <2>1, <2>2, <2>3 DEF StoreTypes, PassTypes, OpTypes
  <2>5. LockInv
    BY <1>2 DEF LockInv, NoPass, NoOp
  <2>6. Flags
    BY <1>2, Zenon DEF Flags
  <2> QED
    BY <1>1, <2>4, <2>5, <2>6 DEF Types
<1>5. PlaceInv
  BY <1>1, <1>2, <1>3 DEF PlaceInv, RowInv, SelectedInv, OpInv, Known, At, NoBox, NoPass, NoOp,
                          Selected, Server, ServerTypes
<1>6. MappingInv
  BY <1>2 DEF MappingInv, RowsTrueInv, MeantInv, GoneInv, RowsTrue, At, NoPass, NoOp
<1>7. CursorInv
  <2>1. KnownSafe
    BY <1>2, <1>3 DEF KnownSafe, Known, NoBox, NoPass
  <2> QED
    BY <1>2, <2>1 DEF CursorInv, PassSafe, AskedInv, MovedInv, Importing, Selected, At, NoPass, NoOp
<1> QED
  BY <1>2, <1>4, <1>5, <1>6, <1>7 DEF MailboxInv, NoUnexplainedStray

LEMMA Kept == MailboxInv /\ [Next]_vars => MailboxInv'
<1> SUFFICES ASSUME MailboxInv, [Next]_vars PROVE MailboxInv'
  OBVIOUS
<1>1. Types'
  BY ServerKept, StoreKept, PassKept, OpKept DEF MailboxInv, Types, Server
<1>2. LockInv' /\ Flags'
  BY LockKept, FlagsKept DEF MailboxInv, Types
<1>3. PlaceInv'
  BY RowKept, SelectedKept, OpPlaceKept DEF MailboxInv, PlaceInv
<1>4. MappingInv'
  BY RowsTrueKept, MeantKept, GoneKept DEF MailboxInv, PlaceInv, MappingInv
<1>5. CursorInv'
  BY KnownSafeKept, PassSafeKept, AskedKept, MovedKept DEF MailboxInv, PlaceInv, CursorInv
<1>6. NoUnexplainedStray'
  BY StrayKept DEF MailboxInv, PlaceInv, MappingInv
<1> QED
  BY <1>1, <1>2, <1>3, <1>4, <1>5, <1>6 DEF MailboxInv

LEMMA Always == Spec => []MailboxInv
BY Initial, Kept, PTL DEF Spec

\* Every variable stays within the values the code can give it; the command lock
\* is held by exactly the party whose place says so (TypeOK).
THEOREM TypeCorrect == Spec => []TypeOK
<1>1. MailboxInv => TypeOK
  <2> SUFFICES ASSUME MailboxInv PROVE TypeOK
    OBVIOUS
  <2>1. /\ incarnation \in 1..MaxIncarnation /\ nextUid \in 1..(Cardinality(Msgs) + 1)
        /\ unborn \in SUBSET Msgs /\ old \in SUBSET Msgs /\ dropped \in SUBSET Msgs
        /\ uid \in [Msgs -> {0} \cup Uids]
    <3>1. \A m \in Msgs : uid[m] \in {0} \cup Uids
      BY UidsTyped DEF MailboxInv, Types
    <3> QED
      BY <3>1, UidsTyped DEF MailboxInv, Types, Server, ServerTypes, StoreTypes
  <2>2. /\ box \in [validity : 0..MaxIncarnation, lastUid : {0} \cup Uids,
                    uidNext : 0..(Cardinality(Msgs) + 1)]
        /\ rows \in [Uids -> Msgs \cup {NoMsg}] /\ cuts \in 0..MaxCuts
        /\ stray \in SUBSET {"unchecked", "torn", "blind", "unexplained"}
    BY DEF MailboxInv, Types, StoreTypes, BoxRec, OpTypes
  <2>3. reconciled \in BOOLEAN /\ blind \in BOOLEAN
    BY Zenon DEF MailboxInv, Flags
  <2>4. /\ cmdMu \in {"free", "sync", "user"}
        /\ cmdMu = "sync" <=> pass.pc # "idle"
        /\ cmdMu = "user" <=> op.pc \in {"selected", "moved"}
    BY DEF MailboxInv, LockInv
  <2> QED
    BY <2>1, <2>2, <2>3, <2>4, Zenon DEF TypeOK
<1> QED
  BY <1>1, Always, PTL

\* The committed cursor never passes recent mail that is not stored, whatever
\* interleaves with the passes and however many of them are cut short
\* (CursorCoversRecentMail; what searchNewUIDs would otherwise lose for good).
THEOREM CursorCovers == Spec => []CursorCoversRecentMail
<1>1. MailboxInv => CursorCoversRecentMail
  BY DEF MailboxInv, CursorInv, KnownSafe, Known, Safe, CursorCoversRecentMail, Covered
<1> QED
  BY <1>1, Always, PTL

\* A UID stored under the current UIDVALIDITY never names a stranger
\* (MappingsTrueAfterImport).
THEOREM MappingsTrue == Spec => []MappingsTrueAfterImport
<1>1. MailboxInv => MappingsTrueAfterImport
  BY DEF MailboxInv, MappingInv, RowsTrueInv, RowsTrue, Names, MappingsTrueAfterImport
<1> QED
  BY <1>1, Always, PTL

\* Every operation that reaches another message than the user's has one of the
\* three known causes (NoUnexplainedStray; selectForStoredUID).
THEOREM StraysExplained == Spec => []NoUnexplainedStray
BY Always, PTL DEF MailboxInv

\* A reconciliation drops no mapping of a message the provider still holds
\* (DropsOnlyTheGone; staleUIDs, DeleteMailboxUIDs).
THEOREM DropsGoneOnly == Spec => DropsOnlyTheGone
<1>1. MailboxInv /\ [Next]_vars => DropsGone
  BY DropsStep DEF MailboxInv, MappingInv
<1>2. DropsGone =>
        (At("expunge") /\ ~blind =>
           \A u \in Uids : rows[u] # NoMsg /\ rows'[u] = NoMsg => \A m \in Live : uid[m] # u)
  BY DEF DropsGone
<1> QED
  BY <1>1, <1>2, Always, PTL DEF Spec, DropsOnlyTheGone

=============================================================================
