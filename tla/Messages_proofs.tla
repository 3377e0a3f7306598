--------------------------- MODULE Messages_proofs ---------------------------
(***************************************************************************)
(* Proofs about MessageActions and UnreadCache, for any number of          *)
(* messages, requests, readers and writes: the badge is never older than   *)
(* the rows; archiving loses nothing and deletes nothing of another        *)
(* client's; what reads as read here was told to the provider.             *)
(***************************************************************************)
EXTENDS MC_Messages, FiniteSetTheorems, TLAPS

USE MailAssumption, CacheAssumption

-----------------------------------------------------------------------------
(* The unread totals. *)

EntryRec == [n : Nat, is : {"none", "live", "expired"}]
CallRec == [pc : {"idle", "count", "store"}, view : Views, gen : Nat, n : Nat]
CacheTypes ==
  /\ place \in [Letters -> Places] /\ memo \in [Views -> EntryRec] /\ generation \in Nat
  /\ counting \in [Readers -> CallRec]
  /\ writing \in [pc : {"free", "open", "done"}, kind : {"none", "flags", "set", "archive"}]

\* The total n is the one the rows give, or will have been dropped by the time
\* the write in progress returns.
Fresh(n, view) == n = Total(view) \/ writing.pc = "done" \/ relocated
BoundInv == Cardinality(Entries(memo)) <= CacheEntries
MemoInv == \A v \in Views : memo[v].is = "live" => Fresh(memo[v].n, v)
\* A reader that may still store its total has counted the rows as they are.
CountInv ==
  \A r \in Readers :
    /\ counting[r].gen <= generation
    /\ counting[r].pc = "store" /\ counting[r].gen = generation =>
         Fresh(counting[r].n, counting[r].view)
CacheInv == CacheTypes /\ BoundInv /\ MemoInv /\ CountInv

LEMMA TotalIsNat == \A v \in Views : Total(v) \in Nat
<1> TAKE v \in Views
<1> DEFINE S == {l \in Letters : place[l] \in IF v = "inbox" THEN {"inbox"} ELSE {"inbox", "archive"}}
<1>1. IsFiniteSet(S)
  BY FS_Subset
<1> QED
  BY <1>1, FS_CardinalityType DEF Total

\* Room is made for one more entry, and nothing is made live by it.
LEMMA RoomMade ==
  ASSUME CacheTypes, BoundInv
  PROVE  /\ RoomFor \in [Views -> EntryRec]
         /\ IsFiniteSet(Entries(RoomFor)) /\ Cardinality(Entries(RoomFor)) < CacheEntries
         /\ \A v \in Views : RoomFor[v].is = "live" => RoomFor[v] = memo[v]
<1>0. \A m : IsFiniteSet(Entries(m)) /\ Cardinality(Entries(m)) \in Nat
  <2>1. IsFiniteSet(Views)
    <3>1. IsFiniteSet({"account"})
      BY FS_Singleton
    <3>2. Views = {"account"} \union {"inbox"}
      BY DEF Views
    <3> QED
      BY <3>1, <3>2, FS_AddElement
  <2> QED
    BY <2>1, FS_Subset, FS_CardinalityType DEF Entries
<1>1. NoTotal \in EntryRec /\ NoTotal.is = "none"
  BY DEF NoTotal, EntryRec
<1>2. DropExpired(memo) \in [Views -> EntryRec]
  BY <1>1 DEF DropExpired, CacheTypes
<1>3. CASE Cardinality(Entries(memo)) < CacheEntries
  BY <1>0, <1>3 DEF RoomFor, CacheTypes
<1>4. CASE /\ ~(Cardinality(Entries(memo)) < CacheEntries)
           /\ Cardinality(Entries(DropExpired(memo))) < CacheEntries
  <2>1. RoomFor = DropExpired(memo)
    BY <1>4 DEF RoomFor
  <2>2. \A v \in Views : DropExpired(memo)[v].is = "live" => DropExpired(memo)[v] = memo[v]
    BY <1>1 DEF DropExpired
  <2> QED
    BY <1>0, <1>2, <1>4, <2>1, <2>2
<1>5. CASE /\ ~(Cardinality(Entries(memo)) < CacheEntries)
           /\ ~(Cardinality(Entries(DropExpired(memo))) < CacheEntries)
  <2>1. RoomFor = [v \in Views |-> NoTotal]
    BY <1>5 DEF RoomFor
  <2>2. Entries(RoomFor) = {}
    BY <1>1, <2>1 DEF Entries
  <2> QED
    BY <1>1, <2>1, <2>2, FS_EmptySet
<1> QED
  BY <1>3, <1>4, <1>5

LEMMA CacheInitial == CacheInit => CacheInv
<1> SUFFICES ASSUME CacheInit PROVE CacheInv
  OBVIOUS
<1>1. memo = [v \in Views |-> NoTotal] /\ counting = [r \in Readers |-> NoCall] /\ generation = 0
  BY DEF CacheInit
<1>2. NoTotal \in EntryRec /\ NoTotal.is = "none" /\ NoCall \in CallRec /\ NoCall.gen = 0
      /\ NoCall.pc = "idle"
  BY DEF NoTotal, EntryRec, NoCall, CallRec, Views
<1>3. Entries(memo) = {}
  BY <1>1, <1>2 DEF Entries
<1>4. CacheTypes
  BY <1>1, <1>2 DEF CacheInit, CacheTypes, Places, NoWrite
<1>5. BoundInv
  BY <1>3, FS_EmptySet DEF BoundInv
<1> QED
  BY <1>1, <1>2, <1>4, <1>5 DEF CacheInv, MemoInv, CountInv

\* A write that forgets every total and every count under way.
LEMMA Cleared ==
  ASSUME CacheInv, Clear, UNCHANGED <<place, counting>>,
         writing' \in [pc : {"free", "open", "done"}, kind : {"none", "flags", "set", "archive"}]
  PROVE  CacheInv'
<1>1. memo' = [v \in Views |-> NoTotal] /\ generation' = generation + 1 /\ generation \in Nat
  BY DEF Clear, CacheInv, CacheTypes
<1>2. NoTotal \in EntryRec /\ NoTotal.is = "none"
  BY DEF NoTotal, EntryRec
<1>3. CacheTypes'
  BY <1>1, <1>2 DEF CacheInv, CacheTypes
<1>4. Entries(memo)' = {}
  BY <1>1, <1>2 DEF Entries
<1>5. BoundInv'
  BY <1>4, FS_EmptySet DEF BoundInv
<1>6. MemoInv'
  BY <1>1, <1>2 DEF MemoInv
<1>7. \A r \in Readers : counting[r].gen \in Nat /\ counting[r].gen <= generation
  BY DEF CacheInv, CacheTypes, CallRec, CountInv
<1>8. CountInv'
  BY <1>1, <1>7 DEF CountInv
<1> QED
  BY <1>3, <1>5, <1>6, <1>8 DEF CacheInv

\* A step that leaves the totals and the counts alone keeps the invariant unless it
\* makes one of them stale.
LEMMA Untouched ==
  ASSUME CacheInv, UNCHANGED <<memo, generation, counting>>, CacheTypes',
         \A n \in Nat, v \in Views : Fresh(n, v) => Fresh(n, v)'
  PROVE  CacheInv'
<1>1. BoundInv'
  BY DEF CacheInv, BoundInv, Entries
<1>2. \A v \in Views : memo[v].n \in Nat
  BY DEF CacheInv, CacheTypes, EntryRec
<1>3. \A r \in Readers : counting[r].n \in Nat /\ counting[r].view \in Views
  BY DEF CacheInv, CacheTypes, CallRec
<1>4. ASSUME NEW v \in Views, memo[v].is = "live" PROVE Fresh(memo[v].n, v)'
  <2>1. \A n \in Nat : n = memo[v].n => Fresh(n, v)'
    BY <1>4 DEF CacheInv, MemoInv
  <2> QED
    BY <1>2, <2>1 DEF Fresh
<1>5. ASSUME NEW r \in Readers, counting[r].pc = "store", counting[r].gen = generation
      PROVE  Fresh(counting[r].n, counting[r].view)'
  <2>1. \A n \in Nat, v \in Views : n = counting[r].n /\ v = counting[r].view => Fresh(n, v)'
    BY <1>5 DEF CacheInv, CountInv
  <2> QED
    BY <1>3, <2>1 DEF Fresh, Total
<1> QED
  BY <1>1, <1>4, <1>5 DEF CacheInv, MemoInv, CountInv, Fresh, Total

LEMMA CacheKept == CacheInv /\ [CacheNext]_cacheVars => CacheInv'
<1> SUFFICES ASSUME CacheInv, [CacheNext]_cacheVars PROVE CacheInv'
  OBVIOUS
<1>0. /\ CacheTypes /\ BoundInv /\ MemoInv /\ CountInv /\ generation \in Nat
      /\ counting \in [Readers -> CallRec] /\ memo \in [Views -> EntryRec]
  BY DEF CacheInv, CacheTypes
<1>1. ASSUME NEW r \in Readers, NEW v \in Views, Look(r, v) PROVE CacheInv'
  <2>1. UNCHANGED <<place, memo, generation, writing, relocated>>
    BY <1>1 DEF Look
  <2>2. counting' \in [Readers -> CallRec]
    BY <1>0, <1>1 DEF Look, NoCall, CallRec, Views
  <2>3. \A s \in Readers : s # r => counting'[s] = counting[s]
    BY <1>1 DEF Look
  <2>4. counting'[r].pc = "count" /\ counting'[r].gen = generation
    BY <1>0, <1>1 DEF Look, NoCall
  <2>5. CacheTypes' /\ BoundInv' /\ MemoInv'
    BY <1>0, <2>1, <2>2 DEF CacheTypes, BoundInv, MemoInv, Entries, Fresh, Total
  <2>6. CountInv'
    BY <1>0, <2>1, <2>3, <2>4 DEF CountInv, Fresh, Total
  <2> QED
    BY <2>5, <2>6 DEF CacheInv
<1>2. ASSUME NEW r \in Readers, CountUnread(r) PROVE CacheInv'
  <2>1. UNCHANGED <<place, memo, generation, writing, relocated>> /\ counting[r].view \in Views
    BY <1>0, <1>2 DEF CountUnread, CallRec
  <2>2. counting' \in [Readers -> CallRec]
    BY <1>0, <1>2, <2>1, TotalIsNat DEF CountUnread, CallRec
  <2>3. \A s \in Readers : s # r => counting'[s] = counting[s]
    BY <1>0, <1>2 DEF CountUnread
  <2>4. /\ counting'[r].gen = counting[r].gen /\ counting'[r].view = counting[r].view
        /\ counting'[r].n = Total(counting[r].view)
    BY <1>0, <1>2 DEF CountUnread, CallRec
  <2>5. CacheTypes' /\ BoundInv' /\ MemoInv'
    BY <1>0, <2>1, <2>2 DEF CacheTypes, BoundInv, MemoInv, Entries, Fresh, Total
  <2>6. CountInv'
    <3> SUFFICES ASSUME NEW s \in Readers
                 PROVE  /\ counting'[s].gen <= generation'
                        /\ counting'[s].pc = "store" /\ counting'[s].gen = generation' =>
                             \/ counting'[s].n = Cardinality({l \in Letters : place'[l] \in
                                  IF counting'[s].view = "inbox" THEN {"inbox"} ELSE {"inbox", "archive"}})
                             \/ writing'.pc = "done" \/ relocated'
      BY DEF CountInv, Fresh, Total
    <3>1. CASE s = r
      BY <1>0, <2>1, <2>4, <3>1 DEF CountInv, Fresh, Total
    <3>2. CASE s # r
      BY <1>0, <2>1, <2>3, <3>2 DEF CountInv, Fresh, Total
    <3> QED
      BY <3>1, <3>2
  <2> QED
    BY <2>5, <2>6 DEF CacheInv
<1>3. ASSUME NEW r \in Readers, StoreTotal(r) PROVE CacheInv'
  <2>1. /\ UNCHANGED <<place, generation, writing, relocated>> /\ counting[r].pc = "store"
        /\ counting[r].view \in Views /\ counting[r].n \in Nat
    BY <1>0, <1>3 DEF StoreTotal, CallRec
  <2>2. NoCall \in CallRec /\ NoCall.pc = "idle" /\ NoCall.gen = 0
    BY DEF NoCall, CallRec, Views
  <2>3. counting' \in [Readers -> CallRec] /\ \A s \in Readers : counting'[s] \in {counting[s], NoCall}
    BY <1>0, <1>3, <2>2 DEF StoreTotal
  <2>4. CountInv'
    BY <1>0, <2>1, <2>2, <2>3 DEF CountInv, Fresh, Total
  <2>5. CASE counting[r].gen # generation
    <3>1. UNCHANGED memo
      BY <1>3, <2>5 DEF StoreTotal
    <3>2. CacheTypes' /\ BoundInv' /\ MemoInv'
      BY <1>0, <2>1, <2>3, <3>1 DEF CacheTypes, BoundInv, MemoInv, Entries, Fresh, Total
    <3> QED
      BY <2>4, <3>2 DEF CacheInv
  <2>6. CASE counting[r].gen = generation
    <3> DEFINE view == counting[r].view
               new == [n |-> counting[r].n, is |-> "live"]
    <3>1. memo' = [RoomFor EXCEPT ![view] = new]
      BY <1>3, <2>6 DEF StoreTotal
    <3>2. /\ RoomFor \in [Views -> EntryRec]
          /\ IsFiniteSet(Entries(RoomFor)) /\ Cardinality(Entries(RoomFor)) < CacheEntries
          /\ \A v \in Views : RoomFor[v].is = "live" => RoomFor[v] = memo[v]
      BY <1>0, RoomMade
    <3>3. new \in EntryRec
      BY <2>1 DEF EntryRec
    <3>4. memo' \in [Views -> EntryRec]
          /\ \A v \in Views : memo'[v] = IF v = view THEN new ELSE RoomFor[v]
      BY <2>1, <3>1, <3>2, <3>3
    <3>5. CacheTypes'
      BY <1>0, <2>1, <2>3, <3>4 DEF CacheTypes
    <3>6. BoundInv'
      <4>1. Entries(memo)' = Entries(RoomFor) \union {view}
        BY <2>1, <3>4 DEF Entries
      <4>2. Cardinality(Entries(RoomFor)) \in Nat
        BY <3>2, FS_CardinalityType
      <4>3. Cardinality(Entries(RoomFor) \union {view}) <= Cardinality(Entries(RoomFor)) + 1
        <5>1. Cardinality(Entries(RoomFor) \union {view}) =
                IF view \in Entries(RoomFor) THEN Cardinality(Entries(RoomFor))
                                             ELSE Cardinality(Entries(RoomFor)) + 1
          BY <3>2, FS_AddElement
        <5> QED
          BY <4>2, <5>1
      <4>4. IsFiniteSet(Entries(RoomFor) \union {view})
        BY <3>2, FS_AddElement
      <4>5. Cardinality(Entries(RoomFor) \union {view}) \in Nat
        BY <4>4, FS_CardinalityType
      <4>6. Cardinality(Entries(RoomFor) \union {view}) <= CacheEntries
        BY <3>2, <4>2, <4>3, <4>5
      <4> QED
        BY <4>1, <4>6 DEF BoundInv
    <3>7. ASSUME NEW v \in Views, memo'[v].is = "live" PROVE Fresh(memo[v].n, v)'
      <4>1. CASE v = view
        <5>1. Fresh(counting[r].n, view)
          BY <1>0, <2>1, <2>6 DEF CountInv
        <5> QED
          BY <2>1, <3>4, <4>1, <5>1 DEF Fresh, Total
      <4>2. CASE v # view
        <5>1. memo'[v] = memo[v] /\ memo[v].is = "live"
          BY <3>2, <3>4, <3>7, <4>2
        <5> QED
          BY <1>0, <2>1, <5>1 DEF MemoInv, Fresh, Total
      <4> QED
        BY <4>1, <4>2
    <3> QED
      BY <2>4, <3>5, <3>6, <3>7 DEF CacheInv, MemoInv
  <2> QED
    BY <2>5, <2>6
<1>4. ASSUME NEW v \in Views, ExpireTotal(v) PROVE CacheInv'
  <2>1. /\ UNCHANGED <<place, generation, counting, writing, relocated>> /\ memo[v].is = "live"
        /\ memo' = [memo EXCEPT ![v].is = "expired"]
    BY <1>4 DEF ExpireTotal
  <2>2. memo' \in [Views -> EntryRec] /\ memo'[v].is = "expired"
        /\ \A w \in Views : w # v => memo'[w] = memo[w]
    BY <1>0, <2>1 DEF EntryRec
  <2>3. Entries(memo)' = Entries(memo)
    BY <2>1, <2>2 DEF Entries
  <2>4. CacheTypes' /\ BoundInv'
    BY <1>0, <2>1, <2>2, <2>3 DEF CacheTypes, BoundInv
  <2>5. MemoInv'
    BY <1>0, <2>1, <2>2 DEF MemoInv, Fresh, Total
  <2>6. CountInv'
    BY <1>0, <2>1 DEF CountInv, Fresh, Total
  <2> QED
    BY <2>4, <2>5, <2>6 DEF CacheInv
<1>5. CASE BeginFlags
  BY <1>5, Cleared DEF BeginFlags
<1>6. CASE BeginSet
  <2>1. /\ UNCHANGED <<place, memo, generation, counting, relocated>> /\ writing = NoWrite
        /\ writing' = [pc |-> "open", kind |-> "set"]
    BY <1>6 DEF BeginSet
  <2>2. CacheTypes' /\ \A n \in Nat, v \in Views : Fresh(n, v) => Fresh(n, v)'
    BY <1>0, <2>1 DEF CacheTypes, Fresh, Total, NoWrite
  <2> QED
    BY <2>1, <2>2, Untouched
<1>7. CASE Commit
  <2>1. UNCHANGED <<memo, generation, counting, relocated>> /\ writing.pc = "open"
    BY <1>7 DEF Commit
  <2>2. CASE place' = place /\ writing' = NoWrite
    <3>1. CacheTypes' /\ \A n \in Nat, v \in Views : Fresh(n, v) => Fresh(n, v)'
      BY <1>0, <2>1, <2>2 DEF CacheTypes, Fresh, Total, NoWrite
    <3> QED
      BY <2>1, <3>1, Untouched
  <2>3. CASE writing' = [writing EXCEPT !.pc = "done"] /\ \E l \in Letters, p \in Places : place' = [place EXCEPT ![l] = p]
    <3>1. CacheTypes' /\ writing'.pc = "done"
      BY <1>0, <2>1, <2>3 DEF CacheTypes
    <3>2. \A n \in Nat, v \in Views : Fresh(n, v) => Fresh(n, v)'
      BY <3>1 DEF Fresh
    <3> QED
      BY <2>1, <3>1, <3>2, Untouched
  <2>4. ASSUME NEW l \in Letters,
               \/ /\ writing.kind = "flags"
                  /\ place' = [place EXCEPT ![l] = CASE @ \in {"inbox", "archive"} -> "read"
                                                     [] @ = "read" -> "inbox"
                                                     [] OTHER -> @]
               \/ /\ writing.kind = "set"
                  /\ place' = [place EXCEPT ![l] = IF @ = "absent" THEN "inbox" ELSE "absent"]
        PROVE  \E p \in Places : place' = [place EXCEPT ![l] = p]
    <3>1. place[l] \in Places
      BY <1>0 DEF CacheTypes
    <3>2. \/ place' = [place EXCEPT ![l] = "read"] \/ place' = [place EXCEPT ![l] = "inbox"]
          \/ place' = [place EXCEPT ![l] = place[l]] \/ place' = [place EXCEPT ![l] = "absent"]
      BY <2>4
    <3> QED
      BY <3>1, <3>2 DEF Places
  <2> QED
    BY <1>7, <2>2, <2>3, <2>4 DEF Commit
<1>8. CASE Return
  BY <1>8, Cleared DEF Return, NoWrite
<1>9. CASE Relocation
  <2>1. UNCHANGED <<memo, generation, counting, writing>> /\ relocated'
    BY <1>9 DEF Relocation
  <2>2. CacheTypes'
    BY <1>0, <1>9 DEF CacheTypes, Relocation, Places
  <2>3. \A n \in Nat, v \in Views : Fresh(n, v) => Fresh(n, v)'
    BY <2>1 DEF Fresh
  <2> QED
    BY <2>1, <2>2, <2>3, Untouched
<1>10. CASE FollowUp
  BY <1>10, Cleared DEF FollowUp
<1>11. CASE UNCHANGED cacheVars
  <2>1. UNCHANGED <<place, memo, generation, counting, writing, relocated>>
    BY <1>11 DEF cacheVars
  <2> QED
    BY <1>0, <2>1 DEF CacheInv, CacheTypes, BoundInv, MemoInv, CountInv, Entries, Fresh, Total
<1> QED
  BY <1>1, <1>2, <1>3, <1>4, <1>5, <1>6, <1>7, <1>8, <1>9, <1>10, <1>11 DEF CacheNext

LEMMA CacheAlways == CacheSpec => []CacheInv
BY CacheInitial, CacheKept, PTL DEF CacheSpec

\* The table of totals stays well typed and within its bound, whatever the views
\* and the readers (CacheTypeOK; cachedUnreadTotal's eviction).
THEOREM CacheTypeCorrect == CacheSpec => []CacheTypeOK
<1>1. CacheInv => CacheTypeOK
  BY DEF CacheInv, CacheTypes, BoundInv, CacheTypeOK, EntryRec
<1> QED
  BY <1>1, CacheAlways, PTL

\* No reader puts back a total from before a write: a total answered from the table
\* is the one the rows give, or a write is about to drop it (BadgeCurrent).
THEOREM BadgeIsCurrent == CacheSpec => []BadgeCurrent
<1>1. CacheInv => BadgeCurrent
  BY DEF CacheInv, MemoInv, Fresh, BadgeCurrent
<1> QED
  BY <1>1, CacheAlways, PTL

-----------------------------------------------------------------------------
(* What a click does.                                                      *)

Moving == {"move", "search", "copy", "flag", "expunge", "relocate"}
ClickRec ==
  [pc : {"new", "over", "locate", "write"} \union Moving,
   op : {"none", "read", "unread", "bulk", "archive"},
   todo : SUBSET Mail, done : SUBSET Mail, safe : BOOLEAN, late : SUBSET Mail]
PassRec ==
  [pc : {"idle", "fetched"}, seen : SUBSET Mail, inbox : SUBSET Mail, archive : SUBSET Mail]

MailTypes ==
  /\ click \in [Clicks -> ClickRec] /\ pass \in PassRec /\ conn \in {"free", "sync"} \union Clicks
  /\ seen \subseteq Mail /\ inInbox \subseteq Mail /\ isRead \subseteq Mail
  /\ archived \in [Mail -> Nat] /\ caps \in {"move", "uidplus", "plain"}
  /\ filed \in [Mail -> {"inbox", "archive", "nowhere"}]
LockInv ==
  /\ \A k \in Clicks : click[k].pc \in Moving <=> conn = k
  /\ pass.pc # "idle" <=> conn = "sync"
\* A request that is not a bulk one is about one message, and what it moves is
\* filed in the inbox for as long as it holds the connection.
ClickInv ==
  \A k \in Clicks :
    /\ click[k].pc = "new" => click[k].todo = {} /\ click[k].done = {}
    /\ click[k].pc = "locate" /\ click[k].op # "bulk" =>
         click[k].done = {} /\ \E m \in Mail : click[k].todo = {m}
    /\ click[k].pc \in Moving =>
         /\ click[k].op = "archive" /\ click[k].done = {}
         /\ \E m \in Mail : click[k].todo = {m} /\ filed[m] = "inbox"
    /\ click[k].pc = "write" /\ click[k].op = "archive" => click[k].done = {}
    /\ click[k].pc \in {"locate", "write"} => click[k].op # "none"
    /\ click[k].pc = "move" => caps = "move"
    /\ click[k].pc \in {"search", "copy", "flag", "expunge"} => caps # "move"
BoxInv ==
  /\ doomed \subseteq inInbox /\ gone \intersect inInbox = {}
  /\ \A m \in Mail : m \in inInbox \/ m \in gone \/ archived[m] > 0
  /\ \A m \in Mail : filed[m] # "inbox" => m \notin inInbox
\* How far the fallback of a move has come.
MoveInv ==
  \A k \in Clicks : \A m \in click[k].todo :
    /\ click[k].pc \in {"flag", "expunge"} => m \notin inInbox \/ archived[m] > 0
    /\ click[k].pc = "expunge" => m \in doomed \/ m \notin inInbox
    /\ click[k].pc = "relocate" => m \notin inInbox
    /\ click[k].pc \in {"copy", "flag", "expunge"} /\ click[k].safe =>
         doomed \subseteq {m} \union click[k].late
Has(k) == IF click[k].pc \in {"new", "over"} THEN {} ELSE click[k].todo \union click[k].done
\* A message of two requests at once is excused.
OverlapInv == \A j, k \in Clicks : j # k => Has(j) \intersect Has(k) \subseteq excused
Undoing(m) == \E k \in Clicks : click[k].pc = "write" /\ click[k].op = "unread" /\ m \in click[k].done
Told(m) == m \in seen \/ m \notin inInbox
\* What reads as read was told, unless its row is about to be written unread; and so
\* was what a request is about to write as read.
ReadInv == \A m \in isRead \ excused : ~Undoing(m) => Told(m)
AcceptedInv ==
  \A k \in Clicks : click[k].pc \in {"locate", "write"} /\ click[k].op \in {"read", "bulk"} =>
    \A m \in click[k].done \ excused : Told(m)
PassInv ==
  pass.pc = "fetched" => inInbox \subseteq pass.inbox /\ \A m \in pass.seen \ excused : m \in seen
MailInv ==
  /\ MailTypes /\ LockInv /\ ClickInv /\ BoxInv /\ MoveInv
  /\ OverlapInv /\ ReadInv /\ AcceptedInv /\ PassInv

LEMMA TheOne == ASSUME NEW k \in Clicks, NEW m, click[k].todo = {m} PROVE The(k) = m
BY DEF The

\* The other requests stay where they are; this one's fields.
Others(k) == \A j \in Clicks : j # k => click'[j] = click[j]
Fields(k, pc, op, todo, done) ==
  /\ click'[k].pc = pc /\ click'[k].op = op /\ click'[k].todo = todo /\ click'[k].done = done
Ends(k) == Fields(k, "over", "none", {}, {})

LEMMA Ending ==
  ASSUME MailTypes, NEW k \in Clicks, click' = [click EXCEPT ![k] = Over]
  PROVE  Ends(k) /\ Others(k) /\ click' \in [Clicks -> ClickRec]
<1>1. Over \in ClickRec /\ Over.pc = "over" /\ Over.op = "none" /\ Over.todo = {} /\ Over.done = {}
  BY DEF Over, NewClick, ClickRec
<1> QED
  BY <1>1 DEF Ends, Fields, Others, MailTypes

\* A command that was answered was carried out.
LEMMA OutcomesAre ==
  \A r \in Outcomes :
    /\ r.taken = TRUE \/ r.taken = FALSE
    /\ r.told = TRUE \/ r.told = FALSE
    /\ r.told = TRUE => r.taken = TRUE
BY DEF Outcomes

LEMMA MailInitial == MailInit => MailInv
<1> SUFFICES ASSUME MailInit PROVE MailInv
  OBVIOUS
<1>1. click = [k \in Clicks |-> NewClick] /\ pass = NoPass /\ conn = "free"
  BY DEF MailInit
<1>2. /\ NewClick \in ClickRec /\ NewClick.pc = "new" /\ NewClick.todo = {} /\ NewClick.done = {}
      /\ NoPass \in PassRec /\ NoPass.pc = "idle"
  BY DEF NewClick, ClickRec, NoPass, PassRec
<1>3. MailTypes
  BY <1>1, <1>2 DEF MailInit, MailTypes
<1>4. LockInv /\ ClickInv /\ MoveInv
  BY <1>1, <1>2 DEF LockInv, ClickInv, MoveInv, Moving
<1>5. OverlapInv /\ AcceptedInv
  BY <1>1, <1>2 DEF OverlapInv, AcceptedInv, Has
<1>6. BoxInv /\ ReadInv /\ PassInv
  BY <1>1, <1>2 DEF MailInit, BoxInv, ReadInv, PassInv
<1> QED
  BY <1>3, <1>4, <1>5, <1>6 DEF MailInv

LEMMA StartKept ==
  ASSUME MailInv, NEW k \in Clicks, Start(k)
  PROVE  MailInv'
<1>0. /\ MailTypes /\ LockInv /\ ClickInv /\ BoxInv /\ MoveInv
      /\ OverlapInv /\ ReadInv /\ AcceptedInv /\ PassInv
  BY DEF MailInv
<1>1. PICK op \in {"read", "unread", "bulk", "archive"}, m \in Mail :
        LET ids == IF op = "bulk" THEN Unread ELSE {m} IN
        /\ click' = [click EXCEPT ![k] = IF ids = {} THEN Over
                                         ELSE [@ EXCEPT !.pc = "locate", !.op = op, !.todo = ids]]
        /\ excused' = excused \union {i \in ids : Underway(i)}
  BY DEF Start
<1>2. /\ click[k].pc = "new" /\ click[k].todo = {} /\ click[k].done = {}
      /\ UNCHANGED <<seen, inInbox, doomed, archived, gone, caps, isRead, filed, conn, pass>>
  BY <1>0 DEF Start, ClickInv, remoteVars, rowVars
<1>3. PICK ids \in SUBSET Mail :
        /\ op # "bulk" => ids = {m}
        /\ excused' = excused \union {i \in ids : Underway(i)}
        /\ Others(k) /\ click' \in [Clicks -> ClickRec]
        /\ Ends(k) \/ Fields(k, "locate", op, ids, {})
  <2> DEFINE ids == IF op = "bulk" THEN Unread ELSE {m}
  <2>1. ids \in SUBSET Mail
    BY DEF Unread
  <2>3. click[k] \in ClickRec
    BY <1>0 DEF MailTypes
  <2>4. CASE ids = {}
    <3>1. click' = [click EXCEPT ![k] = Over]
      BY <1>1, <2>4
    <3>2. Ends(k) /\ Others(k) /\ click' \in [Clicks -> ClickRec]
      BY <1>0, <3>1, Ending
    <3> QED
      BY <1>1, <2>1, <3>2
  <2>5. CASE ids # {}
    <3> DEFINE c == [click[k] EXCEPT !.pc = "locate", !.op = op, !.todo = ids]
    <3>1. click' = [click EXCEPT ![k] = c]
      BY <1>1, <2>5
    <3>2. c \in ClickRec /\ c.pc = "locate" /\ c.op = op /\ c.todo = ids /\ c.done = {}
      BY <1>2, <2>1, <2>3 DEF ClickRec
    <3>3. Fields(k, "locate", op, ids, {}) /\ Others(k) /\ click' \in [Clicks -> ClickRec]
      BY <1>0, <3>1, <3>2 DEF Fields, Others, MailTypes
    <3> QED
      BY <1>1, <2>1, <3>3
  <2> QED
    BY <2>4, <2>5
<1>4. MailTypes'
  BY <1>0, <1>1, <1>2, <1>3 DEF MailTypes, Others, Fields, Ends, PassRec
<1>5. LockInv'
  BY <1>0, <1>1, <1>2, <1>3 DEF LockInv, Moving, Others, Fields, Ends
<1>6. ClickInv'
  BY <1>0, <1>1, <1>2, <1>3 DEF ClickInv, Moving, Others, Fields, Ends
<1>7. BoxInv'
  BY <1>0, <1>2 DEF BoxInv
<1>8. MoveInv'
  BY <1>0, <1>1, <1>2, <1>3 DEF MoveInv, Others, Fields, Ends
<1>9. OverlapInv'
  <2> SUFFICES ASSUME NEW j \in Clicks, NEW i \in Clicks, j # i, NEW x \in Has(j)' \intersect Has(i)'
               PROVE  x \in excused'
    BY DEF OverlapInv
  <2>1. CASE j # k /\ i # k
    BY <1>0, <1>3, <2>1 DEF OverlapInv, Has, Others
  <2>2. ASSUME NEW h \in Clicks, h # k, x \in Has(h)', x \in Has(k)' PROVE x \in excused'
    <3>1. x \in Has(h) /\ x \in ids
      BY <1>3, <2>2 DEF Has, Others, Fields, Ends
    <3>2. Underway(x)
      BY <3>1 DEF Underway, Has
    <3> QED
      BY <1>3, <3>1, <3>2
  <2> QED
    BY <2>1, <2>2
<1>10. ReadInv'
  <2> SUFFICES ASSUME NEW x \in isRead \ excused', ~Undoing(x)' PROVE Told(x)'
    BY <1>2 DEF ReadInv
  <2>1. ~Undoing(x) /\ x \notin excused
    BY <1>2, <1>3 DEF Undoing, Others
  <2> QED
    BY <1>0, <1>2, <2>1 DEF ReadInv, Told
<1>11. AcceptedInv'
  BY <1>0, <1>1, <1>2, <1>3 DEF AcceptedInv, Told, Others, Fields, Ends
<1>12. PassInv'
  BY <1>0, <1>2, <1>3 DEF PassInv
<1> QED
  BY <1>4, <1>5, <1>6, <1>7, <1>8, <1>9, <1>10, <1>11, <1>12 DEF MailInv

LEMMA SetFlagsKept ==
  ASSUME MailInv, NEW k \in Clicks, SetFlags(k)
  PROVE  MailInv'
<1>0. /\ MailTypes /\ LockInv /\ ClickInv /\ BoxInv /\ MoveInv
      /\ OverlapInv /\ ReadInv /\ AcceptedInv /\ PassInv
  BY DEF MailInv
<1>1. /\ click[k].pc = "locate" /\ click[k].op \in {"read", "unread"} /\ conn = "free"
      /\ UNCHANGED <<inInbox, doomed, archived, gone, caps, isRead, filed, conn, pass>>
  BY DEF SetFlags, rowVars
<1>2. PICK m \in Mail : click[k].todo = {m} /\ click[k].done = {} /\ The(k) = m
  BY <1>0, <1>1, TheOne DEF ClickInv
<1>3. /\ click' \in [Clicks -> ClickRec] /\ Others(k) /\ excused \subseteq excused'
      /\ \/ /\ Fields(k, "write", click[k].op, {}, {m})
            /\ seen' = Store(m, click[k].op = "read") /\ excused' = excused
         \/ Ends(k) /\ seen' = seen
         \/ /\ Ends(k) /\ seen' = Store(m, click[k].op = "read")
            /\ click[k].op = "unread" => m \in excused'
  <2>1. PICK r \in Outcomes :
          /\ seen' = IF r.taken THEN Store(m, click[k].op = "read") ELSE seen
          /\ click' = [click EXCEPT ![k] = IF r.told THEN [@ EXCEPT !.pc = "write", !.todo = {}, !.done = {m}]
                                           ELSE Over]
          /\ excused' = IF r.taken /\ ~r.told /\ ~(click[k].op = "read") THEN excused \union {m} ELSE excused
    BY <1>2 DEF SetFlags
  <2>2. CASE r.told = TRUE
    <3> DEFINE c == [click[k] EXCEPT !.pc = "write", !.todo = {}, !.done = {m}]
    <3>1. click' = [click EXCEPT ![k] = c] /\ seen' = Store(m, click[k].op = "read") /\ excused' = excused
      BY <2>1, <2>2, OutcomesAre
    <3>2. click[k] \in ClickRec
      BY <1>0 DEF MailTypes
    <3>3. c \in ClickRec /\ c.pc = "write" /\ c.op = click[k].op /\ c.todo = {} /\ c.done = {m}
      BY <3>2 DEF ClickRec
    <3>4. click' \in [Clicks -> ClickRec] /\ Others(k) /\ Fields(k, "write", click[k].op, {}, {m})
      BY <1>0, <3>1, <3>3 DEF Others, Fields, MailTypes
    <3> QED
      BY <3>1, <3>4
  <2>3. CASE r.told = FALSE
    <3>1. click' = [click EXCEPT ![k] = Over]
      BY <2>1, <2>3
    <3>2. click' \in [Clicks -> ClickRec] /\ Others(k) /\ Ends(k)
      BY <1>0, <3>1, Ending
    <3>3. CASE r.taken = TRUE
      BY <1>1, <2>1, <2>3, <3>2, <3>3
    <3>4. CASE r.taken = FALSE
      BY <2>1, <2>3, <3>2, <3>4
    <3> QED
      BY <3>3, <3>4, OutcomesAre
  <2> QED
    BY <2>2, <2>3, OutcomesAre
<1>4. /\ seen' \subseteq Mail
      /\ \A x \in seen : x \in seen' \/ (x = m /\ click[k].op = "unread")
      /\ click[k].op = "read" /\ seen' = Store(m, click[k].op = "read") => m \in seen' \/ m \notin inInbox
  BY <1>0, <1>1, <1>2, <1>3 DEF Store, MailTypes
<1>5. MailTypes'
  BY <1>0, <1>1, <1>3, <1>4 DEF MailTypes
<1>6. LockInv'
  BY <1>0, <1>1, <1>2, <1>3, <1>4 DEF LockInv, Moving, Others, Fields, Ends
<1>7. ClickInv'
  BY <1>0, <1>1, <1>2, <1>3, <1>4 DEF ClickInv, Moving, Others, Fields, Ends
<1>8. BoxInv'
  BY <1>0, <1>1 DEF BoxInv
<1>9. MoveInv'
  BY <1>0, <1>1, <1>2, <1>3, <1>4 DEF MoveInv, Others, Fields, Ends
<1>10. OverlapInv'
  BY <1>0, <1>1, <1>2, <1>3, <1>4 DEF OverlapInv, Has, Others, Fields, Ends
<1>11. ReadInv'
  <2> SUFFICES ASSUME NEW x \in isRead \ excused', ~Undoing(x)' PROVE Told(x)'
    BY <1>1 DEF ReadInv
  <2>1. ~Undoing(x) /\ x \notin excused
    BY <1>1, <1>3 DEF Undoing, Others
  <2>2. Told(x)
    BY <1>0, <2>1 DEF ReadInv
  <2>3. CASE x = m /\ click[k].op = "unread"
    <3>1. ~Fields(k, "write", click[k].op, {}, {m})
      BY <2>3 DEF Undoing, Fields
    <3> QED
      BY <1>1, <1>3, <2>2, <2>3, <3>1 DEF Told
  <2> QED
    BY <1>1, <1>4, <2>2, <2>3 DEF Told
<1>12. AcceptedInv'
  <2> SUFFICES ASSUME NEW j \in Clicks, click'[j].pc \in {"locate", "write"}, click'[j].op \in {"read", "bulk"},
                      NEW x \in click'[j].done \ excused'
               PROVE  Told(x)'
    BY DEF AcceptedInv
  <2>1. CASE j = k
    BY <1>1, <1>3, <1>4, <2>1 DEF Told, Fields, Ends
  <2>2. CASE j # k
    <3>1. x \in Has(j) /\ click'[j] = click[j] /\ x \notin excused
      BY <1>3, <2>2 DEF Has, Others
    <3>2. x # m
      BY <1>0, <1>1, <1>2, <2>2, <3>1 DEF OverlapInv, Has
    <3>3. Told(x)
      BY <1>0, <3>1 DEF AcceptedInv
    <3> QED
      BY <1>1, <1>4, <3>2, <3>3 DEF Told
  <2> QED
    BY <2>1, <2>2
<1>13. PassInv'
  BY <1>0, <1>1 DEF PassInv, LockInv
<1> QED
  BY <1>5, <1>6, <1>7, <1>8, <1>9, <1>10, <1>11, <1>12, <1>13 DEF MailInv

LEMMA SetSeenKept ==
  ASSUME MailInv, NEW k \in Clicks, SetSeen(k)
  PROVE  MailInv'
<1>0. /\ MailTypes /\ LockInv /\ ClickInv /\ BoxInv /\ MoveInv
      /\ OverlapInv /\ ReadInv /\ AcceptedInv /\ PassInv
  BY DEF MailInv
<1>1. /\ click[k].pc = "locate" /\ click[k].op = "bulk" /\ conn = "free"
      /\ UNCHANGED <<inInbox, doomed, archived, gone, caps, isRead, filed, conn, pass, excused>>
  BY DEF SetSeen, rowVars
<1>2. PICK m \in click[k].todo, r \in Outcomes :
        /\ seen' = IF r.taken THEN Store(m, TRUE) ELSE seen
        /\ click' = [click EXCEPT ![k] = Accept(k, m, r.told)]
  BY DEF SetSeen
<1>3. /\ m \in Mail /\ seen' \subseteq Mail /\ seen \subseteq seen'
      /\ r.told = TRUE => m \in seen' \/ m \notin inInbox
  BY <1>0, <1>2 DEF Store, Outcomes, MailTypes, ClickRec
<1>4. /\ click' \in [Clicks -> ClickRec] /\ Others(k)
      /\ \E done \in {click[k].done, click[k].done \union {m}} :
           /\ Fields(k, "locate", "bulk", click[k].todo \ {m}, done)
           /\ m \in done => r.told = TRUE \/ m \in click[k].done
  <2> DEFINE c == Accept(k, m, r.told)
  <2>1. click[k] \in ClickRec
    BY <1>0 DEF MailTypes
  <2>2. /\ c \in ClickRec /\ c.pc = "locate" /\ c.op = "bulk" /\ c.todo = click[k].todo \ {m}
        /\ c.done = IF r.told THEN click[k].done \union {m} ELSE click[k].done
    BY <1>1, <1>3, <2>1 DEF Accept, ClickRec
  <2>3. click' \in [Clicks -> ClickRec] /\ Others(k) /\ click'[k] = c
    BY <1>0, <1>2, <2>2 DEF Others, MailTypes
  <2> HIDE DEF c
  <2>4. CASE r.told = TRUE
    BY <2>2, <2>3, <2>4 DEF Fields
  <2>5. CASE r.told = FALSE
    BY <2>2, <2>3, <2>5 DEF Fields
  <2> QED
    BY <2>4, <2>5, OutcomesAre
<1>5. MailTypes'
  BY <1>0, <1>1, <1>3, <1>4 DEF MailTypes
<1>6. LockInv'
  BY <1>0, <1>1, <1>2, <1>3, <1>4 DEF LockInv, Moving, Others, Fields, Ends
<1>7. ClickInv'
  BY <1>0, <1>1, <1>2, <1>3, <1>4 DEF ClickInv, Moving, Others, Fields, Ends
<1>8. BoxInv'
  BY <1>0, <1>1 DEF BoxInv
<1>9. MoveInv'
  BY <1>0, <1>1, <1>2, <1>3, <1>4 DEF MoveInv, Others, Fields, Ends
<1>10. OverlapInv'
  BY <1>0, <1>1, <1>2, <1>3, <1>4 DEF OverlapInv, Has, Others, Fields, Ends
<1>11. ReadInv'
  <2> SUFFICES ASSUME NEW x \in isRead' \ excused', ~Undoing(x)' PROVE Told(x)'
    BY DEF ReadInv
  <2>1. x \in isRead /\ ~Undoing(x) /\ x \notin excused
    BY <1>0, <1>1, <1>3, <1>4 DEF Undoing, Others, Fields, Ends
  <2> QED
    BY <1>0, <1>1, <1>3, <1>4, <2>1 DEF ReadInv, Told, MailTypes
<1>12. AcceptedInv'
  <2> SUFFICES ASSUME NEW j \in Clicks, click'[j].pc \in {"locate", "write"}, click'[j].op \in {"read", "bulk"},
                      NEW x \in click'[j].done \ excused'
               PROVE  Told(x)'
    BY DEF AcceptedInv
  <2>1. (x \in click[j].done /\ click[j].pc \in {"locate", "write"} /\ click[j].op \in {"read", "bulk"})
          \/ (x = m /\ r.told = TRUE)
    BY <1>1, <1>4 DEF Others, Fields
  <2> QED
    BY <1>0, <1>1, <1>3, <2>1 DEF AcceptedInv, Told
<1>13. PassInv'
  BY <1>0, <1>1 DEF PassInv, LockInv
<1> QED
  BY <1>5, <1>6, <1>7, <1>8, <1>9, <1>10, <1>11, <1>12, <1>13 DEF MailInv

LEMMA GoesOfflineKept ==
  ASSUME MailInv, NEW k \in Clicks, GoesOffline(k)
  PROVE  MailInv'
<1>0. /\ MailTypes /\ LockInv /\ ClickInv /\ BoxInv /\ MoveInv
      /\ OverlapInv /\ ReadInv /\ AcceptedInv /\ PassInv
  BY DEF MailInv
<1>1. /\ click[k].pc = "locate"
      /\ click' = [click EXCEPT ![k] = Over]
      /\ UNCHANGED <<seen, inInbox, doomed, archived, gone, caps, isRead, filed, conn, pass, excused>>
  BY DEF GoesOffline, remoteVars, rowVars
<1>2. Ends(k) /\ Others(k) /\ click' \in [Clicks -> ClickRec]
  BY <1>0, <1>1, Ending
<1>3. MailTypes'
  BY <1>0, <1>1, <1>2 DEF MailTypes
<1>4. LockInv'
  BY <1>0, <1>1, <1>2 DEF LockInv, Moving, Others, Fields, Ends
<1>5. ClickInv'
  BY <1>0, <1>1, <1>2 DEF ClickInv, Moving, Others, Fields, Ends
<1>6. BoxInv'
  BY <1>0, <1>1 DEF BoxInv
<1>7. MoveInv'
  BY <1>0, <1>1, <1>2 DEF MoveInv, Others, Fields, Ends
<1>8. OverlapInv'
  BY <1>0, <1>1, <1>2 DEF OverlapInv, Has, Others, Fields, Ends
<1>9. ReadInv'
  <2> SUFFICES ASSUME NEW x \in isRead' \ excused', ~Undoing(x)' PROVE Told(x)'
    BY DEF ReadInv
  <2>1. x \in isRead /\ ~Undoing(x) /\ x \notin excused
    BY <1>0, <1>1, <1>2 DEF Undoing, Others, Fields, Ends
  <2> QED
    BY <1>0, <1>1, <1>2, <2>1 DEF ReadInv, Told, MailTypes
<1>10. AcceptedInv'
  BY <1>0, <1>1, <1>2 DEF AcceptedInv, Told, Others, Fields, Ends
<1>11. PassInv'
  BY <1>0, <1>1 DEF PassInv
<1> QED
  BY <1>3, <1>4, <1>5, <1>6, <1>7, <1>8, <1>9, <1>10, <1>11 DEF MailInv

LEMMA AcceptedKept ==
  ASSUME MailInv, NEW k \in Clicks, Accepted(k)
  PROVE  MailInv'
<1>0. /\ MailTypes /\ LockInv /\ ClickInv /\ BoxInv /\ MoveInv
      /\ OverlapInv /\ ReadInv /\ AcceptedInv /\ PassInv
  BY DEF MailInv
<1>1. /\ click[k].pc = "locate" /\ click[k].op = "bulk" /\ click[k].todo = {}
      /\ click' = [click EXCEPT ![k] = IF click[k].done = {} THEN Over ELSE [@ EXCEPT !.pc = "write"]]
      /\ UNCHANGED <<seen, inInbox, doomed, archived, gone, caps, isRead, filed, conn, pass, excused>>
  BY DEF Accepted, remoteVars, rowVars
<1>2. /\ click' \in [Clicks -> ClickRec] /\ Others(k)
      /\ Ends(k) \/ Fields(k, "write", "bulk", {}, click[k].done)
  <2>1. CASE click[k].done = {}
    <3>1. click' = [click EXCEPT ![k] = Over]
      BY <1>1, <2>1
    <3> QED
      BY <1>0, <3>1, Ending
  <2>2. CASE click[k].done # {}
    <3> DEFINE c == [click[k] EXCEPT !.pc = "write"]
    <3>1. click' = [click EXCEPT ![k] = c]
      BY <1>1, <2>2
    <3>2. click[k] \in ClickRec
      BY <1>0 DEF MailTypes
    <3>3. c \in ClickRec /\ Fields(k, "write", "bulk", {}, click[k].done)
      BY <1>0, <1>1, <3>1, <3>2 DEF ClickRec, Fields, MailTypes
    <3> QED
      BY <1>0, <3>1, <3>3 DEF Others, MailTypes
  <2> QED
    BY <2>1, <2>2
<1>3. MailTypes'
  BY <1>0, <1>1, <1>2 DEF MailTypes
<1>4. LockInv'
  BY <1>0, <1>1, <1>2 DEF LockInv, Moving, Others, Fields, Ends
<1>5. ClickInv'
  BY <1>0, <1>1, <1>2 DEF ClickInv, Moving, Others, Fields, Ends
<1>6. BoxInv'
  BY <1>0, <1>1 DEF BoxInv
<1>7. MoveInv'
  BY <1>0, <1>1, <1>2 DEF MoveInv, Others, Fields, Ends
<1>8. OverlapInv'
  BY <1>0, <1>1, <1>2 DEF OverlapInv, Has, Others, Fields, Ends
<1>9. ReadInv'
  <2> SUFFICES ASSUME NEW x \in isRead' \ excused', ~Undoing(x)' PROVE Told(x)'
    BY DEF ReadInv
  <2>1. x \in isRead /\ ~Undoing(x) /\ x \notin excused
    BY <1>0, <1>1, <1>2 DEF Undoing, Others, Fields, Ends
  <2> QED
    BY <1>0, <1>1, <1>2, <2>1 DEF ReadInv, Told, MailTypes
<1>10. AcceptedInv'
  BY <1>0, <1>1, <1>2 DEF AcceptedInv, Told, Others, Fields, Ends
<1>11. PassInv'
  BY <1>0, <1>1 DEF PassInv
<1> QED
  BY <1>3, <1>4, <1>5, <1>6, <1>7, <1>8, <1>9, <1>10, <1>11 DEF MailInv

LEMMA WriteRowKept ==
  ASSUME MailInv, NEW k \in Clicks, WriteRow(k)
  PROVE  MailInv'
<1>0. /\ MailTypes /\ LockInv /\ ClickInv /\ BoxInv /\ MoveInv
      /\ OverlapInv /\ ReadInv /\ AcceptedInv /\ PassInv
  BY DEF MailInv
<1>1. /\ click[k].pc = "write" /\ click' = [click EXCEPT ![k] = Over]
      /\ UNCHANGED <<seen, inInbox, doomed, archived, gone, caps, filed, conn, pass>>
  BY DEF WriteRow, remoteVars
<1>2. Ends(k) /\ Others(k) /\ click' \in [Clicks -> ClickRec] /\ click[k] \in ClickRec
  BY <1>0, <1>1, Ending DEF MailTypes
<1>3. \/ /\ click[k].op \in {"read", "bulk"} /\ isRead' = isRead \union click[k].done /\ excused' = excused
      \/ /\ click[k].op = "unread" /\ isRead' = isRead \ click[k].done /\ excused' = excused
      \/ /\ click[k].op = "unread" /\ isRead' = isRead /\ excused' = excused \union click[k].done
      \/ /\ click[k].op # "unread" /\ isRead' = isRead /\ excused' = excused
  BY DEF WriteRow
<1>4. isRead' \subseteq Mail /\ excused \subseteq excused'
  BY <1>0, <1>2, <1>3 DEF MailTypes, ClickRec
<1>5. MailTypes'
  BY <1>0, <1>1, <1>2, <1>4 DEF MailTypes
<1>6. LockInv'
  BY <1>0, <1>1, <1>2, <1>3, <1>4 DEF LockInv, Moving, Others, Fields, Ends
<1>7. ClickInv'
  BY <1>0, <1>1, <1>2, <1>3, <1>4 DEF ClickInv, Moving, Others, Fields, Ends
<1>8. BoxInv'
  BY <1>0, <1>1 DEF BoxInv
<1>9. MoveInv'
  BY <1>0, <1>1, <1>2, <1>3, <1>4 DEF MoveInv, Others, Fields, Ends
<1>10. OverlapInv'
  BY <1>0, <1>1, <1>2, <1>3, <1>4 DEF OverlapInv, Has, Others, Fields, Ends
<1>11. ReadInv'
  <2> SUFFICES ASSUME NEW x \in isRead' \ excused', ~Undoing(x)' PROVE Told(x)
    BY <1>1 DEF ReadInv, Told
  <2>1. CASE x \in click[k].done /\ click[k].op \in {"read", "bulk"}
    BY <1>0, <1>1, <1>4, <2>1 DEF AcceptedInv
  <2>2. CASE ~(x \in click[k].done /\ click[k].op \in {"read", "bulk"})
    <3>1. x \in isRead \ excused /\ ~(x \in click[k].done /\ click[k].op = "unread")
      BY <1>3, <2>2
    <3>2. ~Undoing(x)
      BY <1>2, <3>1 DEF Undoing, Others
    <3> QED
      BY <1>0, <3>1, <3>2 DEF ReadInv
  <2> QED
    BY <2>1, <2>2
<1>12. AcceptedInv'
  BY <1>0, <1>1, <1>2, <1>3, <1>4 DEF AcceptedInv, Told, Others, Fields, Ends
<1>13. PassInv'
  BY <1>0, <1>1, <1>4 DEF PassInv
<1> QED
  BY <1>5, <1>6, <1>7, <1>8, <1>9, <1>10, <1>11, <1>12, <1>13 DEF MailInv

\* What the steps of a move have in common: its request ends, or goes on with the
\* same message, and the inbox only loses mail.
MoveGoes(k, m, pc) ==
  /\ Fields(k, pc, "archive", {m}, {})
  /\ click'[k].safe = click[k].safe /\ click'[k].late = click[k].late
LEMMA Going ==
  ASSUME MailTypes, NEW k \in Clicks, NEW m \in Mail, NEW pc \in Moving \union {"write"},
         click[k].op = "archive", click[k].todo = {m}, click[k].done = {}, To(k, pc)
  PROVE  MoveGoes(k, m, pc) /\ Others(k) /\ click' \in [Clicks -> ClickRec]
<1> DEFINE c == [click[k] EXCEPT !.pc = pc]
<1>1. click' = [click EXCEPT ![k] = c] /\ click[k] \in ClickRec
  BY DEF To, MailTypes
<1>2. /\ c \in ClickRec /\ c.pc = pc /\ c.op = "archive" /\ c.todo = {m} /\ c.done = {}
      /\ c.safe = click[k].safe /\ c.late = click[k].late
  BY <1>1 DEF ClickRec, Moving
<1> HIDE DEF c
<1> QED
  BY <1>1, <1>2 DEF MoveGoes, Fields, Others, MailTypes

LEMMA Mover ==
  ASSUME MailInv, NEW k \in Clicks, click[k].pc \in Moving
  PROVE  \E m \in Mail : /\ click[k].todo = {m} /\ click[k].done = {} /\ click[k].op = "archive"
                         /\ The(k) = m /\ filed[m] = "inbox" /\ conn = k /\ conn # "free" /\ conn # "sync"
                         /\ \A j \in Clicks : j # k => click[j].pc \notin Moving
<1>1. PICK m \in Mail : click[k].todo = {m} /\ filed[m] = "inbox"
  BY DEF MailInv, ClickInv
<1>2. The(k) = m
  BY <1>1, TheOne
<1>3. /\ conn = k /\ conn # "free" /\ conn # "sync"
      /\ \A j \in Clicks : j # k => click[j].pc \notin Moving
  BY MailAssumption DEF MailInv, LockInv
<1> QED
  BY <1>1, <1>2, <1>3 DEF MailInv, ClickInv

LEMMA MoveFrame ==
  ASSUME MailInv, NEW k \in Clicks, NEW m \in Mail,
         click[k].todo = {m}, click[k].done = {}, click[k].op = "archive",
         click[k].pc \notin {"new", "over"},
         Ends(k) \/ (\E pc \in Moving \union {"write"} : Fields(k, pc, "archive", {m}, {})),
         Others(k), inInbox' \subseteq inInbox, UNCHANGED <<seen, isRead, pass, excused>>
  PROVE  OverlapInv' /\ ReadInv' /\ AcceptedInv' /\ PassInv'
<1>0. OverlapInv /\ ReadInv /\ AcceptedInv /\ PassInv
  BY DEF MailInv
<1>1. OverlapInv'
  <2>1. \A j \in Clicks : Has(j)' \subseteq Has(j)
    BY DEF Has, Others, Fields, Ends
  <2> QED
    BY <1>0, <2>1 DEF OverlapInv
<1>2. ReadInv'
  <2> SUFFICES ASSUME NEW x \in isRead \ excused, ~Undoing(x)' PROVE Told(x)'
    BY DEF ReadInv
  <2>1. ~Undoing(x)
    BY DEF Undoing, Others
  <2> QED
    BY <1>0, <2>1 DEF ReadInv, Told
<1>3. AcceptedInv'
  BY <1>0 DEF AcceptedInv, Told, Others, Fields, Ends
<1>4. PassInv'
  BY <1>0 DEF PassInv
<1> QED
  BY <1>1, <1>2, <1>3, <1>4

LEMMA LocateKept ==
  ASSUME MailInv, NEW k \in Clicks, Locate(k)
  PROVE  MailInv'
<1>0. MailTypes /\ LockInv /\ ClickInv /\ BoxInv /\ MoveInv
  BY DEF MailInv
<1>1. /\ click[k].pc = "locate" /\ click[k].op = "archive" /\ conn = "free" /\ conn # k
      /\ UNCHANGED <<seen, inInbox, doomed, archived, gone, caps, isRead, filed, pass, excused>>
  BY MailAssumption DEF Locate, remoteVars, rowVars
<1>2. PICK m \in Mail : click[k].todo = {m} /\ click[k].done = {} /\ The(k) = m
  BY <1>0, <1>1, TheOne DEF ClickInv
<1>3. /\ Others(k) /\ click' \in [Clicks -> ClickRec]
      /\ \/ /\ filed[m] = "inbox" /\ conn' = k
            /\ MoveGoes(k, m, IF caps = "move" THEN "move" ELSE "search")
         \/ MoveGoes(k, m, "write") /\ conn' = conn
         \/ Ends(k) /\ conn' = conn
  <2>1. CASE filed[m] = "inbox"
    <3>1. conn' = k /\ To(k, IF caps = "move" THEN "move" ELSE "search")
      BY <1>2, <2>1 DEF Locate
    <3>2. (IF caps = "move" THEN "move" ELSE "search") \in Moving \union {"write"}
      BY DEF Moving
    <3> QED
      BY <1>0, <1>1, <1>2, <2>1, <3>1, <3>2, Going
  <2>2. CASE filed[m] = "archive"
    <3>1. conn' = conn /\ To(k, "write")
      BY <1>2, <2>2 DEF Locate
    <3> QED
      BY <1>0, <1>1, <1>2, <3>1, Going
  <2>3. CASE filed[m] # "inbox" /\ filed[m] # "archive"
    <3>1. conn' = conn /\ click' = [click EXCEPT ![k] = Over]
      BY <1>2, <2>3 DEF Locate
    <3> QED
      BY <1>0, <3>1, Ending
  <2> QED
    BY <2>1, <2>2, <2>3
<1>4. MailTypes'
  BY <1>0, <1>1, <1>3 DEF MailTypes
<1>5. LockInv'
  BY <1>0, <1>1, <1>2, <1>3 DEF LockInv, Moving, Others, Fields, Ends, MoveGoes
<1>6. ClickInv'
  BY <1>0, <1>1, <1>2, <1>3 DEF ClickInv, Moving, Others, Fields, Ends, MoveGoes
<1>7. BoxInv'
  BY <1>0, <1>1 DEF BoxInv
<1>8. MoveInv'
  BY <1>0, <1>1, <1>2, <1>3 DEF MoveInv, Others, Fields, Ends, MoveGoes
<1>9. OverlapInv' /\ ReadInv' /\ AcceptedInv' /\ PassInv'
  BY <1>1, <1>2, <1>3, MoveFrame DEF MoveGoes, Moving
<1> QED
  BY <1>4, <1>5, <1>6, <1>7, <1>8, <1>9 DEF MailInv

LEMMA MoveKept ==
  ASSUME MailInv, NEW k \in Clicks, Move(k)
  PROVE  MailInv'
<1>0. MailTypes /\ LockInv /\ ClickInv /\ BoxInv /\ MoveInv
  BY DEF MailInv
<1>1. /\ click[k].pc = "move"
      /\ UNCHANGED <<seen, gone, caps, isRead, filed, pass, excused>>
  BY DEF Move, rowVars
<1>2. PICK m \in Mail : /\ click[k].todo = {m} /\ click[k].done = {} /\ click[k].op = "archive"
                        /\ The(k) = m /\ filed[m] = "inbox" /\ conn = k /\ conn # "free" /\ conn # "sync"
                        /\ \A j \in Clicks : j # k => click[j].pc \notin Moving
  BY <1>1, Mover DEF Moving
<1>3. /\ Others(k) /\ click' \in [Clicks -> ClickRec]
      /\ \/ /\ inInbox' = inInbox \ {m} /\ doomed' = doomed \ {m}
            /\ archived' = IF m \in inInbox THEN [archived EXCEPT ![m] = @ + 1] ELSE archived
         \/ UNCHANGED <<archived, inInbox, doomed>> /\ ~MoveGoes(k, m, "relocate")
      /\ \/ MoveGoes(k, m, "relocate") /\ conn' = conn
         \/ Ends(k) /\ conn' = "free"
  <2>1. PICK r \in Outcomes :
          /\ IF r.taken
               THEN /\ archived' = IF m \in inInbox THEN [archived EXCEPT ![m] = @ + 1] ELSE archived
                    /\ inInbox' = inInbox \ {m} /\ doomed' = doomed \ {m}
               ELSE UNCHANGED <<archived, inInbox, doomed>>
          /\ IF r.told THEN To(k, "relocate") /\ UNCHANGED conn ELSE GiveUp(k)
    BY <1>2 DEF Move, CopyOf, Here
  <2>2. CASE r.told = TRUE
    <3>1. To(k, "relocate") /\ conn' = conn /\ r.taken = TRUE
      BY <2>1, <2>2, OutcomesAre
    <3>2. "relocate" \in Moving \union {"write"}
      BY DEF Moving
    <3>3. MoveGoes(k, m, "relocate") /\ Others(k) /\ click' \in [Clicks -> ClickRec]
      BY <1>0, <1>2, <3>1, <3>2, Going
    <3> QED
      BY <1>2, <2>1, <3>1, <3>3
  <2>3. CASE r.told = FALSE
    <3>1. click' = [click EXCEPT ![k] = Over] /\ conn' = "free"
      BY <2>1, <2>3 DEF GiveUp
    <3>2. Ends(k) /\ Others(k) /\ click' \in [Clicks -> ClickRec]
      BY <1>0, <3>1, Ending
    <3>3. r.taken = TRUE \/ r.taken = FALSE
      BY OutcomesAre
    <3>4. ~MoveGoes(k, m, "relocate")
      BY <3>2 DEF MoveGoes, Fields, Ends
    <3> QED
      BY <2>1, <3>1, <3>2, <3>3, <3>4
  <2> QED
    BY <2>2, <2>3, OutcomesAre
<1>4. /\ archived' \in [Mail -> Nat] /\ (\A x \in Mail : archived[x] > 0 => archived'[x] > 0)
      /\ archived' # archived => m \in inInbox /\ archived'[m] > 0
  <2>1. archived \in [Mail -> Nat]
    BY <1>0 DEF MailTypes
  <2>2. CASE archived' = archived
    BY <2>1, <2>2
  <2>3. CASE m \in inInbox /\ archived' = [archived EXCEPT ![m] = @ + 1]
    BY <2>1, <2>3
  <2> QED
    BY <1>3, <2>2, <2>3
<1>5. MailTypes'
  BY <1>0, <1>1, <1>2, <1>3, <1>4 DEF MailTypes
<1>6. LockInv'
  BY <1>0, <1>1, <1>2, <1>3, <1>4 DEF LockInv, Moving, Others, Fields, Ends, MoveGoes
<1>7. ClickInv'
  BY <1>0, <1>1, <1>2, <1>3, <1>4 DEF ClickInv, Moving, Others, Fields, Ends, MoveGoes
<1>8. BoxInv'
  <2>0. \A x \in Mail : x \in inInbox \/ x \in gone \/ archived[x] > 0
    BY <1>0 DEF BoxInv
  <2>1. doomed' \subseteq inInbox' /\ inInbox' \subseteq inInbox /\ inInbox \subseteq inInbox' \union {m}
    BY <1>0, <1>3 DEF BoxInv
  <2>2. m \in inInbox \ inInbox' => archived'[m] > 0
    BY <1>0, <1>3 DEF MailTypes
  <2>3. \A x \in Mail : x \in inInbox' \/ x \in gone' \/ archived'[x] > 0
    BY <1>1, <1>4, <2>0, <2>1, <2>2
  <2> QED
    BY <1>0, <1>1, <2>1, <2>3 DEF BoxInv
<1>9. MoveInv'
  <2> SUFFICES ASSUME NEW j \in Clicks, NEW x \in click'[j].todo
               PROVE  /\ click'[j].pc \in {"flag", "expunge"} => x \notin inInbox' \/ archived'[x] > 0
                      /\ click'[j].pc = "expunge" => x \in doomed' \/ x \notin inInbox'
                      /\ click'[j].pc = "relocate" => x \notin inInbox'
                      /\ click'[j].pc \in {"copy", "flag", "expunge"} /\ click'[j].safe =>
                           doomed' \subseteq {x} \union click'[j].late
    BY DEF MoveInv
  <2>1. CASE j # k
    BY <1>2, <1>3, <2>1 DEF Others, Moving
  <2>2. CASE j = k /\ click'[k].pc = "over"
    BY <2>2
  <2>3. CASE j = k /\ click'[k].pc # "over"
    <3>1. x = m /\ m \in click[k].todo
      BY <1>2, <1>3, <2>3 DEF MoveGoes, Fields, Ends
    <3> QED
      BY <1>0, <1>1, <1>3, <2>3, <3>1 DEF MoveInv, MoveGoes, Fields, Ends
  <2> QED
    BY <2>1, <2>2, <2>3
<1>10. OverlapInv' /\ ReadInv' /\ AcceptedInv' /\ PassInv'
  BY <1>1, <1>2, <1>3, <1>4, MoveFrame DEF MoveGoes, Moving
<1> QED
  BY <1>5, <1>6, <1>7, <1>8, <1>9, <1>10 DEF MailInv

LEMMA SearchKept ==
  ASSUME MailInv, NEW k \in Clicks, Search(k)
  PROVE  MailInv'
<1>0. MailTypes /\ LockInv /\ ClickInv /\ BoxInv /\ MoveInv
  BY DEF MailInv
<1>1. /\ click[k].pc = "search"
      /\ UNCHANGED <<seen, inInbox, doomed, archived, gone, caps, isRead, filed, pass, excused>>
  BY DEF Search, remoteVars, rowVars
<1>2. PICK m \in Mail : /\ click[k].todo = {m} /\ click[k].done = {} /\ click[k].op = "archive"
                        /\ The(k) = m /\ filed[m] = "inbox" /\ conn = k /\ conn # "free" /\ conn # "sync"
                        /\ \A j \in Clicks : j # k => click[j].pc \notin Moving
  BY <1>1, Mover DEF Moving
<1>3. /\ Others(k) /\ click' \in [Clicks -> ClickRec]
      /\ \/ /\ Fields(k, "copy", "archive", {m}, {}) /\ conn' = conn
            /\ click'[k].safe => doomed = {}
         \/ Ends(k) /\ conn' = "free"
  <2>1. CASE click' = [click EXCEPT ![k].pc = "copy", ![k].safe = doomed = {}] /\ conn' = conn
    <3> DEFINE c == [click[k] EXCEPT !.pc = "copy", !.safe = doomed = {}]
    <3>1. click' = [click EXCEPT ![k] = c] /\ click[k] \in ClickRec
      BY <1>0, <2>1 DEF MailTypes
    <3>2. (doomed = {}) \in BOOLEAN
      OBVIOUS
    <3>3. c \in ClickRec /\ c.pc = "copy" /\ c.op = "archive" /\ c.todo = {m} /\ c.done = {}
          /\ c.safe = (doomed = {})
      BY <1>2, <3>1, <3>2 DEF ClickRec, Moving
    <3> HIDE DEF c
    <3>4. Others(k) /\ click' \in [Clicks -> ClickRec] /\ click'[k] = c
      BY <1>0, <3>1, <3>3 DEF Others, MailTypes
    <3> QED
      BY <2>1, <3>3, <3>4 DEF Fields
  <2>2. CASE GiveUp(k)
    <3>1. click' = [click EXCEPT ![k] = Over] /\ conn' = "free"
      BY <2>2 DEF GiveUp
    <3>2. Ends(k) /\ Others(k) /\ click' \in [Clicks -> ClickRec]
      BY <1>0, <3>1, Ending
    <3> QED
      BY <3>1, <3>2
  <2> QED
    BY <2>1, <2>2 DEF Search
<1>4. MailTypes'
  BY <1>0, <1>1, <1>2, <1>3 DEF MailTypes
<1>5. LockInv'
  BY <1>0, <1>1, <1>2, <1>3 DEF LockInv, Moving, Others, Fields, Ends, MoveGoes
<1>6. ClickInv'
  BY <1>0, <1>1, <1>2, <1>3 DEF ClickInv, Moving, Others, Fields, Ends, MoveGoes
<1>7. BoxInv'
  BY <1>0, <1>1 DEF BoxInv
<1>8. MoveInv'
  BY <1>0, <1>1, <1>2, <1>3 DEF MoveInv, Others, Fields, Ends, MoveGoes
<1>9. OverlapInv' /\ ReadInv' /\ AcceptedInv' /\ PassInv'
  BY <1>1, <1>2, <1>3, MoveFrame DEF MoveGoes, Moving
<1> QED
  BY <1>4, <1>5, <1>6, <1>7, <1>8, <1>9 DEF MailInv

LEMMA CopyKept ==
  ASSUME MailInv, NEW k \in Clicks, Copy(k)
  PROVE  MailInv'
<1>0. MailTypes /\ LockInv /\ ClickInv /\ BoxInv /\ MoveInv
  BY DEF MailInv
<1>1. /\ click[k].pc = "copy"
      /\ UNCHANGED <<seen, inInbox, doomed, gone, caps, isRead, filed, pass, excused>>
  BY DEF Copy, rowVars
<1>2. PICK m \in Mail : /\ click[k].todo = {m} /\ click[k].done = {} /\ click[k].op = "archive"
                        /\ The(k) = m /\ filed[m] = "inbox" /\ conn = k /\ conn # "free" /\ conn # "sync"
                        /\ \A j \in Clicks : j # k => click[j].pc \notin Moving
  BY <1>1, Mover DEF Moving
<1>3. /\ Others(k) /\ click' \in [Clicks -> ClickRec]
      /\ \/ m \in inInbox /\ archived' = [archived EXCEPT ![m] = @ + 1]
         \/ archived' = archived
      /\ \/ /\ MoveGoes(k, m, "flag") /\ conn' = conn
            /\ archived' = IF m \in inInbox THEN [archived EXCEPT ![m] = @ + 1] ELSE archived
         \/ Ends(k) /\ conn' = "free"
  <2>1. PICK r \in Outcomes :
          /\ IF r.taken
               THEN archived' = IF m \in inInbox THEN [archived EXCEPT ![m] = @ + 1] ELSE archived
               ELSE archived' = archived
          /\ IF r.told THEN To(k, "flag") /\ UNCHANGED conn ELSE GiveUp(k)
    BY <1>2 DEF Copy, CopyOf, Here
  <2>2. CASE r.told = TRUE
    <3>1. To(k, "flag") /\ conn' = conn /\ r.taken = TRUE
      BY <2>1, <2>2, OutcomesAre
    <3>2. "flag" \in Moving \union {"write"}
      BY DEF Moving
    <3>3. MoveGoes(k, m, "flag") /\ Others(k) /\ click' \in [Clicks -> ClickRec]
      BY <1>0, <1>2, <3>1, <3>2, Going
    <3> QED
      BY <1>2, <2>1, <3>1, <3>3
  <2>3. CASE r.told = FALSE
    <3>1. click' = [click EXCEPT ![k] = Over] /\ conn' = "free"
      BY <2>1, <2>3 DEF GiveUp
    <3>2. Ends(k) /\ Others(k) /\ click' \in [Clicks -> ClickRec]
      BY <1>0, <3>1, Ending
    <3>3. r.taken = TRUE \/ r.taken = FALSE
      BY OutcomesAre
    <3> QED
      BY <1>2, <2>1, <3>1, <3>2, <3>3
  <2> QED
    BY <2>2, <2>3, OutcomesAre
<1>4. /\ archived' \in [Mail -> Nat] /\ (\A x \in Mail : archived[x] > 0 => archived'[x] > 0)
      /\ archived' # archived => m \in inInbox /\ archived'[m] > 0
  <2>1. archived \in [Mail -> Nat]
    BY <1>0 DEF MailTypes
  <2>2. CASE archived' = archived
    BY <2>1, <2>2
  <2>3. CASE m \in inInbox /\ archived' = [archived EXCEPT ![m] = @ + 1]
    BY <2>1, <2>3
  <2> QED
    BY <1>3, <2>2, <2>3
<1>5. MoveGoes(k, m, "flag") => m \notin inInbox \/ archived'[m] > 0
  <2>1. MoveGoes(k, m, "flag") => ~Ends(k)
    BY DEF MoveGoes, Fields, Ends
  <2> QED
    BY <1>0, <1>3, <2>1 DEF MailTypes
<1>6. MailTypes'
  BY <1>0, <1>1, <1>2, <1>3, <1>4 DEF MailTypes
<1>7. LockInv'
  BY <1>0, <1>1, <1>2, <1>3, <1>4, <1>5 DEF LockInv, Moving, Others, Fields, Ends, MoveGoes
<1>8. ClickInv'
  BY <1>0, <1>1, <1>2, <1>3, <1>4, <1>5 DEF ClickInv, Moving, Others, Fields, Ends, MoveGoes
<1>9. BoxInv'
  <2>1. \A x \in Mail : x \in inInbox \/ x \in gone \/ archived[x] > 0
    BY <1>0 DEF BoxInv
  <2>2. \A x \in Mail : x \in inInbox' \/ x \in gone' \/ archived'[x] > 0
    BY <1>1, <1>4, <2>1
  <2> QED
    BY <1>0, <1>1, <2>2 DEF BoxInv
<1>10. MoveInv'
  <2> SUFFICES ASSUME NEW j \in Clicks, NEW x \in click'[j].todo
               PROVE  /\ click'[j].pc \in {"flag", "expunge"} => x \notin inInbox' \/ archived'[x] > 0
                      /\ click'[j].pc = "expunge" => x \in doomed' \/ x \notin inInbox'
                      /\ click'[j].pc = "relocate" => x \notin inInbox'
                      /\ click'[j].pc \in {"copy", "flag", "expunge"} /\ click'[j].safe =>
                           doomed' \subseteq {x} \union click'[j].late
    BY DEF MoveInv
  <2>1. CASE j # k
    BY <1>2, <1>3, <2>1 DEF Others, Moving
  <2>2. CASE j = k /\ click'[k].pc = "over"
    BY <2>2
  <2>3. CASE j = k /\ click'[k].pc # "over"
    <3>1. x = m /\ m \in click[k].todo
      BY <1>2, <1>3, <2>3 DEF MoveGoes, Fields, Ends
    <3> QED
      BY <1>0, <1>1, <1>3, <1>5, <2>3, <3>1 DEF MoveInv, MoveGoes, Fields, Ends
  <2> QED
    BY <2>1, <2>2, <2>3
<1>11. OverlapInv' /\ ReadInv' /\ AcceptedInv' /\ PassInv'
  BY <1>1, <1>2, <1>3, <1>4, <1>5, MoveFrame DEF MoveGoes, Moving
<1> QED
  BY <1>6, <1>7, <1>8, <1>9, <1>10, <1>11 DEF MailInv

LEMMA FlagDeletedKept ==
  ASSUME MailInv, NEW k \in Clicks, FlagDeleted(k)
  PROVE  MailInv'
<1>0. MailTypes /\ LockInv /\ ClickInv /\ BoxInv /\ MoveInv
  BY DEF MailInv
<1>1. /\ click[k].pc = "flag"
      /\ UNCHANGED <<seen, inInbox, archived, gone, caps, isRead, filed, pass, excused>>
  BY DEF FlagDeleted, rowVars
<1>2. PICK m \in Mail : /\ click[k].todo = {m} /\ click[k].done = {} /\ click[k].op = "archive"
                        /\ The(k) = m /\ filed[m] = "inbox" /\ conn = k /\ conn # "free" /\ conn # "sync"
                        /\ \A j \in Clicks : j # k => click[j].pc \notin Moving
  BY <1>1, Mover DEF Moving
<1>3. /\ Others(k) /\ click' \in [Clicks -> ClickRec]
      /\ \/ doomed' = doomed \union {m} /\ m \in inInbox
         \/ doomed' = doomed
      /\ \/ /\ MoveGoes(k, m, "expunge") /\ conn' = conn
            /\ m \in inInbox => m \in doomed'
         \/ Ends(k) /\ conn' = "free"
  <2>1. PICK r \in Outcomes :
          /\ doomed' = IF r.taken /\ m \in inInbox THEN doomed \union {m} ELSE doomed
          /\ IF r.told THEN To(k, "expunge") /\ UNCHANGED conn ELSE GiveUp(k)
    BY <1>2 DEF FlagDeleted, Here
  <2>2. CASE r.told = TRUE
    <3>1. To(k, "expunge") /\ conn' = conn /\ r.taken = TRUE
      BY <2>1, <2>2, OutcomesAre
    <3>2. "expunge" \in Moving \union {"write"}
      BY DEF Moving
    <3>3. MoveGoes(k, m, "expunge") /\ Others(k) /\ click' \in [Clicks -> ClickRec]
      BY <1>0, <1>2, <3>1, <3>2, Going
    <3> QED
      BY <1>2, <2>1, <3>1, <3>3
  <2>3. CASE r.told = FALSE
    <3>1. click' = [click EXCEPT ![k] = Over] /\ conn' = "free"
      BY <2>1, <2>3 DEF GiveUp
    <3>2. Ends(k) /\ Others(k) /\ click' \in [Clicks -> ClickRec]
      BY <1>0, <3>1, Ending
    <3>3. r.taken = TRUE \/ r.taken = FALSE
      BY OutcomesAre
    <3> QED
      BY <1>2, <2>1, <3>1, <3>2, <3>3
  <2> QED
    BY <2>2, <2>3, OutcomesAre
<1>4. MailTypes'
  BY <1>0, <1>1, <1>2, <1>3 DEF MailTypes
<1>5. LockInv'
  BY <1>0, <1>1, <1>2, <1>3 DEF LockInv, Moving, Others, Fields, Ends, MoveGoes
<1>6. ClickInv'
  BY <1>0, <1>1, <1>2, <1>3 DEF ClickInv, Moving, Others, Fields, Ends, MoveGoes
<1>7. BoxInv'
  BY <1>0, <1>1, <1>3 DEF BoxInv
<1>8. MoveInv'
  <2> SUFFICES ASSUME NEW j \in Clicks, NEW x \in click'[j].todo
               PROVE  /\ click'[j].pc \in {"flag", "expunge"} => x \notin inInbox' \/ archived'[x] > 0
                      /\ click'[j].pc = "expunge" => x \in doomed' \/ x \notin inInbox'
                      /\ click'[j].pc = "relocate" => x \notin inInbox'
                      /\ click'[j].pc \in {"copy", "flag", "expunge"} /\ click'[j].safe =>
                           doomed' \subseteq {x} \union click'[j].late
    BY DEF MoveInv
  <2>1. CASE j # k
    BY <1>2, <1>3, <2>1 DEF Others, Moving
  <2>2. CASE j = k /\ click'[k].pc = "over"
    BY <2>2
  <2>3. CASE j = k /\ click'[k].pc # "over"
    <3>1. x = m /\ m \in click[k].todo
      BY <1>2, <1>3, <2>3 DEF MoveGoes, Fields, Ends
    <3> QED
      BY <1>0, <1>1, <1>3, <2>3, <3>1 DEF MoveInv, MoveGoes, Fields, Ends
  <2> QED
    BY <2>1, <2>2, <2>3
<1>9. OverlapInv' /\ ReadInv' /\ AcceptedInv' /\ PassInv'
  BY <1>1, <1>2, <1>3, MoveFrame DEF MoveGoes, Moving
<1> QED
  BY <1>4, <1>5, <1>6, <1>7, <1>8, <1>9 DEF MailInv

LEMMA ExpungeKept ==
  ASSUME MailInv, NEW k \in Clicks, Expunge(k)
  PROVE  MailInv'
<1>0. MailTypes /\ LockInv /\ ClickInv /\ BoxInv /\ MoveInv
  BY DEF MailInv
<1>1. /\ click[k].pc = "expunge"
      /\ UNCHANGED <<seen, archived, caps, isRead, filed, pass, excused>>
  BY DEF Expunge, rowVars
<1>2. PICK m \in Mail : /\ click[k].todo = {m} /\ click[k].done = {} /\ click[k].op = "archive"
                        /\ The(k) = m /\ filed[m] = "inbox" /\ conn = k /\ conn # "free" /\ conn # "sync"
                        /\ \A j \in Clicks : j # k => click[j].pc \notin Moving
  BY <1>1, Mover DEF Moving
<1>3. /\ Others(k) /\ click' \in [Clicks -> ClickRec]
      /\ \/ /\ inInbox' = inInbox \ Expunged(k) /\ doomed' = doomed \ Expunged(k)
            /\ gone' = gone \union {x \in Expunged(k) \ {m} : archived[x] = 0}
         \/ UNCHANGED <<inInbox, doomed, gone>> /\ ~MoveGoes(k, m, "relocate")
      /\ \/ MoveGoes(k, m, "relocate") /\ conn' = conn
         \/ Ends(k) /\ conn' = "free"
  <2>1. CASE caps = "plain" /\ ~click[k].safe
    <3>1. click' = [click EXCEPT ![k] = Over] /\ conn' = "free" /\ UNCHANGED <<inInbox, doomed, gone>>
      BY <2>1 DEF Expunge, Conflict, GiveUp
    <3>2. Ends(k) /\ Others(k) /\ click' \in [Clicks -> ClickRec]
      BY <1>0, <3>1, Ending
    <3>3. ~MoveGoes(k, m, "relocate")
      BY <3>2 DEF MoveGoes, Fields, Ends
    <3> QED
      BY <3>1, <3>2, <3>3
  <2>2. CASE ~(caps = "plain" /\ ~click[k].safe)
    <3>1. PICK r \in Outcomes :
            /\ IF r.taken
                 THEN /\ inInbox' = inInbox \ Expunged(k) /\ doomed' = doomed \ Expunged(k)
                      /\ gone' = gone \union {x \in Expunged(k) \ {m} : archived[x] = 0}
                 ELSE UNCHANGED <<inInbox, doomed, gone>>
            /\ IF r.told THEN To(k, "relocate") /\ UNCHANGED conn ELSE GiveUp(k)
      BY <1>2, <2>2 DEF Expunge
    <3>2. CASE r.told = TRUE
      <4>1. To(k, "relocate") /\ conn' = conn /\ r.taken = TRUE
        BY <3>1, <3>2, OutcomesAre
      <4>2. "relocate" \in Moving \union {"write"}
        BY DEF Moving
      <4>3. MoveGoes(k, m, "relocate") /\ Others(k) /\ click' \in [Clicks -> ClickRec]
        BY <1>0, <1>2, <4>1, <4>2, Going
      <4> QED
        BY <3>1, <4>1, <4>3
    <3>3. CASE r.told = FALSE
      <4>1. click' = [click EXCEPT ![k] = Over] /\ conn' = "free"
        BY <3>1, <3>3 DEF GiveUp
      <4>2. Ends(k) /\ Others(k) /\ click' \in [Clicks -> ClickRec]
        BY <1>0, <4>1, Ending
      <4>3. ~MoveGoes(k, m, "relocate")
        BY <4>2 DEF MoveGoes, Fields, Ends
      <4>4. r.taken = TRUE \/ r.taken = FALSE
        BY OutcomesAre
      <4> QED
        BY <3>1, <4>1, <4>2, <4>3, <4>4
    <3> QED
      BY <3>2, <3>3, OutcomesAre
  <2> QED
    BY <2>1, <2>2
<1>4. Expunged(k) \subseteq doomed /\ (m \in doomed => m \in Expunged(k))
  BY <1>2 DEF Expunged
<1>5. (m \in inInbox => m \in doomed /\ archived[m] > 0) /\ doomed \subseteq inInbox
  BY <1>0, <1>1, <1>2 DEF MoveInv, BoxInv
<1>6. MailTypes'
  BY <1>0, <1>1, <1>2, <1>3 DEF MailTypes
<1>7. LockInv'
  BY <1>0, <1>1, <1>2, <1>3, <1>4, <1>5 DEF LockInv, Moving, Others, Fields, Ends, MoveGoes
<1>8. ClickInv'
  BY <1>0, <1>1, <1>2, <1>3, <1>4, <1>5 DEF ClickInv, Moving, Others, Fields, Ends, MoveGoes
<1>9. BoxInv'
  <2>1. doomed' \subseteq inInbox' /\ inInbox' \subseteq inInbox /\ gone' \intersect inInbox' = {}
    BY <1>0, <1>3, <1>4 DEF BoxInv
  <2>2. ASSUME NEW x \in Mail PROVE x \in inInbox' \/ x \in gone' \/ archived'[x] > 0
    <3>1. x \in inInbox \/ x \in gone \/ archived[x] > 0
      BY <1>0 DEF BoxInv
    <3>2. archived[x] = 0 \/ archived[x] > 0
      BY <1>0 DEF MailTypes
    <3>3. x \in inInbox \ inInbox' => x \in Expunged(k) /\ (x = m => archived[x] > 0)
      BY <1>3, <1>5
    <3> QED
      BY <1>1, <1>3, <3>1, <3>2, <3>3
  <2> QED
    BY <1>0, <1>1, <2>1, <2>2 DEF BoxInv
<1>10. MoveInv'
  <2> SUFFICES ASSUME NEW j \in Clicks, NEW x \in click'[j].todo
               PROVE  /\ click'[j].pc \in {"flag", "expunge"} => x \notin inInbox' \/ archived'[x] > 0
                      /\ click'[j].pc = "expunge" => x \in doomed' \/ x \notin inInbox'
                      /\ click'[j].pc = "relocate" => x \notin inInbox'
                      /\ click'[j].pc \in {"copy", "flag", "expunge"} /\ click'[j].safe =>
                           doomed' \subseteq {x} \union click'[j].late
    BY DEF MoveInv
  <2>1. CASE j # k
    BY <1>2, <1>3, <2>1 DEF Others, Moving
  <2>2. CASE j = k /\ click'[k].pc = "over"
    BY <2>2
  <2>3. CASE j = k /\ click'[k].pc # "over"
    <3>1. x = m /\ m \in click[k].todo
      BY <1>2, <1>3, <2>3 DEF MoveGoes, Fields, Ends
    <3> QED
      BY <1>3, <1>4, <1>5, <2>3, <3>1 DEF MoveInv, MoveGoes, Fields, Ends
  <2> QED
    BY <2>1, <2>2, <2>3
<1>11. OverlapInv' /\ ReadInv' /\ AcceptedInv' /\ PassInv'
  BY <1>1, <1>2, <1>3, <1>4, <1>5, MoveFrame DEF MoveGoes, Moving
<1> QED
  BY <1>6, <1>7, <1>8, <1>9, <1>10, <1>11 DEF MailInv

LEMMA RelocateKept ==
  ASSUME MailInv, NEW k \in Clicks, Relocate(k)
  PROVE  MailInv'
<1>0. MailTypes /\ LockInv /\ ClickInv /\ BoxInv /\ MoveInv
  BY DEF MailInv
<1>1. /\ click[k].pc = "relocate" /\ conn' = "free"
      /\ UNCHANGED <<seen, inInbox, doomed, archived, gone, caps, isRead, pass, excused>>
  BY DEF Relocate, remoteVars
<1>2. PICK m \in Mail : /\ click[k].todo = {m} /\ click[k].done = {} /\ click[k].op = "archive"
                        /\ The(k) = m /\ filed[m] = "inbox" /\ conn = k /\ conn # "free" /\ conn # "sync"
                        /\ \A j \in Clicks : j # k => click[j].pc \notin Moving
  BY <1>1, Mover DEF Moving
<1>3. /\ Others(k) /\ click' \in [Clicks -> ClickRec]
      /\ MoveGoes(k, m, "write") \/ Ends(k)
      /\ \/ filed' = filed
         \/ \E f \in {"nowhere", "archive"} : filed' = [filed EXCEPT ![m] = f]
  <2>1. CASE /\ filed' = [filed EXCEPT ![m] = IF caps = "plain" THEN "nowhere" ELSE "archive"]
             /\ To(k, "write")
    <3>1. MoveGoes(k, m, "write") /\ Others(k) /\ click' \in [Clicks -> ClickRec]
      BY <1>0, <1>2, <2>1, Going
    <3> QED
      BY <2>1, <3>1
  <2>2. CASE click' = [click EXCEPT ![k] = Over] /\ filed' = filed
    BY <1>0, <2>2, Ending
  <2> QED
    BY <1>2, <2>1, <2>2 DEF Relocate
<1>4. /\ filed' \in [Mail -> {"inbox", "archive", "nowhere"}]
      /\ \A x \in Mail : x # m => filed'[x] = filed[x]
      /\ m \notin inInbox
  BY <1>0, <1>1, <1>2, <1>3 DEF MailTypes, MoveInv
<1>5. MailTypes'
  BY <1>0, <1>1, <1>3, <1>4 DEF MailTypes
<1>6. LockInv'
  BY <1>0, <1>1, <1>2, <1>3, <1>4 DEF LockInv, Moving, Others, Fields, Ends, MoveGoes
<1>7. ClickInv'
  BY <1>0, <1>1, <1>2, <1>3, <1>4 DEF ClickInv, Moving, Others, Fields, Ends, MoveGoes
<1>8. BoxInv'
  <2>1. \A x \in Mail : filed'[x] # "inbox" => x \notin inInbox
    BY <1>0, <1>4 DEF BoxInv
  <2> QED
    BY <1>0, <1>1, <2>1 DEF BoxInv
<1>9. MoveInv'
  BY <1>0, <1>1, <1>2, <1>3 DEF MoveInv, Others, Fields, Ends, MoveGoes, Moving
<1>10. OverlapInv' /\ ReadInv' /\ AcceptedInv' /\ PassInv'
  BY <1>1, <1>2, <1>3, <1>4, MoveFrame DEF MoveGoes, Moving
<1> QED
  BY <1>5, <1>6, <1>7, <1>8, <1>9, <1>10 DEF MailInv

LEMMA FetchKept ==
  ASSUME MailInv, Fetch
  PROVE  MailInv'
<1>0. /\ MailTypes /\ LockInv /\ ClickInv /\ BoxInv /\ MoveInv
      /\ OverlapInv /\ ReadInv /\ AcceptedInv /\ PassInv
  BY DEF MailInv
<1>1. /\ pass.pc = "idle" /\ conn = "free" /\ conn' = "sync" /\ "sync" \notin Clicks /\ "free" \notin Clicks
      /\ UNCHANGED <<seen, inInbox, doomed, archived, gone, caps, isRead, filed, click, excused>>
  BY MailAssumption DEF Fetch, remoteVars, rowVars
<1>2. pass' \in PassRec /\ pass'.pc = "fetched" /\ pass'.seen = seen /\ pass'.inbox = inInbox
  <2>1. pass' = [pc |-> "fetched", seen |-> seen, inbox |-> inInbox, archive |-> {m \in Mail : archived[m] > 0}]
    BY DEF Fetch
  <2> QED
    BY <1>0, <2>1 DEF MailTypes, PassRec
<1>3. MailTypes'
  BY <1>0, <1>1, <1>2 DEF MailTypes
<1>4. LockInv'
  BY <1>0, <1>1, <1>2 DEF LockInv, Moving
<1>5. ClickInv'
  BY <1>0, <1>1, <1>2 DEF ClickInv, Moving
<1>6. BoxInv'
  BY <1>0, <1>1 DEF BoxInv
<1>7. MoveInv'
  BY <1>0, <1>1, <1>2 DEF MoveInv
<1>8. OverlapInv'
  BY <1>0, <1>1, <1>2 DEF OverlapInv, Has
<1>9. ReadInv'
  BY <1>0, <1>1, <1>2 DEF ReadInv, Undoing, Told
<1>10. AcceptedInv'
  BY <1>0, <1>1, <1>2 DEF AcceptedInv, Told
<1>11. PassInv'
  BY <1>0, <1>1, <1>2 DEF PassInv
<1> QED
  BY <1>3, <1>4, <1>5, <1>6, <1>7, <1>8, <1>9, <1>10, <1>11 DEF MailInv

LEMMA ReconcileKept ==
  ASSUME MailInv, Reconcile
  PROVE  MailInv'
<1>0. /\ MailTypes /\ LockInv /\ ClickInv /\ BoxInv /\ MoveInv
      /\ OverlapInv /\ ReadInv /\ AcceptedInv /\ PassInv
  BY DEF MailInv
<1>1. /\ pass.pc = "fetched" /\ pass' = NoPass /\ conn' = "free" /\ conn = "sync"
      /\ \A k \in Clicks : click[k].pc \notin Moving /\ k # "free"
      /\ UNCHANGED <<seen, inInbox, doomed, archived, gone, caps, click>>
  BY <1>0, MailAssumption DEF Reconcile, remoteVars, LockInv
<1>2. /\ isRead' = {m \in Mail : IF m \in pass.inbox \union pass.archive THEN m \in pass.seen ELSE m \in isRead}
      /\ excused' = {m \in excused : Underway(m) \/ (m \in seen) # (m \in pass.seen)}
  BY DEF Reconcile, ReconcileFlags
<1>3. /\ filed' \in [Mail -> {"inbox", "archive", "nowhere"}]
      /\ \A m \in Mail : filed'[m] # "inbox" => m \notin pass.inbox
  <2>1. filed' = [m \in Mail |-> CASE m \in pass.inbox -> "inbox"
                                   [] m \in pass.archive \ pass.inbox -> "archive"
                                   [] OTHER -> "nowhere"]
    BY DEF Reconcile
  <2>2. ASSUME NEW m \in Mail
        PROVE  /\ filed'[m] \in {"inbox", "archive", "nowhere"}
               /\ filed'[m] # "inbox" => m \notin pass.inbox
    <3>1. CASE m \in pass.inbox
      BY <2>1, <3>1
    <3>2. CASE m \notin pass.inbox
      BY <2>1, <3>2
    <3> QED
      BY <3>1, <3>2
  <2>3. filed' \in [Mail -> {"inbox", "archive", "nowhere"}]
    <3> DEFINE f(m) == CASE m \in pass.inbox -> "inbox" [] m \in pass.archive \ pass.inbox -> "archive" [] OTHER -> "nowhere"
    <3>1. filed' = [m \in Mail |-> f(m)] /\ \A m \in Mail : f(m) \in {"inbox", "archive", "nowhere"}
      BY <2>1
    <3> HIDE DEF f
    <3> QED
      BY <3>1
  <2> QED
    BY <2>2, <2>3
<1>4. NoPass \in PassRec /\ NoPass.pc = "idle"
  BY DEF NoPass, PassRec
<1>5. \A k \in Clicks : \A m \in Has(k) : Underway(m)
  BY DEF Has, Underway
<1>6. MailTypes'
  BY <1>0, <1>1, <1>2, <1>3, <1>4 DEF MailTypes
<1>7. LockInv'
  BY <1>0, <1>1, <1>2, <1>3, <1>4, <1>5 DEF LockInv, Moving
<1>8. ClickInv'
  BY <1>0, <1>1, <1>2, <1>3, <1>4, <1>5 DEF ClickInv, Moving
<1>9. BoxInv'
  <2>1. \A m \in Mail : filed'[m] # "inbox" => m \notin inInbox
    BY <1>0, <1>1, <1>3 DEF PassInv
  <2> QED
    BY <1>0, <1>1, <2>1 DEF BoxInv
<1>10. MoveInv'
  BY <1>0, <1>1, <1>2, <1>3, <1>4, <1>5 DEF MoveInv
<1>11. OverlapInv'
  <2> SUFFICES ASSUME NEW i \in Clicks, NEW j \in Clicks, i # j, NEW x \in Has(i) \intersect Has(j)
               PROVE  x \in excused'
    BY <1>1 DEF OverlapInv, Has
  <2> QED
    BY <1>0, <1>2, <1>5 DEF OverlapInv
<1>12. ReadInv'
  <2> SUFFICES ASSUME NEW x \in isRead' \ excused', x \in inInbox PROVE x \in seen
    BY <1>1 DEF ReadInv, Told
  <2>1. x \in pass.seen
    BY <1>0, <1>1, <1>2 DEF PassInv
  <2>2. CASE x \in excused
    BY <1>2, <2>1, <2>2
  <2>3. CASE x \notin excused
    BY <1>0, <1>1, <2>1, <2>3 DEF PassInv
  <2> QED
    BY <2>2, <2>3
<1>13. AcceptedInv'
  <2> SUFFICES ASSUME NEW j \in Clicks, click[j].pc \in {"locate", "write"}, click[j].op \in {"read", "bulk"},
                      NEW x \in click[j].done \ excused'
               PROVE  Told(x)
    BY <1>1 DEF AcceptedInv, Told
  <2>1. x \in Has(j)
    BY DEF Has
  <2>2. x \notin excused
    BY <1>2, <1>5, <2>1
  <2> QED
    BY <1>0, <2>2 DEF AcceptedInv
<1>14. PassInv'
  BY <1>1, <1>4 DEF PassInv
<1> QED
  BY <1>6, <1>7, <1>8, <1>9, <1>10, <1>11, <1>12, <1>13, <1>14 DEF MailInv

LEMMA OtherClientKept ==
  ASSUME MailInv, OtherClient
  PROVE  MailInv'
<1>0. /\ MailTypes /\ LockInv /\ ClickInv /\ BoxInv /\ MoveInv
      /\ OverlapInv /\ ReadInv /\ AcceptedInv /\ PassInv
  BY DEF MailInv
<1>1. PICK m \in inInbox :
       \/ seen' = seen \ {m} /\ excused' = excused \union {m} /\ UNCHANGED <<inInbox, doomed, gone, click>>
       \/ seen' = seen \union {m} /\ UNCHANGED <<excused, inInbox, doomed, gone, click>>
       \/ /\ doomed' = doomed \union {m}
          /\ click' = [k \in Clicks |-> IF click[k].pc \in {"copy", "flag", "expunge"}
                                        THEN [click[k] EXCEPT !.late = @ \union {m}] ELSE click[k]]
          /\ UNCHANGED <<seen, excused, inInbox, gone>>
       \/ /\ inInbox' = inInbox \ {m} /\ doomed' = doomed \ {m}
          /\ gone' = IF archived[m] = 0 THEN gone \union {m} ELSE gone
          /\ UNCHANGED <<seen, excused, click>>
  BY DEF OtherClient
<1>2. m \in Mail /\ UNCHANGED <<archived, caps, isRead, filed, conn, pass>>
  BY <1>0 DEF OtherClient, rowVars, MailTypes
<1>3. /\ inInbox' \subseteq inInbox /\ excused \subseteq excused'
      /\ seen' \subseteq Mail /\ \A x \in seen : x \in seen' \/ x \in excused'
      /\ inInbox \subseteq inInbox' \union {m} /\ doomed' \subseteq inInbox'
      /\ \A x \in doomed : x \in doomed' \/ x \notin inInbox'
  BY <1>0, <1>1, <1>2 DEF MailTypes, BoxInv
<1>4. /\ click' \in [Clicks -> ClickRec]
      /\ \A j \in Clicks :
           /\ click'[j].pc = click[j].pc /\ click'[j].op = click[j].op /\ click'[j].safe = click[j].safe
           /\ click'[j].todo = click[j].todo /\ click'[j].done = click[j].done
           /\ click[j].pc \in {"copy", "flag", "expunge"} =>
                doomed' \subseteq doomed \union click'[j].late /\ click[j].late \subseteq click'[j].late
  <2>1. CASE click' = click /\ doomed' \subseteq doomed
    BY <1>0, <2>1 DEF MailTypes
  <2>2. CASE /\ doomed' = doomed \union {m}
             /\ click' = [k \in Clicks |-> IF click[k].pc \in {"copy", "flag", "expunge"}
                                           THEN [click[k] EXCEPT !.late = @ \union {m}] ELSE click[k]]
    <3> SUFFICES ASSUME NEW j \in Clicks
                 PROVE  /\ click'[j] \in ClickRec
                        /\ click'[j].pc = click[j].pc /\ click'[j].op = click[j].op
                        /\ click'[j].safe = click[j].safe
                        /\ click'[j].todo = click[j].todo /\ click'[j].done = click[j].done
                        /\ click[j].pc \in {"copy", "flag", "expunge"} =>
                             doomed' \subseteq doomed \union click'[j].late /\ click[j].late \subseteq click'[j].late
      BY <2>2
    <3> DEFINE c == [click[j] EXCEPT !.late = @ \union {m}]
    <3>1. click[j] \in ClickRec
      BY <1>0 DEF MailTypes
    <3>2. /\ c.late = click[j].late \union {m} /\ c.pc = click[j].pc /\ c.op = click[j].op
          /\ c.safe = click[j].safe /\ c.todo = click[j].todo /\ c.done = click[j].done
      BY <3>1 DEF ClickRec
    <3>3. c \in ClickRec
      BY <1>2, <3>1 DEF ClickRec
    <3>4. click'[j] = IF click[j].pc \in {"copy", "flag", "expunge"} THEN c ELSE click[j]
      BY <2>2
    <3> HIDE DEF c
    <3>5. CASE click[j].pc \in {"copy", "flag", "expunge"}
      BY <2>2, <3>2, <3>3, <3>4, <3>5
    <3>6. CASE click[j].pc \notin {"copy", "flag", "expunge"}
      BY <3>1, <3>4, <3>6
    <3> QED
      BY <3>5, <3>6
  <2> QED
    BY <1>1, <2>1, <2>2
<1>5. MailTypes'
  BY <1>0, <1>2, <1>3, <1>4 DEF MailTypes
<1>6. LockInv'
  BY <1>0, <1>1, <1>2, <1>3, <1>4 DEF LockInv, Moving
<1>7. ClickInv'
  BY <1>0, <1>1, <1>2, <1>3, <1>4 DEF ClickInv, Moving
<1>8. BoxInv'
  <2>1. gone' \intersect inInbox' = {}
    BY <1>0, <1>1 DEF BoxInv
  <2>2. ASSUME NEW x \in Mail PROVE x \in inInbox' \/ x \in gone' \/ archived'[x] > 0
    <3>1. x \in inInbox \/ x \in gone \/ archived[x] > 0
      BY <1>0 DEF BoxInv
    <3>2. archived[x] = 0 \/ archived[x] > 0
      BY <1>0 DEF MailTypes
    <3>3. CASE x \in inInbox \ inInbox'
      BY <1>1, <1>2, <3>2, <3>3
    <3>4. CASE x \notin inInbox \ inInbox'
      BY <1>1, <1>2, <3>1, <3>4
    <3> QED
      BY <3>3, <3>4
  <2>3. \A x \in Mail : filed'[x] # "inbox" => x \notin inInbox'
    BY <1>0, <1>2, <1>3 DEF BoxInv
  <2> QED
    BY <1>3, <2>1, <2>2, <2>3 DEF BoxInv
<1>9. MoveInv'
  <2> SUFFICES ASSUME NEW j \in Clicks, NEW x \in click[j].todo
               PROVE  /\ click[j].pc \in {"flag", "expunge"} => x \notin inInbox' \/ archived[x] > 0
                      /\ click[j].pc = "expunge" => x \in doomed' \/ x \notin inInbox'
                      /\ click[j].pc = "relocate" => x \notin inInbox'
                      /\ click[j].pc \in {"copy", "flag", "expunge"} /\ click[j].safe =>
                           doomed' \subseteq {x} \union click'[j].late
    BY <1>2, <1>4 DEF MoveInv
  <2>1. click[j].pc \in {"copy", "flag", "expunge"} /\ click[j].safe => doomed \subseteq {x} \union click[j].late
    BY <1>0 DEF MoveInv
  <2>2. /\ click[j].pc \in {"flag", "expunge"} => x \notin inInbox \/ archived[x] > 0
        /\ click[j].pc = "expunge" => x \in doomed \/ x \notin inInbox
        /\ click[j].pc = "relocate" => x \notin inInbox
    BY <1>0 DEF MoveInv
  <2>3. click[j].pc \in {"copy", "flag", "expunge"} =>
          doomed' \subseteq doomed \union click'[j].late /\ click[j].late \subseteq click'[j].late
    BY <1>4
  <2> QED
    BY <1>3, <2>1, <2>2, <2>3
<1>10. OverlapInv'
  BY <1>0, <1>1, <1>2, <1>3, <1>4 DEF OverlapInv, Has
<1>11. ReadInv'
  <2> SUFFICES ASSUME NEW x \in isRead \ excused', ~Undoing(x)' PROVE Told(x)'
    BY <1>2 DEF ReadInv
  <2>1. ~Undoing(x)
    BY <1>4 DEF Undoing
  <2> QED
    BY <1>0, <1>3, <2>1 DEF ReadInv, Told
<1>12. AcceptedInv'
  BY <1>0, <1>1, <1>2, <1>3, <1>4 DEF AcceptedInv, Told
<1>13. PassInv'
  BY <1>0, <1>1, <1>2, <1>3, <1>4 DEF PassInv
<1> QED
  BY <1>5, <1>6, <1>7, <1>8, <1>9, <1>10, <1>11, <1>12, <1>13 DEF MailInv

LEMMA MailKept == MailInv /\ [MailNext]_mailVars => MailInv'
<1> SUFFICES ASSUME MailInv, [MailNext]_mailVars PROVE MailInv'
  OBVIOUS
<1>1. ASSUME NEW k \in Clicks, Start(k) PROVE MailInv'
  BY <1>1, StartKept
<1>2. ASSUME NEW k \in Clicks, Step(k) PROVE MailInv'
  <2>1. CASE SetFlags(k) \/ SetSeen(k) \/ GoesOffline(k) \/ Accepted(k) \/ WriteRow(k)
    BY <2>1, SetFlagsKept, SetSeenKept, GoesOfflineKept, AcceptedKept, WriteRowKept
  <2>2. CASE Locate(k) \/ Move(k) \/ Search(k) \/ Copy(k) \/ FlagDeleted(k) \/ Expunge(k) \/ Relocate(k)
    BY <2>2, LocateKept, MoveKept, SearchKept, CopyKept, FlagDeletedKept, ExpungeKept, RelocateKept
  <2> QED
    BY <1>2, <2>1, <2>2 DEF Step
<1>3. CASE Fetch \/ Reconcile \/ OtherClient
  BY <1>3, FetchKept, ReconcileKept, OtherClientKept
<1>4. CASE UNCHANGED mailVars
  <2> USE <1>4 DEF mailVars, remoteVars, rowVars
  <2>1. MailTypes' /\ LockInv' /\ ClickInv' /\ BoxInv' /\ MoveInv'
    BY DEF MailInv, MailTypes, LockInv, ClickInv, BoxInv, MoveInv
  <2>2. OverlapInv' /\ ReadInv' /\ AcceptedInv' /\ PassInv'
    BY DEF MailInv, OverlapInv, ReadInv, AcceptedInv, PassInv, Has, Undoing, Told
  <2> QED
    BY <2>1, <2>2 DEF MailInv
<1> QED
  BY <1>1, <1>2, <1>3, <1>4 DEF MailNext, Sync

ForeignCount == foreign \in Nat

LEMMA ForeignCounts == MailSpec => []ForeignCount
<1>1. MailInit => ForeignCount
  BY DEF MailInit, ForeignCount
<1>2. ForeignCount /\ [MailNext]_mailVars => ForeignCount'
  <2>1. OtherClient /\ foreign \in Nat => foreign' \in Nat
    BY DEF OtherClient
  <2> QED
    BY <2>1 DEF ForeignCount, MailNext, Sync, Step, Start, SetFlags, SetSeen, GoesOffline, Accepted, WriteRow,
         Locate, Move, Search, Copy, FlagDeleted, Expunge, Relocate, Fetch, Reconcile, mailVars
<1> QED
  BY <1>1, <1>2, PTL DEF MailSpec

LEMMA MailAlways == MailSpec => []MailInv
BY MailInitial, MailKept, PTL DEF MailSpec

\* The types, and the command connection's lock: a request that moves a message holds
\* it for as long as the move lasts, and the synchronisation from FETCH to its rows.
THEOREM MailTypeCorrect == MailSpec => []MailTypeOK
<1>1. MailInv => MailTypeOK
  BY DEF MailInv, MailTypes, LockInv, BoxInv, Moving, MailTypeOK
<1> QED
  BY <1>1, MailAlways, PTL

\* Archiving loses nothing and leaves nothing behind, whatever commands are refused or
\* lose their answers, and whatever another client does meanwhile.
THEOREM ArchiveWhole == MailSpec => []ArchiveIsWhole
<1>1. MailInv => ArchiveIsWhole
  BY DEF MailInv, BoxInv, ArchiveIsWhole, NeverLost, FiledMeansMoved
<1> QED
  BY <1>1, MailAlways, PTL

\* A row reads as read only when the provider was told.
THEOREM ReadTold == MailSpec => []ReadHereReadThere
<1>1. ASSUME MailInv PROVE ReadHereReadThere
  <2> SUFFICES ASSUME NEW m \in isRead \ excused, ~Underway(m) PROVE m \in seen \/ m \notin inInbox
    BY DEF ReadHereReadThere
  <2>1. ~Undoing(m)
    BY DEF Undoing, Underway
  <2> QED
    BY <1>1, <2>1 DEF MailInv, ReadInv, Told
<1> QED
  BY <1>1, MailAlways, PTL

\* The fallback of a move expunges the message it moves, and of another client's
\* pending deletions only those made after it had searched for them.
THEOREM PendingKept == MailSpec => PendingDeletesKept
<1>1. ASSUME MailInv, ForeignCount, [MailNext]_mailVars, NEW k \in Clicks, click[k].pc = "expunge", conn = k,
             inInbox' # inInbox, foreign' = foreign
      PROVE  inInbox \ inInbox' \subseteq {The(k)} \union click[k].late
  <2>0. LockInv /\ ClickInv /\ MoveInv
    BY <1>1 DEF MailInv
  <2>1. PICK m \in Mail : click[k].todo = {m} /\ The(k) = m
    BY <1>1, Mover DEF Moving
  <2>2. \A j \in Clicks : j # k => click[j].pc \notin Moving
    BY <1>1, <2>0 DEF LockInv
  <2>3. ~OtherClient
    <3>1. OtherClient => foreign < MaxForeign /\ foreign' = foreign + 1
      BY DEF OtherClient
    <3> QED
      BY <1>1, <3>1 DEF ForeignCount
  <2>4. PICK j \in Clicks : Move(j) \/ Expunge(j)
    BY <1>1, <2>3 DEF MailNext, Sync, Step, Start, SetFlags, SetSeen, GoesOffline, Accepted, WriteRow, Locate,
         Search, Copy, FlagDeleted, Relocate, Fetch, Reconcile, mailVars, remoteVars, rowVars
  <2>5. Expunge(k)
    BY <1>1, <2>2, <2>4 DEF Move, Expunge, Moving
  <2>6. ~(caps = "plain" /\ ~click[k].safe) /\ inInbox \ inInbox' \subseteq Expunged(k)
    BY <1>1, <2>5 DEF Expunge
  <2>7. CASE caps = "uidplus"
    BY <2>6, <2>7 DEF Expunged
  <2>8. CASE caps # "uidplus"
    <3>1. click[k].safe
      BY <1>1, <2>0, <2>6, <2>8 DEF ClickInv, MailInv, MailTypes
    <3>2. doomed \subseteq {m} \union click[k].late
      BY <1>1, <2>0, <2>1, <3>1 DEF MoveInv
    <3> QED
      BY <2>1, <2>6, <2>8, <3>2 DEF Expunged
  <2> QED
    BY <2>7, <2>8
<1>2. MailInv /\ ForeignCount /\ [MailNext]_mailVars =>
        [\A k \in Clicks : click[k].pc = "expunge" /\ conn = k /\ inInbox' # inInbox /\ foreign' = foreign
           => inInbox \ inInbox' \subseteq {The(k)} \union click[k].late]_mailVars
  BY <1>1
<1> QED
  BY <1>2, MailAlways, ForeignCounts, PTL DEF MailSpec, PendingDeletesKept

-----------------------------------------------------------------------------
(* The two side by side, as the run checks them: whatever is proved of the *)
(* one or of the other holds of every behaviour of the run.                *)

LEMMA SideBySide == FairSpec => MailSpec /\ CacheSpec
<1>1. Init => MailInit /\ CacheInit
  BY DEF Init
<1>2. [Next]_vars => [MailNext]_mailVars /\ [CacheNext]_cacheVars
  BY DEF Next, vars
<1> QED
  BY <1>1, <1>2, PTL DEF FairSpec, MailSpec, CacheSpec

\* The type invariants of both hold in the composition.
THEOREM TypesCorrect == FairSpec => []TypesOK
<1>1. MailTypeOK /\ CacheTypeOK => TypesOK
  BY DEF TypesOK
<1> QED
  BY <1>1, SideBySide, MailTypeCorrect, CacheTypeCorrect, PTL

\* So do the properties of its run: those of the badge and those of the messages.
THEOREM MessagesKeep ==
  FairSpec => []BadgeCurrent /\ []ArchiveIsWhole /\ []ReadHereReadThere /\ PendingDeletesKept
BY SideBySide, BadgeIsCurrent, ArchiveWhole, ReadTold, PendingKept, PTL

=============================================================================
