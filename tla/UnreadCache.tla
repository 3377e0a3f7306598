---------------------------- MODULE UnreadCache ----------------------------
(***************************************************************************)
(* The memoised unread totals of the message feed: cachedUnreadTotal and   *)
(* invalidateUnreadCache (internal/repository/sqlite/store.go), and when   *)
(* the writes of that package call the second.                             *)
(*                                                                         *)
(* Writes are serialised by writeMu; a reader counts outside every mutex,  *)
(* between its lookup and its store.                                       *)
(***************************************************************************)
EXTENDS Naturals, FiniteSets

CONSTANTS
  Letters,       \* messages
  Readers,       \* concurrent ListMessages calls
  CacheEntries,  \* unreadCacheEntries
  MaxWrites      \* bound: writes

ASSUME CacheAssumption ==
  IsFiniteSet(Letters) /\ CacheEntries \in Nat \ {0} /\ MaxWrites \in Nat

VARIABLES
  place,       \* where each message is and whether it is unread
  memo,        \* unreadCache: per view a total, none, or one that has expired
  generation,  \* unreadGen
  counting,    \* per reader: step, view, generation noted, total counted
  writing,     \* the holder of writeMu: step and kind
  relocated,   \* an archived message whose own write is still to come
  writes       \* bound counter

cacheVars == <<place, memo, generation, counting, writing, relocated, writes>>

Places  == {"inbox", "archive", "read", "absent"}
\* Two filters: the whole account and its inbox.
Views   == {"account", "inbox"}
NoTotal == [n |-> 0, is |-> "none"]
NoCall  == [pc |-> "idle", view |-> "inbox", gen |-> 0, n |-> 0]
NoWrite == [pc |-> "free", kind |-> "none"]

\* unreadTotal.
Total(view) == Cardinality({l \in Letters : place[l] \in IF view = "inbox" THEN {"inbox"} ELSE {"inbox", "archive"}})

-----------------------------------------------------------------------------
(* cachedUnreadTotal. *)

\* A live entry is the answer; otherwise the generation is noted.
Look(r, view) ==
  /\ counting[r].pc = "idle" /\ memo[view].is # "live"
  /\ counting' = [counting EXCEPT ![r] = [NoCall EXCEPT !.pc = "count", !.view = view, !.gen = generation]]
  /\ UNCHANGED <<place, memo, generation, writing, relocated, writes>>

CountUnread(r) ==
  /\ counting[r].pc = "count"
  /\ counting' = [counting EXCEPT ![r].pc = "store", ![r].n = Total(counting[r].view)]
  /\ UNCHANGED <<place, memo, generation, writing, relocated, writes>>

Entries(m) == {v \in Views : m[v].is # "none"}
\* dropExpiredUnreadLocked.
DropExpired(m) == [v \in Views |-> IF m[v].is = "expired" THEN NoTotal ELSE m[v]]
\* Mutant: only expired entries are dropped.
OnlyExpired == IF Cardinality(Entries(memo)) >= CacheEntries THEN DropExpired(memo) ELSE memo
\* A full table loses its expired entries, and then everything.
RoomFor ==
  IF Cardinality(Entries(memo)) < CacheEntries THEN memo
  ELSE IF Cardinality(Entries(DropExpired(memo))) < CacheEntries THEN DropExpired(memo)
  ELSE [v \in Views |-> NoTotal]

\* Mutant: the total is stored whatever was written in between.
StoreAnyway(r) ==
  /\ counting[r].pc = "store"
  /\ memo' = [RoomFor EXCEPT ![counting[r].view] = [n |-> counting[r].n, is |-> "live"]]
  /\ counting' = [counting EXCEPT ![r] = NoCall]
  /\ UNCHANGED <<place, generation, writing, relocated, writes>>
\* A generation that has moved on means the total may be from before a write.
StoreTotal(r) ==
  /\ counting[r].pc = "store"
  /\ memo' = IF counting[r].gen # generation THEN memo
             ELSE [RoomFor EXCEPT ![counting[r].view] = [n |-> counting[r].n, is |-> "live"]]
  /\ counting' = [counting EXCEPT ![r] = NoCall]
  /\ UNCHANGED <<place, generation, writing, relocated, writes>>

\* unreadCacheTTL passes.
ExpireTotal(v) ==
  /\ memo[v].is = "live" /\ memo' = [memo EXCEPT ![v].is = "expired"]
  /\ UNCHANGED <<place, generation, counting, writing, relocated, writes>>

-----------------------------------------------------------------------------
(* The writes. *)

Clear == memo' = [v \in Views |-> NoTotal] /\ generation' = generation + 1

\* UpdateMessage, UpdateMessages and ReconcileMailboxFlags invalidate before and after;
\* ingest, the removal of expunged mail and the sent copy only after; the relocation of an
\* archived message not at all: the UpdateMessage of the same Patch follows.
BeginFlags ==
  /\ writing = NoWrite /\ writes < MaxWrites /\ writes' = writes + 1
  /\ writing' = [pc |-> "open", kind |-> "flags"] /\ Clear
  /\ UNCHANGED <<place, counting, relocated>>

BeginSet ==
  /\ writing = NoWrite /\ writes < MaxWrites /\ writes' = writes + 1
  /\ writing' = [pc |-> "open", kind |-> "set"]
  /\ UNCHANGED <<place, memo, generation, counting, relocated>>

Relocation ==
  /\ writing = NoWrite /\ writes < MaxWrites /\ writes' = writes + 1
  /\ \E l \in Letters : /\ place[l] \in {"inbox", "read"} /\ ~relocated
                        /\ place' = [place EXCEPT ![l] = IF @ = "inbox" THEN "archive" ELSE @]
  /\ relocated' = TRUE
  /\ UNCHANGED <<memo, generation, counting, writing>>

\* The update that ends an archive: is_read is left alone.
FollowUp ==
  /\ relocated /\ writing = NoWrite
  /\ writing' = [pc |-> "done", kind |-> "archive"] /\ Clear
  /\ UNCHANGED <<place, counting, relocated, writes>>

\* The transaction commits, or fails and leaves the table as the first invalidation did.
Commit ==
  /\ writing.pc = "open"
  /\ \/ /\ \E l \in Letters :
             \/ /\ writing.kind = "flags"
                /\ place' = [place EXCEPT ![l] = CASE @ \in {"inbox", "archive"} -> "read"
                                                   [] @ = "read" -> "inbox"
                                                   [] OTHER -> @]
             \/ /\ writing.kind = "set"
                /\ place' = [place EXCEPT ![l] = IF @ = "absent" THEN "inbox" ELSE "absent"]
        /\ writing' = [writing EXCEPT !.pc = "done"]
     \/ writing' = NoWrite /\ UNCHANGED place
  /\ UNCHANGED <<memo, generation, counting, relocated, writes>>

Return ==
  /\ writing.pc = "done" /\ writing' = NoWrite /\ Clear
  /\ relocated' = (relocated /\ writing.kind # "archive")
  /\ UNCHANGED <<place, counting, writes>>

CacheInit ==
  /\ place = [l \in Letters |-> "inbox"]
  /\ memo = [v \in Views |-> NoTotal] /\ generation = 0
  /\ counting = [r \in Readers |-> NoCall]
  /\ writing = NoWrite /\ relocated = FALSE /\ writes = 0

CacheNext ==
  \/ \E r \in Readers : (\E v \in Views : Look(r, v)) \/ CountUnread(r) \/ StoreTotal(r)
  \/ \E v \in Views : ExpireTotal(v)
  \/ BeginFlags \/ BeginSet \/ Commit \/ Return \/ Relocation \/ FollowUp

CacheSpec == CacheInit /\ [][CacheNext]_cacheVars

-----------------------------------------------------------------------------
(* Properties. *)

\* The types, and the bound on a table whose keys the client chooses.
CacheTypeOK ==
  /\ place \in [Letters -> Places]
  /\ \A v \in Views : memo[v].is \in {"none", "live", "expired"}
  /\ Cardinality(Entries(memo)) <= CacheEntries

\* The badge and the list agree: a total that is answered from the table is the one the
\* rows give, unless a write has committed and not yet returned, or a message is being
\* archived. In particular no reader puts back a total from before a write.
BadgeCurrent ==
  \A v \in Views : memo[v].is = "live" =>
    memo[v].n = Total(v) \/ writing.pc = "done" \/ relocated
=============================================================================
