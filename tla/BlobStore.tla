----------------------------- MODULE BlobStore -----------------------------
(***************************************************************************)
(* Content-addressed storage: Put, Evict and ReclaimOrphans                *)
(* (internal/storage/blob.go), the rows they keep in blob_objects and the  *)
(* three columns that refer to them (internal/repository/sqlite), the      *)
(* requests that store bytes (addDraftAttachment, FetchAttachment) and the *)
(* maintenance ticker (cmd/server/main.go).                                *)
(*                                                                         *)
(* A file and its row are two stores written one after the other, without  *)
(* a lock over both. Every statement is a step; every blob has size one.   *)
(***************************************************************************)
EXTENDS Naturals, Sequences, SequencesExt, FiniteSets

CONSTANTS
  Contents,     \* byte strings, named by their digest
  Composers,    \* drafts, each with at most one upload under way
  Parts,        \* attachments of incoming messages
  Holds,        \* the contents an author may upload, and what a part consists of
  MaxBytes,     \* the cache budget
  OrphanBatch,  \* orphanBatch
  MaxRows,      \* bound: rows ever created
  MaxBusy,      \* bound: workers busy when a request starts
  MaxCuts       \* bound: cancelled requests and process deaths

ASSUME BlobAssumption ==
  /\ IsFiniteSet(Contents) /\ "none" \notin Contents
  /\ Composers \intersect Parts = {} /\ "maintenance" \notin Composers \union Parts
  /\ Holds \in [Composers \union Parts -> SUBSET Contents]

VARIABLES
  files,     \* contents with a file at their storage key
  rows,      \* blob_objects by digest: tier, which row it is, past the grace period
  recency,   \* the cache tier by last_accessed_at, oldest first
  drafts,    \* drafts that exist
  attached,  \* draft_attachments: the row each draft refers to
  linked,    \* attachments.blob_id of each part
  work,      \* one record per request and one for the maintenance ticker
  torn,      \* observer: contents whose two stores were changed by overlapping or cut steps
  cuts       \* bound counter

blobVars == <<files, rows, recency, drafts, attached, linked, work, torn, cuts>>

maint    == "maintenance"
Jobs     == Composers \union Parts \union {maint}
NoRow    == [tier |-> "none", n |-> 0, old |-> FALSE]
NoBlob   == [c |-> "none", n |-> 0]
Idle     == [pc |-> "idle", blob |-> NoBlob, mine |-> FALSE, list |-> <<>>, total |-> 0]

\* blob_objects.id: rows are numbered per content, AUTOINCREMENT never reuses one.
Live(b) == /\ b.c \in Contents
           /\ rows[b.c].tier # "none"
           /\ rows[b.c].n = b.n
Blob(c) == [c |-> c, n |-> rows[c].n]
Cached  == {c \in Contents : rows[c].tier = "cache"}
Referenced(b) == \/ \E d \in Composers : attached[d] = b
                 \/ \E p \in Parts : linked[p] = b
\* Between its rename and its row.
Committing(c) == {w \in Jobs : work[w].pc = "renamed" /\ work[w].blob.c = c}
Untracked(c)  == RemoveFirst(recency, c)
Created       == FoldFunction(LAMBDA r, sum : r.n + sum, 0, rows)
Torn(c, when) == torn' = IF when THEN torn \union {c} ELSE torn

-----------------------------------------------------------------------------
(* Put. *)

\* The temporary file renamed over the target. An upload has just read its
\* draft; a fetch holds a part whose blob_id is null.
Rename(w, c) ==
  /\ work[w].pc = "idle"
  /\ Cardinality({v \in Jobs : work[v].pc # "idle"}) < MaxBusy
  /\ \/ w \in drafts
     \/ w \in Parts /\ linked[w] = NoBlob
  /\ work' = [work EXCEPT ![w] = [Idle EXCEPT !.pc = "renamed", !.blob = [NoBlob EXCEPT !.c = c]]]
  /\ files' = files \union {c}
  /\ UNCHANGED <<rows, recency, drafts, attached, linked, torn, cuts>>

Next1(w) == IF w \in Parts THEN "total" ELSE "refer"

\* CreateBlob: a new row, an upgrade in place, or the row that is there.
\* Mutant: an existing row is answered as it is.
IndexWithoutUpgrade(w) ==
  LET c == work[w].blob.c
      new == rows[c].tier = "none" IN
  /\ work[w].pc = "renamed"
  /\ new => Created < MaxRows
  /\ rows' = IF new THEN [rows EXCEPT ![c] = [tier |-> IF w \in Parts THEN "cache" ELSE "durable",
                                              n |-> rows[c].n + 1, old |-> FALSE]]
                    ELSE rows
  /\ recency' = IF new /\ w \in Parts THEN Append(recency, c) ELSE recency
  /\ work' = [work EXCEPT ![w].pc = Next1(w), ![w].blob = [c |-> c, n |-> rows'[c].n], ![w].mine = new]
  /\ UNCHANGED <<files, drafts, attached, linked, torn, cuts>>
Index(w) ==
  LET c == work[w].blob.c
      new == rows[c].tier = "none"
      upgrade == rows[c].tier = "cache" /\ w \in Composers IN
  /\ work[w].pc = "renamed"
  /\ new => Created < MaxRows
  /\ rows' = CASE new     -> [rows EXCEPT ![c] = [tier |-> IF w \in Parts THEN "cache" ELSE "durable",
                                                  n |-> rows[c].n + 1, old |-> FALSE]]
               [] upgrade -> [rows EXCEPT ![c].tier = "durable"]
               [] OTHER   -> rows
  /\ recency' = CASE new /\ w \in Parts -> Append(recency, c)
                  [] upgrade            -> Untracked(c)
                  [] OTHER              -> recency
  /\ work' = [work EXCEPT ![w].pc = Next1(w), ![w].blob = [c |-> c, n |-> rows'[c].n], ![w].mine = new]
  /\ UNCHANGED <<files, drafts, attached, linked, torn, cuts>>

\* CreateBlob answers an error (the request was cancelled): the file goes, and
\* a rename that replaced another writer's file has committed as well.
PutFails(w) ==
  LET c == work[w].blob.c IN
  /\ work[w].pc = "renamed" /\ cuts < MaxCuts
  /\ cuts' = cuts + 1
  /\ files' = files \ {c}
  /\ work' = [work EXCEPT ![w] = Idle]
  /\ Torn(c, rows[c].tier # "none" \/ Committing(c) # {w})
  /\ UNCHANGED <<rows, recency, drafts, attached, linked>>

\* AddDraftAttachment: both foreign keys must hold.
Attach(d) ==
  /\ work[d].pc = "refer"
  /\ attached' = IF d \in drafts /\ Live(work[d].blob)
                 THEN [attached EXCEPT ![d] = work[d].blob] ELSE attached
  /\ work' = [work EXCEPT ![d] = Idle]
  /\ UNCHANGED <<files, rows, recency, drafts, linked, torn, cuts>>

\* UpdateAttachmentBlob.
Link(p) ==
  /\ work[p].pc = "refer"
  /\ linked' = IF Live(work[p].blob) THEN [linked EXCEPT ![p] = work[p].blob] ELSE linked
  /\ work' = [work EXCEPT ![p] = Idle]
  /\ UNCHANGED <<files, rows, recency, drafts, attached, torn, cuts>>

-----------------------------------------------------------------------------
(* Removal. *)

\* DeleteBlob: refused while a draft refers to the row, and SET NULL elsewhere.
Restricted(b) == \E d \in Composers : attached[d] = b
\* Mutant: without ON DELETE SET NULL.
DeleteRowOnly(b) ==
  /\ rows' = IF Live(b) THEN [rows EXCEPT ![b.c] = [NoRow EXCEPT !.n = b.n]] ELSE rows
  /\ recency' = IF Live(b) THEN Untracked(b.c) ELSE recency
  /\ UNCHANGED linked
DeleteRow(b) ==
  /\ rows' = IF Live(b) THEN [rows EXCEPT ![b.c] = [NoRow EXCEPT !.n = b.n]] ELSE rows
  /\ linked' = IF Live(b) THEN [p \in Parts |-> IF linked[p] = b THEN NoBlob ELSE linked[p]]
               ELSE linked
  /\ recency' = IF Live(b) THEN Untracked(b.c) ELSE recency

After(w) == IF w = maint THEN [Idle EXCEPT !.pc = "list"] ELSE [work[w] EXCEPT !.pc = "refer"]

\* Evict, read by read. CachedBlobBytes:
EvictTotal(w) ==
  /\ work[w].pc = "total"
  /\ work' = [work EXCEPT ![w] = IF Cardinality(Cached) <= MaxBytes THEN After(w)
                                 ELSE [work[w] EXCEPT !.pc = "cached", !.total = Cardinality(Cached)]]
  /\ UNCHANGED <<files, rows, recency, drafts, attached, linked, torn, cuts>>

\* CachedBlobs, least recently used first.
EvictList(w) ==
  /\ work[w].pc = "cached"
  /\ work' = [work EXCEPT ![w].pc = "file", ![w].list = [i \in DOMAIN recency |-> Blob(recency[i])]]
  /\ UNCHANGED <<files, rows, recency, drafts, attached, linked, torn, cuts>>

\* Remove: the file first.
EvictFile(w) ==
  /\ work[w].pc = "file"
  /\ IF work[w].list = <<>> \/ work[w].total <= MaxBytes
     THEN /\ work' = [work EXCEPT ![w] = [After(w) EXCEPT !.list = <<>>, !.total = 0]]
          /\ UNCHANGED <<files, torn>>
     ELSE LET b == Head(work[w].list) IN
          /\ files' = files \ {b.c}
          /\ work' = [work EXCEPT ![w].pc = "row"]
          /\ Torn(b.c, \/ Committing(b.c) # {}
                       \/ rows[b.c].tier # "none" /\ ~(Live(b) /\ rows[b.c].tier = "cache"))
  /\ UNCHANGED <<rows, recency, drafts, attached, linked, cuts>>

\* Then the row; a refusal ends the pass.
EvictRow(w) ==
  LET b == Head(work[w].list) IN
  /\ work[w].pc = "row"
  /\ IF Restricted(b)
     THEN /\ work' = [work EXCEPT ![w] = [After(w) EXCEPT !.list = <<>>, !.total = 0]]
          /\ UNCHANGED <<rows, linked, recency, torn>>
     ELSE /\ work' = [work EXCEPT ![w].pc = "file", ![w].list = Tail(@), ![w].total = @ - 1]
          /\ DeleteRow(b)
          /\ Torn(b.c, Live(b) /\ b.c \in files)
  /\ UNCHANGED <<files, drafts, attached, cuts>>

\* The request is cancelled during its own eviction, and then fails to refer to
\* the blob it stored.
EvictCut(p) ==
  /\ work[p].pc \in {"total", "cached", "file", "row"} /\ cuts < MaxCuts
  /\ cuts' = cuts + 1
  /\ work' = [work EXCEPT ![p] = Idle]
  /\ IF work[p].pc = "row" THEN Torn(Head(work[p].list).c, TRUE) ELSE UNCHANGED torn
  /\ UNCHANGED <<files, rows, recency, drafts, attached, linked>>

\* maintenance: a tick evicts, then reclaims.
\* Mutant: the tick only reclaims.
TickReclaims ==
  /\ work[maint].pc = "idle"
  /\ work' = [work EXCEPT ![maint].pc = "list"]
  /\ UNCHANGED <<files, rows, recency, drafts, attached, linked, torn, cuts>>
Tick ==
  /\ work[maint].pc = "idle"
  /\ work' = [work EXCEPT ![maint].pc = "total"]
  /\ UNCHANGED <<files, rows, recency, drafts, attached, linked, torn, cuts>>

\* UnreferencedDurableBlobs.
\* Mutant: the query forgets the grace period.
OrphansOfAnyAge == {c \in Contents : rows[c].tier = "durable" /\ ~Referenced(Blob(c))}
Orphans == {c \in Contents : /\ rows[c].tier = "durable" /\ rows[c].old
                             /\ ~Referenced(Blob(c))}

\* A batch of the oldest; creation order is left open.
SweepList ==
  /\ work[maint].pc = "list"
  /\ \E batch \in SUBSET Orphans :
       /\ Cardinality(batch) = IF Cardinality(Orphans) < OrphanBatch
                               THEN Cardinality(Orphans) ELSE OrphanBatch
       /\ \E list \in SetToSeqs(batch) :
            work' = [work EXCEPT ![maint].pc = "sweeprow",
                                 ![maint].list = [i \in DOMAIN list |-> Blob(list[i])]]
  /\ UNCHANGED <<files, rows, recency, drafts, attached, linked, torn, cuts>>

\* Mutant: the row alone.
SweepRowOnly ==
  /\ work[maint].pc = "sweeprow"
  /\ IF work[maint].list = <<>> \/ Restricted(Head(work[maint].list))
     THEN work' = [work EXCEPT ![maint] = Idle] /\ UNCHANGED <<rows, linked, recency, torn>>
     ELSE /\ work' = [work EXCEPT ![maint].list = Tail(@)]
          /\ DeleteRow(Head(work[maint].list))
          /\ UNCHANGED torn
  /\ UNCHANGED <<files, drafts, attached, cuts>>
\* The row first; a row that has been referred to since ends the pass.
SweepRow ==
  /\ work[maint].pc = "sweeprow"
  /\ IF work[maint].list = <<>> \/ Restricted(Head(work[maint].list))
     THEN work' = [work EXCEPT ![maint] = Idle] /\ UNCHANGED <<rows, linked, recency, torn>>
     ELSE /\ work' = [work EXCEPT ![maint].pc = "sweepfile"]
          /\ DeleteRow(Head(work[maint].list))
          /\ Torn(Head(work[maint].list).c, Committing(Head(work[maint].list).c) # {})
  /\ UNCHANGED <<files, drafts, attached, cuts>>

\* Then the file.
SweepFile ==
  /\ work[maint].pc = "sweepfile"
  /\ LET c == Head(work[maint].list).c IN
     /\ files' = files \ {c}
     /\ Torn(c, rows[c].tier # "none" \/ Committing(c) # {})
  /\ work' = [work EXCEPT ![maint].pc = "sweeprow", ![maint].list = Tail(@)]
  /\ UNCHANGED <<rows, recency, drafts, attached, linked, cuts>>

-----------------------------------------------------------------------------
(* The rest of the program, and time. *)

\* DeleteDraftAttachment.
Detach(d) ==
  /\ d \in drafts /\ attached[d] # NoBlob
  /\ attached' = [attached EXCEPT ![d] = NoBlob]
  /\ UNCHANGED <<files, rows, recency, drafts, linked, work, torn, cuts>>

\* Mutant: the draft goes without its attachment rows.
DeleteWithoutCascade(d) ==
  /\ d \in drafts
  /\ drafts' = drafts \ {d}
  /\ UNCHANGED <<files, rows, recency, attached, linked, work, torn, cuts>>
\* DeleteDraft; draft_attachments cascade.
DeleteDraft(d) ==
  /\ d \in drafts
  /\ drafts' = drafts \ {d}
  /\ attached' = [attached EXCEPT ![d] = NoBlob]
  /\ UNCHANGED <<files, rows, recency, linked, work, torn, cuts>>

\* GetBlob: a download of a part, or a draft being composed or sent, touches the row.
GetBlob(b) ==
  /\ Referenced(b) /\ b.c \in Cached
  /\ recency' = Append(Untracked(b.c), b.c)
  /\ UNCHANGED <<files, rows, drafts, attached, linked, work, torn, cuts>>

\* orphanGrace passes: no request lasts that long, so the one that made the row is over.
Age(c) ==
  /\ rows[c].tier = "durable" /\ ~rows[c].old
  /\ ~\E d \in Composers : work[d].pc = "refer" /\ work[d].mine /\ work[d].blob = Blob(c)
  /\ rows' = [rows EXCEPT ![c].old = TRUE]
  /\ UNCHANGED <<files, recency, drafts, attached, linked, work, torn, cuts>>

\* The process dies and starts again: whatever was between two stores stays so.
Die ==
  /\ cuts < MaxCuts
  /\ cuts' = cuts + 1
  /\ work' = [w \in Jobs |-> Idle]
  /\ torn' = torn \union {c \in Contents : Committing(c) # {}}
                  \union {Head(work[w].list).c : w \in {v \in Jobs : work[v].pc \in {"row", "sweepfile"}}}
  /\ UNCHANGED <<files, rows, recency, drafts, attached, linked>>

BlobInit ==
  /\ files = {} /\ rows = [c \in Contents |-> NoRow]
  /\ recency = <<>>
  /\ drafts = Composers
  /\ attached = [d \in Composers |-> NoBlob]
  /\ linked = [p \in Parts |-> NoBlob]
  /\ work = [w \in Jobs |-> Idle]
  /\ torn = {} /\ cuts = 0

Request(w) ==
  \/ \E c \in Holds[w] : Rename(w, c)
  \/ Index(w) \/ PutFails(w)

Evict(w) == EvictTotal(w) \/ EvictList(w) \/ EvictFile(w) \/ EvictRow(w)

Maintain == Tick \/ Evict(maint) \/ SweepList \/ SweepRow \/ SweepFile

BlobNext ==
  \/ \E w \in Composers \union Parts : Request(w)
  \/ \E d \in Composers : Attach(d) \/ Detach(d) \/ DeleteDraft(d)
  \/ \E p \in Parts : Evict(p) \/ EvictCut(p) \/ Link(p)
  \/ Maintain
  \/ \E c \in Contents : Age(c) \/ GetBlob(Blob(c))
  \/ Die

BlobSpec == BlobInit /\ [][BlobNext]_blobVars

-----------------------------------------------------------------------------
(* Properties. *)

\* The types, and: a worker's list is only held between two steps of a removal.
BlobTypeOK ==
  /\ files \subseteq Contents /\ torn \subseteq Contents /\ drafts \subseteq Composers
  /\ \A c \in Contents : rows[c].tier \in {"none", "cache", "durable"} /\ rows[c].n \in Nat
  /\ \A b \in {attached[d] : d \in Composers} \union {linked[p] : p \in Parts} :
       b = NoBlob \/ Live(b)
  /\ ToSet(recency) = Cached /\ IsInjective(recency)
  /\ \A w \in Jobs : work[w].pc \in {"row", "sweepfile"} => work[w].list # <<>>

\* A row in use has its bytes: every row the index answers has its file, unless
\* an eviction is between the two or steps on the same content overlapped (Remove
\* and ReclaimOrphans against Put, and the upgrade that protects an upload).
RowsHaveBytes ==
  \A c \in Contents \ torn :
    rows[c].tier # "none" =>
      \/ c \in files
      \/ \E w \in Jobs : work[w].pc = "row" /\ Head(work[w].list) = Blob(c)

\* No bytes are lost track of: a file without a row is one a Put is about to index
\* or the sweep is about to remove; nothing else would ever find it again.
FilesHaveOwners ==
  \A c \in files \ torn :
    \/ rows[c].tier # "none"
    \/ Committing(c) # {}
    \/ work[maint].pc = "sweepfile" /\ Head(work[maint].list).c = c

\* What a draft refers to is out of the evictor's reach: the upgrade in place is
\* what keeps a fetched part from being evicted under the draft that attached it.
AttachedIsDurable ==
  \A d \in drafts : attached[d] # NoBlob => rows[attached[d].c].tier = "durable"

\* An upload that made its row still finds it when it attaches: the grace period
\* covers the request between Put and AddDraftAttachment (orphanGrace).
UploadKeepsItsRow ==
  \A d \in Composers : work[d].pc = "refer" /\ work[d].mine => Live(work[d].blob)

\* What a failed eviction leaves over the budget is trimmed by a later tick.
CacheTrimmed == (Cardinality(Cached) > MaxBytes) ~> (Cardinality(Cached) <= MaxBytes)

InUse(b) == (\E d \in drafts : attached[d] = b) \/ \E p \in Parts : linked[p] = b

\* Once no upload is under way any more, every durable blob nothing refers to is
\* reclaimed. (While uploads go on, one of them can refer to the head of every
\* batch just before the sweep gets to it, and the refusal ends the pass.)
OrphansReclaimed ==
  <>[](\A d \in Composers : work[d].pc = "idle")
    => \A c \in Contents : (rows[c].tier = "durable" /\ ~InUse(Blob(c)))
                            ~> (rows[c].tier # "durable" \/ InUse(Blob(c)))

\* What is referred to can be read: no eviction and no sweep takes bytes in use.
ReferencesResolve == RowsHaveBytes /\ AttachedIsDurable /\ UploadKeepsItsRow

\* What nothing refers to goes: no file is forgotten, no budget exceeded for good.
NothingLeaks == []FilesHaveOwners /\ CacheTrimmed /\ OrphansReclaimed
=============================================================================
