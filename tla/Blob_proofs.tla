---------------------------- MODULE Blob_proofs ----------------------------
(***************************************************************************)
(* Proofs about message bodies: their prefetch (BodyPrefetch) and the      *)
(* store that holds their bytes (BlobStore).                               *)
(***************************************************************************)
EXTENDS BlobStore, BodyPrefetch, SequenceTheorems, FiniteSetTheorems, TLAPS

-----------------------------------------------------------------------------
(* Sequences without repetition.                                           *)

LEMMA AppendedOnce ==
  ASSUME NEW S, NEW s \in Seq(S), NEW e \in S
  PROVE  /\ ToSet(Append(s, e)) = ToSet(s) \union {e}
         /\ IsInjective(s) /\ e \notin ToSet(s) => IsInjective(Append(s, e))
<1>1. /\ DOMAIN s = 1..Len(s) /\ Len(s) \in Nat /\ DOMAIN Append(s, e) = 1..(Len(s) + 1)
      /\ \A i \in 1..Len(s) : Append(s, e)[i] = s[i]
      /\ Append(s, e)[Len(s) + 1] = e
  BY AppendProperties
<1>2. \A i \in 1..(Len(s) + 1) : i \in 1..Len(s) \/ i = Len(s) + 1
  BY <1>1
<1>3. ASSUME IsInjective(s), e \notin ToSet(s) PROVE IsInjective(Append(s, e))
  BY <1>1, <1>2, <1>3 DEF IsInjective, ToSet
<1>4. ToSet(Append(s, e)) = ToSet(s) \union {e}
  <2>1. ASSUME NEW x \in ToSet(Append(s, e)) PROVE x \in ToSet(s) \union {e}
    BY <1>1, <1>2 DEF ToSet
  <2>2. ASSUME NEW x \in ToSet(s) PROVE x \in ToSet(Append(s, e))
    <3>1. PICK i \in 1..Len(s) : s[i] = x
      BY <1>1 DEF ToSet
    <3> QED
      BY <1>1, <3>1 DEF ToSet
  <2>3. e \in ToSet(Append(s, e))
    BY <1>1 DEF ToSet
  <2> QED
    BY <2>1, <2>2, <2>3
<1> QED
  BY <1>3, <1>4

LEMMA HeadTaken ==
  ASSUME NEW S, NEW s \in Seq(S), s # <<>>, IsInjective(s)
  PROVE  /\ IsInjective(Tail(s)) /\ Tail(s) \in Seq(S) /\ Len(Tail(s)) = Len(s) - 1
         /\ Head(s) \in S /\ Head(s) \in ToSet(s) /\ ToSet(Tail(s)) = ToSet(s) \ {Head(s)}
<1>1. /\ DOMAIN s = 1..Len(s) /\ Len(s) \in Nat \ {0} /\ Head(s) = s[1] /\ Head(s) \in S
      /\ Tail(s) \in Seq(S) /\ Len(Tail(s)) = Len(s) - 1 /\ DOMAIN Tail(s) = 1..(Len(s) - 1)
      /\ \A i \in 1..(Len(s) - 1) : Tail(s)[i] = s[i + 1]
  BY HeadTailProperties, EmptySeq
<1>2. \A i \in 1..(Len(s) - 1) : i + 1 \in 1..Len(s) /\ i + 1 # 1
  BY <1>1
<1>3. \A i \in 1..Len(s) : i = 1 \/ (i - 1 \in 1..(Len(s) - 1) /\ (i - 1) + 1 = i)
  BY <1>1
<1>4. IsInjective(Tail(s))
  <2> SUFFICES ASSUME NEW i \in 1..(Len(s) - 1), NEW j \in 1..(Len(s) - 1), Tail(s)[i] = Tail(s)[j]
               PROVE  i = j
    BY <1>1 DEF IsInjective
  <2>1. i + 1 = j + 1
    BY <1>1, <1>2 DEF IsInjective
  <2> QED
    BY <1>1, <2>1
<1>5. Head(s) \in ToSet(s)
  BY <1>1 DEF ToSet
<1>6. ASSUME NEW x \in ToSet(Tail(s)) PROVE x \in ToSet(s) \ {Head(s)}
  <2>1. PICK i \in 1..(Len(s) - 1) : x = Tail(s)[i]
    BY <1>1 DEF ToSet
  <2>2. x = s[i + 1] /\ i + 1 \in 1..Len(s) /\ i + 1 # 1 /\ 1 \in 1..Len(s)
    BY <1>1, <1>2, <2>1
  <2> QED
    BY <1>1, <2>2 DEF IsInjective, ToSet
<1>7. ASSUME NEW x \in ToSet(s) \ {Head(s)} PROVE x \in ToSet(Tail(s))
  <2>1. PICK i \in 1..Len(s) : x = s[i]
    BY <1>1 DEF ToSet
  <2>2. i - 1 \in 1..(Len(s) - 1) /\ (i - 1) + 1 = i
    BY <1>1, <1>3, <2>1
  <2>3. Tail(s)[i - 1] = x
    BY <1>1, <2>1, <2>2
  <2> QED
    BY <1>1, <2>2, <2>3 DEF ToSet
<1> QED
  BY <1>1, <1>4, <1>5, <1>6, <1>7

LEMMA RemovedOnce ==
  ASSUME NEW S, NEW s \in Seq(S), NEW e, IsInjective(s)
  PROVE  /\ RemoveFirst(s, e) \in Seq(S) /\ IsInjective(RemoveFirst(s, e))
         /\ ToSet(RemoveFirst(s, e)) = ToSet(s) \ {e}
<1>0. DOMAIN s = 1..Len(s) /\ Len(s) \in Nat /\ \A i \in 1..Len(s) : s[i] \in S
  BY LenProperties, ElementOfSeq
<1>1. CASE \E i \in 1..Len(s) : s[i] = e
  <2> DEFINE I == {i \in 1..Len(s) : s[i] = e}
             k == SelectInSeq(s, LAMBDA v : v = e)
             t == RemoveFirst(s, e)
  <2>1. PICK i \in 1..Len(s) : s[i] = e
    BY <1>1
  <2>2. I = {i}
    BY <1>0, <2>1 DEF IsInjective
  <2>3. k = Min({i})
    BY <2>2 DEF SelectInSeq
  <2>4. k = i
    BY <2>1, <2>3 DEF Min
  <2>5. t = SubSeq(s, 1, i - 1) \o SubSeq(s, i + 1, Len(s))
    BY <1>1, <2>4 DEF RemoveFirst, RemoveAt
  <2>6. /\ SubSeq(s, 1, i - 1) \in Seq(S) /\ Len(SubSeq(s, 1, i - 1)) = i - 1
        /\ \A j \in 1..(i - 1) : SubSeq(s, 1, i - 1)[j] = s[j]
    BY <1>0, <2>1, SubSeqProperties
  <2>7. /\ SubSeq(s, i + 1, Len(s)) \in Seq(S) /\ Len(SubSeq(s, i + 1, Len(s))) = Len(s) - i
        /\ \A j \in 1..(Len(s) - i) : SubSeq(s, i + 1, Len(s))[j] = s[i + j]
    <3>1. i + 1 \in Int /\ Len(s) \in Int /\ \A j \in (i + 1)..Len(s) : s[j] \in S
      BY <1>0, <2>1
    <3>2. /\ SubSeq(s, i + 1, Len(s)) \in Seq(S)
          /\ Len(SubSeq(s, i + 1, Len(s))) = IF i + 1 <= Len(s) THEN Len(s) - (i + 1) + 1 ELSE 0
          /\ \A j \in 1..(Len(s) - (i + 1) + 1) : SubSeq(s, i + 1, Len(s))[j] = s[(i + 1) + j - 1]
      BY <3>1, SubSeqProperties
    <3>3. Len(s) - (i + 1) + 1 = Len(s) - i /\ \A j \in 1..(Len(s) - i) : (i + 1) + j - 1 = i + j
      BY <1>0, <2>1
    <3>4. (IF i + 1 <= Len(s) THEN Len(s) - (i + 1) + 1 ELSE 0) = Len(s) - i
      <4> DEFINE n == Len(s)
      <4>1. n \in Nat /\ i \in 1..n
        BY <1>0, <2>1
      <4> HIDE DEF n
      <4>2. (IF i + 1 <= n THEN n - (i + 1) + 1 ELSE 0) = n - i
        BY <4>1
      <4> QED
        BY <4>2 DEF n
    <3>5. ASSUME NEW j \in 1..(Len(s) - i) PROVE SubSeq(s, i + 1, Len(s))[j] = s[i + j]
      <4>1. j \in 1..(Len(s) - (i + 1) + 1) /\ (i + 1) + j - 1 = i + j
        BY <3>3
      <4> QED
        BY <3>2, <4>1
    <3> QED
      BY <3>2, <3>4, <3>5
  <2> HIDE DEF t, k, I
  <2>8. /\ t \in Seq(S) /\ Len(t) = Len(s) - 1 /\ DOMAIN t = 1..(Len(s) - 1)
        /\ \A j \in 1..(Len(s) - 1) : t[j] = IF j < i THEN s[j] ELSE s[j + 1]
    <3> DEFINE a == SubSeq(s, 1, i - 1)
               b == SubSeq(s, i + 1, Len(s))
    <3>1. t = a \o b /\ a \in Seq(S) /\ b \in Seq(S) /\ Len(a) = i - 1 /\ Len(b) = Len(s) - i
      BY <2>5, <2>6, <2>7
    <3>2. /\ \A j \in 1..(i - 1) : a[j] = s[j]
          /\ \A j \in 1..(Len(s) - i) : b[j] = s[i + j]
      BY <2>6, <2>7
    <3> HIDE DEF a, b
    <3>3. /\ t \in Seq(S) /\ Len(t) = Len(a) + Len(b)
          /\ \A j \in 1..(Len(a) + Len(b)) : t[j] = IF j <= Len(a) THEN a[j] ELSE b[j - Len(a)]
      BY <3>1, ConcatProperties
    <3>4. Len(t) = Len(s) - 1 /\ DOMAIN t = 1..(Len(s) - 1)
      <4>1. Len(t) = Len(s) - 1
        BY <1>0, <2>1, <3>1, <3>3
      <4> QED
        BY <3>3, <4>1, LenProperties
    <3>5. ASSUME NEW j \in 1..(Len(s) - 1) PROVE t[j] = IF j < i THEN s[j] ELSE s[j + 1]
      <4>1. CASE j < i
        BY <1>0, <2>1, <3>1, <3>2, <3>3, <4>1
      <4>2. CASE ~(j < i)
        <5>1. j - (i - 1) \in 1..(Len(s) - i) /\ i + (j - (i - 1)) = j + 1 /\ ~(j <= i - 1)
          BY <1>0, <2>1, <4>2
        <5> QED
          BY <1>0, <2>1, <3>1, <3>2, <3>3, <4>2, <5>1
      <4> QED
        BY <4>1, <4>2
    <3> QED
      BY <3>3, <3>4, <3>5
  <2>9. \A j \in 1..(Len(s) - 1) : j \in 1..Len(s) /\ j + 1 \in 1..Len(s)
    BY <1>0
  <2>10. IsInjective(t)
    <3> SUFFICES ASSUME NEW j \in 1..(Len(s) - 1), NEW l \in 1..(Len(s) - 1), t[j] = t[l] PROVE j = l
      BY <2>8 DEF IsInjective
    <3> DEFINE at(n) == IF n < i THEN n ELSE n + 1
    <3>1. t[j] = s[at(j)] /\ t[l] = s[at(l)] /\ at(j) \in 1..Len(s) /\ at(l) \in 1..Len(s)
      BY <2>8, <2>9
    <3>2. at(j) = at(l)
      BY <1>0, <3>1 DEF IsInjective
    <3> QED
      BY <2>1, <3>2
  <2>11. ASSUME NEW x \in ToSet(t) PROVE x \in ToSet(s) \ {e}
    <3>1. PICK j \in 1..(Len(s) - 1) : x = IF j < i THEN s[j] ELSE s[j + 1]
      BY <2>8 DEF ToSet
    <3>2. PICK l \in 1..Len(s) : x = s[l] /\ l # i
      BY <2>1, <2>9, <3>1
    <3> QED
      BY <1>0, <2>1, <3>2 DEF IsInjective, ToSet
  <2>12. ASSUME NEW x \in ToSet(s) \ {e} PROVE x \in ToSet(t)
    <3>1. PICK l \in 1..Len(s) : x = s[l] /\ l # i
      BY <1>0, <2>1 DEF ToSet
    <3>2. CASE l < i
      BY <1>0, <2>1, <2>8, <3>1, <3>2 DEF ToSet
    <3>3. CASE l > i
      <4>1. l - 1 \in 1..(Len(s) - 1) /\ ~(l - 1 < i) /\ (l - 1) + 1 = l
        BY <1>0, <2>1, <3>3
      <4>2. t[l - 1] = x
        BY <2>8, <3>1, <4>1
      <4> QED
        BY <2>8, <4>1, <4>2 DEF ToSet
    <3> QED
      BY <2>1, <3>1, <3>2, <3>3
  <2> QED
    BY <2>8, <2>10, <2>11, <2>12 DEF t
<1>2. CASE ~\E i \in 1..Len(s) : s[i] = e
  <2>1. RemoveFirst(s, e) = s
    BY <1>2 DEF RemoveFirst
  <2> QED
    BY <1>0, <1>2, <2>1 DEF ToSet
<1> QED
  BY <1>1, <1>2

-----------------------------------------------------------------------------
(* The prefetch.                                                           *)

FetchRec ==
  [pc : {"idle", "poll", "blocked", "fetch", "undo", "drop", "count"}, m : Bodies \union {"none"},
   ok : BOOLEAN, n : Nat]
ScanRec == [pc : {"idle", "blocked", "probe", "claim", "mark", "push", "release"}, mine : SUBSET Bodies]
PrefetchTypes ==
  /\ body \in [Bodies -> BodyStates] /\ claimed \subseteq Bodies /\ failures \in [Bodies -> Nat]
  /\ bodyQueue \in Seq(Bodies) /\ Len(bodyQueue) <= QueueRoom
  /\ fetch \in [Fetchers -> FetchRec] /\ scan \in ScanRec /\ cmdMu \in Fetchers \union {"free", "loop"}
  /\ \A f \in Fetchers : fetch[f].pc = "idle" <=> fetch[f].m = "none"
  /\ scan.pc \in {"idle", "blocked", "probe"} => scan.mine = {}
HoldInv ==
  /\ \A f \in Fetchers : fetch[f].pc = "fetch" <=> cmdMu = f
  /\ scan.pc = "probe" <=> cmdMu = "loop"
\* Whose work a claim is: the queue's, the scan's or a worker's.
Queued     == ToSet(bodyQueue)
Scanned    == IF scan.pc = "claim" THEN {} ELSE scan.mine
Busy(f, m) == fetch[f].m = m /\ fetch[f].pc # "count"
ClaimInv ==
  /\ IsInjective(bodyQueue) /\ Queued \intersect Scanned = {}
  /\ \A f \in Workers, m \in Bodies : Busy(f, m) =>
       m \notin Queued \union Scanned /\ \A g \in Workers : Busy(g, m) => g = f
  /\ \A m \in Bodies : m \in claimed <=> (m \in Queued \union Scanned \/ \E f \in Workers : Busy(f, m))
PrefetchInv == PrefetchTypes /\ HoldInv /\ ClaimInv

LEMMA PrefetchInitial == PrefetchInit => PrefetchInv
<1> SUFFICES ASSUME PrefetchInit PROVE PrefetchInv
  OBVIOUS
<1>1. /\ NoFetch \in FetchRec /\ NoFetch.pc = "idle" /\ NoFetch.m = "none"
      /\ NoScan \in ScanRec /\ NoScan.pc = "idle" /\ NoScan.mine = {}
  BY DEF NoFetch, FetchRec, NoScan, ScanRec
<1>2. fetch = [f \in Fetchers |-> NoFetch] /\ scan = NoScan /\ bodyQueue = <<>> /\ claimed = {} /\ cmdMu = "free"
  BY DEF PrefetchInit
<1>3. PrefetchTypes
  BY <1>1, <1>2, PrefetchAssumption DEF PrefetchInit, PrefetchTypes, BodyStates
<1>4. HoldInv
  BY <1>1, <1>2, PrefetchAssumption DEF HoldInv, Fetchers
<1>5. ClaimInv
  <2>1. IsInjective(<<>>) /\ ToSet(<<>>) = {}
    BY DEF IsInjective, ToSet
  <2> QED
    BY <1>1, <1>2, <2>1, PrefetchAssumption DEF ClaimInv, Queued, Scanned, Busy, Fetchers
<1> QED
  BY <1>3, <1>4, <1>5 DEF PrefetchInv

LEMMA StateWritten ==
  ASSUME PrefetchTypes, NEW ms, NEW st \in BodyStates, SetBodyState(ms, st)
  PROVE  body' \in [Bodies -> BodyStates]
BY DEF SetBodyState, BodyState, PrefetchTypes

\* A step of one fetch that leaves its claim where it is.
LEMMA OneFetch ==
  ASSUME PrefetchInv, NEW f \in Fetchers, NEW r \in FetchRec, fetch' = [fetch EXCEPT ![f] = r],
         r.pc = "idle" <=> r.m = "none",
         body' \in [Bodies -> BodyStates], failures' \in [Bodies -> Nat],
         UNCHANGED <<claimed, bodyQueue, scan>>,
         cmdMu' \in Fetchers \union {"free", "loop"}, r.pc = "fetch" <=> cmdMu' = f,
         \A g \in Fetchers \union {"loop"} : g # f => (cmdMu' = g <=> cmdMu = g),
         f \in Workers => \A m \in Bodies : (r.m = m /\ r.pc # "count") <=> Busy(f, m)
  PROVE  PrefetchInv'
<1>0. PrefetchTypes /\ HoldInv /\ ClaimInv
  BY DEF PrefetchInv
<1>1. /\ fetch' \in [Fetchers -> FetchRec] /\ fetch'[f] = r
      /\ \A g \in Fetchers : g # f => fetch'[g] = fetch[g]
  BY <1>0 DEF PrefetchTypes
<1>2. PrefetchTypes'
  BY <1>0, <1>1 DEF PrefetchTypes
<1>3. HoldInv'
  BY <1>0, <1>1, PrefetchAssumption DEF HoldInv, Fetchers
<1>4. ClaimInv'
  <2>1. Queued' = Queued /\ Scanned' = Scanned
    BY DEF Queued, Scanned
  <2>2. \A g \in Workers, m \in Bodies : Busy(g, m)' <=> Busy(g, m)
    BY <1>1 DEF Busy, Fetchers
  <2> QED
    BY <1>0, <2>1, <2>2 DEF ClaimInv
<1> QED
  BY <1>2, <1>3, <1>4 DEF PrefetchInv

LEMMA FetchKept ==
  ASSUME PrefetchInv, NEW f \in Fetchers, FetchStep(f)
  PROVE  PrefetchInv'
<1>0. /\ PrefetchTypes /\ HoldInv /\ fetch[f] \in FetchRec /\ "free" \notin Fetchers /\ "loop" \notin Fetchers
      /\ fetch[f].pc \in {"fetch", "undo"} /\ fetch[f].m \in Bodies
  BY PrefetchAssumption DEF PrefetchInv, PrefetchTypes, FetchRec, Fetchers, FetchStep, FetchBody, Undo
<1>1. ASSUME NEW b \in BOOLEAN
      PROVE  /\ [Leave(f) EXCEPT !.ok = b] \in FetchRec /\ Leave(f) \in FetchRec
             /\ f \in Workers => [Leave(f) EXCEPT !.ok = b].pc = "drop" /\ [Leave(f) EXCEPT !.ok = b].m = fetch[f].m
             /\ f \notin Workers => [Leave(f) EXCEPT !.ok = b].pc = "idle" /\ [Leave(f) EXCEPT !.ok = b].m = "none"
             /\ f \in Workers => Leave(f).pc = "drop" /\ Leave(f).m = fetch[f].m
             /\ f \notin Workers => Leave(f).pc = "idle" /\ Leave(f).m = "none"
  BY <1>0 DEF Leave, FetchRec, NoFetch
<1>2. PICK r \in FetchRec :
        /\ fetch' = [fetch EXCEPT ![f] = r]
        /\ \/ r.pc \in {"undo", "drop"} /\ r.m = fetch[f].m
           \/ f \notin Workers /\ r.pc = "idle" /\ r.m = "none"
  <2>1. CASE fetch' = [fetch EXCEPT ![f] = [Leave(f) EXCEPT !.ok = f \in Workers]]
    <3>1. (f \in Workers) \in BOOLEAN
      OBVIOUS
    <3> QED
      BY <1>1, <2>1, <3>1
  <2>2. CASE fetch' = [fetch EXCEPT ![f] = Leave(f)]
    BY <1>1, <2>2
  <2>3. CASE StepFetch(f, "undo")
    <3> DEFINE r == [fetch[f] EXCEPT !.pc = "undo"]
    <3>1. fetch' = [fetch EXCEPT ![f] = r] /\ r \in FetchRec /\ r.pc = "undo" /\ r.m = fetch[f].m
      BY <1>0, <2>3 DEF StepFetch, FetchRec
    <3> QED
      BY <3>1
  <2> QED
    BY <2>1, <2>2, <2>3 DEF FetchStep, FetchBody, Undo
<1>3. /\ body' \in [Bodies -> BodyStates] /\ failures' \in [Bodies -> Nat]
      /\ UNCHANGED <<claimed, bodyQueue, scan>>
  <2>1. CASE FetchBody(f)
    BY <1>0, <2>1 DEF FetchBody, PrefetchTypes, BodyStates
  <2>2. CASE Undo(f)
    BY <1>0, <2>2, StateWritten DEF Undo, PrefetchTypes, BodyStates
  <2> QED
    BY <2>1, <2>2 DEF FetchStep
<1>4. \/ fetch[f].pc = "fetch" /\ cmdMu' = "free"
      \/ fetch[f].pc = "undo" /\ cmdMu' = cmdMu
  BY DEF FetchStep, FetchBody, Undo
<1>5. /\ cmdMu' \in Fetchers \union {"free", "loop"} /\ cmdMu' # f
      /\ \A g \in Fetchers \union {"loop"} : g # f => (cmdMu' = g <=> cmdMu = g)
  BY <1>0, <1>4 DEF HoldInv, PrefetchTypes
<1>6. f \in Workers => \A m \in Bodies : (r.m = m /\ r.pc # "count") <=> Busy(f, m)
  BY <1>0, <1>2 DEF Busy
<1>7. (r.pc = "idle" <=> r.m = "none") /\ r.pc # "fetch"
  BY <1>0, <1>2, PrefetchAssumption
<1> QED
  BY <1>2, <1>3, <1>5, <1>6, <1>7, OneFetch

\* Polling, timing out, taking the lock.
LEMMA LockingKept ==
  ASSUME PrefetchInv, NEW f \in Fetchers,
         Poll(f) \/ TimesOut(f) \/ LockBackground(f) \/ Lock(f)
  PROVE  PrefetchInv'
<1>0. /\ PrefetchTypes /\ HoldInv /\ fetch[f] \in FetchRec /\ "free" \notin Fetchers /\ "loop" \notin Fetchers
      /\ fetch[f].pc \in {"poll", "blocked"}
  BY PrefetchAssumption DEF PrefetchInv, PrefetchTypes, Fetchers, Poll, TimesOut, LockBackground, Lock
<1>1. PICK pc \in {"blocked", "undo", "poll", "fetch"} :
        /\ StepFetch(f, pc)
        /\ pc = "fetch" => cmdMu = "free" /\ cmdMu' = f
        /\ pc # "fetch" => cmdMu' = cmdMu
  BY DEF Poll, TimesOut, LockBackground, Lock
<1>2. UNCHANGED <<body, failures, claimed, bodyQueue, scan>>
  BY DEF Poll, TimesOut, LockBackground, Lock
<1> DEFINE r == [fetch[f] EXCEPT !.pc = pc]
<1>3. fetch' = [fetch EXCEPT ![f] = r] /\ r \in FetchRec /\ r.pc = pc /\ r.m = fetch[f].m
  BY <1>0, <1>1 DEF StepFetch, FetchRec
<1> HIDE DEF r
<1>4. (r.pc = "idle" <=> r.m = "none") /\ (f \in Workers => \A m \in Bodies : (r.m = m /\ r.pc # "count") <=> Busy(f, m))
  BY <1>0, <1>3 DEF PrefetchTypes, Busy
<1>5. /\ cmdMu' \in Fetchers \union {"free", "loop"} /\ (r.pc = "fetch" <=> cmdMu' = f)
      /\ \A g \in Fetchers \union {"loop"} : g # f => (cmdMu' = g <=> cmdMu = g)
  BY <1>0, <1>1, <1>3 DEF HoldInv, PrefetchTypes
<1>6. body' \in [Bodies -> BodyStates] /\ failures' \in [Bodies -> Nat]
  BY <1>0, <1>2 DEF PrefetchTypes
<1> QED
  BY <1>2, <1>3, <1>4, <1>5, <1>6, OneFetch

LEMMA OpenKept == ASSUME PrefetchInv, NEW o \in Openers, Open(o) PROVE PrefetchInv'
<1>0. /\ PrefetchTypes /\ HoldInv /\ o \in Fetchers /\ o \notin Workers
      /\ fetch[o].pc = "idle" /\ UNCHANGED <<claimed, failures, bodyQueue, scan, cmdMu>>
  BY PrefetchAssumption DEF PrefetchInv, Fetchers, Open
<1>1. PICK m \in Bodies : /\ fetch' = [fetch EXCEPT ![o] = [NoFetch EXCEPT !.pc = "blocked", !.m = m]]
                          /\ SetBodyState({m}, "fetching")
  BY DEF Open
<1> DEFINE r == [NoFetch EXCEPT !.pc = "blocked", !.m = m]
<1>2. fetch' = [fetch EXCEPT ![o] = r] /\ r \in FetchRec /\ r.pc = "blocked" /\ r.m # "none"
  BY <1>1, PrefetchAssumption DEF NoFetch, FetchRec
<1> HIDE DEF r
<1>3. body' \in [Bodies -> BodyStates]
  BY <1>0, <1>1, StateWritten DEF BodyStates
<1>4. /\ failures' \in [Bodies -> Nat] /\ cmdMu' \in Fetchers \union {"free", "loop"}
      /\ cmdMu' # o /\ \A g \in Fetchers \union {"loop"} : g # o => (cmdMu' = g <=> cmdMu = g)
  BY <1>0 DEF PrefetchTypes, HoldInv
<1> QED
  BY <1>0, <1>2, <1>3, <1>4, OneFetch

LEMMA RecordKept == ASSUME PrefetchInv, NEW w \in Workers, RecordBodyAttempt(w) PROVE PrefetchInv'
<1>0. /\ PrefetchTypes /\ HoldInv /\ w \in Fetchers /\ fetch[w] \in FetchRec /\ fetch[w].pc = "count"
      /\ fetch' = [fetch EXCEPT ![w] = NoFetch] /\ UNCHANGED <<body, claimed, bodyQueue, scan, cmdMu>>
  BY DEF PrefetchInv, PrefetchTypes, Fetchers, RecordBodyAttempt
<1>1. NoFetch \in FetchRec /\ NoFetch.pc = "idle" /\ NoFetch.m = "none"
  BY DEF NoFetch, FetchRec
<1>2. failures' \in [Bodies -> Nat]
  <2>1. fetch[w].n \in Nat
    BY <1>0 DEF FetchRec
  <2>2. failures' = [failures EXCEPT ![fetch[w].m] = IF fetch[w].ok THEN 0 ELSE fetch[w].n + 1]
    BY DEF RecordBodyAttempt
  <2>3. (IF fetch[w].ok THEN 0 ELSE fetch[w].n + 1) \in Nat
    BY <2>1
  <2> QED
    BY <1>0, <2>2, <2>3 DEF PrefetchTypes
<1>3. /\ body' \in [Bodies -> BodyStates] /\ cmdMu' \in Fetchers \union {"free", "loop"}
      /\ cmdMu' # w /\ \A g \in Fetchers \union {"loop"} : g # w => (cmdMu' = g <=> cmdMu = g)
  BY <1>0 DEF PrefetchTypes, HoldInv
<1>4. \A m \in Bodies : (NoFetch.m = m /\ NoFetch.pc # "count") <=> Busy(w, m)
  BY <1>0, <1>1, PrefetchAssumption DEF Busy
<1> QED
  BY <1>0, <1>1, <1>2, <1>3, <1>4, OneFetch

LEMMA DropKept == ASSUME PrefetchInv, NEW w \in Workers, DropClaim(w) PROVE PrefetchInv'
<1> DEFINE r == [fetch[w] EXCEPT !.pc = "count", !.n = failures[fetch[w].m]]
           m == fetch[w].m
<1>0. /\ PrefetchTypes /\ HoldInv /\ ClaimInv /\ w \in Fetchers /\ fetch[w] \in FetchRec
      /\ fetch[w].pc = "drop" /\ fetch' = [fetch EXCEPT ![w] = r] /\ claimed' = claimed \ {m}
      /\ UNCHANGED <<body, failures, bodyQueue, scan, cmdMu>>
  BY DEF PrefetchInv, PrefetchTypes, Fetchers, DropClaim
<1>1. m \in Bodies
  BY <1>0 DEF PrefetchTypes, FetchRec
<1>2. r \in FetchRec /\ r.pc = "count" /\ r.m = m
  <2>1. failures[m] \in Nat
    BY <1>0, <1>1 DEF PrefetchTypes
  <2>2. r.pc = "count" /\ r.m = m
    BY <1>0 DEF FetchRec
  <2> QED
    BY <1>0, <2>1, <2>2 DEF FetchRec
<1> HIDE DEF r, m
<1>3. /\ fetch' \in [Fetchers -> FetchRec] /\ fetch'[w] = r
      /\ \A g \in Fetchers : g # w => fetch'[g] = fetch[g]
  BY <1>0, <1>2 DEF PrefetchTypes
<1>4. PrefetchTypes'
  BY <1>0, <1>1, <1>2, <1>3, PrefetchAssumption DEF PrefetchTypes
<1>5. HoldInv'
  BY <1>0, <1>2, <1>3 DEF HoldInv
<1>6. ClaimInv'
  <2>1. Queued' = Queued /\ Scanned' = Scanned
    BY <1>0 DEF Queued, Scanned
  <2>2. \A g \in Workers, x \in Bodies : Busy(g, x)' <=> Busy(g, x) /\ g # w
    BY <1>2, <1>3 DEF Busy, Fetchers
  <2>3. Busy(w, m) /\ \A x \in Bodies : Busy(w, x) => x = m
    BY <1>0 DEF Busy, m
  <2>4. \A x \in Bodies : x \in claimed' <=> (x \in Queued \union Scanned \/ \E g \in Workers : Busy(g, x)')
    <3> SUFFICES ASSUME NEW x \in Bodies
                 PROVE  x \in claimed' <=> (x \in Queued \union Scanned \/ \E g \in Workers : Busy(g, x)')
      OBVIOUS
    <3>1. CASE x = m
      BY <1>0, <1>1, <2>2, <2>3, <3>1 DEF ClaimInv
    <3>2. CASE x # m
      BY <1>0, <2>2, <2>3, <3>2 DEF ClaimInv
    <3> QED
      BY <3>1, <3>2
  <2>5. \A g \in Workers, x \in Bodies : Busy(g, x)' =>
          x \notin Queued \union Scanned /\ \A h \in Workers : Busy(h, x)' => h = g
    BY <1>0, <2>2 DEF ClaimInv
  <2> QED
    BY <1>0, <2>1, <2>4, <2>5 DEF ClaimInv
<1> QED
  BY <1>4, <1>5, <1>6 DEF PrefetchInv

LEMMA DequeueKept == ASSUME PrefetchInv, NEW w \in Workers, Dequeue(w) PROVE PrefetchInv'
<1> DEFINE m == Head(bodyQueue)
<1>0. /\ PrefetchTypes /\ HoldInv /\ ClaimInv /\ w \in Fetchers /\ fetch[w] \in FetchRec
      /\ fetch[w].pc = "idle" /\ fetch[w].m = "none" /\ bodyQueue # <<>> /\ bodyQueue' = Tail(bodyQueue)
      /\ UNCHANGED <<claimed, failures, scan, cmdMu>>
  BY DEF PrefetchInv, PrefetchTypes, Fetchers, Dequeue
<1>1. /\ m \in Bodies /\ m \in Queued /\ Queued' = Queued \ {m} /\ IsInjective(bodyQueue')
      /\ bodyQueue' \in Seq(Bodies) /\ Len(bodyQueue') = Len(bodyQueue) - 1 /\ Len(bodyQueue) \in Nat
  BY <1>0, HeadTaken DEF PrefetchTypes, ClaimInv, Queued
<1>2. PICK r \in FetchRec : /\ fetch' = [fetch EXCEPT ![w] = r] /\ r.pc \in {"drop", "poll"} /\ r.m = m
                            /\ body' \in [Bodies -> BodyStates]
  <2>1. CASE body[m] = "ready"
    <3> DEFINE r == [pc |-> "drop", m |-> m, ok |-> TRUE, n |-> 0]
    <3>1. fetch' = [fetch EXCEPT ![w] = r] /\ body' = body
      BY <2>1 DEF Dequeue
    <3>2. r \in FetchRec /\ r.pc = "drop" /\ r.m = m
      BY <1>1 DEF FetchRec
    <3> QED
      BY <1>0, <3>1, <3>2 DEF PrefetchTypes
  <2>2. CASE body[m] # "ready"
    <3> DEFINE r == [NoFetch EXCEPT !.pc = "poll", !.m = m]
    <3>1. fetch' = [fetch EXCEPT ![w] = r] /\ SetBodyState({m}, "fetching")
      BY <2>2 DEF Dequeue
    <3>2. r \in FetchRec /\ r.pc = "poll" /\ r.m = m
      BY <1>1 DEF FetchRec, NoFetch
    <3>3. body' \in [Bodies -> BodyStates]
      BY <1>0, <3>1, StateWritten DEF BodyStates
    <3> QED
      BY <3>1, <3>2, <3>3
  <2> QED
    BY <2>1, <2>2
<1> HIDE DEF m
<1>3. /\ fetch' \in [Fetchers -> FetchRec] /\ fetch'[w] = r
      /\ \A g \in Fetchers : g # w => fetch'[g] = fetch[g]
  BY <1>0, <1>2 DEF PrefetchTypes
<1>4. PrefetchTypes'
  <2>1. Len(bodyQueue') <= QueueRoom
    BY <1>0, <1>1, PrefetchAssumption DEF PrefetchTypes
  <2> QED
    BY <1>0, <1>1, <1>2, <1>3, <2>1, PrefetchAssumption DEF PrefetchTypes
<1>5. HoldInv'
  BY <1>0, <1>2, <1>3 DEF HoldInv
<1>6. ClaimInv'
  <2>1. Scanned' = Scanned
    BY <1>0 DEF Scanned
  <2>2. \A g \in Workers, x \in Bodies : Busy(g, x)' <=> Busy(g, x) \/ (g = w /\ x = m)
    BY <1>0, <1>2, <1>3, PrefetchAssumption DEF Busy, Fetchers
  <2>3. \A g \in Workers : ~Busy(g, m)
    BY <1>0, <1>1 DEF ClaimInv
  <2>4. m \notin Scanned
    BY <1>0, <1>1 DEF ClaimInv
  <2>5. \A g \in Workers, x \in Bodies : Busy(g, x)' =>
          x \notin Queued' \union Scanned' /\ \A h \in Workers : Busy(h, x)' => h = g
    BY <1>0, <1>1, <2>1, <2>2, <2>3, <2>4 DEF ClaimInv
  <2>6. \A x \in Bodies : x \in claimed' <=> (x \in Queued' \union Scanned' \/ \E g \in Workers : Busy(g, x)')
    <3> SUFFICES ASSUME NEW x \in Bodies
                 PROVE  x \in claimed' <=> (x \in Queued' \union Scanned' \/ \E g \in Workers : Busy(g, x)')
      OBVIOUS
    <3>1. CASE x = m
      BY <1>0, <1>1, <2>2, <3>1 DEF ClaimInv
    <3>2. CASE x # m
      BY <1>0, <1>1, <2>1, <2>2, <3>2 DEF ClaimInv
    <3> QED
      BY <3>1, <3>2
  <2> QED
    BY <1>0, <1>1, <2>1, <2>5, <2>6 DEF ClaimInv
<1> QED
  BY <1>4, <1>5, <1>6 DEF PrefetchInv

\* The claims that are a worker's are not the scan's to change.
Held == claimed \ (Queued \union Scanned)

\* What a step of the scan leaves to be shown.
LEMMA OneScan ==
  ASSUME PrefetchInv, scan' \in ScanRec, scan'.pc \in {"idle", "blocked", "probe"} => scan'.mine = {},
         UNCHANGED <<failures, fetch>>, body' \in [Bodies -> BodyStates],
         cmdMu' \in Fetchers \union {"free", "loop"}, scan'.pc = "probe" <=> cmdMu' = "loop",
         \A f \in Fetchers : cmdMu' = f <=> cmdMu = f,
         bodyQueue' \in Seq(Bodies), Len(bodyQueue') <= QueueRoom, IsInjective(bodyQueue'),
         claimed' = Held \union Queued' \union Scanned',
         Queued' \intersect Scanned' = {}, (Queued' \union Scanned') \intersect Held = {}
  PROVE  PrefetchInv'
<1>0. PrefetchTypes /\ HoldInv /\ ClaimInv
  BY DEF PrefetchInv
<1>1. \A f \in Fetchers, m \in Bodies : Busy(f, m)' <=> Busy(f, m)
  BY DEF Busy
<1>2. Queued' \subseteq Bodies /\ Scanned' \subseteq Bodies
  <2>1. DOMAIN bodyQueue' = 1..Len(bodyQueue') /\ \A i \in 1..Len(bodyQueue') : bodyQueue'[i] \in Bodies
    BY LenProperties, ElementOfSeq
  <2> QED
    BY <2>1 DEF Queued, ToSet, Scanned, ScanRec
<1>3. PrefetchTypes'
  BY <1>0, <1>2 DEF PrefetchTypes, Held
<1>4. HoldInv'
  BY <1>0 DEF HoldInv
<1>5. \A m \in Bodies : m \in Held <=> \E f \in Workers : Busy(f, m)
  BY <1>0 DEF ClaimInv, Held
<1>6. \A f \in Workers, m \in Bodies : Busy(f, m) => m \in Held /\ \A g \in Workers : Busy(g, m) => g = f
  BY <1>0, <1>5 DEF ClaimInv
<1>7. ClaimInv'
  BY <1>1, <1>5, <1>6 DEF ClaimInv, Fetchers
<1> QED
  BY <1>3, <1>4, <1>7 DEF PrefetchInv

LEMMA ScanKept == PrefetchInv /\ ScanStep => PrefetchInv'
<1> SUFFICES ASSUME PrefetchInv, ScanStep PROVE PrefetchInv'
  OBVIOUS
<1>0. /\ PrefetchTypes /\ HoldInv /\ ClaimInv /\ "free" \notin Fetchers /\ "loop" \notin Fetchers
      /\ scan \in ScanRec /\ scan.mine \subseteq Bodies
      /\ NoScan \in ScanRec /\ NoScan.pc = "idle" /\ NoScan.mine = {}
  BY PrefetchAssumption DEF PrefetchInv, PrefetchTypes, ScanRec, Fetchers, NoScan
<1>1. /\ bodyQueue \in Seq(Bodies) /\ Len(bodyQueue) <= QueueRoom /\ IsInjective(bodyQueue)
      /\ Queued \intersect Scanned = {} /\ Queued \union Scanned \subseteq claimed
      /\ (bodyQueue' = bodyQueue => Queued' = Queued)
  <2>1. DOMAIN bodyQueue = 1..Len(bodyQueue) /\ \A i \in 1..Len(bodyQueue) : bodyQueue[i] \in Bodies
    BY <1>0, LenProperties, ElementOfSeq DEF PrefetchTypes
  <2>2. Queued \subseteq Bodies /\ Scanned \subseteq Bodies
    BY <1>0, <2>1 DEF Queued, ToSet, Scanned
  <2> QED
    BY <1>0, <2>2 DEF PrefetchTypes, ClaimInv, Queued
<1>2. UNCHANGED <<failures, fetch>> /\ body' \in [Bodies -> BodyStates]
  <2>1. UNCHANGED <<failures, fetch>>
    BY DEF ScanStep, Probe, ProbeLocks, ListCandidates, Claim, MarkQueued, Push, Release
  <2>2. CASE UNCHANGED body
    BY <1>0, <2>1, <2>2 DEF PrefetchTypes
  <2>3. CASE MarkQueued /\ ~UNCHANGED body
    <3>1. SetBodyState(scan.mine, "queued") /\ "queued" \in BodyStates
      BY <2>3 DEF MarkQueued, BodyStates
    <3> QED
      BY <1>0, <2>1, <3>1, StateWritten
  <2>4. CASE Release
    <3>1. SetBodyState(scan.mine, "metadata") /\ "metadata" \in BodyStates
      BY <2>4 DEF Release, BodyStates
    <3> QED
      BY <1>0, <2>1, <3>1, StateWritten
  <2> QED
    BY <2>2, <2>3, <2>4 DEF ScanStep, Probe, ProbeLocks, ListCandidates, Claim, Push
<1>3. CASE Probe \/ ProbeLocks
  <2>1. /\ UNCHANGED <<claimed, bodyQueue>> /\ scan.pc \in {"idle", "blocked"} /\ scan.mine = {}
    BY <1>0, <1>3 DEF Probe, ProbeLocks, PrefetchTypes
  <2>2. /\ scan' \in ScanRec /\ scan'.mine = {}
        /\ \/ scan'.pc = "blocked" /\ cmdMu' = cmdMu
           \/ scan'.pc = "probe" /\ cmdMu' = "loop" /\ cmdMu = "free"
    <3>1. CASE Probe
      BY <1>0, <3>1 DEF Probe, ScanRec
    <3>2. CASE ProbeLocks
      BY <1>0, <2>1, <3>2 DEF ProbeLocks, ScanRec
    <3> QED
      BY <1>3, <3>1, <3>2
  <2>3. /\ cmdMu' \in Fetchers \union {"free", "loop"} /\ (scan'.pc = "probe" <=> cmdMu' = "loop")
        /\ \A f \in Fetchers : cmdMu' = f <=> cmdMu = f
    BY <1>0, <2>1, <2>2 DEF HoldInv, PrefetchTypes
  <2>4. Scanned = {} /\ Scanned' = {}
    BY <2>1, <2>2 DEF Scanned
  <2> QED
    BY <1>1, <1>2, <2>1, <2>2, <2>3, <2>4, OneScan DEF Held
<1>4. CASE ListCandidates
  <2>1. /\ UNCHANGED <<claimed, bodyQueue>> /\ cmdMu' = "free" /\ cmdMu = "loop" /\ scan.mine = {}
        /\ scan' = [pc |-> "claim", mine |-> {b \in Bodies : body[b] # "ready"}]
    BY <1>0, <1>4 DEF ListCandidates, PrefetchTypes, HoldInv
  <2>2. scan' \in ScanRec /\ scan'.pc = "claim"
    BY <2>1 DEF ScanRec
  <2>3. Scanned = {} /\ Scanned' = {}
    BY <2>1, <2>2 DEF Scanned
  <2> QED
    BY <1>0, <1>1, <1>2, <2>1, <2>2, <2>3, OneScan DEF Held
<1>5. CASE Claim
  <2> DEFINE mine == {m \in scan.mine : failures[m] < maxBodyAttempts /\ m \notin claimed}
  <2>1. /\ UNCHANGED <<bodyQueue, cmdMu>> /\ scan.pc = "claim" /\ claimed' = claimed \union mine
        /\ scan' = IF mine = {} THEN NoScan ELSE [pc |-> "mark", mine |-> mine]
    BY <1>5 DEF Claim
  <2>2. mine \subseteq Bodies /\ mine \intersect claimed = {} /\ Scanned = {}
    BY <1>0, <2>1 DEF Scanned
  <2> HIDE DEF mine
  <2>3. scan' \in ScanRec /\ scan'.mine = mine /\ scan'.pc \in {"idle", "mark"} /\ (scan'.pc = "idle" => mine = {})
    BY <1>0, <2>1, <2>2 DEF ScanRec
  <2>4. Scanned' = mine
    BY <2>3 DEF Scanned
  <2>5. cmdMu' \in Fetchers \union {"free", "loop"} /\ cmdMu' # "loop"
    BY <1>0, <2>1 DEF PrefetchTypes, HoldInv
  <2> QED
    BY <1>1, <1>2, <2>1, <2>2, <2>3, <2>4, <2>5, OneScan DEF Held
<1>6. CASE MarkQueued \/ Release
  <2>1. /\ UNCHANGED <<bodyQueue, cmdMu>> /\ scan.pc \in {"mark", "release"} /\ Scanned = scan.mine
    BY <1>6 DEF MarkQueued, Release, Scanned
  <2>2. cmdMu' \in Fetchers \union {"free", "loop"} /\ cmdMu' # "loop"
    BY <1>0, <2>1 DEF PrefetchTypes, HoldInv
  <2>3. CASE scan' = [scan EXCEPT !.pc = "push"] /\ claimed' = claimed
    <3>1. scan' \in ScanRec /\ scan'.pc = "push" /\ scan'.mine = scan.mine
      BY <1>0, <2>3 DEF ScanRec
    <3>2. Scanned' = Scanned
      BY <2>1, <3>1 DEF Scanned
    <3> QED
      BY <1>1, <1>2, <2>1, <2>2, <2>3, <3>1, <3>2, OneScan DEF Held
  <2>4. CASE scan' = NoScan /\ claimed' = claimed \ scan.mine
    <3>1. Scanned' = {}
      BY <1>0, <2>4 DEF Scanned
    <3>2. claimed' = Held \union Queued
      BY <1>1, <2>1, <2>4 DEF Held
    <3> QED
      BY <1>0, <1>1, <1>2, <2>1, <2>2, <2>4, <3>1, <3>2, OneScan DEF Held
  <2> QED
    BY <1>6, <2>3, <2>4 DEF MarkQueued, Release
<1>7. CASE Push
  <2>1. /\ UNCHANGED <<claimed, cmdMu>> /\ scan.pc = "push" /\ Scanned = scan.mine
    BY <1>7 DEF Push, Scanned
  <2>2. cmdMu' \in Fetchers \union {"free", "loop"} /\ cmdMu' # "loop"
    BY <1>0, <2>1 DEF PrefetchTypes, HoldInv
  <2>3. CASE scan.mine = {} /\ scan' = NoScan /\ UNCHANGED bodyQueue
    <3>1. Scanned' = {}
      BY <1>0, <2>3 DEF Scanned
    <3> QED
      BY <1>0, <1>1, <1>2, <2>1, <2>2, <2>3, <3>1, OneScan DEF Held
  <2>4. ASSUME NEW m \in scan.mine, Len(bodyQueue) < QueueRoom, bodyQueue' = Append(bodyQueue, m),
               scan' = [scan EXCEPT !.mine = @ \ {m}]
        PROVE  PrefetchInv'
    <3>1. scan' \in ScanRec /\ scan'.pc = "push" /\ scan'.mine = scan.mine \ {m}
      BY <1>0, <2>1, <2>4 DEF ScanRec
    <3>2. Scanned' = Scanned \ {m}
      BY <2>1, <3>1 DEF Scanned
    <3>3. m \in Bodies /\ m \notin ToSet(bodyQueue) /\ m \in Scanned
      BY <1>0, <1>1, <2>1 DEF Queued
    <3>4. Queued' = Queued \union {m} /\ IsInjective(bodyQueue')
      BY <1>1, <2>4, <3>3, AppendedOnce DEF Queued
    <3>5. bodyQueue' \in Seq(Bodies) /\ Len(bodyQueue') <= QueueRoom
      <4>1. Len(bodyQueue') = Len(bodyQueue) + 1 /\ Len(bodyQueue) \in Nat
        BY <1>1, <2>4, <3>3, AppendProperties, LenProperties
      <4>2. bodyQueue' \in Seq(Bodies)
        BY <1>1, <2>4, <3>3, AppendProperties
      <4> QED
        BY <2>4, <4>1, <4>2, PrefetchAssumption
    <3>6. /\ claimed' = Held \union Queued' \union Scanned'
          /\ Queued' \intersect Scanned' = {} /\ (Queued' \union Scanned') \intersect Held = {}
      BY <1>1, <2>1, <3>2, <3>3, <3>4 DEF Held
    <3> QED
      BY <1>2, <2>1, <2>2, <3>1, <3>4, <3>5, <3>6, OneScan
  <2>5. CASE scan' = [scan EXCEPT !.pc = "release"] /\ UNCHANGED bodyQueue
    <3>1. scan' \in ScanRec /\ scan'.pc = "release" /\ scan'.mine = scan.mine
      BY <1>0, <2>5 DEF ScanRec
    <3>2. Scanned' = Scanned
      BY <2>1, <3>1 DEF Scanned
    <3> QED
      BY <1>1, <1>2, <2>1, <2>2, <2>5, <3>1, <3>2, OneScan DEF Held
  <2> QED
    BY <1>7, <2>3, <2>4, <2>5 DEF Push
<1> QED
  BY <1>3, <1>4, <1>5, <1>6, <1>7 DEF ScanStep

LEMMA PrefetchCrashKept == PrefetchInv /\ PrefetchCrash => PrefetchInv'
<1> SUFFICES ASSUME PrefetchInv, PrefetchCrash PROVE PrefetchInv'
  OBVIOUS
<1>1. /\ NoFetch \in FetchRec /\ NoFetch.pc = "idle" /\ NoFetch.m = "none"
      /\ NoScan \in ScanRec /\ NoScan.pc = "idle" /\ NoScan.mine = {}
  BY DEF NoFetch, FetchRec, NoScan, ScanRec
<1>2. /\ fetch' = [f \in Fetchers |-> NoFetch] /\ scan' = NoScan /\ bodyQueue' = <<>> /\ claimed' = {}
      /\ cmdMu' = "free" /\ failures' = [b \in Bodies |-> 0] /\ body' = body
  BY DEF PrefetchCrash
<1>3. PrefetchTypes'
  BY <1>1, <1>2, PrefetchAssumption DEF PrefetchInv, PrefetchTypes
<1>4. HoldInv'
  BY <1>1, <1>2, PrefetchAssumption DEF HoldInv, Fetchers
<1>5. ClaimInv'
  <2>1. IsInjective(<<>>) /\ ToSet(<<>>) = {}
    BY DEF IsInjective, ToSet
  <2> QED
    BY <1>1, <1>2, <2>1, PrefetchAssumption DEF ClaimInv, Queued, Scanned, Busy, Fetchers
<1> QED
  BY <1>3, <1>4, <1>5 DEF PrefetchInv

LEMMA PrefetchKept == PrefetchInv /\ [PrefetchNext]_prefetchVars => PrefetchInv'
<1> SUFFICES ASSUME PrefetchInv, [PrefetchNext]_prefetchVars PROVE PrefetchInv'
  OBVIOUS
<1>1. CASE ScanStep \/ PrefetchCrash
  BY <1>1, ScanKept, PrefetchCrashKept
<1>2. ASSUME NEW w \in Workers, WorkerStep(w) PROVE PrefetchInv'
  <2>1. w \in Fetchers
    BY DEF Fetchers
  <2> QED
    BY <1>2, <2>1, DequeueKept, FetchKept, LockingKept, DropKept, RecordKept DEF WorkerStep
<1>3. ASSUME NEW o \in Openers, Open(o) \/ Lock(o) \/ FetchStep(o) PROVE PrefetchInv'
  <2>1. o \in Fetchers
    BY DEF Fetchers
  <2> QED
    BY <1>3, <2>1, OpenKept, FetchKept, LockingKept
<1>4. CASE UNCHANGED prefetchVars
  BY <1>4 DEF prefetchVars, PrefetchInv, PrefetchTypes, HoldInv, ClaimInv, Queued, Scanned, Busy
<1> QED
  BY <1>1, <1>2, <1>3, <1>4 DEF PrefetchNext

LEMMA PrefetchAlways == PrefetchSpec => []PrefetchInv
BY PrefetchInitial, PrefetchKept, PTL DEF PrefetchSpec

\* The types; the queue within its capacity; and the command connection held exactly
\* by the fetch or the probe that is in its critical section.
THEOREM PrefetchTypeCorrect == PrefetchSpec => []PrefetchTypeOK
<1>1. ASSUME PrefetchInv PROVE PrefetchTypeOK
  <2>1. {f \in Fetchers : fetch[f].pc = "fetch"} \union {x \in {"loop"} : scan.pc = "probe"} = {cmdMu} \ {"free"}
    BY <1>1, PrefetchAssumption DEF PrefetchInv, HoldInv, PrefetchTypes, Fetchers
  <2> QED
    BY <1>1, <2>1 DEF PrefetchInv, PrefetchTypes, PrefetchTypeOK
<1> QED
  BY <1>1, PrefetchAlways, PTL

\* A claimed message is in the queue, with the scan or with one worker, in exactly one
\* of these places; and what is in one of them is claimed.
THEOREM ClaimsInHand == PrefetchSpec => []ClaimsAreWork
<1>1. ASSUME PrefetchInv PROVE ClaimsAreWork
  <2>0. ClaimInv
    BY <1>1 DEF PrefetchInv
  <2> SUFFICES ASSUME NEW m \in Bodies
               PROVE  (IF m \in claimed THEN 1 ELSE 0) =
                        Cardinality(Hands(m)) + (IF m \in ToSet(bodyQueue) THEN 1 ELSE 0)
                          + (IF scan.pc # "claim" /\ m \in scan.mine THEN 1 ELSE 0)
    BY <2>0 DEF ClaimsAreWork, ClaimInv
  <2>1. \A f \in Workers : f \in Hands(m) <=> f \in Fetchers /\ Busy(f, m)
    BY DEF Hands, Busy, Fetchers
  <2>2. (m \in Queued <=> m \in ToSet(bodyQueue)) /\ (m \in Scanned <=> scan.pc # "claim" /\ m \in scan.mine)
    BY DEF Queued, Scanned
  <2>3. CASE \E f \in Workers : Busy(f, m)
    <3>1. PICK f \in Workers : Busy(f, m)
      BY <2>3
    <3>2. Hands(m) = {f} /\ m \notin Queued /\ m \notin Scanned /\ m \in claimed
      BY <2>0, <3>1 DEF ClaimInv, Hands, Busy
    <3>3. Cardinality(Hands(m)) = 1
      BY <3>2, FS_Singleton
    <3> QED
      BY <2>2, <3>2, <3>3
  <2>4. CASE ~ \E f \in Workers : Busy(f, m)
    <3>1. Hands(m) = {}
      BY <2>4 DEF Hands, Busy
    <3>2. Cardinality(Hands(m)) = 0
      BY <3>1, FS_EmptySet
    <3>3. (m \in claimed <=> (m \in Queued \/ m \in Scanned)) /\ ~(m \in Queued /\ m \in Scanned)
      BY <2>0, <2>4 DEF ClaimInv
    <3> QED
      BY <2>2, <3>2, <3>3
  <2> QED
    BY <2>3, <2>4
<1> QED
  BY <1>1, PrefetchAlways, PTL

\* No prefetch takes the connection while a probe or an opened message waits for it.
THEOREM ForegroundIsFirst == PrefetchSpec => ForegroundFirst
<1>1. ASSUME [PrefetchNext]_prefetchVars, NEW w \in Workers, cmdMu' = w, cmdMu # w PROVE Urgent = {}
  <2>1. w # "free" /\ w # "loop" /\ w \notin Openers
    BY PrefetchAssumption
  <2>2. ASSUME NEW v \in Workers, WorkerStep(v) PROVE Urgent = {}
    BY <1>1, <2>1, <2>2 DEF WorkerStep, FetchStep, Dequeue, FetchBody, Undo, Poll, TimesOut, LockBackground,
       DropClaim, RecordBodyAttempt
  <2>3. ASSUME NEW o \in Openers, Open(o) \/ Lock(o) \/ FetchStep(o) PROVE Urgent = {}
    BY <1>1, <2>1, <2>3 DEF FetchStep, Open, Lock, FetchBody, Undo
  <2>4. ~ScanStep /\ ~PrefetchCrash
    BY <1>1, <2>1 DEF ScanStep, Probe, ProbeLocks, ListCandidates, Claim, MarkQueued, Push, Release, PrefetchCrash
  <2>5. ~UNCHANGED prefetchVars
    BY <1>1 DEF prefetchVars
  <2> QED
    BY <1>1, <2>2, <2>3, <2>4, <2>5 DEF PrefetchNext
<1>2. [PrefetchNext]_prefetchVars =>
        [\A w \in Workers : cmdMu' = w /\ cmdMu # w => Urgent = {}]_prefetchVars
  BY <1>1
<1> QED
  BY <1>2, PTL DEF PrefetchSpec, ForegroundFirst

\* A body that has arrived stays, whatever slower fetch of it fails afterwards, and
\* after a crash too.
THEOREM BodiesStay == PrefetchSpec => BodyStays
<1>1. ASSUME PrefetchInv, [PrefetchNext]_prefetchVars, NEW m \in Bodies, body[m] = "ready"
      PROVE  body'[m] = "ready"
  <2>1. body \in [Bodies -> BodyStates]
    BY <1>1 DEF PrefetchInv, PrefetchTypes
  <2>2. ASSUME NEW ms, NEW st, SetBodyState(ms, st) PROVE body'[m] = "ready"
    BY <1>1, <2>2 DEF SetBodyState, BodyState
  <2>3. ASSUME NEW f, FetchStep(f) PROVE body'[m] = "ready"
    <3>1. CASE Undo(f)
      BY <2>2, <3>1 DEF Undo
    <3>2. CASE FetchBody(f)
      BY <1>1, <2>1, <3>2 DEF FetchBody
    <3> QED
      BY <2>3, <3>1, <3>2 DEF FetchStep
  <2>4. CASE ScanStep
    <3>1. CASE MarkQueued
      BY <1>1, <2>2, <3>1 DEF MarkQueued
    <3>2. CASE Release
      BY <2>2, <3>2 DEF Release
    <3> QED
      BY <1>1, <2>4, <3>1, <3>2 DEF ScanStep, Probe, ProbeLocks, ListCandidates, Claim, Push
  <2>5. ASSUME NEW w \in Workers, WorkerStep(w) PROVE body'[m] = "ready"
    <3>1. CASE Dequeue(w)
      BY <1>1, <2>2, <3>1 DEF Dequeue
    <3> QED
      BY <1>1, <2>3, <2>5, <3>1 DEF WorkerStep, Poll, TimesOut, LockBackground, DropClaim, RecordBodyAttempt
  <2>6. ASSUME NEW o \in Openers, Open(o) \/ Lock(o) \/ FetchStep(o) PROVE body'[m] = "ready"
    <3>1. CASE Open(o)
      BY <2>2, <3>1 DEF Open
    <3> QED
      BY <1>1, <2>3, <2>6, <3>1 DEF Lock
  <2>7. CASE PrefetchCrash \/ UNCHANGED prefetchVars
    BY <1>1, <2>7 DEF PrefetchCrash, prefetchVars
  <2> QED
    BY <1>1, <2>4, <2>5, <2>6, <2>7 DEF PrefetchNext
<1>2. PrefetchInv /\ [PrefetchNext]_prefetchVars =>
        [\A m \in Bodies : body[m] = "ready" => body'[m] = "ready"]_prefetchVars
  BY <1>1
<1> QED
  BY <1>2, PrefetchAlways, PTL DEF PrefetchSpec, BodyStays

-----------------------------------------------------------------------------
(* The blob store.                                                         *)

Ref == [c : Contents, n : Nat]
WorkRec ==
  [pc : {"idle", "renamed", "refer", "total", "cached", "file", "row", "list", "sweeprow", "sweepfile"},
   blob : [c : Contents \union {"none"}, n : Nat], mine : BOOLEAN, list : Seq(Ref), total : Int]
BlobTypes ==
  /\ files \subseteq Contents /\ torn \subseteq Contents /\ drafts \subseteq Composers
  /\ rows \in [Contents -> [tier : {"none", "cache", "durable"}, n : Nat, old : BOOLEAN]]
  /\ recency \in Seq(Contents) /\ ToSet(recency) = Cached /\ IsInjective(recency)
  /\ attached \in [Composers -> Ref \union {NoBlob}] /\ linked \in [Parts -> Ref \union {NoBlob}]
  /\ work \in [Jobs -> WorkRec]
  /\ \A w \in Composers \union Parts : work[w].pc # "idle" => work[w].blob \in Ref
  /\ \A d \in Composers : work[d].pc \in {"idle", "renamed", "refer"}
  /\ \A w \in Jobs : work[w].pc \in {"row", "sweepfile"} => work[w].list # <<>>
\* A reference is to the row that is there, a draft's to a durable one.
RefInv ==
  /\ \A d \in Composers : attached[d] # NoBlob =>
       d \in drafts /\ Live(attached[d]) /\ rows[attached[d].c].tier = "durable"
  /\ \A p \in Parts : linked[p] # NoBlob => Live(linked[p])
\* What a removal lists and what an upload is about to refer to are rows there have
\* been; an upload that made its row has it still, out of the reach of every removal.
Listed(w) == ToSet(work[w].list)
HandInv ==
  /\ \A w \in Jobs : \A b \in Listed(w) : b.n <= rows[b.c].n
  /\ \A d \in Composers : work[d].pc = "refer" =>
       LET b == work[d].blob IN
       /\ b.n <= rows[b.c].n /\ (Live(b) => rows[b.c].tier = "durable")
       /\ work[d].mine => Live(b) /\ ~rows[b.c].old /\ \A w \in Jobs : b \notin Listed(w)
\* A file about to be indexed and a durable row's are there.
BytesInv ==
  /\ \A c \in Contents \ torn : rows[c].tier = "durable" \/ Committing(c) # {} => c \in files
  /\ RowsHaveBytes
BlobInv == BlobTypes /\ RefInv /\ HandInv /\ BytesInv /\ FilesHaveOwners

LEMMA BlobInitial == BlobInit => BlobInv
<1> SUFFICES ASSUME BlobInit PROVE BlobInv
  OBVIOUS
<1>1. /\ files = {} /\ rows = [c \in Contents |-> NoRow] /\ recency = <<>> /\ drafts = Composers /\ torn = {}
      /\ attached = [d \in Composers |-> NoBlob] /\ linked = [p \in Parts |-> NoBlob]
      /\ work = [w \in Jobs |-> Idle]
  BY DEF BlobInit
<1>2. /\ NoRow \in [tier : {"none", "cache", "durable"}, n : Nat, old : BOOLEAN] /\ NoRow.tier = "none"
      /\ Idle \in WorkRec /\ Idle.pc = "idle" /\ Idle.list = <<>>
  BY DEF NoRow, Idle, NoBlob, WorkRec
<1>3. ToSet(<<>>) = {} /\ IsInjective(<<>>) /\ Cached = {}
  BY <1>1, <1>2 DEF ToSet, IsInjective, Cached
<1>4. BlobTypes
  <2>1. Composers \union Parts \subseteq Jobs
    BY DEF Jobs
  <2>2. attached \in [Composers -> Ref \union {NoBlob}] /\ linked \in [Parts -> Ref \union {NoBlob}]
    BY <1>1
  <2>3. \A w \in Jobs : work[w] = Idle
    BY <1>1
  <2>4. work \in [Jobs -> WorkRec] /\ rows \in [Contents -> [tier : {"none", "cache", "durable"}, n : Nat, old : BOOLEAN]]
    BY <1>1, <1>2
  <2> QED
    BY <1>1, <1>2, <1>3, <2>1, <2>2, <2>3, <2>4 DEF BlobTypes
<1>5. RefInv
  BY <1>1 DEF RefInv
<1>6. HandInv
  BY <1>1, <1>2, <1>3 DEF HandInv, Listed, Jobs
<1>7. BytesInv
  BY <1>1, <1>2 DEF BytesInv, Committing, RowsHaveBytes
<1> QED
  BY <1>1, <1>4, <1>5, <1>6, <1>7 DEF BlobInv, FilesHaveOwners

LEMMA JobNames ==
  /\ maint \notin Composers /\ maint \notin Parts /\ Composers \intersect Parts = {}
  /\ Jobs = Composers \union Parts \union {maint} /\ "none" \notin Contents
BY BlobAssumption DEF Jobs, maint

\* Two references to a row that is there are one when they are to one content.
LEMMA OneRow ==
  ASSUME NEW a \in Ref, NEW b \in Ref, a.c = b.c, Live(a), Live(b)
  PROVE  a = b
<1>1. a = [c |-> a.c, n |-> a.n] /\ b = [c |-> b.c, n |-> b.n]
  BY DEF Ref
<1> QED
  BY <1>1 DEF Live

LEMMA HeadListed ==
  ASSUME BlobTypes, NEW w \in Jobs, work[w].list # <<>>
  PROVE  /\ Head(work[w].list) \in Ref /\ Head(work[w].list) \in Listed(w)
         /\ Tail(work[w].list) \in Seq(Ref) /\ ToSet(Tail(work[w].list)) \subseteq Listed(w)
<1> DEFINE s == work[w].list
<1>1. s \in Seq(Ref) /\ s # <<>>
  BY DEF BlobTypes, WorkRec
<1> HIDE DEF s
<1>2. /\ DOMAIN s = 1..Len(s) /\ Len(s) \in Nat \ {0} /\ Head(s) = s[1] /\ Head(s) \in Ref
      /\ Tail(s) \in Seq(Ref) /\ DOMAIN Tail(s) = 1..(Len(s) - 1)
      /\ \A i \in 1..(Len(s) - 1) : Tail(s)[i] = s[i + 1] /\ i + 1 \in 1..Len(s)
  BY <1>1, HeadTailProperties, EmptySeq
<1>3. Head(s) \in ToSet(s) /\ ToSet(Tail(s)) \subseteq ToSet(s)
  BY <1>2 DEF ToSet
<1> QED
  BY <1>2, <1>3 DEF s, Listed

\* A step of one request, or of the ticker, that leaves the index alone.
LEMMA OneJob ==
  ASSUME BlobInv, NEW w \in Jobs, NEW r \in WorkRec, work' = [work EXCEPT ![w] = r],
         UNCHANGED <<rows, recency, drafts>>, RefInv',
         attached' \in [Composers -> Ref \union {NoBlob}], linked' \in [Parts -> Ref \union {NoBlob}],
         files' \subseteq Contents, torn \subseteq torn', torn' \subseteq Contents,
         w # maint /\ r.pc # "idle" => r.blob \in Ref,
         w \in Composers => r.pc \in {"idle", "renamed"},
         r.pc \in {"row", "sweepfile"} => r.list # <<>>,
         \A b \in ToSet(r.list) :
           b \in Listed(w) \/ (Live(b) /\ b.n \in Nat /\ (rows[b.c].tier = "cache" \/ rows[b.c].old)),
         \A x \in (files \ files') \ torn' :
           /\ rows[x].tier # "durable" /\ Committing(x) \subseteq {w}
           /\ rows[x].tier # "none" => r.pc = "row" /\ Head(r.list) = Blob(x),
         \A x \in Contents \ torn' :
           /\ r.pc = "renamed" /\ r.blob.c = x => x \in files'
           /\ work[w].pc = "row" /\ Head(work[w].list) = Blob(x) => x \in files' \/ rows[x].tier = "none"
           /\ x \in files' => \/ /\ x \in files /\ w \notin Committing(x)
                                 /\ ~(w = maint /\ work[w].pc = "sweepfile" /\ Head(work[w].list).c = x)
                              \/ rows[x].tier # "none"
                              \/ r.pc = "renamed" /\ r.blob.c = x
  PROVE  BlobInv'
<1>0. /\ BlobTypes /\ RefInv /\ HandInv /\ BytesInv /\ FilesHaveOwners /\ work \in [Jobs -> WorkRec]
      /\ work'[w] = r /\ \A v \in Jobs : v # w => work'[v] = work[v]
  BY DEF BlobInv, BlobTypes
<1>1. /\ Cached' = Cached /\ \A b : Live(b)' <=> Live(b)
      /\ \A x : Blob(x)' = Blob(x)
  BY DEF Cached, Live, Blob
<1>2. \A x : /\ w \in Committing(x)' <=> r.pc = "renamed" /\ r.blob.c = x
             /\ \A v \in Jobs : v # w => (v \in Committing(x)' <=> v \in Committing(x))
  BY <1>0 DEF Committing
<1>3. BlobTypes'
  <2>1. work' \in [Jobs -> WorkRec]
    BY <1>0
  <2>2. /\ \A v \in Composers \union Parts : work'[v].pc # "idle" => work'[v].blob \in Ref
        /\ \A d \in Composers : work'[d].pc \in {"idle", "renamed", "refer"}
        /\ \A v \in Jobs : work'[v].pc \in {"row", "sweepfile"} => work'[v].list # <<>>
    BY <1>0, JobNames DEF BlobTypes
  <2> QED
    BY <1>0, <1>1, <2>1, <2>2 DEF BlobTypes
<1>4. HandInv'
  <2>1. \A b \in ToSet(r.list) : b.n <= rows[b.c].n
    BY <1>0 DEF HandInv, Live
  <2>2. ASSUME NEW d \in Composers, work'[d].pc = "refer"
        PROVE  /\ d # w /\ work'[d] = work[d] /\ work[d].pc = "refer"
               /\ work[d].mine => \A b \in ToSet(r.list) : b # work[d].blob
    <3>1. d # w /\ work'[d] = work[d] /\ d \in Jobs
      BY <1>0, <2>2, JobNames
    <3>2. work[d].mine => Live(work[d].blob) /\ rows[work[d].blob.c].tier = "durable" /\ ~rows[work[d].blob.c].old
      BY <1>0, <2>2, <3>1 DEF HandInv
    <3>3. work[d].mine => \A b \in Listed(w) : b # work[d].blob
      BY <1>0, <2>2, <3>1 DEF HandInv
    <3> QED
      BY <2>2, <3>1, <3>2, <3>3
  <2>3. \A v \in Jobs : Listed(v)' = IF v = w THEN ToSet(r.list) ELSE Listed(v)
    BY <1>0 DEF Listed
  <2> QED
    BY <1>0, <1>1, <2>1, <2>2, <2>3 DEF HandInv
<1>5. BytesInv'
  <2>1. ASSUME NEW x \in Contents \ torn', rows[x].tier = "durable" \/ Committing(x)' # {} PROVE x \in files'
    BY <1>0, <1>2, <2>1 DEF BytesInv, Committing
  <2>2. ASSUME NEW x \in Contents \ torn', rows[x].tier # "none", x \notin files'
        PROVE  \E v \in Jobs : work'[v].pc = "row" /\ Head(work'[v].list) = Blob(x)
    <3>1. CASE x \in files
      BY <1>0, <2>2, <3>1
    <3>2. CASE x \notin files
      <4>1. PICK v \in Jobs : work[v].pc = "row" /\ Head(work[v].list) = Blob(x)
        BY <1>0, <2>2, <3>2 DEF BytesInv, RowsHaveBytes
      <4> QED
        BY <1>0, <2>2, <4>1
    <3> QED
      BY <3>1, <3>2
  <2> QED
    BY <1>0, <1>1, <2>1, <2>2 DEF BytesInv, RowsHaveBytes
<1>6. FilesHaveOwners'
  <2> SUFFICES ASSUME NEW x \in files' \ torn', rows[x].tier = "none", Committing(x)' = {}
               PROVE  work'[maint].pc = "sweepfile" /\ Head(work'[maint].list).c = x
    BY <1>0 DEF FilesHaveOwners
  <2>1. x \in files /\ ~(r.pc = "renamed" /\ r.blob.c = x) /\ w \notin Committing(x)
        /\ ~(w = maint /\ work[w].pc = "sweepfile" /\ Head(work[w].list).c = x)
    BY <1>0, <1>2
  <2>2. Committing(x) = {}
    BY <1>0, <1>2, <2>1 DEF Committing
  <2>3. work[maint].pc = "sweepfile" /\ Head(work[maint].list).c = x /\ maint # w
    BY <1>0, <2>1, <2>2 DEF FilesHaveOwners
  <2> QED
    BY <1>0, <2>3, JobNames
<1> QED
  BY <1>0, <1>3, <1>4, <1>5, <1>6 DEF BlobInv

\* References nobody touches stay good while the index stays.
LEMMA RefsSame == RefInv /\ UNCHANGED <<rows, drafts, attached, linked>> => RefInv'
BY DEF RefInv, Live

LEMMA PutKept ==
  ASSUME BlobInv, NEW w \in Composers \union Parts, (\E c \in Holds[w] : Rename(w, c)) \/ PutFails(w)
  PROVE  BlobInv'
<1>0. /\ BlobTypes /\ RefInv /\ HandInv /\ BytesInv /\ FilesHaveOwners /\ work \in [Jobs -> WorkRec]
      /\ w \in Jobs /\ w # maint /\ Idle \in WorkRec /\ Idle.pc = "idle" /\ Idle.list = <<>> /\ ToSet(<<>>) = {}
  BY JobNames DEF BlobInv, BlobTypes, Idle, NoBlob, WorkRec, ToSet
<1>1. ASSUME NEW c \in Holds[w], Rename(w, c) PROVE BlobInv'
  <2> DEFINE r == [Idle EXCEPT !.pc = "renamed", !.blob = [NoBlob EXCEPT !.c = c]]
  <2>1. c \in Contents
    BY BlobAssumption
  <2>2. r \in WorkRec /\ r.pc = "renamed" /\ r.blob = [c |-> c, n |-> 0] /\ r.list = <<>>
    <3>1. [NoBlob EXCEPT !.c = c] = [c |-> c, n |-> 0]
      BY DEF NoBlob
    <3> QED
      BY <1>0, <2>1, <3>1 DEF Idle, WorkRec
  <2>3. /\ work' = [work EXCEPT ![w] = r] /\ files' = files \union {c} /\ work[w].pc = "idle"
        /\ UNCHANGED <<rows, recency, drafts, attached, linked, torn>>
    BY <1>1 DEF Rename
  <2> HIDE DEF r
  <2>4. r.blob \in Ref /\ r.blob.c = c
    BY <2>1, <2>2 DEF Ref
  <2>5. \A x : w \notin Committing(x)
    BY <2>3 DEF Committing
  <2>6. /\ files' \subseteq Contents /\ torn' \subseteq Contents /\ RefInv'
        /\ attached' \in [Composers -> Ref \union {NoBlob}] /\ linked' \in [Parts -> Ref \union {NoBlob}]
    BY <1>0, <2>1, <2>3, RefsSame DEF BlobTypes
  <2> QED
    BY <1>0, <2>2, <2>3, <2>4, <2>5, <2>6, OneJob
<1>2. CASE PutFails(w)
  <2> DEFINE c == work[w].blob.c
  <2>1. /\ work' = [work EXCEPT ![w] = Idle] /\ files' = files \ {c} /\ work[w].pc = "renamed"
        /\ Torn(c, rows[c].tier # "none" \/ Committing(c) # {w})
        /\ UNCHANGED <<rows, recency, drafts, attached, linked>>
    BY <1>2 DEF PutFails
  <2>2. c \in Contents
    BY <1>0, <2>1 DEF BlobTypes, Ref
  <2>3. /\ torn \subseteq torn' /\ torn' \subseteq torn \union {c}
        /\ c \notin torn' => rows[c].tier = "none" /\ Committing(c) = {w}
    BY <2>1 DEF Torn
  <2>4. \A x : w \in Committing(x) <=> x = c
    BY <1>0, <2>1 DEF Committing
  <2>5. /\ files' \subseteq Contents /\ torn' \subseteq Contents /\ RefInv'
        /\ attached' \in [Composers -> Ref \union {NoBlob}] /\ linked' \in [Parts -> Ref \union {NoBlob}]
    BY <1>0, <2>1, <2>2, <2>3, RefsSame DEF BlobTypes
  <2> HIDE DEF c
  <2> QED
    BY <1>0, <2>1, <2>3, <2>4, <2>5, OneJob
<1> QED
  BY <1>1, <1>2

\* AddDraftAttachment and UpdateAttachmentBlob: what they refer to is checked as it is written.
LEMMA ReferKept ==
  ASSUME BlobInv, NEW w \in Composers \union Parts, (w \in Composers /\ Attach(w)) \/ (w \in Parts /\ Link(w))
  PROVE  BlobInv'
<1>0. /\ BlobTypes /\ RefInv /\ HandInv /\ BytesInv /\ FilesHaveOwners /\ work \in [Jobs -> WorkRec]
      /\ w \in Jobs /\ w # maint /\ Idle \in WorkRec /\ Idle.pc = "idle" /\ Idle.list = <<>> /\ ToSet(<<>>) = {}
  BY JobNames DEF BlobInv, BlobTypes, Idle, NoBlob, WorkRec, ToSet
<1>1. /\ work[w].pc = "refer" /\ work' = [work EXCEPT ![w] = Idle]
      /\ UNCHANGED <<files, rows, recency, drafts, torn>>
  BY DEF Attach, Link
<1>2. work[w].blob \in Ref /\ work[w].blob # NoBlob
  BY <1>0, <1>1, JobNames DEF BlobTypes, Ref, NoBlob
<1>3. /\ attached' \in [Composers -> Ref \union {NoBlob}] /\ linked' \in [Parts -> Ref \union {NoBlob}] /\ RefInv'
  <2>1. CASE w \in Composers /\ Attach(w)
    <3>1. Live(work[w].blob) => rows[work[w].blob.c].tier = "durable"
      BY <1>0, <1>1, <2>1 DEF HandInv
    <3>2. /\ linked' = linked
          /\ attached' = IF w \in drafts /\ Live(work[w].blob) THEN [attached EXCEPT ![w] = work[w].blob] ELSE attached
      BY <2>1 DEF Attach
    <3>3. attached \in [Composers -> Ref \union {NoBlob}] /\ linked \in [Parts -> Ref \union {NoBlob}]
      BY <1>0 DEF BlobTypes
    <3>4. attached' \in [Composers -> Ref \union {NoBlob}] /\ linked' \in [Parts -> Ref \union {NoBlob}]
      BY <1>2, <2>1, <3>2, <3>3
    <3>5. \A b : Live(b)' <=> Live(b)
      BY <1>1 DEF Live
    <3>6. ASSUME NEW d \in Composers, attached'[d] # NoBlob
          PROVE  d \in drafts /\ Live(attached'[d]) /\ rows[attached'[d].c].tier = "durable"
      <4>1. CASE attached'[d] = attached[d]
        BY <1>0, <3>6, <4>1 DEF RefInv
      <4>2. CASE d = w /\ w \in drafts /\ Live(work[w].blob) /\ attached'[d] = work[w].blob
        BY <3>1, <4>2
      <4> QED
        BY <3>2, <3>3, <4>1, <4>2
    <3> QED
      BY <1>0, <1>1, <3>2, <3>4, <3>5, <3>6 DEF RefInv
  <2>2. CASE w \in Parts /\ Link(w)
    <3>2. /\ attached' = attached
          /\ linked' = IF Live(work[w].blob) THEN [linked EXCEPT ![w] = work[w].blob] ELSE linked
      BY <2>2 DEF Link
    <3>3. attached \in [Composers -> Ref \union {NoBlob}] /\ linked \in [Parts -> Ref \union {NoBlob}]
      BY <1>0 DEF BlobTypes
    <3>4. attached' \in [Composers -> Ref \union {NoBlob}] /\ linked' \in [Parts -> Ref \union {NoBlob}]
      BY <1>2, <2>2, <3>2, <3>3
    <3>5. \A b : Live(b)' <=> Live(b)
      BY <1>1 DEF Live
    <3>6. ASSUME NEW p \in Parts, linked'[p] # NoBlob PROVE Live(linked'[p])
      <4>1. CASE linked'[p] = linked[p]
        BY <1>0, <3>6, <4>1 DEF RefInv
      <4>2. CASE Live(work[w].blob) /\ linked'[p] = work[w].blob
        BY <4>2
      <4> QED
        BY <3>2, <3>3, <4>1, <4>2
    <3> QED
      BY <1>0, <1>1, <3>2, <3>4, <3>5, <3>6 DEF RefInv
  <2> QED
    BY <2>1, <2>2
<1>4. \A x : w \notin Committing(x)
  BY <1>1 DEF Committing
<1> QED
  BY <1>0, <1>1, <1>3, <1>4, OneJob DEF BlobTypes

\* CreateBlob: nothing a removal has listed is the row it makes.
LEMMA IndexKept == ASSUME BlobInv, NEW w \in Composers \union Parts, Index(w) PROVE BlobInv'
<1> DEFINE c == work[w].blob.c
           new == rows[c].tier = "none"
           upgrade == rows[c].tier = "cache" /\ w \in Composers
           r == [work[w] EXCEPT !.pc = Next1(w), !.blob = [c |-> c, n |-> rows'[c].n], !.mine = new]
           made == [tier |-> IF w \in Parts THEN "cache" ELSE "durable", n |-> rows[c].n + 1, old |-> FALSE]
<1>0. /\ BlobTypes /\ RefInv /\ HandInv /\ BytesInv /\ FilesHaveOwners /\ work \in [Jobs -> WorkRec]
      /\ w \in Jobs /\ w # maint
      /\ rows \in [Contents -> [tier : {"none", "cache", "durable"}, n : Nat, old : BOOLEAN]]
      /\ recency \in Seq(Contents) /\ ToSet(recency) = Cached /\ IsInjective(recency)
  BY JobNames DEF BlobInv, BlobTypes
<1>1. /\ work[w].pc = "renamed" /\ work' = [work EXCEPT ![w] = r]
      /\ UNCHANGED <<files, drafts, attached, linked, torn>>
      /\ new => rows' = [rows EXCEPT ![c] = made]
      /\ upgrade => rows' = [rows EXCEPT ![c].tier = "durable"]
      /\ ~new /\ ~upgrade => rows' = rows
      /\ new /\ w \in Parts => recency' = Append(recency, c)
      /\ upgrade => recency' = Untracked(c)
      /\ ~(new /\ w \in Parts) /\ ~upgrade => recency' = recency
  BY JobNames DEF Index
<1>2. /\ c \in Contents /\ work[w].blob.c = c /\ Committing(c) # {} /\ w \in Committing(c)
      /\ new <=> rows[c].tier = "none"
      /\ upgrade <=> rows[c].tier = "cache" /\ w \in Composers
  BY <1>0, <1>1 DEF BlobTypes, Ref, Committing
<1>14. /\ made \in [tier : {"none", "cache", "durable"}, n : Nat, old : BOOLEAN]
       /\ made.tier = (IF w \in Parts THEN "cache" ELSE "durable") /\ made.n = rows[c].n + 1 /\ ~made.old
       /\ r = [work[w] EXCEPT !.pc = Next1(w), !.blob = [c |-> c, n |-> rows'[c].n], !.mine = new]
       /\ new \in BOOLEAN
  BY <1>0, <1>2
<1> HIDE DEF c, new, upgrade, made, r
<1>3. /\ rows' \in [Contents -> [tier : {"none", "cache", "durable"}, n : Nat, old : BOOLEAN]]
      /\ \A x \in Contents : x # c => rows'[x] = rows[x]
      /\ rows'[c].tier # "none" /\ (w \in Composers => rows'[c].tier = "durable")
      /\ new => rows'[c] = made
      /\ upgrade => rows'[c].tier = "durable" /\ rows'[c].n = rows[c].n /\ rows'[c].old = rows[c].old
      /\ ~new /\ ~upgrade => rows'[c] = rows[c]
  <2>1. CASE new
    <3>1. rows'[c] = made /\ \A x \in Contents : x # c => rows'[x] = rows[x]
      BY <1>0, <1>1, <1>2, <2>1
    <3>2. rows' \in [Contents -> [tier : {"none", "cache", "durable"}, n : Nat, old : BOOLEAN]]
      BY <1>0, <1>1, <1>2, <1>14, <2>1
    <3>3. ~upgrade /\ (w \in Composers => made.tier = "durable") /\ made.tier # "none"
      BY <1>2, <1>14, <2>1, JobNames
    <3> QED
      BY <2>1, <3>1, <3>2, <3>3
  <2>2. CASE upgrade
    <3> DEFINE u == [rows[c] EXCEPT !.tier = "durable"]
    <3>1. /\ rows' = [rows EXCEPT ![c] = u] /\ u.tier = "durable" /\ u.n = rows[c].n /\ u.old = rows[c].old
          /\ u \in [tier : {"none", "cache", "durable"}, n : Nat, old : BOOLEAN]
      BY <1>0, <1>1, <1>2, <2>2
    <3>2. ~new
      BY <1>2, <2>2
    <3> HIDE DEF u
    <3>3. rows'[c] = u /\ \A x \in Contents : x # c => rows'[x] = rows[x]
      BY <1>0, <1>2, <3>1
    <3>4. rows' \in [Contents -> [tier : {"none", "cache", "durable"}, n : Nat, old : BOOLEAN]]
      BY <1>0, <1>2, <3>1
    <3> QED
      BY <2>2, <3>1, <3>2, <3>3, <3>4
  <2>3. CASE ~new /\ ~upgrade
    BY <1>0, <1>1, <1>2, <2>3
  <2> QED
    BY <2>1, <2>2, <2>3
<1>4. /\ recency' \in Seq(Contents) /\ IsInjective(recency') /\ ToSet(recency') = Cached'
  <2>1. CASE new /\ w \in Parts
    <3>1. Cached' = Cached \union {c} /\ c \notin Cached
      BY <1>2, <1>3, <1>14, <2>1 DEF Cached
    <3>2. recency' = Append(recency, c)
      BY <1>1, <2>1
    <3>3. recency' \in Seq(Contents)
      BY <1>0, <1>2, <3>2, AppendProperties
    <3> QED
      BY <1>0, <1>2, <3>1, <3>2, <3>3, AppendedOnce
  <2>2. CASE upgrade
    <3>1. Cached' = Cached \ {c}
      BY <1>2, <1>3, <2>2 DEF Cached
    <3> QED
      BY <1>0, <1>1, <2>2, <3>1, RemovedOnce DEF Untracked
  <2>3. CASE ~(new /\ w \in Parts) /\ ~upgrade
    <3>1. Cached' = Cached
      BY <1>0, <1>2, <1>3, <2>3 DEF Cached
    <3> QED
      BY <1>0, <1>1, <2>3, <3>1
  <2> QED
    BY <2>1, <2>2, <2>3
<1>5. /\ r \in WorkRec /\ r.pc \in {"total", "refer"} /\ (w \in Composers => r.pc = "refer")
      /\ r.blob = [c |-> c, n |-> rows'[c].n] /\ r.blob \in Ref /\ r.mine = new /\ r.list = work[w].list
  <2>1. Next1(w) \in {"total", "refer"} /\ (w \in Composers => Next1(w) = "refer")
    BY JobNames DEF Next1
  <2>2. [c |-> c, n |-> rows'[c].n] \in Ref /\ [c |-> c, n |-> rows'[c].n] \in [c : Contents \union {"none"}, n : Nat]
    BY <1>2, <1>3 DEF Ref
  <2> DEFINE b == [c |-> c, n |-> rows'[c].n]
             k == Next1(w)
  <2>3. r = [work[w] EXCEPT !.pc = k, !.blob = b, !.mine = new] /\ new \in BOOLEAN /\ work[w] \in WorkRec
    BY <1>0, <1>14
  <2>4. k \in {"total", "refer"} /\ b \in [c : Contents \union {"none"}, n : Nat]
    BY <2>1, <2>2
  <2> HIDE DEF k, b
  <2>5. r \in WorkRec /\ r.pc = k /\ r.blob = b /\ r.mine = new /\ r.list = work[w].list
    BY <2>3, <2>4 DEF WorkRec
  <2> QED
    BY <2>1, <2>2, <2>5 DEF k, b
<1>6. /\ work'[w] = r /\ \A v \in Jobs : v # w => work'[v] = work[v]
      /\ \A v \in Jobs : work'[v].list = work[v].list /\ Listed(v)' = Listed(v)
  BY <1>0, <1>1, <1>5 DEF Listed
<1>7. \A b \in Ref : Live(b) => Live(b)' /\ (rows[b.c].tier = "durable" => rows'[b.c].tier = "durable")
  BY <1>2, <1>3 DEF Live, Ref
<1>8. BlobTypes'
  <2>1. /\ \A v \in Composers \union Parts : work'[v].pc # "idle" => work'[v].blob \in Ref
        /\ \A d \in Composers : work'[d].pc \in {"idle", "renamed", "refer"}
        /\ \A v \in Jobs : work'[v].pc \in {"row", "sweepfile"} => work'[v].list # <<>>
        /\ work' \in [Jobs -> WorkRec]
    BY <1>0, <1>1, <1>5, <1>6, JobNames DEF BlobTypes
  <2> QED
    BY <1>0, <1>1, <1>3, <1>4, <2>1 DEF BlobTypes
<1>9. RefInv'
  <2>1. /\ \A d \in Composers : attached[d] # NoBlob => attached[d] \in Ref
        /\ \A p \in Parts : linked[p] # NoBlob => linked[p] \in Ref
    BY <1>0 DEF BlobTypes
  <2> QED
    BY <1>0, <1>1, <1>7, <2>1 DEF RefInv
<1>10. HandInv'
  <2>1. \A x \in Contents : rows[x].n <= rows'[x].n /\ rows[x].n \in Nat /\ rows'[x].n \in Nat
    <3> SUFFICES ASSUME NEW x \in Contents PROVE rows[x].n <= rows'[x].n /\ rows[x].n \in Nat /\ rows'[x].n \in Nat
      OBVIOUS
    <3>1. rows[x].n \in Nat /\ rows'[x].n \in Nat
      BY <1>0, <1>3
    <3>2. rows'[x].n = rows[x].n \/ (x = c /\ rows'[x].n = rows[c].n + 1)
      BY <1>3, <1>14
    <3> QED
      BY <3>1, <3>2
  <2>2. \A v \in Jobs : \A b \in Listed(v) : b \in Ref /\ b.n <= rows'[b.c].n /\ b.n <= rows[b.c].n
    <3>1. \A v \in Jobs : \A b \in Listed(v) : b \in Ref
      <4> SUFFICES ASSUME NEW v \in Jobs, NEW b \in Listed(v) PROVE b \in Ref
        OBVIOUS
      <4>1. work[v].list \in Seq(Ref)
        BY <1>0 DEF WorkRec
      <4> QED
        BY <4>1, ElementOfSeq, LenProperties DEF Listed, ToSet
    <3> QED
      BY <1>0, <2>1, <3>1 DEF HandInv, Ref
  <2>3. ASSUME NEW d \in Composers, work'[d].pc = "refer", NEW b, b = work'[d].blob
        PROVE  /\ b.n <= rows'[b.c].n /\ (Live(b)' => rows'[b.c].tier = "durable")
               /\ work'[d].mine => Live(b)' /\ ~rows'[b.c].old /\ \A v \in Jobs : b \notin Listed(v)
    <3>1. CASE d = w
      <4>1. b.c = c /\ b.n = rows'[c].n /\ work'[d].mine = new
        BY <1>5, <1>6, <2>3, <3>1
      <4>2. new => ~rows'[c].old /\ rows'[c].n = rows[c].n + 1
        BY <1>3, <1>14
      <4>3. new => \A v \in Jobs : b \notin Listed(v)
        BY <1>2, <2>1, <2>2, <4>1, <4>2
      <4>4. Live(b)' /\ rows'[c].tier = "durable"
        BY <1>2, <1>3, <3>1, <4>1 DEF Live
      <4> QED
        BY <1>2, <2>1, <4>1, <4>2, <4>3, <4>4
    <3>2. CASE d # w
      <4>1. /\ d \in Jobs /\ work'[d] = work[d] /\ work[d].pc = "refer" /\ b = work[d].blob
            /\ b \in Ref /\ b.c \in Contents /\ b.n \in Nat
        BY <1>0, <1>6, <2>3, <3>2, JobNames DEF BlobTypes, Ref
      <4>2. /\ b.n <= rows[b.c].n /\ (Live(b) => rows[b.c].tier = "durable")
            /\ work[d].mine => Live(b) /\ ~rows[b.c].old /\ \A v \in Jobs : b \notin Listed(v)
        BY <1>0, <4>1 DEF HandInv
      <4>3. b.n <= rows'[b.c].n
        BY <2>1, <4>1, <4>2
      <4>4. Live(b)' => Live(b)
        <5>1. CASE b.c # c
          BY <1>3, <4>1, <5>1 DEF Live
        <5>2. CASE b.c = c /\ new
          <6>1. b.n # rows'[b.c].n
            BY <1>3, <1>14, <2>1, <4>1, <4>2, <5>2
          <6> QED
            BY <6>1 DEF Live
        <5>3. CASE b.c = c /\ ~new
          <6>1. rows'[c].n = rows[c].n /\ rows[c].tier # "none"
            BY <1>2, <1>3, <5>3
          <6> QED
            BY <4>1, <5>3, <6>1 DEF Live
        <5> QED
          BY <5>1, <5>2, <5>3
      <4>5. Live(b) => rows'[b.c].old = rows[b.c].old
        BY <1>2, <1>3, <4>1 DEF Live
      <4> QED
        BY <1>7, <4>1, <4>2, <4>3, <4>4, <4>5
    <3> QED
      BY <3>1, <3>2
  <2> QED
    BY <1>6, <2>2, <2>3 DEF HandInv
<1>11. \A x : Committing(x)' = Committing(x) \ {w}
  BY <1>0, <1>5, <1>6 DEF Committing
<1>12. BytesInv'
  <2>1. c \in files \/ c \in torn
    BY <1>0, <1>1, <1>2 DEF BytesInv, Committing
  <2>2. ASSUME NEW x \in Contents \ torn', rows'[x].tier = "durable" \/ Committing(x)' # {} PROVE x \in files'
    BY <1>0, <1>1, <1>3, <1>11, <2>1, <2>2 DEF BytesInv
  <2>3. ASSUME NEW x \in Contents \ torn', rows'[x].tier # "none", x \notin files'
        PROVE  \E v \in Jobs : work'[v].pc = "row" /\ Head(work'[v].list) = Blob(x)'
    <3>1. x # c /\ rows'[x] = rows[x]
      BY <1>1, <1>3, <2>1, <2>3
    <3>2. PICK v \in Jobs : work[v].pc = "row" /\ Head(work[v].list) = Blob(x)
      BY <1>0, <1>1, <2>3, <3>1 DEF BytesInv, RowsHaveBytes
    <3> QED
      BY <1>1, <1>6, <3>1, <3>2 DEF Blob
  <2> QED
    BY <2>2, <2>3 DEF BytesInv, RowsHaveBytes
<1>13. FilesHaveOwners'
  <2> SUFFICES ASSUME NEW x \in files' \ torn', rows'[x].tier = "none", Committing(x)' = {}
               PROVE  work'[maint].pc = "sweepfile" /\ Head(work'[maint].list).c = x
    BY DEF FilesHaveOwners
  <2>1. x \in Contents /\ x # c /\ rows[x].tier = "none" /\ x \in files \ torn
    BY <1>0, <1>1, <1>3 DEF BlobTypes
  <2>2. Committing(x) = {}
    BY <1>2, <1>11, <2>1 DEF Committing
  <2> QED
    BY <1>0, <1>6, <2>1, <2>2, JobNames DEF FilesHaveOwners
<1> QED
  BY <1>8, <1>9, <1>10, <1>12, <1>13 DEF BlobInv

\* DeleteBlob of the row a removal has listed, which no draft refers to.
LEMMA RowDeleted ==
  ASSUME BlobInv, NEW w \in Parts \union {maint}, NEW r \in WorkRec, work' = [work EXCEPT ![w] = r],
         work[w].pc \in {"row", "sweeprow"}, work[w].list # <<>>,
         NEW b, b = Head(work[w].list), ~Restricted(b), DeleteRow(b),
         UNCHANGED <<files, drafts, attached>>, torn \subseteq torn', torn' \subseteq Contents,
         r.blob = work[w].blob, ToSet(r.list) \subseteq Listed(w), r.pc \in {"file", "sweepfile"},
         r.pc = "sweepfile" => w = maint /\ r.list # <<>> /\ Head(r.list) = b,
         Live(b) /\ b.c \in files => b.c \in torn' \/ r.pc = "sweepfile"
  PROVE  BlobInv'
<1>0. /\ BlobTypes /\ RefInv /\ HandInv /\ BytesInv /\ FilesHaveOwners /\ work \in [Jobs -> WorkRec]
      /\ w \in Jobs /\ w \notin Composers /\ work'[w] = r /\ \A v \in Jobs : v # w => work'[v] = work[v]
      /\ rows \in [Contents -> [tier : {"none", "cache", "durable"}, n : Nat, old : BOOLEAN]]
      /\ recency \in Seq(Contents) /\ ToSet(recency) = Cached /\ IsInjective(recency)
  BY JobNames DEF BlobInv, BlobTypes
<1>1. /\ b \in Ref /\ b.c \in Contents /\ b.n \in Nat /\ b \in Listed(w)
  BY <1>0, HeadListed DEF Ref
<1>2. w # maint => r.blob \in Ref
  BY <1>0 DEF BlobTypes
<1>3. \A x : w \notin Committing(x)
  BY DEF Committing
<1>4. CASE ~Live(b)
  <2>1. UNCHANGED <<rows, recency, linked>>
    BY <1>4 DEF DeleteRow
  <2>2. /\ RefInv' /\ files' \subseteq Contents
        /\ attached' \in [Composers -> Ref \union {NoBlob}] /\ linked' \in [Parts -> Ref \union {NoBlob}]
    BY <1>0, <2>1, RefsSame DEF BlobTypes
  <2>3. ASSUME NEW x \in Contents, Head(work[w].list) = Blob(x) PROVE rows[x].tier = "none"
    BY <1>4, <2>3 DEF Live, Blob
  <2> QED
    BY <1>0, <1>2, <1>3, <2>1, <2>2, <2>3, OneJob
<1>5. CASE Live(b)
  <2> DEFINE gone == [NoRow EXCEPT !.n = b.n]
  <2>1. /\ rows' = [rows EXCEPT ![b.c] = gone] /\ recency' = Untracked(b.c)
        /\ linked' = [p \in Parts |-> IF linked[p] = b THEN NoBlob ELSE linked[p]]
    BY <1>5 DEF DeleteRow
  <2>2. /\ gone \in [tier : {"none", "cache", "durable"}, n : Nat, old : BOOLEAN]
        /\ gone.tier = "none" /\ gone.n = b.n
    BY <1>1 DEF NoRow
  <2> HIDE DEF gone
  <2>3. /\ rows' \in [Contents -> [tier : {"none", "cache", "durable"}, n : Nat, old : BOOLEAN]]
        /\ rows'[b.c] = gone /\ \A x \in Contents : x # b.c => rows'[x] = rows[x]
    BY <1>0, <1>1, <2>1, <2>2
  <2>4. \A x \in Contents : rows'[x].n = rows[x].n
    BY <1>5, <2>2, <2>3 DEF Live
  <2>5. \A x \in Contents : x # b.c => (Blob(x)' = Blob(x))
    BY <2>3 DEF Blob
  <2>6. /\ \A a \in Ref : Live(a)' <=> Live(a) /\ a # b
        /\ \A a \in Ref : Live(a) /\ a # b => a.c # b.c /\ a.c \in Contents /\ rows'[a.c] = rows[a.c]
    <3> SUFFICES ASSUME NEW a \in Ref
                 PROVE  /\ Live(a)' <=> Live(a) /\ a # b
                        /\ Live(a) /\ a # b => a.c # b.c /\ a.c \in Contents /\ rows'[a.c] = rows[a.c]
      OBVIOUS
    <3>1. a.c \in Contents
      BY DEF Ref
    <3>2. CASE a.c = b.c
      <4>1. ~Live(a)'
        BY <2>2, <2>3, <3>2 DEF Live
      <4>2. Live(a) => a = b
        BY <1>1, <1>5, <3>2, OneRow
      <4> QED
        BY <4>1, <4>2
    <3>3. CASE a.c # b.c
      BY <2>3, <3>1, <3>3 DEF Live
    <3> QED
      BY <3>2, <3>3
  <2>7. BlobTypes'
    <3>1. Cached' = Cached \ {b.c}
      BY <1>1, <2>2, <2>3 DEF Cached
    <3>2. recency' \in Seq(Contents) /\ ToSet(recency') = Cached' /\ IsInjective(recency')
      BY <1>0, <2>1, <3>1, RemovedOnce DEF Untracked
    <3>3. linked' \in [Parts -> Ref \union {NoBlob}]
      BY <1>0, <2>1 DEF BlobTypes
    <3>4. /\ \A v \in Composers \union Parts : work'[v].pc # "idle" => work'[v].blob \in Ref
          /\ \A d \in Composers : work'[d].pc \in {"idle", "renamed", "refer"}
          /\ \A v \in Jobs : work'[v].pc \in {"row", "sweepfile"} => work'[v].list # <<>>
          /\ work' \in [Jobs -> WorkRec]
      BY <1>0, <1>2, JobNames DEF BlobTypes
    <3> QED
      BY <1>0, <2>3, <3>2, <3>3, <3>4 DEF BlobTypes
  <2>8. RefInv'
    <3>1. ASSUME NEW d \in Composers, attached[d] # NoBlob
          PROVE  d \in drafts /\ Live(attached[d])' /\ rows'[attached'[d].c].tier = "durable"
      <4>1. attached[d] \in Ref /\ Live(attached[d]) /\ rows[attached[d].c].tier = "durable" /\ d \in drafts
        BY <1>0, <3>1 DEF BlobTypes, RefInv
      <4>2. attached[d] # b
        BY DEF Restricted
      <4>3. PICK a \in Ref : a = attached[d] /\ a = attached'[d]
        BY <4>1
      <4>4. Live(a)' /\ rows'[a.c] = rows[a.c]
        BY <2>6, <4>1, <4>2, <4>3
      <4> QED
        BY <4>1, <4>3, <4>4
    <3>2. ASSUME NEW p \in Parts, linked'[p] # NoBlob PROVE Live(linked[p])'
      <4>1. linked'[p] = linked[p] /\ linked[p] # b /\ linked[p] # NoBlob
        BY <2>1, <3>2
      <4>2. linked[p] \in Ref /\ Live(linked[p])
        BY <1>0, <4>1 DEF BlobTypes, RefInv
      <4>3. PICK a \in Ref : a = linked[p] /\ a = linked'[p]
        BY <4>1, <4>2
      <4>4. Live(a)'
        BY <2>6, <4>1, <4>2, <4>3
      <4> QED
        BY <4>1, <4>3, <4>4
    <3> QED
      BY <3>1, <3>2 DEF RefInv
  <2>9. HandInv'
    <3>1. \A v \in Jobs : Listed(v)' \subseteq Listed(v)
      BY <1>0 DEF Listed
    <3>2. \A v \in Jobs : \A e \in Listed(v) : e \in Ref /\ e.c \in Contents
      <4> SUFFICES ASSUME NEW v \in Jobs, NEW e \in Listed(v) PROVE e \in Ref /\ e.c \in Contents
        OBVIOUS
      <4>1. work[v].list \in Seq(Ref)
        BY <1>0 DEF WorkRec
      <4>2. e \in Ref
        BY <4>1, ElementOfSeq, LenProperties DEF Listed, ToSet
      <4> QED
        BY <4>2 DEF Ref
    <3>3. \A v \in Jobs : \A e \in Listed(v)' : e.n <= rows'[e.c].n
      BY <1>0, <2>4, <3>1, <3>2 DEF HandInv
    <3>4. ASSUME NEW d \in Composers, work'[d].pc = "refer", NEW e, e = work'[d].blob
          PROVE  /\ e.n <= rows'[e.c].n /\ (Live(e)' => rows'[e.c].tier = "durable")
                 /\ work'[d].mine => Live(e)' /\ ~rows'[e.c].old /\ \A v \in Jobs : e \notin Listed(v)'
      <4>1. d \in Jobs /\ d # w /\ work'[d] = work[d] /\ e = work[d].blob /\ work[d].pc = "refer"
        BY <1>0, <3>4, JobNames
      <4>2. e \in Ref /\ e.c \in Contents
        BY <1>0, <4>1 DEF BlobTypes, Ref
      <4>3. /\ e.n <= rows[e.c].n /\ (Live(e) => rows[e.c].tier = "durable")
            /\ work[d].mine => Live(e) /\ ~rows[e.c].old /\ \A v \in Jobs : e \notin Listed(v)
        BY <1>0, <4>1 DEF HandInv
      <4>4. Live(e)' => rows'[e.c].tier = "durable"
        BY <2>6, <4>2, <4>3
      <4>5. work[d].mine => Live(e)' /\ ~rows'[e.c].old
        <5>1. CASE work[d].mine
          <6>1. e # b /\ Live(e) /\ ~rows[e.c].old
            BY <1>0, <1>1, <4>3, <5>1
          <6> QED
            BY <2>6, <4>2, <6>1
        <5> QED
          BY <5>1
      <4>6. e.n <= rows'[e.c].n
        BY <2>4, <4>2, <4>3
      <4> QED
        BY <3>1, <4>1, <4>3, <4>4, <4>5, <4>6
    <3> QED
      BY <3>3, <3>4 DEF HandInv
  <2>10. \A x : Committing(x)' = Committing(x)
    BY <1>0 DEF Committing
  <2>11. BytesInv'
    <3>1. ASSUME NEW x \in Contents \ torn', rows'[x].tier = "durable" \/ Committing(x)' # {} PROVE x \in files'
      BY <1>0, <2>2, <2>3, <2>10, <3>1 DEF BytesInv
    <3>2. ASSUME NEW x \in Contents \ torn', rows'[x].tier # "none", x \notin files'
          PROVE  \E v \in Jobs : work'[v].pc = "row" /\ Head(work'[v].list) = Blob(x)'
      <4>1. x # b.c /\ rows'[x] = rows[x]
        BY <2>2, <2>3, <3>2
      <4>2. PICK v \in Jobs : work[v].pc = "row" /\ Head(work[v].list) = Blob(x)
        BY <1>0, <3>2, <4>1 DEF BytesInv, RowsHaveBytes
      <4>3. v # w
        BY <4>1, <4>2 DEF Blob
      <4> QED
        BY <1>0, <2>5, <4>1, <4>2, <4>3
    <3> QED
      BY <3>1, <3>2 DEF BytesInv, RowsHaveBytes
  <2>12. FilesHaveOwners'
    <3> SUFFICES ASSUME NEW x \in files' \ torn', rows'[x].tier = "none", Committing(x)' = {}
                 PROVE  work'[maint].pc = "sweepfile" /\ Head(work'[maint].list).c = x
      BY DEF FilesHaveOwners
    <3>1. x \in files /\ x \notin torn /\ x \in Contents /\ Committing(x) = {}
      BY <1>0, <2>10 DEF BlobTypes
    <3>2. CASE x = b.c
      BY <1>0, <1>5, <3>1, <3>2
    <3>3. CASE x # b.c
      <4>1. work[maint].pc = "sweepfile" /\ Head(work[maint].list).c = x
        BY <1>0, <2>3, <3>1, <3>3 DEF FilesHaveOwners
      <4> QED
        BY <1>0, <4>1, JobNames
    <3> QED
      BY <3>2, <3>3
  <2> QED
    BY <2>7, <2>8, <2>9, <2>11, <2>12 DEF BlobInv
<1> QED
  BY <1>4, <1>5

\* A step of the kind of OneJob that touches neither files nor references.
LEMMA Quiet ==
  ASSUME BlobInv, NEW w \in Parts \union {maint}, NEW r \in WorkRec, work' = [work EXCEPT ![w] = r],
         UNCHANGED <<files, rows, recency, drafts, attached, linked>>,
         torn \subseteq torn', torn' \subseteq Contents, work[w].pc \notin {"renamed", "sweepfile"},
         r.pc # "idle" => r.blob = work[w].blob \/ w = maint, w # maint => work[w].pc # "idle",
         r.pc \notin {"renamed", "row", "sweepfile"},
         \A b \in ToSet(r.list) :
           b \in Listed(w) \/ (Live(b) /\ b.n \in Nat /\ (rows[b.c].tier = "cache" \/ rows[b.c].old)),
         work[w].pc = "row" => LET b == Head(work[w].list) IN b.c \in files \union torn' \/ ~Live(b)
  PROVE  BlobInv'
<1>0. /\ BlobTypes /\ RefInv /\ HandInv /\ BytesInv /\ FilesHaveOwners /\ w \in Jobs /\ w \notin Composers
  BY JobNames DEF BlobInv
<1>1. /\ RefInv' /\ files' \subseteq Contents
      /\ attached' \in [Composers -> Ref \union {NoBlob}] /\ linked' \in [Parts -> Ref \union {NoBlob}]
  BY <1>0, RefsSame DEF BlobTypes
<1>2. w # maint /\ r.pc # "idle" => r.blob \in Ref
  BY <1>0 DEF BlobTypes
<1>3. \A x : w \notin Committing(x)
  BY DEF Committing
<1>4. ASSUME NEW x \in Contents \ torn', work[w].pc = "row", Head(work[w].list) = Blob(x)
      PROVE  x \in files \/ rows[x].tier = "none"
  BY <1>4 DEF Live, Blob
<1> QED
  BY <1>0, <1>1, <1>2, <1>3, <1>4, OneJob

\* Where an eviction ends.
LEMMA AfterEviction ==
  ASSUME BlobTypes, NEW w \in Parts \union {maint}, work[w].pc # "idle"
  PROVE  LET r == After(w) q == [After(w) EXCEPT !.list = <<>>, !.total = 0] IN
         /\ r \in WorkRec /\ r.pc \in {"list", "refer"} /\ (r.blob = work[w].blob \/ w = maint)
         /\ ToSet(r.list) \subseteq Listed(w)
         /\ q \in WorkRec /\ q.pc \in {"list", "refer"} /\ (q.blob = work[w].blob \/ w = maint)
         /\ ToSet(q.list) \subseteq Listed(w)
<1> DEFINE r == After(w)
           q == [After(w) EXCEPT !.list = <<>>, !.total = 0]
<1>0. work[w] \in WorkRec /\ Idle \in WorkRec /\ Idle.list = <<>> /\ ToSet(<<>>) = {}
  BY JobNames DEF BlobTypes, Idle, NoBlob, WorkRec, ToSet
<1>1. /\ r \in WorkRec /\ r.pc \in {"list", "refer"} /\ (r.blob = work[w].blob \/ w = maint)
      /\ r.list = <<>> \/ r.list = work[w].list
  BY <1>0 DEF After, WorkRec
<1>2. q = [r EXCEPT !.list = <<>>, !.total = 0]
  OBVIOUS
<1> HIDE DEF r
<1>3. q \in WorkRec /\ q.pc = r.pc /\ q.blob = r.blob /\ q.list = <<>>
  <2>1. <<>> \in Seq(Ref) /\ 0 \in Int
    BY EmptySeq
  <2> HIDE DEF q
  <2> QED
    BY <1>1, <1>2, <2>1 DEF WorkRec
<1> HIDE DEF q
<1> QED
  BY <1>0, <1>1, <1>3 DEF Listed, r, q

LEMMA EvictKept == ASSUME BlobInv, NEW w \in Parts \union {maint}, Evict(w) PROVE BlobInv'
<1>0. /\ BlobTypes /\ RefInv /\ HandInv /\ BytesInv /\ FilesHaveOwners /\ work \in [Jobs -> WorkRec]
      /\ w \in Jobs /\ w \notin Composers /\ work[w] \in WorkRec
      /\ torn \subseteq Contents
  BY JobNames DEF BlobInv, BlobTypes
<1>1. CASE EvictTotal(w)
  <2> DEFINE r == [work[w] EXCEPT !.pc = "cached", !.total = Cardinality(Cached)]
  <2>1. /\ work[w].pc = "total" /\ UNCHANGED <<files, rows, recency, drafts, attached, linked, torn>>
        /\ work' = [work EXCEPT ![w] = After(w)] \/ work' = [work EXCEPT ![w] = r]
    BY <1>1 DEF EvictTotal
  <2>2. CASE work' = [work EXCEPT ![w] = After(w)]
    <3>1. /\ After(w) \in WorkRec /\ After(w).pc \in {"list", "refer"}
          /\ After(w).blob = work[w].blob \/ w = maint
          /\ ToSet(After(w).list) \subseteq Listed(w)
      BY <1>0, <2>1, AfterEviction
    <3> QED
      BY <1>0, <2>1, <2>2, <3>1, Quiet
  <2>3. CASE work' = [work EXCEPT ![w] = r]
    <3>1. Cardinality(Cached) \in Int
      <4>1. Cached \subseteq Contents
        BY DEF Cached
      <4> QED
        BY <4>1, BlobAssumption, FS_Subset, FS_CardinalityType
    <3>2. r \in WorkRec /\ r.pc = "cached" /\ r.blob = work[w].blob /\ r.list = work[w].list
      BY <1>0, <3>1 DEF WorkRec
    <3> HIDE DEF r
    <3>3. ToSet(r.list) \subseteq Listed(w)
      BY <3>2 DEF Listed
    <3> QED
      BY <1>0, <2>1, <2>3, <3>2, <3>3, Quiet
  <2> QED
    BY <2>1, <2>2, <2>3
<1>2. CASE EvictList(w)
  <2> DEFINE list == [i \in DOMAIN recency |-> Blob(recency[i])]
             r == [work[w] EXCEPT !.pc = "file", !.list = list]
  <2>1. /\ work[w].pc = "cached" /\ UNCHANGED <<files, rows, recency, drafts, attached, linked, torn>>
        /\ work' = [work EXCEPT ![w] = r]
    BY <1>2 DEF EvictList
  <2>2. /\ recency \in Seq(Contents) /\ ToSet(recency) = Cached /\ DOMAIN recency = 1..Len(recency)
        /\ Len(recency) \in Nat
    BY <1>0, LenProperties DEF BlobTypes
  <2>3. \A i \in DOMAIN recency : recency[i] \in Cached
    BY <2>2 DEF ToSet
  <2>4. ASSUME NEW i \in DOMAIN recency
        PROVE  /\ Blob(recency[i]) \in Ref /\ Live(Blob(recency[i])) /\ Blob(recency[i]).n \in Nat
               /\ rows[Blob(recency[i]).c].tier = "cache"
    <3>1. recency[i] \in Contents /\ rows[recency[i]].tier = "cache" /\ rows[recency[i]].n \in Nat
      BY <1>0, <2>3 DEF Cached, BlobTypes
    <3> QED
      BY <3>1 DEF Blob, Ref, Live
  <2>5. list \in Seq(Ref)
    <3>1. list = [i \in 1..Len(recency) |-> Blob(recency[i])]
      BY <2>2
    <3> QED
      BY <2>2, <2>4, <3>1, IsASeq
  <2>6. \A b \in ToSet(list) : Live(b) /\ b.n \in Nat /\ rows[b.c].tier = "cache"
    <3>1. \A b \in ToSet(list) : \E i \in DOMAIN recency : b = Blob(recency[i])
      BY DEF ToSet
    <3> QED
      BY <2>4, <3>1
  <2> HIDE DEF list
  <2>7. r \in WorkRec /\ r.pc = "file" /\ r.blob = work[w].blob /\ r.list = list
    BY <1>0, <2>5 DEF WorkRec
  <2> HIDE DEF r
  <2> QED
    BY <1>0, <2>1, <2>6, <2>7, Quiet
<1>3. CASE EvictFile(w)
  <2> DEFINE q == [After(w) EXCEPT !.list = <<>>, !.total = 0]
             b == Head(work[w].list)
             r == [work[w] EXCEPT !.pc = "row"]
  <2>1. work[w].pc = "file" /\ UNCHANGED <<rows, recency, drafts, attached, linked>>
    BY <1>3 DEF EvictFile
  <2>2. CASE work' = [work EXCEPT ![w] = q] /\ UNCHANGED <<files, torn>>
    <3>1. q \in WorkRec /\ q.pc \in {"list", "refer"} /\ (q.blob = work[w].blob \/ w = maint) /\ ToSet(q.list) \subseteq Listed(w)
      BY <1>0, <2>1, AfterEviction
    <3> HIDE DEF q
    <3> QED
      BY <1>0, <2>1, <2>2, <3>1, Quiet
  <2>3. CASE work[w].list # <<>> /\ files' = files \ {b.c} /\ work' = [work EXCEPT ![w] = r]
             /\ Torn(b.c, \/ Committing(b.c) # {}
                          \/ rows[b.c].tier # "none" /\ ~(Live(b) /\ rows[b.c].tier = "cache"))
    <3>1. r \in WorkRec /\ r.pc = "row" /\ r.blob = work[w].blob /\ r.list = work[w].list
      BY <1>0 DEF WorkRec
    <3>2. b \in Ref /\ b.c \in Contents
      BY <1>0, <2>3, HeadListed DEF Ref
    <3>3. /\ torn \subseteq torn' /\ torn' \subseteq torn \union {b.c}
          /\ b.c \notin torn' => Committing(b.c) = {} /\ (rows[b.c].tier # "none" => Live(b) /\ rows[b.c].tier = "cache")
      BY <2>3 DEF Torn
    <3>4. Live(b) => b = Blob(b.c)
      BY <3>2 DEF Live, Blob, Ref
    <3>5. \A x : w \notin Committing(x)
      BY <2>1 DEF Committing
    <3>6. /\ RefInv' /\ files' \subseteq Contents /\ torn' \subseteq Contents
          /\ attached' \in [Composers -> Ref \union {NoBlob}] /\ linked' \in [Parts -> Ref \union {NoBlob}]
      BY <1>0, <2>1, <2>3, <3>2, <3>3, RefsSame DEF BlobTypes
    <3>7. w # maint => r.blob \in Ref
      BY <1>0, <2>1, <3>1 DEF BlobTypes
    <3>8. ToSet(r.list) = Listed(w) /\ Head(r.list) = b
      BY <3>1 DEF Listed
    <3> HIDE DEF b, r
    <3>9. \A x \in (files \ files') \ torn' :
            /\ rows[x].tier # "durable" /\ Committing(x) \subseteq {w}
            /\ rows[x].tier # "none" => r.pc = "row" /\ Head(r.list) = Blob(x)
      BY <2>3, <3>1, <3>3, <3>4, <3>8
    <3> QED
      BY <1>0, <2>1, <2>3, <3>1, <3>3, <3>5, <3>6, <3>7, <3>8, <3>9, OneJob
  <2> QED
    BY <1>3, <2>2, <2>3 DEF EvictFile
<1>4. CASE EvictRow(w)
  <2> DEFINE q == [After(w) EXCEPT !.list = <<>>, !.total = 0]
             b == Head(work[w].list)
             r == [work[w] EXCEPT !.pc = "file", !.list = Tail(work[w].list), !.total = work[w].total - 1]
  <2>1. work[w].pc = "row" /\ UNCHANGED <<files, drafts, attached>> /\ work[w].list # <<>>
    BY <1>0, <1>4 DEF EvictRow, BlobTypes
  <2>2. CASE Restricted(b) /\ work' = [work EXCEPT ![w] = q] /\ UNCHANGED <<rows, linked, recency, torn>>
    <3>1. q \in WorkRec /\ q.pc \in {"list", "refer"} /\ (q.blob = work[w].blob \/ w = maint) /\ ToSet(q.list) \subseteq Listed(w)
      BY <1>0, <2>1, AfterEviction
    <3>2. b.c \in files \union torn
      <4>1. PICK d \in Composers : attached[d] = b
        BY <2>2 DEF Restricted
      <4>2. b \in Ref /\ b # NoBlob
        BY <1>0, <2>1, HeadListed, JobNames DEF Ref, NoBlob
      <4> QED
        BY <1>0, <4>1, <4>2 DEF RefInv, BytesInv, Ref
    <3> HIDE DEF q
    <3> QED
      BY <1>0, <2>1, <2>2, <3>1, <3>2, Quiet
  <2>3. CASE ~Restricted(b) /\ work' = [work EXCEPT ![w] = r] /\ DeleteRow(b) /\ Torn(b.c, Live(b) /\ b.c \in files)
    <3>1. Tail(work[w].list) \in Seq(Ref) /\ ToSet(Tail(work[w].list)) \subseteq Listed(w) /\ b \in Ref /\ b.c \in Contents
      BY <1>0, <2>1, HeadListed DEF Ref
    <3>2. r \in WorkRec /\ r.pc = "file" /\ r.blob = work[w].blob /\ r.list = Tail(work[w].list)
      <4> DEFINE t == work[w].total - 1
                 l == Tail(work[w].list)
      <4>1. t \in Int /\ l \in Seq(Ref)
        BY <1>0, <3>1 DEF WorkRec
      <4>2. r = [work[w] EXCEPT !.pc = "file", !.list = l, !.total = t]
        OBVIOUS
      <4> HIDE DEF t, r
      <4>3. l = Tail(work[w].list)
        OBVIOUS
      <4> HIDE DEF l
      <4> QED
        BY <1>0, <4>1, <4>2, <4>3 DEF WorkRec
    <3>3. torn \subseteq torn' /\ torn' \subseteq torn \union {b.c} /\ (Live(b) /\ b.c \in files => b.c \in torn')
      BY <2>3 DEF Torn
    <3>4. ToSet(r.list) \subseteq Listed(w)
      BY <3>1, <3>2
    <3> HIDE DEF b, r
    <3>5. torn' \subseteq Contents
      BY <1>0, <3>1, <3>3
    <3> QED
      BY <2>1, <2>3, <3>2, <3>3, <3>4, <3>5, RowDeleted DEF b
  <2> QED
    BY <1>4, <2>2, <2>3 DEF EvictRow
<1> QED
  BY <1>1, <1>2, <1>3, <1>4 DEF Evict

LEMMA EvictCutKept == ASSUME BlobInv, NEW p \in Parts, EvictCut(p) PROVE BlobInv'
<1>0. /\ BlobTypes /\ p \in Jobs /\ Idle \in WorkRec /\ Idle.pc = "idle" /\ ToSet(Idle.list) = {} /\ torn \subseteq Contents
  BY JobNames DEF BlobInv, BlobTypes, Idle, NoBlob, WorkRec, ToSet
<1>1. /\ work[p].pc \in {"total", "cached", "file", "row"} /\ work' = [work EXCEPT ![p] = Idle]
      /\ UNCHANGED <<files, rows, recency, drafts, attached, linked>>
      /\ IF work[p].pc = "row" THEN Torn(Head(work[p].list).c, TRUE) ELSE UNCHANGED torn
  BY DEF EvictCut
<1>2. work[p].pc = "row" => Head(work[p].list).c \in Contents
  <2> SUFFICES ASSUME work[p].pc = "row" PROVE Head(work[p].list).c \in Contents
    OBVIOUS
  <2>1. work[p].list # <<>>
    BY <1>0 DEF BlobTypes
  <2>2. Head(work[p].list) \in Ref
    BY <1>0, <2>1, HeadListed
  <2> QED
    BY <2>2 DEF Ref
<1>3. torn \subseteq torn' /\ torn' \subseteq Contents /\ (work[p].pc = "row" => Head(work[p].list).c \in torn')
  BY <1>0, <1>1, <1>2 DEF Torn
<1> QED
  BY <1>0, <1>1, <1>3, Quiet

LEMMA SweepKept == ASSUME BlobInv, Tick \/ SweepList \/ SweepRow \/ SweepFile PROVE BlobInv'
<1>0. /\ BlobTypes /\ RefInv /\ HandInv /\ BytesInv /\ FilesHaveOwners /\ work \in [Jobs -> WorkRec]
      /\ maint \in Jobs /\ maint \notin Composers /\ work[maint] \in WorkRec /\ torn \subseteq Contents
      /\ Idle \in WorkRec /\ Idle.pc = "idle" /\ ToSet(Idle.list) = {}
  BY JobNames DEF BlobInv, BlobTypes, Idle, NoBlob, WorkRec, ToSet
<1>1. CASE Tick
  <2> DEFINE r == [work[maint] EXCEPT !.pc = "total"]
  <2>1. /\ work[maint].pc = "idle" /\ UNCHANGED <<files, rows, recency, drafts, attached, linked, torn>>
        /\ work' = [work EXCEPT ![maint] = r]
    BY <1>1 DEF Tick
  <2>2. r \in WorkRec /\ r.pc = "total" /\ r.list = work[maint].list
    BY <1>0 DEF WorkRec
  <2> HIDE DEF r
  <2> QED
    BY <1>0, <2>1, <2>2, Quiet DEF Listed
<1>2. CASE SweepList
  <2>1. /\ work[maint].pc = "list" /\ UNCHANGED <<files, rows, recency, drafts, attached, linked, torn>>
    BY <1>2 DEF SweepList
  <2>2. PICK batch \in SUBSET Orphans : \E s \in SetToSeqs(batch) :
          work' = [work EXCEPT ![maint].pc = "sweeprow", ![maint].list = [i \in DOMAIN s |-> Blob(s[i])]]
    BY <1>2 DEF SweepList
  <2>3. PICK s \in SetToSeqs(batch) :
          work' = [work EXCEPT ![maint].pc = "sweeprow", ![maint].list = [i \in DOMAIN s |-> Blob(s[i])]]
    BY <2>2
  <2> DEFINE list == [i \in DOMAIN s |-> Blob(s[i])]
             r == [work[maint] EXCEPT !.pc = "sweeprow", !.list = list]
  <2>4. work' = [work EXCEPT ![maint] = r]
    BY <2>3
  <2>5. Cardinality(batch) \in Nat
    <3>1. batch \subseteq Contents
      BY DEF Orphans
    <3> QED
      BY <3>1, BlobAssumption, FS_Subset, FS_CardinalityType
  <2>6. DOMAIN s = 1..Cardinality(batch) /\ \A i \in DOMAIN s : s[i] \in Orphans
    BY DEF SetToSeqs
  <2>7. ASSUME NEW i \in DOMAIN s
        PROVE  Blob(s[i]) \in Ref /\ Live(Blob(s[i])) /\ Blob(s[i]).n \in Nat /\ rows[Blob(s[i]).c].old
    <3>1. s[i] \in Contents /\ rows[s[i]].tier = "durable" /\ rows[s[i]].old /\ rows[s[i]].n \in Nat
      BY <1>0, <2>6 DEF Orphans, BlobTypes
    <3> QED
      BY <3>1 DEF Blob, Ref, Live
  <2>8. list \in Seq(Ref)
    <3>1. list = [i \in 1..Cardinality(batch) |-> Blob(s[i])]
      BY <2>6
    <3> QED
      BY <2>5, <2>6, <2>7, <3>1, IsASeq
  <2>9. \A b \in ToSet(list) : Live(b) /\ b.n \in Nat /\ rows[b.c].old
    <3>1. \A b \in ToSet(list) : \E i \in DOMAIN s : b = Blob(s[i])
      BY DEF ToSet
    <3> QED
      BY <2>7, <3>1
  <2> HIDE DEF list
  <2>10. r \in WorkRec /\ r.pc = "sweeprow" /\ r.list = list
    BY <1>0, <2>8 DEF WorkRec
  <2> HIDE DEF r
  <2> QED
    BY <1>0, <2>1, <2>4, <2>9, <2>10, Quiet
<1>3. CASE SweepRow
  <2> DEFINE b == Head(work[maint].list)
             r == [work[maint] EXCEPT !.pc = "sweepfile"]
  <2>1. work[maint].pc = "sweeprow" /\ UNCHANGED <<files, drafts, attached>>
    BY <1>3 DEF SweepRow
  <2>2. CASE work' = [work EXCEPT ![maint] = Idle] /\ UNCHANGED <<rows, linked, recency, torn>>
    BY <1>0, <2>1, <2>2, Quiet
  <2>3. CASE /\ work[maint].list # <<>> /\ ~Restricted(b) /\ work' = [work EXCEPT ![maint] = r]
             /\ DeleteRow(b) /\ Torn(b.c, Committing(b.c) # {})
    <3>1. b \in Ref /\ b.c \in Contents
      BY <1>0, <2>3, HeadListed DEF Ref
    <3>2. r \in WorkRec /\ r.pc = "sweepfile" /\ r.blob = work[maint].blob /\ r.list = work[maint].list
      BY <1>0 DEF WorkRec
    <3>3. torn \subseteq torn' /\ torn' \subseteq Contents
      BY <1>0, <2>3, <3>1 DEF Torn
    <3>4. ToSet(r.list) \subseteq Listed(maint) /\ Head(r.list) = b /\ r.list # <<>>
      BY <2>3, <3>2 DEF Listed
    <3> HIDE DEF b, r
    <3> QED
      BY <2>1, <2>3, <3>2, <3>3, <3>4, RowDeleted DEF b
  <2> QED
    BY <1>3, <2>2, <2>3 DEF SweepRow
<1>4. CASE SweepFile
  <2> DEFINE b == Head(work[maint].list)
             r == [work[maint] EXCEPT !.pc = "sweeprow", !.list = Tail(work[maint].list)]
  <2>1. /\ work[maint].pc = "sweepfile" /\ UNCHANGED <<rows, recency, drafts, attached, linked>>
        /\ files' = files \ {b.c} /\ work' = [work EXCEPT ![maint] = r]
        /\ Torn(b.c, rows[b.c].tier # "none" \/ Committing(b.c) # {})
    BY <1>4 DEF SweepFile
  <2>2. work[maint].list # <<>>
    BY <1>0, <2>1 DEF BlobTypes
  <2>3. Tail(work[maint].list) \in Seq(Ref) /\ ToSet(Tail(work[maint].list)) \subseteq Listed(maint) /\ b \in Ref /\ b.c \in Contents
    BY <1>0, <2>2, HeadListed DEF Ref
  <2>4. r \in WorkRec /\ r.pc = "sweeprow" /\ r.list = Tail(work[maint].list)
    BY <1>0, <2>3 DEF WorkRec
  <2>5. /\ torn \subseteq torn' /\ torn' \subseteq torn \union {b.c}
        /\ b.c \notin torn' => Committing(b.c) = {} /\ rows[b.c].tier = "none"
    BY <2>1 DEF Torn
  <2>6. \A x : maint \notin Committing(x)
    BY <2>1 DEF Committing
  <2>7. /\ RefInv' /\ files' \subseteq Contents /\ torn' \subseteq Contents
        /\ attached' \in [Composers -> Ref \union {NoBlob}] /\ linked' \in [Parts -> Ref \union {NoBlob}]
    BY <1>0, <2>1, <2>3, <2>5, RefsSame DEF BlobTypes
  <2>8. ToSet(r.list) \subseteq Listed(maint) /\ Head(work[maint].list).c = b.c
    BY <2>3, <2>4
  <2> HIDE DEF b, r
  <2>9. /\ \A x \in (files \ files') \ torn' : Committing(x) \subseteq {maint} /\ rows[x].tier = "none"
        /\ \A x \in files' : x \in files /\ x # b.c
    BY <2>1, <2>5
  <2> QED
    BY <1>0, <2>1, <2>4, <2>5, <2>6, <2>7, <2>8, <2>9, OneJob
<1> QED
  BY <1>1, <1>2, <1>3, <1>4

\* The rest of the program, and time: no request is in the step.
LEMMA RestKept ==
  ASSUME BlobInv, (\E d \in Composers : Detach(d) \/ DeleteDraft(d)) \/ (\E c \in Contents : GetBlob(Blob(c)))
  PROVE  BlobInv'
<1>0. /\ BlobTypes /\ RefInv /\ HandInv /\ BytesInv /\ FilesHaveOwners
      /\ recency \in Seq(Contents) /\ ToSet(recency) = Cached /\ IsInjective(recency)
      /\ attached \in [Composers -> Ref \union {NoBlob}]
  BY DEF BlobInv, BlobTypes
<1>1. UNCHANGED <<files, rows, linked, work, torn>>
  BY DEF Detach, DeleteDraft, GetBlob
<1>2. /\ attached' \in [Composers -> Ref \union {NoBlob}] /\ drafts' \subseteq drafts
      /\ \A d \in Composers : attached'[d] # NoBlob => attached'[d] = attached[d] /\ (d \in drafts => d \in drafts')
  BY <1>0 DEF Detach, DeleteDraft, GetBlob
<1>3. recency' \in Seq(Contents) /\ ToSet(recency') = Cached /\ IsInjective(recency')
  <2>1. CASE recency' = recency
    BY <1>0, <2>1
  <2>2. ASSUME NEW c \in Contents, GetBlob(Blob(c)) PROVE recency' \in Seq(Contents) /\ ToSet(recency') = Cached /\ IsInjective(recency')
    <3> DEFINE u == Untracked(c)
    <3>1. c \in Cached /\ recency' = Append(u, c)
      BY <2>2 DEF GetBlob, Blob
    <3>2. u \in Seq(Contents) /\ ToSet(u) = Cached \ {c} /\ IsInjective(u)
      BY <1>0, RemovedOnce DEF Untracked
    <3> HIDE DEF u
    <3>3. ToSet(recency') = ToSet(u) \union {c} /\ IsInjective(recency')
      BY <3>1, <3>2, AppendedOnce
    <3>4. recency' \in Seq(Contents)
      BY <3>1, <3>2, AppendProperties
    <3> QED
      BY <3>1, <3>2, <3>3, <3>4
  <2> QED
    BY <2>1, <2>2 DEF Detach, DeleteDraft
<1>4. /\ Cached' = Cached /\ \A b : Live(b)' <=> Live(b)
      /\ \A x : Blob(x)' = Blob(x) /\ Committing(x)' = Committing(x)
      /\ \A v : Listed(v)' = Listed(v)
  BY <1>1 DEF Cached, Live, Blob, Committing, Listed
<1>5. BlobTypes'
  BY <1>0, <1>1, <1>2, <1>3, <1>4 DEF BlobTypes
<1>6. RefInv'
  BY <1>0, <1>1, <1>2, <1>4 DEF RefInv
<1>7. HandInv'
  BY <1>0, <1>1, <1>4 DEF HandInv
<1>8. BytesInv'
  BY <1>0, <1>1, <1>4 DEF BytesInv, RowsHaveBytes
<1>9. FilesHaveOwners'
  BY <1>0, <1>1, <1>4 DEF FilesHaveOwners
<1> QED
  BY <1>5, <1>6, <1>7, <1>8, <1>9 DEF BlobInv

LEMMA AgeKept == ASSUME BlobInv, NEW c \in Contents, Age(c) PROVE BlobInv'
<1>0. /\ BlobTypes /\ RefInv /\ HandInv /\ BytesInv /\ FilesHaveOwners
      /\ rows \in [Contents -> [tier : {"none", "cache", "durable"}, n : Nat, old : BOOLEAN]]
  BY DEF BlobInv, BlobTypes
<1>1. /\ rows' = [rows EXCEPT ![c].old = TRUE] /\ UNCHANGED <<files, recency, drafts, attached, linked, work, torn>>
      /\ ~\E d \in Composers : work[d].pc = "refer" /\ work[d].mine /\ work[d].blob = Blob(c)
  BY DEF Age
<1>2. /\ rows' \in [Contents -> [tier : {"none", "cache", "durable"}, n : Nat, old : BOOLEAN]]
      /\ \A x \in Contents : rows'[x].n = rows[x].n /\ rows'[x].tier = rows[x].tier
      /\ \A x \in Contents : x # c => rows'[x] = rows[x]
  BY <1>0, <1>1
<1>3. /\ Cached' = Cached /\ \A b : Live(b)' <=> Live(b)
      /\ \A x \in Contents : Blob(x)' = Blob(x)
      /\ \A x : Committing(x)' = Committing(x)
      /\ \A v : Listed(v)' = Listed(v)
  BY <1>1, <1>2 DEF Cached, Live, Blob, Committing, Listed
<1>4. BlobTypes'
  BY <1>0, <1>1, <1>2, <1>3 DEF BlobTypes
<1>5. RefInv'
  BY <1>0, <1>1, <1>2, <1>3 DEF RefInv, Live
<1>6. HandInv'
  <2>1. \A v \in Jobs : \A b \in Listed(v) : b.c \in Contents
    <3> SUFFICES ASSUME NEW v \in Jobs, NEW b \in Listed(v) PROVE b.c \in Contents
      OBVIOUS
    <3>1. work[v].list \in Seq(Ref)
      BY <1>0 DEF BlobTypes, WorkRec
    <3>2. b \in Ref
      BY <3>1, ElementOfSeq, LenProperties DEF Listed, ToSet
    <3> QED
      BY <3>2 DEF Ref
  <2>2. ASSUME NEW d \in Composers, work[d].pc = "refer", NEW b, b = work[d].blob
        PROVE  /\ b.n <= rows'[b.c].n /\ (Live(b)' => rows'[b.c].tier = "durable")
               /\ work[d].mine => Live(b)' /\ ~rows'[b.c].old /\ \A v \in Jobs : b \notin Listed(v)
    <3>1. b \in Ref /\ b.c \in Contents
      BY <1>0, <2>2, JobNames DEF BlobTypes, Ref
    <3>2. /\ b.n <= rows[b.c].n /\ (Live(b) => rows[b.c].tier = "durable")
          /\ work[d].mine => Live(b) /\ ~rows[b.c].old /\ \A v \in Jobs : b \notin Listed(v)
      BY <1>0, <2>2 DEF HandInv
    <3>3. work[d].mine => b.c # c
      <4> SUFFICES ASSUME work[d].mine, b.c = c PROVE FALSE
        OBVIOUS
      <4>1. b = [c |-> b.c, n |-> b.n]
        BY <3>1 DEF Ref
      <4>2. b = Blob(c)
        BY <3>2, <4>1 DEF Live, Blob
      <4> QED
        BY <1>1, <2>2, <4>2
    <3>4. work[d].mine => rows'[b.c] = rows[b.c]
      BY <1>2, <3>1, <3>3
    <3>5. b.n <= rows'[b.c].n /\ rows'[b.c].tier = rows[b.c].tier
      BY <1>2, <3>1, <3>2
    <3> QED
      BY <1>3, <3>2, <3>4, <3>5
  <2>3. \A v \in Jobs : \A b \in Listed(v) : b.n <= rows'[b.c].n
    BY <1>0, <1>2, <2>1 DEF HandInv
  <2> QED
    BY <1>1, <1>3, <2>2, <2>3 DEF HandInv
<1>7. BytesInv'
  BY <1>0, <1>1, <1>2, <1>3 DEF BytesInv, RowsHaveBytes
<1>8. FilesHaveOwners'
  BY <1>0, <1>1, <1>2, <1>3 DEF FilesHaveOwners, BlobTypes
<1> QED
  BY <1>4, <1>5, <1>6, <1>7, <1>8 DEF BlobInv

LEMMA DieKept == BlobInv /\ Die => BlobInv'
<1> SUFFICES ASSUME BlobInv, Die PROVE BlobInv'
  OBVIOUS
<1>0. /\ BlobTypes /\ RefInv /\ HandInv /\ BytesInv /\ FilesHaveOwners
      /\ Idle \in WorkRec /\ Idle.pc = "idle" /\ ToSet(Idle.list) = {}
  BY DEF BlobInv, Idle, NoBlob, WorkRec, ToSet
<1>1. /\ UNCHANGED <<files, rows, recency, drafts, attached, linked>> /\ work' = [w \in Jobs |-> Idle]
      /\ torn' = torn \union {c \in Contents : Committing(c) # {}}
                      \union {Head(work[w].list).c : w \in {v \in Jobs : work[v].pc \in {"row", "sweepfile"}}}
  BY DEF Die
<1>2. \A w \in Jobs : work'[w] = Idle
  BY <1>1
<1>3. /\ Cached' = Cached /\ \A b : Live(b)' <=> Live(b)
      /\ \A x : Blob(x)' = Blob(x) /\ Committing(x)' = {}
      /\ \A v \in Jobs : Listed(v)' = {}
  BY <1>0, <1>1, <1>2 DEF Cached, Live, Blob, Committing, Listed
<1>4. \A w \in Jobs : work[w].pc \in {"row", "sweepfile"} => Head(work[w].list).c \in Contents
  <2> SUFFICES ASSUME NEW w \in Jobs, work[w].pc \in {"row", "sweepfile"} PROVE Head(work[w].list).c \in Contents
    OBVIOUS
  <2>1. work[w].list # <<>>
    BY <1>0 DEF BlobTypes
  <2>2. Head(work[w].list) \in Ref
    BY <1>0, <2>1, HeadListed
  <2> QED
    BY <2>2 DEF Ref
<1>5. /\ torn \subseteq torn' /\ torn' \subseteq Contents
      /\ \A x \in Contents \ torn' : Committing(x) = {}
      /\ \A x \in Contents \ torn', v \in Jobs : work[v].pc \in {"row", "sweepfile"} => Head(work[v].list).c # x
  BY <1>0, <1>1, <1>4 DEF BlobTypes
<1>6. BlobTypes'
  BY <1>0, <1>1, <1>2, <1>3, <1>5, JobNames DEF BlobTypes
<1>7. RefInv'
  BY <1>0, <1>1, <1>3 DEF RefInv
<1>8. HandInv'
  BY <1>2, <1>0, <1>3, JobNames DEF HandInv
<1>9. BytesInv'
  <2>1. ASSUME NEW x \in Contents \ torn', rows[x].tier # "none" PROVE x \in files
    <3>1. CASE x \notin files
      <4>1. x \in Contents \ torn
        BY <1>5, <2>1
      <4>2. PICK v \in Jobs : work[v].pc = "row" /\ Head(work[v].list) = Blob(x)
        BY <1>0, <2>1, <3>1, <4>1 DEF BytesInv, RowsHaveBytes
      <4>3. Head(work[v].list).c = x
        BY <4>2 DEF Blob
      <4> QED
        BY <1>5, <2>1, <4>2, <4>3
    <3> QED
      BY <3>1
  <2> QED
    BY <1>0, <1>1, <1>3, <2>1 DEF BytesInv, RowsHaveBytes
<1>10. FilesHaveOwners'
  <2> SUFFICES ASSUME NEW x \in files \ torn' PROVE rows[x].tier # "none"
    BY <1>1 DEF FilesHaveOwners
  <2>1. x \in Contents \ torn' /\ x \in files \ torn /\ Committing(x) = {}
    BY <1>0, <1>5 DEF BlobTypes
  <2>2. ~(work[maint].pc = "sweepfile" /\ Head(work[maint].list).c = x)
    BY <1>5, <2>1, JobNames
  <2> QED
    BY <1>0, <2>1, <2>2 DEF FilesHaveOwners
<1> QED
  BY <1>6, <1>7, <1>8, <1>9, <1>10 DEF BlobInv

LEMMA BlobKept == BlobInv /\ [BlobNext]_blobVars => BlobInv'
<1> SUFFICES ASSUME BlobInv, [BlobNext]_blobVars PROVE BlobInv'
  OBVIOUS
<1>1. ASSUME NEW w \in Composers \union Parts, Request(w) PROVE BlobInv'
  BY <1>1, PutKept, IndexKept DEF Request
<1>2. ASSUME NEW d \in Composers, Attach(d) \/ Detach(d) \/ DeleteDraft(d) PROVE BlobInv'
  BY <1>2, ReferKept, RestKept
<1>3. ASSUME NEW p \in Parts, Evict(p) \/ EvictCut(p) \/ Link(p) PROVE BlobInv'
  BY <1>3, EvictKept, EvictCutKept, ReferKept
<1>4. CASE Maintain
  BY <1>4, EvictKept, SweepKept DEF Maintain
<1>5. ASSUME NEW c \in Contents, Age(c) \/ GetBlob(Blob(c)) PROVE BlobInv'
  BY <1>5, AgeKept, RestKept
<1>6. CASE Die
  BY <1>6, DieKept
<1>7. CASE UNCHANGED blobVars
  BY <1>7 DEF blobVars, BlobInv, BlobTypes, RefInv, HandInv, BytesInv, FilesHaveOwners, RowsHaveBytes, Cached, Live,
     Blob, Committing, Listed
<1> QED
  BY <1>1, <1>2, <1>3, <1>4, <1>5, <1>6, <1>7 DEF BlobNext

LEMMA BlobAlways == BlobSpec => []BlobInv
BY BlobInitial, BlobKept, PTL DEF BlobSpec

\* The types; every reference to a row that is there; the cache tier listed once each;
\* and a list in hand between the two steps of a removal.
THEOREM BlobTypeCorrect == BlobSpec => []BlobTypeOK
<1>1. ASSUME BlobInv PROVE BlobTypeOK
  <2>0. BlobTypes /\ RefInv
    BY <1>1 DEF BlobInv
  <2>1. \A b \in {attached[d] : d \in Composers} \union {linked[p] : p \in Parts} : b = NoBlob \/ Live(b)
    BY <2>0 DEF RefInv
  <2> QED
    BY <2>0, <2>1 DEF BlobTypes, BlobTypeOK
<1> QED
  BY <1>1, BlobAlways, PTL

\* What is referred to can be read: a row has its bytes unless steps on them overlapped, a
\* draft's is beyond the evictor, and an upload finds the row it made.
THEOREM References == BlobSpec => []ReferencesResolve
<1>1. ASSUME BlobInv PROVE ReferencesResolve
  <2>0. BlobTypes /\ RefInv /\ HandInv /\ BytesInv
    BY <1>1 DEF BlobInv
  <2>1. AttachedIsDurable
    BY <2>0 DEF RefInv, AttachedIsDurable, BlobTypes
  <2>2. UploadKeepsItsRow
    BY <2>0 DEF HandInv, UploadKeepsItsRow
  <2> QED
    BY <2>0, <2>1, <2>2 DEF BytesInv, ReferencesResolve
<1> QED
  BY <1>1, BlobAlways, PTL

\* No file is forgotten: unless steps on it overlapped or were cut, its row is there, a
\* request is about to make it, or the sweep is about to remove it.
THEOREM FilesOwned == BlobSpec => []FilesHaveOwners
BY BlobAlways, PTL DEF BlobInv

=============================================================================
