----------------------------- MODULE Web_proofs -----------------------------
(***************************************************************************)
(* Proofs about the browsers' sessions (WebSessions) and their event       *)
(* stream (RealtimeHub); at the end, that what is proved of each of the    *)
(* six services holds of their composition (MC_Services).                  *)
(***************************************************************************)
EXTENDS MC_Services, Blob_proofs, OAuth_proofs

-----------------------------------------------------------------------------
(* The event stream.                                                       *)

ClientRec ==
  [is : {"new", "serving", "ending", "gone"}, send : Seq(Nat), done : BOOLEAN, wrote : Seq(Nat)]
EventRec == [n : Nat, to : SUBSET Clients, full : Clients \union {"none"}]
HubTypes ==
  /\ serial \in 0..MaxEvents /\ publishing \in [Publishers -> EventRec]
  /\ client \in [Clients -> ClientRec] /\ owed \in [Clients -> SUBSET Nat]
InLoop(p)   == publishing[p].to # {} \/ publishing[p].full # "none"
\* The clients p has still to come to.
Ahead(p, c) == publishing[p].n # 0 /\ (c \in publishing[p].to \/ ~InLoop(p))
Left(c)     == \E p \in Publishers : publishing[p].full = c
\* An event under way has a number of its own, which no client it has still to be sent to has
\* been handed; the clients of a loop are registered.
NumbersInv ==
  /\ \A p \in Publishers : publishing[p].n <= serial /\ (InLoop(p) => publishing[p].n # 0)
  /\ \A p, q \in Publishers : p # q /\ publishing[p].n # 0 => publishing[p].n # publishing[q].n
  /\ \A c \in Clients : owed[c] \subseteq 1..serial
  /\ \A c \in Clients, p \in Publishers : Ahead(p, c) => publishing[p].n \notin owed[c]
  /\ \A p \in Publishers : \A c \in Clients :
       c \in publishing[p].to \/ c = publishing[p].full => client[c].is \in {"serving", "ending"}
RoomInv  == \A c \in Clients : Len(client[c].send) <= SendRoom
FreshInv == \A c \in Clients : client[c].is = "new" =>
              client[c].send = <<>> /\ client[c].wrote = <<>> /\ ~client[c].done /\ owed[c] = {}
\* What is written and queued for one client: all that is due unless it is being stopped, and
\* some of it, once each, until it is.
Partly(c, due) ==
  c.is = "serving" /\ ~c.done => IsInjective(c.wrote \o c.send) /\ ToSet(c.wrote \o c.send) \subseteq due
Whole(c, due, left) ==
  c.is = "serving" /\ ~c.done /\ ~left => IsInjective(c.wrote \o c.send) /\ ToSet(c.wrote \o c.send) = due
QueuedInv == \A c \in Clients : Partly(client[c], owed[c])
HubInv == HubTypes /\ NumbersInv /\ RoomInv /\ FreshInv /\ QueuedInv /\ NoSilentGap

LEMMA Appended ==
  ASSUME NEW s \in Seq(Nat), NEW e \in Nat \ ToSet(s), IsInjective(s)
  PROVE  IsInjective(Append(s, e)) /\ ToSet(Append(s, e)) = ToSet(s) \union {e}
<1>1. /\ DOMAIN s = 1..Len(s) /\ Len(s) \in Nat /\ DOMAIN Append(s, e) = 1..(Len(s) + 1)
      /\ \A i \in 1..Len(s) : Append(s, e)[i] = s[i]
      /\ Append(s, e)[Len(s) + 1] = e
  BY AppendProperties
<1>2. \A i \in 1..(Len(s) + 1) : i \in 1..Len(s) \/ i = Len(s) + 1
  BY <1>1
<1>3. IsInjective(Append(s, e))
  BY <1>1, <1>2 DEF IsInjective, ToSet
<1>4. ToSet(Append(s, e)) = ToSet(s) \union {e}
  <2>1. ASSUME NEW x \in ToSet(Append(s, e)) PROVE x \in ToSet(s) \union {e}
    BY <1>1, <1>2 DEF ToSet
  <2>2. ASSUME NEW x \in ToSet(s) PROVE x \in ToSet(Append(s, e))
    <3>1. PICK i \in 1..Len(s) : s[i] = x
      BY <1>1 DEF ToSet
    <3> QED
      BY <1>1, <3>1 DEF ToSet
  <2>3. e \in ToSet(Append(s, e))
    BY <1>1 DEF ToSet
  <2> QED
    BY <2>1, <2>2, <2>3
<1> QED
  BY <1>3, <1>4

LEMMA Joined ==
  ASSUME NEW s \in Seq(Nat), NEW t \in Seq(Nat), NEW e \in Nat
  PROVE  s \o Append(t, e) = Append(s \o t, e)
OBVIOUS

\* Writing the head of the channel leaves what is written and queued as it was.
LEMMA Moved ==
  ASSUME NEW s \in Seq(Nat), NEW t \in Seq(Nat), t # <<>>
  PROVE  Append(s, Head(t)) \o Tail(t) = s \o t
OBVIOUS

\* What is written is a prefix of what is written and queued.
LEMMA Begun ==
  ASSUME NEW s \in Seq(Nat), NEW t \in Seq(Nat)
  PROVE  SubSeq(s \o t, 1, Len(s)) = s /\ Len(s) \in 0..Len(s \o t)
OBVIOUS

LEMMA GapInParts == NoSilentGap <=> \A c \in Clients : Whole(client[c], owed[c], Left(c))
BY DEF NoSilentGap, Whole, Left, Stopping
LEMMA GapInPartsNext == NoSilentGap' <=> \A c \in Clients : Whole(client'[c], owed'[c], Left(c)')
BY DEF NoSilentGap, Whole, Left, Stopping

LEMMA HubInitial == HubInit => HubInv
<1> SUFFICES ASSUME HubInit PROVE HubInv
  OBVIOUS
<1>1. /\ NewClient \in ClientRec /\ NewClient.is = "new" /\ NewClient.send = <<>>
      /\ NewClient.wrote = <<>> /\ NewClient.done = FALSE
  BY DEF NewClient, ClientRec
<1>2. NoEvent \in EventRec /\ NoEvent.n = 0 /\ NoEvent.to = {} /\ NoEvent.full = "none"
  BY DEF NoEvent, EventRec
<1>3. HubTypes
  BY <1>1, <1>2, HubAssumption DEF HubInit, HubTypes
<1>4. NumbersInv
  BY <1>1, <1>2, HubAssumption DEF HubInit, NumbersInv, Ahead, InLoop
<1>5. RoomInv /\ FreshInv /\ QueuedInv /\ NoSilentGap
  BY <1>1, HubAssumption DEF HubInit, RoomInv, FreshInv, QueuedInv, Partly, NoSilentGap
<1> QED
  BY <1>3, <1>4, <1>5 DEF HubInv

\* A step that changes the record of one connection only.
LEMMA OneClient ==
  ASSUME HubInv, NEW c \in Clients, NEW r \in ClientRec, client' = [client EXCEPT ![c] = r],
         r.is # "new", r.is \in {"serving", "ending"} \/ Unlocked, Len(r.send) <= SendRoom,
         Partly(r, owed[c]), Whole(r, owed[c], Left(c)), UNCHANGED <<serial, publishing, owed>>
  PROVE  HubInv'
<1>0. HubTypes /\ NumbersInv /\ RoomInv /\ FreshInv /\ QueuedInv /\ NoSilentGap
  BY DEF HubInv
<1>1. /\ client' \in [Clients -> ClientRec] /\ client'[c] = r
      /\ \A d \in Clients : d # c => client'[d] = client[d]
  BY <1>0 DEF HubTypes
<1>2. HubTypes'
  BY <1>0, <1>1 DEF HubTypes
<1>3. NumbersInv'
  <2>1. ASSUME NEW p \in Publishers, NEW d \in Clients, d \in publishing[p].to \/ d = publishing[p].full
        PROVE  client'[d].is \in {"serving", "ending"}
    <3>1. CASE d # c
      BY <1>0, <1>1, <2>1, <3>1 DEF NumbersInv
    <3>2. CASE d = c
      BY <1>1, <2>1, <3>2, HubAssumption DEF Unlocked
    <3> QED
      BY <3>1, <3>2
  <2> QED
    BY <1>0, <2>1 DEF NumbersInv, Ahead, InLoop
<1>4. RoomInv' /\ FreshInv' /\ QueuedInv'
  BY <1>0, <1>1 DEF RoomInv, FreshInv, QueuedInv
<1>5. NoSilentGap'
  <2> SUFFICES ASSUME NEW d \in Clients PROVE Whole(client'[d], owed'[d], Left(d)')
    BY GapInPartsNext
  <2>0. Left(d)' = Left(d) /\ owed'[d] = owed[d]
    BY DEF Left
  <2>1. CASE d = c
    BY <1>1, <2>0, <2>1
  <2>2. CASE d # c
    BY <1>0, <1>1, <2>0, <2>2, GapInParts
  <2> QED
    BY <2>1, <2>2
<1> QED
  BY <1>2, <1>3, <1>4, <1>5 DEF HubInv

LEMMA ConnectKept == ASSUME HubInv, NEW c \in Clients, Connect(c) PROVE HubInv'
<1> DEFINE r == [client[c] EXCEPT !.is = "serving"]
<1>0. HubTypes /\ RoomInv /\ FreshInv
  BY DEF HubInv
<1>1. /\ client[c] \in ClientRec /\ client[c].is = "new" /\ client' = [client EXCEPT ![c] = r]
      /\ UNCHANGED <<serial, publishing, owed>>
  BY <1>0 DEF Connect, HubTypes
<1>2. r \in ClientRec /\ r.is = "serving" /\ r.send = <<>> /\ r.wrote = <<>>
  BY <1>0, <1>1 DEF ClientRec, FreshInv
<1>3. Len(r.send) <= SendRoom
  BY <1>2, HubAssumption
<1>4. Partly(r, owed[c]) /\ Whole(r, owed[c], Left(c))
  <2>1. owed[c] = {} /\ r.wrote \o r.send = <<>>
    BY <1>0, <1>1, <1>2 DEF FreshInv
  <2>2. IsInjective(<<>>) /\ ToSet(<<>>) = {}
    BY DEF IsInjective, ToSet
  <2> QED
    BY <2>1, <2>2 DEF Whole, Partly
<1> HIDE DEF r
<1> QED
  BY <1>1, <1>2, <1>3, <1>4, OneClient

LEMMA WriteKept == ASSUME HubInv, NEW c \in Clients, Write(c) PROVE HubInv'
<1>0. HubTypes /\ RoomInv /\ QueuedInv /\ NoSilentGap
  BY DEF HubInv
<1>1. /\ client[c] \in ClientRec /\ client[c].is = "serving" /\ client[c].send # <<>>
      /\ client[c].send \in Seq(Nat) /\ client[c].wrote \in Seq(Nat) /\ Len(client[c].send) <= SendRoom
      /\ UNCHANGED <<serial, publishing, owed>>
      /\ Partly(client[c], owed[c]) /\ Whole(client[c], owed[c], Left(c))
  BY <1>0, GapInParts DEF Write, HubTypes, ClientRec, RoomInv, QueuedInv
<1>2. /\ Head(client[c].send) \in Nat /\ Tail(client[c].send) \in Seq(Nat)
      /\ Len(Tail(client[c].send)) <= SendRoom
  BY <1>1, HeadTailProperties, HubAssumption
<1>3. CASE client[c].done
  <2> DEFINE r == [client[c] EXCEPT !.send = Tail(@), !.is = "ending"]
  <2>1. client' = [client EXCEPT ![c] = r]
    BY <1>3 DEF Write
  <2>2. r \in ClientRec /\ r.is = "ending" /\ r.send = Tail(client[c].send)
    BY <1>1, <1>2 DEF ClientRec
  <2> HIDE DEF r
  <2>3. Partly(r, owed[c]) /\ Whole(r, owed[c], Left(c))
    BY <2>2 DEF Whole, Partly
  <2> QED
    BY <1>1, <1>2, <2>1, <2>2, <2>3, OneClient
<1>4. CASE ~client[c].done
  <2> DEFINE r == [client[c] EXCEPT !.send = Tail(@), !.wrote = Append(@, Head(client[c].send))]
  <2>1. client' = [client EXCEPT ![c] = r]
    BY <1>1, <1>4 DEF Write, ClientRec
  <2>2. /\ r.is = "serving" /\ r.send = Tail(client[c].send) /\ r.done = client[c].done
        /\ r.wrote = Append(client[c].wrote, Head(client[c].send))
    BY <1>1 DEF ClientRec
  <2>3. r.wrote \in Seq(Nat)
    BY <1>1, <1>2, <2>2, AppendProperties
  <2>4. r \in ClientRec
    BY <1>1, <1>2, <2>2, <2>3 DEF ClientRec
  <2> HIDE DEF r
  <2>5. r.wrote \o r.send = client[c].wrote \o client[c].send
    BY <1>1, <2>2, Moved
  <2>6. Partly(r, owed[c]) /\ Whole(r, owed[c], Left(c))
    BY <1>1, <1>4, <2>2, <2>5 DEF Whole, Partly
  <2> QED
    BY <1>1, <1>2, <2>1, <2>2, <2>4, <2>6, OneClient
<1> QED
  BY <1>3, <1>4

LEMMA LeavesKept == ASSUME HubInv, NEW c \in Clients, Ends(c) \/ Unregister(c) PROVE HubInv'
<1>0. HubTypes /\ RoomInv
  BY DEF HubInv
<1>1. client[c] \in ClientRec /\ Len(client[c].send) <= SendRoom /\ UNCHANGED <<serial, publishing, owed>>
  BY <1>0 DEF Ends, Unregister, HubTypes, RoomInv
<1>2. PICK r \in ClientRec : /\ client' = [client EXCEPT ![c] = r] /\ r.send = client[c].send
                             /\ (r.is = "ending" \/ (r.is = "gone" /\ Unlocked))
  <2>1. CASE Ends(c)
    <3> DEFINE r == [client[c] EXCEPT !.is = "ending"]
    <3>1. client' = [client EXCEPT ![c] = r] /\ r \in ClientRec /\ r.is = "ending" /\ r.send = client[c].send
      BY <1>1, <2>1 DEF Ends, ClientRec
    <3> HIDE DEF r
    <3>2. (r.is = "ending" \/ (r.is = "gone" /\ Unlocked))
      BY <3>1
    <3> QED
      BY <3>1, <3>2
  <2>2. CASE Unregister(c)
    <3> DEFINE r == [client[c] EXCEPT !.is = "gone", !.done = TRUE]
    <3>1. /\ client' = [client EXCEPT ![c] = r] /\ r \in ClientRec /\ r.is = "gone"
          /\ r.send = client[c].send /\ Unlocked
      BY <1>1, <2>2 DEF Unregister, ClientRec
    <3> HIDE DEF r
    <3> QED
      BY <3>1
  <2> QED
    BY <2>1, <2>2
<1>3. Partly(r, owed[c]) /\ Whole(r, owed[c], Left(c))
  BY <1>2 DEF Whole, Partly
<1> QED
  BY <1>1, <1>2, <1>3, OneClient

\* A turn of the loop, its last one included.
LEMMA Turned ==
  ASSUME HubInv, NEW p \in Publishers, publishing[p].n # 0, NEW to \in SUBSET Clients, Loop(p, to)
  PROVE  /\ publishing' \in [Publishers -> EventRec]
         /\ \A q \in Publishers : q # p => publishing'[q] = publishing[q]
         /\ publishing'[p].n \in {0, publishing[p].n} /\ publishing'[p].to = to
         /\ publishing'[p].full = "none" /\ (publishing'[p].n # 0 <=> to # {})
<1>1. publishing \in [Publishers -> EventRec] /\ publishing[p] \in EventRec
  BY DEF HubInv, HubTypes
<1>2. NoEvent \in EventRec /\ NoEvent.n = 0 /\ NoEvent.to = {} /\ NoEvent.full = "none"
  BY DEF NoEvent, EventRec
<1>3. CASE to = {}
  BY <1>1, <1>2, <1>3 DEF Loop
<1>4. CASE to # {}
  <2> DEFINE r == [publishing[p] EXCEPT !.to = to, !.full = "none"]
  <2>1. r \in EventRec /\ r.n = publishing[p].n /\ r.to = to /\ r.full = "none"
    BY <1>1 DEF EventRec
  <2>2. publishing' = [publishing EXCEPT ![p] = r]
    BY <1>4 DEF Loop
  <2> HIDE DEF r
  <2> QED
    BY <1>1, <1>4, <2>1, <2>2
<1> QED
  BY <1>3, <1>4

\* A publisher's step keeps the numbers apart if it goes on with its own event or is done
\* with it, and has it still to send only where it had, to clients that were handed nothing.
LEMMA NumbersMove ==
  ASSUME HubInv, NEW p \in Publishers, publishing' \in [Publishers -> EventRec],
         \A q \in Publishers : q # p => publishing'[q] = publishing[q],
         publishing'[p].n \in {0, publishing[p].n}, InLoop(p)' => publishing'[p].n # 0,
         serial' = serial, publishing[p].n # 0,
         \A c \in Clients : owed'[c] \subseteq owed[c] \union {publishing[p].n},
         \A c \in Clients : Ahead(p, c)' => Ahead(p, c) /\ owed'[c] = owed[c],
         \A c \in Clients : c \in publishing'[p].to \/ c = publishing'[p].full => c \in Registered,
         \A c \in Clients : client'[c].is = client[c].is
  PROVE  NumbersInv'
<1>0. HubTypes /\ NumbersInv
  BY DEF HubInv
<1>1. /\ serial \in Nat /\ publishing[p].n \in Nat /\ publishing[p].n <= serial
      /\ \A q \in Publishers : publishing'[q].n \in Nat
  BY <1>0, HubAssumption DEF HubTypes, NumbersInv, EventRec
<1>2. ASSUME NEW q \in Publishers PROVE publishing'[q].n <= serial' /\ (InLoop(q)' => publishing'[q].n # 0)
  <2>1. CASE q = p
    BY <1>1, <2>1
  <2>2. CASE q # p
    BY <1>0, <2>2 DEF NumbersInv, InLoop
  <2> QED
    BY <2>1, <2>2
<1>3. ASSUME NEW q \in Publishers, NEW r \in Publishers, q # r, publishing'[q].n # 0
      PROVE  publishing'[q].n # publishing'[r].n
  BY <1>0, <1>3 DEF NumbersInv
<1>4. \A c \in Clients : owed'[c] \subseteq 1..serial'
  BY <1>0, <1>1 DEF NumbersInv
<1>5. ASSUME NEW c \in Clients, NEW q \in Publishers, Ahead(q, c)' PROVE publishing'[q].n \notin owed'[c]
  <2>1. CASE q = p
    <3>1. publishing'[p].n = publishing[p].n
      BY <1>5, <2>1 DEF Ahead, InLoop
    <3> QED
      BY <1>0, <1>5, <2>1, <3>1 DEF NumbersInv
  <2>2. CASE q # p
    <3>1. publishing'[q] = publishing[q] /\ Ahead(q, c) /\ publishing[q].n # 0
      BY <1>5, <2>2 DEF Ahead, InLoop
    <3>2. publishing[q].n \notin owed[c] /\ publishing[q].n # publishing[p].n
      BY <1>0, <2>2, <3>1 DEF NumbersInv
    <3> QED
      BY <3>1, <3>2
  <2> QED
    BY <2>1, <2>2
<1>6. ASSUME NEW q \in Publishers, NEW c \in Clients, c \in publishing'[q].to \/ c = publishing'[q].full
      PROVE  client'[c].is \in {"serving", "ending"}
  <2>1. CASE q = p
    BY <1>6, <2>1 DEF Registered
  <2>2. CASE q # p
    BY <1>0, <1>6, <2>2 DEF NumbersInv
  <2> QED
    BY <2>1, <2>2
<1> QED
  BY <1>2, <1>3, <1>4, <1>5, <1>6 DEF NumbersInv

LEMMA TakeNumberKept == ASSUME HubInv, NEW p \in Publishers, TakeNumber(p) PROVE HubInv'
<1>0. HubTypes /\ NumbersInv /\ RoomInv /\ FreshInv /\ QueuedInv /\ NoSilentGap
  BY DEF HubInv
<1> DEFINE r == [publishing[p] EXCEPT !.n = serial + 1]
<1>1. /\ serial' = serial + 1 /\ serial < MaxEvents /\ UNCHANGED <<client, owed>>
      /\ publishing' = [publishing EXCEPT ![p] = r] /\ publishing[p] = NoEvent
  BY DEF TakeNumber
<1>2. serial \in Nat /\ serial' \in 0..MaxEvents
  BY <1>0, <1>1, HubAssumption DEF HubTypes
<1>3. r \in EventRec /\ r.n = serial + 1 /\ r.to = {} /\ r.full = "none"
  BY <1>1, <1>2 DEF EventRec, NoEvent
<1> HIDE DEF r
<1>4. /\ publishing' \in [Publishers -> EventRec] /\ publishing'[p] = r
      /\ \A q \in Publishers : q # p => publishing'[q] = publishing[q]
  BY <1>0, <1>1, <1>3 DEF HubTypes
<1>5. HubTypes'
  BY <1>0, <1>1, <1>2, <1>4 DEF HubTypes
<1>6. \A q \in Publishers : publishing[q].n \in Nat /\ publishing[q].n <= serial
  BY <1>0 DEF HubTypes, NumbersInv, EventRec
<1>7. NumbersInv'
  <2>1. ASSUME NEW q \in Publishers
        PROVE  /\ publishing'[q].n <= serial' /\ (InLoop(q)' => publishing'[q].n # 0)
               /\ \A c \in Clients : c \in publishing'[q].to \/ c = publishing'[q].full =>
                    client'[c].is \in {"serving", "ending"}
    <3>1. CASE q = p
      BY <1>1, <1>2, <1>3, <1>4, <3>1, HubAssumption DEF InLoop
    <3>2. CASE q # p
      BY <1>0, <1>1, <1>2, <1>4, <1>6, <3>2 DEF NumbersInv, InLoop
    <3> QED
      BY <3>1, <3>2
  <2>2. ASSUME NEW q \in Publishers, NEW t \in Publishers, q # t, publishing'[q].n # 0
        PROVE  publishing'[q].n # publishing'[t].n
    BY <1>0, <1>2, <1>3, <1>4, <1>6, <2>2 DEF NumbersInv
  <2>3. \A c \in Clients : owed'[c] \subseteq 1..serial'
    BY <1>0, <1>1, <1>2 DEF NumbersInv
  <2>4. ASSUME NEW c \in Clients, NEW q \in Publishers, Ahead(q, c)' PROVE publishing'[q].n \notin owed'[c]
    <3>1. CASE q = p
      BY <1>0, <1>1, <1>2, <1>3, <1>4, <3>1 DEF NumbersInv
    <3>2. CASE q # p
      BY <1>0, <1>1, <1>4, <2>4, <3>2 DEF NumbersInv, Ahead, InLoop
    <3> QED
      BY <3>1, <3>2
  <2> QED
    BY <2>1, <2>2, <2>3, <2>4 DEF NumbersInv
<1>8. RoomInv' /\ FreshInv' /\ QueuedInv'
  BY <1>0, <1>1 DEF RoomInv, FreshInv, QueuedInv
<1>9. NoSilentGap'
  <2>1. \A c \in Clients : Left(c)' = Left(c)
    <3>1. publishing[p].full = "none" /\ publishing'[p].full = "none"
      BY <1>1, <1>3, <1>4 DEF NoEvent
    <3>2. \A q \in Publishers : publishing'[q].full = publishing[q].full
      BY <1>4, <3>1
    <3> QED
      BY <3>2 DEF Left
  <2>2. \A c \in Clients : Whole(client[c], owed[c], Left(c))
    BY <1>0, GapInParts
  <2> QED
    BY <1>1, <2>1, <2>2, GapInPartsNext
<1> QED
  BY <1>5, <1>7, <1>8, <1>9 DEF HubInv

LEMMA HandOutKept == ASSUME HubInv, NEW p \in Publishers, HandOut(p) PROVE HubInv'
<1>0. HubTypes /\ NumbersInv /\ RoomInv /\ FreshInv /\ QueuedInv /\ NoSilentGap
  BY DEF HubInv
<1>1. /\ publishing[p].n # 0 /\ publishing[p].to = {} /\ publishing[p].full = "none"
      /\ Loop(p, Registered) /\ UNCHANGED <<serial, client, owed>> /\ Registered \in SUBSET Clients
  BY DEF HandOut, Registered
<1>2. /\ publishing' \in [Publishers -> EventRec]
      /\ \A q \in Publishers : q # p => publishing'[q] = publishing[q]
      /\ publishing'[p].n \in {0, publishing[p].n} /\ publishing'[p].to = Registered
      /\ publishing'[p].full = "none" /\ (publishing'[p].n # 0 <=> Registered # {})
  BY <1>1, Turned
<1>3. HubTypes'
  BY <1>0, <1>1, <1>2 DEF HubTypes
<1>4. NumbersInv'
  <2>1. \A c \in Clients : Ahead(p, c)' => Ahead(p, c) /\ owed'[c] = owed[c]
    BY <1>1 DEF Ahead, InLoop
  <2>2. InLoop(p)' => publishing'[p].n # 0
    BY <1>2 DEF InLoop
  <2>3. \A c \in Clients : c \in publishing'[p].to \/ c = publishing'[p].full => c \in Registered
    BY <1>2, HubAssumption
  <2> QED
    BY <1>1, <1>2, <2>1, <2>2, <2>3, NumbersMove
<1>5. RoomInv' /\ FreshInv' /\ QueuedInv'
  BY <1>0, <1>1 DEF RoomInv, FreshInv, QueuedInv
<1>6. NoSilentGap'
  <2>1. \A c \in Clients : Left(c)' = Left(c)
    <3>1. \A q \in Publishers : publishing'[q].full = publishing[q].full
      BY <1>1, <1>2
    <3> QED
      BY <3>1 DEF Left
  <2>2. \A c \in Clients : Whole(client[c], owed[c], Left(c))
    BY <1>0, GapInParts
  <2> QED
    BY <1>1, <2>1, <2>2, GapInPartsNext
<1> QED
  BY <1>3, <1>4, <1>5, <1>6 DEF HubInv

\* The client a publisher gives an event to, or has to stop.
LEMMA SendKept == ASSUME HubInv, NEW p \in Publishers, NEW c \in Clients, Send(p, c) PROVE HubInv'
<1> DEFINE e == publishing[p].n
<1>0. HubTypes /\ NumbersInv /\ RoomInv /\ FreshInv /\ QueuedInv /\ NoSilentGap
  BY DEF HubInv
<1>1. /\ c \in publishing[p].to /\ publishing[p].full = "none" /\ publishing[p].to \in SUBSET Clients
      /\ publishing[p] \in EventRec /\ e # 0 /\ e \in Nat /\ e <= serial
      /\ serial' = serial /\ owed' = [owed EXCEPT ![c] = @ \union {e}] /\ e \notin owed[c]
      /\ client[c].is \in {"serving", "ending"}
  BY <1>0 DEF Send, HubTypes, NumbersInv, InLoop, Ahead, EventRec
<1>2. /\ client[c] \in ClientRec /\ Len(client[c].send) <= SendRoom
      /\ client[c].send \in Seq(Nat) /\ client[c].wrote \in Seq(Nat)
      /\ Partly(client[c], owed[c]) /\ Whole(client[c], owed[c], Left(c))
  BY <1>0, GapInParts DEF HubTypes, RoomInv, QueuedInv, ClientRec
<1>3. /\ owed' \in [Clients -> SUBSET Nat] /\ owed'[c] = owed[c] \union {e}
      /\ \A d \in Clients : d # c => owed'[d] = owed[d]
  BY <1>0, <1>1 DEF HubTypes
<1> HIDE DEF e
<1>4. /\ publishing' \in [Publishers -> EventRec]
      /\ \A q \in Publishers : q # p => publishing'[q] = publishing[q]
      /\ publishing'[p].n \in {0, e} /\ publishing'[p].to = publishing[p].to \ {c}
      /\ publishing'[p].full = IF Full(c) THEN c ELSE "none"
      /\ publishing'[p].n # 0 <=> publishing'[p].to # {} \/ Full(c)
  <2>1. CASE Full(c)
    <3> DEFINE r == [publishing[p] EXCEPT !.to = @ \ {c}, !.full = c]
    <3>1. r \in EventRec /\ r.n = e /\ r.to = publishing[p].to \ {c} /\ r.full = c
      BY <1>1 DEF EventRec, e
    <3>2. publishing' = [publishing EXCEPT ![p] = r]
      BY <2>1 DEF Send
    <3> HIDE DEF r
    <3> QED
      BY <1>0, <1>1, <2>1, <3>1, <3>2 DEF HubTypes
  <2>2. CASE ~Full(c)
    <3>1. Loop(p, publishing[p].to \ {c})
      BY <2>2 DEF Send
    <3> QED
      BY <1>1, <2>2, <3>1, Turned DEF e
  <2> QED
    BY <2>1, <2>2
<1>5. /\ client' \in [Clients -> ClientRec] /\ \A d \in Clients : d # c => client'[d] = client[d]
      /\ client'[c].is = client[c].is /\ Len(client'[c].send) <= SendRoom
      /\ Partly(client'[c], owed'[c])
      /\ Whole(client'[c], owed'[c], Left(c)')
  <2>1. CASE Full(c)
    <3>1. client' = client /\ Left(c)'
      BY <1>4, <2>1 DEF Send, Left
    <3> QED
      BY <1>0, <1>2, <1>3, <3>1 DEF HubTypes, Partly, Whole
  <2>2. CASE ~Full(c)
    <3> DEFINE r == [client[c] EXCEPT !.send = Append(@, e)]
    <3>1. client' = [client EXCEPT ![c] = r]
      BY <2>2 DEF Send, e
    <3>2. /\ r.is = client[c].is /\ r.done = client[c].done /\ r.wrote = client[c].wrote
          /\ r.send = Append(client[c].send, e)
      BY <1>2 DEF ClientRec
    <3>3. r.send \in Seq(Nat) /\ Len(r.send) = Len(client[c].send) + 1
      BY <1>1, <1>2, <3>2, AppendProperties
    <3>4. r \in ClientRec
      BY <1>2, <3>3 DEF ClientRec
    <3> HIDE DEF r
    <3>5. Len(r.send) <= SendRoom
      BY <1>2, <2>2, <3>3, HubAssumption DEF Full
    <3>6. r.wrote \o r.send = Append(client[c].wrote \o client[c].send, e)
      BY <1>1, <1>2, <3>2, Joined
    <3>7. client[c].wrote \o client[c].send \in Seq(Nat)
      BY <1>2, ConcatProperties
    <3>8. Partly(r, owed'[c])
      <4>1. ASSUME r.is = "serving", ~r.done
            PROVE  IsInjective(r.wrote \o r.send) /\ ToSet(r.wrote \o r.send) \subseteq owed'[c]
        <5>1. /\ IsInjective(client[c].wrote \o client[c].send)
              /\ ToSet(client[c].wrote \o client[c].send) \subseteq owed[c]
          BY <1>2, <3>2, <4>1 DEF Partly
        <5>2. e \in Nat \ ToSet(client[c].wrote \o client[c].send)
          BY <1>1, <5>1
        <5>3. /\ IsInjective(Append(client[c].wrote \o client[c].send, e))
              /\ ToSet(Append(client[c].wrote \o client[c].send, e))
                 = ToSet(client[c].wrote \o client[c].send) \union {e}
          BY <3>7, <5>1, <5>2, Appended
        <5> QED
          BY <1>3, <3>6, <5>1, <5>3
      <4> QED
        BY <4>1 DEF Partly
    <3>9. Left(c)' = Left(c)
      <4>1. \A q \in Publishers : publishing'[q].full = publishing[q].full
        BY <1>1, <1>4, <2>2
      <4> QED
        BY <4>1 DEF Left
    <3>10. Whole(r, owed'[c], Left(c)')
      <4>1. ASSUME r.is = "serving", ~r.done, ~Left(c)
            PROVE  IsInjective(r.wrote \o r.send) /\ ToSet(r.wrote \o r.send) = owed'[c]
        <5>1. /\ IsInjective(client[c].wrote \o client[c].send)
              /\ ToSet(client[c].wrote \o client[c].send) = owed[c]
          BY <1>2, <3>2, <4>1 DEF Whole
        <5>2. e \in Nat \ ToSet(client[c].wrote \o client[c].send)
          BY <1>1, <5>1
        <5>3. /\ IsInjective(Append(client[c].wrote \o client[c].send, e))
              /\ ToSet(Append(client[c].wrote \o client[c].send, e))
                 = ToSet(client[c].wrote \o client[c].send) \union {e}
          BY <3>7, <5>1, <5>2, Appended
        <5> QED
          BY <1>3, <3>6, <5>1, <5>3
      <4> QED
        BY <3>9, <4>1 DEF Whole
    <3>11. client'[c] = r /\ client' \in [Clients -> ClientRec] /\ \A d \in Clients : d # c => client'[d] = client[d]
      BY <1>0, <3>1, <3>4 DEF HubTypes
    <3> QED
      BY <3>2, <3>5, <3>8, <3>10, <3>11
  <2> QED
    BY <2>1, <2>2
<1>6. HubTypes'
  BY <1>0, <1>1, <1>3, <1>4, <1>5 DEF HubTypes
<1>7. NumbersInv'
  <2>1. ASSUME NEW d \in Clients, Ahead(p, d)' PROVE Ahead(p, d) /\ owed'[d] = owed[d]
    <3>1. d \in publishing'[p].to
      BY <1>1, <1>4, <2>1, HubAssumption DEF Ahead, InLoop
    <3>2. d \in publishing[p].to /\ d # c
      BY <1>4, <3>1
    <3> QED
      BY <1>1, <1>3, <3>2 DEF Ahead, InLoop, e
  <2>2. InLoop(p)' => publishing'[p].n # 0
    BY <1>4 DEF InLoop
  <2>3. ASSUME NEW d \in Clients, d \in publishing'[p].to \/ d = publishing'[p].full PROVE d \in Registered
    <3>1. d \in publishing[p].to
      BY <1>1, <1>4, <2>3, HubAssumption
    <3> QED
      BY <1>0, <3>1 DEF NumbersInv, Registered
  <2>4. \A d \in Clients : client'[d].is = client[d].is
    BY <1>5
  <2>5. \A d \in Clients : owed'[d] \subseteq owed[d] \union {publishing[p].n}
    BY <1>3 DEF e
  <2> QED
    BY <1>1, <1>4, <2>1, <2>2, <2>3, <2>4, <2>5, NumbersMove DEF e
<1>8. RoomInv' /\ FreshInv' /\ QueuedInv'
  <2>1. ASSUME NEW d \in Clients
        PROVE  /\ Len(client'[d].send) <= SendRoom /\ Partly(client'[d], owed'[d])
               /\ client'[d].is = "new" => client'[d] = client[d] /\ owed'[d] = owed[d]
    <3>1. CASE d = c
      BY <1>1, <1>5, <3>1
    <3>2. CASE d # c
      BY <1>0, <1>3, <1>5, <3>2 DEF RoomInv, QueuedInv
    <3> QED
      BY <3>1, <3>2
  <2> QED
    BY <1>0, <2>1 DEF RoomInv, FreshInv, QueuedInv
<1>9. NoSilentGap'
  <2>1. ASSUME NEW d \in Clients, d # c PROVE Whole(client'[d], owed'[d], Left(d)')
    <3>1. Left(d) => Left(d)'
      <4>1. ASSUME NEW q \in Publishers, publishing[q].full = d PROVE q # p
        BY <1>1, <4>1, HubAssumption
      <4> QED
        BY <1>4, <4>1 DEF Left
    <3>2. Whole(client[d], owed[d], Left(d))
      BY <1>0, GapInParts
    <3> QED
      BY <1>3, <1>5, <2>1, <3>1, <3>2 DEF Whole
  <2> QED
    BY <1>5, <2>1, GapInPartsNext
<1> QED
  BY <1>6, <1>7, <1>8, <1>9 DEF HubInv

LEMMA StopFullKept == ASSUME HubInv, NEW p \in Publishers, StopFull(p) PROVE HubInv'
<1> DEFINE c == publishing[p].full
           r == [client[c] EXCEPT !.done = TRUE]
<1>0. HubTypes /\ NumbersInv /\ RoomInv /\ FreshInv /\ QueuedInv /\ NoSilentGap
  BY DEF HubInv
<1>1. /\ publishing[p] \in EventRec /\ c \in Clients /\ client[c].is \in {"serving", "ending"}
      /\ publishing[p].to \in SUBSET Clients /\ publishing[p].n # 0
      /\ client' = [client EXCEPT ![c] = r] /\ Loop(p, publishing[p].to) /\ UNCHANGED <<serial, owed>>
  BY <1>0 DEF StopFull, HubTypes, NumbersInv, InLoop, EventRec
<1>2. /\ client[c] \in ClientRec /\ r \in ClientRec /\ r.is = client[c].is /\ r.done = TRUE
      /\ r.send = client[c].send
  BY <1>0, <1>1 DEF HubTypes, ClientRec
<1>3. /\ publishing' \in [Publishers -> EventRec]
      /\ \A q \in Publishers : q # p => publishing'[q] = publishing[q]
      /\ publishing'[p].n \in {0, publishing[p].n} /\ publishing'[p].to = publishing[p].to
      /\ publishing'[p].full = "none" /\ (publishing'[p].n # 0 <=> publishing[p].to # {})
  BY <1>1, Turned
<1> HIDE DEF r
<1>4. /\ client' \in [Clients -> ClientRec] /\ client'[c] = r
      /\ \A d \in Clients : d # c => client'[d] = client[d]
  BY <1>0, <1>1, <1>2 DEF HubTypes
<1>5. HubTypes'
  BY <1>0, <1>1, <1>3, <1>4 DEF HubTypes
<1>6. \A d \in Clients : client'[d].is = client[d].is /\ client'[d].send = client[d].send
  BY <1>2, <1>4
<1>7. NumbersInv'
  <2>1. ASSUME NEW d \in Clients, Ahead(p, d)' PROVE Ahead(p, d)
    <3>1. d \in publishing[p].to
      BY <1>3, <2>1 DEF Ahead, InLoop
    <3> QED
      BY <1>1, <3>1 DEF Ahead, InLoop
  <2>2. InLoop(p)' => publishing'[p].n # 0
    BY <1>3 DEF InLoop
  <2>3. \A d \in Clients : d \in publishing'[p].to \/ d = publishing'[p].full => d \in Registered
    BY <1>0, <1>3, HubAssumption DEF NumbersInv, Registered
  <2> QED
    BY <1>1, <1>3, <1>6, <2>1, <2>2, <2>3, NumbersMove
<1>8. RoomInv' /\ FreshInv' /\ QueuedInv'
  <2>1. ASSUME NEW d \in Clients
        PROVE  Partly(client'[d], owed'[d]) /\ (client'[d].is = "new" => client'[d] = client[d])
    <3>1. CASE d = c
      BY <1>1, <1>2, <1>4, <3>1 DEF Partly
    <3>2. CASE d # c
      BY <1>0, <1>1, <1>4, <3>2 DEF QueuedInv
    <3> QED
      BY <3>1, <3>2
  <2> QED
    BY <1>0, <1>1, <1>6, <2>1 DEF RoomInv, FreshInv, QueuedInv
<1>9. NoSilentGap'
  <2>1. ASSUME NEW d \in Clients PROVE Whole(client'[d], owed'[d], Left(d)')
    <3>1. CASE d = c
      BY <1>2, <1>4, <3>1 DEF Whole
    <3>2. CASE d # c
      <4>1. Left(d) => Left(d)'
        BY <1>3, <3>2 DEF Left
      <4>2. Whole(client[d], owed[d], Left(d))
        BY <1>0, GapInParts
      <4> QED
        BY <1>1, <1>4, <3>2, <4>1, <4>2 DEF Whole
    <3> QED
      BY <3>1, <3>2
  <2> QED
    BY <2>1, GapInPartsNext
<1> QED
  BY <1>5, <1>7, <1>8, <1>9 DEF HubInv

LEMMA HubKept == HubInv /\ [HubNext]_hubVars => HubInv'
<1> SUFFICES ASSUME HubInv, [HubNext]_hubVars PROVE HubInv'
  OBVIOUS
<1>1. ASSUME NEW p \in Publishers, TakeNumber(p) \/ HandOut(p) \/ StopFull(p) PROVE HubInv'
  BY <1>1, TakeNumberKept, HandOutKept, StopFullKept
<1>2. ASSUME NEW p \in Publishers, NEW c \in Clients, Send(p, c) PROVE HubInv'
  BY <1>2, SendKept
<1>3. ASSUME NEW c \in Clients, Connect(c) \/ Write(c) \/ Ends(c) \/ Unregister(c) PROVE HubInv'
  BY <1>3, ConnectKept, WriteKept, LeavesKept
<1>4. CASE UNCHANGED hubVars
  BY <1>4 DEF hubVars, HubInv, HubTypes, NumbersInv, Ahead, InLoop, RoomInv, FreshInv, QueuedInv,
              NoSilentGap, Stopping
<1> QED
  BY <1>1, <1>2, <1>3, <1>4 DEF HubNext

LEMMA HubAlways == HubSpec => []HubInv
BY HubInitial, HubKept, PTL DEF HubSpec

\* The types, and a send channel never over its depth, however many publishers hand
\* out at once.
THEOREM HubTypeCorrect == HubSpec => []HubTypeOK
<1>1. ASSUME HubInv PROVE HubTypeOK
  <2>1. HubTypes /\ NumbersInv /\ RoomInv
    BY <1>1 DEF HubInv
  <2>2. publishing \in [Publishers -> [n : 0..serial, to : SUBSET Clients, full : Clients \union {"none"}]]
    <3>1. ASSUME NEW p \in Publishers
          PROVE  publishing[p] \in [n : 0..serial, to : SUBSET Clients, full : Clients \union {"none"}]
      <4>1. publishing[p] \in EventRec /\ publishing[p].n <= serial /\ serial \in Nat
        BY <2>1, HubAssumption DEF HubTypes, NumbersInv
      <4>2. publishing[p].n \in 0..serial
        BY <4>1 DEF EventRec
      <4> QED
        BY <4>1, <4>2 DEF EventRec
    <3>2. publishing = [p \in Publishers |-> publishing[p]]
      BY <2>1 DEF HubTypes
    <3> QED
      BY <3>1, <3>2
  <2>3. \A c \in Clients : client[c].is \in {"new", "serving", "ending", "gone"} /\ client[c].done \in BOOLEAN
    BY <2>1, Zenon DEF HubTypes, ClientRec
  <2> QED
    BY <2>1, <2>2, <2>3 DEF HubTypes, NumbersInv, RoomInv, HubTypeOK
<1> QED
  BY <1>1, HubAlways, PTL

\* A connection that is served has written or queued each event handed out since it
\* registered, once; one that could not take an event is being stopped.
THEOREM NoGap == HubSpec => []NoSilentGap
<1>1. HubInv => NoSilentGap
  BY DEF HubInv
<1> QED
  BY <1>1, HubAlways, PTL

\* A browser's feed after a step that concerns one connection.
FeedMoves(c) ==
  \/ FeedOf(c)' = FeedOf(c)
  \/ /\ FeedOf(c).is = "new" /\ FeedOf(c)' = [FeedOf(c) EXCEPT !.is = "open"]
  \/ /\ FeedOf(c).is = "open" /\ FeedOf(c)' = [FeedOf(c) EXCEPT !.is = "losing"]
  \/ /\ FeedOf(c).is \in {"open", "losing"}
     /\ \E n \in 0..Len(FeedOf(c).events) :
          FeedOf(c)' = [is |-> "closed", events |-> SubSeq(FeedOf(c).events, 1, n)]
  \/ /\ FeedOf(c).is \in {"open", "losing"}
     /\ \E e \in 1..MaxEvents : /\ \A i \in DOMAIN FeedOf(c).events : FeedOf(c).events[i] # e
                                /\ FeedOf(c)' = [FeedOf(c) EXCEPT !.events = Append(@, e)]

LEMMA OneFeed ==
  ASSUME NEW c \in Clients, FeedMoves(c), \A d \in Clients : d # c => FeedOf(d)' = FeedOf(d)
  PROVE  [Feed!Next]_(Feed!feedVars)
<1> DEFINE F == [d \in Clients |-> FeedOf(d)]
<1>1. F[c] = FeedOf(c) /\ F' = [d \in Clients |-> FeedOf(d)']
  OBVIOUS
<1>2. F' = [F EXCEPT ![c] = FeedOf(c)']
  BY <1>1
<1>3. FeedOf(c)' = FeedOf(c) => F' = F
  BY <1>1, <1>2
<1> HIDE DEF F
<1>4. CASE F[c].is = "new" /\ FeedOf(c)' = [F[c] EXCEPT !.is = "open"]
  BY <1>2, <1>4 DEF Feed!Next, Feed!Connected, F
<1>5. CASE F[c].is = "open" /\ FeedOf(c)' = [F[c] EXCEPT !.is = "losing"]
  BY <1>2, <1>5 DEF Feed!Next, Feed!Missed, F
<1>6. CASE /\ F[c].is \in {"open", "losing"}
           /\ \E n \in 0..Len(F[c].events) : FeedOf(c)' = [is |-> "closed", events |-> SubSeq(F[c].events, 1, n)]
  <2>1. PICK n \in 0..Len(F[c].events) : FeedOf(c)' = [is |-> "closed", events |-> SubSeq(F[c].events, 1, n)]
    BY <1>6
  <2>2. F' = [F EXCEPT ![c] = [is |-> "closed", events |-> SubSeq(@.events, 1, n)]]
    BY <1>2, <2>1
  <2>3. Feed!Closed(c)
    BY <1>6, <2>2 DEF Feed!Closed, F
  <2> QED
    BY <2>3 DEF Feed!Next, F
<1>7. CASE /\ F[c].is \in {"open", "losing"}
           /\ \E e \in 1..MaxEvents : /\ \A i \in DOMAIN F[c].events : F[c].events[i] # e
                                      /\ FeedOf(c)' = [F[c] EXCEPT !.events = Append(@, e)]
  <2>1. PICK e \in 1..MaxEvents : /\ \A i \in DOMAIN F[c].events : F[c].events[i] # e
                                  /\ FeedOf(c)' = [F[c] EXCEPT !.events = Append(@, e)]
    BY <1>7
  <2>2. F' = [F EXCEPT ![c].events = Append(@, e)]
    BY <1>2, <2>1
  <2>3. Feed!Told(c, e)
    BY <1>7, <2>1, <2>2 DEF Feed!Told, F
  <2> QED
    BY <2>3 DEF Feed!Next, F
<1> QED
  BY <1>1, <1>3, <1>4, <1>5, <1>6, <1>7 DEF FeedMoves, F, Feed!feedVars

\* A step that shows in no browser.
LEMMA NoFeed ==
  ASSUME \A d \in Clients : FeedOf(d)' = FeedOf(d)
  PROVE  [Feed!Next]_(Feed!feedVars)
BY DEF Feed!feedVars

\* A feed is a record of two fields.
LEMMA FeedFields ==
  ASSUME NEW f, NEW is, NEW events, f = [is |-> is, events |-> events]
  PROVE  /\ f.is = is /\ f.events = events
         /\ \A a : [f EXCEPT !.is = a] = [is |-> a, events |-> events]
         /\ \A a : [f EXCEPT !.events = Append(@, a)] = [is |-> is, events |-> Append(events, a)]
OBVIOUS

\* The four things a browser can be shown of its connection, before and after a step.
LEMMA FeedShown ==
  ASSUME NEW c \in Clients
  PROVE  /\ client[c].is = "new" => FeedOf(c) = [is |-> "new", events |-> client[c].wrote]
         /\ client[c].is # "new" /\ ~Serving(c) => FeedOf(c) = [is |-> "closed", events |-> client[c].wrote]
         /\ Serving(c) /\ Left(c) =>
              FeedOf(c) = [is |-> "losing", events |-> client[c].wrote \o client[c].send]
         /\ Serving(c) /\ ~Left(c) =>
              FeedOf(c) = [is |-> "open", events |-> client[c].wrote \o client[c].send]
BY Zenon DEF FeedOf, Serving, Stopping, Left

LEMMA FeedShownNext ==
  ASSUME NEW c \in Clients
  PROVE  /\ client'[c].is = "new" => FeedOf(c)' = [is |-> "new", events |-> client'[c].wrote]
         /\ client'[c].is # "new" /\ ~Serving(c)' => FeedOf(c)' = [is |-> "closed", events |-> client'[c].wrote]
         /\ Serving(c)' /\ Left(c)' =>
              FeedOf(c)' = [is |-> "losing", events |-> client'[c].wrote \o client'[c].send]
         /\ Serving(c)' /\ ~Left(c)' =>
              FeedOf(c)' = [is |-> "open", events |-> client'[c].wrote \o client'[c].send]
BY Zenon DEF FeedOf, Serving, Stopping, Left

\* A connection whose record and publishers stay as they are.
LEMMA FeedStays ==
  ASSUME NEW c \in Clients, client'[c] = client[c], Left(c)' = Left(c)
  PROVE  FeedOf(c)' = FeedOf(c)
BY DEF FeedOf, Serving, Stopping, Left

\* A connection that ends keeps what has been written of its feed.
LEMMA FeedCloses ==
  ASSUME HubInv, NEW c \in Clients, Serving(c), client'[c].wrote = client[c].wrote,
         client'[c].is # "new", ~Serving(c)'
  PROVE  FeedMoves(c)
<1> DEFINE w == client[c].wrote
           ws == client[c].wrote \o client[c].send
<1>1. w \in Seq(Nat) /\ client[c].send \in Seq(Nat) /\ client[c].is = "serving"
  BY DEF HubInv, HubTypes, ClientRec, Serving
<1>2. SubSeq(ws, 1, Len(w)) = w /\ Len(w) \in 0..Len(ws)
  BY <1>1, Begun
<1>3. FeedOf(c)' = [is |-> "closed", events |-> w]
  BY FeedShownNext
<1>4. FeedOf(c).is \in {"open", "losing"} /\ FeedOf(c).events = ws
  <2>1. PICK is \in {"open", "losing"} : FeedOf(c) = [is |-> is, events |-> ws]
    BY FeedShown
  <2> HIDE DEF ws
  <2> QED
    BY <2>1, FeedFields
<1> QED
  BY <1>2, <1>3, <1>4 DEF FeedMoves

LEMMA SendFeeds ==
  ASSUME HubInv, NEW p \in Publishers, NEW c \in Clients, Send(p, c)
  PROVE  FeedMoves(c) /\ \A d \in Clients : d # c => FeedOf(d)' = FeedOf(d)
<1> DEFINE e == publishing[p].n
           to == publishing[p].to \ {c}
<1>0. HubTypes /\ NumbersInv /\ QueuedInv
  BY DEF HubInv
<1>1. /\ c \in publishing[p].to /\ publishing[p].full = "none" /\ publishing[p] \in EventRec
      /\ client[c] \in ClientRec /\ e \in Nat /\ e \in 1..MaxEvents /\ e \notin owed[c]
      /\ to \in SUBSET Clients /\ client[c].is # "new"
  <2>1. /\ c \in publishing[p].to /\ publishing[p].full = "none" /\ publishing[p] \in EventRec
        /\ client[c] \in ClientRec /\ client[c].is \in {"serving", "ending"}
    BY <1>0 DEF Send, HubTypes, NumbersInv
  <2>2. e \in Nat /\ e <= serial /\ e # 0 /\ serial \in Nat /\ serial <= MaxEvents /\ MaxEvents \in Nat
    BY <1>0, <2>1, HubAssumption DEF HubTypes, NumbersInv, InLoop, EventRec
  <2>3. e \notin owed[c] /\ to \in SUBSET Clients
    BY <1>0, <2>1, <2>2 DEF NumbersInv, Ahead, EventRec
  <2> QED
    BY <2>1, <2>2, <2>3
<1>2. /\ client[c].wrote \in Seq(Nat) /\ client[c].send \in Seq(Nat)
      /\ client[c].wrote \o client[c].send \in Seq(Nat)
  BY <1>1, ConcatProperties DEF ClientRec
<1> HIDE DEF e, to
<1>3. CASE Full(c)
  <2> DEFINE r == [publishing[p] EXCEPT !.to = @ \ {c}, !.full = c]
  <2>1. r.full = c /\ publishing' = [publishing EXCEPT ![p] = r] /\ client' = client
    BY <1>1, <1>3 DEF Send, EventRec
  <2> HIDE DEF r
  <2>2. publishing'[p].full = c /\ \A q \in Publishers : q # p => publishing'[q] = publishing[q]
    BY <1>0, <2>1 DEF HubTypes
  <2>3. \A d \in Clients : d # c => Left(d)' = Left(d)
    BY <1>1, <2>2, HubAssumption DEF Left
  <2>4. Stopping(c)'
    BY <2>2 DEF Stopping
  <2>5. CASE Serving(c) /\ ~Stopping(c)
    <3> DEFINE q == client[c].wrote \o client[c].send
    <3>1. FeedOf(c) = [is |-> "open", events |-> q]
      BY <2>5, FeedShown DEF Stopping, Left
    <3>2. Serving(c)' /\ Left(c)'
      BY <1>0, <2>1, <2>2, <2>5 DEF Serving, Left
    <3>3. FeedOf(c)' = [is |-> "losing", events |-> q]
      BY <2>1, <3>2, FeedShownNext
    <3> HIDE DEF q
    <3>4. FeedOf(c).is = "open" /\ FeedOf(c)' = [FeedOf(c) EXCEPT !.is = "losing"]
      BY <3>1, <3>3, FeedFields
    <3>5. FeedMoves(c)
      BY <3>4 DEF FeedMoves
    <3> QED
      BY <2>1, <2>3, <3>5, FeedStays
  <2>6. CASE ~Serving(c) \/ Stopping(c)
    <3>1. FeedOf(c)' = FeedOf(c)
      <4>1. CASE Serving(c)
        BY <2>1, <2>4, <2>6, <4>1 DEF FeedOf, Serving
      <4>2. CASE ~Serving(c)
        BY <2>1, <4>2 DEF FeedOf, Serving
      <4> QED
        BY <4>1, <4>2
    <3> QED
      BY <2>1, <2>3, <3>1, FeedStays DEF FeedMoves
  <2> QED
    BY <2>5, <2>6
<1>4. CASE ~Full(c)
  <2> DEFINE r == [client[c] EXCEPT !.send = Append(@, e)]
  <2>1. /\ r.is = client[c].is /\ r.done = client[c].done /\ r.wrote = client[c].wrote
        /\ r.send = Append(client[c].send, e)
    BY <1>1 DEF ClientRec
  <2>2. client' = [client EXCEPT ![c] = r] /\ Loop(p, to)
    BY <1>4 DEF Send, e, to
  <2> HIDE DEF r
  <2>3. client'[c] = r /\ \A d \in Clients : d # c => client'[d] = client[d]
    BY <1>0, <2>2 DEF HubTypes
  <2>4. publishing'[p].full = "none" /\ \A q \in Publishers : q # p => publishing'[q] = publishing[q]
    BY <1>1, <2>2, Turned DEF e
  <2>5. \A d \in Clients : Left(d)' = Left(d)
    <3>1. \A q \in Publishers : publishing'[q].full = publishing[q].full
      BY <1>1, <2>4
    <3> QED
      BY <3>1 DEF Left
  <2>6. Stopping(c)' = Stopping(c) /\ Serving(c)' = Serving(c)
    BY <2>1, <2>3, <2>5 DEF Stopping, Serving, Left
  <2>7. CASE Serving(c)
    <3> DEFINE q == client[c].wrote \o client[c].send
    <3>1. PICK is \in {"open", "losing"} : /\ FeedOf(c) = [is |-> is, events |-> q]
                                          /\ FeedOf(c)' = [is |-> is, events |-> r.wrote \o r.send]
      BY <2>3, <2>5, <2>6, <2>7, FeedShown, FeedShownNext
    <3>2. r.wrote \o r.send = Append(q, e)
      <4>1. client[c].wrote \o Append(client[c].send, e) = Append(q, e)
        BY <1>1, <1>2, Joined
      <4> QED
        BY <2>1, <4>1
    <3>3. \A i \in DOMAIN q : q[i] # e
      <4>1. ToSet(q) \subseteq owed[c]
        BY <1>0, <2>7 DEF QueuedInv, Partly, Serving
      <4> QED
        BY <1>1, <4>1 DEF ToSet
    <3> HIDE DEF q
    <3>4. FeedOf(c).is = is /\ FeedOf(c)' = [FeedOf(c) EXCEPT !.events = Append(@, e)]
      BY <3>1, <3>2, FeedFields
    <3>5. \A i \in DOMAIN FeedOf(c).events : FeedOf(c).events[i] # e
      BY <3>1, <3>3, FeedFields
    <3>6. FeedMoves(c)
      <4>1. FeedOf(c).is \in {"open", "losing"}
        BY <3>4
      <4> QED
        BY <1>1, <3>4, <3>5, <4>1 DEF FeedMoves
    <3> QED
      BY <2>3, <2>5, <3>6, FeedStays
  <2>8. CASE ~Serving(c)
    <3>1. FeedOf(c)' = FeedOf(c)
      BY <2>1, <2>3, <2>6, <2>8 DEF FeedOf
    <3> QED
      BY <2>3, <2>5, <3>1, FeedStays DEF FeedMoves
  <2> QED
    BY <2>7, <2>8
<1> QED
  BY <1>3, <1>4

LEMMA StopFeeds ==
  ASSUME HubInv, NEW p \in Publishers, StopFull(p)
  PROVE  \E c \in Clients : FeedMoves(c) /\ \A d \in Clients : d # c => FeedOf(d)' = FeedOf(d)
<1>1. HubTypes /\ NumbersInv /\ publishing[p] \in EventRec /\ publishing[p].full # "none"
  BY DEF HubInv, HubTypes, StopFull
<1>2. PICK c \in Clients : c = publishing[p].full
  BY <1>1 DEF EventRec
<1> DEFINE r == [client[c] EXCEPT !.done = TRUE]
<1>3. /\ publishing[p].to \in SUBSET Clients
      /\ publishing[p].n # 0 /\ client[c].is \in {"serving", "ending"}
      /\ client' = [client EXCEPT ![c] = r] /\ Loop(p, publishing[p].to)
  BY <1>1, <1>2 DEF StopFull, NumbersInv, InLoop, EventRec
<1>4. client[c] \in ClientRec /\ r.is = client[c].is /\ r.done = TRUE /\ r.wrote = client[c].wrote
  BY <1>1, <1>3 DEF HubTypes, ClientRec
<1>5. publishing'[p].full = "none" /\ \A q \in Publishers : q # p => publishing'[q] = publishing[q]
  BY <1>1, <1>3, Turned
<1> HIDE DEF r
<1>6. client'[c] = r /\ \A d \in Clients : d # c => client'[d] = client[d]
  BY <1>1, <1>3 DEF HubTypes
<1>7. ASSUME NEW d \in Clients, d # c PROVE FeedOf(d)' = FeedOf(d)
  <2>1. Left(d)' = Left(d)
    BY <1>2, <1>5, <1>7, HubAssumption DEF Left
  <2> QED
    BY <1>6, <1>7, <2>1, FeedStays
<1>8. FeedMoves(c)
  <2>1. ~Serving(c)' /\ client'[c].wrote = client[c].wrote /\ client'[c].is # "new"
    BY <1>3, <1>4, <1>6 DEF Serving
  <2>2. CASE Serving(c)
    BY <2>1, <2>2, FeedCloses
  <2>3. CASE ~Serving(c)
    <3>1. FeedOf(c)' = FeedOf(c)
      BY <1>3, <2>1, <2>3, FeedShown, FeedShownNext
    <3> QED
      BY <3>1 DEF FeedMoves
  <2> QED
    BY <2>2, <2>3
<1> QED
  BY <1>7, <1>8

\* A connection's own steps.
LEMMA ClientFeeds ==
  ASSUME HubInv, NEW c \in Clients, Connect(c) \/ Write(c) \/ Ends(c) \/ Unregister(c)
  PROVE  FeedMoves(c) /\ \A d \in Clients : d # c => FeedOf(d)' = FeedOf(d)
<1>0. HubTypes /\ FreshInv /\ client[c] \in ClientRec /\ publishing' = publishing
  BY DEF HubInv, HubTypes, Connect, Write, Ends, Unregister
<1>1. \A d \in Clients : Left(d)' = Left(d)
  BY <1>0 DEF Left
<1>2. \A d \in Clients : d # c => client'[d] = client[d]
  BY <1>0 DEF HubTypes, Connect, Write, Ends, Unregister
<1>3. \A d \in Clients : d # c => FeedOf(d)' = FeedOf(d)
  BY <1>1, <1>2, FeedStays
<1>4. CASE Connect(c)
  <2> DEFINE r == [client[c] EXCEPT !.is = "serving"]
  <2>1. r.is = "serving" /\ r.done = FALSE /\ r.wrote = <<>> /\ r.send = <<>> /\ client'[c] = r
    BY <1>0, <1>4 DEF Connect, FreshInv, ClientRec, HubTypes
  <2>2. ~Stopping(c)' /\ Serving(c)'
    <3>1. \A p \in Publishers : publishing'[p].full = "none"
      BY <1>0, <1>4 DEF Connect, Unlocked
    <3> QED
      BY <2>1, <3>1, HubAssumption DEF Stopping, Serving
  <2> HIDE DEF r
  <2>3. client[c].is = "new" /\ client[c].wrote = <<>> /\ ~Serving(c)
    BY <1>0, <1>4 DEF Connect, FreshInv, Serving
  <2>4. FeedOf(c) = [is |-> "new", events |-> <<>>]
    BY <2>3, FeedShown
  <2>5. FeedOf(c)' = [is |-> "open", events |-> <<>>]
    <3>1. <<>> \o <<>> = <<>>
      OBVIOUS
    <3> QED
      BY <2>1, <2>2, <3>1, FeedShownNext DEF Stopping, Left
  <2> QED
    BY <1>3, <2>4, <2>5 DEF FeedMoves
<1>5. CASE Write(c)
  <2>1. /\ client[c].is = "serving" /\ client[c].send # <<>> /\ client[c].wrote \in Seq(Nat)
        /\ client[c].send \in Seq(Nat)
    BY <1>0, <1>5 DEF Write, ClientRec
  <2>2. CASE client[c].done
    <3>1. client'[c].is = "ending" /\ client'[c].wrote = client[c].wrote
      BY <1>0, <1>5, <2>2 DEF Write, HubTypes, ClientRec
    <3>2. FeedOf(c)' = FeedOf(c)
      BY <2>1, <2>2, <3>1 DEF FeedOf, Serving
    <3> QED
      BY <1>3, <3>2 DEF FeedMoves
  <2>3. CASE ~client[c].done
    <3>1. /\ client'[c].is = "serving" /\ client'[c].done = client[c].done
          /\ client'[c].send = Tail(client[c].send)
          /\ client'[c].wrote = Append(client[c].wrote, Head(client[c].send))
      BY <1>0, <1>5, <2>1, <2>3 DEF Write, HubTypes, ClientRec
    <3>2. client'[c].wrote \o client'[c].send = client[c].wrote \o client[c].send
      BY <2>1, <3>1, Moved
    <3>3. Stopping(c)' = Stopping(c) /\ Serving(c) /\ Serving(c)'
      BY <1>0, <2>1, <2>3, <3>1 DEF Stopping, Serving
    <3>4. FeedOf(c)' = FeedOf(c)
      BY <2>1, <3>1, <3>2, <3>3 DEF FeedOf
    <3> QED
      BY <1>3, <3>4 DEF FeedMoves
  <2> QED
    BY <2>2, <2>3
<1>6. CASE Ends(c) \/ Unregister(c)
  <2>1. /\ client[c].is \in {"serving", "ending"} /\ client'[c].is \in {"ending", "gone"}
        /\ client'[c].wrote = client[c].wrote
    <3>1. CASE Ends(c)
      <4> DEFINE r == [client[c] EXCEPT !.is = "ending"]
      <4>1. client[c].is = "serving" /\ client'[c] = r /\ r.is = "ending" /\ r.wrote = client[c].wrote
        BY <1>0, <3>1 DEF Ends, HubTypes, ClientRec
      <4> QED
        BY <4>1
    <3>2. CASE Unregister(c)
      <4> DEFINE r == [client[c] EXCEPT !.is = "gone", !.done = TRUE]
      <4>1. client[c].is = "ending" /\ client'[c] = r /\ r.is = "gone" /\ r.wrote = client[c].wrote
        BY <1>0, <3>2 DEF Unregister, HubTypes, ClientRec
      <4> QED
        BY <4>1
    <3> QED
      BY <1>6, <3>1, <3>2
  <2>2. CASE Serving(c)
    BY <1>3, <2>1, <2>2, FeedCloses DEF Serving
  <2>3. CASE ~Serving(c)
    BY <1>3, <2>1, <2>3 DEF FeedMoves, FeedOf, Serving
  <2> QED
    BY <2>2, <2>3
<1> QED
  BY <1>4, <1>5, <1>6

LEMMA FeedSteps == HubInv /\ [HubNext]_hubVars => [Feed!Next]_(Feed!feedVars)
<1> SUFFICES ASSUME HubInv, [HubNext]_hubVars PROVE [Feed!Next]_(Feed!feedVars)
  OBVIOUS
<1>1. ASSUME NEW p \in Publishers, TakeNumber(p) \/ HandOut(p)
      PROVE  [Feed!Next]_(Feed!feedVars)
  <2>1. client' = client /\ publishing[p].full = "none" /\ publishing'[p].full = "none"
    <3>1. CASE TakeNumber(p)
      BY <3>1 DEF TakeNumber, NoEvent, HubInv, HubTypes
    <3>2. CASE HandOut(p)
      <4>1. /\ publishing[p].n # 0 /\ publishing[p].full = "none" /\ Loop(p, Registered)
            /\ client' = client /\ Registered \in SUBSET Clients
        BY <3>2 DEF HandOut, Registered
      <4> QED
        BY <4>1, Turned
    <3> QED
      BY <1>1, <3>1, <3>2
  <2>2. \A q \in Publishers : publishing'[q].full = publishing[q].full
    <3>1. \A q \in Publishers : q # p => publishing'[q] = publishing[q]
      BY <1>1 DEF TakeNumber, HandOut, Loop, HubInv, HubTypes
    <3> QED
      BY <2>1, <3>1
  <2>3. \A d \in Clients : FeedOf(d)' = FeedOf(d)
    <3>1. \A d \in Clients : Left(d)' = Left(d)
      BY <2>2 DEF Left
    <3> QED
      BY <2>1, <3>1, FeedStays
  <2> QED
    BY <2>3, NoFeed
<1>2. ASSUME NEW p \in Publishers, StopFull(p) PROVE [Feed!Next]_(Feed!feedVars)
  BY <1>2, StopFeeds, OneFeed
<1>3. ASSUME NEW p \in Publishers, NEW c \in Clients, Send(p, c)
      PROVE  [Feed!Next]_(Feed!feedVars)
  BY <1>3, SendFeeds, OneFeed
<1>4. ASSUME NEW c \in Clients, Connect(c) \/ Write(c) \/ Ends(c) \/ Unregister(c)
      PROVE  [Feed!Next]_(Feed!feedVars)
  BY <1>4, ClientFeeds, OneFeed
<1>5. CASE UNCHANGED hubVars
  <2>1. \A d \in Clients : FeedOf(d)' = FeedOf(d)
    BY <1>5 DEF hubVars, FeedOf, Serving, Stopping
  <2> QED
    BY <2>1, NoFeed
<1> QED
  BY <1>1, <1>2, <1>3, <1>4, <1>5 DEF HubNext

LEMMA FeedBegins == HubInit => Feed!Init
<1> SUFFICES ASSUME HubInit PROVE Feed!Init
  OBVIOUS
<1>1. ASSUME NEW c \in Clients PROVE FeedOf(c) = [is |-> "new", events |-> <<>>]
  BY DEF HubInit, NewClient, FeedOf, Serving
<1> QED
  BY <1>1 DEF Feed!Init

\* The hub implements EventFeed: with publishers that loop over the same clients at once, a
\* channel of any depth and a stop that comes late, a browser is told events one after the
\* other, each once, all of them until one is missed, and nothing after the socket is closed.
THEOREM ImplementsFeed == HubSpec => Feed!Spec
BY HubAlways, FeedBegins, FeedSteps, PTL DEF HubSpec, Feed!Spec

\* With it, what the services run checks of the hub.
THEOREM StreamIsKept == HubSpec => StreamKept
BY NoGap, ImplementsFeed, PTL DEF StreamKept

-----------------------------------------------------------------------------
(* Sessions and the websockets that watch them.                            *)

RowRec    == [is : {"none", "live", "deleted"}, idle : Nat, absolute : Nat]
SocketRec == [of : Logins \union {"none"}, due : Nat]
SessionTypes ==
  /\ now \in Nat /\ row \in [Logins -> RowRec] /\ active \in [Logins -> Nat]
  /\ socket \in [Sockets -> SocketRec] /\ request \in [Requests -> Logins \union {"none"}]
\* Only its owner's requests slide a session, and never past its absolute deadline.
DeadlineInv ==
  \A s \in Logins :
    /\ active[s] <= now
    /\ row[s].is = "live" => row[s].idle <= active[s] + IdleTTL /\ row[s].idle <= row[s].absolute
\* The next check of a socket is due soon, and soon after its session's deadline: what
\* moves the deadline only moves it on, and a logout moves it to the present.
SocketInv ==
  \A k \in Sockets : socket[k] # NoSocket =>
    /\ socket[k].of \in Logins /\ row[socket[k].of].is # "none"
    /\ now <= socket[k].due /\ socket[k].due <= now + SessionCheck
    /\ socket[k].due <= row[socket[k].of].idle + SessionCheck
SessionInv == SessionTypes /\ DeadlineInv /\ SocketInv

LEMMA LeastOfTwo ==
  ASSUME NEW a \in Nat, NEW b \in Nat
  PROVE  Least(a, b) \in Nat /\ Least(a, b) <= a /\ Least(a, b) <= b /\ (Least(a, b) = a \/ Least(a, b) = b)
<1>1. \E x \in {a, b} : \A y \in {a, b} : x <= y
  OBVIOUS
<1>2. Min({a, b}) \in {a, b} /\ \A y \in {a, b} : Min({a, b}) <= y
  BY <1>1 DEF Min
<1> QED
  BY <1>2 DEF Least

\* A slide only moves a deadline on.
LEMMA Slides ==
  ASSUME SessionTypes, DeadlineInv, NEW s \in Logins, row' = Touched(s)
  PROVE  /\ row' \in [Logins -> RowRec]
         /\ \A t \in Logins : /\ row'[t].is = row[t].is /\ row'[t].absolute = row[t].absolute
                              /\ row'[t].idle >= row[t].idle
                              /\ t # s => row'[t] = row[t]
         /\ row'[s].is = "live" => row'[s].idle <= now + IdleTTL /\ row'[s].idle <= row'[s].absolute
<1>1. row[s] \in RowRec /\ now \in Nat /\ active[s] \in Nat /\ active[s] <= now /\ IdleTTL \in Nat
  BY WebAssumption DEF SessionTypes, DeadlineInv
<1>2. CASE row[s].is # "live"
  <2>1. row' = row
    BY <1>2 DEF Touched
  <2>2. \A t \in Logins : row[t].idle \in Nat
    BY DEF SessionTypes, RowRec
  <2> QED
    BY <1>2, <2>1, <2>2 DEF SessionTypes
<1>3. CASE row[s].is = "live"
  <2> DEFINE l == Least(now + IdleTTL, row[s].absolute)
  <2>1. row[s].absolute \in Nat /\ row[s].idle \in Nat /\ now + IdleTTL \in Nat
    BY <1>1 DEF RowRec
  <2>2. l \in Nat /\ l <= now + IdleTTL /\ l <= row[s].absolute /\ (l = now + IdleTTL \/ l = row[s].absolute)
    BY <2>1, LeastOfTwo
  <2>3. row' = [row EXCEPT ![s].idle = l]
    BY <1>3 DEF Touched
  <2> HIDE DEF l
  <2> DEFINE c == [row[s] EXCEPT !.idle = l]
  <2>4. c.idle = l /\ c.is = "live" /\ c.absolute = row[s].absolute /\ c \in RowRec
    BY <1>1, <1>3, <2>2 DEF RowRec
  <2>5. row' = [row EXCEPT ![s] = c]
    BY <2>3
  <2> HIDE DEF c
  <2>6. row' \in [Logins -> RowRec] /\ row'[s] = c /\ \A t \in Logins : t # s => row'[t] = row[t]
    BY <2>4, <2>5 DEF SessionTypes
  <2>7. row[s].idle <= active[s] + IdleTTL /\ row[s].idle <= row[s].absolute
    BY <1>3 DEF DeadlineInv
  <2>8. l >= row[s].idle
    BY <1>1, <2>1, <2>2, <2>7
  <2>9. \A t \in Logins : row[t].idle \in Nat
    BY DEF SessionTypes, RowRec
  <2>10. ASSUME NEW t \in Logins
         PROVE  /\ row'[t].is = row[t].is /\ row'[t].absolute = row[t].absolute
                /\ row'[t].idle >= row[t].idle
    <3>1. CASE t = s
      BY <1>3, <2>4, <2>6, <2>8, <3>1
    <3>2. CASE t # s
      BY <2>6, <2>9, <3>2
    <3> QED
      BY <3>1, <3>2
  <2> QED
    BY <2>2, <2>4, <2>6, <2>10
<1> QED
  BY <1>2, <1>3

LEMMA WebInitial == WebInit => SessionInv
BY DEF WebInit, SessionInv, SessionTypes, DeadlineInv, SocketInv, RowRec, SocketRec, NoSession, NoSocket

\* What a session's own step leaves to be shown.
LEMMA RowsMove ==
  ASSUME SessionInv, row' \in [Logins -> RowRec], active' \in [Logins -> Nat], DeadlineInv',
         request' \in [Requests -> Logins \union {"none"}], UNCHANGED <<now, socket>>,
         \A s \in Logins : /\ row[s].is # "none" => row'[s].is # "none"
                           /\ row[s].is # "none" => row'[s].idle >= row[s].idle \/ row'[s].idle = now
  PROVE  SessionInv'
<1>1. SessionTypes'
  BY DEF SessionInv, SessionTypes
<1>2. SocketInv'
  <2> SUFFICES ASSUME NEW k \in Sockets, socket[k] # NoSocket
               PROVE  /\ socket[k].of \in Logins /\ row'[socket[k].of].is # "none"
                      /\ now <= socket[k].due /\ socket[k].due <= now + SessionCheck
                      /\ socket[k].due <= row'[socket[k].of].idle + SessionCheck
    BY DEF SocketInv, NoSocket
  <2> DEFINE s == socket[k].of
  <2>1. /\ s \in Logins /\ row[s].is # "none" /\ now <= socket[k].due
        /\ socket[k].due <= now + SessionCheck /\ socket[k].due <= row[s].idle + SessionCheck
    BY DEF SessionInv, SocketInv
  <2>2. row[s].idle \in Nat /\ row'[s].idle \in Nat /\ now \in Nat /\ SessionCheck \in Nat /\ socket[k].due \in Nat
    BY <2>1, WebAssumption DEF SessionInv, SessionTypes, RowRec, SocketRec
  <2>3. row'[s].is # "none" /\ (row'[s].idle >= row[s].idle \/ row'[s].idle = now)
    BY <2>1
  <2> HIDE DEF s
  <2>4. socket[k].due <= row'[s].idle + SessionCheck
    BY <2>1, <2>2, <2>3
  <2> QED
    BY <2>1, <2>3, <2>4 DEF s
<1> QED
  BY <1>1, <1>2 DEF SessionInv

LEMMA CreateKept == ASSUME SessionInv, NEW s \in Logins, Create(s) PROVE SessionInv'
<1> DEFINE l == Least(IdleTTL, MaxTTL)
           c == [is |-> "live", idle |-> now + l, absolute |-> now + MaxTTL]
<1>0. SessionTypes /\ DeadlineInv
  BY DEF SessionInv
<1>1. /\ row[s].is = "none" /\ row' = [row EXCEPT ![s] = c] /\ active' = [active EXCEPT ![s] = now]
      /\ UNCHANGED <<now, request, socket>>
  BY DEF Create
<1>2. l \in Nat /\ l <= IdleTTL /\ l <= MaxTTL /\ now \in Nat /\ IdleTTL \in Nat /\ MaxTTL \in Nat
  BY <1>0, LeastOfTwo, WebAssumption DEF SessionTypes
<1> HIDE DEF l
<1>3. c \in RowRec /\ c.idle = now + l /\ c.absolute = now + MaxTTL
  BY <1>2 DEF RowRec
<1> HIDE DEF c
<1>4. /\ row' \in [Logins -> RowRec] /\ row'[s] = c /\ active' \in [Logins -> Nat] /\ active'[s] = now
      /\ \A t \in Logins : t # s => row'[t] = row[t] /\ active'[t] = active[t]
  BY <1>0, <1>1, <1>2, <1>3 DEF SessionTypes
<1>5. DeadlineInv'
  BY <1>0, <1>1, <1>2, <1>3, <1>4 DEF DeadlineInv
<1>6. \A t \in Logins : row[t].is # "none" => row'[t] = row[t] /\ row[t].idle \in Nat
  BY <1>0, <1>1, <1>4 DEF SessionTypes, RowRec
<1>7. \A t \in Logins : /\ row[t].is # "none" => row'[t].is # "none"
                        /\ row[t].is # "none" => row'[t].idle >= row[t].idle \/ row'[t].idle = now
  BY <1>6
<1>8. request' \in [Requests -> Logins \union {"none"}]
  BY <1>0, <1>1 DEF SessionTypes
<1> QED
  BY <1>1, <1>4, <1>5, <1>7, <1>8, RowsMove

\* A request of the owner slides his session.
LEMMA OwnerKept ==
  ASSUME SessionInv, NEW s \in Logins, row' = Touched(s), active' = [active EXCEPT ![s] = now], now' = now
  PROVE  /\ row' \in [Logins -> RowRec] /\ active' \in [Logins -> Nat] /\ DeadlineInv'
         /\ \A t \in Logins : row'[t].is = row[t].is /\ row'[t].idle >= row[t].idle
<1>0. SessionTypes /\ DeadlineInv
  BY DEF SessionInv
<1>1. /\ row' \in [Logins -> RowRec]
      /\ \A t \in Logins : /\ row'[t].is = row[t].is /\ row'[t].idle >= row[t].idle
                           /\ t # s => row'[t] = row[t]
      /\ row'[s].is = "live" => row'[s].idle <= now + IdleTTL /\ row'[s].idle <= row'[s].absolute
  BY <1>0, Slides
<1>2. /\ active' \in [Logins -> Nat] /\ active'[s] = now /\ now \in Nat
      /\ \A t \in Logins : t # s => active'[t] = active[t]
  BY <1>0 DEF SessionTypes
<1>3. DeadlineInv'
  BY <1>0, <1>1, <1>2 DEF DeadlineInv
<1> QED
  BY <1>1, <1>2, <1>3

LEMMA RequestKept ==
  ASSUME SessionInv, NEW r \in Requests, Authenticate(r) \/ Slide(r)
  PROVE  SessionInv'
<1>0. SessionTypes /\ DeadlineInv
  BY DEF SessionInv
<1>1. CASE Authenticate(r)
  <2>1. UNCHANGED <<now, row, socket, active>> /\ request' \in [Requests -> Logins \union {"none"}]
    BY <1>0, <1>1 DEF Authenticate, SessionTypes
  <2> QED
    BY <2>1 DEF SessionInv, SessionTypes, DeadlineInv, SocketInv, NoSocket
<1>2. CASE Slide(r)
  <2>1. /\ request[r] \in Logins /\ request' \in [Requests -> Logins \union {"none"}]
        /\ UNCHANGED <<now, socket>>
    BY <1>0, <1>2 DEF Slide, SessionTypes
  <2>2. CASE row' = Touched(request[r]) /\ active' = [active EXCEPT ![request[r]] = now]
    <3>1. /\ row' \in [Logins -> RowRec] /\ active' \in [Logins -> Nat] /\ DeadlineInv'
          /\ \A t \in Logins : row'[t].is = row[t].is /\ row'[t].idle >= row[t].idle
      BY <2>1, <2>2, OwnerKept
    <3> QED
      BY <2>1, <3>1, RowsMove
  <2>3. CASE UNCHANGED <<row, active>>
    BY <2>1, <2>3 DEF SessionInv, SessionTypes, DeadlineInv, SocketInv, NoSocket
  <2> QED
    BY <1>2, <2>2, <2>3 DEF Slide
<1> QED
  BY <1>1, <1>2

LEMMA LogoutKept == ASSUME SessionInv, NEW s \in Logins, Logout(s) PROVE SessionInv'
<1> DEFINE l == Least(row[s].idle, now)
           c == [row[s] EXCEPT !.is = "deleted", !.idle = Least(@, now)]
<1>0. SessionTypes /\ DeadlineInv
  BY DEF SessionInv
<1>1. /\ row' = [row EXCEPT ![s] = c] /\ UNCHANGED <<now, request, socket, active>>
      /\ row[s] \in RowRec /\ row[s].idle \in Nat /\ now \in Nat
  <2>1. row[s] \in RowRec /\ now \in Nat
    BY <1>0 DEF SessionTypes
  <2>2. row' = [row EXCEPT ![s] = c]
    BY DEF Logout
  <2> QED
    BY <2>1, <2>2 DEF Logout, RowRec
<1>2. l \in Nat /\ (l = row[s].idle \/ l = now)
  BY <1>1, LeastOfTwo
<1>3. c \in RowRec /\ c.is = "deleted" /\ c.idle = l
  <2>1. c.is = "deleted" /\ c.idle = l
    BY <1>1 DEF RowRec
  <2> QED
    BY <1>1, <1>2, <2>1 DEF RowRec
<1> HIDE DEF c, l
<1>4. row' \in [Logins -> RowRec] /\ row'[s] = c /\ \A t \in Logins : t # s => row'[t] = row[t]
  BY <1>0, <1>1, <1>3 DEF SessionTypes
<1>5. DeadlineInv'
  BY <1>0, <1>1, <1>3, <1>4 DEF DeadlineInv
<1>6. \A t \in Logins : row[t].idle \in Nat
  BY <1>0 DEF SessionTypes, RowRec
<1>7. \A t \in Logins : /\ row[t].is # "none" => row'[t].is # "none"
                        /\ row[t].is # "none" => row'[t].idle >= row[t].idle \/ row'[t].idle = now
  BY <1>1, <1>2, <1>3, <1>4, <1>6
<1>8. active' \in [Logins -> Nat] /\ request' \in [Requests -> Logins \union {"none"}]
  BY <1>0, <1>1 DEF SessionTypes
<1> QED
  BY <1>1, <1>4, <1>5, <1>7, <1>8, RowsMove

LEMMA DeleteExpiredKept == SessionInv /\ DeleteExpired => SessionInv'
<1> SUFFICES ASSUME SessionInv, DeleteExpired PROVE SessionInv'
  OBVIOUS
<1>0. SessionTypes /\ DeadlineInv
  BY DEF SessionInv
<1>1. /\ row' = [s \in Logins |-> IF row[s].is = "live" /\ ~Valid(s) THEN [row[s] EXCEPT !.is = "deleted"] ELSE row[s]]
      /\ UNCHANGED <<now, request, socket, active>>
  BY DEF DeleteExpired
<1>2. ASSUME NEW s \in Logins
      PROVE  /\ row'[s] \in RowRec /\ row'[s].idle = row[s].idle /\ row[s].idle \in Nat
             /\ row'[s] = row[s] \/ (row'[s].is = "deleted" /\ row[s].is = "live")
  <2>1. row[s] \in RowRec /\ row[s].idle \in Nat
    BY <1>0 DEF SessionTypes, RowRec
  <2> DEFINE c == [row[s] EXCEPT !.is = "deleted"]
  <2>2. c \in RowRec /\ c.is = "deleted" /\ c.idle = row[s].idle
    BY <2>1 DEF RowRec
  <2>3. (row[s].is = "live" /\ row'[s] = c) \/ row'[s] = row[s]
    BY <1>1
  <2> HIDE DEF c
  <2> QED
    BY <2>1, <2>2, <2>3
<1>3. row' \in [Logins -> RowRec]
  BY <1>1, <1>2
<1>4. DeadlineInv'
  BY <1>0, <1>1, <1>2 DEF DeadlineInv
<1>5. \A t \in Logins : /\ row[t].is # "none" => row'[t].is # "none"
                        /\ row[t].is # "none" => row'[t].idle >= row[t].idle \/ row'[t].idle = now
  BY <1>2
<1>6. active' \in [Logins -> Nat] /\ request' \in [Requests -> Logins \union {"none"}]
  BY <1>0, <1>1 DEF SessionTypes
<1> QED
  BY <1>1, <1>3, <1>4, <1>5, <1>6, RowsMove

\* What a step on one websocket leaves to be shown.
LEMMA OneSocket ==
  ASSUME SessionTypes, SocketInv, NEW k \in Sockets, NEW c \in SocketRec, socket' = [socket EXCEPT ![k] = c],
         now' = now, row' \in [Logins -> RowRec],
         \A s \in Logins : row'[s].is = row[s].is /\ row'[s].idle >= row[s].idle,
         c # NoSocket => /\ c.of \in Logins /\ row[c.of].is # "none" /\ c.due = now + SessionCheck
                         /\ now <= row[c.of].idle
  PROVE  socket' \in [Sockets -> SocketRec] /\ SocketInv'
<1>1. /\ socket' \in [Sockets -> SocketRec] /\ socket'[k] = c
      /\ \A j \in Sockets : j # k => socket'[j] = socket[j]
  BY DEF SessionTypes
<1>2. ASSUME NEW j \in Sockets, socket'[j] # NoSocket
      PROVE  /\ socket'[j].of \in Logins /\ row'[socket'[j].of].is # "none"
             /\ now <= socket'[j].due /\ socket'[j].due <= now + SessionCheck
             /\ socket'[j].due <= row'[socket'[j].of].idle + SessionCheck
  <2>1. PICK s \in Logins : /\ s = socket'[j].of /\ row[s].is # "none"
                            /\ now <= socket'[j].due /\ socket'[j].due <= now + SessionCheck
                            /\ socket'[j].due <= row[s].idle + SessionCheck
    <3>1. CASE j = k
      <4>1. /\ socket'[j].of \in Logins /\ row[socket'[j].of].is # "none" /\ socket'[j].due = now + SessionCheck
            /\ now <= row[socket'[j].of].idle
        BY <1>1, <1>2, <3>1
      <4>2. now \in Nat /\ SessionCheck \in Nat /\ row[socket'[j].of].idle \in Nat
        BY <4>1, WebAssumption DEF SessionTypes, RowRec
      <4> QED
        BY <4>1, <4>2
    <3>2. CASE j # k
      BY <1>1, <1>2, <3>2 DEF SocketInv
    <3> QED
      BY <3>1, <3>2
  <2>2. /\ row[s].idle \in Nat /\ row'[s].idle \in Nat /\ row'[s].idle >= row[s].idle /\ row'[s].is = row[s].is
        /\ SessionCheck \in Nat /\ socket'[j].due \in Nat
    BY <1>1, <2>1, WebAssumption DEF SessionTypes, RowRec, SocketRec
  <2>3. socket'[j].due <= row'[s].idle + SessionCheck
    BY <2>1, <2>2
  <2> QED
    BY <2>1, <2>2, <2>3
<1>3. SocketInv'
  BY <1>2 DEF SocketInv, NoSocket
<1> QED
  BY <1>1, <1>3

LEMMA SocketKept ==
  ASSUME SessionInv, NEW k \in Sockets, OpenSocket(k) \/ Watch(k) \/ CloseSocket(k)
  PROVE  SessionInv'
<1>0. SessionTypes /\ DeadlineInv /\ SocketInv
  BY DEF SessionInv
<1>1. \A s \in Logins : row[s].idle \in Nat /\ row'[s] = row[s] => row'[s].idle >= row[s].idle
  OBVIOUS
<1>2. NoSocket \in SocketRec /\ now \in Nat /\ now + SessionCheck \in Nat
  BY <1>0, WebAssumption DEF NoSocket, SocketRec, SessionTypes
<1>3. CASE OpenSocket(k)
  <2>1. PICK s \in Logins :
          /\ Valid(s) /\ row' = Touched(s) /\ active' = [active EXCEPT ![s] = now]
          /\ socket' = [socket EXCEPT ![k] = [of |-> s, due |-> now + SessionCheck]]
    BY <1>3 DEF OpenSocket
  <2>2. UNCHANGED <<now, request>>
    BY <1>3 DEF OpenSocket
  <2>3. /\ row' \in [Logins -> RowRec] /\ active' \in [Logins -> Nat] /\ DeadlineInv'
        /\ \A t \in Logins : row'[t].is = row[t].is /\ row'[t].idle >= row[t].idle
    BY <2>1, <2>2, OwnerKept
  <2> DEFINE c == [of |-> s, due |-> now + SessionCheck]
  <2>4. c \in SocketRec /\ c.of = s /\ c.due = now + SessionCheck
    BY <1>2 DEF SocketRec
  <2>5. row[s].is = "live" /\ now <= row[s].idle
    <3>1. row[s].idle \in Nat
      BY <1>0 DEF SessionTypes, RowRec
    <3> QED
      BY <1>2, <2>1, <3>1 DEF Valid
  <2>6. socket' = [socket EXCEPT ![k] = c]
    BY <2>1
  <2> HIDE DEF c
  <2>7. socket' \in [Sockets -> SocketRec] /\ SocketInv'
    BY <1>0, <2>2, <2>3, <2>4, <2>5, <2>6, OneSocket
  <2>8. SessionTypes'
    BY <1>0, <2>2, <2>3, <2>7 DEF SessionTypes
  <2> QED
    BY <2>3, <2>7, <2>8 DEF SessionInv
<1>4. CASE Watch(k) \/ CloseSocket(k)
  <2>1. UNCHANGED <<now, row, request, active>> /\ socket[k] # NoSocket
    BY <1>4 DEF Watch, CloseSocket
  <2>2. PICK c \in SocketRec :
          /\ socket' = [socket EXCEPT ![k] = c]
          /\ c # NoSocket => Valid(c.of) /\ c.of \in Logins /\ c.due = now + SessionCheck
    <3>1. CASE socket' = [socket EXCEPT ![k] = NoSocket]
      BY <1>2, <3>1
    <3>2. CASE Watch(k) /\ Valid(socket[k].of)
      <4> DEFINE c == [socket[k] EXCEPT !.due = now + SessionCheck]
      <4>1. socket' = [socket EXCEPT ![k] = c]
        BY <3>2 DEF Watch
      <4>2. socket[k] \in SocketRec /\ socket[k].of \in Logins
        BY <1>0, <2>1 DEF SessionTypes, SocketInv
      <4>3. c \in SocketRec /\ c.of = socket[k].of /\ c.due = now + SessionCheck
        BY <1>2, <4>2 DEF SocketRec
      <4> HIDE DEF c
      <4> QED
        BY <3>2, <4>1, <4>2, <4>3
    <3> QED
      BY <1>4, <3>1, <3>2 DEF Watch, CloseSocket
  <2>3. c # NoSocket => row[c.of].is # "none" /\ now <= row[c.of].idle
    <3> SUFFICES ASSUME c # NoSocket PROVE row[c.of].is # "none" /\ now <= row[c.of].idle
      OBVIOUS
    <3>1. row[c.of].idle \in Nat
      BY <1>0, <2>2 DEF SessionTypes, RowRec
    <3> QED
      BY <1>2, <2>2, <3>1 DEF Valid
  <2>4. \A s \in Logins : row'[s].is = row[s].is /\ row'[s].idle >= row[s].idle
    BY <1>0, <1>1, <2>1 DEF SessionTypes, RowRec
  <2>5. row' \in [Logins -> RowRec]
    BY <1>0, <2>1 DEF SessionTypes
  <2>6. socket' \in [Sockets -> SocketRec] /\ SocketInv'
    BY <1>0, <2>1, <2>2, <2>3, <2>4, <2>5, OneSocket
  <2>7. SessionTypes' /\ DeadlineInv'
    BY <1>0, <2>1, <2>6 DEF SessionTypes, DeadlineInv
  <2> QED
    BY <2>6, <2>7 DEF SessionInv
<1> QED
  BY <1>3, <1>4

LEMMA PassesKept == SessionInv /\ Passes => SessionInv'
<1> SUFFICES ASSUME SessionInv, Passes PROVE SessionInv'
  OBVIOUS
<1>0. SessionTypes /\ DeadlineInv /\ SocketInv
  BY DEF SessionInv
<1>1. /\ now' = now + 1 /\ now \in Nat /\ UNCHANGED <<row, request, socket, active>>
      /\ \A k \in Sockets : socket[k] = NoSocket \/ socket[k].due > now
  BY <1>0 DEF Passes, SessionTypes
<1>2. SessionTypes'
  BY <1>0, <1>1 DEF SessionTypes
<1>3. DeadlineInv'
  <2>1. \A s \in Logins : active[s] \in Nat /\ active[s] <= now
    BY <1>0 DEF SessionTypes, DeadlineInv
  <2>2. \A s \in Logins : active[s] <= now + 1
    BY <1>1, <2>1
  <2> QED
    BY <1>0, <1>1, <2>2 DEF DeadlineInv
<1>4. SocketInv'
  <2> SUFFICES ASSUME NEW k \in Sockets, socket[k] # NoSocket
               PROVE  /\ socket[k].of \in Logins /\ row[socket[k].of].is # "none"
                      /\ now + 1 <= socket[k].due /\ socket[k].due <= (now + 1) + SessionCheck
                      /\ socket[k].due <= row[socket[k].of].idle + SessionCheck
    BY <1>1 DEF SocketInv, NoSocket
  <2>1. socket[k].due \in Nat /\ SessionCheck \in Nat
    BY <1>0, WebAssumption DEF SessionTypes, SocketRec
  <2>2. socket[k].due > now /\ socket[k].due <= now + SessionCheck
    BY <1>0, <1>1 DEF SocketInv
  <2>3. now + 1 <= socket[k].due /\ socket[k].due <= (now + 1) + SessionCheck
    BY <1>1, <2>1, <2>2
  <2> QED
    BY <1>0, <2>3 DEF SocketInv
<1> QED
  BY <1>2, <1>3, <1>4 DEF SessionInv

LEMMA WebKept == SessionInv /\ [WebNext]_webVars => SessionInv'
<1> SUFFICES ASSUME SessionInv, [WebNext]_webVars PROVE SessionInv'
  OBVIOUS
<1>1. ASSUME NEW s \in Logins, Create(s) \/ Logout(s) PROVE SessionInv'
  BY <1>1, CreateKept, LogoutKept
<1>2. ASSUME NEW r \in Requests, Authenticate(r) \/ Slide(r) PROVE SessionInv'
  BY <1>2, RequestKept
<1>3. ASSUME NEW k \in Sockets, OpenSocket(k) \/ Watch(k) \/ CloseSocket(k) PROVE SessionInv'
  BY <1>3, SocketKept
<1>4. CASE DeleteExpired \/ Passes
  BY <1>4, DeleteExpiredKept, PassesKept
<1>5. CASE (\E t \in ReadBefore : WrongKey(t) \/ WrongKeyElsewhere(t)) \/ UNCHANGED webVars
  BY <1>5 DEF WrongKey, WrongKeyElsewhere, webVars, SessionInv, SessionTypes, DeadlineInv, SocketInv, NoSocket
<1> QED
  BY <1>1, <1>2, <1>3, <1>4, <1>5 DEF WebNext

LEMMA WebAlways == WebSpec => []SessionInv
BY WebInitial, WebKept, PTL DEF WebSpec

\* A session its owner leaves alone ends, whatever socket is open on it; its sockets
\* outlive it by one check at most; and no request under way brings it back.
THEOREM SessionsEndInTime == WebSpec => SessionsEnd
<1>1. ASSUME SessionInv PROVE IdleSessionEnds
  <2> SUFFICES ASSUME NEW s \in Logins, Valid(s) PROVE now < active[s] + IdleTTL
    BY DEF IdleSessionEnds
  <2>1. row[s].idle \in Nat /\ now \in Nat /\ active[s] \in Nat /\ IdleTTL \in Nat
    BY <1>1, WebAssumption DEF SessionInv, SessionTypes, RowRec
  <2>2. row[s].idle > now /\ row[s].idle <= active[s] + IdleTTL
    BY <1>1 DEF Valid, SessionInv, DeadlineInv
  <2> QED
    BY <2>1, <2>2
<1>2. ASSUME SessionInv PROVE SocketFollowsSession
  <2> SUFFICES ASSUME NEW k \in Sockets, socket[k] # NoSocket
               PROVE  now <= row[socket[k].of].idle + SessionCheck
    BY DEF SocketFollowsSession
  <2>1. /\ socket[k].of \in Logins /\ now <= socket[k].due
        /\ socket[k].due <= row[socket[k].of].idle + SessionCheck
    BY <1>2 DEF SessionInv, SocketInv
  <2>2. now \in Nat /\ socket[k].due \in Nat /\ row[socket[k].of].idle + SessionCheck \in Nat
    BY <1>2, <2>1, WebAssumption DEF SessionInv, SessionTypes, SocketRec, RowRec
  <2> QED
    BY <2>1, <2>2
<1>3. ASSUME SessionInv, [WebNext]_webVars, NEW s \in Logins, row[s].is = "deleted"
      PROVE  row'[s].is = "deleted"
  <2>0. SessionTypes /\ DeadlineInv
    BY <1>3 DEF SessionInv
  <2>1. ASSUME NEW t \in Logins, row' = Touched(t) PROVE row'[s].is = "deleted"
    BY <1>3, <2>0, <2>1, Slides
  <2>2. ASSUME NEW t \in Logins, Create(t) PROVE row'[s].is = "deleted"
    BY <1>3, <2>0, <2>2 DEF Create, SessionTypes
  <2>3. ASSUME NEW t \in Logins, Logout(t) PROVE row'[s].is = "deleted"
    BY <1>3, <2>0, <2>3 DEF Logout, Valid, SessionTypes
  <2>4. ASSUME NEW r \in Requests, Slide(r) PROVE row'[s].is = "deleted"
    BY <1>3, <2>0, <2>1, <2>4 DEF Slide, SessionTypes
  <2>5. ASSUME NEW k \in Sockets, OpenSocket(k) PROVE row'[s].is = "deleted"
    BY <2>1, <2>5 DEF OpenSocket
  <2>6. CASE DeleteExpired
    BY <1>3, <2>6 DEF DeleteExpired
  <2>7. CASE row' = row
    BY <1>3, <2>7
  <2> QED
    BY <1>3, <2>2, <2>3, <2>4, <2>5, <2>6, <2>7
       DEF WebNext, WrongKey, WrongKeyElsewhere, Passes, Authenticate, Watch, CloseSocket, webVars
<1>4. SessionInv /\ [WebNext]_webVars =>
        [\A s \in Logins : row[s].is = "deleted" => row'[s].is = "deleted"]_webVars
  BY <1>3
<1> QED
  BY <1>1, <1>2, <1>4, WebAlways, PTL DEF WebSpec, SessionsEnd, EndedStaysEnded

\* What the type invariant says beyond SessionInv: the bounds in time.
ClockInv ==
  /\ now <= MaxTime /\ swept \in 0..now
  /\ \A s \in Logins : row[s].idle <= row[s].absolute /\ row[s].absolute <= now + MaxTTL

\* A slide keeps the row within its deadlines.
LEMMA SlideClocked ==
  ASSUME SessionInv, ClockInv, NEW s \in Logins, row' = Touched(s), UNCHANGED <<now, swept>>
  PROVE  ClockInv'
<1>1. /\ row' \in [Logins -> RowRec]
      /\ \A t \in Logins : /\ row'[t].is = row[t].is /\ row'[t].absolute = row[t].absolute
                           /\ t # s => row'[t] = row[t]
      /\ row'[s].is = "live" => row'[s].idle <= row'[s].absolute
  BY Slides DEF SessionInv
<1>2. row[s].is # "live" => row' = row
  BY DEF Touched
<1>3. row \in [Logins -> RowRec]
  BY DEF SessionInv, SessionTypes
<1>4. ASSUME NEW t \in Logins PROVE row'[t].idle <= row'[t].absolute /\ row'[t].absolute = row[t].absolute
  <2>1. row[t].idle <= row[t].absolute /\ row'[t].absolute = row[t].absolute
    BY <1>1 DEF ClockInv
  <2>2. CASE t = s /\ row[s].is = "live"
    <3>1. row'[s].is = "live"
      BY <1>1, <2>2
    <3> QED
      BY <1>1, <2>1, <2>2, <3>1
  <2>3. CASE row'[t] = row[t]
    BY <2>1, <2>3
  <2> QED
    BY <1>1, <1>2, <2>2, <2>3
<1>5. now' = now /\ swept' = swept
  OBVIOUS
<1> QED
  BY <1>4, <1>5 DEF ClockInv

LEMMA ClockKept == SessionInv /\ ClockInv /\ [WebNext]_webVars => ClockInv'
<1> SUFFICES ASSUME SessionInv, ClockInv, [WebNext]_webVars PROVE ClockInv'
  OBVIOUS
<1>0. /\ now \in Nat /\ MaxTime \in Nat /\ MaxTTL \in Nat /\ IdleTTL \in Nat
      /\ row \in [Logins -> RowRec] /\ \A s \in Logins : row[s].idle \in Nat /\ row[s].absolute \in Nat
  BY WebAssumption DEF SessionInv, SessionTypes, RowRec
<1>1. ASSUME NEW s \in Logins, Create(s) PROVE ClockInv'
  <2> DEFINE l == Least(IdleTTL, MaxTTL)
  <2>1. l \in Nat /\ l <= MaxTTL
    BY <1>0, LeastOfTwo
  <2>2. /\ row' = [row EXCEPT ![s] = [is |-> "live", idle |-> now + l, absolute |-> now + MaxTTL]]
        /\ UNCHANGED <<now, swept>>
    BY <1>1 DEF Create
  <2> HIDE DEF l
  <2> QED
    BY <1>0, <2>1, <2>2 DEF ClockInv
<1>2. ASSUME NEW s \in Logins, Logout(s) PROVE ClockInv'
  <2> DEFINE l == Least(row[s].idle, now)
  <2>1. l \in Nat /\ l <= row[s].idle
    BY <1>0, LeastOfTwo
  <2>2. row' = [row EXCEPT ![s].is = "deleted", ![s].idle = l] /\ UNCHANGED <<now, swept>>
    BY <1>2 DEF Logout
  <2> HIDE DEF l
  <2>3. row'[s].idle = l /\ row'[s].absolute = row[s].absolute
    BY <1>0, <2>2 DEF RowRec
  <2>4. \A t \in Logins : t # s => row'[t] = row[t]
    BY <1>0, <2>2
  <2> QED
    BY <1>0, <2>1, <2>2, <2>3, <2>4 DEF ClockInv
<1>3. ASSUME NEW r \in Requests, Authenticate(r) \/ Slide(r) PROVE ClockInv'
  <2>1. CASE row' = row
    BY <1>3, <2>1 DEF Authenticate, Slide, ClockInv
  <2>2. CASE Slide(r) /\ row' = Touched(request[r])
    <3>1. request[r] \in Logins
      BY <2>2 DEF Slide, SessionInv, SessionTypes
    <3> QED
      BY <2>2, <3>1, SlideClocked DEF Slide
  <2> QED
    BY <1>3, <2>1, <2>2 DEF Authenticate, Slide
<1>4. ASSUME NEW k \in Sockets, OpenSocket(k) PROVE ClockInv'
  <2>1. PICK s \in Logins : row' = Touched(s)
    BY <1>4 DEF OpenSocket
  <2> QED
    BY <1>4, <2>1, SlideClocked DEF OpenSocket
<1>5. CASE DeleteExpired
  <2>1. \A s \in Logins : row'[s].idle = row[s].idle /\ row'[s].absolute = row[s].absolute
    BY <1>0, <1>5 DEF DeleteExpired, RowRec
  <2> QED
    BY <1>5, <2>1 DEF DeleteExpired, ClockInv
<1>6. CASE Passes
  BY <1>0, <1>6 DEF Passes, ClockInv
<1>7. CASE \E t \in ReadBefore : WrongKey(t) \/ WrongKeyElsewhere(t)
  <2>1. UNCHANGED <<now, row>> /\ \E t \in 0..now : swept' = t \/ swept' = swept
    BY <1>7 DEF WrongKey, WrongKeyElsewhere, ReadBefore
  <2> QED
    BY <1>0, <2>1 DEF ClockInv
<1>8. CASE UNCHANGED <<now, row, swept>>
  BY <1>8 DEF ClockInv
<1> QED
  BY <1>1, <1>2, <1>3, <1>4, <1>5, <1>6, <1>7, <1>8 DEF WebNext, Watch, CloseSocket, webVars

\* The types; a session's idle deadline within its absolute one (TouchSession's MIN), and
\* every socket's next check still to come.
THEOREM WebTypeCorrect == WebSpec => []WebTypeOK
<1>1. WebInit => ClockInv
  BY WebAssumption DEF WebInit, ClockInv, NoSession
<1>2. SessionInv /\ ClockInv => WebTypeOK
  <2> SUFFICES ASSUME SessionInv, ClockInv PROVE WebTypeOK
    OBVIOUS
  <2>1. now \in 0..MaxTime /\ request \in [Requests -> Logins \union {"none"}]
    BY WebAssumption DEF SessionInv, SessionTypes, ClockInv
  <2>2. ASSUME NEW s \in Logins PROVE row[s].is \in {"none", "live", "deleted"} /\ active[s] \in 0..now
    BY DEF SessionInv, SessionTypes, RowRec, DeadlineInv
  <2>3. ASSUME NEW k \in Sockets, socket[k] # NoSocket
        PROVE  socket[k].of \in Logins /\ socket[k].due >= now
    BY <2>3 DEF SessionInv, SessionTypes, SocketRec, SocketInv
  <2> QED
    BY <2>1, <2>2, <2>3 DEF WebTypeOK, ClockInv
<1> QED
  BY <1>1, <1>2, WebAlways, ClockKept, PTL DEF WebSpec

-----------------------------------------------------------------------------
(* The throttle on wrong keys.  What is counted is, for each instant from  *)
(* now on, the attempts still within the window then: pruning either       *)
(* sequence keeps the count, and a bucket the sweep drops has none.        *)

RecentAt(ts, n) == {i \in DOMAIN ts : n - ts[i] < RateWindow}
\* at lists the positions of I in ascending order.
Lists(I, at) ==
  at \in [1..Cardinality(I) -> I] /\ \A j, k \in 1..Cardinality(I) : j < k => at[j] < at[k]
InOrder(ts) == \A i, j \in DOMAIN ts : i < j => ts[i] <= ts[j]
Happened(ts) == ts \in Seq(Nat) /\ \A i \in DOMAIN ts : ts[i] <= now
ThrottleInv ==
  /\ now \in Nat /\ Happened(stamps) /\ Happened(guesses) /\ Len(stamps) <= RateLimit
  /\ ~late => /\ InOrder(stamps)
              /\ \A n \in Nat : n >= now => Cardinality(RecentAt(guesses, n)) = Cardinality(RecentAt(stamps, n))

LEMMA SmallestOf ==
  ASSUME NEW S \in SUBSET Nat, S # {}
  PROVE  \E x \in S : \A y \in S : x <= y
<1>1. PICK x \in S : \A y \in S : ~ (<<y, x>> \in OpToRel(<, Nat))
  BY NatLessThanWellFounded, WFMin
<1>2. \A a, b \in Nat : a < b => <<a, b>> \in OpToRel(<, Nat)
  BY DEF OpToRel
<1>3. \A y \in S : ~ (y < x) /\ y \in Nat /\ x \in Nat
  BY <1>1, <1>2
<1> QED
  BY <1>3

LEMMA GreatestOf ==
  ASSUME NEW n \in Nat, NEW I \in SUBSET (1..n), I # {}
  PROVE  \E x \in I : \A y \in I : y <= x
<1> DEFINE B == {n - x : x \in I}
<1>1. B \in SUBSET Nat /\ B # {}
  <2>1. \A x \in I : n - x \in Nat
    OBVIOUS
  <2> QED
    BY <2>1
<1>2. PICK b \in B : \A c \in B : b <= c
  BY <1>1, SmallestOf
<1>3. PICK x \in I : b = n - x
  BY <1>2
<1>4. ASSUME NEW y \in I PROVE y <= x
  <2>1. n - y \in B /\ y \in Nat /\ x \in Nat
    BY <1>3
  <2> QED
    BY <1>2, <1>3, <2>1
<1> QED
  BY <1>4

LEMMA CanList ==
  ASSUME NEW n \in Nat, NEW I \in SUBSET (1..n)
  PROVE  \E at : Lists(I, at)
<1> DEFINE Bad == {m \in Nat : \E J \in SUBSET (1..n) : Cardinality(J) = m /\ ~ \E at : Lists(J, at)}
<1>0. \A J \in SUBSET (1..n) : IsFiniteSet(J) /\ Cardinality(J) \in Nat
  <2>1. IsFiniteSet(1..n)
    BY FS_Interval
  <2> QED
    BY <2>1, FS_Subset, FS_CardinalityType
<1> SUFFICES ASSUME Bad # {} PROVE FALSE
  BY <1>0
<1>1. PICK m \in Bad : \A k \in Bad : m <= k
  BY SmallestOf, Bad \in SUBSET Nat
<1>2. PICK J \in SUBSET (1..n) : Cardinality(J) = m /\ ~ \E at : Lists(J, at)
  BY <1>1
<1>3. J # {}
  <2> SUFFICES ASSUME J = {} PROVE FALSE
    OBVIOUS
  <2> DEFINE none == [i \in 1..0 |-> 0]
  <2>1. Cardinality(J) = 0
    BY FS_EmptySet
  <2>2. none \in [1..0 -> J] /\ \A j, k \in 1..0 : j < k => none[j] < none[k]
    OBVIOUS
  <2>3. Lists(J, none)
    BY <2>1, <2>2 DEF Lists
  <2> QED
    BY <1>2, <2>3
<1>4. PICK x \in J : \A y \in J : y <= x
  BY <1>3, GreatestOf
<1> DEFINE K == J \ {x}
<1>5. IsFiniteSet(J) /\ m \in Nat /\ Cardinality(K) = m - 1 /\ m - 1 \in Nat
  BY <1>0, <1>2, <1>3, <1>4, FS_RemoveElement, FS_EmptySet
<1>6. PICK at : Lists(K, at)
  <2>1. m - 1 \notin Bad
    BY <1>1, <1>5
  <2> QED
    BY <1>5, <2>1
<1> DEFINE more == [k \in 1..m |-> IF k = m THEN x ELSE at[k]]
<1>7. /\ \A k \in 1..(m - 1) : at[k] \in J /\ at[k] < x
      /\ \A j, k \in 1..(m - 1) : j < k => at[j] < at[k]
  <2>1. \A y \in K : y \in J /\ y < x
    BY <1>4
  <2> QED
    BY <1>5, <1>6, <2>1 DEF Lists
<1>8. \A k \in 1..m : k = m \/ k \in 1..(m - 1)
  BY <1>5
<1>9. more \in [1..m -> J]
  BY <1>4, <1>7, <1>8
<1>10. ASSUME NEW j \in 1..m, NEW k \in 1..m, j < k PROVE more[j] < more[k]
  <2>1. j \in 1..(m - 1) /\ more[j] = at[j]
    BY <1>5, <1>10
  <2> QED
    BY <1>7, <1>8, <1>10, <2>1
<1>11. Lists(J, more)
  BY <1>2, <1>9, <1>10 DEF Lists
<1> QED
  BY <1>2, <1>11

\* Ascending lists each position once.
LEMMA ListsAll ==
  ASSUME NEW n \in Nat, NEW I \in SUBSET (1..n)
  PROVE  /\ Cardinality(I) \in Nat /\ Lists(I, Ascending(I))
         /\ \A j, k \in 1..Cardinality(I) : Ascending(I)[j] = Ascending(I)[k] => j = k
         /\ \A i \in I : \E k \in 1..Cardinality(I) : Ascending(I)[k] = i
<1> DEFINE c == Cardinality(I)
           at == Ascending(I)
<1>1. IsFiniteSet(I) /\ c \in Nat
  <2>1. IsFiniteSet(1..n)
    BY FS_Interval
  <2> QED
    BY <2>1, FS_Subset, FS_CardinalityType
<1>2. Lists(I, at)
  <2>1. \E f \in [1..c -> I] : \A j, k \in 1..c : j < k => f[j] < f[k]
    BY CanList DEF Lists
  <2> QED
    BY <2>1 DEF Ascending, Lists
<1> HIDE DEF at
<1>3. ASSUME NEW j \in 1..c, NEW k \in 1..c, at[j] = at[k] PROVE j = k
  <2>1. at[j] \in I /\ at[k] \in I /\ (j < k => at[j] < at[k]) /\ (k < j => at[k] < at[j])
    BY <1>2 DEF Lists
  <2>2. at[j] \in Nat /\ at[k] \in Nat
    <3>1. \A i \in I : i \in Nat
      OBVIOUS
    <3> QED
      BY <2>1, <3>1
  <2> QED
    BY <1>1, <1>3, <2>1, <2>2
<1>4. at \in Injection(1..c, I)
  BY <1>2, <1>3 DEF Lists, Injection, IsInjective
<1>5. Cardinality(1..c) = Cardinality(I)
  BY <1>1, FS_Interval
<1>6. at \in Surjection(1..c, I)
  BY <1>1, <1>4, <1>5, FS_Injection
<1> QED
  BY <1>1, <1>2, <1>3, <1>6 DEF Surjection, at

\* Pruning leaves out what is past the window and nothing else, now or later.
LEMMA Pruned ==
  ASSUME now \in Nat, NEW t \in Nat, NEW ts, Happened(ts)
  PROVE  /\ Happened(Within(ts, t)) /\ Len(Within(ts, t)) = Cardinality(RecentAt(ts, t))
         /\ Len(Within(ts, t)) <= Len(ts)
         /\ InOrder(ts) => InOrder(Within(ts, t))
         /\ \A n \in Nat : n >= t =>
              Cardinality(RecentAt(Within(ts, t), n)) = Cardinality(RecentAt(ts, n))
<1> DEFINE I == RecentAt(ts, t)
           c == Cardinality(I)
           at == Ascending(I)
           ws == [k \in 1..c |-> ts[at[k]]]
<1>1. Len(ts) \in Nat /\ DOMAIN ts = 1..Len(ts) /\ \A i \in 1..Len(ts) : ts[i] \in Nat /\ ts[i] <= now
  BY LenProperties DEF Happened
<1>2. I \in SUBSET (1..Len(ts))
  BY <1>1 DEF RecentAt
<1>3. /\ c \in Nat /\ at \in [1..c -> I]
      /\ \A j, k \in 1..c : j < k => at[j] < at[k]
      /\ \A j, k \in 1..c : at[j] = at[k] => j = k
      /\ \A i \in I : \E k \in 1..c : at[k] = i
  BY <1>1, <1>2, ListsAll DEF Lists
<1>4. Within(ts, t) = ws
  <2>1. DOMAIN at = 1..c
    BY <1>3
  <2> QED
    BY <2>1 DEF Within, RecentAt
<1> HIDE DEF I, at, c
<1>5. \A k \in 1..c : at[k] \in I /\ at[k] \in 1..Len(ts) /\ ws[k] = ts[at[k]]
  BY <1>2, <1>3
<1>6. \A k \in 1..c : ws[k] \in Nat /\ ws[k] <= now
  BY <1>1, <1>5
<1>7. ws \in Seq(Nat) /\ Len(ws) = c /\ DOMAIN ws = 1..c
  <2>1. ws \in [1..c -> Nat]
    BY <1>6
  <2> QED
    BY <1>3, <2>1, IsASeq, LenProperties
<1> HIDE DEF ws
<1>8. c <= Len(ts)
  <2>1. IsFiniteSet(1..Len(ts)) /\ Cardinality(1..Len(ts)) = Len(ts)
    BY <1>1, FS_Interval
  <2> QED
    BY <1>2, <2>1, FS_Subset DEF c
<1>9. ASSUME InOrder(ts), NEW j \in 1..c, NEW k \in 1..c, j < k PROVE ws[j] <= ws[k]
  <2>1. at[j] < at[k]
    BY <1>3, <1>9
  <2> QED
    BY <1>1, <1>5, <1>9, <2>1 DEF InOrder
<1>10. ASSUME NEW n \in Nat, n >= t
       PROVE  Cardinality(RecentAt(ws, n)) = Cardinality(RecentAt(ts, n))
  <2> DEFINE A == RecentAt(ws, n)
             B == RecentAt(ts, n)
             f == [k \in A |-> at[k]]
  <2>1. A = {k \in 1..c : n - ts[at[k]] < RateWindow} /\ A \subseteq 1..c
    BY <1>5, <1>7 DEF RecentAt
  <2>2. B \subseteq I
    <3> SUFFICES ASSUME NEW i \in B PROVE i \in I
      OBVIOUS
    <3>1. i \in 1..Len(ts) /\ ts[i] \in Nat /\ n - ts[i] < RateWindow
      BY <1>1 DEF RecentAt
    <3>2. t - ts[i] < RateWindow
      BY <1>10, <3>1, WebAssumption
    <3> QED
      BY <1>1, <3>1, <3>2 DEF RecentAt, I
  <2>3. \A k \in 1..c : k \in A <=> at[k] \in B
    BY <1>1, <1>5, <2>1 DEF RecentAt
  <2> HIDE DEF A, B
  <2>4. f \in [A -> B]
    BY <2>1, <2>3
  <2>5. f \in Injection(A, B)
    BY <1>3, <2>1, <2>4 DEF Injection, IsInjective
  <2>6. f \in Surjection(A, B)
    BY <1>3, <2>1, <2>2, <2>3, <2>4 DEF Surjection
  <2>7. IsFiniteSet(B)
    <3>1. IsFiniteSet(1..Len(ts)) /\ B \subseteq 1..Len(ts)
      BY <1>1, <1>2, <2>2, FS_Interval
    <3> QED
      BY <3>1, FS_Subset
  <2>8. Cardinality(A) = Cardinality(B)
    BY <2>5, <2>6, <2>7, FS_Injection
  <2> QED
    BY <2>8 DEF A, B
<1>11. Happened(ws) /\ (InOrder(ts) => InOrder(ws))
  BY <1>6, <1>7, <1>9 DEF Happened, InOrder
<1> QED
  BY <1>4, <1>7, <1>8, <1>10, <1>11 DEF c, I

\* An attempt of time t counts once, in whatever sequence it is noted.
LEMMA Noted ==
  ASSUME now \in Nat, NEW t \in Nat, t <= now, NEW ts, Happened(ts)
  PROVE  /\ Happened(Append(ts, t)) /\ Len(Append(ts, t)) = Len(ts) + 1
         /\ t = now /\ InOrder(ts) => InOrder(Append(ts, t))
         /\ \A n \in Nat : Cardinality(RecentAt(Append(ts, t), n))
                           = Cardinality(RecentAt(ts, n)) + (IF n - t < RateWindow THEN 1 ELSE 0)
<1> DEFINE l == Len(ts) + 1
           as == Append(ts, t)
<1>1. /\ Len(ts) \in Nat /\ DOMAIN ts = 1..Len(ts) /\ ts \in Seq(Nat)
      /\ \A i \in 1..Len(ts) : ts[i] \in Nat /\ ts[i] <= now
  BY LenProperties DEF Happened
<1>2. /\ as \in Seq(Nat) /\ Len(as) = l /\ DOMAIN as = 1..l /\ as[l] = t
      /\ \A i \in 1..Len(ts) : as[i] = ts[i]
  BY <1>1, AppendProperties
<1>3. \A i \in 1..l : i \in 1..Len(ts) \/ i = l
  BY <1>1
<1> HIDE DEF as, l
<1>4. Happened(as)
  <2>1. ASSUME NEW i \in 1..l PROVE as[i] <= now
    <3>1. CASE i \in 1..Len(ts)
      <4>1. as[i] = ts[i] /\ ts[i] <= now
        BY <1>1, <1>2, <3>1
      <4> QED
        BY <4>1
    <3>2. CASE i = l
      <4>1. as[i] = t
        BY <1>2, <3>2
      <4> QED
        BY <4>1
    <3> QED
      BY <1>3, <3>1, <3>2
  <2> QED
    BY <1>2, <2>1 DEF Happened
<1>5. ASSUME t = now, InOrder(ts), NEW i \in 1..l, NEW j \in 1..l, i < j PROVE as[i] <= as[j]
  <2>1. i \in 1..Len(ts)
    BY <1>1, <1>3, <1>5 DEF l
  <2> QED
    BY <1>1, <1>2, <1>3, <1>5, <2>1 DEF InOrder
<1>6. ASSUME NEW n \in Nat
      PROVE  Cardinality(RecentAt(as, n))
             = Cardinality(RecentAt(ts, n)) + (IF n - t < RateWindow THEN 1 ELSE 0)
  <2>1. RecentAt(as, n) = RecentAt(ts, n) \union (IF n - t < RateWindow THEN {l} ELSE {})
    <3>0. l \in 1..l /\ \A i \in 1..Len(ts) : i \in 1..l
      BY <1>1 DEF l
    <3>1. ASSUME NEW i \in 1..Len(ts) PROVE i \in RecentAt(as, n) <=> i \in RecentAt(ts, n)
      <4>1. i \in DOMAIN as /\ i \in DOMAIN ts /\ as[i] = ts[i]
        BY <1>1, <1>2, <3>0
      <4> QED
        BY <4>1 DEF RecentAt
    <3>2. l \in RecentAt(as, n) <=> n - t < RateWindow
      <4>1. l \in DOMAIN as /\ as[l] = t
        BY <1>2, <3>0
      <4> QED
        BY <4>1 DEF RecentAt
    <3>3. RecentAt(as, n) \subseteq 1..l /\ RecentAt(ts, n) \subseteq 1..Len(ts)
      BY <1>1, <1>2 DEF RecentAt
    <3> QED
      BY <1>3, <3>1, <3>2, <3>3
  <2>2. RecentAt(ts, n) \subseteq 1..Len(ts) /\ l \notin RecentAt(ts, n)
    BY <1>1 DEF RecentAt, l
  <2>3. IsFiniteSet(RecentAt(ts, n)) /\ Cardinality(RecentAt(ts, n)) \in Nat
    <3>1. IsFiniteSet(1..Len(ts))
      BY <1>1, FS_Interval
    <3> QED
      BY <2>2, <3>1, FS_Subset, FS_CardinalityType
  <2>4. CASE n - t < RateWindow
    <3>1. RecentAt(as, n) = RecentAt(ts, n) \union {l}
      BY <2>1, <2>4
    <3> QED
      BY <2>2, <2>3, <2>4, <3>1, FS_AddElement
  <2>5. CASE ~(n - t < RateWindow)
    BY <2>1, <2>3, <2>5
  <2> QED
    BY <2>4, <2>5
<1> QED
  BY <1>2, <1>4, <1>5, <1>6 DEF InOrder, as, l

\* What the sweep takes is past the window: the last attempt is the latest.
LEMMA SweptIsSpent ==
  ASSUME now \in Nat, NEW t \in Nat, Happened(stamps)
  PROVE  /\ Happened(Swept(t)) /\ Len(Swept(t)) <= Len(stamps)
         /\ InOrder(stamps) =>
              /\ InOrder(Swept(t))
              /\ \A n \in Nat : n >= t => Cardinality(RecentAt(Swept(t), n)) = Cardinality(RecentAt(stamps, n))
<1> DEFINE l == Len(stamps)
<1>1. /\ l \in Nat /\ DOMAIN stamps = 1..l /\ stamps \in Seq(Nat)
      /\ \A i \in 1..l : stamps[i] \in Nat /\ stamps[i] <= now
  BY LenProperties DEF Happened
<1>2. CASE SweepDue(t) /\ Spent(stamps, t) /\ stamps # <<>>
  <2>1. Swept(t) = <<>> /\ Len(Swept(t)) = 0 /\ DOMAIN Swept(t) = {} /\ Swept(t) \in Seq(Nat)
    BY <1>2 DEF Swept
  <2>2. t - stamps[l] >= RateWindow /\ l # 0
    BY <1>1, <1>2, EmptySeq DEF Spent, Last
  <2>3. InOrder(stamps) => \A i, j \in 1..l : i < j => stamps[i] <= stamps[j]
    BY <1>1 DEF InOrder
  <2> HIDE DEF l
  <2>4. l \in 1..l /\ \A i \in 1..l : i < l \/ i = l
    BY <1>1, <2>2
  <2>5. InOrder(stamps) => \A i \in 1..l : stamps[i] <= stamps[l]
    BY <1>1, <2>3, <2>4
  <2>6. ASSUME InOrder(stamps), NEW n \in Nat, n >= t PROVE RecentAt(stamps, n) = {} /\ RecentAt(Swept(t), n) = {}
    <3>1. ASSUME NEW i \in 1..l PROVE ~(n - stamps[i] < RateWindow)
      <4>1. stamps[i] <= stamps[l] /\ stamps[i] \in Nat /\ stamps[l] \in Nat
        BY <1>1, <2>4, <2>5, <2>6
      <4> QED
        BY <2>2, <2>6, <4>1, WebAssumption
    <3> QED
      BY <1>1, <2>1, <3>1 DEF RecentAt
  <2>7. Happened(Swept(t)) /\ InOrder(Swept(t))
    BY <2>1 DEF Happened, InOrder
  <2>8. Len(Swept(t)) <= Len(stamps)
    BY <1>1, <2>1 DEF l
  <2> QED
    BY <2>6, <2>7, <2>8
<1>3. CASE ~(SweepDue(t) /\ Spent(stamps, t)) \/ stamps = <<>>
  <2>1. Swept(t) = stamps
    BY <1>3 DEF Swept
  <2> QED
    BY <1>1, <2>1
<1> QED
  BY <1>2, <1>3

LEMMA ThrottleInitial == WebInit => ThrottleInv
<1> SUFFICES ASSUME WebInit PROVE ThrottleInv
  OBVIOUS
<1>1. now = 0 /\ stamps = <<>> /\ guesses = <<>> /\ Len(stamps) = 0 /\ DOMAIN stamps = {}
  BY DEF WebInit
<1> QED
  BY <1>1, WebAssumption DEF ThrottleInv, Happened, InOrder

LEMMA AttemptKept == ASSUME ThrottleInv, NEW t \in ReadBefore, WrongKey(t) PROVE ThrottleInv'
<1> DEFINE recent == Within(Swept(t), t)
           tried  == Within(guesses, now)
           Same(gs, ts) == \A n \in Nat : n >= now => Cardinality(RecentAt(gs, n)) = Cardinality(RecentAt(ts, n))
<1>0. /\ now \in Nat /\ t \in Nat /\ t <= now /\ Happened(stamps) /\ Happened(guesses)
      /\ Len(stamps) \in Nat /\ Len(stamps) <= RateLimit /\ RateLimit \in Nat
      /\ ~late => InOrder(stamps) /\ Same(guesses, stamps)
  BY LenProperties, WebAssumption DEF ThrottleInv, Happened, ReadBefore
<1>1. \A n \in Nat : n >= now => n >= t
  BY <1>0
<1>2. /\ Happened(Swept(t)) /\ Len(Swept(t)) <= Len(stamps)
      /\ InOrder(stamps) => InOrder(Swept(t)) /\ Same(Swept(t), stamps)
  BY <1>0, <1>1, SweptIsSpent
<1>3. /\ Happened(recent) /\ Len(recent) <= Len(Swept(t)) /\ Same(recent, Swept(t))
      /\ InOrder(Swept(t)) => InOrder(recent)
  BY <1>0, <1>1, <1>2, Pruned
<1>4. Happened(tried) /\ Same(tried, guesses)
  BY <1>0, Pruned
<1>5. Len(recent) \in Nat /\ Len(recent) <= RateLimit
  <2>1. Len(recent) \in Nat /\ Len(Swept(t)) \in Nat
    BY <1>2, <1>3, LenProperties DEF Happened
  <2> QED
    BY <1>0, <1>2, <1>3, <2>1
<1>6. ~late => InOrder(recent) /\ Same(tried, recent)
  BY <1>0, <1>2, <1>3, <1>4
<1>7. /\ now' = now
      /\ \/ stamps' = recent /\ guesses' = tried /\ late' = late
         \/ /\ Len(recent) < RateLimit
            /\ stamps' = Append(recent, t) /\ late' = (IF t < now THEN TRUE ELSE late)
            /\ guesses' = IF late' THEN <<>> ELSE Append(tried, now)
  BY DEF WrongKey
<1> HIDE DEF recent, tried
<1>8. CASE stamps' = recent /\ guesses' = tried /\ late' = late
  BY <1>0, <1>3, <1>4, <1>5, <1>6, <1>7, <1>8 DEF ThrottleInv, Happened, InOrder
<1>9. CASE /\ Len(recent) < RateLimit
           /\ stamps' = Append(recent, t) /\ late' = (IF t < now THEN TRUE ELSE late)
           /\ guesses' = IF late' THEN <<>> ELSE Append(tried, now)
  <2>1. /\ Happened(Append(recent, t)) /\ Len(Append(recent, t)) = Len(recent) + 1
        /\ t = now /\ InOrder(recent) => InOrder(Append(recent, t))
        /\ \A n \in Nat : Cardinality(RecentAt(Append(recent, t), n))
                          = Cardinality(RecentAt(recent, n)) + (IF n - t < RateWindow THEN 1 ELSE 0)
    BY <1>0, <1>3, Noted
  <2>2. /\ Happened(Append(tried, now))
        /\ \A n \in Nat : Cardinality(RecentAt(Append(tried, now), n))
                          = Cardinality(RecentAt(tried, n)) + (IF n - now < RateWindow THEN 1 ELSE 0)
    BY <1>0, <1>4, Noted
  <2>3. Len(stamps') <= RateLimit /\ Happened(stamps)'
    <3>1. stamps' = Append(recent, t) /\ Len(stamps') <= RateLimit
      BY <1>0, <1>5, <1>9, <2>1
    <3> QED
      BY <1>7, <2>1, <3>1 DEF Happened
  <2>4. CASE late'
    <3>1. guesses' = <<>>
      BY <1>9, <2>4
    <3>2. DOMAIN guesses' = {} /\ guesses' \in Seq(Nat)
      BY <3>1
    <3> QED
      BY <1>0, <1>7, <2>3, <2>4, <3>2 DEF ThrottleInv, Happened
  <2>5. CASE ~late'
    <3>1. t = now /\ ~late /\ guesses' = Append(tried, now)
      BY <1>0, <1>9, <2>5
    <3>2. Same(Append(tried, now), Append(recent, t)) /\ InOrder(Append(recent, t))
      BY <1>6, <2>1, <2>2, <3>1
    <3> QED
      BY <1>0, <1>7, <1>9, <2>2, <2>3, <3>1, <3>2 DEF ThrottleInv, Happened, InOrder
  <2> QED
    BY <2>4, <2>5
<1> QED
  BY <1>7, <1>8, <1>9

LEMMA SweepLeaves == ASSUME ThrottleInv, NEW t \in ReadBefore, WrongKeyElsewhere(t) PROVE ThrottleInv'
<1>0. /\ now \in Nat /\ t \in Nat /\ t <= now /\ Happened(stamps) /\ Happened(guesses)
      /\ Len(stamps) \in Nat /\ Len(stamps) <= RateLimit /\ RateLimit \in Nat
  BY LenProperties, WebAssumption DEF ThrottleInv, Happened, ReadBefore
<1>1. /\ Happened(Swept(t)) /\ Len(Swept(t)) <= Len(stamps)
      /\ InOrder(stamps) =>
           /\ InOrder(Swept(t))
           /\ \A n \in Nat : n >= t => Cardinality(RecentAt(Swept(t), n)) = Cardinality(RecentAt(stamps, n))
  BY <1>0, SweptIsSpent
<1>2. Len(Swept(t)) <= RateLimit
  <2>1. Len(Swept(t)) \in Nat
    BY <1>1, LenProperties DEF Happened
  <2> QED
    BY <1>0, <1>1, <2>1
<1>3. stamps' = Swept(t) /\ guesses' = guesses /\ now' = now /\ late' = late
  BY DEF WrongKeyElsewhere
<1>4. \A n \in Nat : n >= now => n >= t
  BY <1>0
<1> QED
  BY <1>0, <1>1, <1>2, <1>3, <1>4 DEF ThrottleInv, Happened, InOrder

LEMMA ThrottleKept == ThrottleInv /\ [WebNext]_webVars => ThrottleInv'
<1> SUFFICES ASSUME ThrottleInv, [WebNext]_webVars PROVE ThrottleInv'
  OBVIOUS
<1>0. /\ now \in Nat /\ Happened(stamps) /\ Happened(guesses) /\ RateLimit \in Nat
  BY WebAssumption DEF ThrottleInv
<1>1. CASE stamps' = <<>> /\ guesses' = <<>> /\ now' = now
  <2>1. DOMAIN stamps' = {} /\ Len(stamps') = 0 /\ stamps' \in Seq(Nat)
    BY <1>1
  <2> QED
    BY <1>0, <1>1, <2>1 DEF ThrottleInv, Happened, InOrder
<1>2. CASE \E t \in ReadBefore : WrongKey(t) \/ WrongKeyElsewhere(t)
  <2>1. PICK t \in ReadBefore : WrongKey(t) \/ WrongKeyElsewhere(t)
    BY <1>2
  <2> QED
    BY <2>1, AttemptKept, SweepLeaves
<1>3. CASE stamps' = stamps /\ guesses' = guesses /\ late' = late /\ (now' = now + 1 \/ now' = now)
  <2>1. \A n \in Nat : n >= now' => n >= now
    BY <1>0, <1>3
  <2>2. Happened(stamps)' /\ Happened(guesses)'
    <3>1. \A i \in DOMAIN stamps : stamps[i] \in Nat
      BY <1>0, LenProperties DEF Happened
    <3>2. \A i \in DOMAIN guesses : guesses[i] \in Nat
      BY <1>0, LenProperties DEF Happened
    <3> QED
      BY <1>0, <1>3, <3>1, <3>2 DEF Happened
  <2> QED
    BY <1>0, <1>3, <2>1, <2>2 DEF ThrottleInv, InOrder
<1> QED
  BY <1>1, <1>2, <1>3
     DEF WebNext, Create, Logout, DeleteExpired, Passes, Authenticate, Slide,
         OpenSocket, Watch, CloseSocket, webVars

\* Between two logins an address gets RateLimit wrong keys let through in any window, however
\* the sweeps fall: whatever the sweep drops is past the window already, and stays so. Only a
\* request that read the clock long before it got the mutex may add to that.
THEOREM GuessesLimited == WebSpec => []GuessesBounded
<1>1. ThrottleInv => GuessesBounded
  <2> SUFFICES ASSUME ThrottleInv PROVE GuessesBounded
    OBVIOUS
  <2>1. /\ now \in Nat /\ Happened(stamps) /\ Happened(guesses) /\ Len(stamps) <= RateLimit
        /\ ~late => Cardinality(RecentAt(guesses, now)) = Cardinality(RecentAt(stamps, now))
    BY DEF ThrottleInv
  <2>2. /\ Len(Within(guesses, now)) = Cardinality(RecentAt(guesses, now))
        /\ Len(Within(stamps, now)) = Cardinality(RecentAt(stamps, now))
        /\ Len(Within(stamps, now)) <= Len(stamps)
    BY <2>1, Pruned
  <2>3. Len(stamps) \in Nat /\ Len(Within(stamps, now)) \in Nat
    BY <2>1, Pruned, LenProperties DEF Happened
  <2> QED
    BY <2>1, <2>2, <2>3, WebAssumption DEF GuessesBounded
<1> QED
  BY <1>1, ThrottleInitial, ThrottleKept, PTL DEF WebSpec

-----------------------------------------------------------------------------
(* The services together.                                                  *)

\* The composition implements the specification of each: a step of one leaves the others
\* alone, so whatever is proved of one of them holds of it too.
LEMMA SixSideBySide ==
  FairSpec => BlobSpec /\ PrefetchSpec /\ TokenSpec /\ SetupSpec /\ WebSpec /\ HubSpec
<1>1. Init => BlobInit /\ PrefetchInit /\ TokenInit /\ SetupInit /\ WebInit /\ HubInit
  BY DEF Init
<1>2. [Next]_vars => /\ [BlobNext]_blobVars /\ [PrefetchNext]_prefetchVars /\ [TokenNext]_tokenVars
                     /\ [SetupNext]_setupVars /\ [WebNext]_webVars /\ [HubNext]_hubVars
  BY DEF Next, vars, OnBlobs, OnPrefetch, OnTokens, OnSetup, OnWeb, OnHub
<1> QED
  BY <1>1, <1>2, PTL DEF FairSpec, BlobSpec, PrefetchSpec, TokenSpec, SetupSpec, WebSpec, HubSpec

\* All six are well typed in the composition the services run checks.
THEOREM ServicesTyped == FairSpec => []TypesOK
<1>1. BlobTypeOK /\ PrefetchTypeOK /\ TokenTypeOK /\ SetupTypeOK /\ WebTypeOK /\ HubTypeOK => TypesOK
  BY DEF TypesOK
<1> QED
  BY <1>1, SixSideBySide, BlobTypeCorrect, PrefetchTypeCorrect, TokenTypeCorrect, SetupTypeCorrect,
     WebTypeCorrect, HubTypeCorrect, PTL

\* What is proved of one service holds of the run's composition: blobs, prefetch, tokens,
\* set-up, hub, sessions and the throttle in turn.
THEOREM ServicesKeep ==
  FairSpec => /\ []ReferencesResolve /\ []ClaimsAreWork /\ ForegroundFirst
              /\ []NewestTokenKept /\ []SetupHolds /\ StreamKept /\ SessionsEnd
              /\ []GuessesBounded
BY SixSideBySide, References, ClaimsInHand, ForegroundIsFirst, NewestKept, SetupKept, StreamIsKept,
   SessionsEndInTime, GuessesLimited, PTL

=============================================================================
