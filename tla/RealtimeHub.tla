----------------------------- MODULE RealtimeHub -----------------------------
(***************************************************************************)
(* The event stream of the browsers: Publish, Serve and stop of            *)
(* internal/realtime/hub.go.                                               *)
(*                                                                         *)
(* Publishers number an event first and hand it out later, client by       *)
(* client, under a read lock that several of them may hold. What Serve     *)
(* writes, the socket has. The browser's side of it is EventFeed.          *)
(***************************************************************************)
EXTENDS Naturals, SequencesExt

CONSTANTS
  Clients,      \* websocket connections, each served once
  Publishers,   \* goroutines in Publish
  SendRoom,     \* depth of a client's send channel
  MaxEvents     \* bound: events

ASSUME HubAssumption == "none" \notin Clients /\ SendRoom \in Nat /\ MaxEvents \in Nat

VARIABLES
  serial,       \* seq
  publishing,   \* per publisher: its event or 0, clients left in its loop, the one found full
  client,       \* per connection: state, send channel, whether done is closed, events written
  owed          \* observer: per connection, the events handed out while it was registered

hubVars == <<serial, publishing, client, owed>>

NoEvent   == [n |-> 0, to |-> {}, full |-> "none"]
NewClient == [is |-> "new", send |-> <<>>, done |-> FALSE, wrote |-> <<>>]
\* The clients map; a connection that is ending is in it until it has removed itself.
Registered == {c \in Clients : client[c].is \in {"serving", "ending"}}
\* Nobody holds the read lock, so the map may change.
Unlocked == \A p \in Publishers : publishing[p].to = {} /\ publishing[p].full = "none"

-----------------------------------------------------------------------------
\* Serve registers under the write lock.
Connect(c) ==
  /\ client[c].is = "new" /\ Unlocked /\ client' = [client EXCEPT ![c].is = "serving"]
  /\ UNCHANGED <<serial, publishing, owed>>

TakeNumber(p) ==
  /\ publishing[p] = NoEvent /\ serial < MaxEvents
  /\ serial' = serial + 1 /\ publishing' = [publishing EXCEPT ![p].n = serial']
  /\ UNCHANGED <<client, owed>>

\* Under the read lock: the loop over the map, whose last turn releases it.
Loop(p, to) == publishing' = [publishing EXCEPT ![p] = IF to = {} THEN NoEvent ELSE [@ EXCEPT !.to = to, !.full = "none"]]

HandOut(p) ==
  /\ publishing[p].n # 0 /\ publishing[p].to = {} /\ publishing[p].full = "none"
  /\ Loop(p, Registered)
  /\ UNCHANGED <<serial, client, owed>>

\* Mutant: one event too many is sent to the channel.
FullBeyond(c) == Len(client[c].send) > SendRoom
Full(c) == Len(client[c].send) >= SendRoom
\* Mutant: a client whose channel is full misses the event and stays.
SkipWhenFull(p, c) ==
  /\ c \in publishing[p].to /\ publishing[p].full = "none"
  /\ owed' = [owed EXCEPT ![c] = @ \union {publishing[p].n}]
  /\ client' = IF Full(c) THEN client ELSE [client EXCEPT ![c].send = Append(@, publishing[p].n)]
  /\ Loop(p, publishing[p].to \ {c})
  /\ UNCHANGED serial
\* One turn: the select with a default.
Send(p, c) ==
  /\ c \in publishing[p].to /\ publishing[p].full = "none"
  /\ owed' = [owed EXCEPT ![c] = @ \union {publishing[p].n}]
  /\ IF Full(c) THEN publishing' = [publishing EXCEPT ![p].to = @ \ {c}, ![p].full = c] /\ UNCHANGED client
     ELSE /\ client' = [client EXCEPT ![c].send = Append(@, publishing[p].n)]
          /\ Loop(p, publishing[p].to \ {c})
  /\ UNCHANGED serial

\* The rest of the default, after its warning is logged: stop.
StopFull(p) ==
  /\ publishing[p].full # "none"
  /\ client' = [client EXCEPT ![publishing[p].full].done = TRUE]
  /\ Loop(p, publishing[p].to)
  /\ UNCHANGED <<serial, owed>>

\* Mutant: the socket of a stopped client is left open until its loop ends.
WriteStopped(c) ==
  /\ client[c].is = "serving" /\ client[c].send # <<>>
  /\ client' = [client EXCEPT ![c].send = Tail(@), ![c].wrote = Append(@, Head(client[c].send))]
  /\ UNCHANGED <<serial, publishing, owed>>
\* An event goes to the socket. After done is closed select may still take one, and its write
\* to the closed socket fails.
Write(c) ==
  /\ client[c].is = "serving" /\ client[c].send # <<>>
  /\ client' = [client EXCEPT ![c].send = Tail(@),
                              ![c].is = IF client[c].done THEN "ending" ELSE @,
                              ![c].wrote = IF client[c].done THEN @ ELSE Append(@, Head(client[c].send))]
  /\ UNCHANGED <<serial, publishing, owed>>

\* done is closed, or the request ends, or a ping or a write fails.
Ends(c) ==
  /\ client[c].is = "serving" /\ client' = [client EXCEPT ![c].is = "ending"]
  /\ UNCHANGED <<serial, publishing, owed>>

\* The deferred removal from the map, and stop.
Unregister(c) ==
  /\ client[c].is = "ending" /\ Unlocked
  /\ client' = [client EXCEPT ![c] = [@ EXCEPT !.is = "gone", !.done = TRUE]]
  /\ UNCHANGED <<serial, publishing, owed>>

-----------------------------------------------------------------------------
HubInit ==
  /\ serial = 0 /\ publishing = [p \in Publishers |-> NoEvent]
  /\ client = [c \in Clients |-> NewClient] /\ owed = [c \in Clients |-> {}]

HubNext ==
  \/ \E p \in Publishers : TakeNumber(p) \/ HandOut(p) \/ StopFull(p) \/ \E c \in Clients : Send(p, c)
  \/ \E c \in Clients : Connect(c) \/ Write(c) \/ Ends(c) \/ Unregister(c)

HubSpec == HubInit /\ [][HubNext]_hubVars

-----------------------------------------------------------------------------
(* Properties. *)

\* Types, and the send channels within their depth.
HubTypeOK ==
  /\ serial \in 0..MaxEvents /\ publishing \in [Publishers -> [n : 0..serial, to : SUBSET Clients, full : Clients \union {"none"}]]
  /\ \A c \in Clients : /\ client[c].is \in {"new", "serving", "ending", "gone"}
                         /\ client[c].done \in BOOLEAN /\ Len(client[c].send) <= SendRoom
                         /\ owed[c] \subseteq 1..serial

\* A browser never misses an event without losing its socket, which makes it reconnect and load
\* its views again: a connection that is served, and that no publisher is about to stop, has
\* written, or has queued, each event handed out since it registered, once.
Stopping(c) == client[c].done \/ \E p \in Publishers : publishing[p].full = c
NoSilentGap ==
  \A c \in Clients : client[c].is = "serving" /\ ~Stopping(c) =>
    LET events == client[c].wrote \o client[c].send
    IN IsInjective(events) /\ ToSet(events) = owed[c]

\* What the browser can tell of its connection. Once that is being stopped, what is in its
\* channel has never been sent.
Serving(c) == client[c].is = "serving" /\ ~client[c].done
FeedOf(c) ==
  [is     |-> IF client[c].is = "new" THEN "new"
              ELSE IF ~Serving(c) THEN "closed" ELSE IF Stopping(c) THEN "losing" ELSE "open",
   events |-> IF Serving(c) THEN client[c].wrote \o client[c].send ELSE client[c].wrote]
Feed == INSTANCE EventFeed WITH Events <- 1..MaxEvents, feed <- [c \in Clients |-> FeedOf(c)]

\* No event is missed but by a connection on its way out, none arrives twice or before one that
\* was queued ahead of it, and none after the socket is closed: the hub implements EventFeed.
StreamKept == []NoSilentGap /\ Feed!Spec
=============================================================================
