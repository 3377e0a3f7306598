----------------------------- MODULE EventFeed -----------------------------
(***************************************************************************)
(* What the hub promises a browser about one connection, with publishers,  *)
(* locks and channels hidden.  While the connection is open the browser    *)
(* is told every event, each once and at the end of those before it.  One  *)
(* that misses an event is losing: it may be told more, with a gap, but    *)
(* the only way out is that it closes, and then the browser reconnects     *)
(* and reloads.  When it closes, what was on its way is cut at some event. *)
(***************************************************************************)
EXTENDS Naturals, Sequences

CONSTANTS Clients, Events

VARIABLE feed   \* per connection: new, open, losing or closed, and its events in order

Init == feed = [c \in Clients |-> [is |-> "new", events |-> <<>>]]

Connected(c) ==
  /\ feed[c].is = "new"
  /\ feed' = [feed EXCEPT ![c].is = "open"]

Told(c, e) ==
  /\ feed[c].is \in {"open", "losing"}
  /\ \A i \in DOMAIN feed[c].events : feed[c].events[i] # e
  /\ feed' = [feed EXCEPT ![c].events = Append(@, e)]

Missed(c) ==
  /\ feed[c].is = "open"
  /\ feed' = [feed EXCEPT ![c].is = "losing"]

Closed(c) ==
  /\ feed[c].is \in {"open", "losing"}
  /\ \E n \in 0..Len(feed[c].events) :
       feed' = [feed EXCEPT ![c] = [is |-> "closed", events |-> SubSeq(@.events, 1, n)]]

Next == \E c \in Clients : Connected(c) \/ Missed(c) \/ Closed(c) \/ \E e \in Events : Told(c, e)

feedVars == <<feed>>

Spec == Init /\ [][Next]_feedVars
=============================================================================
