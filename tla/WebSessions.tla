----------------------------- MODULE WebSessions -----------------------------
(***************************************************************************)
(* Browser sessions: create, validate, slide, log out and expire           *)
(* (internal/service/session/service.go and its queries in internal/       *)
(* repository/sqlite/drafts.go), the watcher of an open websocket          *)
(* (transport/http/server.go) and the throttle on wrong keys               *)
(* (transport/http/middleware.go), for one client address.                 *)
(*                                                                         *)
(* Time is a clock of ticks; a watcher is never late for a tick.           *)
(***************************************************************************)
EXTENDS Naturals, SequencesExt, FiniteSetsExt

CONSTANTS
  Logins,      \* sessions, each created once
  Requests,    \* concurrent requests with a cookie
  Sockets,     \* websockets
  IdleTTL, MaxTTL, SessionCheck,   \* idleTTL, maxTTL, wsSessionCheckInterval in ticks
  RateWindow, RateLimit, SweepEvery,
  MaxWait,     \* bound: ticks a request waits for rateMu
  MaxTime      \* bound: the clock

ASSUME WebAssumption ==
  /\ "none" \notin Logins
  /\ IdleTTL \in Nat /\ MaxTTL \in Nat /\ SessionCheck \in Nat
  /\ RateWindow \in Nat /\ RateLimit \in Nat /\ SweepEvery \in Nat /\ MaxWait \in Nat /\ MaxTime \in Nat

VARIABLES
  now,
  row,       \* web_sessions: state, expires_at, absolute_expires_at
  request,   \* requests between lookup and slide: the session
  socket,    \* websockets: session and time of the next check, or closed
  stamps,    \* rate: the address's bucket
  swept,     \* rateSwept
  active,    \* observer: when the owner last used each session
  guesses,   \* observer: wrong keys let through since the last login, while none is late:
  late       \* observer: one of them has waited for rateMu while the clock ticked

webVars == <<now, row, request, socket, stamps, swept, active, guesses, late>>

NoSession == [is |-> "none", idle |-> 0, absolute |-> 0]
NoSocket  == [of |-> "none", due |-> 0]
Least(a, b) == Min({a, b})

\* ValidateSession.
Valid(s) == row[s].is = "live" /\ row[s].idle > now /\ row[s].absolute > now
\* Mutant: the slide is not clamped.
Unclamped(s) == [row EXCEPT ![s].idle = now + IdleTTL]
\* TouchSession, an UPDATE: a row that is gone stays gone, one past its deadline slides.
Touched(s) == IF row[s].is # "live" THEN row
              ELSE [row EXCEPT ![s].idle = Least(now + IdleTTL, row[s].absolute)]

-----------------------------------------------------------------------------
(* Sessions. *)

\* createSession with the right key; the bucket of the address is cleared.
Create(s) ==
  /\ row[s].is = "none"
  /\ row' = [row EXCEPT ![s] = [is |-> "live", idle |-> now + Least(IdleTTL, MaxTTL), absolute |-> now + MaxTTL]]
  /\ active' = [active EXCEPT ![s] = now] /\ stamps' = <<>> /\ guesses' = <<>>
  /\ late' = FALSE /\ UNCHANGED <<now, request, socket, swept>>

\* authenticate: the lookup and the CSRF check; a request that fails either ends here.
Authenticate(r) ==
  /\ request[r] = "none"
  /\ \E s \in Logins : Valid(s) /\ request' = [request EXCEPT ![r] = s]
  /\ UNCHANGED <<now, row, socket, stamps, swept, active, guesses, late>>

\* Mutant: the slide inserts the row when it is not there.
SlideUpserts(r) ==
  /\ request[r] # "none"
  /\ row' = [row EXCEPT ![request[r]] = [@ EXCEPT !.is = "live", !.idle = Least(now + IdleTTL, row[request[r]].absolute)]]
  /\ active' = [active EXCEPT ![request[r]] = now]
  /\ request' = [request EXCEPT ![r] = "none"]
  /\ UNCHANGED <<now, socket, stamps, swept, guesses, late>>
\* Then the slide, which may fail without failing the request.
Slide(r) ==
  /\ request[r] # "none"
  /\ \/ row' = Touched(request[r]) /\ active' = [active EXCEPT ![request[r]] = now]
     \/ UNCHANGED <<row, active>>
  /\ request' = [request EXCEPT ![r] = "none"]
  /\ UNCHANGED <<now, socket, stamps, swept, guesses, late>>

\* deleteSession; the deadline kept with the deleted row is when it ended.
Logout(s) ==
  /\ Valid(s)
  /\ row' = [row EXCEPT ![s].is = "deleted", ![s].idle = Least(@, now)]
  /\ UNCHANGED <<now, request, socket, stamps, swept, active, guesses, late>>

\* DeleteExpiredSessions, from the maintenance tick.
DeleteExpired ==
  /\ \E s \in Logins : row[s].is = "live" /\ ~Valid(s)
  /\ row' = [s \in Logins |-> IF row[s].is = "live" /\ ~Valid(s) THEN [row[s] EXCEPT !.is = "deleted"] ELSE row[s]]
  /\ UNCHANGED <<now, request, socket, stamps, swept, active, guesses, late>>

-----------------------------------------------------------------------------
(* Websockets. *)

\* A request of its session opens it and starts watchSession.
OpenSocket(k) ==
  /\ socket[k] = NoSocket
  /\ \E s \in Logins :
       /\ Valid(s) /\ row' = Touched(s) /\ active' = [active EXCEPT ![s] = now]
       /\ socket' = [socket EXCEPT ![k] = [of |-> s, due |-> now + SessionCheck]]
  /\ UNCHANGED <<now, request, stamps, swept, guesses, late>>

\* Mutant: the watcher asks whether the row is there.
WatchRow(k) ==
  /\ socket[k] # NoSocket /\ socket[k].due = now
  /\ socket' = [socket EXCEPT ![k] = IF row[socket[k].of].is = "live" THEN [@ EXCEPT !.due = now + SessionCheck] ELSE NoSocket]
  /\ UNCHANGED <<now, row, request, stamps, swept, active, guesses, late>>
\* Mutant: the watcher validates as a request does.
WatchValidates(k) ==
  /\ socket[k] # NoSocket /\ socket[k].due = now
  /\ row' = IF Valid(socket[k].of) THEN Touched(socket[k].of) ELSE row
  /\ socket' = [socket EXCEPT ![k] = IF Valid(socket[k].of) THEN [@ EXCEPT !.due = now + SessionCheck] ELSE NoSocket]
  /\ UNCHANGED <<now, request, stamps, swept, active, guesses, late>>
\* Alive, at each tick of the watcher: the deadline is not slid.
Watch(k) ==
  /\ socket[k] # NoSocket /\ socket[k].due = now
  /\ socket' = [socket EXCEPT ![k] = IF Valid(socket[k].of) THEN [@ EXCEPT !.due = now + SessionCheck] ELSE NoSocket]
  /\ UNCHANGED <<now, row, request, stamps, swept, active, guesses, late>>

\* The client goes, or the check itself fails.
CloseSocket(k) ==
  /\ socket[k] # NoSocket /\ socket' = [socket EXCEPT ![k] = NoSocket]
  /\ UNCHANGED <<now, row, request, stamps, swept, active, guesses, late>>

-----------------------------------------------------------------------------
(* allowAttempt, for a wrong key: t is the time read before rateMu is taken. *)

ReadBefore == {t \in 0..now : now - t <= MaxWait}
\* A set of positions in ascending order, and the attempts within the window in theirs.
Ascending(I) == CHOOSE at \in [1..Cardinality(I) -> I] : \A j, k \in 1..Cardinality(I) : j < k => at[j] < at[k]
Within(ts, t) == LET at == Ascending({i \in DOMAIN ts : t - ts[i] < RateWindow}) IN [k \in DOMAIN at |-> ts[at[k]]]
SweepDue(t) == t - swept >= SweepEvery
\* Mutant: the oldest attempt decides whether the bucket is spent.
SpentByFirst(ts, t) == ts = <<>> \/ t - Head(ts) >= RateWindow
Spent(ts, t) == ts = <<>> \/ t - Last(ts) >= RateWindow
\* sweepRate.
Swept(t) == IF SweepDue(t) /\ Spent(stamps, t) THEN <<>> ELSE stamps

WrongKey(t) ==
  /\ swept' = IF SweepDue(t) THEN t ELSE swept
  /\ LET recent == Within(Swept(t), t) IN
       \/ /\ Len(recent) >= RateLimit
          /\ stamps' = recent /\ guesses' = Within(guesses, now) /\ UNCHANGED late
       \/ /\ Len(recent) < RateLimit
          /\ stamps' = Append(recent, t) /\ late' = IF t < now THEN TRUE ELSE late
          /\ guesses' = IF late' THEN <<>> ELSE Append(Within(guesses, now), now)
  /\ UNCHANGED <<now, row, request, socket, active>>

\* A wrong key from another address.
WrongKeyElsewhere(t) ==
  /\ SweepDue(t) /\ swept' = t /\ stamps' = Swept(t)
  /\ UNCHANGED <<now, row, request, socket, active, guesses, late>>

Passes ==
  /\ now < MaxTime /\ \A k \in Sockets : socket[k] = NoSocket \/ socket[k].due > now
  /\ now' = now + 1
  /\ UNCHANGED <<row, request, socket, stamps, swept, active, guesses, late>>

-----------------------------------------------------------------------------
WebInit ==
  /\ now = 0 /\ row = [s \in Logins |-> NoSession] /\ request = [r \in Requests |-> "none"]
  /\ socket = [k \in Sockets |-> NoSocket] /\ stamps = <<>> /\ swept = 0
  /\ active = [s \in Logins |-> 0] /\ guesses = <<>> /\ late = FALSE

WebNext ==
  \/ DeleteExpired \/ Passes
  \/ \E t \in ReadBefore : WrongKey(t) \/ WrongKeyElsewhere(t)
  \/ \E s \in Logins : Create(s) \/ Logout(s)
  \/ \E r \in Requests : Authenticate(r) \/ Slide(r)
  \/ \E k \in Sockets : OpenSocket(k) \/ Watch(k) \/ CloseSocket(k)

WebSpec == WebInit /\ [][WebNext]_webVars

-----------------------------------------------------------------------------
(* Properties. *)

\* Types, and: the idle deadline never passes the absolute one (TouchSession's MIN).
WebTypeOK ==
  /\ now \in 0..MaxTime /\ swept \in 0..now
  /\ \A s \in Logins : /\ row[s].is \in {"none", "live", "deleted"} /\ active[s] \in 0..now
                       /\ row[s].idle <= row[s].absolute /\ row[s].absolute <= now + MaxTTL
  /\ request \in [Requests -> Logins \union {"none"}]
  /\ \A k \in Sockets : socket[k] = NoSocket \/ (socket[k].of \in Logins /\ socket[k].due >= now)

\* A session that its owner leaves alone ends, whatever socket is open on it (Alive: "an open
\* socket would renew its TTL forever").
IdleSessionEnds == \A s \in Logins : Valid(s) => now < active[s] + IdleTTL

\* A socket outlives its session, logged out or expired, by one check at most.
SocketFollowsSession ==
  \A k \in Sockets : socket[k] # NoSocket => now <= row[socket[k].of].idle + SessionCheck

\* A request under way when its session is logged out or swept does not bring it back.
EndedStaysEnded == [][\A s \in Logins : row[s].is = "deleted" => row'[s].is = "deleted"]_webVars

\* A session ends when it should, takes its sockets with it, and stays ended.
SessionsEnd == []IdleSessionEnds /\ []SocketFollowsSession /\ EndedStaysEnded

\* Wrong keys between two logins stay under the limit in every window, sweeps or not. A request
\* that waited for the mutex over a tick voids this until the next login: its stamp is older
\* than its answer, and behind newer ones it makes a bucket look spent. The bucket keeps its
\* bound all the same.
GuessesBounded == Len(stamps) <= RateLimit /\ (~late => Len(Within(guesses, now)) <= RateLimit)
=============================================================================
