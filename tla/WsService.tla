------------------------------ MODULE WsService ------------------------------
(***************************************************************************)
(* The outbound WebSocket to the kernel (ws-service.ts), from the start of *)
(* the plugin's runtime to its stop.                                       *)
(*                                                                         *)
(* connect() is a run of awaits that ends in a socket or in a timer; the   *)
(* socket's handlers, the timers and stop() all write the same fields.  So *)
(* nothing here says that there is one run, one socket or one timer: two   *)
(* of each fit in the state, and Lifeline says the second is never used.   *)
(*                                                                         *)
(* The kernel session is the service's own, or, with a map of agents, the  *)
(* one the agent's HTTP client keeps and everything else shares.           *)
(*                                                                         *)
(* Abstractions.  A cookie is good or stale: the kernel ends a session     *)
(* when it likes.  Delays are not modelled, so neither is the number of    *)
(* attempts they grow with.  A frame for the handlers is any message.      *)
(***************************************************************************)
EXTENDS Naturals, FiniteSets

Sockets == {1, 2}
Runs == {1, 2}
NoSocket == 0
Cookies == {"none", "good", "stale"}

VARIABLES
  shared,     \* config.authenticate: the session is the client's
  native,     \* the `ws' package does not load: tokens instead of a cookie header
  phase,      \* of the runtime that owns the service; `stopped' is its last
  ws,         \* the field: the current socket
  cookie,     \* sessionCookie
  run,        \* the runs of connect()
  sock,       \* every socket created and not yet closed
  reconnect,  \* the reconnect timers that run, the field's and overwritten ones
  beat,       \* the socket of heartbeatInterval
  pong,       \* the socket heartbeatTimeout will close
  refresh,    \* authRefreshTimer
  session,    \* the client's sessionCookie
  flight      \* its challenge in progress, `authenticating'

timers == <<reconnect, beat, pong, refresh>>
client == <<session, flight>>
vars == <<shared, native, phase, ws, cookie, run, sock, timers, client>>

NoRun == [pc |-> "idle", with |-> "none", first |-> FALSE]
Gone == [state |-> "none", with |-> "none", prompt |-> FALSE, authed |-> FALSE, silent |-> FALSE]

Open(s) == sock[s].state = "open"
Pending == {r \in Runs : run[r].pc # "idle"}
Live == {s \in Sockets : sock[s].state # "none"}
stopped == phase = "stopped"

TypeOK ==
  /\ native \in BOOLEAN /\ phase \in {"new", "running", "stopped"}
  /\ ws \in Sockets \cup {NoSocket} /\ cookie \in Cookies
  /\ run \in [Runs -> [pc : {"idle", "auth", "import"}, with : Cookies, first : BOOLEAN]]
  /\ sock \in [Sockets -> [state : {"none", "connecting", "open", "closing"}, with : Cookies,
                           prompt : BOOLEAN, authed : BOOLEAN, silent : BOOLEAN]]
  /\ reconnect \in 0..2 /\ refresh \in BOOLEAN
  /\ shared \in BOOLEAN /\ session \in Cookies /\ flight \in BOOLEAN
  /\ {beat, pong} \subseteq Sockets \cup {NoSocket}
  \* The field is the socket in use, and each open one is watched, until stop().
  /\ phase = "running" => \A s \in Sockets : Open(s) => ws = s /\ beat = s

Init ==
  /\ shared \in BOOLEAN /\ native \in BOOLEAN /\ phase = "new"
  /\ ws = NoSocket /\ cookie = "none"
  /\ run = [r \in Runs |-> NoRun] /\ sock = [s \in Sockets |-> Gone]
  /\ reconnect = 0 /\ refresh = FALSE /\ beat = NoSocket /\ pong = NoSocket
  /\ session = "none" /\ flight = FALSE

-----------------------------------------------------------------------------
(* What the handlers share. *)

\* connect: a cached cookie, the service's or the client's, skips the challenge.
Connect(first) ==
  LET cached == IF cookie = "none" /\ shared THEN session ELSE cookie IN
  /\ \E r \in Runs :
       /\ r \notin Pending /\ \A q \in 1..(r - 1) : q \in Pending
       /\ run' = [run EXCEPT ![r] =
            [pc |-> IF cached = "none" THEN "auth" ELSE "import", with |-> cached, first |-> first]]
  /\ cookie' = cached
  /\ flight' = (flight \/ (shared /\ cached = "none")) /\ session' = session

ClearTimers ==
  /\ reconnect' = (IF reconnect = 0 THEN 0 ELSE reconnect - 1) /\ refresh' = FALSE
  /\ beat' = NoSocket /\ pong' = NoSocket

\* Closing is asked for; the close event comes later.
Closing(s) == [sock EXCEPT ![s].state = IF @ = "none" THEN @ ELSE "closing"]
Shut == sock' = IF ws = NoSocket THEN sock ELSE Closing(ws)

InvalidateSession ==
  /\ cookie' = "none" /\ session' = (IF shared THEN "none" ELSE session) /\ flight' = flight

-----------------------------------------------------------------------------
(* connect(). *)

Start ==
  /\ phase = "new" /\ phase' = "running" /\ Connect(TRUE)
  /\ UNCHANGED <<shared, native, ws, sock, timers>>

\* authenticate: the challenge is answered, and the session cached.
Authenticated(r) ==
  /\ ~shared /\ run[r].pc = "auth"
  /\ run' = [run EXCEPT ![r].pc = "import", ![r].with = "good"] /\ cookie' = "good"
  /\ UNCHANGED <<shared, native, phase, ws, sock, timers, client>>

\* A failed challenge or token ends the run in a timer, without a cookie.  The
\* timer of another failure is overwritten, and fires all the same.
Fails(r) ==
  /\ run' = [run EXCEPT ![r] = NoRun] /\ InvalidateSession
  /\ reconnect' = IF stopped THEN reconnect ELSE reconnect + 1
  /\ UNCHANGED <<shared, native, phase, ws, sock, beat, pong, refresh>>
AuthFails(r) == ~shared /\ run[r].pc = "auth" /\ Fails(r)
TokenFails(r) == run[r].pc = "import" /\ native /\ Fails(r)

\* The client's one challenge at a time ends for all who wait for it.
Waiting == {r \in Runs : shared /\ run[r].pc = "auth"}
FlightLands ==
  /\ flight /\ flight' = FALSE /\ session' = "good"
  /\ run' = [r \in Runs |-> IF r \in Waiting
               THEN [run[r] EXCEPT !.pc = "import", !.with = "good"] ELSE run[r]]
  /\ cookie' = IF Waiting = {} THEN cookie ELSE "good"
  /\ UNCHANGED <<shared, native, phase, ws, sock, timers>>
FlightFails ==
  /\ flight /\ flight' = FALSE
  /\ run' = [r \in Runs |-> IF r \in Waiting THEN NoRun ELSE run[r]]
  /\ cookie' = IF Waiting = {} THEN cookie ELSE "none"
  /\ session' = IF Waiting = {} THEN session ELSE "none"
  /\ reconnect' = IF stopped THEN reconnect ELSE reconnect + Cardinality(Waiting)
  /\ UNCHANGED <<shared, native, phase, ws, sock, beat, pong, refresh>>

\* The socket exists and is the current one, whatever was current before.  The
\* runtime that waited for its first connect and was retired stops it again.
Create(r) ==
  /\ run[r].pc = "import" /\ (native => run[r].with = "good")
  /\ run' = [run EXCEPT ![r] = NoRun]
  /\ \E s \in Sockets \ Live :
       /\ \A t \in Sockets \ Live : s <= t
       /\ LET retired == run[r].first /\ stopped IN
          /\ ws' = IF retired THEN NoSocket ELSE s
          /\ sock' = [sock EXCEPT ![s] =
               [state |-> IF retired THEN "closing" ELSE "connecting", with |-> run[r].with,
                prompt |-> native, authed |-> FALSE, silent |-> FALSE]]
          /\ IF retired THEN ClearTimers ELSE UNCHANGED timers
  /\ UNCHANGED <<shared, native, phase, cookie, client>>

-----------------------------------------------------------------------------
(* The socket's handlers. *)

\* open: startHeartbeat clears every timer first.
Opens(s) ==
  /\ sock[s].state = "connecting"
  /\ sock' = [sock EXCEPT ![s].state = "open"]
  /\ beat' = s /\ refresh' = TRUE /\ pong' = NoSocket
  /\ reconnect' = IF reconnect = 0 THEN 0 ELSE reconnect - 1
  /\ UNCHANGED <<shared, native, phase, ws, cookie, run, client>>

\* resetHeartbeatTimeout: any message answers the ping.
Heard(s) == Open(s) /\ ~sock[s].silent /\ pong' = NoSocket

\* `connected': the session is accepted, and the connected handlers run.
Accepted(s) ==
  /\ Heard(s) /\ ~sock[s].authed /\ sock[s].with = "good"
  /\ sock' = [sock EXCEPT ![s].authed = TRUE, ![s].prompt = FALSE]
  /\ UNCHANGED <<shared, native, phase, ws, cookie, run, reconnect, beat, refresh, client>>

\* The prompt every native socket gets ahead of its token's answer.
Prompted(s) ==
  /\ Heard(s) /\ ~sock[s].authed /\ sock[s].prompt
  /\ sock' = [sock EXCEPT ![s].prompt = FALSE]
  /\ UNCHANGED <<shared, native, phase, ws, cookie, run, reconnect, beat, refresh, client>>

\* Variant: only the service's own copy of the cookie is forgotten.
RejectedHere(s) ==
  /\ Heard(s) /\ sock[s].with = "stale"
  /\ cookie' = "none" /\ UNCHANGED client /\ sock' = Closing(s)
  /\ UNCHANGED <<shared, native, phase, ws, run, reconnect, beat, refresh>>
\* Any other prompt or auth error: the cookie is forgotten, this socket closed.
Rejected(s) ==
  /\ Heard(s) /\ sock[s].with = "stale"
  /\ InvalidateSession /\ sock' = Closing(s)
  /\ UNCHANGED <<shared, native, phase, ws, run, reconnect, beat, refresh>>

\* A `pong', a notification, a command: dispatched.
Frame(s) ==
  /\ Heard(s) /\ pong # NoSocket
  /\ UNCHANGED <<shared, native, phase, ws, cookie, run, sock, reconnect, beat, refresh, client>>

\* The close event, asked for or not: the timers and the field are cleared
\* whichever socket it is.
Closed(s) ==
  /\ sock[s].state # "none"
  /\ sock' = [sock EXCEPT ![s] = Gone] /\ ws' = NoSocket
  /\ beat' = NoSocket /\ pong' = NoSocket /\ refresh' = FALSE
  /\ reconnect' = IF stopped THEN 0 ELSE IF reconnect = 0 THEN 1 ELSE reconnect
  /\ UNCHANGED <<shared, native, phase, cookie, run, client>>

-----------------------------------------------------------------------------
(* The timers. *)

ReconnectFires ==
  /\ reconnect > 0 /\ reconnect' = reconnect - 1 /\ Connect(FALSE)
  /\ UNCHANGED <<shared, native, phase, ws, sock, beat, pong, refresh>>

Ping ==
  /\ beat # NoSocket /\ Open(beat) /\ pong = NoSocket /\ pong' = beat
  /\ UNCHANGED <<shared, native, phase, ws, cookie, run, sock, reconnect, beat, refresh, client>>
PongMissed ==
  /\ pong # NoSocket /\ pong' = NoSocket /\ sock' = Closing(pong)
  /\ UNCHANGED <<shared, native, phase, ws, cookie, run, reconnect, beat, refresh, client>>

\* Variant: the refresh connects anew instead of leaving that to the close event.
RefreshReconnects ==
  /\ refresh /\ refresh' = FALSE /\ InvalidateSession /\ Shut /\ reconnect' = reconnect + 1
  /\ UNCHANGED <<shared, native, phase, ws, run, beat, pong>>
\* scheduleAuthRefresh: ahead of the session's end, the socket is given up.
RefreshFires ==
  /\ refresh /\ refresh' = FALSE /\ InvalidateSession /\ Shut
  /\ UNCHANGED <<shared, native, phase, ws, run, reconnect, beat, pong>>

Stop ==
  /\ phase = "running" /\ phase' = "stopped" /\ ClearTimers /\ ws' = NoSocket /\ Shut
  /\ UNCHANGED <<shared, native, cookie, run, client>>

-----------------------------------------------------------------------------
(* The client's other users, the kernel and the network. *)

\* A tool, the preflight, a publisher: authHeaders.
ClientCalls ==
  /\ session = "none" /\ ~flight /\ flight' = TRUE
  /\ UNCHANGED <<shared, native, phase, ws, cookie, run, sock, timers, session>>
\* An hour has passed: the client challenges anew.  No reply makes it do so.
SessionTimesOut ==
  /\ session # "none" /\ session' = "none"
  /\ UNCHANGED <<shared, native, phase, ws, cookie, run, sock, timers, flight>>

\* The kernel ends its sessions, whoever holds their cookies.
Aged(c) == IF c = "good" THEN "stale" ELSE c
SessionEnds ==
  /\ cookie' = Aged(cookie) /\ session' = Aged(session)
  /\ run' = [r \in Runs |-> [run[r] EXCEPT !.with = Aged(@)]]
  /\ sock' = [s \in Sockets |-> [sock[s] EXCEPT !.with = Aged(@)]]
  /\ UNCHANGED <<shared, native, phase, ws, timers, flight>>

\* The peer is gone without a word.
FallsSilent(s) ==
  /\ Open(s) /\ ~sock[s].silent
  /\ sock' = [sock EXCEPT ![s].silent = TRUE]
  /\ UNCHANGED <<shared, native, phase, ws, cookie, run, timers, client>>

Next ==
  \/ Start \/ Stop \/ SessionEnds \/ ClientCalls \/ SessionTimesOut \/ FlightLands \/ FlightFails
  \/ \E r \in Runs : Authenticated(r) \/ AuthFails(r) \/ TokenFails(r) \/ Create(r)
  \/ \E s \in Sockets : Opens(s) \/ Accepted(s) \/ Prompted(s) \/ Rejected(s) \/ Frame(s)
                          \/ Closed(s) \/ FallsSilent(s)
  \/ ReconnectFires \/ Ping \/ PongMissed \/ RefreshFires

Spec == Init /\ [][Next]_vars

\* The host starts what it registered, timers fire, awaits end, a close asked
\* for is carried out and a connecting socket opens or not.  The kernel is not
\* unreachable for ever, answers an open socket, and stops ending sessions.
Fairness ==
  /\ <>[][~SessionEnds]_vars
  /\ WF_vars(Start) /\ WF_vars(ReconnectFires) /\ WF_vars(Ping) /\ WF_vars(PongMissed)
  /\ WF_vars(FlightLands \/ FlightFails) /\ SF_vars(Waiting # {} /\ FlightLands)
  /\ WF_vars(\E r \in Runs : Authenticated(r) \/ AuthFails(r))
  /\ WF_vars(\E r \in Runs : Create(r) \/ TokenFails(r))
  /\ WF_vars(\E s \in Sockets : \/ (sock[s].state = "closing" /\ Closed(s))
                               \/ (sock[s].state = "connecting" /\ (Opens(s) \/ Closed(s))))
  /\ SF_vars(\E r \in Runs : Authenticated(r)) /\ SF_vars(\E r \in Runs : Create(r))
  /\ SF_vars(\E s \in Sockets : Opens(s)) /\ SF_vars(\E s \in Sockets : Accepted(s))
  /\ SF_vars(\E s \in Sockets : Rejected(s))
FairSpec == Spec /\ Fairness

-----------------------------------------------------------------------------
(* Properties. *)

\* Until the service is stopped it has one connect under way, or one reconnect
\* timer, or one socket that is not closed yet: never none, or it would stay
\* offline, and never two, or the kernel's frames would be handled twice.
\* After the stop at most that one is left, and no timer.  (connect,
\* scheduleReconnect, the close handler, stop)
Lifeline ==
  LET ends == Cardinality(Pending) + reconnect + Cardinality(Live) IN
  CASE phase = "new" -> ends = 0
    [] phase = "running" -> ends = 1
    [] OTHER -> ends <= 1 /\ reconnect = 0

\* The service comes back from every fault: a failed challenge or token, a
\* session the kernel ended, a socket refused, closed or gone silent.
Online == ws # NoSocket /\ Open(ws) /\ sock[ws].authed /\ ~sock[ws].silent
Reconnects == phase = "running" ~> (Online \/ stopped)
=============================================================================
