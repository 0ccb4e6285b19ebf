--------------------------- MODULE KernelLinkProofs ---------------------------
(***************************************************************************)
(* Proofs about KernelLink: the socket has one lifeline (WsService), and an *)
(* approval and a command go to the gateway once (SessionCommands), for any *)
(* commands, approvals and themes, and any size of the list of seen ids.    *)
(***************************************************************************)
EXTENDS KernelLink, SequenceTheorems, FiniteSetTheorems, TLAPS

-----------------------------------------------------------------------------
(* The socket.                                                              *)

\* Sockets and runs are two of each, so a count is a sum.
One(x, S) == IF x \in S THEN 1 ELSE 0
LEMMA CountOfTwo ==
  ASSUME NEW S \in SUBSET {1, 2}
  PROVE  Cardinality(S) = One(1, S) + One(2, S)
<1>1. Cardinality({}) = 0  BY FS_EmptySet
<1>2. Cardinality({1}) = 1 /\ Cardinality({2}) = 1  BY FS_Singleton
<1>3. Cardinality({1, 2}) = 2
  <2>1. IsFiniteSet({1}) /\ Cardinality({1}) = 1  BY FS_Singleton
  <2>2. Cardinality({1} \cup {2}) = 2  BY <2>1, FS_AddElement
  <2>3. {1} \cup {2} = {1, 2}  OBVIOUS
  <2> QED BY <2>2, <2>3
<1>4. S = {} \/ S = {1} \/ S = {2} \/ S = {1, 2}
  <2>1. S \subseteq {1, 2}  OBVIOUS
  <2> QED BY <2>1
<1>5. 1 # 2 /\ 1 \notin {} /\ 2 \notin {}  OBVIOUS
<1>6. CASE S = {}  BY <1>1, <1>5, <1>6 DEF One
<1>7. CASE S = {1}  BY <1>2, <1>5, <1>7 DEF One
<1>8. CASE S = {2}  BY <1>2, <1>5, <1>8 DEF One
<1>9. CASE S = {1, 2}  BY <1>3, <1>9 DEF One
<1> QED BY <1>4, <1>6, <1>7, <1>8, <1>9

Under(r) == IF run[r].pc = "idle" THEN 0 ELSE 1
There(s) == IF sock[s].state = "none" THEN 0 ELSE 1
Ends == Under(1) + Under(2) + reconnect + There(1) + There(2)

Line ==
  /\ phase = "new" => Ends = 0
  /\ phase = "running" => Ends = 1
  /\ phase = "stopped" => Ends <= 1 /\ reconnect = 0
\* The field is the socket that opens or is open, as long as the service runs.
InUse ==
  phase = "running" => \A s \in Sockets : sock[s].state \in {"connecting", "open"} => ws = s

LEMMA LineIsLifeline == TypeOK => (Line <=> Lifeline)
<1> SUFFICES ASSUME TypeOK PROVE Line <=> Lifeline
  OBVIOUS
<1>1. Pending \in SUBSET {1, 2} /\ Live \in SUBSET {1, 2}  BY DEF Pending, Live, Runs, Sockets
<1>2. Cardinality(Pending) = Under(1) + Under(2)
  BY <1>1, CountOfTwo DEF One, Pending, Under, Runs
<1>3. Cardinality(Live) = There(1) + There(2)
  BY <1>1, CountOfTwo DEF One, Live, There, Sockets
<1>4. phase \in {"new", "running", "stopped"} /\ reconnect \in Nat  BY DEF TypeOK
<1>5. Cardinality(Pending) + reconnect + Cardinality(Live) = Ends
  BY <1>2, <1>3, <1>4 DEF Ends, Under, There
<1> QED BY <1>4, <1>5 DEF Line, Lifeline

\* The states of the runs and sockets.
RunState == [pc : {"idle", "auth", "import"}, with : Cookies, first : BOOLEAN]
SockState == [state : {"none", "connecting", "open", "closing"}, with : Cookies,
              prompt : BOOLEAN, authed : BOOLEAN, silent : BOOLEAN]
Fields ==
  /\ native \in BOOLEAN /\ phase \in {"new", "running", "stopped"}
  /\ ws \in {0, 1, 2} /\ cookie \in Cookies
  /\ reconnect \in 0..2 /\ refresh \in BOOLEAN
  /\ shared \in BOOLEAN /\ session \in Cookies /\ flight \in BOOLEAN
  /\ beat \in {0, 1, 2} /\ pong \in {0, 1, 2}
Watched == phase = "running" => \A s \in Sockets : Open(s) => ws = s /\ beat = s
LEMMA TypeParts == TypeOK <=> /\ Fields /\ run \in [{1, 2} -> RunState]
                              /\ sock \in [{1, 2} -> SockState] /\ Watched
BY DEF TypeOK, Fields, RunState, SockState, Watched, Sockets, Runs, NoSocket

LinkInv == /\ Fields /\ run \in [{1, 2} -> RunState] /\ sock \in [{1, 2} -> SockState] /\ Watched
           /\ Line /\ InUse

LEMMA LinkInit == Init => LinkInv
<1> SUFFICES ASSUME Init PROVE LinkInv
  OBVIOUS
<1> USE DEF Init, Runs, Sockets, NoRun, Gone, NoSocket, Cookies
<1>1. run \in [{1, 2} -> RunState]  BY DEF RunState
<1>2. sock \in [{1, 2} -> SockState]  BY DEF SockState
<1>3. Fields
  <2>1. native \in BOOLEAN /\ shared \in BOOLEAN  BY Zenon
  <2>2. refresh \in BOOLEAN /\ flight \in BOOLEAN  BY Zenon
  <2>3. phase \in {"new", "running", "stopped"} /\ cookie \in Cookies /\ session \in Cookies
    OBVIOUS
  <2>4. ws \in {0, 1, 2} /\ reconnect \in 0..2 /\ beat \in {0, 1, 2} /\ pong \in {0, 1, 2}
    OBVIOUS
  <2> QED BY <2>1, <2>2, <2>3, <2>4, Zenon DEF Fields
<1>4. Watched /\ InUse  BY DEF Watched, InUse
<1>5. Ends = 0  BY DEF Ends, Under, There
<1> QED BY <1>1, <1>2, <1>3, <1>4, <1>5 DEF LinkInv, Line

LEMMA LinkStart == ASSUME LinkInv, Start PROVE LinkInv'
<1> USE DEF Runs, Sockets, NoRun, Gone, NoSocket, Cookies
<1>2. PICK r \in {1, 2} :
        run' = [run EXCEPT ![r] = [pc |-> IF cookie' = "none" THEN "auth" ELSE "import",
                                   with |-> cookie', first |-> TRUE]]
  BY DEF Start, Connect
<1>3. run' \in [{1, 2} -> RunState]  BY <1>2 DEF LinkInv, Fields, RunState, Start, Connect, timers
<1>4. sock' \in [{1, 2} -> SockState]
  BY <1>2 DEF LinkInv, Fields, SockState, Start, Connect, timers
<1>5. Fields'  BY <1>2 DEF LinkInv, Fields, Line, Ends, There, Under, Start, Connect, timers
<1>6. Line'
  BY <1>2 DEF LinkInv, Line, Ends, There, Under, Fields, RunState, SockState, Start, Connect,
     timers
<1>7. InUse' /\ Watched'
  BY <1>2 DEF LinkInv, InUse, Watched, Open, Line, Ends, There, Under, Fields, RunState,
     SockState, Start, Connect, timers
<1> QED BY <1>3, <1>4, <1>5, <1>6, <1>7 DEF LinkInv

LEMMA LinkStop == ASSUME LinkInv, Stop PROVE LinkInv'
<1> USE DEF Runs, Sockets, NoRun, Gone, NoSocket, Cookies
<1>2. reconnect \in 0..2 /\ reconnect' \in 0..2 /\ reconnect' <= reconnect
  BY DEF LinkInv, Fields, Stop, ClearTimers
<1>3. run' \in [{1, 2} -> RunState]
  BY DEF LinkInv, Fields, RunState, Stop, ClearTimers, Shut, Closing, client
<1>4. sock' \in [{1, 2} -> SockState]
  BY DEF LinkInv, Fields, SockState, Stop, ClearTimers, Shut, Closing, client
<1>5. Fields'
  BY <1>2 DEF LinkInv, Fields, Line, Ends, There, Under, Stop, ClearTimers, Shut, Closing, client
<1>6. Line'
  <2>1. Ends = 1 /\ reconnect \in 0..2  BY DEF LinkInv, Line, Fields, Stop
  <2>2. Under(1)' = Under(1) /\ Under(2)' = Under(2)  BY DEF Stop, Under
  <2>3. There(1)' = There(1) /\ There(2)' = There(2)
    BY DEF LinkInv, Fields, SockState, Stop, There, Shut, Closing
  <2>4. reconnect' = 0  BY <2>1 DEF Ends, Under, There, Stop, ClearTimers
  <2>5. Ends' <= 1  BY <2>1, <2>2, <2>3, <2>4 DEF Ends, Under, There
  <2> QED BY <2>4, <2>5 DEF Line, Stop
<1>7. InUse' /\ Watched'
  BY DEF LinkInv, InUse, Watched, Open, Line, Ends, There, Under, Fields, RunState, SockState,
     Stop, ClearTimers, Shut, Closing, client
<1> QED BY <1>3, <1>4, <1>5, <1>6, <1>7 DEF LinkInv

LEMMA LinkSessionEnds == ASSUME LinkInv, SessionEnds PROVE LinkInv'
<1> USE DEF Runs, Sockets, NoRun, Gone, NoSocket, Cookies
<1>3. run' \in [{1, 2} -> RunState]  BY DEF LinkInv, Fields, RunState, SessionEnds, Aged, timers
<1>4. sock' \in [{1, 2} -> SockState]
  BY DEF LinkInv, Fields, SockState, SessionEnds, Aged, timers
<1>5. Fields'  BY DEF LinkInv, Fields, Line, Ends, There, Under, SessionEnds, Aged, timers
<1>6. Line'
  BY DEF LinkInv, Line, Ends, There, Under, Fields, RunState, SockState, SessionEnds, Aged, timers
<1>7. InUse' /\ Watched'
  BY DEF LinkInv, InUse, Watched, Open, Line, Ends, There, Under, Fields, RunState, SockState,
     SessionEnds, Aged, timers
<1> QED BY <1>3, <1>4, <1>5, <1>6, <1>7 DEF LinkInv

LEMMA LinkClientCalls == ASSUME LinkInv, ClientCalls PROVE LinkInv'
<1> USE DEF Runs, Sockets, NoRun, Gone, NoSocket, Cookies
<1>3. run' \in [{1, 2} -> RunState]  BY DEF LinkInv, Fields, RunState, ClientCalls, timers
<1>4. sock' \in [{1, 2} -> SockState]  BY DEF LinkInv, Fields, SockState, ClientCalls, timers
<1>5. Fields'  BY DEF LinkInv, Fields, Line, Ends, There, Under, ClientCalls, timers
<1>6. Line'
  BY DEF LinkInv, Line, Ends, There, Under, Fields, RunState, SockState, ClientCalls, timers
<1>7. InUse' /\ Watched'
  BY DEF LinkInv, InUse, Watched, Open, Line, Ends, There, Under, Fields, RunState, SockState,
     ClientCalls, timers
<1> QED BY <1>3, <1>4, <1>5, <1>6, <1>7 DEF LinkInv

LEMMA LinkSessionTimesOut == ASSUME LinkInv, SessionTimesOut PROVE LinkInv'
<1> USE DEF Runs, Sockets, NoRun, Gone, NoSocket, Cookies
<1>3. run' \in [{1, 2} -> RunState]  BY DEF LinkInv, Fields, RunState, SessionTimesOut, timers
<1>4. sock' \in [{1, 2} -> SockState]  BY DEF LinkInv, Fields, SockState, SessionTimesOut, timers
<1>5. Fields'  BY DEF LinkInv, Fields, Line, Ends, There, Under, SessionTimesOut, timers
<1>6. Line'
  BY DEF LinkInv, Line, Ends, There, Under, Fields, RunState, SockState, SessionTimesOut, timers
<1>7. InUse' /\ Watched'
  BY DEF LinkInv, InUse, Watched, Open, Line, Ends, There, Under, Fields, RunState, SockState,
     SessionTimesOut, timers
<1> QED BY <1>3, <1>4, <1>5, <1>6, <1>7 DEF LinkInv

LEMMA LinkAuthenticated == ASSUME LinkInv, NEW r \in Runs, Authenticated(r) PROVE LinkInv'
<1> USE DEF Runs, Sockets, NoRun, Gone, NoSocket, Cookies
<1>3. run' \in [{1, 2} -> RunState]
  BY DEF LinkInv, Fields, RunState, Authenticated, timers, client
<1>4. sock' \in [{1, 2} -> SockState]
  BY DEF LinkInv, Fields, SockState, Authenticated, timers, client
<1>5. Fields'  BY DEF LinkInv, Fields, Line, Ends, There, Under, Authenticated, timers, client
<1>6. Line'
  BY ZenonT(60) DEF LinkInv, Line, Ends, There, Under, Fields, RunState, SockState, Authenticated, timers,
     client
<1>7. InUse' /\ Watched'
  BY DEF LinkInv, InUse, Watched, Open, Line, Ends, There, Under, Fields, RunState, SockState,
     Authenticated, timers, client
<1> QED BY <1>3, <1>4, <1>5, <1>6, <1>7 DEF LinkInv

LEMMA LinkAuthFails == ASSUME LinkInv, NEW r \in Runs, AuthFails(r) PROVE LinkInv'
<1> USE DEF Runs, Sockets, NoRun, Gone, NoSocket, Cookies
<1>3. run' \in [{1, 2} -> RunState]
  BY DEF LinkInv, Fields, RunState, AuthFails, Fails, InvalidateSession, stopped
<1>4. sock' \in [{1, 2} -> SockState]
  BY DEF LinkInv, Fields, SockState, AuthFails, Fails, InvalidateSession, stopped
<1>5. Fields'
  BY DEF LinkInv, Fields, Line, Ends, There, Under, AuthFails, Fails, InvalidateSession, stopped
<1>6. Line'
  BY DEF LinkInv, Line, Ends, There, Under, Fields, RunState, SockState, AuthFails, Fails,
     InvalidateSession, stopped
<1>7. InUse' /\ Watched'
  BY DEF LinkInv, InUse, Watched, Open, Line, Ends, There, Under, Fields, RunState, SockState,
     AuthFails, Fails, InvalidateSession, stopped
<1> QED BY <1>3, <1>4, <1>5, <1>6, <1>7 DEF LinkInv

LEMMA LinkTokenFails == ASSUME LinkInv, NEW r \in Runs, TokenFails(r) PROVE LinkInv'
<1> USE DEF Runs, Sockets, NoRun, Gone, NoSocket, Cookies
<1>3. run' \in [{1, 2} -> RunState]
  BY DEF LinkInv, Fields, RunState, TokenFails, Fails, InvalidateSession, stopped
<1>4. sock' \in [{1, 2} -> SockState]
  BY DEF LinkInv, Fields, SockState, TokenFails, Fails, InvalidateSession, stopped
<1>5. Fields'
  BY DEF LinkInv, Fields, Line, Ends, There, Under, TokenFails, Fails, InvalidateSession, stopped
<1>6. Line'
  BY DEF LinkInv, Line, Ends, There, Under, Fields, RunState, SockState, TokenFails, Fails,
     InvalidateSession, stopped
<1>7. InUse' /\ Watched'
  BY DEF LinkInv, InUse, Watched, Open, Line, Ends, There, Under, Fields, RunState, SockState,
     TokenFails, Fails, InvalidateSession, stopped
<1> QED BY <1>3, <1>4, <1>5, <1>6, <1>7 DEF LinkInv

LEMMA LinkCreate == ASSUME LinkInv, NEW r \in Runs, Create(r) PROVE LinkInv'
<1> USE DEF Runs, Sockets, NoRun, Gone, NoSocket, Cookies
<1>2. PICK s \in {1, 2} :
        /\ sock[s].state = "none"
        /\ sock' = [sock EXCEPT ![s] =
             [state |-> IF run[r].first /\ stopped THEN "closing" ELSE "connecting",
              with |-> run[r].with, prompt |-> native, authed |-> FALSE, silent |-> FALSE]]
        /\ ws' = IF run[r].first /\ stopped THEN NoSocket ELSE s
  BY DEF Create, Live
<1>3. run' \in [{1, 2} -> RunState]
  BY DEF LinkInv, Fields, RunState, Create, ClearTimers, stopped, Live, timers, client
<1>4. sock' \in [{1, 2} -> SockState]
  BY <1>2 DEF LinkInv, Fields, RunState, SockState, Create, ClearTimers, stopped, Live, timers,
     client
<1>5. Fields'
  <2>1. ws' \in {0, 1, 2}  BY <1>2
  <2>2. reconnect' \in 0..2  BY DEF LinkInv, Fields, Create, ClearTimers, timers
  <2>3. refresh' \in BOOLEAN  BY DEF LinkInv, Fields, Create, ClearTimers, timers
  <2>4. beat' \in {0, 1, 2} /\ pong' \in {0, 1, 2}
    BY DEF LinkInv, Fields, Create, ClearTimers, timers
  <2> QED BY <2>1, <2>2, <2>3, <2>4 DEF LinkInv, Fields, Create, client
<1>6. Line'
  BY DEF LinkInv, Line, Ends, There, Under, Fields, RunState, SockState, Create, ClearTimers,
     stopped, Live, timers, client
<1>7. InUse' /\ Watched'
  BY DEF LinkInv, InUse, Watched, Open, Line, Ends, There, Under, Fields, RunState, SockState,
     Create, ClearTimers, stopped, Live, timers, client
<1> QED BY <1>3, <1>4, <1>5, <1>6, <1>7 DEF LinkInv

LEMMA LinkOpens == ASSUME LinkInv, NEW s \in Sockets, Opens(s) PROVE LinkInv'
<1> USE DEF Runs, Sockets, NoRun, Gone, NoSocket, Cookies
<1>2. reconnect = 0 /\ reconnect' = 0
  BY DEF LinkInv, Fields, Line, Ends, Under, There, RunState, SockState, Opens
<1>3. run' \in [{1, 2} -> RunState]
  BY DEF LinkInv, Fields, RunState, Opens, Heard, Open, client, stopped, Closing,
     InvalidateSession, timers
<1>4. sock' \in [{1, 2} -> SockState]
  BY DEF LinkInv, Fields, SockState, Opens, Heard, Open, client, stopped, Closing,
     InvalidateSession, timers
<1>5. Fields'
  BY <1>2 DEF LinkInv, Fields, Line, Ends, There, Under, Opens, Heard, Open, client, stopped,
     Closing, InvalidateSession, timers
<1>6. Line'
  BY <1>2 DEF LinkInv, Line, Ends, There, Under, Fields, RunState, SockState, Opens, Heard, Open,
     client, stopped, Closing, InvalidateSession, timers
<1>7. InUse' /\ Watched'
  BY DEF LinkInv, InUse, Watched, Open, Line, Ends, There, Under, Fields, RunState, SockState,
     Opens, Heard, Open, client, stopped, Closing, InvalidateSession, timers
<1> QED BY <1>3, <1>4, <1>5, <1>6, <1>7 DEF LinkInv

LEMMA LinkAccepted == ASSUME LinkInv, NEW s \in Sockets, Accepted(s) PROVE LinkInv'
<1> USE DEF Runs, Sockets, NoRun, Gone, NoSocket, Cookies
<1>3. run' \in [{1, 2} -> RunState]
  BY DEF LinkInv, Fields, RunState, Accepted, Heard, Open, client, stopped, Closing,
     InvalidateSession, timers
<1>4. sock' \in [{1, 2} -> SockState]
  BY ZenonT(60) DEF LinkInv, Fields, SockState, Accepted, Heard, Open, client, stopped, Closing,
     InvalidateSession, timers
<1>5. Fields'
  BY DEF LinkInv, Fields, Line, Ends, There, Under, Accepted, Heard, Open, client, stopped,
     Closing, InvalidateSession, timers
<1>6. Line'
  BY DEF LinkInv, Line, Ends, There, Under, Fields, RunState, SockState, Accepted, Heard, Open,
     client, stopped, Closing, InvalidateSession, timers
<1>7. InUse' /\ Watched'
  BY DEF LinkInv, InUse, Watched, Open, Line, Ends, There, Under, Fields, RunState, SockState,
     Accepted, Heard, Open, client, stopped, Closing, InvalidateSession, timers
<1> QED BY <1>3, <1>4, <1>5, <1>6, <1>7 DEF LinkInv

LEMMA LinkPrompted == ASSUME LinkInv, NEW s \in Sockets, Prompted(s) PROVE LinkInv'
<1> USE DEF Runs, Sockets, NoRun, Gone, NoSocket, Cookies
<1>3. run' \in [{1, 2} -> RunState]
  BY DEF LinkInv, Fields, RunState, Prompted, Heard, Open, client, stopped, Closing,
     InvalidateSession, timers
<1>4. sock' \in [{1, 2} -> SockState]
  BY ZenonT(60) DEF LinkInv, Fields, SockState, Prompted, Heard, Open, client, stopped, Closing,
     InvalidateSession, timers
<1>5. Fields'
  BY DEF LinkInv, Fields, Line, Ends, There, Under, Prompted, Heard, Open, client, stopped,
     Closing, InvalidateSession, timers
<1>6. Line'
  BY DEF LinkInv, Line, Ends, There, Under, Fields, RunState, SockState, Prompted, Heard, Open,
     client, stopped, Closing, InvalidateSession, timers
<1>7. InUse' /\ Watched'
  BY DEF LinkInv, InUse, Watched, Open, Line, Ends, There, Under, Fields, RunState, SockState,
     Prompted, Heard, Open, client, stopped, Closing, InvalidateSession, timers
<1> QED BY <1>3, <1>4, <1>5, <1>6, <1>7 DEF LinkInv

LEMMA LinkRejected == ASSUME LinkInv, NEW s \in Sockets, Rejected(s) PROVE LinkInv'
<1> USE DEF Runs, Sockets, NoRun, Gone, NoSocket, Cookies
<1>3. run' \in [{1, 2} -> RunState]
  BY DEF LinkInv, Fields, RunState, Rejected, Heard, Open, client, stopped, Closing,
     InvalidateSession, timers
<1>4. sock' \in [{1, 2} -> SockState]
  BY DEF LinkInv, Fields, SockState, Rejected, Heard, Open, client, stopped, Closing,
     InvalidateSession, timers
<1>5. Fields'
  BY DEF LinkInv, Fields, Line, Ends, There, Under, Rejected, Heard, Open, client, stopped,
     Closing, InvalidateSession, timers
<1>6. Line'
  BY DEF LinkInv, Line, Ends, There, Under, Fields, RunState, SockState, Rejected, Heard, Open,
     client, stopped, Closing, InvalidateSession, timers
<1>7. InUse' /\ Watched'
  BY DEF LinkInv, InUse, Watched, Open, Line, Ends, There, Under, Fields, RunState, SockState,
     Rejected, Heard, Open, client, stopped, Closing, InvalidateSession, timers
<1> QED BY <1>3, <1>4, <1>5, <1>6, <1>7 DEF LinkInv

LEMMA LinkFrame == ASSUME LinkInv, NEW s \in Sockets, Frame(s) PROVE LinkInv'
<1> USE DEF Runs, Sockets, NoRun, Gone, NoSocket, Cookies
<1>3. run' \in [{1, 2} -> RunState]
  BY DEF LinkInv, Fields, RunState, Frame, Heard, Open, client, stopped, Closing,
     InvalidateSession, timers
<1>4. sock' \in [{1, 2} -> SockState]
  BY DEF LinkInv, Fields, SockState, Frame, Heard, Open, client, stopped, Closing,
     InvalidateSession, timers
<1>5. Fields'
  BY DEF LinkInv, Fields, Line, Ends, There, Under, Frame, Heard, Open, client, stopped, Closing,
     InvalidateSession, timers
<1>6. Line'
  BY DEF LinkInv, Line, Ends, There, Under, Fields, RunState, SockState, Frame, Heard, Open,
     client, stopped, Closing, InvalidateSession, timers
<1>7. InUse' /\ Watched'
  BY DEF LinkInv, InUse, Watched, Open, Line, Ends, There, Under, Fields, RunState, SockState,
     Frame, Heard, Open, client, stopped, Closing, InvalidateSession, timers
<1> QED BY <1>3, <1>4, <1>5, <1>6, <1>7 DEF LinkInv

LEMMA LinkClosed == ASSUME LinkInv, NEW s \in Sockets, Closed(s) PROVE LinkInv'
<1> USE DEF Runs, Sockets, NoRun, Gone, NoSocket, Cookies
<1>2. reconnect \in 0..2 /\ reconnect' \in 0..2  BY DEF LinkInv, Fields, Closed, stopped
<1>3. run' \in [{1, 2} -> RunState]
  BY DEF LinkInv, Fields, RunState, Closed, Heard, Open, client, stopped, Closing,
     InvalidateSession, timers
<1>4. sock' \in [{1, 2} -> SockState]
  BY DEF LinkInv, Fields, SockState, Closed, Heard, Open, client, stopped, Closing,
     InvalidateSession, timers
<1>5. Fields'
  BY <1>2 DEF LinkInv, Fields, Line, Ends, There, Under, Closed, Heard, Open, client, stopped,
     Closing, InvalidateSession, timers
<1>6. Line'
  BY DEF LinkInv, Line, Ends, There, Under, Fields, RunState, SockState, Closed, Heard, Open,
     client, stopped, Closing, InvalidateSession, timers
<1>7. InUse' /\ Watched'
  BY DEF LinkInv, InUse, Watched, Open, Line, Ends, There, Under, Fields, RunState, SockState,
     Closed, Heard, Open, client, stopped, Closing, InvalidateSession, timers
<1> QED BY <1>3, <1>4, <1>5, <1>6, <1>7 DEF LinkInv

LEMMA LinkFallsSilent == ASSUME LinkInv, NEW s \in Sockets, FallsSilent(s) PROVE LinkInv'
<1> USE DEF Runs, Sockets, NoRun, Gone, NoSocket, Cookies
<1>3. run' \in [{1, 2} -> RunState]
  BY DEF LinkInv, Fields, RunState, FallsSilent, Heard, Open, client, stopped, Closing,
     InvalidateSession, timers
<1>4. sock' \in [{1, 2} -> SockState]
  BY ZenonT(60) DEF LinkInv, Fields, SockState, FallsSilent, Heard, Open, client, stopped, Closing,
     InvalidateSession, timers
<1>5. Fields'
  BY DEF LinkInv, Fields, Line, Ends, There, Under, FallsSilent, Heard, Open, client, stopped,
     Closing, InvalidateSession, timers
<1>6. Line'
  BY DEF LinkInv, Line, Ends, There, Under, Fields, RunState, SockState, FallsSilent, Heard, Open,
     client, stopped, Closing, InvalidateSession, timers
<1>7. InUse' /\ Watched'
  BY DEF LinkInv, InUse, Watched, Open, Line, Ends, There, Under, Fields, RunState, SockState,
     FallsSilent, Heard, Open, client, stopped, Closing, InvalidateSession, timers
<1> QED BY <1>3, <1>4, <1>5, <1>6, <1>7 DEF LinkInv

LEMMA LinkReconnectFires == ASSUME LinkInv, ReconnectFires PROVE LinkInv'
<1> USE DEF Runs, Sockets, NoRun, Gone, NoSocket, Cookies
<1>2. PICK r \in {1, 2} :
        run' = [run EXCEPT ![r] = [pc |-> IF cookie' = "none" THEN "auth" ELSE "import",
                                   with |-> cookie', first |-> FALSE]]
  BY DEF ReconnectFires, Connect
<1>3. run' \in [{1, 2} -> RunState]
  BY <1>2 DEF LinkInv, Fields, RunState, ReconnectFires, Connect
<1>4. sock' \in [{1, 2} -> SockState]
  BY <1>2 DEF LinkInv, Fields, SockState, ReconnectFires, Connect
<1>5. Fields'  BY <1>2 DEF LinkInv, Fields, Line, Ends, There, Under, ReconnectFires, Connect
<1>6. Line'
  BY <1>2 DEF LinkInv, Line, Ends, There, Under, Fields, RunState, SockState, ReconnectFires,
     Connect
<1>7. InUse' /\ Watched'
  BY <1>2 DEF LinkInv, InUse, Watched, Open, Line, Ends, There, Under, Fields, RunState,
     SockState, ReconnectFires, Connect
<1> QED BY <1>3, <1>4, <1>5, <1>6, <1>7 DEF LinkInv

LEMMA LinkPing == ASSUME LinkInv, Ping PROVE LinkInv'
<1> USE DEF Runs, Sockets, NoRun, Gone, NoSocket, Cookies
<1>3. run' \in [{1, 2} -> RunState]
  BY DEF LinkInv, Fields, RunState, Ping, Open, client, Closing, InvalidateSession, Shut, timers
<1>4. sock' \in [{1, 2} -> SockState]
  BY DEF LinkInv, Fields, SockState, Ping, Open, client, Closing, InvalidateSession, Shut, timers
<1>5. Fields'
  BY DEF LinkInv, Fields, Line, Ends, There, Under, Ping, Open, client, Closing,
     InvalidateSession, Shut, timers
<1>6. Line'
  BY DEF LinkInv, Line, Ends, There, Under, Fields, RunState, SockState, Ping, Open, client,
     Closing, InvalidateSession, Shut, timers
<1>7. InUse' /\ Watched'
  BY DEF LinkInv, InUse, Watched, Open, Line, Ends, There, Under, Fields, RunState, SockState,
     Ping, Open, client, Closing, InvalidateSession, Shut, timers
<1> QED BY <1>3, <1>4, <1>5, <1>6, <1>7 DEF LinkInv

LEMMA LinkPongMissed == ASSUME LinkInv, PongMissed PROVE LinkInv'
<1> USE DEF Runs, Sockets, NoRun, Gone, NoSocket, Cookies
<1>3. run' \in [{1, 2} -> RunState]
  BY DEF LinkInv, Fields, RunState, PongMissed, Open, client, Closing, InvalidateSession, Shut,
     timers
<1>4. sock' \in [{1, 2} -> SockState]
  BY DEF LinkInv, Fields, SockState, PongMissed, Open, client, Closing, InvalidateSession, Shut,
     timers
<1>5. Fields'
  BY DEF LinkInv, Fields, Line, Ends, There, Under, PongMissed, Open, client, Closing,
     InvalidateSession, Shut, timers
<1>6. Line'
  BY DEF LinkInv, Line, Ends, There, Under, Fields, RunState, SockState, PongMissed, Open, client,
     Closing, InvalidateSession, Shut, timers
<1>7. InUse' /\ Watched'
  BY DEF LinkInv, InUse, Watched, Open, Line, Ends, There, Under, Fields, RunState, SockState,
     PongMissed, Open, client, Closing, InvalidateSession, Shut, timers
<1> QED BY <1>3, <1>4, <1>5, <1>6, <1>7 DEF LinkInv

LEMMA LinkRefreshFires == ASSUME LinkInv, RefreshFires PROVE LinkInv'
<1> USE DEF Runs, Sockets, NoRun, Gone, NoSocket, Cookies
<1>3. run' \in [{1, 2} -> RunState]
  BY DEF LinkInv, Fields, RunState, RefreshFires, Open, client, Closing, InvalidateSession, Shut,
     timers
<1>4. sock' \in [{1, 2} -> SockState]
  BY DEF LinkInv, Fields, SockState, RefreshFires, Open, client, Closing, InvalidateSession, Shut,
     timers
<1>5. Fields'
  BY DEF LinkInv, Fields, Line, Ends, There, Under, RefreshFires, Open, client, Closing,
     InvalidateSession, Shut, timers
<1>6. Line'
  BY DEF LinkInv, Line, Ends, There, Under, Fields, RunState, SockState, RefreshFires, Open,
     client, Closing, InvalidateSession, Shut, timers
<1>7. InUse' /\ Watched'
  BY DEF LinkInv, InUse, Watched, Open, Line, Ends, There, Under, Fields, RunState, SockState,
     RefreshFires, Open, client, Closing, InvalidateSession, Shut, timers
<1> QED BY <1>3, <1>4, <1>5, <1>6, <1>7 DEF LinkInv

LEMMA LinkFlightLands == ASSUME LinkInv, FlightLands PROVE LinkInv'
<1> USE DEF Runs, Sockets, NoRun, Gone, NoSocket, Cookies
<1>3. run' \in [{1, 2} -> RunState]
  BY ZenonT(60) DEF LinkInv, Fields, RunState, FlightLands, timers, stopped, Waiting
<1>4. sock' \in [{1, 2} -> SockState]
  BY DEF LinkInv, Fields, SockState, FlightLands, timers, stopped, Waiting
<1>5. Fields'
  BY DEF LinkInv, Fields, Line, Ends, There, Under, FlightLands, timers, stopped, Waiting
<1>6. Line'
  BY DEF LinkInv, Line, Ends, There, Under, Fields, RunState, SockState, FlightLands, timers,
     stopped, Waiting
<1>7. InUse' /\ Watched'
  BY DEF LinkInv, InUse, Watched, Open, Line, Ends, There, Under, Fields, RunState, SockState,
     FlightLands, timers, stopped, Waiting
<1> QED BY <1>3, <1>4, <1>5, <1>6, <1>7 DEF LinkInv

LEMMA LinkFlightFails == ASSUME LinkInv, FlightFails PROVE LinkInv'
<1> USE DEF Runs, Sockets, NoRun, Gone, NoSocket, Cookies
<1>1. Waiting \in SUBSET {1, 2}  BY DEF Waiting
<1>2. Cardinality(Waiting) = One(1, Waiting) + One(2, Waiting)  BY <1>1, CountOfTwo
<1>3. run' \in [{1, 2} -> RunState]
  BY DEF LinkInv, Fields, RunState, FlightFails, timers, stopped, Waiting
<1>4. sock' \in [{1, 2} -> SockState]
  BY DEF LinkInv, Fields, SockState, FlightFails, timers, stopped, Waiting
<1>5. Fields'
  <2>1. reconnect' \in 0..2
    BY <1>2 DEF LinkInv, Fields, Line, Ends, There, Under, RunState, FlightFails, Waiting, One,
       stopped
  <2> QED BY <2>1 DEF LinkInv, Fields, FlightFails
<1>6. Line'
  <2>1. There(1)' = There(1) /\ There(2)' = There(2)  BY DEF FlightFails, There
  <2>2. /\ Under(1)' = Under(1) - One(1, Waiting)
        /\ Under(2)' = Under(2) - One(2, Waiting)
    BY DEF LinkInv, RunState, FlightFails, Under, One, Waiting
  <2>3. reconnect' = IF stopped THEN reconnect ELSE reconnect + One(1, Waiting) + One(2, Waiting)
    BY <1>2 DEF FlightFails, LinkInv, Fields, One
  <2>4. reconnect \in Nat /\ phase' = phase  BY DEF LinkInv, Fields, FlightFails
  <2>5. phase = "stopped" => reconnect' = reconnect  BY <2>3 DEF stopped
  <2>6. phase # "stopped" => Ends' = Ends
    BY <2>1, <2>2, <2>3, <2>4 DEF Ends, Under, There, One, stopped
  <2>7. phase = "stopped" => Ends' <= Ends
    BY <2>1, <2>2, <2>4, <2>5 DEF Ends, Under, There, One
  <2>8. Ends \in Nat /\ Ends' \in Nat
    BY <2>1, <2>2, <2>3, <2>4 DEF Ends, Under, There, One
  <2> QED BY <2>4, <2>5, <2>6, <2>7, <2>8 DEF LinkInv, Line
<1>7. InUse' /\ Watched'
  BY DEF LinkInv, InUse, Watched, Open, Line, Ends, There, Under, Fields, RunState, SockState,
     FlightFails, timers, stopped, Waiting
<1> QED BY <1>3, <1>4, <1>5, <1>6, <1>7 DEF LinkInv

-----------------------------------------------------------------------------
(* The executor of the commands. *)

Steps == {"idle", "signature", "service", "wish", "patched", "attest",
          "exec", "plugin", "rpc", "list", "patch"}
FrameState == [pc : Steps, id : Commands \cup {NoCommand}, grant : BOOLEAN,
               outcome : {"none", "completed", "failed"}, listed : 0..MaxSessions]
Frames ==
  /\ busy \in [{1, 2} -> FrameState]
  /\ \A h \in {1, 2} : /\ busy[h].pc # "idle" => busy[h].id \in Commands
                       /\ busy[h].pc = "attest" => busy[h].outcome # "none"
Memory == seen \in Seq(Commands) /\ Len(seen) <= MaxSeen
Records ==
  /\ claimed \subseteq Approvals /\ pending \subseteq Approvals
  /\ kind \in [Approvals -> {"exec", "plugin"}] /\ conn \in BOOLEAN
  /\ session_ \in 0..MaxSessions /\ tracked \in 0..MaxSessions
  /\ expired \subseteq Commands /\ issued \subseteq Commands
  /\ evicted \subseteq Commands /\ did \subseteq Commands
  /\ told \subseteq Commands \X {"completed", "failed"}
  /\ ran \in [Commands -> Nat] /\ asked \in [Approvals -> Nat]

\* Who is claimed has been asked for, once.
Counted == \A a \in Approvals : asked[a] = One(a, claimed)
\* A command remembered is in the one handler that may run it, or has been run.
Due(h, c) == IF busy[h].pc \in {"service", "wish"} /\ busy[h].id = c THEN 1 ELSE 0
Remembered ==
  \A c \in Commands \ evicted : Due(1, c) + Due(2, c) + ran[c] <= One(c, Rail!ToSet(seen))
\* What is, or is about to be, attested as completed is done.
Sure(h) == busy[h].pc = "patched" \/ (busy[h].pc = "attest" /\ busy[h].outcome = "completed")
Honest ==
  /\ \A h \in {1, 2} : Sure(h) => busy[h].id \in did
  /\ \A c \in Commands : <<c, "completed">> \in told => c \in did

RailInv == Frames /\ Memory /\ Records /\ Counted /\ Remembered /\ Honest

LEMMA RailTypes == RailInv => Rail!TypeOK
BY DEF RailInv, Frames, Memory, Records, FrameState, Steps, Rail!TypeOK, Rail!Handlers,
   Rail!AtGateway

LEMMA RailGoals == RailInv => ApprovalOnce /\ OnceAndAsTold
<1> SUFFICES ASSUME RailInv PROVE ApprovalOnce /\ OnceAndAsTold
  OBVIOUS
<1>1. ApprovalOnce  BY DEF RailInv, Counted, One, ApprovalOnce, Rail!ApprovalOnce
<1>2. ASSUME NEW c \in Commands, ran[c] > 1 PROVE c \in evicted
  BY <1>2 DEF RailInv, Records, Remembered, Due, One
<1>3. ASSUME NEW c \in Commands, <<c, "completed">> \in told PROVE c \in did
  BY <1>3 DEF RailInv, Honest
<1> QED BY <1>1, <1>2, <1>3 DEF OnceAndAsTold, Rail!OnceAndAsTold

LEMMA RailInit == KernelInit => RailInv
<1> SUFFICES ASSUME KernelInit PROVE RailInv
  OBVIOUS
<1> USE CommandsAssumption DEF KernelInit, Rail!Init, Rail!NoFrame, Rail!Handlers
<1>1. Frames  BY DEF Frames, FrameState, Steps
<1>2. Memory  BY DEF Memory
<1>3. Records
  <2>1. kind \in [Approvals -> {"exec", "plugin"}]  OBVIOUS
  <2>2. session_ \in 0..MaxSessions /\ tracked \in 0..MaxSessions  OBVIOUS
  <2>3. ran \in [Commands -> Nat] /\ asked \in [Approvals -> Nat]  OBVIOUS
  <2>4. conn \in BOOLEAN  BY Zenon
  <2> QED BY <2>1, <2>2, <2>3, <2>4 DEF Records
<1>4. Counted  BY DEF Counted, One
<1>5. Remembered
  <2>1. \A c \in Commands : Due(1, c) = 0 /\ Due(2, c) = 0 /\ ran[c] = 0  BY DEF Due
  <2> QED BY <2>1 DEF Remembered, One
<1>6. Honest  BY DEF Honest, Sure
<1> QED BY <1>1, <1>2, <1>3, <1>4, <1>5, <1>6 DEF RailInv

\* A sequence that is extended or loses its first element keeps what it has.
LEMMA Kept ==
  ASSUME NEW S, NEW q \in Seq(S), NEW x \in S
  PROVE  /\ Append(q, x) \in Seq(S) /\ Len(Append(q, x)) = Len(q) + 1
         /\ Rail!ToSet(q) \cup {x} \subseteq Rail!ToSet(Append(q, x))
         /\ q # <<>> => /\ Tail(q) \in Seq(S) /\ Len(Tail(q)) = Len(q) - 1 /\ Head(q) \in S
                        /\ Rail!ToSet(q) \subseteq Rail!ToSet(Tail(q)) \cup {Head(q)}
<1>1. Append(q, x) \in Seq(S) /\ Len(Append(q, x)) = Len(q) + 1  BY AppendProperties
<1>2. ASSUME NEW y \in Rail!ToSet(q) \cup {x} PROVE y \in Rail!ToSet(Append(q, x))
  BY AppendProperties, LenProperties DEF Rail!ToSet
<1>3. ASSUME q # <<>>, NEW y \in Rail!ToSet(q) PROVE y \in Rail!ToSet(Tail(q)) \cup {Head(q)}
  <2>1. PICK i \in 1..Len(q) : y = q[i]  BY LenProperties DEF Rail!ToSet
  <2>2. CASE i = 1  BY <2>1, <2>2
  <2>3. CASE i # 1
    <3>1. i - 1 \in 1..Len(Tail(q)) /\ Tail(q)[i - 1] = q[i]
      BY <1>3, <2>1, <2>3, HeadTailProperties
    <3> QED BY <3>1, <2>1, <1>3, HeadTailProperties, LenProperties DEF Rail!ToSet
  <2> QED BY <2>2, <2>3
<1>4. q # <<>> => Tail(q) \in Seq(S) /\ Len(Tail(q)) = Len(q) - 1 /\ Head(q) \in S
  BY HeadTailProperties
<1> QED BY <1>1, <1>2, <1>3, <1>4

\* What is remembered stays so until it is the oldest.
LEMMA RememberKeeps ==
  ASSUME Memory, Records, NEW c \in Commands, Rail!Remember(c)
  PROVE  /\ Memory' /\ evicted' \subseteq Commands /\ evicted \subseteq evicted'
         /\ Rail!ToSet(seen) \cup {c} \subseteq Rail!ToSet(seen') \cup evicted'
<1> DEFINE all == IF c \in Rail!ToSet(seen) THEN seen ELSE Append(seen, c)
<1>1. /\ all \in Seq(Commands) /\ Len(all) <= MaxSeen + 1
      /\ Rail!ToSet(seen) \cup {c} \subseteq Rail!ToSet(all)
  BY CommandsAssumption, Kept, LenProperties DEF Memory
<1>2. \/ Len(all) > MaxSeen /\ seen' = Tail(all) /\ evicted' = evicted \cup {Head(all)}
      \/ Len(all) <= MaxSeen /\ seen' = all /\ evicted' = evicted
  BY <1>1, CommandsAssumption, LenProperties DEF Rail!Remember
<1> HIDE DEF all
<1>3. CASE Len(all) <= MaxSeen /\ seen' = all /\ evicted' = evicted
  BY <1>1, <1>3 DEF Memory, Records
<1>4. CASE Len(all) > MaxSeen /\ seen' = Tail(all) /\ evicted' = evicted \cup {Head(all)}
  <2>1. all # <<>>  BY <1>1, <1>4, CommandsAssumption, EmptySeq
  <2>2. /\ Tail(all) \in Seq(Commands) /\ Len(Tail(all)) = Len(all) - 1 /\ Head(all) \in Commands
        /\ Rail!ToSet(all) \subseteq Rail!ToSet(Tail(all)) \cup {Head(all)}
    BY <1>1, <2>1, Kept, CommandsAssumption
  <2> QED BY <1>1, <1>4, <2>2, LenProperties, CommandsAssumption DEF Memory, Records
<1> QED BY <1>2, <1>3, <1>4

LEMMA RailReceive ==
  ASSUME RailInv, NEW h \in {1, 2}, NEW c \in Commands, NEW b \in BOOLEAN, Rail!Receive(h, c, b)
  PROVE  RailInv'
<1> USE CommandsAssumption
 DEF Rail!Receive, Rail!environment, Rail!gateway, Rail!history, Rail!At, Rail!Goto,
         Rail!Ends, Rail!Reject, Rail!Completes, Rail!Command, Rail!Handlers, Rail!NoFrame
<1>1. Frames'
  <2>1. 0 \in 0..MaxSessions  OBVIOUS
  <2>2. Rail!NoFrame \in FrameState  BY <2>1 DEF FrameState, Steps
  <2> HIDE DEF Rail!NoFrame
  <2> DEFINE frame == [Rail!NoFrame EXCEPT !.pc = "signature", !.id = c, !.grant = b]
  <2>3. frame \in FrameState /\ frame.pc = "signature" /\ frame.id = c
    BY <2>2 DEF FrameState, Steps
  <2>4. busy' = [busy EXCEPT ![h] = frame]  OBVIOUS
  <2> HIDE DEF frame
  <2> QED BY <2>3, <2>4 DEF RailInv, Frames
<1>2. Memory'  BY DEF RailInv, Memory
<1>3. Records'  BY DEF RailInv, Records, Frames, FrameState
<1>4. Counted'  BY DEF RailInv, Counted, Records, One
<1>5. Remembered'  BY DEF RailInv, Remembered, Records, Frames, FrameState, Due
<1>6. Honest'  BY DEF RailInv, Honest, Frames, FrameState, Sure
<1> QED BY <1>1, <1>2, <1>3, <1>4, <1>5, <1>6 DEF RailInv

LEMMA RailVerified == ASSUME RailInv, NEW h \in {1, 2}, Rail!Verified(h) PROVE RailInv'
<1> USE CommandsAssumption
 DEF Rail!Verified, Rail!environment, Rail!gateway, Rail!history, Rail!At, Rail!Goto,
         Rail!Ends, Rail!Reject, Rail!Completes, Rail!Command, Rail!Handlers, Rail!NoFrame
<1>a. Rail!Command(h) \in Commands  BY DEF RailInv, Frames
<1>b. \/ /\ Rail!Command(h) \notin Rail!ToSet(seen) /\ Rail!Remember(Rail!Command(h))
         /\ busy' = [busy EXCEPT ![h].pc = "service"]
      \/ /\ busy' = [busy EXCEPT ![h].pc = "attest", ![h].outcome = "failed"]
         /\ UNCHANGED <<seen, evicted>>
  OBVIOUS
<1>c. /\ Memory' /\ evicted' \subseteq Commands /\ evicted \subseteq evicted'
      /\ Rail!ToSet(seen) \subseteq Rail!ToSet(seen') \cup evicted'
  <2>1. CASE Rail!Remember(Rail!Command(h))  BY <1>a, <2>1, RememberKeeps DEF RailInv
  <2>2. CASE UNCHANGED <<seen, evicted>>  BY <2>2 DEF RailInv, Memory, Records
  <2> QED BY <1>b, <2>1, <2>2
<1>1. Frames'  BY <1>b DEF RailInv, Frames, FrameState, Steps
<1>2. Memory'  BY <1>c
<1>3. Records'  BY <1>c DEF RailInv, Records
<1>4. Counted'  BY DEF RailInv, Counted, Records, One
<1>5. Remembered'
  <2> SUFFICES ASSUME NEW c \in Commands, c \notin evicted'
               PROVE  Due(1, c)' + Due(2, c)' + ran'[c] <= One(c, Rail!ToSet(seen'))
    BY DEF Remembered
  <2>1. /\ Due(1, c) + Due(2, c) + ran[c] <= One(c, Rail!ToSet(seen)) /\ ran[c] \in Nat
        /\ One(c, Rail!ToSet(seen)) <= One(c, Rail!ToSet(seen'))
    BY <1>c DEF RailInv, Remembered, Records, One
  <2>2. CASE /\ UNCHANGED <<seen, evicted>>
             /\ busy' = [busy EXCEPT ![h].pc = "attest", ![h].outcome = "failed"]
    BY <2>1, <2>2 DEF RailInv, Frames, FrameState, Due, One
  <2>3. CASE /\ Rail!Command(h) \notin Rail!ToSet(seen) /\ Rail!Remember(Rail!Command(h))
             /\ busy' = [busy EXCEPT ![h].pc = "service"]
    <3>1. CASE c # Rail!Command(h)
      BY <2>1, <2>3, <3>1 DEF RailInv, Frames, FrameState, Due, One
    <3>2. CASE c = Rail!Command(h)
      <4>1. One(c, Rail!ToSet(seen)) = 0 /\ One(c, Rail!ToSet(seen')) = 1
        BY <1>a, <2>3, <3>2, RememberKeeps DEF RailInv, One
      <4>2. Due(1, c) = 0 /\ Due(2, c) = 0 /\ ran[c] = 0  BY <2>1, <4>1 DEF Due
      <4>3. Due(1, c)' + Due(2, c)' <= 1  BY <2>3, <4>2 DEF RailInv, Frames, FrameState, Due
      <4> QED BY <4>1, <4>2, <4>3 DEF Due
    <3> QED BY <3>1, <3>2
  <2> QED BY <1>b, <2>2, <2>3
<1>6. Honest'  BY DEF RailInv, Honest, Frames, FrameState, Sure
<1> QED BY <1>1, <1>2, <1>3, <1>4, <1>5, <1>6 DEF RailInv

LEMMA RailServiceOf ==
  ASSUME RailInv, NEW h \in {1, 2}, NEW b \in BOOLEAN, Rail!ServiceOf(h, b)
  PROVE  RailInv'
<1> USE CommandsAssumption
 DEF Rail!ServiceOf, Rail!environment, Rail!gateway, Rail!history, Rail!At, Rail!Goto,
         Rail!Ends, Rail!Reject, Rail!Completes, Rail!Command, Rail!Handlers, Rail!NoFrame
<1>1. Frames'  BY DEF RailInv, Frames, FrameState, Steps
<1>2. Memory'  BY DEF RailInv, Memory
<1>3. Records'  BY DEF RailInv, Records, Frames, FrameState
<1>4. Counted'  BY DEF RailInv, Counted, Records, One
<1>5. Remembered'
  <2>1. \A g \in {1, 2}, c \in Commands : Due(g, c)' <= Due(g, c)
    BY DEF RailInv, Frames, FrameState, Due
  <2> QED BY <2>1 DEF RailInv, Remembered, Records, Due, One
<1>6. Honest'  BY DEF RailInv, Honest, Frames, FrameState, Sure
<1> QED BY <1>1, <1>2, <1>3, <1>4, <1>5, <1>6 DEF RailInv

LEMMA RailCountersigned ==
  ASSUME RailInv, NEW h \in {1, 2}, NEW b \in BOOLEAN, Rail!Countersigned(h, b)
  PROVE  RailInv'
<1> USE CommandsAssumption
 DEF Rail!Countersigned, Rail!environment, Rail!gateway, Rail!history, Rail!At, Rail!Goto,
         Rail!Ends, Rail!Reject, Rail!Completes, Rail!Command, Rail!Handlers, Rail!NoFrame,
         Rail!Execute, Rail!Claim
<1>1. Frames'  BY DEF RailInv, Frames, FrameState, Steps
<1>2. Memory'  BY DEF RailInv, Memory
<1>3. Records'  BY DEF RailInv, Records, Frames, FrameState
<1>4. Counted'  BY DEF RailInv, Counted, Records, One
<1>5. Remembered'
  <2> SUFFICES ASSUME NEW c \in Commands \ evicted
               PROVE  Due(1, c)' + Due(2, c)' + ran'[c] <= One(c, Rail!ToSet(seen))
    BY DEF Remembered
  <2>1. Due(1, c) + Due(2, c) + ran[c] <= One(c, Rail!ToSet(seen)) /\ ran[c] \in Nat
    BY DEF RailInv, Remembered, Records
  <2>2. Due(h, c)' = 0 /\ ran'[c] <= ran[c] + Due(h, c) /\ ran'[c] \in Nat
    BY DEF RailInv, Frames, FrameState, Records, Due
  <2>3. \A g \in {1, 2} : g # h => Due(g, c)' = Due(g, c)
    BY DEF RailInv, Frames, FrameState, Due
  <2>4. \A g \in {1, 2} : Due(g, c) \in Nat  BY DEF Due
  <2>5. One(c, Rail!ToSet(seen)) \in Nat  BY DEF One
  <2> QED BY <2>1, <2>2, <2>3, <2>4, <2>5
<1>6. Honest'  BY DEF RailInv, Honest, Frames, FrameState, Sure
<1> QED BY <1>1, <1>2, <1>3, <1>4, <1>5, <1>6 DEF RailInv

LEMMA RailConnectGateway == ASSUME RailInv, Rail!ConnectGateway PROVE RailInv'
<1> USE CommandsAssumption
 DEF Rail!ConnectGateway, Rail!environment, Rail!gateway, Rail!history, Rail!At, Rail!Goto,
         Rail!Ends, Rail!Reject, Rail!Completes, Rail!Command, Rail!Handlers, Rail!NoFrame
<1>1. Frames'  BY DEF RailInv, Frames, FrameState, Steps
<1>2. Memory'  BY DEF RailInv, Memory
<1>3. Records'  BY DEF RailInv, Records, Frames, FrameState
<1>4. Counted'  BY DEF RailInv, Counted, Records, One
<1>5. Remembered'  BY DEF RailInv, Remembered, Records, Frames, FrameState, Due
<1>6. Honest'  BY DEF RailInv, Honest, Frames, FrameState, Sure
<1> QED BY <1>1, <1>2, <1>3, <1>4, <1>5, <1>6 DEF RailInv

LEMMA RailConnectGatewayFails == ASSUME RailInv, Rail!ConnectGatewayFails PROVE RailInv'
<1> USE CommandsAssumption
 DEF Rail!ConnectGatewayFails, Rail!environment, Rail!gateway, Rail!history, Rail!At,
         Rail!Goto, Rail!Ends, Rail!Reject, Rail!Completes, Rail!Command, Rail!Handlers,
         Rail!NoFrame, Rail!Calls, Rail!Applies, Rail!Resolved, Rail!Waits, Rail!AtGateway
<1>1. Frames'
  <2>1. ASSUME NEW g \in {1, 2} PROVE busy'[g] \in FrameState
    <3>1. busy[g] \in FrameState  BY DEF RailInv, Frames
    <3>2. busy'[g] = busy[g] \/ busy'[g] = [busy[g] EXCEPT !.pc = "attest", !.outcome = "failed"]
      OBVIOUS
    <3> QED BY <3>1, <3>2 DEF FrameState, Steps
  <2>2. busy' = [g \in {1, 2} |-> busy'[g]]  OBVIOUS
  <2>3. \A g \in {1, 2} : /\ busy'[g].pc # "idle" => busy'[g].id \in Commands
                          /\ busy'[g].pc = "attest" => busy'[g].outcome # "none"
    BY DEF RailInv, Frames, FrameState, Steps
  <2> QED BY <2>1, <2>2, <2>3 DEF Frames
<1>2. Memory'  BY DEF RailInv, Memory
<1>3. Records'  BY DEF RailInv, Records, Frames, FrameState
<1>4. Counted'  BY DEF RailInv, Counted, Records, One
<1>5. Remembered'  BY DEF RailInv, Remembered, Records, Frames, FrameState, Due
<1>6. Honest'  BY DEF RailInv, Honest, Frames, FrameState, Sure
<1> QED BY <1>1, <1>2, <1>3, <1>4, <1>5, <1>6 DEF RailInv

LEMMA RailDisposed == ASSUME RailInv, NEW h \in {1, 2}, Rail!Disposed(h) PROVE RailInv'
<1> USE CommandsAssumption
 DEF Rail!Disposed, Rail!environment, Rail!gateway, Rail!history, Rail!At, Rail!Goto,
         Rail!Ends, Rail!Reject, Rail!Completes, Rail!Command, Rail!Handlers, Rail!NoFrame,
         Rail!Calls, Rail!Applies, Rail!Resolved, Rail!Waits, Rail!AtGateway
<1>1. Frames'  BY DEF RailInv, Frames, FrameState, Steps
<1>2. Memory'  BY DEF RailInv, Memory
<1>3. Records'  BY DEF RailInv, Records, Frames, FrameState
<1>4. Counted'  BY DEF RailInv, Counted, Records, One
<1>5. Remembered'  BY DEF RailInv, Remembered, Records, Frames, FrameState, Due
<1>6. Honest'  BY DEF RailInv, Honest, Frames, FrameState, Sure
<1> QED BY <1>1, <1>2, <1>3, <1>4, <1>5, <1>6 DEF RailInv

LEMMA RailList == ASSUME RailInv, NEW h \in {1, 2}, Rail!List(h) PROVE RailInv'
<1> USE CommandsAssumption
 DEF Rail!List, Rail!environment, Rail!gateway, Rail!history, Rail!At, Rail!Goto, Rail!Ends,
         Rail!Reject, Rail!Completes, Rail!Command, Rail!Handlers, Rail!NoFrame, Rail!Calls,
         Rail!Applies, Rail!Resolved, Rail!Waits, Rail!AtGateway
<1>1. Frames'  BY DEF RailInv, Frames, FrameState, Steps
<1>2. Memory'  BY DEF RailInv, Memory
<1>3. Records'  BY DEF RailInv, Records, Frames, FrameState
<1>4. Counted'  BY DEF RailInv, Counted, Records, One
<1>5. Remembered'  BY DEF RailInv, Remembered, Records, Frames, FrameState, Due
<1>6. Honest'  BY DEF RailInv, Honest, Frames, FrameState, Sure
<1> QED BY <1>1, <1>2, <1>3, <1>4, <1>5, <1>6 DEF RailInv

LEMMA RailPatch == ASSUME RailInv, NEW h \in {1, 2}, Rail!Patch(h) PROVE RailInv'
<1> USE CommandsAssumption
 DEF Rail!Patch, Rail!environment, Rail!gateway, Rail!history, Rail!At, Rail!Goto, Rail!Ends,
         Rail!Reject, Rail!Completes, Rail!Command, Rail!Handlers, Rail!NoFrame, Rail!Calls,
         Rail!Applies, Rail!Resolved, Rail!Waits, Rail!AtGateway
<1>1. Frames'  BY DEF RailInv, Frames, FrameState, Steps
<1>2. Memory'  BY DEF RailInv, Memory
<1>3. Records'  BY DEF RailInv, Records, Frames, FrameState
<1>4. Counted'  BY DEF RailInv, Counted, Records, One
<1>5. Remembered'  BY DEF RailInv, Remembered, Records, Frames, FrameState, Due
<1>6. Honest'  BY DEF RailInv, Honest, Frames, FrameState, Sure
<1> QED BY <1>1, <1>2, <1>3, <1>4, <1>5, <1>6 DEF RailInv

LEMMA RailExec ==
  ASSUME RailInv, NEW h \in {1, 2}, NEW b \in BOOLEAN, Rail!Exec(h, b)
  PROVE  RailInv'
<1> USE CommandsAssumption
 DEF Rail!Exec, Rail!environment, Rail!gateway, Rail!history, Rail!At, Rail!Goto, Rail!Ends,
         Rail!Reject, Rail!Completes, Rail!Command, Rail!Handlers, Rail!NoFrame, Rail!Calls,
         Rail!Applies, Rail!Resolved, Rail!Waits, Rail!AtGateway
<1>1. Frames'  BY DEF RailInv, Frames, FrameState, Steps
<1>2. Memory'  BY DEF RailInv, Memory
<1>3. Records'  BY DEF RailInv, Records, Frames, FrameState
<1>4. Counted'  BY DEF RailInv, Counted, Records, One
<1>5. Remembered'  BY DEF RailInv, Remembered, Records, Frames, FrameState, Due
<1>6. Honest'  BY DEF RailInv, Honest, Frames, FrameState, Sure
<1> QED BY <1>1, <1>2, <1>3, <1>4, <1>5, <1>6 DEF RailInv

LEMMA RailPlugin ==
  ASSUME RailInv, NEW h \in {1, 2}, NEW b \in BOOLEAN, Rail!Plugin(h, b)
  PROVE  RailInv'
<1> USE CommandsAssumption
 DEF Rail!Plugin, Rail!environment, Rail!gateway, Rail!history, Rail!At, Rail!Goto,
         Rail!Ends, Rail!Reject, Rail!Completes, Rail!Command, Rail!Handlers, Rail!NoFrame,
         Rail!Calls, Rail!Applies, Rail!Resolved, Rail!Waits, Rail!AtGateway
<1>1. Frames'  BY DEF RailInv, Frames, FrameState, Steps
<1>2. Memory'  BY DEF RailInv, Memory
<1>3. Records'  BY DEF RailInv, Records, Frames, FrameState
<1>4. Counted'  BY DEF RailInv, Counted, Records, One
<1>5. Remembered'  BY DEF RailInv, Remembered, Records, Frames, FrameState, Due
<1>6. Honest'  BY DEF RailInv, Honest, Frames, FrameState, Sure
<1> QED BY <1>1, <1>2, <1>3, <1>4, <1>5, <1>6 DEF RailInv

LEMMA RailPatched ==
  ASSUME RailInv, NEW h \in {1, 2}, NEW b \in BOOLEAN, Rail!Patched(h, b)
  PROVE  RailInv'
<1> USE CommandsAssumption
 DEF Rail!Patched, Rail!environment, Rail!gateway, Rail!history, Rail!At, Rail!Goto,
         Rail!Ends, Rail!Reject, Rail!Completes, Rail!Command, Rail!Handlers, Rail!NoFrame,
         Rail!Calls, Rail!Applies, Rail!Resolved, Rail!Waits, Rail!AtGateway
<1>1. Frames'  BY DEF RailInv, Frames, FrameState, Steps
<1>2. Memory'  BY DEF RailInv, Memory
<1>3. Records'  BY DEF RailInv, Records, Frames, FrameState
<1>4. Counted'  BY DEF RailInv, Counted, Records, One
<1>5. Remembered'  BY DEF RailInv, Remembered, Records, Frames, FrameState, Due
<1>6. Honest'  BY DEF RailInv, Honest, Frames, FrameState, Sure
<1> QED BY <1>1, <1>2, <1>3, <1>4, <1>5, <1>6 DEF RailInv

LEMMA RailAttest ==
  ASSUME RailInv, NEW h \in {1, 2}, NEW b \in BOOLEAN, Rail!Attest(h, b)
  PROVE  RailInv'
<1> USE CommandsAssumption
 DEF Rail!Attest, Rail!environment, Rail!gateway, Rail!history, Rail!At, Rail!Goto,
         Rail!Ends, Rail!Reject, Rail!Completes, Rail!Command, Rail!Handlers, Rail!NoFrame,
         Rail!Calls, Rail!Applies, Rail!Resolved, Rail!Waits, Rail!AtGateway
<1>1. Frames'  BY DEF RailInv, Frames, FrameState, Steps
<1>2. Memory'  BY DEF RailInv, Memory
<1>3. Records'  BY DEF RailInv, Records, Frames, FrameState
<1>4. Counted'  BY DEF RailInv, Counted, Records, One
<1>5. Remembered'  BY DEF RailInv, Remembered, Records, Frames, FrameState, Due
<1>6. Honest'  BY DEF RailInv, Honest, Frames, FrameState, Sure
<1> QED BY <1>1, <1>2, <1>3, <1>4, <1>5, <1>6 DEF RailInv

LEMMA RailSend ==
  ASSUME RailInv, NEW h \in {1, 2}, NEW d \in BOOLEAN, NEW b \in BOOLEAN, Rail!Send(h, d, b)
  PROVE  RailInv'
<1> USE CommandsAssumption
 DEF Rail!Send, Rail!environment, Rail!gateway, Rail!history, Rail!At, Rail!Goto, Rail!Ends,
         Rail!Reject, Rail!Completes, Rail!Command, Rail!Handlers, Rail!NoFrame, Rail!Calls,
         Rail!Applies, Rail!Resolved, Rail!Waits, Rail!AtGateway
<1>1. Frames'  BY DEF RailInv, Frames, FrameState, Steps
<1>2. Memory'  BY DEF RailInv, Memory
<1>3. Records'  BY DEF RailInv, Records, Frames, FrameState
<1>4. Counted'  BY DEF RailInv, Counted, Records, One
<1>5. Remembered'  BY DEF RailInv, Remembered, Records, Frames, FrameState, Due
<1>6. Honest'  BY DEF RailInv, Honest, Frames, FrameState, Sure
<1> QED BY <1>1, <1>2, <1>3, <1>4, <1>5, <1>6 DEF RailInv

LEMMA RailBridgeResolves ==
  ASSUME RailInv, NEW a \in Approvals, Rail!BridgeResolves(a)
  PROVE  RailInv'
<1> USE CommandsAssumption
 DEF Rail!BridgeResolves, Rail!environment, Rail!gateway, Rail!history, Rail!At, Rail!Goto,
         Rail!Ends, Rail!Reject, Rail!Completes, Rail!Command, Rail!Handlers, Rail!NoFrame,
         Rail!Claim
<1>1. Frames'  BY DEF RailInv, Frames, FrameState, Steps
<1>2. Memory'  BY DEF RailInv, Memory
<1>3. Records'  BY DEF RailInv, Records, Frames, FrameState
<1>4. Counted'  BY DEF RailInv, Counted, Records, One
<1>5. Remembered'  BY DEF RailInv, Remembered, Records, Frames, FrameState, Due
<1>6. Honest'  BY DEF RailInv, Honest, Frames, FrameState, Sure
<1> QED BY <1>1, <1>2, <1>3, <1>4, <1>5, <1>6 DEF RailInv

LEMMA RailElsewhere == ASSUME RailInv, NEW a \in Approvals, Rail!Elsewhere(a) PROVE RailInv'
<1> USE CommandsAssumption
 DEF Rail!Elsewhere, Rail!environment, Rail!gateway, Rail!history, Rail!At, Rail!Goto,
         Rail!Ends, Rail!Reject, Rail!Completes, Rail!Command, Rail!Handlers, Rail!NoFrame
<1>1. Frames'  BY DEF RailInv, Frames, FrameState, Steps
<1>2. Memory'  BY DEF RailInv, Memory
<1>3. Records'  BY DEF RailInv, Records, Frames, FrameState
<1>4. Counted'  BY DEF RailInv, Counted, Records, One
<1>5. Remembered'  BY DEF RailInv, Remembered, Records, Frames, FrameState, Due
<1>6. Honest'  BY DEF RailInv, Honest, Frames, FrameState, Sure
<1> QED BY <1>1, <1>2, <1>3, <1>4, <1>5, <1>6 DEF RailInv

LEMMA RailExpires == ASSUME RailInv, NEW c \in Commands, Rail!Expires(c) PROVE RailInv'
<1> USE CommandsAssumption
 DEF Rail!Expires, Rail!environment, Rail!gateway, Rail!history, Rail!At, Rail!Goto,
         Rail!Ends, Rail!Reject, Rail!Completes, Rail!Command, Rail!Handlers, Rail!NoFrame
<1>1. Frames'  BY DEF RailInv, Frames, FrameState, Steps
<1>2. Memory'  BY DEF RailInv, Memory
<1>3. Records'  BY DEF RailInv, Records, Frames, FrameState
<1>4. Counted'  BY DEF RailInv, Counted, Records, One
<1>5. Remembered'  BY DEF RailInv, Remembered, Records, Frames, FrameState, Due
<1>6. Honest'  BY DEF RailInv, Honest, Frames, FrameState, Sure
<1> QED BY <1>1, <1>2, <1>3, <1>4, <1>5, <1>6 DEF RailInv

LEMMA RailReplaced == ASSUME RailInv, Rail!Replaced PROVE RailInv'
<1> USE CommandsAssumption
 DEF Rail!Replaced, Rail!environment, Rail!gateway, Rail!history, Rail!At, Rail!Goto,
         Rail!Ends, Rail!Reject, Rail!Completes, Rail!Command, Rail!Handlers, Rail!NoFrame
<1>1. Frames'  BY DEF RailInv, Frames, FrameState, Steps
<1>2. Memory'  BY DEF RailInv, Memory
<1>3. Records'  BY DEF RailInv, Records, Frames, FrameState
<1>4. Counted'  BY DEF RailInv, Counted, Records, One
<1>5. Remembered'  BY DEF RailInv, Remembered, Records, Frames, FrameState, Due
<1>6. Honest'  BY DEF RailInv, Honest, Frames, FrameState, Sure
<1> QED BY <1>1, <1>2, <1>3, <1>4, <1>5, <1>6 DEF RailInv

LEMMA RailSessionStarts == ASSUME RailInv, Rail!SessionStarts PROVE RailInv'
<1> USE CommandsAssumption
 DEF Rail!SessionStarts, Rail!environment, Rail!gateway, Rail!history, Rail!At, Rail!Goto,
         Rail!Ends, Rail!Reject, Rail!Completes, Rail!Command, Rail!Handlers, Rail!NoFrame
<1>1. Frames'  BY DEF RailInv, Frames, FrameState, Steps
<1>2. Memory'  BY DEF RailInv, Memory
<1>3. Records'  BY DEF RailInv, Records, Frames, FrameState
<1>4. Counted'  BY DEF RailInv, Counted, Records, One
<1>5. Remembered'  BY DEF RailInv, Remembered, Records, Frames, FrameState, Due
<1>6. Honest'  BY DEF RailInv, Honest, Frames, FrameState, Sure
<1> QED BY <1>1, <1>2, <1>3, <1>4, <1>5, <1>6 DEF RailInv

-----------------------------------------------------------------------------
(* The two together. *)

KernelInv == LinkInv /\ RailInv

LEMMA RailUnmoved == ASSUME RailInv, UNCHANGED railVars PROVE RailInv'
<1> USE DEF railVars
<1>1. Frames' /\ Memory' /\ Records' /\ Counted'
  BY DEF RailInv, Frames, Memory, Records, Counted
<1>2. Remembered' /\ Honest'  BY DEF RailInv, Remembered, Due, Honest, Sure
<1> QED BY <1>1, <1>2 DEF RailInv

LEMMA LinkUnmoved == ASSUME LinkInv, UNCHANGED vars PROVE LinkInv'
BY DEF vars, timers, client, LinkInv, Fields, Watched, Open, Line, Ends, Under, There, InUse

LEMMA LinkMoves == ASSUME LinkInv, Next PROVE LinkInv'
BY LinkStart, LinkStop, LinkSessionEnds, LinkClientCalls, LinkSessionTimesOut, LinkFlightLands,
   LinkFlightFails, LinkAuthenticated, LinkAuthFails, LinkTokenFails, LinkCreate, LinkOpens,
   LinkAccepted, LinkPrompted, LinkRejected, LinkFrame, LinkClosed, LinkFallsSilent,
   LinkReconnectFires, LinkPing, LinkPongMissed, LinkRefreshFires DEF Next

LEMMA RailMoves == ASSUME RailInv, Rail!Step PROVE RailInv'
<1> USE DEF Rail!Handlers
<1>1. ASSUME NEW h \in {1, 2}, NEW c \in Commands, NEW b \in BOOLEAN, Rail!Receive(h, c, b)
      PROVE  RailInv'
  BY <1>1, RailReceive
<1>2. ASSUME NEW h \in {1, 2},
             Rail!Verified(h) \/ Rail!Disposed(h) \/ Rail!List(h) \/ Rail!Patch(h)
      PROVE  RailInv'
  BY <1>2, RailVerified, RailDisposed, RailList, RailPatch
<1>3. ASSUME NEW h \in {1, 2}, NEW b \in BOOLEAN,
             \/ Rail!ServiceOf(h, b) \/ Rail!Countersigned(h, b) \/ Rail!Exec(h, b)
             \/ Rail!Plugin(h, b) \/ Rail!Patched(h, b) \/ Rail!Attest(h, b)
             \/ \E d \in BOOLEAN : Rail!Send(h, d, b)
      PROVE  RailInv'
  BY <1>3, RailServiceOf, RailCountersigned, RailExec, RailPlugin, RailPatched, RailAttest,
     RailSend
<1>4. ASSUME \/ Rail!ConnectGateway \/ Rail!ConnectGatewayFails \/ Rail!Replaced
             \/ Rail!SessionStarts
             \/ \E a \in Approvals : Rail!BridgeResolves(a) \/ Rail!Elsewhere(a)
             \/ \E c \in Commands : Rail!Expires(c)
      PROVE  RailInv'
  BY <1>4, RailConnectGateway, RailConnectGatewayFails, RailReplaced, RailSessionStarts,
     RailBridgeResolves, RailElsewhere, RailExpires
<1> QED BY <1>1, <1>2, <1>3, <1>4 DEF Rail!Step

LEMMA KernelStarts == KernelInit => KernelInv
BY LinkInit, RailInit DEF KernelInit, KernelInv

LEMMA KernelMoves == ASSUME KernelInv, [KernelNext]_allVars PROVE KernelInv'
<1>1. CASE LinkStep
  <2>1. Next \/ Plain  BY <1>1 DEF LinkStep
  <2>2. Plain => Next  BY DEF Plain, Next
  <2> QED BY <1>1, <2>1, <2>2, LinkMoves, RailUnmoved DEF LinkStep, KernelInv
<1>2. CASE RailStep  BY <1>2, RailMoves, LinkUnmoved DEF RailStep, KernelInv
<1>3. CASE UNCHANGED allVars  BY <1>3, RailUnmoved, LinkUnmoved DEF allVars, KernelInv
<1> QED BY <1>1, <1>2, <1>3 DEF KernelNext

LEMMA KernelHolds == KernelSpec => []KernelInv
BY KernelStarts, KernelMoves, PTL DEF KernelSpec

\* The variables of the socket and of the executor keep their types, and as long as
\* the service runs an open socket is the current one and has the heartbeat.
\* (ws-service.ts, session-commands.ts)
THEOREM KernelTypeCorrect == KernelSpec => [](TypeOK /\ Rail!TypeOK)
<1>1. KernelInv => TypeOK /\ Rail!TypeOK
  BY TypeParts, RailTypes DEF KernelInv, LinkInv
<1> QED BY <1>1, KernelHolds, PTL

\* The service that runs has one run of connect(), reconnect timer or socket; the
\* stopped one at most one, and no timer, whatever fails and however the close
\* events, timers and the client's shared challenge interleave.  (connect,
\* scheduleReconnect, the close handler, stop)
THEOREM OneLifeline == KernelSpec => []Lifeline
<1>1. KernelInv => Lifeline  BY TypeParts, LineIsLifeline DEF KernelInv, LinkInv
<1> QED BY <1>1, KernelHolds, PTL

\* An approval goes to the gateway at most once.  (ApprovalExecutionRegistry.claim)
THEOREM AskedOnce == KernelSpec => []ApprovalOnce
<1>1. KernelInv => ApprovalOnce  BY RailGoals DEF KernelInv
<1> QED BY <1>1, KernelHolds, PTL

\* A command remembered comes to the gateway once, and is attested as completed only
\* when it is done, for any size of the memory.  (verify, attest)
THEOREM RunOnceAndAsTold == KernelSpec => []OnceAndAsTold
<1>1. KernelInv => OnceAndAsTold  BY RailGoals DEF KernelInv
<1> QED BY <1>1, KernelHolds, PTL
=============================================================================
