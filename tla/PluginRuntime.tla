---------------------------- MODULE PluginRuntime ----------------------------
(***************************************************************************)
(* The life of the plugin's registrations in one process                   *)
(* (registration-lifecycle.ts, plugin-service-runtime.ts), what each opens *)
(* when its service starts (index.ts, agent-plugin.ts, gateway-features.ts)*)
(* and the start of its approvals bridge (gateway-approvals-bridge.ts).    *)
(*                                                                         *)
(* The host builds several registries and starts some of them.  A start    *)
(* retires the registration before it, at any of that one's awaits; a step *)
(* that comes back to a retired registration must leave nothing open.  The *)
(* hooks of every registry reach the registration that was started, and    *)
(* the decisions that the kernel pushes while the bridge of that one is    *)
(* still starting are read again when it is ready.                         *)
(*                                                                         *)
(* The socket is the WsService of its own module, seen from outside: a     *)
(* reconnect that a stop finds under way makes a socket all the same.  The *)
(* first tick of the five-minute check is taken to come after the start of *)
(* the bridge.                                                             *)
(***************************************************************************)
EXTENDS Naturals, Sequences

CONSTANTS
  Registries,   \* PluginServiceRuntime objects, each in "full" mode
  Mapped,       \* those that have an agent map (agent-plugin.ts)
  Sources,      \* enabled approval sources
  Frames,       \* decisions the kernel pushes
  Events,       \* hook events of the host
  MaxDrops,     \* how often a registration's socket is lost, or not made
  None

ASSUME RuntimeAssumption ==
  /\ Mapped \subseteq Registries /\ MaxDrops \in Nat
  /\ None \notin Registries \cup Sources

VARIABLES
  cur,      \* the process's registration, by its registry
  reg,      \* registry -> its life cycle and what its setup has opened
  bridge,   \* registry -> its approvals bridge, and the start of that
  logged, landed,   \* frames in the kernel's log; those a bridge has looked at
  drops,
  event     \* hook event -> where it is in its round of the registries

rtVars == <<cur, reg, bridge, logged, landed, drops, event>>

------------------------------------------------------------------------------
\* What a setup opens, in its order.  "bridge" is only set off.
FileParts == <<"discovery", "sessions", "horizon", "socket", "injector", "reach", "bridge">>
AgentParts == <<"socket", "horizon", "bridge", "injector", "reach", "discovery">>
PartsOf(r) == IF r \in Mapped THEN AgentParts ELSE FileParts
\* What is closed by a promise that the life cycle waits for.
Promised(r) == IF r \in Mapped THEN {"injector", "horizon"} ELSE {"injector"}

\* `late' is history: there still is the reconnect that the retirement found under
\* way, or the socket it made.
Unborn == [life |-> "none", step |-> "none", open |-> {}, drains |-> {}, stops |-> FALSE,
           hooks |-> "none", sock |-> "off", dials |-> FALSE, redials |-> FALSE, late |-> FALSE]
\* `owed' and `failed' are history: what was pushed before there was a handler,
\* and that the last reading of the log failed.
Unbuilt == [step |-> "none", src |-> None, todo |-> {}, conns |-> {}, sources |-> {},
            works |-> FALSE, waits |-> FALSE, sync |-> "idle", owed |-> {}, failed |-> FALSE]

Active(r) == reg[r].life = "active"
\* PluginServiceRuntime.owner()
Owner == IF cur # None /\ Active(cur) THEN cur ELSE None

\* dispose: the signal, then the disposers, the last first.
Retired(r, x) ==
  [x EXCEPT !.life = "aborted", !.open = {}, !.drains = @ \cup (x.open \cap Promised(r)),
            !.hooks = "none", !.sock = "off", !.late = x.redials]
\* What the signal does to the bridge.
Abandoned(b) == [b EXCEPT !.conns = {}, !.works = FALSE]

RtInit ==
  /\ cur = None /\ reg = [r \in Registries |-> Unborn]
  /\ bridge = [r \in Registries |-> Unbuilt]
  /\ logged = {} /\ landed = {} /\ drops = 0
  /\ event = [e \in Events |-> [left |-> {}, emitted |-> FALSE, seen |-> FALSE,
                                by |-> 0, due |-> None]]

SetReg(r, x) == reg' = [reg EXCEPT ![r] = x]
SetBridge(r, b) == bridge' = [bridge EXCEPT ![r] = b]

------------------------------------------------------------------------------
(* start and stop of the service. *)

Started(x) == [x EXCEPT !.life = "active", !.step = "queued"]

\* A second start of the same runtime changes nothing, after a stop too.
Start(r) ==
  /\ reg[r].life = "none"
  /\ cur' = r
  /\ reg' = [q \in Registries |-> IF q = r THEN Started(reg[q])
                                  ELSE IF q = Owner THEN Retired(q, reg[q]) ELSE reg[q]]
  /\ bridge' = [q \in Registries |-> IF q = Owner THEN Abandoned(bridge[q]) ELSE bridge[q]]
  /\ UNCHANGED <<logged, landed, drops, event>>

Stop(r) ==
  /\ reg[r].life # "none" /\ ~reg[r].stops
  /\ reg' = [reg EXCEPT ![r] = [(IF Active(r) THEN Retired(r, @) ELSE @) EXCEPT !.stops = TRUE]]
  /\ bridge' = [bridge EXCEPT ![r] = IF Active(r) THEN Abandoned(@) ELSE @]
  /\ UNCHANGED <<cur, logged, landed, drops, event>>

\* The promise of a disposer settles, well or with an error that is logged.
Drains(r) ==
  /\ \E p \in reg[r].drains : SetReg(r, [reg[r] EXCEPT !.drains = @ \ {p}])
  /\ UNCHANGED <<cur, bridge, logged, landed, drops, event>>

StopReturns(r) ==
  /\ reg[r].stops /\ reg[r].drains = {}
  /\ SetReg(r, [reg[r] EXCEPT !.stops = FALSE])
  /\ UNCHANGED <<cur, bridge, logged, landed, drops, event>>

------------------------------------------------------------------------------
(* The setup. *)

\* startGatewayApprovalsBridge up to its first await.
BridgeBegun(b) == [b EXCEPT !.step = "secrets", !.todo = Sources]

\* One run of the setup to its end, or to an error after the first n parts.
Build(r, n) ==
  LET parts == {PartsOf(r)[i] : i \in 1..n}
      whole == n = Len(PartsOf(r))
  IN /\ SetReg(r, [reg[r] EXCEPT !.open = parts \ {"bridge"}, !.step = IF whole THEN "starting" ELSE "failing",
                                 !.hooks = IF whole THEN "all" ELSE "some",
                                 !.sock = IF whole THEN "connecting" ELSE "off", !.dials = whole])
     /\ SetBridge(r, IF "bridge" \in parts THEN BridgeBegun(bridge[r]) ELSE bridge[r])

\* The microtask of start().  An agent map first waits for its identities, with
\* the hooks of the default model in place.
Setup(r) ==
  /\ reg[r].step = "queued"
  /\ \/ /\ ~Active(r) /\ SetReg(r, [reg[r] EXCEPT !.step = "done"]) /\ UNCHANGED bridge
     \/ /\ Active(r) /\ r \in Mapped
        /\ SetReg(r, [reg[r] EXCEPT !.step = "preparing", !.hooks = "some"]) /\ UNCHANGED bridge
     \/ /\ Active(r) /\ r \notin Mapped
        /\ \E n \in 1..Len(PartsOf(r)) : Build(r, n)
  /\ UNCHANGED <<cur, logged, landed, drops, event>>

Prepared(r) ==
  /\ reg[r].step = "preparing"
  /\ IF Active(r) THEN \E n \in 1..Len(PartsOf(r)) : Build(r, n)
     ELSE SetReg(r, [reg[r] EXCEPT !.step = "done"]) /\ UNCHANGED bridge
  /\ UNCHANGED <<cur, logged, landed, drops, event>>

\* The catch of start(): what was opened is disposed of.
SetupFails(r) ==
  /\ reg[r].step = "failing"
  /\ SetReg(r, [(IF Active(r) THEN Retired(r, reg[r]) ELSE reg[r]) EXCEPT !.step = "done"])
  /\ SetBridge(r, IF Active(r) THEN Abandoned(bridge[r]) ELSE bridge[r])
  /\ UNCHANGED <<cur, logged, landed, drops, event>>

\* A socket is lost, or not made: unless the service is stopped a timer is set to
\* make it again.
Again(r) == IF Active(r) THEN "lost" ELSE "off"
Drops(r) == IF Active(r) THEN drops < MaxDrops /\ drops' = drops + 1 ELSE UNCHANGED drops

\* ws.start() returns.  Its connect may have made a socket after the stop, so
\* it is stopped again.
Dialed(r) == IF Active(r) THEN "made" ELSE "off"
ConnectLands(r) ==
  /\ reg[r].dials
  /\ \E s \in {Dialed(r), Again(r)} :
       /\ SetReg(r, [reg[r] EXCEPT !.dials = FALSE, !.step = "done", !.sock = s])
       /\ IF s = "lost" THEN Drops(r) ELSE UNCHANGED drops
  /\ UNCHANGED <<cur, bridge, logged, landed, event>>

------------------------------------------------------------------------------
(* The start of the approvals bridge.  Every await may find it retired. *)

\* It returns without a bridge, and disposes of what is not disposed of already.
Ends(r, b) == [(IF Active(r) THEN Abandoned(b) ELSE b) EXCEPT !.step = "gone", !.src = None, !.todo = {}]

\* The credentials are resolved, or missing.
Secrets(r) ==
  /\ bridge[r].step = "secrets"
  /\ \/ Active(r) /\ SetBridge(r, [bridge[r] EXCEPT !.step = "loading"])
     \/ SetBridge(r, Ends(r, bridge[r]))
  /\ UNCHANGED <<cur, reg, logged, landed, drops, event>>

\* The next source, or the bridge when there is none: it sets its timers, then
\* waits for the preflight.
NextSource(r, b) ==
  IF Active(r) /\ b.todo # {}
  THEN \E s \in b.todo :
         SetBridge(r, [b EXCEPT !.step = "creating", !.src = s, !.todo = @ \ {s}])
  ELSE IF Active(r) /\ b.sources # {}
  THEN SetBridge(r, [b EXCEPT !.step = "preflight", !.src = None, !.works = TRUE])
  ELSE SetBridge(r, Ends(r, b))

\* The state and cursor files are read.
Loaded(r) ==
  /\ bridge[r].step = "loading"
  /\ NextSource(r, bridge[r])
  /\ UNCHANGED <<cur, reg, logged, landed, drops, event>>

\* The connection object is made: it is owned before it is started, or dropped.
Created(r) ==
  /\ bridge[r].step = "creating"
  /\ \/ /\ Active(r)
        /\ SetBridge(r, [bridge[r] EXCEPT !.step = "connecting", !.conns = @ \cup {bridge[r].src}])
     \/ NextSource(r, bridge[r])
  /\ UNCHANGED <<cur, reg, logged, landed, drops, event>>

\* live.start() is back, with a connection whatever stop() did meanwhile: it is
\* kept by an active bridge, else stopped.
OwnedUnchecked(r, b) == [b EXCEPT !.conns = @ \cup {b.src}, !.sources = @ \cup {b.src}]
Owned(r, b) ==
  IF Active(r) THEN [b EXCEPT !.conns = @ \cup {b.src}, !.sources = @ \cup {b.src}]
  ELSE [b EXCEPT !.conns = @ \ {b.src}]
Refused(b) == [b EXCEPT !.conns = @ \ {b.src}]
Connected(r) ==
  /\ bridge[r].step = "connecting"
  /\ \/ NextSource(r, Owned(r, bridge[r]))
     \/ NextSource(r, Refused(bridge[r]))
  /\ UNCHANGED <<cur, reg, logged, landed, drops, event>>

Preflighted(r) ==
  /\ bridge[r].step = "preflight"
  /\ SetBridge(r, IF Active(r) THEN [bridge[r] EXCEPT !.step = "reconciling"] ELSE Ends(r, bridge[r]))
  /\ UNCHANGED <<cur, reg, logged, landed, drops, event>>

Reconciled(r) ==
  /\ bridge[r].step = "reconciling"
  /\ SetBridge(r, IF Active(r) THEN [bridge[r] EXCEPT !.step = "returning"] ELSE Ends(r, bridge[r]))
  /\ UNCHANGED <<cur, reg, logged, landed, drops, event>>

\* The bridge is handed to the features: from here on frames have a handler.
HandedOver(r) ==
  /\ bridge[r].step = "returning"
  /\ SetBridge(r, IF Active(r) THEN [bridge[r] EXCEPT !.step = "ready"] ELSE Ends(r, bridge[r]))
  /\ UNCHANGED <<cur, reg, logged, landed, drops, event>>

------------------------------------------------------------------------------
(* The socket, and the decisions that come over it. *)

\* The kernel has accepted the connection: the handler waits for the bridge, then
\* asks it to sync.
NotWaiting(r) == bridge[r].step = "ready"
Waiting(r) == TRUE
Accepted(r) ==
  /\ reg[r].sock = "made"
  /\ SetReg(r, [reg[r] EXCEPT !.sock = "on"])
  /\ SetBridge(r, [bridge[r] EXCEPT !.waits = Waiting(r)])
  /\ UNCHANGED <<cur, logged, landed, drops, event>>

SocketLost(r) ==
  /\ reg[r].sock \in {"made", "on"} /\ Drops(r)
  /\ SetReg(r, [reg[r] EXCEPT !.sock = Again(r), !.late = FALSE])
  /\ UNCHANGED <<cur, bridge, logged, landed, event>>

\* The timer, which a stop clears: connect() asks for a session, then for a module or
\* a token.
Redials(r) ==
  /\ reg[r].sock = "lost"
  /\ SetReg(r, [reg[r] EXCEPT !.sock = "connecting", !.redials = TRUE])
  /\ UNCHANGED <<cur, bridge, logged, landed, drops, event>>

\* It comes back and does not look whether the service was stopped meanwhile.
Redialed(r) ==
  /\ reg[r].redials
  /\ \/ SetReg(r, [reg[r] EXCEPT !.redials = FALSE, !.sock = "made"]) /\ UNCHANGED drops
     \/ /\ SetReg(r, [reg[r] EXCEPT !.redials = FALSE, !.sock = Again(r), !.late = FALSE])
        /\ Drops(r)
  /\ UNCHANGED <<cur, bridge, logged, landed, event>>

\* A decision is logged, and pushed to the sockets that are on.  One that comes
\* before the bridge has a handler is dropped.
Push(f) ==
  /\ f \notin logged /\ logged' = logged \cup {f}
  /\ LET on == {r \in Registries : reg[r].sock = "on" /\ Active(r)}
     IN /\ landed' = IF \E r \in on : bridge[r].step = "ready" THEN landed \cup {f} ELSE landed
        /\ bridge' = [r \in Registries |-> IF r \in on /\ bridge[r].step \notin {"ready", "gone"}
                                           THEN [bridge[r] EXCEPT !.owed = @ \cup {f}] ELSE bridge[r]]
  /\ UNCHANGED <<cur, reg, drops, event>>

\* onKernelConnected: one sync at a time, which a second call shares.
SyncAsked(r) ==
  /\ bridge[r].waits /\ bridge[r].step \in {"ready", "gone"}
  /\ SetBridge(r, [bridge[r] EXCEPT !.waits = FALSE,
         !.sync = IF @ = "idle" /\ Active(r) /\ bridge[r].step = "ready" THEN "preparing" ELSE @])
  /\ UNCHANGED <<cur, reg, logged, landed, drops, event>>

\* The five-minute check.
Periodic(r) ==
  /\ bridge[r].works /\ bridge[r].step = "ready" /\ bridge[r].sync = "idle"
  /\ SetBridge(r, [bridge[r] EXCEPT !.sync = "preparing"])
  /\ UNCHANGED <<cur, reg, logged, landed, drops, event>>

\* The log is read to its end and each decision looked at; or it is not, for want
\* of the grant, of an answer, or of the bridge.
SyncReads(r) ==
  /\ bridge[r].sync = "preparing"
  /\ \/ /\ Active(r) /\ landed' = landed \cup logged
        /\ SetBridge(r, [bridge[r] EXCEPT !.sync = "ending", !.owed = {}, !.failed = FALSE])
     \/ /\ SetBridge(r, [bridge[r] EXCEPT !.sync = "ending", !.failed = TRUE]) /\ UNCHANGED landed
  /\ UNCHANGED <<cur, reg, logged, drops, event>>

SyncEnds(r) ==
  /\ bridge[r].sync = "ending"
  /\ SetBridge(r, [bridge[r] EXCEPT !.sync = "idle"])
  /\ UNCHANGED <<cur, reg, logged, landed, drops, event>>

------------------------------------------------------------------------------
(* The host's hooks.  Each registry has registered a proxy of every hook; the  *)
(* host calls those of the registries it uses, one after the other.            *)

\* `due' is history: the owner with every handler in place when the event began.
Emit(e) ==
  /\ ~event[e].emitted
  /\ \E R \in (SUBSET Registries) \ {{}} :
      event' = [event EXCEPT ![e].emitted = TRUE, ![e].left = R,
        ![e].due = IF Owner # None /\ reg[Owner].hooks = "all" THEN Owner ELSE None]
  /\ UNCHANGED <<cur, reg, bridge, logged, landed, drops>>

\* alreadyDispatched: asked only when there is an owner, and it marks.
DispatchedHere(x, r) == r # Owner
Dispatched(x, r) == x.seen
Proxy(e, r) ==
  /\ r \in event[e].left
  /\ LET x == event[e] IN
     event' = [event EXCEPT ![e] =
        IF Owner = None \/ Dispatched(x, r) THEN [x EXCEPT !.left = @ \ {r}]
        ELSE [x EXCEPT !.left = @ \ {r}, !.seen = TRUE,
                       !.by = @ + (IF reg[Owner].hooks = "all" THEN 1 ELSE 0)]]
  /\ UNCHANGED <<cur, reg, bridge, logged, landed, drops>>

------------------------------------------------------------------------------
BridgeStarts(r) == \/ Secrets(r) \/ Loaded(r) \/ Created(r) \/ Connected(r)
                   \/ Preflighted(r) \/ Reconciled(r) \/ HandedOver(r)
Syncs(r) == SyncAsked(r) \/ SyncReads(r) \/ SyncEnds(r)
Pushes == \E f \in Frames : Push(f)
Hooks == \E e \in Events : Emit(e) \/ \E r \in Registries : Proxy(e, r)

------------------------------------------------------------------------------
(* Properties. *)

\* Whatever awaits of its setup or of its bridge come back later, a registration that
\* was retired has no part, no timer and no gateway connection open, and no socket
\* but one, with its timers: that of a reconnect which the retirement found under
\* way, and which is not made again when it is lost.
\* (registration-lifecycle.ts, ownConnection, startWs; connect() of ws-service.ts)
NothingLeft ==
  \A r \in Registries : reg[r].life = "aborted" =>
    /\ reg[r].open = {} /\ reg[r].hooks = "none"
    /\ bridge[r].conns = {} /\ ~bridge[r].works
    /\ reg[r].sock # "off" => reg[r].late /\ reg[r].sock \in {"made", "on"}

\* An event of the host is handled at most once, in however many registries its
\* hook is called and whoever owns the process meanwhile; and exactly once when
\* one registration had its handlers in place all the time.  (alreadyDispatched, #92)
HandledOnce ==
  \A e \in Events :
    LET x == event[e] IN
    /\ x.by <= 1
    /\ x.emitted /\ x.left = {} /\ x.due # None /\ Active(x.due) => x.by = 1

\* A decision that was pushed before the bridge had a handler is read from the log
\* once there is one, unless the log could not be read.  (onConnected, #53)
DroppedIsRead ==
  \A r \in Registries :
    Active(r) /\ bridge[r].step = "ready" /\ bridge[r].owed # {} =>
      bridge[r].waits \/ bridge[r].sync = "preparing" \/ bridge[r].failed
=============================================================================
