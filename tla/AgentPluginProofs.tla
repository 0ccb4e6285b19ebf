-------------------------- MODULE AgentPluginProofs --------------------------
(***************************************************************************)
(* Safety of AgentApprovals, for every value of the constants.  The parts  *)
(* share no step but those of the registration that takes the identity of  *)
(* its agent away, so that each part has an invariant of its own.          *)
(***************************************************************************)
EXTENDS AgentApprovals, TLAPS

-----------------------------------------------------------------------------
(* Which steps a part takes.                                               *)

RuntimeActs ==
  \/ \E r \in Registries : Start(r) \/ Setup(r) \/ SetupFails(r) \/ Stop(r) \/ Prepared(r) \/ Works(r)
  \/ Pushes \/ Hooks

LEMMA RuntimeSteps ==
  ASSUME [ApprovalsNext]_pluginVars
  PROVE  RuntimeActs \/ UNCHANGED rtVars
<1>1. CASE AgentNext
  BY <1>1 DEF AgentNext, RtStep, Lives, RuntimeActs, InfStep, PolicyStep
<1>2. CASE GrantStep \/ SkillStep \/ ExecStep \/ UNCHANGED pluginVars
  BY <1>2 DEF GrantStep, SkillStep, ExecStep, pluginVars, allVars
<1> QED BY <1>1, <1>2 DEF ApprovalsNext

LEMMA PolicySteps ==
  ASSUME [ApprovalsNext]_pluginVars
  PROVE  Policy!Step \/ UNCHANGED policyVars
<1>1. CASE AgentNext
  BY <1>1 DEF AgentNext, RtStep, InfStep, PolicyStep
<1>2. CASE GrantStep \/ SkillStep \/ ExecStep \/ UNCHANGED pluginVars
  BY <1>2 DEF GrantStep, SkillStep, ExecStep, pluginVars, allVars
<1> QED BY <1>1, <1>2 DEF ApprovalsNext

LEMMA SkillSteps ==
  ASSUME [ApprovalsNext]_pluginVars
  PROVE  Workshop!WorkshopStep \/ UNCHANGED skillVars
  BY DEF ApprovalsNext, GrantStep, SkillStep, ExecStep, pluginVars

LEMMA AskSteps ==
  ASSUME [ApprovalsNext]_pluginVars
  PROVE  Exec!ExecStep \/ UNCHANGED askVars
  BY DEF ApprovalsNext, GrantStep, SkillStep, ExecStep, pluginVars

LEMMA Starts ==
  ASSUME ApprovalsInit
  PROVE  RtInit /\ InfInit /\ Policy!Init /\ Workshop!WorkshopInit /\ Exec!ExecInit
  BY DEF ApprovalsInit, Resting, AgentInit

-----------------------------------------------------------------------------
(* The registrations (PluginRuntime).                                      *)

Parts == {"discovery", "sessions", "horizon", "socket", "injector", "reach", "bridge"}
Registration ==
  [life : {"none", "active", "aborted"},
   step : {"none", "queued", "preparing", "starting", "failing", "done"},
   open : SUBSET Parts, drains : SUBSET Parts, stops : BOOLEAN, hooks : {"none", "some", "all"},
   sock : {"off", "connecting", "made", "on", "lost"}, dials : BOOLEAN, redials : BOOLEAN,
   late : BOOLEAN]
Bridge ==
  [step : {"none", "secrets", "loading", "creating", "connecting", "preflight", "reconciling",
           "returning", "ready", "gone"},
   src : Sources \cup {None}, todo : SUBSET Sources, conns : SUBSET (Sources \cup {None}),
   sources : SUBSET (Sources \cup {None}), works : BOOLEAN, waits : BOOLEAN,
   sync : {"idle", "preparing", "ending"}, owed : SUBSET Frames, failed : BOOLEAN]
Before == {"none", "queued", "preparing"}
Closed == {"ready", "gone"}

\* A retired registration holds nothing but a late socket.
HoldsNothing(x, b) == x.life = "aborted" =>
  /\ x.open = {} /\ x.hooks = "none"
  /\ b.conns = {} /\ ~b.works
  /\ x.sock # "off" => x.late /\ x.sock \in {"made", "on"}

\* One connect at a time, and no socket beside it; a retired registration's is late.
Reconnects(x) ==
  /\ x.dials \/ x.redials => x.sock \in {"off", "connecting"}
  /\ x.redials => ~x.dials /\ (x.life = "aborted" => x.late)

\* Before its setup is through there is neither a bridge nor a socket, and while
\* the socket is being made the setup is not through.
NotYet(x, b) ==
  /\ x.life = "none" => x.step = "none"
  /\ x.step \in Before => /\ x.sock = "off" /\ ~x.redials /\ b.step = "none" /\ b.owed = {} /\ b.sync = "idle"
                          /\ x.hooks # "all"
  /\ x.dials => x.step = "starting"
  /\ x.hooks = "all" => x.step \in {"starting", "done"}

\* A socket that is on, and what it brought too early, wait for the bridge; once
\* the bridge is there what is owed has a reading of the log to come, or a failed one.
Waited(x, b) ==
  /\ x.life = "active" /\ b.step \notin Closed /\ (x.sock = "on" \/ b.owed # {}) => b.waits
  /\ x.life = "active" /\ b.step = "ready" /\ b.owed # {} => b.waits \/ b.sync = "preparing" \/ b.failed
  /\ b.sync = "ending" => b.owed = {} \/ b.failed
  /\ b.sync # "idle" => b.step = "ready"

Sound(x, b) ==
  /\ x \in Registration /\ b \in Bridge
  /\ HoldsNothing(x, b) /\ Reconnects(x) /\ NotYet(x, b) /\ Waited(x, b)
Registered ==
  /\ reg \in [Registries -> Registration] /\ bridge \in [Registries -> Bridge]
  /\ \A r \in Registries : Sound(reg[r], bridge[r])

LEMMA RetiredSound ==
  ASSUME NEW r \in Registries, NEW x, NEW b, Sound(x, b), x.life = "active"
  PROVE  /\ Sound(Retired(r, x), Abandoned(b))
         /\ Retired(r, x).life = "aborted" /\ Retired(r, x).step = x.step
<1> DEFINE y == Retired(r, x)
<1> DEFINE c == Abandoned(b)
<1>1. x \in Registration /\ b \in Bridge  BY DEF Sound
<1>2. /\ y \in Registration /\ y.life = "aborted" /\ y.step = x.step /\ y.open = {}
      /\ y.hooks = "none" /\ y.sock = "off" /\ y.dials = x.dials /\ y.redials = x.redials
      /\ y.late = x.redials
  BY <1>1 DEF Retired, Registration, Promised, Parts
<1>3. /\ c \in Bridge /\ c.step = b.step /\ c.conns = {} /\ c.works = FALSE /\ c.sync = b.sync
      /\ c.owed = b.owed /\ c.failed = b.failed
  BY <1>1 DEF Abandoned, Bridge
<1> HIDE DEF y, c
<1>4. Sound(y, c)
  BY <1>1, <1>2, <1>3 DEF Sound, HoldsNothing, Reconnects, NotYet, Waited, Before, Closed
<1> QED BY <1>2, <1>4 DEF y, c

\* Steps of one registration alone.
LEMMA OneSound ==
  ASSUME Registered, NEW r \in Registries, NEW x, NEW b, Sound(x, b),
         SetReg(r, x) \/ (UNCHANGED reg /\ x = reg[r]),
         SetBridge(r, b) \/ (UNCHANGED bridge /\ b = bridge[r])
  PROVE  Registered'
  BY DEF Registered, Sound, SetReg, SetBridge

LEMMA StartSound ==
  ASSUME Registered, NEW r \in Registries, Start(r)
  PROVE  Registered'
<1>1. Sound(Started(reg[r]), bridge[r])
  <2>1. reg[r] \in Registration /\ bridge[r] \in Bridge /\ Sound(reg[r], bridge[r])
        /\ reg[r].life = "none"
    BY DEF Registered, Start
  <2>2. LET x == reg[r] y == Started(reg[r]) IN
        /\ y \in Registration /\ y.life = "active" /\ y.step = "queued" /\ y.hooks = x.hooks
        /\ y.sock = x.sock /\ y.dials = x.dials
        /\ y.redials = x.redials /\ y.late = x.late
    BY <2>1 DEF Started, Registration
  <2> QED BY <2>1, <2>2 DEF Sound, HoldsNothing, Reconnects, NotYet, Waited, Before, Closed
<1>2. ASSUME NEW q \in Registries PROVE Sound(reg'[q], bridge'[q])
  <2>1. CASE q = r
    <3>1. q # Owner  BY <2>1, RuntimeAssumption DEF Start, Owner, Active
    <3> QED BY <1>1, <2>1, <3>1 DEF Start
  <2>2. CASE q # r /\ q = Owner
    <3>1. reg[q].life = "active" /\ Sound(reg[q], bridge[q])
      BY <2>2, RuntimeAssumption DEF Owner, Active, Registered
    <3> QED BY <2>2, <3>1, RetiredSound DEF Start
  <2>3. CASE q # r /\ q # Owner
    BY <2>3 DEF Start, Registered
  <2> QED BY <2>1, <2>2, <2>3
<1>3. /\ reg' = [q \in Registries |-> reg'[q]] /\ bridge' = [q \in Registries |-> bridge'[q]]
  BY DEF Start
<1> QED BY <1>2, <1>3 DEF Registered, Sound

LEMMA StopSound ==
  ASSUME Registered, NEW r \in Registries, Stop(r)
  PROVE  Registered'
<1>1. reg[r] \in Registration /\ bridge[r] \in Bridge /\ Sound(reg[r], bridge[r])
  BY DEF Registered
<1>2. ASSUME NEW x, NEW b, Sound(x, b) PROVE Sound([x EXCEPT !.stops = TRUE], b)
  <2>1. x \in Registration  BY <1>2 DEF Sound
  <2>2. LET y == [x EXCEPT !.stops = TRUE] IN
        /\ y \in Registration /\ y.life = x.life /\ y.step = x.step /\ y.open = x.open
        /\ y.hooks = x.hooks /\ y.sock = x.sock /\ y.dials = x.dials
        /\ y.redials = x.redials /\ y.late = x.late
    BY <2>1 DEF Registration
  <2> QED BY <1>2, <2>2 DEF Sound, HoldsNothing, Reconnects, NotYet, Waited
<1>3. CASE Active(r)
  <2>1. SetReg(r, [Retired(r, reg[r]) EXCEPT !.stops = TRUE]) /\ SetBridge(r, Abandoned(bridge[r]))
    BY <1>3 DEF Stop, SetReg, SetBridge, Registered
  <2>2. Sound([Retired(r, reg[r]) EXCEPT !.stops = TRUE], Abandoned(bridge[r]))
    BY <1>1, <1>2, <1>3, RetiredSound DEF Active
  <2> QED BY <2>1, <2>2, OneSound
<1>4. CASE ~Active(r)
  <2>1. SetReg(r, [reg[r] EXCEPT !.stops = TRUE]) /\ SetBridge(r, bridge[r])
    BY <1>4 DEF Stop, SetReg, SetBridge, Registered
  <2>2. Sound([reg[r] EXCEPT !.stops = TRUE], bridge[r])  BY <1>1, <1>2
  <2> QED BY <2>1, <2>2, OneSound
<1> QED BY <1>3, <1>4

LEMMA QuietSound ==
  ASSUME Registered, NEW r \in Registries,
         Drains(r) \/ StopReturns(r) \/ ConnectLands(r) \/ SocketLost(r)
           \/ Redials(r) \/ Redialed(r)
  PROVE  Registered'
<1>1. reg[r] \in Registration /\ bridge[r] \in Bridge /\ Sound(reg[r], bridge[r])
  BY DEF Registered
<1>2. CASE Drains(r)
  <2>1. PICK p \in reg[r].drains : SetReg(r, [reg[r] EXCEPT !.drains = @ \ {p}])
    BY <1>2 DEF Drains
  <2> DEFINE y == [reg[r] EXCEPT !.drains = @ \ {p}]
  <2>2. /\ y \in Registration /\ y.life = reg[r].life /\ y.step = reg[r].step /\ y.open = reg[r].open
        /\ y.hooks = reg[r].hooks /\ y.sock = reg[r].sock /\ y.dials = reg[r].dials
        /\ y.redials = reg[r].redials /\ y.late = reg[r].late
    BY <1>1 DEF Registration
  <2> HIDE DEF y
  <2>3. Sound(y, bridge[r])  BY <1>1, <2>2 DEF Sound, HoldsNothing, Reconnects, NotYet, Waited
  <2> QED BY <1>2, <2>1, <2>3, OneSound DEF Drains, y
<1>3. CASE StopReturns(r)
  <2> DEFINE y == [reg[r] EXCEPT !.stops = FALSE]
  <2>2. /\ y \in Registration /\ y.life = reg[r].life /\ y.step = reg[r].step /\ y.open = reg[r].open
        /\ y.hooks = reg[r].hooks /\ y.sock = reg[r].sock /\ y.dials = reg[r].dials
        /\ y.redials = reg[r].redials /\ y.late = reg[r].late
    BY <1>1 DEF Registration
  <2>1. SetReg(r, y)  BY <1>3 DEF StopReturns
  <2> HIDE DEF y
  <2>3. Sound(y, bridge[r])  BY <1>1, <2>2 DEF Sound, HoldsNothing, Reconnects, NotYet, Waited
  <2> QED BY <1>3, <2>1, <2>3, OneSound DEF StopReturns
<1>4. ASSUME NEW s \in {"off", "connecting", "made", "lost"}, NEW d \in BOOLEAN, NEW l \in BOOLEAN,
             NEW t \in {reg[r].step, "done"}, NEW g \in BOOLEAN,
             Reconnects([reg[r] EXCEPT !.sock = s, !.redials = d, !.late = l, !.step = t, !.dials = g]),
             reg[r].life = "aborted" => s = "off" \/ (l /\ s = "made"),
             reg[r].step \notin Before, g => t = "starting", t # reg[r].step => reg[r].step = "starting"
      PROVE  Sound([reg[r] EXCEPT !.sock = s, !.redials = d, !.late = l, !.step = t, !.dials = g],
                   bridge[r])
  <2> DEFINE y == [reg[r] EXCEPT !.sock = s, !.redials = d, !.late = l, !.step = t, !.dials = g]
  <2>1. /\ y \in Registration /\ y.life = reg[r].life /\ y.step = t /\ y.open = reg[r].open
        /\ y.hooks = reg[r].hooks /\ y.sock = s /\ y.dials = g /\ y.redials = d /\ y.late = l
    BY <1>1 DEF Registration
  <2>2. Reconnects(y)  BY <1>4
  <2> HIDE DEF y
  <2>3. Sound(y, bridge[r])
    BY <1>1, <1>4, <2>1, <2>2 DEF Sound, HoldsNothing, NotYet, Waited, Before, Closed
  <2> QED BY <2>3 DEF y
<1> DEFINE x == reg[r]
<1> DEFINE New(s, d, l, t, g) ==
      [x EXCEPT !.sock = s, !.redials = d, !.late = l, !.step = t, !.dials = g]
<1>6. /\ [x EXCEPT !.dials = FALSE, !.step = "done", !.sock = Dialed(r)]
           = New(Dialed(r), x.redials, x.late, "done", FALSE)
      /\ [x EXCEPT !.dials = FALSE, !.step = "done", !.sock = Again(r)]
           = New(Again(r), x.redials, x.late, "done", FALSE)
      /\ [x EXCEPT !.sock = Again(r), !.late = FALSE] = New(Again(r), x.redials, FALSE, x.step, x.dials)
      /\ [x EXCEPT !.sock = "connecting", !.redials = TRUE]
           = New("connecting", TRUE, x.late, x.step, x.dials)
      /\ [x EXCEPT !.redials = FALSE, !.sock = "made"] = New("made", FALSE, x.late, x.step, x.dials)
      /\ [x EXCEPT !.redials = FALSE, !.sock = Again(r), !.late = FALSE]
           = New(Again(r), FALSE, FALSE, x.step, x.dials)
  BY <1>1 DEF Registration
<1>7. /\ Dialed(r) \in {"made", "off"} /\ Again(r) \in {"lost", "off"}
      /\ x.life = "aborted" => Dialed(r) = "off" /\ Again(r) = "off"
  BY DEF Dialed, Again, Active
<1>8. /\ x.redials \in BOOLEAN /\ x.late \in BOOLEAN /\ x.dials \in BOOLEAN
      /\ HoldsNothing(x, bridge[r]) /\ Reconnects(x) /\ NotYet(x, bridge[r])
  BY <1>1 DEF Sound, Registration
<1> HIDE DEF x, New
<1>9. CASE ConnectLands(r)
  <2>1. PICK s \in {Dialed(r), Again(r)} : SetReg(r, New(s, x.redials, x.late, "done", FALSE))
    BY <1>6, <1>9 DEF ConnectLands, x
  <2>2. x.dials /\ ~x.redials /\ x.step = "starting" /\ UNCHANGED bridge
    BY <1>8, <1>9 DEF ConnectLands, Reconnects, NotYet, x
  <2>3. Reconnects(New(s, x.redials, x.late, "done", FALSE))
    BY <1>1, <1>7, <2>2 DEF Reconnects, New, x, Registration
  <2>4. Sound(New(s, x.redials, x.late, "done", FALSE), bridge[r])
    BY <1>4, <1>7, <1>8, <2>2, <2>3 DEF New, x, Before
  <2> QED BY <2>1, <2>2, <2>4, OneSound
<1>10. CASE SocketLost(r)
  <2>1. /\ SetReg(r, New(Again(r), x.redials, FALSE, x.step, x.dials))
        /\ x.sock \in {"made", "on"} /\ UNCHANGED bridge
    BY <1>6, <1>10 DEF SocketLost, x
  <2>2. ~x.dials /\ ~x.redials /\ x.step \notin Before
    BY <1>8, <2>1 DEF Reconnects, NotYet
  <2>3. Reconnects(New(Again(r), x.redials, FALSE, x.step, x.dials))
    BY <1>1, <1>7, <2>2 DEF Reconnects, New, x, Registration
  <2>4. Sound(New(Again(r), x.redials, FALSE, x.step, x.dials), bridge[r])
    BY <1>4, <1>7, <1>8, <2>2, <2>3 DEF New, x
  <2> QED BY <2>1, <2>4, OneSound
<1>11. CASE Redials(r)
  <2>1. /\ SetReg(r, New("connecting", TRUE, x.late, x.step, x.dials))
        /\ x.sock = "lost" /\ UNCHANGED bridge
    BY <1>6, <1>11 DEF Redials, x
  <2>2. ~x.dials /\ x.life # "aborted" /\ x.step \notin Before
    BY <1>8, <2>1 DEF Reconnects, NotYet, HoldsNothing
  <2>3. Reconnects(New("connecting", TRUE, x.late, x.step, x.dials))
    BY <1>1, <1>7, <2>2 DEF Reconnects, New, x, Registration
  <2>4. Sound(New("connecting", TRUE, x.late, x.step, x.dials), bridge[r])
    BY <1>4, <1>8, <2>2, <2>3 DEF New, x
  <2> QED BY <2>1, <2>4, OneSound
<1>12. CASE Redialed(r)
  <2>1. /\ \/ SetReg(r, New("made", FALSE, x.late, x.step, x.dials))
           \/ SetReg(r, New(Again(r), FALSE, FALSE, x.step, x.dials))
        /\ x.redials /\ UNCHANGED bridge
    BY <1>6, <1>12 DEF Redialed, x
  <2>2. ~x.dials /\ (x.life = "aborted" => x.late) /\ x.step \notin Before
    BY <1>8, <2>1 DEF Reconnects, NotYet
  <2>3. /\ Reconnects(New("made", FALSE, x.late, x.step, x.dials))
        /\ Reconnects(New(Again(r), FALSE, FALSE, x.step, x.dials))
    BY <1>1, <1>7, <2>2 DEF Reconnects, New, x, Registration
  <2>4. Sound(New("made", FALSE, x.late, x.step, x.dials), bridge[r])
    BY <1>4, <1>8, <2>2, <2>3 DEF New, x
  <2>5. Sound(New(Again(r), FALSE, FALSE, x.step, x.dials), bridge[r])
    BY <1>4, <1>7, <1>8, <2>2, <2>3 DEF New, x
  <2> QED BY <2>1, <2>4, <2>5, OneSound
<1> QED BY <1>2, <1>3, <1>9, <1>10, <1>11, <1>12

LEMMA PartsAreParts ==
  ASSUME NEW r \in Registries, NEW i \in 1..Len(PartsOf(r))
  PROVE  PartsOf(r)[i] \in Parts
<1>1. CASE r \in Mapped
  BY <1>1 DEF PartsOf, AgentParts, Parts
<1>2. CASE r \notin Mapped
  BY <1>2 DEF PartsOf, FileParts, Parts
<1> QED BY <1>1, <1>2

LEMMA BuildSound ==
  ASSUME Registered, NEW r \in Registries, reg[r].step \in {"queued", "preparing"}, Active(r),
         NEW n \in 1..Len(PartsOf(r)), Build(r, n)
  PROVE  Registered'
<1> DEFINE parts == {PartsOf(r)[i] : i \in 1..n}
<1> DEFINE whole == n = Len(PartsOf(r))
<1> DEFINE x == reg[r]
<1> DEFINE b == bridge[r]
<1> DEFINE y == [x EXCEPT !.open = parts \ {"bridge"}, !.step = IF whole THEN "starting" ELSE "failing",
                          !.hooks = IF whole THEN "all" ELSE "some",
                          !.sock = IF whole THEN "connecting" ELSE "off", !.dials = whole]
<1> DEFINE c == IF "bridge" \in parts THEN BridgeBegun(b) ELSE b
<1>1. x \in Registration /\ b \in Bridge /\ Sound(x, b) /\ x.step \in Before /\ x.life = "active"
  BY DEF Registered, Before, Active
<1>2. SetReg(r, y) /\ SetBridge(r, c)
  BY DEF Build
<1>3. parts \subseteq Parts
  BY PartsAreParts, PartsOf(r) \in Seq(Parts) DEF PartsOf, AgentParts, FileParts
<1>4. whole \in BOOLEAN  OBVIOUS
<1> HIDE DEF parts, whole
<1>5. /\ y \in Registration /\ y.life = x.life /\ y.step \in {"starting", "failing"}
      /\ y.hooks \in {"all", "some"} /\ (y.hooks = "all" => y.step = "starting")
      /\ y.sock \in {"connecting", "off"} /\ (y.dials => y.step = "starting")
      /\ y.redials = x.redials /\ y.late = x.late
  BY <1>1, <1>3, <1>4 DEF Registration
<1>6. /\ c \in Bridge /\ c.step \in {b.step, "secrets"} /\ c.owed = b.owed /\ c.sync = b.sync
      /\ c.conns = b.conns /\ c.works = b.works
  BY <1>1 DEF Bridge, BridgeBegun
<1> HIDE DEF x, b, y, c
<1>7. Sound(y, c)
  BY <1>1, <1>5, <1>6 DEF Sound, HoldsNothing, Reconnects, NotYet, Waited, Before, Closed
<1> QED BY <1>2, <1>7, OneSound

\* A step of the setup that only moves on, or ends it.
LEMMA MovesOn ==
  ASSUME NEW x, NEW b, Sound(x, b), NEW s \in {"preparing", "done"}, NEW h \in {"none", "some", "all"},
         x.step \in {"queued", "preparing", "failing"}, s = "preparing" => x.step = "queued",
         h = x.hooks \/ (x.life = "active" /\ h = "some")
  PROVE  Sound([x EXCEPT !.step = s, !.hooks = h], b)
<1> DEFINE y == [x EXCEPT !.step = s, !.hooks = h]
<1>1. x \in Registration  BY DEF Sound
<1>2. /\ y \in Registration /\ y.life = x.life /\ y.step = s /\ y.open = x.open
      /\ y.hooks = h /\ y.sock = x.sock /\ y.dials = x.dials
        /\ y.redials = x.redials /\ y.late = x.late
  BY <1>1 DEF Registration
<1> HIDE DEF y
<1>3. Sound(y, b)
  BY <1>1, <1>2 DEF Sound, HoldsNothing, Reconnects, NotYet, Waited, Before, Closed, Registration
<1> QED BY <1>3 DEF y

LEMMA SetupSound ==
  ASSUME Registered, NEW r \in Registries, Setup(r) \/ Prepared(r)
  PROVE  Registered'
<1>1. reg[r] \in Registration /\ bridge[r] \in Bridge /\ Sound(reg[r], bridge[r])
  BY DEF Registered
<1>2. reg[r].step \in {"queued", "preparing"}  BY DEF Setup, Prepared
<1>3. CASE ~Active(r)
  <2>1. [reg[r] EXCEPT !.step = "done"] = [reg[r] EXCEPT !.step = "done", !.hooks = reg[r].hooks]
    BY <1>1 DEF Registration
  <2>2. reg[r].hooks \in {"none", "some", "all"}  BY <1>1 DEF Registration
  <2>3. Sound([reg[r] EXCEPT !.step = "done", !.hooks = reg[r].hooks], bridge[r])
    BY <1>1, <1>2, <2>2, MovesOn
  <2>4. Sound([reg[r] EXCEPT !.step = "done"], bridge[r])  BY <2>1, <2>3
  <2>5. SetReg(r, [reg[r] EXCEPT !.step = "done"]) /\ UNCHANGED bridge
    BY <1>3 DEF Setup, Prepared
  <2> QED BY <2>4, <2>5, OneSound
<1>4. CASE Active(r)
  <2>1. CASE \E n \in 1..Len(PartsOf(r)) : Build(r, n)
    BY <1>2, <1>4, <2>1, BuildSound
  <2>2. CASE /\ reg[r].step = "queued" /\ UNCHANGED bridge
             /\ SetReg(r, [reg[r] EXCEPT !.step = "preparing", !.hooks = "some"])
    <3>1. Sound([reg[r] EXCEPT !.step = "preparing", !.hooks = "some"], bridge[r])
      BY <1>1, <1>4, <2>2, MovesOn DEF Active
    <3> QED BY <2>2, <3>1, OneSound
  <2> QED BY <1>4, <2>1, <2>2 DEF Setup, Prepared
<1> QED BY <1>3, <1>4

LEMMA SetupFailsSound ==
  ASSUME Registered, NEW r \in Registries, SetupFails(r)
  PROVE  Registered'
<1>1. reg[r] \in Registration /\ bridge[r] \in Bridge /\ Sound(reg[r], bridge[r])
      /\ reg[r].step = "failing"
  BY DEF Registered, SetupFails
<1>2. ASSUME NEW x, NEW b, Sound(x, b), x.step = "failing"
      PROVE  Sound([x EXCEPT !.step = "done"], b)
  <2>1. x \in Registration /\ x.hooks \in {"none", "some", "all"}  BY <1>2 DEF Sound, Registration
  <2>2. [x EXCEPT !.step = "done"] = [x EXCEPT !.step = "done", !.hooks = x.hooks]
    BY <2>1 DEF Registration
  <2>3. Sound([x EXCEPT !.step = "done", !.hooks = x.hooks], b)
    BY <1>2, <2>1, MovesOn
  <2> QED BY <2>2, <2>3
<1>3. CASE Active(r)
  <2>1. SetReg(r, [Retired(r, reg[r]) EXCEPT !.step = "done"]) /\ SetBridge(r, Abandoned(bridge[r]))
    BY <1>3 DEF SetupFails
  <2>2. Sound([Retired(r, reg[r]) EXCEPT !.step = "done"], Abandoned(bridge[r]))
    BY <1>1, <1>2, <1>3, RetiredSound DEF Active
  <2> QED BY <2>1, <2>2, OneSound
<1>4. CASE ~Active(r)
  <2>1. SetReg(r, [reg[r] EXCEPT !.step = "done"]) /\ SetBridge(r, bridge[r])
    BY <1>4 DEF SetupFails
  <2>2. Sound([reg[r] EXCEPT !.step = "done"], bridge[r])  BY <1>1, <1>2
  <2> QED BY <2>1, <2>2, OneSound
<1> QED BY <1>3, <1>4

\* A step of the start of the bridge keeps what is owed and awaited.
LEMMA BridgeMoves ==
  ASSUME NEW x, NEW b, NEW c \in Bridge, Sound(x, b), b.step \notin {"none", "ready", "gone"},
         c.step # "none", c.owed = b.owed, c.waits = b.waits, c.sync = b.sync, c.failed = b.failed,
         x.life = "aborted" => c.conns = {} /\ ~c.works
  PROVE  Sound(x, c)
  BY DEF Sound, HoldsNothing, Reconnects, NotYet, Waited, Before, Closed

\* What a bridge under way may become, and keep what is owed and awaited.
Follows(x, b, c) ==
  /\ c \in Bridge /\ c.owed = b.owed /\ c.waits = b.waits /\ c.sync = b.sync /\ c.failed = b.failed
  /\ x.life = "aborted" => c.conns = {} /\ ~c.works

LEMMA EndsFollows ==
  ASSUME NEW r \in Registries, NEW b \in Bridge, reg[r].life = "aborted" => b.conns = {} /\ ~b.works
  PROVE  Follows(reg[r], b, Ends(r, b)) /\ Ends(r, b).step = "gone"
<1>1. CASE Active(r)
  BY <1>1 DEF Follows, Ends, Abandoned, Bridge, Active
<1>2. CASE ~Active(r)
  BY <1>2 DEF Follows, Ends, Abandoned, Bridge
<1> QED BY <1>1, <1>2

LEMMA NextFollows ==
  ASSUME NEW r \in Registries, NEW b \in Bridge, reg[r].life = "aborted" => b.conns = {} /\ ~b.works,
         NextSource(r, b)
  PROVE  \E c : SetBridge(r, c) /\ Follows(reg[r], b, c) /\ c.step # "none"
<1>1. CASE Active(r) /\ b.todo # {}
  <2>1. PICK s \in b.todo : SetBridge(r, [b EXCEPT !.step = "creating", !.src = s, !.todo = @ \ {s}])
    BY <1>1 DEF NextSource
  <2> DEFINE c == [b EXCEPT !.step = "creating", !.src = s, !.todo = @ \ {s}]
  <2>2. Follows(reg[r], b, c) /\ c.step # "none"
    BY <1>1 DEF Follows, Bridge, Active
  <2> QED BY <2>1, <2>2
<1>2. CASE Active(r) /\ b.todo = {} /\ b.sources # {}
  <2> DEFINE c == [b EXCEPT !.step = "preflight", !.src = None, !.works = TRUE]
  <2>1. SetBridge(r, c)  BY <1>2 DEF NextSource
  <2>2. Follows(reg[r], b, c) /\ c.step # "none"
    BY <1>2 DEF Follows, Bridge, Active
  <2> QED BY <2>1, <2>2
<1>3. CASE ~(Active(r) /\ b.todo # {}) /\ ~(Active(r) /\ b.sources # {})
  <2>1. SetBridge(r, Ends(r, b))  BY <1>3 DEF NextSource
  <2> QED BY <2>1, EndsFollows
<1> QED BY <1>1, <1>2, <1>3

LEMMA BridgeStepFollows ==
  ASSUME Registered, NEW r \in Registries, BridgeStarts(r)
  PROVE  \E c : SetBridge(r, c) /\ Follows(reg[r], bridge[r], c) /\ c.step # "none"
<1> DEFINE b == bridge[r]
<1>1. b \in Bridge /\ (reg[r].life = "aborted" => b.conns = {} /\ ~b.works)
  BY DEF Registered, Sound, HoldsNothing
<1>2. ASSUME NEW s \in {"loading", "reconciling", "returning", "ready"}
      PROVE  LET c == [b EXCEPT !.step = s] IN Follows(reg[r], b, c) /\ c.step # "none"
  BY <1>1 DEF Follows, Bridge
<1>3. CASE Secrets(r) \/ Preflighted(r) \/ Reconciled(r) \/ HandedOver(r)
  <2>1. SetBridge(r, Ends(r, b)) \/ \E s \in {"loading", "reconciling", "returning", "ready"} :
                                      SetBridge(r, [b EXCEPT !.step = s])
    BY <1>3 DEF Secrets, Preflighted, Reconciled, HandedOver
  <2> QED BY <1>1, <1>2, <2>1, EndsFollows
<1>4. CASE Loaded(r)
  BY <1>1, <1>4, NextFollows DEF Loaded
<1>5. CASE Created(r)
  <2> DEFINE c == [b EXCEPT !.step = "connecting", !.conns = @ \cup {b.src}]
  <2>1. CASE Active(r) /\ SetBridge(r, c)
    <3>1. Follows(reg[r], b, c) /\ c.step # "none"
      BY <1>1, <2>1 DEF Follows, Bridge, Active
    <3> QED BY <2>1, <3>1
  <2>2. CASE NextSource(r, b)  BY <1>1, <2>2, NextFollows
  <2> QED BY <1>5, <2>1, <2>2 DEF Created
<1>6. CASE Connected(r)
  <2>1. ASSUME NEW d, d \in {Owned(r, b), Refused(b)}, NextSource(r, d)
        PROVE  \E c : SetBridge(r, c) /\ Follows(reg[r], b, c) /\ c.step # "none"
    <3>2. /\ d \in Bridge /\ (reg[r].life = "aborted" => d.conns = {} /\ ~d.works)
          /\ d.owed = b.owed /\ d.waits = b.waits /\ d.sync = b.sync /\ d.failed = b.failed
      <4>1. CASE d = Owned(r, b) /\ Active(r)
        BY <1>1, <4>1 DEF Owned, Bridge, Active
      <4>2. CASE d = Refused(b) \/ ~Active(r)
        BY <1>1, <2>1, <4>2 DEF Owned, Refused, Bridge
      <4> QED BY <2>1, <4>1, <4>2
    <3>3. PICK c : SetBridge(r, c) /\ Follows(reg[r], d, c) /\ c.step # "none"
      BY <2>1, <3>2, NextFollows
    <3> QED BY <3>2, <3>3 DEF Follows
  <2> QED BY <1>6, <2>1 DEF Connected
<1> QED BY <1>3, <1>4, <1>5, <1>6 DEF BridgeStarts

LEMMA BridgeStartsSound ==
  ASSUME Registered, NEW r \in Registries, BridgeStarts(r)
  PROVE  Registered'
<1>1. PICK c : SetBridge(r, c) /\ Follows(reg[r], bridge[r], c) /\ c.step # "none"
  BY BridgeStepFollows
<1>2. bridge[r].step \notin {"none", "ready", "gone"} /\ UNCHANGED reg
  BY DEF BridgeStarts, Secrets, Loaded, Created, Connected, Preflighted, Reconciled, HandedOver
<1>3. Sound(reg[r], bridge[r])  BY DEF Registered
<1>4. Sound(reg[r], c)  BY <1>1, <1>2, <1>3, BridgeMoves DEF Follows
<1> QED BY <1>1, <1>2, <1>4, OneSound

LEMMA AcceptedSound ==
  ASSUME Registered, NEW r \in Registries, Accepted(r)
  PROVE  Registered'
<1> DEFINE x == reg[r]
<1> DEFINE b == bridge[r]
<1> DEFINE y == [x EXCEPT !.sock = "on"]
<1> DEFINE c == [b EXCEPT !.waits = TRUE]
<1>1. x \in Registration /\ b \in Bridge /\ Sound(x, b) /\ x.sock = "made"
  BY DEF Registered, Accepted
<1>2. SetReg(r, y) /\ SetBridge(r, c)  BY DEF Accepted, Waiting
<1>3. /\ y \in Registration /\ y.life = x.life /\ y.step = x.step /\ y.open = x.open
      /\ y.hooks = x.hooks /\ y.dials = x.dials /\ y.redials = x.redials /\ y.late = x.late
      /\ y.sock = "on"
  BY <1>1 DEF Registration
<1>4. /\ c \in Bridge /\ c.waits = TRUE /\ c.step = b.step /\ c.owed = b.owed /\ c.sync = b.sync
      /\ c.failed = b.failed /\ c.conns = b.conns /\ c.works = b.works
  BY <1>1 DEF Bridge
<1> HIDE DEF x, b, y, c
<1>5. Sound(y, c)
  BY <1>1, <1>3, <1>4 DEF Sound, HoldsNothing, Reconnects, NotYet, Waited, Before, Closed
<1> QED BY <1>2, <1>5, OneSound

LEMMA SyncsSound ==
  ASSUME Registered, NEW r \in Registries, Syncs(r) \/ Periodic(r)
  PROVE  Registered'
<1> DEFINE x == reg[r]
<1> DEFINE b == bridge[r]
<1>1. x \in Registration /\ b \in Bridge /\ Sound(x, b)
  BY DEF Registered
<1>2. CASE SyncAsked(r)
  <2> DEFINE c == [b EXCEPT !.waits = FALSE,
                   !.sync = IF @ = "idle" /\ Active(r) /\ b.step = "ready" THEN "preparing" ELSE @]
  <2>1. SetBridge(r, c) /\ UNCHANGED reg /\ b.step \in Closed  BY <1>2 DEF SyncAsked, Closed
  <2>2. /\ c \in Bridge /\ c.waits = FALSE /\ c.step = b.step /\ c.owed = b.owed
        /\ c.failed = b.failed /\ c.conns = b.conns /\ c.works = b.works
        /\ (x.life = "active" /\ b.step = "ready" => c.sync = IF b.sync = "idle" THEN "preparing" ELSE b.sync)
        /\ (b.step # "ready" => c.sync = b.sync) /\ (c.sync = "ending" => b.sync = "ending")
    BY <1>1 DEF Bridge, Active
  <2> HIDE DEF x, b, c
  <2>3. Sound(x, c)
    BY <1>1, <2>1, <2>2 DEF Sound, HoldsNothing, Reconnects, NotYet, Waited, Before, Closed, Bridge
  <2> QED BY <2>1, <2>3, OneSound DEF x
<1>3. CASE Periodic(r)
  <2> DEFINE c == [b EXCEPT !.sync = "preparing"]
  <2>1. SetBridge(r, c) /\ UNCHANGED reg /\ b.step = "ready"  BY <1>3 DEF Periodic
  <2>2. /\ c \in Bridge /\ c.waits = b.waits /\ c.step = b.step /\ c.owed = b.owed /\ c.sync = "preparing"
        /\ c.failed = b.failed /\ c.conns = b.conns /\ c.works = b.works
    BY <1>1 DEF Bridge
  <2> HIDE DEF x, b, c
  <2>3. Sound(x, c)
    BY <1>1, <2>1, <2>2 DEF Sound, HoldsNothing, Reconnects, NotYet, Waited, Before, Closed, Bridge
  <2> QED BY <2>1, <2>3, OneSound DEF x
<1>4. CASE SyncReads(r)
  <2>1. ASSUME NEW o \in SUBSET Frames, NEW f \in BOOLEAN, f \/ o = {}, o \in {{}, b.owed},
               SetBridge(r, [b EXCEPT !.sync = "ending", !.owed = o, !.failed = f])
        PROVE  Registered'
    <3> DEFINE c == [b EXCEPT !.sync = "ending", !.owed = o, !.failed = f]
    <3>2. /\ c \in Bridge /\ c.waits = b.waits /\ c.step = b.step /\ c.owed = o /\ c.sync = "ending"
          /\ c.failed = f /\ c.conns = b.conns /\ c.works = b.works
      BY <1>1 DEF Bridge
    <3>3. b.step = "ready" /\ UNCHANGED reg /\ SetBridge(r, c)
      BY <1>1, <1>4, <2>1 DEF SyncReads, Sound, Waited
    <3> HIDE DEF x, b, c
    <3>4. Sound(x, c)
      BY <1>1, <2>1, <3>2, <3>3 DEF Sound, HoldsNothing, Reconnects, NotYet, Waited, Before, Closed, Bridge
    <3> QED BY <3>3, <3>4, OneSound DEF x
  <2>2. b.owed \in SUBSET Frames /\ [b EXCEPT !.owed = b.owed] = b  BY <1>1 DEF Bridge
  <2>3. [b EXCEPT !.sync = "ending", !.failed = TRUE]
          = [b EXCEPT !.sync = "ending", !.owed = b.owed, !.failed = TRUE]
    BY <1>1 DEF Bridge
  <2> QED BY <1>4, <2>1, <2>2, <2>3 DEF SyncReads
<1>5. CASE SyncEnds(r)
  <2> DEFINE c == [b EXCEPT !.sync = "idle"]
  <2>1. SetBridge(r, c) /\ UNCHANGED reg /\ b.sync = "ending"  BY <1>5 DEF SyncEnds
  <2>2. /\ c \in Bridge /\ c.waits = b.waits /\ c.step = b.step /\ c.owed = b.owed /\ c.sync = "idle"
        /\ c.failed = b.failed /\ c.conns = b.conns /\ c.works = b.works
    BY <1>1 DEF Bridge
  <2> HIDE DEF x, b, c
  <2>3. Sound(x, c)
    BY <1>1, <2>1, <2>2 DEF Sound, HoldsNothing, Reconnects, NotYet, Waited, Before, Closed, Bridge
  <2> QED BY <2>1, <2>3, OneSound DEF x
<1> QED BY <1>2, <1>3, <1>4, <1>5 DEF Syncs

LEMMA PushSound ==
  ASSUME Registered, NEW f \in Frames, Push(f)
  PROVE  Registered'
<1> DEFINE on == {r \in Registries : reg[r].sock = "on" /\ Active(r)}
<1>1. UNCHANGED reg
      /\ bridge' = [r \in Registries |-> IF r \in on /\ bridge[r].step \notin {"ready", "gone"}
                                         THEN [bridge[r] EXCEPT !.owed = @ \cup {f}] ELSE bridge[r]]
  BY DEF Push
<1>2. ASSUME NEW r \in Registries PROVE Sound(reg[r], bridge'[r])
  <2> DEFINE b == bridge[r]
  <2> DEFINE c == [b EXCEPT !.owed = @ \cup {f}]
  <2>1. b \in Bridge /\ Sound(reg[r], b)  BY DEF Registered
  <2>2. CASE r \in on /\ b.step \notin {"ready", "gone"}
    <3>1. bridge'[r] = c  BY <1>1, <2>2
    <3>2. /\ c \in Bridge /\ c.waits = b.waits /\ c.step = b.step /\ c.sync = b.sync
          /\ c.failed = b.failed /\ c.conns = b.conns /\ c.works = b.works
      BY <2>1 DEF Bridge
    <3>3. reg[r].sock = "on"  BY <2>2
    <3> HIDE DEF b, c
    <3>4. Sound(reg[r], c)
      BY <2>1, <2>2, <3>2, <3>3 DEF Sound, HoldsNothing, Reconnects, NotYet, Waited, Before, Closed
    <3> QED BY <3>1, <3>4
  <2>3. CASE ~(r \in on /\ b.step \notin {"ready", "gone"})
    BY <1>1, <2>1, <2>3
  <2> QED BY <2>2, <2>3
<1> QED BY <1>1, <1>2 DEF Registered, Sound

LEMMA RegisteredInit ==
  ASSUME RtInit
  PROVE  Registered
<1>1. Unborn \in Registration  BY DEF Unborn, Registration
<1>2. Unbuilt \in Bridge  BY DEF Unbuilt, Bridge
<1>3. Sound(Unborn, Unbuilt)
  <2>1. Unborn.life = "none" /\ Unborn.step = "none" /\ Unborn.sock = "off" /\ Unborn.hooks = "none"
        /\ Unborn.dials = FALSE /\ Unborn.redials = FALSE
    BY DEF Unborn
  <2>2. Unbuilt.step = "none" /\ Unbuilt.owed = {} /\ Unbuilt.sync = "idle"
    BY DEF Unbuilt
  <2> QED BY <1>1, <1>2, <2>1, <2>2 DEF Sound, HoldsNothing, Reconnects, NotYet, Waited, Before, Closed
<1> QED BY <1>1, <1>2, <1>3 DEF RtInit, Registered

LEMMA RegisteredNext ==
  ASSUME Registered, RuntimeActs \/ UNCHANGED rtVars
  PROVE  Registered'
<1>1. CASE \E r \in Registries : Start(r) \/ Setup(r) \/ SetupFails(r) \/ Stop(r) \/ Prepared(r)
  BY <1>1, StartSound, SetupSound, SetupFailsSound, StopSound
<1>2. CASE \E r \in Registries : Works(r)
  BY <1>2, QuietSound, AcceptedSound, SyncsSound, BridgeStartsSound DEF Works
<1>3. CASE Pushes
  BY <1>3, PushSound DEF Pushes
<1>4. CASE Hooks \/ UNCHANGED rtVars
  BY <1>4 DEF Hooks, Emit, Proxy, rtVars, Registered
<1> QED BY <1>1, <1>2, <1>3, <1>4 DEF RuntimeActs

\* For every value of the constants: whatever awaits of its setup or its bridge come back
\* later, a registration that was retired holds nothing but the socket of a reconnect that
\* its retirement found under way.  (registration-lifecycle.ts, ws-service.ts)
THEOREM RetiredHoldsNothing == ApprovalsSpec => []NothingLeft
<1>1. ApprovalsInit => Registered
  BY Starts, RegisteredInit
<1>2. Registered /\ [ApprovalsNext]_pluginVars => Registered'
  BY RuntimeSteps, RegisteredNext
<1>3. Registered => NothingLeft
  BY DEF Registered, Sound, HoldsNothing, NothingLeft
<1> QED BY <1>1, <1>2, <1>3, PTL DEF ApprovalsSpec

\* For every value of the constants: a decision that the kernel pushed before the
\* bridge had a handler is read from the log once it has one, or that failed.  (#53)
THEOREM NoPushIsLost == ApprovalsSpec => []DroppedIsRead
<1>1. ApprovalsInit => Registered
  BY Starts, RegisteredInit
<1>2. Registered /\ [ApprovalsNext]_pluginVars => Registered'
  BY RuntimeSteps, RegisteredNext
<1>3. Registered => DroppedIsRead
  BY DEF Registered, Sound, Waited, DroppedIsRead, Active
<1> QED BY <1>1, <1>2, <1>3, PTL DEF ApprovalsSpec

-----------------------------------------------------------------------------
(* The host's events.                                                      *)

HookEvent == [left : SUBSET Registries, emitted : BOOLEAN, seen : BOOLEAN, by : 0..1,
              due : Registries \cup {None}]

\* The owner for whom an event was due has its handlers in place as long as it is
\* active; the event was handled by it, or is still on its way round.
Dispatches(x) ==
  /\ ~x.seen => x.by = 0
  /\ ~x.emitted => x.left = {} /\ ~x.seen /\ x.due = None
  /\ x.due # None =>
       /\ reg[x.due].life # "none"
       /\ Active(x.due) => /\ reg[x.due].hooks = "all"
                           /\ IF x.seen THEN x.by = 1 ELSE x.left # {}

HooksInv ==
  /\ Registered /\ cur \in Registries \cup {None}
  /\ \A r \in Registries : Active(r) => cur = r
  /\ event \in [Events -> HookEvent]
  /\ \A e \in Events : Dispatches(event[e])

LEMMA HooksInit ==
  ASSUME RtInit
  PROVE  HooksInv
<1>1. Registered  BY RegisteredInit
<1> DEFINE x == [left |-> {}, emitted |-> FALSE, seen |-> FALSE, by |-> 0, due |-> None]
<1>2. x \in HookEvent  BY DEF HookEvent
<1>3. Dispatches(x)  BY DEF Dispatches
<1>4. event \in [Events -> HookEvent] /\ \A e \in Events : event[e] = x
  BY <1>2 DEF RtInit
<1>5. cur = None /\ \A r \in Registries : ~Active(r)
  BY DEF RtInit, Active, Unborn
<1> QED BY <1>1, <1>3, <1>4, <1>5 DEF HooksInv

\* What a step of the registrations may do to one: an active one was active, or is
\* the one started; a handler once in place stays while it is active.
Owns(r) == reg'[r].life = "active" =>
  \/ /\ reg[r].life = "active" /\ UNCHANGED cur
     /\ reg[r].hooks = "all" => reg'[r].hooks = "all"
  \/ reg[r].life = "none" /\ cur' = r
Lasts(r) == reg'[r].life = "none" => reg[r].life = "none"

LEMMA HooksStay ==
  ASSUME HooksInv, Registered', cur' \in Registries \cup {None},
         UNCHANGED event, \A r \in Registries : Owns(r) /\ Lasts(r)
  PROVE  HooksInv'
<1>1. ASSUME NEW e \in Events PROVE Dispatches(event[e])'
  <2>1. event[e] \in HookEvent /\ Dispatches(event[e])  BY DEF HooksInv
  <2>2. CASE event[e].due = None  BY <2>1, <2>2 DEF Dispatches
  <2>3. CASE event[e].due # None
    <3>1. event[e].due \in Registries  BY <2>1, <2>3 DEF HookEvent
    <3> QED BY <2>1, <2>3, <3>1 DEF Dispatches, Owns, Lasts, Active
  <2> QED BY <2>2, <2>3
<1>2. \A r \in Registries : Active(r)' => cur' = r
  BY DEF HooksInv, Owns, Active
<1> QED BY <1>1, <1>2 DEF HooksInv

LEMMA StartOwns ==
  ASSUME HooksInv, NEW q \in Registries, Start(q)
  PROVE  /\ cur' \in Registries \cup {None} /\ UNCHANGED event
         /\ \A r \in Registries : Owns(r) /\ Lasts(r)
<1>1. ASSUME NEW r \in Registries PROVE Owns(r) /\ Lasts(r)
  <2>1. reg[r] \in Registration /\ reg[q] \in Registration  BY DEF HooksInv, Registered
  <2>2. CASE r = q
    BY <2>1, <2>2 DEF Owns, Lasts, Start, Started, Registration
  <2>3. CASE r # q /\ Active(r)
    <3>1. r = Owner  BY <2>3, RuntimeAssumption DEF HooksInv, Owner
    <3>2. reg'[r].life = "aborted"
      BY <2>1, <2>3, <3>1 DEF Start, Retired, Registration
    <3> QED BY <3>2 DEF Owns, Lasts
  <2>4. CASE r # q /\ ~Active(r)
    <3>1. r # Owner  BY <2>4, RuntimeAssumption DEF Owner
    <3> QED BY <2>4, <3>1 DEF Start, Owns, Lasts, Active
  <2> QED BY <2>2, <2>3, <2>4
<1> QED BY <1>1 DEF Start

\* Every other step keeps a life, or ends it.
LEMMA LifeGoesOn ==
  ASSUME HooksInv, NEW q \in Registries, UNCHANGED <<cur, event>>, NEW x,
         SetReg(q, x) \/ (UNCHANGED reg /\ x = reg[q]),
         x.life = reg[q].life \/ x.life = "aborted",
         x.life = "active" /\ reg[q].hooks = "all" => x.hooks = "all"
  PROVE  /\ cur' \in Registries \cup {None} /\ UNCHANGED event
         /\ \A r \in Registries : Owns(r) /\ Lasts(r)
  BY DEF HooksInv, Registered, SetReg, Owns, Lasts

LEMMA StepOwns ==
  ASSUME HooksInv, NEW q \in Registries,
         Setup(q) \/ SetupFails(q) \/ Stop(q) \/ Prepared(q) \/ Works(q)
  PROVE  /\ cur' \in Registries \cup {None} /\ UNCHANGED event
         /\ \A r \in Registries : Owns(r) /\ Lasts(r)
<1>1. reg[q] \in Registration /\ NotYet(reg[q], bridge[q]) /\ UNCHANGED <<cur, event>>
  BY DEF HooksInv, Registered, Sound, Setup, SetupFails, Stop, Prepared, Works, Drains, StopReturns,
         ConnectLands, Accepted, SocketLost, Redials, Redialed, Periodic, BridgeStarts, Secrets, Loaded, Created,
         Connected, Preflighted, Reconciled, HandedOver, Syncs, SyncAsked, SyncReads, SyncEnds
<1>2. CASE Setup(q) \/ Prepared(q)
  <2>1. reg[q].hooks # "all"
    BY <1>1, <1>2 DEF Setup, Prepared, NotYet, Before
  <2>2. \E x : SetReg(q, x) /\ x.life = reg[q].life
    <3>1. ASSUME NEW n \in 1..Len(PartsOf(q)), Build(q, n)
          PROVE  \E x : SetReg(q, x) /\ x.life = reg[q].life
      <4> DEFINE whole == n = Len(PartsOf(q))
      <4> DEFINE x == [reg[q] EXCEPT !.open = {PartsOf(q)[i] : i \in 1..n} \ {"bridge"},
                                     !.step = IF whole THEN "starting" ELSE "failing",
                                     !.hooks = IF whole THEN "all" ELSE "some",
                                     !.sock = IF whole THEN "connecting" ELSE "off", !.dials = whole]
      <4>1. SetReg(q, x)  BY <3>1 DEF Build
      <4>2. x.life = reg[q].life  BY <1>1 DEF Registration
      <4> HIDE DEF x
      <4> QED BY <4>1, <4>2
    <3>2. ASSUME NEW s \in {"preparing", "done"}, NEW h
          PROVE  /\ [reg[q] EXCEPT !.step = s].life = reg[q].life
                 /\ [reg[q] EXCEPT !.step = s, !.hooks = h].life = reg[q].life
      BY <1>1 DEF Registration
    <3>3. \/ \E n \in 1..Len(PartsOf(q)) : Build(q, n)
          \/ SetReg(q, [reg[q] EXCEPT !.step = "done"])
          \/ SetReg(q, [reg[q] EXCEPT !.step = "preparing", !.hooks = "some"])
      BY <1>2 DEF Setup, Prepared
    <3> QED BY <3>1, <3>2, <3>3
  <2> QED BY <1>1, <2>1, <2>2, LifeGoesOn
<1>3. CASE Stop(q)
  <2>1. CASE Active(q)
    <3> DEFINE x == [Retired(q, reg[q]) EXCEPT !.stops = TRUE]
    <3>1. SetReg(q, x)  BY <1>3, <2>1 DEF Stop, SetReg, HooksInv, Registered
    <3>2. x.life = "aborted"  BY <1>1 DEF Retired, Registration
    <3> QED BY <1>1, <3>1, <3>2, LifeGoesOn
  <2>2. CASE ~Active(q)
    <3> DEFINE x == [reg[q] EXCEPT !.stops = TRUE]
    <3>1. SetReg(q, x)  BY <1>3, <2>2 DEF Stop, SetReg, HooksInv, Registered
    <3>2. x.life = reg[q].life /\ x.hooks = reg[q].hooks  BY <1>1 DEF Registration
    <3> HIDE DEF x
    <3> QED BY <1>1, <3>1, <3>2, LifeGoesOn
  <2> QED BY <2>1, <2>2
<1>4. CASE SetupFails(q)
  <2> DEFINE x == [(IF Active(q) THEN Retired(q, reg[q]) ELSE reg[q]) EXCEPT !.step = "done"]
  <2>1. SetReg(q, x)  BY <1>4 DEF SetupFails
  <2>2. (x.life = reg[q].life \/ x.life = "aborted") /\ (x.life = "active" => x.hooks = reg[q].hooks)
    <3>1. CASE Active(q)  BY <1>1, <3>1 DEF Retired, Registration
    <3>2. CASE ~Active(q)  BY <1>1, <3>2 DEF Registration
    <3> QED BY <3>1, <3>2
  <2> HIDE DEF x
  <2> QED BY <1>1, <2>1, <2>2, LifeGoesOn
<1>5. CASE \/ Drains(q) \/ StopReturns(q) \/ ConnectLands(q) \/ Accepted(q) \/ SocketLost(q)
          \/ Redials(q) \/ Redialed(q)
  <2>1. \E x : SetReg(q, x) /\ x.life = reg[q].life /\ x.hooks = reg[q].hooks
    <3>1. CASE Drains(q)
      <4>1. PICK p \in reg[q].drains : SetReg(q, [reg[q] EXCEPT !.drains = @ \ {p}])
        BY <3>1 DEF Drains
      <4>2. [reg[q] EXCEPT !.drains = @ \ {p}].life = reg[q].life
            /\ [reg[q] EXCEPT !.drains = @ \ {p}].hooks = reg[q].hooks
        BY <1>1 DEF Registration
      <4> QED BY <4>1, <4>2
    <3>2. CASE StopReturns(q)
      <4>1. SetReg(q, [reg[q] EXCEPT !.stops = FALSE])  BY <3>2 DEF StopReturns
      <4>2. [reg[q] EXCEPT !.stops = FALSE].life = reg[q].life
            /\ [reg[q] EXCEPT !.stops = FALSE].hooks = reg[q].hooks
        BY <1>1 DEF Registration
      <4> QED BY <4>1, <4>2
    <3>4. CASE ConnectLands(q)
      <4>1. PICK s \in {Dialed(q), Again(q)} :
              SetReg(q, [reg[q] EXCEPT !.dials = FALSE, !.step = "done", !.sock = s])
        BY <3>4 DEF ConnectLands
      <4> DEFINE x == [reg[q] EXCEPT !.dials = FALSE, !.step = "done", !.sock = s]
      <4>2. x.life = reg[q].life /\ x.hooks = reg[q].hooks  BY <1>1 DEF Registration
      <4> HIDE DEF x
      <4> QED BY <4>1, <4>2 DEF x
    <3>5. CASE Accepted(q)
      <4> DEFINE x == [reg[q] EXCEPT !.sock = "on"]
      <4>1. SetReg(q, x)  BY <3>5 DEF Accepted
      <4>2. x.life = reg[q].life /\ x.hooks = reg[q].hooks  BY <1>1 DEF Registration
      <4> HIDE DEF x
      <4> QED BY <4>1, <4>2
    <3>6. CASE SocketLost(q)
      <4> DEFINE x == [reg[q] EXCEPT !.sock = Again(q), !.late = FALSE]
      <4>1. SetReg(q, x)  BY <3>6 DEF SocketLost
      <4>2. x.life = reg[q].life /\ x.hooks = reg[q].hooks  BY <1>1 DEF Registration
      <4> HIDE DEF x
      <4> QED BY <4>1, <4>2
    <3>7. CASE Redials(q)
      <4> DEFINE x == [reg[q] EXCEPT !.sock = "connecting", !.redials = TRUE]
      <4>1. SetReg(q, x)  BY <3>7 DEF Redials
      <4>2. x.life = reg[q].life /\ x.hooks = reg[q].hooks  BY <1>1 DEF Registration
      <4> HIDE DEF x
      <4> QED BY <4>1, <4>2
    <3>8. CASE Redialed(q)
      <4> DEFINE x == [reg[q] EXCEPT !.redials = FALSE, !.sock = "made"]
      <4> DEFINE y == [reg[q] EXCEPT !.redials = FALSE, !.sock = Again(q), !.late = FALSE]
      <4>1. SetReg(q, x) \/ SetReg(q, y)  BY <3>8 DEF Redialed
      <4>2. /\ x.life = reg[q].life /\ x.hooks = reg[q].hooks
            /\ y.life = reg[q].life /\ y.hooks = reg[q].hooks
        BY <1>1 DEF Registration
      <4> HIDE DEF x, y
      <4> QED BY <4>1, <4>2
    <3> QED BY <1>5, <3>1, <3>2, <3>4, <3>5, <3>6, <3>7, <3>8
  <2> QED BY <1>1, <2>1, LifeGoesOn
<1>6. CASE Periodic(q) \/ BridgeStarts(q) \/ Syncs(q)
  <2>1. UNCHANGED reg
    BY <1>6 DEF Periodic, BridgeStarts, Secrets, Loaded, Created, Connected, Preflighted, Reconciled,
                HandedOver, Syncs, SyncAsked, SyncReads, SyncEnds
  <2> QED BY <1>1, <2>1, LifeGoesOn
<1> QED BY <1>2, <1>3, <1>4, <1>5, <1>6 DEF Works

LEMMA HooksNext ==
  ASSUME HooksInv, RuntimeActs \/ UNCHANGED rtVars
  PROVE  HooksInv'
<1>1. Registered'
  BY RegisteredNext DEF HooksInv
<1>2. CASE \E r \in Registries : Start(r)
  BY <1>1, <1>2, StartOwns, HooksStay
<1>3. CASE \E r \in Registries : Setup(r) \/ SetupFails(r) \/ Stop(r) \/ Prepared(r) \/ Works(r)
  BY <1>1, <1>3, StepOwns, HooksStay
<1>4. CASE Pushes \/ UNCHANGED rtVars
  <2>1. UNCHANGED <<cur, reg, event>>  BY <1>4 DEF Pushes, Push, rtVars
  <2>2. \A r \in Registries : Owns(r) /\ Lasts(r)  BY <2>1 DEF Owns, Lasts
  <2> QED BY <1>1, <2>1, <2>2, HooksStay DEF HooksInv
<1>5. ASSUME NEW e \in Events, NEW x \in HookEvent, event' = [event EXCEPT ![e] = x],
             UNCHANGED <<cur, reg>>, Dispatches(x)
      PROVE  HooksInv'
  BY <1>1, <1>5 DEF HooksInv, Dispatches, Active
<1>6. ASSUME NEW e \in Events, Emit(e) PROVE HooksInv'
  <2>1. PICK R \in (SUBSET Registries) \ {{}} :
          event' = [event EXCEPT ![e].emitted = TRUE, ![e].left = R,
                      ![e].due = IF Owner # None /\ reg[Owner].hooks = "all" THEN Owner ELSE None]
    BY <1>6 DEF Emit
  <2>2. event[e] \in HookEvent /\ Dispatches(event[e]) /\ ~event[e].emitted
    BY <1>6 DEF HooksInv, Emit
  <2> DEFINE d == IF Owner # None /\ reg[Owner].hooks = "all" THEN Owner ELSE None
  <2>3. /\ d \in Registries \cup {None}
        /\ d # None => d \in Registries /\ reg[d].life # "none" /\ reg[d].hooks = "all"
    BY DEF HooksInv, Owner, Active
  <2> HIDE DEF d
  <2> DEFINE x == [event[e] EXCEPT !.emitted = TRUE, !.left = R, !.due = d]
  <2>4. /\ x \in HookEvent /\ x.seen = event[e].seen /\ x.by = event[e].by /\ x.emitted
        /\ x.left = R /\ x.due = d
    BY <2>2, <2>3 DEF HookEvent
  <2>5. event' = [event EXCEPT ![e] = x]
    BY <2>1, <2>2 DEF d, HooksInv
  <2> HIDE DEF x
  <2>6. Dispatches(x)
    BY <2>2, <2>3, <2>4 DEF Dispatches
  <2>7. UNCHANGED <<cur, reg>>  BY <1>6 DEF Emit
  <2> QED BY <1>5, <2>4, <2>5, <2>6, <2>7
<1>7. ASSUME NEW e \in Events, NEW r \in Registries, Proxy(e, r) PROVE HooksInv'
  <2>1. event[e] \in HookEvent /\ Dispatches(event[e]) /\ r \in event[e].left /\ UNCHANGED <<cur, reg>>
    BY <1>7 DEF HooksInv, Proxy
  <2> DEFINE z == event[e]
  <2>2. CASE Owner = None \/ z.seen
    <3> DEFINE x == [z EXCEPT !.left = @ \ {r}]
    <3>1. event' = [event EXCEPT ![e] = x]  BY <1>7, <2>2 DEF Proxy, Dispatched
    <3>2. /\ x \in HookEvent /\ x.seen = z.seen /\ x.by = z.by /\ x.emitted = z.emitted
          /\ x.due = z.due
      BY <2>1 DEF HookEvent
    <3>3. Active(z.due) /\ z.due # None => z.seen
      BY <2>1, <2>2 DEF HookEvent, HooksInv, Owner, Active
    <3> HIDE DEF x
    <3>4. z.emitted  BY <2>1 DEF Dispatches
    <3>5. Dispatches(x)
      BY <2>1, <3>2, <3>3, <3>4 DEF Dispatches
    <3> QED BY <1>5, <2>1, <3>1, <3>2, <3>5
  <2>3. CASE Owner # None /\ ~z.seen
    <3> DEFINE k == IF reg[Owner].hooks = "all" THEN 1 ELSE 0
    <3> DEFINE x == [z EXCEPT !.left = @ \ {r}, !.seen = TRUE, !.by = @ + k]
    <3>1. event' = [event EXCEPT ![e] = x]  BY <1>7, <2>3 DEF Proxy, Dispatched
    <3>2. z.by = 0  BY <2>1, <2>3 DEF Dispatches
    <3>3. k \in 0..1  OBVIOUS
    <3>4. Active(z.due) /\ z.due # None => k = 1
      BY <2>1, <2>3 DEF HookEvent, HooksInv, Owner, Dispatches
    <3>6. z \in HookEvent /\ Dispatches(z) /\ z.emitted  BY <2>1 DEF Dispatches
    <3> HIDE DEF k, z
    <3>8. [z EXCEPT !.left = @ \ {r}, !.seen = TRUE, !.by = @ + k]
            = [z EXCEPT !.left = @ \ {r}, !.seen = TRUE, !.by = k]
      <4>1. z.by + k = k  BY <3>2, <3>3
      <4> QED BY <4>1
    <3>9. LET y == [z EXCEPT !.left = @ \ {r}, !.seen = TRUE, !.by = k] IN
          y \in HookEvent /\ y.seen = TRUE /\ y.by = k /\ y.emitted = z.emitted /\ y.due = z.due
      BY <3>3, <3>6 DEF HookEvent
    <3>5. x \in HookEvent /\ x.seen = TRUE /\ x.by = k /\ x.emitted = z.emitted /\ x.due = z.due
      BY <3>8, <3>9
    <3> HIDE DEF x
    <3>7. Dispatches(x)
      BY <3>4, <3>5, <3>6 DEF Dispatches
    <3> QED BY <1>5, <2>1, <3>1, <3>5, <3>7
  <2> QED BY <2>2, <2>3
<1> QED BY <1>2, <1>3, <1>4, <1>6, <1>7 DEF RuntimeActs, Hooks

\* For every value of the constants: an event is handled at most once, and exactly
\* once when one registration had its handlers in place.  (alreadyDispatched, #92)
THEOREM EventHandledOnce == ApprovalsSpec => []HandledOnce
<1>1. ApprovalsInit => HooksInv
  BY Starts, HooksInit
<1>2. HooksInv /\ [ApprovalsNext]_pluginVars => HooksInv'
  BY RuntimeSteps, HooksNext
<1>3. HooksInv => HandledOnce
  <2> SUFFICES ASSUME HooksInv, NEW e \in Events
               PROVE  /\ event[e].by <= 1
                      /\ (event[e].emitted /\ event[e].left = {} /\ event[e].due # None
                            /\ Active(event[e].due) => event[e].by = 1)
    BY DEF HandledOnce
  <2>1. event[e] \in HookEvent /\ Dispatches(event[e])  BY DEF HooksInv
  <2>2. event[e].by \in 0..1  BY <2>1 DEF HookEvent
  <2> QED BY <2>1, <2>2 DEF Dispatches
<1> QED BY <1>1, <1>2, <1>3, PTL DEF ApprovalsSpec

-----------------------------------------------------------------------------
(* The allow list (CatalogPolicy).                                         *)

Snapshots == [allow : SUBSET Policy!Refs, follows : BOOLEAN]
Proposal == [delta : Policy!Deltas, id : Nat, dismissed : BOOLEAN]
CatalogCard == [id : Nat, delta : Policy!Deltas]
Reading == [step : {"idle", "read", "identify", "written"}, seen : Snapshots, delta : Policy!Deltas]
Resolution ==
  [step : {"idle", "read", "patch", "patched", "forget", "written"}, card : CatalogCard,
   approve : BOOLEAN, seen : Snapshots]

PolicyTypes ==
  /\ allow \subseteq Policy!Refs /\ follows \in BOOLEAN
  /\ discovered \in BOOLEAN /\ names \subseteq Policy!Names
  /\ prop \in Proposal /\ kept \in Proposal
  /\ reader \in [Readers -> Reading] /\ res \in Resolution
  /\ cards \subseteq CatalogCard /\ spent \subseteq Nat /\ ids \in Nat

\* Ids are given out in order, to cards too, and an approval that is being applied
\* has left the memory.
IdsInv ==
  /\ prop.id \in 0..ids /\ kept.id \in 0..ids
  /\ \A c \in cards : c.id \in 1..ids
  /\ spent \subseteq 1..ids
  /\ res.step # "idle" => res.card \in cards
  /\ res.step = "forget" /\ res.approve => prop.id # res.card.id
  /\ prop.id \notin spent /\ kept.id \notin spent

\* What is to be patched is a delta of the configuration that was read.
Computed ==
  res.step = "patch" =>
    /\ res.card.delta # Policy!NoDelta
    /\ \E found \in SUBSET Policy!Names : res.card.delta = Policy!DeltaOf(res.seen, found)

PolicyInv == PolicyTypes /\ IdsInv /\ Computed

LEMMA EmptyPolicyRecords ==
  /\ Policy!NoDelta \in Policy!Deltas /\ Policy!Nobody \in Proposal
  /\ Policy!NoRead \in Reading /\ Policy!NoResolve \in Resolution
  /\ Policy!Nobody.id = 0 /\ Policy!NoResolve.step = "idle"
<1>1. Policy!NoDelta \in Policy!Deltas
  BY DEF Policy!NoDelta, Policy!Deltas
<1>2. Policy!Nobody \in Proposal /\ Policy!Nobody.id = 0
  BY <1>1 DEF Policy!Nobody, Proposal
<1>3. Policy!Snapshot({}, FALSE) \in Snapshots
  BY DEF Policy!Snapshot, Snapshots
<1>4. Policy!NoRead \in Reading
  BY <1>1, <1>3 DEF Policy!NoRead, Reading
<1>5. Policy!NoCard \in CatalogCard
  BY <1>1 DEF Policy!NoCard, CatalogCard
<1>6. Policy!NoResolve \in Resolution /\ Policy!NoResolve.step = "idle"
  BY <1>3, <1>5 DEF Policy!NoResolve, Resolution
<1> QED BY <1>1, <1>2, <1>4, <1>6

LEMMA DeltaIsDelta ==
  ASSUME NEW s \in Snapshots, NEW found \in SUBSET Policy!Names
  PROVE  Policy!DeltaOf(s, found) \in Policy!Deltas
<1> DEFINE add == Policy!Added(s.allow, found)
<1> DEFINE remove == Policy!Removed(s.allow, found)
<1>1. add \in SUBSET Policy!Refs
  BY DEF Policy!Added, Policy!Refs
<1>2. remove \in SUBSET Policy!Refs
  BY DEF Policy!Removed, Policy!Refs
<1>3. Policy!Floats(s, found) \in BOOLEAN /\ Policy!Empties(s, add, remove) \in BOOLEAN
  BY DEF Policy!Floats, Policy!Empties
<1> HIDE DEF add, remove
<1>4. [add |-> add, remove |-> remove, float |-> Policy!Floats(s, found),
       empties |-> Policy!Empties(s, add, remove)] \in Policy!Deltas
  BY <1>1, <1>2, <1>3 DEF Policy!Deltas
<1> QED BY <1>4, EmptyPolicyRecords DEF Policy!DeltaOf, add, remove

\* identify: the proposal of a delta is the one there was, or has an id of its own.
LEMMA IdentifiedAnew ==
  ASSUME PolicyTypes, IdsInv, NEW delta \in Policy!Deltas, Policy!Identify(delta)
  PROVE  /\ prop' \in Proposal /\ ids' \in Nat /\ ids <= ids'
         /\ prop'.id \in 0..ids'
         /\ prop'.id \in {0, prop.id, ids + 1}
         /\ UNCHANGED <<prop, ids>> \/ prop'.id \in {0, ids + 1}
         /\ prop'.id \notin spent
<1>1. CASE Policy!Known(delta)
  BY <1>1 DEF Policy!Identify, PolicyTypes, IdsInv, Proposal
<1>2. CASE ~Policy!Known(delta) /\ delta = Policy!NoDelta
  <2>1. prop' = Policy!Nobody /\ ids' = ids  BY <1>2 DEF Policy!Identify
  <2> QED BY <2>1, EmptyPolicyRecords DEF PolicyTypes, IdsInv
<1>3. CASE ~Policy!Known(delta) /\ delta # Policy!NoDelta
  <2>1. ids' = ids + 1 /\ prop' = [delta |-> delta, id |-> ids + 1, dismissed |-> FALSE]
    BY <1>3 DEF Policy!Identify
  <2>2. prop' \in Proposal /\ prop'.id = ids + 1
    BY <2>1 DEF Proposal, PolicyTypes
  <2> QED BY <2>1, <2>2 DEF PolicyTypes, IdsInv
<1> QED BY <1>1, <1>2, <1>3

LEMMA ReadersKeep ==
  ASSUME PolicyInv, NEW r \in Readers,
         \/ Policy!Asks(r) \/ Policy!Reads(r) \/ Policy!ReadFails(r) \/ Policy!Persists(r)
         \/ Policy!Requests(r)
  PROVE  PolicyInv'
<1>1. /\ reader \in [Readers -> Reading] /\ reader[r] \in Reading /\ reader[r].seen \in Snapshots
      /\ reader[r].delta \in Policy!Deltas /\ names \in SUBSET Policy!Names
  BY DEF PolicyInv, PolicyTypes, Reading
<1>2. ASSUME NEW x \in Reading, Policy!Reader(r, x) PROVE reader' \in [Readers -> Reading]
  BY <1>1, <1>2 DEF Policy!Reader
<1>3. CASE Policy!Asks(r)
  <2>1. Policy!Snapshot(allow, follows) \in Snapshots
    BY DEF PolicyInv, PolicyTypes, Policy!Snapshot, Snapshots
  <2>2. [Policy!NoRead EXCEPT !.step = "read", !.seen = Policy!Snapshot(allow, follows)] \in Reading
    BY <2>1, EmptyPolicyRecords DEF Reading
  <2>3. reader' \in [Readers -> Reading]  BY <1>2, <1>3, <2>2 DEF Policy!Asks
  <2> QED BY <1>3, <2>3 DEF Policy!Asks, Policy!config, Policy!discovery, PolicyInv, PolicyTypes, IdsInv, Computed
<1>4. CASE Policy!Reads(r)
  <2>1. UNCHANGED <<allow, follows, discovered, names, kept, res, cards, spent>>
    BY <1>4 DEF Policy!Reads, Policy!config, Policy!discovery
  <2>2. CASE UNCHANGED <<prop, ids>> /\ reader' \in [Readers -> Reading]
    BY <2>1, <2>2 DEF PolicyInv, PolicyTypes, IdsInv, Computed
  <2>3. CASE ~discovered
    <3>1. Policy!Reader(r, Policy!NoRead) /\ UNCHANGED <<prop, ids>>  BY <1>4, <2>3 DEF Policy!Reads
    <3> QED BY <1>2, <2>2, <3>1, EmptyPolicyRecords
  <2>4. CASE discovered
    <3> DEFINE delta == Policy!DeltaOf(reader[r].seen, names)
    <3> DEFINE x == [reader[r] EXCEPT !.delta = delta,
                       !.step = IF Policy!Known(delta) THEN "written" ELSE "identify"]
    <3>1. delta \in Policy!Deltas  BY <1>1, DeltaIsDelta
    <3>2. Policy!Identify(delta) /\ Policy!Reader(r, x)  BY <1>4, <2>4 DEF Policy!Reads
    <3> HIDE DEF delta
    <3>3. x \in Reading  BY <1>1, <3>1 DEF Reading
    <3>4. reader' \in [Readers -> Reading]  BY <1>2, <3>2, <3>3
    <3>5. /\ prop' \in Proposal /\ ids' \in Nat /\ ids <= ids' /\ prop'.id \in 0..ids'
          /\ UNCHANGED <<prop, ids>> \/ prop'.id \in {0, ids + 1}
          /\ prop'.id \notin spent
      BY <3>1, <3>2, IdentifiedAnew DEF PolicyInv
    <3>6. PolicyTypes'  BY <2>1, <3>4, <3>5 DEF PolicyInv, PolicyTypes
    <3>7. IdsInv'
      <4>1. ids \in Nat  BY DEF PolicyInv, PolicyTypes
      <4>2. \A c \in cards : c.id \in 1..ids'  BY <3>5, <4>1 DEF PolicyInv, IdsInv
      <4>3. spent \subseteq 1..ids' /\ kept.id \in 0..ids'  BY <3>5, <4>1 DEF PolicyInv, IdsInv
      <4>4. res.step = "forget" /\ res.approve => prop'.id # res.card.id
        <5>1. res.step = "forget" => res.card.id \in 1..ids  BY DEF PolicyInv, IdsInv
        <5> QED BY <3>5, <4>1, <5>1 DEF PolicyInv, IdsInv
      <4> QED BY <2>1, <3>5, <4>2, <4>3, <4>4 DEF PolicyInv, IdsInv
    <3> QED BY <2>1, <3>6, <3>7 DEF PolicyInv, Computed
  <2> QED BY <1>1, <2>3, <2>4 DEF PolicyInv, PolicyTypes
<1>5. CASE Policy!ReadFails(r)
  <2>1. reader' \in [Readers -> Reading]
    BY <1>2, <1>5, EmptyPolicyRecords DEF Policy!ReadFails
  <2> QED BY <1>5, <2>1 DEF Policy!ReadFails, Policy!config, Policy!discovery, PolicyInv, PolicyTypes, IdsInv, Computed
<1>6. CASE Policy!Persists(r)
  <2>1. [reader[r] EXCEPT !.step = "written"] \in Reading  BY <1>1 DEF Reading
  <2>2. reader' \in [Readers -> Reading]
    BY <1>2, <1>6, <2>1, EmptyPolicyRecords DEF Policy!Persists
  <2>3. kept' \in {prop, kept}  BY <1>6 DEF Policy!Persists
  <2> QED BY <1>6, <2>2, <2>3 DEF Policy!Persists, Policy!config, Policy!discovery, PolicyInv, PolicyTypes, IdsInv, Computed
<1>7. CASE Policy!Requests(r)
  <2>1. reader' \in [Readers -> Reading]
    BY <1>2, <1>7, EmptyPolicyRecords DEF Policy!Requests
  <2> DEFINE c == [id |-> prop.id, delta |-> reader[r].delta]
  <2>2. cards' = cards \/ (cards' = cards \cup {c} /\ prop.id # 0)  BY <1>7 DEF Policy!Requests
  <2>3. prop \in Proposal /\ prop.id \in 0..ids /\ ids \in Nat  BY DEF PolicyInv, PolicyTypes, IdsInv
  <2>4. c \in CatalogCard /\ c.id = prop.id  BY <1>1, <2>3 DEF CatalogCard, Proposal
  <2> HIDE DEF c
  <2>5. cards' \subseteq CatalogCard /\ cards \subseteq cards' /\ \A d \in cards' : d.id \in 1..ids
    BY <2>2, <2>3, <2>4 DEF PolicyInv, PolicyTypes, IdsInv
  <2> QED BY <1>7, <2>1, <2>5 DEF Policy!Requests, Policy!config, Policy!discovery, PolicyInv, PolicyTypes, IdsInv, Computed
<1> QED BY <1>3, <1>4, <1>5, <1>6, <1>7

LEMMA DecidesKeeps ==
  ASSUME PolicyInv, NEW c \in cards, NEW approve \in BOOLEAN, Policy!Decides(c, approve)
  PROVE  PolicyInv'
<1> DEFINE x == [step |-> "read", card |-> c, approve |-> approve,
                 seen |-> Policy!Snapshot(allow, follows)]
<1>1. Policy!Snapshot(allow, follows) \in Snapshots
  BY DEF PolicyInv, PolicyTypes, Policy!Snapshot, Snapshots
<1>2. x \in Resolution /\ x.step = "read" /\ x.card = c
  BY <1>1 DEF Resolution, PolicyInv, PolicyTypes
<1>3. res' = x  BY DEF Policy!Decides
<1> HIDE DEF x
<1>4. res' \in Resolution /\ res'.step = "read" /\ res'.card \in cards  BY <1>2, <1>3
<1> QED BY <1>4 DEF Policy!Decides, Policy!config, Policy!discovery, PolicyInv, PolicyTypes, IdsInv, Computed

LEMMA ChecksKeeps ==
  ASSUME PolicyInv, Policy!Checks
  PROVE  PolicyInv'
<1> DEFINE delta == Policy!DeltaOf(res.seen, names)
<1>1. /\ res \in Resolution /\ res.seen \in Snapshots /\ res.card \in CatalogCard /\ res.step = "read"
      /\ names \in SUBSET Policy!Names /\ prop \in Proposal /\ prop.id \in 0..ids /\ ids \in Nat
      /\ res.card \in cards /\ res.card.id \in 1..ids
  BY DEF PolicyInv, PolicyTypes, IdsInv, Resolution, Policy!Checks
<1>2. delta \in Policy!Deltas  BY <1>1, DeltaIsDelta
<1>3. UNCHANGED <<allow, follows, discovered, names, reader, cards, spent>>
  BY DEF Policy!Checks, Policy!config, Policy!discovery
<1>4. CASE res' = Policy!NoResolve /\ UNCHANGED <<prop, kept, ids>>
  BY <1>3, <1>4, EmptyPolicyRecords DEF PolicyInv, PolicyTypes, IdsInv, Computed
<1>5. CASE Policy!Identify(delta) /\ kept' = prop' /\ res' = Policy!NoResolve
  <2> HIDE DEF delta
  <2>1. /\ prop' \in Proposal /\ ids' \in Nat /\ ids <= ids' /\ prop'.id \in 0..ids'
        /\ prop'.id \notin spent
    BY <1>2, <1>5, IdentifiedAnew DEF PolicyInv
  <2>2. PolicyTypes'  BY <1>3, <1>5, <2>1, EmptyPolicyRecords DEF PolicyInv, PolicyTypes
  <2>3. \A c \in cards : c.id \in 1..ids'  BY <1>1, <2>1 DEF PolicyInv, IdsInv
  <2>4. spent \subseteq 1..ids'  BY <1>1, <2>1 DEF PolicyInv, IdsInv
  <2>5. IdsInv'  BY <1>3, <1>5, <2>1, <2>3, <2>4, EmptyPolicyRecords DEF PolicyInv, IdsInv
  <2> QED BY <1>5, <2>2, <2>5, EmptyPolicyRecords DEF PolicyInv, Computed
<1>6. CASE /\ delta # Policy!NoDelta /\ Policy!SameRevision(res.card, delta)
           /\ res' = [res EXCEPT !.step = "patch", !.card.delta = delta] /\ UNCHANGED <<prop, kept, ids>>
  <2>1. res.card.delta = delta  BY <1>6 DEF Policy!SameRevision
  <2> HIDE DEF delta
  <2>2. /\ res' \in Resolution /\ res'.step = "patch" /\ res'.seen = res.seen
        /\ res'.card.delta = delta /\ res'.card.id = res.card.id /\ res'.card \in CatalogCard
    BY <1>1, <1>2, <1>6 DEF Resolution, CatalogCard
  <2>3. res'.card = res.card
    BY <1>1, <2>1, <2>2 DEF CatalogCard
  <2>4. IdsInv'  BY <1>1, <1>3, <1>6, <2>2, <2>3 DEF PolicyInv, IdsInv
  <2>5. PolicyTypes'  BY <1>3, <1>6, <2>2 DEF PolicyInv, PolicyTypes
  <2>6. Computed'
    BY <1>1, <1>6, <2>2 DEF Computed, delta
  <2> QED BY <2>4, <2>5, <2>6 DEF PolicyInv
<1>7. CASE /\ ~res.approve /\ prop' = [prop EXCEPT !.dismissed = TRUE] /\ UNCHANGED <<kept, ids>>
           /\ res' = [res EXCEPT !.step = "forget"]
  <2>1. prop' \in Proposal /\ prop'.id = prop.id  BY <1>1, <1>7 DEF Proposal
  <2>2. /\ res' \in Resolution /\ res'.step = "forget" /\ res'.card = res.card
        /\ res'.approve = res.approve
    BY <1>1, <1>7 DEF Resolution
  <2> QED BY <1>1, <1>3, <1>7, <2>1, <2>2 DEF PolicyInv, PolicyTypes, IdsInv, Computed
<1>8. \/ res' = Policy!NoResolve /\ UNCHANGED <<prop, kept, ids>>
      \/ Policy!Identify(delta) /\ kept' = prop' /\ res' = Policy!NoResolve
      \/ /\ delta # Policy!NoDelta /\ Policy!SameRevision(res.card, delta)
         /\ res' = [res EXCEPT !.step = "patch", !.card.delta = delta] /\ UNCHANGED <<prop, kept, ids>>
      \/ /\ ~res.approve /\ prop' = [prop EXCEPT !.dismissed = TRUE] /\ UNCHANGED <<kept, ids>>
         /\ res' = [res EXCEPT !.step = "forget"]
  BY DEF Policy!Checks
<1> QED BY <1>4, <1>5, <1>6, <1>7, <1>8

LEMMA PatchesKeeps ==
  ASSUME PolicyInv, Policy!Patches
  PROVE  PolicyInv'
<1>1. /\ res \in Resolution /\ res.card \in CatalogCard /\ res.step = "patch" /\ res.card \in cards
      /\ res.card.delta \in Policy!Deltas
  BY DEF PolicyInv, PolicyTypes, IdsInv, Resolution, CatalogCard, Policy!Patches
<1>2. /\ res.card.delta.add \subseteq Policy!Refs /\ res.card.delta.float \in BOOLEAN
  BY <1>1 DEF Policy!Deltas
<1>3. allow' \subseteq Policy!Refs /\ follows' \in BOOLEAN
  <2>1. CASE Policy!BaseHash(res.seen)
    <3>1. res.seen.allow = allow
      BY <2>1 DEF Policy!BaseHash, Policy!Snapshot
    <3>2. /\ allow' = Policy!NextAllow(res.seen, res.card.delta)
          /\ follows' = (follows \/ res.card.delta.float)
      BY <2>1 DEF Policy!Patches
    <3> QED BY <1>2, <3>1, <3>2 DEF Policy!NextAllow, PolicyInv, PolicyTypes
  <2>2. CASE ~Policy!BaseHash(res.seen)
    BY <2>2 DEF Policy!Patches, Policy!config, PolicyInv, PolicyTypes
  <2> QED BY <2>1, <2>2
<1>4. /\ res' \in Resolution /\ res'.step \in {"idle", "patched"}
      /\ res'.step # "idle" => res'.card \in cards
  <2>1. LET x == [res EXCEPT !.step = "patched"] IN
        x \in Resolution /\ x.step = "patched" /\ x.card = res.card
    BY <1>1 DEF Resolution
  <2>2. res' \in {Policy!NoResolve, [res EXCEPT !.step = "patched"]}
    BY DEF Policy!Patches
  <2> QED BY <1>1, <2>1, <2>2, EmptyPolicyRecords
<1>5. UNCHANGED <<discovered, names, prop, kept, reader, cards, spent, ids>>
  BY DEF Policy!Patches, Policy!discovery
<1> QED BY <1>3, <1>4, <1>5 DEF PolicyInv, PolicyTypes, IdsInv, Computed

LEMMA ForgetsKeeps ==
  ASSUME PolicyInv, Policy!Forgets
  PROVE  PolicyInv'
<1>1. /\ res \in Resolution /\ res.step = "patched" /\ res.card \in cards /\ res.card.id \in 1..ids
      /\ ids \in Nat /\ spent \subseteq 1..ids
  BY DEF PolicyInv, PolicyTypes, IdsInv, Policy!Forgets
<1>2. res' \in Resolution /\ res'.step = "forget" /\ res'.card = res.card
  BY <1>1 DEF Policy!Forgets, Resolution
<1>3. prop' \in Proposal /\ prop'.id = 0
  BY EmptyPolicyRecords DEF Policy!Forgets, Policy!Forgotten
<1>4. UNCHANGED <<allow, follows, discovered, names, kept, reader, cards, spent, ids>>
  BY DEF Policy!Forgets, Policy!config, Policy!discovery
<1> QED BY <1>1, <1>2, <1>3, <1>4 DEF PolicyInv, PolicyTypes, IdsInv, Computed

LEMMA AppliedKeeps ==
  ASSUME PolicyInv, Policy!Applied
  PROVE  PolicyInv'
<1>1. /\ res \in Resolution /\ res.step = "forget" /\ res.card \in cards /\ res.card.id \in 1..ids
      /\ ids \in Nat
  BY DEF PolicyInv, PolicyTypes, IdsInv, Policy!Applied
<1>2. \/ UNCHANGED <<kept, spent>>
      \/ /\ kept' = prop
         /\ spent' = spent \/ (res.approve /\ spent' = spent \cup {res.card.id})
  BY DEF Policy!Applied
<1>3. UNCHANGED <<allow, follows, discovered, names, prop, reader, cards, ids>> /\ res' = Policy!NoResolve
  BY DEF Policy!Applied, Policy!config, Policy!discovery
<1>4. PolicyTypes'
  <2>1. kept' \in Proposal /\ spent' \subseteq Nat
    <3>1. prop \in Proposal /\ kept \in Proposal /\ spent \subseteq Nat  BY DEF PolicyInv, PolicyTypes
    <3>2. res.card.id \in Nat  BY <1>1
    <3>3. kept' \in {prop, kept} /\ spent' \subseteq spent \cup {res.card.id}  BY <1>2
    <3> QED BY <3>1, <3>2, <3>3
  <2> QED BY <1>3, <2>1, EmptyPolicyRecords DEF PolicyInv, PolicyTypes
<1>5. /\ kept'.id \in 0..ids /\ spent' \subseteq 1..ids /\ prop.id \notin spent' /\ kept'.id \notin spent'
  BY <1>1, <1>2 DEF PolicyInv, IdsInv
<1> QED BY <1>3, <1>4, <1>5, EmptyPolicyRecords DEF PolicyInv, IdsInv, Computed

LEMMA WorldKeeps ==
  ASSUME PolicyInv,
         \/ Policy!Edits \/ (\E found \in Found : Policy!Discovers(found)) \/ Policy!DiscoveryFails
         \/ Policy!Crash
  PROVE  PolicyInv'
<1>1. CASE Policy!Edits
  <2>1. allow' \subseteq Policy!Refs /\ follows' \in BOOLEAN
    BY <1>1, PolicyAssumption DEF Policy!Edits, PolicyInv, PolicyTypes
  <2> QED BY <1>1, <2>1 DEF Policy!Edits, Policy!discovery, PolicyInv, PolicyTypes, IdsInv, Computed
<1>2. CASE (\E found \in Found : Policy!Discovers(found)) \/ Policy!DiscoveryFails
  <2>1. discovered' \in BOOLEAN /\ names' \subseteq Policy!Names
    BY <1>2, PolicyAssumption DEF Policy!Discovers, Policy!DiscoveryFails, PolicyInv, PolicyTypes
  <2>2. UNCHANGED <<allow, follows, prop, kept, reader, res, cards, spent, ids>>
    BY <1>2 DEF Policy!Discovers, Policy!DiscoveryFails, Policy!config
  <2> QED BY <2>1, <2>2 DEF PolicyInv, PolicyTypes, IdsInv, Computed
<1>3. CASE Policy!Crash
  <2>1. /\ discovered' \in BOOLEAN /\ names' \subseteq Policy!Names /\ prop' = kept
        /\ reader' \in [Readers -> Reading] /\ res' = Policy!NoResolve
    BY <1>3, EmptyPolicyRecords DEF Policy!Crash
  <2>2. UNCHANGED <<allow, follows, kept, cards, spent, ids>>
    BY <1>3 DEF Policy!Crash, Policy!config
  <2> QED BY <2>1, <2>2, EmptyPolicyRecords DEF PolicyInv, PolicyTypes, IdsInv, Computed
<1> QED BY <1>1, <1>2, <1>3

LEMMA PolicyInit ==
  ASSUME Policy!Init
  PROVE  PolicyInv
<1>1. PolicyTypes
  BY PolicyAssumption, EmptyPolicyRecords DEF Policy!Init, PolicyTypes
<1>2. IdsInv /\ Computed
  BY EmptyPolicyRecords DEF Policy!Init, IdsInv, Computed
<1> QED BY <1>1, <1>2 DEF PolicyInv

LEMMA PolicyNext ==
  ASSUME PolicyInv, Policy!Step \/ UNCHANGED policyVars
  PROVE  PolicyInv'
<1>1. CASE UNCHANGED policyVars
  BY <1>1 DEF policyVars, PolicyInv, PolicyTypes, IdsInv, Computed
<1>2. CASE Policy!Step
  BY <1>2, ReadersKeep, DecidesKeeps, ChecksKeeps, PatchesKeeps, ForgetsKeeps, AppliedKeeps, WorldKeeps
     DEF Policy!Step
<1> QED BY <1>1, <1>2

\* For every value of the constants: a proposal whose approval was applied is not
\* asked about again, restart or not.  (identify of imajin-catalog)
THEOREM SpentIdsStaySpent == ApprovalsSpec => []SpentStaysSpent
<1>1. ApprovalsInit => PolicyInv
  BY Starts, PolicyInit
<1>2. PolicyInv /\ [ApprovalsNext]_pluginVars => PolicyInv'
  BY PolicySteps, PolicyNext
<1>3. PolicyInv => SpentStaysSpent
  BY DEF PolicyInv, IdsInv, SpentStaysSpent, Policy!SpentStaysSpent
<1> QED BY <1>1, <1>2, <1>3, PTL DEF ApprovalsSpec

\* A write is what a card says, on the list as it is then.
LEMMA PatchReviewed ==
  ASSUME PolicyInv, Policy!Patches, UNCHANGED <<allow, follows>> => FALSE
  PROVE  \E c \in cards : /\ c.id = res.card.id
                          /\ allow' = (allow \ c.delta.remove) \cup c.delta.add
                          /\ (allow' = {} => allow = {} \/ c.delta.empties)
                          /\ (follows' # follows => c.delta.float)
<1> DEFINE c == res.card
<1>1. c \in cards /\ c.delta \in Policy!Deltas /\ follows \in BOOLEAN
  BY DEF PolicyInv, PolicyTypes, IdsInv, CatalogCard, Policy!Patches
<1>2. Policy!BaseHash(res.seen)
  BY DEF Policy!Patches, Policy!config
<1>3. res.seen.allow = allow
  BY <1>2 DEF Policy!BaseHash, Policy!Snapshot
<1>4. allow' = (allow \ c.delta.remove) \cup c.delta.add /\ follows' = (follows \/ c.delta.float)
  BY <1>2, <1>3 DEF Policy!Patches, Policy!NextAllow
<1>5. PICK found \in SUBSET Policy!Names :
        c.delta = Policy!DeltaOf(res.seen, found) /\ c.delta # Policy!NoDelta
  BY DEF PolicyInv, Computed, Policy!Patches
<1> DEFINE add == Policy!Added(res.seen.allow, found)
<1> DEFINE remove == Policy!Removed(res.seen.allow, found)
<1>6. /\ c.delta.add = add /\ c.delta.remove = remove
      /\ c.delta.empties = Policy!Empties(res.seen, add, remove)
  BY <1>5 DEF Policy!DeltaOf
<1>7. allow' = {} => c.delta.empties
  BY <1>3, <1>4, <1>6 DEF Policy!Empties
<1>8. follows' # follows => c.delta.float
  <2>1. c.delta.float \in BOOLEAN  BY <1>1 DEF Policy!Deltas
  <2> QED BY <1>1, <1>4, <2>1
<1> QED BY <1>1, <1>4, <1>7, <1>8

\* For every value of the constants: a write of the allow list is the reviewed delta
\* and nothing else, on the list as it is then, and leaves an empty list only where
\* the card warned of it.  (resolve of imajin-catalog)
THEOREM OnlyReviewedWritten == ApprovalsSpec => WritesReviewed
<1>1. ApprovalsInit => PolicyInv
  BY Starts, PolicyInit
<1>2. PolicyInv /\ [ApprovalsNext]_pluginVars => PolicyInv'
  BY PolicySteps, PolicyNext
<1>3. PolicyInv /\ [ApprovalsNext]_pluginVars =>
        [Policy!Patches /\ Policy!config' # Policy!config =>
           \E c \in cards : /\ c.id = res.card.id
                            /\ allow' = (allow \ c.delta.remove) \cup c.delta.add
                            /\ (allow' = {} => allow = {} \/ c.delta.empties)
                            /\ (follows' # follows => c.delta.float)]_(Policy!vars)
  BY PatchReviewed DEF Policy!config
<1> QED BY <1>1, <1>2, <1>3, PTL DEF ApprovalsSpec, WritesReviewed, Policy!WritesReviewed

-----------------------------------------------------------------------------
(* The commands of the gateway (GatewayExecSource).                        *)

\* The rows of a list that is to be read, with what is still on the socket, are
\* all that is pending: nothing is delivered before them.
RowsComplete ==
  \A r \in Reconciles : recon[r].pc = "answer" =>
    up /\ \A a \in Exec!Pending : a \in recon[r].rows \cup wire

AsksInv ==
  /\ recon \in [Reconciles -> [pc : {"off", "waits", "asked", "answer"}, rows : SUBSET Commands]]
  /\ ask \in [Commands -> {"none", "pending", "over"}]
  /\ hellos \in Nat /\ up \in BOOLEAN
  /\ started # "connecting" => hellos > 0
  /\ \A r \in Reconciles : recon[r].pc = "asked" => up
  /\ RowsComplete
  /\ NoAskForgotten

LEMMA OffTyped ==
  Exec!Off \in [pc : {"off", "waits", "asked", "answer"}, rows : SUBSET Commands] /\ Exec!Off.pc = "off"
  BY DEF Exec!Off

LEMMA AsksInit ==
  ASSUME Exec!ExecInit
  PROVE  AsksInv
  BY OffTyped DEF Exec!ExecInit, AsksInv, RowsComplete, NoAskForgotten, Exec!NoAskForgotten

\* A reconcile that begins will ask for what is pending.
LEMMA BeginsCovers ==
  ASSUME AsksInv, Exec!Begins, UNCHANGED <<ask, wire, taken>>, up' = up \/ (up' = TRUE /\ ~up),
         hellos' \in Nat, started' # "connecting" => hellos' > 0
  PROVE  AsksInv'
<1>1. PICK r \in Reconciles : recon[r].pc = "off" /\ recon' = [recon EXCEPT ![r].pc = "waits"]
  BY DEF Exec!Begins
<1>2. /\ recon' \in [Reconciles -> [pc : {"off", "waits", "asked", "answer"}, rows : SUBSET Commands]]
      /\ recon'[r].pc = "waits"
      /\ \A q \in Reconciles \ {r} : recon'[q] = recon[q]
  BY <1>1 DEF AsksInv
<1>3. \A q \in Reconciles : recon'[q].pc \in {"asked", "answer"} => up /\ recon'[q] = recon[q]
  BY <1>2 DEF AsksInv, RowsComplete
<1>4. RowsComplete'
  BY <1>3 DEF AsksInv, RowsComplete, Exec!Pending
<1>5. NoAskForgotten'
  BY <1>2 DEF NoAskForgotten, Exec!NoAskForgotten, Exec!Pending
<1>6. up' \in BOOLEAN  BY DEF AsksInv
<1> QED BY <1>2, <1>3, <1>4, <1>5, <1>6 DEF AsksInv

LEMMA AsksNext ==
  ASSUME AsksInv, Exec!ExecStep \/ UNCHANGED askVars
  PROVE  AsksInv'
<1>1. CASE UNCHANGED askVars
  BY <1>1 DEF askVars, AsksInv, RowsComplete, NoAskForgotten, Exec!NoAskForgotten, Exec!Pending
<1>2. CASE Exec!Drops
  <2>1. /\ recon' \in [Reconciles -> [pc : {"off", "waits", "asked", "answer"}, rows : SUBSET Commands]]
        /\ \A r \in Reconciles : recon'[r].pc \in {"off", "waits"}
    BY <1>2, OffTyped DEF Exec!Drops, AsksInv
  <2> QED BY <1>2, <2>1 DEF Exec!Drops, AsksInv, RowsComplete, NoAskForgotten, Exec!NoAskForgotten, Exec!Pending
<1>3. CASE Exec!Hello
  <2>1. hellos' \in Nat /\ hellos' > 0 /\ (hellos > 0 => hellos' > 1)  BY <1>3 DEF Exec!Hello, AsksInv
  <2>2. CASE started = "connecting"
    BY <1>3, <2>1, <2>2 DEF Exec!Hello, AsksInv, RowsComplete, NoAskForgotten, Exec!NoAskForgotten, Exec!Pending
  <2>3. CASE started # "connecting"
    <3>1. Exec!Begins  BY <1>3, <2>1, <2>3 DEF Exec!Hello, Exec!Reconnected, AsksInv
    <3> QED BY <1>3, <2>1, <3>1, BeginsCovers DEF Exec!Hello
  <2> QED BY <2>2, <2>3
<1>4. CASE Exec!Subscribes
  BY <1>4 DEF Exec!Subscribes, AsksInv, RowsComplete, NoAskForgotten, Exec!NoAskForgotten, Exec!Pending
<1>5. CASE Exec!StartupReconcile \/ Exec!PeriodicReconcile
  BY <1>5, BeginsCovers DEF Exec!StartupReconcile, Exec!PeriodicReconcile, AsksInv
<1>6. ASSUME NEW a \in Commands, Exec!Raised(a) PROVE AsksInv'
  <2>1. ask' \in [Commands -> {"none", "pending", "over"}] /\ Exec!Pending' \subseteq Exec!Pending \cup {a}
    BY <1>6 DEF Exec!Raised, AsksInv, Exec!Pending
  <2>2. up => a \in wire' /\ wire \subseteq wire'  BY <1>6 DEF Exec!Raised
  <2>3. UNCHANGED <<up, hellos, started, recon, taken>>  BY <1>6 DEF Exec!Raised
  <2>4. RowsComplete'  BY <2>1, <2>2, <2>3 DEF AsksInv, RowsComplete
  <2>5. NoAskForgotten'
    BY <2>1, <2>2, <2>3 DEF AsksInv, NoAskForgotten, Exec!NoAskForgotten
  <2> QED BY <2>1, <2>3, <2>4, <2>5 DEF AsksInv
<1>7. ASSUME NEW a \in Commands, Exec!Over(a) PROVE AsksInv'
  <2>1. ask' \in [Commands -> {"none", "pending", "over"}] /\ Exec!Pending' \subseteq Exec!Pending
    BY <1>7 DEF Exec!Over, AsksInv, Exec!Pending
  <2>3. UNCHANGED <<up, hellos, wire, started, recon, taken>>  BY <1>7 DEF Exec!Over
  <2>4. RowsComplete'  BY <2>1, <2>3 DEF AsksInv, RowsComplete
  <2>5. NoAskForgotten'
    BY <2>1, <2>3 DEF AsksInv, NoAskForgotten, Exec!NoAskForgotten
  <2> QED BY <2>1, <2>3, <2>4, <2>5 DEF AsksInv
<1>8. ASSUME NEW a \in Commands, Exec!Delivers(a) PROVE AsksInv'
  <2>1. /\ wire' = wire \ {a} /\ \A r \in Reconciles : recon[r].pc # "answer"
        /\ started # "connecting" => taken' = taken \cup {a}
        /\ UNCHANGED <<ask, up, hellos, started, recon>>
    BY <1>8 DEF Exec!Delivers
  <2>4. RowsComplete'  BY <2>1 DEF AsksInv, RowsComplete
  <2>5. NoAskForgotten'
    BY <2>1 DEF AsksInv, NoAskForgotten, Exec!NoAskForgotten, Exec!Pending
  <2> QED BY <2>1, <2>4, <2>5 DEF AsksInv
<1>9. ASSUME NEW r \in Reconciles, Exec!Turns(r) PROVE AsksInv'
  <2>1. [Exec!Off EXCEPT !.pc = "asked"] \in [pc : {"off", "waits", "asked", "answer"}, rows : SUBSET Commands]
        /\ [Exec!Off EXCEPT !.pc = "asked"].pc = "asked"
    BY DEF Exec!Off
  <2>2. /\ recon' \in [Reconciles -> [pc : {"off", "waits", "asked", "answer"}, rows : SUBSET Commands]]
        /\ recon'[r].pc \in {"asked", "off"} /\ (up <=> recon'[r].pc = "asked")
        /\ \A q \in Reconciles \ {r} : recon'[q] = recon[q]
    BY <1>9, <2>1, OffTyped DEF Exec!Turns, AsksInv
  <2>3. UNCHANGED <<ask, up, hellos, wire, started, taken>>  BY <1>9 DEF Exec!Turns
  <2>4. RowsComplete'  BY <2>2, <2>3 DEF AsksInv, RowsComplete, Exec!Pending
  <2>5. NoAskForgotten'
    BY <2>2, <2>3 DEF AsksInv, NoAskForgotten, Exec!NoAskForgotten, Exec!Pending
  <2> QED BY <2>2, <2>3, <2>4, <2>5 DEF AsksInv
<1>10. ASSUME NEW r \in Reconciles, Exec!ListAnswered(r) PROVE AsksInv'
  <2>1. Exec!Pending \in SUBSET Commands  BY DEF Exec!Pending
  <2>2. /\ recon' \in [Reconciles -> [pc : {"off", "waits", "asked", "answer"}, rows : SUBSET Commands]]
        /\ recon'[r].pc = "answer" /\ recon'[r].rows = Exec!Pending
        /\ \A q \in Reconciles \ {r} : recon'[q] = recon[q]
    BY <1>10, <2>1 DEF Exec!ListAnswered, AsksInv
  <2>3. UNCHANGED <<ask, up, hellos, wire, started, taken>> /\ up
    BY <1>10 DEF Exec!ListAnswered, AsksInv
  <2>4. RowsComplete'  BY <2>2, <2>3 DEF AsksInv, RowsComplete, Exec!Pending
  <2>5. NoAskForgotten'
    BY <2>2, <2>3 DEF AsksInv, NoAskForgotten, Exec!NoAskForgotten, Exec!Pending
  <2> QED BY <2>2, <2>3, <2>4, <2>5 DEF AsksInv
<1>11. ASSUME NEW r \in Reconciles, Exec!Reconciled(r) PROVE AsksInv'
  <2>2. /\ recon' \in [Reconciles -> [pc : {"off", "waits", "asked", "answer"}, rows : SUBSET Commands]]
        /\ recon'[r].pc = "off"
        /\ \A q \in Reconciles \ {r} : recon'[q] = recon[q]
    BY <1>11, OffTyped DEF Exec!Reconciled, AsksInv
  <2>3. UNCHANGED <<ask, up, hellos, wire, started>> /\ taken' = recon[r].rows /\ recon[r].pc = "answer"
    BY <1>11 DEF Exec!Reconciled
  <2>4. RowsComplete'  BY <2>2, <2>3 DEF AsksInv, RowsComplete, Exec!Pending
  <2>5. NoAskForgotten'
    BY <2>2, <2>3 DEF AsksInv, RowsComplete, NoAskForgotten, Exec!NoAskForgotten, Exec!Pending
  <2> QED BY <2>2, <2>3, <2>4, <2>5 DEF AsksInv
<1> QED BY <1>1, <1>2, <1>3, <1>4, <1>5, <1>6, <1>7, <1>8, <1>9, <1>10, <1>11 DEF Exec!ExecStep

\* For every value of the constants: while the socket is up and the bridge is there,
\* no pending ask is forgotten.  (onHelloOk of gateway-exec)
THEOREM EveryAskIsKnown == ApprovalsSpec => []NoAskForgotten
<1>1. ApprovalsInit => AsksInv
  BY Starts, AsksInit
<1>2. AsksInv /\ [ApprovalsNext]_pluginVars => AsksInv'
  BY AskSteps, AsksNext
<1>3. AsksInv => NoAskForgotten
  BY DEF AsksInv
<1> QED BY <1>1, <1>2, <1>3, PTL DEF ApprovalsSpec

-----------------------------------------------------------------------------
(* The identity of the agent, its tokens and its catalogue (AgentInference). *)

InferenceActs ==
  \/ Clears \/ Prepare \/ PrepareLands \/ Discovers \/ Mints \/ Answers \/ Completes
  \/ TokenAges \/ KernelRevokes \/ Authorizes \/ Asks \/ Offers

LEMMA InferenceSteps ==
  ASSUME [ApprovalsNext]_pluginVars
  PROVE  InferenceActs \/ UNCHANGED infVars
<1>1. CASE AgentNext
  BY <1>1 DEF AgentNext, RtStep, InfStep, PolicyStep, Timer, InferenceActs
<1>2. CASE GrantStep \/ SkillStep \/ ExecStep \/ UNCHANGED pluginVars
  BY <1>2 DEF GrantStep, SkillStep, ExecStep, pluginVars, allVars
<1> QED BY <1>1, <1>2 DEF ApprovalsNext

Tokens == [n : Nat, consent : Nat]
ModelSets == [consent : Nat, offer : Nat \cup {Nil}]
Minting == [step : {"none", "asked", "minted"}, token : Tokens \cup {Nil}]
Completion ==
  [step : {"none", "minting", "signed", "asking", "refused", "failed", "done"}, epoch : Nat,
   token : Tokens \cup {Nil}, first : Tokens \cup {Nil}]
Attempt ==
  [step : {"none", "minting", "signed", "refused", "answered", "failed"}, epoch : Nat,
   token : Tokens \cup {Nil}, got : ModelSets \cup {Nil}]
Catalogue ==
  [models : ModelSets, fresh : BOOLEAN, outcome : {"never", "ok", "error"}, flight : Attempt]
Consenting ==
  [step : {"none", "seeking", "posting", "posted", "forgot", "awaiting", "again", "refreshing", "authorized", "retry",
           "failed"},
   models : ModelSets \cup {Nil}]

\* A token that is used is a token, and an answer is a list of models.
AttemptOK(a) ==
  /\ a.step = "signed" => a.token \in Tokens
  /\ a.step = "answered" => a.got \in ModelSets
InferenceTypes ==
  /\ ident \in {"none", "preparing", "ready", "absent", "gone"}
  /\ consent \in Nat /\ offer \in Nat /\ minted \in Nat /\ epoch \in Nat
  /\ cached \in [Epochs -> Tokens \cup {Nil}] /\ mint \in [Epochs -> Minting]
  /\ \A e \in Epochs : mint[e].step = "minted" => mint[e].token \in Tokens
  /\ call \in [Calls -> Completion] /\ cache \in Catalogue /\ AttemptOK(cache.flight)
  /\ consenter \in Consenting

\* The token entry was dropped once for a consent that came back, and what was not
\* yet an entry is empty.
EpochsCounted ==
  /\ consent <= MaxConsents /\ epoch <= consent
  /\ consenter.step \in {"seeking", "posting"} => consent < MaxConsents
  /\ consenter.step = "posted" => epoch + 1 <= consent
  /\ \A e \in Epochs : e > epoch => cached[e] = Nil /\ mint[e].step = "none"

\* Since the entry was dropped its tokens are of the new consent; an attempt that
\* began since is of the entry.
AfterConsent == {"forgot", "awaiting", "again", "refreshing"}
EntryFresh ==
  consenter.step \in AfterConsent =>
    /\ cached[epoch] # Nil => cached[epoch].consent = consent
    /\ mint[epoch].step = "minted" => mint[epoch].token.consent = consent
AttemptFresh ==
  consenter.step \in {"again", "refreshing"} /\ cache.flight.step # "none" =>
    /\ cache.flight.epoch = epoch
    /\ cache.flight.step = "signed" => cache.flight.token.consent = consent
    /\ cache.flight.step = "answered" => cache.flight.got.consent = consent

\* Once the identity is gone nobody asks for a token any more.
ConsentInv ==
  /\ InferenceTypes /\ ConsentIsFresh
  /\ ident # "gone" => EpochsCounted /\ EntryFresh /\ AttemptFresh

LEMMA EpochIsEpoch ==
  ASSUME ConsentInv, ident # "gone"
  PROVE  epoch \in Epochs /\ (consenter.step = "posted" => epoch + 1 \in Epochs)
  BY InferenceAssumption DEF ConsentInv, InferenceTypes, EpochsCounted, Epochs

LEMMA EmptyInference ==
  /\ NoMint \in Minting /\ NoMint.step = "none" /\ NoAttempt \in Attempt /\ NoAttempt.step = "none"
  /\ NoCall \in Completion /\ NoModels \in ModelSets
<1>1. NoMint \in Minting /\ NoMint.step = "none"  BY DEF NoMint, Minting
<1>2. NoAttempt \in Attempt /\ NoAttempt.step = "none"  BY DEF NoAttempt, Attempt
<1>3. NoCall \in Completion  BY DEF NoCall, Completion
<1>4. NoModels \in ModelSets  BY DEF NoModels, ModelSets
<1> QED BY <1>1, <1>2, <1>3, <1>4

LEMMA ConsentInit ==
  ASSUME InfInit
  PROVE  ConsentInv
<1> DEFINE c == [models |-> NoModels, fresh |-> FALSE, outcome |-> "never", flight |-> NoAttempt]
<1>1. c \in Catalogue /\ c.flight = NoAttempt  BY EmptyInference DEF Catalogue
<1>2. AttemptOK(NoAttempt)  BY EmptyInference DEF AttemptOK
<1> DEFINE s == [step |-> "none", models |-> Nil]
<1>3. s \in Consenting /\ s.step = "none"  BY DEF Consenting
<1>4. cache = c /\ consenter = s  BY DEF InfInit
<1> HIDE DEF c, s
<1>5. InferenceTypes
  BY <1>1, <1>2, <1>3, <1>4, EmptyInference DEF InfInit, InferenceTypes
<1>6. EpochsCounted
  BY <1>3, <1>4, EmptyInference, InferenceAssumption DEF InfInit, EpochsCounted
<1>7. ConsentIsFresh /\ EntryFresh /\ AttemptFresh
  BY <1>3, <1>4 DEF ConsentIsFresh, EntryFresh, AttemptFresh, AfterConsent
<1> QED BY <1>5, <1>6, <1>7 DEF ConsentInv

\* credential() touches the current entry alone: its token stays or goes, and a mint
\* is asked for where there was none.
LEMMA CredentialEntry ==
  ASSUME InferenceTypes, epoch \in Epochs, NEW rejected \in Tokens \cup {Nil}, Credential(rejected)
  PROVE  /\ cached' \in [Epochs -> Tokens \cup {Nil}] /\ mint' \in [Epochs -> Minting]
         /\ \A e \in Epochs : cached'[e] \in {cached[e], Nil} /\ (e # epoch => UNCHANGED <<cached[e], mint[e]>>)
         /\ \A e \in Epochs : mint'[e] = mint[e] \/ mint'[e].step = "asked"
         /\ Answered(rejected).step \in {"minting", "signed"} /\ Answered(rejected).epoch = epoch
         /\ Answered(rejected).token \in Tokens \cup {Nil}
         /\ Answered(rejected).step = "signed" =>
              Answered(rejected).token = cached[epoch] /\ cached[epoch] \in Tokens /\ cached[epoch] # Nil
<1>1. Kept(rejected) \in {cached[epoch], Nil} /\ cached[epoch] \in Tokens \cup {Nil}
  BY DEF Kept, InferenceTypes
<1>2. /\ Answered(rejected).step \in {"minting", "signed"} /\ Answered(rejected).epoch = epoch
      /\ Answered(rejected).token = Kept(rejected)
      /\ Answered(rejected).step = "signed" => Kept(rejected) # Nil
  BY DEF Answered
<1>3. /\ cached' \in [Epochs -> Tokens \cup {Nil}] /\ cached'[epoch] = Kept(rejected)
      /\ \A e \in Epochs : e # epoch => cached'[e] = cached[e]
  BY <1>1 DEF Credential, InferenceTypes
<1>4. /\ mint' \in [Epochs -> Minting]
      /\ \A e \in Epochs : mint'[e] = mint[e] \/ (e = epoch /\ mint'[e].step = "asked")
  <2>1. [mint[epoch] EXCEPT !.step = "asked"] \in Minting /\ [mint[epoch] EXCEPT !.step = "asked"].step = "asked"
    BY DEF InferenceTypes, Minting
  <2>2. mint' = mint \/ mint' = [mint EXCEPT ![epoch] = [mint[epoch] EXCEPT !.step = "asked"]]
    BY DEF Credential
  <2> QED BY <2>1, <2>2 DEF InferenceTypes
<1> QED BY <1>1, <1>2, <1>3, <1>4

\* refresh() begins an attempt of the current entry, or shares the one there is.
LEMMA RefreshFlies ==
  ASSUME InferenceTypes, epoch \in Epochs, NEW c \in Catalogue, AttemptOK(c.flight), Refresh(c)
  PROVE  /\ cache' \in Catalogue /\ AttemptOK(cache'.flight)
         /\ \/ c.flight.step # "none" /\ cache' = c /\ UNCHANGED <<cached, mint>>
            \/ /\ c.flight.step = "none" /\ Credential(Nil)
               /\ cache'.flight.epoch = epoch /\ cache'.flight.step \in {"minting", "signed"}
               /\ cache'.flight.step = "signed" =>
                    cache'.flight.token = cached[epoch] /\ cached[epoch] # Nil
<1>1. CASE c.flight.step # "none"
  BY <1>1 DEF Refresh
<1>2. CASE c.flight.step = "none"
  <2> DEFINE a == [step |-> Answered(Nil).step, epoch |-> epoch, token |-> Answered(Nil).token, got |-> Nil]
  <2>1. Credential(Nil) /\ cache' = [c EXCEPT !.flight = a]  BY <1>2 DEF Refresh
  <2>2. /\ a \in Attempt /\ a.epoch = epoch /\ a.step \in {"minting", "signed"}
        /\ a.step = "signed" => a.token = cached[epoch] /\ a.token \in Tokens /\ cached[epoch] # Nil
    BY <2>1, CredentialEntry DEF Attempt, InferenceTypes
  <2> HIDE DEF a
  <2>3. cache' \in Catalogue /\ cache'.flight = a  BY <2>1, <2>2 DEF Catalogue
  <2>4. AttemptOK(a)  BY <2>2 DEF AttemptOK
  <2> QED BY <1>2, <2>1, <2>2, <2>3, <2>4
<1> QED BY <1>1, <1>2

LEMMA RefreshKeeps ==
  ASSUME ConsentInv, ident # "gone", NEW c \in Catalogue, c.flight = cache.flight, Refresh(c),
         UNCHANGED <<ident, consent, offer, minted, epoch, call>>,
         consenter' \in Consenting,
         \/ UNCHANGED consenter
         \/ /\ consenter.step \in {"forgot", "again"} /\ consenter'.step = "refreshing"
            /\ consenter.step = "forgot" => cache.flight.step = "none"
  PROVE  ConsentInv'
<1>1. epoch \in Epochs  BY EpochIsEpoch
<1>2. AttemptOK(c.flight)  BY DEF ConsentInv, InferenceTypes
<1>3. /\ cache' \in Catalogue /\ AttemptOK(cache'.flight)
      /\ \/ c.flight.step # "none" /\ cache' = c /\ UNCHANGED <<cached, mint>>
         \/ /\ c.flight.step = "none" /\ Credential(Nil)
            /\ cache'.flight.epoch = epoch /\ cache'.flight.step \in {"minting", "signed"}
            /\ cache'.flight.step = "signed" =>
                 cache'.flight.token = cached[epoch] /\ cached[epoch] # Nil
  BY <1>1, <1>2, RefreshFlies DEF ConsentInv
<1>4. /\ cached' \in [Epochs -> Tokens \cup {Nil}] /\ mint' \in [Epochs -> Minting]
      /\ \A e \in Epochs : cached'[e] \in {cached[e], Nil} /\ (e # epoch => UNCHANGED <<cached[e], mint[e]>>)
      /\ \A e \in Epochs : mint'[e] = mint[e] \/ mint'[e].step = "asked"
  <2>1. CASE UNCHANGED <<cached, mint>>  BY <2>1 DEF ConsentInv, InferenceTypes
  <2>2. CASE Credential(Nil)  BY <1>1, <2>2, CredentialEntry DEF ConsentInv
  <2> QED BY <1>3, <2>1, <2>2
<1>5. InferenceTypes'
  BY <1>3, <1>4 DEF ConsentInv, InferenceTypes
<1>6. EpochsCounted'
  BY <1>4 DEF ConsentInv, InferenceTypes, EpochsCounted
<1>7. EntryFresh'
  BY <1>1, <1>4 DEF ConsentInv, EntryFresh, AfterConsent
<1>8. AttemptFresh'
  <2>1. CASE cache' = c  BY <1>3, <2>1 DEF ConsentInv, AttemptFresh
  <2>2. CASE cache'.flight.step \in {"minting", "signed"} /\ c.flight.step = "none"
    BY <1>3, <2>2 DEF ConsentInv, AttemptFresh, EntryFresh, AfterConsent
  <2> QED BY <1>3, <2>1, <2>2
<1>9. ConsentIsFresh'  BY DEF ConsentInv, ConsentIsFresh
<1> QED BY <1>5, <1>6, <1>7, <1>8, <1>9 DEF ConsentInv

LEMMA WokenTyped ==
  ASSUME InferenceTypes, NEW e \in Epochs, NEW t \in Tokens \cup {Nil}
  PROVE  Woken(e, t) \in [Calls -> Completion]
<1>1. ASSUME NEW c \in Calls
      PROVE  [call[c] EXCEPT !.step = IF t = Nil THEN "failed" ELSE "signed", !.token = t] \in Completion
  BY DEF InferenceTypes, Completion
<1> QED BY <1>1 DEF Woken, InferenceTypes

LEMMA AttemptWakes ==
  ASSUME InferenceTypes, NEW e \in Epochs, NEW t \in Tokens \cup {Nil}
  PROVE  LET a == AttemptWoken(e, t).flight IN
         /\ AttemptWoken(e, t) \in Catalogue /\ AttemptOK(a)
         /\ a.epoch = cache.flight.epoch
         /\ \/ a = cache.flight
            \/ /\ cache.flight.step = "minting" /\ cache.flight.epoch = e
               /\ a.step = "failed" \/ (a.step = "signed" /\ a.token = t /\ t # Nil)
<1>1. CASE cache.flight.step = "minting" /\ cache.flight.epoch = e
  <2> DEFINE s == IF t = Nil THEN "failed" ELSE "signed"
  <2> DEFINE a == [cache.flight EXCEPT !.step = s, !.token = t]
  <2>1. cache.flight \in Attempt  BY DEF InferenceTypes, Catalogue
  <2>2. a \in Attempt /\ a.epoch = cache.flight.epoch /\ a.step = s /\ a.token = t
    BY <2>1 DEF Attempt
  <2>3. AttemptWoken(e, t) \in Catalogue /\ AttemptWoken(e, t).flight = a
    <3>1. AttemptWoken(e, t) = [cache EXCEPT !.flight.step = s, !.flight.token = t]
      BY <1>1 DEF AttemptWoken
    <3>2. [cache EXCEPT !.flight.step = s, !.flight.token = t] = [cache EXCEPT !.flight = a]
      BY <2>1 DEF InferenceTypes, Catalogue, Attempt
    <3> HIDE DEF a
    <3>3. [cache EXCEPT !.flight = a] \in Catalogue /\ [cache EXCEPT !.flight = a].flight = a
      BY <2>2 DEF InferenceTypes, Catalogue
    <3> QED BY <3>1, <3>2, <3>3
  <2> HIDE DEF a
  <2>4. AttemptOK(a)  BY <2>2 DEF AttemptOK
  <2> QED BY <1>1, <2>2, <2>3, <2>4
<1>2. CASE ~(cache.flight.step = "minting" /\ cache.flight.epoch = e)
  <2>1. AttemptWoken(e, t) = cache  BY <1>2 DEF AttemptWoken
  <2> QED BY <2>1 DEF InferenceTypes
<1> QED BY <1>1, <1>2

LEMMA KernelMintsKeeps ==
  ASSUME ConsentInv, NEW e \in Epochs, KernelMints(e)
  PROVE  ConsentInv'
<1> DEFINE m == [step |-> "minted", token |-> Token(minted + 1, consent)]
<1>1. Token(minted + 1, consent) \in Tokens /\ Token(minted + 1, consent).consent = consent
  BY DEF Token, Tokens, ConsentInv, InferenceTypes
<1>2. m \in Minting /\ m.step = "minted" /\ m.token \in Tokens /\ m.token.consent = consent
  BY <1>1 DEF Minting
<1>3. mint' = [mint EXCEPT ![e] = m] /\ mint[e].step = "asked" /\ minted' = minted + 1
  BY DEF KernelMints
<1> HIDE DEF m
<1>4. UNCHANGED <<ident, consent, offer, epoch, cached, call, cache, consenter>>
  BY DEF KernelMints
<1>5. InferenceTypes'
  BY <1>2, <1>3, <1>4 DEF ConsentInv, InferenceTypes
<1>6. ident # "gone" => EpochsCounted' /\ EntryFresh' /\ AttemptFresh'
  BY <1>2, <1>3, <1>4 DEF ConsentInv, InferenceTypes, EpochsCounted, EntryFresh, AttemptFresh
<1> QED BY <1>4, <1>5, <1>6 DEF ConsentInv, ConsentIsFresh

LEMMA MintsKeep ==
  ASSUME ConsentInv, NEW e \in Epochs, MintLands(e) \/ MintFails(e)
  PROVE  ConsentInv'
<1>1. PICK t \in Tokens \cup {Nil} :
        /\ t # Nil => Ready /\ epoch = e /\ mint[e].step = "minted" /\ t = mint[e].token
        /\ cached' = IF t = Nil THEN cached ELSE [cached EXCEPT ![epoch] = t]
        /\ call' = Woken(e, t) /\ cache' = AttemptWoken(e, t)
  <2>1. CASE MintFails(e)
    BY <2>1 DEF MintFails
  <2>2. CASE MintLands(e)
    <3> DEFINE t == IF Current(e) THEN mint[e].token ELSE Nil
    <3>1. t \in Tokens \cup {Nil} /\ (t # Nil => Ready /\ epoch = e /\ mint[e].step = "minted" /\ t = mint[e].token)
      BY <2>2 DEF MintLands, Current, ConsentInv, InferenceTypes
    <3>2. /\ cached' = IF t = Nil THEN cached ELSE [cached EXCEPT ![epoch] = t]
          /\ call' = Woken(e, t) /\ cache' = AttemptWoken(e, t)
      BY <2>2 DEF MintLands
    <3> QED BY <3>1, <3>2
  <2> QED BY <2>1, <2>2
<1>2. mint' = [mint EXCEPT ![e] = NoMint] /\ UNCHANGED <<ident, consent, offer, minted, epoch, consenter>>
  BY DEF MintLands, MintFails
<1> DEFINE a == cache'.flight
<1>3. /\ call' \in [Calls -> Completion] /\ cache' \in Catalogue /\ AttemptOK(a)
      /\ a.epoch = cache.flight.epoch
      /\ \/ a = cache.flight
         \/ /\ cache.flight.step = "minting" /\ cache.flight.epoch = e
            /\ a.step = "failed" \/ (a.step = "signed" /\ a.token = t /\ t # Nil)
  BY <1>1, WokenTyped, AttemptWakes DEF ConsentInv
<1> HIDE DEF a
<1>4. /\ cached' \in [Epochs -> Tokens \cup {Nil}] /\ mint' \in [Epochs -> Minting]
      /\ \A d \in Epochs : mint'[d].step = "none" \/ mint'[d] = mint[d]
      /\ \A d \in Epochs : cached'[d] = cached[d] \/ (d = epoch /\ cached'[d] = t /\ t # Nil)
  BY <1>1, <1>2, EmptyInference DEF ConsentInv, InferenceTypes
<1>5. InferenceTypes'
  BY <1>2, <1>3, <1>4 DEF ConsentInv, InferenceTypes, a
<1>6. ident # "gone" => EpochsCounted' /\ EntryFresh'
  BY <1>1, <1>2, <1>4, EpochIsEpoch DEF ConsentInv, InferenceTypes, EpochsCounted, EntryFresh, AfterConsent
<1>7. ident # "gone" => AttemptFresh'
  <2> SUFFICES ASSUME ident # "gone", consenter.step \in {"again", "refreshing"}, a.step # "none"
               PROVE  /\ a.epoch = epoch
                      /\ a.step = "signed" => a.token.consent = consent
                      /\ a.step = "answered" => a.got.consent = consent
    BY <1>2 DEF AttemptFresh, a
  <2>1. CASE a = cache.flight
    BY <2>1 DEF ConsentInv, AttemptFresh
  <2>2. CASE a # cache.flight
    <3>1. cache.flight.step = "minting" /\ cache.flight.epoch = epoch
      BY <1>3, <2>2 DEF ConsentInv, AttemptFresh
    <3> QED BY <1>1, <1>3, <2>2, <3>1 DEF ConsentInv, EntryFresh, AfterConsent
  <2> QED BY <2>1, <2>2
<1> QED BY <1>2, <1>5, <1>6, <1>7 DEF ConsentInv, ConsentIsFresh

\* Steps that drop tokens at most, and leave the attempt and the consent alone.
LEMMA EntryStays ==
  ASSUME ConsentInv, UNCHANGED <<consent, epoch, mint, consenter>>,
         ident' \in {"none", "preparing", "ready", "absent", "gone"},
         ident' # "gone" => ident # "gone",
         offer' \in Nat, minted' \in Nat,
         cached' \in [Epochs -> Tokens \cup {Nil}], \A e \in Epochs : cached'[e] \in {cached[e], Nil},
         call' \in [Calls -> Completion], cache' \in Catalogue, cache'.flight = cache.flight
  PROVE  ConsentInv'
<1>1. InferenceTypes'  BY DEF ConsentInv, InferenceTypes
<1>2. ident' # "gone" => EpochsCounted'
  BY DEF ConsentInv, EpochsCounted
<1>3. ident' # "gone" => EntryFresh' /\ AttemptFresh'
  BY EpochIsEpoch DEF ConsentInv, EntryFresh, AttemptFresh
<1> QED BY <1>1, <1>2, <1>3 DEF ConsentInv, ConsentIsFresh

LEMMA CredentialKeeps ==
  ASSUME ConsentInv, ident # "gone", NEW rejected \in Tokens \cup {Nil}, Credential(rejected),
         UNCHANGED <<ident, consent, offer, minted, epoch, cache, consenter>>,
         call' \in [Calls -> Completion]
  PROVE  ConsentInv'
<1>1. /\ cached' \in [Epochs -> Tokens \cup {Nil}] /\ mint' \in [Epochs -> Minting]
      /\ \A e \in Epochs : cached'[e] \in {cached[e], Nil} /\ (e # epoch => UNCHANGED <<cached[e], mint[e]>>)
      /\ \A e \in Epochs : mint'[e] = mint[e] \/ mint'[e].step = "asked"
  BY EpochIsEpoch, CredentialEntry DEF ConsentInv
<1>2. InferenceTypes'  BY <1>1 DEF ConsentInv, InferenceTypes
<1>3. EpochsCounted'  BY <1>1 DEF ConsentInv, InferenceTypes, EpochsCounted
<1>4. EntryFresh' /\ AttemptFresh'
  BY <1>1, EpochIsEpoch DEF ConsentInv, EntryFresh, AttemptFresh
<1> QED BY <1>2, <1>3, <1>4 DEF ConsentInv, ConsentIsFresh

LEMMA CompletesKeep ==
  ASSUME ConsentInv, NEW c \in Calls,
         Begin(c) \/ Send(c) \/ CallRefused(c) \/ CallEnds(c) \/ Retry(c)
  PROVE  ConsentInv'
<1>1. call \in [Calls -> Completion] /\ call[c] \in Completion /\ InferenceTypes
  BY DEF ConsentInv, InferenceTypes
<1>2. ASSUME NEW s \in {"asking", "failed", "refused", "done"}
      PROVE  [call EXCEPT ![c].step = s] \in [Calls -> Completion]
  <2>1. [call[c] EXCEPT !.step = s] \in Completion  BY <1>1 DEF Completion
  <2> QED BY <1>1, <2>1
<1>3. CASE Begin(c)
  <2>1. Ready /\ Credential(Nil) /\ UNCHANGED <<ident, consent, offer, minted, epoch, cache, consenter>>
    BY <1>3 DEF Begin
  <2> DEFINE x == [step |-> Answered(Nil).step, epoch |-> epoch, token |-> Answered(Nil).token, first |-> Nil]
  <2>2. x \in Completion
    BY <1>1, <2>1, EpochIsEpoch, CredentialEntry DEF Completion, InferenceTypes, Ready
  <2>3. call' \in [Calls -> Completion]
    BY <1>1, <1>3, <2>2 DEF Begin
  <2> QED BY <2>1, <2>3, CredentialKeeps DEF Ready
<1>4. CASE Retry(c) /\ Ready
  <2>1. /\ call[c].token \in Tokens \cup {Nil} /\ Credential(call[c].token)
        /\ UNCHANGED <<ident, consent, offer, minted, epoch, cache, consenter>>
    BY <1>1, <1>4 DEF Retry, Completion
  <2> DEFINE t == call[c].token
  <2> DEFINE x == [step |-> Answered(t).step, epoch |-> epoch, token |-> Answered(t).token, first |-> t]
  <2>2. x \in Completion
    BY <1>1, <1>4, <2>1, EpochIsEpoch, CredentialEntry DEF Completion, InferenceTypes, Ready
  <2>3. call' = [call EXCEPT ![c] = x]  BY <1>4 DEF Retry
  <2> HIDE DEF x
  <2>4. call' \in [Calls -> Completion]  BY <1>1, <2>2, <2>3
  <2> QED BY <1>4, <2>1, <2>4, CredentialKeeps DEF Ready
<1>5. CASE Send(c) \/ CallEnds(c) \/ (Retry(c) /\ ~Ready)
  <2>1. call' \in [Calls -> Completion]
    BY <1>2, <1>5 DEF Send, CallEnds, Retry
  <2>2. UNCHANGED <<ident, consent, offer, minted, epoch, cached, mint, cache, consenter>>
    BY <1>5 DEF Send, CallEnds, Retry
  <2> QED BY <1>1, <2>1, <2>2, EntryStays DEF InferenceTypes
<1>6. CASE CallRefused(c)
  <2>1. call' \in [Calls -> Completion]
    BY <1>2, <1>6 DEF CallRefused
  <2>2. UNCHANGED <<ident, consent, offer, minted, epoch, mint, cache, consenter>>
    BY <1>6 DEF CallRefused
  <2>3. cached' \in [Epochs -> Tokens \cup {Nil}] /\ \A e \in Epochs : cached'[e] \in {cached[e], Nil}
    BY <1>1, <1>6 DEF CallRefused, Drop, InferenceTypes
  <2> QED BY <1>1, <2>1, <2>2, <2>3, EntryStays DEF InferenceTypes
<1> QED BY <1>3, <1>4, <1>5, <1>6

LEMMA QuietKeeps ==
  ASSUME ConsentInv,
         Prepare \/ PrepareLands \/ TokenAges \/ KernelRevokes \/ CacheAges \/ KernelOffers
           \/ UNCHANGED infVars
  PROVE  ConsentInv'
<1>1. InferenceTypes /\ cache.flight \in Attempt  BY DEF ConsentInv, InferenceTypes, Catalogue
<1>2. UNCHANGED <<consent, epoch, mint, consenter, minted, call>>
  BY DEF Prepare, PrepareLands, TokenAges, KernelRevokes, CacheAges, KernelOffers, infVars
<1>3. offer' \in Nat
  <2>1. offer' = offer \/ offer' = offer + 1
    BY DEF Prepare, PrepareLands, TokenAges, KernelRevokes, CacheAges, KernelOffers, infVars
  <2> QED BY <1>1, <2>1 DEF InferenceTypes
<1>4. ident' \in {"none", "preparing", "ready", "absent", "gone"} /\ (ident' # "gone" => ident # "gone")
  BY <1>1 DEF Prepare, PrepareLands, TokenAges, KernelRevokes, CacheAges, KernelOffers, infVars,
              InferenceTypes
<1>5. cached' \in [Epochs -> Tokens \cup {Nil}] /\ \A e \in Epochs : cached'[e] \in {cached[e], Nil}
  BY <1>1 DEF Prepare, PrepareLands, TokenAges, KernelRevokes, CacheAges, KernelOffers, infVars,
              InferenceTypes
<1>6. cache' \in Catalogue /\ cache'.flight = cache.flight
  <2>1. LET x == [cache EXCEPT !.fresh = FALSE] IN x \in Catalogue /\ x.flight = cache.flight
    BY <1>1 DEF InferenceTypes, Catalogue
  <2>2. cache' \in {cache, [cache EXCEPT !.fresh = FALSE]}
    BY DEF Prepare, PrepareLands, TokenAges, KernelRevokes, CacheAges, KernelOffers, infVars
  <2> QED BY <1>1, <2>1, <2>2 DEF InferenceTypes
<1> QED BY <1>1, <1>2, <1>3, <1>4, <1>5, <1>6, EntryStays DEF InferenceTypes

LEMMA ClearsKeeps ==
  ASSUME ConsentInv, Clears
  PROVE  ConsentInv'
<1>1. cache' \in Catalogue /\ cache'.flight = cache.flight
  <2>1. [cache EXCEPT !.models = NoModels, !.fresh = FALSE, !.outcome = "never"] \in Catalogue
    BY EmptyInference DEF ConsentInv, InferenceTypes, Catalogue
  <2>2. [cache EXCEPT !.models = NoModels, !.fresh = FALSE, !.outcome = "never"].flight = cache.flight
    BY DEF ConsentInv, InferenceTypes, Catalogue
  <2> QED BY <2>1, <2>2 DEF Clears
<1> QED BY <1>1 DEF Clears, ConsentInv, InferenceTypes, ConsentIsFresh

LEMMA AskKeeps ==
  ASSUME ConsentInv, Ask \/ Discovers \/ NoticeArrives
  PROVE  ConsentInv'
<1>1. InferenceTypes /\ cache \in Catalogue /\ consenter \in Consenting  BY DEF ConsentInv, InferenceTypes
<1>2. UNCHANGED <<ident, consent, offer, minted, epoch, call, consenter>>
  BY DEF Ask, Discovers, NoticeArrives
<1>3. CASE UNCHANGED <<cache, cached, mint>>
  BY <1>1, <1>2, <1>3, EntryStays DEF InferenceTypes
<1>4. CASE Ready /\ Refresh(cache)
  BY <1>1, <1>2, <1>4, RefreshKeeps DEF Ready
<1>5. CASE Ready /\ Refresh([cache EXCEPT !.fresh = FALSE])
  <2> DEFINE c == [cache EXCEPT !.fresh = FALSE]
  <2>1. c \in Catalogue /\ c.flight = cache.flight  BY <1>1 DEF Catalogue
  <2> QED BY <1>1, <1>2, <1>5, <2>1, RefreshKeeps DEF Ready
<1> QED BY <1>3, <1>4, <1>5 DEF Ask, Discovers, NoticeArrives

\* What becomes of an attempt that is under way leaves the tokens alone.
LEMMA AnswersKeep ==
  ASSUME ConsentInv, KernelLists \/ AttemptFails
  PROVE  ConsentInv'
<1> DEFINE f == cache.flight
<1>1. InferenceTypes /\ cache \in Catalogue /\ f \in Attempt /\ AttemptOK(f)
  BY DEF ConsentInv, InferenceTypes, Catalogue
<1>2. UNCHANGED <<ident, consent, offer, minted, epoch, cached, mint, call, consenter>>
  BY DEF KernelLists, AttemptFails
<1>3. ASSUME NEW a \in Attempt, AttemptOK(a), cache' = [cache EXCEPT !.flight = a],
             f.step # "none", a.epoch = f.epoch, a.step # "signed",
             a.step = "answered" => f.step = "signed" /\ a.got.consent = f.token.consent
      PROVE  ConsentInv'
  <2>1. cache' \in Catalogue /\ cache'.flight = a  BY <1>1, <1>3 DEF Catalogue
  <2>2. InferenceTypes'  BY <1>1, <1>2, <1>3, <2>1 DEF InferenceTypes
  <2>3. ident # "gone" => EpochsCounted' /\ EntryFresh'
    BY <1>2 DEF ConsentInv, EpochsCounted, EntryFresh
  <2>4. ident # "gone" => AttemptFresh'
    BY <1>2, <1>3, <2>1 DEF ConsentInv, AttemptFresh
  <2> QED BY <1>2, <2>2, <2>3, <2>4 DEF ConsentInv, ConsentIsFresh
<1>4. CASE AttemptFails
  <2> DEFINE a == [f EXCEPT !.step = "failed"]
  <2>1. a \in Attempt /\ a.step = "failed" /\ a.epoch = f.epoch  BY <1>1 DEF Attempt
  <2>2. cache' = [cache EXCEPT !.flight = a] /\ f.step # "none"  BY <1>4 DEF AttemptFails
  <2> HIDE DEF a
  <2>3. AttemptOK(a)  BY <2>1 DEF AttemptOK
  <2> QED BY <1>3, <2>1, <2>2, <2>3
<1>5. CASE KernelLists
  <2> DEFINE s == IF f.token.n <= revoked THEN "refused" ELSE "answered"
  <2> DEFINE g == [consent |-> f.token.consent, offer |-> offer]
  <2> DEFINE a == [f EXCEPT !.step = s, !.got = g]
  <2>1. g \in ModelSets /\ g.consent = f.token.consent /\ f.step = "signed"
    BY <1>1, <1>5 DEF KernelLists, AttemptOK, Tokens, ModelSets, InferenceTypes
  <2>2. cache' = [cache EXCEPT !.flight.step = s, !.flight.got = g]  BY <1>5 DEF KernelLists
  <2>3. s \in {"refused", "answered"}  OBVIOUS
  <2> HIDE DEF s, g
  <2>4. a \in Attempt /\ a.step = s /\ a.epoch = f.epoch /\ a.got = g  BY <1>1, <2>1, <2>3 DEF Attempt
  <2>5. cache' = [cache EXCEPT !.flight = a]
    BY <1>1, <2>2 DEF Catalogue, Attempt
  <2> HIDE DEF a
  <2>6. AttemptOK(a)  BY <2>1, <2>3, <2>4 DEF AttemptOK
  <2> QED BY <1>3, <2>1, <2>3, <2>4, <2>5, <2>6
<1> QED BY <1>4, <1>5

LEMMA LandedTyped ==
  ASSUME InferenceTypes, NEW ok \in BOOLEAN, ok => cache.flight.step = "answered"
  PROVE  /\ Landed(ok) \in Catalogue /\ Landed(ok).flight = NoAttempt
         /\ [cache EXCEPT !.flight = NoAttempt] \in Catalogue
         /\ [cache EXCEPT !.flight = NoAttempt].flight = NoAttempt
<1>1. cache \in Catalogue /\ (ok => cache.flight.got \in ModelSets)
  BY DEF InferenceTypes, AttemptOK
<1>2. CASE ok
  BY <1>1, <1>2, EmptyInference DEF Landed, Catalogue
<1>3. CASE ~ok
  BY <1>1, <1>3, EmptyInference DEF Landed, Catalogue
<1> QED BY <1>2, <1>3

LEMMA AttemptLandsKeeps ==
  ASSUME ConsentInv, AttemptLands
  PROVE  ConsentInv'
<1> DEFINE ok == cache.flight.step = "answered"
<1>1. InferenceTypes /\ consenter \in Consenting /\ AttemptOK(cache.flight) /\ cache.flight.step # "none"
  BY DEF ConsentInv, InferenceTypes, AttemptLands
<1>2. UNCHANGED <<ident, consent, offer, minted, epoch, mint, call>> /\ consenter' = ConsentTold(ok)
  BY DEF AttemptLands
<1>3. cache' \in Catalogue /\ cache'.flight = NoAttempt
  BY <1>1, LandedTyped DEF AttemptLands
<1>4. cached' \in [Epochs -> Tokens \cup {Nil}] /\ \A e \in Epochs : cached'[e] \in {cached[e], Nil}
  BY <1>1 DEF AttemptLands, Drop, InferenceTypes
<1>5. /\ consenter' \in Consenting
      /\ consenter'.step \in {"seeking", "posting", "posted", "forgot", "awaiting", "refreshing"} =>
           consenter' = consenter
      /\ consenter'.step = "again" => consenter.step \in {"again", "awaiting"}
      /\ consenter'.step = "authorized" =>
           \/ consenter' = consenter
           \/ /\ consenter.step = "refreshing" /\ ok /\ Ready
              /\ consenter'.models = cache.flight.got
  <2>1. CASE consenter.step = "awaiting"
    BY <1>1, <1>2, <2>1 DEF ConsentTold, Consenting
  <2>2. CASE consenter.step # "awaiting" /\ consenter.step # "refreshing"
    BY <1>1, <1>2, <2>2 DEF ConsentTold
  <2>3. CASE consenter.step = "refreshing" /\ ok /\ Ready
    <3>1. cache.flight.got \in ModelSets  BY <1>1, <2>3 DEF AttemptOK
    <3>2. consenter' = [consenter EXCEPT !.step = "authorized", !.models = cache.flight.got]
      BY <1>2, <2>3 DEF ConsentTold
    <3>3. LET x == [consenter EXCEPT !.step = "authorized", !.models = cache.flight.got] IN
          x \in Consenting /\ x.step = "authorized" /\ x.models = cache.flight.got
      BY <1>1, <3>1 DEF Consenting
    <3> QED BY <2>3, <3>2, <3>3
  <2>4. CASE consenter.step = "refreshing" /\ ~(ok /\ Ready)
    <3>1. consenter' = [consenter EXCEPT !.step = "retry"]  BY <1>2, <2>4 DEF ConsentTold
    <3>2. LET x == [consenter EXCEPT !.step = "retry"] IN x \in Consenting /\ x.step = "retry"
      BY <1>1 DEF Consenting
    <3> QED BY <3>1, <3>2
  <2> QED BY <2>1, <2>2, <2>3, <2>4
<1>6. InferenceTypes'
  BY <1>1, <1>2, <1>3, <1>4, <1>5, EmptyInference DEF InferenceTypes, AttemptOK
<1>7. ident # "gone" => EpochsCounted' /\ EntryFresh' /\ AttemptFresh'
  BY <1>2, <1>3, <1>4, <1>5, EmptyInference, EpochIsEpoch
     DEF ConsentInv, EpochsCounted, EntryFresh, AttemptFresh, AfterConsent
<1>8. ConsentIsFresh'
  <2>1. consenter.step = "refreshing" /\ ok /\ Ready => cache.flight.got.consent = consent
    BY DEF ConsentInv, AttemptFresh, Ready
  <2> QED BY <1>2, <1>5, <2>1 DEF ConsentInv, ConsentIsFresh
<1> QED BY <1>2, <1>6, <1>7, <1>8 DEF ConsentInv

LEMMA AuthorizesKeep ==
  ASSUME ConsentInv, Authorizes
  PROVE  ConsentInv'
<1>1. InferenceTypes /\ consenter \in Consenting /\ cache \in Catalogue
  BY DEF ConsentInv, InferenceTypes
<1>2. ASSUME NEW s \in {"posting", "posted", "forgot", "failed", "retry", "awaiting", "refreshing"}
      PROVE  [consenter EXCEPT !.step = s] \in Consenting /\ [consenter EXCEPT !.step = s].step = s
  BY <1>1 DEF Consenting
<1>3. CASE KernelConsents
  <2>2. consenter' \in Consenting /\ consenter'.step = "posted" /\ consenter.step = "posting"
        /\ consent' = consent + 1
        /\ UNCHANGED <<ident, offer, minted, epoch, cached, mint, call, cache>>
    BY <1>2, <1>3 DEF KernelConsents
  <2>3. InferenceTypes'  BY <1>1, <2>2 DEF InferenceTypes
  <2>4. ident # "gone" => EpochsCounted'
    BY <1>1, <2>2, InferenceAssumption DEF ConsentInv, InferenceTypes, EpochsCounted
  <2> QED BY <2>2, <2>3, <2>4
          DEF ConsentInv, ConsentIsFresh, EntryFresh, AttemptFresh, AfterConsent
<1>7. CASE Seeks
  <2> DEFINE x == [step |-> "seeking", models |-> Nil]
  <2>1. x \in Consenting /\ x.step = "seeking"  BY DEF Consenting
  <2>2. consenter' = x /\ consent < MaxConsents
        /\ UNCHANGED <<ident, consent, offer, minted, epoch, cached, mint, call, cache>>
    BY <1>7 DEF Seeks
  <2> HIDE DEF x
  <2>3. InferenceTypes'  BY <1>1, <2>1, <2>2 DEF InferenceTypes
  <2> QED BY <2>1, <2>2, <2>3
          DEF ConsentInv, ConsentIsFresh, EpochsCounted, EntryFresh, AttemptFresh, AfterConsent
<1>8. CASE ConsentGoes
  <2>1. consenter' \in Consenting /\ consenter'.step = "posting" /\ consenter.step = "seeking"
        /\ UNCHANGED <<ident, consent, offer, minted, epoch, cached, mint, call, cache>>
    BY <1>2, <1>8 DEF ConsentGoes
  <2>2. InferenceTypes'  BY <1>1, <2>1 DEF InferenceTypes
  <2> QED BY <2>1, <2>2
          DEF ConsentInv, ConsentIsFresh, EpochsCounted, EntryFresh, AttemptFresh, AfterConsent
<1>4. CASE ConsentLands
  <2>1. epoch' = epoch + 1 /\ consenter.step = "posted" /\ consenter' = [consenter EXCEPT !.step = "forgot"]
        /\ UNCHANGED <<ident, consent, offer, minted, cached, mint, call, cache>> /\ Ready
    BY <1>4 DEF ConsentLands, Forgets
  <2>2. consenter' \in Consenting /\ consenter'.step = "forgot"  BY <1>2, <2>1
  <2>3. InferenceTypes'  BY <1>1, <2>1, <2>2 DEF InferenceTypes
  <2>4. epoch + 1 \in Epochs  BY <2>1, EpochIsEpoch DEF Ready
  <2>5. EpochsCounted'
    <3>1. epoch \in Nat /\ consent \in Nat /\ EpochsCounted
      BY <1>1, <2>1 DEF ConsentInv, InferenceTypes, Ready
    <3>2. \A e \in Epochs : e \in Nat  BY DEF Epochs
    <3>3. epoch + 1 <= consent /\ consent <= MaxConsents  BY <2>1, <3>1 DEF EpochsCounted
    <3>4. \A e \in Epochs : e > epoch + 1 => cached[e] = Nil /\ mint[e].step = "none"
      BY <3>1, <3>2 DEF EpochsCounted
    <3> QED BY <2>1, <2>2, <3>3, <3>4 DEF EpochsCounted
  <2>6. cached[epoch + 1] = Nil /\ mint[epoch + 1].step = "none"
    BY <1>1, <2>1, <2>4 DEF ConsentInv, InferenceTypes, EpochsCounted, Ready
  <2>7. EntryFresh' /\ AttemptFresh'
    BY <2>1, <2>2, <2>6 DEF EntryFresh, AttemptFresh
  <2> QED BY <2>2, <2>3, <2>5, <2>7 DEF ConsentInv, ConsentIsFresh
<1>5. CASE AuthorizationFails \/ (ConsentRefreshes /\ ~Refresh([cache EXCEPT !.fresh = FALSE]))
  <2>1. /\ \E s \in {"failed", "retry", "awaiting"} : consenter' = [consenter EXCEPT !.step = s]
        /\ consenter'.step = "awaiting" => consenter.step = "forgot"
        /\ UNCHANGED <<ident, consent, offer, minted, epoch, cached, mint, call, cache>>
    BY <1>2, <1>5 DEF AuthorizationFails, ConsentRefreshes
  <2>2. consenter' \in Consenting /\ consenter'.step \in {"failed", "retry", "awaiting"}
    BY <1>2, <2>1
  <2>3. InferenceTypes'  BY <1>1, <2>1, <2>2 DEF InferenceTypes
  <2> QED BY <2>1, <2>2, <2>3
          DEF ConsentInv, ConsentIsFresh, EpochsCounted, EntryFresh, AttemptFresh, AfterConsent
<1>6. CASE ConsentRefreshes /\ Refresh([cache EXCEPT !.fresh = FALSE])
  <2> DEFINE c == [cache EXCEPT !.fresh = FALSE]
  <2>1. c \in Catalogue /\ c.flight = cache.flight  BY <1>1 DEF Catalogue
  <2>2. CASE /\ Ready /\ consenter.step \in {"forgot", "again"}
             /\ consenter.step = "forgot" => cache.flight.step = "none"
             /\ consenter' = [consenter EXCEPT !.step = "refreshing"]
    <3>1. consenter' \in Consenting /\ consenter'.step = "refreshing"  BY <1>2, <2>2
    <3>2. UNCHANGED <<ident, consent, offer, minted, epoch, call>>  BY <1>6 DEF ConsentRefreshes
    <3> QED BY <1>6, <2>1, <2>2, <3>1, <3>2, RefreshKeeps DEF Ready
  <2>3. CASE /\ \E s \in {"retry", "awaiting"} : consenter' = [consenter EXCEPT !.step = s]
             /\ consenter'.step = "awaiting" => consenter.step = "forgot"
             /\ UNCHANGED <<cache, cached, mint>>
    <3>1. consenter' \in Consenting /\ consenter'.step \in {"retry", "awaiting"}  BY <1>2, <2>3
    <3>2. UNCHANGED <<ident, consent, offer, minted, epoch, call>>  BY <1>6 DEF ConsentRefreshes
    <3>3. InferenceTypes'  BY <1>1, <2>3, <3>1, <3>2 DEF InferenceTypes
    <3> QED BY <2>3, <3>1, <3>2, <3>3
            DEF ConsentInv, ConsentIsFresh, EpochsCounted, EntryFresh, AttemptFresh, AfterConsent
  <2>4. CASE ConsentRefreshes /\ ~Ready
    <3>1. /\ consenter' = [consenter EXCEPT !.step = "retry"] /\ UNCHANGED <<cache, cached, mint>>
      BY <2>4 DEF ConsentRefreshes
    <3> QED BY <1>2, <2>3, <3>1
  <2>5. CASE ConsentRefreshes /\ Ready /\ consenter.step = "forgot" /\ OlderAwaited
    <3>1. /\ consenter' = [consenter EXCEPT !.step = "awaiting"] /\ UNCHANGED <<cache, cached, mint>>
      BY <2>5 DEF ConsentRefreshes
    <3> QED BY <1>2, <2>3, <2>5, <3>1
  <2>6. CASE ConsentRefreshes /\ Ready /\ ~(consenter.step = "forgot" /\ OlderAwaited)
    <3>1. /\ consenter' = [consenter EXCEPT !.step = "refreshing"] /\ consenter.step \in {"forgot", "again"}
      BY <2>6 DEF ConsentRefreshes
    <3> QED BY <2>2, <2>6, <3>1 DEF OlderAwaited
  <2> QED BY <1>6, <2>4, <2>5, <2>6
<1> QED BY <1>3, <1>4, <1>5, <1>6, <1>7, <1>8 DEF Authorizes

LEMMA ConsentNext ==
  ASSUME ConsentInv, InferenceActs \/ UNCHANGED infVars
  PROVE  ConsentInv'
<1>1. CASE Mints
  BY <1>1, KernelMintsKeeps, MintsKeep DEF Mints
<1>2. CASE Completes
  BY <1>2, CompletesKeep DEF Completes
<1>3. CASE Answers
  BY <1>3, AnswersKeep, AttemptLandsKeeps DEF Answers
<1>4. CASE Clears \/ Prepare \/ PrepareLands \/ Discovers \/ TokenAges \/ KernelRevokes \/ Authorizes
           \/ Asks \/ Offers \/ UNCHANGED infVars
  BY <1>4, ClearsKeeps, QuietKeeps, AskKeeps, AuthorizesKeep DEF Asks, Offers
<1> QED BY <1>1, <1>2, <1>3, <1>4 DEF InferenceActs

\* For every value of the constants: the models a self-authorization reports were
\* read under the consent it has just given.  (forget, invalidateAndRefresh)
THEOREM ReportedUnderConsent == ApprovalsSpec => []ConsentIsFresh
<1>1. ApprovalsInit => ConsentInv
  BY Starts, ConsentInit
<1>2. ConsentInv /\ [ApprovalsNext]_pluginVars => ConsentInv'
  BY InferenceSteps, ConsentNext
<1>3. ConsentInv => ConsentIsFresh
  BY DEF ConsentInv
<1> QED BY <1>1, <1>2, <1>3, PTL DEF ApprovalsSpec

\* What a step may not do once the identity is gone.
NothingNew ==
  /\ \A c \in Calls : call'[c].step = "asking" => call[c].step = "asking"
  /\ cache'.flight.step = "signed" => cache.flight.step = "signed"
  /\ consenter'.step = "posting" => consenter.step = "posting"
  /\ \A e \in Epochs : cached'[e] # Nil => cached[e] # Nil
  /\ asker' = "served" => asker = "served"
  /\ consenter'.step = "authorized" => consenter.step = "authorized"

LEMMA GoneIsGone ==
  ASSUME InferenceTypes, ident = "gone", InferenceActs
  PROVE  NothingNew
<1>1. ~Ready  BY DEF Ready
<1>2. ASSUME NEW c \in Calls, NEW s \in {"failed", "done"}, call' = [call EXCEPT ![c].step = s]
      PROVE  \A d \in Calls : call'[d].step = "asking" => call[d].step = "asking"
  BY <1>2 DEF InferenceTypes, Completion
<1>3. CASE Mints
  <2>1. PICK e \in Epochs : KernelMints(e) \/ MintLands(e) \/ MintFails(e)
    BY <1>3 DEF Mints
  <2>2. /\ UNCHANGED <<asker, consenter>> /\ (call' = call \/ call' = Woken(e, Nil)) /\ cached' = cached
        /\ cache' = cache \/ cache' = AttemptWoken(e, Nil)
    BY <1>1, <2>1 DEF KernelMints, MintLands, MintFails, Current
  <2>3. \A d \in Calls : Woken(e, Nil)[d].step = "asking" => call[d].step = "asking"
    <3>1. ASSUME NEW d \in Calls
          PROVE  [call[d] EXCEPT !.step = "failed", !.token = Nil].step = "failed"
      BY DEF InferenceTypes, Completion
    <3> QED BY <3>1 DEF Woken
  <2>4. AttemptWoken(e, Nil).flight.step = "signed" => cache.flight.step = "signed"
    BY DEF AttemptWoken, InferenceTypes, Catalogue, Attempt
  <2> QED BY <2>2, <2>3, <2>4 DEF NothingNew
<1>4. CASE Completes
  <2>1. PICK c \in Calls : Begin(c) \/ Send(c) \/ CallRefused(c) \/ CallEnds(c) \/ Retry(c)
    BY <1>4 DEF Completes
  <2>2. UNCHANGED <<asker, consenter, cache>> /\ cached' = cached
    BY <1>1, <2>1 DEF Begin, Send, CallRefused, CallEnds, Retry, Drop
  <2>3. \E s \in {"failed", "done"} : call' = [call EXCEPT ![c].step = s]
    BY <1>1, <2>1 DEF Begin, Send, StillSigned, CallRefused, CallEnds, Retry
  <2> QED BY <1>2, <2>2, <2>3 DEF NothingNew
<1>5. CASE Answers
  <2>1. UNCHANGED <<call, cached>>
    BY <1>1, <1>5 DEF Answers, KernelLists, AttemptFails, AttemptLands, Drop
  <2>2. asker' \in {asker, "failed"}
    BY <1>1, <1>5 DEF Answers, KernelLists, AttemptFails, AttemptLands, Served
  <2>3. /\ consenter'.step = "authorized" => consenter.step = "authorized"
        /\ consenter'.step = "posting" => consenter.step = "posting"
    <3>1. \A s \in {"again", "retry"} : [consenter EXCEPT !.step = s].step = s
      BY DEF InferenceTypes, Consenting
    <3>2. \/ consenter' = consenter
          \/ \E s \in {"again", "retry"} : consenter' = [consenter EXCEPT !.step = s]
      BY <1>1, <1>5 DEF Answers, KernelLists, AttemptFails, AttemptLands, ConsentTold
    <3> QED BY <3>1, <3>2
  <2>4. cache'.flight.step = "signed" => cache.flight.step = "signed"
    <3>2. [cache EXCEPT !.flight = NoAttempt].flight.step = "none"
      BY DEF InferenceTypes, Catalogue, NoAttempt
    <3>3. CASE KernelLists
      BY <3>3 DEF KernelLists, InferenceTypes, Catalogue, Attempt
    <3>5. CASE AttemptFails
      BY <3>5 DEF AttemptFails, InferenceTypes, Catalogue, Attempt
    <3>4. CASE AttemptLands
      BY <1>1, <3>2, <3>4 DEF AttemptLands
    <3> QED BY <1>5, <3>3, <3>4, <3>5 DEF Answers
  <2> QED BY <2>1, <2>2, <2>3, <2>4 DEF NothingNew
<1>6. CASE Authorizes
  <2>1. UNCHANGED <<call, cached, asker, cache>>
    BY <1>1, <1>6 DEF Authorizes, Seeks, ConsentGoes, KernelConsents, AuthorizationFails, ConsentLands,
                      ConsentRefreshes
  <2>2. \A s \in {"posted", "failed", "retry"} : [consenter EXCEPT !.step = s].step = s
    BY DEF InferenceTypes, Consenting
  <2>3. \E s \in {"posted", "failed", "retry"} : consenter' = [consenter EXCEPT !.step = s]
    BY <1>1, <1>6 DEF Authorizes, Seeks, ConsentGoes, KernelConsents, AuthorizationFails, ConsentLands,
                      ConsentRefreshes
  <2> QED BY <2>1, <2>2, <2>3 DEF NothingNew
<1>7. CASE TokenAges
  <2>1. \A e \in Epochs : cached'[e] # Nil => cached[e] # Nil
    BY <1>7 DEF TokenAges, InferenceTypes
  <2> QED BY <1>7, <2>1 DEF TokenAges, NothingNew
<1>8. CASE Clears \/ Prepare \/ PrepareLands \/ Discovers \/ KernelRevokes \/ Asks \/ Offers
  <2>1. UNCHANGED <<call, cached, consenter>> /\ (asker' = "served" => asker = "served")
    BY <1>1, <1>8 DEF Clears, Prepare, PrepareLands, Discovers, KernelRevokes, Asks, CacheAges, Ask,
                      Offers, KernelOffers, NoticeArrives
  <2>2. cache'.flight.step = "signed" => cache.flight.step = "signed"
    <3>1. \/ UNCHANGED cache \/ cache' = [cache EXCEPT !.fresh = FALSE]
          \/ cache' = [cache EXCEPT !.models = NoModels, !.fresh = FALSE, !.outcome = "never"]
      BY <1>1, <1>8 DEF Clears, Prepare, PrepareLands, Discovers, KernelRevokes, Asks, CacheAges, Ask,
                        Offers, KernelOffers, NoticeArrives
    <3> QED BY <3>1 DEF InferenceTypes, Catalogue
  <2> QED BY <2>1, <2>2 DEF NothingNew
<1> QED BY <1>3, <1>4, <1>5, <1>6, <1>7, <1>8 DEF InferenceActs

\* For every value of the constants: once the identity is gone no completion, no request
\* for models and no consent begins in its name, no token is kept, and nothing awaited is
\* served or reported as found.
\* (the checks after awaits of inference-auth and inference-stream)
THEOREM NothingInTheNameOfTheGone == ApprovalsSpec => NothingAfterGone
<1>1. ApprovalsInit => ConsentInv
  BY Starts, ConsentInit
<1>2. ConsentInv /\ [ApprovalsNext]_pluginVars => ConsentInv'
  BY InferenceSteps, ConsentNext
<1>3. ConsentInv /\ [ApprovalsNext]_pluginVars =>
        [ident = "gone" =>
           /\ \A c \in Calls : call'[c].step = "asking" => call[c].step = "asking"
           /\ cache'.flight.step = "signed" => cache.flight.step = "signed"
           /\ consenter'.step = "posting" => consenter.step = "posting"
           /\ \A e \in Epochs : cached'[e] # Nil => cached[e] # Nil
           /\ asker' = "served" => asker = "served"
           /\ consenter'.step = "authorized" => consenter.step = "authorized"]_infVars
  BY InferenceSteps, GoneIsGone DEF ConsentInv, NothingNew
<1> QED BY <1>1, <1>2, <1>3, PTL DEF ApprovalsSpec, NothingAfterGone

-----------------------------------------------------------------------------
(* The skill workshop (SkillWorkshopSource).                               *)

ShownCards == [shows : {DetailOf[n] : n \in Nat}, rev : Nat]
Listing ==
  [pc : {"idle", "asked", "listed", "inspect", "inspected", "failed", "done"}, at : Nat, rev : Nat]
WorkshopTypes ==
  /\ revised \in Nat /\ version \in {0, revised}
  /\ asked \in [Workshop!Callers -> Listing] /\ hashes \in [at : Nat, rev : Nat] \cup {None}
  /\ card \in ShownCards \cup {None}
  /\ run \in [pc : {"idle", "current", "resolve", "restage"}, card : ShownCards \cup {None}]

\* A revision that was asked for is not older than the listing it was asked for.
Dated(x) ==
  /\ x.at <= revised /\ x.rev <= revised
  /\ x.pc \in {"inspect", "inspected"} => x.at # 0
  /\ x.rev # 0 => x.at # 0 /\ x.at <= x.rev
ListingsDated ==
  /\ \A c \in Workshop!Callers : Dated(asked[c])
  /\ hashes # None => hashes.at <= hashes.rev /\ hashes.rev <= revised
  /\ card # None => card.rev <= revised

\* The run's card is older than what the run is told, so that a revision it is told
\* again has not changed since it was listed.
RunDated ==
  /\ run.pc \in {"current", "resolve"} => run.card \in ShownCards /\ run.card.rev <= revised
  /\ run.pc = "current" /\ asked["run"].at # 0 => run.card.rev <= asked["run"].at
  /\ run.pc = "resolve" => run.card.shows = DetailOf[run.card.rev]

SkillInv == WorkshopTypes /\ ListingsDated /\ RunDated /\ AppliedIsShown

LEMMA SkillInit ==
  ASSUME Workshop!WorkshopInit
  PROVE  SkillInv
<1>1. Workshop!Idle \in Listing /\ Workshop!Idle.at = 0 /\ Workshop!Idle.rev = 0 /\ Workshop!Idle.pc = "idle"
  BY DEF Workshop!Idle, Listing
<1> DEFINE r == [pc |-> "idle", card |-> None]
<1>2. r \in [pc : {"idle", "current", "resolve", "restage"}, card : ShownCards \cup {None}] /\ r.pc = "idle"
  OBVIOUS
<1>3. run = r  BY DEF Workshop!WorkshopInit
<1> HIDE DEF r
<1>4. WorkshopTypes  BY <1>1, <1>2, <1>3 DEF Workshop!WorkshopInit, WorkshopTypes
<1>5. Dated(Workshop!Idle)  BY <1>1, <1>4 DEF Dated, WorkshopTypes
<1>6. ListingsDated  BY <1>5 DEF Workshop!WorkshopInit, ListingsDated
<1>7. RunDated  BY <1>2, <1>3 DEF RunDated
<1>8. AppliedIsShown  BY DEF Workshop!WorkshopInit, AppliedIsShown, Workshop!AppliedIsShown
<1> QED BY <1>4, <1>6, <1>7, <1>8 DEF SkillInv

\* One caller goes on, and the card and the run stay.
LEMMA CallerKeeps ==
  ASSUME SkillInv, NEW c \in Workshop!Callers, NEW x \in Listing, Dated(x),
         asked' = [asked EXCEPT ![c] = x],
         x.at \in {0, asked[c].at, revised},
         UNCHANGED <<version, revised, card, run, applied>>,
         hashes' \in {None, hashes} \/ (hashes' = [at |-> x.at, rev |-> x.rev] /\ x.rev # 0)
  PROVE  SkillInv'
<1>1. hashes' \in [at : Nat, rev : Nat] \cup {None}
      /\ (hashes' # None => hashes'.at <= hashes'.rev /\ hashes'.rev <= revised)
  <2>1. CASE hashes' \in {None, hashes}
    BY <2>1 DEF SkillInv, WorkshopTypes, ListingsDated
  <2>2. CASE hashes' = [at |-> x.at, rev |-> x.rev] /\ x.rev # 0
    BY <2>2 DEF Dated, Listing
  <2> QED BY <2>1, <2>2
<1>2. WorkshopTypes'  BY <1>1 DEF SkillInv, WorkshopTypes
<1>3. ListingsDated'  BY <1>1 DEF SkillInv, WorkshopTypes, ListingsDated, Dated
<1>4. RunDated'
  <2>1. run.pc = "current" => run.card \in ShownCards /\ run.card.rev <= revised
    BY DEF SkillInv, RunDated
  <2>2. asked'["run"].at \in {0, asked["run"].at, revised}
    BY DEF SkillInv, WorkshopTypes, Workshop!Callers
  <2> QED BY <2>1, <2>2 DEF SkillInv, RunDated
<1> QED BY <1>2, <1>3, <1>4 DEF SkillInv, AppliedIsShown, Workshop!AppliedIsShown

LEMMA ListingKeeps ==
  ASSUME SkillInv, NEW c \in Workshop!Callers,
         Workshop!ListReturns(c) \/ Workshop!Hydrates(c) \/ Workshop!Inspects(c) \/ Workshop!Inspected(c)
  PROVE  SkillInv'
<1> DEFINE y == asked[c]
<1>1. y \in Listing /\ Dated(y) /\ revised \in Nat /\ version \in {0, revised}
      /\ hashes \in [at : Nat, rev : Nat] \cup {None}
      /\ (hashes # None => hashes.at <= hashes.rev /\ hashes.rev <= revised)
      /\ asked \in [Workshop!Callers -> Listing]
  BY DEF SkillInv, WorkshopTypes, ListingsDated
<1>2. UNCHANGED <<version, revised, card, run, applied>>
  BY DEF Workshop!ListReturns, Workshop!Hydrates, Workshop!Inspects, Workshop!Inspected, Workshop!world,
         Workshop!bridge
<1>3. ASSUME NEW s \in {"failed", "done", "asked", "idle"}, NEW n \in Nat, NEW m \in Nat,
             n \in {0, y.at, revised}, n <= revised, m <= revised, m # 0 => n # 0 /\ n <= m,
             asked' = [asked EXCEPT ![c] = [pc |-> s, at |-> n, rev |-> m]],
             hashes' \in {None, hashes} \/ (hashes' = [at |-> n, rev |-> m] /\ m # 0)
      PROVE  SkillInv'
  <2> DEFINE x == [pc |-> s, at |-> n, rev |-> m]
  <2>1. x \in Listing /\ x.pc = s /\ x.at = n /\ x.rev = m  BY DEF Listing
  <2> HIDE DEF x
  <2>2. Dated(x)  BY <1>3, <2>1 DEF Dated
  <2>3. asked' = [asked EXCEPT ![c] = x]  BY <1>3 DEF x
  <2> QED BY <1>2, <1>3, <2>1, <2>2, <2>3, CallerKeeps
<1>4. ASSUME NEW s \in {"failed", "done"} PROVE [y EXCEPT !.pc = s] = [pc |-> s, at |-> y.at, rev |-> y.rev]
  BY <1>1 DEF Listing
<1>5. CASE Workshop!ListReturns(c)
  <2>1. UNCHANGED hashes  BY <1>5 DEF Workshop!ListReturns, Workshop!source
  <2>2. CASE asked' = [asked EXCEPT ![c] = [pc |-> "listed", at |-> version, rev |-> 0]]
    <3> DEFINE x == [pc |-> "listed", at |-> version, rev |-> 0]
    <3>1. x \in Listing /\ x.pc = "listed" /\ x.at = version /\ x.rev = 0  BY <1>1 DEF Listing
    <3> HIDE DEF x
    <3>2. Dated(x)  BY <1>1, <3>1 DEF Dated
    <3>3. asked' = [asked EXCEPT ![c] = x]  BY <2>2 DEF x
    <3> QED BY <1>1, <1>2, <2>1, <3>1, <3>2, <3>3, CallerKeeps
  <2>3. CASE \E s \in {"failed", "done"} : asked' = [asked EXCEPT ![c].pc = s]
    <3>1. PICK s \in {"failed", "done"} : asked' = [asked EXCEPT ![c].pc = s]  BY <2>3
    <3>2. asked' = [asked EXCEPT ![c] = [pc |-> s, at |-> y.at, rev |-> y.rev]]  BY <1>4, <3>1
    <3>3. y.at \in Nat /\ y.rev \in Nat /\ y.at <= revised /\ y.rev <= revised
          /\ (y.rev # 0 => y.at # 0 /\ y.at <= y.rev)
      BY <1>1 DEF Listing, Dated
    <3> QED BY <1>3, <2>1, <3>2, <3>3
  <2> QED BY <1>5, <2>2, <2>3 DEF Workshop!ListReturns
<1>6. CASE Workshop!Hydrates(c)
  <2> DEFINE hit == hashes # None /\ hashes.at = y.at
  <2>1. CASE y.at = 0
    <3>1. UNCHANGED hashes /\ asked' = [asked EXCEPT ![c].pc = "done"]
      BY <1>6, <2>1 DEF Workshop!Hydrates
    <3>2. asked' = [asked EXCEPT ![c] = [pc |-> "done", at |-> y.at, rev |-> y.rev]]  BY <1>4, <3>1
    <3>3. y.at \in Nat /\ y.rev \in Nat /\ y.at <= revised /\ y.rev <= revised
          /\ (y.rev # 0 => y.at # 0 /\ y.at <= y.rev)
      BY <1>1 DEF Listing, Dated
    <3> QED BY <1>3, <3>1, <3>2, <3>3
  <2>2. CASE y.at # 0
    <3>1. hashes' \in {None, hashes}
      BY <1>6, <2>2 DEF Workshop!Hydrates
    <3>2. y.at \in Nat /\ y.at <= revised
      BY <1>1 DEF Listing, Dated
    <3>3. CASE lists
      <4>1. asked' = [asked EXCEPT ![c] = [pc |-> "done", at |-> y.at, rev |-> y.at]]
        BY <1>6, <2>2, <3>3 DEF Workshop!Hydrates
      <4>2. y.at <= y.at  BY <3>2
      <4> HIDE DEF y
      <4> QED BY <1>3, <2>2, <3>1, <3>2, <4>1, <4>2
    <3>4. CASE ~lists /\ hit
      <4>1. asked' = [asked EXCEPT ![c] = [pc |-> "done", at |-> y.at, rev |-> hashes.rev]]
        BY <1>6, <2>2, <3>4 DEF Workshop!Hydrates
      <4>2. hashes.rev \in Nat /\ hashes.rev <= revised /\ y.at <= hashes.rev
        BY <1>1, <3>4
      <4> QED BY <1>3, <2>2, <3>1, <3>2, <4>1, <4>2
    <3>5. CASE ~lists /\ ~hit
      <4> DEFINE x == [pc |-> "inspect", at |-> y.at, rev |-> 0]
      <4>1. x \in Listing /\ x.pc = "inspect" /\ x.at = y.at /\ x.rev = 0  BY <3>2 DEF Listing
      <4>2. asked' = [asked EXCEPT ![c] = x]
        BY <1>6, <2>2, <3>5 DEF Workshop!Hydrates
      <4> HIDE DEF x
      <4>3. Dated(x)  BY <1>1, <2>2, <3>2, <4>1 DEF Dated
      <4> QED BY <1>1, <1>2, <3>1, <4>1, <4>2, <4>3, CallerKeeps
    <3> QED BY <3>3, <3>4, <3>5
  <2> QED BY <2>1, <2>2
<1>7. CASE Workshop!Inspects(c)
  <2> DEFINE x == [y EXCEPT !.pc = "inspected", !.rev = version]
  <2>1. x \in Listing /\ x.pc = "inspected" /\ x.at = y.at /\ x.rev = version
    <3>1. version \in Nat /\ y \in Listing  BY <1>1
    <3> HIDE DEF y
    <3> QED BY <3>1 DEF Listing
  <2>2. asked' = [asked EXCEPT ![c] = x] /\ y.pc = "inspect" /\ UNCHANGED hashes
    BY <1>1, <1>7 DEF Workshop!Inspects, Workshop!source
  <2> HIDE DEF x
  <2>3. Dated(x)  BY <1>1, <2>1, <2>2 DEF Dated
  <2> QED BY <1>1, <1>2, <2>1, <2>2, <2>3, CallerKeeps
<1>8. CASE Workshop!Inspected(c)
  <2>1. y.at \in Nat /\ y.rev \in Nat /\ y.at <= revised /\ y.rev <= revised
        /\ (y.rev # 0 => y.at # 0 /\ y.at <= y.rev)
    BY <1>1 DEF Listing, Dated
  <2>2. CASE y.rev # 0 /\ hashes' = [at |-> y.at, rev |-> y.rev] /\ asked' = [asked EXCEPT ![c].pc = "done"]
    <3>1. asked' = [asked EXCEPT ![c] = [pc |-> "done", at |-> y.at, rev |-> y.rev]]
      BY <1>4, <2>2
    <3> QED BY <1>3, <2>1, <2>2, <3>1
  <2>3. CASE /\ UNCHANGED hashes
             /\ \E s \in {"failed", "done"} : asked' = [asked EXCEPT ![c] = [Workshop!Idle EXCEPT !.pc = s]]
    <3>1. PICK s \in {"failed", "done"} : asked' = [asked EXCEPT ![c] = [Workshop!Idle EXCEPT !.pc = s]]
      BY <2>3
    <3>2. [Workshop!Idle EXCEPT !.pc = s] = [pc |-> s, at |-> 0, rev |-> 0]
      BY DEF Workshop!Idle
    <3>3. asked' = [asked EXCEPT ![c] = [pc |-> s, at |-> 0, rev |-> 0]]  BY <3>1, <3>2
    <3>4. 0 \in Nat /\ 0 <= revised  BY <1>1
    <3> HIDE DEF y
    <3> QED BY <1>3, <2>3, <3>3, <3>4
  <2> QED BY <1>8, <2>2, <2>3 DEF Workshop!Inspected
<1> QED BY <1>5, <1>6, <1>7, <1>8

LEMMA RevisesKeeps ==
  ASSUME SkillInv, Workshop!Revises \/ Workshop!Withdrawn
  PROVE  SkillInv'
<1>1. /\ revised' \in Nat /\ revised <= revised' /\ version' \in {0, revised'}
      /\ UNCHANGED <<hashes, asked, card, run, applied>>
  BY DEF Workshop!Revises, Workshop!Withdrawn, Workshop!source, Workshop!bridge, SkillInv, WorkshopTypes
<1>2. WorkshopTypes'  BY <1>1 DEF SkillInv, WorkshopTypes
<1>3. ASSUME NEW c \in Workshop!Callers PROVE Dated(asked[c])'
  <2>1. asked[c] \in Listing /\ Dated(asked[c])  BY DEF SkillInv, WorkshopTypes, ListingsDated
  <2> QED BY <1>1, <2>1 DEF Dated, Listing, SkillInv, WorkshopTypes
<1>4. /\ hashes # None => hashes.at <= hashes.rev /\ hashes.rev <= revised'
      /\ card # None => card.rev <= revised'
  BY <1>1 DEF SkillInv, WorkshopTypes, ListingsDated, ShownCards
<1>5. ListingsDated'  BY <1>1, <1>3, <1>4 DEF ListingsDated
<1>6. RunDated'
  BY <1>1 DEF SkillInv, RunDated, ShownCards, WorkshopTypes
<1> QED BY <1>1, <1>2, <1>5, <1>6 DEF SkillInv, AppliedIsShown, Workshop!AppliedIsShown

\* What a caller was told makes a card of its own time.
LEMMA CardDated ==
  ASSUME SkillInv, NEW c \in Workshop!Callers
  PROVE  Workshop!CardOf(c) \in ShownCards /\ Workshop!CardOf(c).rev <= revised
<1>1. asked[c] \in Listing /\ Dated(asked[c])  BY DEF SkillInv, WorkshopTypes, ListingsDated
<1> QED BY <1>1 DEF Workshop!CardOf, ShownCards, Listing, Dated

\* Callers begin anew or are done, and the card is the one there was, or of an answer.
LEMMA BridgeKeeps ==
  ASSUME SkillInv, UNCHANGED revised, version' \in {version, 0}, hashes' \in {None, hashes},
         asked' \in [Workshop!Callers -> Listing],
         \A c \in Workshop!Callers :
           asked'[c] = asked[c]
             \/ (asked'[c].at = 0 /\ asked'[c].rev = 0 /\ asked'[c].pc \in {"idle", "asked"}),
         card' \in {None, card} \cup {Workshop!CardOf(c) : c \in Workshop!Callers},
         run' \in [pc : {"idle", "current", "resolve", "restage"}, card : ShownCards \cup {None}],
         RunDated', AppliedIsShown'
  PROVE  SkillInv'
<1>1. card' \in ShownCards \cup {None} /\ (card' # None => card'.rev <= revised)
  BY CardDated DEF SkillInv, WorkshopTypes, ListingsDated
<1>2. WorkshopTypes'
  BY <1>1 DEF SkillInv, WorkshopTypes
<1>3. ListingsDated'
  BY <1>1 DEF SkillInv, WorkshopTypes, ListingsDated, Dated
<1> QED BY <1>2, <1>3 DEF SkillInv

LEMMA CallerBegins ==
  ASSUME SkillInv, NEW c \in Workshop!Callers, Workshop!Asks(c) \/ Workshop!Ends(c)
  PROVE  /\ asked' \in [Workshop!Callers -> Listing]
         /\ asked'[c].at = 0 /\ asked'[c].rev = 0 /\ asked'[c].pc \in {"idle", "asked"}
         /\ \A d \in Workshop!Callers : d # c => asked'[d] = asked[d]
<1>1. \A s \in {"idle", "asked"} : LET x == [pc |-> s, at |-> 0, rev |-> 0] IN
        x \in Listing /\ x.at = 0 /\ x.rev = 0 /\ x.pc = s
  BY DEF Listing
<1>2. Workshop!Idle = [pc |-> "idle", at |-> 0, rev |-> 0]
      /\ [Workshop!Idle EXCEPT !.pc = "asked"] = [pc |-> "asked", at |-> 0, rev |-> 0]
  BY DEF Workshop!Idle
<1>3. PICK s \in {"idle", "asked"} : asked' = [asked EXCEPT ![c] = [pc |-> s, at |-> 0, rev |-> 0]]
  BY <1>2 DEF Workshop!Asks, Workshop!Ends
<1> QED BY <1>1, <1>3 DEF SkillInv, WorkshopTypes

\* The poll and the reconcile.
LEMMA PollsKeep ==
  ASSUME SkillInv,
         Workshop!PollAsks \/ Workshop!Polled \/ Workshop!ReconcileAsks \/ Workshop!Reconciled
           \/ Workshop!Posts \/ Workshop!PostFails \/ Workshop!RetryDue
  PROVE  SkillInv'
<1>1. UNCHANGED <<version, revised, hashes, run, applied>>
  BY DEF Workshop!PollAsks, Workshop!Polled, Workshop!ReconcileAsks, Workshop!Reconciled, Workshop!Posts,
         Workshop!PostFails, Workshop!RetryDue, Workshop!world, Workshop!source, Workshop!bridge
<1>2. /\ asked' \in [Workshop!Callers -> Listing]
      /\ \A c \in Workshop!Callers :
           asked'[c] = asked[c]
             \/ (asked'[c].at = 0 /\ asked'[c].rev = 0 /\ asked'[c].pc \in {"idle", "asked"})
  <2>1. CASE UNCHANGED asked  BY <2>1 DEF SkillInv, WorkshopTypes
  <2>2. CASE \E c \in {"poll", "reconcile"} : Workshop!Asks(c) \/ Workshop!Ends(c)
    BY <2>2, CallerBegins DEF Workshop!Callers
  <2>3. UNCHANGED asked \/ \E c \in {"poll", "reconcile"} : Workshop!Asks(c) \/ Workshop!Ends(c)
    BY DEF Workshop!PollAsks, Workshop!Polled, Workshop!ReconcileAsks, Workshop!Reconciled, Workshop!Posts,
           Workshop!PostFails, Workshop!RetryDue
  <2> QED BY <2>1, <2>2, <2>3
<1>3. asked'["run"] = asked["run"]
  <2>1. CASE UNCHANGED asked  BY <2>1
  <2>2. CASE \E c \in {"poll", "reconcile"} : Workshop!Asks(c) \/ Workshop!Ends(c)
    BY <2>2, CallerBegins DEF Workshop!Callers
  <2>3. UNCHANGED asked \/ \E c \in {"poll", "reconcile"} : Workshop!Asks(c) \/ Workshop!Ends(c)
    BY DEF Workshop!PollAsks, Workshop!Polled, Workshop!ReconcileAsks, Workshop!Reconciled, Workshop!Posts,
           Workshop!PostFails, Workshop!RetryDue
  <2> QED BY <2>1, <2>2, <2>3
<1>4. card' \in {None, card} \cup {Workshop!CardOf(c) : c \in Workshop!Callers}
  BY DEF Workshop!PollAsks, Workshop!Polled, Workshop!ReconcileAsks, Workshop!Reconciled, Workshop!Posts,
         Workshop!PostFails, Workshop!RetryDue, Workshop!bridge, Workshop!TakesList, Workshop!Offered,
         Workshop!Callers
<1>5. RunDated' /\ AppliedIsShown'
  BY <1>1, <1>3 DEF SkillInv, RunDated, AppliedIsShown, Workshop!AppliedIsShown
<1>6. run' \in [pc : {"idle", "current", "resolve", "restage"}, card : ShownCards \cup {None}]
  BY <1>1 DEF SkillInv, WorkshopTypes
<1> QED BY <1>1, <1>2, <1>4, <1>5, <1>6, BridgeKeeps

RunRecord == [pc : {"idle", "current", "resolve", "restage"}, card : ShownCards \cup {None}]
RunIdles == run' = [pc |-> "idle", card |-> None]

LEMMA IdleRun ==
  ASSUME RunIdles
  PROVE  run' \in RunRecord /\ RunDated'
<1> DEFINE r == [pc |-> "idle", card |-> None]
<1>1. r \in RunRecord /\ r.pc = "idle"  BY DEF RunRecord
<1>2. run' = r  BY DEF RunIdles
<1> HIDE DEF r
<1> QED BY <1>1, <1>2 DEF RunDated

LEMMA StagedRun ==
  ASSUME SkillInv, run' = [run EXCEPT !.pc = "restage"]
  PROVE  run' \in RunRecord /\ RunDated'
<1> DEFINE r == [run EXCEPT !.pc = "restage"]
<1>1. r \in RunRecord /\ r.pc = "restage"  BY DEF SkillInv, WorkshopTypes, RunRecord
<1>2. run' = r  OBVIOUS
<1> HIDE DEF r
<1> QED BY <1>1, <1>2 DEF RunDated

\* A run ends, or asks anew, and nothing is applied by it.
LEMMA RunLeaves ==
  ASSUME SkillInv, UNCHANGED <<version, revised, hashes, applied>>,
         RunIdles \/ run' = [run EXCEPT !.pc = "restage"],
         UNCHANGED asked \/ Workshop!Asks("run") \/ Workshop!Ends("run"),
         card' \in {None, card} \cup {Workshop!CardOf(c) : c \in Workshop!Callers}
  PROVE  SkillInv'
<1>1. run' \in RunRecord /\ RunDated'  BY IdleRun, StagedRun
<1>2. /\ asked' \in [Workshop!Callers -> Listing]
      /\ \A c \in Workshop!Callers :
           asked'[c] = asked[c]
             \/ (asked'[c].at = 0 /\ asked'[c].rev = 0 /\ asked'[c].pc \in {"idle", "asked"})
  <2>1. CASE UNCHANGED asked  BY <2>1 DEF SkillInv, WorkshopTypes
  <2>2. CASE Workshop!Asks("run") \/ Workshop!Ends("run")
    BY <2>2, CallerBegins DEF Workshop!Callers
  <2> QED BY <2>1, <2>2
<1>3. AppliedIsShown'  BY DEF SkillInv, AppliedIsShown, Workshop!AppliedIsShown
<1> QED BY <1>1, <1>2, <1>3, BridgeKeeps DEF RunRecord

LEMMA RunBegins ==
  ASSUME SkillInv, Workshop!Decides
  PROVE  SkillInv'
<1> DEFINE r == [pc |-> "current", card |-> card]
<1>1. card \in ShownCards /\ card.rev <= revised
  BY DEF Workshop!Decides, SkillInv, WorkshopTypes, ListingsDated
<1>2. r \in RunRecord /\ r.pc = "current" /\ r.card = card  BY <1>1 DEF RunRecord
<1>3. run' = r /\ Workshop!Asks("run") /\ UNCHANGED <<version, revised, hashes, card, applied>>
  BY DEF Workshop!Decides, Workshop!world, Workshop!source
<1> HIDE DEF r
<1>4. /\ asked' \in [Workshop!Callers -> Listing]
      /\ asked'["run"].at = 0
      /\ \A c \in Workshop!Callers :
           asked'[c] = asked[c]
             \/ (asked'[c].at = 0 /\ asked'[c].rev = 0 /\ asked'[c].pc \in {"idle", "asked"})
  BY <1>3, CallerBegins DEF Workshop!Callers
<1>5. RunDated'  BY <1>1, <1>2, <1>3, <1>4 DEF RunDated
<1>6. AppliedIsShown'  BY <1>3 DEF SkillInv, AppliedIsShown, Workshop!AppliedIsShown
<1>7. run' \in RunRecord /\ card' \in {None, card} \cup {Workshop!CardOf(c) : c \in Workshop!Callers}
  BY <1>2, <1>3
<1> QED BY <1>3, <1>4, <1>5, <1>6, <1>7, BridgeKeeps DEF RunRecord

\* The comparison: a revision that is told again, in an answer listed since the card was,
\* was listed at that revision.
LEMMA ComparedKeeps ==
  ASSUME SkillInv, Workshop!Compared
  PROVE  SkillInv'
<1>1. /\ UNCHANGED <<version, revised, hashes, applied>> /\ run.pc = "current"
      /\ run.card \in ShownCards /\ run.card.rev <= revised
      /\ asked["run"] \in Listing /\ Dated(asked["run"])
      /\ (asked["run"].at # 0 => run.card.rev <= asked["run"].at)
  BY DEF Workshop!Compared, Workshop!world, Workshop!source, SkillInv, WorkshopTypes, ListingsDated, RunDated,
         Workshop!Callers
<1>2. CASE Workshop!Superseded /\ Workshop!Ends("run")
  BY <1>1, <1>2, RunLeaves DEF Workshop!Superseded, RunIdles
<1>3. CASE Workshop!Forgets /\ Workshop!Ends("run")
  BY <1>1, <1>3, RunLeaves DEF Workshop!Forgets, RunIdles
<1>4. CASE Workshop!Restages
  BY <1>1, <1>4, RunLeaves DEF Workshop!Restages
<1>5. CASE /\ ~Workshop!Excluded("run") /\ Workshop!SameContent
           /\ run' = [run EXCEPT !.pc = "resolve"] /\ Workshop!Ends("run") /\ UNCHANGED card
  <2> DEFINE r == [run EXCEPT !.pc = "resolve"]
  <2>1. r \in RunRecord /\ r.pc = "resolve" /\ r.card = run.card
    BY DEF SkillInv, WorkshopTypes, RunRecord
  <2>2. run' = r  BY <1>5
  <2> HIDE DEF r
  <2>3. /\ asked["run"].rev # 0
        /\ run.card.shows = DetailOf[asked["run"].at] /\ run.card.rev = asked["run"].rev
    BY <1>5 DEF Workshop!Excluded, Workshop!SameContent, Workshop!CardOf
  <2>4. asked["run"].at = run.card.rev
    BY <1>1, <2>3 DEF Dated, Listing
  <2>5. RunDated'  BY <1>1, <2>1, <2>2, <2>3, <2>4 DEF RunDated
  <2>6. /\ asked' \in [Workshop!Callers -> Listing]
        /\ \A c \in Workshop!Callers :
             asked'[c] = asked[c]
               \/ (asked'[c].at = 0 /\ asked'[c].rev = 0 /\ asked'[c].pc \in {"idle", "asked"})
    BY <1>5, CallerBegins DEF Workshop!Callers
  <2>7. AppliedIsShown'  BY <1>1 DEF SkillInv, AppliedIsShown, Workshop!AppliedIsShown
  <2> QED BY <1>1, <1>5, <2>1, <2>2, <2>5, <2>6, <2>7, BridgeKeeps DEF RunRecord
<1> QED BY <1>2, <1>3, <1>4, <1>5 DEF Workshop!Compared

LEMMA ResolvesKeeps ==
  ASSUME SkillInv, Workshop!Resolves
  PROVE  SkillInv'
<1>1. /\ UNCHANGED <<revised, hashes>> /\ run.pc = "resolve"
      /\ run.card.shows = DetailOf[run.card.rev]
  BY DEF Workshop!Resolves, Workshop!source, SkillInv, RunDated
<1>2. CASE /\ version = run.card.rev /\ version' = 0 /\ applied' = applied \cup {<<run.card, version>>}
           /\ Workshop!Forgets /\ UNCHANGED asked
  <2>1. run' \in RunRecord /\ RunDated'  BY <1>2, IdleRun DEF Workshop!Forgets, RunIdles
  <2>2. AppliedIsShown'  BY <1>1, <1>2 DEF SkillInv, AppliedIsShown, Workshop!AppliedIsShown
  <2>3. asked' \in [Workshop!Callers -> Listing]  BY <1>2 DEF SkillInv, WorkshopTypes
  <2> QED BY <1>1, <1>2, <2>1, <2>2, <2>3, BridgeKeeps DEF RunRecord, Workshop!Forgets
<1>3. CASE Workshop!Restages /\ UNCHANGED <<version, applied>>
  BY <1>1, <1>3, RunLeaves DEF Workshop!Restages
<1>4. CASE Workshop!Superseded /\ UNCHANGED <<version, asked, applied>>
  BY <1>1, <1>4, RunLeaves DEF Workshop!Superseded, RunIdles
<1> QED BY <1>2, <1>3, <1>4 DEF Workshop!Resolves

LEMMA RestagedKeeps ==
  ASSUME SkillInv, Workshop!Restaged
  PROVE  SkillInv'
<1>1. UNCHANGED <<version, revised, hashes, applied>> /\ RunIdles /\ Workshop!Ends("run")
  BY DEF Workshop!Restaged, Workshop!world, RunIdles
<1>2. card' \in {None, card} \cup {Workshop!CardOf(c) : c \in Workshop!Callers}
  BY DEF Workshop!Restaged, Workshop!TakesList, Workshop!Offered, Workshop!Callers
<1> QED BY <1>1, <1>2, RunLeaves

LEMMA CallFailsKeeps ==
  ASSUME SkillInv, NEW c \in Workshop!Callers, Workshop!CallFails(c)
  PROVE  SkillInv'
<1>1. UNCHANGED <<version, revised, hashes, card, applied>> /\ Workshop!Ends(c)
  BY DEF Workshop!CallFails, Workshop!world, Workshop!source
<1>2. CASE c = "run"
  BY <1>1, <1>2, RunLeaves DEF Workshop!CallFails, RunIdles
<1>3. CASE c # "run"
  <2>1. UNCHANGED run  BY <1>3 DEF Workshop!CallFails
  <2>2. /\ asked' \in [Workshop!Callers -> Listing] /\ asked'["run"] = asked["run"]
        /\ \A d \in Workshop!Callers :
             asked'[d] = asked[d]
               \/ (asked'[d].at = 0 /\ asked'[d].rev = 0 /\ asked'[d].pc \in {"idle", "asked"})
    BY <1>1, <1>3, CallerBegins DEF Workshop!Callers
  <2>3. RunDated' /\ AppliedIsShown'
    BY <1>1, <2>1, <2>2 DEF SkillInv, RunDated, AppliedIsShown, Workshop!AppliedIsShown
  <2>4. run' \in RunRecord  BY <2>1 DEF SkillInv, WorkshopTypes, RunRecord
  <2> QED BY <1>1, <2>2, <2>3, <2>4, BridgeKeeps DEF RunRecord
<1> QED BY <1>2, <1>3

LEMMA RestartsKeeps ==
  ASSUME SkillInv, Workshop!Restarts
  PROVE  SkillInv'
<1>1. UNCHANGED <<version, revised, card, applied>> /\ hashes' = None /\ RunIdles
      /\ asked' = [c \in Workshop!Callers |-> Workshop!Idle]
  BY DEF Workshop!Restarts, Workshop!world, RunIdles
<1>2. Workshop!Idle \in Listing /\ Workshop!Idle.at = 0 /\ Workshop!Idle.rev = 0 /\ Workshop!Idle.pc = "idle"
  BY DEF Workshop!Idle, Listing
<1>3. run' \in RunRecord /\ RunDated'  BY <1>1, IdleRun
<1>4. AppliedIsShown'  BY <1>1 DEF SkillInv, AppliedIsShown, Workshop!AppliedIsShown
<1> QED BY <1>1, <1>2, <1>3, <1>4, BridgeKeeps DEF RunRecord

LEMMA SkillNext ==
  ASSUME SkillInv, Workshop!WorkshopStep \/ UNCHANGED skillVars
  PROVE  SkillInv'
<1>1. CASE UNCHANGED skillVars
  BY <1>1 DEF skillVars, SkillInv, WorkshopTypes, ListingsDated, Dated, RunDated, AppliedIsShown,
              Workshop!AppliedIsShown
<1>2. CASE Workshop!Revises \/ Workshop!Withdrawn
  BY <1>2, RevisesKeeps
<1>3. CASE Workshop!PollAsks \/ Workshop!Polled \/ Workshop!ReconcileAsks \/ Workshop!Reconciled
             \/ Workshop!Posts \/ Workshop!PostFails \/ Workshop!RetryDue
  BY <1>3, PollsKeep
<1>4. ASSUME NEW c \in Workshop!Callers,
             Workshop!ListReturns(c) \/ Workshop!Hydrates(c) \/ Workshop!Inspects(c)
               \/ Workshop!Inspected(c) \/ Workshop!CallFails(c)
      PROVE  SkillInv'
  <2>1. CASE Workshop!CallFails(c)  BY <2>1, CallFailsKeeps
  <2>2. CASE ~Workshop!CallFails(c)  BY <1>4, <2>2, ListingKeeps
  <2> QED BY <2>1, <2>2
<1>5. CASE Workshop!Decides  BY <1>5, RunBegins
<1>6. CASE Workshop!Compared  BY <1>6, ComparedKeeps
<1>7. CASE Workshop!Resolves  BY <1>7, ResolvesKeeps
<1>8. CASE Workshop!Restaged  BY <1>8, RestagedKeeps
<1>9. CASE Workshop!Restarts  BY <1>9, RestartsKeeps
<1> QED BY <1>1, <1>2, <1>3, <1>4, <1>5, <1>6, <1>7, <1>8, <1>9 DEF Workshop!WorkshopStep

\* What the skill workshop applies is what the card of the decision showed, though the
\* proposal is revised between any two of its requests: a revision is not older than the
\* listing it was asked for, and the listing of a run not older than its card, so that the
\* same revision in both was listed with the same detail (getCurrent, resolve and hydrate of
\* sources/skill-workshop.ts).
THEOREM AppliedAsShown == ApprovalsSpec => []AppliedIsShown
<1>1. ApprovalsInit => SkillInv
  BY Starts, SkillInit
<1>2. SkillInv /\ [ApprovalsNext]_pluginVars => SkillInv'
  BY SkillSteps, SkillNext
<1>3. SkillInv => AppliedIsShown
  BY DEF SkillInv
<1> QED BY <1>1, <1>2, <1>3, PTL DEF ApprovalsSpec

=============================================================================
