---------------------------- MODULE LoopTracking ----------------------------
(***************************************************************************)
(* The loops rail: what the plugin tells the kernel is running.            *)
(* src/loop-tracker.ts turns the gateway's session, subagent and cron      *)
(* hooks, which may come late, twice or not at all, into transitions of    *)
(* loops; src/approval-loop-blocker.ts blocks the loop that owns a pending *)
(* approval; src/loop-hooks.ts lists the cron jobs, across an await,       *)
(* before a reconcile.                                                     *)
(*                                                                         *)
(* Abstractions.  A loop id is what it is derived from.  A job is always a *)
(* keeper or always an automation.  Of a transition only the loop and its  *)
(* state matter, a final state is "finished", and the last one per loop is *)
(* kept: the sender's queue is left out.  Run ids, labels and the rest of  *)
(* a loop's metadata are too.                                              *)
(***************************************************************************)
EXTENDS Integers, FiniteSets

CONSTANTS
  Primary, Children,  \* session keys: primary ones, and those of subagents
  SessionIds,         \* native session ids,
  KeyOf,              \*   each of a session with one primary key
  Jobs,               \* cron jobs, each with a session key for its runs
  Approvals,
  MaxRuns,            \* bound: runs of one job
  MaxCrashes,         \* bound: crashes of the gateway
  MaxLoops,           \* bound: loops the kernel is told of
  MaxEmissions,       \* MAX_RECONCILE_EMISSIONS
  None

RunKey(j)  == <<"cron", j>>
Keys       == Primary \cup Children \cup {RunKey(j) : j \in Jobs}
SpawnKeys  == Primary \cup Children
SessionLoop(x)  == <<"session", x>>
SubagentLoop(k) == <<"subagent", k>>
RunLoop(j, r)   == <<"run", j, r>>
RunLoops   == {RunLoop(j, r) : j \in Jobs, r \in 1..MaxRuns}
Loops      == {SessionLoop(x) : x \in SpawnKeys \cup SessionIds}
                \cup {SubagentLoop(k) : k \in SpawnKeys} \cup RunLoops

ASSUME LoopAssumption ==
  /\ KeyOf \in [SessionIds -> Primary]
  /\ IsFiniteSet(Jobs) /\ IsFiniteSet(Approvals)
  /\ MaxRuns \in Nat /\ MaxCrashes \in Nat /\ MaxEmissions \in Nat
  /\ None \notin Keys \cup Loops \cup SessionIds
  /\ Primary \cap Children = {} /\ SessionIds \cap SpawnKeys = {}
  /\ \A j \in Jobs : RunKey(j) \notin SpawnKeys

VARIABLES
  tracker,  \* createLoopTracker: what the plugin knows, and what it told
  held,     \* ApprovalLoopBlocker.held: the owner each approval is held for
  perOwner, \* ApprovalLoopBlocker.perOwner
  marker,   \* of each job, on disk: the run its snapshot marks running, or 0
  runCount, \* of each job: its runs so far
  alive,    \* the jobs whose marked run really runs
  missed,   \* runs whose end no hook told; nothing reads it
  booting,  \* the gateway has not yet announced its cron startup
  listing,  \* the job snapshots of a cron_reconciled being handled
  crashes   \* crashes so far

blockerVars == <<held, perOwner>>
cronVars == <<marker, runCount, alive, missed>>
vars == <<tracker, blockerVars, cronVars, booting, listing, crashes>>

-----------------------------------------------------------------------------

LoopRec(live, key, parent, session, blocked) ==
  [live |-> live, key |-> key, parent |-> parent, session |-> session, blocked |-> blocked]
Rec(key, parent, session) == LoopRec(TRUE, key, parent, session, FALSE)
Closed == LoopRec(FALSE, None, None, None, FALSE)
LoopRecord ==
  [live : BOOLEAN, key : Keys \cup {None}, parent : Loops \cup {None},
   session : SessionIds \cup {None}, blocked : BOOLEAN]

\* `open' and `byKey', `runs', `ended', `retired' are the tracker's maps and
\* sets; `told' is the last state told of each loop.  Nothing reads `met', the
\* keys that had a loop in this process, and `lost', the loops left running in
\* the kernel's eyes by a crash or by an archive that was told before.
Tracker(open, byKey, runs, ended, retired, told, met, lost) ==
  [open |-> open, byKey |-> byKey, runs |-> runs, ended |-> ended,
   retired |-> retired, told |-> told, met |-> met, lost |-> lost]
TrackerRecord ==
  [open : [Loops -> LoopRecord], byKey : [Keys -> Loops \cup {None}],
   runs : [Jobs -> RunLoops \cup {None}], ended : SUBSET Loops, retired : SUBSET Keys,
   told : [Loops -> {"nothing", "running", "blocked", "finished"}],
   met : SUBSET Keys, lost : SUBSET Loops]
Fresh(told, lost) ==
  Tracker([l \in Loops |-> Closed], [k \in Keys |-> None], [j \in Jobs |-> None],
          {}, {}, told, {}, lost)

NoListing == [startup |-> FALSE, on |-> FALSE, enabled |-> FALSE, known |-> {},
              run |-> [j \in Jobs |-> 0]]
Listings == [startup : BOOLEAN, on : BOOLEAN, enabled : BOOLEAN, known : SUBSET Jobs,
             run : [Jobs -> 0..MaxRuns]]

TypeOK ==
  /\ tracker \in TrackerRecord
  /\ held \in [Approvals -> Keys \cup {None}] /\ perOwner \in [Keys -> Nat]
  /\ marker \in [Jobs -> 0..MaxRuns] /\ runCount \in [Jobs -> 0..MaxRuns] /\ alive \subseteq Jobs
  /\ missed \subseteq RunLoops
  /\ booting \in BOOLEAN /\ listing \in Listings /\ crashes \in 0..MaxCrashes

-----------------------------------------------------------------------------
(* The tracker's own steps, as functions of its state. *)

Tell(t, l, state) ==
  Tracker(t.open, t.byKey, t.runs, t.ended, t.retired, [t.told EXCEPT ![l] = state], t.met, t.lost)
SetLoop(t, l, x) ==
  Tracker([t.open EXCEPT ![l] = x], t.byKey, t.runs, t.ended, t.retired, t.told, t.met, t.lost)
SetRun(t, j, l) ==
  Tracker(t.open, t.byKey, [t.runs EXCEPT ![j] = l], t.ended, t.retired, t.told, t.met, t.lost)

\* start: an open or finished identity is not started again.
Start(t, l, x) ==
  IF t.open[l].live \/ l \in t.ended THEN t
  ELSE Tracker([t.open EXCEPT ![l] = x],
               IF x.key = None THEN t.byKey ELSE [t.byKey EXCEPT ![x.key] = l],
               t.runs, t.ended, t.retired \ {x.key}, [t.told EXCEPT ![l] = "running"],
               t.met \cup ({x.key} \ {None}), t.lost \ {l})

\* Variant: a late end frees the key of a newer loop.
OwnsAnyway(t, l, x) == x.key # None
\* A loop frees its key unless another loop has taken it.
Owns(t, l, x) == x.key # None /\ t.byKey[x.key] \in {None, l}

\* finish, of the loops xs names, each with the record it is finished with.
FinishAll(t, xs, publish) ==
  LET gone == DOMAIN xs
      aliases == {SessionLoop(xs[l].session) : l \in {m \in gone : xs[m].session # None}}
      freed == {xs[l].key : l \in {m \in gone : Owns(t, m, xs[m])}} IN
  Tracker([l \in Loops |-> IF l \in gone THEN Closed ELSE t.open[l]],
          [k \in Keys |-> IF k \in freed THEN None ELSE t.byKey[k]],
          t.runs, t.ended \cup gone \cup aliases, t.retired \cup freed,
          [l \in Loops |-> IF publish /\ l \in gone THEN "finished" ELSE t.told[l]],
          t.met, IF publish THEN t.lost \ gone ELSE t.lost \cup gone)
Finish(t, l, x, publish) == FinishAll(t, [m \in {l} |-> x], publish)

\* openLoopForKey
LoopFor(t, k) == IF t.byKey[k] # None /\ t.open[t.byKey[k]].live THEN t.byKey[k] ELSE None

Status(x) == IF x.blocked THEN "blocked" ELSE "running"
SessionOf(k, id) == SessionLoop(IF id = None THEN k ELSE id)
Learn(x, id) == LoopRec(x.live, x.key, x.parent, IF id = None THEN x.session ELSE id, x.blocked)
Adopt(x, parent) == LoopRec(x.live, x.key, parent, x.session, x.blocked)
Mark(x, blocked) == LoopRec(x.live, x.key, x.parent, x.session, blocked)

Bounded == Cardinality({l \in Loops : tracker'.told[l] # "nothing"}) <= MaxLoops
OnlyTracker == Bounded /\ UNCHANGED <<blockerVars, cronVars, booting, listing, crashes>>

-----------------------------------------------------------------------------
(* Sessions.  A hook carries the key, and as a rule the native id. *)

IdsOf(k) == {id \in SessionIds : KeyOf[id] = k} \cup {None}

\* The mapped loop is this session's, as far as both ids are known.
SameSession(t, l, id) == id = None \/ t.open[l].session \in {None, id}

SessionStart(k, id) ==
  LET t == tracker
      current == LoopFor(t, k)
      l == SessionOf(k, id)
      before == IF current = None THEN t ELSE Finish(t, current, t.open[current], TRUE) IN
  /\ id # None \/ k \notin t.retired
  /\ IF current # None /\ SameSession(t, current, id)
     THEN /\ id # None /\ current[1] = "session"
          /\ tracker' = SetLoop(t, current, Learn(t.open[current], id))
     ELSE /\ l \notin t.ended /\ ~t.open[l].live
          /\ tracker' = Start(before, l, Rec(k, None, id))
  /\ OnlyTracker

\* loopToEnd, onSessionEnd: the mapped loop unless it is a newer session's.
SessionEnd(k, id) ==
  LET t == tracker
      mapped == LoopFor(t, k)
      l == IF mapped # None /\ SameSession(t, mapped, id) THEN mapped ELSE SessionOf(k, id) IN
  /\ tracker' = Finish(t, l, IF t.open[l].live THEN t.open[l] ELSE Rec(k, None, id), TRUE)
  /\ OnlyTracker

\* onSessionSnapshot, of a row of the gateway's session list.
Snapshot(k, id, archived, published) ==
  LET current == LoopFor(tracker, k)
      replaced == current # None /\ ~SameSession(tracker, current, id)
      t == IF replaced THEN Finish(tracker, current, tracker.open[current], TRUE) ELSE tracker
      mapped == current # None /\ ~replaced
      l == IF mapped THEN current ELSE SessionOf(k, id)
      x == IF mapped THEN Learn(t.open[l], id) ELSE Rec(k, None, id)
      reopened == IF mapped \/ archived THEN t
                  ELSE Tracker(t.open, t.byKey, t.runs, t.ended \ {l}, t.retired \ {k},
                               t.told, t.met, t.lost)
      learnt == IF mapped THEN SetLoop(reopened, l, x) ELSE reopened IN
  /\ tracker' = IF archived THEN IF l \in t.ended THEN learnt ELSE Finish(learnt, l, x, ~published)
                ELSE IF learnt.open[l].live THEN Tell(learnt, l, Status(x))
                ELSE Start(learnt, l, x)
  /\ OnlyTracker

\* Variant: output of a loop that was finished meanwhile.
ProgressAfter(l) ==
  /\ tracker.told[l] # "nothing"
  /\ tracker' = Tell(tracker, l, Status(tracker.open[l]))
  /\ OnlyTracker

\* onAgentEnd, publishSessionOutput: progress in the loop's own state.
Progress(l) ==
  /\ tracker.open[l].live
  /\ tracker' = Tell(tracker, l, Status(tracker.open[l]))
  /\ OnlyTracker

-----------------------------------------------------------------------------
(* Subagents and spawned sessions. *)

\* resolveParent starts the loop of a primary requester it has not seen.
LazyParent(t, requester) ==
  requester \in Primary /\ t.byKey[requester] = None /\ requester \notin t.retired
WithParent(t, requester) ==
  IF LazyParent(t, requester)
  THEN Start(t, SessionLoop(requester), Rec(requester, None, None)) ELSE t
ParentFor(t, requester) ==
  IF requester = None THEN None
  ELSE IF LazyParent(t, requester) THEN SessionLoop(requester) ELSE t.byKey[requester]

SubagentSpawned(c, requester) ==
  LET t == tracker  l == SubagentLoop(c) IN
  /\ LoopFor(t, c) = None /\ c \notin t.retired /\ l \notin t.ended
  /\ tracker' = Start(WithParent(t, requester), l, Rec(c, ParentFor(t, requester), None))
  /\ OnlyTracker

SubagentProgress(c) ==
  /\ LoopFor(tracker, c) # None
  /\ tracker' = Tell(tracker, LoopFor(tracker, c), "running")
  /\ OnlyTracker

SubagentEnded(c) ==
  LET t == tracker
      l == IF LoopFor(t, c) = None THEN SubagentLoop(c) ELSE LoopFor(t, c) IN
  /\ tracker' = Finish(t, l, IF LoopFor(t, c) = None THEN Rec(c, None, None) ELSE t.open[l], TRUE)
  /\ OnlyTracker

\* localTarget
Target(t, l) == t.open[l].live /\ t.open[l].key # None /\ t.byKey[t.open[l].key] = l

\* registerSpawn, reconcileSpawn: the reply to sessions.create, which a hook may
\* have overtaken.  Where the code throws, nothing changes.
RegisterSpawn(k, parent) ==
  LET t == tracker
      l == IF parent = None THEN SessionLoop(k) ELSE SubagentLoop(k)
      x == t.open[l] IN
  /\ parent # None => Target(t, parent)
  /\ \/ /\ LoopFor(t, k) = None /\ l \notin t.ended /\ k \notin t.retired
        /\ tracker' = Start(t, l, Rec(k, parent, None))
     \/ /\ LoopFor(t, k) = l /\ parent \notin {None, l} /\ x.parent = None
        /\ tracker' = Tell(SetLoop(t, l, Adopt(x, parent)), l, "running")
  /\ OnlyTracker

-----------------------------------------------------------------------------
(* Cron.  The gateway marks a run on disk before its hook and clears the    *)
(* mark when it ends; a hook may not be heard (`heard').                    *)

CronStarted(t, j, r, key) ==
  LET l == RunLoop(j, r)  previous == t.runs[j]
      stale == previous \notin {None, l} /\ t.open[previous].live
      before == IF stale THEN Finish(t, previous, t.open[previous], TRUE) ELSE t IN
  Start(SetRun(before, j, l), l, Rec(key, None, None))

\* The loop the job's entry names, while it is open.
RunOf(t, j) == IF t.runs[j] # None /\ t.open[t.runs[j]].live THEN t.runs[j] ELSE None

CronFinished(t, j, r, key) ==
  LET existing == RunOf(t, j)
      l == IF existing = None THEN RunLoop(j, r) ELSE existing
      x == IF existing = None THEN Rec(key, None, None) ELSE t.open[l] IN
  Finish(SetRun(t, j, None), l, x, TRUE)

CronRemoved(t, j) ==
  LET existing == RunOf(t, j)  after == SetRun(t, j, None) IN
  IF existing = None THEN after ELSE Finish(after, existing, t.open[existing], TRUE)

OnlyCron == Bounded /\ UNCHANGED <<blockerVars, booting, listing, crashes>>

RunStarts(j, key, heard) ==
  LET r == runCount[j] + 1 IN
  /\ r <= MaxRuns /\ marker[j] = 0
  /\ marker' = [marker EXCEPT ![j] = r] /\ runCount' = [runCount EXCEPT ![j] = r]
  /\ alive' = alive \cup {j}
  /\ tracker' = IF heard THEN CronStarted(tracker, j, r, key) ELSE tracker
  /\ OnlyCron /\ UNCHANGED missed

RunEnds(j, key, heard) ==
  /\ j \in alive /\ alive' = alive \ {j} /\ marker' = [marker EXCEPT ![j] = 0]
  /\ tracker' = IF heard THEN CronFinished(tracker, j, marker[j], key) ELSE tracker
  /\ missed' = IF heard THEN missed ELSE missed \cup {RunLoop(j, marker[j])}
  /\ OnlyCron /\ UNCHANGED runCount

\* The job is deleted, its run with it; it may be declared again.
JobRemoved(j) ==
  /\ ~booting /\ alive' = alive \ {j} /\ marker' = [marker EXCEPT ![j] = 0]
  /\ tracker' = CronRemoved(tracker, j)
  /\ OnlyCron /\ UNCHANGED <<runCount, missed>>

\* The mark of a run that died with the gateway goes once startup was announced.
ClearMark(j) ==
  /\ ~booting /\ j \notin alive /\ marker[j] # 0 /\ marker' = [marker EXCEPT ![j] = 0]
  /\ UNCHANGED <<tracker, runCount, alive, missed>> /\ OnlyCron

-----------------------------------------------------------------------------
(* cron_reconciled: the hook lists the jobs, and acts on the reply later. *)

ListJobs(enabled, known) ==
  /\ ~listing.on /\ Jobs # {}   \* with no jobs there is nothing to reconcile
  /\ listing' = [startup |-> booting, on |-> TRUE, enabled |-> enabled, known |-> known,
                 run |-> [j \in Jobs |-> IF j \in known THEN marker[j] ELSE 0]]
  /\ booting' = FALSE
  /\ UNCHANGED <<tracker, blockerVars, cronVars, crashes>>

\* closeStaleRuns: entries of runs that are not running go, and their loops are
\* finished, until the budget is spent: then one more entry goes, its loop stays.
Running(j) == listing.enabled /\ listing.run[j] # 0
CloseStale(t, closed, dropped) ==
  LET gone == {t.runs[j] : j \in closed}
      after == FinishAll(t, [l \in gone |-> t.open[l]], TRUE) IN
  Tracker(after.open, after.byKey,
          [j \in Jobs |-> IF j \in closed \cup dropped THEN None ELSE t.runs[j]],
          after.ended, after.retired, after.told, after.met, after.lost)

\* Variant: the ids are of runs this process opened.
CloseOrphansOpen(t, jobs) ==
  FinishAll(t, [l \in {t.runs[j] : j \in {i \in jobs : t.runs[i] # None}} |-> Rec(None, None, None)], TRUE)
\* closeOrphanedRuns, at startup: what the snapshots mark running is finished.
CloseOrphans(t, jobs) ==
  FinishAll(t, [l \in {RunLoop(j, listing.run[j]) : j \in jobs} |-> Rec(None, None, None)], TRUE)

Reconcile ==
  LET t == tracker
      stale == {j \in Jobs : RunOf(t, j) # None /\ ~Running(j)}
      hollow == {j \in Jobs : t.runs[j] # None /\ RunOf(t, j) = None}
      orphans == IF listing.startup THEN {j \in Jobs : listing.run[j] # 0} ELSE {}
      UpTo(n, S) == {T \in SUBSET S :
                       Cardinality(T) = IF Cardinality(S) <= n THEN Cardinality(S) ELSE n} IN
  /\ listing.on /\ listing' = NoListing
  /\ \E closed \in UpTo(MaxEmissions, stale) :
       \E dropped \in UpTo(1, stale \ closed), seen \in SUBSET hollow,
          ended \in UpTo(MaxEmissions - Cardinality(closed), orphans) :
         /\ dropped = {} => seen = hollow
         /\ tracker' = CloseOrphans(CloseStale(t, closed, dropped \cup seen), ended)
  /\ Bounded
  /\ UNCHANGED <<blockerVars, cronVars, booting, crashes>>

\* The scheduler's snapshot was superseded while the list was awaited.
ListingAborted ==
  /\ listing.on /\ listing' = NoListing
  /\ UNCHANGED <<tracker, blockerVars, cronVars, booting, crashes>>

-----------------------------------------------------------------------------
(* The approvals bridge's blocker.  An owner is a session key. *)

\* Variant: nothing is unblocked.
SetBlockedOnly(t, k, blocked) ==
  LET l == LoopFor(t, k) IN
  IF l = None \/ ~blocked THEN t
  ELSE Tell(SetLoop(t, l, Mark(t.open[l], TRUE)), l, "blocked")
SetBlocked(t, k, blocked) ==
  LET l == LoopFor(t, k) IN
  IF l = None THEN t
  ELSE Tell(SetLoop(t, l, Mark(t.open[l], blocked)), l,
            IF blocked THEN "blocked" ELSE "running")

Hold(a, k) ==
  /\ held[a] = None /\ held' = [held EXCEPT ![a] = k]
  /\ perOwner' = [perOwner EXCEPT ![k] = @ + 1]
  /\ tracker' = IF perOwner'[k] = 1 THEN SetBlocked(tracker, k, TRUE) ELSE tracker
  /\ UNCHANGED <<cronVars, booting, listing, crashes>>

\* release: the approval was decided, evicted or has expired.
Release(a) ==
  LET k == held[a] IN
  /\ k # None /\ held' = [held EXCEPT ![a] = None]
  /\ perOwner' = [perOwner EXCEPT ![k] = @ - 1]
  /\ tracker' = IF perOwner'[k] = 0 THEN SetBlocked(tracker, k, FALSE) ELSE tracker
  /\ UNCHANGED <<cronVars, booting, listing, crashes>>

-----------------------------------------------------------------------------

\* The gateway dies; marks on disk and what the kernel was told remain.
Crash ==
  /\ crashes < MaxCrashes /\ crashes' = crashes + 1
  /\ tracker' = Fresh(tracker.told, {l \in Loops : tracker.told[l] \in {"running", "blocked"}})
  /\ held' = [a \in Approvals |-> None] /\ perOwner' = [k \in Keys |-> 0]
  /\ alive' = {} /\ booting' = TRUE /\ listing' = NoListing
  /\ UNCHANGED <<marker, runCount, missed>>

Init ==
  /\ tracker = Fresh([l \in Loops |-> "nothing"], {})
  /\ held = [a \in Approvals |-> None] /\ perOwner = [k \in Keys |-> 0]
  /\ marker = [j \in Jobs |-> 0] /\ runCount = [j \in Jobs |-> 0] /\ alive = {} /\ missed = {}
  /\ booting = TRUE /\ listing = NoListing /\ crashes = 0

SessionStep ==
  \E k \in Primary :
    \/ \E id \in IdsOf(k) : SessionStart(k, id) \/ SessionEnd(k, id)
    \/ \E id \in IdsOf(k), archived, published \in BOOLEAN : Snapshot(k, id, archived, published)
SubagentStep ==
  \/ \E c \in Children, requester \in Keys \cup {None} : SubagentSpawned(c, requester)
  \/ \E c \in Children : SubagentProgress(c) \/ SubagentEnded(c)
  \/ \E k \in SpawnKeys, parent \in Loops \cup {None} : RegisterSpawn(k, parent)
CronStep ==
  \E j \in Jobs :
    \/ \E key \in {None, RunKey(j)}, heard \in BOOLEAN :
         RunStarts(j, key, heard) \/ RunEnds(j, key, heard)
    \/ JobRemoved(j) \/ ClearMark(j)
ReconcileStep ==
  \/ \E enabled \in BOOLEAN, known \in {{}, Jobs} : ListJobs(enabled, known)
  \/ Reconcile \/ ListingAborted
BlockerStep ==
  \/ \E a \in Approvals, k \in Keys : Hold(a, k)
  \/ \E a \in Approvals : Release(a)

Next ==
  \/ SessionStep \/ SubagentStep \/ CronStep \/ ReconcileStep \/ BlockerStep
  \/ \E l \in Loops : Progress(l)
  \/ Crash

Spec == Init /\ [][Next]_vars

-----------------------------------------------------------------------------
(* Properties. *)

Live(l) == tracker.open[l].live
ToldLive(l) == tracker.told[l] \in {"running", "blocked"}

\* What the kernel was last told of a loop is whether the tracker holds it open:
\* no phantom runs on the rail, none missing, but for what a crash or an archive
\* that was told earlier leaves behind (every handler; finish, line 291).
ToldAgrees ==
  \A l \in Loops : (Live(l) => ToldLive(l)) /\ (ToldLive(l) => Live(l) \/ l \in tracker.lost)

\* No open loop is orphaned: hooks that name its session key or its job still
\* find it, so it can be blocked and ended (bySessionKey and cronRuns, lines
\* 237-241; "close it rather than orphan it", line 477).
OpenLoopsReachable ==
  /\ \A l \in Loops : Live(l) /\ tracker.open[l].key # None => tracker.byKey[tracker.open[l].key] = l
  /\ \A l \in RunLoops : Live(l) => tracker.runs[l[2]] = l

\* A loop is marked blocked only while an approval is held for its owner: none
\* waits for ever on an operator who has answered (release in approval-loop-blocker.ts).
BlockedIsHeld ==
  /\ \A l \in Loops : Live(l) /\ tracker.open[l].blocked
                        => \E a \in Approvals : held[a] = tracker.open[l].key
  /\ \A k \in Keys : perOwner[k] = Cardinality({a \in Approvals : held[a] = k})

\* After the reconcile of a startup that listed every job, no cron run that died
\* with the gateway is running on the rail, but for one whose end was recorded
\* and never told: no snapshot marks it (lines 400-450).
OrphansClosed ==
  [][Reconcile /\ listing.startup /\ listing.known = Jobs
     => \A l \in RunLoops \ missed : ToldLive(l)' => Live(l)']_vars
=============================================================================
