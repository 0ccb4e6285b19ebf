# Formal models of openclaw-imajin-plugin

TLA+ models of the plugin's concurrent parts, TLC configurations that check them
on small instances, and TLAPS proofs of most safety properties, for every instance.

The plugin connects an OpenClaw gateway to an Imajin kernel. Its most delicate
duty is the *approvals bridge*: it shows items that wait for the operator (a
skill proposal, an ask-gated command, a system-agent change, a change of the
model allow list) as signed cards in the kernel's /jin, and carries the operator's
signed decision back to the item's source, exactly once and only for the content
the operator saw. The models start there and go on to everything the bridge
relies on, and to the other rails between gateway and kernel.

## The system

All code runs in one JavaScript process: it is atomic between awaits, and every
await is a point where any other handler may run. Names are files of `src/src/`.

| component | state it keeps | operations | hard behaviour | what makes it correct |
|---|---|---|---|---|
| `gateway-approvals-bridge.ts` | tracked cards, reservations, runs in flight, refused publications, degraded mode | source event, reconcile, publish with retries, kernel decision, drift and restage, fail-closed deny, loop sweep, kernel sync, recovery, dispose | events, walks, decisions and the sweep interleave at every await; snapshots go stale; ambiguous POSTs; restarts | one publisher per id; a decision is applied at most once, to the revision that was approved, before its deadline; every pending item gets a card that the operator sees |
| `approvals-state.ts` | copy of cards, outcomes, warnings; a file | load, persist (chained, best effort) | crash between mutation and write | a posted card is in the file |
| `approval-execution.ts` | claimed ids, loop bindings; memory only | claim, bind | three rails share it; restart empties it | never two calls for one item in flight |
| `approval-loop-blocker.ts` | ids that hold a loop, count per owner, timers | block, release, expiry | block after the item was settled | a loop is blocked while, and only while, it waits |
| `sources/*.ts` | agent of each id, fingerprints, inspected revisions, the proposal at hand, the gateway socket | list, subscribe/poll, getCurrent, resolve, reconnect | partial lists, repeats, revision between read and resolve, broadcasts that are missed | what is applied is what the card showed; no pending item is forgotten |
| `approvals-catchup.ts` | cursor, in memory and in a file | page, apply, advance; entitlement check | deferred decisions, crash after save, grant that comes and goes | the cursor never passes an unexamined decision |
| `ws-service.ts` | socket, session cookie, timers | start, stop, connect, authenticate, frames | stop during connect, late close events, sessions the kernel ends | one socket, one connect or one timer; after stop no timer, and at most the socket of a connect that was under way |
| `session-commands.ts`, `session-command-gateway.ts` | seen command ids, one loopback connection | verify, claim, execute, attest | replays, eviction, failed call after the claim | a command runs once, and what is attested was done |
| `notification-injector.ts`, `notification-state-store.ts` | window, dedup marks, owed wakes; files | receive, coalesce, post, retry, merge at start | marks, markers and acknowledgements at different awaits; crash | what is acknowledged is never lost; one wake per cause |
| `reach-events.ts` | told events; a file, a queue | verify, tell, record, acknowledge | two handlers on one file | acknowledged is told; told again only by who could not know |
| `wake-supervisor.ts`, `wake-guards.ts`, `wake-decision.ts`, `wake-report.ts` | pending wakes, latches and receipts, routed wakes and fence | track, delegate, act, report, trip, time out, end | reports, timeouts, trips, children and ends race; full tables | a wake never ends in silence; a stop fences what was asked before it |
| `loop-tracker.ts`, `loop-publisher.ts` | live loops, ended set, bounded queue | hooks start/progress/block/end; send | hooks out of order, queue at its limit | the kernel is told a loop runs exactly while it does |
| `session-inventory.ts`, `session-history-checkpoints.ts` | observed sessions, checkpoints; a file | subscribe, pass, history call, save | changes during a pass, resets, disposal | at rest the tracker knows every session; a session's cursor is its own, and a turn it has on record does not go out again |
| `horizon/*.ts` | outbox, cursor, dead letters in files | tick, plan, deliver, drain, readback | crash between two saves, stale envelopes | no fact lost, or reported twice |
| `registration-lifecycle.ts`, `plugin-service-runtime.ts`, `index.ts`, `agent-plugin.ts`, `gateway-features.ts` | current registration, what it has open | register, start, set up, replace, stop | a start retires a predecessor at any of its awaits | a retired registration holds nothing but, at most, the late socket of a reconnect; a hook is handled once |
| `inference-*.ts`, `imajin-provider.ts`, `agent-catalogs.ts`, `self-authorize.ts`, `agent-identities.ts` | tokens, catalogue, identity | mint, stream, retry, discover, authorize, clear | shared attempts older than what asks for them | what is answered was read under the consent given |
| `vault/*.ts`, tools, MCP, usage, signing, packets, grading, Cloudflare | none that outlives a call, or one synchronous map | request/response | | |

The bridge interacts with its **sources** (remote calls, event callbacks), the
**kernel** (POSTed cards; decided events over the WebSocket or the durable log),
the **execution registry** it shares with the session commands, the **loop
blocker** (and through it the loop tracker), and the **state file**. The socket
carries frames to four consumers (bridge, session commands, injector, reach
events); what each of them owes the kernel is its acknowledgement. The life cycle
owns them all, and retires them at any of their awaits.

`PROJECT.json` lists the components with their status, and every hazard we found
at its line, with the properties that are aimed at it.

## Modules

| module | what it is |
|---|---|
| `ApprovalsBridge` | the bridge, its state file, the claims, the loop holds, its sources' contract and the environment |
| `ApprovalAuthority` | what the bridge promises its operator, with no bridge in it; the abstract specification |
| `ApprovalsCatchUp` | how decisions reach the bridge: live pushes, the kernel's log, the cursor, reloads |
| `ApprovalsEntitlement` | degraded mode: the shared entitlement check, the recovery, the warnings |
| `SkillWorkshopSource`, `GatewayExecSource`, `CatalogPolicy` | three sources with their gateway: skill proposals, ask-gated commands, the model allow list |
| `WsService` | the socket to the kernel, its session and its timers |
| `SessionCommands` | the session commands' executor and its gateway adapter |
| `KernelLink` | composes the two: frames and attestations go over the socket of the moment |
| `NotificationInjector` | notifications, from the kernel's offer to an admitted wake |
| `ReachEvents` | reach events, from the kernel's offer to the agent's session |
| `KernelNotifications` | composes the two: what the kernel offers until it is acknowledged |
| `WakeTurn` | an admitted wake, from its session to its end |
| `LoopTracking` | the loops rail: the tracker's hooks, the cron reconcile and the blocker's counts |
| `SessionInventory` | the gateway's sessions as loops: passes, history, checkpoints, the sender's queue |
| `SessionLoops` | composes the two |
| `HorizonSync` | the horizon rail, both directions |
| `PluginRuntime` | registrations, setups, the start of the bridge, the hooks' owner |
| `AgentInference` | an agent's tokens, completions, catalogue and consent |
| `AgentPlugin`, `AgentApprovals` | compose them: the registrations own the identity and the discovery timer of the agent; and what its approvals live on |
| `MC...` | instances for TLC |
| `ApprovalsBridgeProofs` | TLAPS: types of `ApprovalsBridge`; one publisher, one call, decision matches card, durability, nothing executed twice, only reviewed items applied, refinement of `ApprovalAuthority` |
| `ApprovalsCatchUpProofs` | TLAPS: types of `ApprovalsCatchUp`; no cursor passes a decision that is still of use |
| `SessionLoopsProofs` | TLAPS: types of `LoopTracking`; the rail agrees with what is open, no open loop is orphaned, none stays blocked; the tracker is told of the list as it is; of the inventory alone and of the composition: cursors are their session's own, and a turn on record is not published again |
| `KernelLinkProofs` | TLAPS: types of `WsService` and `SessionCommands`; one lifeline; approvals and commands once, and as told |
| `HorizonSyncProofs` | TLAPS: types of `HorizonSync`; nothing planned is lost, no fact is told twice |
| `KernelNotificationsProofs` | TLAPS: what is owed is due, what is acknowledged is safe, nothing is repeated |
| `WakeTurnProofs` | TLAPS: types and table bounds of `WakeTurn`; no wake ends in silence, nobody is told twice, no decision passes the fence |
| `AgentPluginProofs` | TLAPS: the safety of `AgentPlugin` and `AgentApprovals`: registrations, inference, allow list, skill proposals, asks |

**Themes.** The components that are composed share a process, and in the code any
step of one may fall between two steps of another. Where they share no state that
would be a product of state spaces without a question, and even where they do, the
product of all their faults is too large. A composition therefore has a variable
`theme`, chosen in the initial state and never changed, that names the part a
behaviour explores; the composed module's header says what each theme leaves at
rest. A property is checked in all themes. Interactions that only two themes
together would show are not covered.

### How ApprovalsBridge corresponds to the code

One action is the code of one handler between two awaits. The state:

| variable | code |
|---|---|
| `published` | `published`: `rev` stands for the content hash, `gen` for the identity of the `TrackedProposal` object (`published.get(id) !== tracked`) |
| `reservations`, `handler` | `reservations` and the `handleSourceRequested` runs that own one: signing, saving, posting, posted (the kernel has the card, the reply is under way), denying |
| `rejectedPublishes` | the refused content of an id, as long as its `retryAtMs` lies ahead (`holdRejectedPublish`) |
| `job` | `reconcileSource` runs: one per source (the sync, which never overlaps itself) and one per restage |
| `run` | `decisionsInFlight`, one per id: checking, read (getCurrent answered), resolving, resolved/failed (reply under way), drifted (mismatch notice), restaging |
| `claimed`, `rail` | `ApprovalExecutionRegistry.claimed`; the session rail's call in flight |
| `held`, `sweep` | ids the loop blocker holds; the `sweepOne` in progress |
| `outcomes`, `warnings`, `disk` | `ApprovalsStateStore` and its file |
| `item`, `late`, `shown`, `signed` | environment: the sources' items, passed deadlines, the kernel's cards, the operator's decisions |

The actions follow the code's order: `Reblock`/`JoinReservation`/`RetireLate`/
`Reserve`, then `Track`, `Saved`, `KernelShows`, `PostConfirmed`, with
`HoldRejected`, `SignFails`, `PostRetries`, `PostFails` and `DenySettles` for the
other ends, and `BackoffEnds`; `ReconcileLists` or `RestageLists`, `RetireOrphans`, `Visit`,
`WalkEnds`; `Deliver`, `Dismiss`/`ReadCurrent`, `Commit`, `ResolveReaches`,
`ResolveReturns`, `HandleDrift`; `SweepReads` (of an
item found settled; the other answers change nothing), `SweepActs`; `HoldExpires`;
`Flush`, `Crash`. `SessionCommand` and `SessionResolves` are the other user of
the claims. A remote call is two steps where the reply's delay matters: the
effect (`KernelShows`, `ResolveReaches`, the snapshot of a list) and the reply.

Abstractions, each of them deliberate:

- A *revision* stands for the whole digest. What `computeContentHash` covers is
  assumed to change with it; signature verification is the flag `signature`.
- Time is the set of items whose deadline has passed; it passes between any two
  steps. So does the deadline of a backoff (`BackoffEnds`), however long it is.
- The state file is read by a process that starts, so where no crash is among the
  faults the writes leave it alone (`Saved`, `Flush`).
- The decisions that the operator takes are a bound (`Taken`); all of them in two of
  the three runs, and in the proofs.
- `retireProposal` awaits the operator's notice; the model takes the outcome, the
  eviction and the notice in one step, as all state it touches is set before.
- A live event may be repeated at any time while its item is pending. The Skill
  Workshop poll suppresses unchanged repeats (`SkillWorkshopSource`); here there
  may be more.
- `publishNativeApprovalBinding` is left out. `dispose` and the cursor are in
  `ApprovalsCatchUp`, degraded mode in `ApprovalsEntitlement`.
- A write that nobody awaits (`forget`) reaches the file at some later time, or
  not at all before a crash; writes are queued, so a later copy replaces an
  earlier one.

The faults are a constant, so each run names what may go wrong: a crash, a failed
write, failed signing, transient or permanent POST errors, failing resolve,
getCurrent and list calls, partial lists, unsigned frames. Proofs cover every
set of faults.

### How ApprovalsCatchUp corresponds to the code

The subject is the path of a decision from the kernel's log to a run of
`processKernelDecision`, for several bridge instances at once: after a reload the
disposed bridge still finishes what it had begun, on the same publication ledger
(`processPublicationLedger`) and the same cursor file.

| variable | code |
|---|---|
| `log`, `granted`, `shown` | the kernel: `event_subscription_log` (decisions, other events, rows withheld by audience), the agent's grant, the newest card |
| `item` | the source's pending revision; 0 once it is settled |
| `tracked` | the publication ledger, shared by the instances |
| `status` | of each instance: not running, active, disposed |
| `cursor`, `disk` | `ApprovalsCursorStore.cursor` and its file |
| `sync` | `performKernelSync` in progress and the locals of `runApprovalsCatchUp`: `fetchCursor`, `safeCursor`, `blocked`, pages read, and the row and `nextCursor` of the page at hand |
| `run`, `restaged` | `decisionsInFlight` of each instance: the row whose frame started the run, and whether it has restaged the item |
| `unlisted`, `skipped` | history, read by no action's guard: a pending item may be without a card; rows answered for good without effect |

`StartSync`, `Preflight`, `Reconcile`, then for each page `Fetch` (or
`FetchFails`), one of `ScanFiltered`, `ScanOther`, `ScanNoop`, `ScanDecision` per
row, and `PageEnds`; `Advance` and `WriteCursor` are the two halves of `advance`,
around its await. `Push` is `onKernelFrame`. A run ends with an outcome
(`RunEffect`: disposed on the way, key not found, getCurrent failed, resolve
failed or the id claimed, applied, gone), or restages first (`RunDrifts`) and ends
"rejected" (`RestagedEffect`); every waiting frame gets the one outcome
(`Waiters`, `Answer`). `Crash` empties memory; `Reload` is `beginRegistration`.

What `ApprovalsBridge` models in detail is coarse here: a listing publishes in the
same step, all items are of one source with drift policy "restage", and the card
a run finds is compared by revision. The state file keeps every tracked card over
a crash, as `CardsAreDurable` proves of the detailed model, or is lost altogether.

### How LoopTracking corresponds to the code

The tracker's state is one variable, `tracker`, and its functions are operators on
that record (`Start`, `FinishAll`, `Tell`, `SetBlocked`, ...), because a handler
calls several of them in a row: a session start may finish one loop and start
another, a spawn hook may start its parent first. A handler is one action; the
only await is the one of the cron listing.

| variable | code |
|---|---|
| `tracker.open`, `.byKey`, `.runs` | `open`, `bySessionKey`, `cronRuns` |
| `tracker.ended`, `.retired` | `ended`, `endedSessionKeys` |
| `tracker.told` | the state of the last transition sent of each loop |
| `tracker.met`, `.lost` | history, read by no action's guard: keys that had a loop; loops that a crash, or an archive told before, left running on the rail |
| `held`, `perOwner` | the blocker's `held` and `perOwner` |
| `marker`, `runCount`, `alive` | the gateway's cron: the persisted `runningAtMs`, the runs so far, what really runs |
| `listing`, `booting` | the `cron_reconciled` hook between its `list()` and `onCronReconciled`; whether startup was announced |

`SessionStart`, `SessionEnd`, `Snapshot`, `Progress`, `SubagentSpawned`,
`SubagentProgress`, `SubagentEnded` and `RegisterSpawn` are the handlers of these
names; any of them may come at any time and again. `RunStarts`, `RunEnds` and
`JobRemoved` are the gateway's steps together with the `cron_changed` hook, which
may not be heard. `ListJobs` and `Reconcile` (or `ListingAborted`) are the two
halves of the reconcile hook. `Hold` and `Release` are the blocker's.

A loop id is what it is hashed from, so `SessionLoop(k)` and `SessionLoop(id)` are
the two ids a session may have. The environment is narrower than the code's types
allow in these points: a session hook carries its key (the hooks take it from the
event or the context); a native id belongs to one key; the runs of a job have a key
of their own; a job does not change between keeper and automation; an approval's
owner is a session key; and the gateway clears no mark and removes no job before it
has announced its startup.

### ApprovalsEntitlement and the sources

`ApprovalsEntitlement` is the part of `gateway-approvals-bridge.ts` that asks
whether the agent holds the grant: `check` is the shared `entitlementCheck`,
`degraded` its last answer, `sync` a `performKernelSync`, `recovery` the chain of
`scheduleRecovery`, which waits for the publications of the moment (`waits`) while
one of these (`pub`) may itself be waiting for the check. `warned` are the warnings
that a degraded or a stale card sends at most once. What it leaves out of cards and
of the log is in the two modules above.

`SkillWorkshopSource` has the two requests (a list, and an inspection where the
list has no revision hash) of three callers at once (the poll, a reconcile and a
decision run), the cache of inspected revisions, the fingerprint of the request
reported last and its retry; `applied` pairs each card that was applied with the
content it was applied to. `GatewayExecSource` has the gateway's socket: a broadcast
is lost when it is down, or before the bridge has subscribed; lists are asked for by
the startup, by the five-minute reconcile and by every hello but the first.
`CatalogPolicy` is `sources/imajin-catalog.ts`: `prop` is `proposalState`, `kept` its
copy in the bridge's file; `reader` are concurrent calls of `pending`, `res` the one
of `resolve`; the delta is computed as in the code, from an allow list with exact,
legacy, wildcard and foreign refs.

### WsService, SessionCommands and KernelLink

`WsService` keeps the fields of the class: `ws`, `cookie`, the four timers, and the
runs of `connect` at their awaits. Sockets and runs are two each, and nothing in the
model says that the second is not used; `Lifeline` does. `session` and `flight` are
the HTTP client's, which the service shares under an agent map. Each socket event,
timer and end of an await is an action (`Opens`, `Accepted`, `Prompted`,
`Rejected`, `Closed`, `Ping`, `PongMissed`, `RefreshFires`, `Stop`, ...).

`SessionCommands` has one handler per frame: signature, `serviceOf`, countersignature,
claim, then the gateway: the exec leg and, should it fail, the plugin leg of an
approval; one call of a send; list and patch of an archive; at last the
attestation. `seen` is the bounded list of ids, `claimed` the registry that the
bridge takes claims from, too (`BridgeResolves`), `conn` the shared loopback
client. `KernelLink` gives it the socket of `WsService` as `link`, and its stop as
`retired`.

### NotificationInjector, ReachEvents, WakeTurn

A *key* of `NotificationInjector` is a coalesce window and a phase. `hand` is
`inject()` for a delivery in progress: new, being buffered, waiting for the marker
to be written, for the dedup store, for the acknowledgement. `wakes`, `writes` and
`disk` are the pending wake store, its queue of snapshots and its file; `turn` is
`flushWakeTurn` of a key with its posts and retries; `known` the idempotency keys
that the gateway has seen. `Start`, `MergeWrites` and `MergeDeletesFirst` are
`stateReady`, which merges what a restart left into one marker.

`ReachEvents` has one handler per registration, each with its queue, all with the
same file. `WakeTurn` begins where the injector has chosen a session: `pending` is
the supervisor's table, `guard` and `sent` the guards' latch and receipts, `routed`,
`retired`, `parent` and `kin` the router's; `run` are the harness's three runs of a
wake: its turn, a later run of the same session, and a child. Every table drops its
oldest at `Capacity`. `RunEnds` is the three `onAgentEnd` handlers in their order;
`Claim` and `Complete` what the injector does with the last end.

### SessionInventory and SessionLoops

`row` and `turns` are the gateway's, `rec` the running pass over one list with what
it has still to observe, `dirty` the refresh asked for meanwhile. `chain` are the
calls of `history` in the order of their promise chain, each at its await: loading
the checkpoints, the request, waiting for the sender, the writing of the file
(`mem`, `disk`). `queue` is the tracker's bounded sender. A turn is one output;
`settled` is history: outputs delivered or given up; `outran` those that had left
the window when they were asked for.

### HorizonSync

`pc` is where the running tick is: `drain` and `posted`, `receipt`, `ack`, then
`diff`, and the readback with its second read of the file (`fetch`, `reread`,
`compare`, `save`). `cursor.pending` is the outbox saved before the first POST;
`aged` that it is older than the kernel's window, so that only a receipt can
acknowledge it; `dead` the dead-letter file. `Plan` is the set of envelopes that
`planDiff` makes of the file and the cursor, and `Ordered` the one sequence in which
it posts them (`InPlanOrder`: items in order, of one item first its
declaration, then an update, then its completion). The kernel judges an envelope when it
likes, also after the reply was given up.

### PluginRuntime, AgentInference, AgentPlugin

`reg` is the life of each `PluginServiceRuntime` and what its setup has opened, in
the order of `index.ts` for a configuration file and of `agent-plugin.ts` for an
agent map; `bridge` the start of its approvals bridge, source by source, with the
connections it owns. `Start` retires the predecessor at whatever await it is;
`event` is a hook event in its round of the registries; `owed` are decisions pushed
before there was a handler. `sock` is the WebSocket as the life cycle sees it: lost, it
is made again by a timer (`Redials`) and a `connect` (`Redialed`) that does not look
whether the service was stopped at its awaits. `AgentInference` has the token entry by epoch (it is
dropped and minted anew), the mint and the catalogue attempt that several share, the
completions with their one retry, and `consenter`, a self-authorization at its awaits:
`Seeks`, `ConsentGoes`, `KernelConsents`, `ConsentLands` or `AuthorizationFails`, then
`ConsentRefreshes`. (A POST that the kernel takes after the tool gave it up is not
modelled.)
`AgentPlugin` makes the identity and the discovery timer part of a registration's
setup and disposal; `CatalogPolicy` runs beside them.

## Runs

| run | instance | shows |
|---|---|---|
| `BridgeSkill` | one item with two revisions, pinned, restaged, countersigned; two handlers; lost POSTs, unsigned frames, failing reads and resolves, partial lists | `SinglePublisher`, `AppliedWasReviewed`, and `KeepsAuthority`: the bridge implements `ApprovalAuthority` |
| `BridgeExec` | fail-closed, deadline, loop owner, native ids (session rail), sweep; crashes, signing, refused and lost POSTs with one retry, failing resolves | `ExclusiveCall`, `NeverExecutedTwice` |
| `BridgeLive` | as `BridgeSkill` with one handler, one retry, approvals only; lost, refused and backed-off POSTs, failing and partial lists | `EverythingSettles`, `PendingGetsCard` |
| `CatchUp` | one item with two revisions, two bridges, one reload or crash, one other or withheld row, pages of one row, two pages per read, seven faults | `CursorCovers`, `DecisionsLand` |
| `Loops` | one primary key with two native ids, one subagent, two approvals; or one job with two runs and a crash; or the inventory of one key with two sessions of two turns, a window of one turn, a queue of two, two calls at a time (one where sessions are replaced) | `ToldAgrees`, `OpenLoopsReachable`, `BlockedIsHeld`, `OrphansClosed`; `RefreshCovers`, `HistoryExact` |
| `Horizon` | one item with two versions, an edit, a restart or stop | `CursorIsReported`, `FactOnce`, `OutboxDrains` |
| `KernelLink` | the socket under all its faults; or two commands on one approval, or an archive over two sessions, two frames at a time, one remembered id | `Lifeline`, `Reconnects`; `ApprovalOnce`, `OnceAndAsTold` |
| `Injector` | two notifications, two windows, two deliveries each, two starts; or two reach events, two handlers, a fault | `AcksAreSafe`, `NoRepeat`, `OwedIsDue` |
| `InjectorMerge` | the same with one window | finding: `AdmittedRan` |
| `WakeTurn` | one wake that decides and reports; one that reports twice; or two that compete for tables of one place; two targets | `NoSilentEnd`, `ToldOnce`, `FenceHolds`, `EndsTold` |
| `WakeSilent` | the first of these | finding: `EndsAlerted` |
| `AgentPlugin` | a registration with a configuration file and one with an agent map, two sources, a frame, an event, sockets lost or not made; or one call, two consents, one offer, three tokens, a fault; or an allow list over one model and the selector, two proposals, an edit; or one item with two grant changes; or a proposal with two revisions; or one ask, three hellos and two reconciles | `NothingLeft`, `HandledOnce`, `DroppedIsRead`; `ConsentIsFresh`, `NothingAfterGone`, `CatalogCatchesUp`; `WritesReviewed`, `SpentStaysSpent`; `GrantCatchesUp`; `AppliedIsShown`; `NoAskForgotten` |

Every module has a type invariant. Those of the bridge, the catch-up, the loops, the
socket and its commands, the horizon and the wake's turn are proved (the theorems below); the others
were used while the modules were written and are not part of a run: the runs ask what
may really go wrong.

### Why the bounds are enough

*Bridge.* All state of the bridge is keyed by item, and items of one source meet
only in the walk, which handles them one after the other; two handlers are what a
second publisher of the same item would need (`BridgeLive` has one, since the
reservation lets no second work). There one decision suffices to take a card away;
the other two ends of a decision are in the other runs. Two revisions are enough for "the one the operator
saw" and "the one that is pending now". Identities (`gen`) are reused as soon as
nobody holds them, so the state space is finite without a bound on publications.
Handlers are symmetric; symmetry is off where liveness is checked.

*Catch-up.* The log has up to two decisions, more than one page and as many as one
read may take, so reads stop at the page limit, resume, and meet a decision behind a
deferred one; two bridges are a predecessor and its successor. What a third bridge,
a longer log, larger pages or the remaining faults (a failing list, lookup or
resolve) could add is left to the proof, which has no bounds.

*Loops.* Loops meet on a session key, on a job, or as parent and child. There is one
key over which a lazy loop and two native sessions follow each other, a subagent
that may be their child, and a job whose runs replace each other and whose key a
subagent's parent may name. `MaxLoops` bounds the loops of a behaviour, since ended
identities are never forgotten; three are a loop, its successor and a child. The
reconcile budget is as large as the number of runs. In the inventory, a window of
one turn makes turns leave it, a queue of two fills up with one output and a note,
and a reset gives the key to its second and last session. Turns are taken and read
in two kinds of behaviour, both without archivings, loops ended by a hook, lost
connections and commands: "history" with two calls at a time and two turns of one
session, and "replaced", where hooks, resets, passes, disposal and crashes meet, with
one call at a time (`FewCalls`) and one turn of each session (`FewTurns`). In
"replaced" lists and the checkpoint file can always be read, and no disposal follows
a fault; larger values make the run too long. For the same reason approvals are
held of one owner at a time, of jobs one approval and only for a run's key. The
proof has neither kinds nor these bounds: `TurnsGoOutOnceAlone` is about the
inventory with all of its steps in any order.

*Socket and commands.* Two sockets and two runs of `connect` are one more than there
may be. One remembered id makes every second command evict; two handlers are a
frame and its replay, or two commands on one approval.

*Injector, reach, wakes.* Two windows are one that is merged and one that is open;
two starts a crash and its recovery; two frames one that leads and one that
trails. Two handlers of reach events are a registration and its successor. Two wakes
and one place make every track evict; two targets make a report fail in part.

*Horizon.* An item is independent of the others but for the order of a batch, which
the plan's definition fixes. One edit gives the second version; a restart falls
between any two steps.

*Plugin.* Two registrations are a predecessor and its successor, of either kind, in
either order; where one of them is looked at while it works, the other sets up to its end. `MaxDrops` bounds how often an active registration's socket is lost or not made;
after a stop nothing makes it again, so there it needs no bound. Each counter bounds an
environment action (a fault, an edit, a lost socket, a hello) that would otherwise repeat; each is large enough that what it
disturbs has happened before and happens again after it.

`CHECK_DEADLOCK` is off everywhere: the systems stop when everything is settled,
retired or at a bound.

### Fairness

Remote calls settle, with an answer or an error, and the code goes on after them: it
awaits only promises with that property (HTTP calls with timeouts, file writes, other
runs). Beyond this the modules assume what follows, and nothing of the operator.

- `PendingGetsCard` needs `ClockFairness`: the sync comes back (five-minute
  entitlement timer, every reconnect), and if lists are partial, not all of them are;
  a backoff ends. And it needs `KernelFairness`: the kernel does not refuse or lose
  every POST for ever. It holds without any live event.
- `DecisionsLand`: the sync comes back, the owner grants the capability, and a
  preflight, a page read or a run that is tried again and again succeeds some time.
  Pushes get no fairness, so every decision has to land by way of the log.
- `Reconnects`: the kernel is not unreachable for ever, answers an open socket, and
  at some time stops ending sessions (else it may end each before it is accepted).
- `OutboxDrains`: the interval timer starts ticks, the host starts what it stopped,
  the kernel is not for ever without an answer nor the disk without a write.
- `EndsTold` relies on the supervisor's timer alone: the gateway, the harness and
  the sends may hang.
- `CatalogCatchesUp`: the discovery timer fires (so its interval is not 0), and mints and attempts come back.
- `GrantCatchesUp`: the five-minute timer fires and what is scheduled runs.

## Findings

Two runs check a sentence of the repository and find it violated.

- `InjectorMerge`: the startup merge keys what it finds to the earliest window's
  *leading* wake. If a trailing marker is alone, because that window's leading wake was
  admitted before the restart, the replay takes an idempotency key the gateway
  knows: it is answered 200 without a run, the marker goes, the frames never reach an
  agent. notification-injector.ts:1187 says the merge "converges rather than losing
  anything".
- `WakeSilent`: each end of a run of the wake's session replaces `parentEnd`. If a
  later run ends while a child is open, the end that settles the wake carries that
  run's id, which the guards do not take for the wake's turn: nobody looks at the
  receipts, and the wake ends with neither a report nor an alert. README.md:1425 of the
  plugin says: "An ending without receipts alerts".

## Observations

Met while modelling; no run asserts them. Line numbers are of the file that the
paragraph is about.

**Bridge.** `reconcileSource` retires tracked ids a `list()` reply does not name. If
the reply was taken after a decision took effect at the source and is processed
before the decision's own reply, the operator is told "expired/superseded" of an
applied item (967 against 746). A drift error thrown by `source.resolve` comes after
the claim, which is never released: the decision on the fresh card is dropped as
"claimed by another execution rail" until the plugin restarts (1482). A decision
applied while the POST's reply is in flight forgets the card; the POST's success path
then blocks the loop of the settled item, and the sweep skips it (1097). The card is
tracked before it is saved and posted, so a repeated event in that window blocks the
owner's loop before any card exists (993; the plugin's README.md:1830 has it
otherwise). Frames of one id share the run in flight: while the run of an older frame
restages the item, catch-up reads the decision on the fresh card, shares the older
frame's "rejected" and moves the cursor past it. A process that dies between the save of a card and its POST leaves the item
tracked in the file: the next process takes the file's cards for its own (699) and does
not publish the item, so it has no card until it is revised, settled or evicted; the
comment of `reconcile` (946) speaks of what was published "in this process lifetime",
and `BridgeLive` has no crash. A source with drift policy "leave"
keeps the stale entry until "a full reconcile naturally repopulates it", but
reconcile skips ids that are tracked. When Skill Workshop cannot list one agent of
several, reconcile retires that agent's pending cards, with a notice; a later
complete list brings them back (`PendingGetsCard`).

**Catch-up.** A disposed bridge answers every frame "noop", and catch-up takes "noop"
for done: a sync that a re-registration overtakes walks over the remaining decisions
and saves its cursor behind them (gateway-approvals-bridge.ts:1283). `CursorCovers`
shows that this, a shared outcome, an unlisted item, a failed key lookup and a failed
resolve are the *only* ways for the cursor to pass a decision that is still of use:
such rows are collected in `skipped`, everything else is settled or superseded. The
last two contradict "stops at the first event whose handling failed transiently" when
the failure is a lookup or a resolve rather than `getCurrent`. A grant that lapses
between the preflight and a page read lets `nextCursor` pass withheld decisions; this
is the one hazard without a property, since the grant lapses only in
`ApprovalsEntitlement`, where there is no cursor. There, a recovery found while a
sync with an earlier "missing" is in flight is not scheduled but left to the next
five-minute sync.

**Sources.** The workshop's fingerprint of a request outlives its card when the card
is evicted without being settled (a restage whose list fails, a partial list, a
failed resolve, or a slow list that retires what the poll has just published): the
poll then does not offer the item again, only a reconcile does
(docs/approvals-bridge.md:119-125 speaks of one poll interval). `onPublishFailed`'s
retry time may attach to a newer fingerprint. The system agent does not list again
when the gateway reconnects, unlike the exec source. Sources are reconciled in turn,
so a slow POST of one delays the list of the next. `identify` of the catalogue awaits
its save and then returns the id of the moment, so a request may carry the id of
another delta; the check of the revision catches it. After a lost reply of the patch,
or a crash before the proposal is forgotten, the same id comes back although the
replay guard has consumed its decision.

**Socket and commands.** A reconnect during an `onKernelConnected` in flight shares
it, and may miss frames until the five-minute check (gateway-features.ts:249 says
every reconnect replays). The client keeps a session the kernel has ended for up to
an hour. A connect that is under way at `stop` (a reconnect's, at its challenge) goes
on and opens its socket (ws-service.ts:347), with its heartbeat and its refresh, of a
registration that is retired; `Lifeline` and `NothingLeft` say that there is no second,
and no reconnect. Every error of the exec leg, also one after its effect, leads to
the plugin leg (session-command-gateway.ts:169-177). An archive's list and patch act
on whichever session holds the key when they come.

**Notifications and wakes.** A frame replayed while the dedup write of its first
delivery is pending joins the trailing phase: two wakes; `NoRepeat` therefore allows a
second wake of what was delivered twice. A predecessor's late marker write may be
overwritten by its successor's snapshot; the files of marks are written in place. One
hung lookup or send holds all reach events; a malformed one is never acknowledged, so
the kernel offers it for ever. A child whose spawn was let through before a stop
registers after it. A report that failed in part may tell a target twice when it is
repeated. A refusal that comes after guards and supervisor have let go of the wake
loses its alert. The guards' entries of turns that never run are freed only when 100
others push them out. `FenceHolds` excludes later runs of the session and children
whose session the guards never learned.

**Loops.** A spawn's reply or a run's progress tells "running" of a loop whose
approval is pending, and a loop that takes a key over from a blocked one is not
blocked again, since the owner's count is already one. A listing that fails is handled
like an empty one and closes the runs of this process as cancelled. A startup
reconcile lists across an await and then finishes every run the list marks, also one
that this process has started meanwhile (loop-tracker.ts:428), and leaves the
key's entry behind, pointing at a finished loop. When more than 200 stale runs meet one
reconcile, one entry goes whose loop stays open (412). Under an agent map the scoped
`cron_reconciled` hook needs a session key of its own, so that the startup's closing
does not run there.

**Inventory.** A history call that began before a reset knows the key by the old
identity. It reads the turns of the new session, publishes them and saves its points
under the old id; the next call that knows the new identity finds no record of its own
and publishes them again (session-inventory.ts:35-50, 57). The same happens to a session
that its `session_start` hook reports after a reset, while a pass still works on an older
list, once the pass has set the identity of that list. docs/session-commands.md:155 gives
a new id "its own cursor", which `CursorsOwn` shows it has: what goes wrong is where the
call writes, not what the session is given. `HistoryExact` excludes exactly these calls
(`c.id # c.of`), and no order of hooks, resets and passes.
Rows without an id may be skipped when the window slides. A failed read of the
checkpoints is remembered for ever. Outputs that a full queue dropped, or whose POST
failed, are recorded as published; `HistoryExact` counts them as done with. A failed
subscription is not tried again before the next connect. A disposed inventory's calls
may overwrite its successor's file.

**Horizon.** An edit made between the readback's second read and its save is lost
(readback.ts:118 against 115).

**Life cycle and inference.** A runtime is the owner before its handlers are set, so
hook events of that window are lost. `beginRegistration` does not await `dispose`, nor
the drain the horizon's stop of a configuration file (registration-lifecycle.ts:1-6).
A runtime stopped before its setup's first microtask never adds its disposer. A start
after a stop does not start the same registry again. `invalidate(); refresh()` joins an
attempt in flight, whose end resets the stale mark (index.ts:265, agent-catalogs.ts:86,
against imajin-provider.ts:359): the catalogue may stay old until the timer.

## Proofs

Every theorem is about a module's specification, for every value of the constants
under the assumption that the module names (which kind of value each constant is, which
sets are disjoint); no bound of the runs is used. A theorem about a composed module
holds in all its themes. Every module of proofs has the same shape: an inductive
invariant as a conjunction of named parts, a lemma that the initial states have it, a
lemma per action (with a step per part), and a last theorem that puts them together.

### The bridge

The theorems are about `Spec` under `BridgeAssumption`. Type correctness
(`TypeCorrect`) comes first and is inductive by itself: records
in use are filled in (`HandlerRecord`, `RunRecord`), which the later proofs need to
look an item up. Each safety property then gets the strengthening that makes it
inductive, one part at a time, on top of `TypeOK` and the parts before it:

| theorem | inductive part | why it is needed |
|---|---|---|
| `OnePublisher` | `Reserved /\ SinglePublisher` | a handler at work holds its item's reservation, so `Reserve` cannot start a second |
| `OneCall` | `CallsClaimed /\ ExclusiveCall` | a call in flight was claimed, so another rail's claim fails |
| `CallsMatchCards` | `RunsKnowCard` | a run that still has the tracked card's identity has its revision; identities in use are not reused |
| `CardsAreDurable` | `OwnCard /\ CardDurable` | where a process may die, a save by one handler may land as an older copy, which still has its own card |
| `NothingExecutedTwice` | `ExecutedIsClaimed` | an executed item is claimed, or (after a restart) *quiet*: no run, handler or list snapshot could still start a call |
| `OnlyReviewedApplied` | `OnlySignedRuns /\ AppliedWasReviewed` | past the check, a run is backed by the operator's signature |
| `BridgeKeepsAuthority` | `NamedRevisions` | cards show revisions the item has had; every step is then a step of `ApprovalAuthority` or a stutter |

`BridgeKeepsAuthority` assumes `AllReviewed`: every source is countersigned and
pinned, or belongs to those that answer directly (fail-closed or native ids). This
is what the code requires too: without a required countersignature the bridge
trusts the kernel, and without a pinned revision it trusts that items do not
change between `getCurrent` and `resolve`.

### The catch-up

`CursorNeverLosesADecision` (on top of `CatchUpTypeCorrect`) is `CursorCovers` for every number of bridges, items and
rows, every page size and limit, and every set of faults, under
`CatchUpAssumption` (bounds are naturals, the items are finitely many). Its
inductive invariant `Inv` has these parts:

| part | why it is needed |
|---|---|
| `CursorsSpent`, `SyncsSpent` | what a cursor, and a sync that has deferred nothing, has behind it is *spent*: of a settled item or an older card, or in `skipped`; spent rows stay spent because items and the log only grow |
| `CardOrder` | tracked, decided and pending revisions are in order, so a run that drifts is of an older card |
| `Listed` | while rows are read, every pending item has its card or a listing has failed, so "not tracked" means settled |
| `RunsTracked`, `OneOn` | the same for the item of a run in flight; there is one active bridge to forget a card |
| `RunsRestaged` | a run that restaged is of an older card, so its "rejected" is right for its own row |

Each part has one lemma for all steps (`SpentStep`, `CardOrderStep`, ...); `Split`
and `RunSteps` sort the actions by what they do to cards and to runs.

### The loops

`LoopTypeCorrect` and `RailAgrees` have one inductive invariant, `LoopInv`:
`Good(tracker)` (the record's type and `Agrees`, which is `ToldAgrees` of a state of the
tracker), `Counted` (the blocker's count of an owner is the number of approvals held for
it, without which a release might leave the naturals), and `CronOK` (a run that is alive
is marked, so its end names a run). Since the handlers are compositions of operators, so
is the proof: `StartKeeps`, `FinishAllKeeps`, `TellKeeps` and the like say that an
operator keeps a good state good, and each handler's lemma composes them. It assumes
`LoopAssumption`: jobs and approvals are finitely many, the bounds are naturals, and the
sets of ids are disjoint.

`NoLoopOrphaned` and `NoneBlockedForEver` add `Reach(tracker, Waiting)`:

| part | why it is needed |
|---|---|
| `AtHome` | an open loop has its one home key (its id is derived from it), a run's loop perhaps none, so that a hook that names the key names the loop |
| `Mapped` | a key is mapped to a loop at home there, and if that is a run, to one that is open or has ended, so that it does not start under another key |
| `KeyFinds`, `JobFinds` | a key finds the open loop that has it, and a job its open run: this is `OpenLoopsReachable` |
| `OnlyWaiting` | a loop marked blocked has an owner in `Waiting`, the owners with a count: this is `BlockedIsHeld` |

They hold under one more assumption, `EveryJobFits`: one reconcile may close a run of
every job (`Cardinality(Jobs) <= MaxEmissions`). The code's budget is
`MAX_RECONCILE_EMISSIONS = 200` (loop-tracker.ts:142), and the proof does not go through
without it for a good reason: the reconcile drops the entry of a stale run before it
looks at the budget (loop-tracker.ts:411-412), so the loop of the 201st stale run stays
open and no later hook finds it. TLC shows the same with `MaxEmissions = 0`.

`HooksAsAlone` says that the composition with the inventory implements `LoopTracking`, so
these theorems hold of `LoopsSpec`, which the run checks, as well.

### The inventory of sessions

`InventoryTypes` is common to the theorems; its hard cases are the calls of history,
whose sequence only moves by `Going`, `Ending` and `PassEnding`, and the sender's queue
(`Publishing`, `Sending`). It assumes `InventoryAssumption`: the bounds are naturals, a
window has at least a turn, the keys are finitely many.

| theorem | inductive part | why it is needed |
|---|---|---|
| `TheListIsTold` | `Covering` | the rows a pass is through with are those the tracker was told of |
| | `Current` | while connected and without an event on its way, the list of a pass that no refresh has marked is the gateway's, so its end leaves nothing untold |
| `TurnsGoOutOnceAlone`, `TurnsGoOutOnce` | `OnFile` | calls come one after the other, and whoever is past the loading reads what is in the file |
| | `Kept`, `CallKept` | what is recorded is done with; the turns before the one the call is at are, and the one it sent is settled or no further back in the queue than the call waits for, so the wait suffices |
| | `Numbered` | ids are given out in order, no two keys share one, and no record is of an id to come, so a new session starts with none |
| | `CallNumbered`, `Owned` | what a call records under an identity is of the session it read; if that session holds the key it knows itself by that identity, so nobody who holds a key has the record of another |
| | `Ahead` | a call is ahead of the record of the session that it knows and reads, so what it publishes is not on it |

A step falls in one of a few kinds: it leaves the call and the records in place (`Quiet`),
lets the call go on (`Goes`), or gives a key away (`ResetKeeps`); the lemmas are per kind.
`HistoryExact` is an action property: `HistoryKept` follows from `Kept`, `CursorsOwn` from
`Owned`, and that a published turn is not on record from `Ahead`. `TurnsGoOutOnceAlone`
proves it of the inventory's own specification, where every step may follow every other;
`InventoryAsAlone` says that the composition implements that specification, whatever its
theme, and `TurnsGoOutOnce` follows.

### The socket and the commands

`KernelInv` is `LinkInv /\ RailInv`; the parts share no step but the one that hands a
frame to the commands. In `LinkInv`, `Line` counts what may become the socket: runs of
`connect`, the reconnect timer and sockets that are not gone are at most one together
while the service runs, and after a stop a run that was under way may still add one;
`InUse` and `Watched` say that the socket that opens or is open is the one the service
holds and beats, so a late close event of another does not end it. `OneLifeline` follows. In `RailInv`, `Counted` says
that an approval was asked at most once and then is claimed (`AskedOnce`), and
`Remembered` that the calls made and still to be made for an id are at most one, and none
unless the id is in the list or was evicted; `Honest` that what is, or will be, attested
as completed was done (`RunOnceAndAsTold`).

### The horizon

The argument of `HInv` is a ledger. `Custody`: every envelope that was planned is in the
saved outbox, applied by the kernel, or a dead letter. `Ledger`: what the cursor (with an
outbox, its target) takes for told is what the envelopes say, and none is younger than
its time; so a plan, which is what the file has and the ledger has not, repeats nothing
(`Once`). `Place` ties both to where the tick is: a plan is only made when no outbox would
be overwritten, and an envelope leaves the outbox only when applied or dead. The crash and
the failed write between two saves then are two of the lemmas. `NothingPlannedIsLost` and
`FactToldOnce` follow.

### The notifications

The injector and the reach events share no state, so each half of a property has an
invariant of its own, and the other half's steps are stutters to it.

| theorem | inductive part | why it is needed |
|---|---|---|
| `OwedStaysDue` | `WakeInv`: `WindowOpen`, `Opened`, `Covered`, `Awaited` | the open window's key has no turn yet, since windows are numbered and every key in use (on disk, in a queued snapshot, in a turn) is of an earlier one; a turn that goes on has all frames of its marker, so a marker that goes takes nothing along |
| `AcknowledgedIsSafe` | `SafeInv`: `Chained`, `Owing`, `Kept` | snapshots only shrink by what is settled, from the file through the queue to memory, so whichever of them is the last to be written loses nothing; a snapshot has the frame of the delivery that waits for it; what is remembered, in memory or on disk, was as safe as what is acknowledged |
| | `ReachInv`: `OnlyTold`, `Heads` | what is remembered was told; the head of a queue is remembered before it is acknowledged |
| `NothingRepeated` | `OnceInv`: `InOnePlace`, `Spent`, `FirstStart` | before a restart a frame that was delivered once waits in one place, a delivery, the window or a turn; once run it waits, if anywhere, in a turn whose key the gateway knows; the first start has nothing to merge |
| | `ReachInv`: `OneTells`, `Excused` | only the last handler tells, and what it does not remember but was told its reading of the file has counted |

The start is the hard step of `WakeInv` and `SafeInv`: `MergeKeeps` says that the union, and
both together, have the frames of the windows and no others, and `StartsMerging` that so has
every snapshot on the way. The assumption is `BoundsAssumption`.

### The wake's turn

`TurnInv` is `Tables` and, for each wake `b`, `Good(b)`: almost every step is of one
wake, so a lemma per action shows `Good` of that wake, and `OneWake` (with `SameGood`)
that nothing changed for the others. Only `Track` and `Refused` touch a second and a
third wake, those that make room (`EvictedGood`).

| theorem | inductive part | why it is needed |
|---|---|---|
| `WakeTypesHold` | `Tables` | the supervisor and the router have a wake once, so the one that makes room is gone from the table; the guards count what they hold |
| | `Latched`, `Counted` | the alert is latched, so the second reason finds it taken; what landed, strays or is being sent belongs to a report that was let in |
| `NoWakeEndsSilent` | `Heard` | what ends a wake, each in its own way, comes with its outcome: a guard that is stopped, an end the guards matched, and a wake out of the supervisor's hands; without a later run an end they did not match finds the supervisor without the wake |
| | `LetGo` | a guard that let go, a report that was sent and an end that was claimed each leave the supervisor without the wake, so a late end or alert has nothing to claim |
| `NobodyToldTwice` | `OneRound` | while no send failed, deliveries are one round: under way to all who have none, or over for all or none, and their receipts are complete while the guard is on; so a second report is let in only when nobody was told |
| | `Latched`, `LetGo` | who expired is owed no report, and who had one has left the supervisor, so does not expire |
| `FenceIsKept` | `Fenced` | the router's wakes are not behind its fence, and of a complete report it knows, so "still open" after the await is enough |
| all | `Untouched`, `Guarded` | a wake no table has taken has no history, and whatever is going on in one means that the guards had it |

`FenceIsKept` is an action property: `OnlyDecided` says that no other step lets a decision
through. The assumption is `CapacityAssumption` (a capacity of at least one, some target).

### The plugin

`AgentPluginProofs` has an invariant for each part, since the parts meet in few steps
(a start retires the predecessor, and the identity goes with the registration);
`RuntimeSteps`, `PolicySteps` and the like say which steps a part takes, the others are
stutters to it.

| theorem | inductive part | why it is needed |
|---|---|---|
| `RetiredHoldsNothing`, `NoPushIsLost` | `Registered`: `HoldsNothing`, `Reconnects`, `NotYet`, `Waited` | what comes back after a retirement finds it and opens nothing, but for the `connect` of a reconnect, of which there is at most one and whose socket, once lost, is not made again; what was pushed early waits for the bridge, whose start reads the log |
| `EventHandledOnce` | `HooksInv` | the one active registration is the owner, and the one for whom an event was due keeps its handlers while it is active |
| `SpentIdsStaySpent`, `OnlyReviewedWritten` | `PolicyInv`: `IdsInv`, `Computed` | ids are given out in order, so a new one is none that was spent; what is to be patched is a delta of what was read |
| `EveryAskIsKnown` | `RowsComplete` | the socket delivers in order: rows that wait to be read, with what is on the wire, are all that is pending |
| `ReportedUnderConsent`, `NothingInTheNameOfTheGone` | `EpochsCounted`, `EntryFresh`, `AttemptFresh` | the token entry is dropped once per consent, so what the entry of the moment holds, and what an attempt begun since uses, is of the last consent |
| `AppliedAsShown` | `ListingsDated`, `RunDated` | a revision that was inspected is not older than the listing it was asked for, so one the run is told again has not changed since its card |

The assumptions are `InferenceAssumption`, `MapAssumption` and `PolicyAssumption`: what
kind of value each constant is, and that the allow lists and discoveries to choose from
are such.

### What is only model-checked

- The liveness properties: fairness and ENABLED are out of the prover's reach.
- `OrphansClosed`, an action property.
- The findings, which are counterexamples.

`CallsMatchCards` and `CardsAreDurable` are proved and not part of a run.

## Not modelled

- *Projections and formatting*: wake packets, grading, redaction, the bridge of
  evidence, live state, the merge gate's classification of commands, card texts,
  prompts, status lines. No state outlives a step.
- *Cryptography*: canonical JSON, keys, signatures and countersignatures are the flag
  `signature` and revisions that stand for digests.
- *Request/response*: the HTTP client's methods, tools, MCP, the vault (one
  synchronous map with a purge), usage attestation, identity files, configuration,
  Cloudflare. The client's shared session is in `WsService`.
- *`approval-bridge.ts`*: its requests have no caller in the repository.
- *Parts of modelled components*: native approval bindings and their republishing
  (kept in process memory, only annotations), the reporting of exec outcomes, the
  POST of a disposed bridge (one step in `ApprovalsCatchUp`), the system agent as a
  source beyond its contract, label and reset (which take archive's path), reused
  wake sessions and channel pings, keyless session hooks, two loops on one cron key,
  lists of sessions over several pages, the inference provider without agents, the
  state file's scope check.

## What could follow

1. `PluginRuntime` with `ApprovalsCatchUp`: the cursor under a re-registration at
   every await of the successor's start.
2. An abstract decision queue that `ApprovalsCatchUp` implements, and one of owed wakes
   for `NotificationInjector`.
