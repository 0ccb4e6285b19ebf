------------------------------ MODULE WakeTurn ------------------------------
(***************************************************************************)
(* The life of a wake once its session is chosen (flushWakeTurn and the    *)
(* runtime hooks of notification-injector.ts): three tables follow it, each*)
(* with its own idea of when it is over.                                   *)
(*   wake-supervisor.ts  a timer for each wake, and the one alert it gets; *)
(*   wake-guards.ts      the latch that stops its runs, and the receipts;  *)
(*   wake-decision.ts    who may delegate, act and report, and when the    *)
(*                       turn and the child it spawned have both ended.    *)
(*                                                                         *)
(* A wake has a session of its own and three runs in it: its turn, a later *)
(* run of the same session (a reply between sessions, an announcement),    *)
(* and a child.  Abstractions: a decision is a delegation by the turn or   *)
(* the reply, held while it is graded, or a merge-side call by the child,  *)
(* held by the live check; every other tool may only trip the guards.  A   *)
(* trip's alert leaves before anything else runs (its promise is queued    *)
(* first), its aborts take as long as the gateway does.  The bridge's and  *)
(* the horizon's records of the outcome are not modelled, nor sessions     *)
(* that are reused, nor the bound of the set of retired sessions.          *)
(***************************************************************************)
EXTENDS Naturals, Sequences, SequencesExt, FiniteSets

CONSTANTS
  Wakes,        \* the batches, by id
  Targets,      \* disclosureTargets
  Capacity,     \* of each table (100 in the code)
  MaxReports    \* bound: calls of imajin_wake_report for a wake that are let in

ASSUME CapacityAssumption == Capacity \in Nat \ {0} /\ MaxReports \in Nat /\ Targets # {}

Roots == {"turn", "reply"}
Runs == Roots \cup {"kid"}

VARIABLES
  post,       \* flushWakeTurn: tracked and being posted, admitted, given up, refused
  pending,    \* supervisor.pending, oldest first
  expired, latched,   \* of its entries
  alerts,     \* messages to the operator about the wake
  guard,      \* guards.pending: untracked, on, stopped (a reason is set), finished
  aliased,    \* the child is one of the guard's sessions
  effects,    \* the aborts of a trip are in flight
  sent,       \* its receipts
  routed,     \* router.wakes, oldest first
  retired,    \* its fence: sessions of wakes that are over
  disclosed, child, kin, parent, failed,   \* of its entries: the outcome is out; the child is
              \* open, its session known; the root run kept as parentEnd; a run failed
  run,        \* the harness's runs
  call,       \* the decision of a run waits for its check
  passed,     \* runs whose decision was let through
  begun,      \* the child that a delegation asked for has begun
  report,     \* the sends of the report in progress
  stray,      \* sends that a failed report left in flight
  reports, told, broke,   \* history: reports let in, deliveries, a send failed
  ending,     \* onAgentEnd, for the ends that settled the wake
  report47    \* wake-report.ts: the report of how the turn ended is owed, was sent

supervisor == <<pending, expired, latched, alerts>>
guards == <<guard, aliased, effects, sent>>
router == <<routed, retired, disclosed, child, kin, parent, failed>>
work == <<run, call, passed, begun>>
sends == <<report, stray, reports, told, broke>>
vars == <<post, supervisor, guards, router, work, sends, ending, report47>>

\* Every variable has its type; no table outgrows its capacity, and no wake is
\* alerted twice, though a failed POST, the timer, a trip, a refusal and a failed
\* end may each be the first to want it (alert, trip, onAgentEnd).
TypeOK ==
  /\ post \in [Wakes -> {"none", "posting", "bound", "failed", "refused"}]
  /\ pending \in Seq(Wakes) /\ routed \in Seq(Wakes)
  /\ Len(pending) <= Capacity /\ Len(routed) <= Capacity
  /\ {expired, latched, aliased, effects, retired, disclosed, child, kin, failed, broke, begun}
       \subseteq [Wakes -> BOOLEAN]
  /\ alerts \in [Wakes -> {0, 1}]
  /\ guard \in [Wakes -> {"none", "on", "stopped", "gone"}]
  /\ Cardinality({b \in Wakes : guard[b] \in {"on", "stopped"}}) <= Capacity
  /\ {sent, report} \subseteq [Wakes -> SUBSET Targets]
  /\ parent \in [Wakes -> Roots \cup {"none"}]
  /\ run \in [Wakes -> [Runs -> {"none", "running", "over"}]]
  /\ {call, passed} \subseteq [Wakes -> SUBSET Runs]
  /\ reports \in [Wakes -> 0..MaxReports]
  /\ {stray, told} \subseteq [Wakes -> [Targets -> 0..MaxReports]]
  /\ ending \in [Wakes -> SUBSET {"matched", "unmatched", "complete"}]
  /\ report47 \in [Wakes -> {"none", "owed", "sent", "dropped"}]

Init ==
  /\ LET off == [b \in Wakes |-> FALSE] IN
       /\ expired = off /\ latched = off /\ aliased = off /\ effects = off /\ retired = off
       /\ disclosed = off /\ child = off /\ kin = off /\ failed = off /\ broke = off /\ begun = off
  /\ LET nothing == [b \in Wakes |-> {}] IN
       /\ sent = nothing /\ report = nothing /\ call = nothing /\ passed = nothing
       /\ ending = nothing
  /\ LET zero == [b \in Wakes |-> [t \in Targets |-> 0]] IN stray = zero /\ told = zero
  /\ pending = <<>> /\ routed = <<>>
  /\ post = [b \in Wakes |-> "none"] /\ guard = post /\ parent = post /\ report47 = post
  /\ alerts = [b \in Wakes |-> 0] /\ reports = alerts
  /\ run = [b \in Wakes |-> [r \in Runs |-> "none"]]

Supervised(b) == Contains(pending, b)
Routed(b) == Contains(routed, b)
HasReported(b) == sent[b] = Targets
\* The router's and the supervisor's maps have a wake once, and keep their order.
Without(s, b) == IF Contains(s, b) THEN RemoveAt(s, CHOOSE i \in 1..Len(s) : s[i] = b) ELSE s
ButOldest(s) == IF Len(s) >= Capacity THEN Tail(s) ELSE s
Running(b, r) == run[b][r] = "running"

\* match(): the guards know the turn by its run and the child by its session; a
\* later run of the root session is not the run they are bound to.
Matched(b, r) ==
  guard[b] \in {"on", "stopped"} /\ (r = "turn" \/ (r = "kid" /\ aliased[b]))
Blocked(b, r) == Matched(b, r) /\ guard[b] = "stopped"

-----------------------------------------------------------------------------
\* What the supervisor and the guards do to the wakes of a set.

\* alert(): of all reasons, the first is told.
Alert(S) ==
  /\ latched' = [b \in Wakes |-> latched[b] \/ b \in S]
  /\ alerts' = [b \in Wakes |-> alerts[b] + (IF b \in S /\ ~latched[b] THEN 1 ELSE 0)]

\* trip(): a reason is set at once, the aborts follow.  Never twice.
Trips(S) ==
  LET new == {b \in S : guard[b] = "on"} IN
    /\ guard' = [b \in Wakes |-> IF b \in new THEN "stopped" ELSE guard[b]]
    /\ effects' = [b \in Wakes |-> effects[b] \/ b \in new]

\* stop(): a trip and its alert, of which the supervisor hears if it still has the wake.
Stop(b) == Trips({b}) /\ Alert(IF guard[b] = "on" /\ Supervised(b) THEN {b} ELSE {})

\* WakeReporter: a wake that is tracked is owed one report of its end, which its
\* end claims; the watchdog, or a POST that failed, takes that of the wakes of a set.
OwesReport(b, S) ==
  report47' = [x \in Wakes |-> IF x = b THEN "owed"
                ELSE IF x \in S /\ report47[x] = "owed" THEN "dropped" ELSE report47[x]]
DropReport(S) ==
  report47' = [b \in Wakes |-> IF b \in S /\ report47[b] = "owed" THEN "dropped" ELSE report47[b]]
Reports(b) ==
  report47' = IF report47[b] = "owed" THEN [report47 EXCEPT ![b] = "sent"] ELSE report47

\* The supervisor and the guards let go of a wake.
Unsupervise(b) == pending' = Without(pending, b)
Unguard(b) == guard' = [guard EXCEPT ![b] = "gone"]

\* The router forgets a wake and keeps its sessions behind a fence.
Forget(b) == routed' = Without(routed, b) /\ retired' = [retired EXCEPT ![b] = @ \/ Routed(b)]

-----------------------------------------------------------------------------
\* Tracking, the POST and the timer

\* The wake that makes room in the supervisor, and whether it is stopped and told.
Oldest == IF Len(pending) >= Capacity THEN {Head(pending)} ELSE {}
Dropped == {b \in Oldest : ~expired[b]}
Room == Cardinality({b \in Wakes : guard[b] \in {"on", "stopped"}}) < Capacity

TrackedBy(b) ==
  /\ post[b] = "none"
  /\ expired' = [x \in Wakes |-> expired[x] \/ x \in Dropped]

\* Supervisor, guards and router take the wake, the router dropping its oldest.
Track(b) ==
  /\ TrackedBy(b) /\ Room
  /\ guard' = [x \in Wakes |-> IF x = b THEN "on"
                ELSE IF x \in Dropped /\ guard[x] = "on" THEN "stopped" ELSE guard[x]]
  /\ effects' = [x \in Wakes |-> effects[x] \/ (x \in Dropped /\ guard[x] = "on")]
  /\ Alert(Dropped)
  /\ pending' = Append(ButOldest(pending), b)
  /\ routed' = Append(ButOldest(routed), b)
  /\ retired' = IF Len(routed) >= Capacity THEN [retired EXCEPT ![Head(routed)] = TRUE] ELSE retired
  /\ post' = [post EXCEPT ![b] = "posting"]
  /\ OwesReport(b, Dropped)
  /\ UNCHANGED <<aliased, sent, disclosed, child, kin, parent, failed, work, sends, ending>>

\* The guards are full: the operator is told, and the wake stays owed.
Refused(b) ==
  /\ TrackedBy(b) /\ ~Room
  /\ Trips(Dropped) /\ Alert(Dropped \cup {b}) /\ DropReport(Dropped)
  /\ pending' = ButOldest(pending)
  /\ post' = [post EXCEPT ![b] = "refused"]
  /\ UNCHANGED <<aliased, sent, router, work, sends, ending>>

\* An attempt fails and the next one follows; the last one gives the wake up.
PostFails(b) ==
  /\ post[b] = "posting" /\ Alert(IF Supervised(b) THEN {b} ELSE {})
  /\ UNCHANGED <<post, pending, expired, guards, router, work, sends, ending, report47>>

GivesUp(b) ==
  /\ post[b] = "posting" /\ run[b]["turn"] = "none" /\ latched[b]
  /\ post' = [post EXCEPT ![b] = "failed"]
  /\ Unsupervise(b) /\ Unguard(b) /\ Forget(b) /\ DropReport({b})
  /\ UNCHANGED <<expired, latched, alerts, aliased, effects, sent,
                 disclosed, child, kin, parent, failed, work, sends, ending>>

Bound(b) ==
  /\ post[b] = "posting" /\ post' = [post EXCEPT ![b] = "bound"]
  /\ UNCHANGED <<supervisor, guards, router, work, sends, ending, report47>>

\* The timer: the alert first, so that the stop's own finds the latch taken; the
\* entry stays for a late end.
TimerUntilTheTurnEnds(b) == Supervised(b) /\ ~expired[b] /\ run[b]["turn"] # "over"
Timer(b) == Supervised(b) /\ ~expired[b]
Expire(b) ==
  /\ Timer(b)
  /\ expired' = [expired EXCEPT ![b] = TRUE]
  /\ Alert({b}) /\ Trips({b}) /\ DropReport({b})
  /\ UNCHANGED <<post, pending, aliased, sent, router, work, sends, ending>>

EffectsSettle(b) ==
  /\ effects[b] /\ effects' = [effects EXCEPT ![b] = FALSE]
  /\ UNCHANGED <<post, supervisor, guard, aliased, sent, router, work, sends, ending, report47>>

-----------------------------------------------------------------------------
\* The runs, and the decisions the router holds while it looks them up

\* before_agent_run: a session whose wake has told its outcome, or is over, is closed.
RunStarts(b, r) ==
  /\ r \in Roots /\ run[b][r] = "none" /\ Routed(b) /\ ~disclosed[b]
  /\ IF r = "turn" THEN post[b] \in {"posting", "bound"} ELSE run[b]["turn"] = "over"
  /\ run' = [run EXCEPT ![b][r] = "running"]
  /\ UNCHANGED <<post, supervisor, guards, router, call, passed, begun, sends, ending, report47>>

\* A delegation, once the guards let its tool call in, waits for its grading; one
\* made after the disclosure is refused, and stops the wake.
Delegate(b, r) ==
  /\ r \in Roots /\ Running(b, r) /\ r \notin call[b] /\ passed[b] \cap Roots = {}
  /\ ~Blocked(b, r) /\ Routed(b)
  /\ IF disclosed[b] THEN Stop(b) /\ UNCHANGED call
     ELSE call' = [call EXCEPT ![b] = @ \cup {r}]
          /\ UNCHANGED <<guard, effects, latched, alerts>>
  /\ UNCHANGED <<post, pending, expired, aliased, sent, router, run, passed, begun, sends, ending,
                 report47>>

\* The same for a merge-side call of a child the router knows, whose live check
\* may take as long.
Act(b) ==
  /\ Running(b, "kid") /\ kin[b] /\ "kid" \notin call[b] \cup passed[b]
  /\ ~Blocked(b, "kid") /\ Routed(b)
  /\ call' = [call EXCEPT ![b] = @ \cup {"kid"}]
  /\ UNCHANGED <<post, supervisor, guards, router, run, passed, begun, sends, ending, report47>>

\* After the await, the wake must still be the router's and undisclosed; then
\* before_tool_call asks the guards once more.
AnyWake(b, r) == TRUE
StillOpen(b, r) == Routed(b) /\ ~disclosed[b]
Decided(b, r) ==
  /\ r \in call[b]
  /\ call' = [call EXCEPT ![b] = @ \ {r}]
  /\ passed' = IF StillOpen(b, r) /\ ~Blocked(b, r)
               THEN [passed EXCEPT ![b] = @ \cup {r}] ELSE passed
  /\ IF StillOpen(b, r) \/ r = "kid" THEN UNCHANGED <<guard, effects, latched, alerts>> ELSE Stop(b)
  /\ UNCHANGED <<post, pending, expired, aliased, sent, router, run, begun, sends, ending,
                 report47>>

\* aliasSession: a stopped wake takes no alias, and the stop this asks for finds
\* nothing to do.
Alias(b) == aliased' = [aliased EXCEPT ![b] = Routed(b) /\ guard[b] = "on"]
\* The child of a delegation begins and, if its wake is still there, becomes the
\* router's and an alias of the guards.
KidStarts(b) ==
  /\ passed[b] \cap Roots # {} /\ ~begun[b]
  /\ begun' = [begun EXCEPT ![b] = TRUE]
  /\ run' = [run EXCEPT ![b]["kid"] = "running"]
  /\ child' = [child EXCEPT ![b] = Routed(b)] /\ kin' = [kin EXCEPT ![b] = Routed(b)]
  /\ Alias(b)
  /\ UNCHANGED <<post, supervisor, guard, effects, sent, routed, retired, disclosed, parent, failed,
                 call, passed, sends, ending, report47>>

\* A run of the wake is out of line, and the guards stop the wake: a known run
\* repeats a tool call, or its context outgrows the ceiling; a child runs on another
\* model than the one its decisions are to be made by.
Trip(b) ==
  /\ guard[b] = "on" /\ Stop(b)
  /\ UNCHANGED <<post, pending, expired, aliased, sent, router, work, sends, ending, report47>>
OutOfLine(b) == (\E r \in Runs : Running(b, r) /\ Matched(b, r)) /\ Trip(b)
WrongModel(b) == Running(b, "kid") /\ kin[b] /\ Routed(b) /\ Trip(b)

\* after_tool_call: the router learns that every target has its receipt.
Notice(b) ==
  /\ \E r \in Runs : Running(b, r) /\ (r = "kid" => kin[b])
  /\ Routed(b) /\ guard[b] \in {"on", "stopped"} /\ HasReported(b)
  /\ disclosed' = [disclosed EXCEPT ![b] = TRUE]
  /\ UNCHANGED <<post, supervisor, guards, routed, retired, child, kin, parent, failed, work, sends,
                 ending, report47>>

-----------------------------------------------------------------------------
\* imajin_wake_report

\* One report at a time, none once stopped or told; it is sent to every target,
\* those that an earlier one reached included.
WhileSending(b) == guard[b] = "on" /\ ~HasReported(b)
MayReport(b) == guard[b] = "on" /\ ~HasReported(b) /\ report[b] = {}
Report(b, r) ==
  /\ Running(b, r) /\ (r = "kid" => kin[b]) /\ Routed(b) /\ ~disclosed[b] /\ ~Blocked(b, r)
  /\ MayReport(b) /\ reports[b] < MaxReports
  /\ report' = [report EXCEPT ![b] = Targets]
  /\ reports' = [reports EXCEPT ![b] = @ + 1]
  /\ UNCHANGED <<post, supervisor, guards, router, work, stray, told, broke, ending, report47>>

\* A receipt counts unless the wake was stopped meanwhile.
Receipt(b, t) == sent' = IF guard[b] = "on" THEN [sent EXCEPT ![b] = @ \cup {t}] ELSE sent

Land(b, t) ==
  /\ t \in report[b]
  /\ report' = [report EXCEPT ![b] = @ \ {t}] /\ told' = [told EXCEPT ![b][t] = @ + 1]
  /\ Receipt(b, t)
  /\ disclosed' = [disclosed EXCEPT ![b] = @ \/ (report'[b] = {} /\ Routed(b))]
  /\ UNCHANGED <<post, supervisor, guard, aliased, effects, routed, retired, child, kin, parent,
                 failed, work, stray, reports, broke, ending, report47>>

\* The first send to fail ends the report; the others are not recalled.
SendFails(b, t) ==
  /\ t \in report[b]
  /\ stray' = [stray EXCEPT ![b] =
                 [x \in Targets |-> @[x] + (IF x \in report[b] \ {t} THEN 1 ELSE 0)]]
  /\ report' = [report EXCEPT ![b] = {}] /\ broke' = [broke EXCEPT ![b] = TRUE]
  /\ UNCHANGED <<post, supervisor, guards, router, work, reports, told, ending, report47>>

StrayLands(b, t) ==
  /\ stray[b][t] > 0
  /\ stray' = [stray EXCEPT ![b][t] = @ - 1] /\ told' = [told EXCEPT ![b][t] = @ + 1]
  /\ Receipt(b, t)
  /\ UNCHANGED <<post, supervisor, guard, aliased, effects, router, work, report, reports, broke,
                 ending, report47>>

-----------------------------------------------------------------------------
\* onAgentEnd

\* The router waits for the turn and the child it accepted.  Then the guards
\* judge the silence, if the run kept as parentEnd is the one they are bound to;
\* the aborts are awaited.
JudgedByAnyReceipt(b) == sent[b] = {}
Silent(b) == ~HasReported(b)
RunEnds(b, r, ok) ==
  LET known == Routed(b) /\ (r \in Roots \/ kin[b])
      last == IF r \in Roots THEN r ELSE parent[b]
      settles == known /\ last # "none" /\ ~(child[b] /\ r # "kid")
      matched == last = "turn" /\ guard[b] \in {"on", "stopped"}
  IN /\ Running(b, r)
     /\ run' = [run EXCEPT ![b][r] = "over"] /\ call' = [call EXCEPT ![b] = @ \ {r}]
     /\ parent' = IF known THEN [parent EXCEPT ![b] = last] ELSE parent
     /\ child' = IF known /\ r = "kid" THEN [child EXCEPT ![b] = FALSE] ELSE child
     /\ failed' = IF known THEN [failed EXCEPT ![b] = @ \/ ~ok] ELSE failed
     /\ ending' = IF settles
                  THEN [ending EXCEPT ![b] = @ \cup {IF matched THEN "matched" ELSE "unmatched"}]
                  ELSE ending
     /\ IF settles /\ matched /\ Silent(b) THEN Stop(b)
        ELSE UNCHANGED <<guard, effects, latched, alerts>>
     /\ UNCHANGED <<post, pending, expired, aliased, sent, routed, retired, disclosed, kin, passed,
                    begun, sends, report47>>

\* The guards let go; the supervisor claims the wake, unless an earlier end has,
\* and tells of a failed turn or of one too large.  A reply without text was given
\* one by the injector, so that nothing is said of it.
Claim(b, e, large) ==
  /\ e \in {"matched", "unmatched"} \cap ending[b] /\ (e = "matched" => ~effects[b])
  /\ ending' = [ending EXCEPT ![b] = (@ \ {e}) \cup {"complete"}]
  /\ guard' = IF e = "matched" THEN [guard EXCEPT ![b] = "gone"] ELSE guard
  /\ Unsupervise(b)
  /\ Alert(IF Supervised(b) /\ (failed[b] \/ large) THEN {b} ELSE {})
  /\ Reports(b)
  /\ UNCHANGED <<post, expired, aliased, effects, sent, router, work, sends>>

\* When the outcome has been recorded, every table lets go of the wake.
Complete(b) ==
  /\ "complete" \in ending[b] /\ ending' = [ending EXCEPT ![b] = @ \ {"complete"}]
  /\ Unguard(b) /\ Forget(b) /\ DropReport({b})
  /\ UNCHANGED <<post, supervisor, aliased, effects, sent, disclosed, child, kin, parent, failed,
                 work, sends>>

-----------------------------------------------------------------------------
Next ==
  \E b \in Wakes :
    \/ Track(b) \/ Refused(b) \/ PostFails(b) \/ GivesUp(b) \/ Bound(b)
    \/ Expire(b) \/ EffectsSettle(b)
    \/ Act(b) \/ KidStarts(b) \/ OutOfLine(b) \/ WrongModel(b) \/ Notice(b) \/ Complete(b)
    \/ \E r \in Runs :
         \/ RunStarts(b, r) \/ Delegate(b, r) \/ Decided(b, r) \/ Report(b, r)
         \/ \E ok \in BOOLEAN : RunEnds(b, r, ok)
    \/ \E t \in Targets : Land(b, t) \/ SendFails(b, t) \/ StrayLands(b, t)
    \/ \E e \in {"matched", "unmatched"}, large \in BOOLEAN : Claim(b, e, large)

\* Only the timer is relied on: Node fires it, whatever becomes of the turn, of
\* the gateway and of the sends.
Fairness == \A b \in Wakes : WF_vars(Expire(b))
Spec == Init /\ [][Next]_vars /\ Fairness

-----------------------------------------------------------------------------
Tracked(b) == post[b] # "none"
OutcomeKnown(b) == sent[b] = Targets \/ alerts[b] > 0

\* The supervisor lets go of a wake only when every target has its outcome or the
\* operator an alert, whichever of the timer, a failed POST, a full table, a stop
\* or the last end of its runs came first: for a wake with no later run in its session.
NoSilentEnd ==
  \A b \in Wakes : Tracked(b) /\ ~Supervised(b) /\ run[b]["reply"] = "none" => OutcomeKnown(b)

\* README.md:1425 of any wake: "An ending without receipts alerts ..."
EndsAlerted == \A b \in Wakes : Tracked(b) /\ ~Supervised(b) => OutcomeKnown(b)

\* No decision of the turn, or of a child the guards took, is let through once its
\* wake was stopped, is over or has told every target, though it was asked for
\* before and checked meanwhile (delegateDecision, beforeToolCall, runtimeHooks).
\* A report that failed in part may complete by a send it left behind, which the
\* router only learns from the next tool call.
FenceHolds ==
  [][\A b \in Wakes : \A r \in passed'[b] \ passed[b] :
       r # "reply" /\ (r = "kid" => aliased[b])
         => guard[b] \in {"on", "gone"} /\ ~retired[b] /\ (sent[b] = Targets => broke[b])]_vars

\* Of one wake nobody hears twice: no target gets an outcome from two runs that
\* report at once, or one after the other, unless a send had failed (reportWake,
\* deliverOutcomeDisclosure), and the report of how the turn ended does not follow
\* the watchdog's alert, whose abort ends the turn (the supervisor's abort).
ToldOnce ==
  \A b \in Wakes :
    /\ \A t \in Targets : told[b][t] > 1 => broke[b]
    /\ ~(expired[b] /\ report47[b] = "sent")

\* Every wake that is tracked is told of, even if its POST hangs, its turn never
\* starts or never ends, or its child outlives it (the supervisor's timer).
EndsTold == \A b \in Wakes : Tracked(b) ~> (OutcomeKnown(b) \/ run[b]["reply"] # "none")
=============================================================================
