-------------------------- MODULE ApprovalsEntitlement --------------------------
(***************************************************************************)
(* Degraded mode of the approvals bridge (gateway-approvals-bridge.ts):    *)
(* whether the agent holds the grant that lets the kernel push decisions   *)
(* is asked by one shared check, for the kernel sync and for a publication *)
(* alike; a grant that is found again schedules a sync, which waits for    *)
(* the publications of the moment, and a publication may itself be waiting *)
(* for the check.                                                          *)
(*                                                                         *)
(* Abstractions.  What a card says and whether a source can be listed is   *)
(* ApprovalsBridge's subject, what the log says ApprovalsCatchUp's.  Two   *)
(* recoveries that are waiting at once wait as one.                        *)
(***************************************************************************)
EXTENDS Naturals, FiniteSets

CONSTANTS
  Items,       \* the source's items
  MaxGrants,   \* bound: grants and withdrawals by the owner
  MaxLapses    \* bound: failed calls, and items that come and go

VARIABLES
  granted,     \* the agent holds operator:approvals
  flips,       \* counts its changes
  lapses,
  pending,     \* the source's pending items
  degraded,    \* degradedReason is set
  due,         \* ENTITLEMENT_CHECK_INTERVAL_MS has passed since the last check
  check,       \* entitlementCheck: none, asked, or its answer on the way
  sync,        \* performKernelSync: [pc, left, at, ent]
  recovery,    \* scheduleRecovery: [on, waits]
  pub,         \* the publication of an item that holds its reservation
  tracked,     \* the published cards
  marked,      \* those that say that the bridge is degraded
  warned,      \* stateStore.warnings, and those in flight
  caught       \* history: a catch-up ran to its end under the grant

world == <<granted, flips, lapses, pending>>
entitlement == <<degraded, due, check, recovery>>
cards == <<tracked, marked>>
vars == <<world, entitlement, sync, pub, cards, warned, caught>>

Answers == {"entitled", "missing", "unknown"}
Warnings == {"degraded", "stale"} \X Items
NotAny == "none"
NoSync == [pc |-> "idle", left |-> {}, at |-> NotAny, ent |-> "unknown"]
NoRecovery == [on |-> FALSE, waits |-> {}]

TypeOK ==
  /\ granted \in BOOLEAN /\ flips \in 0..MaxGrants /\ lapses \in 0..MaxLapses
  /\ pending \cup marked \subseteq Items /\ tracked \subseteq Items /\ marked \subseteq tracked
  /\ degraded \in BOOLEAN /\ due \in BOOLEAN /\ check \in {NotAny, "asked"} \cup Answers
  /\ sync.pc \in {"idle", "preflight", "list", "retiring", "walk", "wait", "catchUp"}
  /\ sync.left \subseteq Items /\ sync.at \in Items \cup {NotAny} /\ sync.ent \in Answers
  /\ recovery \in [on : BOOLEAN, waits : SUBSET Items]
  /\ pub \in [Items -> {NotAny, "refresh", "sign", "post"}]
  /\ warned \in [Warnings -> {"no", "sending", "sent"}]
  /\ caught \in BOOLEAN
  \* Who waits, waits for something that is there.
  /\ (sync.pc = "preflight" \/ \E p \in Items : pub[p] = "refresh") => check # NotAny
  /\ \A p \in recovery.waits : pub[p] # NotAny

Init ==
  /\ granted \in BOOLEAN /\ flips = 0 /\ lapses = 0 /\ pending \in SUBSET Items
  /\ degraded = FALSE /\ due = TRUE /\ check = NotAny /\ recovery = NoRecovery
  /\ sync = NoSync /\ pub = [p \in Items |-> NotAny]
  /\ tracked = {} /\ marked = {} /\ warned = [w \in Warnings |-> "no"]
  /\ caught = FALSE

-----------------------------------------------------------------------------
(* The owner of the agent, and the source. *)

Grants ==
  /\ flips < MaxGrants /\ flips' = flips + 1
  /\ granted' = ~granted /\ caught' = FALSE
  /\ UNCHANGED <<lapses, pending, entitlement, sync, pub, cards, warned>>

ComesOrGoes(p) ==
  /\ lapses < MaxLapses /\ lapses' = lapses + 1
  /\ pending' = IF p \in pending THEN pending \ {p} ELSE pending \cup {p}
  /\ UNCHANGED <<granted, flips, entitlement, sync, pub, cards, warned, caught>>

-----------------------------------------------------------------------------
(* runPreflight and checkEntitlement: one check for all who ask. *)

Ask == check' = IF check = NotAny THEN "asked" ELSE check

KernelAnswers ==
  /\ check = "asked"
  /\ \/ check' = (IF granted THEN "entitled" ELSE "missing") /\ UNCHANGED lapses
     \/ lapses < MaxLapses /\ lapses' = lapses + 1 /\ check' = "unknown"
  /\ UNCHANGED <<granted, flips, pending, degraded, due, recovery, sync, pub, cards, warned,
                 caught>>

Reserved == {p \in Items : pub[p] # NotAny}

\* Variant: the check itself waits for them.
SchedulesAwaited == Reserved = {} /\ recovery' = [on |-> TRUE, waits |-> {}]

\* scheduleRecovery: nothing while a sync is in flight, else a sync once the publications
\* of the moment are over.  The check does not wait for it.
Schedules ==
  recovery' = IF sync.pc # "idle" THEN recovery
              ELSE [on |-> TRUE, waits |-> recovery.waits \cup Reserved]

\* checkEntitlement's end, and those who waited for it.
CheckLands ==
  /\ check \in Answers
  /\ check' = NotAny /\ due' = FALSE
  /\ degraded' = CASE check = "missing" -> TRUE
                   [] check = "entitled" -> FALSE
                   [] OTHER -> degraded
  /\ IF check = "entitled" /\ degraded THEN Schedules ELSE UNCHANGED recovery
  /\ pub' = [p \in Items |-> IF pub[p] = "refresh" THEN "sign" ELSE pub[p]]
  /\ sync' = IF sync.pc = "preflight" THEN [sync EXCEPT !.pc = "list", !.ent = check] ELSE sync
  /\ UNCHANGED <<world, cards, warned, caught>>

TimePasses ==
  /\ ~due /\ due' = TRUE
  /\ UNCHANGED <<world, degraded, check, recovery, sync, pub, cards, warned, caught>>

-----------------------------------------------------------------------------
(* handleSourceRequested to its end, for one item. *)

\* refreshStaleEntitlement comes first.
Reserves(p) ==
  /\ pub[p] = NotAny /\ p \notin tracked
  /\ IF due THEN pub' = [pub EXCEPT ![p] = "refresh"] /\ Ask
            ELSE pub' = [pub EXCEPT ![p] = "sign"] /\ UNCHANGED check

\* The reservation settles: a sync and a recovery that wait for it go on.
Settles(p) ==
  /\ pub' = [pub EXCEPT ![p] = NotAny]
  /\ recovery' = [recovery EXCEPT !.waits = @ \ {p}]
  /\ sync' = IF sync.pc = "wait" /\ sync.at = p THEN [sync EXCEPT !.pc = "walk", !.at = NotAny] ELSE sync

Announced(p) ==
  /\ p \in pending /\ Reserves(p)
  /\ UNCHANGED <<world, degraded, due, recovery, sync, cards, warned, caught>>

\* The card, with its marker, is tracked before it is posted.
Signs(p) ==
  /\ pub[p] = "sign" /\ pub' = [pub EXCEPT ![p] = "post"]
  /\ tracked' = tracked \cup {p} /\ marked' = IF degraded THEN marked \cup {p} ELSE marked
  /\ UNCHANGED <<world, entitlement, sync, warned, caught>>

PostFails(p) ==
  /\ pub[p] = "post" /\ lapses < MaxLapses /\ lapses' = lapses + 1
  /\ tracked' = tracked \ {p} /\ marked' = marked \ {p} /\ Settles(p)
  /\ UNCHANGED <<granted, flips, pending, degraded, due, check, warned, caught>>

\* warnOnce: not again while it is on its way, or once it has arrived.
Warn(w, f) == IF f[w] = "no" THEN [f EXCEPT ![w] = "sending"] ELSE f

\* Confirmed: the warning is not waited for.
Posted(p) ==
  /\ pub[p] = "post" /\ Settles(p)
  /\ warned' = IF degraded THEN Warn(<<"degraded", p>>, warned) ELSE warned
  /\ UNCHANGED <<world, degraded, due, check, cards, caught>>

\* The operator's channel answers.
WarningEnds(w) ==
  /\ warned[w] = "sending"
  /\ \/ warned' = [warned EXCEPT ![w] = "sent"] /\ UNCHANGED lapses
     \/ lapses < MaxLapses /\ lapses' = lapses + 1 /\ warned' = [warned EXCEPT ![w] = "no"]
  /\ UNCHANGED <<granted, flips, pending, entitlement, sync, pub, cards, caught>>

-----------------------------------------------------------------------------
(* syncWithKernel: one sync for all who ask. *)

SyncAsked == IF sync.pc # "idle" THEN UNCHANGED <<sync, check>>
             ELSE sync' = [NoSync EXCEPT !.pc = "preflight"] /\ Ask

\* Every five minutes.
TimerFires ==
  /\ sync.pc = "idle" /\ SyncAsked
  /\ UNCHANGED <<world, degraded, due, recovery, pub, cards, warned, caught>>

\* onKernelConnected.
Connects ==
  /\ SyncAsked
  /\ UNCHANGED <<world, degraded, due, recovery, pub, cards, warned, caught>>

RecoveryRuns ==
  /\ recovery.on /\ recovery.waits = {} /\ recovery' = NoRecovery /\ SyncAsked
  /\ UNCHANGED <<world, degraded, due, pub, cards, warned, caught>>

\* reconcile retires the cards of what is gone, and the operator is told.
SyncLists ==
  LET orphans == tracked \ pending IN
  /\ sync.pc = "list"
  /\ \/ /\ tracked' = tracked \ orphans /\ marked' = marked \ orphans
        /\ warned' = [w \in Warnings |->
             IF w \in {"stale"} \X orphans THEN Warn(w, warned)[w] ELSE warned[w]]
        /\ sync' = [sync EXCEPT !.pc = "retiring", !.left = pending] /\ UNCHANGED lapses
     \/ /\ lapses < MaxLapses /\ lapses' = lapses + 1
        /\ sync' = [sync EXCEPT !.pc = "walk"] /\ UNCHANGED <<cards, warned>>
  /\ UNCHANGED <<granted, flips, pending, entitlement, pub, caught>>

Retired ==
  /\ sync.pc = "retiring" /\ \A p \in Items : warned[<<"stale", p>>] # "sending"
  /\ sync' = [sync EXCEPT !.pc = "walk"]
  /\ UNCHANGED <<world, entitlement, pub, cards, warned, caught>>

\* The items of the listing, each to the end of its publication, by whoever reserved it.
Visits(p) ==
  /\ sync.pc = "walk" /\ p \in sync.left
  /\ IF p \in tracked
       THEN sync' = [sync EXCEPT !.left = @ \ {p}] /\ UNCHANGED <<pub, check>>
       ELSE /\ sync' = [sync EXCEPT !.left = @ \ {p}, !.pc = "wait", !.at = p]
            /\ IF pub[p] # NotAny THEN UNCHANGED <<pub, check>> ELSE Reserves(p)
  /\ UNCHANGED <<world, degraded, due, recovery, cards, warned, caught>>

\* What the preflight of this very sync has said decides on the catch-up.
Walked ==
  /\ sync.pc = "walk" /\ sync.left = {}
  /\ sync' = IF sync.ent = "entitled" THEN [sync EXCEPT !.pc = "catchUp"] ELSE NoSync
  /\ UNCHANGED <<world, entitlement, pub, cards, warned, caught>>

CaughtUp ==
  /\ sync.pc = "catchUp" /\ sync' = NoSync
  /\ \/ caught' = granted /\ UNCHANGED lapses
     \/ lapses < MaxLapses /\ lapses' = lapses + 1 /\ UNCHANGED caught
  /\ UNCHANGED <<granted, flips, pending, entitlement, pub, cards, warned>>

-----------------------------------------------------------------------------

Checks == KernelAnswers \/ CheckLands
Publishes(p) == Signs(p) \/ Posted(p) \/ PostFails(p)
Syncs == SyncLists \/ Retired \/ (\E p \in Items : Visits(p)) \/ Walked \/ CaughtUp

\* What settles by itself.
Works ==
  \/ RecoveryRuns \/ Checks \/ Syncs
  \/ (\E p \in Items : Publishes(p)) \/ (\E w \in Warnings : WarningEnds(w))

\* All but the owner's changes.
Moves ==
  \/ TimePasses \/ TimerFires \/ Connects \/ Works
  \/ \E p \in Items : ComesOrGoes(p) \/ Announced(p)

Step == Moves \/ Grants

-----------------------------------------------------------------------------
\* A grant that stays is found and what it missed is caught up, whatever publications
\* and checks were waiting for each other when it came.  (scheduleRecovery:1030)
GrantCatchesUp == granted ~> (caught \/ ~granted)
=============================================================================
