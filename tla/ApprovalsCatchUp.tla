--------------------------- MODULE ApprovalsCatchUp ---------------------------
(***************************************************************************)
(* How the approvals bridge hears of decisions (src/approvals-catchup.ts   *)
(* and syncWithKernel in src/gateway-approvals-bridge.ts): live pushes that *)
(* may be lost or repeated, and the kernel's durable log, read page by     *)
(* page after a cursor that is kept in a file.  A reload of the plugin     *)
(* disposes the bridge, whose sync and decision runs go on, and starts     *)
(* another on the same publication ledger and the same file.               *)
(*                                                                         *)
(* Abstractions.  What one decision run does between its awaits is         *)
(* ApprovalsBridge's subject: here a run restages a drifted item in one    *)
(* step and ends in another.  A listing of the (one) source publishes what *)
(* it finds in the same step.  A cursor is a position in the log, and a    *)
(* card is the revision it shows.                                          *)
(***************************************************************************)
EXTENDS Integers, Sequences, FiniteSets

CONSTANTS
  Proposals,
  Bridges,      \* bridge instances in use at once: the active and disposed ones
  MaxCard,      \* bound: revisions of one item
  MaxNoise,     \* bound: rows of the log that are no decisions
  MaxRestarts,  \* bound: crashes and reloads
  PageSize, MaxPages,
  Faults        \* what may go wrong, a subset of FaultKinds

FaultKinds ==
  {"crash", "reload", "stateLost", "cursorLost", "write", "fetch", "list", "getCurrent", "key",
   "resolve"}

ASSUME CatchUpAssumption ==
  /\ IsFiniteSet(Proposals)
  /\ MaxCard \in Nat \ {0} /\ PageSize \in Nat \ {0} /\ MaxPages \in Nat \ {0}
  /\ MaxNoise \in Nat /\ MaxRestarts \in Nat
  /\ Faults \subseteq FaultKinds

VARIABLES
  item,     \* the source's pending revision of each item, 0 when it is settled
  shown,    \* the newest card of each item at the kernel
  log,      \* the kernel's event log: rows
  granted,  \* the agent holds operator:approvals
  tracked,  \* the publication ledger: the card tracked for each item, or 0
  status,   \* of each bridge: off, on or disposed
  cursor,   \* of each bridge: ApprovalsCursorStore.cursor
  disk,     \* the cursor file
  sync,     \* of each bridge: performKernelSync in progress
  run,      \* of each bridge and item: the row its decision run is for, or 0
  restaged, \* the runs that found drift and restaged the item
  unlisted, \* a listing, publication or resolve failed since the last good
            \* listing: a pending item may have no card.  Nothing reads it
  skipped,  \* rows answered for good without effect; nothing reads it
  restarts  \* crashes and reloads so far

worldVars == <<item, log, granted>>
ledgerVars == <<tracked, shown, unlisted>>
runVars == <<run, restaged>>
vars == <<worldVars, ledgerVars, status, cursor, disk, sync, runVars, skipped, restarts>>

-----------------------------------------------------------------------------

Cards     == 1..MaxCard
Decisions == [kind : {"decided"}, p : Proposals, card : Cards]
Noise     == [kind : {"other", "filtered"}]   \* another event; a row the kernel withholds
Positions == Nat
Rows      == 1..MaxCard * Cardinality(Proposals) + MaxNoise   \* what fits in the log

\* A sync run: `at' is the row being looked at, `next' the page's nextCursor.
Phases == {"idle", "preflight", "reconcile", "reconcileOnly",
           "fetch", "scan", "await", "save", "write"}
Sync(st, fetch, safe, blocked, pages, at, next) ==
  [st |-> st, fetch |-> fetch, safe |-> safe, blocked |-> blocked,
   pages |-> pages, at |-> at, next |-> next]
SyncRecord == [st : Phases, fetch : Positions, safe : Positions, blocked : BOOLEAN,
               pages : 0..MaxPages, at : Positions, next : Positions]
NoSync == Sync("idle", 0, 0, FALSE, 0, 0, 0)

Decided(i) == log[i].kind = "decided"

\* The positions a sync keeps are positions of the log.
InLog(s) ==
  /\ s.safe <= Len(log) /\ s.next <= Len(log)
  /\ s.st = "fetch" => s.fetch <= Len(log) /\ s.pages < MaxPages
  /\ s.st = "scan" => s.at \in 1..Len(log) + 1
  /\ s.st = "await" => s.at \in DOMAIN log /\ Decided(s.at)

WorldOK ==
  /\ item \in [Proposals -> 0..MaxCard]
  /\ log \in Seq(Decisions \cup Noise) /\ granted \in BOOLEAN
LedgerOK ==
  /\ tracked \in [Proposals -> 0..MaxCard] /\ shown \in [Proposals -> 0..MaxCard]
  /\ unlisted \in BOOLEAN
CursorOK ==
  /\ cursor \in [Bridges -> 0..Len(log)] /\ disk \in 0..Len(log)
  /\ skipped \subseteq DOMAIN log
  /\ status \in [Bridges -> {"off", "on", "disposed"}] /\ restarts \in 0..MaxRestarts
SyncOK == sync \in [Bridges -> SyncRecord] /\ \A b \in Bridges : InLog(sync[b])
RunOK ==
  /\ run \in [Bridges -> [Proposals -> Positions]] /\ restaged \subseteq Bridges \X Proposals
  /\ \A b \in Bridges, p \in Proposals :
       run[b][p] # 0 => run[b][p] \in DOMAIN log /\ Decided(run[b][p]) /\ log[run[b][p]].p = p

TypeOK == WorldOK /\ LedgerOK /\ CursorOK /\ SyncOK /\ RunOK

\* The bridge still runs something.
Busy(b) == sync[b].st # "idle" \/ \E p \in Proposals : run[b][p] # 0

-----------------------------------------------------------------------------
(* The kernel, the operator and the source. *)

Revise(p) ==
  /\ item[p] \in 1..MaxCard - 1
  /\ item' = [item EXCEPT ![p] = @ + 1]
  /\ UNCHANGED <<ledgerVars, log, granted, status, cursor, disk, sync, runVars, skipped, restarts>>

\* The operator decides the newest card, once.
Decide(p) ==
  LET row == [kind |-> "decided", p |-> p, card |-> shown[p]] IN
  /\ shown[p] # 0 /\ \A i \in DOMAIN log : log[i] # row
  /\ log' = Append(log, row)
  /\ UNCHANGED <<ledgerVars, item, granted, status, cursor, disk, sync, runVars, skipped, restarts>>

LogNoise(kind) ==
  /\ Cardinality({i \in DOMAIN log : ~Decided(i)}) < MaxNoise
  /\ log' = Append(log, [kind |-> kind])
  /\ UNCHANGED <<ledgerVars, item, granted, status, cursor, disk, sync, runVars, skipped, restarts>>

Grant ==
  /\ ~granted /\ granted' = TRUE
  /\ UNCHANGED <<ledgerVars, item, log, status, cursor, disk, sync, runVars, skipped, restarts>>

-----------------------------------------------------------------------------
(* reconcileSource: list the source, drop the cards of items that are gone, *)
(* publish the items that have none.  When the listing or a publication     *)
(* fails, items stay without a card that is tracked; the kernel may show it. *)

Listing(ledger) ==
  LET stale == {p \in Proposals : ledger[p] = 0 \/ item[p] = 0}
      posted == [p \in Proposals |-> IF p \in stale /\ item[p] # 0 THEN item[p] ELSE shown[p]] IN
  \/ /\ tracked' = [p \in Proposals |-> IF p \in stale THEN item[p] ELSE ledger[p]]
     /\ shown' = posted /\ unlisted' = FALSE
  \/ /\ "list" \in Faults
     /\ tracked' = ledger /\ shown' \in {shown, posted} /\ unlisted' = TRUE

\* The reconcile at startup, and items the source announces.
Publish(b) ==
  /\ status[b] = "on"
  /\ Listing(tracked)
  /\ UNCHANGED <<worldVars, status, cursor, disk, sync, runVars, skipped, restarts>>

-----------------------------------------------------------------------------
(* handleKernelDecision: a frame is answered at once, joins the run of its *)
(* item, or starts one.                                                    *)

AnsweredAtOnce(b, i) ==
  status[b] = "disposed" \/ (run[b][log[i].p] = 0 /\ tracked[log[i].p] = 0)

\* What is answered as gone counts as unexamined when it need not be gone: a
\* disposed bridge looks at nothing, and a pending item may have no card.
SkippedAsGone(b, rows) ==
  IF status[b] = "disposed" \/ unlisted THEN skipped \cup rows ELSE skipped

JoinOrStart(b, i) ==
  run' = IF run[b][log[i].p] = 0 THEN [run EXCEPT ![b][log[i].p] = i] ELSE run

\* A live push: the socket may lose, repeat or delay any decision.
Push(b, i) ==
  /\ granted /\ status[b] = "on"
  /\ Decided(i)
  /\ ~AnsweredAtOnce(b, i) /\ JoinOrStart(b, i)
  /\ UNCHANGED <<worldVars, ledgerVars, status, cursor, disk, sync, restaged, skipped, restarts>>

\* handleDrift: the item is no longer what the decided card shows.
RunDrifts(b, p) ==
  LET card == log[run[b][p]].card IN
  /\ run[b][p] # 0 /\ <<b, p>> \notin restaged /\ status[b] = "on"
  /\ tracked[p] \notin {0, card} \/ item[p] \notin {0, card}
  /\ Listing([tracked EXCEPT ![p] = 0])
  /\ restaged' = restaged \cup {<<b, p>>}
  /\ UNCHANGED <<worldVars, status, cursor, disk, sync, run, skipped, restarts>>

\* The sync of b waits for the run of p.
Waits(b, p) == sync[b].st = "await" /\ log[sync[b].at].p = p

\* The rows that get the outcome of the run of p, of those the cursor can pass.
Waiters(b, p) == {run[b][p]} \cup (IF Waits(b, p) THEN {sync[b].at} ELSE {})

\* What a run that has not restaged has done by its end, and which rows it
\* answers without effect.
RunEffect(b, p, outcome) ==
  LET card == log[run[b][p]].card
      dropped == skipped \cup Waiters(b, p) IN
  \/ /\ status[b] = "disposed" /\ outcome \in {"noop", "rejected"}
     /\ skipped' = dropped
     /\ UNCHANGED <<item, tracked, unlisted>>
  \/ /\ "key" \in Faults /\ tracked[p] = card        \* the operator's key was not found
     /\ outcome = "rejected"
     /\ skipped' = dropped
     /\ UNCHANGED <<item, tracked, unlisted>>
  \/ /\ "getCurrent" \in Faults /\ tracked[p] = card
     /\ outcome = "deferred"
     /\ UNCHANGED <<item, tracked, unlisted, skipped>>
  \/ /\ "resolve" \in Faults /\ tracked[p] = card /\ item[p] = card
     /\ outcome \in {"rejected", "noop"}             \* resolve failed, or the id is claimed
     /\ tracked' = [tracked EXCEPT ![p] = 0] /\ unlisted' = TRUE
     /\ skipped' = dropped
     /\ UNCHANGED item
  \/ /\ tracked[p] = card /\ item[p] = card
     /\ outcome = "applied"
     /\ item' = [item EXCEPT ![p] = 0] /\ tracked' = [tracked EXCEPT ![p] = 0]
     /\ UNCHANGED <<unlisted, skipped>>
  \/ /\ status[b] = "on"
     /\ tracked[p] \in {0, card} /\ 0 \in {tracked[p], item[p]}
     /\ outcome = "noop"                             \* no longer pending, or tracked: retired
     /\ tracked' = [tracked EXCEPT ![p] = 0]
     /\ skipped' = SkippedAsGone(b, Waiters(b, p))
     /\ UNCHANGED <<item, unlisted>>

\* A restaged item's decision is rejected.  A row of another card, decided
\* since, gets the same answer.
RestagedEffect(b, p, outcome) ==
  /\ outcome = "rejected"
  /\ skipped' = skipped \cup {i \in Waiters(b, p) : log[i].card # log[run[b][p]].card}
  /\ UNCHANGED <<item, tracked, unlisted>>

\* Variant: a deferred row is not passed, but does not stop the cursor either.
ExaminedUnblocked(s, terminal) ==
  Sync("scan", s.fetch, IF s.blocked \/ ~terminal THEN s.safe ELSE s.at,
       s.blocked, s.pages, s.at + 1, s.next)

\* The row is done with, for good or to be seen again.
Examined(s, terminal) ==
  Sync("scan", s.fetch, IF s.blocked \/ ~terminal THEN s.safe ELSE s.at,
       s.blocked \/ ~terminal, s.pages, s.at + 1, s.next)

\* The outcome reaches the sync that waits for it, whichever frame ran.
Answer(b, p, outcome) ==
  sync' = IF Waits(b, p) THEN [sync EXCEPT ![b] = Examined(sync[b], outcome # "deferred")]
                         ELSE sync

Outcomes == {"applied", "rejected", "noop", "deferred"}

RunEnds(b, p, outcome) ==
  /\ run[b][p] # 0
  /\ IF <<b, p>> \in restaged THEN RestagedEffect(b, p, outcome) ELSE RunEffect(b, p, outcome)
  /\ Answer(b, p, outcome)
  /\ run' = [run EXCEPT ![b][p] = 0] /\ restaged' = restaged \ {<<b, p>>}
  /\ UNCHANGED <<shown, log, granted, status, cursor, disk, restarts>>

-----------------------------------------------------------------------------
(* performKernelSync and runApprovalsCatchUp. *)

syncOnly == <<worldVars, ledgerVars, status, cursor, disk, runVars, skipped, restarts>>

StartSync(b) ==
  /\ status[b] = "on" /\ sync[b].st = "idle"
  /\ sync' = [sync EXCEPT ![b].st = "preflight"]
  /\ UNCHANGED syncOnly

\* checkApprovalsEntitlement: entitled, missing, or unknown when it fails.
Preflight(b, entitled) ==
  /\ sync[b].st = "preflight"
  /\ entitled = granted \/ ("fetch" \in Faults /\ ~entitled)
  /\ sync' = [sync EXCEPT ![b].st = IF entitled THEN "reconcile" ELSE "reconcileOnly"]
  /\ UNCHANGED syncOnly

Reconcile(b) ==
  /\ sync[b].st \in {"reconcile", "reconcileOnly"}
  /\ IF status[b] = "disposed" THEN UNCHANGED ledgerVars ELSE Listing(tracked)
  /\ sync' = [sync EXCEPT ![b] =
               IF sync[b].st = "reconcile" /\ status[b] # "disposed"
               THEN Sync("fetch", cursor[b], cursor[b], FALSE, 0, 0, 0)
               ELSE NoSync]
  /\ UNCHANGED <<worldVars, status, cursor, disk, runVars, skipped, restarts>>

\* One page: up to PageSize rows; nextCursor also passes filtered rows.
Fetch(b) ==
  LET s == sync[b]
      end == IF s.fetch + PageSize < Len(log) THEN s.fetch + PageSize ELSE Len(log) IN
  /\ s.st = "fetch"
  /\ sync' = [sync EXCEPT ![b] =
               Sync("scan", s.fetch, s.safe, s.blocked, s.pages + 1, s.fetch + 1, end)]
  /\ UNCHANGED syncOnly

\* A failed read ends the run; its finally still advances the cursor.
FetchFails(b) ==
  /\ "fetch" \in Faults
  /\ sync[b].st = "fetch"
  /\ sync' = [sync EXCEPT ![b].st = "save"]
  /\ UNCHANGED syncOnly

InPage(b) == sync[b].st = "scan" /\ sync[b].at <= sync[b].next

\* The next row of the page: withheld by the kernel, handed to a decision run,
\* or done with at once.
ScanFiltered(b) ==
  /\ InPage(b) /\ log[sync[b].at].kind = "filtered"
  /\ sync' = [sync EXCEPT ![b].at = @ + 1]
  /\ UNCHANGED syncOnly

ScanDecision(b) ==
  /\ InPage(b) /\ Decided(sync[b].at) /\ ~AnsweredAtOnce(b, sync[b].at)
  /\ sync' = [sync EXCEPT ![b].st = "await"]
  /\ JoinOrStart(b, sync[b].at)
  /\ UNCHANGED <<worldVars, ledgerVars, status, cursor, disk, restaged, skipped, restarts>>

ScanOther(b) ==
  /\ InPage(b) /\ log[sync[b].at].kind = "other"
  /\ sync' = [sync EXCEPT ![b] = Examined(sync[b], TRUE)]
  /\ UNCHANGED syncOnly

ScanNoop(b) ==
  /\ InPage(b) /\ Decided(sync[b].at) /\ AnsweredAtOnce(b, sync[b].at)
  /\ sync' = [sync EXCEPT ![b] = Examined(sync[b], TRUE)]
  /\ skipped' = SkippedAsGone(b, {sync[b].at})
  /\ UNCHANGED <<worldVars, ledgerVars, status, cursor, disk, runVars, restarts>>

\* The page is done: read another, or stop and save the cursor.
PageRead(s, st) ==
  Sync(st, s.next, IF ~s.blocked /\ s.next > s.safe THEN s.next ELSE s.safe,
       s.blocked, s.pages, s.at, s.next)

AfterPage(s) ==
  PageRead(s, IF s.next = s.fetch \/ s.pages = MaxPages THEN "save" ELSE "fetch")

PageEnds(b) ==
  /\ sync[b].st = "scan" /\ sync[b].at > sync[b].next
  /\ sync' = [sync EXCEPT ![b] = AfterPage(sync[b])]
  /\ UNCHANGED syncOnly

\* ApprovalsCursorStore.advance: never back, in memory first, then in the file.
Advance(b) ==
  /\ sync[b].st = "save"
  /\ IF sync[b].safe > cursor[b]
     THEN /\ cursor' = [cursor EXCEPT ![b] = sync[b].safe]
          /\ sync' = [sync EXCEPT ![b].st = "write"]
     ELSE /\ sync' = [sync EXCEPT ![b] = NoSync]
          /\ UNCHANGED cursor
  /\ UNCHANGED <<worldVars, ledgerVars, status, disk, runVars, skipped, restarts>>

WriteCursor(b) ==
  /\ sync[b].st = "write"
  /\ disk' = sync[b].safe \/ ("write" \in Faults /\ UNCHANGED disk)
  /\ sync' = [sync EXCEPT ![b] = NoSync]
  /\ UNCHANGED <<worldVars, ledgerVars, status, cursor, runVars, skipped, restarts>>

-----------------------------------------------------------------------------
(* Restarts. *)

\* A bridge starts and loads the cursor file; one it cannot read counts as 0.
Starts(b, next) ==
  /\ restarts < MaxRestarts /\ restarts' = restarts + 1
  /\ status' = [next EXCEPT ![b] = "on"]
  /\ \E loaded \in {disk} \cup (IF "cursorLost" \in Faults THEN {0} ELSE {}) :
       cursor' = [cursor EXCEPT ![b] = loaded]

\* The process dies.  The cards come back from the bridge's state file, unless
\* that is missing or unreadable.
Crash(b) ==
  /\ "crash" \in Faults
  /\ Starts(b, [c \in Bridges |-> "off"])
  /\ \/ UNCHANGED tracked
     \/ "stateLost" \in Faults /\ tracked' = [p \in Proposals |-> 0]
  /\ sync' = [c \in Bridges |-> NoSync]
  /\ run' = [c \in Bridges |-> [p \in Proposals |-> 0]] /\ restaged' = {}
  /\ UNCHANGED <<worldVars, shown, unlisted, disk, skipped>>

\* The registration is replaced: dispose() the bridge, start its successor.
Reload(b, new) ==
  /\ "reload" \in Faults
  /\ status[b] = "on" /\ new # b /\ ~Busy(new)
  /\ Starts(new, [status EXCEPT ![b] = "disposed"])
  /\ UNCHANGED <<worldVars, ledgerVars, disk, sync, runVars, skipped>>

-----------------------------------------------------------------------------

Init ==
  /\ item = [p \in Proposals |-> 1]
  /\ shown = [p \in Proposals |-> 0] /\ tracked = [p \in Proposals |-> 0]
  /\ log = <<>> /\ granted \in BOOLEAN /\ unlisted = FALSE
  /\ \E b \in Bridges : status = [c \in Bridges |-> IF c = b THEN "on" ELSE "off"]
  /\ cursor = [b \in Bridges |-> 0] /\ disk = 0
  /\ sync = [b \in Bridges |-> NoSync]
  /\ run = [b \in Bridges |-> [p \in Proposals |-> 0]] /\ restaged = {}
  /\ skipped = {} /\ restarts = 0

SyncStep(b) ==
  \/ \E entitled \in BOOLEAN : Preflight(b, entitled)
  \/ Reconcile(b) \/ Fetch(b) \/ FetchFails(b)
  \/ ScanFiltered(b) \/ ScanDecision(b) \/ ScanOther(b) \/ ScanNoop(b)
  \/ PageEnds(b) \/ Advance(b) \/ WriteCursor(b)

Next ==
  \/ \E p \in Proposals : Revise(p) \/ Decide(p)
  \/ \E kind \in {"other", "filtered"} : LogNoise(kind)
  \/ Grant
  \/ \E b \in Bridges : Publish(b) \/ StartSync(b) \/ SyncStep(b) \/ Crash(b)
  \/ \E b \in Bridges, i \in DOMAIN log : Push(b, i)
  \/ \E b \in Bridges, p \in Proposals :
       RunDrifts(b, p) \/ \E outcome \in Outcomes : RunEnds(b, p, outcome)
  \/ \E b, new \in Bridges : Reload(b, new)

Spec == Init /\ [][Next]_vars

\* Remote calls settle, and do not fail forever; the sync comes back (every
\* five minutes and on reconnect); the owner grants the capability.
Fairness ==
  /\ WF_vars(Grant)
  /\ \A b \in Bridges :
       /\ WF_vars(StartSync(b)) /\ WF_vars(SyncStep(b))
       /\ SF_vars(Preflight(b, TRUE)) /\ SF_vars(Fetch(b))
       /\ \A p \in Proposals :
            /\ WF_vars(RunDrifts(b, p) \/ \E outcome \in Outcomes : RunEnds(b, p, outcome))
            /\ \A i \in Rows :
                 SF_vars(run[b][p] = i /\ (\/ RunDrifts(b, p)
                   \/ \E outcome \in Outcomes \ {"deferred"} : RunEnds(b, p, outcome)))

FairSpec == Spec /\ Fairness

-----------------------------------------------------------------------------

\* The decision is of no more use: its card is not what is pending, or it was
\* answered without effect.
Covered(i) == Decided(i) => item[log[i].p] # log[i].card \/ i \in skipped

\* No crash, lost file or failed read loses a decision: what the cursor file,
\* or the cursor of a bridge, has passed is settled or superseded, unless its
\* frame was answered for good without effect (approvals-catchup.ts:301-312).
CursorCovers == \A i \in 1..Len(log) : (i <= disk \/ \E b \in Bridges : i <= cursor[b]) => Covered(i)

\* A decision that no live push brought takes effect all the same.
DecisionsLand ==
  \A i \in Rows : (i \in DOMAIN log /\ ~Covered(i)) ~> (i \in DOMAIN log /\ Covered(i))

=============================================================================
