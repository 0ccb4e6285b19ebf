--------------------------- MODULE ApprovalsBridge ---------------------------
(***************************************************************************)
(* GatewayApprovalsBridge (src/gateway-approvals-bridge.ts), one instance  *)
(* from its construction on: it lists and hears pending items of its       *)
(* sources, publishes one signed card per item to the kernel, and applies  *)
(* the operator's signed decision to the source if, and only if, the item  *)
(* is still the one the operator saw.                                      *)
(*                                                                         *)
(* JavaScript runs to completion between awaits, so one action is one      *)
(* stretch of a handler between two awaits; every await is a point where   *)
(* any other handler, and the environment, may run.                        *)
(*                                                                         *)
(* Abstractions.  A revision stands for the item's whole digest            *)
(* (sourceRevision and detail): contentHash equality is revision equality. *)
(* A TrackedProposal object is [rev, gen]; `gen' is its JavaScript         *)
(* identity, which `published.get(id) !== tracked' compares.  Time is the  *)
(* set `late' of items whose expiresAtMs has passed.  Entitlement, reload  *)
(* (`disposed') and the catch-up cursor are not part of this module.       *)
(***************************************************************************)
EXTENDS Integers, FiniteSets

CONSTANTS
  Sources, Proposals,
  SourceOf,      \* [Proposals -> Sources]
  Restage,       \* sources whose onDriftPolicy is "restage"; the others "leave"
  Pinned,        \* sources whose resolve() rejects a revision it was not sent
  Mutable,       \* items that may be revised while pending
  FailClosed,    \* sources with failClosedOnPublishError
  Withdrawable,  \* sources with a withdrawalDecision
  Countersigned, \* sources for which an operator signature is required
  Native,        \* sources whose ids session.approve / session.deny also accept
  Owned,         \* items whose request names the owning session (owner)
  Timed,         \* items with an expiresAtMs
  Handlers,      \* concurrent handleSourceRequested runs that hold a reservation
  NoProposal,
  MaxRev,        \* bound: revisions of one item
  Taken,         \* bound: the decisions that are taken on a card
  Retries,       \* publishRetryDelaysMs.length
  Sweeping,      \* whether loopBlockSweepIntervalMs is not 0
  Faults         \* what the environment may do wrong, a subset of FaultKinds

Decisions == {"approve", "reject", "withdrawn"}

FaultKinds == {"crash", "disk", "sign", "transient", "refused", "resolve",
               "read", "list", "partialList", "unsigned"}

ASSUME BridgeAssumption ==
  /\ SourceOf \in [Proposals -> Sources]
  /\ Restage \subseteq Sources /\ Pinned \subseteq Sources
  /\ Sources \cap Proposals = {}
  /\ NoProposal \notin Proposals
  /\ MaxRev \in Nat \ {0}
  /\ Retries \in Nat
  /\ Taken \subseteq Decisions
  /\ Faults \subseteq FaultKinds

VARIABLES
  item,         \* each source's own state of each item
  late,         \* items whose deadline has passed
  shown,        \* <<p, r>>: the kernel has a card for revision r of p
  signed,       \* <<p, r, d>>: the operator decided d on that card
  published,    \* the bridge's map of tracked proposals
  reservations, \* ids with a publish in progress
  handler,      \* handleSourceRequested runs that own a reservation
  rejectedPublishes,  \* revision the kernel refused and that backs off, 0 if none
  held,         \* ids for which the loop blocker holds the owner's loop
  outcomes,     \* ApprovalsStateStore.outcomes
  warnings,     \* ids whose operator was told "expired/superseded, NOT applied"
  disk,         \* the state file
  run,          \* decisionsInFlight: at most one run per id
  claimed,      \* ApprovalExecutionRegistry.claimed
  rail,         \* the session-command rail's gateway call in flight, per id
  job,          \* reconcileSource runs: one per source, one per restage
  sweep         \* the sweepOne that has found its item settled

worldVars == <<item, late, shown, signed>>
noteVars  == <<outcomes, warnings>>
publishVars == <<reservations, handler, rejectedPublishes>>
decideVars == <<run, claimed, rail>>
vars == <<item, late, shown, signed, published, reservations, handler,
          rejectedPublishes, held, outcomes, warnings, disk, run, claimed,
          rail, job, sweep>>

-----------------------------------------------------------------------------
(* Types and empty values. *)

Revs      == 1..MaxRev
Gens      == 1..3            \* identities in use at once: tracked, a run's, the sweep's
Verdicts  == {"approve", "reject"}
Card      == [rev : 0..MaxRev, gen : {0} \cup Gens]
NoCard    == [rev |-> 0, gen |-> 0]

ItemStates    == {"absent", "pending", "applied", "rejected", "gone"}
HandlerStates == {"idle", "signing", "saving", "posting", "posted", "denying"}
RunStates     == {"idle", "checking", "read", "resolving", "resolved",
                  "failed", "drifted", "restaging"}

NoHandler == [st |-> "idle", p |-> NoProposal, rev |-> 0, try |-> 0]
NoRun     == [st |-> "idle", rev |-> 0, dec |-> "none", gen |-> 0,
              current |-> 0, signature |-> FALSE]
DriftedRun == [st |-> "drifted", rev |-> 0, dec |-> "none", gen |-> 0,
              current |-> 0, signature |-> FALSE]
RestagingRun == [st |-> "restaging", rev |-> 0, dec |-> "none", gen |-> 0,
              current |-> 0, signature |-> FALSE]
NoJob     == [st |-> "idle", todo |-> {}, at |-> NoProposal]
NoSweep   == [p |-> NoProposal, gen |-> 0]

Jobs == Sources \cup Proposals
JobSource(j) == IF j \in Sources THEN j ELSE SourceOf[j]

\* What each kind of record may hold; one that is in use is filled in.
ItemRecord == {x \in [st : ItemStates, rev : 0..MaxRev] : x.st # "absent" => x.rev \in Revs}
HandlerRecord ==
  {x \in [st : HandlerStates, p : Proposals \cup {NoProposal}, rev : 0..MaxRev, try : 0..Retries] :
     x.st # "idle" => x.p \in Proposals /\ x.rev \in Revs}
RunRecord ==
  {x \in [st : RunStates, rev : 0..MaxRev, dec : Decisions \cup {"none"}, gen : {0} \cup Gens,
          current : 0..MaxRev, signature : BOOLEAN] :
     x.st \notin {"idle", "drifted", "restaging"} => x.rev \in Revs /\ x.dec \in Decisions}
JobRecord == [st : {"idle", "listed", "walking"}, todo : SUBSET (Proposals \X Revs),
              at : Proposals \cup {NoProposal}]
SweepRecord == [p : Proposals, gen : {0} \cup Gens] \cup {NoSweep}
Outcomes == {"none", "applied", "expired"}
DiskRecord == [published : [Proposals -> 0..MaxRev], outcomes : [Proposals -> Outcomes],
               warnings : SUBSET Proposals]

TypeOK ==
  /\ item \in [Proposals -> ItemRecord]
  /\ late \subseteq Timed \cap Proposals
  /\ shown \subseteq Proposals \X Revs
  /\ signed \subseteq Proposals \X Revs \X Decisions
  /\ published \in [Proposals -> Card]
  /\ reservations \subseteq Proposals
  /\ handler \in [Handlers -> HandlerRecord]
  /\ rejectedPublishes \in [Proposals -> 0..MaxRev]
  /\ held \subseteq Proposals
  /\ outcomes \in [Proposals -> Outcomes]
  /\ warnings \subseteq Proposals
  /\ disk \in DiskRecord
  /\ run \in [Proposals -> RunRecord]
  /\ claimed \subseteq Proposals
  /\ rail \in [Proposals -> Verdicts \cup {"none"}]
  /\ job \in [Jobs -> JobRecord]
  /\ sweep \in SweepRecord

-----------------------------------------------------------------------------
(* The bridge's own bookkeeping. *)

Tracked(p) == published[p] # NoCard
Of(s) == {p \in Proposals : SourceOf[p] = s}
PendingOf(s) == {<<p, item[p].rev>> : p \in {q \in Of(s) : item[q].st = "pending"}}

\* An object identity nobody holds: neither a decision run nor the sweep.
FreshGen(p) == CHOOSE g \in Gens : g # run[p].gen /\ g # sweep.gen

Snapshot == [published |-> [p \in Proposals |-> published[p].rev],
             outcomes |-> outcomes, warnings |-> warnings]

\* forget(): stop tracking, release the loop.  Its persist() is not awaited.
Forget(P) ==
  /\ published' = [p \in Proposals |-> IF p \in P THEN NoCard ELSE published[p]]
  /\ held' = held \ P

\* retireProposal(): the outcome, forget(), and one warning per id.
Retire(P) ==
  /\ Forget(P)
  /\ outcomes' = [p \in Proposals |-> IF p \in P THEN "expired" ELSE outcomes[p]]
  /\ warnings' = warnings \cup P

KeepTracking == UNCHANGED <<published, held, outcomes, warnings>>

-----------------------------------------------------------------------------
(* What resolve(p, dec, rev) does at the source.                           *)

\* Variant: the expected revision is not forwarded to the source.
SourceResolvesUnpinned(p, dec, rev, result) ==
  /\ item[p].st = "pending"
  /\ item' = [item EXCEPT ![p].st = IF dec = "approve" THEN "applied" ELSE "rejected"]
  /\ result = "resolved"

SourceResolves(p, dec, rev, result) ==
  \/ /\ item[p].st = "pending"
     /\ SourceOf[p] \in Pinned => item[p].rev = rev
     /\ item' = [item EXCEPT ![p].st = IF dec = "approve" THEN "applied" ELSE "rejected"]
     /\ result = "resolved" \/ (result = "failed" /\ "resolve" \in Faults)
  \/ /\ SourceOf[p] \in Pinned
     /\ item[p].st # "pending" \/ item[p].rev # rev
     /\ result = "drifted"
     /\ UNCHANGED item
  \/ /\ item[p].st # "pending"       \* idempotent repeat, or a clean conflict
     /\ result \in {"resolved", "failed"}
     /\ UNCHANGED item
  \/ /\ "resolve" \in Faults         \* the call never reached the source
     /\ result = "failed"
     /\ UNCHANGED item

-----------------------------------------------------------------------------
(* handleSourceRequested and publishSourceRequest. *)

\* Already published: only the loop hold is restored.
Reblock(p) ==
  /\ Tracked(p)
  /\ held' = held \cup ({p} \cap Owned)
  /\ UNCHANGED <<published, outcomes, warnings, publishVars>>

\* Someone else is publishing this very id: wait for them, do nothing.
JoinReservation(p) ==
  /\ ~Tracked(p) /\ p \in reservations
  /\ KeepTracking /\ UNCHANGED publishVars

\* prepareSourcePayload's first check, still before any await.
RetireLate(p) ==
  /\ ~Tracked(p) /\ p \notin reservations /\ p \in late
  /\ Retire({p})
  /\ UNCHANGED publishVars

\* Variant: the reservation is not taken before the first await (#33's bug).
ReserveUnmarked(p, r) ==
  /\ ~Tracked(p) /\ p \notin reservations /\ p \notin late
  /\ \E h \in Handlers :
       /\ handler[h].st = "idle"
       /\ handler' = [handler EXCEPT ![h] =
                        [st |-> "signing", p |-> p, rev |-> r, try |-> 0]]
  /\ KeepTracking /\ UNCHANGED <<reservations, rejectedPublishes>>

\* Check and reserve with no await in between (#48), then start signing.
Reserve(p, r) ==
  /\ ~Tracked(p) /\ p \notin reservations /\ p \notin late
  /\ reservations' = reservations \cup {p}
  /\ \E h \in Handlers :
       /\ handler[h].st = "idle"
       /\ handler' = [handler EXCEPT ![h] =
                        [st |-> "signing", p |-> p, rev |-> r, try |-> 0]]
  /\ KeepTracking /\ UNCHANGED rejectedPublishes

HandleSourceRequested(p, r) ==
  Reblock(p) \/ JoinReservation(p) \/ RetireLate(p) \/ Reserve(p, r)

\* Variant: no finally, so a settled publish keeps its reservation.
FinishUnreleased(h) ==
  /\ handler' = [handler EXCEPT ![h] = NoHandler]
  /\ UNCHANGED <<reservations, job>>

\* The finally block: the reservation goes, and the walks awaiting it go on.
Finish(h) ==
  /\ handler' = [handler EXCEPT ![h] = NoHandler]
  /\ reservations' = reservations \ {handler[h].p}
  /\ job' = [j \in Jobs |-> IF job[j].at = handler[h].p
                            THEN [job[j] EXCEPT !.at = NoProposal] ELSE job[j]]

\* Variant: the deny does not go through the shared claims.
FailClosedUnclaimed(h) ==
  IF SourceOf[handler[h].p] \in FailClosed
  THEN /\ handler' = [handler EXCEPT ![h].st = "denying"]
       /\ UNCHANGED <<reservations, job, claimed>>
  ELSE Finish(h) /\ UNCHANGED claimed

\* failClosedIfBlocking: deny a blocked caller, if no other rail claimed it.
FailClosedOrFinish(h) ==
  LET p == handler[h].p IN
  IF SourceOf[p] \in FailClosed /\ p \notin claimed
  THEN /\ claimed' = claimed \cup {p}
       /\ handler' = [handler EXCEPT ![h].st = "denying"]
       /\ UNCHANGED <<reservations, job>>
  ELSE Finish(h) /\ UNCHANGED claimed

\* The revision at hand was refused, and its backoff is not over.
BackingOff(h) == rejectedPublishes[handler[h].p] = handler[h].rev

\* holdRejectedPublish: neither tracked nor posted.
HoldRejected(h) ==
  /\ handler[h].st = "signing"
  /\ BackingOff(h)
  /\ Finish(h)
  /\ KeepTracking
  /\ UNCHANGED <<worldVars, rejectedPublishes, disk, decideVars, sweep>>

\* retryAtMs passes: from here on the refusal holds nothing.  (The entry itself
\* stays, for the length of the next backoff.)
BackoffEnds(p) ==
  /\ rejectedPublishes[p] # 0
  /\ rejectedPublishes' = [rejectedPublishes EXCEPT ![p] = 0]
  /\ KeepTracking
  /\ UNCHANGED <<worldVars, reservations, handler, disk, decideVars, job, sweep>>

\* The payload is signed: track the card before it is posted.  The refusal of
\* another revision is forgotten.
Track(h) ==
  LET p == handler[h].p IN
  /\ handler[h].st = "signing"
  /\ ~BackingOff(h)
  /\ published' = [published EXCEPT ![p] = [rev |-> handler[h].rev, gen |-> FreshGen(p)]]
  /\ rejectedPublishes' = [rejectedPublishes EXCEPT ![p] = 0]
  /\ handler' = [handler EXCEPT ![h].st = "saving"]
  /\ UNCHANGED <<worldVars, reservations, held, noteVars, disk, decideVars, job, sweep>>

SignFails(h) ==
  /\ "sign" \in Faults
  /\ handler[h].st = "signing"
  /\ FailClosedOrFinish(h)
  /\ KeepTracking
  /\ UNCHANGED <<worldVars, rejectedPublishes, disk, run, rail, sweep>>

\* persistProposals() settled: the copy of the maps that Track took is on disk,
\* by itself (a Flush since then) or followed by the writes queued behind it.  A
\* write error is logged and swallowed.  Only a process that starts reads the
\* file: where none dies, it is left alone.
Saved(h) ==
  /\ handler[h].st = "saving"
  /\ \/ "crash" \in Faults /\ disk' = Snapshot
     \/ disk.published[handler[h].p] = handler[h].rev /\ UNCHANGED disk
     \/ ("disk" \in Faults \/ "crash" \notin Faults) /\ UNCHANGED disk
  /\ handler' = [handler EXCEPT ![h].st = "posting"]
  /\ UNCHANGED <<worldVars, reservations, rejectedPublishes, decideVars, job, sweep>>
  /\ KeepTracking

\* The kernel takes the card (it de-duplicates by id); the reply is on its way.
KernelShows(h) ==
  /\ handler[h].st = "posting"
  /\ shown' = shown \cup {<<handler[h].p, handler[h].rev>>}
  /\ handler' = [handler EXCEPT ![h].st = "posted"]
  /\ UNCHANGED <<item, late, signed, reservations, rejectedPublishes, disk, decideVars, job, sweep>>
  /\ KeepTracking

PostConfirmed(h) ==
  LET p == handler[h].p IN
  /\ handler[h].st = "posted"
  /\ rejectedPublishes' = [rejectedPublishes EXCEPT ![p] = 0]
  /\ held' = held \cup ({p} \cap Owned)
  /\ Finish(h)
  /\ UNCHANGED <<worldVars, published, noteVars, disk, decideVars, sweep>>

\* publishRetryDelaysMs[attempt] is defined.
MayRetry(h) == handler[h].try < Retries

\* A retryable failure, before or after the kernel took the card.
PostRetries(h) ==
  /\ "transient" \in Faults
  /\ handler[h].st \in {"posting", "posted"}
  /\ MayRetry(h)
  /\ handler' = [handler EXCEPT ![h] =
                   [st |-> "posting", p |-> @.p, rev |-> @.rev, try |-> @.try + 1]]
  /\ KeepTracking
  /\ UNCHANGED <<worldVars, reservations, rejectedPublishes, disk, decideVars, job, sweep>>

\* Variant: the card stays tracked, a phantom publication.
PostFailsTracked(h) ==
  LET p == handler[h].p IN
  /\ \/ /\ "transient" \in Faults
        /\ handler[h].st \in {"posting", "posted"} /\ ~MayRetry(h)
        /\ UNCHANGED rejectedPublishes
     \/ /\ "refused" \in Faults
        /\ handler[h].st = "posting"
        /\ rejectedPublishes' = [rejectedPublishes EXCEPT ![p] = handler[h].rev]
  /\ FailClosedOrFinish(h)
  /\ KeepTracking
  /\ UNCHANGED <<worldVars, disk, run, rail, sweep>>

\* The catch of publishSourceRequest: retries used up, or a permanent 4xx.
PostFails(h) ==
  LET p == handler[h].p IN
  /\ \/ /\ "transient" \in Faults
        /\ handler[h].st \in {"posting", "posted"} /\ ~MayRetry(h)
        /\ UNCHANGED rejectedPublishes
     \/ /\ "refused" \in Faults
        /\ handler[h].st = "posting"
        /\ rejectedPublishes' = [rejectedPublishes EXCEPT ![p] = handler[h].rev]
  /\ Forget({p})
  /\ FailClosedOrFinish(h)
  /\ UNCHANGED <<worldVars, noteVars, disk, run, rail, sweep>>

\* The fail-closed deny reaches the source and answers; only logged after that.
DenySettles(h) ==
  /\ handler[h].st = "denying"
  /\ \E result \in {"resolved", "failed", "drifted"} :
       SourceResolves(handler[h].p, "reject", handler[h].rev, result)
  /\ Finish(h)
  /\ KeepTracking
  /\ UNCHANGED <<late, shown, signed, rejectedPublishes, disk, decideVars, sweep>>

-----------------------------------------------------------------------------
(* reconcileSource: a list() reply is a snapshot; it is walked later, one  *)
(* request at a time, each awaited.                                        *)

\* list(): everything pending, or, when one agent of several could not be
\* asked, only part of it.
ListAnswers(s) ==
  IF "partialList" \in Faults THEN SUBSET PendingOf(s) ELSE {PendingOf(s)}

\* reconcile() asks a source; the snapshot is taken before the reply arrives.
ReconcileLists(s) ==
  /\ job[s].st = "idle"
  /\ \E answer \in ListAnswers(s) :
       job' = [job EXCEPT ![s] = [st |-> "listed", todo |-> answer, at |-> NoProposal]]
  /\ KeepTracking
  /\ UNCHANGED <<worldVars, publishVars, disk, decideVars, sweep>>

\* The same call, made by handleDrift for a restage.
RestageLists(p) ==
  /\ run[p].st = "restaging" /\ job[p].st = "idle"
  /\ \E answer \in ListAnswers(SourceOf[p]) :
       job' = [job EXCEPT ![p] = [st |-> "listed", todo |-> answer, at |-> NoProposal]]
  /\ KeepTracking
  /\ UNCHANGED <<worldVars, publishVars, disk, decideVars, sweep>>

\* A failed list() ends the restage; its finally releases the hold.
RestageListFails(p) ==
  /\ "list" \in Faults
  /\ run[p].st = "restaging" /\ job[p].st = "idle"
  /\ run' = [run EXCEPT ![p] = NoRun]
  /\ held' = IF Tracked(p) THEN held ELSE held \ {p}
  /\ UNCHANGED <<worldVars, published, noteVars, publishVars, disk, claimed, rail, job, sweep>>

Orphans(j) ==
  {p \in Of(JobSource(j)) : Tracked(p) /\ ((\A r \in Revs : <<p, r>> \notin job[j].todo)
                                           \/ p \in late)}

\* The reply arrives: tracked ids it does not name, and expired ones, are retired.
RetireOrphans(j) ==
  /\ job[j].st = "listed"
  /\ Retire(Orphans(j))
  /\ job' = [job EXCEPT ![j].st = "walking"]
  /\ UNCHANGED <<worldVars, publishVars, disk, decideVars, sweep>>

Visit(j, p, r) ==
  /\ job[j].st = "walking" /\ job[j].at = NoProposal
  /\ <<p, r>> \in job[j].todo
  /\ HandleSourceRequested(p, r)
  /\ job' = [job EXCEPT ![j] =
       [st |-> "walking", todo |-> @.todo \ {<<p, r>>},
        at |-> IF ~Tracked(p) /\ p \in reservations' THEN p ELSE NoProposal]]
  /\ UNCHANGED <<worldVars, disk, decideVars, sweep>>

\* End of the walk; for a restage, also the finally of handleDrift.
WalkEnds(j) ==
  /\ job[j].st = "walking" /\ job[j].at = NoProposal /\ job[j].todo = {}
  /\ job' = [job EXCEPT ![j] = NoJob]
  /\ IF j \in Proposals
     THEN /\ run' = [run EXCEPT ![j] = NoRun]
          /\ held' = IF Tracked(j) THEN held ELSE held \ {j}
     ELSE UNCHANGED <<run, held>>
  /\ UNCHANGED <<worldVars, published, noteVars, publishVars, disk, claimed, rail, sweep>>

-----------------------------------------------------------------------------
(* handleKernelDecision and processKernelDecision. *)

\* A decided frame, live or replayed.  `signature': it carries the operator's.
\* A second frame for an id whose run is in flight only shares that run.
Deliver(p, r, d, signature) ==
  /\ run[p].st = "idle"
  /\ \/ /\ ~Tracked(p)                       \* no-op; an approve is reported stale
        /\ IF d = "approve" /\ outcomes[p] # "applied"
           THEN Retire({p}) ELSE KeepTracking
        /\ UNCHANGED run
     \/ /\ Tracked(p)
        /\ run' = [run EXCEPT ![p] =
             IF r = published[p].rev
             THEN [st |-> "checking", rev |-> r, dec |-> d, gen |-> published[p].gen,
                   current |-> 0, signature |-> signature]
             ELSE DriftedRun]
        /\ KeepTracking
  /\ UNCHANGED <<worldVars, publishVars, disk, claimed, rail, job, sweep>>

\* Variant: a missing signature is always tolerated.
CountersignatureOptional(p) == TRUE

\* verifyOperatorCountersignature, against the bridge's own record of the card.
CountersignatureOk(p) == run[p].signature \/ SourceOf[p] \notin Countersigned

Refused(p) ==
  \/ ~CountersignatureOk(p)
  \/ run[p].dec = "withdrawn" /\ SourceOf[p] \notin Withdrawable

\* The frame is refused, or expired before the source is asked.
Dismiss(p) ==
  /\ run[p].st = "checking"
  /\ \/ Refused(p) /\ KeepTracking
     \/ ~Refused(p) /\ p \in late /\ Retire({p})
     \/ ~Refused(p) /\ "read" \in Faults /\ KeepTracking   \* getCurrent threw: deferred
  /\ run' = [run EXCEPT ![p] = NoRun]
  /\ UNCHANGED <<worldVars, publishVars, disk, claimed, rail, job, sweep>>

\* getCurrent answers with a snapshot: the pending revision, or 0.
ReadCurrent(p) ==
  /\ run[p].st = "checking" /\ ~Refused(p) /\ p \notin late
  /\ run' = [run EXCEPT ![p] =
       [st |-> "read", rev |-> @.rev, dec |-> @.dec, gen |-> @.gen,
        current |-> IF item[p].st = "pending" THEN item[p].rev ELSE 0,
        signature |-> @.signature]]
  /\ KeepTracking
  /\ UNCHANGED <<worldVars, publishVars, disk, claimed, rail, job, sweep>>

\* Variant: the claim is not looked at.
ClaimUnchecked(p) == TRUE

\* The run's own card object is still the tracked one.
SameCard(p) == published[p].gen = run[p].gen

DeadlineOk(p) == p \notin late

Claimable(p) == p \notin claimed

\* Everything between the last await and source.resolve().
NotPending(p) == run[p].current = 0 /\ Retire({p})
              /\ run' = [run EXCEPT ![p] = NoRun] /\ UNCHANGED claimed

Drifted(p) == run[p].current \notin {0, run[p].rev} /\ KeepTracking
              /\ run' = [run EXCEPT ![p] = DriftedRun]
              /\ UNCHANGED claimed

Abandon(p) ==
  /\ run[p].current = run[p].rev
  /\ \/ ~SameCard(p) /\ KeepTracking
     \/ SameCard(p) /\ ~DeadlineOk(p) /\ Retire({p})
     \/ SameCard(p) /\ DeadlineOk(p) /\ ~Claimable(p) /\ Forget({p}) /\ UNCHANGED noteVars
  /\ run' = [run EXCEPT ![p] = NoRun] /\ UNCHANGED claimed

CallResolve(p) ==
  /\ run[p].current = run[p].rev
  /\ SameCard(p) /\ DeadlineOk(p) /\ Claimable(p)
  /\ claimed' = claimed \cup {p}
  /\ run' = [run EXCEPT ![p].st = "resolving"]
  /\ KeepTracking

Commit(p) ==
  /\ run[p].st = "read"
  /\ NotPending(p) \/ Drifted(p) \/ Abandon(p) \/ CallResolve(p)
  /\ UNCHANGED <<worldVars, publishVars, disk, rail, job, sweep>>

\* The call reaches the source; "withdrawn" is sent as "reject".
ResolveReaches(p) ==
  /\ run[p].st = "resolving"
  /\ \E result \in {"resolved", "failed", "drifted"} :
       /\ SourceResolves(p, IF run[p].dec = "approve" THEN "approve" ELSE "reject",
                         run[p].rev, result)
       /\ run' = [run EXCEPT ![p] = IF result = "drifted" THEN DriftedRun
                                                          ELSE [run[p] EXCEPT !.st = result]]
  /\ KeepTracking
  /\ UNCHANGED <<late, shown, signed, publishVars, disk, claimed, rail, job, sweep>>

\* The reply: whatever object is tracked now is forgotten.
ResolveReturns(p) ==
  /\ run[p].st \in {"resolved", "failed"}
  /\ outcomes' = IF run[p].st = "resolved" THEN [outcomes EXCEPT ![p] = "applied"] ELSE outcomes
  /\ Forget({p})
  /\ run' = [run EXCEPT ![p] = NoRun]
  /\ UNCHANGED <<worldVars, warnings, publishVars, disk, claimed, rail, job, sweep>>

\* handleDrift after its mismatch notice: evict and re-list, or leave.
HandleDrift(p) ==
  /\ run[p].st = "drifted"
  /\ IF SourceOf[p] \in Restage
     THEN /\ published' = [published EXCEPT ![p] = NoCard]
          /\ run' = [run EXCEPT ![p] = RestagingRun]
     ELSE run' = [run EXCEPT ![p] = NoRun] /\ UNCHANGED published
  /\ UNCHANGED <<worldVars, held, noteVars, publishVars, disk, claimed, rail, job, sweep>>

-----------------------------------------------------------------------------
(* The other user of the claims: session.approve / session.deny, and the   *)
(* commands that consume an approval without resolving it ("convert").     *)

SessionCommand(p, d) ==
  /\ SourceOf[p] \in Native /\ item[p].st # "absent"
  /\ p \notin claimed
  /\ claimed' = claimed \cup {p}
  /\ rail' = IF d = "convert" THEN rail ELSE [rail EXCEPT ![p] = d]
  /\ KeepTracking
  /\ UNCHANGED <<worldVars, publishVars, disk, run, job, sweep>>

SessionResolves(p) ==
  /\ rail[p] # "none"
  /\ \E result \in {"resolved", "failed", "drifted"} :
       SourceResolves(p, rail[p], item[p].rev, result)
  /\ rail' = [rail EXCEPT ![p] = "none"]
  /\ KeepTracking
  /\ UNCHANGED <<late, shown, signed, publishVars, disk, run, claimed, job, sweep>>

-----------------------------------------------------------------------------
(* The stale-block sweep and the blocker's expiry timer. *)

SweepReads(p) ==
  /\ Sweeping /\ sweep = NoSweep
  /\ p \in held /\ Tracked(p)      \* untracked: sweepOne returns, the hold stays
  /\ item[p].st # "pending"        \* that answer, or an error, ends it at once
  /\ sweep' = [p |-> p, gen |-> published[p].gen]
  /\ KeepTracking
  /\ UNCHANGED <<worldVars, publishVars, disk, decideVars, job>>

SweepActs ==
  /\ sweep # NoSweep
  /\ held' = IF published[sweep.p].gen = sweep.gen
             THEN held \ {sweep.p} ELSE held
  /\ sweep' = NoSweep
  /\ UNCHANGED <<worldVars, published, noteVars, publishVars, disk, decideVars, job>>

HoldExpires(p) ==
  /\ p \in held \cap late
  /\ held' = held \ {p}
  /\ UNCHANGED <<worldVars, published, noteVars, publishVars, disk, decideVars, job, sweep>>

-----------------------------------------------------------------------------
(* State file and process. *)

\* A persist() nobody awaits gets to disk, late or not at all before a crash,
\* the only thing that can tell the difference.
Flush ==
  /\ "crash" \in Faults
  /\ disk # Snapshot
  /\ disk' = Snapshot
  /\ KeepTracking
  /\ UNCHANGED <<worldVars, publishVars, decideVars, job, sweep>>

\* The process dies and starts again: only the state file survives.
Crash ==
  /\ "crash" \in Faults
  /\ published' = [p \in Proposals |->
       IF disk.published[p] = 0 THEN NoCard ELSE [rev |-> disk.published[p], gen |-> 1]]
  /\ outcomes' = disk.outcomes
  /\ warnings' = disk.warnings
  /\ reservations' = {} /\ held' = {} /\ claimed' = {}
  /\ handler' = [h \in Handlers |-> NoHandler]
  /\ rejectedPublishes' = [p \in Proposals |-> 0]
  /\ run' = [p \in Proposals |-> NoRun]
  /\ rail' = [p \in Proposals |-> "none"]
  /\ job' = [j \in Jobs |-> NoJob]
  /\ sweep' = NoSweep
  /\ UNCHANGED <<worldVars, disk>>

-----------------------------------------------------------------------------
(* The environment: sources, clock, kernel and operator. *)

bridgeVars == <<published, held, noteVars, publishVars, disk, decideVars, job, sweep>>

Stage(p) ==
  /\ item[p].st = "absent"
  /\ item' = [item EXCEPT ![p] = [st |-> "pending", rev |-> 1]]
  /\ UNCHANGED <<late, shown, signed, bridgeVars>>

Revise(p) ==
  /\ p \in Mutable /\ item[p].st = "pending" /\ item[p].rev < MaxRev
  /\ item' = [item EXCEPT ![p].rev = @ + 1]
  /\ UNCHANGED <<late, shown, signed, bridgeVars>>

\* Settled outside the bridge: gateway UI, CLI, expiry or supersession.
SettleElsewhere(p) ==
  /\ item[p].st = "pending"
  /\ item' = [item EXCEPT ![p].st = "gone"]
  /\ UNCHANGED <<late, shown, signed, bridgeVars>>

DeadlinePasses(p) ==
  /\ p \in Timed \ late /\ item[p].st # "absent"
  /\ late' = late \cup {p}
  /\ UNCHANGED <<item, shown, signed, bridgeVars>>

\* subscribe() callback; sources repeat it for one item.
LiveEvent(p) ==
  /\ item[p].st = "pending"
  /\ HandleSourceRequested(p, item[p].rev)
  /\ UNCHANGED <<worldVars, disk, decideVars, job, sweep>>

OperatorDecides(p, r, d) ==
  /\ <<p, r>> \in shown
  /\ \A e \in Decisions : <<p, r, e>> \notin signed
  /\ signed' = signed \cup {<<p, r, d>>}
  /\ UNCHANGED <<item, late, shown, bridgeVars>>

DeliverSigned(p, r, d) == <<p, r, d>> \in signed /\ Deliver(p, r, d, TRUE)

\* A frame the operator did not sign, over a card the kernel has.
DeliverUnsigned(p, r, d) ==
  "unsigned" \in Faults /\ <<p, r>> \in shown /\ Deliver(p, r, d, FALSE)

-----------------------------------------------------------------------------

Init ==
  /\ item = [p \in Proposals |-> [st |-> "absent", rev |-> 0]]
  /\ late = {} /\ shown = {} /\ signed = {}
  /\ published = [p \in Proposals |-> NoCard]
  /\ reservations = {} /\ held = {} /\ claimed = {} /\ warnings = {}
  /\ handler = [h \in Handlers |-> NoHandler]
  /\ rejectedPublishes = [p \in Proposals |-> 0]
  /\ outcomes = [p \in Proposals |-> "none"]
  /\ disk = [published |-> [p \in Proposals |-> 0],
             outcomes |-> [p \in Proposals |-> "none"], warnings |-> {}]
  /\ run = [p \in Proposals |-> NoRun]
  /\ rail = [p \in Proposals |-> "none"]
  /\ job = [j \in Jobs |-> NoJob]
  /\ sweep = NoSweep

PublishStep(h) ==
  \/ HoldRejected(h) \/ Track(h) \/ SignFails(h) \/ Saved(h) \/ KernelShows(h)
  \/ PostConfirmed(h) \/ PostRetries(h) \/ PostFails(h) \/ DenySettles(h)

WalkStep(j) ==
  \/ RetireOrphans(j) \/ WalkEnds(j)
  \/ \E p \in Proposals, r \in Revs : Visit(j, p, r)

DecisionStep(p) ==
  \/ Dismiss(p) \/ ReadCurrent(p) \/ Commit(p) \/ ResolveReaches(p)
  \/ ResolveReturns(p) \/ HandleDrift(p) \/ RestageLists(p) \/ RestageListFails(p)

LoopStep(p) == SweepReads(p) \/ HoldExpires(p) \/ BackoffEnds(p)

SessionStep(p) ==
  SessionResolves(p) \/ \E d \in Verdicts \cup {"convert"} : SessionCommand(p, d)

ItemStep(p) ==
  Stage(p) \/ Revise(p) \/ SettleElsewhere(p) \/ DeadlinePasses(p) \/ LiveEvent(p)

KernelStep(p) ==
  \E r \in Revs, d \in Taken :
    OperatorDecides(p, r, d) \/ DeliverSigned(p, r, d) \/ DeliverUnsigned(p, r, d)

Next ==
  \/ \E h \in Handlers : PublishStep(h)
  \/ \E s \in Sources : ReconcileLists(s)
  \/ \E j \in Jobs : WalkStep(j)
  \/ \E p \in Proposals :
       DecisionStep(p) \/ LoopStep(p) \/ SessionStep(p) \/ ItemStep(p) \/ KernelStep(p)
  \/ SweepActs \/ Flush \/ Crash

Spec == Init /\ [][Next]_vars

\* Every remote call settles, with a reply or an error, so a run that was
\* started goes on.  Nothing is assumed of the environment.
Fairness ==
  /\ \A h \in Handlers : WF_vars(PublishStep(h))
  /\ \A j \in Jobs : WF_vars(WalkStep(j))
  /\ \A p \in Proposals : WF_vars(DecisionStep(p)) /\ WF_vars(SessionResolves(p))

FairSpec == Spec /\ Fairness

-----------------------------------------------------------------------------
(* Safety. *)

Working(h, p) == handler[h].st # "idle" /\ handler[h].p = p

\* #48: however many events, reconciles and restages meet, one proposal id is
\* never signed and posted by two runs of handleSourceRequested at once.
SinglePublisher ==
  \A p \in Proposals : \A g, h \in Handlers :
    Working(g, p) /\ Working(h, p) => g = h

\* The rails that may have a resolve of p in flight at its source.
Denying(p)   == \E h \in Handlers : handler[h].st = "denying" /\ handler[h].p = p
Resolving(p) == run[p].st = "resolving"

\* The decision run, the fail-closed deny and the session command share one
\* claim: no two of them ever have a call on the same item in flight.
ExclusiveCall ==
  \A p \in Proposals :
    /\ ~(Resolving(p) /\ Denying(p))
    /\ ~(Resolving(p) /\ rail[p] # "none")
    /\ ~(Denying(p) /\ rail[p] # "none")

\* Sources whose every settled item the operator must have decided on a card.
Reviewed(s) == s \in Countersigned \cap Pinned /\ s \notin FailClosed \cup Native

\* An item is applied only at a revision that the operator approved on a card,
\* whatever was revised, replayed, forged or delivered late in between.
AppliedWasReviewed ==
  \A p \in Proposals :
    Reviewed(SourceOf[p]) /\ item[p].st = "applied"
      => <<p, item[p].rev, "approve">> \in signed

\* publishSourceRequest writes the card to the state file before it posts it:
\* from the POST on, a restart finds every card that is still tracked.
CardDurable ==
  "disk" \notin Faults /\ "crash" \in Faults =>
    \A p \in Proposals :
      Tracked(p) /\ (\A h \in Handlers : Working(h, p) => handler[h].st # "saving")
        => disk.published[p] = published[p].rev

-----------------------------------------------------------------------------
(* Action properties. *)

CallStarts(p) ==
  \/ ~Resolving(p) /\ Resolving(p)'
  \/ ~Denying(p) /\ Denying(p)'

\* The bridge starts no call on an item that any rail has already executed,
\* even when that call's reply was lost or the process died meanwhile.
NeverExecutedTwice ==
  [][\A p \in Proposals : CallStarts(p) => item[p].st \notin {"applied", "rejected"}]_vars

\* A decision is sent only for the very card object it arrived for, and only
\* before that card's deadline, although key, source and hash were awaited.
CallMatchesCard ==
  [][\A p \in Proposals :
       ~Resolving(p) /\ Resolving(p)' =>
         published[p] = [rev |-> run[p].rev, gen |-> run[p].gen] /\ p \notin late]_vars

\* The bridge implements the promise made to the operator.
Authority == INSTANCE ApprovalAuthority
  WITH Direct <- {p \in Proposals : SourceOf[p] \in FailClosed \cup Native}

KeepsAuthority == Authority!Spec

-----------------------------------------------------------------------------
(* Liveness, under FairSpec. *)

\* Nobody waits on everybody: a publish that waits on the source and kernel, a
\* walk that waits on a publish and a decision that waits on its restage's walk
\* all end.
EverythingSettles ==
  /\ \A p \in Proposals : p \in reservations ~> p \notin reservations
  /\ \A p \in Proposals : run[p].st # "idle" ~> run[p].st = "idle"
  /\ \A s \in Sources : job[s].st # "idle" ~> job[s].st = "idle"

\* The periodic sync comes back (startEntitlementMonitoring, reconnects), and
\* not every one of its list() replies is partial; a backoff is a delay.
ListsAll(s) == ReconcileLists(s) /\ job'[s].todo = PendingOf(s)
ClockFairness ==
  /\ \A s \in Sources : SF_vars(ListsAll(s))
  /\ \A p \in Proposals : WF_vars(BackoffEnds(p))

\* The kernel does not refuse, or lose, every POST for ever.
KernelFairness == \A h \in Handlers : SF_vars(KernelShows(h))

\* The kernel shows the very card the bridge tracks, so that a decision on it is
\* one the bridge can act on.
Carded(p) == Tracked(p) /\ <<p, published[p].rev>> \in shown

\* A pending item gets a card that the operator sees and the bridge answers for,
\* though its event was missed, earlier cards were retired, evicted or refused,
\* POSTs failed and the item was revised meanwhile.
PendingGetsCard ==
  \A p \in Proposals :
    item[p].st = "pending" /\ p \notin late
      ~> Carded(p) \/ item[p].st # "pending" \/ p \in late

LiveSpec == FairSpec /\ ClockFairness /\ KernelFairness

=============================================================================
