----------------------- MODULE ApprovalsBridgeProofs -----------------------
(***************************************************************************)
(* ApprovalsBridge, proved for every set of sources, items, handlers and   *)
(* faults: first its types and safety, then what it does to the items of   *)
(* its sources, of which nothing is executed twice or applied unapproved,  *)
(* and that it implements ApprovalAuthority.  Each part of the invariant   *)
(* is inductive together with TypeOK and the parts above it.               *)
(***************************************************************************)
EXTENDS ApprovalsBridge, TLAPS

-----------------------------------------------------------------------------
(* What the steps do to one record of each kind. *)

LEMMA EmptyRecords ==
  /\ NoHandler \in HandlerRecord
  /\ NoRun \in RunRecord
  /\ DriftedRun \in RunRecord /\ RestagingRun \in RunRecord
  /\ NoJob \in JobRecord
  /\ NoCard \in Card
<1>1. NoHandler \in HandlerRecord
  BY BridgeAssumption DEF NoHandler, HandlerRecord, HandlerStates
<1>2. NoRun \in RunRecord
  BY BridgeAssumption DEF NoRun, RunRecord, RunStates, Gens
<1>3. DriftedRun \in RunRecord /\ RestagingRun \in RunRecord
  BY BridgeAssumption DEF DriftedRun, RestagingRun, RunRecord, RunStates, Gens
<1>4. NoJob \in JobRecord  BY DEF NoJob, JobRecord
<1>5. NoCard \in Card  BY BridgeAssumption DEF NoCard, Card
<1> QED BY <1>1, <1>2, <1>3, <1>4, <1>5

LEMMA NewHandler ==
  ASSUME NEW p \in Proposals, NEW r \in Revs
  PROVE  [st |-> "signing", p |-> p, rev |-> r, try |-> 0] \in HandlerRecord
  BY BridgeAssumption DEF HandlerRecord, HandlerStates, Revs

LEMMA HandlerMoves ==
  ASSUME NEW x \in HandlerRecord, x.st # "idle", NEW st \in HandlerStates
  PROVE  [x EXCEPT !.st = st] \in HandlerRecord
  BY DEF HandlerRecord

LEMMA HandlerRetries ==
  ASSUME NEW x \in HandlerRecord, x.st # "idle", x.try < Retries
  PROVE  [st |-> "posting", p |-> x.p, rev |-> x.rev, try |-> x.try + 1] \in HandlerRecord
<1>1. x.try + 1 \in 0..Retries  BY BridgeAssumption DEF HandlerRecord
<1> QED BY <1>1, BridgeAssumption DEF HandlerRecord, HandlerStates

LEMMA HandlerFilled ==
  ASSUME NEW x \in HandlerRecord, x.st # "idle"
  PROVE  x.p \in Proposals /\ x.rev \in Revs /\ x.rev \in 0..MaxRev
  BY DEF HandlerRecord, Revs

LEMMA ItemSettles ==
  ASSUME NEW x \in ItemRecord, x.st # "absent", NEW st \in ItemStates
  PROVE  [x EXCEPT !.st = st] \in ItemRecord
  BY DEF ItemRecord

LEMMA JobMoves ==
  ASSUME NEW x \in JobRecord
  PROVE  /\ [x EXCEPT !.at = NoProposal] \in JobRecord
         /\ [x EXCEPT !.st = "walking"] \in JobRecord
  BY DEF JobRecord

LEMMA RunMoves ==
  ASSUME NEW x \in RunRecord, x.st \notin {"idle", "drifted", "restaging"}, NEW st \in RunStates
  PROVE  [x EXCEPT !.st = st] \in RunRecord
  BY DEF RunRecord

LEMMA RunReads ==
  ASSUME NEW x \in RunRecord, x.st \notin {"idle", "drifted", "restaging"}, NEW c \in 0..MaxRev
  PROVE  [st |-> "read", rev |-> x.rev, dec |-> x.dec, gen |-> x.gen, current |-> c,
          signature |-> x.signature] \in RunRecord
  BY DEF RunRecord, RunStates

LEMMA ItemFilled ==
  ASSUME NEW x \in ItemRecord PROVE x.rev \in 0..MaxRev /\ (x.st # "absent" => x.rev \in Revs)
  BY DEF ItemRecord

\* Of three identities one is always free.
LEMMA FreshGenType == ASSUME NEW p \in Proposals PROVE FreshGen(p) \in Gens
<1>1. \E g \in Gens : g # run[p].gen /\ g # sweep.gen
  <2>1. 1 \in Gens /\ 2 \in Gens /\ 3 \in Gens  BY DEF Gens
  <2> QED BY <2>1
<1> QED BY <1>1 DEF FreshGen

-----------------------------------------------------------------------------
(* The same for the operators that several actions share. *)

LEMMA ForgetType ==
  ASSUME TypeOK, NEW P, Forget(P)
  PROVE  published' \in [Proposals -> Card] /\ held' \subseteq Proposals
  BY EmptyRecords DEF TypeOK, Forget

LEMMA RetireType ==
  ASSUME TypeOK, NEW P \in SUBSET Proposals, Retire(P)
  PROVE  /\ published' \in [Proposals -> Card] /\ held' \subseteq Proposals
         /\ outcomes' \in [Proposals -> Outcomes] /\ warnings' \subseteq Proposals
  BY ForgetType DEF TypeOK, Retire, Outcomes

LEMMA FinishType ==
  ASSUME TypeOK, NEW h \in Handlers, Finish(h)
  PROVE  /\ handler' \in [Handlers -> HandlerRecord]
         /\ reservations' \subseteq Proposals
         /\ job' \in [Jobs -> JobRecord]
  BY EmptyRecords, JobMoves DEF TypeOK, Finish

LEMMA HandlerMovesType ==
  ASSUME TypeOK, NEW h \in Handlers, handler[h].st # "idle", NEW st \in HandlerStates,
         handler' = [handler EXCEPT ![h].st = st]
  PROVE  handler' \in [Handlers -> HandlerRecord]
<1>1. [handler[h] EXCEPT !.st = st] \in HandlerRecord  BY HandlerMoves DEF TypeOK
<1> QED BY <1>1 DEF TypeOK

LEMMA FailClosedType ==
  ASSUME TypeOK, NEW h \in Handlers, handler[h].st # "idle", FailClosedOrFinish(h)
  PROVE  /\ handler' \in [Handlers -> HandlerRecord]
         /\ reservations' \subseteq Proposals
         /\ job' \in [Jobs -> JobRecord]
         /\ claimed' \subseteq Proposals
<1>1. handler[h].p \in Proposals  BY HandlerFilled DEF TypeOK
<1>2. "denying" \in HandlerStates  BY DEF HandlerStates
<1> QED BY <1>1, <1>2, FinishType, HandlerMovesType DEF FailClosedOrFinish, TypeOK

LEMMA SourceType ==
  ASSUME TypeOK, NEW p \in Proposals, NEW dec, NEW rev, NEW result,
         SourceResolves(p, dec, rev, result)
  PROVE  item' \in [Proposals -> ItemRecord]
<1>1. CASE UNCHANGED item  BY <1>1 DEF TypeOK
<1>2. ASSUME item[p].st = "pending", NEW st \in {"applied", "rejected"},
             item' = [item EXCEPT ![p].st = st]
      PROVE  item' \in [Proposals -> ItemRecord]
  <2>1. [item[p] EXCEPT !.st = st] \in ItemRecord
    BY <1>2, ItemSettles DEF TypeOK, ItemStates
  <2> QED BY <1>2, <2>1 DEF TypeOK
<1> QED BY <1>1, <1>2 DEF SourceResolves

LEMMA RequestType ==
  ASSUME TypeOK, NEW p \in Proposals, NEW r \in Revs, HandleSourceRequested(p, r)
  PROVE  /\ published' \in [Proposals -> Card] /\ held' \subseteq Proposals
         /\ outcomes' \in [Proposals -> Outcomes] /\ warnings' \subseteq Proposals
         /\ reservations' \subseteq Proposals
         /\ handler' \in [Handlers -> HandlerRecord]
         /\ rejectedPublishes' \in [Proposals -> 0..MaxRev]
<1>1. CASE Reblock(p)  BY <1>1 DEF Reblock, publishVars, TypeOK
<1>2. CASE JoinReservation(p)  BY <1>2 DEF JoinReservation, KeepTracking, publishVars, TypeOK
<1>3. CASE RetireLate(p)  BY <1>3, RetireType DEF RetireLate, publishVars, TypeOK
<1>4. CASE Reserve(p, r)  BY <1>4, NewHandler DEF Reserve, KeepTracking, TypeOK
<1> QED BY <1>1, <1>2, <1>3, <1>4 DEF HandleSourceRequested

-----------------------------------------------------------------------------
LEMMA InitType == Init => TypeOK
<1> SUFFICES ASSUME Init PROVE TypeOK  OBVIOUS
<1>1. item \in [Proposals -> ItemRecord]
  BY BridgeAssumption DEF Init, ItemRecord, ItemStates
<1>2. disk \in DiskRecord  BY BridgeAssumption DEF Init, DiskRecord, Outcomes
<1> QED BY <1>1, <1>2, EmptyRecords, BridgeAssumption DEF Init, TypeOK, Outcomes, SweepRecord

LEMMA PublishStepType ==
  ASSUME TypeOK, NEW h \in Handlers, PublishStep(h) PROVE TypeOK'
<1> USE DEF TypeOK
<1>a. handler[h] \in HandlerRecord  OBVIOUS
<1>1. CASE HoldRejected(h)
  BY <1>1, FinishType DEF HoldRejected, KeepTracking, worldVars, decideVars
<1>2. CASE Track(h)
  <2>1. handler[h].p \in Proposals /\ handler[h].rev \in 0..MaxRev  BY <1>2, HandlerFilled DEF Track
  <2>2. [rev |-> handler[h].rev, gen |-> FreshGen(handler[h].p)] \in Card
    BY <2>1, FreshGenType DEF Card
  <2>3. published' \in [Proposals -> Card]  BY <1>2, <2>1, <2>2 DEF Track
  <2>4. rejectedPublishes' \in [Proposals -> 0..MaxRev]
    BY <1>2, <2>1, BridgeAssumption DEF Track
  <2>5. handler' \in [Handlers -> HandlerRecord]
    BY <1>2, HandlerMovesType DEF Track, HandlerStates
  <2> QED BY <1>2, <2>3, <2>4, <2>5 DEF Track, worldVars, noteVars, decideVars
<1>3. CASE SignFails(h)
  BY <1>3, FailClosedType DEF SignFails, KeepTracking, worldVars
<1>4. CASE Saved(h)
  <2>1. handler' \in [Handlers -> HandlerRecord]
    BY <1>4, HandlerMovesType DEF Saved, HandlerStates
  <2>2. Snapshot \in DiskRecord  BY DEF Snapshot, DiskRecord, Card
  <2> QED BY <1>4, <2>1, <2>2 DEF Saved, KeepTracking, worldVars, decideVars
<1>5. CASE KernelShows(h)
  <2>1. handler' \in [Handlers -> HandlerRecord]
    BY <1>5, HandlerMovesType DEF KernelShows, HandlerStates
  <2>2. shown' \subseteq Proposals \X Revs  BY <1>5, <1>a, HandlerFilled DEF KernelShows
  <2> QED BY <1>5, <2>1, <2>2 DEF KernelShows, KeepTracking, decideVars
<1>6. CASE PostConfirmed(h)
  <2>1. handler[h].p \in Proposals  BY <1>6, HandlerFilled DEF PostConfirmed
  <2>2. rejectedPublishes' \in [Proposals -> 0..MaxRev]
    BY <1>6, <2>1, BridgeAssumption DEF PostConfirmed
  <2> QED BY <1>6, <2>1, <2>2, FinishType DEF PostConfirmed, worldVars, noteVars, decideVars
<1>7. CASE PostRetries(h)
  <2>1. [st |-> "posting", p |-> handler[h].p, rev |-> handler[h].rev,
         try |-> handler[h].try + 1] \in HandlerRecord
    BY <1>7, HandlerRetries DEF PostRetries, MayRetry
  <2>2. handler' \in [Handlers -> HandlerRecord]  BY <1>7, <2>1 DEF PostRetries
  <2> QED BY <1>7, <2>2 DEF PostRetries, KeepTracking, worldVars, decideVars
<1>8. CASE PostFails(h)
  <2>1. handler[h].st # "idle"  BY <1>8 DEF PostFails
  <2>2. rejectedPublishes' \in [Proposals -> 0..MaxRev]
    BY <1>8, <1>a, <2>1, HandlerFilled DEF PostFails
  <2> QED BY <1>8, <2>1, <2>2, FailClosedType, ForgetType DEF PostFails, worldVars, noteVars
<1>9. CASE DenySettles(h)
  <2>1. handler[h].p \in Proposals  BY <1>9, HandlerFilled DEF DenySettles
  <2> QED BY <1>9, <2>1, SourceType, FinishType DEF DenySettles, KeepTracking, decideVars
<1> QED BY <1>1, <1>2, <1>3, <1>4, <1>5, <1>6, <1>7, <1>8, <1>9 DEF PublishStep

LEMMA PendingType ==
  ASSUME TypeOK, NEW s PROVE PendingOf(s) \subseteq Proposals \X Revs
  BY ItemFilled DEF TypeOK, PendingOf, Of

LEMMA ListType ==
  ASSUME TypeOK, NEW s, NEW answer \in ListAnswers(s)
  PROVE  [st |-> "listed", todo |-> answer, at |-> NoProposal] \in JobRecord
  BY PendingType DEF ListAnswers, JobRecord

LEMMA ReconcileListsType ==
  ASSUME TypeOK, NEW s \in Sources, ReconcileLists(s) PROVE TypeOK'
<1>1. job' \in [Jobs -> JobRecord]  BY ListType DEF ReconcileLists, TypeOK, Jobs
<1> QED
  BY <1>1 DEF ReconcileLists, TypeOK, KeepTracking, worldVars, publishVars, decideVars

LEMMA WalkStepType ==
  ASSUME TypeOK, NEW j \in Jobs, WalkStep(j) PROVE TypeOK'
<1> USE DEF TypeOK
<1>1. CASE RetireOrphans(j)
  <2>1. Orphans(j) \in SUBSET Proposals  BY DEF Orphans, Of
  <2>2. job' \in [Jobs -> JobRecord]
    <3>1. [job[j] EXCEPT !.st = "walking"] \in JobRecord  BY JobMoves
    <3> QED BY <1>1, <3>1 DEF RetireOrphans
  <2> QED BY <1>1, <2>1, <2>2, RetireType DEF RetireOrphans, worldVars, publishVars, decideVars
<1>2. CASE WalkEnds(j)
  <2>1. job' \in [Jobs -> JobRecord]  BY <1>2, EmptyRecords DEF WalkEnds
  <2>2. run' \in [Proposals -> RunRecord] /\ held' \subseteq Proposals
    BY <1>2, EmptyRecords DEF WalkEnds
  <2> QED BY <1>2, <2>1, <2>2 DEF WalkEnds, worldVars, noteVars, publishVars
<1>3. ASSUME NEW p \in Proposals, NEW r \in Revs, Visit(j, p, r) PROVE TypeOK'
  <2>1. [st |-> "walking", todo |-> job[j].todo \ {<<p, r>>},
         at |-> IF ~Tracked(p) /\ p \in reservations' THEN p ELSE NoProposal] \in JobRecord
    BY DEF JobRecord
  <2>2. job' \in [Jobs -> JobRecord]  BY <1>3, <2>1 DEF Visit
  <2> QED BY <1>3, <2>2, RequestType DEF Visit, worldVars, decideVars
<1> QED BY <1>1, <1>2, <1>3 DEF WalkStep

\* A step of a run that only moves it on, or ends it.
LEMMA RunMovesType ==
  ASSUME TypeOK, NEW p \in Proposals,
         run[p].st \notin {"idle", "drifted", "restaging"}, NEW st \in RunStates
  PROVE  [run EXCEPT ![p].st = st] \in [Proposals -> RunRecord]
<1>1. [run[p] EXCEPT !.st = st] \in RunRecord  BY RunMoves DEF TypeOK
<1> QED BY <1>1 DEF TypeOK

LEMMA DecisionStepType ==
  ASSUME TypeOK, NEW p \in Proposals, DecisionStep(p) PROVE TypeOK'
<1> USE EmptyRecords DEF TypeOK
<1>a. {p} \in SUBSET Proposals  OBVIOUS
<1>b. [run EXCEPT ![p] = NoRun] \in [Proposals -> RunRecord]
      /\ [run EXCEPT ![p] = DriftedRun] \in [Proposals -> RunRecord]
      /\ [run EXCEPT ![p] = RestagingRun] \in [Proposals -> RunRecord]
  OBVIOUS
<1>1. CASE Dismiss(p)
  BY <1>1, <1>a, <1>b, RetireType DEF Dismiss, KeepTracking, worldVars, publishVars
<1>2. CASE ReadCurrent(p)
  <2>1. (IF item[p].st = "pending" THEN item[p].rev ELSE 0) \in 0..MaxRev
    BY ItemFilled, BridgeAssumption
  <2>2. run' \in [Proposals -> RunRecord]  BY <1>2, <2>1, RunReads DEF ReadCurrent
  <2> QED BY <1>2, <2>2 DEF ReadCurrent, KeepTracking, worldVars, publishVars
<1>3. CASE Commit(p)
  <2> USE <1>3 DEF Commit, KeepTracking, worldVars, publishVars, noteVars
  <2>1. CASE NotPending(p)  BY <2>1, <1>a, <1>b, RetireType DEF NotPending
  <2>2. CASE Drifted(p)  BY <2>2, <1>b DEF Drifted
  <2>3. CASE Abandon(p)  BY <2>3, <1>a, <1>b, RetireType, ForgetType DEF Abandon
  <2>4. CASE CallResolve(p)
    BY <2>4, RunMovesType DEF CallResolve, RunStates
  <2> QED BY <2>1, <2>2, <2>3, <2>4
<1>4. CASE ResolveReaches(p)
  <2>1. PICK result \in {"resolved", "failed", "drifted"} :
          /\ SourceResolves(p, IF run[p].dec = "approve" THEN "approve" ELSE "reject",
                            run[p].rev, result)
          /\ run' = [run EXCEPT ![p] = IF result = "drifted" THEN DriftedRun
                                       ELSE [run[p] EXCEPT !.st = result]]
    BY <1>4 DEF ResolveReaches
  <2>2. result # "drifted" => [run[p] EXCEPT !.st = result] \in RunRecord
    BY <1>4, RunMoves DEF ResolveReaches, RunStates
  <2>3. run' \in [Proposals -> RunRecord]  BY <2>1, <2>2
  <2>4. item' \in [Proposals -> ItemRecord]  BY <2>1, SourceType
  <2> QED BY <1>4, <2>3, <2>4 DEF ResolveReaches, KeepTracking, publishVars
<1>5. CASE ResolveReturns(p)
  BY <1>5, <1>b, ForgetType DEF ResolveReturns, Outcomes, worldVars, publishVars
<1>6. CASE HandleDrift(p)
  BY <1>6, <1>b DEF HandleDrift, worldVars, noteVars, publishVars
<1>7. CASE RestageLists(p)
  <2>1. job' \in [Jobs -> JobRecord]  BY <1>7, ListType DEF RestageLists, Jobs
  <2> QED BY <1>7, <2>1 DEF RestageLists, KeepTracking, worldVars, publishVars, decideVars
<1>8. CASE RestageListFails(p)
  BY <1>8, <1>b DEF RestageListFails, worldVars, noteVars, publishVars
<1> QED BY <1>1, <1>2, <1>3, <1>4, <1>5, <1>6, <1>7, <1>8 DEF DecisionStep

LEMMA SweepLoopType ==
  ASSUME TypeOK, SweepActs \/ \E p \in Proposals : LoopStep(p) PROVE TypeOK'
<1> USE DEF TypeOK
<1>1. CASE SweepActs
  BY <1>1 DEF SweepActs, SweepRecord, worldVars, noteVars, publishVars, decideVars
<1>2. ASSUME NEW p \in Proposals, SweepReads(p) PROVE TypeOK'
  BY <1>2 DEF SweepReads, SweepRecord, Card, KeepTracking, worldVars, publishVars, decideVars
<1>3. ASSUME NEW p \in Proposals, HoldExpires(p) PROVE TypeOK'
  BY <1>3 DEF HoldExpires, worldVars, noteVars, publishVars, decideVars
<1>4. ASSUME NEW p \in Proposals, BackoffEnds(p) PROVE TypeOK'
  BY <1>4, BridgeAssumption DEF BackoffEnds, KeepTracking, worldVars, decideVars
<1> QED BY <1>1, <1>2, <1>3, <1>4 DEF LoopStep

LEMMA SessionStepType ==
  ASSUME TypeOK, NEW p \in Proposals, SessionStep(p) PROVE TypeOK'
<1> USE DEF TypeOK
<1>1. CASE SessionResolves(p)
  BY <1>1, SourceType DEF SessionResolves, KeepTracking, publishVars
<1>2. ASSUME NEW d \in Verdicts \cup {"convert"}, SessionCommand(p, d) PROVE TypeOK'
  BY <1>2 DEF SessionCommand, KeepTracking, Verdicts, worldVars, publishVars
<1> QED BY <1>1, <1>2 DEF SessionStep

LEMMA ItemStepType ==
  ASSUME TypeOK, NEW p \in Proposals, ItemStep(p) PROVE TypeOK'
<1> USE DEF TypeOK, bridgeVars, noteVars, publishVars, decideVars
<1>1. CASE Stage(p)
  <2>1. [st |-> "pending", rev |-> 1] \in ItemRecord
    BY BridgeAssumption DEF ItemRecord, ItemStates, Revs
  <2> QED BY <1>1, <2>1 DEF Stage
<1>2. CASE Revise(p)
  <2>1. [item[p] EXCEPT !.rev = @ + 1] \in ItemRecord
    BY <1>2, BridgeAssumption DEF Revise, ItemRecord, Revs
  <2>2. item' \in [Proposals -> ItemRecord]  BY <1>2, <2>1 DEF Revise
  <2> QED BY <1>2, <2>2 DEF Revise
<1>3. CASE SettleElsewhere(p)
  <2>1. [item[p] EXCEPT !.st = "gone"] \in ItemRecord
    BY <1>3, ItemSettles DEF SettleElsewhere, ItemStates
  <2>2. item' \in [Proposals -> ItemRecord]  BY <1>3, <2>1 DEF SettleElsewhere
  <2> QED BY <1>3, <2>2 DEF SettleElsewhere
<1>4. CASE DeadlinePasses(p)  BY <1>4 DEF DeadlinePasses
<1>5. CASE LiveEvent(p)
  <2>1. item[p].rev \in Revs  BY <1>5, ItemFilled DEF LiveEvent
  <2> QED BY <1>5, <2>1, RequestType DEF LiveEvent, worldVars
<1> QED BY <1>1, <1>2, <1>3, <1>4, <1>5 DEF ItemStep

LEMMA DeliverType ==
  ASSUME TypeOK, NEW p \in Proposals, NEW r \in Revs, NEW d \in Decisions,
         NEW sig \in BOOLEAN, Deliver(p, r, d, sig)
  PROVE  TypeOK'
<1> USE DEF TypeOK
<1>1. [st |-> "checking", rev |-> r, dec |-> d, gen |-> published[p].gen,
       current |-> 0, signature |-> sig] \in RunRecord
  BY BridgeAssumption DEF RunRecord, RunStates, Card, Revs
<1>2. CASE ~Tracked(p)
  BY <1>2, RetireType DEF Deliver, KeepTracking, worldVars, publishVars
<1>3. CASE Tracked(p)
  BY <1>1, <1>3, EmptyRecords DEF Deliver, KeepTracking, worldVars, publishVars
<1> QED BY <1>2, <1>3

LEMMA KernelStepType ==
  ASSUME TypeOK, NEW p \in Proposals, KernelStep(p) PROVE TypeOK'
<1>1. PICK r \in Revs, d \in Decisions :
        OperatorDecides(p, r, d) \/ DeliverSigned(p, r, d) \/ DeliverUnsigned(p, r, d)
  BY BridgeAssumption DEF KernelStep
<1>2. CASE OperatorDecides(p, r, d)
  BY <1>2 DEF OperatorDecides, TypeOK, bridgeVars, noteVars, publishVars, decideVars
<1>3. CASE DeliverSigned(p, r, d)  BY <1>3, DeliverType DEF DeliverSigned
<1>4. CASE DeliverUnsigned(p, r, d)  BY <1>4, DeliverType DEF DeliverUnsigned
<1> QED BY <1>1, <1>2, <1>3, <1>4

LEMMA FlushCrashType == ASSUME TypeOK, Flush \/ Crash PROVE TypeOK'
<1> USE DEF TypeOK
<1>1. CASE Flush
  <2>1. Snapshot \in DiskRecord  BY DEF Snapshot, DiskRecord, Card
  <2> QED BY <1>1, <2>1 DEF Flush, KeepTracking, worldVars, publishVars, decideVars
<1>2. CASE Crash
  <2>1. published' \in [Proposals -> Card]
    BY <1>2, EmptyRecords DEF Crash, DiskRecord, Card, Gens
  <2>2. outcomes' \in [Proposals -> Outcomes] /\ warnings' \subseteq Proposals
    BY <1>2 DEF Crash, DiskRecord
  <2>3. rejectedPublishes' \in [Proposals -> 0..MaxRev]
    BY <1>2, BridgeAssumption DEF Crash
  <2> QED BY <1>2, <2>1, <2>2, <2>3, EmptyRecords DEF Crash, SweepRecord, worldVars
<1> QED BY <1>1, <1>2

\* The type invariant: every record a step uses is filled in, for every
\* choice of sources, items and faults.
THEOREM TypeCorrect == Spec => []TypeOK
<1>1. TypeOK /\ [Next]_vars => TypeOK'
  <2> SUFFICES ASSUME TypeOK, [Next]_vars PROVE TypeOK'  OBVIOUS
  <2>1. CASE UNCHANGED vars  BY <2>1 DEF TypeOK, vars
  <2>2. CASE Next
    BY <2>2, PublishStepType, ReconcileListsType, WalkStepType, DecisionStepType,
       SweepLoopType, SessionStepType, ItemStepType, KernelStepType, FlushCrashType DEF Next
  <2> QED BY <2>1, <2>2
<1> QED BY InitType, <1>1, PTL DEF Spec

-------------------------------------------------------------------------------

\* A handler that is at work holds the reservation of its item.
Reserved == \A h \in Handlers : handler[h].st # "idle" => handler[h].p \in reservations

\* Every call in flight at a source was claimed first.
CallsClaimed ==
  \A p \in Proposals : Resolving(p) \/ Denying(p) \/ rail[p] # "none" => p \in claimed

\* A tracked card has an identity, and a run that still has the tracked card's
\* identity has its revision.
RunsKnowCard ==
  \A p \in Proposals :
    /\ Tracked(p) => published[p].gen # 0
    /\ run[p].st \in {"checking", "read"} =>
         /\ run[p].gen # 0
         /\ published[p].gen = run[p].gen => published[p].rev = run[p].rev

\* Who acts for a source the operator must sign for.
SignedRun(p) ==
  /\ run[p].signature => <<p, run[p].rev, run[p].dec>> \in signed
  /\ run[p].st \in {"read", "resolving"} => run[p].signature
  /\ ~Denying(p) /\ rail[p] = "none"

OnlySignedRuns == \A p \in Proposals : Reviewed(SourceOf[p]) => SignedRun(p)

\* Nothing in flight could still start a call on p.
Quiet(p) ==
  /\ run[p].st = "read" => run[p].current = 0
  /\ \A h \in Handlers : ~Working(h, p)
  /\ \A j \in Jobs : \A r \in Revs : <<p, r>> \notin job[j].todo

ExecutedIsClaimed ==
  \A p \in Proposals : item[p].st \in {"applied", "rejected"} => p \in claimed \/ Quiet(p)

-----------------------------------------------------------------------------
(* One publisher per item.                                                 *)

PublisherInv == Reserved /\ SinglePublisher

LEMMA FinishPublisher ==
  ASSUME TypeOK, PublisherInv, NEW h \in Handlers, handler[h].st # "idle", Finish(h)
  PROVE  PublisherInv'
  BY DEF TypeOK, PublisherInv, Reserved, SinglePublisher, Working, Finish, NoHandler

\* A handler that goes on with the item it has keeps the invariant.
LEMMA MovePublisher ==
  ASSUME TypeOK, PublisherInv, NEW h \in Handlers, handler[h].st # "idle",
         UNCHANGED reservations,
         \A g \in Handlers : g # h => handler'[g] = handler[g],
         handler'[h].p = handler[h].p
  PROVE  PublisherInv'
  BY DEF TypeOK, PublisherInv, Reserved, SinglePublisher, Working

LEMMA SamePublisher ==
  ASSUME PublisherInv, UNCHANGED <<handler, reservations>> PROVE PublisherInv'
  BY DEF PublisherInv, Reserved, SinglePublisher, Working

LEMMA FailClosedPublisher ==
  ASSUME TypeOK, PublisherInv, NEW h \in Handlers, handler[h].st # "idle",
         FailClosedOrFinish(h)
  PROVE  PublisherInv'
<1>1. CASE Finish(h)  BY <1>1, FinishPublisher
<1>2. CASE ~Finish(h)
  <2>1. handler' = [handler EXCEPT ![h].st = "denying"] /\ UNCHANGED reservations
    BY <1>2 DEF FailClosedOrFinish
  <2> QED BY <2>1, MovePublisher DEF TypeOK, HandlerRecord
<1> QED BY <1>1, <1>2

LEMMA RequestPublisher ==
  ASSUME TypeOK, PublisherInv, NEW p \in Proposals, NEW r \in Revs, HandleSourceRequested(p, r)
  PROVE  PublisherInv'
<1>1. CASE Reserve(p, r)
  <2>1. PICK h \in Handlers :
          /\ handler[h].st = "idle"
          /\ handler' = [handler EXCEPT ![h] =
                           [st |-> "signing", p |-> p, rev |-> r, try |-> 0]]
    BY <1>1 DEF Reserve
  <2> QED BY <1>1, <2>1 DEF Reserve, TypeOK, PublisherInv, Reserved, SinglePublisher, Working
<1>2. CASE ~Reserve(p, r)
  BY <1>2, SamePublisher DEF HandleSourceRequested, Reblock, JoinReservation, RetireLate, publishVars
<1> QED BY <1>1, <1>2

LEMMA PublishStepPublisher ==
  ASSUME TypeOK, PublisherInv, NEW h \in Handlers, PublishStep(h) PROVE PublisherInv'
<1>1. handler[h].st # "idle"
  BY DEF PublishStep, HoldRejected, Track, SignFails, Saved, KernelShows, PostConfirmed,
         PostRetries, PostFails, DenySettles
<1>2. CASE HoldRejected(h) \/ PostConfirmed(h) \/ DenySettles(h)
  BY <1>1, <1>2, FinishPublisher DEF HoldRejected, PostConfirmed, DenySettles
<1>3. CASE SignFails(h) \/ PostFails(h)
  BY <1>1, <1>3, FailClosedPublisher DEF SignFails, PostFails
<1>4. CASE Track(h) \/ Saved(h) \/ KernelShows(h) \/ PostRetries(h)
  BY <1>1, <1>4, MovePublisher DEF Track, Saved, KernelShows, PostRetries, TypeOK, HandlerRecord
<1> QED BY <1>2, <1>3, <1>4 DEF PublishStep

LEMMA WalkStepPublisher ==
  ASSUME TypeOK, PublisherInv, NEW j \in Jobs, WalkStep(j) PROVE PublisherInv'
<1>1. CASE RetireOrphans(j) \/ WalkEnds(j)
  BY <1>1, SamePublisher DEF RetireOrphans, WalkEnds, publishVars
<1>2. ASSUME NEW p \in Proposals, NEW r \in Revs, Visit(j, p, r) PROVE PublisherInv'
  BY <1>2, RequestPublisher DEF Visit
<1> QED BY <1>1, <1>2 DEF WalkStep

LEMMA StepPublisher == TypeOK /\ PublisherInv /\ [Next]_vars => PublisherInv'
<1> SUFFICES ASSUME TypeOK, PublisherInv, [Next]_vars PROVE PublisherInv'  OBVIOUS
<1> USE SamePublisher
<1>1. ASSUME NEW s \in Sources, ReconcileLists(s) PROVE PublisherInv'
  BY <1>1 DEF ReconcileLists, publishVars
<1>2. ASSUME NEW p \in Proposals, DecisionStep(p) \/ LoopStep(p) \/ SessionStep(p)
      PROVE  PublisherInv'
  BY <1>2 DEF DecisionStep, Dismiss, ReadCurrent, Commit, ResolveReaches, ResolveReturns,
       HandleDrift, RestageLists, RestageListFails, LoopStep, SweepReads, HoldExpires,
         BackoffEnds,
       SessionStep, SessionResolves, SessionCommand, publishVars
<1>3. ASSUME NEW p \in Proposals, ItemStep(p) PROVE PublisherInv'
  <2>1. CASE LiveEvent(p)
    <3>1. item[p].rev \in Revs  BY <2>1, ItemFilled DEF LiveEvent, TypeOK
    <3> QED BY <2>1, <3>1, RequestPublisher DEF LiveEvent
  <2>2. CASE ~LiveEvent(p)
    BY <1>3, <2>2 DEF ItemStep, Stage, Revise, SettleElsewhere, DeadlinePasses, bridgeVars,
                      publishVars
  <2> QED BY <2>1, <2>2
<1>4. ASSUME NEW p \in Proposals, KernelStep(p) PROVE PublisherInv'
  BY <1>4 DEF KernelStep, OperatorDecides, DeliverSigned, DeliverUnsigned, Deliver, bridgeVars,
              publishVars
<1>5. CASE SweepActs \/ Flush  BY <1>5 DEF SweepActs, Flush, publishVars
<1>6. CASE Crash
  BY <1>6 DEF Crash, PublisherInv, Reserved, SinglePublisher, Working, NoHandler
<1>7. CASE UNCHANGED vars  BY <1>7 DEF vars
<1> QED BY <1>1, <1>2, <1>3, <1>4, <1>5, <1>6, <1>7, PublishStepPublisher, WalkStepPublisher DEF Next

\* #48: whatever events, reconciles, restages, failures and restarts meet, one
\* item is never published by two runs of handleSourceRequested at once.
THEOREM OnePublisher == Spec => []SinglePublisher
<1>1. Init => PublisherInv
  BY DEF Init, PublisherInv, Reserved, SinglePublisher, Working, NoHandler
<1>2. Spec => []PublisherInv  BY <1>1, TypeCorrect, StepPublisher, PTL DEF Spec
<1>3. PublisherInv => SinglePublisher  BY DEF PublisherInv
<1> QED BY <1>2, <1>3, PTL

-----------------------------------------------------------------------------
(* One call per item: the rails share the claims.                          *)

ClaimInv == CallsClaimed /\ ExclusiveCall

LEMMA SameClaims ==
  ASSUME ClaimInv, UNCHANGED <<handler, run, rail>>, claimed \subseteq claimed'
  PROVE  ClaimInv'
  BY DEF ClaimInv, CallsClaimed, ExclusiveCall, Resolving, Denying

\* A handler or run that starts no call, and the end of a call.
LEMMA FewerCalls ==
  ASSUME ClaimInv, claimed' = claimed,
         \A p \in Proposals : /\ Resolving(p)' => Resolving(p)
                              /\ Denying(p)' => Denying(p)
                              /\ rail'[p] # "none" => rail[p] # "none"
  PROVE  ClaimInv'
  BY DEF ClaimInv, CallsClaimed, ExclusiveCall

LEMMA HandlerStepClaims ==
  ASSUME TypeOK, ClaimInv, NEW h \in Handlers, UNCHANGED <<run, rail, claimed>>,
         \A g \in Handlers : g # h => handler'[g] = handler[g],
         handler'[h].st # "denying"
  PROVE  ClaimInv'
<1>1. \A p \in Proposals : Denying(p)' => Denying(p)  BY DEF Denying
<1> QED BY <1>1, FewerCalls DEF Resolving

LEMMA FailClosedClaims ==
  ASSUME TypeOK, ClaimInv, NEW h \in Handlers, handler[h].st # "idle", FailClosedOrFinish(h),
         UNCHANGED <<run, rail>>
  PROVE  ClaimInv'
<1>1. CASE Finish(h) /\ UNCHANGED claimed
  BY <1>1, HandlerStepClaims DEF Finish, NoHandler, TypeOK
<1>2. CASE ~(Finish(h) /\ UNCHANGED claimed)
  <2> DEFINE q == handler[h].p
  <2>1. /\ q \notin claimed /\ claimed' = claimed \cup {q}
        /\ handler' = [handler EXCEPT ![h].st = "denying"]
    BY <1>2 DEF FailClosedOrFinish
  <2>2. \A p \in Proposals : Denying(p)' <=> Denying(p) \/ p = q
    BY <2>1 DEF Denying, TypeOK, HandlerRecord
  <2> QED BY <2>1, <2>2 DEF ClaimInv, CallsClaimed, ExclusiveCall, Resolving
<1> QED BY <1>1, <1>2

LEMMA PublishStepClaims ==
  ASSUME TypeOK, ClaimInv, NEW h \in Handlers, PublishStep(h) PROVE ClaimInv'
<1>1. CASE HoldRejected(h) \/ PostConfirmed(h) \/ DenySettles(h)
  BY <1>1, HandlerStepClaims
  DEF HoldRejected, PostConfirmed, DenySettles, Finish, NoHandler, TypeOK, decideVars
<1>2. CASE SignFails(h) \/ PostFails(h)
  BY <1>2, FailClosedClaims DEF SignFails, PostFails
<1>3. CASE Track(h) \/ Saved(h) \/ KernelShows(h) \/ PostRetries(h)
  BY <1>3, HandlerStepClaims
  DEF Track, Saved, KernelShows, PostRetries, TypeOK, HandlerRecord, decideVars
<1> QED BY <1>1, <1>2, <1>3 DEF PublishStep

LEMMA RequestClaims ==
  ASSUME TypeOK, ClaimInv, NEW p \in Proposals, NEW r \in Revs, HandleSourceRequested(p, r),
         UNCHANGED decideVars
  PROVE  ClaimInv'
<1>1. CASE Reserve(p, r)
  BY <1>1, HandlerStepClaims DEF Reserve, TypeOK, decideVars
<1>2. CASE ~Reserve(p, r)
  BY <1>2, SameClaims
  DEF HandleSourceRequested, Reblock, JoinReservation, RetireLate, publishVars, decideVars
<1> QED BY <1>1, <1>2

LEMMA DecisionStepClaims ==
  ASSUME TypeOK, ClaimInv, NEW p \in Proposals, DecisionStep(p) PROVE ClaimInv'
<1>1. CASE Commit(p) /\ CallResolve(p)
  BY <1>1 DEF Commit, CallResolve, Claimable, ClaimInv, CallsClaimed, ExclusiveCall, Resolving,
              Denying, TypeOK, publishVars
<1>2. CASE ~(Commit(p) /\ CallResolve(p))
  <2>1. \A q \in Proposals : Resolving(q)' => Resolving(q)
    BY <1>2 DEF DecisionStep, Dismiss, ReadCurrent, Commit, NotPending, Drifted, Abandon,
         ResolveReaches, ResolveReturns, HandleDrift, RestageLists, RestageListFails,
         NoRun, DriftedRun, RestagingRun, Resolving, TypeOK, decideVars
  <2>2. UNCHANGED <<claimed, handler, rail>>
    BY <1>2 DEF DecisionStep, Dismiss, ReadCurrent, Commit, NotPending, Drifted, Abandon,
         ResolveReaches, ResolveReturns, HandleDrift, RestageLists, RestageListFails,
         publishVars, decideVars
  <2> QED BY <2>1, <2>2, FewerCalls DEF Denying
<1> QED BY <1>1, <1>2

LEMMA SessionStepClaims ==
  ASSUME TypeOK, ClaimInv, NEW p \in Proposals, SessionStep(p) PROVE ClaimInv'
<1>1. CASE SessionResolves(p)
  <2>1. \A q \in Proposals : rail'[q] # "none" => rail[q] # "none"
    BY <1>1 DEF SessionResolves, TypeOK
  <2> QED BY <1>1, <2>1, FewerCalls DEF SessionResolves, Resolving, Denying, publishVars
<1>2. ASSUME NEW d \in Verdicts \cup {"convert"}, SessionCommand(p, d) PROVE ClaimInv'
  BY <1>2 DEF SessionCommand, ClaimInv, CallsClaimed, ExclusiveCall, Resolving, Denying,
              TypeOK, publishVars
<1> QED BY <1>1, <1>2 DEF SessionStep

LEMMA StepClaims == TypeOK /\ ClaimInv /\ [Next]_vars => ClaimInv'
<1> SUFFICES ASSUME TypeOK, ClaimInv, [Next]_vars PROVE ClaimInv'  OBVIOUS
<1> USE SameClaims
<1>1. ASSUME NEW s \in Sources, ReconcileLists(s) PROVE ClaimInv'
  BY <1>1 DEF ReconcileLists, publishVars, decideVars
<1>2. ASSUME NEW j \in Jobs, WalkStep(j) PROVE ClaimInv'
  <2>1. CASE RetireOrphans(j)  BY <2>1 DEF RetireOrphans, publishVars, decideVars
  <2>2. CASE WalkEnds(j)
    <3>1. \A p \in Proposals : Resolving(p)' => Resolving(p)
      BY <2>2 DEF WalkEnds, Resolving, NoRun, TypeOK
    <3> QED BY <2>2, <3>1, FewerCalls DEF WalkEnds, Denying, publishVars
  <2>3. ASSUME NEW p \in Proposals, NEW r \in Revs, Visit(j, p, r) PROVE ClaimInv'
    BY <2>3, RequestClaims DEF Visit
  <2> QED BY <1>2, <2>1, <2>2, <2>3 DEF WalkStep
<1>3. ASSUME NEW p \in Proposals, LoopStep(p) PROVE ClaimInv'
  BY <1>3 DEF LoopStep, SweepReads, HoldExpires, BackoffEnds, publishVars, decideVars
<1>4. ASSUME NEW p \in Proposals, ItemStep(p) PROVE ClaimInv'
  <2>1. CASE LiveEvent(p)
    <3>1. item[p].rev \in Revs  BY <2>1, ItemFilled DEF LiveEvent, TypeOK
    <3> QED BY <2>1, <3>1, RequestClaims DEF LiveEvent
  <2>2. CASE ~LiveEvent(p)
    BY <1>4, <2>2 DEF ItemStep, Stage, Revise, SettleElsewhere, DeadlinePasses, bridgeVars,
                      publishVars, decideVars
  <2> QED BY <2>1, <2>2
<1>5. ASSUME NEW p \in Proposals, KernelStep(p) PROVE ClaimInv'
  <2>1. PICK r \in Revs, d \in Decisions :
          OperatorDecides(p, r, d) \/ DeliverSigned(p, r, d) \/ DeliverUnsigned(p, r, d)
    BY <1>5, BridgeAssumption DEF KernelStep
  <2>2. CASE OperatorDecides(p, r, d)
    BY <2>2 DEF OperatorDecides, bridgeVars, publishVars, decideVars
  <2>3. ASSUME NEW sig \in BOOLEAN, Deliver(p, r, d, sig) PROVE ClaimInv'
    <3>1. \A q \in Proposals : Resolving(q)' => Resolving(q)
      BY <2>3 DEF Deliver, Resolving, DriftedRun, TypeOK
    <3> QED BY <2>3, <3>1, FewerCalls DEF Deliver, Denying, publishVars
  <2> QED BY <2>1, <2>2, <2>3 DEF DeliverSigned, DeliverUnsigned
<1>6. CASE SweepActs \/ Flush  BY <1>6 DEF SweepActs, Flush, publishVars, decideVars
<1>7. CASE Crash
  BY <1>7 DEF Crash, ClaimInv, CallsClaimed, ExclusiveCall, Resolving, Denying, NoHandler, NoRun
<1>8. CASE UNCHANGED vars  BY <1>8 DEF vars
<1> QED BY <1>1, <1>2, <1>3, <1>4, <1>5, <1>6, <1>7, <1>8, PublishStepClaims,
           DecisionStepClaims, SessionStepClaims DEF Next

\* The decision run, the fail-closed deny and the session command share one
\* registry of claims: no two of them ever have a call on one item in flight.
THEOREM OneCall == Spec => []ExclusiveCall
<1>1. Init => ClaimInv
  BY DEF Init, ClaimInv, CallsClaimed, ExclusiveCall, Resolving, Denying, NoHandler, NoRun
<1>2. Spec => []ClaimInv  BY <1>1, TypeCorrect, StepClaims, PTL DEF Spec
<1>3. ClaimInv => ExclusiveCall  BY DEF ClaimInv
<1> QED BY <1>2, <1>3, PTL

-----------------------------------------------------------------------------
(* A call is made for the card its decision arrived for.                   *)

\* Steps that track no new card and start no run.
LEMMA SameCards ==
  ASSUME RunsKnowCard,
         \A p \in Proposals : published'[p] \in {published[p], NoCard},
         \A p \in Proposals : run'[p].st \in {"checking", "read"} =>
           /\ run[p].st \in {"checking", "read"}
           /\ run'[p].gen = run[p].gen /\ run'[p].rev = run[p].rev
  PROVE  RunsKnowCard'
  BY DEF RunsKnowCard, Tracked, NoCard

LEMMA ForgottenCards ==
  ASSUME TypeOK, Forget({}) \/ \E P \in SUBSET Proposals : Forget(P)
  PROVE  \A p \in Proposals : published'[p] \in {published[p], NoCard}
  BY DEF Forget, TypeOK

LEMMA RequestCards ==
  ASSUME TypeOK, NEW p \in Proposals, NEW r \in Revs, HandleSourceRequested(p, r)
  PROVE  \A q \in Proposals : published'[q] \in {published[q], NoCard}
<1>1. CASE RetireLate(p)  BY <1>1, ForgottenCards DEF RetireLate, Retire
<1>2. CASE ~RetireLate(p)
  BY <1>2 DEF HandleSourceRequested, Reblock, JoinReservation, Reserve, KeepTracking
<1> QED BY <1>1, <1>2

LEMMA PublishStepCards ==
  ASSUME TypeOK, RunsKnowCard, NEW h \in Handlers, PublishStep(h) PROVE RunsKnowCard'
<1>1. CASE Track(h)
  <2> DEFINE q == handler[h].p
  <2>1. q \in Proposals /\ handler[h].rev \in Revs  BY <1>1, HandlerFilled DEF Track, TypeOK
  <2>2. FreshGen(q) \in Gens /\ FreshGen(q) # run[q].gen
    <3>1. \E g \in Gens : g # run[q].gen /\ g # sweep.gen
      <4>1. 1 \in Gens /\ 2 \in Gens /\ 3 \in Gens  BY DEF Gens
      <4> QED BY <4>1
    <3> QED BY <3>1 DEF FreshGen
  <2>3. published' = [published EXCEPT ![q] = [rev |-> handler[h].rev, gen |-> FreshGen(q)]]
        /\ UNCHANGED run
    BY <1>1 DEF Track, decideVars
  <2> HIDE DEF q
  <2> QED BY <2>1, <2>2, <2>3 DEF RunsKnowCard, Tracked, TypeOK, Gens
<1>2. CASE PostFails(h)
  <2>1. handler[h].p \in Proposals  BY <1>2, HandlerFilled DEF PostFails, TypeOK
  <2> QED BY <1>2, <2>1, ForgottenCards, SameCards DEF PostFails
<1>3. CASE ~(Track(h) \/ PostFails(h))
  BY <1>3, SameCards
  DEF PublishStep, HoldRejected, SignFails, Saved, KernelShows, PostConfirmed, PostRetries,
      DenySettles, KeepTracking, decideVars
<1> QED BY <1>1, <1>2, <1>3

LEMMA WalkStepCards ==
  ASSUME TypeOK, RunsKnowCard, NEW j \in Jobs, WalkStep(j) PROVE RunsKnowCard'
<1>1. CASE RetireOrphans(j)
  <2>1. Orphans(j) \in SUBSET Proposals  BY DEF Orphans, Of
  <2> QED BY <1>1, <2>1, ForgottenCards, SameCards DEF RetireOrphans, Retire, decideVars
<1>2. CASE WalkEnds(j)
  BY <1>2, SameCards DEF WalkEnds, NoRun, TypeOK
<1>3. ASSUME NEW p \in Proposals, NEW r \in Revs, Visit(j, p, r) PROVE RunsKnowCard'
  BY <1>3, RequestCards, SameCards DEF Visit, decideVars
<1> QED BY <1>1, <1>2, <1>3 DEF WalkStep

LEMMA DecisionStepCards ==
  ASSUME TypeOK, RunsKnowCard, NEW p \in Proposals, DecisionStep(p) PROVE RunsKnowCard'
<1>1. \A q \in Proposals : published'[q] \in {published[q], NoCard}
  BY ForgottenCards
  DEF DecisionStep, Dismiss, ReadCurrent, Commit, NotPending, Drifted, Abandon, CallResolve,
      ResolveReaches, ResolveReturns, HandleDrift, RestageLists, RestageListFails,
      KeepTracking, Retire, TypeOK
<1>2. \A q \in Proposals : run'[q].st \in {"checking", "read"} =>
        /\ run[q].st \in {"checking", "read"}
        /\ run'[q].gen = run[q].gen /\ run'[q].rev = run[q].rev
  BY DEF DecisionStep, Dismiss, ReadCurrent, Commit, NotPending, Drifted, Abandon, CallResolve,
         ResolveReaches, ResolveReturns, HandleDrift, RestageLists, RestageListFails,
         NoRun, DriftedRun, RestagingRun, TypeOK, RunRecord, decideVars
<1> QED BY <1>1, <1>2, SameCards

LEMMA KernelStepCards ==
  ASSUME TypeOK, RunsKnowCard, NEW p \in Proposals, KernelStep(p) PROVE RunsKnowCard'
<1>1. PICK r \in Revs, d \in Decisions :
        OperatorDecides(p, r, d) \/ DeliverSigned(p, r, d) \/ DeliverUnsigned(p, r, d)
  BY BridgeAssumption DEF KernelStep
<1>2. CASE OperatorDecides(p, r, d)
  BY <1>2, SameCards DEF OperatorDecides, bridgeVars, decideVars
<1>3. ASSUME NEW sig \in BOOLEAN, Deliver(p, r, d, sig) PROVE RunsKnowCard'
  <2>1. CASE ~Tracked(p)
    BY <1>3, <2>1, ForgottenCards, SameCards DEF Deliver, Retire, KeepTracking
  <2>2. CASE Tracked(p)
    BY <1>3, <2>2 DEF Deliver, KeepTracking, RunsKnowCard, Tracked, DriftedRun, TypeOK
  <2> QED BY <2>1, <2>2
<1> QED BY <1>1, <1>2, <1>3 DEF DeliverSigned, DeliverUnsigned

LEMMA StepCards == TypeOK /\ RunsKnowCard /\ [Next]_vars => RunsKnowCard'
<1> SUFFICES ASSUME TypeOK, RunsKnowCard, [Next]_vars PROVE RunsKnowCard'  OBVIOUS
<1> USE SameCards
<1>1. ASSUME NEW s \in Sources, ReconcileLists(s) PROVE RunsKnowCard'
  BY <1>1 DEF ReconcileLists, KeepTracking, decideVars
<1>2. ASSUME NEW p \in Proposals, LoopStep(p) \/ SessionStep(p) PROVE RunsKnowCard'
  BY <1>2 DEF LoopStep, SweepReads, HoldExpires, BackoffEnds, SessionStep,
         SessionResolves, SessionCommand,
              KeepTracking, decideVars
<1>3. ASSUME NEW p \in Proposals, ItemStep(p) PROVE RunsKnowCard'
  <2>1. CASE LiveEvent(p)
    <3>1. item[p].rev \in Revs  BY <2>1, ItemFilled DEF LiveEvent, TypeOK
    <3> QED BY <2>1, <3>1, RequestCards DEF LiveEvent, decideVars
  <2>2. CASE ~LiveEvent(p)
    BY <1>3, <2>2 DEF ItemStep, Stage, Revise, SettleElsewhere, DeadlinePasses, bridgeVars,
                      decideVars
  <2> QED BY <2>1, <2>2
<1>4. CASE SweepActs \/ Flush  BY <1>4 DEF SweepActs, Flush, KeepTracking, decideVars
<1>5. CASE Crash
  BY <1>5 DEF Crash, RunsKnowCard, Tracked, NoCard, NoRun
<1>6. CASE UNCHANGED vars  BY <1>6 DEF vars
<1> QED BY <1>1, <1>2, <1>3, <1>4, <1>5, <1>6, PublishStepCards, WalkStepCards,
           DecisionStepCards, KernelStepCards DEF Next

\* Only Commit starts a resolve.
LEMMA ResolveStarts ==
  ASSUME TypeOK, [Next]_vars, NEW p \in Proposals, ~Resolving(p), Resolving(p)'
  PROVE  Commit(p) /\ CallResolve(p)
<1>1. CASE \E r \in Proposals : DecisionStep(r)
  BY <1>1 DEF DecisionStep, Dismiss, ReadCurrent, Commit, NotPending, Drifted, Abandon,
       CallResolve, ResolveReaches, ResolveReturns, HandleDrift, RestageLists,
       RestageListFails, NoRun, DriftedRun, RestagingRun, Resolving, TypeOK, RunRecord,
       decideVars
<1>2. ASSUME NEW j \in Jobs, WalkStep(j)
      PROVE  run' \in {run, [run EXCEPT ![j] = NoRun]}
  BY <1>2 DEF WalkStep, RetireOrphans, WalkEnds, Visit, decideVars
<1>3. ASSUME NEW j \in Jobs, WalkStep(j) PROVE FALSE
  BY <1>2, <1>3 DEF NoRun, Resolving, TypeOK
<1>4. CASE \E r \in Proposals : KernelStep(r)
  BY <1>4 DEF KernelStep, OperatorDecides, DeliverSigned, DeliverUnsigned, Deliver, DriftedRun,
       Resolving, TypeOK, RunRecord, bridgeVars, decideVars
<1>5. CASE Crash  BY <1>5 DEF Crash, NoRun, Resolving
<1>6. CASE \E h \in Handlers : PublishStep(h)
  BY <1>6 DEF PublishStep, HoldRejected, Track, SignFails, Saved, KernelShows, PostConfirmed,
       PostRetries, PostFails, DenySettles, Resolving, decideVars
<1>7. CASE \E s \in Sources : ReconcileLists(s)
  BY <1>7 DEF ReconcileLists, Resolving, decideVars
<1>8. CASE \E r \in Proposals : LoopStep(r) \/ SessionStep(r) \/ ItemStep(r)
  BY <1>8 DEF LoopStep, SweepReads, HoldExpires, BackoffEnds, SessionStep,
         SessionResolves, SessionCommand,
       ItemStep, Stage, Revise, SettleElsewhere, DeadlinePasses, LiveEvent, bridgeVars,
       Resolving, decideVars
<1>9. CASE SweepActs \/ Flush \/ UNCHANGED vars
  BY <1>9 DEF SweepActs, Flush, vars, Resolving, decideVars
<1> QED BY <1>1, <1>3, <1>4, <1>5, <1>6, <1>7, <1>8, <1>9 DEF Next

\* A decision is sent to its source only for the card object that it arrived
\* for, still tracked, and before that card's deadline.
THEOREM CallsMatchCards == Spec => CallMatchesCard
<1> DEFINE Matches ==
      \A p \in Proposals :
        ~Resolving(p) /\ Resolving(p)' =>
          published[p] = [rev |-> run[p].rev, gen |-> run[p].gen] /\ p \notin late
<1>1. Init => RunsKnowCard  BY DEF Init, RunsKnowCard, Tracked, NoRun
<1>2. TypeOK /\ RunsKnowCard /\ [Next]_vars => Matches
  <2> SUFFICES ASSUME TypeOK, RunsKnowCard, [Next]_vars, NEW p \in Proposals,
                      ~Resolving(p), Resolving(p)'
               PROVE  published[p] = [rev |-> run[p].rev, gen |-> run[p].gen] /\ p \notin late
    OBVIOUS
  <2>1. Commit(p) /\ CallResolve(p)  BY ResolveStarts
  <2>2. published[p].gen = run[p].gen /\ published[p].rev = run[p].rev /\ p \notin late
    BY <2>1 DEF Commit, CallResolve, SameCard, DeadlineOk, RunsKnowCard
  <2> QED BY <2>2 DEF TypeOK, Card
<1>3. Spec => [][Matches]_vars  BY <1>1, <1>2, TypeCorrect, StepCards, PTL DEF Spec
<1> QED BY <1>3 DEF CallMatchesCard

-----------------------------------------------------------------------------
(* A card that is posted can be found again after a restart.               *)

LEMMA DecisionForgets ==
  ASSUME TypeOK, NEW p \in Proposals, DecisionStep(p)
  PROVE  \A q \in Proposals : published'[q] \in {published[q], NoCard}
  BY ForgottenCards
  DEF DecisionStep, Dismiss, ReadCurrent, Commit, NotPending, Drifted, Abandon, CallResolve,
      ResolveReaches, ResolveReturns, HandleDrift, RestageLists, RestageListFails,
      KeepTracking, Retire, TypeOK

\* While a handler works on an item, the item's tracked card is the handler's.
OwnCard ==
  \A h \in Handlers, p \in Proposals :
    Working(h, p) /\ Tracked(p) =>
      handler[h].st # "signing" /\ published[p].rev = handler[h].rev

\* Steps that track no new card and start no handler.
LEMMA SameOwn ==
  ASSUME OwnCard,
         \A p \in Proposals : published'[p] \in {published[p], NoCard},
         \A h \in Handlers :
           \/ handler'[h] = handler[h]
           \/ handler'[h].st = "idle"
           \/ /\ handler[h].st # "idle" /\ handler'[h].st # "signing"
              /\ handler'[h].p = handler[h].p /\ handler'[h].rev = handler[h].rev
  PROVE  OwnCard'
  BY DEF OwnCard, Tracked, Working

LEMMA TrackOwn ==
  ASSUME TypeOK, PublisherInv, OwnCard, NEW h \in Handlers, Track(h) PROVE OwnCard'
<1> DEFINE q == handler[h].p
<1>1. /\ q \in Proposals /\ handler[h].st = "signing"
  BY HandlerFilled DEF Track, TypeOK
<1>2. /\ handler'[h].p = q /\ handler'[h].st = "saving" /\ handler'[h].rev = handler[h].rev
      /\ \A g \in Handlers : g # h => handler'[g] = handler[g]
  BY DEF Track, TypeOK, HandlerRecord
<1>3. /\ published'[q].rev = handler[h].rev
      /\ \A p \in Proposals : p # q => published'[p] = published[p]
  BY <1>1 DEF Track, TypeOK
<1>4. \A g \in Handlers : Working(g, q) => g = h
  BY <1>1 DEF PublisherInv, SinglePublisher, Working
<1> HIDE DEF q
<1> QED BY <1>1, <1>2, <1>3, <1>4 DEF OwnCard, Working, Tracked

LEMMA PublishStepOwn ==
  ASSUME TypeOK, PublisherInv, OwnCard, NEW h \in Handlers, PublishStep(h) PROVE OwnCard'
<1>1. CASE Track(h)  BY <1>1, TrackOwn
<1>2. CASE Saved(h) \/ KernelShows(h) \/ PostRetries(h)
  <2>1. UNCHANGED published
    BY <1>2 DEF Saved, KernelShows, PostRetries, KeepTracking
  <2>2. /\ handler[h].st # "idle" /\ handler'[h].st # "signing"
        /\ handler'[h].p = handler[h].p /\ handler'[h].rev = handler[h].rev
        /\ \A g \in Handlers : g # h => handler'[g] = handler[g]
    BY <1>2 DEF Saved, KernelShows, PostRetries, TypeOK, HandlerRecord
  <2> QED BY <2>1, <2>2, SameOwn
<1>3. CASE HoldRejected(h) \/ PostConfirmed(h) \/ DenySettles(h)
  <2>1. UNCHANGED published
    BY <1>3 DEF HoldRejected, PostConfirmed, DenySettles, KeepTracking
  <2>2. handler'[h].st = "idle" /\ \A g \in Handlers : g # h => handler'[g] = handler[g]
    BY <1>3 DEF HoldRejected, PostConfirmed, DenySettles, Finish, NoHandler, TypeOK
  <2> QED BY <2>1, <2>2, SameOwn
<1>4. CASE SignFails(h) \/ PostFails(h)
  <2>1. \A p \in Proposals : published'[p] \in {published[p], NoCard}
    <3>1. handler[h].p \in Proposals  BY <1>4, HandlerFilled DEF SignFails, PostFails, TypeOK
    <3> QED BY <1>4, <3>1, ForgottenCards DEF SignFails, PostFails, KeepTracking
  <2>2. handler[h].st # "idle"  BY <1>4 DEF SignFails, PostFails
  <2>3. CASE Finish(h)
    <3>1. handler'[h].st = "idle" /\ \A g \in Handlers : g # h => handler'[g] = handler[g]
      BY <2>3 DEF Finish, NoHandler, TypeOK
    <3> QED BY <2>1, <3>1, SameOwn
  <2>4. CASE ~Finish(h)
    <3>1. handler' = [handler EXCEPT ![h].st = "denying"]
      BY <1>4, <2>4 DEF SignFails, PostFails, FailClosedOrFinish
    <3>2. /\ handler'[h].st # "signing"
          /\ handler'[h].p = handler[h].p /\ handler'[h].rev = handler[h].rev
          /\ \A g \in Handlers : g # h => handler'[g] = handler[g]
      BY <3>1 DEF TypeOK, HandlerRecord
    <3> QED BY <2>1, <2>2, <3>2, SameOwn
  <2> QED BY <2>3, <2>4
<1> QED BY <1>1, <1>2, <1>3, <1>4 DEF PublishStep

LEMMA RequestOwn ==
  ASSUME TypeOK, OwnCard, NEW p \in Proposals, NEW r \in Revs, HandleSourceRequested(p, r)
  PROVE  OwnCard'
<1>1. \A q \in Proposals : published'[q] \in {published[q], NoCard}  BY RequestCards
<1>2. CASE Reserve(p, r)
  <2>1. PICK h \in Handlers :
          /\ handler[h].st = "idle"
          /\ handler' = [handler EXCEPT ![h] =
                           [st |-> "signing", p |-> p, rev |-> r, try |-> 0]]
    BY <1>2 DEF Reserve
  <2>2. /\ ~Tracked(p)' /\ handler'[h].p = p
        /\ \A g \in Handlers : g # h => handler'[g] = handler[g]
    BY <1>2, <2>1 DEF Reserve, KeepTracking, Tracked, TypeOK
  <2> QED BY <1>1, <2>2 DEF OwnCard, Working, Tracked
<1>3. CASE ~Reserve(p, r)
  <2>1. UNCHANGED handler
    BY <1>3 DEF HandleSourceRequested, Reblock, JoinReservation, RetireLate, publishVars
  <2> QED BY <1>1, <2>1, SameOwn
<1> QED BY <1>2, <1>3

LEMMA StepOwn == TypeOK /\ PublisherInv /\ OwnCard /\ [Next]_vars => OwnCard'
<1> SUFFICES ASSUME TypeOK, PublisherInv, OwnCard, [Next]_vars PROVE OwnCard'  OBVIOUS
<1>1. ASSUME NEW p \in Proposals, LiveEvent(p) PROVE OwnCard'
  <2>1. item[p].rev \in Revs  BY <1>1, ItemFilled DEF LiveEvent, TypeOK
  <2> QED BY <1>1, <2>1, RequestOwn DEF LiveEvent
<1>2. ASSUME NEW j \in Jobs, NEW p \in Proposals, NEW r \in Revs, Visit(j, p, r)
      PROVE  OwnCard'
  BY <1>2, RequestOwn DEF Visit
<1>3. CASE Crash  BY <1>3 DEF Crash, OwnCard, Working, NoHandler
<1>4. ASSUME NEW p \in Proposals, DecisionStep(p) PROVE OwnCard'
  <2>1. \A q \in Proposals : published'[q] \in {published[q], NoCard}
    BY <1>4, DecisionForgets
  <2>2. UNCHANGED handler
    BY <1>4 DEF DecisionStep, Dismiss, ReadCurrent, Commit, ResolveReaches, ResolveReturns,
        HandleDrift, RestageLists, RestageListFails, publishVars
  <2> QED BY <2>1, <2>2, SameOwn
<1>5. ASSUME NEW j \in Jobs, RetireOrphans(j) PROVE OwnCard'
  <2>1. Orphans(j) \in SUBSET Proposals  BY DEF Orphans, Of
  <2> QED BY <1>5, <2>1, ForgottenCards, SameOwn DEF RetireOrphans, Retire, publishVars
<1>6. ASSUME NEW p \in Proposals, KernelStep(p) PROVE OwnCard'
  BY <1>6, ForgottenCards, SameOwn
  DEF KernelStep, OperatorDecides, DeliverSigned, DeliverUnsigned, Deliver, Retire, KeepTracking,
      bridgeVars, publishVars
<1>7. ASSUME NEW s \in Sources, ReconcileLists(s) PROVE OwnCard'
  BY <1>7, SameOwn DEF ReconcileLists, KeepTracking, publishVars
<1>8. ASSUME NEW j \in Jobs, WalkEnds(j) PROVE OwnCard'
  BY <1>8, SameOwn DEF WalkEnds, publishVars
<1>9. ASSUME NEW p \in Proposals, LoopStep(p) \/ SessionStep(p) PROVE OwnCard'
  BY <1>9, SameOwn DEF LoopStep, SweepReads, HoldExpires, BackoffEnds, SessionStep, SessionResolves,
              SessionCommand, KeepTracking, publishVars
<1>10. ASSUME NEW p \in Proposals, ItemStep(p), ~LiveEvent(p) PROVE OwnCard'
  BY <1>10, SameOwn DEF ItemStep, Stage, Revise, SettleElsewhere, DeadlinePasses, bridgeVars,
                    publishVars
<1>11. CASE SweepActs \/ Flush  BY <1>11, SameOwn DEF SweepActs, Flush, KeepTracking, publishVars
<1>12. CASE UNCHANGED vars  BY <1>12, SameOwn DEF vars
<1> QED BY <1>1, <1>2, <1>3, <1>4, <1>5, <1>6, <1>7, <1>8, <1>9, <1>10, <1>11, <1>12,
           PublishStepOwn DEF Next, WalkStep, ItemStep

\* Steps that track no new card, save nothing and end no save.
LEMMA SameDurable ==
  ASSUME CardDurable, disk' = disk,
         \A p \in Proposals : published'[p] \in {published[p], NoCard},
         \A h \in Handlers : handler[h].st = "saving" => handler'[h] = handler[h]
  PROVE  CardDurable'
  BY DEF CardDurable, Tracked, Working

LEMMA SavedDurable ==
  ASSUME TypeOK, disk' = Snapshot, published' = published PROVE CardDurable'
  BY DEF TypeOK, CardDurable, Snapshot, Tracked

\* The handler that takes a step was not saving, so nobody's save ends.
LEMMA FinishDurable ==
  ASSUME TypeOK, CardDurable, NEW h \in Handlers, handler[h].st # "saving",
         disk' = disk, \A p \in Proposals : published'[p] \in {published[p], NoCard},
         \A g \in Handlers : g # h => handler'[g] = handler[g]
  PROVE  CardDurable'
  BY SameDurable

LEMMA PublishStepDurable ==
  ASSUME TypeOK, OwnCard, CardDurable, NEW h \in Handlers, PublishStep(h) PROVE CardDurable'
<1>a. \A g \in Handlers : g # h => handler'[g] = handler[g]
  BY DEF PublishStep, HoldRejected, Track, SignFails, Saved, KernelShows, PostConfirmed,
         PostRetries, PostFails, DenySettles, FailClosedOrFinish, Finish, TypeOK
<1>1. CASE Track(h)
  <2> DEFINE q == handler[h].p
  <2>1. q \in Proposals  BY <1>1, HandlerFilled DEF Track, TypeOK
  <2>2. /\ handler[h].st = "signing" /\ disk' = disk
        /\ handler'[h].p = q /\ handler'[h].st = "saving"
    BY <1>1 DEF Track, TypeOK, HandlerRecord
  <2>3. \A p \in Proposals : p # q => published'[p] = published[p]
    BY <1>1 DEF Track, TypeOK
  <2> HIDE DEF q
  <2>4. ASSUME "disk" \notin Faults, "crash" \in Faults, NEW p \in Proposals, Tracked(p)',
               \A g \in Handlers : Working(g, p)' => handler'[g].st # "saving"
        PROVE  disk'.published[p] = published'[p].rev
    <3>1. p # q  BY <2>2, <2>4 DEF Working
    <3>2. Tracked(p) /\ published'[p] = published[p]  BY <2>3, <2>4, <3>1 DEF Tracked
    <3>3. \A g \in Handlers : Working(g, p) => handler[g].st # "saving"
      BY <1>a, <2>2, <2>4 DEF Working
    <3> QED BY <2>2, <2>4, <3>2, <3>3 DEF CardDurable
  <2> QED BY <2>4 DEF CardDurable
<1>2. CASE Saved(h)
  <2>1. handler[h].p \in Proposals  BY <1>2, HandlerFilled DEF Saved, TypeOK
  <2>2. CASE disk' = Snapshot  BY <1>2, <2>2, SavedDurable DEF Saved, KeepTracking
  <2>3. CASE disk.published[handler[h].p] = handler[h].rev /\ UNCHANGED disk
    <3>1. UNCHANGED published  BY <1>2 DEF Saved, KeepTracking
    <3>2. handler[h].st = "saving"  BY <1>2 DEF Saved
    <3>3. ASSUME "disk" \notin Faults, "crash" \in Faults, NEW p \in Proposals, Tracked(p),
                 \A g \in Handlers : Working(g, p)' => handler'[g].st # "saving"
          PROVE  disk.published[p] = published[p].rev
      <4>1. CASE p = handler[h].p
        BY <2>3, <3>2, <3>3, <4>1 DEF OwnCard, Working
      <4>2. CASE p # handler[h].p
        <5>1. \A g \in Handlers : Working(g, p) => g # h  BY <4>2 DEF Working
        <5>2. \A g \in Handlers : Working(g, p) => handler[g].st # "saving"
          BY <1>a, <3>3, <5>1 DEF Working
        <5> QED BY <3>3, <5>2 DEF CardDurable
      <4> QED BY <4>1, <4>2
    <3> QED BY <2>3, <3>1, <3>3 DEF CardDurable, Tracked
  <2>4. CASE "disk" \in Faults \/ "crash" \notin Faults  BY <2>4 DEF CardDurable
  <2> QED BY <1>2, <2>2, <2>3, <2>4 DEF Saved
<1>3. CASE PostFails(h)
  <2>1. handler[h].p \in Proposals  BY <1>3, HandlerFilled DEF PostFails, TypeOK
  <2> QED BY <1>3, <1>a, <2>1, ForgottenCards, FinishDurable DEF PostFails
<1>4. CASE ~(Track(h) \/ Saved(h) \/ PostFails(h))
  BY <1>4, <1>a, FinishDurable
  DEF PublishStep, HoldRejected, SignFails, KernelShows, PostConfirmed, PostRetries,
      DenySettles, KeepTracking
<1> QED BY <1>1, <1>2, <1>3, <1>4

LEMMA RequestDurable ==
  ASSUME TypeOK, CardDurable, NEW p \in Proposals, NEW r \in Revs, HandleSourceRequested(p, r),
         disk' = disk
  PROVE  CardDurable'
<1>1. \A h \in Handlers : handler[h].st = "saving" => handler'[h] = handler[h]
  BY DEF HandleSourceRequested, Reblock, JoinReservation, RetireLate, Reserve, publishVars, TypeOK
<1> QED BY <1>1, RequestCards, SameDurable

LEMMA StepDurable == TypeOK /\ OwnCard /\ CardDurable /\ [Next]_vars => CardDurable'
<1> SUFFICES ASSUME TypeOK, OwnCard, CardDurable, [Next]_vars PROVE CardDurable'  OBVIOUS
<1> USE SameDurable
<1>1. ASSUME NEW s \in Sources, ReconcileLists(s) PROVE CardDurable'
  BY <1>1 DEF ReconcileLists, KeepTracking, publishVars
<1>2. ASSUME NEW p \in Proposals, LoopStep(p) \/ SessionStep(p) PROVE CardDurable'
  BY <1>2 DEF LoopStep, SweepReads, HoldExpires, BackoffEnds, SessionStep,
         SessionResolves, SessionCommand,
              KeepTracking, publishVars
<1>3. ASSUME NEW p \in Proposals, ItemStep(p) PROVE CardDurable'
  <2>1. CASE LiveEvent(p)
    <3>1. item[p].rev \in Revs  BY <2>1, ItemFilled DEF LiveEvent, TypeOK
    <3> QED BY <2>1, <3>1, RequestDurable DEF LiveEvent
  <2>2. CASE ~LiveEvent(p)
    BY <1>3, <2>2 DEF ItemStep, Stage, Revise, SettleElsewhere, DeadlinePasses, bridgeVars,
                      publishVars
  <2> QED BY <2>1, <2>2
<1>4. ASSUME NEW p \in Proposals, KernelStep(p) PROVE CardDurable'
  BY <1>4, ForgottenCards
  DEF KernelStep, OperatorDecides, DeliverSigned, DeliverUnsigned, Deliver, Retire, KeepTracking,
      bridgeVars, publishVars
<1>5. ASSUME NEW p \in Proposals, DecisionStep(p) PROVE CardDurable'
  <2>1. \A q \in Proposals : published'[q] \in {published[q], NoCard}
    BY <1>5, DecisionForgets
  <2>2. UNCHANGED <<disk, handler>>
    BY <1>5 DEF DecisionStep, Dismiss, ReadCurrent, Commit, ResolveReaches, ResolveReturns,
        HandleDrift, RestageLists, RestageListFails, publishVars
  <2> QED BY <2>1, <2>2
<1>6. ASSUME NEW j \in Jobs, WalkStep(j) PROVE CardDurable'
  <2>1. CASE RetireOrphans(j)
    <3>1. Orphans(j) \in SUBSET Proposals  BY DEF Orphans, Of
    <3> QED BY <2>1, <3>1, ForgottenCards DEF RetireOrphans, Retire, publishVars
  <2>2. CASE WalkEnds(j)  BY <2>2 DEF WalkEnds, publishVars
  <2>3. ASSUME NEW p \in Proposals, NEW r \in Revs, Visit(j, p, r) PROVE CardDurable'
    BY <2>3, RequestDurable DEF Visit
  <2> QED BY <1>6, <2>1, <2>2, <2>3 DEF WalkStep
<1>7. CASE SweepActs  BY <1>7 DEF SweepActs, publishVars
<1>8. CASE Flush  BY <1>8, SavedDurable DEF Flush, KeepTracking
<1>9. CASE Crash  BY <1>9 DEF Crash, CardDurable, Tracked, NoCard, TypeOK
<1>10. CASE UNCHANGED vars  BY <1>10 DEF vars
<1> QED BY <1>1, <1>2, <1>3, <1>4, <1>5, <1>6, <1>7, <1>8, <1>9, <1>10, PublishStepDurable DEF Next

\* Write-ahead: publishSourceRequest saves the card before it posts it, so a
\* crash at any later point finds every card that is still tracked on disk.
THEOREM CardsAreDurable == Spec => []CardDurable
<1>1. Init => PublisherInv /\ OwnCard /\ CardDurable
  BY DEF Init, PublisherInv, Reserved, SinglePublisher, OwnCard, CardDurable, Tracked, Working,
         NoHandler
<1>2. Spec => [](PublisherInv /\ OwnCard)
  BY <1>1, TypeCorrect, StepPublisher, StepOwn, PTL DEF Spec
<1> QED BY <1>1, <1>2, TypeCorrect, StepDurable, PTL DEF Spec

-----------------------------------------------------------------------------
(* What the bridge does to the items of its sources.                       *)

Settled(p) == item[p].st \in {"applied", "rejected"}

-----------------------------------------------------------------------------
(* An executed item is claimed, or nothing can start a call on it.         *)

\* Steps that execute nothing and leave what is quiet quiet.
LEMMA SameExecuted ==
  ASSUME ExecutedIsClaimed, claimed \subseteq claimed',
         \A p \in Proposals : Settled(p)' => Settled(p) /\ (Quiet(p) => Quiet(p)')
  PROVE  ExecutedIsClaimed'
  BY DEF ExecutedIsClaimed, Settled

\* Quiet needs less and less work in flight.
LEMMA StaysQuiet ==
  ASSUME NEW p \in Proposals, Quiet(p),
         run'[p].st = "read" => run[p].st = "read" /\ run'[p].current = run[p].current,
         \A h \in Handlers : Working(h, p)' => Working(h, p),
         \A j \in Jobs : job'[j].todo \subseteq job[j].todo
  PROVE  Quiet(p)'
  BY DEF Quiet

\* Of what a call of a claimed item does, only that item is touched.
LEMMA CallExecutes ==
  ASSUME TypeOK, NEW p \in Proposals, NEW dec, NEW rev, NEW result,
         SourceResolves(p, dec, rev, result)
  PROVE  \A q \in Proposals : q # p => item'[q] = item[q]
  BY DEF SourceResolves, TypeOK

LEMMA FinishWork ==
  ASSUME TypeOK, NEW h \in Handlers, Finish(h)
  PROVE  /\ \A g \in Handlers, p \in Proposals : Working(g, p)' => Working(g, p)
         /\ \A j \in Jobs : job'[j].todo = job[j].todo
  BY DEF Finish, Working, NoHandler, TypeOK, JobRecord

LEMMA FailClosedWork ==
  ASSUME TypeOK, NEW h \in Handlers, handler[h].st # "idle", FailClosedOrFinish(h)
  PROVE  /\ \A g \in Handlers, p \in Proposals : Working(g, p)' => Working(g, p)
         /\ \A j \in Jobs : job'[j].todo = job[j].todo
         /\ claimed \subseteq claimed'
  BY FinishWork DEF FailClosedOrFinish, Working, TypeOK, HandlerRecord

LEMMA PublishStepExecuted ==
  ASSUME TypeOK, ClaimInv, ExecutedIsClaimed, NEW h \in Handlers, PublishStep(h)
  PROVE  ExecutedIsClaimed'
<1>1. CASE HoldRejected(h) \/ PostConfirmed(h)
  <2>1. UNCHANGED <<item, run, claimed>> /\ Finish(h)
    BY <1>1 DEF HoldRejected, PostConfirmed, worldVars, decideVars
  <2> QED BY <2>1, FinishWork, StaysQuiet, SameExecuted DEF Settled
<1>2. CASE SignFails(h) \/ PostFails(h)
  <2>1. UNCHANGED <<item, run>> /\ FailClosedOrFinish(h) /\ handler[h].st # "idle"
    BY <1>2 DEF SignFails, PostFails, worldVars
  <2> QED BY <2>1, FailClosedWork, StaysQuiet, SameExecuted DEF Settled
<1>3. CASE Track(h) \/ Saved(h) \/ KernelShows(h) \/ PostRetries(h)
  <2>1. UNCHANGED <<item, run, claimed, job>>
    BY <1>3 DEF Track, Saved, KernelShows, PostRetries, worldVars, decideVars
  <2>2. \A g \in Handlers, p \in Proposals : Working(g, p)' => Working(g, p)
    BY <1>3 DEF Track, Saved, KernelShows, PostRetries, Working, TypeOK, HandlerRecord
  <2> QED BY <2>1, <2>2, StaysQuiet, SameExecuted DEF Settled
<1>4. CASE DenySettles(h)
  <2> DEFINE q == handler[h].p
  <2>1. q \in Proposals /\ Denying(q)  BY <1>4, HandlerFilled DEF DenySettles, Denying, TypeOK
  <2>2. q \in claimed  BY <2>1 DEF ClaimInv, CallsClaimed
  <2>3. UNCHANGED <<run, claimed>> /\ Finish(h)  BY <1>4 DEF DenySettles, decideVars
  <2>4. \A p \in Proposals : p # q => item'[p] = item[p]
    BY <1>4, <2>1, CallExecutes DEF DenySettles
  <2> HIDE DEF q
  <2>5. \A p \in Proposals : p # q => (Settled(p)' <=> Settled(p)) /\ (Quiet(p) => Quiet(p)')
    BY <2>3, <2>4, FinishWork, StaysQuiet DEF Settled
  <2> QED BY <2>2, <2>3, <2>5 DEF ExecutedIsClaimed, Settled
<1> QED BY <1>1, <1>2, <1>3, <1>4 DEF PublishStep

\* A request about an item that a snapshot or an event named.
LEMMA RequestExecuted ==
  ASSUME TypeOK, ExecutedIsClaimed, NEW p \in Proposals, NEW r \in Revs,
         HandleSourceRequested(p, r), Settled(p) => p \in claimed,
         UNCHANGED <<item, decideVars>>, \A j \in Jobs : job'[j].todo \subseteq job[j].todo
  PROVE  ExecutedIsClaimed'
<1>1. \A g \in Handlers, q \in Proposals : q # p /\ Working(g, q)' => Working(g, q)
  BY DEF HandleSourceRequested, Reblock, JoinReservation, RetireLate, Reserve, publishVars,
         Working, TypeOK
<1>2. UNCHANGED <<item, run, claimed>>  BY DEF decideVars
<1>3. \A q \in Proposals : q # p /\ Quiet(q) => Quiet(q)'  BY <1>1, <1>2, StaysQuiet
<1> QED BY <1>2, <1>3 DEF ExecutedIsClaimed, Settled

LEMMA WalkStepExecuted ==
  ASSUME TypeOK, ExecutedIsClaimed, NEW j \in Jobs, WalkStep(j) PROVE ExecutedIsClaimed'
<1>1. CASE RetireOrphans(j)
  <2>1. \A i \in Jobs : job'[i].todo = job[i].todo
    BY <1>1 DEF RetireOrphans, TypeOK, JobRecord
  <2>2. UNCHANGED <<item, run, claimed, handler>>
    BY <1>1 DEF RetireOrphans, worldVars, publishVars, decideVars
  <2> QED BY <2>1, <2>2, StaysQuiet, SameExecuted DEF Settled, Working
<1>2. CASE WalkEnds(j)
  <2>1. \A i \in Jobs : job'[i].todo \subseteq job[i].todo
    BY <1>2 DEF WalkEnds, TypeOK, NoJob
  <2>2. UNCHANGED <<item, claimed, handler>>  BY <1>2 DEF WalkEnds, worldVars, publishVars
  <2>3. \A p \in Proposals : run'[p].st = "read" =>
          run[p].st = "read" /\ run'[p].current = run[p].current
    BY <1>2 DEF WalkEnds, TypeOK, NoRun
  <2> QED BY <2>1, <2>2, <2>3, StaysQuiet, SameExecuted DEF Settled, Working
<1>3. ASSUME NEW p \in Proposals, NEW r \in Revs, Visit(j, p, r) PROVE ExecutedIsClaimed'
  <2>1. \A i \in Jobs : job'[i].todo \subseteq job[i].todo
    BY <1>3 DEF Visit, TypeOK
  <2>2. Settled(p) => p \in claimed
    BY <1>3 DEF Visit, ExecutedIsClaimed, Settled, Quiet
  <2> QED BY <1>3, <2>1, <2>2, RequestExecuted DEF Visit, worldVars
<1> QED BY <1>1, <1>2, <1>3 DEF WalkStep

\* What a list() answers is pending.
LEMMA ListsPending ==
  ASSUME TypeOK, NEW s, NEW answer \in ListAnswers(s), NEW p \in Proposals, NEW r, <<p, r>> \in answer
  PROVE  ~Settled(p) /\ item[p].st # "absent" /\ r = item[p].rev
<1>1. <<p, r>> \in PendingOf(s)  BY DEF ListAnswers
<1>2. PICK q \in {x \in Of(s) : item[x].st = "pending"} : <<p, r>> = <<q, item[q].rev>>
  BY <1>1 DEF PendingOf
<1> QED BY <1>2 DEF Settled

LEMMA ListsExecuted ==
  ASSUME TypeOK, ExecutedIsClaimed, NEW s, NEW j \in Jobs, NEW answer \in ListAnswers(s),
         job' = [job EXCEPT ![j] = [st |-> "listed", todo |-> answer, at |-> NoProposal]],
         UNCHANGED <<item, run, claimed, handler>>
  PROVE  ExecutedIsClaimed'
<1>1. ASSUME NEW p \in Proposals, Settled(p)', Quiet(p) PROVE Quiet(p)'
  <2>1. ~ \E r \in Revs : <<p, r>> \in answer  BY <1>1, ListsPending DEF Settled
  <2> QED BY <1>1, <2>1 DEF Quiet, Working, TypeOK
<1> QED BY <1>1, SameExecuted DEF Settled

LEMMA DecisionStepExecuted ==
  ASSUME TypeOK, ClaimInv, ExecutedIsClaimed, NEW p \in Proposals, DecisionStep(p)
  PROVE  ExecutedIsClaimed'
<1>1. CASE ResolveReaches(p)
  <2>1. p \in claimed  BY <1>1 DEF ResolveReaches, ClaimInv, CallsClaimed, Resolving
  <2>2. \A q \in Proposals : q # p => item'[q] = item[q] /\ run'[q] = run[q]
    BY <1>1, CallExecutes DEF ResolveReaches, TypeOK
  <2>3. UNCHANGED <<claimed, handler, job>>  BY <1>1 DEF ResolveReaches, publishVars
  <2>4. \A q \in Proposals : q # p => (Settled(q)' <=> Settled(q)) /\ (Quiet(q) => Quiet(q)')
    BY <2>2, <2>3, StaysQuiet DEF Settled, Working
  <2> QED BY <2>1, <2>3, <2>4 DEF ExecutedIsClaimed, Settled
<1>2. CASE RestageLists(p)
  <2>1. p \in Jobs  BY DEF Jobs
  <2> QED BY <1>2, <2>1, ListsExecuted DEF RestageLists, worldVars, publishVars, decideVars
<1>3. CASE ReadCurrent(p)
  <2>1. UNCHANGED <<item, claimed, handler, job>>
    BY <1>3 DEF ReadCurrent, worldVars, publishVars
  <2>2. run'[p].current = 0 \/ item[p].st = "pending"
    BY <1>3 DEF ReadCurrent, TypeOK
  <2>3. \A q \in Proposals : q # p => run'[q] = run[q]  BY <1>3 DEF ReadCurrent, TypeOK
  <2>4. \A q \in Proposals : Settled(q) /\ Quiet(q) => Quiet(q)'
    BY <2>1, <2>2, <2>3 DEF Settled, Quiet, Working
  <2> QED BY <2>1, <2>4, SameExecuted DEF Settled
<1>4. CASE ~(ResolveReaches(p) \/ RestageLists(p) \/ ReadCurrent(p))
  <2>1. UNCHANGED <<item, handler, job>> /\ claimed \subseteq claimed'
    BY <1>4 DEF DecisionStep, Dismiss, Commit, NotPending, Drifted, Abandon, CallResolve,
         ResolveReturns, HandleDrift, RestageListFails, worldVars, publishVars
  <2>2. \A q \in Proposals : run'[q].st = "read" =>
          run[q].st = "read" /\ run'[q].current = run[q].current
    BY <1>4 DEF DecisionStep, Dismiss, Commit, NotPending, Drifted, Abandon, CallResolve,
         ResolveReturns, HandleDrift, RestageListFails, NoRun, DriftedRun, RestagingRun, TypeOK,
         RunRecord
  <2> QED BY <2>1, <2>2, StaysQuiet, SameExecuted DEF Settled, Working
<1> QED BY <1>1, <1>2, <1>3, <1>4

LEMMA SessionStepExecuted ==
  ASSUME TypeOK, ClaimInv, ExecutedIsClaimed, NEW p \in Proposals, SessionStep(p)
  PROVE  ExecutedIsClaimed'
<1>1. CASE SessionResolves(p)
  <2>1. p \in claimed  BY <1>1 DEF SessionResolves, ClaimInv, CallsClaimed
  <2>2. \A q \in Proposals : q # p => item'[q] = item[q]
    BY <1>1, CallExecutes DEF SessionResolves
  <2>3. UNCHANGED <<run, claimed, handler, job>>  BY <1>1 DEF SessionResolves, publishVars
  <2>4. \A q \in Proposals : q # p => (Settled(q)' <=> Settled(q)) /\ (Quiet(q) => Quiet(q)')
    BY <2>2, <2>3, StaysQuiet DEF Settled, Working
  <2> QED BY <2>1, <2>3, <2>4 DEF ExecutedIsClaimed, Settled
<1>2. ASSUME NEW d \in Verdicts \cup {"convert"}, SessionCommand(p, d) PROVE ExecutedIsClaimed'
  <2>1. UNCHANGED <<item, run, handler, job>> /\ claimed \subseteq claimed'
    BY <1>2 DEF SessionCommand, worldVars, publishVars
  <2> QED BY <2>1, StaysQuiet, SameExecuted DEF Settled, Working
<1> QED BY <1>1, <1>2 DEF SessionStep

LEMMA ItemStepExecuted ==
  ASSUME TypeOK, ExecutedIsClaimed, NEW p \in Proposals, ItemStep(p) PROVE ExecutedIsClaimed'
<1>1. CASE LiveEvent(p)
  <2>1. item[p].rev \in Revs /\ ~Settled(p)  BY <1>1, ItemFilled DEF LiveEvent, Settled, TypeOK
  <2> QED BY <1>1, <2>1, RequestExecuted DEF LiveEvent, worldVars
<1>2. CASE ~LiveEvent(p)
  <2>1. \A q \in Proposals : Settled(q)' => Settled(q)
    BY <1>2 DEF ItemStep, Stage, Revise, SettleElsewhere, DeadlinePasses, Settled, TypeOK,
         ItemRecord
  <2>2. UNCHANGED <<run, claimed, handler, job>>
    BY <1>2 DEF ItemStep, Stage, Revise, SettleElsewhere, DeadlinePasses, bridgeVars,
         publishVars, decideVars
  <2> QED BY <2>1, <2>2, StaysQuiet, SameExecuted DEF Working
<1> QED BY <1>1, <1>2

LEMMA KernelStepExecuted ==
  ASSUME TypeOK, ExecutedIsClaimed, NEW p \in Proposals, KernelStep(p) PROVE ExecutedIsClaimed'
<1>1. UNCHANGED <<item, claimed, handler, job>>
  BY DEF KernelStep, OperatorDecides, DeliverSigned, DeliverUnsigned, Deliver, bridgeVars,
         worldVars, publishVars, decideVars
<1>2. \A q \in Proposals : run'[q].st = "read" =>
        run[q].st = "read" /\ run'[q].current = run[q].current
  BY DEF KernelStep, OperatorDecides, DeliverSigned, DeliverUnsigned, Deliver, bridgeVars,
         decideVars, DriftedRun, TypeOK
<1> QED BY <1>1, <1>2, StaysQuiet, SameExecuted DEF Settled, Working

LEMMA StepExecuted ==
  TypeOK /\ ClaimInv /\ ExecutedIsClaimed /\ [Next]_vars => ExecutedIsClaimed'
<1> SUFFICES ASSUME TypeOK, ClaimInv, ExecutedIsClaimed, [Next]_vars
             PROVE  ExecutedIsClaimed'
  OBVIOUS
<1>1. ASSUME NEW s \in Sources, ReconcileLists(s) PROVE ExecutedIsClaimed'
  BY <1>1, ListsExecuted DEF ReconcileLists, Jobs, worldVars, publishVars, decideVars
<1>2. ASSUME (\E p \in Proposals : LoopStep(p)) \/ SweepActs \/ Flush \/ UNCHANGED vars
      PROVE  ExecutedIsClaimed'
  <2>1. UNCHANGED <<item, run, claimed, handler, job>>
    BY <1>2 DEF LoopStep, SweepReads, HoldExpires, BackoffEnds, SweepActs, Flush, vars, worldVars,
         publishVars, decideVars
  <2> QED BY <2>1, StaysQuiet, SameExecuted DEF Settled, Working
<1>3. CASE Crash
  BY <1>3 DEF Crash, ExecutedIsClaimed, Quiet, Working, NoHandler, NoRun, NoJob
<1> QED BY <1>1, <1>2, <1>3, PublishStepExecuted, WalkStepExecuted, DecisionStepExecuted,
           SessionStepExecuted, ItemStepExecuted, KernelStepExecuted DEF Next

\* Only the fail-closed branches of a publish start a deny.
LEMMA DenyStarts ==
  ASSUME TypeOK, [Next]_vars, NEW p \in Proposals, ~Denying(p), Denying(p)'
  PROVE  p \notin claimed /\ \E h \in Handlers : Working(h, p)
<1>1. ASSUME NEW h \in Handlers, FailClosedOrFinish(h), handler[h].st # "idle"
      PROVE  p \notin claimed /\ Working(h, p)
  BY <1>1 DEF FailClosedOrFinish, Finish, NoHandler, Denying, Working, TypeOK, HandlerRecord
<1>2. ASSUME NEW h \in Handlers, \A g \in Handlers : g # h => handler'[g] = handler[g],
             handler'[h].st # "denying"
      PROVE  FALSE
  BY <1>2 DEF Denying
<1>3. ASSUME UNCHANGED handler PROVE FALSE  BY <1>3 DEF Denying
<1>4. ASSUME NEW h \in Handlers, PublishStep(h)
      PROVE  p \notin claimed /\ Working(h, p)
  <2>1. CASE SignFails(h) \/ PostFails(h)  BY <1>1, <2>1 DEF SignFails, PostFails
  <2>2. CASE HoldRejected(h) \/ PostConfirmed(h) \/ DenySettles(h)
    BY <1>2, <2>2 DEF HoldRejected, PostConfirmed, DenySettles, Finish, NoHandler, TypeOK
  <2>3. CASE Track(h) \/ Saved(h) \/ KernelShows(h) \/ PostRetries(h)
    BY <1>2, <2>3 DEF Track, Saved, KernelShows, PostRetries, TypeOK, HandlerRecord
  <2> QED BY <1>4, <2>1, <2>2, <2>3 DEF PublishStep
<1>5. ASSUME NEW q \in Proposals, NEW r \in Revs, HandleSourceRequested(q, r) PROVE FALSE
  <2>1. CASE Reserve(q, r)  BY <1>2, <2>1 DEF Reserve, TypeOK
  <2>2. CASE ~Reserve(q, r)
    BY <1>3, <1>5, <2>2
    DEF HandleSourceRequested, Reblock, JoinReservation, RetireLate, publishVars
  <2> QED BY <2>1, <2>2
<1>6. ASSUME NEW j \in Jobs, WalkStep(j) PROVE FALSE
  BY <1>3, <1>5, <1>6 DEF WalkStep, RetireOrphans, WalkEnds, Visit, publishVars
<1>7. ASSUME NEW q \in Proposals, LiveEvent(q) PROVE FALSE
  <2>1. item[q].rev \in Revs  BY <1>7, ItemFilled DEF LiveEvent, TypeOK
  <2> QED BY <1>5, <1>7, <2>1 DEF LiveEvent
<1>8. ASSUME NEW q \in Proposals,
             DecisionStep(q) \/ LoopStep(q) \/ SessionStep(q) \/ KernelStep(q)
             \/ (ItemStep(q) /\ ~LiveEvent(q))
      PROVE  FALSE
  <2>1. UNCHANGED handler
    BY <1>8 DEF DecisionStep, Dismiss, ReadCurrent, Commit, ResolveReaches, ResolveReturns,
         HandleDrift, RestageLists, RestageListFails, LoopStep, SweepReads, HoldExpires,
         BackoffEnds,
         SessionStep, SessionResolves, SessionCommand, KernelStep, OperatorDecides,
         DeliverSigned, DeliverUnsigned, Deliver, ItemStep, Stage, Revise, SettleElsewhere,
         DeadlinePasses, bridgeVars, publishVars
  <2> QED BY <1>3, <2>1
<1>9. CASE (\E s \in Sources : ReconcileLists(s)) \/ SweepActs \/ Flush \/ UNCHANGED vars
  BY <1>3, <1>9 DEF ReconcileLists, SweepActs, Flush, publishVars, vars
<1>10. CASE Crash  BY <1>10 DEF Crash, NoHandler, Denying
<1> QED BY <1>4, <1>6, <1>7, <1>8, <1>9, <1>10 DEF Next

\* Whatever replies are lost and whenever the process dies, the bridge starts
\* no call on an item that some rail has already executed.
THEOREM NothingExecutedTwice == Spec => NeverExecutedTwice
<1> DEFINE Fresh ==
      \A p \in Proposals : CallStarts(p) => item[p].st \notin {"applied", "rejected"}
<1>1. Init => ExecutedIsClaimed  BY DEF Init, ExecutedIsClaimed
<1>2. Init => ClaimInv
  BY DEF Init, ClaimInv, CallsClaimed, ExclusiveCall, Resolving, Denying, NoHandler, NoRun
<1>3. TypeOK /\ ExecutedIsClaimed /\ [Next]_vars => Fresh
  <2> SUFFICES ASSUME TypeOK, ExecutedIsClaimed, [Next]_vars, NEW p \in Proposals, CallStarts(p)
               PROVE  item[p].st \notin {"applied", "rejected"}
    OBVIOUS
  <2>1. CASE ~Resolving(p) /\ Resolving(p)'
    <3>1. Commit(p) /\ CallResolve(p)  BY <2>1, ResolveStarts
    <3>2. run[p].st = "read" /\ run[p].rev # 0
      BY <3>1 DEF Commit, TypeOK, RunRecord, Revs
    <3> QED BY <3>1, <3>2 DEF CallResolve, Claimable, ExecutedIsClaimed, Quiet
  <2>2. CASE ~Denying(p) /\ Denying(p)'
    BY <2>2, DenyStarts DEF ExecutedIsClaimed, Quiet
  <2> QED BY <2>1, <2>2 DEF CallStarts
<1>4. Spec => [][Fresh]_vars
  BY <1>1, <1>2, <1>3, TypeCorrect, StepClaims, StepExecuted, PTL DEF Spec
<1> QED BY <1>4 DEF NeverExecutedTwice

-----------------------------------------------------------------------------
(* For a source the operator must sign for, runs act on signatures only.   *)

ReviewInv == OnlySignedRuns /\ AppliedWasReviewed

\* Steps that leave the items alone and start nothing unsigned.
LEMMA SameReview ==
  ASSUME ReviewInv, item' = item, signed \subseteq signed',
         \A p \in Proposals : Reviewed(SourceOf[p]) =>
           /\ run'[p] \in {run[p], NoRun, DriftedRun, RestagingRun}
           /\ Denying(p)' => Denying(p)
           /\ rail'[p] # "none" => rail[p] # "none"
  PROVE  ReviewInv'
<1>1. ASSUME NEW p \in Proposals, Reviewed(SourceOf[p]) PROVE SignedRun(p)'
  <2>1. SignedRun(p)  BY <1>1 DEF ReviewInv, OnlySignedRuns
  <2>2. ~Denying(p)' /\ rail'[p] = "none"  BY <1>1, <2>1 DEF SignedRun
  <2>3. CASE run'[p] = run[p]  BY <2>1, <2>2, <2>3 DEF SignedRun
  <2>4. CASE run'[p] \in {NoRun, DriftedRun, RestagingRun}
    BY <2>2, <2>4 DEF SignedRun, NoRun, DriftedRun, RestagingRun
  <2> QED BY <1>1, <2>3, <2>4
<1>2. OnlySignedRuns'
  <2>1. \A p \in Proposals : Reviewed(SourceOf[p])' <=> Reviewed(SourceOf[p])  BY DEF Reviewed
  <2> QED BY <1>1, <2>1 DEF OnlySignedRuns
<1> QED BY <1>2 DEF ReviewInv, AppliedWasReviewed

\* How a call makes an item applied.
LEMMA CallApplies ==
  ASSUME TypeOK, NEW p \in Proposals, NEW dec, NEW rev, NEW result,
         SourceResolves(p, dec, rev, result), SourceOf[p] \in Pinned,
         item'[p].st = "applied", item[p].st # "applied"
  PROVE  dec = "approve" /\ item'[p].rev = rev
<1>1. /\ item[p].st = "pending" /\ item[p].rev = rev
      /\ item' = [item EXCEPT ![p].st = IF dec = "approve" THEN "applied" ELSE "rejected"]
  BY DEF SourceResolves
<1> QED BY <1>1 DEF TypeOK, ItemRecord

LEMMA CallKeepsApplied ==
  ASSUME TypeOK, NEW p \in Proposals, NEW dec, NEW rev, NEW result,
         SourceResolves(p, dec, rev, result), item[p].st = "applied"
  PROVE  item'[p] = item[p]
  BY DEF SourceResolves

LEMMA NoDenyReview ==
  ASSUME TypeOK, NEW h \in Handlers, FailClosedOrFinish(h), NEW p \in Proposals,
         Reviewed(SourceOf[p]), Denying(p)'
  PROVE  Denying(p)
  BY DEF FailClosedOrFinish, Finish, NoHandler, Reviewed, Denying, TypeOK, HandlerRecord

LEMMA PublishStepReview ==
  ASSUME TypeOK, ReviewInv, NEW h \in Handlers, PublishStep(h) PROVE ReviewInv'
<1>1. CASE DenySettles(h)
  <2> DEFINE q == handler[h].p
  <2>1. q \in Proposals /\ Denying(q)  BY <1>1, HandlerFilled DEF DenySettles, Denying, TypeOK
  <2>2. ~Reviewed(SourceOf[q])  BY <2>1 DEF ReviewInv, OnlySignedRuns, SignedRun
  <2>3. \A p \in Proposals : p # q => item'[p] = item[p]
    BY <1>1, <2>1, CallExecutes DEF DenySettles
  <2>4. UNCHANGED <<run, rail, signed>>  BY <1>1 DEF DenySettles, decideVars
  <2>5. \A p \in Proposals : Denying(p)' => Denying(p)
    BY <1>1 DEF DenySettles, Finish, NoHandler, Denying, TypeOK
  <2> HIDE DEF q
  <2> QED BY <2>2, <2>3, <2>4, <2>5 DEF ReviewInv, OnlySignedRuns, AppliedWasReviewed, SignedRun
<1>2. CASE SignFails(h) \/ PostFails(h)
  BY <1>2, NoDenyReview, SameReview DEF SignFails, PostFails, worldVars
<1>3. CASE HoldRejected(h) \/ PostConfirmed(h)
  <2>1. \A p \in Proposals : Denying(p)' => Denying(p)
    BY <1>3 DEF HoldRejected, PostConfirmed, Finish, NoHandler, Denying, TypeOK
  <2> QED BY <1>3, <2>1, SameReview DEF HoldRejected, PostConfirmed, worldVars, decideVars
<1>4. CASE Track(h) \/ Saved(h) \/ KernelShows(h) \/ PostRetries(h)
  <2>1. \A p \in Proposals : Denying(p)' => Denying(p)
    BY <1>4 DEF Track, Saved, KernelShows, PostRetries, Denying, TypeOK, HandlerRecord
  <2> QED BY <1>4, <2>1, SameReview
          DEF Track, Saved, KernelShows, PostRetries, worldVars, decideVars
<1> QED BY <1>1, <1>2, <1>3, <1>4 DEF PublishStep

LEMMA RequestReview ==
  ASSUME TypeOK, ReviewInv, NEW p \in Proposals, NEW r \in Revs, HandleSourceRequested(p, r),
         UNCHANGED <<worldVars, decideVars>>
  PROVE  ReviewInv'
<1>1. \A q \in Proposals : Denying(q)' => Denying(q)
  BY DEF HandleSourceRequested, Reblock, JoinReservation, RetireLate, Reserve, publishVars,
         Denying, TypeOK
<1> QED BY <1>1, SameReview DEF worldVars, decideVars

LEMMA WalkStepReview ==
  ASSUME TypeOK, ReviewInv, NEW j \in Jobs, WalkStep(j) PROVE ReviewInv'
<1>1. CASE RetireOrphans(j)
  BY <1>1, SameReview DEF RetireOrphans, Denying, worldVars, publishVars, decideVars
<1>2. CASE WalkEnds(j)
  BY <1>2, SameReview DEF WalkEnds, Denying, TypeOK, worldVars, publishVars
<1>3. ASSUME NEW p \in Proposals, NEW r \in Revs, Visit(j, p, r) PROVE ReviewInv'
  BY <1>3, RequestReview DEF Visit
<1> QED BY <1>1, <1>2, <1>3 DEF WalkStep

LEMMA DecisionStepReview ==
  ASSUME TypeOK, ReviewInv, NEW p \in Proposals, DecisionStep(p) PROVE ReviewInv'
<1> USE DEF ReviewInv
<1>a. UNCHANGED <<signed, handler, rail>>
  BY DEF DecisionStep, Dismiss, ReadCurrent, Commit, ResolveReaches, ResolveReturns,
         HandleDrift, RestageLists, RestageListFails, publishVars, decideVars, worldVars
<1>b. \A q \in Proposals : Denying(q)' <=> Denying(q)  BY <1>a DEF Denying
<1>c. \A q \in Proposals : q # p => run'[q] = run[q]
  BY DEF DecisionStep, Dismiss, ReadCurrent, Commit, NotPending, Drifted, Abandon, CallResolve,
         ResolveReaches, ResolveReturns, HandleDrift, RestageLists, RestageListFails, decideVars,
         TypeOK
<1>1. CASE ResolveReaches(p)
  <2>1. PICK result \in {"resolved", "failed", "drifted"} :
          /\ SourceResolves(p, IF run[p].dec = "approve" THEN "approve" ELSE "reject",
                            run[p].rev, result)
          /\ run' = [run EXCEPT ![p] = IF result = "drifted" THEN DriftedRun
                                       ELSE [run[p] EXCEPT !.st = result]]
    BY <1>1 DEF ResolveReaches
  <2>2. Reviewed(SourceOf[p]) => <<p, run[p].rev, run[p].dec>> \in signed
    BY <1>1 DEF ResolveReaches, OnlySignedRuns, SignedRun
  <2>3. Reviewed(SourceOf[p]) /\ item'[p].st = "applied" =>
          \/ item[p].st = "applied" /\ item'[p].rev = item[p].rev
          \/ item'[p].rev = run[p].rev /\ run[p].dec = "approve"
    <3> DEFINE dec == IF run[p].dec = "approve" THEN "approve" ELSE "reject"
    <3>1. SourceResolves(p, dec, run[p].rev, result)  BY <2>1
    <3>2. dec = "approve" => run[p].dec = "approve"  BY "approve" # "reject"
    <3> HIDE DEF dec
    <3>3. CASE item[p].st = "applied"  BY <3>1, <3>3, CallKeepsApplied
    <3>4. CASE item[p].st # "applied"  BY <3>1, <3>2, <3>4, CallApplies DEF Reviewed
    <3> QED BY <3>3, <3>4
  <2>4. \A q \in Proposals : q # p => item'[q] = item[q]  BY <2>1, CallExecutes
  <2>5. AppliedWasReviewed'  BY <1>a, <2>2, <2>3, <2>4 DEF AppliedWasReviewed
  <2>6. run'[p].signature => run[p].signature /\ run'[p].rev = run[p].rev
                             /\ run'[p].dec = run[p].dec
    BY <2>1 DEF DriftedRun, TypeOK, RunRecord
  <2>7. run'[p].st \notin {"read", "resolving"}  BY <2>1 DEF DriftedRun, TypeOK, RunRecord
  <2>8. OnlySignedRuns'
    BY <1>a, <1>b, <1>c, <2>6, <2>7 DEF OnlySignedRuns, SignedRun
  <2> QED BY <2>5, <2>8
<1>2. CASE ReadCurrent(p)
  <2>1. /\ run'[p].signature = run[p].signature /\ run'[p].rev = run[p].rev
        /\ run'[p].dec = run[p].dec
    BY <1>2 DEF ReadCurrent, TypeOK
  <2>2. Reviewed(SourceOf[p]) => run[p].signature
    BY <1>2 DEF ReadCurrent, Refused, CountersignatureOk, Reviewed
  <2>3. OnlySignedRuns'
    BY <1>a, <1>b, <1>c, <2>1, <2>2 DEF OnlySignedRuns, SignedRun
  <2> QED BY <1>2, <1>a, <2>3 DEF ReadCurrent, AppliedWasReviewed, worldVars
<1>3. CASE Commit(p) /\ CallResolve(p)
  <2>1. /\ run'[p].signature = run[p].signature /\ run'[p].rev = run[p].rev
        /\ run'[p].dec = run[p].dec /\ run[p].st = "read"
    BY <1>3 DEF Commit, CallResolve, TypeOK, RunRecord
  <2>2. OnlySignedRuns'
    BY <1>a, <1>b, <1>c, <2>1 DEF OnlySignedRuns, SignedRun
  <2> QED BY <1>3, <1>a, <2>2 DEF Commit, AppliedWasReviewed, worldVars
<1>4. CASE ~(ResolveReaches(p) \/ ReadCurrent(p) \/ (Commit(p) /\ CallResolve(p)))
  <2>1. item' = item
    BY <1>4 DEF DecisionStep, Dismiss, Commit, ResolveReturns, HandleDrift, RestageLists,
         RestageListFails, worldVars
  <2>2. run'[p] \in {run[p], NoRun, DriftedRun, RestagingRun}
    BY <1>4 DEF DecisionStep, Dismiss, Commit, NotPending, Drifted, Abandon, ResolveReturns,
         HandleDrift, RestageLists, RestageListFails, TypeOK, decideVars
  <2> QED BY <1>a, <1>b, <1>c, <2>1, <2>2, SameReview
<1> QED BY <1>1, <1>2, <1>3, <1>4

LEMMA SessionStepReview ==
  ASSUME TypeOK, ReviewInv, NEW p \in Proposals, SessionStep(p) PROVE ReviewInv'
<1>1. CASE SessionResolves(p)
  <2>1. ~Reviewed(SourceOf[p])
    BY <1>1 DEF SessionResolves, ReviewInv, OnlySignedRuns, SignedRun
  <2>2. \A q \in Proposals : q # p => item'[q] = item[q] /\ rail'[q] = rail[q]
    BY <1>1, CallExecutes DEF SessionResolves, TypeOK
  <2>3. UNCHANGED <<run, signed, handler>>  BY <1>1 DEF SessionResolves, publishVars
  <2> QED BY <2>1, <2>2, <2>3
          DEF ReviewInv, OnlySignedRuns, AppliedWasReviewed, SignedRun, Denying
<1>2. ASSUME NEW d \in Verdicts \cup {"convert"}, SessionCommand(p, d) PROVE ReviewInv'
  <2>1. ~Reviewed(SourceOf[p])  BY <1>2 DEF SessionCommand, Reviewed
  <2>2. \A q \in Proposals : q # p => rail'[q] = rail[q]
    BY <1>2 DEF SessionCommand, TypeOK
  <2> QED BY <1>2, <2>1, <2>2, SameReview DEF SessionCommand, Denying, worldVars, publishVars
<1> QED BY <1>1, <1>2 DEF SessionStep

LEMMA ItemStepReview ==
  ASSUME TypeOK, ReviewInv, NEW p \in Proposals, ItemStep(p) PROVE ReviewInv'
<1>1. CASE LiveEvent(p)
  <2>1. item[p].rev \in Revs  BY <1>1, ItemFilled DEF LiveEvent, TypeOK
  <2> QED BY <1>1, <2>1, RequestReview DEF LiveEvent
<1>2. CASE ~LiveEvent(p)
  <2>1. UNCHANGED <<signed, run, handler, rail>>
    BY <1>2 DEF ItemStep, Stage, Revise, SettleElsewhere, DeadlinePasses, bridgeVars,
         publishVars, decideVars
  <2>2. \A q \in Proposals : item'[q].st = "applied" =>
          item[q].st = "applied" /\ item'[q].rev = item[q].rev
    BY <1>2 DEF ItemStep, Stage, Revise, SettleElsewhere, DeadlinePasses, TypeOK, ItemRecord
  <2> QED BY <2>1, <2>2 DEF ReviewInv, OnlySignedRuns, AppliedWasReviewed, SignedRun, Denying
<1> QED BY <1>1, <1>2

LEMMA KernelStepReview ==
  ASSUME TypeOK, ReviewInv, NEW p \in Proposals, KernelStep(p) PROVE ReviewInv'
<1>1. PICK r \in Revs, d \in Decisions :
        OperatorDecides(p, r, d) \/ DeliverSigned(p, r, d) \/ DeliverUnsigned(p, r, d)
  BY BridgeAssumption DEF KernelStep
<1>2. CASE OperatorDecides(p, r, d)
  BY <1>2, SameReview DEF OperatorDecides, Denying, bridgeVars, publishVars, decideVars
<1>3. ASSUME NEW sig \in BOOLEAN, Deliver(p, r, d, sig), sig => <<p, r, d>> \in signed
      PROVE  ReviewInv'
  <2>1. UNCHANGED <<item, signed, handler, rail>>
    BY <1>3 DEF Deliver, worldVars, publishVars
  <2>2. \A q \in Proposals : q # p => run'[q] = run[q]  BY <1>3 DEF Deliver, TypeOK
  <2>3. \/ run'[p] \in {run[p], DriftedRun}
        \/ run'[p] = [st |-> "checking", rev |-> r, dec |-> d, gen |-> published[p].gen,
                      current |-> 0, signature |-> sig]
    BY <1>3 DEF Deliver, TypeOK
  <2>4. CASE run'[p] \in {run[p], DriftedRun}
    BY <2>1, <2>2, <2>4, SameReview DEF Denying
  <2>5. CASE run'[p] = [st |-> "checking", rev |-> r, dec |-> d, gen |-> published[p].gen,
                        current |-> 0, signature |-> sig]
    <3>1. OnlySignedRuns'
      <4>1. \A q \in Proposals : Denying(q)' <=> Denying(q)  BY <2>1 DEF Denying
      <4>2. ASSUME NEW q \in Proposals, Reviewed(SourceOf[q]), q # p PROVE SignedRun(q)'
        BY <2>1, <2>2, <4>1, <4>2 DEF ReviewInv, OnlySignedRuns, SignedRun
      <4>3. ASSUME Reviewed(SourceOf[p]) PROVE SignedRun(p)'
        <5>1. /\ run'[p].st = "checking" /\ run'[p].signature = sig
              /\ run'[p].rev = r /\ run'[p].dec = d
          BY <2>5
        <5>2. ~Denying(p)' /\ rail'[p] = "none"
          BY <2>1, <4>1, <4>3 DEF ReviewInv, OnlySignedRuns, SignedRun
        <5>3. sig => <<p, r, d>> \in signed'  BY <1>3, <2>1
        <5> QED BY <5>1, <5>2, <5>3 DEF SignedRun
      <4> QED BY <4>2, <4>3 DEF OnlySignedRuns, Reviewed
    <3> QED BY <2>1, <3>1 DEF ReviewInv, AppliedWasReviewed
  <2> QED BY <2>3, <2>4, <2>5
<1> QED BY <1>1, <1>2, <1>3 DEF DeliverSigned, DeliverUnsigned

LEMMA StepReview == TypeOK /\ ReviewInv /\ [Next]_vars => ReviewInv'
<1> SUFFICES ASSUME TypeOK, ReviewInv, [Next]_vars PROVE ReviewInv'  OBVIOUS
<1>1. ASSUME NEW s \in Sources, ReconcileLists(s) PROVE ReviewInv'
  BY <1>1, SameReview DEF ReconcileLists, Denying, worldVars, publishVars, decideVars
<1>2. ASSUME (\E p \in Proposals : LoopStep(p)) \/ SweepActs \/ Flush \/ UNCHANGED vars
      PROVE  ReviewInv'
  BY <1>2, SameReview
  DEF LoopStep, SweepReads, HoldExpires, BackoffEnds, SweepActs, Flush, Denying, vars, worldVars,
      publishVars, decideVars
<1>3. CASE Crash
  BY <1>3, SameReview DEF Crash, NoHandler, Denying, worldVars
<1> QED BY <1>1, <1>2, <1>3, PublishStepReview, WalkStepReview, DecisionStepReview,
           SessionStepReview, ItemStepReview, KernelStepReview DEF Next

\* An item of a reviewed source is applied only at a revision that the operator
\* approved on a card, whatever is forged, replayed, revised or lost.
THEOREM OnlyReviewedApplied == Spec => []AppliedWasReviewed
<1>1. Init => ReviewInv
  BY DEF Init, ReviewInv, OnlySignedRuns, AppliedWasReviewed, SignedRun, Denying, NoHandler, NoRun
<1>2. Spec => []ReviewInv  BY <1>1, TypeCorrect, StepReview, PTL DEF Spec
<1>3. ReviewInv => AppliedWasReviewed  BY DEF ReviewInv
<1> QED BY <1>2, <1>3, PTL

-----------------------------------------------------------------------------
(* The bridge implements ApprovalAuthority.                                *)

Had(p, r) == item[p].st # "absent" /\ r <= item[p].rev

\* Every revision the bridge is about to publish is one that its item has had.
NamedRevisions ==
  /\ \A h \in Handlers : handler[h].st # "idle" => Had(handler[h].p, handler[h].rev)
  /\ \A j \in Jobs : \A p \in Proposals, r \in Revs : <<p, r>> \in job[j].todo => Had(p, r)

\* Items only grow.
LEMMA CallGrows ==
  ASSUME TypeOK, NEW p \in Proposals, NEW dec, NEW rev, NEW result,
         SourceResolves(p, dec, rev, result)
  PROVE  \A q \in Proposals, r \in Revs : Had(q, r) => Had(q, r)'
  BY DEF SourceResolves, Had, TypeOK, ItemRecord

LEMMA SameNames ==
  ASSUME TypeOK, NamedRevisions, \A p \in Proposals, r \in Revs : Had(p, r) => Had(p, r)',
         \A h \in Handlers : handler'[h].st # "idle" =>
           /\ handler[h].st # "idle"
           /\ handler'[h].p = handler[h].p /\ handler'[h].rev = handler[h].rev,
         \A j \in Jobs : job'[j].todo \subseteq job[j].todo
  PROVE  NamedRevisions'
<1>1. ASSUME NEW h \in Handlers, handler'[h].st # "idle"
      PROVE  item'[handler'[h].p].st # "absent" /\ handler'[h].rev <= item'[handler'[h].p].rev
  <2>1. /\ handler[h].p \in Proposals /\ handler[h].rev \in Revs
        /\ Had(handler[h].p, handler[h].rev)
    BY <1>1, HandlerFilled DEF TypeOK, NamedRevisions
  <2> QED BY <1>1, <2>1 DEF Had
<1> QED BY <1>1 DEF NamedRevisions, Had

LEMMA FinishNames ==
  ASSUME TypeOK, NEW h \in Handlers, Finish(h)
  PROVE  /\ \A g \in Handlers : handler'[g].st # "idle" =>
              /\ handler[g].st # "idle"
              /\ handler'[g].p = handler[g].p /\ handler'[g].rev = handler[g].rev
         /\ \A j \in Jobs : job'[j].todo \subseteq job[j].todo
  BY DEF Finish, NoHandler, TypeOK, JobRecord

LEMMA FailClosedNames ==
  ASSUME TypeOK, NEW h \in Handlers, handler[h].st # "idle", FailClosedOrFinish(h)
  PROVE  /\ \A g \in Handlers : handler'[g].st # "idle" =>
              /\ handler[g].st # "idle"
              /\ handler'[g].p = handler[g].p /\ handler'[g].rev = handler[g].rev
         /\ \A j \in Jobs : job'[j].todo \subseteq job[j].todo
  BY FinishNames DEF FailClosedOrFinish, TypeOK, HandlerRecord

LEMMA PublishStepNames ==
  ASSUME TypeOK, NamedRevisions, NEW h \in Handlers, PublishStep(h) PROVE NamedRevisions'
<1>1. CASE DenySettles(h)
  <2>1. handler[h].p \in Proposals  BY <1>1, HandlerFilled DEF DenySettles, TypeOK
  <2> QED BY <1>1, <2>1, CallGrows, FinishNames, SameNames DEF DenySettles
<1>2. CASE SignFails(h) \/ PostFails(h)
  BY <1>2, FailClosedNames, SameNames DEF SignFails, PostFails, worldVars, Had
<1>3. CASE HoldRejected(h) \/ PostConfirmed(h)
  BY <1>3, FinishNames, SameNames DEF HoldRejected, PostConfirmed, worldVars, Had
<1>4. CASE Track(h) \/ Saved(h) \/ KernelShows(h) \/ PostRetries(h)
  <2>1. \A g \in Handlers : handler'[g].st # "idle" =>
          /\ handler[g].st # "idle"
          /\ handler'[g].p = handler[g].p /\ handler'[g].rev = handler[g].rev
    BY <1>4 DEF Track, Saved, KernelShows, PostRetries, TypeOK, HandlerRecord
  <2> QED BY <1>4, <2>1, SameNames DEF Track, Saved, KernelShows, PostRetries, worldVars, Had
<1> QED BY <1>1, <1>2, <1>3, <1>4 DEF PublishStep

LEMMA RequestNames ==
  ASSUME TypeOK, NamedRevisions, NEW p \in Proposals, NEW r \in Revs,
         HandleSourceRequested(p, r), Had(p, r), item' = item,
         \A j \in Jobs : job'[j].todo \subseteq job[j].todo
  PROVE  NamedRevisions'
<1>1. CASE Reserve(p, r)
  <2>1. \A h \in Handlers :
          \/ handler'[h] = handler[h]
          \/ handler'[h].p = p /\ handler'[h].rev = r
    BY <1>1 DEF Reserve, TypeOK
  <2> QED BY <2>1 DEF NamedRevisions, Had
<1>2. CASE ~Reserve(p, r)
  <2>1. handler' = handler
    BY <1>2 DEF HandleSourceRequested, Reblock, JoinReservation, RetireLate, publishVars
  <2> QED BY <2>1, SameNames DEF Had
<1> QED BY <1>1, <1>2

LEMMA ListsNames ==
  ASSUME TypeOK, NamedRevisions, NEW s, NEW j \in Jobs, NEW answer \in ListAnswers(s),
         job' = [job EXCEPT ![j] = [st |-> "listed", todo |-> answer, at |-> NoProposal]],
         UNCHANGED <<item, handler>>
  PROVE  NamedRevisions'
<1>1. \A p \in Proposals, r \in Revs : <<p, r>> \in answer => Had(p, r)
  BY ListsPending, ItemFilled DEF Had, TypeOK, Revs
<1> QED BY <1>1 DEF NamedRevisions, Had, TypeOK

LEMMA StepNames == TypeOK /\ NamedRevisions /\ [Next]_vars => NamedRevisions'
<1> SUFFICES ASSUME TypeOK, NamedRevisions, [Next]_vars PROVE NamedRevisions'  OBVIOUS
<1>1. ASSUME NEW s \in Sources, ReconcileLists(s) PROVE NamedRevisions'
  BY <1>1, ListsNames DEF ReconcileLists, Jobs, worldVars, publishVars
<1>2. ASSUME NEW j \in Jobs, WalkStep(j) PROVE NamedRevisions'
  <2>1. CASE RetireOrphans(j) \/ WalkEnds(j)
    <3>1. \A i \in Jobs : job'[i].todo \subseteq job[i].todo
      <4>1. CASE RetireOrphans(j)  BY <4>1 DEF RetireOrphans, TypeOK, JobRecord
      <4>2. CASE WalkEnds(j)  BY <4>2 DEF WalkEnds, NoJob, TypeOK
      <4> QED BY <2>1, <4>1, <4>2
    <3> QED BY <2>1, <3>1, SameNames DEF RetireOrphans, WalkEnds, worldVars, publishVars, Had
  <2>2. ASSUME NEW p \in Proposals, NEW r \in Revs, Visit(j, p, r) PROVE NamedRevisions'
    <3>1. \A i \in Jobs : job'[i].todo \subseteq job[i].todo  BY <2>2 DEF Visit, TypeOK
    <3>2. Had(p, r)  BY <2>2 DEF Visit, NamedRevisions
    <3> QED BY <2>2, <3>1, <3>2, RequestNames DEF Visit, worldVars
  <2> QED BY <1>2, <2>1, <2>2 DEF WalkStep
<1>3. ASSUME NEW p \in Proposals, DecisionStep(p) PROVE NamedRevisions'
  <2>1. CASE ResolveReaches(p)
    BY <2>1, CallGrows, SameNames DEF ResolveReaches, publishVars
  <2>2. CASE RestageLists(p)
    BY <2>2, ListsNames DEF RestageLists, Jobs, worldVars, publishVars
  <2>3. CASE ~(ResolveReaches(p) \/ RestageLists(p))
    <3>1. UNCHANGED <<item, handler, job>>
      BY <1>3, <2>3 DEF DecisionStep, Dismiss, ReadCurrent, Commit, ResolveReturns, HandleDrift,
           RestageListFails, worldVars, publishVars
    <3> QED BY <3>1, SameNames DEF Had
  <2> QED BY <2>1, <2>2, <2>3
<1>4. ASSUME NEW p \in Proposals, SessionStep(p) PROVE NamedRevisions'
  <2>1. CASE SessionResolves(p)
    BY <2>1, CallGrows, SameNames DEF SessionResolves, publishVars
  <2>2. CASE ~SessionResolves(p)
    BY <1>4, <2>2, SameNames DEF SessionStep, SessionCommand, worldVars, publishVars, Had
  <2> QED BY <2>1, <2>2
<1>5. ASSUME NEW p \in Proposals, ItemStep(p) PROVE NamedRevisions'
  <2>1. CASE LiveEvent(p)
    <3>1. item[p].rev \in Revs /\ Had(p, item[p].rev)
      BY <2>1, ItemFilled DEF LiveEvent, Had, TypeOK, Revs
    <3> QED BY <2>1, <3>1, RequestNames DEF LiveEvent, worldVars
  <2>2. CASE ~LiveEvent(p)
    <3>1. \A q \in Proposals, r \in Revs : Had(q, r) => Had(q, r)'
      BY <1>5, <2>2, BridgeAssumption
      DEF ItemStep, Stage, Revise, SettleElsewhere, DeadlinePasses, Had, TypeOK, ItemRecord, Revs
    <3>2. UNCHANGED <<handler, job>>
      BY <1>5, <2>2 DEF ItemStep, Stage, Revise, SettleElsewhere, DeadlinePasses, bridgeVars,
           publishVars
    <3> QED BY <3>1, <3>2, SameNames
  <2> QED BY <2>1, <2>2
<1>6. CASE (\E p \in Proposals : LoopStep(p) \/ KernelStep(p)) \/ SweepActs \/ Flush
           \/ UNCHANGED vars
  <2>1. CASE \E p \in Proposals : LoopStep(p)
    <3>1. UNCHANGED <<item, handler, job>>
      BY <2>1 DEF LoopStep, SweepReads, HoldExpires, BackoffEnds, worldVars, publishVars
    <3> QED BY <3>1, SameNames DEF Had
  <2>2. CASE \E p \in Proposals : KernelStep(p)
    <3>1. UNCHANGED <<item, handler, job>>
      BY <2>2 DEF KernelStep, OperatorDecides, DeliverSigned, DeliverUnsigned, Deliver,
           worldVars, publishVars, bridgeVars
    <3> QED BY <3>1, SameNames DEF Had
  <2>3. CASE SweepActs \/ Flush \/ UNCHANGED vars
    <3>1. UNCHANGED <<item, handler, job>>
      BY <2>3 DEF SweepActs, Flush, vars, worldVars, publishVars, bridgeVars
    <3> QED BY <3>1, SameNames DEF Had
  <2> QED BY <1>6, <2>1, <2>2, <2>3
<1>7. CASE Crash
  BY <1>7 DEF Crash, NamedRevisions, NoHandler, NoJob, worldVars
<1> QED BY <1>1, <1>2, <1>3, <1>4, <1>5, <1>6, <1>7, PublishStepNames DEF Next

\* Which sources the bridge may settle without an operator's signature over a
\* card: those of ApprovalAuthority's Direct.  Every other one is reviewed.
AllReviewed == \A s \in Sources : s \in FailClosed \cup Native \/ Reviewed(s)

\* A call at a source is the abstract Enact, AnswerDirectly, or no change.
LEMMA CallIsAuthorized ==
  ASSUME AllReviewed, TypeOK, NEW p \in Proposals, NEW d \in Decisions, NEW rev, NEW result,
         SourceResolves(p, IF d = "approve" THEN "approve" ELSE "reject", rev, result),
         Reviewed(SourceOf[p]) => <<p, rev, d>> \in signed,
         UNCHANGED <<shown, signed>>
  PROVE  [Authority!Next]_(Authority!authorityVars)
<1>1. CASE item' = item  BY <1>1 DEF Authority!authorityVars
<1>2. CASE item' # item
  <2> DEFINE st == IF d = "approve" THEN "applied" ELSE "rejected"
  <2>1. /\ item[p].st = "pending" /\ item' = [item EXCEPT ![p].st = st]
        /\ SourceOf[p] \in Pinned => item[p].rev = rev
    BY <1>2 DEF SourceResolves
  <2>2. CASE SourceOf[p] \in FailClosed \cup Native
    <3>1. Authority!AnswerDirectly(p)
      BY <2>1, <2>2 DEF Authority!AnswerDirectly, Authority!Pending
    <3> QED BY <3>1 DEF Authority!Next
  <2>3. CASE Reviewed(SourceOf[p])
    <3>1. <<p, item[p].rev, d>> \in signed  BY <2>1, <2>3 DEF Reviewed
    <3>2. Authority!Enact(p, d)  BY <2>1, <3>1 DEF Authority!Enact, Authority!Pending
    <3> QED BY <3>2 DEF Authority!Next, Decisions
  <2> QED BY <2>2, <2>3, BridgeAssumption DEF AllReviewed
<1> QED BY <1>1, <1>2

\* A call of a rail that nobody signs for is made for a Direct item only.
LEMMA DirectCall ==
  ASSUME AllReviewed, TypeOK, NEW p \in Proposals, NEW dec, NEW rev, NEW result,
         SourceResolves(p, dec, rev, result), ~Reviewed(SourceOf[p]),
         UNCHANGED <<shown, signed>>
  PROVE  [Authority!Next]_(Authority!authorityVars)
<1>1. CASE item' = item  BY <1>1 DEF Authority!authorityVars
<1>2. CASE item' # item
  <2>1. PICK st \in {"applied", "rejected"} :
          item[p].st = "pending" /\ item' = [item EXCEPT ![p].st = st]
    BY <1>2 DEF SourceResolves
  <2>2. SourceOf[p] \in FailClosed \cup Native  BY BridgeAssumption DEF AllReviewed
  <2>3. Authority!AnswerDirectly(p)
    BY <2>1, <2>2 DEF Authority!AnswerDirectly, Authority!Pending
  <2> QED BY <2>3 DEF Authority!Next
<1> QED BY <1>1, <1>2

LEMMA StepAuthorized ==
  AllReviewed /\ TypeOK /\ ReviewInv /\ NamedRevisions /\ [Next]_vars
    => [Authority!Next]_(Authority!authorityVars)
<1> SUFFICES ASSUME AllReviewed, TypeOK, ReviewInv, NamedRevisions, [Next]_vars
             PROVE  [Authority!Next]_(Authority!authorityVars)
  OBVIOUS
<1>a. ASSUME UNCHANGED <<item, shown, signed>>
      PROVE  [Authority!Next]_(Authority!authorityVars)
  BY <1>a DEF Authority!authorityVars
<1>1. ASSUME NEW h \in Handlers, PublishStep(h)
      PROVE  [Authority!Next]_(Authority!authorityVars)
  <2>1. CASE KernelShows(h)
    <3> DEFINE q == handler[h].p
               r == handler[h].rev
    <3>1. q \in Proposals /\ r \in Revs /\ Had(q, r)
      BY <2>1, HandlerFilled DEF KernelShows, NamedRevisions, TypeOK
    <3>2. shown' = shown \cup {<<q, r>>} /\ UNCHANGED <<item, signed>>
      BY <2>1 DEF KernelShows
    <3> HIDE DEF q, r
    <3>3. r \in 1..item[q].rev
      BY <3>1, BridgeAssumption, ItemFilled DEF Had, Revs, TypeOK
    <3>4. Authority!Show(q, r)  BY <3>1, <3>2, <3>3 DEF Authority!Show, Had
    <3> QED BY <3>1, <3>4 DEF Authority!Next, Revs
  <2>2. CASE DenySettles(h)
    <3>1. /\ handler[h].p \in Proposals /\ Denying(handler[h].p)
      BY <2>2, HandlerFilled DEF DenySettles, Denying, TypeOK
    <3>2. ~Reviewed(SourceOf[handler[h].p])
      BY <3>1 DEF ReviewInv, OnlySignedRuns, SignedRun
    <3> QED BY <2>2, <3>1, <3>2, DirectCall DEF DenySettles
  <2>3. CASE ~(KernelShows(h) \/ DenySettles(h))
    BY <1>1, <1>a, <2>3
    DEF PublishStep, HoldRejected, Track, SignFails, Saved, PostConfirmed, PostRetries,
        PostFails, worldVars
  <2> QED BY <2>1, <2>2, <2>3
<1>2. ASSUME NEW p \in Proposals, DecisionStep(p)
      PROVE  [Authority!Next]_(Authority!authorityVars)
  <2>1. CASE ResolveReaches(p)
    <3>1. run[p].dec \in Decisions  BY <2>1 DEF ResolveReaches, TypeOK, RunRecord
    <3>2. Reviewed(SourceOf[p]) => <<p, run[p].rev, run[p].dec>> \in signed
      BY <2>1 DEF ResolveReaches, ReviewInv, OnlySignedRuns, SignedRun
    <3> QED BY <2>1, <3>1, <3>2, CallIsAuthorized DEF ResolveReaches
  <2>2. CASE ~ResolveReaches(p)
    BY <1>2, <1>a, <2>2
    DEF DecisionStep, Dismiss, ReadCurrent, Commit, ResolveReturns, HandleDrift, RestageLists,
        RestageListFails, worldVars
  <2> QED BY <2>1, <2>2
<1>3. ASSUME NEW p \in Proposals, SessionStep(p)
      PROVE  [Authority!Next]_(Authority!authorityVars)
  <2>1. CASE SessionResolves(p)
    <3>1. ~Reviewed(SourceOf[p])
      BY <2>1 DEF SessionResolves, ReviewInv, OnlySignedRuns, SignedRun
    <3> QED BY <2>1, <3>1, DirectCall DEF SessionResolves
  <2>2. CASE ~SessionResolves(p)
    BY <1>3, <1>a, <2>2 DEF SessionStep, SessionCommand, worldVars
  <2> QED BY <2>1, <2>2
<1>4. ASSUME NEW p \in Proposals, ItemStep(p)
      PROVE  [Authority!Next]_(Authority!authorityVars)
  <2>1. CASE Stage(p)
    <3>1. Authority!Stage(p)  BY <2>1 DEF Stage, Authority!Stage
    <3> QED BY <3>1 DEF Authority!Next
  <2>2. CASE Revise(p)
    <3>1. Authority!Revise(p)  BY <2>2 DEF Revise, Authority!Revise, Authority!Pending
    <3> QED BY <3>1 DEF Authority!Next
  <2>3. CASE SettleElsewhere(p)
    <3>1. Authority!SettleElsewhere(p)
      BY <2>3 DEF SettleElsewhere, Authority!SettleElsewhere, Authority!Pending
    <3> QED BY <3>1 DEF Authority!Next
  <2>4. CASE DeadlinePasses(p) \/ LiveEvent(p)
    BY <1>a, <2>4 DEF DeadlinePasses, LiveEvent, worldVars
  <2> QED BY <1>4, <2>1, <2>2, <2>3, <2>4 DEF ItemStep
<1>5. ASSUME NEW p \in Proposals, KernelStep(p)
      PROVE  [Authority!Next]_(Authority!authorityVars)
  <2>1. PICK r \in Revs, d \in Decisions :
          OperatorDecides(p, r, d) \/ DeliverSigned(p, r, d) \/ DeliverUnsigned(p, r, d)
    BY <1>5, BridgeAssumption DEF KernelStep
  <2>2. CASE OperatorDecides(p, r, d)
    <3>1. Authority!Decide(p, r, d)
      BY <2>2 DEF OperatorDecides, Authority!Decide, Decisions
    <3> QED BY <3>1 DEF Authority!Next, Revs, Decisions
  <2>3. CASE DeliverSigned(p, r, d) \/ DeliverUnsigned(p, r, d)
    BY <1>a, <2>3 DEF DeliverSigned, DeliverUnsigned, Deliver, worldVars
  <2> QED BY <2>1, <2>2, <2>3
<1>6. CASE \E j \in Jobs : WalkStep(j)
  BY <1>6, <1>a DEF WalkStep, RetireOrphans, WalkEnds, Visit, worldVars
<1>7. CASE \/ \E s \in Sources : ReconcileLists(s)
           \/ \E p \in Proposals : LoopStep(p)
           \/ SweepActs \/ Flush \/ Crash \/ UNCHANGED vars
  BY <1>7, <1>a
  DEF ReconcileLists, LoopStep, SweepReads, HoldExpires, BackoffEnds, SweepActs, Flush,
      Crash, worldVars, vars
<1> QED BY <1>1, <1>2, <1>3, <1>4, <1>5, <1>6, <1>7 DEF Next

\* The bridge implements the promise made to its operator: an item changes only
\* by its source's own doing, by a decision on a card that showed the pending
\* revision, or, for the Direct ones, by an answer to a caller that waits.
THEOREM BridgeKeepsAuthority == ASSUME AllReviewed PROVE Spec => KeepsAuthority
<1>1. Init => Authority!Init  BY DEF Init, Authority!Init
<1>2. Init => ReviewInv
  BY DEF Init, ReviewInv, OnlySignedRuns, AppliedWasReviewed, SignedRun, Denying, NoHandler, NoRun
<1>3. Init => NamedRevisions  BY DEF Init, NamedRevisions, NoHandler, NoJob
<1>4. TypeOK /\ ReviewInv /\ NamedRevisions /\ [Next]_vars
        => [Authority!Next]_(Authority!authorityVars)
  BY StepAuthorized
<1>5. Spec => Authority!Init /\ [][Authority!Next]_(Authority!authorityVars)
  BY <1>1, <1>2, <1>3, <1>4, TypeCorrect, StepReview, StepNames, PTL DEF Spec
<1> QED BY <1>5 DEF KeepsAuthority, Authority!Spec
=============================================================================
