-------------------------- MODULE SkillWorkshopSource --------------------------
(***************************************************************************)
(* The skill workshop as a source of the approvals bridge                  *)
(* (sources/skill-workshop.ts), for one of its proposals: what it says is  *)
(* listed by one request, its revision, if the gateway's list has none,    *)
(* inspected by another, and either may be asked for by the poll, by a     *)
(* reconcile and by a decision run at once, while the proposal is revised. *)
(*                                                                         *)
(* Abstractions.  A revision hash is the version it was made of; a card is *)
(* what it shows (DetailOf, cut to its bounds) and the revision it pins.   *)
(* Of the bridge there is the card it tracks, from its reservation on, and *)
(* a run's ways with it; the rest is ApprovalsBridge.                      *)
(***************************************************************************)
EXTENDS Naturals, Sequences

CONSTANTS
  DetailOf,      \* what a card shows of each version
  MaxFailures,   \* bound: failed requests and restarts
  MaxDecisions,  \* bound: decisions of the operator
  None           \* no card, no entry

VARIABLES
  version,    \* the pending content, 0 when the proposal is settled
  revised,    \* the latest content so far
  lists,      \* the gateway's list has revision hashes
  default,    \* the proposal is the default agent's
  cache,      \* revisions: updatedAt and the hash that was inspected, or None
  known,      \* the request reported last and its retryAtMs, or None
  owned,      \* agentByProposal has it
  call,       \* of each caller: [pc, at, rev]
  card,       \* the tracked card, or None
  posting,    \* it is being published
  run,        \* the decision run: [pc, card]
  applied,    \* history: the cards applied, each with the content it was applied to
  failures, decisions

world == <<version, revised, lists, default>>
source == <<cache, known, owned>>
bridge == <<card, posting, run>>

Versions == 1..Len(DetailOf)
Details == {DetailOf[v] : v \in Versions}
Cards == [shows : Details, rev : Versions]
Callers == {"poll", "reconcile", "run"}
Idle == [pc |-> "idle", at |-> 0, rev |-> 0]

WorkshopTypeOK ==
  /\ version \in {0, revised} /\ revised \in Versions /\ lists \in BOOLEAN /\ default \in BOOLEAN
  /\ cache \in [at : Versions, rev : Versions] \cup {None}
  /\ known \in [card : Cards, retry : {"no", "later", "due"}] \cup {None} /\ owned \in BOOLEAN
  /\ call \in [Callers -> [pc : {"idle", "asked", "listed", "inspect", "inspected", "failed", "done"},
                           at : 0..Len(DetailOf), rev : 0..Len(DetailOf)]]
  /\ card \in Cards \cup {None} /\ posting \in BOOLEAN
  /\ run \in [pc : {"idle", "current", "resolve", "restage"}, card : Cards \cup {None}]
  /\ applied \subseteq Cards \X Versions
  /\ failures \in 0..MaxFailures /\ decisions \in 0..MaxDecisions

WorkshopInit ==
  /\ version = 1 /\ revised = 1 /\ lists \in BOOLEAN /\ default \in BOOLEAN
  /\ cache = None /\ known = None /\ owned = FALSE
  /\ call = [c \in Callers |-> Idle] /\ card = None /\ posting = FALSE
  /\ run = [pc |-> "idle", card |-> None]
  /\ applied = {} /\ failures = 0 /\ decisions = 0

Fails == failures < MaxFailures /\ failures' = failures + 1

-----------------------------------------------------------------------------
(* The workshop. *)

Revises ==
  /\ version # 0 /\ revised < Len(DetailOf)
  /\ revised' = revised + 1 /\ version' = revised + 1
  /\ UNCHANGED <<lists, default, source, call, bridge, applied, failures, decisions>>

Withdrawn ==
  /\ version # 0 /\ version' = 0
  /\ UNCHANGED <<revised, lists, default, source, call, bridge, applied, failures, decisions>>

-----------------------------------------------------------------------------
(* pending, pendingFor and hydrate, for each caller. *)

Asks(c) == call' = [call EXCEPT ![c] = [Idle EXCEPT !.pc = "asked"]]

\* What a run has to know of this proposal, or fail.
Required(c) == c = "run" /\ run.pc = "current"

\* getCurrent asks the owning agent when it is known, else every agent, as the others do;
\* one that cannot be asked is left out, but not when this revision is required.  Without
\* agents.list the default agent is asked alone.
ListReturns(c) ==
  /\ call[c].pc = "asked"
  /\ \/ call' = [call EXCEPT ![c] = [pc |-> "listed", at |-> version, rev |-> 0]] /\ UNCHANGED failures
     \/ /\ Fails
        /\ \/ call' = [call EXCEPT ![c].pc = "failed"]
           \/ /\ ~Required(c) \/ (~owned /\ ~default)
              /\ call' = [call EXCEPT ![c].pc = "done"]
  /\ UNCHANGED <<world, source, bridge, applied, decisions>>

\* The answer: whose it is, and its revision from the list, from the cache or to be asked for.
Hydrates(c) ==
  LET at == call[c].at
      hit == cache # None /\ cache.at = at IN
  /\ call[c].pc = "listed"
  /\ IF at = 0 THEN call' = [call EXCEPT ![c].pc = "done"] /\ UNCHANGED <<cache, owned>>
     ELSE /\ cache' = IF hit /\ ~lists THEN cache ELSE None
          /\ call' = [call EXCEPT ![c] = CASE lists -> [pc |-> "done", at |-> at, rev |-> at]
                                           [] ~lists /\ hit -> [pc |-> "done", at |-> at, rev |-> cache.rev]
                                           [] OTHER -> [pc |-> "inspect", at |-> at, rev |-> 0]]
          /\ owned' = (owned \/ lists \/ hit)
  /\ UNCHANGED <<world, known, bridge, applied, failures, decisions>>

Inspects(c) ==
  /\ call[c].pc = "inspect" /\ call' = [call EXCEPT ![c].pc = "inspected", ![c].rev = version]
  /\ UNCHANGED <<world, source, bridge, applied, failures, decisions>>

\* A failed inspect leaves the proposal out, or fails the call that requires it.
Inspected(c) ==
  /\ call[c].pc \in {"inspect", "inspected"}
  /\ \/ /\ call[c].rev # 0 /\ UNCHANGED failures
        /\ cache' = [at |-> call[c].at, rev |-> call[c].rev] /\ owned' = TRUE
        /\ call' = [call EXCEPT ![c].pc = "done"]
     \/ /\ IF call[c].pc = "inspected" THEN call[c].rev = 0 /\ UNCHANGED failures ELSE Fails
        /\ call' = [call EXCEPT ![c] = [Idle EXCEPT !.pc = IF Required(c) THEN "failed" ELSE "done"]]
        /\ UNCHANGED <<cache, owned>>
  /\ UNCHANGED <<world, known, bridge, applied, decisions>>

Answered(c) == call[c].pc = "done"
Excluded(c) == call[c].rev = 0
CardOf(c) == [shows |-> DetailOf[call[c].at], rev |-> call[c].rev]
Ends(c) == call' = [call EXCEPT ![c] = Idle]

-----------------------------------------------------------------------------
(* What the callers make of it.  The bridge takes a request for an item of *)
(* which it has no card.                                                   *)

Offered(c) == IF card = None THEN card' = CardOf(c) /\ posting' = TRUE ELSE UNCHANGED <<card, posting>>
Reported(c) == known # None /\ known.card = CardOf(c)

PollAsks ==
  /\ call["poll"].pc = "idle" /\ Asks("poll")
  /\ UNCHANGED <<world, source, bridge, applied, failures, decisions>>

\* runPoll: what was reported is not reported again, but for one whose time has come.
Polled ==
  /\ Answered("poll") /\ Ends("poll")
  /\ IF Excluded("poll") \/ (Reported("poll") /\ known.retry # "due")
       THEN UNCHANGED <<known, card, posting>>
       ELSE known' = [card |-> CardOf("poll"), retry |-> "no"] /\ Offered("poll")
  /\ UNCHANGED <<world, cache, owned, run, applied, failures, decisions>>

ReconcileAsks ==
  /\ call["reconcile"].pc = "idle" /\ Asks("reconcile")
  /\ UNCHANGED <<world, source, bridge, applied, failures, decisions>>

\* list, and reconcileSource: a card that is not in it is retired.
TakesList(c) ==
  IF Excluded(c)
    THEN card' = None /\ posting' = FALSE /\ UNCHANGED known
    ELSE /\ known' = IF Reported(c) THEN known ELSE [card |-> CardOf(c), retry |-> "no"]
         /\ Offered(c)

Reconciled ==
  /\ Answered("reconcile") /\ Ends("reconcile") /\ TakesList("reconcile")
  /\ UNCHANGED <<world, cache, owned, run, applied, failures, decisions>>

CallFails(c) ==
  /\ call[c].pc = "failed" /\ Ends(c)
  /\ run' = IF c = "run" THEN [pc |-> "idle", card |-> None] ELSE run
  /\ UNCHANGED <<world, source, card, posting, applied, failures, decisions>>

Posts ==
  /\ posting /\ posting' = FALSE
  /\ UNCHANGED <<world, source, call, card, run, applied, failures, decisions>>

\* onPublishFailed: forgotten, or, refused for good by the kernel, kept for a time.
PostFails ==
  /\ posting /\ posting' = FALSE /\ card' = None /\ Fails
  /\ known' \in {None} \cup (IF known = None THEN {} ELSE {[known EXCEPT !.retry = "later"]})
  /\ UNCHANGED <<world, cache, owned, call, run, applied, decisions>>

RetryDue ==
  /\ known # None /\ known.retry = "later" /\ known' = [known EXCEPT !.retry = "due"]
  /\ UNCHANGED <<world, cache, owned, call, bridge, applied, failures, decisions>>

-----------------------------------------------------------------------------
(* The decision run of the bridge: getCurrent, the comparison, resolve. *)

Decides ==
  /\ card # None /\ ~posting /\ run.pc = "idle" /\ decisions < MaxDecisions
  /\ decisions' = decisions + 1
  /\ run' = [pc |-> "current", card |-> card] /\ Asks("run")
  /\ UNCHANGED <<world, source, card, posting, applied, failures>>

\* Variant: the revision is enough.
SameRevision == CardOf("run").rev = run.card.rev
\* The digest is of what the card shows as well as of the revision.
SameContent == CardOf("run") = run.card

Restages == /\ card' = None /\ posting' = FALSE /\ run' = [run EXCEPT !.pc = "restage"] /\ Asks("run")
Forgets == card' = None /\ posting' = FALSE /\ run' = [pc |-> "idle", card |-> None]
Superseded == run' = [pc |-> "idle", card |-> None] /\ UNCHANGED <<card, posting>>

Compared ==
  /\ run.pc = "current" /\ Answered("run")
  /\ CASE card # run.card -> Superseded /\ Ends("run")
       [] card = run.card /\ Excluded("run") -> Forgets /\ Ends("run")
       [] card = run.card /\ ~Excluded("run") /\ SameContent ->
            run' = [run EXCEPT !.pc = "resolve"] /\ Ends("run") /\ UNCHANGED <<card, posting>>
       [] OTHER -> Restages
  /\ UNCHANGED <<world, source, applied, failures, decisions>>

\* resolve: the gateway applies the revision that is expected, of the agent it is asked for.
Resolves ==
  /\ run.pc = "resolve"
  /\ \/ /\ version = run.card.rev /\ (owned \/ default)
        /\ version' = 0 /\ applied' = applied \cup {<<run.card, version>>}
        /\ Forgets /\ UNCHANGED <<call, failures>>
     \/ /\ version \notin {0, run.card.rev} /\ (owned \/ default)
        /\ Restages /\ UNCHANGED <<version, applied, failures>>
     \/ /\ version = 0 \/ ~(owned \/ default)
        /\ Superseded /\ UNCHANGED <<version, call, applied, failures>>
     \/ Fails /\ Superseded /\ UNCHANGED <<version, call, applied>>
  /\ UNCHANGED <<revised, lists, default, source, decisions>>

Restaged ==
  /\ run.pc = "restage" /\ Answered("run") /\ Ends("run")
  /\ TakesList("run") /\ run' = [pc |-> "idle", card |-> None]
  /\ UNCHANGED <<world, cache, owned, applied, failures, decisions>>

\* The tracked card is on disk, the rest is not.
Restarts ==
  /\ Fails /\ cache' = None /\ known' = None /\ owned' = FALSE
  /\ call' = [c \in Callers |-> Idle] /\ run' = [pc |-> "idle", card |-> None] /\ posting' = FALSE
  /\ UNCHANGED <<world, card, applied, decisions>>

-----------------------------------------------------------------------------
WorkshopStep ==
  \/ Revises \/ Withdrawn \/ PollAsks \/ Polled \/ ReconcileAsks \/ Reconciled
  \/ \E c \in Callers : ListReturns(c) \/ Hydrates(c) \/ Inspects(c) \/ Inspected(c) \/ CallFails(c)
  \/ Posts \/ PostFails \/ RetryDue \/ Decides \/ Compared \/ Resolves \/ Restaged \/ Restarts

-----------------------------------------------------------------------------
\* What is applied is what the card showed, though it was listed, inspected, and asked
\* about by requests between any of which it may have been revised.  (getCurrent:406)
AppliedIsShown == \A pair \in applied : pair[1].shows = DetailOf[pair[2]]
=============================================================================
