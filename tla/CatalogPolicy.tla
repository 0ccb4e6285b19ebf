----------------------------- MODULE CatalogPolicy -----------------------------
(***************************************************************************)
(* The allow list of models under the operator's signature (src/sources/   *)
(* imajin-catalog.ts): what discovery found and what the configuration     *)
(* allows make a delta; the delta is a card; and an approval of the card   *)
(* writes the delta, if it still is the delta, on the configuration it was *)
(* computed from.                                                          *)
(*                                                                         *)
(* Abstractions.  A ref is the exact ref of a model, its ref under a       *)
(* legacy provider, a wildcard over all of them, or something else that is *)
(* the operator's.  "default" among the discovered names is the selector   *)
(* that a picked model adds.  A delta is its own hash, and so is a         *)
(* configuration.  The bridge that signs and restages the cards is         *)
(* ApprovalsBridge; here any card it ever had may be decided, any number   *)
(* of times.                                                               *)
(***************************************************************************)
EXTENDS Integers, FiniteSets

CONSTANTS
  Models,    \* models of the kernel
  Readers,   \* concurrent calls of pending that may ask for a card
  Lists,     \* bound: the allow lists that the operator writes
  Found,     \* bound: the sets of names that discovery finds
  MaxIds,    \* bound: proposals
  MaxEdits,  \* bound: changes of the configuration, or of what discovery finds
  MaxFaults  \* bound: lost replies, failed writes and crashes

Names == Models \cup {"default"}
Ref(kind, name) == [kind |-> kind, name |-> name]
Exact(n) == Ref("exact", n)
Legacy(n) == Ref("legacy", n)
Wildcard == Ref("wildcard", "all")
Other == Ref("other", "all")
Refs == {Exact(n) : n \in Names} \cup {Legacy(n) : n \in Models} \cup {Wildcard, Other}

VARIABLES
  allow,    \* agents.defaults.modelPolicy.allow
  follows,  \* the default model is the kernel's pick
  ready,    \* the last discovery succeeded
  names,    \* what it found, the selector included
  prop,     \* proposalState
  kept,     \* and as the bridge's state file has it
  reader,   \* the calls of subscribe's timer, of list and of getCurrent
  res,      \* the call of resolve
  cards,    \* every request that reached the bridge: its id and its delta
  spent,    \* ids whose approval was applied; nothing reads it
  ids, edits, faults

config == <<allow, follows>>
discovery == <<ready, names>>
vars == <<config, discovery, prop, kept, reader, res, cards, spent, ids, edits, faults>>

NoDelta == [add |-> {}, remove |-> {}, float |-> FALSE, empties |-> FALSE]
Nobody == [delta |-> NoDelta, id |-> 0, dismissed |-> FALSE]
Snapshot(list, on) == [allow |-> list, follows |-> on]
NoRead == [step |-> "idle", seen |-> Snapshot({}, FALSE), delta |-> NoDelta]
NoCard == [id |-> 0, delta |-> NoDelta]
NoResolve == [step |-> "idle", card |-> NoCard, approve |-> FALSE, seen |-> Snapshot({}, FALSE)]

Deltas == [add : SUBSET Refs, remove : SUBSET Refs, float : BOOLEAN, empties : BOOLEAN]
TypeOK ==
  /\ allow \subseteq Refs /\ follows \in BOOLEAN /\ ready \in BOOLEAN /\ names \subseteq Names
  /\ \A p \in {prop, kept} : p.delta \in Deltas /\ p.id \in 0..MaxIds /\ p.dismissed \in BOOLEAN
  /\ \A c \in cards : c.id \in 1..MaxIds /\ c.delta \in Deltas
  /\ \A r \in Readers : reader[r].step \in {"idle", "read", "identify", "written"}
  /\ res.step \in {"idle", "read", "patch", "patched", "forget", "written"}
  /\ spent \subseteq 1..MaxIds

-----------------------------------------------------------------------------
(* The delta. *)

\* isModelRefAllowedByPolicy: an empty list allows every model.
Allowed(list, n) == list = {} \/ {Exact(n), Wildcard} \cap list # {}

\* buildImajinAllowListDelta: exact refs come and go with discovery; a legacy one
\* goes once its replacement is allowed; wildcards stay.
Added(list, found) == {Exact(n) : n \in {x \in found : ~Allowed(list, x)}}
Removed(list, found) ==
  ({Exact(n) : n \in Names \ found} \cup {Legacy(n) : n \in {x \in found \cap Models : Allowed(list, x)}})
    \cap list

\* buildDefaultChange: offered with the selector, unless the default follows it.
Floats(s, found) == "default" \in found /\ ~s.follows

Empties(s, add, remove) == add = {} /\ s.allow \subseteq remove
DeltaOf(s, found) ==
  LET add == Added(s.allow, found)
      remove == Removed(s.allow, found) IN
  IF add = {} /\ remove = {} /\ ~Floats(s, found) THEN NoDelta
  ELSE [add |-> add, remove |-> remove, float |-> Floats(s, found),
        empties |-> Empties(s, add, remove)]

-----------------------------------------------------------------------------
(* Who is asked about a delta. *)

Init ==
  /\ allow \in Lists /\ follows \in BOOLEAN /\ ready = FALSE /\ names = {}
  /\ prop = Nobody /\ kept = Nobody
  /\ reader = [r \in Readers |-> NoRead] /\ res = NoResolve
  /\ cards = {} /\ spent = {} /\ ids = 0 /\ edits = 0 /\ faults = 0

Fault == faults < MaxFaults /\ faults' = faults + 1
Reader(r, x) == reader' = [reader EXCEPT ![r] = x]

\* identify: a new delta is a new proposal, in memory at once.
Known(delta) == prop.delta = delta
Identify(delta) ==
  IF Known(delta) THEN UNCHANGED <<prop, ids>>
  ELSE IF delta = NoDelta THEN prop' = Nobody /\ ids' = ids
  ELSE /\ ids < MaxIds /\ ids' = ids + 1
       /\ prop' = [delta |-> delta, id |-> ids + 1, dismissed |-> FALSE]

\* pending: discovery must be ready before config.get ...
Asks(r) ==
  /\ reader[r].step = "idle" /\ ready
  /\ Reader(r, [NoRead EXCEPT !.step = "read", !.seen = Snapshot(allow, follows)])
  /\ UNCHANGED <<config, discovery, prop, kept, res, cards, spent, ids, edits, faults>>

\* ... and after it, for what it found may have changed meanwhile.
Reads(r) ==
  /\ reader[r].step = "read"
  /\ IF ~ready THEN Reader(r, NoRead) /\ UNCHANGED <<prop, ids>>
     ELSE LET delta == DeltaOf(reader[r].seen, names) IN
          /\ Identify(delta)
          /\ Reader(r, [reader[r] EXCEPT !.delta = delta,
                                         !.step = IF Known(delta) THEN "written" ELSE "identify"])
  /\ UNCHANGED <<config, discovery, kept, res, cards, spent, edits, faults>>
ReadFails(r) ==
  /\ reader[r].step = "read" /\ Fault /\ Reader(r, NoRead)
  /\ UNCHANGED <<config, discovery, prop, kept, res, cards, spent, ids, edits>>

\* persistState writes what the proposal is by then.
Persists(r) ==
  /\ reader[r].step = "identify"
  /\ \/ kept' = prop /\ Reader(r, [reader[r] EXCEPT !.step = "written"]) /\ UNCHANGED faults
     \/ Fault /\ Reader(r, NoRead) /\ UNCHANGED kept
  /\ UNCHANGED <<config, discovery, prop, res, cards, spent, ids, edits>>

\* list, poll, getCurrent: the delta goes out under the id of the moment, which
\* another call may have replaced, unless it was ignored or there is none.
Requests(r) ==
  /\ reader[r].step = "written" /\ Reader(r, NoRead)
  /\ cards' = IF reader[r].delta = NoDelta \/ prop.dismissed \/ prop.id = 0 THEN cards
              ELSE cards \cup {[id |-> prop.id, delta |-> reader[r].delta]}
  /\ UNCHANGED <<config, discovery, prop, kept, res, spent, ids, edits, faults>>

-----------------------------------------------------------------------------
(* resolve. *)

\* The operator decides on a card, whatever became of it.
Decides(c, approve) ==
  /\ res.step = "idle" /\ c \in cards /\ ready
  /\ res' = [step |-> "read", card |-> c, approve |-> approve, seen |-> Snapshot(allow, follows)]
  /\ UNCHANGED <<config, discovery, prop, kept, reader, cards, spent, ids, edits, faults>>

SameRevision(card, delta) == card.id = prop.id /\ card.delta = delta

\* pending again, and a drift is an error.  (Bound: the write of a proposal that
\* this call is the first to see is one step with it, as it can only drift.)
Checks ==
  /\ res.step = "read"
  /\ LET delta == DeltaOf(res.seen, names) IN
     IF ~ready THEN res' = NoResolve /\ UNCHANGED <<prop, kept, ids>>
     ELSE IF ~Known(delta) THEN Identify(delta) /\ kept' = prop' /\ res' = NoResolve
     ELSE IF delta = NoDelta \/ prop.dismissed \/ ~SameRevision(res.card, delta)
     THEN res' = NoResolve /\ UNCHANGED <<prop, kept, ids>>
     ELSE IF res.approve
     THEN res' = [res EXCEPT !.step = "patch", !.card.delta = delta] /\ UNCHANGED <<prop, kept, ids>>
     ELSE /\ prop' = [prop EXCEPT !.dismissed = TRUE] /\ UNCHANGED <<kept, ids>>
          /\ res' = [res EXCEPT !.step = "forget"]
  /\ UNCHANGED <<config, discovery, reader, cards, spent, edits, faults>>

\* Variant: config.patch names no base.
AnyBase(seen) == TRUE
BaseHash(seen) == seen = Snapshot(allow, follows)

\* config.patch replaces the whole list with the one computed from the snapshot,
\* if the configuration is still that one; its reply may be lost.
NextAllow(seen, delta) == (seen.allow \ delta.remove) \cup delta.add
Patches ==
  /\ res.step = "patch"
  /\ IF BaseHash(res.seen)
     THEN /\ allow' = NextAllow(res.seen, res.card.delta) /\ follows' = (follows \/ res.card.delta.float)
          /\ \/ res' = [res EXCEPT !.step = "patched"] /\ UNCHANGED faults
             \/ res' = NoResolve /\ Fault
     ELSE res' = NoResolve /\ UNCHANGED <<config, faults>>
  /\ UNCHANGED <<discovery, prop, kept, reader, cards, spent, ids, edits>>

\* Variant: the proposal is left to the next poll.
KeepsProposal == prop
Forgotten == Nobody
\* "A recurrence needs fresh consent, not a consumed replay-guard id."
Forgets ==
  /\ res.step = "patched" /\ prop' = Forgotten
  /\ res' = [res EXCEPT !.step = "forget"]
  /\ UNCHANGED <<config, discovery, kept, reader, cards, spent, ids, edits, faults>>
Applied ==
  /\ res.step = "forget" /\ res' = NoResolve
  /\ \/ /\ kept' = prop /\ UNCHANGED faults
        /\ spent' = IF res.approve THEN spent \cup {res.card.id} ELSE spent
     \/ Fault /\ UNCHANGED <<kept, spent>>
  /\ UNCHANGED <<config, discovery, prop, reader, cards, ids, edits>>

-----------------------------------------------------------------------------
(* The world around. *)

Edit == edits < MaxEdits /\ edits' = edits + 1

\* Someone edits the configuration: the list, or the default model.
Edits ==
  /\ Edit
  /\ \/ allow' \in Lists \ {allow} /\ follows' = follows
     \/ follows' = ~follows /\ allow' = allow
  /\ UNCHANGED <<discovery, prop, kept, reader, res, cards, spent, ids, faults>>

\* A discovery ends, the first one free; a failed one leaves what was found.
Discovers(found) ==
  /\ IF ready \/ names # {} THEN Edit ELSE edits' = edits
  /\ <<TRUE, found>> # discovery
  /\ ready' = TRUE /\ names' = found
  /\ UNCHANGED <<config, prop, kept, reader, res, cards, spent, ids, faults>>
DiscoveryFails ==
  /\ ready /\ Edit /\ ready' = FALSE
  /\ UNCHANGED <<config, names, prop, kept, reader, res, cards, spent, ids, faults>>

Crash ==
  /\ Fault /\ ready' = FALSE /\ names' = {} /\ prop' = kept
  /\ reader' = [r \in Readers |-> NoRead] /\ res' = NoResolve
  /\ UNCHANGED <<config, kept, cards, spent, ids, edits>>

Step ==
  \/ \E r \in Readers : Asks(r) \/ Reads(r) \/ ReadFails(r) \/ Persists(r) \/ Requests(r)
  \/ \E c \in cards, approve \in BOOLEAN : Decides(c, approve)
  \/ Checks \/ Patches \/ Forgets \/ Applied
  \/ Edits \/ (\E found \in Found : Discovers(found)) \/ DiscoveryFails \/ Crash

Spec == Init /\ [][Step]_vars

-----------------------------------------------------------------------------
(* Properties. *)

\* A write is the reviewed delta and nothing else, on the list as it is then: it
\* adds and removes what the card says, and leaves an empty list, which allows
\* every model, only where the card warned of it.  (resolve)
WritesReviewed ==
  [][Patches /\ config' # config =>
       \E c \in cards : /\ c.id = res.card.id
                        /\ allow' = (allow \ c.delta.remove) \cup c.delta.add
                        /\ (allow' = {} => allow = {} \/ c.delta.empties)
                        /\ (follows' # follows => c.delta.float)]_vars

\* Once resolve has applied an approval and saved that the proposal is done with, it is not
\* asked about again, also after a restart: a delta that comes back needs a card of its own.
\* (A patch whose reply was lost, or a crash before that save, keeps the proposal.)
\* (identify, resolve)
SpentStaysSpent == {prop.id, kept.id} \cap spent = {}
=============================================================================
