----------------------------- MODULE HorizonSync -----------------------------
(***************************************************************************)
(* The horizon rail (src/horizon): facts about the items of a local file   *)
(* go up to the kernel as signed envelopes, and the kernel's view of them  *)
(* comes back into the file.                                               *)
(*                                                                         *)
(* A tick reads the file, drains the outbox saved in the cursor, plans the *)
(* facts that are new against the cursor, saves them as the next outbox,   *)
(* drains it, and reads the kernel back into the file.  The outbox holds   *)
(* exact envelopes: they are resent as they are, and once older than the   *)
(* kernel's window only a receipt can acknowledge them.                    *)
(*                                                                         *)
(* Abstractions.  An item has a version of its free text, a zone, an       *)
(* immutable declaration and what the readback noted of the kernel; of its *)
(* facts only "finished" is kept.  `at' is lastAt + 1, the code's value    *)
(* when the clock has not moved.  A file that cannot be parsed only delays *)
(* a tick, and a `rerun' is a tick that starts as the last one ends.  The  *)
(* lock that serializes two instances on one cursor is one instance.       *)
(***************************************************************************)
EXTENDS Integers, Sequences, SequencesExt, FiniteSets

CONSTANTS
  NumItems,    \* the file's items are 1..NumItems, in order
  MaxVersion,  \* bound: versions of an item's text
  MaxEdits,    \* bound: edits of the file
  MaxRestarts  \* bound: restarts and stops of the gateway

ASSUME HorizonAssumption ==
  NumItems \in Nat /\ MaxVersion \in Nat /\ MaxEdits \in Nat /\ MaxRestarts \in Nat

Items == 1..NumItems
KernelStates == {"none", "active", "exited"}

\* HorizonItem; `kernel' is its kernelState.
Item(kind, version, zone, kernel) ==
  [kind |-> kind, version |-> version, zone |-> zone, kernel |-> kernel]
ItemRecord == [kind : {1, 2}, version : 0..MaxVersion, zone : {"near", "done"}, kernel : KernelStates]

\* A signed StepRequest: all of one batch carry its `at'.
Requests == [item : Items, type : {"queued", "updated", "finished"},
             version : 0..MaxVersion, at : Nat]

\* ItemCursor: what has been told of an item.
Untold == [kind |-> 0, version |-> 0, finished |-> FALSE]
Empty == [requests |-> <<>>, steps |-> [i \in Items |-> Untold], at |-> 0, on |-> FALSE]

VARIABLES
  file,     \* horizon.json
  cursor,   \* the saved Cursor: lastAt, steps, pending
  dead,     \* the dead-letter file: requests with the status they were refused with
  pc,       \* where the running tick is
  items,    \* the snapshot it read
  reply,    \* the kernel's reply to its POST
  own,      \* the kernel's steps as its readback fetched them
  raw,      \* the file as its readback read it again
  stopped,
  aged,     \* the saved outbox is older than the kernel's window
  wire,     \* POSTs on their way to the kernel
  applied,  \* the envelopes the kernel has applied, in order
  refused,  \* and those it has judged and refused
  kernel,   \* its state of each item
  planned,  \* every envelope ever saved for sending; nothing reads it
  byHand,   \* the items a local edit moved to done; nothing reads it
  edits, restarts

tick == <<pc, items, reply, own, raw>>
remote == <<wire, applied, refused, kernel>>
local == <<file, byHand, edits>>
vars == <<file, cursor, dead, tick, stopped, aged, remote, planned, byHand, edits, restarts>>

NoFile == [i \in Items |-> Item(1, 0, "near", "none")]
NoSteps == [i \in Items |-> "none"]
DeadRequests == {d.request : d \in dead}
Applied == {applied[k] : k \in 1..Len(applied)}

TypeOK ==
  /\ file \in [Items -> ItemRecord] /\ items \in [Items -> ItemRecord] /\ raw \in [Items -> ItemRecord]
  /\ cursor.lastAt \in Nat /\ cursor.pending.at \in Nat /\ cursor.pending.on \in BOOLEAN
  /\ \A i \in Items : \A s \in {cursor.steps[i], cursor.pending.steps[i]} :
       s \in [kind : 0..2, version : 0..MaxVersion, finished : BOOLEAN]
  /\ planned \subseteq Requests /\ DeadRequests \cup Applied \cup wire \cup refused \subseteq planned
  /\ pc \in {"idle", "drain", "posted", "receipt", "ack", "diff", "fetch", "reread",
             "compare", "save"}
  /\ reply \in {"none", "ack", "transient", "400", "401", "422"}
  /\ own \in [Items -> KernelStates] /\ kernel \in [Items -> KernelStates]
  /\ stopped \in BOOLEAN /\ aged \in BOOLEAN /\ byHand \subseteq Items

-----------------------------------------------------------------------------
(* What a tick publishes. *)

\* completionFacts: completion read back from the kernel is not the harness's to claim.
Finished(x) == x.zone = "done" /\ x.kernel # "exited"

\* planDiff for one item: the facts the cursor has not told yet.  A new item's
\* text goes with its declaration.
FactsOf(i, x, told) ==
  [type : (IF told.kind = 0 THEN {"queued"} ELSE {})
            \cup (IF told.kind # 0 /\ told.version # x.version THEN {"updated"} ELSE {})
            \cup (IF Finished(x) /\ ~told.finished THEN {"finished"} ELSE {}),
   item : {i}, version : {x.version}]
ToldAfter(x, told) ==
  [kind |-> x.kind, version |-> x.version, finished |-> told.finished \/ Finished(x)]

Rank(r) == CASE r.type = "queued" -> 1 [] r.type = "updated" -> 2 [] OTHER -> 3
InPlanOrder(r, s) == r.item < s.item \/ (r.item = s.item /\ Rank(r) < Rank(s))
Plan(xs, told, at) ==
  LET facts == UNION {FactsOf(i, xs[i], told[i]) : i \in Items} IN
  {[item |-> f.item, type |-> f.type, version |-> f.version, at |-> at] : f \in facts}
\* The plan as a sequence; there is one.
Ordered(plan) ==
  {q \in [1..Cardinality(plan) -> plan] : \A j, k \in DOMAIN q : j < k => InPlanOrder(q[j], q[k])}

\* planDiff throws when the declaration of an item it has told of changed.
DeclarationChanged(xs, told) == \E i \in Items : told[i].kind \notin {0, xs[i].kind}

-----------------------------------------------------------------------------

Init ==
  /\ file = NoFile /\ items = NoFile /\ raw = NoFile /\ own = NoSteps
  /\ cursor = [lastAt |-> 0, steps |-> [i \in Items |-> Untold], pending |-> Empty]
  /\ dead = {} /\ pc = "idle" /\ reply = "none" /\ stopped = FALSE /\ aged = FALSE
  /\ wire = {} /\ applied = <<>> /\ refused = {} /\ kernel = NoSteps
  /\ planned = {} /\ byHand = {} /\ edits = 0 /\ restarts = 0

Goto(step) == pc' = step /\ reply' = "none" /\ UNCHANGED <<items, own, raw>>
Idle == pc' = "idle" /\ reply' = "none" /\ items' = NoFile /\ raw' = NoFile /\ own' = NoSteps
\* An error ends publish; the readback runs all the same, unless stopped.
Failed == Goto("fetch")

\* sync, runQueued, tick: the whole file is read and mapped, and checked against
\* the target of the saved outbox, before anything is sent.
Tick ==
  /\ pc = "idle" /\ ~stopped
  /\ LET told == IF cursor.pending.on THEN cursor.pending.steps ELSE cursor.steps IN
     pc' = IF DeclarationChanged(file, told) THEN "fetch" ELSE "drain"
  /\ items' = file
  /\ UNCHANGED <<local, cursor, dead, reply, own, raw, stopped, aged, remote, planned, restarts>>

Head1 == Head(cursor.pending.requests)
Draining == pc = "drain" /\ cursor.pending.on /\ ~stopped

\* drain finds no outbox, or the service stopping.  A batch just saved and
\* drained comes here too, and the diff then finds nothing.
Drained ==
  /\ pc = "drain" /\ (~cursor.pending.on \/ stopped)
  /\ IF stopped THEN Failed ELSE Goto("diff")
  /\ UNCHANGED <<local, cursor, dead, stopped, aged, remote, planned, restarts>>

\* deliver: an envelope within the window is posted ...
Post ==
  /\ Draining /\ cursor.pending.requests # <<>> /\ ~aged
  /\ pc' = "posted" /\ reply' = "none" /\ wire' = wire \cup {Head1}
  /\ UNCHANGED <<local, cursor, dead, items, own, raw, stopped, aged, applied, refused, kernel,
                 planned, restarts>>
\* ... an older one is looked up.
Reconcile ==
  /\ Draining /\ cursor.pending.requests # <<>> /\ aged
  /\ Goto("receipt")
  /\ UNCHANGED <<local, cursor, dead, stopped, aged, remote, planned, restarts>>

\* Variant: a reply of 408, 429 or 5xx counts as a receipt.
AcksAnything(status) == status \in {"ack", "transient"}
Acks(status) == status = "ack"
\* deliveryResult, deliver: a 4xx refuses, unless it is a 400 that age explains.
Refusal(status) == status \in {"401", "422"} \/ (status = "400" /\ ~aged)

\* The reply: acknowledged, dead-lettered before the outbox moves on, or kept.
Deliver ==
  /\ pc = "posted" /\ reply # "none"
  /\ CASE Acks(reply) -> Goto("ack") /\ dead' = dead
       [] Refusal(reply) -> Goto("ack") /\ dead' =
            IF Head1 \in DeadRequests THEN dead ELSE dead \cup {[request |-> Head1, status |-> reply]}
       [] reply = "400" -> Goto("receipt") /\ dead' = dead
       [] OTHER -> Failed /\ dead' = dead
  /\ UNCHANGED <<local, cursor, stopped, aged, remote, planned, restarts>>

\* The POST times out, or is lost; it may still reach the kernel.
PostFails(lost) ==
  /\ pc = "posted" /\ reply = "none" /\ Failed
  /\ wire' = IF lost THEN wire \ {Head1} ELSE wire
  /\ UNCHANGED <<local, cursor, dead, stopped, aged, applied, refused, kernel, planned, restarts>>

\* Variant: the hash of the lookup is not the hash the kernel recorded.
ReceiptUnknown(answered) ==
  /\ pc = "receipt" /\ Failed
  /\ UNCHANGED <<local, cursor, dead, stopped, aged, remote, planned, restarts>>
\* lookupReceipt: only an accepted envelope is acknowledged.
Receipt(answered) ==
  /\ pc = "receipt"
  /\ IF answered /\ Head1 \in Applied THEN Goto("ack") ELSE Failed
  /\ UNCHANGED <<local, cursor, dead, stopped, aged, remote, planned, restarts>>

\* drain: saveCursor without the head; a failed write ends the tick.
Acknowledge(written) ==
  /\ pc = "ack"
  /\ IF written
     THEN /\ cursor' = [cursor EXCEPT !.pending.requests = Tail(@)]
          /\ Goto("drain")
     ELSE Failed /\ cursor' = cursor
  /\ UNCHANGED <<local, dead, stopped, aged, remote, planned, restarts>>

\* Variant: the completed cursor keeps the steps from before the batch.
CompletedStale == [lastAt |-> cursor.pending.at, steps |-> cursor.steps, pending |-> Empty]
Completed == [lastAt |-> cursor.pending.at, steps |-> cursor.pending.steps, pending |-> Empty]
\* drain: an empty outbox becomes the cursor.
Complete ==
  /\ Draining /\ cursor.pending.requests = <<>>
  /\ cursor' = Completed
  /\ UNCHANGED <<local, dead, tick, stopped, aged, remote, planned, restarts>>

\* publish: plan, sign, and save ahead of the first POST.
SaveOutbox ==
  /\ pc = "diff"
  /\ LET told == cursor.steps
         plan == Plan(items, told, cursor.lastAt + 1) IN
     IF DeclarationChanged(items, told) \/ plan = {}
     THEN Failed /\ UNCHANGED <<cursor, aged, planned>>
     ELSE /\ \E requests \in Ordered(plan) :
               cursor' = [cursor EXCEPT !.pending =
                 [requests |-> requests, at |-> cursor.lastAt + 1, on |-> TRUE,
                  steps |-> [i \in Items |-> ToldAfter(items[i], told[i])]]]
          /\ aged' = FALSE /\ planned' = planned \cup plan
          /\ Goto("drain")
  /\ UNCHANGED <<local, dead, stopped, remote, restarts>>

-----------------------------------------------------------------------------
(* readBackHorizon: four awaits. *)

Project(x, state) ==
  CASE state = "none"   -> x
    [] state = "exited" -> Item(x.kind, x.version, "done", "exited")
    [] OTHER            -> Item(x.kind, x.version, x.zone, state)
Projected == [i \in Items |-> Project(raw[i], own[i])]

Fetch ==
  /\ pc = "fetch"
  /\ IF stopped THEN Idle
     ELSE pc' = "reread" /\ own' = kernel /\ items' = NoFile /\ UNCHANGED <<reply, raw>>
  /\ UNCHANGED <<local, cursor, dead, stopped, aged, remote, planned, restarts>>
FetchFails ==
  /\ pc = "fetch" /\ Idle
  /\ UNCHANGED <<local, cursor, dead, stopped, aged, remote, planned, restarts>>

\* The file is read again after the GET, and left alone if nothing changes.
Reread ==
  /\ pc = "reread"
  /\ IF [i \in Items |-> Project(file[i], own[i])] = file THEN Idle
     ELSE pc' = "compare" /\ raw' = file /\ UNCHANGED <<items, reply, own>>
  /\ UNCHANGED <<local, cursor, dead, stopped, aged, remote, planned, restarts>>

\* "A concurrent bridge replacement is retried next tick": read once more ...
Compare ==
  /\ pc = "compare"
  /\ IF file = raw THEN Goto("save") ELSE Idle
  /\ UNCHANGED <<local, cursor, dead, stopped, aged, remote, planned, restarts>>
\* ... and, after the awaits of saveJson, renamed over.
Save ==
  /\ pc = "save" /\ file' = Projected /\ Idle
  /\ UNCHANGED <<byHand, edits, cursor, dead, stopped, aged, remote, planned, restarts>>

-----------------------------------------------------------------------------
(* The world around the tick. *)

\* The local bridge replaces the file with one field of an item changed.
Edit(i, x) ==
  /\ edits < MaxEdits /\ x # file[i] /\ x.kernel = file[i].kernel
  /\ Cardinality({f \in {"kind", "version", "zone"} : x[f] # file[i][f]}) = 1
  /\ file' = [file EXCEPT ![i] = x] /\ edits' = edits + 1
  /\ byHand' = IF x.zone = "done" THEN byHand \cup {i} ELSE byHand
  /\ UNCHANGED <<cursor, dead, tick, stopped, aged, remote, planned, restarts>>

\* More than five minutes pass since the saved outbox was signed.
Age ==
  /\ cursor.pending.on /\ ~aged /\ aged' = TRUE
  /\ UNCHANGED <<local, cursor, dead, tick, stopped, remote, planned, restarts>>

\* The kernel takes a POST: it knows an envelope it has applied, may find one
\* too old, applies or refuses the rest, and may be unable to answer.
Judge(r) ==
  LET old == IF cursor.pending.on /\ r.at = cursor.pending.at THEN {aged} ELSE BOOLEAN IN
  \/ applied' = applied /\ refused' = refused /\ reply' \in {"401", "transient"}
  \/ /\ TRUE \in old /\ applied' = applied /\ refused' = refused /\ reply' = "400"
  \/ /\ r \in Applied /\ applied' = applied /\ refused' = refused /\ reply' = "ack"
  \/ /\ r \notin Applied \cup refused /\ FALSE \in old
     /\ applied' = Append(applied, r) /\ refused' = refused /\ reply' = "ack"
  \/ /\ r \notin Applied
     /\ applied' = applied /\ refused' = refused \cup {r} /\ reply' \in {"400", "422"}
KernelTakes(r) ==
  /\ r \in wire /\ wire' = wire \ {r}
  /\ IF pc = "posted" /\ reply = "none" /\ r = Head1 THEN Judge(r)
     ELSE \E any \in {"ack", "400"} :
            /\ reply' = reply /\ refused' = refused
            /\ applied' = IF any = "ack" /\ r \notin Applied \cup refused THEN Append(applied, r)
                          ELSE applied
  /\ kernel' = [i \in Items |->
       IF kernel[i] = "none" /\ r = [item |-> i, type |-> "queued",
          version |-> r.version, at |-> r.at] /\ Len(applied') > Len(applied) THEN "active" ELSE kernel[i]]
  /\ UNCHANGED <<local, cursor, dead, pc, items, own, raw, stopped, aged, planned, restarts>>

\* A step whose conditions are met is exited, for good.
KernelExits(i) ==
  /\ kernel[i] = "active"
  /\ kernel' = [kernel EXCEPT ![i] = "exited"]
  /\ UNCHANGED <<local, cursor, dead, tick, stopped, aged, wire, applied, refused, planned, restarts>>

\* stop, whose caller waits for the running tick, and start.
Stop ==
  /\ ~stopped /\ restarts < MaxRestarts
  /\ stopped' = TRUE /\ restarts' = restarts + 1
  /\ UNCHANGED <<local, cursor, dead, tick, aged, remote, planned>>
Start ==
  /\ stopped /\ pc = "idle" /\ stopped' = FALSE
  /\ UNCHANGED <<local, cursor, dead, tick, aged, remote, planned, restarts>>

\* The process dies and starts again; files and the kernel are what is left.
Crash ==
  /\ restarts < MaxRestarts /\ restarts' = restarts + 1
  /\ Idle /\ stopped' = FALSE
  /\ UNCHANGED <<local, cursor, dead, aged, remote, planned>>

Step == Drained \/ Post \/ Reconcile \/ Deliver \/ Complete \/ SaveOutbox
          \/ (\E b \in BOOLEAN : PostFails(b) \/ Receipt(b) \/ Acknowledge(b))
          \/ Fetch \/ FetchFails \/ Reread \/ Compare \/ Save
Next ==
  \/ Tick \/ Step
  \/ \E i \in Items : \E x \in ItemRecord : Edit(i, x)
  \/ \E r \in wire : KernelTakes(r)
  \/ \E i \in Items : KernelExits(i)
  \/ Age \/ Stop \/ Start \/ Crash

Spec == Init /\ [][Next]_vars

\* The timer starts ticks and its awaits end; the kernel is not unable to
\* answer, nor the disk to write, for ever; the host starts what it stopped.
KernelAcks == \E r \in wire : KernelTakes(r) /\ pc = "posted" /\ reply' \in {"ack", "422"}
FairSpec ==
  /\ Spec /\ WF_vars(Tick) /\ WF_vars(Start) /\ WF_vars(Step)
  /\ SF_vars(KernelAcks) /\ SF_vars(Deliver) /\ SF_vars(Receipt(TRUE)) /\ SF_vars(Acknowledge(TRUE))

-----------------------------------------------------------------------------
(* Properties. *)

Outbox == IF cursor.pending.on THEN ToSet(cursor.pending.requests) ELSE {}
Told(i) == {r \in planned : r.item = i}
Latest(i) == CHOOSE r \in Told(i) : \A s \in Told(i) : r.at >= s.at

\* Nothing planned is lost, whatever write or crash comes between: an envelope
\* is saved for sending, or the kernel has it, or it is a dead letter; and what
\* the cursor takes for told is what the envelopes say.  (drain, saveDeadLetter)
CursorIsReported ==
  /\ \A r \in planned : r \in Applied \cup DeadRequests \cup Outbox
  /\ ~cursor.pending.on => \A i \in Items :
       LET told == cursor.steps[i] IN
       /\ (told.kind # 0) <=> (\E r \in Told(i) : r.type = "queued")
       /\ told.kind # 0 => told.version = Latest(i).version
       /\ told.finished <=> (\E r \in Told(i) : r.type = "finished")

\* The kernel never gets a declaration or a completion twice, in two envelopes:
\* after a lost reply or a crash the saved envelope is sent again, not a new one.
\* (publish, drain)
FactOnce ==
  \A r, s \in Applied : r.item = s.item /\ r.type = s.type /\ r.type # "updated" => r = s

\* A saved outbox is drained, unless its envelopes outlived the window before
\* the kernel had them, or a changed declaration holds it back.  (drain)
Held == DeclarationChanged(file, cursor.pending.steps)
          \/ (aged /\ \E k \in 1..Len(cursor.pending.requests) :
                         cursor.pending.requests[k] \notin Applied)
OutboxDrains == cursor.pending.on ~> (~cursor.pending.on \/ Held)
=============================================================================
