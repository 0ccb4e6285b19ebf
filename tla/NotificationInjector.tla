------------------------ MODULE NotificationInjector ------------------------
(***************************************************************************)
(* From a notification the kernel offers to a wake the gateway admits      *)
(* (notification-injector.ts, notification-state-store.ts), for one scope. *)
(*                                                                         *)
(* A notification is persisted with its coalesce window as a marker of a   *)
(* wake that is owed, then remembered, then acknowledged; the window's two *)
(* phases end in a wake each; the marker goes when the gateway has         *)
(* admitted the wake.  What is left at the next start is merged into one   *)
(* wake of the earliest window.                                            *)
(*                                                                         *)
(* Abstractions.  The wall clock numbers the windows.  A key is a window   *)
(* and a phase: the marker's key and the wake's idempotency key.  What a   *)
(* wake says, its packet and its model are not modelled, nor is the bridge *)
(* of evidence beyond the awaits it costs.  A stop is modelled once the    *)
(* start is over.  The store of seen ids never fills.                      *)
(***************************************************************************)
EXTENDS Naturals, Sequences, SequencesExt, FiniteSetsExt

CONSTANTS
  Frames,         \* the notifications, by id
  MaxWindows,     \* bound: coalesce windows
  MaxOffers,      \* bound: deliveries by the kernel
  MaxRestarts     \* bound: starts of the runtime

ASSUME BoundsAssumption == MaxWindows \in Nat \ {0} /\ MaxOffers \in Nat /\ MaxRestarts \in Nat

Handlers == {1, 2}
NoOne == 0
Keys == (1..MaxWindows) \X {"leading", "trailing"}

VARIABLES
  fresh,      \* a session per wake; else the scope's, with the host's event inbox
  token,      \* a hook token is configured
  life,       \* of the injector
  starts,     \* counts them
  offers,     \* how often the kernel has delivered a notification
  acked,      \* what it has been told is injected
  hand,       \* inject(), one for each delivery in progress
  seen,       \* the dedup store
  seenDisk,   \* its file
  window,     \* coalesceByScope
  next,       \* the clock: the number of the next window
  wakes,      \* the pending wake store: frames owed under a key
  writes,     \* its queue of snapshots, and who waits for each
  disk,       \* its file
  turn,       \* flushWakeTurn, one for each key
  inbox,      \* the host's events
  known,      \* the idempotency keys the gateway knows
  runs,       \* history: wakes run with a frame in them, two or more as two
  admitted,   \* history: frames of the wakes the gateway said it admitted
  consumed    \* frames given up with a message to the operator

config == <<fresh, token>>
kernel == <<offers, acked>>
store == <<wakes, writes, disk>>
gateway == <<known, runs>>
vars == <<config, life, starts, kernel, hand, seen, seenDisk, window, next, store, turn, inbox,
          gateway, admitted, consumed>>

Markers == [Keys -> SUBSET Frames]
NoMarkers == [k \in Keys |-> {}]
Idle == [pc |-> "idle", id |-> {}]
NoTurn == [pc |-> "none", frames |-> {}]
Closed == [phase |-> "none", start |-> 0, frames |-> {}]
Present(m) == {k \in Keys : m[k] # {}}
AllOf(m) == UNION {m[k] : k \in Keys}

TypeOK ==
  /\ fresh \in BOOLEAN /\ token \in BOOLEAN /\ starts \in 0..MaxRestarts
  /\ life \in {"down", "merging", "up", "stopping"}
  /\ offers \in [Frames -> 0..MaxOffers]
  /\ hand \in [Handlers -> [pc : {"idle", "ready", "ingest", "set", "dedup"}, id : SUBSET Frames]]
  /\ acked \cup seen \cup seenDisk \cup inbox \cup admitted \cup consumed \subseteq Frames
  /\ window \in [phase : {"none", "leading", "trailing"}, start : 0..MaxWindows, frames : SUBSET Frames]
  /\ next \in 1..(MaxWindows + 1)
  /\ wakes \in Markers /\ disk \in Markers
  /\ \A i \in DOMAIN writes : writes[i] \in [wakes : Markers, who : Handlers \cup {NoOne}]
  /\ turn \in [Keys -> [pc : {"none", "queued", "post", "pending", "over"},
                        frames : SUBSET Frames]]
  /\ known \subseteq Keys /\ runs \in [Frames -> 0..2]
  \* What waits for a write has one queued, and nothing waits in a stopped runtime.
  /\ \A h \in Handlers : hand[h].pc = "set" => \E i \in DOMAIN writes : writes[i].who = h
  /\ life = "down" => writes = <<>> /\ wakes = NoMarkers /\ window = Closed

Init ==
  /\ fresh \in BOOLEAN /\ token \in BOOLEAN /\ life = "down" /\ starts = 0
  /\ offers = [n \in Frames |-> 0] /\ acked = {} /\ hand = [h \in Handlers |-> Idle]
  /\ seen = {} /\ seenDisk = {} /\ window = Closed /\ next = 1
  /\ wakes = NoMarkers /\ writes = <<>> /\ disk = NoMarkers
  /\ turn = [k \in Keys |-> NoTurn] /\ inbox = {}
  /\ known = {} /\ runs = [n \in Frames |-> 0] /\ admitted = {} /\ consumed = {}

-----------------------------------------------------------------------------
(* The stores. *)

\* persist: each mutation queues a snapshot of all markers.
Persist(markers, who) ==
  /\ wakes' = markers /\ disk' = disk
  /\ writes' = Append(writes, [wakes |-> markers, who |-> who])
Forget(k) ==
  IF wakes[k] = {} THEN UNCHANGED store ELSE Persist([wakes EXCEPT ![k] = {}], NoOne)

\* dedupStore.add: in memory at once.
Remember(h) == seen' = seen \cup hand[h].id

\* The queue's next write replaces the file or fails; its waiter goes on.
Written(ok) ==
  /\ writes # <<>> /\ writes' = Tail(writes) /\ wakes' = wakes
  /\ disk' = IF ok THEN Head(writes).wakes ELSE disk
  /\ LET h == Head(writes).who IN
     IF h = NoOne THEN UNCHANGED <<hand, seen>>
     ELSE IF ok THEN hand' = [hand EXCEPT ![h].pc = "dedup"] /\ Remember(h)
     ELSE hand' = [hand EXCEPT ![h] = Idle] /\ seen' = seen
  /\ UNCHANGED <<config, life, starts, kernel, seenDisk, window, next, turn, inbox, gateway,
                 admitted, consumed>>

-----------------------------------------------------------------------------
(* inject(). *)

\* A delivery.  An injector that starts makes it wait.
Offer(n) ==
  /\ life \in {"merging", "up"} /\ n \notin acked
  /\ FoldFunction(LAMBDA a, b : a + b, 0, offers) < MaxOffers
  /\ offers' = [offers EXCEPT ![n] = @ + 1]
  /\ \E h \in Handlers :
       /\ hand[h] = Idle /\ \A g \in 1..(h - 1) : hand[g] # Idle
       /\ hand' = [hand EXCEPT ![h] = [pc |-> "ready", id |-> {n}]]
  /\ UNCHANGED <<config, life, starts, acked, seen, seenDisk, window, next, store, turn, inbox,
                 gateway, admitted, consumed>>

\* sendAck: lost when the socket is closed.
Ack(h, sent) == acked' = (IF sent THEN acked \cup hand[h].id ELSE acked) /\ offers' = offers

\* A known id is acknowledged again and that is all.
Known(h, sent) ==
  /\ hand[h].pc = "ready" /\ life \in {"up", "stopping"} /\ hand[h].id \subseteq seen
  /\ Ack(h, sent) /\ hand' = [hand EXCEPT ![h] = Idle]
  /\ UNCHANGED <<config, life, starts, seen, seenDisk, window, next, store, turn, inbox, gateway,
                 admitted, consumed>>
Unknown(h) ==
  /\ hand[h].pc = "ready" /\ life \in {"up", "stopping"} /\ ~(hand[h].id \subseteq seen)
  /\ hand' = [hand EXCEPT ![h].pc = "ingest"]
  /\ UNCHANGED <<config, life, starts, kernel, seen, seenDisk, window, next, store, turn, inbox,
                 gateway, admitted, consumed>>

\* bufferWake: the frame joins the open phase, or opens a window.
Buffer(id, who) ==
  LET w == IF window.phase # "none" THEN [window EXCEPT !.frames = @ \cup id]
           ELSE [phase |-> "leading", start |-> next, frames |-> id]
  IN /\ w.start <= MaxWindows
     /\ window' = w /\ next' = IF window.phase = "none" THEN next + 1 ELSE next
     /\ Persist([wakes EXCEPT ![<<w.start, w.phase>>] = w.frames], who)

\* After bridge.ingest, with a session per wake: the marker first.
Ingested(h) ==
  /\ hand[h].pc = "ingest" /\ fresh
  /\ Buffer(hand[h].id, h) /\ hand' = [hand EXCEPT ![h].pc = "set"]
  /\ UNCHANGED <<config, life, starts, kernel, seen, seenDisk, turn, inbox, gateway, admitted, consumed>>

\* After it, with one session: enqueueSystemEvent, which may throw.
Enqueued(h, accepted) ==
  /\ hand[h].pc = "ingest" /\ ~fresh
  /\ IF accepted
     THEN inbox' = inbox \cup hand[h].id /\ hand' = [hand EXCEPT ![h].pc = "dedup"] /\ Remember(h)
     ELSE inbox' = inbox /\ hand' = [hand EXCEPT ![h] = Idle] /\ seen' = seen
  /\ UNCHANGED <<config, life, starts, kernel, seenDisk, window, next, store, turn, gateway,
                 admitted, consumed>>

\* The dedup store's file is written in place, by several at once, or not at
\* all; an unreadable one is empty.  Then the kernel is told.
Deduped(h, sent) ==
  /\ hand[h].pc = "dedup"
  /\ \/ seenDisk' \in {seen, seenDisk}
     \/ seenDisk' = {} /\ \E g \in Handlers \ {h} : hand[g].pc = "dedup"
  /\ Ack(h, sent) /\ hand' = [hand EXCEPT ![h] = Idle]
  /\ IF fresh THEN UNCHANGED <<window, next, store>> ELSE Buffer(hand[h].id, NoOne)
  /\ UNCHANGED <<config, life, starts, seen, turn, inbox, gateway, admitted, consumed>>

-----------------------------------------------------------------------------
(* The window and its wakes. *)

Schedule(k, frames) == turn' = [turn EXCEPT ![k] = [pc |-> "queued", frames |-> frames]]

\* Variant: the trailing phase starts with the frames of the leading one.
LeadingKeeps ==
  /\ life = "up" /\ window.phase = "leading"
  /\ window' = [window EXCEPT !.phase = "trailing"]
  /\ Schedule(<<window.start, "leading">>, window.frames)
  /\ UNCHANGED <<config, life, starts, kernel, hand, seen, seenDisk, next, store, inbox, gateway,
                 admitted, consumed>>
LeadingFires ==
  /\ life = "up" /\ window.phase = "leading"
  /\ window' = [window EXCEPT !.phase = "trailing", !.frames = {}]
  /\ Schedule(<<window.start, "leading">>, window.frames)
  /\ UNCHANGED <<config, life, starts, kernel, hand, seen, seenDisk, next, store, inbox, gateway,
                 admitted, consumed>>
\* Variant: what the trailing phase gathered waits for the next start.
TrailingDrops ==
  /\ life = "up" /\ window.phase = "trailing" /\ window' = Closed
  /\ UNCHANGED <<config, life, starts, kernel, hand, seen, seenDisk, next, store, turn, inbox, gateway,
                 admitted, consumed>>
TrailingFires ==
  /\ life = "up" /\ window.phase = "trailing" /\ window' = Closed
  /\ IF window.frames = {} THEN turn' = turn
     ELSE Schedule(<<window.start, "trailing">>, window.frames)
  /\ UNCHANGED <<config, life, starts, kernel, hand, seen, seenDisk, next, store, inbox, gateway,
                 admitted, consumed>>

Settle(k, pc) ==
  turn' = [turn EXCEPT ![k] = [pc |-> pc, frames |-> IF pc = "over" THEN {} ELSE @.frames]]
\* wakeQueueBySession: the wakes of one session go one by one.
First(k) == turn[k].pc = "queued" /\ (fresh \/ \A j \in Keys : turn[j].pc # "post")

\* flushWakeTurn up to the hook.  A stopped injector drops the wake, not the
\* marker.
GaveUp(k) ==
  /\ First(k) /\ life = "stopping" /\ Settle(k, "over")
  /\ UNCHANGED <<config, life, starts, kernel, hand, seen, seenDisk, window, next, store, inbox,
                 gateway, admitted, consumed>>
\* All its subjects are closed, or there is no token: one message, marker gone.
Disclosed(k, terminal) ==
  /\ First(k) /\ life = "up" /\ (terminal \/ ~token)
  /\ consumed' = consumed \cup turn[k].frames /\ Forget(k) /\ Settle(k, "over")
  /\ UNCHANGED <<config, life, starts, kernel, hand, seen, seenDisk, window, next, inbox, gateway, admitted>>
\* The wake is tracked, unless the guards are full: an alert, the marker stays.
Tracked(k, room) ==
  /\ First(k) /\ life = "up" /\ token /\ Settle(k, IF room THEN "post" ELSE "over")
  /\ UNCHANGED <<config, life, starts, kernel, hand, seen, seenDisk, window, next, store, inbox,
                 gateway, admitted, consumed>>

\* The gateway runs a wake once for its idempotency key.
Reached(k) ==
  /\ known' = known \cup {k}
  /\ runs' = [n \in Frames |-> IF k \notin known /\ n \in turn[k].frames THEN Min({runs[n] + 1, 2}) ELSE runs[n]]

\* postWakeHook: admitted.  The marker goes.
Admit(k) ==
  /\ turn[k].pc = "post" /\ Reached(k) /\ admitted' = admitted \cup turn[k].frames
  /\ Forget(k) /\ Settle(k, "over")
  /\ UNCHANGED <<config, life, starts, kernel, hand, seen, seenDisk, window, next, inbox, consumed>>
\* Queued, or no answer in time: the marker stays.
Pending(k, reached) ==
  /\ turn[k].pc = "post"
  /\ (IF reached THEN Reached(k) ELSE UNCHANGED gateway) /\ Settle(k, "pending")
  /\ UNCHANGED <<config, life, starts, kernel, hand, seen, seenDisk, window, next, store, inbox,
                 admitted, consumed>>
\* Failed, with its effect or without: tried again, or the marker stays.
Failed(k, reached, again) ==
  /\ turn[k].pc = "post" /\ (life = "stopping" => ~again)
  /\ (IF reached THEN Reached(k) ELSE UNCHANGED gateway)
  /\ Settle(k, IF again THEN "post" ELSE "over")
  /\ UNCHANGED <<config, life, starts, kernel, hand, seen, seenDisk, window, next, store, inbox,
                 admitted, consumed>>

\* The supervisor's complete, at the run's end: a pending wake is paid, too.
\* (At its timeout the marker stays, and nothing happens here.)
Completes(k) ==
  /\ life = "up" /\ turn[k].pc = "pending" /\ k \in known
  /\ admitted' = admitted \cup turn[k].frames /\ Forget(k) /\ Settle(k, "over")
  /\ UNCHANGED <<config, life, starts, kernel, hand, seen, seenDisk, window, next, inbox, gateway, consumed>>

-----------------------------------------------------------------------------
(* Start, stop, crash. *)

\* The union of all windows under the key of the earliest one.
Merged(m) ==
  LET key == <<Min({k[1] : k \in Present(m)}), "leading">> IN
  [k \in Keys |-> IF Present(m) # {} /\ k = key THEN AllOf(m) ELSE {}]
Both(m) == [k \in Keys |-> IF Merged(m)[k] # {} THEN Merged(m)[k] ELSE m[k]]

\* Variant: the windows are deleted before their union is set.
MergeDeletesFirst(left) == IF Merged(left) = left THEN <<>> ELSE <<NoMarkers, Merged(left)>>
\* The union is set before what it stands for is deleted.
MergeWrites(left) == IF Merged(left) = left THEN <<>> ELSE <<Both(left), Merged(left)>>

\* stateReady: what is too old is given up with one message, the rest merged.
Start ==
  /\ life = "down" /\ starts < MaxRestarts /\ starts' = starts + 1 /\ life' = "merging"
  /\ seen' = seenDisk /\ disk' = disk
  /\ \E old \in SUBSET Present(disk) :
       LET left == [k \in Keys |-> IF k \in old THEN {} ELSE disk[k]]
           snaps == (IF old = {} THEN <<>> ELSE <<left>>) \o MergeWrites(left)
       IN /\ consumed' = consumed \cup UNION {disk[k] : k \in old}
          /\ wakes' = Merged(left)
          /\ writes' = [i \in DOMAIN snaps |-> [wakes |-> snaps[i], who |-> NoOne]]
  /\ UNCHANGED <<config, kernel, hand, seenDisk, window, next, turn, inbox, gateway, admitted>>
Ready ==
  /\ life = "merging" /\ writes = <<>> /\ life' = "up"
  /\ turn' = [k \in Keys |-> IF wakes[k] = {} THEN NoTurn ELSE [pc |-> "queued", frames |-> wakes[k]]]
  /\ UNCHANGED <<config, starts, kernel, hand, seen, seenDisk, window, next, store, inbox, gateway,
                 admitted, consumed>>

\* dispose: timers and trackers go at once, the rest is waited for.
Stop ==
  /\ life = "up" /\ life' = "stopping" /\ window' = Closed
  /\ UNCHANGED <<config, starts, kernel, hand, seen, seenDisk, next, store, turn, inbox, gateway,
                 admitted, consumed>>
Cleared ==
  /\ life' = "down" /\ hand' = [h \in Handlers |-> Idle] /\ window' = Closed
  /\ wakes' = NoMarkers /\ writes' = <<>> /\ turn' = [k \in Keys |-> NoTurn] /\ seen' = {}
  /\ UNCHANGED <<config, starts, kernel, seenDisk, next, disk, inbox, admitted, consumed>>
Drained ==
  /\ life = "stopping" /\ writes = <<>> /\ \A h \in Handlers : hand[h] = Idle
  /\ \A k \in Keys : turn[k].pc \notin {"queued", "post"}
  /\ Cleared /\ UNCHANGED gateway
\* The process is the gateway's, which may forget its keys with it.
Crash ==
  /\ life # "down" /\ Cleared /\ runs' = runs /\ known' \in {known, {}}

Next ==
  \/ \E n \in Frames : Offer(n)
  \/ \E h \in Handlers :
       \/ Unknown(h) \/ Ingested(h)
       \/ \E b \in BOOLEAN : Known(h, b) \/ Enqueued(h, b) \/ Deduped(h, b)
  \/ \E b \in BOOLEAN : Written(b)
  \/ LeadingFires \/ TrailingFires
  \/ \E k \in Keys :
       \/ GaveUp(k) \/ Admit(k) \/ Completes(k)
       \/ \E b \in BOOLEAN : \/ Disclosed(k, b) \/ Tracked(k, b) \/ Pending(k, b)
                             \/ \E c \in BOOLEAN : Failed(k, b, c)
  \/ Start \/ Ready \/ Stop \/ Drained \/ Crash

Spec == Init /\ [][Next]_vars

-----------------------------------------------------------------------------
(* Properties. *)

\* What the kernel was told is injected it does not deliver again.  So at every
\* moment, were it the last before a crash, it is owed on disk, or is with the
\* gateway, as a wake or an event, or was given up with a message.  (inject,
\* bufferWake, stateReady, flushWakeTurn)
AckedIsSafe == acked \subseteq AllOf(disk) \cup admitted \cup inbox \cup consumed

\* Notifications are woken twice only when delivered twice or after a restart.
\* (onLeadingFire, onTrailingFire, postWakeHookWithRetries)
WokenOnce == \A n \in Frames : runs[n] > 1 => offers[n] > 1 \/ starts > 1

\* No owed wake is left out in a running injector: it is in the open phase, or has a
\* turn.  (One whose POSTs all failed has had its turn, keeps its marker and waits for
\* the next start.)  (bufferWake, stateReady)
OwedIsDue ==
  life = "up" => \A k \in Present(wakes) : turn[k].pc # "none" \/ <<window.start, window.phase>> = k

\* "converges rather than losing anything": what counts as admitted has run.
\* (stateReady, the merged key)
AdmittedRan == \A n \in admitted : runs[n] > 0
=============================================================================
