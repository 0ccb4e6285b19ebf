--------------------------- MODULE SessionInventory ---------------------------
(***************************************************************************)
(* The sessions of the local gateway as loops of the kernel (src/session-  *)
(* inventory.ts): every change of a session makes a pass over the list,    *)
(* which tells the tracker of each row, and after a pass, or when asked,   *)
(* the recent turns of a session go out, oldest first, each recorded in    *)
(* the checkpoint file once the sender is done with it.                    *)
(*                                                                         *)
(* Abstractions.  A turn has one output, a message id and a place in its   *)
(* session; a point is that pair.  A loop is known by the native id of its *)
(* session, which a reset replaces.  Of the sender's queue only the        *)
(* outputs are told apart.  A write of the checkpoint file is one rename,  *)
(* so one step.  The inventory ends with the process or is disposed.       *)
(***************************************************************************)
EXTENDS Integers, Sequences, SequencesExt, FiniteSets

CONSTANTS
  Keys,        \* session keys
  MaxIds,      \* bound: sessions that ever hold a key
  MaxTurns,    \* bound: turns of a session
  Window,      \* turns that a history request returns
  MaxQueue,    \* the sender's queue
  MaxCalls,    \* bound: calls of history at a time
  MaxChanges,  \* bound: archivings and restorings
  MaxFaults    \* bound: crashes, lost connections, failed requests and writes

VARIABLES
  row,        \* the gateway's list: who holds a key, and whether it is archived
  turns,      \* how many turns each session has
  conn,       \* the gateway client: "down", "asked", "subscribed", "up", "deaf"
  event,      \* a sessions.changed is on its way
  loop,       \* the tracker's open loop of each key, 0 for none
  ended,      \* the loops it has finished
  identities, \* the session that each key was last seen to hold
  loaded,     \* the checkpoint file: "no", "yes" or, for good, "failed"
  mem, disk,  \* the checkpoints, in memory and in the file
  queue,      \* the sender's queue, an output or a note
  dirty,      \* a refresh was asked for
  rec,        \* the running pass
  chain,      \* the calls of history in their order
  scheduled,  \* loops with an automatic call
  disposed,
  seen,       \* the rows as the tracker was last told of them; nothing reads it
  failed,     \* the last pass failed; nothing reads it
  settled,    \* outputs the sender is done with; nothing reads it
  outran,     \* turns that no request came in time for; nothing reads it
  ids, changes, faults

gateway == <<row, turns, ids, changes>>
link == <<conn, event>>
tracker == <<loop, ended>>
checkpoints == <<loaded, mem, disk>>
pass == <<dirty, rec, seen, failed>>
calls == <<chain, scheduled>>
sender == <<queue, settled>>
vars == <<gateway, link, tracker, identities, checkpoints, sender, pass, calls, disposed, outran,
          faults>>

Ids == 1..MaxIds
Outputs == [id : Ids, turn : 1..MaxTurns]
NoPoint == [id |-> 0, turn |-> 0]
Note == [id |-> 0, turn |-> 1]
Row == [id : Ids, archived : BOOLEAN]
Unseen == [id |-> 0, archived |-> FALSE]
Fresh == [point |-> NoPoint, archived |-> FALSE]

NoPass == [step |-> "idle", rows |-> [k \in Keys |-> Unseen], left |-> {}, key |-> "-",
           ahead |-> 0, backfill |-> {}]
CallOf(l, auto) == [step |-> "load", loop |-> l, auto |-> auto, key |-> "-", id |-> 0, of |-> 0,
                    next |-> 0, last |-> 0, ahead |-> 0]

TypeOK ==
  /\ row \in [Keys -> Row] /\ turns \in [Ids -> 0..MaxTurns]
  /\ conn \in {"down", "asked", "subscribed", "up", "deaf"} /\ event \in BOOLEAN
  /\ loop \in [Keys -> 0..MaxIds] /\ ended \subseteq Ids /\ identities \in [Keys -> 0..MaxIds]
  /\ loaded \in {"no", "yes", "failed"}
  /\ \A s \in {mem, disk} : s \in [Ids -> [point : Outputs \cup {NoPoint}, archived : BOOLEAN]]
  /\ Len(queue) <= MaxQueue /\ settled \subseteq Outputs /\ outran \subseteq Outputs
  /\ Len(chain) <= MaxCalls /\ scheduled \subseteq Ids

Init ==
  /\ \E f \in [Keys -> Ids] : /\ row = [k \in Keys |-> [id |-> f[k], archived |-> FALSE]]
                              /\ \A k, l \in Keys : f[k] = f[l] => k = l
                              /\ ids = Cardinality(Keys) /\ \A k \in Keys : f[k] <= ids
  /\ turns = [i \in Ids |-> 0] /\ changes = 0 /\ faults = 0
  /\ conn = "down" /\ event = FALSE /\ loop = [k \in Keys |-> 0] /\ ended = {}
  /\ identities = [k \in Keys |-> 0] /\ loaded = "no"
  /\ mem = [i \in Ids |-> Fresh] /\ disk = mem /\ queue = <<>> /\ settled = {} /\ outran = {}
  /\ dirty = FALSE /\ rec = NoPass /\ chain = <<>>
  /\ scheduled = {} /\ disposed = FALSE /\ seen = [k \in Keys |-> Unseen] /\ failed = FALSE

Fault == faults < MaxFaults /\ faults' = faults + 1

-----------------------------------------------------------------------------
(* The sender: first in, first out, one POST at a time, and silent about   *)
(* what it drops or fails to deliver.                                      *)

\* publish: what does not fit is dropped, and that is the end of it.
Publishes(items) ==
  LET room == IF Len(items) <= MaxQueue - Len(queue) THEN Len(items) ELSE MaxQueue - Len(queue) IN
  /\ queue' = queue \o SubSeq(items, 1, room)
  /\ settled' = settled \cup (ToSet(SubSeq(items, room + 1, Len(items))) \ {Note})

\* A POST ends; those who wait for the queue of their moment are one nearer.
Nearer(n) == IF n = 0 THEN 0 ELSE n - 1
Sends ==
  /\ queue # <<>> /\ queue' = Tail(queue)
  /\ settled' = settled \cup ({Head(queue)} \ {Note})
  /\ rec' = [rec EXCEPT !.ahead = Nearer(@)]
  /\ chain' = [n \in DOMAIN chain |-> [chain[n] EXCEPT !.ahead = Nearer(@)]]
  /\ UNCHANGED <<gateway, link, tracker, identities, checkpoints, dirty, seen, failed, scheduled,
                 disposed, outran, faults>>

-----------------------------------------------------------------------------
(* The checkpoint file. *)

\* load: the first read is kept, a failed one too.
Loads ==
  \/ loaded # "no" /\ UNCHANGED <<checkpoints, faults>>
  \/ loaded = "no" /\ loaded' = "yes" /\ mem' = disk /\ UNCHANGED <<disk, faults>>
  \/ loaded = "no" /\ Fault /\ loaded' = "failed" /\ UNCHANGED <<mem, disk>>

\* set, over writes: a whole new file by one rename, then the copy in memory.
Saves(i, checkpoint) ==
  mem' = [mem EXCEPT ![i] = checkpoint] /\ disk' = mem' /\ UNCHANGED <<loaded, faults>>
SaveFails == Fault /\ UNCHANGED checkpoints

-----------------------------------------------------------------------------
(* history, one call after the other. *)

MyTurn(n) == n = 1

Running(n, step) == n \in DOMAIN chain /\ chain[n].step = step /\ MyTurn(n)
IsOpen(l) == \E k \in Keys : loop[k] = l
KeyHolding(l) == CHOOSE k \in Keys : loop[k] = l

\* The end of a call, resolved or rejected.
Ends(n) ==
  /\ chain' = RemoveAt(chain, n)
  /\ scheduled' = IF chain[n].auto THEN scheduled \ {chain[n].loop} ELSE scheduled
Goes(n, c) == chain' = [chain EXCEPT ![n] = c] /\ UNCHANGED scheduled

\* A session command opens a session.
Asked(l) ==
  /\ IsOpen(l) /\ ~disposed /\ Len(chain) < MaxCalls
  /\ chain' = Append(chain, CallOf(l, FALSE))
  /\ UNCHANGED <<gateway, link, tracker, identities, checkpoints, sender, pass, scheduled, disposed,
                 outran, faults>>

\* publishHistory: the loop must be open; its session is the one that the last
\* pass saw under its key, or has to be listed.
Resolves(n) ==
  /\ Running(n, "load") /\ Loads
  /\ IF disposed \/ loaded' = "failed" \/ ~IsOpen(chain[n].loop) THEN Ends(n)
     ELSE LET k == KeyHolding(chain[n].loop) IN
          Goes(n, [chain[n] EXCEPT !.step = IF identities[k] = 0 THEN "list" ELSE "read",
                                  !.key = k, !.id = identities[k]])
  /\ UNCHANGED <<gateway, link, tracker, identities, sender, pass, disposed, outran>>
Identifies(n) ==
  /\ Running(n, "list")
  /\ Goes(n, [chain[n] EXCEPT !.step = "read", !.id = row[chain[n].key].id])
  /\ UNCHANGED <<gateway, link, tracker, identities, checkpoints, sender, pass, disposed, outran,
                 faults>>

\* chat.history answers with the last turns of whoever holds the key by now ...
Oldest(i) == IF turns[i] > Window THEN turns[i] - Window + 1 ELSE 1
Reads(n) ==
  /\ Running(n, "read")
  /\ LET i == row[chain[n].key].id IN
     /\ Goes(n, [chain[n] EXCEPT !.step = "compare", !.of = i, !.last = turns[i], !.next = Oldest(i)])
     /\ outran' = outran \cup {o \in Outputs : o.id = i /\ o.turn < Oldest(i)}
  /\ UNCHANGED <<gateway, link, tracker, identities, checkpoints, sender, pass, disposed, faults>>

\* ... of which those after the saved point are new, or all if it is not there.
Compares(n) ==
  /\ Running(n, "compare")
  /\ LET c == chain[n]
         p == mem[c.id].point IN
     Goes(n, [c EXCEPT !.step = "walk",
                       !.next = IF p.id = c.of /\ p.turn \in c.next..c.last THEN p.turn + 1 ELSE @])
  /\ UNCHANGED <<gateway, link, tracker, identities, checkpoints, sender, pass, disposed, outran,
                 faults>>

RequestFails(n) ==
  /\ (Running(n, "list") \/ Running(n, "read")) /\ Fault /\ Ends(n)
  /\ UNCHANGED <<gateway, link, tracker, identities, checkpoints, sender, pass, disposed, outran>>

\* One output goes to the sender, unless the loop was closed meanwhile ...
Walks(n) ==
  /\ Running(n, "walk")
  /\ LET c == chain[n] IN
     IF c.next > c.last \/ disposed \/ ~IsOpen(c.loop)
     THEN Ends(n) /\ UNCHANGED sender
     ELSE /\ Publishes(<<[id |-> c.of, turn |-> c.next]>>)
          /\ Goes(n, [c EXCEPT !.step = "sent", !.ahead = Len(queue')])
  /\ UNCHANGED <<gateway, link, tracker, identities, checkpoints, pass, disposed, outran, faults>>

\* Variant: the point is saved without waiting for the sender.
NoWait(c) == TRUE
Waited(c) == c.ahead = 0
\* ... and is recorded under the identity that the call began with.
Records(n) ==
  /\ Running(n, "sent") /\ Waited(chain[n])
  /\ LET c == chain[n] IN
     \/ /\ Saves(c.id, [mem[c.id] EXCEPT !.point = [id |-> c.of, turn |-> c.next]])
        /\ Goes(n, [c EXCEPT !.step = "walk", !.next = c.next + 1, !.ahead = 0])
     \/ SaveFails /\ Ends(n)
  /\ UNCHANGED <<gateway, link, tracker, identities, sender, pass, disposed, outran>>

-----------------------------------------------------------------------------
(* refresh, and the pass it starts. *)

\* Variant: a refresh during a pass counts on the list of that pass.
JoinsPass == dirty
MarksDirty == TRUE

\* refresh: the pass clears the mark before it waits for anything.
Refreshes ==
  IF disposed THEN UNCHANGED pass
  ELSE IF rec.step # "idle" THEN dirty' = MarksDirty /\ UNCHANGED <<rec, seen, failed>>
  ELSE dirty' = FALSE /\ rec' = [NoPass EXCEPT !.step = "load"] /\ UNCHANGED <<seen, failed>>

\* A command, or the kernel's socket that is up again.
RefreshAsked ==
  /\ ~disposed /\ Refreshes
  /\ UNCHANGED <<gateway, link, tracker, identities, checkpoints, sender, calls, disposed, outran,
                 faults>>

\* A pass that fails leaves `dirty' as it is; the next refresh starts another.
PassFails == rec' = NoPass /\ failed' = TRUE /\ UNCHANGED <<dirty, seen>>
PassGoes(r) == rec' = r /\ UNCHANGED <<dirty, seen, failed>>

PassLoads ==
  /\ rec.step = "load" /\ Loads
  /\ IF loaded' = "failed" THEN PassFails ELSE PassGoes([rec EXCEPT !.step = "list"])
  /\ UNCHANGED <<gateway, link, tracker, identities, sender, calls, disposed, outran>>

\* sessions.list: answered, and later read.
Lists ==
  /\ rec.step = "list" /\ PassGoes([rec EXCEPT !.step = "rows", !.rows = row, !.left = Keys])
  /\ UNCHANGED <<gateway, link, tracker, identities, checkpoints, sender, calls, disposed, outran,
                 faults>>
ListFails ==
  /\ rec.step = "list" /\ Fault /\ PassFails
  /\ UNCHANGED <<gateway, link, tracker, identities, checkpoints, sender, calls, disposed, outran>>

\* onSessionSnapshot: a replaced session's loop ends, an archived one's too,
\* told unless the file says it was; any other is opened, again if need be.
Snapshot(k, r) ==
  LET other == loop[k] \notin {0, r.id}
      finished == IF other THEN ended \cup {loop[k]} ELSE ended
      old == IF other THEN <<Note>> ELSE <<>>
      archives == r.archived /\ r.id \notin finished IN
  /\ loop' = [loop EXCEPT ![k] = IF r.archived THEN 0 ELSE r.id]
  /\ ended' = IF archives THEN finished \cup {r.id}
              ELSE IF r.archived THEN finished ELSE finished \ {r.id}
  /\ Publishes(old \o IF r.archived /\ (~archives \/ mem[r.id].archived) THEN <<>> ELSE <<Note>>)

\* observe: identity, snapshot, then the wait for what was queued by then.
Observes(k) ==
  /\ rec.step = "rows" /\ k \in rec.left
  /\ IF disposed THEN PassGoes([rec EXCEPT !.left = {}]) /\ UNCHANGED <<tracker, identities, sender>>
     ELSE LET r == rec.rows[k] IN
          /\ identities' = [identities EXCEPT ![k] = r.id]
          /\ Snapshot(k, r) /\ seen' = [seen EXCEPT ![k] = r]
          /\ rec' = [rec EXCEPT !.step = "told", !.key = k, !.ahead = Len(queue'), !.left = @ \ {k}]
          /\ UNCHANGED <<dirty, failed>>
  /\ UNCHANGED <<gateway, link, checkpoints, calls, disposed, outran, faults>>

\* The mark of an archived row is set and cleared; a live row's turns are due.
Marks ==
  /\ rec.step = "told" /\ rec.ahead = 0
  /\ LET k == rec.key
         r == rec.rows[k]
         next == [rec EXCEPT !.step = "rows", !.backfill =
                    IF r.archived \/ disposed \/ loop[k] \in {0} \cup scheduled THEN @ ELSE @ \cup {loop[k]}] IN
     IF disposed \/ mem[r.id].archived = r.archived THEN PassGoes(next) /\ UNCHANGED <<checkpoints, faults>>
     ELSE \/ Saves(r.id, [mem[r.id] EXCEPT !.archived = r.archived]) /\ PassGoes(next)
          \/ SaveFails /\ PassFails
  /\ UNCHANGED <<gateway, link, tracker, identities, sender, calls, disposed, outran>>

\* The end of the rows: the calls start, and another pass if a refresh came.
\* Bound: it waits until the calls have room.
PassEnds ==
  /\ rec.step = "rows" /\ rec.left = {} /\ Len(chain) + Cardinality(rec.backfill) <= MaxCalls
  /\ LET due == SetToSeq(rec.backfill) IN
     chain' = chain \o [n \in DOMAIN due |-> CallOf(due[n], TRUE)]
  /\ scheduled' = scheduled \cup rec.backfill
  /\ dirty' = FALSE /\ failed' = FALSE /\ UNCHANGED seen
  /\ rec' = IF dirty /\ ~disposed THEN [NoPass EXCEPT !.step = "load"] ELSE NoPass
  /\ UNCHANGED <<gateway, link, tracker, identities, checkpoints, sender, disposed, outran, faults>>

-----------------------------------------------------------------------------
(* The gateway and its client. *)

\* A change of the list is announced to a client that subscribed.
Changes(k, r) ==
  /\ row' = [row EXCEPT ![k] = r] /\ event' = (event \/ conn \in {"subscribed", "up"})
  /\ UNCHANGED <<turns, conn, tracker, identities, checkpoints, sender, pass, calls, disposed, outran,
                 faults>>
Reset(k) ==
  /\ ids < MaxIds /\ ids' = ids + 1
  /\ Changes(k, [id |-> ids + 1, archived |-> FALSE]) /\ UNCHANGED changes
Archives(k) ==
  /\ changes < MaxChanges /\ changes' = changes + 1
  /\ Changes(k, [row[k] EXCEPT !.archived = ~@]) /\ UNCHANGED ids
Turn(k) ==
  /\ turns[row[k].id] < MaxTurns /\ ~row[k].archived
  /\ turns' = [turns EXCEPT ![row[k].id] = @ + 1]
  /\ UNCHANGED <<row, ids, changes, link, tracker, identities, checkpoints, sender, pass, calls,
                 disposed, outran, faults>>

Event ==
  /\ event /\ event' = FALSE /\ Refreshes
  /\ UNCHANGED <<gateway, conn, tracker, identities, checkpoints, sender, calls, disposed, outran,
                 faults>>

\* onHelloOk, onConnected: subscribe, and a refresh once that is answered.
Hello ==
  /\ conn = "down" /\ ~disposed /\ conn' = "asked"
  /\ UNCHANGED <<gateway, event, tracker, identities, checkpoints, sender, pass, calls, disposed,
                 outran, faults>>
Subscribes ==
  /\ conn = "asked"
  /\ \/ conn' = "subscribed" /\ UNCHANGED faults
     \/ conn' = "deaf" /\ Fault
  /\ UNCHANGED <<gateway, event, tracker, identities, checkpoints, sender, pass, calls, disposed,
                 outran>>
Subscribed ==
  /\ conn = "subscribed" /\ conn' = "up" /\ Refreshes
  /\ UNCHANGED <<gateway, event, tracker, identities, checkpoints, sender, calls, disposed, outran,
                 faults>>
\* The connection is lost, and events on their way with it.
Disconnects ==
  /\ conn # "down" /\ Fault /\ conn' = "down" /\ event' = FALSE
  /\ UNCHANGED <<gateway, tracker, identities, checkpoints, sender, pass, calls, disposed, outran>>

\* The host's hooks, which come when they come: session_start and session_end.
HookStarts(k) ==
  /\ row[k].id \notin ended \cup {loop[k]} /\ ~row[k].archived
  /\ ended' = IF loop[k] = 0 THEN ended ELSE ended \cup {loop[k]}
  /\ loop' = [loop EXCEPT ![k] = row[k].id]
  /\ Publishes(IF loop[k] = 0 THEN <<Note>> ELSE <<Note, Note>>)
  /\ UNCHANGED <<gateway, link, identities, checkpoints, pass, calls, disposed, outran, faults>>
HookEnds(k) ==
  /\ loop[k] # 0 /\ ended' = ended \cup {loop[k]}
  /\ loop' = [loop EXCEPT ![k] = 0] /\ Publishes(<<Note>>)
  /\ UNCHANGED <<gateway, link, identities, checkpoints, pass, calls, disposed, outran, faults>>

\* The registration ends; what is awaited comes back all the same.
Dispose ==
  /\ ~disposed /\ disposed' = TRUE /\ conn' = "down" /\ event' = FALSE
  /\ identities' = [k \in Keys |-> 0] /\ scheduled' = {}
  /\ UNCHANGED <<gateway, tracker, checkpoints, sender, pass, chain, outran, faults>>

\* The process dies and starts again; the file is what is left of this module.
Crash ==
  /\ Fault /\ disposed' = FALSE /\ conn' = "down" /\ event' = FALSE
  /\ loop' = [k \in Keys |-> 0] /\ ended' = {} /\ identities' = loop'
  /\ loaded' = "no" /\ mem' = [i \in Ids |-> Fresh] /\ UNCHANGED disk
  /\ queue' = <<>> /\ UNCHANGED settled
  /\ dirty' = FALSE /\ rec' = NoPass /\ seen' = [k \in Keys |-> Unseen] /\ failed' = FALSE
  /\ chain' = <<>> /\ scheduled' = {}
  /\ UNCHANGED <<gateway, outran>>

History(n) == Resolves(n) \/ Identifies(n) \/ Reads(n) \/ RequestFails(n) \/ Compares(n)
                \/ Walks(n) \/ Records(n)
Pass == PassLoads \/ Lists \/ ListFails \/ (\E k \in Keys : Observes(k)) \/ Marks \/ PassEnds
Calls == \/ \E n \in 1..MaxCalls : History(n)
         \/ \E l \in Ids : Asked(l)
         \/ \E k \in Keys : Turn(k)
Client == Event \/ Hello \/ Subscribes \/ Subscribed
Rows == \E k \in Keys : Archives(k) \/ HookEnds(k)
Hooks == \E k \in Keys : HookStarts(k)

Resets == \E k \in Keys : Reset(k)

Next == \/ Pass \/ Calls \/ Client \/ Rows \/ Hooks \/ Resets \/ Sends \/ RefreshAsked
        \/ Disconnects \/ Dispose \/ Crash

Spec == Init /\ [][Next]_vars

-----------------------------------------------------------------------------
(* Properties. *)

\* Once it rests, the inventory has told the tracker of the sessions as they are:
\* no change is lost between a list and the refresh that another one called for.
\* (refresh, reconcile, onConnected)
RefreshCovers ==
  rec.step = "idle" /\ conn = "up" /\ ~event /\ ~failed /\ ~disposed => seen = row

\* What is on record is done with: the sender delivered or gave up every turn up to
\* a saved point, but for those that had left the window when they were asked for.
HistoryKept ==
  \A i \in Ids : LET p == disk[i].point IN
    \A t \in 1..p.turn : [id |-> p.id, turn |-> t] \in settled \cup outran
\* A session's cursor is of its own turns for as long as it holds a key, whatever a
\* call that began with its predecessor records: a new id gets a cursor of its own.
CursorsOwn == \A k \in Keys : disk[row[k].id].point.id \in {0, row[k].id}

\* A turn goes to the sender, of the session the call began with, and is on record.
Repeats(n) ==
  LET c == chain[n]
      p == disk[c.of].point IN
  /\ Running(n, "walk") /\ Len(chain') = Len(chain) /\ chain'[n].step = "sent"
  /\ c.id = c.of /\ p.id = c.of /\ c.next <= p.turn

\* No step puts on record what is not done with, gives a session the cursor of another
\* or publishes a recorded turn again: not a command that opens the session while its
\* backfill runs, nor a backfill after a restart, nor hooks, resets and passes that
\* meet.  But one turn the code may send twice, and so may a step here: a call that
\* knows its key's session from before a reset (c.id # c.of) reads the successor's
\* turns and records them under the predecessor's id, where the successor's own calls
\* do not look.  (historyChain, publishHistory, idle)
HistoryExact == [][HistoryKept' /\ CursorsOwn' /\ \A n \in DOMAIN chain : ~Repeats(n)]_vars
=============================================================================
