----------------------------- MODULE SessionLoops -----------------------------
(***************************************************************************)
(* The loops of the plugin: what the hooks make of them (LoopTracking),    *)
(* and what the inventory of the gateway's sessions makes of them          *)
(* (SessionInventory), which keeps of the tracker only what it asks it.    *)
(*                                                                         *)
(* `theme' is the kind of behaviour that a run explores: the hooks of      *)
(* "sessions" or of "cron" in the one; in the other "inventory", where no  *)
(* turn is taken or read, or one of two without archivings, loops that a   *)
(* hook ends, lost connections and commands: "history", where no session   *)
(* is replaced, and "replaced", with fewer calls, turns and faults.  What  *)
(* is proved of the inventory alone, where all of them meet, needs no      *)
(* kinds.                                                                  *)
(***************************************************************************)
EXTENDS LoopTracking

CONSTANTS SessionKeys, MaxIds, MaxTurns, Window, MaxQueue, MaxCalls, MaxChanges, MaxFaults,
          FewCalls, FewTurns

VARIABLES theme, row, turns, conn, event, loop, ended, identities, loaded, mem, disk, queue, dirty,
          rec, chain, scheduled, disposed, seen, failed, settled, outran, ids, changes, faults

inventoryVars == <<row, turns, conn, event, loop, ended, identities, loaded, mem, disk, queue, dirty,
                   rec, chain, scheduled, disposed, seen, failed, settled, outran, ids, changes,
                   faults>>

ASSUME InventoryAssumption ==
  /\ MaxIds \in Nat /\ MaxTurns \in Nat /\ Window \in Nat \ {0} /\ MaxQueue \in Nat
  /\ MaxCalls \in Nat /\ MaxChanges \in Nat /\ MaxFaults \in Nat /\ IsFiniteSet(SessionKeys)
  /\ FewCalls \in Nat /\ FewTurns \in Nat

Inventory == INSTANCE SessionInventory WITH Keys <- SessionKeys

-----------------------------------------------------------------------------
\* The keys that hooks of this kind of behaviour may name.
Named == IF theme = "cron" THEN {RunKey(j) : j \in Jobs} ELSE Primary \cup Children
Requesters(theirs) == Children \cup theirs \cup {None}

Sessions ==
  \/ SessionStep
  \/ \E c \in Children, requester \in Requesters(Primary) : SubagentSpawned(c, requester)
  \/ \E k \in SpawnKeys, parent \in Loops \cup {None} : RegisterSpawn(k, parent)
Cron ==
  \/ \E c \in Children, requester \in Requesters({RunKey(j) : j \in Jobs}) : SubagentSpawned(c, requester)
  \/ CronStep \/ ReconcileStep \/ Crash
\* Bound: approvals are held of one owner at a time, of jobs one, for a run's key.
Both ==
  \/ \E c \in Children : SubagentProgress(c) \/ SubagentEnded(c)
  \/ \E l \in Loops : Progress(l)
  \/ \E a \in Approvals, k \in Named :
       (\A b \in Approvals : held[b] \in IF theme = "cron" THEN {None} ELSE {None, k}) /\ Hold(a, k)
  \/ \E a \in Approvals : Release(a)

\* Bound: where sessions are replaced, this many calls and turns, lists and the file of
\* checkpoints can be read, and no disposal follows a fault.
Few ==
  /\ DOMAIN chain' \subseteq 1..FewCalls /\ \A i \in 1..MaxIds : turns'[i] <= FewTurns
  /\ loaded' # "failed" /\ conn' # "deaf" /\ ~failed' /\ (disposed' => faults' = 0)

HookStep ==
  /\ UNCHANGED <<theme, inventoryVars>>
  /\ \/ theme = "sessions" /\ Sessions
     \/ theme = "cron" /\ Cron
     \/ theme \in {"sessions", "cron"} /\ Both
InventoryStep ==
  /\ theme \in {"inventory", "history", "replaced"} /\ UNCHANGED <<vars, theme>>
  /\ \/ Inventory!Pass \/ Inventory!Client \/ Inventory!Sends \/ Inventory!Hooks
     \/ Inventory!Dispose \/ Inventory!Crash
     \/ theme \in {"inventory", "replaced"} /\ Inventory!Resets
     \/ theme \in {"history", "replaced"} /\ Inventory!Calls
     \/ theme = "inventory" /\ (Inventory!Rows \/ Inventory!RefreshAsked \/ Inventory!Disconnects)
  /\ theme = "replaced" => Few

LoopsInit == Init /\ Inventory!Init /\ theme \in {"sessions", "cron", "inventory", "history", "replaced"}
LoopsSpec == LoopsInit /\ [][HookStep \/ InventoryStep]_<<vars, theme, inventoryVars>>

-----------------------------------------------------------------------------
(* The properties of the inventory, under its names. *)

\* The tracker is told of the gateway's list as it is.  (refresh, reconcile)
RefreshCovers == Inventory!RefreshCovers
\* A turn on record is done with, the cursor of who holds a key is its own, and what a
\* call knows to be on record is not published again.  (historyChain, publishHistory)
HistoryExact == Inventory!HistoryExact
=============================================================================
