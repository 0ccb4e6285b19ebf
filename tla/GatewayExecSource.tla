--------------------------- MODULE GatewayExecSource ---------------------------
(***************************************************************************)
(* The gateway's ask-gated commands as a source of the approvals bridge    *)
(* (sources/gateway-exec.ts): an ask is broadcast once, on a socket that   *)
(* may be down, or up before there is a bridge to hear of it; the bridge   *)
(* asks for the pending ones when it has started, every five minutes, and  *)
(* on every connect of the socket after the first.                         *)
(*                                                                         *)
(* Abstractions.  The socket delivers in order, so that an answer is read  *)
(* before what is raised after it.  Of a reconcile there is its turn at    *)
(* this source, after those before it; of the bridge, the asks it has      *)
(* taken: it decides what becomes of them (ApprovalsBridge).               *)
(***************************************************************************)
EXTENDS Naturals, Sequences, FiniteSets

CONSTANTS
  Asks,          \* approvals of ask-gated commands
  Reconciles,    \* reconcile runs, any number of which may be under way
  MaxHellos      \* bound: connects of the socket

VARIABLES
  ask,       \* of each ask: to come, pending at the gateway, or over
  up,        \* the socket to the gateway
  hellos,    \* helloCount
  wire,      \* the broadcasts on the socket
  started,   \* connecting, subscribed (the bridge is there), or reconciled
  recon,     \* of each reconcile: off, on the way to this source, asked, or its answer
  taken      \* the asks the bridge has taken

Off == [pc |-> "off", rows |-> {}]
Answer == [pc : {"answer"}, rows : SUBSET Asks]

ExecTypeOK ==
  /\ ask \in [Asks -> {"none", "pending", "over"}] /\ up \in BOOLEAN /\ hellos \in 0..MaxHellos
  /\ wire \subseteq Asks /\ (~up => wire = {}) /\ taken \subseteq Asks
  /\ started \in {"connecting", "subscribed", "reconciled"}
  /\ recon \in [Reconciles -> [pc : {"off", "waits", "asked"}, rows : {{}}] \cup Answer]

ExecInit ==
  /\ ask = [a \in Asks |-> "none"] /\ up = FALSE /\ hellos = 0 /\ wire = {}
  /\ started = "connecting" /\ recon = [r \in Reconciles |-> Off] /\ taken = {}

Pending == {a \in Asks : ask[a] = "pending"}

-----------------------------------------------------------------------------
(* The gateway. *)

Raised(a) ==
  /\ ask[a] = "none" /\ ask' = [ask EXCEPT ![a] = "pending"]
  /\ wire' = IF up THEN wire \cup {a} ELSE wire
  /\ UNCHANGED <<up, hellos, started, recon, taken>>

\* Decided, or run out of its time.
Over(a) ==
  /\ ask[a] = "pending" /\ ask' = [ask EXCEPT ![a] = "over"]
  /\ UNCHANGED <<up, hellos, wire, started, recon, taken>>

\* What was on the socket is lost, and what was asked on it fails.
Drops ==
  /\ up /\ up' = FALSE /\ wire' = {}
  /\ recon' = [r \in Reconciles |-> IF recon[r].pc = "waits" THEN recon[r] ELSE Off]
  /\ UNCHANGED <<ask, hellos, started, taken>>

-----------------------------------------------------------------------------
(* The connection. *)

\* A reconcile begins, at the sources before this one.
Begins == \E r \in Reconciles : recon[r].pc = "off" /\ recon' = [recon EXCEPT ![r].pc = "waits"]

\* Variant: the second connect is taken for the first.
SecondIsFirst == hellos' > 2
\* onHelloOk: every connect but the first is a reconnect.
Reconnected == hellos' > 1

\* Before the bridge there is nothing to reconcile.
Hello ==
  /\ ~up /\ up' = TRUE /\ hellos < MaxHellos /\ hellos' = hellos + 1
  /\ IF Reconnected /\ started # "connecting" THEN Begins ELSE UNCHANGED recon
  /\ UNCHANGED <<ask, wire, started, taken>>

\* Without a handler the broadcast is dropped.
Delivers(a) ==
  /\ a \in wire /\ wire' = wire \ {a}
  /\ \A r \in Reconciles : recon[r].pc # "answer"
  /\ taken' = IF started = "connecting" THEN taken ELSE taken \cup {a}
  /\ UNCHANGED <<ask, up, hellos, started, recon>>

-----------------------------------------------------------------------------
(* The bridge. *)

\* After the first connect; the preflight is still to come.
Subscribes ==
  /\ started = "connecting" /\ hellos > 0 /\ started' = "subscribed"
  /\ UNCHANGED <<ask, up, hellos, wire, recon, taken>>

StartupReconcile ==
  /\ started = "subscribed" /\ started' = "reconciled" /\ Begins
  /\ UNCHANGED <<ask, up, hellos, wire, taken>>

\* The kernel sync's.
PeriodicReconcile ==
  /\ started # "connecting" /\ Begins
  /\ UNCHANGED <<ask, up, hellos, wire, started, taken>>

\* Its turn comes: without a socket the request fails at once.
Turns(r) ==
  /\ recon[r].pc = "waits"
  /\ recon' = [recon EXCEPT ![r] = IF up THEN [Off EXCEPT !.pc = "asked"] ELSE Off]
  /\ UNCHANGED <<ask, up, hellos, wire, started, taken>>

ListAnswered(r) ==
  /\ recon[r].pc = "asked" /\ recon' = [recon EXCEPT ![r] = [pc |-> "answer", rows |-> Pending]]
  /\ UNCHANGED <<ask, up, hellos, wire, started, taken>>

\* reconcileSource: those that are gone are let go, the others taken.
Reconciled(r) ==
  /\ recon[r].pc = "answer" /\ recon' = [recon EXCEPT ![r] = Off]
  /\ taken' = recon[r].rows
  /\ UNCHANGED <<ask, up, hellos, wire, started>>

-----------------------------------------------------------------------------
ExecStep ==
  \/ Drops \/ Hello \/ Subscribes \/ StartupReconcile \/ PeriodicReconcile
  \/ \E a \in Asks : Raised(a) \/ Over(a) \/ Delivers(a)
  \/ \E r \in Reconciles : Turns(r) \/ ListAnswered(r) \/ Reconciled(r)

-----------------------------------------------------------------------------
\* While the socket is up no pending ask is forgotten: the bridge has taken it, or
\* its broadcast, or a list that is still to be made or read, brings it.  (onHelloOk:532)
NoAskForgotten ==
  \A a \in Pending :
    up /\ started = "reconciled" =>
      \/ a \in taken \cup wire
      \/ \E r \in Reconciles : recon[r].pc \in {"waits", "asked"} \/ a \in recon[r].rows
=============================================================================
