--------------------------- MODULE SessionCommands ---------------------------
(***************************************************************************)
(* The executor of the kernel's session commands (session-commands.ts) and *)
(* its adapter to the local gateway (session-command-gateway.ts).          *)
(*                                                                         *)
(* Each frame has a handler of its own; handlers interleave at their       *)
(* awaits and share the set of seen ids and the claims on approvals, the   *)
(* latter with the approvals bridge.  Between signature and gateway a      *)
(* handler awaits the signature, the agent's serviceOf and the principal's *)
(* countersignature.                                                       *)
(*                                                                         *)
(* Abstractions.  A frame is an id and whether the kernel's grant on it is *)
(* valid; the checks ahead of the signature reject like it and change      *)
(* nothing.  "approve" stands for deny, too, "send" for spawn and abort,   *)
(* "archive" for label: the verbs that differ in what is claimed, listed   *)
(* and ended.  One session key, whose sessions are numbered; a command is  *)
(* addressed to the loop of its first session.  The kernel link and the    *)
(* end of the runtime are the environment's: see KernelLink.               *)
(***************************************************************************)
EXTENDS Naturals, Sequences, SequencesExt, FiniteSets

CONSTANTS
  Commands,       \* command ids
  Approvals,
  VerbOf,         \* of a command: "approve", "send" or "archive"
  ApprovalOf,     \* the approval it resolves or converts, or NoApproval
  NoApproval,
  NoCommand,
  MaxSeen,        \* MAX_SEEN_COMMANDS
  MaxFrames,      \* bound: frames delivered
  MaxSessions     \* bound: sessions of the key

Handlers == {1, 2}

VARIABLES
  link,      \* the environment's: the service's socket is open
  retired,   \* the environment's: the runtime is disposed
  busy,      \* the handlers
  seen,      \* the ids remembered, oldest first
  claimed,   \* ApprovalExecutionRegistry.claimed
  conn,      \* the loopback gateway client: `started'
  kind,      \* the namespace the gateway has an approval in
  pending,   \* the approvals it has not resolved
  session,   \* its session of the key, 0 when that is archived
  tracked,   \* the one whose loop the tracker has open, 0 for none
  expired,   \* commands past their time
  told,      \* the attestations that reached the kernel
  issued,    \* history: ids the kernel has sent itself
  evicted,   \* history: ids forgotten again
  ran,       \* history: how often a command got as far as the gateway
  asked,     \* history: who asked for an approval to be resolved, how often
  did,       \* history: commands the gateway has carried out
  frames     \* counts them

environment == <<link, retired>>
gateway == <<kind, pending, session>>
history == <<issued, evicted, ran, asked, frames>>
own == <<busy, seen, claimed, conn, gateway, tracked, expired, told, did, history>>
vars == <<environment, own>>

NoFrame == [pc |-> "idle", id |-> NoCommand, grant |-> FALSE, outcome |-> "none", listed |-> 0]
AtGateway == {"exec", "plugin", "rpc", "list", "patch"}

TypeOK ==
  /\ busy \in [Handlers -> [pc : {"idle", "signature", "service", "wish", "patched", "attest"} \cup AtGateway,
                            id : Commands \cup {NoCommand}, grant : BOOLEAN,
                            outcome : {"none", "completed", "failed"}, listed : 0..MaxSessions]]
  /\ seen \in Seq(Commands) /\ Len(seen) <= MaxSeen
  /\ claimed \subseteq Approvals /\ pending \subseteq Approvals
  /\ kind \in [Approvals -> {"exec", "plugin"}] /\ conn \in BOOLEAN
  /\ session \in 0..MaxSessions /\ tracked \in 0..MaxSessions
  /\ expired \cup issued \cup evicted \cup did \subseteq Commands
  /\ told \subseteq Commands \X {"completed", "failed"}

Init ==
  /\ busy = [h \in Handlers |-> NoFrame] /\ seen = <<>> /\ claimed = {} /\ conn = FALSE
  /\ kind \in [Approvals -> {"exec", "plugin"}] /\ pending = Approvals
  /\ session = 1 /\ tracked = 1 /\ expired = {} /\ told = {}
  /\ issued = {} /\ evicted = {} /\ did = {} /\ frames = 0
  /\ ran = [c \in Commands |-> 0] /\ asked = [a \in Approvals |-> 0]

-----------------------------------------------------------------------------

Goto(h, pc) == busy' = [busy EXCEPT ![h].pc = pc]
Ends(h, outcome) == busy' = [busy EXCEPT ![h].pc = "attest", ![h].outcome = outcome]
\* Rejection, SessionGatewayFailure or any other error: attested as failed.
Reject(h) == Ends(h, "failed")
Completes(h) == Ends(h, "completed")
At(h, pc) == busy[h].pc = pc
Command(h) == busy[h].id

\* handleFrame: a frame dispatched by the socket's handler, to this runtime.
Receive(h, c, grant) ==
  /\ link /\ ~retired /\ At(h, "idle") /\ \A g \in 1..(h - 1) : ~At(g, "idle")
  /\ frames < MaxFrames /\ frames' = frames + 1
  /\ busy' = [busy EXCEPT ![h] = [NoFrame EXCEPT !.pc = "signature", !.id = c, !.grant = grant]]
  /\ issued' = IF grant THEN issued \cup {c} ELSE issued
  /\ UNCHANGED <<environment, seen, claimed, conn, gateway, tracked, expired, told, evicted, ran, asked, did>>

\* remember: the oldest id goes when the map is over its size.
Remember(c) ==
  LET all == IF c \in ToSet(seen) THEN seen ELSE Append(seen, c) IN
  IF Len(all) > MaxSeen THEN seen' = Tail(all) /\ evicted' = evicted \cup {Head(all)}
  ELSE seen' = all /\ evicted' = evicted

\* Variant: an id seen before is no reason to refuse.
VerifiedAgain(h) ==
  /\ At(h, "signature")
  /\ IF busy[h].grant /\ Command(h) \notin expired
     THEN Remember(Command(h)) /\ Goto(h, "service")
     ELSE Reject(h) /\ UNCHANGED <<seen, evicted>>
  /\ UNCHANGED <<environment, claimed, conn, gateway, tracked, expired, told, issued, ran, asked, did, frames>>
\* verify: signature, window, replay; one continuation checks and remembers.
Verified(h) ==
  /\ At(h, "signature")
  /\ IF busy[h].grant /\ Command(h) \notin expired /\ Command(h) \notin ToSet(seen)
     THEN Remember(Command(h)) /\ Goto(h, "service")
     ELSE Reject(h) /\ UNCHANGED <<seen, evicted>>
  /\ UNCHANGED <<environment, claimed, conn, gateway, tracked, expired, told, issued, ran, asked, did, frames>>
\* serviceOf, read anew for each command; unreadable is no.
ServiceOf(h, serves) ==
  /\ At(h, "service") /\ IF serves THEN Goto(h, "wish") ELSE Reject(h)
  /\ UNCHANGED <<environment, seen, claimed, conn, gateway, tracked, expired, told, did, history>>

\* claim: once and for all; nothing releases it.
Claim(a) == claimed' = claimed \cup {a} /\ asked' = [asked EXCEPT ![a] = @ + 1]

\* From the countersignature to the gateway call there is no await: the target
\* is resolved, the approval claimed and the call made in one go.
Execute(h) ==
  LET c == Command(h)
      a == ApprovalOf[c] IN
  IF (VerbOf[c] # "approve" /\ tracked # 1) \/ a \in claimed
  THEN Reject(h) /\ UNCHANGED <<claimed, asked, ran>>
  ELSE /\ IF a = NoApproval THEN UNCHANGED <<claimed, asked>> ELSE Claim(a)
       /\ ran' = [ran EXCEPT ![c] = @ + 1]
       /\ Goto(h, CASE VerbOf[c] = "approve" -> "exec"
                    [] VerbOf[c] = "send"    -> "rpc"
                    [] OTHER                 -> "list")
Countersigned(h, valid) ==
  /\ At(h, "wish")
  /\ IF valid THEN Execute(h) ELSE Reject(h) /\ UNCHANGED <<claimed, asked, ran>>
  /\ UNCHANGED <<environment, seen, conn, gateway, tracked, expired, told, issued, evicted, did, frames>>

-----------------------------------------------------------------------------
(* The gateway client and its calls. *)

\* createLoopbackSessionGateway: the first request connects, the others share
\* its promise; a failure fails them all and lets the next request try again.
Waits(h) == busy[h].pc \in AtGateway
ConnectGateway ==
  /\ ~conn /\ ~retired /\ (\E h \in Handlers : Waits(h)) /\ conn' = TRUE
  /\ UNCHANGED <<environment, busy, seen, claimed, gateway, tracked, expired, told, did, history>>
ConnectGatewayFails ==
  /\ ~conn /\ \E h \in Handlers : Waits(h)
  /\ busy' = [h \in Handlers |-> IF Waits(h)
                THEN [busy[h] EXCEPT !.pc = "attest", !.outcome = "failed"] ELSE busy[h]]
  /\ UNCHANGED <<environment, seen, claimed, conn, gateway, tracked, expired, told, did, history>>
\* The client is stopped, and so are its requests.
Disposed(h) ==
  /\ retired /\ Waits(h) /\ Reject(h)
  /\ UNCHANGED <<environment, seen, claimed, conn, gateway, tracked, expired, told, did, history>>

Calls(h, pc) == At(h, pc) /\ conn /\ ~retired
Applies(h, in) == ApprovalOf[Command(h)] \in pending /\ kind[ApprovalOf[Command(h)]] = in
Resolved(h) == pending' = pending \ {ApprovalOf[Command(h)]} /\ did' = did \cup {Command(h)}

\* Variant: a failed leg gives the claim back.
ExecReleases(h, answered) ==
  /\ Calls(h, "exec")
  /\ IF Applies(h, "exec") THEN Resolved(h) ELSE UNCHANGED <<pending, did>>
  /\ IF answered THEN (IF Applies(h, "exec") THEN Completes(h) ELSE Goto(h, "plugin")) /\ claimed' = claimed
     ELSE Reject(h) /\ claimed' = claimed \ {ApprovalOf[Command(h)]}
  /\ UNCHANGED <<environment, seen, conn, kind, session, tracked, expired, told, history>>
\* resolveApproval without a kind: exec first; not applied or any error at all,
\* a lost reply included, falls through to plugin.
Exec(h, answered) ==
  /\ Calls(h, "exec") /\ claimed' = claimed
  /\ IF Applies(h, "exec") THEN Resolved(h) ELSE UNCHANGED <<pending, did>>
  /\ IF answered /\ Applies(h, "exec") THEN Completes(h) ELSE Goto(h, "plugin")
  /\ UNCHANGED <<environment, seen, conn, kind, session, tracked, expired, told, history>>
Plugin(h, answered) ==
  /\ Calls(h, "plugin")
  /\ IF Applies(h, "plugin") THEN Resolved(h) ELSE UNCHANGED <<pending, did>>
  /\ IF answered /\ Applies(h, "plugin") THEN Completes(h) ELSE Reject(h)
  /\ UNCHANGED <<environment, seen, claimed, conn, kind, session, tracked, expired, told, history>>

\* chat.send, chat.abort, sessions.create; the call may fail with its effect.
Send(h, done, answered) ==
  /\ Calls(h, "rpc")
  /\ did' = IF done THEN did \cup {Command(h)} ELSE did
  /\ IF done /\ answered THEN Completes(h) ELSE Reject(h)
  /\ UNCHANGED <<environment, seen, claimed, conn, gateway, tracked, expired, told, history>>

\* existing: the key's session as listed ...
List(h) ==
  /\ Calls(h, "list")
  /\ IF session = 0 THEN Reject(h)
     ELSE busy' = [busy EXCEPT ![h].pc = "patch", ![h].listed = session]
  /\ UNCHANGED <<environment, seen, claimed, conn, gateway, tracked, expired, told, did, history>>
\* ... which the gateway compares with the one it archives.
Patch(h) ==
  /\ Calls(h, "patch")
  /\ IF session = busy[h].listed
     THEN session' = 0 /\ Goto(h, "patched") /\ did' = did \cup {Command(h)}
     ELSE session' = session /\ Reject(h) /\ did' = did
  /\ UNCHANGED <<environment, seen, claimed, conn, kind, pending, tracked, expired, told, history>>
\* The reply: the loop the key has by now is ended as archived.
Patched(h, answered) ==
  /\ At(h, "patched")
  /\ IF answered THEN tracked' = 0 /\ Completes(h) ELSE tracked' = tracked /\ Reject(h)
  /\ UNCHANGED <<environment, seen, claimed, conn, gateway, expired, told, did, history>>

\* attest, once per frame: signed, and sent if the socket is open by then.
Attest(h, signed) ==
  /\ At(h, "attest") /\ busy' = [busy EXCEPT ![h] = NoFrame]
  /\ told' = IF signed /\ link THEN told \cup {<<Command(h), busy[h].outcome>>} ELSE told
  /\ UNCHANGED <<environment, seen, claimed, conn, gateway, tracked, expired, did, history>>

-----------------------------------------------------------------------------
(* Others. *)

\* The bridge decides on the approval, under the same claim.
BridgeResolves(a) ==
  /\ a \notin claimed /\ Claim(a) /\ pending' = pending \ {a}
  /\ UNCHANGED <<environment, busy, seen, conn, kind, session, tracked, expired, told, issued,
                 evicted, ran, did, frames>>
\* The operator decides on it at the gateway.
Elsewhere(a) ==
  /\ a \in pending /\ pending' = pending \ {a}
  /\ UNCHANGED <<environment, busy, seen, claimed, conn, kind, session, tracked, expired, told, did, history>>
\* Time is read in `verify' alone: it may as well pass while that waits.
Expires(c) ==
  /\ \E h \in Handlers : At(h, "signature") /\ Command(h) = c
  /\ c \notin expired /\ expired' = expired \cup {c}
  /\ UNCHANGED <<environment, busy, seen, claimed, conn, gateway, tracked, told, did, history>>
\* The key gets its next session; the tracker learns of it by a hook.
Replaced ==
  /\ session < MaxSessions /\ tracked < MaxSessions
  /\ session' = IF session = 0 THEN MaxSessions ELSE session + 1
  /\ UNCHANGED <<environment, busy, seen, claimed, conn, kind, pending, tracked, expired, told, did, history>>
SessionStarts ==
  /\ session # 0 /\ tracked # session /\ tracked' = session
  /\ UNCHANGED <<environment, busy, seen, claimed, conn, gateway, expired, told, did, history>>

Step ==
  \/ \E h \in Handlers :
       \/ \E c \in Commands, grant \in BOOLEAN : Receive(h, c, grant)
       \/ Verified(h) \/ Disposed(h) \/ List(h) \/ Patch(h)
       \/ \E b \in BOOLEAN : \/ ServiceOf(h, b) \/ Countersigned(h, b) \/ Exec(h, b) \/ Plugin(h, b)
                             \/ Patched(h, b) \/ Attest(h, b)
                             \/ \E d \in BOOLEAN : Send(h, d, b)
  \/ ConnectGateway \/ ConnectGatewayFails \/ Replaced \/ SessionStarts
  \/ \E a \in Approvals : BridgeResolves(a) \/ Elsewhere(a)
  \/ \E c \in Commands : Expires(c)

-----------------------------------------------------------------------------
(* Properties. *)

\* An approval goes to the gateway at most once, whichever rail or command takes
\* it, failed and unanswered calls included.  (ApprovalExecutionRegistry.claim)
ApprovalOnce == \A a \in Approvals : asked[a] <= 1

\* A command comes to the gateway once, however often and concurrently its frame
\* is delivered, unless a thousand others made the executor forget it; and what is
\* attested as completed the gateway has done.  (seen, resolveApproval, attest)
OnceAndAsTold ==
  \A c \in Commands : /\ ran[c] > 1 => c \in evicted
                      /\ <<c, "completed">> \in told => c \in did
=============================================================================
