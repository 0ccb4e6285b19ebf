------------------------------ MODULE KernelLink ------------------------------
(***************************************************************************)
(* The kernel's socket together with the session commands that arrive over *)
(* it: frames come in by an open socket while the runtime is active, and   *)
(* an attestation is sent by the socket that is current when it is signed, *)
(* or dropped.                                                             *)
(*                                                                         *)
(* The product of all faults of both is too large to be checked.  `theme'  *)
(* is the commands that a behaviour may have: with none the link has all   *)
(* its faults, with some it goes up once and stays up until the stop.      *)
(***************************************************************************)
EXTENDS WsService

CONSTANTS Commands, Approvals, VerbOf, ApprovalOf, NoApproval, NoCommand, MaxSeen, MaxFrames,
          MaxSessions,
          Themes   \* sets of commands

ASSUME CommandsAssumption ==
  /\ VerbOf \in [Commands -> {"approve", "send", "archive"}]
  /\ ApprovalOf \in [Commands -> Approvals \cup {NoApproval}]
  /\ \A c \in Commands : VerbOf[c] = "approve" => ApprovalOf[c] \in Approvals
  /\ NoCommand \notin Commands /\ NoApproval \notin Approvals
  /\ Themes \subseteq SUBSET Commands
  /\ MaxSeen \in Nat \ {0} /\ MaxFrames \in Nat /\ MaxSessions \in Nat \ {0}

VARIABLES theme, busy, seen, claimed, conn, kind, pending, session_, tracked, expired, told,
          issued, evicted, ran, asked, did, frames

LinkOpen == ws # NoSocket /\ Open(ws)

Rail == INSTANCE SessionCommands WITH link <- LinkOpen, retired <- stopped, session <- session_

railVars == <<busy, seen, claimed, conn, kind, pending, session_, tracked, expired, told,
              issued, evicted, ran, asked, did, frames>>
allVars == <<vars, theme, railVars>>

KernelInit ==
  /\ Init /\ Rail!Init /\ theme \in Themes
  /\ IF theme = {} THEN \A a \in Approvals : kind[a] = "exec" ELSE ~shared /\ ~native

\* The steps of a link that goes up, and down when it is stopped.  A frame may
\* come twice and an attestation be lost all the same.
Plain == \/ Start \/ Stop
         \/ \E r \in Runs : Authenticated(r) \/ Create(r)
         \/ \E s \in Sockets : Opens(s) \/ Accepted(s) \/ (stopped /\ Closed(s))

LinkStep == (IF theme = {} THEN Next ELSE Plain) /\ UNCHANGED <<theme, railVars>>
RailStep ==
  /\ theme # {} /\ UNCHANGED <<vars, theme>> /\ Rail!Step
  /\ expired' \subseteq theme /\ \A h \in Rail!Handlers : busy'[h].id \in theme \cup {NoCommand}
  /\ session_' > session_ => \E c \in theme : VerbOf[c] = "archive"
KernelNext == LinkStep \/ RailStep

\* The service is as fair as it is alone; the commands promise nothing in time.
KernelSpec == KernelInit /\ [][KernelNext]_allVars /\ Fairness

-----------------------------------------------------------------------------
(* The properties of the executor, under the names of the parts. *)

\* An approval goes to the gateway once.  (claim)
ApprovalOnce == Rail!ApprovalOnce
\* A command goes to the gateway once, as long as it is remembered, and is attested
\* as completed only when it is done.  (verify, attest)
OnceAndAsTold == Rail!OnceAndAsTold
=============================================================================
