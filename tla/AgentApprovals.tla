---------------------------- MODULE AgentApprovals ----------------------------
(***************************************************************************)
(* The plugin of an agent (AgentPlugin), and what its approvals bridge     *)
(* lives on: the grant of the kernel (ApprovalsEntitlement) and the        *)
(* sources of the gateway (SkillWorkshopSource, GatewayExecSource).  They  *)
(* meet in the bridge, which is ApprovalsBridge's subject: each is here    *)
(* with a bridge of its own, in behaviours of other kinds than the         *)
(* plugin's.                                                               *)
(*                                                                         *)
(* `theme' is "entitlement"; "poll" or "reconcile", by which the workshop  *)
(* is listed beside the decision runs; "exec"; or one of AgentPlugin's.    *)
(***************************************************************************)
EXTENDS AgentPlugin

CONSTANTS
  Items, MaxGrants, MaxLapses,                 \* of ApprovalsEntitlement
  DetailOf, MaxFailures, MaxDecisions,         \* of SkillWorkshopSource
  Commands, Reconciles, MaxHellos              \* of GatewayExecSource

VARIABLES granted, flips, lapses, pending, degraded, due, check, sync, recovery, pub, tracked,
          marked, warned, caught
VARIABLES version, revised, lists, default, hashes, known, owned, asked, card, posting, run,
          applied, failures, decisions
VARIABLES ask, up, hellos, wire, started, recon, taken

grantVars == <<granted, flips, lapses, pending, degraded, due, check, sync, recovery, pub, tracked,
               marked, warned, caught>>
skillVars == <<version, revised, lists, default, hashes, known, owned, asked, card, posting, run,
               applied, failures, decisions>>
askVars == <<ask, up, hellos, wire, started, recon, taken>>
pluginVars == <<allVars, grantVars, skillVars, askVars>>

Entitlement == INSTANCE ApprovalsEntitlement
Workshop == INSTANCE SkillWorkshopSource WITH cache <- hashes, call <- asked
Exec == INSTANCE GatewayExecSource WITH Asks <- Commands

------------------------------------------------------------------------------
SkillThemes == {"poll", "reconcile"}
ApprovalThemes == {"entitlement", "exec"} \cup SkillThemes

Resting ==
  /\ RtInit /\ InfInit /\ Policy!Init
  /\ ~follows /\ allow = CHOOSE list \in Lists : TRUE
ApprovalsInit ==
  /\ \/ theme \in ApprovalThemes /\ Resting
     \/ AgentInit
  /\ Entitlement!Init /\ Workshop!WorkshopInit /\ Exec!ExecInit
  /\ theme # "entitlement" => ~granted /\ pending = {}
  /\ theme \notin SkillThemes => lists /\ default

GrantStep == theme = "entitlement" /\ UNCHANGED <<allVars, skillVars, askVars>> /\ Entitlement!Step
SkillStep ==
  /\ theme \in SkillThemes /\ UNCHANGED <<allVars, grantVars, askVars>>
  /\ Workshop!WorkshopStep
  /\ asked'[IF theme = "poll" THEN "reconcile" ELSE "poll"].pc = "idle"
ExecStep == theme = "exec" /\ UNCHANGED <<allVars, grantVars, skillVars>> /\ Exec!ExecStep

ApprovalsNext ==
  \/ theme \notin ApprovalThemes /\ AgentNext /\ UNCHANGED <<grantVars, skillVars, askVars>>
  \/ GrantStep \/ SkillStep \/ ExecStep

\* Requests come back, timers fire, and what is scheduled runs.
Settles(A) == theme = "entitlement" /\ A /\ UNCHANGED <<allVars, skillVars, askVars>>
ApprovalsFairness ==
  WF_pluginVars(Settles(Entitlement!TimerFires)) /\ WF_pluginVars(Settles(Entitlement!Works))

ApprovalsSpec == ApprovalsInit /\ [][ApprovalsNext]_pluginVars /\ Fairness /\ ApprovalsFairness

------------------------------------------------------------------------------
(* The properties of the parts, under their names. *)

\* A grant that stays is found, and what it missed is caught up.  (scheduleRecovery)
GrantCatchesUp == Entitlement!GrantCatchesUp
\* What is applied is what the card showed.  (getCurrent of the skill workshop)
AppliedIsShown == Workshop!AppliedIsShown
\* No ask is forgotten while the socket is up.  (onHelloOk of gateway-exec)
NoAskForgotten == Exec!NoAskForgotten
==============================================================================
