---------------------------- MODULE MCAgentPlugin ----------------------------
(***************************************************************************)
(* An instance of AgentApprovals: a registration with a configuration      *)
(* file and one with an agent map; an allow list of a legacy ref or of the *)
(* exact one; a workshop proposal that is revised.                         *)
(***************************************************************************)
EXTENDS AgentApprovals, TLC

CONSTANTS model, item1

MCLists == {{[kind |-> kind, name |-> model]} : kind \in {"legacy", "exact"}}
MCDetails == <<1, 2>>
MCFound == {{}, {model, "default"}}
=============================================================================
