------------------------- MODULE MCApprovalsBridge -------------------------
(***************************************************************************)
(* Instances of ApprovalsBridge for TLC.  One source at a time: sources    *)
(* share no state but the maps keyed by proposal id.                       *)
(***************************************************************************)
EXTENDS ApprovalsBridge, TLC

CONSTANTS skill, exec, agent, p1, h1, h2

SourceOfSkill == [p \in Proposals |-> skill]  \* revisable, restaged, revision-pinned
SourceOfExec  == [p \in Proposals |-> exec]   \* immutable, fail-closed, native ids
SourceOfAgent == [p \in Proposals |-> agent]  \* left on drift, owner known, untimed

HandlerSymmetry == Permutations(Handlers)
=============================================================================
