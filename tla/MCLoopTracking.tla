-------------------------- MODULE MCLoopTracking --------------------------
(***************************************************************************)
(* An instance of SessionLoops for TLC: a primary session with two native  *)
(* ids, a subagent and two approvals, or a job, a subagent and one         *)
(* approval at a time; or one key, held by two sessions in turn, with more *)
(* turns than a request of its history returns.                            *)
(***************************************************************************)
EXTENDS SessionLoops, TLC

CONSTANTS main, child, s1, s2, j1, a1, a2

OneKey == [id \in SessionIds |-> main]

Symmetry == Permutations(Approvals)
=============================================================================
