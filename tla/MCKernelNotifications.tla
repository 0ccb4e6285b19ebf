------------------------ MODULE MCKernelNotifications ------------------------
(***************************************************************************)
(* Instances of KernelNotifications for TLC.                               *)
(***************************************************************************)
EXTENDS KernelNotifications, TLC

CONSTANTS n1, n2, message, reply
Symmetry == Permutations(Frames)
=============================================================================
