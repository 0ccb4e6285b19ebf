----------------------- MODULE MCNotificationInjector -----------------------
(***************************************************************************)
(* Instances of NotificationInjector for TLC.                              *)
(***************************************************************************)
EXTENDS NotificationInjector, TLC

CONSTANTS n1, n2
Symmetry == Permutations(Frames)
=============================================================================
