--------------------------- MODULE MCHorizonSync ---------------------------
(***************************************************************************)
(* Instances of HorizonSync for TLC.                                       *)
(***************************************************************************)
EXTENDS HorizonSync, TLC
=============================================================================
