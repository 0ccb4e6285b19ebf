------------------------ MODULE MCApprovalsCatchUp ------------------------
(***************************************************************************)
(* Instances of ApprovalsCatchUp for TLC: behaviours of three kinds, so    *)
(* that their product need not be explored.  With "reload" the bridge may  *)
(* be replaced, and no item is revised; with "revise" it may; with "noise" *)
(* the log has rows the catch-up does not decide.  No action under a       *)
(* fairness condition is restricted.                                       *)
(***************************************************************************)
EXTENDS ApprovalsCatchUp, TLC

CONSTANTS p1, b1, b2

VARIABLE theme

ThemeInit == Init /\ theme \in {"reload", "revise", "noise"} /\ status[b1] = "on"
             /\ (theme = "reload" => granted)
ThemeNext ==
  /\ Next /\ theme' = theme
  /\ IF theme = "reload" THEN restarts' = 1 => status'[b1] = "disposed" ELSE status'[b2] = "off"
  /\ theme # "revise" => \A p \in Proposals : item'[p] <= 1
  /\ theme # "noise" => \A i \in DOMAIN log' : log'[i].kind = "decided"
ThemeSpec == ThemeInit /\ [][ThemeNext]_<<vars, theme>> /\ Fairness
=============================================================================
