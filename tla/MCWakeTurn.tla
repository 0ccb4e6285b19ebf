----------------------------- MODULE MCWakeTurn -----------------------------
(***************************************************************************)
(* WakeTurn on small instances.  The theme is drawn at the start: one wake *)
(* that delegates, acts and reports once; one that reports twice and       *)
(* decides nothing; or two that compete for tables of one place, with      *)
(* neither decisions nor reports nor a later run.                          *)
(***************************************************************************)
EXTENDS WakeTurn

VARIABLE theme
CONSTANTS First, Themes

ThemeVars == <<vars, theme>>
ThemeInit == Init /\ theme \in Themes
Alone == \A b \in Wakes \ {First} : ~Tracked(b)'
ThemeNext ==
  /\ Next
  /\ theme = "decides" => Alone /\ \A b \in Wakes : reports'[b] <= 1
  /\ theme = "retells" => Alone /\ \A b \in Wakes : call'[b] = {}
  /\ theme = "rivals" => \A b \in Wakes : run'[b]["reply"] = "none" /\ reports'[b] = 0 /\ call'[b] = {}
  /\ UNCHANGED theme
ThemeSpec == ThemeInit /\ [][ThemeNext]_ThemeVars /\ Fairness
=============================================================================
