-------------------------- MODULE ApprovalAuthority --------------------------
(***************************************************************************)
(* What the approvals bridge promises its operator, with no bridge in it:  *)
(* an item changes its standing only by its source's own doing, or because *)
(* the operator decided, on a card that showed exactly the revision that   *)
(* is pending, or, for the items in Direct, because a caller waiting on    *)
(* the item was answered without a card (fail-closed deny, session         *)
(* command).  A settled item never changes again.                          *)
(*                                                                         *)
(* Source: docs/approvals-bridge.md and the ApprovalSource contract in     *)
(* src/sources/types.ts, as src/gateway-approvals-bridge.ts uses it.       *)
(***************************************************************************)
EXTENDS Integers

CONSTANTS Proposals, MaxRev, Direct

VARIABLES item, shown, signed

authorityVars == <<item, shown, signed>>

Pending(p) == item[p].st = "pending"

Stage(p) ==
  /\ item[p].st = "absent"
  /\ item' = [item EXCEPT ![p] = [st |-> "pending", rev |-> 1]]
  /\ UNCHANGED <<shown, signed>>

Revise(p) ==
  /\ Pending(p) /\ item[p].rev < MaxRev
  /\ item' = [item EXCEPT ![p].rev = @ + 1]
  /\ UNCHANGED <<shown, signed>>

SettleElsewhere(p) ==
  /\ Pending(p)
  /\ item' = [item EXCEPT ![p].st = "gone"]
  /\ UNCHANGED <<shown, signed>>

\* A card may show any revision the item has had: the kernel may be late.
Show(p, r) ==
  /\ item[p].st # "absent" /\ r \in 1..item[p].rev
  /\ shown' = shown \cup {<<p, r>>}
  /\ UNCHANGED <<item, signed>>

\* One decision per card the operator has been shown.
Decide(p, r, d) ==
  /\ <<p, r>> \in shown /\ \A e \in {"approve", "reject", "withdrawn"} : <<p, r, e>> \notin signed
  /\ signed' = signed \cup {<<p, r, d>>}
  /\ UNCHANGED <<item, shown>>

\* The operator's decision takes effect on the revision it was made for.
Enact(p, d) ==
  /\ Pending(p) /\ <<p, item[p].rev, d>> \in signed
  /\ item' = [item EXCEPT ![p].st = IF d = "approve" THEN "applied" ELSE "rejected"]
  /\ UNCHANGED <<shown, signed>>

AnswerDirectly(p) ==
  /\ p \in Direct /\ Pending(p)
  /\ \E st \in {"applied", "rejected"} : item' = [item EXCEPT ![p].st = st]
  /\ UNCHANGED <<shown, signed>>

Init ==
  /\ item = [p \in Proposals |-> [st |-> "absent", rev |-> 0]]
  /\ shown = {} /\ signed = {}

Next ==
  \E p \in Proposals :
    \/ Stage(p) \/ Revise(p) \/ SettleElsewhere(p) \/ AnswerDirectly(p)
    \/ \E r \in 1..MaxRev : Show(p, r)
    \/ \E d \in {"approve", "reject", "withdrawn"} :
         Enact(p, d) \/ \E r \in 1..MaxRev : Decide(p, r, d)

Spec == Init /\ [][Next]_authorityVars
=============================================================================
