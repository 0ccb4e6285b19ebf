------------------------------ MODULE AgentPlugin ------------------------------
(***************************************************************************)
(* The registrations of a process together with the model calls of one     *)
(* agent of a registration with an agent map: the setup waits for the      *)
(* identities and owns the discovery timer, and its disposer takes the     *)
(* identity away under whatever is awaited in its name.  The agent need    *)
(* not be the gateway's.                                                   *)
(*                                                                         *)
(* `theme' names the part that a behaviour explores: a registry, whose     *)
(* bridge, socket and closing it follows; "hooks", the host's events;      *)
(* "calls", "consent" and "offers", what the agent is asked to do.  The    *)
(* life cycle is in all of them.  In "policy" it is the operator's list of *)
(* allowed models, with a discovery of its own.                            *)
(***************************************************************************)
EXTENDS PluginRuntime, AgentInference

CONSTANTS
  Map,   \* the registry of the agent
  Models, Readers, Lists, Found, MaxIds, MaxEdits   \* of CatalogPolicy

ASSUME MapAssumption == Map \in Mapped

VARIABLES theme, allow, follows, discovered, names, prop, kept, reader, res, cards, spent, ids,
          edits, lost

policyVars == <<allow, follows, discovered, names, prop, kept, reader, res, cards, spent, ids, edits,
                lost>>
allVars == <<rtVars, infVars, theme, policyVars>>

Policy == INSTANCE CatalogPolicy WITH ready <- discovered, faults <- lost

\* An allow list is a list of refs, and discovery finds names of models.
ASSUME PolicyAssumption ==
  /\ Lists \subseteq SUBSET Policy!Refs /\ Found \subseteq SUBSET Policy!Names
  /\ MaxIds \in Nat /\ MaxEdits \in Nat

------------------------------------------------------------------------------
AgentThemes == {"calls", "consent", "offers"}
OfAgent == theme \in AgentThemes
AgentInit ==
  /\ RtInit /\ InfInit /\ Policy!Init
  /\ theme \in Registries \cup {"hooks", "policy"} \cup AgentThemes
  /\ theme # "policy" => ~follows /\ allow = CHOOSE list \in Lists : TRUE

\* The setup adds the disposer before anything else, then asks for the identities.
SetUp == reg[Map].step \notin {"none", "queued"}
Disposed == SetUp /\ Active(Map) /\ reg'[Map].life = "aborted"
AsksForIdentities == reg[Map].step = "queued" /\ reg'[Map].step = "preparing" /\ ident = "none"
Identified == reg[Map].step = "preparing" => ident \in {"ready", "absent", "gone"}

\* In the themes of the agent its registration is alone.  There, and where the theme is
\* another registry, a registration sets up to the end.
Lives(r) ==
  /\ OfAgent => r = Map
  /\ \/ Start(r) \/ Setup(r) \/ SetupFails(r) \/ Stop(r)
     \/ (r = Map => Identified) /\ Prepared(r)
  /\ OfAgent \/ theme \in Registries \ {r} => reg'[r].step # "failing"
Works(r) == \/ Drains(r) \/ StopReturns(r) \/ ConnectLands(r)
            \/ Accepted(r) \/ SocketLost(r) \/ Redials(r) \/ Redialed(r) \/ Periodic(r) \/ BridgeStarts(r) \/ Syncs(r)

RtStep ==
  /\ theme # "policy" /\ UNCHANGED <<theme, policyVars>>
  /\ \/ \E r \in Registries : Lives(r) \/ (theme = r /\ Works(r))
     \/ theme \in Registries /\ Pushes
     \/ theme = "hooks" /\ Hooks
  /\ IF Disposed THEN Clears ELSE IF AsksForIdentities THEN Prepare ELSE UNCHANGED infVars

\* The timer runs while the registration holds it.
Timer == "discovery" \in reg[Map].open /\ Discovers

InfStep ==
  /\ theme # "policy" /\ UNCHANGED <<rtVars, theme, policyVars>>
  /\ \/ PrepareLands /\ (~OfAgent => Ready')
     \/ OfAgent /\ (Prepare \/ Timer \/ Mints \/ Answers)
     \/ theme = "calls" /\ Completes
     \/ theme \in {"calls", "offers"} /\ (TokenAges \/ KernelRevokes)
     \/ theme = "consent" /\ Authorizes
     \/ theme \in {"consent", "offers"} /\ Asks
     \/ theme = "offers" /\ Offers

PolicyStep == theme = "policy" /\ UNCHANGED <<rtVars, infVars, theme>> /\ Policy!Step

AgentNext == RtStep \/ InfStep \/ PolicyStep

\* The timer comes round, and requests and the kernel's answers come back.
Comes(A) == OfAgent /\ A /\ UNCHANGED <<rtVars, theme, policyVars>>
Requests == KernelLists \/ AttemptLands \/ \E e \in Epochs : KernelMints(e) \/ MintLands(e)
Fairness == WF_allVars(Comes(Timer)) /\ WF_allVars(Comes(Requests))

AgentSpec == AgentInit /\ [][AgentNext]_allVars /\ Fairness

------------------------------------------------------------------------------
\* A change of the kernel's offer reaches the catalogue, notices lost, tokens refused
\* and attempts failed or not, unless another change or the end comes first.
CatalogCatchesUp ==
  \A n \in 1..MaxOffers :
    (Ready /\ "discovery" \in reg[Map].open /\ offer = n)
      ~> (cache.models.offer = n \/ offer # n \/ ~Ready)

\* The allow list changes by what a card said, on the list it was made for.  (resolve)
WritesReviewed == Policy!WritesReviewed
\* A proposal that was applied, and saved as done with, is not asked about again.  (identify)
SpentStaysSpent == Policy!SpentStaysSpent
=============================================================================
