------------------------------ MODULE MCServices ------------------------------
(***************************************************************************)
(* The two Python services and the front, in parts that share no variable: *)
(* a behaviour explores one part, since running two together would add no  *)
(* behaviour to either.                                                    *)
(***************************************************************************)
EXTENDS MCAgentTools, AgentEvents, Catalogue, MCRecommendations

CONSTANTS t1, o1, o2, f1, a1, a2

VARIABLES part,   \* the part this behaviour explores
          early   \* setups that had counted no user when the first one committed

profilePart == <<profileVars, eventVars, early>>

toolsPart == <<toolsVars, inflight, crossed>>

decisionsPart == <<vars, history>>

(* A second setup, or an update, beside the tab's setup; two setups, an    *)
(* update and the events they send.                                        *)
Scenarios == {
  [part |-> "wizard", requests |-> o1 :> Setup],
  [part |-> "wizard", requests |-> o1 :> Update(TRUE)],
  [part |-> "events", requests |-> o1 :> Setup @@ o2 :> Update(FALSE) @@ t1 :> Setup] }

NoTools == Begin(NoCalls, NoCalls, 0, {}) /\ inflight = {} /\ crossed = {}

NoProfile ==
  /\ ProfileEventsInit([c \in {} |-> NoRequest]) /\ early = {}
  /\ configured = Unset /\ tab[t1].page = "home"

ServicesInit ==
  /\ HistoryInit
  /\ \/ part = "tools" /\ MCInit /\ NoProfile /\ CatalogueInit({}) /\ ~listed
     \/ \E scenario \in Scenarios :
          /\ part = scenario.part /\ NoTools /\ CatalogueInit({}) /\ ~listed
          /\ ProfileEventsInit(scenario.requests) /\ early = {}
          /\ part = "events" => tab[t1].page = "home"
     \/ part = "catalogue" /\ NoTools /\ NoProfile /\ CatalogueInit({a1, a2})
     \/ part = "decisions" /\ NoTools /\ NoProfile /\ CatalogueInit({}) /\ ~listed

EarlyNext ==
  early' = IF DOMAIN users = {} /\ DOMAIN users' # {}
           THEN {c \in Clients : request[c].at \in {"insert", "commit"}} ELSE early

ServicesNext ==
  /\ part' = part
  /\ \/ /\ part = "tools" /\ MCNext
        /\ UNCHANGED <<profilePart, catalogueVars, decisionsPart>>
     \/ /\ part = "wizard" /\ WizardNext /\ EarlyNext
        /\ UNCHANGED <<toolsPart, catalogueVars, decisionsPart>>
     \/ /\ part = "events" /\ ProfileEventsNext /\ EarlyNext
        /\ UNCHANGED <<toolsPart, catalogueVars, decisionsPart>>
     \/ /\ part = "catalogue" /\ CatalogueNext
        /\ UNCHANGED <<toolsPart, profilePart, decisionsPart>>
     \/ /\ part = "decisions" /\ HistoryNext
        /\ UNCHANGED <<toolsPart, profilePart, catalogueVars>>

ServicesSpec ==
  /\ ServicesInit
  /\ [][ServicesNext]_<<part, toolsPart, profilePart, catalogueVars, decisionsPart>>
  /\ ToolsFairness /\ PatchFairness

-----------------------------------------------------------------------------
(* There is one profile, unless nam-api has no DEFAULT_USER_ID: then also  *)
(* those whose POST /setup had counted no user before the first committed, *)
(* and with a second one every request of the API is refused.              *)
ExtraProfilesOnlyFromOverlap ==
  \/ Cardinality(DOMAIN users) <= 1
  \/ configured = Unset /\ DOMAIN users \subseteq early
=============================================================================
