----------------------------- MODULE ProfileSetup -----------------------------
(***************************************************************************)
(* The single user's profile: POST /setup and PUT /profile of nam-api,     *)
(* statement by statement at READ COMMITTED, the event each of them sends  *)
(* to nam-agentic after its commit, and the browser tabs whose guard and   *)
(* wizard lead to POST /setup.                                             *)
(*                                                                         *)
(* request[c] is the one request of client c; a profile is the client that *)
(* wrote it.  A tab is a client too.                                       *)
(***************************************************************************)
EXTENDS Integers, FiniteSets

CONSTANTS Tabs,     \* browser tabs
          Others,   \* other clients of the API
          Unset,    \* no value
          AgentUser \* DEFAULT_USER_ID of nam-agentic

ASSUME ProfileAssumption == Tabs \cap Others = {} /\ Unset # AgentUser

Clients == Tabs \cup Others

VARIABLES configured, \* DEFAULT_USER_ID of nam-api: AgentUser, or Unset
          users,      \* committed rows of users: id -> who wrote the profile
          request,    \* client -> its POST /setup or PUT /profile
          tab,        \* tab -> page, guard query and wizard
          posted      \* profile events nam-agentic has accepted: <<client, user id>>

profileVars == <<configured, users, request, tab, posted>>

NoRequest == [at |-> "none", id |-> Unset, nulls |-> FALSE, status |-> 0]

Page(page) == [page |-> page, profile |-> "loading", step |-> 0, filled |-> {}]

ProfileInit(requests) ==
  /\ configured \in {AgentUser, Unset}
  /\ users = [id \in {} |-> Unset]
  /\ request = [c \in Clients |-> IF c \in DOMAIN requests THEN requests[c] ELSE NoRequest]
  /\ tab \in [Tabs -> {Page("home"), Page("dashboard"), Page("onboarding")}]
  /\ posted = {}

Sends(c, r) == request' = [request EXCEPT ![c] = r]

Answers(c, status) == Sends(c, [request[c] EXCEPT !.at = "answered", !.status = status])

-----------------------------------------------------------------------------
(* setup: a count, a refusal with 409 if somebody is there already.        *)
Setup == [NoRequest EXCEPT !.at = "count"]

(* Mutant: the count is not looked at. *)
SetupCountsNothing(c) ==
  /\ request[c].at = "count"
  /\ Sends(c, [request[c] EXCEPT !.at = "insert"])
  /\ UNCHANGED <<configured, users, tab, posted>>

SetupCounts(c) ==
  /\ request[c].at = "count"
  /\ IF users # [id \in {} |-> Unset] THEN Answers(c, 409)
     ELSE Sends(c, [request[c] EXCEPT !.at = "insert"])
  /\ UNCHANGED <<configured, users, tab, posted>>

(* The configured id if there is one, else a uuid, which nobody shares.    *)
NewId(c) == IF configured # Unset THEN configured ELSE c

(* INSERT: waits for an uncommitted row with its id; an IntegrityError on  *)
(* a committed one is caught by nobody.                                    *)
SetupInserts(c) ==
  /\ request[c].at = "insert"
  /\ \A d \in Clients : request[d].at = "commit" => request[d].id # NewId(c)
  /\ IF NewId(c) \in DOMAIN users THEN Answers(c, 500)
     ELSE Sends(c, [request[c] EXCEPT !.at = "commit", !.id = NewId(c)])
  /\ UNCHANGED <<configured, users, tab, posted>>

(* update_profile; an explicit null beside another field is accepted by    *)
(* at_least_one_field and refused by the NOT NULL column.                  *)
Update(nulls) == [NoRequest EXCEPT !.at = "read", !.nulls = nulls]

(* _get_singleton: no user and several users are the same 404.             *)
UpdateReads(c) ==
  /\ request[c].at = "read"
  /\ IF Cardinality(DOMAIN users) # 1 THEN Answers(c, 404)
     ELSE \E id \in DOMAIN users : Sends(c, [request[c] EXCEPT !.at = "flush", !.id = id])
  /\ UNCHANGED <<configured, users, tab, posted>>

UpdateFlushes(c) ==
  /\ request[c].at = "flush"
  /\ \A d \in Clients : request[d].at = "commit" => request[d].id # request[c].id
  /\ IF request[c].nulls THEN Answers(c, 500) ELSE Sends(c, [request[c] EXCEPT !.at = "commit"])
  /\ UNCHANGED <<configured, users, tab, posted>>

Commits(c) ==
  /\ request[c].at = "commit"
  /\ users' = [id \in DOMAIN users \cup {request[c].id} |-> IF id = request[c].id THEN c ELSE users[id]]
  /\ Sends(c, [request[c] EXCEPT !.at = "emit"])
  /\ UNCHANGED <<configured, tab, posted>>

(* emit_agent_event, once, after the commit: a failure is only logged.     *)
Emits(c) ==
  /\ request[c].at = "emit"
  /\ posted' \in {posted, posted \cup {<<c, request[c].id>>}}
  /\ Answers(c, 200)
  /\ UNCHANGED <<configured, users, tab>>

(* nam-api stops, or the answer does not reach the client.                 *)
RequestLost(c) ==
  /\ request[c].at \notin {"none", "answered"}
  /\ Answers(c, 0)
  /\ UNCHANGED <<configured, users, tab, posted>>

-----------------------------------------------------------------------------
OnTab(t, r) == tab' = [tab EXCEPT ![t] = r] /\ UNCHANGED <<configured, users, posted>>

(* GET /profile of the guard, without retries; any failure is "no".        *)
ProfileLoads(t) ==
  /\ tab[t].profile = "loading"
  /\ \/ Cardinality(DOMAIN users) = 1 /\ OnTab(t, [tab[t] EXCEPT !.profile = "yes"])
     \/ OnTab(t, [tab[t] EXCEPT !.profile = "no"])
  /\ UNCHANGED request

(* useProfileGuard, and HomePage.                                          *)
Guard(t) ==
  /\ \/ tab[t].profile = "yes" /\ tab[t].page \in {"home", "onboarding"}
        /\ OnTab(t, [tab[t] EXCEPT !.page = "dashboard"])
     \/ tab[t].profile = "no" /\ tab[t].page \in {"home", "dashboard"}
        /\ OnTab(t, [Page("onboarding") EXCEPT !.profile = "no"])
  /\ UNCHANGED request

Wizard(t) == tab[t].page = "onboarding" /\ tab[t].profile # "loading"

(* The fields of the step shown become valid, or stop being so.            *)
Fills(t) ==
  /\ Wizard(t)
  /\ \E filled \in {tab[t].filled \cup {tab[t].step}, tab[t].filled \ {tab[t].step}} :
       OnTab(t, [tab[t] EXCEPT !.filled = filled])
  /\ UNCHANGED request

(* Mutant: the step is left without validateStep. *)
GoNextFreely(t) ==
  /\ Wizard(t) /\ tab[t].step < 2
  /\ OnTab(t, [tab[t] EXCEPT !.step = @ + 1]) /\ UNCHANGED request

GoNext(t) ==
  /\ Wizard(t) /\ tab[t].step \in tab[t].filled /\ tab[t].step < 2
  /\ OnTab(t, [tab[t] EXCEPT !.step = @ + 1]) /\ UNCHANGED request

GoBack(t) ==
  /\ Wizard(t) /\ tab[t].step > 0
  /\ OnTab(t, [tab[t] EXCEPT !.step = @ - 1]) /\ UNCHANGED request

(* submit validates the last step only; the button is off while it waits.  *)
Submit(t) ==
  /\ Wizard(t) /\ tab[t].step = 2 /\ 2 \in tab[t].filled /\ request[t].at = "none"
  /\ Sends(t, Setup)
  /\ UNCHANGED <<configured, users, tab, posted>>

(* 201: the guard's query is loaded again, on the dashboard.  Anything     *)
(* else, 409 included, is a message under the form.                        *)
Submitted(t) ==
  /\ request[t].at = "answered"
  /\ OnTab(t, IF request[t].status = 200 THEN Page("dashboard") ELSE tab[t])
  /\ Sends(t, NoRequest)

Reload(t) ==
  /\ request[t].at = "none"
  /\ OnTab(t, Page(tab[t].page)) /\ UNCHANGED request

RequestNext ==
  \E c \in Clients :
    SetupCounts(c) \/ SetupInserts(c) \/ UpdateReads(c) \/ UpdateFlushes(c)
    \/ Commits(c) \/ Emits(c) \/ RequestLost(c)

TabNext ==
  \E t \in Tabs :
    ProfileLoads(t) \/ Guard(t) \/ Fills(t) \/ GoNext(t) \/ GoBack(t)
    \/ Submit(t) \/ Submitted(t) \/ Reload(t)

-----------------------------------------------------------------------------
(* What POST /setup receives from the wizard has all of its steps valid,   *)
(* whatever was edited on the way back, although submit looks at the last  *)
(* step only.                                                              *)
SubmissionsAreComplete ==
  [][\A t \in Tabs :
       request[t].at = "none" /\ request'[t].at = "count" => tab[t].filled = 0 .. 2]_profileVars
=============================================================================
