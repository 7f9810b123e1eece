------------------------------ MODULE AgentEvents ------------------------------
(***************************************************************************)
(* The events of nam-agentic: profile events that POST /events accepted    *)
(* (background tasks) and the scheduler's market sessions and ingests, all *)
(* handled by EventHandler.  The graph is compiled with the PostgreSQL     *)
(* checkpointer: invoked without a thread id it raises before its first    *)
(* node, and nothing catches that.                                         *)
(***************************************************************************)
EXTENDS ProfileSetup

CONSTANTS Market, Ingestion  \* one event of either kind of scheduler job

VARIABLES task,   \* event -> its handling
          dirs,   \* users with a directory in the workspace
          goals   \* user -> the profile its USER_GOALS.md was written from

eventVars == <<task, dirs, goals>>

EventsInit == task = [e \in {} |-> Unset] /\ dirs = {} /\ goals = [id \in {} |-> Unset]

Started(e, t) == task' = [x \in DOMAIN task \cup {e} |-> IF x = e THEN t ELSE task[x]]

Turns(e, at) == task' = [task EXCEPT ![e].at = at]

In(e, at) == e \in DOMAIN task /\ task[e].at = at

(* handle, and _ensure_workspace with the event's user or the agent's own. *)
HandleProfile(c, id) ==
  /\ <<c, id>> \in posted /\ c \notin DOMAIN task
  /\ Started(c, [user |-> id, thread |-> Unset, seen |-> Unset, at |-> "invoke"])
  /\ dirs' = dirs \cup {id} /\ UNCHANGED goals

HandleMarket ==
  /\ Market \notin DOMAIN task
  /\ Started(Market, [user |-> AgentUser, thread |-> Market, seen |-> Unset, at |-> "invoke"])
  /\ dirs' = dirs \cup {AgentUser} /\ UNCHANGED goals

(* The feeds are read elsewhere, or not at all if that is disabled.        *)
HandleIngest ==
  /\ Ingestion \notin DOMAIN task
  /\ Started(Ingestion, [user |-> AgentUser, thread |-> Unset, seen |-> Unset, at |-> "over"])
  /\ dirs' = dirs \cup {AgentUser} /\ UNCHANGED goals

(* invoke with _langgraph_config: a thread id only if the context has one. *)
Invoke(e) ==
  /\ In(e, "invoke")
  /\ Turns(e, IF task[e].thread = Unset THEN "over" ELSE "run")
  /\ UNCHANGED <<dirs, goals>>

(* get_user_context, bound to the agent's own user id; ToolError if that   *)
(* user does not exist.                                                    *)
GetUserContext(e) ==
  /\ In(e, "run")
  /\ task' = [task EXCEPT ![e].seen = IF AgentUser \in DOMAIN users THEN users[AgentUser] ELSE Unset]
  /\ UNCHANGED <<dirs, goals>>

(* The model ends the run, having written what it has seen or not.         *)
RunEnds(e) ==
  /\ In(e, "run") /\ Turns(e, "over")
  /\ \/ UNCHANGED goals
     \/ /\ task[e].seen # Unset
        /\ goals' = [id \in DOMAIN goals \cup {task[e].user} |->
                       IF id = task[e].user THEN task[e].seen ELSE goals[id]]
  /\ UNCHANGED dirs

(* nam-agentic stops: its background tasks are gone, its files stay.       *)
AgentStops ==
  /\ \E e \in DOMAIN task : task[e].at # "over"
  /\ task' = [e \in DOMAIN task |-> IF task[e].at = "over" THEN task[e] ELSE [task[e] EXCEPT !.at = "lost"]]
  /\ UNCHANGED <<dirs, goals>>

EventsNext ==
  \/ \E c \in Clients : \E id \in Clients \cup {AgentUser} : HandleProfile(c, id)
  \/ HandleMarket \/ HandleIngest \/ AgentStops
  \/ \E e \in Clients \cup {Market} : Invoke(e) \/ GetUserContext(e) \/ RunEnds(e)

ProfileEventsInit(requests) == ProfileInit(requests) /\ EventsInit

(* The API, and the agent that handles its events and the scheduler's.     *)
ProfileEventsNext ==
  (RequestNext /\ UNCHANGED eventVars) \/ (EventsNext /\ UNCHANGED profileVars)

(* The API and the browser tabs.                                           *)
WizardNext == (RequestNext \/ TabNext) /\ UNCHANGED eventVars

-----------------------------------------------------------------------------
(* "WHEN user.profile.created is processed and the agent run completes     *)
(* THEN a file exists at user/{user_id}/USER_GOALS.md": a profile event    *)
(* whose handling is over, no crash in between, has left the file.         *)
ProfileEventsWriteGoals ==
  \A c \in Clients : In(c, "over") => task[c].user \in DOMAIN goals
=============================================================================
