---------------------------- MODULE Recommendations ----------------------------
(***************************************************************************)
(* RecommendationService.update_status behind PATCH /recommendations/{id}, *)
(* and the agent's create_recommendation tool, over one PostgreSQL table   *)
(* at READ COMMITTED.  The PATCH handlers are coroutines with a session    *)
(* each; between the select that checks the status and the flush that      *)
(* changes it, other handlers run.                                         *)
(*                                                                         *)
(* PATCHes that pass the checks are numbered in that order: the number     *)
(* stands for the time in resolved_at, 0 for NULL.                         *)
(***************************************************************************)
EXTENDS Naturals, FiniteSets

CONSTANTS Handlers,    \* coroutines serving PATCH
          Analyses,    \* analysis ids of the user
          Cited,       \* sets of analysis ids the agent cites
          Comments,    \* user_comment values
          NoComment,   \* no user_comment
          MaxRows,     \* bound: recommendations created
          MaxPatches   \* bound: PATCHes that pass the checks

ASSUME RecommendationAssumption ==
  /\ NoComment \notin Comments
  /\ MaxRows \in Nat /\ MaxPatches \in Nat

VARIABLES rows,     \* committed rows of recommendations, by id
          links,    \* recommendation_analyses
          open,     \* the session of each handler that serves a PATCH
          passed    \* number of PATCHes that have passed the checks

vars == <<rows, links, open, passed>>

Statuses == {"PENDING", "APPLIED", "REJECTED"}

Recommendation == [status : Statuses, user_comment : Comments \cup {NoComment}, resolved_at : 0 .. MaxPatches]

(* RecommendationUpdate bodies.                                            *)
Updates == [status : Statuses, user_comment : Comments \cup {NoComment}]

-----------------------------------------------------------------------------
Init ==
  /\ rows = [id \in {} |-> NoComment]
  /\ links = {}
  /\ open = [h \in {} |-> NoComment]
  /\ passed = 0

(* Mutant: analyses of nobody, or of another user, cited. *)
CreateUnchecked(cited) ==
  LET id == Cardinality(DOMAIN rows) + 1
  IN  /\ id <= MaxRows
      /\ rows' = [k \in DOMAIN rows \cup {id} |->
                    IF k # id THEN rows[k]
                    ELSE [status |-> "PENDING", user_comment |-> NoComment, resolved_at |-> 0]]
      /\ links' = links \cup ({id} \X cited)
      /\ UNCHANGED <<open, passed>>

(* create_recommendation: cites analyses of the user only; one INSERT and  *)
(* its commit, which nobody can see in parts.                              *)
Create(cited) ==
  LET id == Cardinality(DOMAIN rows) + 1
  IN  /\ id <= MaxRows
      /\ cited \subseteq Analyses
      /\ rows' = [k \in DOMAIN rows \cup {id} |->
                    IF k # id THEN rows[k]
                    ELSE [status |-> "PENDING", user_comment |-> NoComment, resolved_at |-> 0]]
      /\ links' = links \cup ({id} \X cited)
      /\ UNCHANGED <<open, passed>>

(* Mutants: an already resolved row accepted; any status accepted. *)
AcceptsResolved(row, data) == data.status \in {"APPLIED", "REJECTED"}

AcceptsPending(row, data) == row.status = "PENDING"

(* Otherwise 409, then 422.                                                *)
Accepts(row, data) == row.status = "PENDING" /\ data.status \in {"APPLIED", "REJECTED"}

(* update_status up to its flush: select, the checks (404, 409, 422 change *)
(* nothing), then assign the attributes of the loaded row.                 *)
Check(h, id, data) ==
  /\ h \notin DOMAIN open
  /\ passed < MaxPatches
  /\ id \in DOMAIN rows
  /\ Accepts(rows[id], data)
  /\ passed' = passed + 1
  /\ open' = [g \in DOMAIN open \cup {h} |->
                IF g # h THEN open[g]
                ELSE [id |-> id, num |-> passed + 1, data |-> data, loaded |-> rows[id],
                      version |-> {}]]
  /\ UNCHANGED <<rows, links>>

(* Mutant: the time of the first resolution is kept. *)
WrittenOnce(row, r) ==
  [status |-> r.data.status,
   user_comment |-> IF r.data.user_comment # r.loaded.user_comment THEN r.data.user_comment
                    ELSE row.user_comment,
   resolved_at |-> IF row.resolved_at = 0 THEN r.num ELSE row.resolved_at]

(* The UPDATE of a session over the row as it now is: SQLAlchemy emits the *)
(* columns that differ from the loaded row; status and resolved_at always  *)
(* do.                                                                     *)
Written(row, r) ==
  [status |-> r.data.status,
   user_comment |-> IF r.data.user_comment # r.loaded.user_comment THEN r.data.user_comment
                    ELSE row.user_comment,
   resolved_at |-> r.num]

(* session.flush() waits for another session's lock on the row.            *)
Flush(h) ==
  /\ h \in DOMAIN open
  /\ open[h].version = {}
  /\ \A g \in DOMAIN open \ {h} : open[g].id = open[h].id => open[g].version = {}
  /\ open' = [open EXCEPT ![h].version = {Written(rows[open[h].id], open[h])}]
  /\ UNCHANGED <<rows, links, passed>>

(* Mutant: the session stays open with its row lock. *)
CloseLeaks(h) == UNCHANGED open

Close(h) == open' = [g \in DOMAIN open \ {h} |-> open[g]]

(* The response is read in the session, then committed.                    *)
CommitDecision(h) ==
  /\ h \in DOMAIN open
  /\ \E row \in open[h].version : rows' = [rows EXCEPT ![open[h].id] = row]
  /\ Close(h)
  /\ UNCHANGED <<links, passed>>

(* The worker or its connection dies before the commit: rolled back.       *)
Crash(h) ==
  /\ h \in DOMAIN open
  /\ Close(h)
  /\ UNCHANGED <<rows, links, passed>>

Next ==
  \/ \E cited \in Cited : Create(cited)
  \/ \E h \in Handlers :
       \/ \E id \in 1 .. MaxRows, data \in Updates : Check(h, id, data)
       \/ Flush(h) \/ CommitDecision(h) \/ Crash(h)

Spec == Init /\ [][Next]_vars

(* A handler that can run is run; a PATCH need not come, nor a crash.      *)
PatchFairness == \A h \in Handlers : WF_vars(Flush(h)) /\ WF_vars(CommitDecision(h))

-----------------------------------------------------------------------------
(* Types of the tables and of every open session.                          *)
TypeOK ==
  /\ DOMAIN rows = 1 .. Cardinality(DOMAIN rows) /\ rows \in [DOMAIN rows -> Recommendation]
  /\ links \subseteq (DOMAIN rows) \X Analyses
  /\ passed \in 0 .. MaxPatches
  /\ DOMAIN open \subseteq Handlers
  /\ open \in [DOMAIN open -> [id : DOMAIN rows, num : 1 .. passed, data : Updates, loaded : Recommendation,
                               version : SUBSET Recommendation]]

(* A resolved recommendation never goes back to PENDING, whichever PATCHes *)
(* overlap, and a rolled back one leaves nothing behind: status and        *)
(* resolved_at change together.                                            *)
NeverReopened ==
  [][\A id \in DOMAIN rows :
       /\ rows[id].status # "PENDING" => rows'[id].status # "PENDING"
       /\ rows'[id].status = "PENDING" <=> rows'[id].resolved_at = 0]_vars

(* "PATCH attempts to change a recommendation already APPLIED or REJECTED: *)
(* 409": the first decision on a recommendation stands.                    *)
DecisionsAreFinal ==
  [][\A id \in DOMAIN rows : rows[id].status # "PENDING" => rows'[id] = rows[id]]_vars

(* No wait for a row lock lasts: every PATCH that passes its checks ends,  *)
(* so that, a behaviour having MaxPatches of them, none stays open.        *)
PatchesEnd == <>[](DOMAIN open = {})
=============================================================================
