------------------------------- MODULE Catalogue -------------------------------
(***************************************************************************)
(* The catalogue of indices, unique by ISIN: POST /indices and the agent's *)
(* create_index tool, which insert concurrently, and the modal of the      *)
(* dashboard that creates an index and then records a first BUY on it with *)
(* two requests.                                                           *)
(***************************************************************************)
EXTENDS Integers, FiniteSets

CONSTANTS Forms,    \* open modals, all about one ISIN
          ToolCalls \* calls of create_index for that ISIN

ASSUME CatalogueAssumption == Forms \cap ToolCalls = {}

Creators == Forms \cup ToolCalls

VARIABLES listed,  \* the index is committed
          creator, \* creator -> its creation
          form,    \* modal -> its state
          bought,  \* modal -> transactions recorded for it
          missed   \* modal -> answers to POST /transactions that were lost

catalogueVars == <<listed, creator, form, bought, missed>>

Blank == [open |-> FALSE, at |-> "idle", mode |-> "existing", named |-> FALSE, priced |-> FALSE,
          line |-> FALSE]

CatalogueInit(calls) ==
  /\ listed \in BOOLEAN
  /\ creator = [c \in Creators |-> IF c \in calls THEN "select" ELSE "none"]
  /\ form = [f \in Forms |-> Blank]
  /\ bought = [f \in Forms |-> 0] /\ missed = bought

-----------------------------------------------------------------------------
Creates(c, at) == creator' = [creator EXCEPT ![c] = at] /\ UNCHANGED <<form, bought, missed>>

(* Mutant: a row found is reported as a new one. *)
SelectsCarelessly(c) ==
  /\ creator[c] = "select" /\ UNCHANGED listed
  /\ Creates(c, IF listed THEN "created" ELSE "insert")

(* create_index: a row with that ISIN is returned as it is.                *)
Selects(c) ==
  /\ creator[c] = "select" /\ UNCHANGED listed
  /\ Creates(c, IF listed THEN "found" ELSE "insert")

(* INSERT: waits for another uncommitted one, then fails if that one has   *)
(* committed: 409 of POST /indices, an uncaught IntegrityError of the tool.*)
Inserts(c) ==
  /\ creator[c] = "insert" /\ UNCHANGED listed
  /\ \A d \in Creators : creator[d] # "commit"
  /\ Creates(c, IF listed THEN "refused" ELSE "commit")

CommitsIndex(c) == creator[c] = "commit" /\ listed' = TRUE /\ Creates(c, "created")

(* The process stops, or the database fails: rolled back.                  *)
CreationFails(c) ==
  creator[c] \in {"select", "insert", "commit"} /\ UNCHANGED listed /\ Creates(c, "refused")

-----------------------------------------------------------------------------
Form(f, r) == form' = [form EXCEPT ![f] = r] /\ UNCHANGED <<listed, bought, missed>>

(* The modal, and what reset() leaves in it; isSubmitting stays as it is.  *)
Resets(r, open) ==
  [Blank EXCEPT !.open = open, !.at = r.at, !.line = r.line, !.mode = IF listed THEN "existing" ELSE "new"]

Opens(f) ==
  /\ ~form[f].open /\ bought[f] = 0
  /\ Form(f, [form[f] EXCEPT !.open = TRUE]) /\ UNCHANGED creator

Edits(f) ==
  /\ form[f].open
  /\ \E mode \in {"existing", "new"} : \E named, priced \in BOOLEAN :
       Form(f, [form[f] EXCEPT !.mode = mode, !.named = named, !.priced = priced])
  /\ UNCHANGED creator

(* The overlay and the cross work during a submission, which goes on.      *)
Closes(f) == form[f].open /\ Form(f, Resets(form[f], FALSE)) /\ UNCHANGED creator

(* The button is off while isSubmitting; the handler keeps the values of   *)
(* the moment it was called.                                               *)
SubmitsNew(f) ==
  /\ form[f].open /\ form[f].at = "idle" /\ form[f].mode = "new" /\ form[f].named
  /\ form' = [form EXCEPT ![f] = [@ EXCEPT !.at = "creating", !.line = form[f].priced]]
  /\ creator' = [creator EXCEPT ![f] = "insert"]
  /\ UNCHANGED <<listed, bought, missed>>

(* Only now are price, quantity and date looked at: without them the form  *)
(* is back with a message, and the index stays.                            *)
IndexAnswered(f) ==
  /\ form[f].at = "creating" /\ creator[f] \in {"created", "refused"}
  /\ Form(f, [form[f] EXCEPT !.at = IF creator[f] = "created" /\ form[f].line THEN "buying" ELSE "idle"])
  /\ creator' = [creator EXCEPT ![f] = "none"]

(* An index of the list is picked, and its line is complete.               *)
ReadyToBuy(f) ==
  form[f].open /\ form[f].mode = "existing" /\ form[f].named /\ form[f].priced /\ listed

(* Mutant: the button works while a transaction is being recorded. *)
SubmitsTwice(f) ==
  /\ ReadyToBuy(f) /\ form[f].at \in {"idle", "bought"}
  /\ Form(f, [form[f] EXCEPT !.at = "buying"]) /\ UNCHANGED creator

SubmitsExisting(f) ==
  /\ ReadyToBuy(f) /\ form[f].at = "idle"
  /\ Form(f, [form[f] EXCEPT !.at = "buying"]) /\ UNCHANGED creator

(* POST /transactions commits, or is refused.                              *)
Buys(f) ==
  /\ form[f].at = "buying"
  /\ \/ /\ bought' = [bought EXCEPT ![f] = @ + 1]
        /\ form' = [form EXCEPT ![f].at = "bought"]
        /\ UNCHANGED <<listed, missed>>
     \/ Form(f, [form[f] EXCEPT !.at = "idle"])
  /\ UNCHANGED creator

(* 201 closes the modal.                                                   *)
Bought(f) ==
  /\ form[f].at = "bought"
  /\ Form(f, [Resets(form[f], FALSE) EXCEPT !.at = "idle"]) /\ UNCHANGED creator

(* The answer is lost (once): an error is shown over a recorded BUY.       *)
AnswerLost(f) ==
  /\ form[f].at = "bought" /\ missed[f] = 0
  /\ form' = [form EXCEPT ![f].at = "idle"]
  /\ missed' = [missed EXCEPT ![f] = @ + 1]
  /\ UNCHANGED <<listed, bought, creator>>

CatalogueNext ==
  \/ \E c \in Creators : Selects(c) \/ Inserts(c) \/ CommitsIndex(c) \/ CreationFails(c)
  \/ \E f \in Forms :
       \/ Opens(f) \/ Edits(f) \/ SubmitsNew(f) \/ IndexAnswered(f)
       \/ SubmitsExisting(f) \/ Buys(f) \/ Bought(f) \/ AnswerLost(f) \/ Closes(f)

-----------------------------------------------------------------------------
(* Of all who create the index at once, in either service, only the one   *)
(* that really added the row is told so.                                   *)
CreatedOnce ==
  [][\A c \in Creators : creator[c] # "created" /\ creator'[c] = "created" => ~listed]_catalogueVars

(* A purchase entered once in the modal is recorded once, whatever fails   *)
(* between its two requests and is submitted again; only a lost answer to  *)
(* POST /transactions makes a retry record it a second time.               *)
BoughtOnce == \A f \in Forms : bought[f] <= 1 + missed[f]
=============================================================================
