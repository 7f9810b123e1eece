---------------------------- MODULE ServicesProofs ----------------------------
(***************************************************************************)
(* For any number of modals, tabs, clients and tool calls: what is entered *)
(* once is recorded once, and a second profile has only one cause.         *)
(***************************************************************************)
EXTENDS MCServices, TLAPS, FiniteSetTheorems

Modals == [open : BOOLEAN, at : {"idle", "creating", "buying", "bought"},
           mode : {"existing", "new"}, named : BOOLEAN, priced : BOOLEAN, line : BOOLEAN]

CatalogueInv ==
  /\ creator \in [Creators -> {"none", "select", "insert", "commit", "created", "found", "refused"}]
  /\ form \in [Forms -> Modals]
  /\ bought \in [Forms -> Nat] /\ missed \in [Forms -> Nat]

(* One uncommitted row at a time, and none beside a committed one.         *)
OneInsert ==
  \A c \in Creators : creator[c] = "commit" =>
    ~listed /\ \A d \in Creators : creator[d] = "commit" => d = c

(* A recorded purchase is being answered, or its answer was lost, or it    *)
(* has closed the modal for good.                                          *)
Fits(r, recorded, lost) ==
  \/ r.at = "bought" /\ recorded = lost + 1
  \/ r.at # "bought" /\ recorded = lost
  \/ r.at = "idle" /\ ~r.open /\ recorded = lost + 1

Accounted == \A f \in Forms : Fits(form[f], bought[f], missed[f])

-----------------------------------------------------------------------------
LEMMA CatalogueStarts ==
  ASSUME NEW calls PROVE CatalogueInit(calls) => CatalogueInv /\ OneInsert /\ Accounted
BY DEF CatalogueInit, CatalogueInv, Modals, OneInsert, Accounted, Fits, Blank

LEMMA CreatorStep ==
  ASSUME CatalogueInv, OneInsert, NEW c \in Creators,
         Selects(c) \/ Inserts(c) \/ CommitsIndex(c) \/ CreationFails(c)
  PROVE  /\ CatalogueInv' /\ OneInsert'
         /\ form' = form /\ bought' = bought /\ missed' = missed
<1> USE DEF CatalogueInv, OneInsert, Creates
<1>1. CASE Selects(c)
  BY <1>1 DEF Selects
<1>2. CASE Inserts(c)
  BY <1>2 DEF Inserts
<1>3. CASE CommitsIndex(c)
  BY <1>3 DEF CommitsIndex
<1>4. CASE CreationFails(c)
  BY <1>4 DEF CreationFails
<1> QED
  BY <1>1, <1>2, <1>3, <1>4

FormStep(f) ==
  \/ Opens(f) \/ Edits(f) \/ SubmitsNew(f) \/ IndexAnswered(f)
  \/ SubmitsExisting(f) \/ Buys(f) \/ Bought(f) \/ AnswerLost(f) \/ Closes(f)

(* A step of one modal keeps the rest as it is.                            *)
LEMMA ModalChanges ==
  ASSUME CatalogueInv, OneInsert, Accounted, NEW f \in Forms, NEW r \in Modals,
         form' = [form EXCEPT ![f] = r], listed' = listed,
         creator' = creator \/ \E at \in {"none", "insert"} : creator' = [creator EXCEPT ![f] = at],
         bought' \in [Forms -> Nat], missed' \in [Forms -> Nat],
         \A g \in Forms \ {f} : bought'[g] = bought[g] /\ missed'[g] = missed[g],
         Fits(r, bought'[f], missed'[f])
  PROVE  CatalogueInv' /\ OneInsert' /\ Accounted'
<1>1. CatalogueInv'
  BY DEF CatalogueInv, Creators
<1>2. OneInsert'
  BY DEF OneInsert, CatalogueInv, Creators
<1>3. \A g \in Forms : form'[g] = IF g = f THEN r ELSE form[g]
  BY DEF CatalogueInv
<1>4. Accounted'
  BY <1>3 DEF Accounted
<1> QED
  BY <1>1, <1>2, <1>4

(* The common case: nothing is recorded and no answer comes.               *)
LEMMA ModalEdited ==
  ASSUME CatalogueInv, OneInsert, Accounted, NEW f \in Forms, NEW r \in Modals, Form(f, r),
         creator' = creator \/ \E at \in {"none", "insert"} : creator' = [creator EXCEPT ![f] = at],
         Fits(r, bought[f], missed[f])
  PROVE  CatalogueInv' /\ OneInsert' /\ Accounted'
<1>1. form' = [form EXCEPT ![f] = r] /\ listed' = listed /\ bought' = bought /\ missed' = missed
  BY DEF Form
<1> QED
  BY <1>1, ModalChanges DEF CatalogueInv

LEMMA FormStepKeeps ==
  ASSUME CatalogueInv, OneInsert, Accounted, NEW f \in Forms, FormStep(f)
  PROVE  CatalogueInv' /\ OneInsert' /\ Accounted'
<1>0. form[f] \in Modals /\ Fits(form[f], bought[f], missed[f]) /\ bought[f] \in Nat /\ missed[f] \in Nat
  BY DEF CatalogueInv, Accounted
<1>1. CASE Opens(f)
  <2> DEFINE r == [form[f] EXCEPT !.open = TRUE]
  <2>0. r \in Modals /\ r.at = form[f].at
    BY <1>0 DEF Modals
  <2>1. Fits(r, bought[f], missed[f])
    <3>1. bought[f] # missed[f] + 1
      BY <1>0, <1>1 DEF Opens
    <3> QED
      BY <1>0, <2>0, <3>1 DEF Fits
  <2> QED
    BY <1>1, <2>0, <2>1, ModalEdited DEF Opens
<1>2. CASE Edits(f)
  <2>1. PICK mode \in {"existing", "new"}, named \in BOOLEAN, priced \in BOOLEAN :
          Form(f, [form[f] EXCEPT !.mode = mode, !.named = named, !.priced = priced])
    BY <1>2 DEF Edits
  <2> DEFINE r == [form[f] EXCEPT !.mode = mode, !.named = named, !.priced = priced]
  <2>2. r \in Modals /\ Fits(r, bought[f], missed[f])
    BY <1>0 DEF Modals, Fits
  <2> QED
    BY <1>2, <2>1, <2>2, ModalEdited DEF Edits
<1>3. CASE SubmitsNew(f)
  <2> DEFINE r == [form[f] EXCEPT !.at = "creating", !.line = form[f].priced]
  <2>1. r \in Modals /\ Fits(r, bought[f], missed[f])
    BY <1>0, <1>3 DEF SubmitsNew, Modals, Fits
  <2>2. Form(f, r) /\ creator' = [creator EXCEPT ![f] = "insert"]
    BY <1>3 DEF SubmitsNew, Form
  <2> HIDE DEF r
  <2> QED
    BY <2>1, <2>2, ModalEdited
<1>4. CASE IndexAnswered(f)
  <2> DEFINE r == [form[f] EXCEPT !.at = IF creator[f] = "created" /\ form[f].line
                                         THEN "buying" ELSE "idle"]
  <2>1. r \in Modals /\ Fits(r, bought[f], missed[f])
    BY <1>0, <1>4 DEF IndexAnswered, Modals, Fits
  <2>2. Form(f, r) /\ creator' = [creator EXCEPT ![f] = "none"]
    BY <1>4 DEF IndexAnswered
  <2> HIDE DEF r
  <2> QED
    BY <2>1, <2>2, ModalEdited
<1>5. CASE SubmitsExisting(f)
  <2> DEFINE r == [form[f] EXCEPT !.at = "buying"]
  <2>1. r \in Modals /\ Fits(r, bought[f], missed[f])
    BY <1>0, <1>5 DEF SubmitsExisting, ReadyToBuy, Modals, Fits
  <2> QED
    BY <1>5, <2>1, ModalEdited DEF SubmitsExisting
<1>6. CASE Buys(f)
  <2>1. ASSUME form' = [form EXCEPT ![f].at = "bought"], bought' = [bought EXCEPT ![f] = @ + 1],
               listed' = listed, missed' = missed
        PROVE  CatalogueInv' /\ OneInsert' /\ Accounted'
    <3> DEFINE r == [form[f] EXCEPT !.at = "bought"]
    <3>1. form' = [form EXCEPT ![f] = r]
      BY <2>1 DEF CatalogueInv
    <3>2. r \in Modals
      BY <1>0 DEF Modals
    <3>3. bought' \in [Forms -> Nat] /\ missed' \in [Forms -> Nat]
      BY <2>1 DEF CatalogueInv
    <3>4. bought[f] = missed[f] /\ bought'[f] = bought[f] + 1
      BY <1>0, <1>6, <2>1 DEF Buys, Fits, CatalogueInv
    <3>5. Fits(r, bought'[f], missed'[f])
      BY <1>0, <2>1, <3>4 DEF Fits, Modals
    <3>6. \A g \in Forms \ {f} : bought'[g] = bought[g] /\ missed'[g] = missed[g]
      BY <2>1 DEF CatalogueInv
    <3>7. creator' = creator
      BY <1>6 DEF Buys
    <3> HIDE DEF r
    <3> QED
      BY <2>1, <3>1, <3>2, <3>3, <3>5, <3>6, <3>7, ModalChanges
  <2>2. ASSUME Form(f, [form[f] EXCEPT !.at = "idle"])
        PROVE  CatalogueInv' /\ OneInsert' /\ Accounted'
    <3> DEFINE r == [form[f] EXCEPT !.at = "idle"]
    <3>1. r \in Modals /\ Fits(r, bought[f], missed[f])
      BY <1>0, <1>6 DEF Buys, Modals, Fits
    <3> QED
      BY <1>6, <2>2, <3>1, ModalEdited DEF Buys
  <2> QED
    BY <1>6, <2>1, <2>2 DEF Buys
<1>7. CASE Bought(f)
  <2> DEFINE r == [Resets(form[f], FALSE) EXCEPT !.at = "idle"]
  <2>1. r \in Modals /\ Fits(r, bought[f], missed[f])
    BY <1>0, <1>7 DEF Bought, Resets, Blank, Modals, Fits
  <2> QED
    BY <1>7, <2>1, ModalEdited DEF Bought
<1>8. CASE AnswerLost(f)
  <2> DEFINE r == [form[f] EXCEPT !.at = "idle"]
  <2>1. form' = [form EXCEPT ![f] = r] /\ listed' = listed /\ creator' = creator /\ bought' = bought
    BY <1>8 DEF AnswerLost, CatalogueInv
  <2>2. missed' = [missed EXCEPT ![f] = missed[f] + 1]
    BY <1>8 DEF AnswerLost, CatalogueInv
  <2>3. r \in Modals
    BY <1>0 DEF Modals
  <2>4. bought' \in [Forms -> Nat] /\ missed' \in [Forms -> Nat]
    BY <2>1, <2>2 DEF CatalogueInv
  <2>5. bought[f] = missed[f] + 1 /\ missed'[f] = missed[f] + 1
    BY <1>0, <1>8, <2>2 DEF AnswerLost, Fits, CatalogueInv
  <2>6. Fits(r, bought'[f], missed'[f])
    BY <1>0, <2>1, <2>5 DEF Fits, Modals
  <2>7. \A g \in Forms \ {f} : bought'[g] = bought[g] /\ missed'[g] = missed[g]
    BY <2>1, <2>2 DEF CatalogueInv
  <2> HIDE DEF r
  <2> QED
    BY <2>1, <2>3, <2>4, <2>6, <2>7, ModalChanges
<1>9. CASE Closes(f)
  <2> DEFINE r == Resets(form[f], FALSE)
  <2>1. r \in Modals /\ Fits(r, bought[f], missed[f])
    BY <1>0, <1>9 DEF Closes, Resets, Blank, Modals, Fits
  <2> QED
    BY <1>9, <2>1, ModalEdited DEF Closes
<1> QED
  BY <1>1, <1>2, <1>3, <1>4, <1>5, <1>6, <1>7, <1>8, <1>9 DEF FormStep

LEMMA CatalogueStep ==
  CatalogueInv /\ OneInsert /\ Accounted /\ [CatalogueNext]_catalogueVars
    => CatalogueInv' /\ OneInsert' /\ Accounted'
<1> SUFFICES ASSUME CatalogueInv, OneInsert, Accounted, [CatalogueNext]_catalogueVars
             PROVE  CatalogueInv' /\ OneInsert' /\ Accounted'
  OBVIOUS
<1>1. CASE UNCHANGED catalogueVars
  BY <1>1 DEF catalogueVars, CatalogueInv, OneInsert, Accounted
<1>2. ASSUME NEW c \in Creators, Selects(c) \/ Inserts(c) \/ CommitsIndex(c) \/ CreationFails(c)
      PROVE  CatalogueInv' /\ OneInsert' /\ Accounted'
  BY <1>2, CreatorStep DEF Accounted
<1>3. ASSUME NEW f \in Forms, FormStep(f)
      PROVE  CatalogueInv' /\ OneInsert' /\ Accounted'
  BY <1>3, FormStepKeeps
<1> QED
  BY <1>1, <1>2, <1>3 DEF CatalogueNext, FormStep

(* A purchase entered once is recorded once, unless answers were lost.     *)
THEOREM ModalBuysOnce ==
  ASSUME NEW calls
  PROVE  CatalogueInit(calls) /\ [][CatalogueNext]_catalogueVars => []BoughtOnce
<1>1. CatalogueInit(calls) => CatalogueInv /\ OneInsert /\ Accounted
  BY CatalogueStarts
<1>2. CatalogueInv /\ Accounted => BoughtOnce
  BY DEF CatalogueInv, Accounted, Fits, BoughtOnce
<1> QED
  BY <1>1, <1>2, CatalogueStep, PTL

(* An index is reported as created to the one who added the row only.      *)
THEOREM IndexCreatedOnce ==
  ASSUME NEW calls
  PROVE  CatalogueInit(calls) /\ [][CatalogueNext]_catalogueVars => CreatedOnce
<1> DEFINE Once == \A c \in Creators : creator[c] # "created" /\ creator'[c] = "created" => ~listed
<1>1. CatalogueInit(calls) => CatalogueInv /\ OneInsert /\ Accounted
  BY CatalogueStarts
<1>2. CatalogueInv /\ OneInsert /\ [CatalogueNext]_catalogueVars => [Once]_catalogueVars
  <2> SUFFICES ASSUME CatalogueInv, OneInsert, CatalogueNext PROVE Once
    OBVIOUS
  <2>1. ASSUME NEW c \in Creators, Selects(c) \/ Inserts(c) \/ CommitsIndex(c) \/ CreationFails(c)
        PROVE  Once
    BY <2>1 DEF CatalogueInv, OneInsert, Selects, Inserts, CommitsIndex, CreationFails, Creates
  <2>2. ASSUME NEW f \in Forms, FormStep(f)
        PROVE  Once
    BY <2>2 DEF CatalogueInv, Creators, FormStep, Opens, Edits, SubmitsNew, IndexAnswered,
                SubmitsExisting, Buys, Bought, AnswerLost, Closes, Form
  <2> QED
    BY <2>1, <2>2 DEF CatalogueNext, FormStep
<1> QED
  BY <1>1, <1>2, CatalogueStep, PTL DEF CreatedOnce

-----------------------------------------------------------------------------
Requests == [at : {"none", "count", "insert", "read", "flush", "commit", "emit", "answered"},
             id : Clients \cup {AgentUser, Unset}, nulls : BOOLEAN, status : Nat]

(* What a client may have asked before anything happens.                   *)
Posed == {NoRequest, Setup, Update(TRUE), Update(FALSE)}

(* A request that will write a user found it there, or brings its own id;  *)
(* once there is a user, one that brings its own had counted none before.  *)
Counted(c, r) ==
  /\ r.at = "flush" => r.id \in DOMAIN users
  /\ r.at = "commit" => r.id \in DOMAIN users \cup {NewId(c)}
  /\ DOMAIN users # {} =>
       \/ c \in early
       \/ r.at # "insert" /\ (r.at = "commit" => r.id \in DOMAIN users)

ProfileInv ==
  /\ configured \in {AgentUser, Unset}
  /\ request \in [Clients -> Requests]
  /\ DOMAIN users \subseteq Clients \cup {AgentUser}
  /\ \A c \in Clients : Counted(c, request[c])
  /\ IF configured = Unset THEN DOMAIN users \subseteq early ELSE DOMAIN users \subseteq {configured}

(* Every step of a wizard but the one shown, and those after it, is valid. *)
WizardInv ==
  /\ tab \in [Tabs -> [page : {"home", "dashboard", "onboarding"}, profile : {"loading", "yes", "no"},
                    step : 0 .. 2, filled : SUBSET (0 .. 2)]]
  /\ \A t \in Tabs : \A step \in 0 .. 2 : step < tab[t].step => step \in tab[t].filled

LEMMA PosedType ==
  /\ Posed \subseteq Requests
  /\ NoRequest.at = "none" /\ Setup.at = "count" /\ \A nulls \in BOOLEAN : Update(nulls).at = "read"
<1>1. NoRequest \in Requests /\ NoRequest.at = "none"
  BY DEF NoRequest, Requests
<1>2. Setup \in Requests /\ Setup.at = "count"
  BY <1>1 DEF Setup, Requests
<1>3. ASSUME NEW nulls \in BOOLEAN PROVE Update(nulls) \in Requests /\ Update(nulls).at = "read"
  BY <1>1 DEF Update, Requests
<1> QED
  BY <1>1, <1>2, <1>3 DEF Posed

LEMMA ProfileStarts ==
  ASSUME NEW requests, \A c \in DOMAIN requests : requests[c] \in Posed
  PROVE  /\ ProfileInit(requests) => WizardInv /\ request \in [Clients -> Requests]
         /\ ProfileInit(requests) /\ early = {} => ProfileInv
<1> SUFFICES ASSUME ProfileInit(requests)
             PROVE  WizardInv /\ request \in [Clients -> Requests] /\ (early = {} => ProfileInv)
  OBVIOUS
<1>1. WizardInv
  BY DEF ProfileInit, WizardInv, Page
<1>2. NoRequest \in Posed
  BY DEF Posed
<1>3. request \in [Clients -> Posed] /\ request \in [Clients -> Requests]
  BY <1>2, PosedType DEF ProfileInit
<1>4. \A r \in Posed : r.at \in {"none", "count", "read"}
  BY PosedType DEF Posed
<1>5. DOMAIN users = {} /\ configured \in {AgentUser, Unset}
  BY DEF ProfileInit
<1>6. \A c \in Clients : Counted(c, request[c])
  BY <1>3, <1>4 DEF Counted
<1> QED
  BY <1>1, <1>3, <1>5, <1>6 DEF ProfileInv

(* A request that goes on without committing.                              *)
LEMMA RequestMoves ==
  ASSUME ProfileInv, NEW c \in Clients, NEW r \in Requests, Counted(c, r),
         request' = [request EXCEPT ![c] = r],
         users' = users, configured' = configured, early' = early
  PROVE  ProfileInv'
BY DEF ProfileInv, Counted, NewId

LEMMA CommitKeeps ==
  ASSUME ProfileInv, NEW c \in Clients, Commits(c), EarlyNext
  PROVE  ProfileInv'
<1> DEFINE id == request[c].id
           r == [request[c] EXCEPT !.at = "emit"]
<1>1. /\ request[c].at = "commit" /\ request' = [request EXCEPT ![c] = r]
      /\ DOMAIN users' = DOMAIN users \cup {id} /\ configured' = configured
  BY DEF Commits, Sends
<1>2. request[c] \in Requests /\ id \in DOMAIN users \cup {NewId(c)}
  BY <1>1 DEF ProfileInv, Counted
<1>3. r \in Requests /\ r.at = "emit"
  BY <1>2 DEF Requests
<1>4. \A d \in Clients : request'[d] = IF d = c THEN r ELSE request[d]
  BY <1>1 DEF ProfileInv
<1>5. NewId(c) \in Clients \cup {AgentUser}
  BY DEF NewId, ProfileInv
<1>6. /\ configured' \in {AgentUser, Unset} /\ request' \in [Clients -> Requests]
      /\ DOMAIN users' \subseteq Clients \cup {AgentUser}
  BY <1>1, <1>2, <1>3, <1>5 DEF ProfileInv
<1>7. \A d \in Clients : request'[d].at \in {"insert", "commit", "flush"} => d # c /\ request'[d] = request[d]
  BY <1>3, <1>4
<1>8. CASE DOMAIN users = {}
  <2>1. early' = {d \in Clients : request[d].at \in {"insert", "commit"}}
    BY <1>1, <1>8 DEF EarlyNext
  <2>2. \A d \in Clients : Counted(d, request[d])' 
    BY <1>1, <1>7, <1>8, <2>1 DEF Counted, ProfileInv, NewId
  <2>3. id = NewId(c) /\ c \in early'
    BY <1>1, <1>2, <1>8, <2>1
  <2> QED
    BY <1>1, <1>6, <1>8, <2>2, <2>3 DEF ProfileInv, NewId
<1>9. CASE DOMAIN users # {}
  <2>1. early' = early
    BY <1>9 DEF EarlyNext
  <2>2. \A d \in Clients : Counted(d, request[d])'
    BY <1>1, <1>7, <1>9, <2>1 DEF Counted, ProfileInv, NewId
  <2>3. id \in DOMAIN users \/ (id = NewId(c) /\ c \in early)
    BY <1>1, <1>2, <1>9 DEF ProfileInv, Counted
  <2> QED
    BY <1>1, <1>6, <1>9, <2>1, <2>2, <2>3 DEF ProfileInv, NewId
<1> QED
  BY <1>8, <1>9

(* The next state of one request, but for its commit.                      *)
LEMMA RequestStep ==
  ASSUME ProfileInv, NEW c \in Clients,
         \/ SetupCounts(c) \/ SetupInserts(c) \/ UpdateReads(c) \/ UpdateFlushes(c)
         \/ Emits(c) \/ RequestLost(c)
  PROVE  \E r \in Requests : /\ Counted(c, r) /\ request' = [request EXCEPT ![c] = r]
                             /\ users' = users /\ configured' = configured /\ tab' = tab
<1> DEFINE Keeps == users' = users /\ configured' = configured /\ tab' = tab
           Goal == \E r \in Requests : Counted(c, r) /\ request' = [request EXCEPT ![c] = r] /\ Keeps
<1>0. request[c] \in Requests /\ Counted(c, request[c])
  BY DEF ProfileInv
<1>1. ASSUME NEW r \in Requests, Counted(c, r), Sends(c, r), Keeps PROVE Goal
  BY <1>1 DEF Sends
<1>2. ASSUME NEW status \in Nat, Answers(c, status), Keeps PROVE Goal
  <2> DEFINE r == [request[c] EXCEPT !.at = "answered", !.status = status]
  <2>1. r \in Requests /\ r.at = "answered"
    BY <1>0 DEF Requests
  <2>2. Counted(c, r)
    BY <2>1 DEF Counted
  <2> QED
    BY <1>1, <1>2, <2>1, <2>2 DEF Answers
<1> SUFFICES Goal
  OBVIOUS
<1> HIDE DEF Goal
<1>3. CASE SetupCounts(c)
  <2> DEFINE r == [request[c] EXCEPT !.at = "insert"]
  <2>1. r \in Requests /\ r.at = "insert"
    BY <1>0 DEF Requests
  <2>2. CASE Answers(c, 409)
    BY <1>2, <1>3, <2>2 DEF SetupCounts
  <2>3. CASE ~Answers(c, 409)
    <3>1. users = [id \in {} |-> Unset] /\ Sends(c, r) /\ Keeps
      BY <1>3, <2>3 DEF SetupCounts
    <3>2. Counted(c, r)
      BY <2>1, <3>1 DEF Counted
    <3> HIDE DEF r
    <3> QED
      BY <1>1, <2>1, <3>1, <3>2
  <2> QED
    BY <2>2, <2>3
<1>4. CASE SetupInserts(c)
  <2> DEFINE r == [request[c] EXCEPT !.at = "commit", !.id = NewId(c)]
  <2>1. NewId(c) \in Clients \cup {AgentUser}
    BY DEF NewId, ProfileInv
  <2>2. r \in Requests /\ r.at = "commit" /\ r.id = NewId(c)
    BY <1>0, <2>1 DEF Requests
  <2>3. Counted(c, r)
    <3>1. DOMAIN users # {} => c \in early
      BY <1>0, <1>4 DEF Counted, SetupInserts
    <3> QED
      BY <2>2, <3>1 DEF Counted
  <2>4. CASE Answers(c, 500)
    BY <1>2, <1>4, <2>4 DEF SetupInserts
  <2>5. CASE ~Answers(c, 500)
    <3>1. Sends(c, r) /\ Keeps
      BY <1>4, <2>5 DEF SetupInserts
    <3> HIDE DEF r
    <3> QED
      BY <1>1, <2>2, <2>3, <3>1
  <2> QED
    BY <2>4, <2>5
<1>5. CASE UpdateReads(c)
  <2> DEFINE R(id) == [request[c] EXCEPT !.at = "flush", !.id = id]
  <2>1. \A id \in DOMAIN users : R(id) \in Requests /\ Counted(c, R(id))
    BY <1>0 DEF Requests, Counted, ProfileInv
  <2>2. CASE Answers(c, 404)
    <3>1. Keeps
      BY <1>5 DEF UpdateReads
    <3> QED
      BY <1>2, <2>2, <3>1
  <2>3. CASE ~Answers(c, 404)
    <3>1. Keeps /\ \E id \in DOMAIN users : Sends(c, R(id))
      BY <1>5, <2>3 DEF UpdateReads
    <3> HIDE DEF R
    <3> QED
      BY <1>1, <2>1, <3>1
  <2> QED
    BY <2>2, <2>3
<1>6. CASE UpdateFlushes(c)
  <2> DEFINE r == [request[c] EXCEPT !.at = "commit"]
  <2>1. r \in Requests /\ r.at = "commit" /\ r.id = request[c].id
    BY <1>0 DEF Requests
  <2>2. Counted(c, r)
    BY <1>0, <1>6, <2>1 DEF Counted, UpdateFlushes
  <2>3. CASE Answers(c, 500)
    BY <1>2, <1>6, <2>3 DEF UpdateFlushes
  <2>4. CASE ~Answers(c, 500)
    <3>1. Sends(c, r) /\ Keeps
      BY <1>6, <2>4 DEF UpdateFlushes
    <3> HIDE DEF r
    <3> QED
      BY <1>1, <2>1, <2>2, <3>1
  <2> QED
    BY <2>3, <2>4
<1>7. CASE Emits(c)
  BY <1>2, <1>7 DEF Emits
<1>8. CASE RequestLost(c)
  BY <1>2, <1>8 DEF RequestLost
<1> QED
  BY <1>3, <1>4, <1>5, <1>6, <1>7, <1>8

(* What a tab does to its request.                                         *)
LEMMA TabStep ==
  ASSUME ProfileInv, TabNext
  PROVE  /\ users' = users /\ configured' = configured
         /\ \/ request' = request
            \/ \E t \in Tabs : \E r \in {NoRequest, Setup} : request' = [request EXCEPT ![t] = r]
BY DEF TabNext, ProfileLoads, Guard, Fills, GoNext, GoBack, Submit, Submitted, Reload, OnTab, Sends

LEMMA ProfileStep ==
  ProfileInv /\ [(WizardNext \/ ProfileEventsNext) /\ EarlyNext]_profilePart => ProfileInv'
<1> SUFFICES ASSUME ProfileInv, [(WizardNext \/ ProfileEventsNext) /\ EarlyNext]_profilePart
             PROVE  ProfileInv'
  OBVIOUS
<1>1. ASSUME users' = users, EarlyNext PROVE early' = early
  BY <1>1 DEF EarlyNext
<1>2. ASSUME request' = request, users' = users, configured' = configured, early' = early
      PROVE  ProfileInv'
  BY <1>2 DEF ProfileInv, Counted, NewId
<1>3. CASE UNCHANGED profilePart
  BY <1>2, <1>3 DEF profilePart, profileVars
<1>4. CASE RequestNext /\ EarlyNext
  <2>1. PICK c \in Clients :
          \/ SetupCounts(c) \/ SetupInserts(c) \/ UpdateReads(c) \/ UpdateFlushes(c)
          \/ Commits(c) \/ Emits(c) \/ RequestLost(c)
    BY <1>4 DEF RequestNext
  <2>2. CASE Commits(c)
    BY <1>4, <2>2, CommitKeeps
  <2>3. CASE ~Commits(c)
    BY <1>1, <1>4, <2>1, <2>3, RequestStep, RequestMoves
  <2> QED
    BY <2>2, <2>3
<1>5. CASE TabNext /\ EarlyNext
  <2>1. users' = users /\ configured' = configured /\ early' = early
    BY <1>1, <1>5, TabStep
  <2>2. ASSUME NEW t \in Tabs, NEW r \in {NoRequest, Setup}, request' = [request EXCEPT ![t] = r]
        PROVE  ProfileInv'
    <3>1. t \in Clients /\ r \in Requests
      BY PosedType DEF Clients, Posed
    <3>2. Counted(t, r)
      BY PosedType DEF Counted
    <3> QED
      BY <2>1, <2>2, <3>1, <3>2, RequestMoves
  <2> QED
    BY <1>2, <1>5, <2>1, <2>2, TabStep
<1>6. CASE UNCHANGED profileVars /\ EarlyNext
  BY <1>1, <1>2, <1>6 DEF profileVars
<1> QED
  BY <1>3, <1>4, <1>5, <1>6 DEF WizardNext, ProfileEventsNext

(* Two profiles exist only if nam-api has no DEFAULT_USER_ID and each of   *)
(* them was asked for before the first one was committed.                  *)
THEOREM ProfilesOverlap ==
  ASSUME NEW requests, \A c \in DOMAIN requests : requests[c] \in Posed
  PROVE  /\ ProfileInit(requests) /\ early = {}
         /\ [][(WizardNext \/ ProfileEventsNext) /\ EarlyNext]_profilePart
         => []ExtraProfilesOnlyFromOverlap
<1>1. ProfileInit(requests) /\ early = {} => ProfileInv
  BY ProfileStarts
<1>2. ProfileInv => ExtraProfilesOnlyFromOverlap
  <2> SUFFICES ASSUME ProfileInv, configured # Unset PROVE Cardinality(DOMAIN users) <= 1
    BY DEF ProfileInv, ExtraProfilesOnlyFromOverlap
  <2>1. DOMAIN users \in SUBSET {configured}
    BY DEF ProfileInv
  <2>2. IsFiniteSet({configured}) /\ Cardinality({configured}) = 1
    BY FS_Singleton
  <2>3. IsFiniteSet(DOMAIN users) /\ Cardinality(DOMAIN users) <= Cardinality({configured})
    BY <2>1, <2>2, FS_Subset
  <2> QED
    BY <2>2, <2>3
<1> QED
  BY <1>1, <1>2, ProfileStep, PTL

-----------------------------------------------------------------------------
(* A tab's step of the wizard.                                             *)
LEMMA WizardStep ==
  ASSUME WizardInv, NEW t \in Tabs, NEW r, tab' = [tab EXCEPT ![t] = r],
         r \in [page : {"home", "dashboard", "onboarding"}, profile : {"loading", "yes", "no"},
                step : 0 .. 2, filled : SUBSET (0 .. 2)],
         \A step \in 0 .. 2 : step < r.step => step \in r.filled
  PROVE  WizardInv'
BY DEF WizardInv

LEMMA TabNextKeeps == ASSUME WizardInv, TabNext PROVE WizardInv'
<1> DEFINE Whole(r) ==
             /\ r \in [page : {"home", "dashboard", "onboarding"}, profile : {"loading", "yes", "no"},
                       step : 0 .. 2, filled : SUBSET (0 .. 2)]
             /\ \A step \in 0 .. 2 : step < r.step => step \in r.filled
<1>0. PICK t \in Tabs :
        ProfileLoads(t) \/ Guard(t) \/ Fills(t) \/ GoNext(t) \/ GoBack(t)
        \/ Submit(t) \/ Submitted(t) \/ Reload(t)
  BY DEF TabNext
<1>1. Whole(tab[t])
  BY DEF WizardInv
<1>2. \A page \in {"home", "dashboard", "onboarding"} : Whole(Page(page))
  BY DEF Page
<1>3. ASSUME NEW r, OnTab(t, r), Whole(r) PROVE WizardInv'
  BY <1>3, WizardStep DEF OnTab
<1>4. CASE ProfileLoads(t)
  <2>1. Whole([tab[t] EXCEPT !.profile = "yes"]) /\ Whole([tab[t] EXCEPT !.profile = "no"])
    BY <1>1
  <2> HIDE DEF Whole
  <2> QED
    BY <1>3, <1>4, <2>1 DEF ProfileLoads
<1>5. CASE Guard(t)
  <2>1. Whole([tab[t] EXCEPT !.page = "dashboard"]) /\ Whole([Page("onboarding") EXCEPT !.profile = "no"])
    BY <1>1, <1>2
  <2> HIDE DEF Whole
  <2> QED
    BY <1>3, <1>5, <2>1 DEF Guard
<1>6. CASE Fills(t)
  <2>1. PICK filled \in {tab[t].filled \cup {tab[t].step}, tab[t].filled \ {tab[t].step}} :
          OnTab(t, [tab[t] EXCEPT !.filled = filled])
    BY <1>6 DEF Fills
  <2>2. Whole([tab[t] EXCEPT !.filled = filled])
    BY <1>1
  <2> HIDE DEF Whole
  <2> QED
    BY <1>3, <2>1, <2>2
<1>7. CASE GoNext(t)
  <2>1. Whole([tab[t] EXCEPT !.step = tab[t].step + 1])
    BY <1>1, <1>7 DEF GoNext
  <2> HIDE DEF Whole
  <2> QED
    BY <1>3, <1>7, <2>1 DEF GoNext
<1>8. CASE GoBack(t)
  <2>1. Whole([tab[t] EXCEPT !.step = tab[t].step - 1])
    BY <1>1, <1>8 DEF GoBack
  <2> HIDE DEF Whole
  <2> QED
    BY <1>3, <1>8, <2>1 DEF GoBack
<1>9. CASE Submit(t)
  BY <1>9 DEF Submit, WizardInv
<1>10. CASE Submitted(t)
  <2> HIDE DEF Whole
  <2>1. Whole(Page("dashboard"))
    BY <1>2
  <2> QED
    BY <1>1, <1>3, <1>10, <2>1 DEF Submitted
<1>11. CASE Reload(t)
  <2>1. Whole(Page(tab[t].page))
    BY <1>1, <1>2
  <2> HIDE DEF Whole
  <2> QED
    BY <1>3, <1>11, <2>1 DEF Reload
<1> QED
  BY <1>0, <1>4, <1>5, <1>6, <1>7, <1>8, <1>9, <1>10, <1>11

(* Only submit begins a setup of a tab that has no request under way.      *)
LEMMA OnlySubmitBegins ==
  ASSUME ProfileInv, RequestNext \/ TabNext, NEW t \in Tabs,
         request[t].at = "none", request'[t].at = "count"
  PROVE  Submit(t)
<1>0. request \in [Clients -> Requests] /\ t \in Clients
  BY DEF ProfileInv, Clients
<1>1. ~RequestNext
  <2> SUFFICES ASSUME NEW c \in Clients,
                      \/ SetupCounts(c) \/ SetupInserts(c) \/ UpdateReads(c) \/ UpdateFlushes(c)
                      \/ Commits(c) \/ Emits(c) \/ RequestLost(c)
               PROVE  FALSE
    BY DEF RequestNext
  <2>1. request[c].at # "none"
    BY DEF SetupCounts, SetupInserts, UpdateReads, UpdateFlushes, Commits, Emits, RequestLost
  <2>2. \E r : request' = [request EXCEPT ![c] = r]
    BY DEF SetupCounts, SetupInserts, UpdateReads, UpdateFlushes, Commits, Emits, RequestLost,
           Answers, Sends
  <2> QED
    BY <1>0, <2>1, <2>2
<1>2. PICK u \in Tabs :
        ProfileLoads(u) \/ Guard(u) \/ Fills(u) \/ GoNext(u) \/ GoBack(u)
        \/ Submit(u) \/ Submitted(u) \/ Reload(u)
  BY <1>1 DEF TabNext
<1>3. CASE Submit(u)
  <2>1. request' = [request EXCEPT ![u] = Setup]
    BY <1>3 DEF Submit, Sends
  <2> QED
    BY <1>0, <1>3, <2>1
<1>4. CASE Submitted(u)
  <2>1. request' = [request EXCEPT ![u] = NoRequest]
    BY <1>4 DEF Submitted, Sends
  <2> QED
    BY <1>0, <2>1, PosedType
<1>5. CASE ~Submit(u) /\ ~Submitted(u)
  <2>1. request' = request
    BY <1>2, <1>5 DEF ProfileLoads, Guard, Fills, GoNext, GoBack, Reload
  <2> QED
    BY <2>1
<1> QED
  BY <1>3, <1>4, <1>5

(* POST /setup receives what the wizard has validated whole, although      *)
(* submit looks at its last step only.                                     *)
THEOREM SubmissionsWhole ==
  ASSUME NEW requests, \A c \in DOMAIN requests : requests[c] \in Posed
  PROVE  /\ ProfileInit(requests) /\ early = {}
         /\ [][(WizardNext \/ ProfileEventsNext) /\ EarlyNext]_profilePart
         => SubmissionsAreComplete
<1> DEFINE Complete == \A t \in Tabs :
             request[t].at = "none" /\ request'[t].at = "count" => tab[t].filled = 0 .. 2
           ProfileNext == (WizardNext \/ ProfileEventsNext) /\ EarlyNext
<1>1. ProfileInit(requests) /\ early = {} => ProfileInv /\ WizardInv
  BY ProfileStarts
<1>2. WizardInv /\ [ProfileNext]_profilePart => WizardInv'
  <2> SUFFICES ASSUME WizardInv, [ProfileNext]_profilePart PROVE WizardInv'
    OBVIOUS
  <2>1. TabNext \/ tab' = tab
    <3>1. RequestNext => tab' = tab
      BY DEF RequestNext, SetupCounts, SetupInserts, UpdateReads, UpdateFlushes, Commits, Emits,
             RequestLost
    <3> QED
      BY <3>1 DEF WizardNext, ProfileEventsNext, profilePart, profileVars
  <2>2. CASE tab' = tab
    BY <2>2 DEF WizardInv
  <2> QED
    BY <2>1, <2>2, TabNextKeeps
<1>3. ProfileInv /\ WizardInv /\ [ProfileNext]_profilePart => [Complete]_profileVars
  <2> SUFFICES ASSUME ProfileInv, WizardInv, RequestNext \/ TabNext, NEW t \in Tabs,
                      request[t].at = "none", request'[t].at = "count"
               PROVE  tab[t].filled = 0 .. 2
    BY DEF WizardNext, ProfileEventsNext, profilePart, profileVars
  <2>1. tab[t].step = 2 /\ 2 \in tab[t].filled
    BY OnlySubmitBegins DEF Submit
  <2>2. tab[t].filled \subseteq 0 .. 2 /\ \A step \in 0 .. 2 : step < 2 => step \in tab[t].filled
    BY <2>1 DEF WizardInv
  <2> QED
    BY <2>1, <2>2
<1> QED
  BY <1>1, <1>2, <1>3, ProfileStep, PTL DEF SubmissionsAreComplete
=============================================================================
