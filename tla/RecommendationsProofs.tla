------------------------- MODULE RecommendationsProofs -------------------------
(***************************************************************************)
(* Proofs about the recommendation lifecycle, for every set of handlers,   *)
(* comments and analyses and every bound on rows and PATCHes.              *)
(***************************************************************************)
EXTENDS MCRecommendations, TLAPS, FiniteSetTheorems

(* The row that create_recommendation inserts.                             *)
Fresh == [status |-> "PENDING", user_comment |-> NoComment, resolved_at |-> 0]

(* A row is as it was inserted, or it has been resolved.                   *)
RowsOk ==
  /\ IsFiniteSet(DOMAIN rows)
  /\ \A id \in DOMAIN rows :
       rows[id] = Fresh \/ (rows[id].status # "PENDING" /\ rows[id].resolved_at # 0)

(* A session has loaded a pending row, resolves it, and what it has        *)
(* flushed is its UPDATE of the row that is still there.                   *)
Resolves(r) ==
  /\ r.data.status \in {"APPLIED", "REJECTED"} /\ r.loaded = Fresh
  /\ \A row \in r.version : row = Written(rows[r.id], r)

SessionsResolve == \A h \in DOMAIN open : Resolves(open[h])

NumbersDiffer == \A g, h \in DOMAIN open : g # h => open[g].num # open[h].num

(* The row lock.                                                           *)
OneWriter ==
  \A g, h \in DOMAIN open :
    g # h /\ open[g].id = open[h].id => open[g].version = {} \/ open[h].version = {}

SessionInv == TypeOK /\ RowsOk /\ SessionsResolve /\ NumbersDiffer /\ OneWriter

(* What the history variables say of the sessions still open.              *)
HistoryInv ==
  /\ DOMAIN said = 1 .. passed /\ ended \subseteq 1 .. passed
  /\ \A h \in DOMAIN open :
       /\ said[open[h].num].id = open[h].id /\ said[open[h].num].data = open[h].data
       /\ open[h].num \notin ended
       /\ open[h].id \in DOMAIN rivals => open[h].num \in rivals[open[h].id]
  /\ DOMAIN rivals = {id \in DOMAIN rows : rows[id].status # "PENDING"}

-----------------------------------------------------------------------------
(* Fields of an open session.                                              *)
LEMMA SessionFields ==
  ASSUME TypeOK, NEW h \in DOMAIN open
  PROVE  /\ open[h].id \in DOMAIN rows /\ open[h].num \in 1 .. passed /\ open[h].data \in Updates
         /\ open[h].loaded \in Recommendation /\ open[h].version \subseteq Recommendation
         /\ open[h] = [id |-> open[h].id, num |-> open[h].num, data |-> open[h].data,
                       loaded |-> open[h].loaded, version |-> open[h].version]
         /\ rows[open[h].id] \in Recommendation
<1>1. open[h] \in [id : DOMAIN rows, num : 1 .. passed, data : Updates, loaded : Recommendation,
                   version : SUBSET Recommendation]
  BY DEF TypeOK
<1>. QED  BY <1>1 DEF TypeOK

LEMMA FreshIsRow == Fresh \in Recommendation /\ Fresh.status = "PENDING" /\ Fresh.resolved_at = 0
BY RecommendationAssumption DEF Fresh, Recommendation, Statuses

(* What an UPDATE writes is a row, resolved by its PATCH.                  *)
LEMMA WrittenRow ==
  ASSUME TypeOK, NEW h \in DOMAIN open, NEW row \in Recommendation, Resolves(open[h])
  PROVE  /\ Written(row, open[h]) \in Recommendation
         /\ Written(row, open[h]).status = open[h].data.status
         /\ Written(row, open[h]).resolved_at = open[h].num
         /\ Written(row, open[h]).user_comment = IF open[h].data.user_comment # NoComment
                                                 THEN open[h].data.user_comment
                                                 ELSE row.user_comment
         /\ open[h].data.status # "PENDING" /\ open[h].num # 0
<1>1. open[h].num \in 0 .. MaxPatches /\ open[h].num # 0
  <2>1. open[h].num \in 1 .. passed /\ passed \in 0 .. MaxPatches
    BY SessionFields DEF TypeOK
  <2>. QED  BY <2>1, RecommendationAssumption
<1>2. open[h].data.status \in Statuses /\ open[h].data.user_comment \in Comments \cup {NoComment}
  BY SessionFields DEF Updates
<1>3. open[h].loaded.user_comment = NoComment
  BY DEF Resolves, Fresh
<1>. QED  BY <1>1, <1>2, <1>3 DEF Written, Recommendation, Resolves

(* A session that ends takes nothing of the other sessions with it.        *)
LEMMA SessionCloses ==
  ASSUME SessionInv, NEW h \in DOMAIN open, Close(h), links' = links, passed' = passed,
         DOMAIN rows' = DOMAIN rows, rows' \in [DOMAIN rows -> Recommendation],
         \A g \in DOMAIN open \ {h} : open[g].version # {} => rows'[open[g].id] = rows[open[g].id]
  PROVE  TypeOK' /\ SessionsResolve' /\ NumbersDiffer' /\ OneWriter'
<1>1. DOMAIN open' = DOMAIN open \ {h} /\ \A g \in DOMAIN open' : open'[g] = open[g]
  BY DEF Close
<1>2. TypeOK'
  <2>1. \A g \in DOMAIN open' : open'[g] \in [id : DOMAIN rows', num : 1 .. passed', data : Updates,
                                              loaded : Recommendation, version : SUBSET Recommendation]
    BY <1>1 DEF TypeOK, SessionInv
  <2>2. open' = [g \in DOMAIN open' |-> open'[g]]
    BY DEF Close
  <2>. QED  BY <1>1, <2>1, <2>2 DEF TypeOK, SessionInv
<1>3. SessionsResolve'
  <2>. SUFFICES ASSUME NEW g \in DOMAIN open'
                PROVE  Resolves(open[g])'
    BY DEF SessionsResolve
  <2>1. open'[g] = open[g] /\ g \in DOMAIN open \ {h} /\ Resolves(open[g])
    BY <1>1 DEF SessionInv, SessionsResolve
  <2>2. ASSUME NEW row \in open'[g].version
        PROVE  row = Written(rows'[open'[g].id], open'[g])
    BY <2>1, <2>2 DEF Resolves
  <2>. QED  BY <2>1, <2>2 DEF Resolves
<1>. QED  BY <1>1, <1>2, <1>3 DEF SessionInv, NumbersDiffer, OneWriter

(* A session that opens or flushes, over rows that stay.                   *)
LEMMA SessionChanges ==
  ASSUME SessionInv, NEW h, h \in Handlers, NEW r,
         r \in [id : DOMAIN rows, num : 1 .. passed', data : Updates, loaded : Recommendation,
                version : SUBSET Recommendation],
         Resolves(r), links' = links, rows' = rows, passed' \in passed .. MaxPatches,
         open' = [g \in DOMAIN open \cup {h} |-> IF g # h THEN open[g] ELSE r],
         \A g \in DOMAIN open \ {h} : open[g].num # r.num,
         \A g \in DOMAIN open \ {h} : open[g].id = r.id => open[g].version = {} \/ r.version = {}
  PROVE  SessionInv'
<1>1. /\ DOMAIN open' = DOMAIN open \cup {h} /\ open'[h] = r
      /\ \A g \in DOMAIN open' : g # h => g \in DOMAIN open /\ open'[g] = open[g]
  OBVIOUS
<1>2. TypeOK'
  <2>1. passed \in Nat /\ passed' \in 0 .. MaxPatches /\ 1 .. passed \subseteq 1 .. passed'
    BY RecommendationAssumption DEF TypeOK, SessionInv
  <2>2. \A g \in DOMAIN open' : open'[g] \in [id : DOMAIN rows', num : 1 .. passed', data : Updates,
                                              loaded : Recommendation, version : SUBSET Recommendation]
    <3>. SUFFICES ASSUME NEW g \in DOMAIN open', g # h
                  PROVE  open[g] \in [id : DOMAIN rows, num : 1 .. passed', data : Updates,
                                      loaded : Recommendation, version : SUBSET Recommendation]
      BY <1>1
    <3>. QED  BY <1>1, <2>1, SessionFields DEF SessionInv
  <2>3. open' = [g \in DOMAIN open' |-> open'[g]]
    OBVIOUS
  <2>. QED  BY <1>1, <2>1, <2>2, <2>3 DEF TypeOK, SessionInv
<1>3. SessionsResolve'
  <2>. SUFFICES ASSUME NEW g \in DOMAIN open'
                PROVE  Resolves(open[g])'
    BY DEF SessionsResolve
  <2>. QED  BY <1>1 DEF SessionInv, SessionsResolve, Resolves
<1>4. NumbersDiffer'
  BY <1>1 DEF SessionInv, NumbersDiffer
<1>5. OneWriter'
  BY <1>1 DEF SessionInv, OneWriter
<1>. QED  BY <1>2, <1>3, <1>4, <1>5 DEF SessionInv, RowsOk

-----------------------------------------------------------------------------
LEMMA CreateSteps ==
  ASSUME SessionInv, NEW cited, Create(cited)
  PROVE  /\ SessionInv' /\ open' = open /\ passed' = passed
         /\ \E id : /\ id \notin DOMAIN rows /\ DOMAIN rows' = DOMAIN rows \cup {id}
                    /\ rows'[id] = Fresh /\ \A k \in DOMAIN rows : rows'[k] = rows[k]
<1>. DEFINE n == Cardinality(DOMAIN rows)
<1>1. DOMAIN rows = 1 .. n /\ n \in Nat /\ IsFiniteSet(DOMAIN rows)
  <2>1. IsFiniteSet(DOMAIN rows)
    BY DEF SessionInv, RowsOk
  <2>. QED  BY <2>1, FS_CardinalityType DEF SessionInv, TypeOK
<1>2. n + 1 \notin DOMAIN rows /\ DOMAIN rows' = DOMAIN rows \cup {n + 1}
      /\ rows'[n + 1] = Fresh /\ \A k \in DOMAIN rows : rows'[k] = rows[k]
  BY <1>1 DEF Create, Fresh
<1>3. TypeOK'
  <2>1. DOMAIN rows' = 1 .. (n + 1)
    BY <1>1, <1>2
  <2>2. Cardinality(DOMAIN rows') = n + 1
    BY <1>1, <1>2, FS_AddElement
  <2>3. rows' \in [DOMAIN rows' -> Recommendation]
    BY <1>2, FreshIsRow DEF Create, SessionInv, TypeOK, Fresh
  <2>4. links' \subseteq (DOMAIN rows') \X Analyses
    BY <1>2 DEF Create, SessionInv, TypeOK
  <2>5. open' \in [DOMAIN open' -> [id : DOMAIN rows', num : 1 .. passed', data : Updates,
                                    loaded : Recommendation, version : SUBSET Recommendation]]
    BY <1>2 DEF Create, SessionInv, TypeOK
  <2>. QED  BY <2>1, <2>2, <2>3, <2>4, <2>5 DEF Create, SessionInv, TypeOK
<1>4. RowsOk'
  <2>1. IsFiniteSet(DOMAIN rows')
    BY <1>1, <1>2, FS_AddElement
  <2>. QED  BY <1>2, <2>1 DEF SessionInv, RowsOk, Fresh
<1>5. SessionsResolve'
  <2>. SUFFICES ASSUME NEW h \in DOMAIN open
                PROVE  Resolves(open[h])'
    BY DEF Create, SessionsResolve
  <2>1. open[h].id \in DOMAIN rows /\ Resolves(open[h])
    BY SessionFields DEF SessionInv, SessionsResolve
  <2>. QED  BY <1>2, <2>1 DEF Create, Resolves
<1>. QED  BY <1>2, <1>3, <1>4, <1>5 DEF Create, SessionInv, NumbersDiffer, OneWriter

LEMMA CheckSteps ==
  ASSUME SessionInv, NEW h \in Handlers, NEW id, NEW data \in Updates, Check(h, id, data)
  PROVE  /\ SessionInv' /\ rows' = rows /\ passed' = passed + 1
         /\ h \notin DOMAIN open /\ DOMAIN open' = DOMAIN open \cup {h}
         /\ open'[h].id = id /\ open'[h].num = passed + 1 /\ open'[h].data = data
         /\ rows[id] = Fresh /\ id \in DOMAIN rows
         /\ \A g \in DOMAIN open : open'[g] = open[g] /\ open'[g].num # passed + 1
<1>. DEFINE r == [id |-> id, num |-> passed + 1, data |-> data, loaded |-> rows[id], version |-> {}]
<1>1. rows[id] = Fresh /\ id \in DOMAIN rows /\ rows[id] \in Recommendation
  BY DEF Check, Accepts, SessionInv, RowsOk, TypeOK
<1>2. passed \in Nat /\ passed' = passed + 1 /\ passed' \in passed .. MaxPatches
  BY RecommendationAssumption DEF Check, SessionInv, TypeOK
<1>3. r \in [id : DOMAIN rows, num : 1 .. passed', data : Updates, loaded : Recommendation,
             version : SUBSET Recommendation]
  BY <1>1, <1>2
<1>4. Resolves(r)
  BY <1>1 DEF Resolves, Check, Accepts
<1>5. /\ open' = [g \in DOMAIN open \cup {h} |-> IF g # h THEN open[g] ELSE r]
      /\ links' = links /\ rows' = rows /\ h \notin DOMAIN open
  BY DEF Check
<1>6. \A g \in DOMAIN open : open[g].num # passed + 1
  <2>. TAKE g \in DOMAIN open
  <2>1. open[g].num \in 1 .. passed
    BY SessionFields DEF SessionInv
  <2>. QED  BY <2>1, <1>2
<1>7. r.num = passed + 1 /\ r.id = id /\ r.data = data /\ r.version = {}
  OBVIOUS
<1>. HIDE DEF r
<1>8. SessionInv'
  BY <1>2, <1>3, <1>4, <1>5, <1>6, <1>7, SessionChanges
<1>. QED  BY <1>1, <1>2, <1>5, <1>6, <1>7, <1>8

LEMMA FlushSteps ==
  ASSUME SessionInv, NEW h \in Handlers, Flush(h)
  PROVE  /\ SessionInv' /\ rows' = rows /\ passed' = passed /\ DOMAIN open' = DOMAIN open
         /\ \A g \in DOMAIN open : /\ open'[g].id = open[g].id /\ open'[g].num = open[g].num
                                   /\ open'[g].data = open[g].data
<1>. DEFINE r == [open[h] EXCEPT !.version = {Written(rows[open[h].id], open[h])}]
<1>1. h \in DOMAIN open /\ Resolves(open[h])
  BY DEF Flush, SessionInv, SessionsResolve
<1>2. rows[open[h].id] \in Recommendation /\ Written(rows[open[h].id], open[h]) \in Recommendation
  BY <1>1, SessionFields, WrittenRow DEF SessionInv
<1>3. /\ open[h].id \in DOMAIN rows /\ open[h].num \in 1 .. passed /\ open[h].data \in Updates
      /\ open[h].loaded \in Recommendation
  BY <1>1, SessionFields DEF SessionInv
<1>4. r = [id |-> open[h].id, num |-> open[h].num, data |-> open[h].data,
           loaded |-> open[h].loaded, version |-> {Written(rows[open[h].id], open[h])}]
  <2>1. open[h] = [id |-> open[h].id, num |-> open[h].num, data |-> open[h].data,
                   loaded |-> open[h].loaded, version |-> open[h].version]
    BY <1>1, SessionFields DEF SessionInv
  <2>. QED  BY <2>1
<1>5. /\ r.id = open[h].id /\ r.num = open[h].num /\ r.data = open[h].data
      /\ r.loaded = open[h].loaded /\ r.version = {Written(rows[open[h].id], open[h])}
  BY <1>4
<1>6. r \in [id : DOMAIN rows, num : 1 .. passed, data : Updates, loaded : Recommendation, version : SUBSET Recommendation]
  BY <1>2, <1>3, <1>4
<1>7. Written(rows[r.id], r) = Written(rows[open[h].id], open[h])
  BY <1>5 DEF Written
<1>8. /\ open' = [g \in DOMAIN open \cup {h} |-> IF g # h THEN open[g] ELSE r]
      /\ links' = links /\ rows' = rows /\ passed' = passed
  BY <1>1 DEF Flush
<1>. HIDE DEF r
<1>9. Resolves(r)
  BY <1>1, <1>5, <1>7 DEF Resolves
<1>10. /\ \A g \in DOMAIN open \ {h} : open[g].num # r.num
       /\ \A g \in DOMAIN open \ {h} : open[g].id = r.id => open[g].version = {}
  BY <1>1, <1>5 DEF Flush, SessionInv, NumbersDiffer
<1>11. passed' \in passed .. MaxPatches
  BY <1>8, RecommendationAssumption DEF SessionInv, TypeOK
<1>12. SessionInv'
  BY <1>6, <1>8, <1>9, <1>10, <1>11, SessionChanges
<1>. QED  BY <1>1, <1>5, <1>8, <1>12

LEMMA CommitSteps ==
  ASSUME SessionInv, NEW h \in Handlers, CommitDecision(h)
  PROVE  /\ SessionInv' /\ h \in DOMAIN open /\ DOMAIN open' = DOMAIN open \ {h}
         /\ passed' = passed /\ DOMAIN rows' = DOMAIN rows
         /\ rows'[open[h].id] = Written(rows[open[h].id], open[h])
         /\ \A id \in DOMAIN rows : id # open[h].id => rows'[id] = rows[id]
         /\ \A g \in DOMAIN open' : open'[g] = open[g]
<1>1. h \in DOMAIN open /\ Close(h) /\ links' = links /\ passed' = passed
  BY DEF CommitDecision
<1>2. PICK row \in open[h].version : rows' = [rows EXCEPT ![open[h].id] = row]
  BY DEF CommitDecision
<1>3. row = Written(rows[open[h].id], open[h]) /\ open[h].version # {}
  BY <1>1, <1>2 DEF SessionInv, SessionsResolve, Resolves
<1>4. open[h].id \in DOMAIN rows /\ row \in Recommendation /\ rows[open[h].id] \in Recommendation
  BY <1>1, <1>2, SessionFields DEF SessionInv
<1>5. /\ DOMAIN rows' = DOMAIN rows /\ rows' \in [DOMAIN rows -> Recommendation] /\ rows'[open[h].id] = row
      /\ \A id \in DOMAIN rows : id # open[h].id => rows'[id] = rows[id]
  BY <1>2, <1>4 DEF SessionInv, TypeOK
<1>6. \A g \in DOMAIN open \ {h} : open[g].version # {} => rows'[open[g].id] = rows[open[g].id]
  <2>. TAKE g \in DOMAIN open \ {h}
  <2>1. open[g].version # {} => open[g].id # open[h].id
    BY <1>1, <1>3 DEF SessionInv, OneWriter
  <2>. QED  BY <1>5, <2>1, SessionFields DEF SessionInv
<1>7. TypeOK' /\ SessionsResolve' /\ NumbersDiffer' /\ OneWriter'
  BY <1>1, <1>5, <1>6, SessionCloses
<1>8. RowsOk'
  <2>1. row.status # "PENDING" /\ row.resolved_at # 0
    BY <1>1, <1>3, <1>4, WrittenRow DEF SessionInv, SessionsResolve
  <2>. QED  BY <1>5, <2>1 DEF SessionInv, RowsOk
<1>9. DOMAIN open' = DOMAIN open \ {h} /\ \A g \in DOMAIN open' : open'[g] = open[g]
  BY <1>1 DEF Close
<1>. QED  BY <1>1, <1>3, <1>5, <1>7, <1>8, <1>9 DEF SessionInv

LEMMA CrashSteps ==
  ASSUME SessionInv, NEW h \in Handlers, Crash(h)
  PROVE  /\ SessionInv' /\ rows' = rows /\ passed' = passed /\ DOMAIN open' = DOMAIN open \ {h}
         /\ \A g \in DOMAIN open' : open'[g] = open[g]
<1>1. h \in DOMAIN open /\ Close(h) /\ links' = links /\ passed' = passed /\ rows' = rows
  BY DEF Crash
<1>2. DOMAIN rows' = DOMAIN rows /\ rows' \in [DOMAIN rows -> Recommendation]
  BY <1>1 DEF SessionInv, TypeOK
<1>3. TypeOK' /\ SessionsResolve' /\ NumbersDiffer' /\ OneWriter'
  BY <1>1, <1>2, SessionCloses
<1>4. DOMAIN open' = DOMAIN open \ {h} /\ \A g \in DOMAIN open' : open'[g] = open[g]
  BY <1>1 DEF Close
<1>. QED  BY <1>1, <1>3, <1>4 DEF SessionInv, RowsOk

-----------------------------------------------------------------------------
LEMMA SessionInvInit == Init => SessionInv
<1>. SUFFICES ASSUME Init
              PROVE  SessionInv
  OBVIOUS
<1>1. DOMAIN rows = {} /\ DOMAIN open = {} /\ links = {} /\ passed = 0
  BY DEF Init
<1>2. Cardinality(DOMAIN rows) = 0 /\ IsFiniteSet(DOMAIN rows)
  BY <1>1, FS_EmptySet
<1>3. rows \in [DOMAIN rows -> Recommendation]
  BY <1>1 DEF Init
<1>4. open \in [DOMAIN open -> [id : DOMAIN rows, num : 1 .. passed, data : Updates, loaded : Recommendation,
                                version : SUBSET Recommendation]]
  BY <1>1 DEF Init
<1>5. TypeOK
  BY <1>1, <1>2, <1>3, <1>4, RecommendationAssumption DEF TypeOK
<1>. QED
  BY <1>1, <1>2, <1>5 DEF SessionInv, RowsOk, SessionsResolve, NumbersDiffer, OneWriter

LEMMA SessionInvNext == SessionInv /\ [Next]_vars => SessionInv'
<1>. SUFFICES ASSUME SessionInv, [Next]_vars
              PROVE  SessionInv'
  OBVIOUS
<1>1. ASSUME NEW cited \in Cited, Create(cited)
      PROVE  SessionInv'
  BY <1>1, CreateSteps
<1>2. ASSUME NEW h \in Handlers, NEW id \in 1 .. MaxRows, NEW data \in Updates, Check(h, id, data)
      PROVE  SessionInv'
  BY <1>2, CheckSteps
<1>3. ASSUME NEW h \in Handlers, Flush(h) \/ CommitDecision(h) \/ Crash(h)
      PROVE  SessionInv'
  BY <1>3, FlushSteps, CommitSteps, CrashSteps
<1>4. CASE UNCHANGED vars
  BY <1>4 DEF vars, SessionInv, TypeOK, RowsOk, SessionsResolve, Resolves, NumbersDiffer, OneWriter
<1>. QED  BY <1>1, <1>2, <1>3, <1>4 DEF Next

(* Rows, citations and open sessions keep their types: a recommendation    *)
(* only cites analyses of the user, a session is always of an existing row *)
(* and has a number that was given out.                                    *)
THEOREM RecommendationTypes == Spec => []TypeOK
<1>1. SessionInv => TypeOK
  BY DEF SessionInv
<1>. QED  BY <1>1, SessionInvInit, SessionInvNext, PTL DEF Spec

(* No step of any handler, a commit over a row that another PATCH has      *)
(* resolved in between included, makes a resolved recommendation pending   *)
(* again, and status and resolved_at always change together.               *)
THEOREM ResolutionLasts == Spec => NeverReopened
<1>. DEFINE Kept == \A id \in DOMAIN rows :
                      /\ rows[id].status # "PENDING" => rows'[id].status # "PENDING"
                      /\ rows'[id].status = "PENDING" <=> rows'[id].resolved_at = 0
<1>1. SessionInv /\ [Next]_vars => Kept
  <2>. SUFFICES ASSUME SessionInv, [Next]_vars, NEW id \in DOMAIN rows
                PROVE  /\ rows[id].status # "PENDING" => rows'[id].status # "PENDING"
                       /\ rows'[id].status = "PENDING" <=> rows'[id].resolved_at = 0
    OBVIOUS
  <2>. DEFINE Goal == /\ id \in DOMAIN rows'
                      /\ rows[id].status # "PENDING" => rows'[id].status # "PENDING"
  <2>1. ASSUME NEW cited \in Cited, Create(cited)
        PROVE  Goal
    BY <2>1, CreateSteps
  <2>2. ASSUME NEW h \in Handlers, NEW k \in 1 .. MaxRows, NEW data \in Updates, Check(h, k, data)
        PROVE  Goal
    BY <2>2, CheckSteps
  <2>3. ASSUME NEW h \in Handlers, Flush(h)
        PROVE  Goal
    BY <2>3, FlushSteps
  <2>4. ASSUME NEW h \in Handlers, CommitDecision(h)
        PROVE  Goal
    <3>1. h \in DOMAIN open /\ Resolves(open[h]) /\ rows[open[h].id] \in Recommendation
      BY <2>4, SessionFields DEF CommitDecision, SessionInv, SessionsResolve
    <3>2. Written(rows[open[h].id], open[h]).status # "PENDING"
      BY <3>1, WrittenRow DEF SessionInv
    <3>. QED  BY <2>4, <3>2, CommitSteps
  <2>5. ASSUME NEW h \in Handlers, Crash(h)
        PROVE  Goal
    BY <2>5, CrashSteps
  <2>6. ASSUME UNCHANGED vars
        PROVE  Goal
    BY <2>6 DEF vars
  <2>7. Goal
    BY <2>1, <2>2, <2>3, <2>4, <2>5, <2>6 DEF Next
  <2>8. SessionInv'
    BY SessionInvNext
  <2>9. RowsOk'
    BY <2>8 DEF SessionInv
  <2>. QED  BY <2>7, <2>9, FreshIsRow DEF RowsOk
<1>2. SessionInv /\ [Next]_vars => [Kept]_vars
  BY <1>1
<1>. QED  BY <1>2, SessionInvInit, SessionInvNext, PTL DEF Spec, NeverReopened

-----------------------------------------------------------------------------
(* The first step of a PATCH gives its number a meaning that stays.        *)
LEMMA SaidKept ==
  ASSUME SessionInv, HistoryInv, HistoryNext, passed' \in Nat, passed' >= passed
  PROVE  DOMAIN said' = 1 .. passed' /\ \A n \in 1 .. passed : said'[n] = said[n]
<1>1. passed \in Nat
  BY RecommendationAssumption DEF SessionInv, TypeOK
<1>. QED  BY <1>1 DEF HistoryNext, HistoryInv

LEMMA SaidNew ==
  ASSUME SessionInv, HistoryInv, HistoryNext,
         NEW h \in Handlers, NEW id, NEW data \in Updates, Check(h, id, data)
  PROVE  said'[passed + 1].id = id /\ said'[passed + 1].data = data
<1>1. passed \in Nat /\ passed' = passed + 1
  <2>1. passed \in Nat
    BY RecommendationAssumption DEF SessionInv, TypeOK
  <2>. QED  BY <2>1, CheckSteps
<1>2. \A g \in DOMAIN open' : open'[g].num = passed + 1 => g = h
  <2>1. /\ DOMAIN open' = DOMAIN open \cup {h}
        /\ \A g \in DOMAIN open : open'[g] = open[g] /\ open'[g].num # passed + 1
    BY CheckSteps
  <2>. QED  BY <2>1
<1>3. h \in DOMAIN open' /\ open'[h].num = passed + 1 /\ open'[h].id = id /\ open'[h].data = data
  BY CheckSteps
<1>. DEFINE S == {open'[g] : g \in DOMAIN open'}
            c == CHOOSE r \in S : r.num = passed + 1
<1>4. c \in S /\ c.num = passed + 1
  <2>1. \E r \in S : r.num = passed + 1
    BY <1>3
  <2>. QED  BY <2>1, Zenon
<1>5. c = open'[h]
  BY <1>2, <1>4
<1>6. said'[passed + 1] = c
  <2>1. passed + 1 \in 1 .. passed' /\ passed + 1 \notin DOMAIN said
    BY <1>1 DEF HistoryInv
  <2>2. said' = [n \in 1 .. passed' |->
                  IF n \in DOMAIN said THEN said[n]
                  ELSE CHOOSE r \in {open'[g] : g \in DOMAIN open'} : r.num = n]
    BY DEF HistoryNext
  <2>. QED  BY <2>1, <2>2, Zenon
<1>. QED  BY <1>3, <1>5, <1>6

(* Nobody commits: the history of commits stays.                           *)
LEMMA NoneEnds ==
  ASSUME HistoryNext, \A h \in Handlers : ~Ends(h)
  PROVE  /\ ended' = ended /\ DOMAIN rivals' = DOMAIN rivals
         /\ \A id \in DOMAIN rivals : rivals'[id] = rivals[id]
<1>1. {g \in Handlers : Ends(g)} = {}
  OBVIOUS
<1>. DEFINE first == {open[h].id : h \in {g \in Handlers : Ends(g)}} \ DOMAIN rivals
<1>2. first = {}
  BY <1>1
<1>3. ended' = ended
  BY <1>1 DEF HistoryNext
<1>4. rivals' = [id \in DOMAIN rivals \cup first |->
                   IF id \in first THEN NumbersOn(id) ELSE rivals[id]]
  BY DEF HistoryNext
<1>. QED  BY <1>2, <1>3, <1>4

LEMMA OneEnds ==
  ASSUME HistoryNext, NEW h \in Handlers, Ends(h), \A g \in Handlers \ {h} : ~Ends(g)
  PROVE  /\ ended' = ended \cup {open[h].num}
         /\ DOMAIN rivals' = DOMAIN rivals \cup {open[h].id}
         /\ \A id \in DOMAIN rivals : rivals'[id] = rivals[id]
         /\ open[h].id \notin DOMAIN rivals => rivals'[open[h].id] = NumbersOn(open[h].id)
<1>1. {g \in Handlers : Ends(g)} = {h}
  OBVIOUS
<1>. DEFINE first == {open[g].id : g \in {k \in Handlers : Ends(k)}} \ DOMAIN rivals
<1>2. first = {open[h].id} \ DOMAIN rivals
  BY <1>1
<1>3. ended' = ended \cup {open[h].num}
  BY <1>1 DEF HistoryNext
<1>4. rivals' = [id \in DOMAIN rivals \cup first |->
                   IF id \in first THEN NumbersOn(id) ELSE rivals[id]]
  BY DEF HistoryNext
<1>. QED  BY <1>2, <1>3, <1>4

(* What DecisionIsWhole says of one recommendation.                        *)
WholeAt(id) ==
  rows[id].status # "PENDING" =>
    /\ rows[id].resolved_at \in ended
    /\ said[rows[id].resolved_at].id = id
    /\ said[rows[id].resolved_at].data.status = rows[id].status
    /\ \/ said[rows[id].resolved_at].data.user_comment = rows[id].user_comment
       \/ /\ said[rows[id].resolved_at].data.user_comment = NoComment
          /\ \E n \in ended : said[n].id = id /\ said[n].data.user_comment = rows[id].user_comment

LEMMA WholeEverywhere == DecisionIsWhole <=> \A id \in DOMAIN rows : WholeAt(id)
BY DEF DecisionIsWhole, WholeAt

HInv == SessionInv /\ HistoryInv /\ DecisionIsWhole /\ OnlyRivalsOverwrite

LEMMA WholeStays ==
  ASSUME HistoryInv, NEW id, WholeAt(id), rows'[id] = rows[id], ended \subseteq ended',
         \A n \in 1 .. passed : said'[n] = said[n]
  PROVE  WholeAt(id)'
<1>1. \A n \in ended : said'[n] = said[n] /\ n \in ended'
  BY DEF HistoryInv
<1>. QED  BY <1>1 DEF WholeAt

(* A step that commits nothing and leaves the decided rows as they are.    *)
LEMMA QuietKeeps ==
  ASSUME HInv, HistoryNext, SessionInv', \A h \in Handlers : ~Ends(h),
         passed' \in Nat, passed' >= passed, DOMAIN rows \subseteq DOMAIN rows',
         \A id \in DOMAIN rows : rows'[id] = rows[id],
         \A id \in DOMAIN rows' \ DOMAIN rows : rows'[id].status = "PENDING",
         \A h \in DOMAIN open' :
           /\ said'[open'[h].num].id = open'[h].id /\ said'[open'[h].num].data = open'[h].data
           /\ open'[h].num \notin ended
           /\ open'[h].id \in DOMAIN rivals => open'[h].num \in rivals[open'[h].id]
  PROVE  HInv'
<1>1. /\ ended' = ended /\ DOMAIN rivals' = DOMAIN rivals
      /\ \A id \in DOMAIN rivals : rivals'[id] = rivals[id]
  BY NoneEnds
<1>2. DOMAIN said' = 1 .. passed' /\ \A n \in 1 .. passed : said'[n] = said[n]
  BY SaidKept DEF HInv
<1>3. HistoryInv'
  <2>1. ended' \subseteq 1 .. passed'
    <3>1. passed \in Nat /\ ended \subseteq 1 .. passed
      BY RecommendationAssumption DEF HInv, SessionInv, TypeOK, HistoryInv
    <3>. QED  BY <1>1, <3>1
  <2>2. DOMAIN rivals' = {id \in DOMAIN rows' : rows'[id].status # "PENDING"}
    BY <1>1 DEF HInv, HistoryInv
  <2>. QED  BY <1>1, <1>2, <2>1, <2>2 DEF HistoryInv
<1>4. DecisionIsWhole'
  <2>. SUFFICES ASSUME NEW id \in DOMAIN rows'
                PROVE  WholeAt(id)'
    BY DEF DecisionIsWhole, WholeAt
  <2>1. CASE id \in DOMAIN rows
    <3>1. WholeAt(id)
      BY <2>1, WholeEverywhere DEF HInv
    <3>. QED  BY <1>1, <1>2, <2>1, <3>1, WholeStays DEF HInv
  <2>2. CASE id \notin DOMAIN rows
    BY <2>2 DEF WholeAt
  <2>. QED  BY <2>1, <2>2
<1>5. OnlyRivalsOverwrite'
  BY <1>1 DEF HInv, HistoryInv, OnlyRivalsOverwrite
<1>. QED  BY <1>3, <1>4, <1>5 DEF HInv

(* A commit: the row tells its decision, and those still open on the same  *)
(* recommendation are its rivals.                                          *)
LEMMA CommitKeeps ==
  ASSUME HInv, HistoryNext, NEW h \in Handlers, CommitDecision(h)
  PROVE  HInv'
<1>. DEFINE i == open[h].id
            n == open[h].num
<1>1. SessionInv
  BY DEF HInv
<1>2. /\ SessionInv' /\ h \in DOMAIN open /\ DOMAIN open' = DOMAIN open \ {h}
      /\ passed' = passed /\ DOMAIN rows' = DOMAIN rows
      /\ rows'[i] = Written(rows[i], open[h])
      /\ \A id \in DOMAIN rows : id # i => rows'[id] = rows[id]
      /\ \A g \in DOMAIN open' : open'[g] = open[g]
  BY <1>1, CommitSteps
<1>3. /\ i \in DOMAIN rows /\ n \in 1 .. passed /\ open[h].data \in Updates /\ rows[i] \in Recommendation
      /\ Resolves(open[h])
  BY <1>1, <1>2, SessionFields DEF SessionInv, SessionsResolve
<1>4. /\ rows'[i].status = open[h].data.status /\ rows'[i].resolved_at = n
      /\ rows'[i].user_comment = IF open[h].data.user_comment # NoComment THEN open[h].data.user_comment
                                 ELSE rows[i].user_comment
      /\ open[h].data.status # "PENDING" /\ n # 0
  BY <1>1, <1>2, <1>3, WrittenRow DEF SessionInv
<1>5. said[n].id = i /\ said[n].data = open[h].data /\ n \notin ended
  BY <1>2 DEF HInv, HistoryInv
<1>6. passed \in Nat
  BY <1>1, RecommendationAssumption DEF SessionInv, TypeOK
<1>7. DOMAIN said' = 1 .. passed /\ \A k \in 1 .. passed : said'[k] = said[k]
  <2>1. passed' \in Nat /\ passed' >= passed
    BY <1>2, <1>6
  <2>. QED  BY <1>1, <1>2, <2>1, SaidKept DEF HInv
<1>8. rows'[i] # rows[i]
  <2>1. WholeAt(i)
    BY <1>3, WholeEverywhere DEF HInv
  <2>2. rows[i].status = "PENDING" => rows[i] = Fresh
    BY <1>1, <1>3 DEF SessionInv, RowsOk
  <2>. QED  BY <1>4, <1>5, <2>1, <2>2, FreshIsRow DEF WholeAt
<1>9. Ends(h) /\ \A g \in Handlers \ {h} : ~Ends(g)
  BY <1>2, <1>8 DEF Ends
<1>10. /\ ended' = ended \cup {n} /\ DOMAIN rivals' = DOMAIN rivals \cup {i}
       /\ \A id \in DOMAIN rivals : rivals'[id] = rivals[id]
       /\ i \notin DOMAIN rivals => rivals'[i] = NumbersOn(i)
  BY <1>9, OneEnds
<1>11. \A g \in DOMAIN open : open[g].id \in DOMAIN rivals' => open[g].num \in rivals'[open[g].id]
  <2>. SUFFICES ASSUME NEW g \in DOMAIN open, open[g].id \in DOMAIN rivals'
                PROVE  open[g].num \in rivals'[open[g].id]
    OBVIOUS
  <2>1. CASE open[g].id \in DOMAIN rivals
    BY <1>10, <2>1 DEF HInv, HistoryInv
  <2>2. CASE open[g].id \notin DOMAIN rivals
    <3>1. open[g].id = i /\ rivals'[i] = NumbersOn(i)
      BY <1>10, <2>2
    <3>2. open[g].num \in NumbersOn(i)
      BY <3>1 DEF NumbersOn
    <3>. QED  BY <3>1, <3>2
  <2>. QED  BY <2>1, <2>2
<1>12. HistoryInv'
  <2>1. ended' \subseteq 1 .. passed'
    BY <1>2, <1>3, <1>10 DEF HInv, HistoryInv
  <2>2. \A g \in DOMAIN open' :
          /\ said'[open'[g].num].id = open'[g].id /\ said'[open'[g].num].data = open'[g].data
          /\ open'[g].num \notin ended'
          /\ open'[g].id \in DOMAIN rivals' => open'[g].num \in rivals'[open'[g].id]
    <3>. TAKE g \in DOMAIN open'
    <3>1. g \in DOMAIN open /\ g # h /\ open'[g] = open[g] /\ open[g].num \in 1 .. passed
      <4>1. g \in DOMAIN open /\ g # h /\ open'[g] = open[g]
        BY <1>2
      <4>. QED  BY <1>1, <4>1, SessionFields DEF SessionInv
    <3>2. open[g].num # n /\ open[g].num \notin ended
      BY <1>1, <1>2, <3>1 DEF SessionInv, NumbersDiffer, HInv, HistoryInv
    <3>3. said[open[g].num].id = open[g].id /\ said[open[g].num].data = open[g].data
      BY <3>1 DEF HInv, HistoryInv
    <3>. QED  BY <1>7, <1>10, <1>11, <3>1, <3>2, <3>3
  <2>3. DOMAIN rivals' = {id \in DOMAIN rows' : rows'[id].status # "PENDING"}
    <3>1. rows'[i].status # "PENDING"
      BY <1>4
    <3>. QED  BY <1>2, <1>3, <1>10, <3>1 DEF HInv, HistoryInv
  <2>. QED  BY <1>2, <1>7, <2>1, <2>2, <2>3 DEF HistoryInv
<1>13. DecisionIsWhole'
  <2>. SUFFICES ASSUME NEW id \in DOMAIN rows'
                PROVE  WholeAt(id)'
    BY DEF DecisionIsWhole, WholeAt
  <2>1. CASE id # i
    <3>1. WholeAt(id) /\ rows'[id] = rows[id] /\ ended \subseteq ended'
      BY <1>2, <1>10, <2>1, WholeEverywhere DEF HInv
    <3>. QED  BY <1>7, <3>1, WholeStays DEF HInv
  <2>2. CASE id = i
    <3>1. said'[n].id = i /\ said'[n].data = open[h].data /\ n \in ended'
      BY <1>3, <1>5, <1>7, <1>10
    <3>2. \/ said'[n].data.user_comment = rows'[i].user_comment
          \/ /\ said'[n].data.user_comment = NoComment
             /\ \E k \in ended' : said'[k].id = i /\ said'[k].data.user_comment = rows'[i].user_comment
      <4>1. CASE open[h].data.user_comment # NoComment
        BY <1>4, <3>1, <4>1
      <4>2. CASE open[h].data.user_comment = NoComment /\ rows[i].user_comment = NoComment
        BY <1>4, <3>1, <4>2
      <4>3. CASE open[h].data.user_comment = NoComment /\ rows[i].user_comment # NoComment
        <5>1. WholeAt(i) /\ rows[i].status # "PENDING"
          <6>1. WholeAt(i)
            BY <1>3, WholeEverywhere DEF HInv
          <6>2. Fresh.user_comment = NoComment
            BY DEF Fresh
          <6>. QED  BY <1>1, <1>3, <4>3, <6>1, <6>2 DEF SessionInv, RowsOk
        <5>2. PICK k \in ended : said[k].id = i /\ said[k].data.user_comment = rows[i].user_comment
          BY <5>1 DEF WholeAt
        <5>3. k \in ended' /\ said'[k] = said[k]
          BY <1>7, <1>10 DEF HInv, HistoryInv
        <5>. QED  BY <1>4, <3>1, <4>3, <5>2, <5>3
      <4>. QED  BY <4>1, <4>2, <4>3
    <3>. QED  BY <1>4, <2>2, <3>1, <3>2 DEF WholeAt
  <2>. QED  BY <2>1, <2>2
<1>14. OnlyRivalsOverwrite'
  <2>. SUFFICES ASSUME NEW id \in DOMAIN rows', rows'[id].status # "PENDING"
                PROVE  rows'[id].resolved_at \in rivals'[id]
    BY DEF OnlyRivalsOverwrite
  <2>1. CASE id # i
    BY <1>2, <1>10, <2>1 DEF HInv, HistoryInv, OnlyRivalsOverwrite
  <2>2. CASE id = i
    BY <1>2, <1>4, <1>10, <1>11, <2>2
  <2>. QED  BY <2>1, <2>2
<1>. QED  BY <1>2, <1>12, <1>13, <1>14 DEF HInv

-----------------------------------------------------------------------------
LEMMA HInvInit == HistoryInit => HInv
<1>. SUFFICES ASSUME HistoryInit
              PROVE  HInv
  OBVIOUS
<1>1. SessionInv
  BY SessionInvInit DEF HistoryInit
<1>2. DOMAIN rows = {} /\ DOMAIN open = {} /\ passed = 0 /\ ended = {} /\ DOMAIN said = {}
      /\ DOMAIN rivals = {}
  BY DEF HistoryInit, Init
<1>3. DOMAIN said = 1 .. passed
  BY <1>2
<1>. QED
  BY <1>1, <1>2, <1>3 DEF HInv, HistoryInv, DecisionIsWhole, OnlyRivalsOverwrite

LEMMA HInvNext == HInv /\ [HistoryNext]_<<vars, history>> => HInv'
<1>. SUFFICES ASSUME HInv, [HistoryNext]_<<vars, history>>
              PROVE  HInv'
  OBVIOUS
<1>1. SessionInv /\ passed \in Nat
  BY RecommendationAssumption DEF HInv, SessionInv, TypeOK
<1>2. ASSUME HistoryNext, NEW cited \in Cited, Create(cited)
      PROVE  HInv'
  <2>1. PICK id : /\ SessionInv' /\ open' = open /\ passed' = passed
                  /\ id \notin DOMAIN rows /\ DOMAIN rows' = DOMAIN rows \cup {id}
                  /\ rows'[id] = Fresh /\ \A k \in DOMAIN rows : rows'[k] = rows[k]
    BY <1>1, <1>2, CreateSteps
  <2>2. \A h \in Handlers : ~Ends(h)
    BY <2>1 DEF Ends
  <2>3. \A n \in 1 .. passed : said'[n] = said[n]
    BY <1>1, <1>2, <2>1, SaidKept DEF HInv
  <2>4. \A h \in DOMAIN open' :
          /\ said'[open'[h].num].id = open'[h].id /\ said'[open'[h].num].data = open'[h].data
          /\ open'[h].num \notin ended
          /\ open'[h].id \in DOMAIN rivals => open'[h].num \in rivals[open'[h].id]
    <3>. TAKE h \in DOMAIN open'
    <3>1. h \in DOMAIN open /\ open'[h] = open[h]
      BY <2>1
    <3>2. open[h].num \in 1 .. passed
      BY <1>1, <3>1, SessionFields DEF SessionInv
    <3>. QED  BY <2>3, <3>1, <3>2 DEF HInv, HistoryInv
  <2>. QED  BY <1>1, <1>2, <2>1, <2>2, <2>4, FreshIsRow, QuietKeeps
<1>3. ASSUME HistoryNext, NEW h \in Handlers, NEW id \in 1 .. MaxRows, NEW data \in Updates,
             Check(h, id, data)
      PROVE  HInv'
  <2>1. /\ SessionInv' /\ rows' = rows /\ passed' = passed + 1
        /\ h \notin DOMAIN open /\ DOMAIN open' = DOMAIN open \cup {h}
        /\ open'[h].id = id /\ open'[h].num = passed + 1 /\ open'[h].data = data
        /\ rows[id] = Fresh /\ id \in DOMAIN rows
        /\ \A g \in DOMAIN open : open'[g] = open[g] /\ open'[g].num # passed + 1
    BY <1>1, <1>3, CheckSteps
  <2>2. \A g \in Handlers : ~Ends(g)
    BY <2>1 DEF Ends
  <2>3. \A n \in 1 .. passed : said'[n] = said[n]
    BY <1>1, <1>3, <2>1, SaidKept DEF HInv
  <2>4. said'[passed + 1].id = id /\ said'[passed + 1].data = data
    BY <1>1, <1>3, SaidNew DEF HInv
  <2>5. passed + 1 \notin ended /\ id \notin DOMAIN rivals
    BY <1>1, <2>1, FreshIsRow DEF HInv, HistoryInv
  <2>6. \A g \in DOMAIN open' :
          /\ said'[open'[g].num].id = open'[g].id /\ said'[open'[g].num].data = open'[g].data
          /\ open'[g].num \notin ended
          /\ open'[g].id \in DOMAIN rivals => open'[g].num \in rivals[open'[g].id]
    <3>. TAKE g \in DOMAIN open'
    <3>1. CASE g = h
      BY <2>1, <2>4, <2>5, <3>1
    <3>2. CASE g # h
      <4>1. g \in DOMAIN open /\ open'[g] = open[g]
        BY <2>1, <3>2
      <4>2. open[g].num \in 1 .. passed
        BY <1>1, <4>1, SessionFields DEF SessionInv
      <4>. QED  BY <2>3, <4>1, <4>2 DEF HInv, HistoryInv
    <3>. QED  BY <3>1, <3>2
  <2>7. passed' \in Nat /\ passed' >= passed
    BY <1>1, <2>1
  <2>. QED  BY <1>3, <2>1, <2>2, <2>6, <2>7, QuietKeeps
<1>4. ASSUME HistoryNext, NEW h \in Handlers, Flush(h)
      PROVE  HInv'
  <2>1. /\ SessionInv' /\ rows' = rows /\ passed' = passed /\ DOMAIN open' = DOMAIN open
        /\ \A g \in DOMAIN open : /\ open'[g].id = open[g].id /\ open'[g].num = open[g].num
                                  /\ open'[g].data = open[g].data
    BY <1>1, <1>4, FlushSteps
  <2>2. \A g \in Handlers : ~Ends(g)
    BY <2>1 DEF Ends
  <2>3. \A n \in 1 .. passed : said'[n] = said[n]
    BY <1>1, <1>4, <2>1, SaidKept DEF HInv
  <2>4. \A g \in DOMAIN open' :
          /\ said'[open'[g].num].id = open'[g].id /\ said'[open'[g].num].data = open'[g].data
          /\ open'[g].num \notin ended
          /\ open'[g].id \in DOMAIN rivals => open'[g].num \in rivals[open'[g].id]
    <3>. TAKE g \in DOMAIN open'
    <3>1. g \in DOMAIN open
      BY <2>1
    <3>2. open[g].num \in 1 .. passed
      BY <1>1, <3>1, SessionFields DEF SessionInv
    <3>. QED  BY <2>1, <2>3, <3>1, <3>2 DEF HInv, HistoryInv
  <2>. QED  BY <1>1, <1>4, <2>1, <2>2, <2>4, QuietKeeps
<1>5. ASSUME HistoryNext, NEW h \in Handlers, Crash(h)
      PROVE  HInv'
  <2>1. /\ SessionInv' /\ rows' = rows /\ passed' = passed /\ DOMAIN open' = DOMAIN open \ {h}
        /\ \A g \in DOMAIN open' : open'[g] = open[g]
    BY <1>1, <1>5, CrashSteps
  <2>2. \A g \in Handlers : ~Ends(g)
    BY <2>1 DEF Ends
  <2>3. \A n \in 1 .. passed : said'[n] = said[n]
    BY <1>1, <1>5, <2>1, SaidKept DEF HInv
  <2>4. \A g \in DOMAIN open' :
          /\ said'[open'[g].num].id = open'[g].id /\ said'[open'[g].num].data = open'[g].data
          /\ open'[g].num \notin ended
          /\ open'[g].id \in DOMAIN rivals => open'[g].num \in rivals[open'[g].id]
    <3>. TAKE g \in DOMAIN open'
    <3>1. g \in DOMAIN open /\ open'[g] = open[g]
      BY <2>1
    <3>2. open[g].num \in 1 .. passed
      BY <1>1, <3>1, SessionFields DEF SessionInv
    <3>. QED  BY <2>3, <3>1, <3>2 DEF HInv, HistoryInv
  <2>. QED  BY <1>1, <1>5, <2>1, <2>2, <2>4, QuietKeeps
<1>6. ASSUME UNCHANGED <<vars, history>>
      PROVE  HInv'
  <2>1. /\ rows' = rows /\ links' = links /\ open' = open /\ passed' = passed
        /\ said' = said /\ ended' = ended /\ rivals' = rivals
    BY <1>6 DEF vars, history
  <2>2. TypeOK' /\ RowsOk' /\ SessionsResolve' /\ NumbersDiffer' /\ OneWriter'
    <3>1. TypeOK'
      BY <1>1, <2>1 DEF SessionInv, TypeOK
    <3>2. RowsOk' /\ SessionsResolve'
      BY <1>1, <2>1 DEF SessionInv, RowsOk, SessionsResolve, Resolves
    <3>3. NumbersDiffer' /\ OneWriter'
      BY <1>1, <2>1 DEF SessionInv, NumbersDiffer, OneWriter
    <3>. QED  BY <3>1, <3>2, <3>3
  <2>3. HistoryInv'
    BY <2>1 DEF HInv, HistoryInv
  <2>4. DecisionIsWhole' /\ OnlyRivalsOverwrite'
    BY <2>1 DEF HInv, DecisionIsWhole, OnlyRivalsOverwrite
  <2>. QED  BY <2>2, <2>3, <2>4 DEF HInv, SessionInv
<1>. QED
  BY <1>2, <1>3, <1>4, <1>5, <1>6, CommitKeeps DEF HistoryNext, Next

(* Whatever overlaps, a resolved recommendation shows the decision of one  *)
(* PATCH that committed: its status, its time and, unless it gave none,    *)
(* its comment; a comment kept is one that a committed PATCH gave.         *)
THEOREM DecisionsAreWhole == HistorySpec => []DecisionIsWhole
<1>1. HInv => DecisionIsWhole
  BY DEF HInv
<1>. QED  BY <1>1, HInvInit, HInvNext, PTL DEF HistorySpec

(* Only PATCHes whose session was open when the first decision on a        *)
(* recommendation was committed ever replace it.                           *)
THEOREM RivalsOnly == HistorySpec => []OnlyRivalsOverwrite
<1>1. HInv => OnlyRivalsOverwrite
  BY DEF HInv
<1>. QED  BY <1>1, HInvInit, HInvNext, PTL DEF HistorySpec
=============================================================================
