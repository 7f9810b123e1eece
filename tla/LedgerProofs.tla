------------------------------ MODULE LedgerProofs ----------------------------
(***************************************************************************)
(* The portfolio's ledger, for any number of requests and indices: its     *)
(* types and that no position is empty, at any overlap of any number of    *)
(* handlers; with one handler at a time, that positions match the ledger,  *)
(* that no request fails and that it implements PortfolioBook; and with    *)
(* any number again, what a commit repairs and whom it can harm.           *)
(***************************************************************************)
EXTENDS LedgerRefinement, LedgerOverlap, CalculatorProofs, FiniteSetTheorems

(* The ordered select of an index returns each of its rows once, whatever  *)
(* the table holds; its replay is well-formed.                             *)
(* A finite view of the table: natural row ids and well-formed rows.       *)
IsView(view) ==
  /\ DOMAIN view \subseteq Nat
  /\ IsFiniteSet(DOMAIN view)
  /\ \A id \in DOMAIN view : Amounts(view[id])

(* ORDER BY date, created_at leaves no ties. *)
LEMMA EarlierIsTotal ==
  ASSUME NEW view, IsView(view),
         NEW x \in DOMAIN view, NEW y \in DOMAIN view, NEW z \in DOMAIN view
  PROVE  /\ ~Earlier(view, x, x)
         /\ x # y => Earlier(view, x, y) \/ Earlier(view, y, x)
         /\ Earlier(view, x, y) /\ Earlier(view, y, z) => Earlier(view, x, z)
<1>1. /\ {x, y, z} \subseteq Nat
      /\ {view[x].date, view[y].date, view[z].date} \subseteq Nat
  BY DEF IsView, Amounts
<1>2. QED
  BY <1>1 DEF Earlier

(* Every place of the result is taken by exactly one row: the rank of a    *)
(* row among finitely many is a bijection onto 0 .. n - 1.                 *)
LEMMA PlaceIsTaken ==
  ASSUME NEW view, IsView(view), NEW S \in SUBSET DOMAIN view
  PROVE  /\ Cardinality(S) \in Nat
         /\ \A n \in 1 .. Cardinality(S) :
              \E id \in S : Cardinality({k \in S : Earlier(view, k, id)}) = n - 1
<1> DEFINE Before(id) == {k \in S : Earlier(view, k, id)}
           N == Cardinality(S)
           rank == [id \in S |-> Cardinality(Before(id))]
<1>1. IsFiniteSet(S) /\ N \in Nat
  BY FS_Subset, FS_CardinalityType DEF IsView
<1>2. \A id \in S : IsFiniteSet(Before(id)) /\ Cardinality(Before(id)) \in Nat
  <2>1. TAKE id \in S
  <2>2. Before(id) \in SUBSET S
    OBVIOUS
  <2>3. QED
    BY <1>1, <2>2, FS_Subset, FS_CardinalityType
<1>3. ASSUME NEW x \in S, NEW T \in SUBSET S, Before(x) \cup {x} \subseteq T
      PROVE  Cardinality(Before(x)) < Cardinality(T)
  <2> DEFINE before == Before(x)
  <2>1. x \notin before
    BY EarlierIsTotal
  <2>2. before \cup {x} \in SUBSET T
    BY <1>3
  <2>3. IsFiniteSet(T) /\ IsFiniteSet(before)
    BY <1>1, <1>2, FS_Subset
  <2> HIDE DEF before
  <2>4. /\ Cardinality(before \cup {x}) = Cardinality(before) + 1
        /\ Cardinality(before \cup {x}) <= Cardinality(T)
        /\ Cardinality(before) \in Nat /\ Cardinality(T) \in Nat
    BY <2>1, <2>2, <2>3, FS_AddElement, FS_Subset, FS_CardinalityType
  <2>5. Cardinality(before) < Cardinality(T)
    BY <2>4
  <2>6. QED
    BY <2>5 DEF before
<1>4. \A x \in S : rank[x] \in 0 .. N - 1
  <2>1. TAKE x \in S
  <2>2. Cardinality(Before(x)) < N
    BY <1>3
  <2>3. rank[x] \in Nat /\ rank[x] < N
    BY <1>2, <2>2
  <2> HIDE DEF rank, N
  <2>4. QED
    BY <1>1, <2>3
<1>5. \A x, y \in S : Earlier(view, x, y) => rank[x] < rank[y]
  <2>1. SUFFICES ASSUME NEW x \in S, NEW y \in S, Earlier(view, x, y)
                 PROVE  rank[x] < rank[y]
    OBVIOUS
  <2>2. Before(x) \cup {x} \subseteq Before(y) /\ Before(y) \in SUBSET S
    BY <2>1, EarlierIsTotal
  <2>3. Cardinality(Before(x)) < Cardinality(Before(y))
    BY <1>3, <2>2
  <2>4. QED
    BY <2>3
<1>6. rank \in [S -> 0 .. N - 1]
  BY <1>4
<1> HIDE DEF rank, N
<1>7. \A x, y \in S : rank[x] = rank[y] => x = y
  <2>1. \A x, y \in S : x # y => Earlier(view, x, y) \/ Earlier(view, y, x)
    BY EarlierIsTotal
  <2>2. \A x \in S : rank[x] \in Int
    BY <1>4
  <2>3. QED
    BY <1>5, <2>1, <2>2
<1>8. rank \in Injection(S, 0 .. N - 1)
  BY <1>6, <1>7 DEF Injection, IsInjective
<1>9. IsFiniteSet(0 .. N - 1) /\ Cardinality(0 .. N - 1) = N
  BY <1>1, FS_Interval
<1>10. Cardinality(S) = N
  BY DEF N
<1>11. rank \in Surjection(S, 0 .. N - 1)
  BY <1>8, <1>9, <1>10, FS_Injection
<1>12. \A m \in 0 .. N - 1 : \E id \in S : rank[id] = m
  BY <1>11 DEF Surjection
<1>13. \A n \in 1 .. N : n - 1 \in 0 .. N - 1
  BY <1>1
<1>14. \A n \in 1 .. N : \E id \in S : rank[id] = n - 1
  BY <1>12, <1>13
<1>15. QED
  BY <1>1, <1>14 DEF rank, N

(* The select returns rows of the index, as many as the view holds.        *)
LEMMA InOrderType ==
  ASSUME NEW view, IsView(view), NEW i
  PROVE  /\ InOrder(view, i) \in Seq(RowsOf(view, i))
         /\ Len(InOrder(view, i)) = Cardinality(RowsOf(view, i))
<1> DEFINE S == RowsOf(view, i)
           N == Cardinality(S)
           Place(n, id) == Cardinality({k \in S : Earlier(view, k, id)}) = n - 1
<1>1. S \in SUBSET DOMAIN view
  BY DEF RowsOf
<1>2. N \in Nat /\ \A n \in 1 .. N : \E id \in S : Place(n, id)
  BY <1>1, PlaceIsTaken
<1>3. InOrder(view, i) = [n \in 1 .. N |-> CHOOSE id \in S : Place(n, id)]
  BY DEF InOrder
<1> HIDE DEF S, N, Place
<1>4. InOrder(view, i) \in [1 .. N -> S]
  BY <1>2, <1>3
<1>5. InOrder(view, i) \in Seq(S) /\ Len(InOrder(view, i)) = N
  BY <1>2, <1>4
<1>6. QED
  BY <1>5 DEF S, N

(* Whatever the session holds in memory for some rows, a select's replay   *)
(* is well-formed.                                                         *)
LEMMA SelectedReplayType ==
  ASSUME NEW view, IsView(view), NEW i,
         NEW mem, \A id \in DOMAIN mem : Amounts(mem[id])
  PROVE  Replay(Selected(view, mem, i)) \in Snapshots
<1> DEFINE ids == InOrder(view, i)
           txs == Selected(view, mem, i)
<1>1. ids \in Seq(RowsOf(view, i))
  BY InOrderType
<1>2. txs = [n \in 1 .. Len(ids) |-> IF ids[n] \in DOMAIN mem THEN mem[ids[n]] ELSE view[ids[n]]]
  BY DEF Selected
<1> HIDE DEF ids, txs
<1>3. Len(ids) \in Nat /\ \A n \in 1 .. Len(ids) : ids[n] \in DOMAIN view
  BY <1>1 DEF RowsOf
<1>4. \A n \in 1 .. Len(ids) : Amounts(txs[n])
  BY <1>2, <1>3 DEF IsView
<1>5. Len(txs) = Len(ids)
  BY <1>2, <1>3
<1>6. Replay(txs) \in Snapshots
  BY <1>3, <1>4, <1>5, ReplayType
<1>7. QED
  BY <1>6 DEF txs

(* A session's copy of a row changes nothing when it equals the row.       *)
LEMMA SelectedSame ==
  ASSUME NEW view, NEW i, NEW mem, IsView(view),
         \A id \in DOMAIN mem : id \in RowsOf(view, i) => mem[id] = view[id]
  PROVE  Selected(view, mem, i) = Selected(view, Empty, i)
<1> DEFINE ids == InOrder(view, i)
<1>1. ids \in Seq(RowsOf(view, i))
  BY InOrderType
<1>2. /\ Selected(view, mem, i) =
           [n \in 1 .. Len(ids) |-> IF ids[n] \in DOMAIN mem THEN mem[ids[n]] ELSE view[ids[n]]]
      /\ Selected(view, Empty, i) =
           [n \in 1 .. Len(ids) |-> IF ids[n] \in DOMAIN Empty THEN Empty[ids[n]] ELSE view[ids[n]]]
  BY DEF Selected
<1> HIDE DEF ids
<1>3. \A n \in 1 .. Len(ids) : ids[n] \in RowsOf(view, i)
  BY <1>1
<1>4. DOMAIN Empty = {}
  BY DEF Empty
<1>5. QED
  BY <1>2, <1>3, <1>4

-----------------------------------------------------------------------------
LEMMA OverlayType ==
  ASSUME NEW t, NEW d, NEW K, NEW R, IsTable(t, K, R), IsDelta(d, K, R)
  PROVE  IsTable(Overlay(t, d), K, R)
<1> DEFINE D == {j \in DOMAIN t \cup DOMAIN d : j \in DOMAIN d => d[j] # {}}
           Value(k) == IF k \in DOMAIN d THEN CHOOSE r \in d[k] : TRUE ELSE t[k]
<1>1. Overlay(t, d) = [k \in D |-> Value(k)]
  BY DEF Overlay
<1>2. D \subseteq K
  BY DEF IsTable, IsDelta
<1>3. \A k \in D : Value(k) \in R
  BY DEF IsTable, IsDelta
<1> HIDE DEF D, Value
<1>4. QED
  BY <1>1, <1>2, <1>3 DEF IsTable

LEMMA AmendType ==
  ASSUME NEW row \in Rows, NEW patch, IsPatch(patch, Catalog)
  PROVE  Amend(row, patch) \in Rows
<1> DEFINE Value(f) == IF f \in DOMAIN patch THEN patch[f] ELSE row[f]
<1>1. /\ Value("index_id") \in Catalog
      /\ Value("type") \in {"BUY", "SELL"}
      /\ Value("price") \in Nat \ {0}
      /\ Value("quantity") \in Nat \ {0}
      /\ Value("date") \in Nat
      /\ Value("fees") \in Nat
  BY DEF Rows, Bodies, IsPatch
<1> HIDE DEF Value
<1>2. Amend(row, patch) = [index_id |-> Value("index_id"), type |-> Value("type"),
                           price |-> Value("price"), quantity |-> Value("quantity"),
                           date |-> Value("date"), fees |-> Value("fees")]
  BY DEF Amend, Value
<1>3. QED
  BY <1>1, <1>2 DEF Rows, Bodies

LEMMA StoredType ==
  ASSUME NEW row \in Rows, Insertable(Stored(row))
  PROVE  Stored(row) \in Rows
<1>1. StoredQuantity(row.quantity) \in Nat
  BY StoredQuantityType DEF Rows, Bodies
<1>2. Stored(row).quantity = StoredQuantity(row.quantity)
  BY DEF Stored, Rows, Bodies
<1>3. StoredQuantity(row.quantity) \in Nat \ {0}
  BY <1>1, <1>2 DEF Insertable
<1>4. QED
  BY <1>3 DEF Stored, Rows, Bodies

(* A table of well-formed rows is a view the replay can read.              *)
LEMMA RowsAreView ==
  ASSUME NEW t, NEW n \in Nat, IsTable(t, 1 .. n, Rows)
  PROVE  IsView(t)
<1>1. DOMAIN t \in SUBSET (1 .. n)
  BY DEF IsTable
<1>2. IsFiniteSet(DOMAIN t)
  BY <1>1, FS_Interval, FS_Subset
<1>3. \A id \in DOMAIN t : Amounts(t[id])
  BY DEF IsTable, Rows, Bodies, Amounts
<1>4. QED
  BY <1>1, <1>2, <1>3 DEF IsView

-----------------------------------------------------------------------------
(* Opening, advancing and closing a session keep the others as they are.   *)
LEMMA PutType ==
  ASSUME TypeOK, NEW h \in Handlers, NEW r, SessionOK(r, begun), Put(h, r), UNCHANGED begun
  PROVE  DOMAIN req' \subseteq Handlers /\ (\A g \in DOMAIN req : SessionOK(req[g], begun))'
<1>1. /\ DOMAIN req' = DOMAIN req \cup {h}
      /\ \A g \in DOMAIN req' : req'[g] = IF g = h THEN r ELSE req[g]
  BY DEF Put
<1>2. \A g \in DOMAIN req' : SessionOK(req'[g], begun)
  BY <1>1 DEF TypeOK
<1>3. \A g \in DOMAIN req' : SessionOK(req'[g], begun')
  BY <1>2 DEF SessionOK
<1>4. QED
  BY <1>1, <1>3 DEF TypeOK

LEMMA RollbackType ==
  ASSUME TypeOK, NEW h \in Handlers, NEW how \in Answers, Rollback(h, how)
  PROVE  TypeOK'
<1>1. /\ DOMAIN req' = DOMAIN req \ {h}
      /\ \A g \in DOMAIN req' : req'[g] = req[g]
  BY DEF Rollback, Close
<1>2. \A g \in DOMAIN req' : SessionOK(req'[g], begun')
  BY <1>1 DEF Rollback, TypeOK, SessionOK
<1>3. answer' \in [Handlers -> Answers]
  BY DEF Rollback, Close, TypeOK
<1>4. QED
  BY <1>1, <1>2, <1>3 DEF Rollback, TypeOK, IsTable

LEMMA RefuseType ==
  ASSUME TypeOK, NEW h \in Handlers, NEW how \in Answers, Free(h), Refuse(h, how)
  PROVE  TypeOK'
<1>1. begun' \in 0 .. MaxRequests /\ begun' = begun + 1 /\ begun \in Nat
  BY RequestAssumption DEF TypeOK, Free, Refuse
<1>2. IsTable(ledger, 1 .. begun', Rows)
  BY <1>1 DEF TypeOK, IsTable
<1>3. \A g \in DOMAIN req' : SessionOK(req'[g], begun')
  <2>1. SUFFICES ASSUME NEW g \in DOMAIN req
                 PROVE  SessionOK(req[g], begun')
    BY DEF Refuse
  <2>2. SessionOK(req[g], begun)
    BY DEF TypeOK
  <2>3. QED
    BY <1>1, <2>2 DEF SessionOK
<1>4. answer' \in [Handlers -> Answers]
  BY DEF Refuse, TypeOK
<1>5. QED
  BY <1>1, <1>2, <1>3, <1>4 DEF Refuse, TypeOK

(* A new session, numbered after every request begun before it.            *)
LEMMA OpenType ==
  ASSUME TypeOK, NEW h \in Handlers, Free(h), NEW r, SessionOK(r, begun'),
         Put(h, r), begun' = begun + 1, UNCHANGED <<ledger, positions, answer>>
  PROVE  TypeOK'
<1>1. begun' \in 0 .. MaxRequests /\ begun \in Nat
  BY RequestAssumption DEF TypeOK, Free
<1>2. IsTable(ledger, 1 .. begun', Rows)
  BY <1>1 DEF TypeOK, IsTable
<1>3. /\ DOMAIN req' = DOMAIN req \cup {h}
      /\ \A g \in DOMAIN req' : req'[g] = IF g = h THEN r ELSE req[g]
  BY DEF Put
<1>4. \A g \in DOMAIN req' : SessionOK(req'[g], begun')
  <2>1. SUFFICES ASSUME NEW g \in DOMAIN req'
                 PROVE  SessionOK(req'[g], begun')
    OBVIOUS
  <2>2. CASE g = h
    <3>1. req'[g] = r
      BY <1>3, <2>2
    <3>2. QED
      BY <3>1 DEF SessionOK
  <2>3. CASE g # h
    <3>1. req'[g] = req[g] /\ SessionOK(req[g], begun)
      BY <1>3, <2>3 DEF TypeOK
    <3>2. QED
      BY <1>1, <3>1 DEF SessionOK
  <2>4. QED
    BY <2>2, <2>3
<1>5. QED
  BY <1>1, <1>2, <1>3, <1>4 DEF TypeOK

-----------------------------------------------------------------------------
LEMMA SessionType ==
  ASSUME begun \in Nat, NEW op \in {"create", "update", "delete"}, NEW id \in 1 .. begun + 1,
         NEW obj \in Rows, NEW patch, IsPatch(patch, Catalog), NEW todo \in SUBSET Catalog
  PROVE  SessionOK(Session(op, id, obj, patch, todo), begun + 1)
<1>1. IsDelta(Empty, {id}, Rows) /\ IsDelta(Empty, Catalog, PositionRows)
  BY DEF IsDelta, Empty
<1>2. Flat \in Snapshots
  BY DEF Flat, Snapshots
<1>3. obj.index_id \in Catalog
  BY DEF Rows, Bodies
<1>4. begun + 1 \in 1 .. begun + 1
  OBVIOUS
<1>5. QED
  BY <1>1, <1>2, <1>3, <1>4 DEF SessionOK, Session

LEMMA CreateType ==
  ASSUME TypeOK, NEW h \in Handlers, NEW body \in Payloads, Create(h, body)
  PROVE  TypeOK'
<1>1. Free(h) /\ begun \in Nat
  BY RequestAssumption DEF Create, TypeOK
<1>2. CASE body.index_id \notin Catalog
  BY <1>1, <1>2, RefuseType DEF Create, Answers
<1>3. CASE body.index_id \in Catalog /\ ~Insertable(Stored(body))
  BY <1>1, <1>3, RefuseType DEF Create, Answers
<1>4. CASE body.index_id \in Catalog /\ Insertable(Stored(body))
  <2> DEFINE new == Session("create", begun + 1, body, Empty, {body.index_id})
             delta == [id \in {begun + 1} |-> {Stored(body)}]
             r == [new EXCEPT !.pc = "ledger", !.delta = delta]
  <2>1. body \in Rows
    BY <1>4, RequestAssumption DEF Rows, Bodies
  <2>2. Stored(body) \in Rows
    BY <1>4, <2>1, StoredType
  <2>3. IsPatch(Empty, Catalog)
    BY DEF IsPatch, Empty
  <2>4. SessionOK(new, begun + 1)
    <3>1. begun + 1 \in 1 .. begun + 1
      BY <1>1
    <3>2. {body.index_id} \in SUBSET Catalog
      BY <1>4
    <3>3. QED
      BY <1>1, <2>1, <2>3, <3>1, <3>2, SessionType
  <2>5. IsDelta(delta, {begun + 1}, Rows)
    BY <2>2 DEF IsDelta
  <2>6. new.id = begun + 1
    BY DEF Session
  <2>7. Put(h, r) /\ begun' = begun + 1 /\ UNCHANGED <<ledger, positions, answer>>
    BY <1>4 DEF Create
  <2> HIDE DEF new, delta
  <2>8. SessionOK(r, begun + 1)
    BY <2>4, <2>5, <2>6 DEF SessionOK
  <2> HIDE DEF r
  <2>9. QED
    BY <1>1, <2>7, <2>8, OpenType
<1>5. QED
  BY <1>2, <1>3, <1>4

LEMMA UpdateType ==
  ASSUME TypeOK, NEW h \in Handlers, NEW id \in 1 .. MaxRequests, NEW patch \in Patches,
         Update(h, id, patch)
  PROVE  TypeOK'
<1>1. Free(h) /\ begun \in Nat
  BY RequestAssumption DEF Update, TypeOK
<1> DEFINE absent == id \notin DOMAIN ledger \/ ("index_id" \in DOMAIN patch /\ patch.index_id \notin Catalog)
<1>2. CASE absent
  BY <1>1, <1>2, RefuseType DEF Update, Answers
<1>3. CASE ~absent
  <2> DEFINE old == ledger[id]
             dirty == {f \in DOMAIN patch : patch[f] # old[f]}
             obj == Amend(old, patch)
             changes == [f \in dirty |-> patch[f]]
             new == Session("update", id, obj, changes, Affected(old, obj))
  <2>1. id \in 1 .. begun + 1 /\ old \in Rows
    BY <1>1, <1>3 DEF TypeOK, IsTable
  <2>2. IsPatch(patch, Catalog)
    BY <1>3, RequestAssumption DEF IsPatch
  <2>3. IsPatch(changes, Catalog)
    BY <2>2 DEF IsPatch
  <2>4. obj \in Rows
    BY <2>1, <2>2, AmendType
  <2>5. Affected(old, obj) \in SUBSET Catalog
    BY <2>1, <2>4 DEF Rows, Bodies, Affected
  <2>6. Put(h, new) /\ begun' = begun + 1 /\ UNCHANGED <<ledger, positions, answer>>
    BY <1>3 DEF Update
  <2> HIDE DEF old, dirty, obj, changes
  <2>7. SessionOK(new, begun + 1)
    BY <1>1, <2>1, <2>3, <2>4, <2>5, SessionType
  <2> HIDE DEF new
  <2>8. QED
    BY <1>1, <2>6, <2>7, OpenType
<1>4. QED
  BY <1>2, <1>3

LEMMA DeleteType ==
  ASSUME TypeOK, NEW h \in Handlers, NEW id \in 1 .. MaxRequests, Delete(h, id)
  PROVE  TypeOK'
<1>1. Free(h) /\ begun \in Nat
  BY RequestAssumption DEF Delete, TypeOK
<1>2. CASE id \notin DOMAIN ledger
  BY <1>1, <1>2, RefuseType DEF Delete, Answers
<1>3. CASE id \in DOMAIN ledger
  <2> DEFINE new == Session("delete", id, ledger[id], Empty, {ledger[id].index_id})
  <2>1. id \in 1 .. begun + 1 /\ ledger[id] \in Rows
    BY <1>1, <1>3 DEF TypeOK, IsTable
  <2>2. IsPatch(Empty, Catalog)
    BY DEF IsPatch, Empty
  <2>3. {ledger[id].index_id} \in SUBSET Catalog
    BY <2>1 DEF Rows, Bodies
  <2>4. SessionOK(new, begun + 1)
    BY <1>1, <2>1, <2>2, <2>3, SessionType
  <2>5. Put(h, new) /\ begun' = begun + 1 /\ UNCHANGED <<ledger, positions, answer>>
    BY <1>3 DEF Delete
  <2> HIDE DEF new
  <2>6. QED
    BY <1>1, <2>4, <2>5, OpenType
<1>4. QED
  BY <1>2, <1>3

-----------------------------------------------------------------------------
(* An open session at its place in the request.                            *)
LEMMA OpenSession ==
  ASSUME TypeOK, NEW h \in DOMAIN req
  PROVE  h \in Handlers /\ SessionOK(req[h], begun) /\ begun \in Nat
BY RequestAssumption DEF TypeOK

(* A step that moves one session and leaves the tables alone.              *)
LEMMA MoveType ==
  ASSUME TypeOK, NEW h \in DOMAIN req, NEW r, SessionOK(r, begun),
         Put(h, r), UNCHANGED <<ledger, positions, begun, answer>>
  PROVE  TypeOK'
<1>1. DOMAIN req' \subseteq Handlers /\ (\A g \in DOMAIN req : SessionOK(req[g], begun))'
  BY OpenSession, PutType
<1>2. QED
  BY <1>1 DEF TypeOK, IsTable

LEMMA FlushType ==
  ASSUME TypeOK, NEW h \in DOMAIN req, Flush(h)
  PROVE  TypeOK'
<1> DEFINE r == req[h]
           new == Stored(Amend(ledger[r.id], r.patch))
           Flushed(delta) == /\ Put(h, [r EXCEPT !.pc = "ledger", !.delta = delta])
                             /\ UNCHANGED <<ledger, positions, begun, answer>>
<1>1. SessionOK(r, begun)
  BY OpenSession
<1>2. ASSUME NEW delta, IsDelta(delta, {r.id}, Rows), Flushed(delta)
      PROVE  TypeOK'
  <2> DEFINE s == [r EXCEPT !.pc = "ledger", !.delta = delta]
  <2>1. SessionOK(s, begun)
    BY <1>1, <1>2 DEF SessionOK
  <2>2. Put(h, s) /\ UNCHANGED <<ledger, positions, begun, answer>>
    BY <1>2
  <2> HIDE DEF s
  <2>3. QED
    BY <2>1, <2>2, MoveType
<1>3. \/ Flushed([id \in {r.id} |-> {}])
      \/ Flushed(Empty)
      \/ r.id \in DOMAIN ledger /\ Insertable(new) /\ Flushed([id \in {r.id} |-> {new}])
      \/ Rollback(h, "error")
  BY DEF Flush
<1>4. IsDelta([id \in {r.id} |-> {}], {r.id}, Rows) /\ IsDelta(Empty, {r.id}, Rows)
  BY DEF IsDelta, Empty
<1>5. ASSUME r.id \in DOMAIN ledger, Insertable(new)
      PROVE  IsDelta([id \in {r.id} |-> {new}], {r.id}, Rows)
  <2>1. ledger[r.id] \in Rows /\ IsPatch(r.patch, Catalog)
    BY <1>1, <1>5 DEF TypeOK, IsTable, SessionOK
  <2>2. Amend(ledger[r.id], r.patch) \in Rows
    BY <2>1, AmendType
  <2>3. new \in Rows
    BY <1>5, <2>2, StoredType
  <2> HIDE DEF new
  <2>4. QED
    BY <2>3 DEF IsDelta
<1>6. ASSUME Rollback(h, "error") PROVE TypeOK'
  BY <1>6, OpenSession, RollbackType DEF Answers
<1> HIDE DEF Flushed, new, r
<1>7. QED
  BY <1>2, <1>3, <1>4, <1>5, <1>6

LEMMA SelectLedgerType ==
  ASSUME TypeOK, NEW h \in DOMAIN req, SelectLedger(h)
  PROVE  TypeOK'
<1> DEFINE r == req[h]
           mem == [id \in {r.id} |-> r.obj]
<1>1. SessionOK(r, begun) /\ begun \in Nat
  BY OpenSession
<1>2. PICK i \in r.todo, view \in {Overlay(ledger, r.delta)} :
        \E txs \in {Selected(view, mem, i)} : \E snap \in {Replay(txs)} :
          IF snap.ok
          THEN /\ Put(h, [r EXCEPT !.pc = "position", !.todo = @ \ {i}, !.index = i, !.snap = snap])
               /\ UNCHANGED <<ledger, positions, begun, answer>>
          ELSE Rollback(h, "insufficient")
  BY DEF SelectLedger
<1> DEFINE snap == Replay(Selected(view, mem, i))
           s == [r EXCEPT !.pc = "position", !.todo = @ \ {i}, !.index = i, !.snap = snap]
<1>3. \/ Put(h, s) /\ UNCHANGED <<ledger, positions, begun, answer>>
      \/ Rollback(h, "insufficient")
  BY <1>2
<1>4. snap \in Snapshots
  <2>1. IsDelta(r.delta, 1 .. begun, Rows)
    BY <1>1 DEF SessionOK, IsDelta
  <2>2. IsTable(ledger, 1 .. begun, Rows)
    BY DEF TypeOK
  <2>3. IsView(view)
    BY <1>1, <1>2, <2>1, <2>2, OverlayType, RowsAreView
  <2>4. \A id \in DOMAIN mem : Amounts(mem[id])
    BY <1>1 DEF SessionOK, Rows, Bodies, Amounts
  <2> HIDE DEF mem
  <2>5. QED
    BY <2>3, <2>4, SelectedReplayType
<1> HIDE DEF snap
<1>5. SessionOK(s, begun)
  BY <1>1, <1>2, <1>4 DEF SessionOK
<1> HIDE DEF s
<1>6. QED
  BY <1>3, <1>5, MoveType, OpenSession, RollbackType DEF Answers

LEMMA SelectPositionType ==
  ASSUME TypeOK, NEW h \in DOMAIN req, SelectPosition(h)
  PROVE  TypeOK'
<1> DEFINE rows == {positions[i] : i \in DOMAIN positions \cap {req[h].index}}
           s == [req[h] EXCEPT !.pc = "write", !.loaded = rows]
<1>1. Put(h, s) /\ UNCHANGED <<ledger, positions, begun, answer>>
  BY DEF SelectPosition
<1>2. rows \in SUBSET PositionRows
  BY DEF TypeOK, IsTable
<1> HIDE DEF rows
<1>3. SessionOK(req[h], begun)
  BY OpenSession
<1>4. SessionOK(s, begun)
  BY <1>2, <1>3 DEF SessionOK
<1> HIDE DEF s
<1>5. QED
  BY <1>1, <1>4, MoveType

(* The version a position write puts in the row.                           *)
LEMMA NewVersionType ==
  ASSUME TypeOK, NEW r, SessionOK(r, begun), ~WriteFails(r), Pending(r) \in {"insert", "update"}
  PROVE  NewVersion(r) \in PositionRows
<1> DEFINE Emitted(c) == Pending(r) = "insert" \/ \E row \in r.loaded : c \in NetChanges(r.snap, row)
           Value(c) == IF Emitted(c) THEN Columns(r.snap)[c] ELSE positions[r.index][c]
           pid == IF Pending(r) = "insert" THEN r.num ELSE positions[r.index].pid
<1>1. NewVersion(r) = [pid |-> pid, quantity |-> Value("quantity"),
                       average_cost |-> Value("average_cost"), last_update |-> Value("last_update")]
  BY DEF NewVersion
<1>2. Pending(r) = "insert" \/ positions[r.index] \in PositionRows
  BY DEF WriteFails, OnTarget, TypeOK, IsTable
<1>3. /\ Columns(r.snap).quantity \in Nat
      /\ Columns(r.snap).average_cost \in Nat
      /\ Columns(r.snap).last_update \in Nat
  BY ColumnsType DEF SessionOK
<1>4. pid \in 1 .. MaxRequests
  BY <1>2, RequestAssumption DEF SessionOK, TypeOK, PositionRows
<1>5. Value("quantity") \in Nat /\ Value("average_cost") \in Nat /\ Value("last_update") \in Nat
  BY <1>2, <1>3 DEF PositionRows
<1> HIDE DEF Value, pid
<1>6. QED
  BY <1>1, <1>4, <1>5 DEF PositionRows

(* A position write adds at most that version to the session's delta.      *)
LEMMA PositionWritesDelta ==
  ASSUME NEW r, r.index \in Catalog, NEW R, IsDelta(r.writes, Catalog, R),
         Pending(r) \in {"insert", "update"} => NewVersion(r) \in R
  PROVE  IsDelta(PositionWrites(r), Catalog, R)
<1> DEFINE new == IF Pending(r) = "delete" THEN {} ELSE {NewVersion(r)}
           writes == [i \in DOMAIN r.writes \cup {r.index} |->
                        IF i # r.index THEN r.writes[i]
                        ELSE IF Pending(r) = "delete" THEN {} ELSE {NewVersion(r)}]
<1>1. CASE Pending(r) = "nothing" \/ (Pending(r) = "delete" /\ ~OnTarget(r))
  BY <1>1 DEF PositionWrites
<1>2. CASE ~(Pending(r) = "nothing" \/ (Pending(r) = "delete" /\ ~OnTarget(r)))
  <2>1. PositionWrites(r) = writes
    BY <1>2 DEF PositionWrites
  <2>2. Pending(r) \in {"insert", "update", "delete"}
    BY <1>2 DEF Pending
  <2>3. new = {} \/ \E row \in new : row \in R /\ new = {row}
    BY <2>2
  <2>4. \A i \in DOMAIN writes : writes[i] = IF i = r.index THEN new ELSE r.writes[i]
    OBVIOUS
  <2>5. DOMAIN writes = DOMAIN r.writes \cup {r.index}
    OBVIOUS
  <2> HIDE DEF new, writes
  <2>6. IsDelta(writes, Catalog, R)
    BY <2>3, <2>4, <2>5 DEF IsDelta
  <2>7. QED
    BY <2>1, <2>6
<1>3. QED
  BY <1>1, <1>2

LEMMA PositionWritesType ==
  ASSUME TypeOK, NEW r, SessionOK(r, begun), ~WriteFails(r)
  PROVE  IsDelta(PositionWrites(r), Catalog, PositionRows)
<1>1. r.index \in Catalog /\ IsDelta(r.writes, Catalog, PositionRows)
  BY DEF SessionOK
<1>2. QED
  BY <1>1, NewVersionType, PositionWritesDelta

LEMMA AutoflushType ==
  ASSUME TypeOK, NEW h \in DOMAIN req, Autoflush(h)
  PROVE  TypeOK'
<1> DEFINE writes == PositionWrites(req[h])
           s == [req[h] EXCEPT !.pc = "ledger", !.writes = writes]
<1>1. CASE WriteFails(req[h])
  BY <1>1, OpenSession, RollbackType DEF Autoflush, Answers
<1>2. CASE ~WriteFails(req[h])
  <2>1. Put(h, s) /\ UNCHANGED <<ledger, positions, begun, answer>>
    BY <1>2 DEF Autoflush
  <2>2. IsDelta(writes, Catalog, PositionRows)
    BY <1>2, OpenSession, PositionWritesType
  <2> HIDE DEF writes
  <2>3. SessionOK(req[h], begun)
    BY OpenSession
  <2>4. SessionOK(s, begun)
    BY <2>2, <2>3 DEF SessionOK
  <2> HIDE DEF s
  <2>5. QED
    BY <2>1, <2>4, MoveType
<1>3. QED
  BY <1>1, <1>2

(* What a commit leaves in the two tables.                                 *)
LEMMA CommitTables ==
  ASSUME TypeOK, NEW h \in DOMAIN req, Commit(h), ~WriteFails(req[h])
  PROVE  /\ IsTable(ledger', 1 .. begun, Rows)
         /\ IsTable(positions', Catalog, PositionRows)
         /\ begun' = begun
<1>1. /\ ledger' = Overlay(ledger, req[h].delta)
      /\ positions' = Overlay(positions, PositionWrites(req[h]))
      /\ begun' = begun
  BY DEF Commit
<1>2. IsDelta(req[h].delta, 1 .. begun, Rows)
  BY OpenSession DEF SessionOK, IsDelta
<1>3. IsDelta(PositionWrites(req[h]), Catalog, PositionRows)
  BY OpenSession, PositionWritesType
<1>4. IsTable(ledger, 1 .. begun, Rows) /\ IsTable(positions, Catalog, PositionRows)
  BY DEF TypeOK
<1>5. QED
  BY <1>1, <1>2, <1>3, <1>4, OverlayType

LEMMA CommitType ==
  ASSUME TypeOK, NEW h \in DOMAIN req, Commit(h)
  PROVE  TypeOK'
<1>1. CASE WriteFails(req[h])
  BY <1>1, OpenSession, RollbackType DEF Commit, Answers
<1>2. CASE ~WriteFails(req[h])
  <2> DEFINE s == [req[h] EXCEPT !.pc = "refresh", !.delta = Empty, !.writes = Empty]
  <2>1. /\ IsTable(ledger', 1 .. begun', Rows)
        /\ IsTable(positions', Catalog, PositionRows)
        /\ begun' = begun
    BY <1>2, CommitTables
  <2>2. SessionOK(s, begun)
    <3>1. IsDelta(Empty, {req[h].id}, Rows) /\ IsDelta(Empty, Catalog, PositionRows)
      BY DEF IsDelta, Empty
    <3>2. SessionOK(req[h], begun)
      BY OpenSession
    <3>3. QED
      BY <3>1, <3>2 DEF SessionOK
  <2>3. \/ Close(h, "ok")
        \/ Put(h, s) /\ UNCHANGED answer
    BY <1>2 DEF Commit
  <2> HIDE DEF s
  <2>4. DOMAIN req' \subseteq Handlers /\ (\A g \in DOMAIN req : SessionOK(req[g], begun))'
    <3>1. CASE Close(h, "ok")
      <4>1. /\ DOMAIN req' = DOMAIN req \ {h}
            /\ \A g \in DOMAIN req' : req'[g] = req[g]
        BY <3>1 DEF Close
      <4>2. \A g \in DOMAIN req' : SessionOK(req'[g], begun')
        BY <2>1, <4>1 DEF TypeOK, SessionOK
      <4>3. QED
        BY <4>1, <4>2 DEF TypeOK
    <3>2. CASE Put(h, s)
      BY <2>1, <2>2, <3>2, OpenSession, PutType
    <3>3. QED
      BY <2>3, <3>1, <3>2
  <2>5. answer' \in [Handlers -> Answers]
    BY <2>3 DEF Close, TypeOK, Answers
  <2>6. QED
    BY <2>1, <2>4, <2>5 DEF TypeOK
<1>3. QED
  BY <1>1, <1>2

(* The sessions and the tables stay well-formed, however many handlers     *)
(* interleave: the columns of a racing write, stale copies and rolled back *)
(* deltas included.                                                        *)
LEMMA NextType ==
  ASSUME TypeOK, [Next]_vars
  PROVE  TypeOK'
<1>1. CASE UNCHANGED vars
  BY <1>1 DEF vars, TypeOK, IsTable
<1>2. ASSUME NEW h \in Handlers, Begin(h) PROVE TypeOK'
  BY <1>2, CreateType, UpdateType, DeleteType DEF Begin
<1>3. ASSUME NEW h \in Handlers, Step(h) PROVE TypeOK'
  <2>1. CASE Flush(h)
    BY <2>1, FlushType DEF Flush
  <2>2. CASE SelectLedger(h)
    BY <2>2, SelectLedgerType DEF SelectLedger
  <2>3. CASE SelectPosition(h)
    BY <2>3, SelectPositionType DEF SelectPosition
  <2>4. CASE Autoflush(h)
    BY <2>4, AutoflushType DEF Autoflush, Writing
  <2>5. CASE Commit(h)
    BY <2>5, CommitType DEF Commit, Writing
  <2>6. CASE Refresh(h)
    BY <2>6, OpenSession, RollbackType DEF Refresh, Answers
  <2>7. QED
    BY <1>3, <2>1, <2>2, <2>3, <2>4, <2>5, <2>6 DEF Step
<1>4. ASSUME NEW h \in Handlers, DeadlockVictim(h) \/ Crash(h) PROVE TypeOK'
  BY <1>4, RollbackType DEF DeadlockVictim, Crash, Answers
<1>5. QED
  BY <1>1, <1>2, <1>3, <1>4 DEF Next

(* The tables and sessions of the ledger hold what their schemas say, for  *)
(* any number of handlers, requests, indices and payloads.                 *)
THEOREM TypeCorrect == Spec => []TypeOK
<1>1. Init => TypeOK
  BY RequestAssumption DEF Init, TypeOK, IsTable, Empty, Answers
<1>2. TypeOK /\ [Next]_vars => TypeOK'
  BY NextType
<1>3. QED
  BY <1>1, <1>2, PTL DEF Spec

-----------------------------------------------------------------------------
(* When quantities fit their column no row of positions, committed or      *)
(* waiting for a commit, shows an empty holding.                           *)
HoldingRows == {row \in PositionRows : row.quantity > 0}

HoldingInv ==
  /\ IsTable(positions, Catalog, HoldingRows)
  /\ \A h \in DOMAIN req : IsDelta(req[h].writes, Catalog, HoldingRows)

(* An update of a row that another request has changed meanwhile keeps     *)
(* either that row's quantity or the replayed one: both are positive.      *)
LEMMA NewVersionHolds ==
  ASSUME Grain = 1, TypeOK, HoldingInv, NEW r, SessionOK(r, begun), ~WriteFails(r),
         Pending(r) \in {"insert", "update"}
  PROVE  NewVersion(r) \in HoldingRows
<1>1. NewVersion(r) \in PositionRows
  BY NewVersionType
<1>2. r.snap.quantity \in Nat /\ r.snap.quantity # 0
  BY DEF Pending, SessionOK, Snapshots
<1>3. Columns(r.snap).quantity = r.snap.quantity
  BY <1>2, ExactQuantity DEF Columns
<1>4. Pending(r) = "insert" \/ positions[r.index].quantity > 0
  BY DEF WriteFails, OnTarget, HoldingInv, IsTable, HoldingRows
<1>5. \/ NewVersion(r).quantity = r.snap.quantity
      \/ Pending(r) # "insert" /\ NewVersion(r).quantity = positions[r.index].quantity
  BY <1>3 DEF NewVersion
<1>6. QED
  BY <1>1, <1>2, <1>4, <1>5 DEF HoldingRows

(* What one step does to the position versions of a session.               *)
LEMMA StepWrites ==
  ASSUME TypeOK, [Next]_vars, NEW g \in DOMAIN req'
  PROVE  \/ req'[g].writes = Empty
         \/ g \in DOMAIN req /\ req'[g].writes = req[g].writes
         \/ g \in DOMAIN req /\ ~WriteFails(req[g]) /\ req'[g].writes = PositionWrites(req[g])
<1> DEFINE Fine == \/ req'[g].writes = Empty
                   \/ g \in DOMAIN req /\ req'[g].writes = req[g].writes
                   \/ g \in DOMAIN req /\ ~WriteFails(req[g]) /\ req'[g].writes = PositionWrites(req[g])
<1>1. ASSUME UNCHANGED req PROVE Fine
  BY <1>1
<1>2. ASSUME NEW h, NEW how, Rollback(h, how) PROVE Fine
  BY <1>2 DEF Rollback, Close
<1>3. ASSUME NEW h, NEW how, Refuse(h, how) PROVE Fine
  BY <1>3 DEF Refuse
<1>4. ASSUME NEW h, NEW r, Put(h, r), r.writes = Empty PROVE Fine
  BY <1>4 DEF Put
<1>5. ASSUME NEW h \in DOMAIN req, NEW r, Put(h, r), r.writes = req[h].writes PROVE Fine
  BY <1>5 DEF Put
<1>6. ASSUME NEW h \in DOMAIN req, NEW r, Put(h, r), ~WriteFails(req[h]),
             r.writes = PositionWrites(req[h])
      PROVE  Fine
  BY <1>6 DEF Put
<1> HIDE DEF Fine
<1>7. ASSUME NEW h \in Handlers, Begin(h) PROVE Fine
  <2>1. ASSUME NEW body \in Payloads, Create(h, body) PROVE Fine
    <3>1. [Session("create", begun + 1, body, Empty, {body.index_id}) EXCEPT
             !.pc = "ledger", !.delta = [id \in {begun + 1} |-> {Stored(body)}]].writes = Empty
      BY DEF Session
    <3>2. QED
      BY <1>3, <1>4, <2>1, <3>1 DEF Create
  <2>2. ASSUME NEW id, NEW patch, Update(h, id, patch) PROVE Fine
    <3>1. \A old, p, todo : Session("update", id, old, p, todo).writes = Empty
      BY DEF Session
    <3>2. QED
      BY <1>3, <1>4, <2>2, <3>1 DEF Update
  <2>3. ASSUME NEW id, Delete(h, id) PROVE Fine
    <3>1. \A old, p, todo : Session("delete", id, old, p, todo).writes = Empty
      BY DEF Session
    <3>2. QED
      BY <1>3, <1>4, <2>3, <3>1 DEF Delete
  <2>4. QED
    BY <1>7, <2>1, <2>2, <2>3 DEF Begin
<1>8. ASSUME NEW h \in Handlers, Step(h) PROVE Fine
  <2>1. h \in DOMAIN req
    BY <1>8 DEF Step, Flush, SelectLedger, SelectPosition, Autoflush, Commit, Refresh, Writing
  <2>2. SessionOK(req[h], begun)
    BY <2>1, OpenSession
  <2>3. CASE Flush(h)
    <3>1. \A delta : [req[h] EXCEPT !.pc = "ledger", !.delta = delta].writes = req[h].writes
      BY <2>2 DEF SessionOK
    <3>2. QED
      BY <1>2, <1>5, <2>1, <2>3, <3>1 DEF Flush
  <2>4. CASE SelectLedger(h)
    <3>1. \A i, snap : [req[h] EXCEPT !.pc = "position", !.todo = @ \ {i},
                                      !.index = i, !.snap = snap].writes = req[h].writes
      BY <2>2 DEF SessionOK
    <3>2. QED
      BY <1>2, <1>5, <2>1, <2>4, <3>1 DEF SelectLedger
  <2>5. CASE SelectPosition(h)
    <3>1. \A rows : [req[h] EXCEPT !.pc = "write", !.loaded = rows].writes = req[h].writes
      BY <2>2 DEF SessionOK
    <3>2. QED
      BY <1>5, <2>1, <2>5, <3>1 DEF SelectPosition
  <2>6. CASE Autoflush(h)
    <3>1. \A w : [req[h] EXCEPT !.pc = "ledger", !.writes = w].writes = w
      BY <2>2 DEF SessionOK
    <3>2. QED
      BY <1>2, <1>6, <2>1, <2>6, <3>1 DEF Autoflush
  <2>7. CASE Commit(h)
    <3>1. [req[h] EXCEPT !.pc = "refresh", !.delta = Empty, !.writes = Empty].writes = Empty
      BY <2>2 DEF SessionOK
    <3>2. ASSUME Close(h, "ok") PROVE Fine
      BY <3>2 DEF Close, Fine
    <3>3. QED
      BY <1>2, <1>4, <2>7, <3>1, <3>2 DEF Commit
  <2>8. CASE Refresh(h)
    BY <1>2, <2>8 DEF Refresh
  <2>9. QED
    BY <1>8, <2>3, <2>4, <2>5, <2>6, <2>7, <2>8 DEF Step
<1>9. ASSUME NEW h \in Handlers, DeadlockVictim(h) \/ Crash(h) PROVE Fine
  BY <1>2, <1>9 DEF DeadlockVictim, Crash
<1>10. QED
  BY <1>1, <1>7, <1>8, <1>9 DEF Next, vars, Fine

(* Only a commit changes the positions table, by its own versions.         *)
LEMMA StepPositions ==
  ASSUME [Next]_vars
  PROVE  \/ positions' = positions
         \/ \E h \in DOMAIN req : /\ Commit(h)
                                 /\ ~WriteFails(req[h])
                                 /\ positions' = Overlay(positions, PositionWrites(req[h]))
<1>1. ASSUME NEW h \in Handlers, Begin(h) PROVE positions' = positions
  BY <1>1 DEF Begin, Create, Update, Delete, Refuse
<1>2. ASSUME NEW h \in Handlers, Step(h), ~Commit(h) PROVE positions' = positions
  BY <1>2 DEF Step, Flush, SelectLedger, SelectPosition, Autoflush, Refresh, Rollback
<1>3. ASSUME NEW h \in Handlers, Commit(h)
      PROVE  \/ positions' = positions
             \/ /\ h \in DOMAIN req
                /\ ~WriteFails(req[h])
                /\ positions' = Overlay(positions, PositionWrites(req[h]))
  BY <1>3 DEF Commit, Writing, Rollback
<1>4. ASSUME NEW h \in Handlers, DeadlockVictim(h) \/ Crash(h) PROVE positions' = positions
  BY <1>4 DEF DeadlockVictim, Crash, Rollback
<1>5. QED
  BY <1>1, <1>2, <1>3, <1>4 DEF Next, vars

LEMMA NextHolds ==
  ASSUME Grain = 1, TypeOK, HoldingInv, [Next]_vars
  PROVE  HoldingInv'
<1>1. ASSUME NEW g \in DOMAIN req, ~WriteFails(req[g])
      PROVE  IsDelta(PositionWrites(req[g]), Catalog, HoldingRows)
  <2>1. SessionOK(req[g], begun) /\ req[g].index \in Catalog
    BY OpenSession DEF SessionOK
  <2>2. IsDelta(req[g].writes, Catalog, HoldingRows)
    BY DEF HoldingInv
  <2>3. QED
    BY <1>1, <2>1, <2>2, NewVersionHolds, PositionWritesDelta
<1>2. IsTable(positions', Catalog, HoldingRows)
  <2>1. IsTable(positions, Catalog, HoldingRows)
    BY DEF HoldingInv
  <2>2. QED
    BY <1>1, <2>1, StepPositions, OverlayType
<1>3. ASSUME NEW g \in DOMAIN req'
      PROVE  IsDelta(req'[g].writes, Catalog, HoldingRows)
  <2>1. IsDelta(Empty, Catalog, HoldingRows)
    BY DEF IsDelta, Empty
  <2>2. g \in DOMAIN req => IsDelta(req[g].writes, Catalog, HoldingRows)
    BY DEF HoldingInv
  <2>3. QED
    BY <1>1, <2>1, <2>2, StepWrites
<1>4. QED
  BY <1>2, <1>3 DEF HoldingInv

(* When requests carry no more decimals than the quantity column, no mix   *)
(* of racing requests leaves a position that shows an empty holding, for   *)
(* any number of handlers.                                                 *)
THEOREM NoEmptyPositionHolds ==
  ASSUME Grain = 1
  PROVE  Spec => []NoEmptyPosition
<1>1. Init => HoldingInv
  BY DEF Init, HoldingInv, IsTable, Empty
<1>2. TypeOK /\ HoldingInv /\ [Next]_vars => HoldingInv'
  BY NextHolds
<1>3. HoldingInv => NoEmptyPosition
  BY DEF HoldingInv, NoEmptyPosition, IsTable, HoldingRows
<1>4. QED
  BY <1>1, <1>2, <1>3, TypeCorrect, PTL DEF Spec

-----------------------------------------------------------------------------
(***************************************************************************)
(* One handler at a time: the committed positions are the replay of the    *)
(* committed ledger, and no request fails on a constraint or a stale row.  *)
(***************************************************************************)

(* The indices whose position a session has yet to write.                  *)
Behind(r) == r.todo \cup (IF r.pc \in {"position", "write"} THEN {r.index} ELSE {})

(* Before its flush, an update or delete knows the row as it is, and the   *)
(* index the row is in and the one it moves to are both affected.          *)
Opened(rows, r) ==
  /\ r.delta = Empty /\ r.writes = Empty
  /\ r.op \in {"update", "delete"}
  /\ r.id \in DOMAIN rows
  /\ rows[r.id].index_id \in r.todo
  /\ r.op = "update" => r.obj = Amend(rows[r.id], r.patch) /\ r.obj.index_id \in r.todo

(* Between flush and commit, what the session sees of every index it need  *)
(* not write any more is consistent, and its copy of the row is the row.   *)
Flushed(rows, table, r) ==
  LET view == Overlay(rows, r.delta)
  IN  /\ DOMAIN r.writes \cap Behind(r) = {}
      /\ r.id \in DOMAIN view => view[r.id] = r.obj
      /\ \A i \in Catalog \ Behind(r) : Matches(view, Overlay(table, r.writes), i)

(* What holds of a session, over the committed tables, at each statement.  *)
InStep(rows, table, r) ==
  LET view == Overlay(rows, r.delta)
  IN  /\ r.op # "delete" => r.id \in DOMAIN view
      /\ r.pc = "flush" => Opened(rows, r)
      /\ r.pc \in {"ledger", "position", "write"} => Flushed(rows, table, r)
      /\ r.pc \in {"position", "write"} =>
           r.index \notin r.todo /\ r.snap = ReplayOf(view, r.index) /\ r.snap.ok
      /\ r.pc = "write" => r.loaded = {table[i] : i \in DOMAIN table \cap {r.index}}
      /\ r.pc = "refresh" => r.op # "delete" /\ r.delta = Empty

(* PositionsMatchLedger is not inductive: a commit keeps it only if the    *)
(* session's uncommitted rows and positions already agree.                 *)
SerialInv ==
  /\ PositionsMatchLedger
  /\ NoServerError
  /\ \A h \in DOMAIN req : InStep(ledger, positions, req[h])

-----------------------------------------------------------------------------
(* A table seen through uncommitted changes, row by row.                   *)
LEMMA OverlayAt ==
  ASSUME NEW t, NEW d, NEW k
  PROVE  /\ k \notin DOMAIN d =>
              /\ k \in DOMAIN Overlay(t, d) <=> k \in DOMAIN t
              /\ k \in DOMAIN t => Overlay(t, d)[k] = t[k]
         /\ k \in DOMAIN d /\ d[k] = {} => k \notin DOMAIN Overlay(t, d)
<1> DEFINE D == {j \in DOMAIN t \cup DOMAIN d : j \in DOMAIN d => d[j] # {}}
           Value(j) == IF j \in DOMAIN d THEN CHOOSE r \in d[j] : TRUE ELSE t[j]
<1>1. Overlay(t, d) = [j \in D |-> Value(j)]
  BY DEF Overlay
<1>2. k \in D <=> (k \in DOMAIN t \/ k \in DOMAIN d) /\ (k \in DOMAIN d => d[k] # {})
  OBVIOUS
<1>3. k \notin DOMAIN d => Value(k) = t[k]
  OBVIOUS
<1> HIDE DEF D, Value
<1>4. QED
  BY <1>1, <1>2, <1>3

LEMMA OverlayNew ==
  ASSUME NEW t, NEW d, NEW k \in DOMAIN d, NEW row, d[k] = {row}
  PROVE  k \in DOMAIN Overlay(t, d) /\ Overlay(t, d)[k] = row
BY DEF Overlay

(* What a table holds under a key.                                         *)
RowAt(t, k) == IF k \in DOMAIN t THEN {t[k]} ELSE {}

(* Deltas that agree on a row show the same of it.                         *)
LEMMA OverlayAgrees ==
  ASSUME NEW t, NEW d, NEW e, NEW k, RowAt(d, k) = RowAt(e, k)
  PROVE  RowAt(Overlay(t, d), k) = RowAt(Overlay(t, e), k)
<1> DEFINE Seen(f) == {j \in DOMAIN t \cup DOMAIN f : j \in DOMAIN f => f[j] # {}}
           Version(S) == CHOOSE r \in S : TRUE
           Value(f, j) == IF j \in DOMAIN f THEN Version(f[j]) ELSE t[j]
<1>1. /\ Overlay(t, d) = [j \in Seen(d) |-> Value(d, j)]
      /\ Overlay(t, e) = [j \in Seen(e) |-> Value(e, j)]
  BY DEF Overlay
<1>2. /\ k \in DOMAIN d <=> k \in DOMAIN e
      /\ k \in DOMAIN d => d[k] = e[k]
  BY DEF RowAt
<1>3. k \in Seen(d) <=> k \in Seen(e)
  BY <1>2
<1> HIDE DEF Version
<1>4. Value(d, k) = Value(e, k)
  BY <1>2
<1> HIDE DEF Seen, Value
<1>5. QED
  BY <1>1, <1>3, <1>4 DEF RowAt

(* No uncommitted change, no difference.                                   *)
LEMMA OverlayEmpty ==
  ASSUME NEW t, NEW K, NEW R, IsTable(t, K, R)
  PROVE  Overlay(t, Empty) = t
<1>1. DOMAIN Empty = {}
  BY DEF Empty
<1>2. \A k : k \in DOMAIN Overlay(t, Empty) <=> k \in DOMAIN t
  BY <1>1, OverlayAt
<1>3. \A k \in DOMAIN t : Overlay(t, Empty)[k] = t[k]
  BY <1>1, OverlayAt
<1>4. Overlay(t, Empty) = [k \in DOMAIN Overlay(t, Empty) |-> Overlay(t, Empty)[k]]
  BY DEF Overlay
<1>5. t = [k \in DOMAIN t |-> t[k]]
  BY DEF IsTable
<1>6. QED
  BY <1>2, <1>3, <1>4, <1>5

(* Two views that agree on the rows of an index replay to the same.        *)
LEMMA ReplaySame ==
  ASSUME NEW v, NEW w, NEW i, IsView(v), IsView(w), RowsOf(v, i) = RowsOf(w, i),
         \A id \in RowsOf(v, i) : v[id] = w[id]
  PROVE  ReplayOf(v, i) = ReplayOf(w, i)
<1> DEFINE S == RowsOf(v, i)
<1>1. \A id \in S : {k \in S : Earlier(v, k, id)} = {k \in S : Earlier(w, k, id)}
  BY DEF Earlier
<1>2. InOrder(v, i) = InOrder(w, i)
  <2> DEFINE PlaceV(id) == Cardinality({k \in S : Earlier(v, k, id)})
             PlaceW(id) == Cardinality({k \in S : Earlier(w, k, id)})
  <2>1. \A id \in S : PlaceV(id) = PlaceW(id)
    BY <1>1
  <2>2. /\ InOrder(v, i) = [n \in 1 .. Cardinality(S) |-> CHOOSE id \in S : PlaceV(id) = n - 1]
        /\ InOrder(w, i) = [n \in 1 .. Cardinality(S) |-> CHOOSE id \in S : PlaceW(id) = n - 1]
    BY DEF InOrder
  <2> HIDE DEF S, PlaceV, PlaceW
  <2>3. \A n : (CHOOSE id \in S : PlaceV(id) = n - 1) = (CHOOSE id \in S : PlaceW(id) = n - 1)
    BY <2>1
  <2>4. QED
    BY <2>2, <2>3
<1> DEFINE ids == InOrder(v, i)
<1>3. ids \in Seq(S)
  BY InOrderType
<1>4. DOMAIN Empty = {}
  BY DEF Empty
<1>5. /\ Selected(v, Empty, i) =
           [n \in 1 .. Len(ids) |-> IF ids[n] \in DOMAIN Empty THEN Empty[ids[n]] ELSE v[ids[n]]]
      /\ Selected(w, Empty, i) =
           [n \in 1 .. Len(ids) |-> IF ids[n] \in DOMAIN Empty THEN Empty[ids[n]] ELSE w[ids[n]]]
  BY <1>2 DEF Selected
<1> HIDE DEF ids
<1>6. \A n \in 1 .. Len(ids) : v[ids[n]] = w[ids[n]]
  BY <1>3
<1>7. Selected(v, Empty, i) = Selected(w, Empty, i)
  BY <1>4, <1>5, <1>6
<1>8. QED
  BY <1>7 DEF ReplayOf

(* A change of one row, in neither of its versions on index i, leaves the  *)
(* replay of i alone.                                                      *)
LEMMA UntouchedIndex ==
  ASSUME NEW t, NEW d, NEW id, NEW i, IsView(t), IsView(Overlay(t, d)), DOMAIN d \subseteq {id},
         id \in DOMAIN d => d[id] = {} \/ \E row : d[id] = {row} /\ row.index_id # i,
         id \in DOMAIN d /\ id \in DOMAIN t => t[id].index_id # i
  PROVE  ReplayOf(Overlay(t, d), i) = ReplayOf(t, i)
<1> DEFINE v == Overlay(t, d)
<1>1. \A k : k \notin DOMAIN d =>
        (k \in DOMAIN v <=> k \in DOMAIN t) /\ (k \in DOMAIN t => v[k] = t[k])
  BY OverlayAt
<1>2. \A k \in DOMAIN d : k \notin DOMAIN v \/ v[k].index_id # i
  <2>1. TAKE k \in DOMAIN d
  <2>2. k = id
    OBVIOUS
  <2>3. QED
    BY <2>2, OverlayAt, OverlayNew
<1>3. \A k \in DOMAIN d : k \notin DOMAIN t \/ t[k].index_id # i
  OBVIOUS
<1> HIDE DEF v
<1>4. RowsOf(v, i) = RowsOf(t, i) /\ \A k \in RowsOf(v, i) : v[k] = t[k]
  BY <1>1, <1>2, <1>3 DEF RowsOf
<1>5. IsView(v)
  BY DEF v
<1>6. ReplayOf(v, i) = ReplayOf(t, i)
  BY <1>4, <1>5, ReplaySame
<1>7. QED
  BY <1>6 DEF v

(* What Matches reads of its tables.                                       *)
LEMMA MatchesSame ==
  ASSUME NEW v, NEW w, NEW t, NEW u, NEW i, ReplayOf(v, i) = ReplayOf(w, i),
         RowAt(t, i) = RowAt(u, i), Matches(v, t, i)
  PROVE  Matches(w, u, i)
<1>1. (i \in DOMAIN t <=> i \in DOMAIN u) /\ (i \in DOMAIN t => t[i] = u[i])
  BY DEF RowAt
<1>2. QED
  BY <1>1 DEF Matches

-----------------------------------------------------------------------------
(* The average cost column holds a price that is exact at its scale.       *)
LEMMA ExactAverage ==
  ASSUME NEW a \in Nat, NEW u \in Nat \ {0}
  PROVE  Nearest(a * u, u) = a
<1> DEFINE n == 2 * (a * u) + u
           d == 2 * u
<1>1. n \in Nat /\ d \in Nat \ {0}
  OBVIOUS
<1>2. n = d * a + u /\ u < d
  OBVIOUS
<1>3. \A m, e, x, y \in Nat : m = e * x + y /\ y < e => m \div e = x
  OBVIOUS
<1>4. n \div d = a
  BY <1>1, <1>2, <1>3
<1>5. QED
  BY <1>4 DEF Nearest

(* A column of a loaded position that the snapshot does not really change  *)
(* already holds the snapshot's value.                                     *)
LEMMA UnchangedColumn ==
  ASSUME Grain = 1, NEW s \in Snapshots, NEW row \in PositionRows,
         NEW c \in DOMAIN Columns(s), c \notin NetChanges(s, row)
  PROVE  row[c] = Columns(s)[c]
<1>1. /\ s.quantity \in Nat /\ s.cost \in Nat /\ s.units \in Nat \ {0}
      /\ row.average_cost \in Nat
  BY DEF Snapshots, PositionRows
<1>2. CASE c = "quantity"
  BY <1>1, <1>2, ExactQuantity DEF Columns, NetChanges
<1>3. CASE c = "average_cost"
  <2>1. s.cost * AvgScale = row.average_cost * s.units
    BY <1>3 DEF NetChanges
  <2>2. Nearest(row.average_cost * s.units, s.units) = row.average_cost
    BY <1>1, ExactAverage
  <2>3. Columns(s).average_cost = row.average_cost
    BY <2>1, <2>2 DEF Columns
  <2>4. QED
    BY <1>3, <2>3
<1>4. CASE c = "last_update"
  BY <1>4 DEF Columns, NetChanges
<1>5. QED
  BY <1>2, <1>3, <1>4 DEF Columns

-----------------------------------------------------------------------------
(* A session that loaded the committed position of the index it replayed.  *)
Loaded(r) ==
  /\ SessionOK(r, begun)
  /\ r.loaded = {positions[i] : i \in DOMAIN positions \cap {r.index}}
  /\ r.index \notin DOMAIN r.writes

(* Nobody else moves the row: the write meets neither a duplicate key nor  *)
(* a row that has gone.                                                    *)
LEMMA WriteSucceeds ==
  ASSUME TypeOK, NEW r, Loaded(r)
  PROVE  /\ ~WriteFails(r)
         /\ Pending(r) \in {"update", "delete"} => OnTarget(r)
         /\ Pending(r) = "insert" => r.index \notin DOMAIN positions
<1>1. CASE r.index \in DOMAIN positions
  <2>1. r.loaded = {positions[r.index]}
    BY <1>1 DEF Loaded
  <2>2. OnTarget(r) /\ Pending(r) # "insert"
    BY <1>1, <2>1 DEF OnTarget, Pending
  <2>3. QED
    BY <2>2 DEF WriteFails
<1>2. CASE r.index \notin DOMAIN positions
  <2>1. r.loaded = {}
    BY <1>2 DEF Loaded
  <2>2. Pending(r) \notin {"update", "delete"}
    BY <2>1 DEF Pending
  <2>3. QED
    BY <1>2, <2>2 DEF WriteFails
<1>3. QED
  BY <1>1, <1>2

(* The version written has every column of the snapshot, changed or not.   *)
LEMMA VersionColumns ==
  ASSUME Grain = 1, TypeOK, NEW r, Loaded(r), Pending(r) \in {"insert", "update"},
         NEW c \in DOMAIN Columns(r.snap)
  PROVE  NewVersion(r)[c] = Columns(r.snap)[c]
<1> DEFINE Emitted(x) == Pending(r) = "insert" \/ \E row \in r.loaded : x \in NetChanges(r.snap, row)
           Value(x) == IF Emitted(x) THEN Columns(r.snap)[x] ELSE positions[r.index][x]
<1>1. NewVersion(r)[c] = Value(c)
  <2>1. c \in {"quantity", "average_cost", "last_update"}
    BY DEF Columns
  <2>2. QED
    BY <2>1 DEF NewVersion
<1>2. CASE Emitted(c)
  BY <1>1, <1>2
<1>3. CASE ~Emitted(c)
  <2>1. OnTarget(r)
    BY <1>3, WriteSucceeds
  <2>2. positions[r.index] \in r.loaded /\ positions[r.index] \in PositionRows
    BY <2>1 DEF OnTarget, Loaded, TypeOK, IsTable
  <2>3. c \notin NetChanges(r.snap, positions[r.index])
    BY <1>3, <2>2
  <2>4. r.snap \in Snapshots
    BY DEF Loaded, SessionOK
  <2>5. positions[r.index][c] = Columns(r.snap)[c]
    BY <2>2, <2>3, <2>4, UnchangedColumn
  <2>6. QED
    BY <1>1, <1>3, <2>5
<1>4. QED
  BY <1>2, <1>3

(* After the write the index matches the rows the session sees.            *)
LEMMA WrittenMatches ==
  ASSUME Grain = 1, TypeOK, NEW r, Loaded(r), NEW view,
         r.snap = ReplayOf(view, r.index), r.snap.ok
  PROVE  Matches(view, Overlay(positions, PositionWrites(r)), r.index)
<1> DEFINE i == r.index
           ahead == Overlay(positions, PositionWrites(r))
           Right == /\ i \in DOMAIN ahead <=> r.snap.quantity # 0
                    /\ i \in DOMAIN ahead =>
                         \A c \in DOMAIN Columns(r.snap) : ahead[i][c] = Columns(r.snap)[c]
<1>1. CASE Pending(r) = "nothing"
  <2>1. PositionWrites(r) = r.writes
    BY <1>1 DEF PositionWrites
  <2>2. (i \in DOMAIN ahead <=> i \in DOMAIN positions) /\ (i \in DOMAIN positions => ahead[i] = positions[i])
    BY <2>1, OverlayAt DEF Loaded
  <2>3. i \in DOMAIN positions <=> r.snap.quantity # 0
    BY <1>1 DEF Pending, Loaded
  <2>4. ASSUME i \in DOMAIN positions, NEW c \in DOMAIN Columns(r.snap)
        PROVE  positions[i][c] = Columns(r.snap)[c]
    <3>1. r.loaded = {positions[i]} /\ positions[i] \in PositionRows
      BY <2>4 DEF Loaded, TypeOK, IsTable
    <3>2. NetChanges(r.snap, positions[i]) = {}
      BY <1>1, <2>3, <2>4, <3>1 DEF Pending
    <3>3. r.snap \in Snapshots
      BY DEF Loaded, SessionOK
    <3>4. QED
      BY <3>1, <3>2, <3>3, UnchangedColumn
  <2> HIDE DEF ahead
  <2>5. Right
    BY <2>2, <2>3, <2>4
  <2>6. QED
    BY <2>5 DEF Matches, ahead
<1>2. CASE Pending(r) = "delete"
  <2>1. i \in DOMAIN PositionWrites(r) /\ PositionWrites(r)[i] = {}
    BY <1>2, WriteSucceeds DEF PositionWrites
  <2>2. i \notin DOMAIN ahead
    BY <2>1, OverlayAt
  <2>3. r.snap.quantity = 0
    BY <1>2 DEF Pending
  <2>4. QED
    BY <2>2, <2>3 DEF Matches
<1>3. CASE Pending(r) \in {"insert", "update"}
  <2> DEFINE writes == PositionWrites(r)
             row == NewVersion(r)
  <2>1. i \in DOMAIN writes /\ writes[i] = {row}
    BY <1>3 DEF PositionWrites
  <2>2. i \in DOMAIN ahead /\ ahead[i] = NewVersion(r)
    <3> HIDE DEF writes, row
    <3>1. i \in DOMAIN Overlay(positions, writes) /\ Overlay(positions, writes)[i] = row
      BY <2>1 DEF Overlay
    <3>2. QED
      BY <3>1 DEF writes, row
  <2>3. r.snap.quantity # 0
    BY <1>3 DEF Pending
  <2>4. \A c \in DOMAIN Columns(r.snap) : ahead[i][c] = Columns(r.snap)[c]
    BY <1>3, <2>2, VersionColumns
  <2> HIDE DEF ahead
  <2>5. QED
    BY <2>2, <2>3, <2>4 DEF Matches, ahead
<1>4. QED
  BY <1>1, <1>2, <1>3 DEF Pending

(* The write touches no other index.                                       *)
LEMMA OthersKept ==
  ASSUME NEW r, NEW view, NEW i, i # r.index, Matches(view, Overlay(positions, r.writes), i)
  PROVE  Matches(view, Overlay(positions, PositionWrites(r)), i)
<1> DEFINE written == PositionWrites(r)
<1>1. RowAt(r.writes, i) = RowAt(written, i)
  BY DEF PositionWrites, RowAt
<1> HIDE DEF written
<1>2. RowAt(Overlay(positions, r.writes), i) = RowAt(Overlay(positions, written), i)
  BY <1>1, OverlayAgrees
<1>3. Matches(view, Overlay(positions, written), i)
  BY <1>2, MatchesSame
<1>4. QED
  BY <1>3 DEF written

-----------------------------------------------------------------------------
OneHandler == \A g, h \in Handlers : g = h

(* The only session advances: the tables stay as they are.                 *)
LEMMA PutInv ==
  ASSUME OneHandler, TypeOK, SerialInv, NEW h \in Handlers, NEW s, InStep(ledger, positions, s),
         Put(h, s), UNCHANGED <<ledger, positions, answer>>
  PROVE  SerialInv'
<1>1. \A g \in DOMAIN req' : req'[g] = s
  BY DEF Put, TypeOK, OneHandler
<1>2. \A g \in DOMAIN req' : InStep(ledger', positions', req'[g])
  BY <1>1
<1>3. PositionsMatchLedger'
  BY DEF SerialInv, PositionsMatchLedger
<1>4. NoServerError'
  BY DEF SerialInv, NoServerError
<1>5. QED
  BY <1>2, <1>3, <1>4 DEF SerialInv

(* The only session ends without a commit, and not as a server error.      *)
LEMMA RollbackInv ==
  ASSUME OneHandler, TypeOK, SerialInv, NEW h \in Handlers, NEW how, how # "error",
         Rollback(h, how)
  PROVE  SerialInv'
<1>1. DOMAIN req' = {}
  BY DEF Rollback, Close, TypeOK, OneHandler
<1>2. PositionsMatchLedger'
  BY DEF SerialInv, PositionsMatchLedger, Rollback
<1>3. NoServerError'
  <2>1. \A g \in Handlers : answer'[g] = answer[g] \/ answer'[g] = how
    BY DEF Rollback, Close, TypeOK
  <2>2. QED
    BY <2>1 DEF SerialInv, NoServerError
<1>4. QED
  BY <1>1, <1>2, <1>3 DEF SerialInv

LEMMA RefuseInv ==
  ASSUME TypeOK, SerialInv, NEW h \in Handlers, NEW how, how # "error", Refuse(h, how)
  PROVE  SerialInv'
<1>1. \A g \in Handlers : answer'[g] = answer[g] \/ answer'[g] = how
  BY DEF Refuse, TypeOK
<1>2. NoServerError'
  BY <1>1 DEF SerialInv, NoServerError
<1>3. QED
  BY <1>2 DEF SerialInv, PositionsMatchLedger, Refuse

-----------------------------------------------------------------------------
(* A quantity the column can hold is stored as it is.                      *)
LEMMA StoredSame ==
  ASSUME Grain = 1, NEW row \in Rows
  PROVE  Stored(row) = row /\ Insertable(Stored(row))
<1>1. StoredQuantity(row.quantity) = row.quantity /\ row.quantity > 0
  BY ExactQuantity DEF Rows, Bodies
<1>2. QED
  BY <1>1 DEF Stored, Insertable, Rows, Bodies

(* The two views a session has of the ledger can be replayed.              *)
LEMMA SessionViews ==
  ASSUME NEW n \in Nat, IsTable(ledger, 1 .. n, Rows), NEW delta, IsDelta(delta, 1 .. n, Rows)
  PROVE  IsView(ledger) /\ IsView(Overlay(ledger, delta))
BY OverlayType, RowsAreView

(* An uncommitted change of one row leaves every other index consistent.   *)
LEMMA OthersConsistent ==
  ASSUME TypeOK, PositionsMatchLedger, NEW delta, NEW id,
         IsDelta(delta, {id}, Rows), IsView(ledger), IsView(Overlay(ledger, delta)),
         NEW i \in Catalog,
         id \in DOMAIN delta => \A row \in delta[id] : row.index_id # i,
         id \in DOMAIN delta /\ id \in DOMAIN ledger => ledger[id].index_id # i
  PROVE  Matches(Overlay(ledger, delta), Overlay(positions, Empty), i)
<1> DEFINE view == Overlay(ledger, delta)
<1>1. DOMAIN delta \subseteq {id}
      /\ (id \in DOMAIN delta => delta[id] = {} \/ \E row : delta[id] = {row} /\ row.index_id # i)
  BY DEF IsDelta
<1>2. ReplayOf(view, i) = ReplayOf(ledger, i)
  BY <1>1, UntouchedIndex
<1>3. Overlay(positions, Empty) = positions
  BY OverlayEmpty DEF TypeOK
<1>4. Matches(ledger, positions, i)
  BY DEF PositionsMatchLedger
<1> HIDE DEF view
<1>5. Matches(view, positions, i)
  BY <1>2, <1>4, MatchesSame
<1>6. QED
  BY <1>3, <1>5 DEF view

LEMMA CreateInv ==
  ASSUME Grain = 1, OneHandler, TypeOK, SerialInv, NEW h \in Handlers, NEW body \in Payloads,
         Create(h, body)
  PROVE  SerialInv'
<1>1. CASE body.index_id \notin Catalog
  BY <1>1, RefuseInv DEF Create
<1>2. CASE body.index_id \in Catalog
  <2> DEFINE n == begun + 1
             delta == [id \in {n} |-> {Stored(body)}]
             s == [Session("create", n, body, Empty, {body.index_id}) EXCEPT
                     !.pc = "ledger", !.delta = delta]
             view == Overlay(ledger, delta)
  <2>1. body \in Rows /\ n \in Nat /\ n \notin 1 .. begun
    BY <1>2, RequestAssumption DEF Rows, Bodies, TypeOK
  <2>2. Stored(body) = body /\ Insertable(Stored(body))
    BY <2>1, StoredSame
  <2>3. n \in DOMAIN delta /\ delta[n] = {body} /\ DOMAIN delta = {n}
    BY <2>2
  <2>4. Put(h, s) /\ UNCHANGED <<ledger, positions, answer>>
    BY <1>2, <2>2 DEF Create
  <2>5. /\ s.op = "create" /\ s.pc = "ledger" /\ s.id = n /\ s.obj = body /\ s.delta = delta
        /\ s.writes = Empty /\ s.todo = {body.index_id}
    BY DEF Session
  <2> HIDE DEF n, delta, s
  <2>6. n \in DOMAIN view /\ view[n] = body
    BY <2>3 DEF Overlay
  <2>7. IsView(ledger) /\ IsView(view)
    <3>1. IsTable(ledger, 1 .. n, Rows) /\ IsDelta(delta, 1 .. n, Rows)
      BY <2>1, <2>3, RequestAssumption DEF TypeOK, IsTable, IsDelta, n
    <3>2. QED
      BY <2>1, <3>1, SessionViews
  <2>8. ASSUME NEW i \in Catalog, i # body.index_id
        PROVE  Matches(view, Overlay(positions, Empty), i)
    <3>1. IsDelta(delta, {n}, Rows) /\ n \notin DOMAIN ledger
      BY <2>1, <2>3 DEF IsDelta, TypeOK, IsTable
    <3>2. QED
      BY <2>3, <2>7, <2>8, <3>1, OthersConsistent DEF SerialInv
  <2>9. Flushed(ledger, positions, s)
    BY <2>5, <2>6, <2>8 DEF Flushed, Behind, Empty
  <2>10. InStep(ledger, positions, s)
    BY <2>5, <2>6, <2>9 DEF InStep
  <2>11. QED
    BY <2>4, <2>10, PutInv
<1>3. QED
  BY <1>1, <1>2

(* Assigning only the fields a patch really changes changes as much.       *)
LEMMA AmendDirty ==
  ASSUME NEW row, NEW patch
  PROVE  Amend(row, [f \in {g \in DOMAIN patch : patch[g] # row[g]} |-> patch[f]]) = Amend(row, patch)
BY DEF Amend

LEMMA UpdateInv ==
  ASSUME OneHandler, TypeOK, SerialInv, NEW h \in Handlers, NEW id, NEW patch, Update(h, id, patch)
  PROVE  SerialInv'
<1> DEFINE absent == id \notin DOMAIN ledger \/ ("index_id" \in DOMAIN patch /\ patch.index_id \notin Catalog)
<1>1. CASE absent
  BY <1>1, RefuseInv DEF Update
<1>2. CASE ~absent
  <2> DEFINE old == ledger[id]
             dirty == {f \in DOMAIN patch : patch[f] # old[f]}
             obj == Amend(old, patch)
             changes == [f \in dirty |-> patch[f]]
             todo == Affected(old, obj)
             s == Session("update", id, obj, changes, todo)
  <2>1. Put(h, s) /\ UNCHANGED <<ledger, positions, answer>>
    BY <1>2 DEF Update
  <2>2. obj = Amend(old, changes)
    BY AmendDirty
  <2>3. old.index_id \in todo /\ obj.index_id \in todo
    BY DEF Affected
  <2> HIDE DEF obj, changes, todo
  <2>4. /\ s.op = "update" /\ s.pc = "flush" /\ s.id = id /\ s.obj = obj /\ s.delta = Empty
        /\ s.writes = Empty /\ s.todo = todo /\ s.patch = changes
    BY DEF Session
  <2> HIDE DEF s
  <2>5. id \in DOMAIN Overlay(ledger, Empty)
    BY <1>2, OverlayEmpty DEF TypeOK
  <2>6. InStep(ledger, positions, s)
    BY <1>2, <2>2, <2>3, <2>4, <2>5 DEF InStep, Opened
  <2>7. QED
    BY <2>1, <2>6, PutInv
<1>3. QED
  BY <1>1, <1>2

LEMMA DeleteInv ==
  ASSUME OneHandler, TypeOK, SerialInv, NEW h \in Handlers, NEW id, Delete(h, id)
  PROVE  SerialInv'
<1>1. CASE id \notin DOMAIN ledger
  BY <1>1, RefuseInv DEF Delete
<1>2. CASE id \in DOMAIN ledger
  <2> DEFINE s == Session("delete", id, ledger[id], Empty, {ledger[id].index_id})
  <2>1. Put(h, s) /\ UNCHANGED <<ledger, positions, answer>>
    BY <1>2 DEF Delete
  <2>2. /\ s.op = "delete" /\ s.pc = "flush" /\ s.id = id /\ s.delta = Empty
        /\ s.writes = Empty /\ s.todo = {ledger[id].index_id}
    BY DEF Session
  <2> HIDE DEF s
  <2>3. InStep(ledger, positions, s)
    BY <1>2, <2>2 DEF InStep, Opened
  <2>4. QED
    BY <2>1, <2>3, PutInv
<1>3. QED
  BY <1>1, <1>2

(* The uncommitted row a flush leaves is the session's own copy of it, in  *)
(* an affected index.                                                      *)
RightChange(r, delta) ==
  /\ IsDelta(delta, {r.id}, Rows)
  /\ r.id \in DOMAIN delta => \A row \in delta[r.id] : row.index_id \in r.todo
  /\ r.op # "delete" => r.id \in DOMAIN Overlay(ledger, delta)
  /\ r.id \in DOMAIN Overlay(ledger, delta) => Overlay(ledger, delta)[r.id] = r.obj

LEMMA FlushedInv ==
  ASSUME OneHandler, TypeOK, SerialInv, NEW h \in Handlers, h \in DOMAIN req,
         req[h].pc = "flush", NEW delta, RightChange(req[h], delta),
         Put(h, [req[h] EXCEPT !.pc = "ledger", !.delta = delta]),
         UNCHANGED <<ledger, positions, answer>>
  PROVE  SerialInv'
<1> DEFINE r == req[h]
           s == [r EXCEPT !.pc = "ledger", !.delta = delta]
           view == Overlay(ledger, delta)
<1>1. SessionOK(r, begun) /\ begun \in Nat
  BY OpenSession
<1>2. /\ s.op = r.op /\ s.pc = "ledger" /\ s.id = r.id /\ s.obj = r.obj /\ s.delta = delta
      /\ s.writes = r.writes /\ s.todo = r.todo
  BY <1>1 DEF SessionOK
<1>3. Opened(ledger, r)
  BY DEF SerialInv, InStep
<1>4. IsView(ledger) /\ IsView(view)
  <2>1. IsDelta(delta, 1 .. begun, Rows)
    BY <1>1 DEF RightChange, IsDelta, SessionOK
  <2>2. IsTable(ledger, 1 .. begun, Rows)
    BY DEF TypeOK
  <2>3. QED
    BY <1>1, <2>1, <2>2, SessionViews
<1>5. ASSUME NEW i \in Catalog \ r.todo
      PROVE  Matches(view, Overlay(positions, Empty), i)
  <2>1. r.id \in DOMAIN delta => \A row \in delta[r.id] : row.index_id # i
    BY DEF RightChange
  <2>2. ledger[r.id].index_id # i
    BY <1>3 DEF Opened
  <2>3. PositionsMatchLedger
    BY DEF SerialInv
  <2>4. QED
    BY <1>4, <2>1, <2>2, <2>3, OthersConsistent DEF RightChange
<1> HIDE DEF s
<1>6. Flushed(ledger, positions, s)
  BY <1>2, <1>3, <1>5 DEF Flushed, Behind, Opened, Empty, RightChange
<1>7. InStep(ledger, positions, s)
  BY <1>2, <1>6 DEF InStep, RightChange
<1>8. QED
  BY <1>7, PutInv DEF s

LEMMA AmendNothing ==
  ASSUME NEW row \in Rows
  PROVE  Amend(row, Empty) = row
BY DEF Amend, Empty, Rows, Bodies

(* A session that knows the row flushes the change it means to make.       *)
LEMMA FlushChange ==
  ASSUME Grain = 1, TypeOK, NEW h \in Handlers, Flush(h), Opened(ledger, req[h])
  PROVE  \E delta : /\ RightChange(req[h], delta)
                    /\ Put(h, [req[h] EXCEPT !.pc = "ledger", !.delta = delta])
                    /\ UNCHANGED <<ledger, positions, begun, answer>>
<1> DEFINE r == req[h]
           new == Stored(Amend(ledger[r.id], r.patch))
           Goes(delta) == /\ Put(h, [r EXCEPT !.pc = "ledger", !.delta = delta])
                          /\ UNCHANGED <<ledger, positions, begun, answer>>
<1>1. h \in DOMAIN req /\ r.pc = "flush" /\ SessionOK(r, begun) /\ Opened(ledger, r)
  BY OpenSession DEF Flush
<1>2. r.obj \in Rows /\ ledger[r.id] \in Rows /\ r.id \in DOMAIN ledger
  BY <1>1 DEF SessionOK, Opened, TypeOK, IsTable
<1>3. CASE r.op = "delete"
  <2> DEFINE delta == [id \in {r.id} |-> {}]
  <2>1. r.id \notin DOMAIN Overlay(ledger, delta)
    BY DEF Overlay
  <2>2. DOMAIN delta = {r.id} /\ delta[r.id] = {} /\ Goes(delta)
    BY <1>3 DEF Flush
  <2> HIDE DEF delta
  <2>3. RightChange(r, delta)
    BY <1>3, <2>1, <2>2 DEF IsDelta, RightChange
  <2>4. QED
    BY <2>2, <2>3
<1>4. CASE r.op = "update" /\ r.patch = Empty
  <2>1. r.obj = ledger[r.id]
    BY <1>1, <1>2, <1>4, AmendNothing DEF Opened
  <2>2. Overlay(ledger, Empty) = ledger
    BY OverlayEmpty DEF TypeOK
  <2>3. Goes(Empty)
    BY <1>4 DEF Flush
  <2>4. DOMAIN Empty = {}
    BY DEF Empty
  <2>5. RightChange(r, Empty)
    BY <1>2, <2>1, <2>2, <2>4 DEF IsDelta, RightChange
  <2>6. QED
    BY <2>3, <2>5
<1>5. CASE r.op = "update" /\ r.patch # Empty
  <2> DEFINE delta == [id \in {r.id} |-> {new}]
  <2>1. new = r.obj /\ Insertable(new) /\ r.obj.index_id \in r.todo
    BY <1>1, <1>2, <1>5, StoredSame DEF Opened
  <2>2. Goes(delta)
    BY <1>2, <1>5, <2>1 DEF Flush
  <2>3. DOMAIN delta = {r.id} /\ delta[r.id] = {r.obj}
    BY <2>1
  <2> HIDE DEF delta
  <2>4. r.id \in DOMAIN Overlay(ledger, delta) /\ Overlay(ledger, delta)[r.id] = r.obj
    BY <2>3 DEF Overlay
  <2>5. RightChange(r, delta)
    BY <1>2, <2>1, <2>3, <2>4 DEF IsDelta, RightChange
  <2>6. QED
    BY <2>2, <2>5
<1>6. QED
  BY <1>1, <1>3, <1>4, <1>5 DEF Opened

LEMMA FlushInv ==
  ASSUME Grain = 1, OneHandler, TypeOK, SerialInv, NEW h \in Handlers, Flush(h)
  PROVE  SerialInv'
<1>1. h \in DOMAIN req /\ req[h].pc = "flush" /\ Opened(ledger, req[h])
  BY DEF Flush, SerialInv, InStep
<1>2. PICK delta : /\ RightChange(req[h], delta)
                   /\ Put(h, [req[h] EXCEPT !.pc = "ledger", !.delta = delta])
                   /\ UNCHANGED <<ledger, positions, begun, answer>>
  BY <1>1, FlushChange
<1>3. QED
  BY <1>1, <1>2, FlushedInv

LEMMA SelectLedgerInv ==
  ASSUME OneHandler, TypeOK, SerialInv, NEW h \in Handlers, SelectLedger(h)
  PROVE  SerialInv'
<1> DEFINE r == req[h]
           mem == [id \in {r.id} |-> r.obj]
           view == Overlay(ledger, r.delta)
<1>1. /\ h \in DOMAIN req /\ r.pc = "ledger" /\ SessionOK(r, begun) /\ begun \in Nat
      /\ InStep(ledger, positions, r) /\ Flushed(ledger, positions, r)
  BY OpenSession DEF SelectLedger, SerialInv, InStep
<1>2. PICK i \in r.todo : \E txs \in {Selected(view, mem, i)} : \E snap \in {Replay(txs)} :
        IF snap.ok
        THEN /\ Put(h, [r EXCEPT !.pc = "position", !.todo = @ \ {i}, !.index = i, !.snap = snap])
             /\ UNCHANGED <<ledger, positions, begun, answer>>
        ELSE Rollback(h, "insufficient")
  BY DEF SelectLedger
<1> DEFINE snap == Replay(Selected(view, mem, i))
           s == [r EXCEPT !.pc = "position", !.todo = @ \ {i}, !.index = i, !.snap = snap]
<1>3. \/ snap.ok /\ Put(h, s) /\ UNCHANGED <<ledger, positions, answer>>
      \/ Rollback(h, "insufficient")
  BY <1>2
<1>4. snap = ReplayOf(view, i)
  <2>1. IsDelta(r.delta, 1 .. begun, Rows)
    BY <1>1 DEF IsDelta, SessionOK
  <2>2. IsView(view)
    BY <1>1, <2>1, SessionViews DEF TypeOK
  <2>3. \A id \in DOMAIN mem : id \in RowsOf(view, i) => mem[id] = view[id]
    BY <1>1 DEF Flushed, RowsOf
  <2> HIDE DEF mem, view
  <2>4. Selected(view, mem, i) = Selected(view, Empty, i)
    BY <2>2, <2>3, SelectedSame
  <2>5. QED
    BY <2>4 DEF ReplayOf
<1> HIDE DEF snap
<1>5. /\ s.op = r.op /\ s.pc = "position" /\ s.id = r.id /\ s.obj = r.obj /\ s.delta = r.delta
      /\ s.writes = r.writes /\ s.todo = r.todo \ {i} /\ s.index = i /\ s.snap = snap
  BY <1>1 DEF SessionOK
<1> HIDE DEF s
<1>6. Behind(s) = Behind(r)
  BY <1>1, <1>2, <1>5 DEF Behind
<1>7. Flushed(ledger, positions, s)
  BY <1>1, <1>5, <1>6 DEF Flushed
<1>8. snap.ok => InStep(ledger, positions, s)
  BY <1>1, <1>4, <1>5, <1>7 DEF InStep
<1>9. QED
  BY <1>3, <1>8, PutInv, RollbackInv

LEMMA SelectPositionInv ==
  ASSUME OneHandler, TypeOK, SerialInv, NEW h \in Handlers, SelectPosition(h)
  PROVE  SerialInv'
<1> DEFINE r == req[h]
           rows == {positions[i] : i \in DOMAIN positions \cap {r.index}}
           s == [r EXCEPT !.pc = "write", !.loaded = rows]
<1>1. /\ h \in DOMAIN req /\ r.pc = "position" /\ SessionOK(r, begun)
      /\ InStep(ledger, positions, r) /\ Flushed(ledger, positions, r)
  BY OpenSession DEF SelectPosition, SerialInv, InStep
<1>2. Put(h, s) /\ UNCHANGED <<ledger, positions, answer>>
  BY DEF SelectPosition
<1>3. /\ s.op = r.op /\ s.pc = "write" /\ s.id = r.id /\ s.obj = r.obj /\ s.delta = r.delta
      /\ s.writes = r.writes /\ s.todo = r.todo /\ s.index = r.index /\ s.snap = r.snap
      /\ s.loaded = rows
  BY <1>1 DEF SessionOK
<1> HIDE DEF s
<1>4. Behind(s) = Behind(r)
  BY <1>1, <1>3 DEF Behind
<1>5. Flushed(ledger, positions, s)
  BY <1>1, <1>3, <1>4 DEF Flushed
<1>6. InStep(ledger, positions, s)
  BY <1>1, <1>3, <1>5 DEF InStep
<1>7. QED
  BY <1>2, <1>6, PutInv

(* A write brings the index at hand to what the session sees of it.        *)
LEMMA WriteInv ==
  ASSUME Grain = 1, TypeOK, SerialInv, NEW h \in DOMAIN req, req[h].pc = "write"
  PROVE  /\ ~WriteFails(req[h])
         /\ DOMAIN PositionWrites(req[h]) \cap req[h].todo = {}
         /\ \A i \in Catalog \ req[h].todo :
              Matches(Overlay(ledger, req[h].delta), Overlay(positions, PositionWrites(req[h])), i)
<1> DEFINE r == req[h]
           view == Overlay(ledger, r.delta)
           Right(i) == Matches(view, Overlay(positions, PositionWrites(r)), i)
<1>1. /\ SessionOK(r, begun) /\ InStep(ledger, positions, r) /\ Flushed(ledger, positions, r)
      /\ r.snap = ReplayOf(view, r.index) /\ r.snap.ok /\ r.index \notin r.todo
  BY OpenSession DEF SerialInv, InStep
<1>2. Behind(r) = r.todo \cup {r.index}
  BY DEF Behind
<1>3. Loaded(r)
  BY <1>1, <1>2 DEF Loaded, InStep, Flushed
<1>4. ~WriteFails(r)
  BY <1>3, WriteSucceeds
<1>5. DOMAIN PositionWrites(r) \cap r.todo = {}
  <2>1. DOMAIN r.writes \cap r.todo = {}
    BY <1>1, <1>2 DEF Flushed
  <2>2. DOMAIN PositionWrites(r) \subseteq DOMAIN r.writes \cup {r.index}
    BY DEF PositionWrites
  <2>3. QED
    BY <1>1, <2>1, <2>2
<1>6. Right(r.index)
  BY <1>1, <1>3, WrittenMatches
<1>7. ASSUME NEW i \in Catalog \ Behind(r) PROVE Right(i)
  <2>1. Matches(view, Overlay(positions, r.writes), i) /\ i # r.index
    BY <1>1, <1>2 DEF Flushed
  <2> HIDE DEF view
  <2>2. QED
    BY <2>1, OthersKept
<1> HIDE DEF Right
<1>8. \A i \in Catalog \ r.todo : Right(i)
  BY <1>2, <1>6, <1>7
<1>9. QED
  BY <1>4, <1>5, <1>8 DEF Right

LEMMA AutoflushInv ==
  ASSUME Grain = 1, OneHandler, TypeOK, SerialInv, NEW h \in Handlers, Autoflush(h)
  PROVE  SerialInv'
<1> DEFINE r == req[h]
           writes == PositionWrites(r)
           s == [r EXCEPT !.pc = "ledger", !.writes = writes]
           view == Overlay(ledger, r.delta)
<1>1. /\ h \in DOMAIN req /\ r.pc = "write" /\ SessionOK(r, begun)
      /\ InStep(ledger, positions, r) /\ Flushed(ledger, positions, r)
  BY OpenSession DEF Autoflush, Writing, SerialInv, InStep
<1>2. /\ ~WriteFails(r) /\ DOMAIN writes \cap r.todo = {}
      /\ \A i \in Catalog \ r.todo : Matches(view, Overlay(positions, writes), i)
  BY <1>1, WriteInv
<1>3. Put(h, s) /\ UNCHANGED <<ledger, positions, answer>>
  BY <1>2 DEF Autoflush
<1> HIDE DEF writes
<1>4. /\ s.op = r.op /\ s.pc = "ledger" /\ s.id = r.id /\ s.obj = r.obj /\ s.delta = r.delta
      /\ s.writes = writes /\ s.todo = r.todo
  BY <1>1 DEF SessionOK
<1> HIDE DEF s
<1>5. Behind(s) = r.todo
  BY <1>4 DEF Behind
<1>6. Flushed(ledger, positions, s)
  BY <1>1, <1>2, <1>4, <1>5 DEF Flushed
<1>7. InStep(ledger, positions, s)
  BY <1>1, <1>4, <1>6 DEF InStep
<1>8. QED
  BY <1>3, <1>7, PutInv

LEMMA CommitInv ==
  ASSUME Grain = 1, OneHandler, TypeOK, SerialInv, NEW h \in Handlers, Commit(h)
  PROVE  SerialInv'
<1> DEFINE r == req[h]
           s == [r EXCEPT !.pc = "refresh", !.delta = Empty, !.writes = Empty]
           view == Overlay(ledger, r.delta)
           ahead == Overlay(positions, PositionWrites(r))
<1>1. /\ h \in DOMAIN req /\ r.pc = "write" /\ SessionOK(r, begun) /\ r.todo = {}
      /\ InStep(ledger, positions, r)
  BY OpenSession DEF Commit, Writing, SerialInv
<1>2. ~WriteFails(r) /\ \A i \in Catalog : Matches(view, ahead, i)
  BY <1>1, WriteInv
<1>3. ledger' = view /\ positions' = ahead
  BY <1>2 DEF Commit
<1> HIDE DEF ahead, view
<1>4. PositionsMatchLedger'
  BY <1>2, <1>3 DEF PositionsMatchLedger
<1>5. CASE r.op = "delete"
  <2>1. Close(h, "ok")
    BY <1>2, <1>5 DEF Commit
  <2>2. DOMAIN req' = {}
    BY <2>1 DEF Close, TypeOK, OneHandler
  <2>3. NoServerError'
    BY <2>1 DEF Close, TypeOK, SerialInv, NoServerError
  <2>4. QED
    BY <1>4, <2>2, <2>3 DEF SerialInv
<1>6. CASE r.op # "delete"
  <2>1. Put(h, s) /\ UNCHANGED answer
    BY <1>2, <1>6 DEF Commit
  <2>2. s.op = r.op /\ s.pc = "refresh" /\ s.id = r.id /\ s.delta = Empty
    BY <1>1 DEF SessionOK
  <2> HIDE DEF s
  <2>3. r.id \in DOMAIN view
    BY <1>1, <1>6 DEF InStep, view
  <2>4. Overlay(view, Empty) = view
    <3>1. IsDelta(r.delta, 1 .. begun, Rows)
      BY <1>1 DEF IsDelta, SessionOK
    <3>2. IsTable(view, 1 .. begun, Rows)
      BY <3>1, OverlayType DEF TypeOK, view
    <3>3. QED
      BY <3>2, OverlayEmpty
  <2>5. InStep(view, ahead, s)
    BY <1>6, <2>2, <2>3, <2>4 DEF InStep
  <2>6. \A g \in DOMAIN req' : req'[g] = s
    BY <2>1 DEF Put, TypeOK, OneHandler
  <2>7. \A g \in DOMAIN req' : InStep(ledger', positions', req'[g])
    BY <1>3, <2>5, <2>6
  <2>8. NoServerError'
    BY <2>1 DEF SerialInv, NoServerError
  <2>9. QED
    BY <1>4, <2>7, <2>8 DEF SerialInv
<1>7. QED
  BY <1>5, <1>6

LEMMA RefreshInv ==
  ASSUME OneHandler, TypeOK, SerialInv, NEW h \in Handlers, Refresh(h)
  PROVE  SerialInv'
<1>1. h \in DOMAIN req /\ req[h].pc = "refresh" /\ InStep(ledger, positions, req[h])
  BY DEF Refresh, SerialInv
<1>2. Overlay(ledger, Empty) = ledger
  BY OverlayEmpty DEF TypeOK
<1>3. req[h].id \in DOMAIN ledger
  BY <1>1, <1>2 DEF InStep
<1>4. Rollback(h, "ok")
  BY <1>3 DEF Refresh
<1>5. QED
  BY <1>4, RollbackInv

-----------------------------------------------------------------------------
LEMMA SerialNext ==
  ASSUME Grain = 1, OneHandler, TypeOK, SerialInv, [Next]_vars
  PROVE  SerialInv'
<1>1. CASE UNCHANGED vars
  BY <1>1 DEF vars, SerialInv, PositionsMatchLedger, NoServerError
<1>2. ASSUME NEW h \in Handlers, Begin(h) PROVE SerialInv'
  BY <1>2, CreateInv, UpdateInv, DeleteInv DEF Begin
<1>3. ASSUME NEW h \in Handlers, Step(h) PROVE SerialInv'
  BY <1>3, FlushInv, SelectLedgerInv, SelectPositionInv, AutoflushInv, CommitInv, RefreshInv DEF Step
<1>4. ASSUME NEW h \in Handlers, DeadlockVictim(h) PROVE FALSE
  <2>1. PICK D \in SUBSET DOMAIN req : WaitSet(D)
    BY <1>4 DEF DeadlockVictim
  <2>2. \E x \in D, y \in D : x # y
    BY <2>1 DEF WaitSet
  <2>3. QED
    BY <2>1, <2>2 DEF OneHandler, TypeOK
<1>5. ASSUME NEW h \in Handlers, Crash(h) PROVE SerialInv'
  BY <1>5, RollbackInv DEF Crash
<1>6. QED
  BY <1>1, <1>2, <1>3, <1>4, <1>5 DEF Next

(* No transactions, nothing held.                                          *)
LEMMA ReplayEmpty ==
  ASSUME NEW i
  PROVE  ReplayOf(Empty, i) = Flat
<1> DEFINE txs == Selected(Empty, Empty, i)
<1>1. RowsOf(Empty, i) = {} /\ DOMAIN Empty = {}
  BY DEF RowsOf, Empty
<1>2. IsView(Empty)
  BY <1>1, FS_EmptySet DEF IsView
<1>3. InOrder(Empty, i) \in Seq(RowsOf(Empty, i)) /\ Len(InOrder(Empty, i)) = 0
  BY <1>1, <1>2, InOrderType, FS_EmptySet
<1>4. Len(txs) = 0
  <2> DEFINE ids == InOrder(Empty, i)
  <2>1. txs = [n \in 1 .. Len(ids) |-> IF ids[n] \in DOMAIN Empty THEN Empty[ids[n]] ELSE Empty[ids[n]]]
    BY DEF Selected
  <2> HIDE DEF ids, txs
  <2>2. Len(ids) = 0
    BY <1>3 DEF ids
  <2>3. QED
    BY <2>1, <2>2
<1> HIDE DEF txs
<1>5. PICK g : IsRun(g, txs, Len(txs)) /\ Replay(txs) = g[Len(txs)]
  BY <1>4, ReplayIsRun
<1>6. Replay(txs) = Flat
  BY <1>4, <1>5 DEF IsRun
<1>7. QED
  BY <1>6 DEF ReplayOf, txs

LEMMA SerialInit ==
  ASSUME Init
  PROVE  SerialInv
<1>1. \A i : Matches(Empty, Empty, i)
  <2>1. DOMAIN Empty = {}
    BY DEF Empty
  <2>2. Flat.ok /\ Flat.quantity = 0
    BY DEF Flat
  <2>3. QED
    BY <2>1, <2>2, ReplayEmpty DEF Matches
<1>2. ledger = Empty /\ positions = Empty /\ DOMAIN req = {}
  BY DEF Init, Empty
<1>3. PositionsMatchLedger
  BY <1>1, <1>2 DEF PositionsMatchLedger
<1>4. NoServerError
  BY DEF Init, NoServerError
<1>5. QED
  BY <1>2, <1>3, <1>4 DEF SerialInv

(* Served one at a time, requests whose quantities fit the column leave,   *)
(* at every commit and after every rollback or crash, exactly the          *)
(* positions a replay of the committed ledger gives, for every index and   *)
(* any number of requests, rows and amounts.                               *)
THEOREM SerialPositionsMatch ==
  ASSUME Grain = 1, OneHandler
  PROVE  Spec => []PositionsMatchLedger
<1>1. Init => SerialInv
  BY SerialInit
<1>2. TypeOK /\ SerialInv /\ [Next]_vars => SerialInv'
  BY SerialNext
<1>3. SerialInv => PositionsMatchLedger
  BY DEF SerialInv
<1>4. QED
  BY <1>1, <1>2, <1>3, TypeCorrect, PTL DEF Spec

(* Served one at a time, no request dies on a constraint, a stale row, a   *)
(* vanished row or a deadlock: the HTTP 500s of create, update and delete  *)
(* need two requests at once, or a quantity finer than its column.         *)
THEOREM SerialNoServerError ==
  ASSUME Grain = 1, OneHandler
  PROVE  Spec => []NoServerError
<1>1. Init => SerialInv
  BY SerialInit
<1>2. TypeOK /\ SerialInv /\ [Next]_vars => SerialInv'
  BY SerialNext
<1>3. SerialInv => NoServerError
  BY DEF SerialInv
<1>4. QED
  BY <1>1, <1>2, <1>3, TypeCorrect, PTL DEF Spec


-----------------------------------------------------------------------------
(* The operators of the abstract book are those of the ledger: both read   *)
(* the same view and the same replay.                                      *)
LEMMA SameReplay ==
  ASSUME NEW rows, NEW i
  PROVE  Promise!ReplayOf(rows, i) = ReplayOf(rows, i)
<1>1. \A S : Promise!Cardinality(S) = Cardinality(S)
  BY DEF Promise!Cardinality, Cardinality
<1>2. \A j, k : Promise!Earlier(rows, j, k) = Earlier(rows, j, k)
  BY DEF Promise!Earlier, Earlier
<1>3. Promise!InOrder(rows, i) = InOrder(rows, i)
  <2> DEFINE S == RowsOf(rows, i)
             Place(n, id) == Cardinality({k \in S : Earlier(rows, k, id)}) = n - 1
             Place2(n, id) == Promise!Cardinality({k \in S : Promise!Earlier(rows, k, id)}) = n - 1
  <2>1. InOrder(rows, i) = [n \in 1 .. Cardinality(S) |-> CHOOSE id \in S : Place(n, id)]
    BY DEF InOrder
  <2>2. Promise!InOrder(rows, i) = [n \in 1 .. Promise!Cardinality(S) |-> CHOOSE id \in S : Place2(n, id)]
    BY DEF Promise!InOrder, RowsOf, Promise!RowsOf
  <2>3. \A n, id : Place(n, id) <=> Place2(n, id)
    <3>1. TAKE n, id
    <3>2. {k \in S : Earlier(rows, k, id)} = {k \in S : Promise!Earlier(rows, k, id)}
      BY <1>2
    <3>3. QED
      BY <1>1, <3>2
  <2> HIDE DEF S, Place, Place2
  <2>4. \A n : (CHOOSE id \in S : Place(n, id)) = (CHOOSE id \in S : Place2(n, id))
    BY <2>3
  <2>5. QED
    BY <1>1, <2>1, <2>2, <2>4
<1>4. Promise!Selected(rows, Promise!Empty, i) = Selected(rows, Empty, i)
  BY <1>3 DEF Promise!Selected, Selected, Promise!Empty, Empty
<1>5. Promise!Replay(Selected(rows, Empty, i)) = Replay(Selected(rows, Empty, i))
  BY DEF Promise!Replay, Replay, Promise!Book, Book, Promise!Buy, Buy, Promise!Sell, Sell,
         Promise!Flat, Flat
<1>6. QED
  BY <1>4, <1>5 DEF Promise!ReplayOf, ReplayOf

LEMMA SameColumns ==
  ASSUME NEW s
  PROVE  Promise!Columns(s) = Columns(s)
BY DEF Promise!Columns, Columns, Promise!StoredQuantity, StoredQuantity, Promise!Nearest, Nearest

LEMMA SameAmend ==
  ASSUME NEW row, NEW patch
  PROVE  Promise!Amend(row, patch) = Amend(row, patch)
BY DEF Promise!Amend, Amend

(* Positions that match a ledger show what the book holds.                 *)
LEMMA SameHoldings ==
  ASSUME TypeOK, PositionsMatchLedger
  PROVE  Held = Promise!HoldingsOf(ledger)
<1> DEFINE Shown(i) == [c \in {"quantity", "average_cost", "last_update"} |-> positions[i][c]]
           Replayed(i) == Promise!Columns(Promise!ReplayOf(ledger, i))
           J == {j \in Catalog : Promise!ReplayOf(ledger, j).quantity # 0}
<1>1. Held = [i \in DOMAIN positions |-> Shown(i)]
  BY DEF Held
<1>2. Promise!HoldingsOf(ledger) = [i \in J |-> Replayed(i)]
  BY DEF Promise!HoldingsOf
<1>3. DOMAIN positions \subseteq Catalog
  BY DEF TypeOK, IsTable
<1>4. DOMAIN positions = J
  BY <1>3, SameReplay DEF PositionsMatchLedger, Matches
<1>5. ASSUME NEW i \in DOMAIN positions
      PROVE  Shown(i) = Replayed(i)
  <2> DEFINE s == ReplayOf(ledger, i)
  <2>1. Replayed(i) = Columns(s)
    BY SameReplay, SameColumns
  <2>2. \A c \in DOMAIN Columns(s) : positions[i][c] = Columns(s)[c]
    BY <1>3 DEF PositionsMatchLedger, Matches
  <2> HIDE DEF s
  <2>3. Shown(i) = Columns(s)
    BY <2>2 DEF Columns
  <2>4. QED
    BY <2>1, <2>3
<1> HIDE DEF Shown, Replayed, J
<1>6. QED
  BY <1>1, <1>2, <1>4, <1>5

-----------------------------------------------------------------------------
(* The change a session is about to commit is one the book allows.         *)
Offered(rows, r) ==
  r.pc # "refresh" =>
    /\ r.op = "create" => r.obj \in Payloads /\ \A k \in DOMAIN rows : k < r.id
    /\ r.op = "update" => r.id \in DOMAIN rows /\ \E patch \in Patches : r.obj = Amend(rows[r.id], patch)
    /\ r.op = "delete" =>
         r.id \in DOMAIN rows /\ (r.pc # "flush" => r.id \in DOMAIN r.delta /\ r.delta[r.id] = {})

BookInv == \A h \in DOMAIN req : Offered(ledger, req[h])

LEMMA PutBook ==
  ASSUME OneHandler, TypeOK, NEW h \in Handlers, NEW s, Put(h, s), UNCHANGED ledger,
         Offered(ledger, s)
  PROVE  BookInv'
<1>1. \A g \in DOMAIN req' : req'[g] = s
  BY DEF Put, TypeOK, OneHandler
<1>2. QED
  BY <1>1 DEF BookInv

LEMMA CloseBook ==
  ASSUME OneHandler, TypeOK, NEW h \in Handlers, NEW how, Close(h, how)
  PROVE  BookInv'
<1>1. DOMAIN req' = {}
  BY DEF Close, TypeOK, OneHandler
<1>2. QED
  BY <1>1 DEF BookInv

LEMMA BeginBook ==
  ASSUME Grain = 1, OneHandler, TypeOK, BookInv, NEW h \in Handlers, Begin(h)
  PROVE  BookInv'
<1>0. ASSUME NEW how, Refuse(h, how) PROVE BookInv'
  BY <1>0 DEF Refuse, BookInv
<1>1. ASSUME NEW body \in Payloads, Create(h, body), body.index_id \in Catalog
      PROVE  BookInv'
  <2> DEFINE delta == [id \in {begun + 1} |-> {Stored(body)}]
             s == [Session("create", begun + 1, body, Empty, {body.index_id}) EXCEPT
                     !.pc = "ledger", !.delta = delta]
  <2>1. Insertable(Stored(body))
    BY <1>1, StoredSame, RequestAssumption DEF Rows, Bodies
  <2>2. Put(h, s) /\ UNCHANGED ledger
    BY <1>1, <2>1 DEF Create
  <2> HIDE DEF delta
  <2>3. s.op = "create" /\ s.id = begun + 1 /\ s.obj = body
    BY DEF Session
  <2> HIDE DEF s
  <2>4. \A k \in DOMAIN ledger : k < begun + 1
    BY RequestAssumption DEF TypeOK, IsTable
  <2>5. Offered(ledger, s)
    BY <2>3, <2>4 DEF Offered
  <2>6. QED
    BY <2>2, <2>5, PutBook
<1>2. ASSUME NEW id, NEW patch \in Patches, Update(h, id, patch),
             ~(id \notin DOMAIN ledger \/ ("index_id" \in DOMAIN patch /\ patch.index_id \notin Catalog))
      PROVE  BookInv'
  <2> DEFINE old == ledger[id]
             dirty == {f \in DOMAIN patch : patch[f] # old[f]}
             obj == Amend(old, patch)
             changes == [f \in dirty |-> patch[f]]
             todo == Affected(old, obj)
             s == Session("update", id, obj, changes, todo)
  <2>1. Put(h, s) /\ UNCHANGED ledger /\ id \in DOMAIN ledger
    BY <1>2 DEF Update
  <2> HIDE DEF changes, todo
  <2>2. s.op = "update" /\ s.id = id /\ s.obj = Amend(ledger[id], patch)
    BY DEF Session
  <2> HIDE DEF s
  <2>3. Offered(ledger, s)
    BY <2>1, <2>2 DEF Offered
  <2>4. QED
    BY <2>1, <2>3, PutBook
<1>3. ASSUME NEW id, Delete(h, id), id \in DOMAIN ledger
      PROVE  BookInv'
  <2> DEFINE s == Session("delete", id, ledger[id], Empty, {ledger[id].index_id})
  <2>1. Put(h, s) /\ UNCHANGED ledger
    BY <1>3 DEF Delete
  <2>2. s.op = "delete" /\ s.id = id /\ s.pc = "flush"
    BY DEF Session
  <2> HIDE DEF s
  <2>3. Offered(ledger, s)
    BY <1>3, <2>2 DEF Offered
  <2>4. QED
    BY <2>1, <2>3, PutBook
<1>4. ASSUME NEW body \in Payloads, Create(h, body), body.index_id \notin Catalog PROVE BookInv'
  BY <1>0, <1>4 DEF Create
<1>5. ASSUME NEW id, NEW patch, Update(h, id, patch),
             id \notin DOMAIN ledger \/ ("index_id" \in DOMAIN patch /\ patch.index_id \notin Catalog)
      PROVE  BookInv'
  BY <1>0, <1>5 DEF Update
<1>6. ASSUME NEW id, Delete(h, id), id \notin DOMAIN ledger PROVE BookInv'
  BY <1>0, <1>6 DEF Delete
<1>7. QED
  BY <1>1, <1>2, <1>3, <1>4, <1>5, <1>6 DEF Begin

(* The later statements keep what the session is to commit.                *)
LEMMA StepBook ==
  ASSUME Grain = 1, OneHandler, TypeOK, SerialInv, BookInv, NEW h \in Handlers, Step(h)
  PROVE  BookInv'
<1> DEFINE r == req[h]
<1>1. h \in DOMAIN req
  BY DEF Step, Flush, SelectLedger, SelectPosition, Autoflush, Commit, Writing, Refresh
<1>2. SessionOK(r, begun) /\ Offered(ledger, r)
  BY <1>1, OpenSession DEF BookInv
<1>3. ASSUME NEW how, Rollback(h, how) PROVE BookInv'
  BY <1>3, CloseBook DEF Rollback
<1>4. ASSUME NEW s, Put(h, s), UNCHANGED ledger, r.pc # "refresh",
             s.pc # "flush", s.op = r.op, s.id = r.id, s.obj = r.obj,
             r.op = "delete" => s.delta = [id \in {r.id} |-> {}] \/ (s.delta = r.delta /\ r.pc # "flush")
      PROVE  BookInv'
  <2>1. r.op = "delete" => s.id \in DOMAIN s.delta /\ s.delta[s.id] = {}
    BY <1>2, <1>4 DEF Offered
  <2>2. Offered(ledger, s)
    BY <1>2, <1>4, <2>1 DEF Offered
  <2>3. QED
    BY <1>4, <2>2, PutBook
<1>5. CASE Flush(h)
  <2>1. Opened(ledger, r) /\ r.pc = "flush"
    BY <1>1, <1>5 DEF Flush, SerialInv, InStep
  <2>2. CASE r.op = "delete"
    <3> DEFINE delta == [id \in {r.id} |-> {}]
               s == [r EXCEPT !.pc = "ledger", !.delta = delta]
    <3>1. Put(h, s) /\ UNCHANGED ledger
      BY <1>5, <2>2 DEF Flush
    <3>2. s.pc = "ledger" /\ s.op = r.op /\ s.id = r.id /\ s.obj = r.obj /\ s.delta = delta
      BY <1>2 DEF SessionOK
    <3> HIDE DEF s
    <3>3. QED
      BY <1>4, <2>1, <3>1, <3>2
  <2>3. CASE r.op # "delete"
    <3>1. PICK delta : Put(h, [r EXCEPT !.pc = "ledger", !.delta = delta]) /\ UNCHANGED ledger
      BY <1>5, <2>1, FlushChange
    <3> DEFINE s == [r EXCEPT !.pc = "ledger", !.delta = delta]
    <3>2. s.pc = "ledger" /\ s.op = r.op /\ s.id = r.id /\ s.obj = r.obj
      BY <1>2 DEF SessionOK
    <3>3. Put(h, s)
      BY <3>1
    <3> HIDE DEF s
    <3>4. QED
      BY <1>4, <2>1, <2>3, <3>1, <3>2, <3>3
  <2>4. QED
    BY <2>2, <2>3
<1>6. CASE SelectLedger(h)
  <2>1. r.pc = "ledger"
    BY <1>6 DEF SelectLedger
  <2>2. \/ Rollback(h, "insufficient")
        \/ \E i, snap : /\ Put(h, [r EXCEPT !.pc = "position", !.todo = @ \ {i}, !.index = i, !.snap = snap])
                        /\ UNCHANGED ledger
    BY <1>6 DEF SelectLedger
  <2>3. ASSUME NEW i, NEW snap, UNCHANGED ledger,
               Put(h, [r EXCEPT !.pc = "position", !.todo = @ \ {i}, !.index = i, !.snap = snap])
        PROVE  BookInv'
    <3> DEFINE s == [r EXCEPT !.pc = "position", !.todo = @ \ {i}, !.index = i, !.snap = snap]
    <3>1. s.pc = "position" /\ s.op = r.op /\ s.id = r.id /\ s.obj = r.obj /\ s.delta = r.delta
      BY <1>2 DEF SessionOK
    <3>2. Put(h, s)
      BY <2>3
    <3> HIDE DEF s
    <3>3. QED
      BY <1>4, <2>1, <2>3, <3>1, <3>2
  <2>4. QED
    BY <1>3, <2>2, <2>3
<1>7. CASE SelectPosition(h)
  <2> DEFINE rows == {positions[i] : i \in DOMAIN positions \cap {r.index}}
             s == [r EXCEPT !.pc = "write", !.loaded = rows]
  <2>1. r.pc = "position" /\ Put(h, s) /\ UNCHANGED ledger
    BY <1>7 DEF SelectPosition
  <2> HIDE DEF rows
  <2>2. s.pc = "write" /\ s.op = r.op /\ s.id = r.id /\ s.obj = r.obj /\ s.delta = r.delta
    BY <1>2 DEF SessionOK
  <2> HIDE DEF s
  <2>3. QED
    BY <1>4, <2>1, <2>2
<1>8. CASE Autoflush(h)
  <2> DEFINE writes == PositionWrites(r)
             s == [r EXCEPT !.pc = "ledger", !.writes = writes]
  <2>1. r.pc = "write" /\ (Rollback(h, "error") \/ (Put(h, s) /\ UNCHANGED ledger))
    BY <1>8 DEF Autoflush, Writing
  <2> HIDE DEF writes
  <2>2. s.pc = "ledger" /\ s.op = r.op /\ s.id = r.id /\ s.obj = r.obj /\ s.delta = r.delta
    BY <1>2 DEF SessionOK
  <2> HIDE DEF s
  <2>3. QED
    BY <1>3, <1>4, <2>1, <2>2
<1>9. CASE Commit(h)
  <2> DEFINE s == [r EXCEPT !.pc = "refresh", !.delta = Empty, !.writes = Empty]
  <2>1. Rollback(h, "error") \/ Close(h, "ok") \/ Put(h, s)
    BY <1>9 DEF Commit
  <2>2. s.pc = "refresh"
    BY <1>2 DEF SessionOK
  <2> HIDE DEF s
  <2>3. ASSUME Put(h, s) PROVE BookInv'
    <3>1. \A g \in DOMAIN req' : req'[g] = s
      BY <2>3 DEF Put, TypeOK, OneHandler
    <3>2. QED
      BY <2>2, <3>1 DEF BookInv, Offered
  <2>4. QED
    BY <1>3, <2>1, <2>3, CloseBook
<1>10. CASE Refresh(h)
  BY <1>3, <1>10 DEF Refresh
<1>11. QED
  BY <1>5, <1>6, <1>7, <1>8, <1>9, <1>10 DEF Step

LEMMA BookNext ==
  ASSUME Grain = 1, OneHandler, TypeOK, SerialInv, BookInv, [Next]_vars
  PROVE  BookInv'
<1>1. CASE UNCHANGED vars
  BY <1>1 DEF vars, BookInv
<1>2. ASSUME NEW h \in Handlers, DeadlockVictim(h) \/ Crash(h) PROVE BookInv'
  BY <1>2, CloseBook DEF DeadlockVictim, Crash, Rollback
<1>3. QED
  BY <1>1, <1>2, BeginBook, StepBook DEF Next

-----------------------------------------------------------------------------
(* Only a commit that goes through changes the tables.                     *)
LEMMA OnlyCommits ==
  ASSUME Next, <<ledger, positions>>' # <<ledger, positions>>
  PROVE  \E h \in Handlers : Commit(h) /\ ~WriteFails(req[h])
<1>1. \A h, how : ~Rollback(h, how) /\ ~Refuse(h, how)
  BY DEF Rollback, Refuse
<1>2. ASSUME NEW h \in Handlers, Begin(h) PROVE FALSE
  BY <1>1, <1>2 DEF Begin, Create, Update, Delete
<1>3. ASSUME NEW h \in Handlers, Flush(h) PROVE FALSE
  BY <1>1, <1>3 DEF Flush
<1>4. ASSUME NEW h \in Handlers, SelectLedger(h) \/ SelectPosition(h) PROVE FALSE
  BY <1>1, <1>4 DEF SelectLedger, SelectPosition
<1>5. ASSUME NEW h \in Handlers, Autoflush(h) \/ Refresh(h) PROVE FALSE
  BY <1>1, <1>5 DEF Autoflush, Refresh
<1>6. ASSUME NEW h \in Handlers, DeadlockVictim(h) \/ Crash(h) PROVE FALSE
  BY <1>1, <1>6 DEF DeadlockVictim, Crash
<1>7. PICK h \in Handlers : Commit(h)
  BY <1>2, <1>3, <1>4, <1>5, <1>6 DEF Next, Step
<1>8. ~WriteFails(req[h])
  BY <1>1, <1>7 DEF Commit
<1>9. QED
  BY <1>7, <1>8


(* The whole request is one change of the book.                            *)
LEMMA CommitChanges ==
  ASSUME Grain = 1, OneHandler, TypeOK, TypeOK', SerialInv, SerialInv', BookInv,
         NEW h \in Handlers, Commit(h), ~WriteFails(req[h])
  PROVE  Promise!Next
<1> DEFINE r == req[h]
           id == r.id
           view == Overlay(ledger, r.delta)
<1>1. /\ h \in DOMAIN req /\ r.pc = "write" /\ SessionOK(r, begun) /\ Offered(ledger, r)
      /\ InStep(ledger, positions, r) /\ Flushed(ledger, positions, r)
  BY OpenSession DEF Commit, Writing, SerialInv, BookInv, InStep
<1>2. ledger' = view
  BY DEF Commit
<1>3. Promise!Accept(view)
  <2>1. \A i \in Catalog : Promise!ReplayOf(view, i).ok
    BY <1>2, SameReplay DEF SerialInv, PositionsMatchLedger, Matches
  <2>2. (Held = Promise!HoldingsOf(ledger))'
    BY SameHoldings, PTL DEF SerialInv
  <2>3. Held' = Promise!HoldingsOf(view)
    BY <1>2, <2>2
  <2>4. QED
    BY <1>2, <2>1, <2>3 DEF Promise!Accept
<1>4. view = [k \in DOMAIN view |-> view[k]]
  BY DEF Overlay
<1>5. \A k : k # id =>
        (k \in DOMAIN view <=> k \in DOMAIN ledger) /\ (k \in DOMAIN ledger => view[k] = ledger[k])
  <2>1. DOMAIN r.delta \subseteq {id}
    BY <1>1 DEF SessionOK, IsDelta
  <2>2. QED
    BY <2>1, OverlayAt
<1>6. r.op # "delete" => id \in DOMAIN view /\ view[id] = r.obj
  BY <1>1 DEF InStep, Flushed
<1>7. r.op = "delete" => id \notin DOMAIN view
  BY <1>1, OverlayAt DEF Offered
<1> HIDE DEF view
<1>8. CASE r.op = "create"
  <2>1. view = [k \in DOMAIN ledger \cup {id} |-> IF k = id THEN r.obj ELSE ledger[k]]
    <3>1. DOMAIN view = DOMAIN ledger \cup {id}
      BY <1>5, <1>6, <1>8
    <3>2. \A k \in DOMAIN view : view[k] = IF k = id THEN r.obj ELSE ledger[k]
      BY <1>5, <1>6, <1>8
    <3>3. QED
      BY <1>4, <3>1, <3>2
  <2>2. r.obj \in Payloads /\ \A k \in DOMAIN ledger : k < id
    BY <1>1, <1>8 DEF Offered
  <2>3. r.obj.index_id \in Catalog /\ id \in 1 .. MaxRequests
    BY <1>1, RequestAssumption DEF SessionOK, Rows, Bodies, TypeOK
  <2>4. Promise!Record
    BY <1>3, <2>1, <2>2, <2>3 DEF Promise!Record
  <2>5. QED
    BY <2>4 DEF Promise!Next
<1>9. CASE r.op = "update"
  <2>1. PICK patch \in Patches : r.obj = Amend(ledger[id], patch)
    BY <1>1, <1>9 DEF Offered
  <2>2. id \in DOMAIN ledger
    BY <1>1, <1>9 DEF Offered
  <2>3. view = [ledger EXCEPT ![id] = r.obj]
    <3>1. DOMAIN view = DOMAIN ledger
      BY <1>5, <1>6, <1>9, <2>2
    <3>2. \A k \in DOMAIN view : view[k] = IF k = id THEN r.obj ELSE ledger[k]
      BY <1>5, <1>6, <1>9
    <3>3. QED
      BY <1>4, <3>1, <3>2
  <2>4. r.obj = Promise!Amend(ledger[id], patch)
    BY <2>1, SameAmend
  <2>5. r.obj.index_id \in Catalog
    BY <1>1 DEF SessionOK, Rows, Bodies
  <2>6. Promise!Revise
    BY <1>3, <2>2, <2>3, <2>4, <2>5 DEF Promise!Revise
  <2>7. QED
    BY <2>6 DEF Promise!Next
<1>10. CASE r.op = "delete"
  <2>1. id \in DOMAIN ledger
    BY <1>1, <1>10 DEF Offered
  <2>2. view = [k \in DOMAIN ledger \ {id} |-> ledger[k]]
    <3>1. DOMAIN view = DOMAIN ledger \ {id}
      BY <1>5, <1>7, <1>10
    <3>2. \A k \in DOMAIN view : view[k] = ledger[k]
      BY <1>5, <3>1
    <3>3. QED
      BY <1>4, <3>1, <3>2
  <2>3. Promise!Strike
    BY <1>3, <2>1, <2>2 DEF Promise!Strike
  <2>4. QED
    BY <2>3 DEF Promise!Next
<1>11. QED
  BY <1>1, <1>8, <1>9, <1>10 DEF SessionOK

(* Served one at a time, whatever fails or crashes on the way, the API     *)
(* keeps the book it promises: a request that is accepted changes one row, *)
(* leaves every index replayable and shows the holdings replayed from all  *)
(* rows, in one step; a request that is not accepted shows nothing.        *)
THEOREM SerialImplementsBook ==
  ASSUME Grain = 1, OneHandler
  PROVE  Spec => ImplementsBook
<1>1. Init => SerialInv /\ BookInv /\ Promise!Init
  <2>1. SUFFICES ASSUME Init PROVE SerialInv /\ BookInv /\ Promise!Init
    OBVIOUS
  <2>2. DOMAIN Empty = {}
    BY DEF Empty
  <2>3. ledger = Empty /\ DOMAIN req = {} /\ DOMAIN positions = {}
    BY <2>1, <2>2 DEF Init
  <2>4. Promise!Init
    <3>1. Held = [i \in {} |-> i]
      BY <2>3 DEF Held
    <3>2. Promise!Empty = [i \in {} |-> i] /\ Empty = [i \in {} |-> i]
      BY DEF Promise!Empty, Empty
    <3>3. QED
      BY <2>3, <3>1, <3>2 DEF Promise!Init
  <2>5. QED
    BY <2>1, <2>3, <2>4, SerialInit DEF BookInv
<1>2. TypeOK /\ SerialInv /\ [Next]_vars => SerialInv'
  BY SerialNext
<1>3. TypeOK /\ SerialInv /\ BookInv /\ [Next]_vars => BookInv'
  BY BookNext
<1>4. TypeOK /\ TypeOK' /\ SerialInv /\ SerialInv' /\ BookInv /\ [Next]_vars
        => [Promise!Next]_<<ledger, Held>>
  <2>1. SUFFICES ASSUME TypeOK, TypeOK', SerialInv, SerialInv', BookInv, [Next]_vars,
                        <<ledger, positions>>' # <<ledger, positions>>
                 PROVE  Promise!Next
    BY DEF Held
  <2>2. Next
    BY <2>1 DEF vars
  <2>3. QED
    BY <2>1, <2>2, OnlyCommits, CommitChanges
<1>5. QED
  BY <1>1, <1>2, <1>3, <1>4, TypeCorrect, PTL DEF Spec, ImplementsBook, Promise!Spec

-----------------------------------------------------------------------------
(***************************************************************************)
(* Any number of handlers at once: what a commit leaves right on an index  *)
(* that no other request disturbed, and why it only hurts disturbed ones.  *)
(***************************************************************************)

(* What a session knows of an index it has not to write (any more): it     *)
(* will match after the commit, or the commit changes nothing of it.       *)
Settled(rows, table, r, i) ==
  LET view == Overlay(rows, r.delta)
  IN  \/ Matches(view, Overlay(table, r.writes), i)
      \/ RowsAt(view, i) = RowsAt(rows, i) /\ i \notin DOMAIN r.writes

(* What holds between a session and an index nobody disturbed since the    *)
(* session began, statement by statement.                                  *)
Undisturbed(rows, table, r, i) ==
  LET view == Overlay(rows, r.delta)
  IN  /\ r.pc = "flush" => Opened(rows, r)
      /\ r.pc \in {"ledger", "position", "write"} =>
           /\ r.id \in DOMAIN view => view[r.id] = r.obj
           /\ i \notin Behind(r) => Settled(rows, table, r, i)
      /\ r.pc \in {"position", "write"} /\ r.index = i => r.snap = ReplayOf(view, i) /\ r.snap.ok
      /\ r.pc = "write" /\ r.index = i => r.loaded = PositionAt(table, i)

(* Positions are written once each. *)
Ordered(r) ==
  /\ DOMAIN r.writes \cap Behind(r) = {}
  /\ r.pc \in {"position", "write"} => r.index \notin r.todo

(* Neither property is inductive: a commit does what its session has       *)
(* prepared over statements at which others have committed.                *)
OverlapInv ==
  /\ DOMAIN disturbed = DOMAIN req
  /\ \A h \in DOMAIN req :
       /\ Ordered(req[h])
       /\ \A i \in Catalog \ disturbed[h] : Undisturbed(ledger, positions, req[h], i)

-----------------------------------------------------------------------------
(* The rows of one index, compared row by row.                             *)
LEMMA RowsAtAgree ==
  ASSUME NEW v, NEW w, NEW i
  PROVE  RowsAt(v, i) = RowsAt(w, i) <=>
           RowsOf(v, i) = RowsOf(w, i) /\ \A id \in RowsOf(v, i) : v[id] = w[id]
<1> DEFINE S == RowsOf(v, i)
           T == RowsOf(w, i)
<1>1. RowsAt(v, i) = [id \in S |-> v[id]] /\ RowsAt(w, i) = [id \in T |-> w[id]]
  BY DEF RowsAt
<1> HIDE DEF S, T
<1>2. RowsAt(v, i) = RowsAt(w, i) => S = T /\ \A id \in S : v[id] = w[id]
  <2>1. SUFFICES ASSUME RowsAt(v, i) = RowsAt(w, i) PROVE S = T /\ \A id \in S : v[id] = w[id]
    OBVIOUS
  <2>2. DOMAIN RowsAt(v, i) = S /\ DOMAIN RowsAt(w, i) = T
    BY <1>1
  <2>3. \A id \in S : RowsAt(v, i)[id] = v[id]
    BY <1>1
  <2>4. \A id \in T : RowsAt(w, i)[id] = w[id]
    BY <1>1
  <2>5. QED
    BY <2>1, <2>2, <2>3, <2>4
<1>3. S = T /\ (\A id \in S : v[id] = w[id]) => RowsAt(v, i) = RowsAt(w, i)
  BY <1>1
<1>4. QED
  BY <1>2, <1>3 DEF S, T

LEMMA ReplayAt ==
  ASSUME NEW v, NEW w, NEW i, IsView(v), IsView(w), RowsAt(v, i) = RowsAt(w, i)
  PROVE  ReplayOf(v, i) = ReplayOf(w, i)
BY RowsAtAgree, ReplaySame

(* The same changes over tables that agree on an index, or on a row.       *)
LEMMA OverlayRowsAt ==
  ASSUME NEW v, NEW w, NEW d, NEW i, RowsAt(v, i) = RowsAt(w, i)
  PROVE  RowsAt(Overlay(v, d), i) = RowsAt(Overlay(w, d), i)
<1> DEFINE x == Overlay(v, d)
           y == Overlay(w, d)
<1>1. /\ RowsOf(v, i) = RowsOf(w, i)
      /\ \A id \in RowsOf(v, i) : v[id] = w[id]
  BY RowsAtAgree
<1>2. \A k : k \notin DOMAIN d =>
        /\ k \in DOMAIN x <=> k \in DOMAIN v
        /\ k \in DOMAIN v => x[k] = v[k]
        /\ k \in DOMAIN y <=> k \in DOMAIN w
        /\ k \in DOMAIN w => y[k] = w[k]
  BY OverlayAt
<1>3. \A k \in DOMAIN d : (k \in DOMAIN x <=> k \in DOMAIN y) /\ (k \in DOMAIN x => x[k] = y[k])
  BY DEF Overlay
<1> HIDE DEF x, y
<1>4. RowsOf(x, i) = RowsOf(y, i) /\ \A k \in RowsOf(x, i) : x[k] = y[k]
  BY <1>1, <1>2, <1>3 DEF RowsOf
<1>5. RowsAt(x, i) = RowsAt(y, i)
  BY <1>4, RowsAtAgree
<1>6. QED
  BY <1>5 DEF x, y

LEMMA OverlayRowAt ==
  ASSUME NEW t, NEW u, NEW d, NEW k, RowAt(t, k) = RowAt(u, k)
  PROVE  RowAt(Overlay(t, d), k) = RowAt(Overlay(u, d), k)
<1> DEFINE x == Overlay(t, d)
           y == Overlay(u, d)
<1>1. (k \in DOMAIN t <=> k \in DOMAIN u) /\ (k \in DOMAIN t => t[k] = u[k])
  BY DEF RowAt
<1>2. k \notin DOMAIN d =>
        /\ k \in DOMAIN x <=> k \in DOMAIN t
        /\ k \in DOMAIN t => x[k] = t[k]
        /\ k \in DOMAIN y <=> k \in DOMAIN u
        /\ k \in DOMAIN u => y[k] = u[k]
  BY OverlayAt
<1>3. k \in DOMAIN d => (k \in DOMAIN x <=> k \in DOMAIN y) /\ (k \in DOMAIN x => x[k] = y[k])
  BY DEF Overlay
<1> HIDE DEF x, y
<1>4. RowAt(x, k) = RowAt(y, k)
  BY <1>1, <1>2, <1>3 DEF RowAt
<1>5. QED
  BY <1>4 DEF x, y

LEMMA PositionIsRow ==
  ASSUME NEW t, NEW i
  PROVE  PositionAt(t, i) = RowAt(t, i)
BY DEF PositionAt, RowAt

(* A change of one row, in neither of its versions on index i.             *)
LEMMA OtherRows ==
  ASSUME NEW t, NEW d, NEW id, NEW i, DOMAIN d \subseteq {id},
         id \in DOMAIN d => d[id] = {} \/ \E row : d[id] = {row} /\ row.index_id # i,
         id \in DOMAIN d /\ id \in DOMAIN t => t[id].index_id # i
  PROVE  RowsAt(Overlay(t, d), i) = RowsAt(t, i)
<1> DEFINE v == Overlay(t, d)
<1>1. \A k : k \notin DOMAIN d =>
        (k \in DOMAIN v <=> k \in DOMAIN t) /\ (k \in DOMAIN t => v[k] = t[k])
  BY OverlayAt
<1>2. \A k \in DOMAIN d : k \notin DOMAIN v \/ v[k].index_id # i
  <2>1. TAKE k \in DOMAIN d
  <2>2. k = id
    OBVIOUS
  <2>3. QED
    BY <2>2, OverlayAt, OverlayNew
<1>3. \A k \in DOMAIN d : k \notin DOMAIN t \/ t[k].index_id # i
  OBVIOUS
<1> HIDE DEF v
<1>4. RowsOf(v, i) = RowsOf(t, i) /\ \A k \in RowsOf(v, i) : v[k] = t[k]
  BY <1>1, <1>2, <1>3 DEF RowsOf
<1>5. RowsAt(v, i) = RowsAt(t, i)
  BY <1>4, RowsAtAgree
<1>6. QED
  BY <1>5 DEF v

-----------------------------------------------------------------------------
(* A commit that changes neither the index nor the row of a session leaves *)
(* what the session knows of that index true.                              *)
LEMMA SettledKept ==
  ASSUME NEW rows, NEW rows2, NEW table, NEW table2, NEW r, NEW i,
         Settled(rows, table, r, i), RowsAt(rows, i) = RowsAt(rows2, i),
         RowAt(table, i) = RowAt(table2, i),
         IsView(Overlay(rows, r.delta)), IsView(Overlay(rows2, r.delta))
  PROVE  Settled(rows2, table2, r, i)
<1> DEFINE view == Overlay(rows, r.delta)
           view2 == Overlay(rows2, r.delta)
           ahead == Overlay(table, r.writes)
           ahead2 == Overlay(table2, r.writes)
<1>1. RowsAt(view, i) = RowsAt(view2, i)
  BY OverlayRowsAt
<1>2. ReplayOf(view, i) = ReplayOf(view2, i)
  BY <1>1, ReplayAt
<1>3. RowAt(ahead, i) = RowAt(ahead2, i)
  BY OverlayRowAt
<1>4. \/ Matches(view, ahead, i)
      \/ RowsAt(view, i) = RowsAt(rows, i) /\ i \notin DOMAIN r.writes
  BY DEF Settled
<1> HIDE DEF view, view2, ahead, ahead2
<1>5. Matches(view, ahead, i) => Matches(view2, ahead2, i)
  BY <1>2, <1>3, MatchesSame
<1>6. \/ Matches(view2, ahead2, i)
      \/ RowsAt(view2, i) = RowsAt(rows2, i) /\ i \notin DOMAIN r.writes
  BY <1>1, <1>4, <1>5
<1>7. QED
  BY <1>6 DEF Settled, view2, ahead2

LEMMA UndisturbedKept ==
  ASSUME NEW rows, NEW rows2, NEW table, NEW table2, NEW r, NEW i,
         Undisturbed(rows, table, r, i), RowsAt(rows, i) = RowsAt(rows2, i),
         RowAt(rows, r.id) = RowAt(rows2, r.id), RowAt(table, i) = RowAt(table2, i),
         IsView(Overlay(rows, r.delta)), IsView(Overlay(rows2, r.delta))
  PROVE  Undisturbed(rows2, table2, r, i)
<1> DEFINE view == Overlay(rows, r.delta)
           view2 == Overlay(rows2, r.delta)
<1>1. ReplayOf(view, i) = ReplayOf(view2, i)
  BY OverlayRowsAt, ReplayAt
<1>2. RowAt(view, r.id) = RowAt(view2, r.id)
  BY OverlayRowAt
<1>3. PositionAt(table, i) = PositionAt(table2, i)
  BY PositionIsRow
<1>4. Settled(rows, table, r, i) => Settled(rows2, table2, r, i)
  BY SettledKept
<1>5. Opened(rows, r) => Opened(rows2, r)
  BY DEF Opened, RowAt
<1>6. /\ r.pc = "flush" => Opened(rows, r)
      /\ r.pc \in {"ledger", "position", "write"} =>
           /\ r.id \in DOMAIN view => view[r.id] = r.obj
           /\ i \notin Behind(r) => Settled(rows, table, r, i)
      /\ r.pc \in {"position", "write"} /\ r.index = i => r.snap = ReplayOf(view, i) /\ r.snap.ok
      /\ r.pc = "write" /\ r.index = i => r.loaded = PositionAt(table, i)
  BY DEF Undisturbed
<1> HIDE DEF view, view2
<1>7. (r.id \in DOMAIN view => view[r.id] = r.obj) => (r.id \in DOMAIN view2 => view2[r.id] = r.obj)
  BY <1>2 DEF RowAt
<1>8. /\ r.pc = "flush" => Opened(rows2, r)
      /\ r.pc \in {"ledger", "position", "write"} =>
           /\ r.id \in DOMAIN view2 => view2[r.id] = r.obj
           /\ i \notin Behind(r) => Settled(rows2, table2, r, i)
      /\ r.pc \in {"position", "write"} /\ r.index = i => r.snap = ReplayOf(view2, i) /\ r.snap.ok
      /\ r.pc = "write" /\ r.index = i => r.loaded = PositionAt(table2, i)
  BY <1>1, <1>3, <1>4, <1>5, <1>6, <1>7
<1>9. QED
  BY <1>8 DEF Undisturbed, view2

-----------------------------------------------------------------------------
(* A step that commits nothing disturbs nobody.                            *)
LEMMA NothingTouched ==
  ASSUME UNCHANGED <<ledger, positions>>, Track, DOMAIN disturbed = DOMAIN req
  PROVE  /\ DOMAIN disturbed' = DOMAIN req'
         /\ \A g \in DOMAIN req' : disturbed'[g] = IF g \in DOMAIN req THEN disturbed[g] ELSE {}
<1>1. ~Commits
  BY DEF Commits
<1>2. \A g : Disturbs(g) = {}
  BY <1>1 DEF Disturbs, Touched
<1>3. QED
  BY <1>2 DEF Track

(* One session advances; the tables stay as they are.                      *)
LEMMA PutOverlap ==
  ASSUME OverlapInv, Track, UNCHANGED <<ledger, positions>>, NEW h, NEW s, Put(h, s), Ordered(s),
         \A i \in Catalog \ (IF h \in DOMAIN req THEN disturbed[h] ELSE {}) :
           Undisturbed(ledger, positions, s, i)
  PROVE  OverlapInv'
<1>1. /\ DOMAIN disturbed' = DOMAIN req'
      /\ \A g \in DOMAIN req' : disturbed'[g] = IF g \in DOMAIN req THEN disturbed[g] ELSE {}
  BY NothingTouched DEF OverlapInv
<1>2. ASSUME NEW g \in DOMAIN req'
      PROVE  /\ Ordered(req'[g])
             /\ \A i \in Catalog \ disturbed'[g] : Undisturbed(ledger', positions', req'[g], i)
  <2>1. CASE g = h
    <3>1. req'[g] = s
      BY <2>1 DEF Put
    <3>2. QED
      BY <1>1, <2>1, <3>1
  <2>2. CASE g # h
    <3>1. g \in DOMAIN req /\ req'[g] = req[g]
      BY <2>2 DEF Put
    <3>2. QED
      BY <1>1, <3>1 DEF OverlapInv
  <2>3. QED
    BY <2>1, <2>2
<1>3. QED
  BY <1>1, <1>2 DEF OverlapInv

(* A session that ends without a commit, or does not begin.                *)
LEMMA RollbackOverlap ==
  ASSUME OverlapInv, Track, NEW h, NEW how, Rollback(h, how) \/ Refuse(h, how)
  PROVE  OverlapInv'
<1>1. UNCHANGED <<ledger, positions>> /\ \A g \in DOMAIN req' : g \in DOMAIN req /\ req'[g] = req[g]
  BY DEF Rollback, Close, Refuse
<1>2. /\ DOMAIN disturbed' = DOMAIN req'
      /\ \A g \in DOMAIN req' : disturbed'[g] = IF g \in DOMAIN req THEN disturbed[g] ELSE {}
  BY <1>1, NothingTouched DEF OverlapInv
<1>3. QED
  BY <1>1, <1>2 DEF OverlapInv

-----------------------------------------------------------------------------
LEMMA CreateOverlap ==
  ASSUME Grain = 1, TypeOK, OverlapInv, Track, NEW h \in Handlers, NEW body \in Payloads,
         Create(h, body)
  PROVE  OverlapInv'
<1>1. CASE body.index_id \notin Catalog
  BY <1>1, RollbackOverlap DEF Create
<1>2. CASE body.index_id \in Catalog
  <2> DEFINE n == begun + 1
             delta == [id \in {n} |-> {Stored(body)}]
             s == [Session("create", n, body, Empty, {body.index_id}) EXCEPT
                     !.pc = "ledger", !.delta = delta]
             view == Overlay(ledger, delta)
  <2>1. body \in Rows /\ n \in Nat /\ n \notin DOMAIN ledger
    BY <1>2, RequestAssumption DEF Rows, Bodies, TypeOK, IsTable
  <2>2. Stored(body) = body /\ Insertable(Stored(body))
    BY <2>1, StoredSame
  <2>3. n \in DOMAIN delta /\ delta[n] = {body} /\ DOMAIN delta = {n}
    BY <2>2
  <2>4. Put(h, s) /\ UNCHANGED <<ledger, positions>>
    BY <1>2, <2>2 DEF Create
  <2>5. /\ s.op = "create" /\ s.pc = "ledger" /\ s.id = n /\ s.obj = body /\ s.delta = delta
        /\ s.writes = Empty /\ s.todo = {body.index_id}
    BY DEF Session
  <2> HIDE DEF n, delta, s
  <2>6. n \in DOMAIN view /\ view[n] = body
    BY <2>3 DEF Overlay
  <2>7. \A i : i # body.index_id => RowsAt(view, i) = RowsAt(ledger, i)
    BY <2>1, <2>3, OtherRows
  <2>8. DOMAIN s.writes = {} /\ Behind(s) = {body.index_id}
    BY <2>5 DEF Behind, Empty
  <2>9. \A i : i \notin Behind(s) => Settled(ledger, positions, s, i)
    BY <2>5, <2>7, <2>8 DEF Settled
  <2>10. \A i : Undisturbed(ledger, positions, s, i)
    BY <2>5, <2>6, <2>9 DEF Undisturbed
  <2>11. Ordered(s)
    BY <2>5, <2>8 DEF Ordered
  <2>12. QED
    BY <2>4, <2>10, <2>11, PutOverlap
<1>3. QED
  BY <1>1, <1>2

(* A session that opens on a row it knows.                                 *)
LEMMA OpenOverlap ==
  ASSUME OverlapInv, Track, UNCHANGED <<ledger, positions>>, NEW h, h \notin DOMAIN req, NEW s,
         Put(h, s), s.pc = "flush", Opened(ledger, s)
  PROVE  OverlapInv'
<1>1. Ordered(s)
  BY DEF Ordered, Opened, Empty
<1>2. \A i : Undisturbed(ledger, positions, s, i)
  BY DEF Undisturbed
<1>3. QED
  BY <1>1, <1>2, PutOverlap

LEMMA UpdateOverlap ==
  ASSUME OverlapInv, Track, NEW h \in Handlers, NEW id, NEW patch, Update(h, id, patch)
  PROVE  OverlapInv'
<1> DEFINE absent == id \notin DOMAIN ledger \/ ("index_id" \in DOMAIN patch /\ patch.index_id \notin Catalog)
<1>1. CASE absent
  BY <1>1, RollbackOverlap DEF Update
<1>2. CASE ~absent
  <2> DEFINE old == ledger[id]
             dirty == {f \in DOMAIN patch : patch[f] # old[f]}
             obj == Amend(old, patch)
             changes == [f \in dirty |-> patch[f]]
             todo == Affected(old, obj)
             s == Session("update", id, obj, changes, todo)
  <2>1. Put(h, s) /\ UNCHANGED <<ledger, positions>> /\ h \notin DOMAIN req
    BY <1>2 DEF Update, Free
  <2>2. obj = Amend(old, changes)
    BY AmendDirty
  <2>3. old.index_id \in todo /\ obj.index_id \in todo
    BY DEF Affected
  <2> HIDE DEF obj, changes, todo
  <2>4. /\ s.op = "update" /\ s.pc = "flush" /\ s.id = id /\ s.obj = obj /\ s.delta = Empty
        /\ s.writes = Empty /\ s.todo = todo /\ s.patch = changes
    BY DEF Session
  <2> HIDE DEF s
  <2>5. Opened(ledger, s)
    BY <1>2, <2>2, <2>3, <2>4 DEF Opened
  <2>6. QED
    BY <2>1, <2>4, <2>5, OpenOverlap
<1>3. QED
  BY <1>1, <1>2

LEMMA DeleteOverlap ==
  ASSUME OverlapInv, Track, NEW h \in Handlers, NEW id, Delete(h, id)
  PROVE  OverlapInv'
<1>1. CASE id \notin DOMAIN ledger
  BY <1>1, RollbackOverlap DEF Delete
<1>2. CASE id \in DOMAIN ledger
  <2> DEFINE s == Session("delete", id, ledger[id], Empty, {ledger[id].index_id})
  <2>1. Put(h, s) /\ UNCHANGED <<ledger, positions>> /\ h \notin DOMAIN req
    BY <1>2 DEF Delete, Free
  <2>2. /\ s.op = "delete" /\ s.pc = "flush" /\ s.id = id /\ s.delta = Empty
        /\ s.writes = Empty /\ s.todo = {ledger[id].index_id}
    BY DEF Session
  <2> HIDE DEF s
  <2>3. Opened(ledger, s)
    BY <1>2, <2>2 DEF Opened
  <2>4. QED
    BY <2>1, <2>2, <2>3, OpenOverlap
<1>3. QED
  BY <1>1, <1>2

-----------------------------------------------------------------------------
(* Whatever the others did, a flush leaves the writes and the indices to   *)
(* recalculate as they were; undisturbed, it makes the intended change.    *)
LEMMA FlushOverlap ==
  ASSUME Grain = 1, TypeOK, OverlapInv, Track, NEW h \in Handlers, Flush(h)
  PROVE  OverlapInv'
<1> DEFINE r == req[h]
<1>1. h \in DOMAIN req /\ r.pc = "flush" /\ SessionOK(r, begun) /\ Ordered(r)
  BY OpenSession DEF Flush, OverlapInv
<1>2. ASSUME NEW delta
      PROVE  LET s == [r EXCEPT !.pc = "ledger", !.delta = delta]
             IN  /\ s.op = r.op /\ s.pc = "ledger" /\ s.id = r.id /\ s.obj = r.obj
                 /\ s.delta = delta /\ s.writes = r.writes /\ s.todo = r.todo
                 /\ Behind(s) = r.todo /\ Ordered(s)
  <2> DEFINE s == [r EXCEPT !.pc = "ledger", !.delta = delta]
  <2>1. /\ s.op = r.op /\ s.pc = "ledger" /\ s.id = r.id /\ s.obj = r.obj
        /\ s.delta = delta /\ s.writes = r.writes /\ s.todo = r.todo
    BY <1>1 DEF SessionOK
  <2> HIDE DEF s
  <2>2. Behind(s) = r.todo /\ Behind(r) = r.todo
    BY <1>1, <2>1 DEF Behind
  <2>3. Ordered(s)
    BY <1>1, <2>1, <2>2 DEF Ordered
  <2>4. QED
    BY <2>1, <2>2, <2>3 DEF s
<1>3. CASE Catalog \ disturbed[h] = {}
  <2>1. \/ \E delta : /\ Put(h, [r EXCEPT !.pc = "ledger", !.delta = delta])
                      /\ UNCHANGED <<ledger, positions>>
        \/ Rollback(h, "error")
    BY DEF Flush
  <2>2. ASSUME NEW delta, Put(h, [r EXCEPT !.pc = "ledger", !.delta = delta]),
               UNCHANGED <<ledger, positions>>
        PROVE  OverlapInv'
    <3> DEFINE s == [r EXCEPT !.pc = "ledger", !.delta = delta]
    <3>1. Ordered(s) /\ Put(h, s)
      BY <1>2, <2>2
    <3> HIDE DEF s
    <3>2. QED
      BY <1>1, <1>3, <2>2, <3>1, PutOverlap
  <2>3. QED
    BY <2>1, <2>2, RollbackOverlap
<1>4. CASE Catalog \ disturbed[h] # {}
  <2>1. Opened(ledger, r)
    BY <1>1, <1>4 DEF OverlapInv, Undisturbed
  <2>2. PICK delta : /\ RightChange(r, delta)
                     /\ Put(h, [r EXCEPT !.pc = "ledger", !.delta = delta])
                     /\ UNCHANGED <<ledger, positions, begun, answer>>
    BY <2>1, FlushChange
  <2> DEFINE s == [r EXCEPT !.pc = "ledger", !.delta = delta]
  <2>3. /\ s.pc = "ledger" /\ s.id = r.id /\ s.obj = r.obj /\ s.delta = delta
        /\ s.writes = r.writes /\ s.todo = r.todo /\ Behind(s) = r.todo /\ Ordered(s)
    BY <1>2
  <2>4. Put(h, s) /\ UNCHANGED <<ledger, positions>>
    BY <2>2
  <2> HIDE DEF s, r
  <2>5. ASSUME NEW i, i \notin r.todo
        PROVE  RowsAt(Overlay(ledger, delta), i) = RowsAt(ledger, i)
    <3>1. /\ DOMAIN delta \subseteq {r.id}
          /\ r.id \in DOMAIN delta => delta[r.id] = {} \/ \E row : delta[r.id] = {row} /\ row.index_id # i
      BY <2>2, <2>5 DEF RightChange, IsDelta
    <3>2. ledger[r.id].index_id # i
      BY <2>1, <2>5 DEF Opened
    <3>3. QED
      BY <3>1, <3>2, OtherRows
  <2>6. DOMAIN s.writes = {}
    BY <2>1, <2>3 DEF Opened, Empty
  <2>7. \A i : i \notin Behind(s) => Settled(ledger, positions, s, i)
    BY <2>3, <2>5, <2>6 DEF Settled
  <2>8. s.id \in DOMAIN Overlay(ledger, s.delta) => Overlay(ledger, s.delta)[s.id] = s.obj
    BY <2>2, <2>3 DEF RightChange
  <2>9. \A i : Undisturbed(ledger, positions, s, i)
    BY <2>3, <2>7, <2>8 DEF Undisturbed
  <2>10. QED
    BY <2>3, <2>4, <2>9, PutOverlap
<1>5. QED
  BY <1>3, <1>4


LEMMA SelectLedgerOverlap ==
  ASSUME TypeOK, OverlapInv, Track, NEW h \in Handlers, SelectLedger(h)
  PROVE  OverlapInv'
<1> DEFINE r == req[h]
           mem == [id \in {r.id} |-> r.obj]
           view == Overlay(ledger, r.delta)
<1>1. h \in DOMAIN req /\ r.pc = "ledger" /\ SessionOK(r, begun) /\ begun \in Nat /\ Ordered(r)
  BY OpenSession DEF SelectLedger, OverlapInv
<1>2. PICK i \in r.todo : \E txs \in {Selected(view, mem, i)} : \E snap \in {Replay(txs)} :
        IF snap.ok
        THEN /\ Put(h, [r EXCEPT !.pc = "position", !.todo = @ \ {i}, !.index = i, !.snap = snap])
             /\ UNCHANGED <<ledger, positions, begun, answer>>
        ELSE Rollback(h, "insufficient")
  BY DEF SelectLedger
<1> DEFINE snap == Replay(Selected(view, mem, i))
           s == [r EXCEPT !.pc = "position", !.todo = @ \ {i}, !.index = i, !.snap = snap]
<1>3. \/ snap.ok /\ Put(h, s) /\ UNCHANGED <<ledger, positions>>
      \/ Rollback(h, "insufficient")
  BY <1>2
<1>4. ASSUME r.id \in DOMAIN view => view[r.id] = r.obj
      PROVE  snap = ReplayOf(view, i)
  <2>1. IsDelta(r.delta, 1 .. begun, Rows)
    BY <1>1 DEF IsDelta, SessionOK
  <2>2. IsView(view)
    BY <1>1, <2>1, SessionViews DEF TypeOK
  <2>3. \A id \in DOMAIN mem : id \in RowsOf(view, i) => mem[id] = view[id]
    BY <1>4 DEF RowsOf
  <2> HIDE DEF mem, view
  <2>4. Selected(view, mem, i) = Selected(view, Empty, i)
    BY <2>2, <2>3, SelectedSame
  <2>5. QED
    BY <2>4 DEF ReplayOf
<1> HIDE DEF snap
<1>5. /\ s.op = r.op /\ s.pc = "position" /\ s.id = r.id /\ s.obj = r.obj /\ s.delta = r.delta
      /\ s.writes = r.writes /\ s.todo = r.todo \ {i} /\ s.index = i /\ s.snap = snap
  BY <1>1 DEF SessionOK
<1> HIDE DEF s
<1>6. Behind(s) = Behind(r)
  BY <1>1, <1>2, <1>5 DEF Behind
<1>7. Ordered(s)
  BY <1>1, <1>5, <1>6 DEF Ordered
<1>8. ASSUME snap.ok, NEW j \in Catalog \ disturbed[h]
      PROVE  Undisturbed(ledger, positions, s, j)
  <2>1. /\ r.id \in DOMAIN view => view[r.id] = r.obj
        /\ j \notin Behind(r) => Settled(ledger, positions, r, j)
    BY <1>1 DEF OverlapInv, Undisturbed
  <2>2. snap = ReplayOf(view, i)
    BY <1>4, <2>1
  <2>3. Settled(ledger, positions, r, j) => Settled(ledger, positions, s, j)
    BY <1>5 DEF Settled
  <2> HIDE DEF r
  <2>4. QED
    BY <1>5, <1>6, <1>8, <2>1, <2>2, <2>3 DEF Undisturbed
<1>9. QED
  BY <1>1, <1>3, <1>7, <1>8, PutOverlap, RollbackOverlap

LEMMA SelectPositionOverlap ==
  ASSUME TypeOK, OverlapInv, Track, NEW h \in Handlers, SelectPosition(h)
  PROVE  OverlapInv'
<1> DEFINE r == req[h]
           rows == PositionAt(positions, r.index)
           s == [r EXCEPT !.pc = "write", !.loaded = rows]
<1>1. h \in DOMAIN req /\ r.pc = "position" /\ SessionOK(r, begun) /\ Ordered(r)
  BY OpenSession DEF SelectPosition, OverlapInv
<1>2. Put(h, s) /\ UNCHANGED <<ledger, positions>>
  BY DEF SelectPosition, PositionAt
<1> HIDE DEF rows
<1>3. /\ s.op = r.op /\ s.pc = "write" /\ s.id = r.id /\ s.obj = r.obj /\ s.delta = r.delta
      /\ s.writes = r.writes /\ s.todo = r.todo /\ s.index = r.index /\ s.snap = r.snap
      /\ s.loaded = rows
  BY <1>1 DEF SessionOK
<1> HIDE DEF s
<1>4. Behind(s) = Behind(r)
  BY <1>1, <1>3 DEF Behind
<1>5. Ordered(s)
  BY <1>1, <1>3, <1>4 DEF Ordered
<1>6. ASSUME NEW j \in Catalog \ disturbed[h]
      PROVE  Undisturbed(ledger, positions, s, j)
  <2>1. Undisturbed(ledger, positions, r, j)
    BY <1>1 DEF OverlapInv
  <2>2. Settled(ledger, positions, r, j) => Settled(ledger, positions, s, j)
    BY <1>3 DEF Settled
  <2> HIDE DEF r
  <2>3. QED
    BY <1>1, <1>3, <1>4, <2>1, <2>2 DEF Undisturbed, rows
<1>7. QED
  BY <1>1, <1>2, <1>5, <1>6, PutOverlap

-----------------------------------------------------------------------------
(* A position write brings the index at hand to what the session sees of   *)
(* it, if nobody disturbed it, and touches no other.                       *)
LEMMA WriteSettled ==
  ASSUME Grain = 1, TypeOK, OverlapInv, NEW h \in DOMAIN req, req[h].pc = "write",
         NEW i \in Catalog \ disturbed[h], i \notin req[h].todo
  PROVE  LET r == req[h]
             view == Overlay(ledger, r.delta)
         IN  \/ Matches(view, Overlay(positions, PositionWrites(r)), i)
             \/ RowsAt(view, i) = RowsAt(ledger, i) /\ i \notin DOMAIN PositionWrites(r)
<1> DEFINE r == req[h]
           view == Overlay(ledger, r.delta)
<1>1. SessionOK(r, begun) /\ Undisturbed(ledger, positions, r, i) /\ Ordered(r)
  BY OpenSession DEF OverlapInv
<1>2. Behind(r) = r.todo \cup {r.index}
  BY DEF Behind
<1>3. CASE i = r.index
  <2>1. r.snap = ReplayOf(view, i) /\ r.snap.ok /\ r.loaded = PositionAt(positions, i)
    BY <1>1, <1>3 DEF Undisturbed
  <2>2. Loaded(r)
    BY <1>1, <1>2, <1>3, <2>1 DEF Loaded, Ordered, PositionAt
  <2>3. Matches(view, Overlay(positions, PositionWrites(r)), r.index)
    BY <1>3, <2>1, <2>2, WrittenMatches
  <2>4. QED
    BY <1>3, <2>3
<1>4. CASE i # r.index
  <2>1. Settled(ledger, positions, r, i)
    BY <1>1, <1>2, <1>4 DEF Undisturbed
  <2>2. CASE Matches(view, Overlay(positions, r.writes), i)
    <3> HIDE DEF view
    <3>1. Matches(view, Overlay(positions, PositionWrites(r)), i)
      BY <1>4, <2>2, OthersKept
    <3>2. QED
      BY <3>1 DEF view
  <2>3. CASE RowsAt(view, i) = RowsAt(ledger, i) /\ i \notin DOMAIN r.writes
    <3>1. DOMAIN PositionWrites(r) \subseteq DOMAIN r.writes \cup {r.index}
      BY DEF PositionWrites
    <3>2. QED
      BY <1>4, <2>3, <3>1
  <2>4. QED
    BY <2>1, <2>2, <2>3 DEF Settled
<1>5. QED
  BY <1>3, <1>4

LEMMA AutoflushOverlap ==
  ASSUME Grain = 1, TypeOK, OverlapInv, Track, NEW h \in Handlers, Autoflush(h)
  PROVE  OverlapInv'
<1> DEFINE r == req[h]
           writes == PositionWrites(r)
           s == [r EXCEPT !.pc = "ledger", !.writes = writes]
           view == Overlay(ledger, r.delta)
<1>1. h \in DOMAIN req /\ r.pc = "write" /\ SessionOK(r, begun) /\ Ordered(r)
  BY OpenSession DEF Autoflush, Writing, OverlapInv
<1>2. CASE WriteFails(r)
  BY <1>2, RollbackOverlap DEF Autoflush
<1>3. CASE ~WriteFails(r)
  <2>1. Put(h, s) /\ UNCHANGED <<ledger, positions>>
    BY <1>3 DEF Autoflush
  <2>2. DOMAIN writes \cap r.todo = {}
    <3>1. DOMAIN writes \subseteq DOMAIN r.writes \cup {r.index}
      BY DEF PositionWrites
    <3>2. DOMAIN r.writes \cap r.todo = {} /\ r.index \notin r.todo
      BY <1>1 DEF Ordered, Behind
    <3>3. QED
      BY <3>1, <3>2
  <2>3. ASSUME NEW j \in Catalog \ disturbed[h], j \notin r.todo
        PROVE  \/ Matches(view, Overlay(positions, writes), j)
               \/ RowsAt(view, j) = RowsAt(ledger, j) /\ j \notin DOMAIN writes
    BY <1>1, <2>3, WriteSettled
  <2> HIDE DEF writes
  <2>4. /\ s.op = r.op /\ s.pc = "ledger" /\ s.id = r.id /\ s.obj = r.obj /\ s.delta = r.delta
        /\ s.writes = writes /\ s.todo = r.todo
    BY <1>1 DEF SessionOK
  <2> HIDE DEF s
  <2>5. Behind(s) = r.todo
    BY <2>4 DEF Behind
  <2>6. Ordered(s)
    BY <2>2, <2>4, <2>5 DEF Ordered
  <2>7. ASSUME NEW j \in Catalog \ disturbed[h]
        PROVE  Undisturbed(ledger, positions, s, j)
    <3>1. r.id \in DOMAIN view => view[r.id] = r.obj
      BY <1>1 DEF OverlapInv, Undisturbed
    <3>2. j \notin Behind(s) => Settled(ledger, positions, s, j)
      BY <2>3, <2>4, <2>5 DEF Settled
    <3> HIDE DEF r
    <3>3. QED
      BY <2>4, <3>1, <3>2 DEF Undisturbed
  <2>8. QED
    BY <1>1, <2>1, <2>6, <2>7, PutOverlap
<1>4. QED
  BY <1>2, <1>3

-----------------------------------------------------------------------------
(* What a commit that goes through does to the tables and the sessions.    *)
LEMMA CommitStep ==
  ASSUME NEW h \in Handlers, Commit(h), ~WriteFails(req[h])
  PROVE  /\ h \in DOMAIN req /\ req[h].pc = "write" /\ req[h].todo = {}
         /\ ledger' = Overlay(ledger, req[h].delta)
         /\ positions' = Overlay(positions, PositionWrites(req[h]))
         /\ \A g \in Handlers : g # h =>
              (g \in DOMAIN req' <=> g \in DOMAIN req) /\ (g \in DOMAIN req => req'[g] = req[g])
         /\ h \in DOMAIN req' =>
              /\ h \in DOMAIN req
              /\ req'[h] = [req[h] EXCEPT !.pc = "refresh", !.delta = Empty, !.writes = Empty]
<1> DEFINE s == [req[h] EXCEPT !.pc = "refresh", !.delta = Empty, !.writes = Empty]
<1>1. Close(h, "ok") \/ Put(h, s)
  BY DEF Commit
<1> HIDE DEF s
<1>2. /\ \A g \in Handlers : g # h =>
           (g \in DOMAIN req' <=> g \in DOMAIN req) /\ (g \in DOMAIN req => req'[g] = req[g])
      /\ h \in DOMAIN req' => req'[h] = s
  BY <1>1 DEF Close, Put
<1>3. h \in DOMAIN req /\ req[h].pc = "write" /\ req[h].todo = {}
  BY DEF Commit, Writing
<1>4. /\ ledger' = Overlay(ledger, req[h].delta)
      /\ positions' = Overlay(positions, PositionWrites(req[h]))
  BY DEF Commit
<1>5. QED
  BY <1>2, <1>3, <1>4 DEF s

LEMMA RowChangedAt ==
  ASSUME NEW id, ~RowChanged(id)
  PROVE  RowAt(ledger, id) = RowAt(ledger', id)
BY DEF RowChanged, RowAt

LEMMA CommitOverlap ==
  ASSUME TypeOK, TypeOK', OverlapInv, Track, NEW h \in Handlers, Commit(h)
  PROVE  OverlapInv'
<1>1. CASE WriteFails(req[h])
  BY <1>1, RollbackOverlap DEF Commit
<1>2. CASE ~WriteFails(req[h])
  <2>1. /\ h \in DOMAIN req
        /\ \A g \in Handlers : g # h =>
             (g \in DOMAIN req' <=> g \in DOMAIN req) /\ (g \in DOMAIN req => req'[g] = req[g])
        /\ h \in DOMAIN req' =>
             req'[h] = [req[h] EXCEPT !.pc = "refresh", !.delta = Empty, !.writes = Empty]
    BY <1>2, CommitStep
  <2>2. DOMAIN disturbed' = DOMAIN req'
    BY DEF Track
  <2>3. ASSUME NEW g \in DOMAIN req', g = h
        PROVE  /\ Ordered(req'[g])
               /\ \A i \in Catalog \ disturbed'[g] : Undisturbed(ledger', positions', req'[g], i)
    <3> DEFINE s == [req[h] EXCEPT !.pc = "refresh", !.delta = Empty, !.writes = Empty]
    <3>1. s.pc = "refresh" /\ s.writes = Empty
      BY <2>1, OpenSession DEF SessionOK
    <3> HIDE DEF s
    <3>2. Ordered(s) /\ \A i : Undisturbed(ledger', positions', s, i)
      BY <3>1 DEF Ordered, Undisturbed, Empty
    <3>3. req'[g] = s
      BY <2>1, <2>3 DEF s
    <3>4. QED
      BY <3>2, <3>3
  <2>4. ASSUME NEW g \in DOMAIN req', g # h
        PROVE  /\ Ordered(req'[g])
               /\ \A i \in Catalog \ disturbed'[g] : Undisturbed(ledger', positions', req'[g], i)
    <3>1. g \in DOMAIN req /\ req'[g] = req[g]
      BY <2>1, <2>4 DEF TypeOK
    <3>2. disturbed'[g] = disturbed[g] \cup Disturbs(g)
      BY <3>1 DEF Track
    <3>3. ASSUME NEW i \in Catalog \ disturbed'[g]
          PROVE  Undisturbed(ledger', positions', req[g], i)
      <4>1. Undisturbed(ledger, positions, req[g], i)
        BY <3>1, <3>2 DEF OverlapInv
      <4>2. CASE ~Commits
        BY <4>1, <4>2 DEF Commits
      <4>3. CASE Commits
        <5>1. ~RowChanged(req[g].id) /\ i \notin Touched
          BY <3>2, <4>3 DEF Disturbs
        <5>2. RowsAt(ledger, i) = RowsAt(ledger', i) /\ PositionAt(positions, i) = PositionAt(positions', i)
          BY <4>3, <5>1 DEF Touched
        <5>3. RowAt(positions, i) = RowAt(positions', i)
          BY <5>2, PositionIsRow
        <5>4. RowAt(ledger, req[g].id) = RowAt(ledger', req[g].id)
          BY <5>1, RowChangedAt
        <5>5. IsView(Overlay(ledger, req[g].delta)) /\ IsView(Overlay(ledger', req[g].delta))
          <6>1. /\ SessionOK(req[g], begun) /\ SessionOK(req[g], begun')
                /\ begun \in Nat /\ begun' \in Nat
                /\ IsTable(ledger, 1 .. begun, Rows) /\ IsTable(ledger', 1 .. begun', Rows)
            BY <3>1, RequestAssumption DEF TypeOK
          <6>2. /\ IsDelta(req[g].delta, 1 .. begun, Rows)
                /\ IsDelta(req[g].delta, 1 .. begun', Rows)
            BY <6>1 DEF SessionOK, IsDelta
          <6>3. QED
            BY <6>1, <6>2, OverlayType, RowsAreView
        <5>6. QED
          BY <4>1, <5>2, <5>3, <5>4, <5>5, UndisturbedKept
      <4>4. QED
        BY <4>2, <4>3
    <3>4. Ordered(req[g])
      BY <3>1 DEF OverlapInv
    <3>5. QED
      BY <3>1, <3>3, <3>4
  <2>5. QED
    BY <2>2, <2>3, <2>4 DEF OverlapInv
<1>3. QED
  BY <1>1, <1>2

LEMMA OverlapNext ==
  ASSUME Grain = 1, TypeOK, TypeOK', OverlapInv, [ONext]_ovars
  PROVE  OverlapInv'
<1>1. CASE UNCHANGED ovars
  BY <1>1 DEF ovars, vars, OverlapInv
<1>2. CASE ONext
  <2>1. Track /\ Next
    BY <1>2 DEF ONext
  <2>2. ASSUME NEW h \in Handlers, Begin(h) PROVE OverlapInv'
    BY <2>1, <2>2, CreateOverlap, UpdateOverlap, DeleteOverlap DEF Begin
  <2>3. ASSUME NEW h \in Handlers, Step(h) PROVE OverlapInv'
    <3>1. Refresh(h) => OverlapInv'
      BY <2>1, RollbackOverlap DEF Refresh
    <3>2. QED
      BY <2>1, <2>3, <3>1, FlushOverlap, SelectLedgerOverlap, SelectPositionOverlap, AutoflushOverlap,
         CommitOverlap DEF Step
  <2>4. ASSUME NEW h \in Handlers, DeadlockVictim(h) \/ Crash(h) PROVE OverlapInv'
    BY <2>1, <2>4, RollbackOverlap DEF DeadlockVictim, Crash
  <2>5. QED
    BY <2>1, <2>2, <2>3, <2>4 DEF Next
<1>3. QED
  BY <1>1, <1>2

LEMMA OverlapInit ==
  ASSUME OInit
  PROVE  OverlapInv
BY DEF OInit, Init, Empty, OverlapInv

-----------------------------------------------------------------------------
(* Only a commit changes the tables, and only for its own handler.         *)
LEMMA WhoCommits ==
  ASSUME TypeOK, Next, Commits
  PROVE  \E h \in Handlers : /\ Commit(h) /\ ~WriteFails(req[h])
                             /\ Committer(h)
                             /\ \A g \in Handlers : Committer(g) => g = h
<1>1. <<ledger, positions>>' # <<ledger, positions>>
  BY DEF Commits
<1>2. PICK h \in Handlers : Commit(h) /\ ~WriteFails(req[h])
  BY <1>1, OnlyCommits
<1>3. /\ h \in DOMAIN req /\ req[h].pc = "write"
      /\ \A g \in Handlers : g # h =>
           (g \in DOMAIN req' <=> g \in DOMAIN req) /\ (g \in DOMAIN req => req'[g] = req[g])
      /\ h \in DOMAIN req' =>
           req'[h] = [req[h] EXCEPT !.pc = "refresh", !.delta = Empty, !.writes = Empty]
  BY <1>2, CommitStep
<1>4. \A g \in Handlers : Committer(g) => g = h
  BY <1>3 DEF Committer
<1>5. Committer(h)
  <2> DEFINE s == [req[h] EXCEPT !.pc = "refresh", !.delta = Empty, !.writes = Empty]
  <2>1. s.pc = "refresh"
    BY <1>3, OpenSession DEF SessionOK
  <2>2. s # req[h]
    BY <1>3, <2>1
  <2>3. QED
    BY <1>3, <2>2 DEF Committer
<1>6. QED
  BY <1>2, <1>4, <1>5

(* On an index nobody disturbed, a commit leaves the right position or     *)
(* changes nothing.                                                        *)
LEMMA CommitSettles ==
  ASSUME Grain = 1, TypeOK, OverlapInv, NEW h \in Handlers, Commit(h), ~WriteFails(req[h]),
         NEW i \in Catalog \ disturbed[h]
  PROVE  \/ Matches(ledger', positions', i)
         \/ /\ RowsAt(ledger', i) = RowsAt(ledger, i)
            /\ RowAt(positions', i) = RowAt(positions, i)
<1>1. /\ h \in DOMAIN req /\ req[h].pc = "write" /\ req[h].todo = {}
      /\ ledger' = Overlay(ledger, req[h].delta)
      /\ positions' = Overlay(positions, PositionWrites(req[h]))
  BY CommitStep
<1>2. \/ Matches(ledger', positions', i)
      \/ RowsAt(ledger', i) = RowsAt(ledger, i) /\ i \notin DOMAIN PositionWrites(req[h])
  BY <1>1, WriteSettled
<1>3. i \notin DOMAIN PositionWrites(req[h]) => RowAt(positions', i) = RowAt(positions, i)
  <2> DEFINE writes == PositionWrites(req[h])
  <2>1. i \notin DOMAIN writes =>
          /\ i \in DOMAIN Overlay(positions, writes) <=> i \in DOMAIN positions
          /\ i \in DOMAIN positions => Overlay(positions, writes)[i] = positions[i]
    BY OverlayAt
  <2> HIDE DEF writes
  <2>2. i \notin DOMAIN writes => RowAt(Overlay(positions, writes), i) = RowAt(positions, i)
    BY <2>1 DEF RowAt
  <2>3. QED
    BY <1>1, <2>2 DEF writes
<1>4. QED
  BY <1>2, <1>3

(* However many requests overlap, and whatever earlier races left behind,  *)
(* a commit leaves every index it touches with the position its ledger     *)
(* replays to, unless another commit touched that index, or the very row   *)
(* of the request, while it ran.                                           *)
THEOREM RecalculationRepairs ==
  ASSUME Grain = 1
  PROVE  OSpec => UndisturbedCommitRepairs
<1>1. OInit => OverlapInv /\ TypeOK
  BY OverlapInit, RequestAssumption DEF OInit, Init, TypeOK, IsTable, Empty, Answers
<1>2. TypeOK /\ [ONext]_ovars => TypeOK'
  BY NextType DEF ONext, ovars, vars
<1>3. TypeOK /\ TypeOK' /\ OverlapInv /\ [ONext]_ovars => OverlapInv'
  BY OverlapNext
<1>4. ASSUME TypeOK, OverlapInv, ONext, Commits, NEW g \in Handlers, Committer(g),
             NEW i \in Touched \ disturbed[g]
      PROVE  Matches(ledger', positions', i)
  <2>1. Commit(g) /\ ~WriteFails(req[g])
    BY <1>4, WhoCommits DEF ONext
  <2>2. i \in Catalog \ disturbed[g]
    BY DEF Touched
  <2>3. ~(RowsAt(ledger', i) = RowsAt(ledger, i) /\ RowAt(positions', i) = RowAt(positions, i))
    BY PositionIsRow DEF Touched
  <2>4. QED
    BY <1>4, <2>1, <2>2, <2>3, CommitSettles
<1>5. TypeOK /\ OverlapInv /\ [ONext]_ovars =>
        [Commits => \A h \in Handlers : Committer(h) =>
           \A i \in Touched \ disturbed[h] : Matches(ledger', positions', i)]_ovars
  BY <1>4
<1>6. QED
  BY <1>1, <1>2, <1>3, <1>5, PTL DEF OSpec, UndisturbedCommitRepairs

(* However many requests overlap, a position that matched its ledger is    *)
(* only made wrong by a commit whose request was disturbed on that index:  *)
(* requests on different holdings and rows cannot hurt each other.         *)
THEOREM RacesHurtNobodyElse ==
  ASSUME Grain = 1
  PROVE  OSpec => OnlyDisturbedCommitsDamage
<1>1. OInit => OverlapInv /\ TypeOK
  BY OverlapInit, RequestAssumption DEF OInit, Init, TypeOK, IsTable, Empty, Answers
<1>2. TypeOK /\ [ONext]_ovars => TypeOK'
  BY NextType DEF ONext, ovars, vars
<1>3. TypeOK /\ TypeOK' /\ OverlapInv /\ [ONext]_ovars => OverlapInv'
  BY OverlapNext
<1>4. ASSUME TypeOK, TypeOK', OverlapInv, ONext, Commits, NEW i \in Catalog,
             Matches(ledger, positions, i), ~Matches(ledger', positions', i)
      PROVE  \E h \in Handlers : Committer(h) /\ i \in disturbed[h]
  <2>1. PICK h \in Handlers : Commit(h) /\ ~WriteFails(req[h]) /\ Committer(h)
    BY <1>4, WhoCommits DEF ONext
  <2>2. IsView(ledger) /\ IsView(ledger')
    <3>1. /\ IsTable(ledger, 1 .. begun, Rows) /\ IsTable(ledger', 1 .. begun', Rows)
          /\ begun \in Nat /\ begun' \in Nat
      BY <1>4, RequestAssumption DEF TypeOK
    <3>2. QED
      BY <3>1, RowsAreView
  <2>3. RowsAt(ledger', i) = RowsAt(ledger, i) => ReplayOf(ledger, i) = ReplayOf(ledger', i)
    BY <2>2, ReplayAt
  <2>4. ~(RowsAt(ledger', i) = RowsAt(ledger, i) /\ RowAt(positions', i) = RowAt(positions, i))
    BY <1>4, <2>3, MatchesSame
  <2>5. i \in disturbed[h]
    BY <1>4, <2>1, <2>4, CommitSettles
  <2>6. QED
    BY <2>1, <2>5
<1>5. TypeOK /\ TypeOK' /\ OverlapInv /\ [ONext]_ovars =>
        [Commits => \A i \in Catalog : Matches(ledger, positions, i) /\ ~Matches(ledger', positions', i) =>
           \E h \in Handlers : Committer(h) /\ i \in disturbed[h]]_ovars
  BY <1>4
<1>6. QED
  BY <1>1, <1>2, <1>3, <1>5, PTL DEF OSpec, OnlyDisturbedCommitsDamage
==============================================================================
