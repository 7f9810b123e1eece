-------------------------------- MODULE Ledger --------------------------------
(***************************************************************************)
(* TransactionService.create / update / delete with                        *)
(* PositionService.recalculate_for_user_index: concurrent request handlers *)
(* of the API over one PostgreSQL database at READ COMMITTED, for the      *)
(* singleton user.  A handler is a coroutine with its own session; every   *)
(* await on a statement is a point where another handler can run.          *)
(*                                                                         *)
(* Requests are numbered in the order they begin.  The number stands for   *)
(* the clock of the database (created_at is the start of the inserting     *)
(* transaction) and for the uuid of every row the request inserts.         *)
(***************************************************************************)
EXTENDS LedgerView

CONSTANTS Handlers,     \* coroutines serving portfolio requests
          Catalog,      \* ids present in the indices table
          Payloads,     \* TransactionCreate bodies
          Patches,      \* TransactionUpdate bodies: the fields that are not None
          MaxRequests   \* bound: requests begun in a behaviour

ASSUME RequestAssumption ==
  /\ MaxRequests \in Nat
  /\ \A body \in Payloads : body \in Bodies({body.index_id})
  /\ \A patch \in Patches : IsPatch(patch, {patch[f] : f \in DOMAIN patch})

VARIABLES ledger,       \* committed rows of transactions, by id
          positions,    \* committed rows of positions, by index
          begun,        \* number of requests begun so far
          req,          \* the open session of each handler that serves a request
          answer        \* how the last request of each handler ended

vars == <<ledger, positions, begun, req, answer>>

(* A table as seen through uncommitted changes: delta maps a key to {} (row *)
(* deleted) or to the singleton of the row's new version.                  *)
Overlay(table, delta) ==
  [k \in {j \in DOMAIN table \cup DOMAIN delta : j \in DOMAIN delta => delta[j] # {}} |->
     IF k \in DOMAIN delta THEN CHOOSE r \in delta[k] : TRUE ELSE table[k]]

Stored(row) == [row EXCEPT !.quantity = StoredQuantity(@)]

(* ck_transactions_quantity_positive, after the column's rounding.         *)
Insertable(row) == row.quantity > 0

-----------------------------------------------------------------------------
Init ==
  /\ ledger = Empty
  /\ positions = Empty
  /\ begun = 0
  /\ req = Empty
  /\ answer = [h \in Handlers |-> "none"]

(* A session at its first statement.                                       *)
Session(op, id, obj, patch, todo) ==
  [pc |-> "flush", op |-> op, num |-> begun + 1, id |-> id, obj |-> obj, patch |-> patch,
   delta |-> Empty, todo |-> todo, index |-> obj.index_id, snap |-> Flat,
   loaded |-> {}, writes |-> Empty]

Put(h, session) ==
  req' = [g \in DOMAIN req \cup {h} |-> IF g = h THEN session ELSE req[g]]

Close(h, how) ==
  /\ req' = [g \in DOMAIN req \ {h} |-> req[g]]
  /\ answer' = [answer EXCEPT ![h] = how]

(* Mutant: the session of a failed request is never closed. *)
RollbackLeaks(h, how) ==
  /\ req' = [req EXCEPT ![h].pc = "leaked"]
  /\ answer' = [answer EXCEPT ![h] = how]
  /\ UNCHANGED <<ledger, positions, begun>>

(* The session is closed without a commit: PostgreSQL rolls back.          *)
Rollback(h, how) == Close(h, how) /\ UNCHANGED <<ledger, positions, begun>>

Free(h) == h \notin DOMAIN req /\ begun < MaxRequests

Refuse(h, how) ==
  /\ begun' = begun + 1
  /\ answer' = [answer EXCEPT ![h] = how]
  /\ UNCHANGED <<ledger, positions, req>>

(* create: user and index exist, INSERT flushed.  Nobody else sees the row *)
(* before the commit, so checking and inserting are one step.              *)
Create(h, body) ==
  /\ Free(h)
  /\ IF body.index_id \notin Catalog THEN Refuse(h, "not_found")
     ELSE IF ~Insertable(Stored(body)) THEN Refuse(h, "error")
     ELSE /\ Put(h, [Session("create", begun + 1, body, Empty, {body.index_id}) EXCEPT
                       !.pc = "ledger",
                       !.delta = [id \in {begun + 1} |-> {Stored(body)}]])
          /\ begun' = begun + 1
          /\ UNCHANGED <<ledger, positions, answer>>

(* Mutant: the index a transaction moves away from is not recalculated. *)
AffectedAfter(old, obj) == {obj.index_id}

(* affected_index_ids = {old_index_id, transaction.index_id}               *)
Affected(old, obj) == {old.index_id, obj.index_id}

(* update, up to the flush: session.get, then assign the fields given.     *)
Update(h, id, patch) ==
  /\ Free(h)
  /\ IF id \notin DOMAIN ledger \/ ("index_id" \in DOMAIN patch /\ patch.index_id \notin Catalog)
     THEN Refuse(h, "not_found")
     ELSE LET old == ledger[id]
              dirty == {f \in DOMAIN patch : patch[f] # old[f]}
              obj == Amend(old, patch)
          IN  /\ Put(h, Session("update", id, obj, [f \in dirty |-> patch[f]], Affected(old, obj)))
              /\ begun' = begun + 1
              /\ UNCHANGED <<ledger, positions, answer>>

(* delete, up to the flush.                                                *)
Delete(h, id) ==
  /\ Free(h)
  /\ IF id \notin DOMAIN ledger THEN Refuse(h, "not_found")
     ELSE /\ Put(h, Session("delete", id, ledger[id], Empty, {ledger[id].index_id}))
          /\ begun' = begun + 1
          /\ UNCHANGED <<ledger, positions, answer>>

-----------------------------------------------------------------------------
(* Mutants: an empty holding kept as a row; a position always inserted. *)
PendingKeepsEmpty(r) == IF r.loaded = {} THEN "insert" ELSE "update"

PendingInserts(r) ==
  IF r.snap.quantity = 0 THEN IF r.loaded = {} THEN "nothing" ELSE "delete" ELSE "insert"

(* What the next write of a recalculated position is: position.* assigned  *)
(* on a loaded row, session.add, session.delete, or nothing to emit.       *)
Pending(r) ==
  IF r.snap.quantity = 0 THEN IF r.loaded = {} THEN "nothing" ELSE "delete"
  ELSE IF r.loaded = {} THEN "insert"
  ELSE IF \E row \in r.loaded : NetChanges(r.snap, row) = {} THEN "nothing" ELSE "update"

(* The row the session loaded is still the committed one.                  *)
OnTarget(r) ==
  /\ r.index \in DOMAIN positions
  /\ \E row \in r.loaded : positions[r.index].pid = row.pid

(* Row locks: a writer waits for the session that wrote the same row first *)
(* or, for an insert, the same unique (user, index) key.                   *)
WaitsFor(h, g) ==
  LET r == req[h]
  IN  \/ /\ r.pc = "flush"
         /\ r.op = "delete" \/ r.patch # Empty
         /\ r.id \in DOMAIN ledger \cap DOMAIN req[g].delta
      \/ /\ r.pc = "write"
         /\ r.index \in DOMAIN req[g].writes
         /\ \/ Pending(r) = "insert"
            \/ Pending(r) \in {"update", "delete"} /\ OnTarget(r)

Blocked(h) == \E g \in DOMAIN req \ {h} : WaitsFor(h, g)

(* session.flush() of the changed or deleted transactions row.             *)
Flush(h) ==
  /\ h \in DOMAIN req
  /\ req[h].pc = "flush"
  /\ ~Blocked(h)
  /\ LET r == req[h]
         new == Stored(Amend(ledger[r.id], r.patch))
         Flushed(delta) ==
           /\ Put(h, [r EXCEPT !.pc = "ledger", !.delta = delta])
           /\ UNCHANGED <<ledger, positions, begun, answer>>
     IN  CASE r.op = "delete" -> Flushed([id \in {r.id} |-> {}])
           [] r.op = "update" /\ r.patch = Empty -> Flushed(Empty)
           [] OTHER -> IF r.id \in DOMAIN ledger /\ Insertable(new)
                       THEN Flushed([id \in {r.id} |-> {new}])
                       ELSE Rollback(h, "error")  \* StaleDataError, check constraint

(* recalculate: select the transactions of one affected index and replay.  *)
SelectLedger(h) ==
  /\ h \in DOMAIN req
  /\ req[h].pc = "ledger"
  /\ \E i \in req[h].todo, view \in {Overlay(ledger, req[h].delta)} :
       \E txs \in {Selected(view, [id \in {req[h].id} |-> req[h].obj], i)} :
       \E snap \in {Replay(txs)} :
         IF snap.ok
         THEN /\ Put(h, [req[h] EXCEPT !.pc = "position", !.todo = @ \ {i},
                                       !.index = i, !.snap = snap])
              /\ UNCHANGED <<ledger, positions, begun, answer>>
         ELSE Rollback(h, "insufficient")

(* recalculate: select the position and change it in the session.          *)
SelectPosition(h) ==
  /\ h \in DOMAIN req
  /\ req[h].pc = "position"
  /\ Put(h, [req[h] EXCEPT !.pc = "write",
                           !.loaded = {positions[i] : i \in DOMAIN positions \cap {req[h].index}}])
  /\ UNCHANGED <<ledger, positions, begun, answer>>

(* The position's row version after its flush; only changed columns are    *)
(* written, over whatever the row holds by then.                           *)
NewVersion(r) ==
  LET Emitted(c) == Pending(r) = "insert" \/ \E row \in r.loaded : c \in NetChanges(r.snap, row)
      Value(c) == IF Emitted(c) THEN Columns(r.snap)[c] ELSE positions[r.index][c]
  IN  [pid |-> IF Pending(r) = "insert" THEN r.num ELSE positions[r.index].pid,
       quantity |-> Value("quantity"), average_cost |-> Value("average_cost"),
       last_update |-> Value("last_update")]

PositionWrites(r) ==
  CASE Pending(r) = "nothing" -> r.writes
    [] Pending(r) = "delete" /\ ~OnTarget(r) -> r.writes    \* 0 rows matched: a warning
    [] OTHER -> [i \in DOMAIN r.writes \cup {r.index} |->
                   IF i # r.index THEN r.writes[i]
                   ELSE IF Pending(r) = "delete" THEN {} ELSE {NewVersion(r)}]

(* The flush of the position fails: duplicate key, or an UPDATE that       *)
(* matched no row (StaleDataError).                                        *)
WriteFails(r) ==
  \/ Pending(r) = "insert" /\ r.index \in DOMAIN positions
  \/ Pending(r) = "update" /\ ~OnTarget(r)

Writing(h) == h \in DOMAIN req /\ req[h].pc = "write" /\ ~Blocked(h)

(* The next recalculation's select autoflushes the position just changed.  *)
Autoflush(h) ==
  /\ Writing(h)
  /\ req[h].todo # {}
  /\ IF WriteFails(req[h]) THEN Rollback(h, "error")
     ELSE /\ Put(h, [req[h] EXCEPT !.pc = "ledger", !.writes = PositionWrites(req[h])])
          /\ UNCHANGED <<ledger, positions, begun, answer>>

(* session.commit(): flush, then COMMIT.  A delete answers at once.        *)
Commit(h) ==
  /\ Writing(h)
  /\ req[h].todo = {}
  /\ IF WriteFails(req[h]) THEN Rollback(h, "error")
     ELSE /\ ledger' = Overlay(ledger, req[h].delta)
          /\ \E writes \in {PositionWrites(req[h])} : positions' = Overlay(positions, writes)
          /\ IF req[h].op = "delete" THEN Close(h, "ok")
             ELSE /\ Put(h, [req[h] EXCEPT !.pc = "refresh", !.delta = Empty, !.writes = Empty])
                  /\ UNCHANGED answer
          /\ UNCHANGED begun

(* session.refresh(transaction): reads the row again, for the response.    *)
Refresh(h) ==
  /\ h \in DOMAIN req
  /\ req[h].pc = "refresh"
  /\ Rollback(h, IF req[h].id \in DOMAIN ledger THEN "ok" ELSE "error")

(* PostgreSQL's deadlock detector fails one statement of a wait cycle.     *)
(* Every set here has a handler waiting inside it; a cycle is a least one. *)
WaitSet(D) == D # {} /\ \A h \in D : \E g \in D \ {h} : WaitsFor(h, g)

DeadlockVictim(h) ==
  /\ \E D \in SUBSET DOMAIN req :
       h \in D /\ WaitSet(D) /\ \A E \in SUBSET D : WaitSet(E) => E = D
  /\ Rollback(h, "error")

(* The worker process dies, or the connection is lost, between statements. *)
Crash(h) == h \in DOMAIN req /\ Rollback(h, "crashed")

Step(h) == Flush(h) \/ SelectLedger(h) \/ SelectPosition(h) \/ Autoflush(h) \/ Commit(h) \/ Refresh(h)

Begin(h) ==
  \/ \E body \in Payloads : Create(h, body)
  \/ \E id \in 1 .. MaxRequests, patch \in Patches : Update(h, id, patch)
  \/ \E id \in 1 .. MaxRequests : Delete(h, id)

Next == \E h \in Handlers : Begin(h) \/ Step(h) \/ DeadlockVictim(h) \/ Crash(h)

Spec == Init /\ [][Next]_vars

(* A coroutine that can run is run by the event loop, and PostgreSQL ends  *)
(* every lock wait it is in: requests may not begin and need not crash.    *)
FairSpec == Spec /\ \A h \in Handlers : WF_vars(Step(h)) /\ WF_vars(DeadlockVictim(h))

-----------------------------------------------------------------------------
Rows == Bodies(Catalog)

PositionRows == [pid : 1 .. MaxRequests, quantity : Nat, average_cost : Nat, last_update : Nat]

Answers == {"none", "ok", "not_found", "insufficient", "error", "crashed"}

IsTable(table, keys, rows) == DOMAIN table \subseteq keys /\ table \in [DOMAIN table -> rows]

(* Uncommitted versions: at most one per row. *)
IsDelta(delta, keys, rows) ==
  /\ DOMAIN delta \subseteq keys
  /\ \A k \in DOMAIN delta : delta[k] = {} \/ \E row \in delta[k] : row \in rows /\ delta[k] = {row}

SessionOK(r, n) ==
  /\ r \in [pc : {"flush", "ledger", "position", "write", "refresh"},
            op : {"create", "update", "delete"}, num : 1 .. n, id : 1 .. n,
            obj : Rows, patch : {r.patch}, delta : {r.delta}, todo : SUBSET Catalog,
            index : Catalog, snap : Snapshots, loaded : SUBSET PositionRows,
            writes : {r.writes}]
  /\ IsPatch(r.patch, Catalog)
  /\ IsDelta(r.delta, {r.id}, Rows)
  /\ IsDelta(r.writes, Catalog, PositionRows)

(* Types of the tables and of every open session.                          *)
TypeOK ==
  /\ IsTable(ledger, 1 .. begun, Rows)
  /\ IsTable(positions, Catalog, PositionRows)
  /\ begun \in 0 .. MaxRequests
  /\ DOMAIN req \subseteq Handlers
  /\ answer \in [Handlers -> Answers]
  /\ \A h \in DOMAIN req : SessionOK(req[h], begun)

(* Every position is what a replay of the committed ledger gives, and      *)
(* there is none for an index whose replay ends flat ("positions are       *)
(* always recalculated from the full ledger").                             *)
PositionsMatchLedger == \A i \in Catalog : Matches(ledger, positions, i)

(* The same, only asked when no request is in flight.                      *)
QuietPositionsMatchLedger == DOMAIN req = {} => PositionsMatchLedger

(* The committed ledger never sells more than was held: every later        *)
(* recalculation of an oversold index would raise.                         *)
LedgerReplayable == \A i \in Catalog : ReplayOf(ledger, i).ok

(* "Zero quantity yields no position": whatever mix of columns racing      *)
(* requests leave in a positions row, it never shows an empty holding.     *)
NoEmptyPosition == \A i \in DOMAIN positions : positions[i].quantity > 0

(* Served one at a time, no request dies on a constraint, a stale row or a *)
(* deadlock (HTTP 500).                                                    *)
NoServerError == \A h \in Handlers : answer[h] # "error"

(* Every request that begins is answered: no wait on a row lock, and no    *)
(* cycle of such waits, lasts.                                             *)
RequestsEnd == \A h \in Handlers : h \in DOMAIN req ~> h \notin DOMAIN req
=============================================================================
