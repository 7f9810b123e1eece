------------------------------ MODULE LedgerView ------------------------------
(***************************************************************************)
(* A transactions table, or a session's view of it, as a function from row *)
(* id to row, and the replay of one index of it.                           *)
(***************************************************************************)
EXTENDS PositionCalculator, FiniteSets

Empty == [k \in {} |-> k]

(* Rows of transactions on the indices I, and TransactionCreate bodies:    *)
(* the schema's gt=0 and ge=0; an absent fee counts as 0 in every replay.  *)
Bodies(I) == [index_id : I, type : {"BUY", "SELL"}, price : Nat \ {0},
              quantity : Nat \ {0}, date : Nat, fees : Nat]

(* TransactionUpdate bodies on the indices I: some of the same columns.    *)
IsPatch(patch, I) ==
  \A f \in DOMAIN patch :
    \/ f = "index_id" /\ patch[f] \in I
    \/ f = "type" /\ patch[f] \in {"BUY", "SELL"}
    \/ f \in {"price", "quantity"} /\ patch[f] \in Nat \ {0}
    \/ f \in {"date", "fees"} /\ patch[f] \in Nat

Amend(row, patch) ==
  LET Value(f) == IF f \in DOMAIN patch THEN patch[f] ELSE row[f]
  IN  [index_id |-> Value("index_id"), type |-> Value("type"), price |-> Value("price"),
       quantity |-> Value("quantity"), date |-> Value("date"), fees |-> Value("fees")]

(* The rows of index i in a view of the table, ORDER BY date, created_at.  *)
RowsOf(view, i) == {id \in DOMAIN view : view[id].index_id = i}

Earlier(view, a, b) ==
  view[a].date < view[b].date \/ (view[a].date = view[b].date /\ a < b)

InOrder(view, i) ==
  LET ids == RowsOf(view, i)
  IN  [n \in 1 .. Cardinality(ids) |->
         CHOOSE id \in ids : Cardinality({k \in ids : Earlier(view, k, id)}) = n - 1]

(* The select's result: rows already in the session's identity map keep    *)
(* their in-memory attributes (mem), whatever the database now holds.      *)
Selected(view, mem, i) ==
  LET ids == InOrder(view, i)
  IN  [n \in 1 .. Len(ids) |-> IF ids[n] \in DOMAIN mem THEN mem[ids[n]] ELSE view[ids[n]]]

ReplayOf(view, i) == Replay(Selected(view, Empty, i))

(* In these tables, index i has the position its ledger replays to. *)
Matches(rows, table, i) ==
  LET s == ReplayOf(rows, i)
  IN  /\ s.ok
      /\ i \in DOMAIN table <=> s.quantity # 0
      /\ i \in DOMAIN table => \A c \in DOMAIN Columns(s) : table[i][c] = Columns(s)[c]
=============================================================================
