-------------------------- MODULE PositionCalculator --------------------------
(***************************************************************************)
(* PositionCalculator.replay: one pass over the transactions of a          *)
(* (user, index) pair in ledger order, keeping the held quantity and its   *)
(* average cost (ACB).                                                     *)
(*                                                                         *)
(* Quantities are integers in sub-units: Grain sub-units make one unit in  *)
(* the last place of the NUMERIC(18,8) quantity columns, so a request can  *)
(* carry a quantity the column cannot hold.  The average cost is the exact *)
(* quotient cost / units (Python's 28-digit Decimal division), and its     *)
(* NUMERIC(18,6) column keeps 1/AvgScale of a price unit.                  *)
(***************************************************************************)
EXTENDS Integers, Sequences

CONSTANTS Grain, AvgScale

ASSUME ScaleAssumption == Grain \in Nat \ {0} /\ AvgScale \in Nat \ {0}

(* Mutant: digits beyond the column's scale cut off. *)
Truncated(n, d) == n \div d

(* PostgreSQL rounds a NUMERIC to the column's scale, halves away from     *)
(* zero: the integer nearest to n / d, for n >= 0 and d > 0.               *)
Nearest(n, d) == (2 * n + d) \div (2 * d)

StoredQuantity(q) == Grain * Nearest(q, Grain)

(* The loop's local variables; cost / units is the average cost.           *)
Snapshots == [ok : BOOLEAN, quantity : Nat, cost : Nat, units : Nat \ {0}, last_update : Nat]

Flat == [ok |-> TRUE, quantity |-> 0, cost |-> 0, units |-> 1, last_update |-> 0]

(* Mutant: fees left out of the cost basis. *)
BuyWithoutFees(s, tx) ==
  [s EXCEPT !.quantity = @ + tx.quantity,
            !.cost = s.quantity * @ + tx.quantity * tx.price * s.units,
            !.units = @ * (s.quantity + tx.quantity),
            !.last_update = tx.date]

(* Mutant: the mean of the old average and the new price, unweighted. *)
BuyUnweighted(s, tx) ==
  [s EXCEPT !.quantity = @ + tx.quantity,
            !.cost = IF s.quantity = 0 THEN tx.price ELSE @ + tx.price * s.units,
            !.units = IF s.quantity = 0 THEN 1 ELSE 2 * @,
            !.last_update = tx.date]

Buy(s, tx) ==
  [s EXCEPT !.quantity = @ + tx.quantity,
            !.cost = s.quantity * @ + (tx.quantity * tx.price + tx.fees) * s.units,
            !.units = @ * (s.quantity + tx.quantity),
            !.last_update = tx.date]

(* Mutants: no oversell check; a sale of the whole holding refused. *)
SellUnchecked(s, tx) ==
  [s EXCEPT !.quantity = @ - tx.quantity, !.last_update = tx.date]

SellNeverAll(s, tx) ==
  IF tx.quantity >= s.quantity THEN [s EXCEPT !.ok = FALSE]
  ELSE [s EXCEPT !.quantity = @ - tx.quantity, !.last_update = tx.date]

(* An oversell raises InsufficientQuantityError: the replay has no result. *)
Sell(s, tx) ==
  LET left == s.quantity - tx.quantity
  IN  IF tx.quantity > s.quantity THEN [s EXCEPT !.ok = FALSE]
      ELSE [s EXCEPT !.quantity = left,
                     !.cost = IF left = 0 THEN 0 ELSE @,
                     !.units = IF left = 0 THEN 1 ELSE @,
                     !.last_update = tx.date]

Book(s, tx) ==
  IF ~s.ok THEN s ELSE IF tx.type = "BUY" THEN Buy(s, tx) ELSE Sell(s, tx)

Replay(txs) ==
  LET run[n \in 0 .. Len(txs)] ==
        IF n = 0 THEN Flat ELSE Book(run[n - 1], txs[n])
  IN  run[Len(txs)]

(* The values a positions row holds once a snapshot has been stored.       *)
Columns(s) == [quantity     |-> StoredQuantity(s.quantity),
               average_cost |-> Nearest(s.cost * AvgScale, s.units),
               last_update  |-> s.last_update]

(* Mutant: last_update is set on insert only. *)
NetAmounts(s, row) ==
     (IF s.quantity # row.quantity THEN {"quantity"} ELSE {})
  \cup (IF s.cost * AvgScale # row.average_cost * s.units THEN {"average_cost"} ELSE {})

(* The attributes of a loaded row that assigning a snapshot really changes *)
(* (SQLAlchemy emits only net changes; the snapshot is not yet rounded).   *)
NetChanges(s, row) ==
     (IF s.quantity # row.quantity THEN {"quantity"} ELSE {})
  \cup (IF s.cost * AvgScale # row.average_cost * s.units THEN {"average_cost"} ELSE {})
  \cup (IF s.last_update # row.last_update THEN {"last_update"} ELSE {})
=============================================================================
