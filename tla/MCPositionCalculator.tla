------------------------- MODULE MCPositionCalculator -------------------------
(***************************************************************************)
(* PositionCalculator.replay against closed-form references, for every     *)
(* sequence of at most MaxRows transactions over small amounts.  The only  *)
(* variable is the input sequence, built one transaction at a time.        *)
(***************************************************************************)
EXTENDS PositionCalculator, FiniteSets, FiniteSetsExt

CONSTANTS MaxRows, Quantities, Prices, Fees

(* TransactionCreate: quantity and price gt=0, fees ge=0.                  *)
ASSUME AmountsAssumption ==
  Quantities \subseteq Nat \ {0} /\ Prices \subseteq Nat \ {0} /\ Fees \subseteq Nat

VARIABLE txs

Init == txs = <<>>

Next ==
  /\ Len(txs) < MaxRows
  /\ \E type \in {"BUY", "SELL"}, q \in Quantities, p \in Prices, f \in Fees :
       txs' = Append(txs, [type |-> type, quantity |-> q, price |-> p, fees |-> f,
                           date |-> Len(txs) + 1])

Spec == Init /\ [][Next]_txs

-----------------------------------------------------------------------------
Of(type, n) == {k \in 1 .. n : txs[k].type = type}

Bought(n) == MapThenSumSet(LAMBDA k : txs[k].quantity, Of("BUY", n))

Sold(n) == MapThenSumSet(LAMBDA k : txs[k].quantity, Of("SELL", n))

(* "SELL fails if insufficient quantity": a replay succeeds exactly when   *)
(* no prefix of the ledger sells more than it bought, and then the holding *)
(* is what was bought less what was sold.                                  *)
HoldingIsNetFlow ==
  LET s == Replay(txs)
  IN  /\ s.ok <=> \A n \in 1 .. Len(txs) : Sold(n) <= Bought(n)
      /\ s.ok => s.quantity = Bought(Len(txs)) - Sold(Len(txs))

(* The last moment the holding was empty: costs before it are settled.     *)
LastFlat == Max({n \in 0 .. Len(txs) : Bought(n) = Sold(n)})

Open == {k \in Of("BUY", Len(txs)) : k > LastFlat}

(* The average cost lies between the cheapest and the dearest unit cost    *)
(* (fees included) of the purchases since the holding was last empty:      *)
(* nothing of a settled holding leaks into the next one, and sales at any  *)
(* price leave the average inside.                                         *)
AverageWithinOpenCosts ==
  LET s == Replay(txs)
      Spent(k) == txs[k].quantity * txs[k].price + txs[k].fees
  IN  s.ok /\ s.quantity > 0 =>
        /\ \E k \in Open : s.cost * txs[k].quantity >= Spent(k) * s.units
        /\ \E k \in Open : s.cost * txs[k].quantity <= Spent(k) * s.units

(* Two purchases next to each other (same date, created in either order)   *)
(* give the same holding and the same average cost.                        *)
AdjacentBuysCommute ==
  \A k \in 1 .. Len(txs) - 1 :
    txs[k].type = "BUY" /\ txs[k + 1].type = "BUY" =>
      LET s == Replay(txs)
          t == Replay([txs EXCEPT ![k] = txs[k + 1], ![k + 1] = txs[k]])
      IN  /\ s.ok = t.ok
          /\ s.ok => s.quantity = t.quantity /\ s.cost * t.units = t.cost * s.units

(* The stored average is the exact one to half a unit of the column's last *)
(* place, and the stored quantity of an accepted ledger keeps the exact    *)
(* holding when requests carry no more decimals than the column.           *)
StoredColumnsAreClose ==
  LET s == Replay(txs)
      c == Columns(s)
  IN  s.ok /\ s.quantity > 0 =>
        /\ 2 * (c.average_cost * s.units - s.cost * AvgScale) <= s.units
        /\ 2 * (s.cost * AvgScale - c.average_cost * s.units) <= s.units
        /\ c.quantity = s.quantity
        /\ c.last_update = Len(txs)
=============================================================================
