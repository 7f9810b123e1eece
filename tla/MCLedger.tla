------------------------------- MODULE MCLedger -------------------------------
(* Small instances of the ledger for TLC. *)
EXTENDS LedgerRefinement

CONSTANTS a, b, unlisted     \* index ids; unlisted is not in the catalogue

Body(index, type, quantity, price, date, fees) ==
  [index_id |-> index, type |-> type, price |-> price, quantity |-> quantity,
   date |-> date, fees |-> fees]

\* One handler, two indices: backdating, fees, moves, refused bodies.
SerialPayloads ==
  {Body(a, "BUY", 2, 1, 2, 1), Body(a, "BUY", 1, 3, 1, 0), Body(a, "SELL", 1, 2, 2, 0),
   Body(a, "SELL", 2, 2, 1, 0), Body(b, "BUY", 1, 2, 1, 0), Body(unlisted, "BUY", 1, 1, 1, 0)}

SerialPatches ==
  {[index_id |-> b], [type |-> "SELL"], [price |-> 2], [quantity |-> 1], [date |-> 2],
   [index_id |-> a, quantity |-> 2, fees |-> 2], [index_id |-> unlisted]}

\* Two handlers that can move two purchases between the indices.
CrossPayloads == {Body(a, "BUY", 1, 1, 1, 0)}

CrossPatches == {[index_id |-> b]}

\* Two handlers on one index: purchases, and the sale of a whole holding.
RacePayloads == {Body(a, "BUY", 2, 1, 1, 0), Body(a, "SELL", 2, 1, 2, 0)}

RacePatches == {[price |-> 2]}

\* Quarters of the quantity column's last place (Grain = 4).
FinePayloads == {Body(a, "BUY", 4, 1, 1, 0), Body(a, "SELL", 3, 1, 2, 0)}

FinePatches == {[quantity |-> 3]}
=============================================================================
