---------------------------- MODULE MCLedgerOverlap ----------------------------
(* Two handlers over one or two indices, for TLC. *)
EXTENDS LedgerOverlap, TLC

CONSTANTS a, b

Body(index, type, quantity, date) ==
  [index_id |-> index, type |-> type, price |-> 1, quantity |-> quantity,
   date |-> date, fees |-> 0]

\* A purchase, a sale of all of it, a later purchase elsewhere; moves both ways.
RacePayloads == {Body(a, "BUY", 2, 1), Body(a, "SELL", 2, 2), Body(b, "BUY", 1, 2)}

RacePatches == {[quantity |-> 1], [index_id |-> a], [index_id |-> b]}

HandlersSwap == Permutations(Handlers)
=============================================================================
