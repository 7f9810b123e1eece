--------------------------- MODULE LedgerRefinement ---------------------------
(***************************************************************************)
(* Handlers that serve one request at a time implement PortfolioBook: the  *)
(* book is the committed ledger, a holding is a committed position without *)
(* its uuid.                                                               *)
(***************************************************************************)
EXTENDS Ledger

Held == [i \in DOMAIN positions |->
           [c \in {"quantity", "average_cost", "last_update"} |-> positions[i][c]]]

Promise == INSTANCE PortfolioBook WITH book <- ledger, holdings <- Held

(* One handler at a time, every commit is one accepted change of the book  *)
(* with the holdings replayed from it, and nothing else shows: the whole   *)
(* flush, select, replay, autoflush and commit sequence is one step.       *)
ImplementsBook == Promise!Spec
=============================================================================
