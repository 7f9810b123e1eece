----------------------------- MODULE PortfolioBook -----------------------------
(***************************************************************************)
(* What the portfolio API promises: a book of transactions in which every  *)
(* accepted request changes one row, a change that would oversell some     *)
(* index is refused, and the holdings are at all times what the book       *)
(* replays to.  No sessions, locks or steps.                               *)
(***************************************************************************)
EXTENDS LedgerView

CONSTANTS Catalog, Payloads, Patches, MaxRequests

VARIABLES book, holdings

HoldingsOf(rows) ==
  [i \in {j \in Catalog : ReplayOf(rows, j).quantity # 0} |-> Columns(ReplayOf(rows, i))]

Accept(rows) ==
  /\ book' = rows
  /\ \A i \in Catalog : ReplayOf(rows, i).ok
  /\ holdings' = HoldingsOf(rows)

(* A new row is later than every row already in the book. *)
Record ==
  \E body \in Payloads, id \in 1 .. MaxRequests :
    /\ body.index_id \in Catalog
    /\ \A k \in DOMAIN book : k < id
    /\ Accept([k \in DOMAIN book \cup {id} |-> IF k = id THEN body ELSE book[k]])

Revise ==
  \E id \in DOMAIN book, patch \in Patches :
    /\ Amend(book[id], patch).index_id \in Catalog
    /\ Accept([book EXCEPT ![id] = Amend(@, patch)])

Strike == \E id \in DOMAIN book : Accept([k \in DOMAIN book \ {id} |-> book[k]])

Init == book = Empty /\ holdings = Empty

Next == Record \/ Revise \/ Strike

Spec == Init /\ [][Next]_<<book, holdings>>
=============================================================================
