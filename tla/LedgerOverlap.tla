----------------------------- MODULE LedgerOverlap -----------------------------
(***************************************************************************)
(* The ledger with a history variable: for each open request, the indices  *)
(* a commit of another request disturbed since it began.  They are the     *)
(* indices that commit touched, and every index when it changed the very   *)
(* row this request has in its session: a stale amount can be carried to   *)
(* an index nobody else is working on.                                     *)
(***************************************************************************)
EXTENDS Ledger

VARIABLE disturbed

ovars == <<vars, disturbed>>

RowsAt(table, i) == [id \in RowsOf(table, i) |-> table[id]]

PositionAt(table, i) == {table[k] : k \in DOMAIN table \cap {i}}

(* The indices this step changes anything of: none, unless it commits.     *)
Commits == <<ledger, positions>>' # <<ledger, positions>>

Touched ==
  {i \in Catalog : Commits /\ \/ RowsAt(ledger, i) # RowsAt(ledger', i)
                               \/ PositionAt(positions, i) # PositionAt(positions', i)}

(* The handler whose commit this step is. *)
Committer(h) == h \in DOMAIN req /\ (h \in DOMAIN req' => req'[h] # req[h])

RowChanged(id) ==
  \/ (id \in DOMAIN ledger) # (id \in DOMAIN ledger')
  \/ id \in DOMAIN ledger \cap DOMAIN ledger' /\ ledger[id] # ledger'[id]

Disturbs(h) == IF Commits /\ RowChanged(req[h].id) THEN Catalog ELSE Touched

Track ==
  disturbed' = [h \in DOMAIN req' |-> IF h \in DOMAIN req THEN disturbed[h] \cup Disturbs(h) ELSE {}]

OInit == Init /\ disturbed = Empty

ONext == Next /\ Track

OSpec == OInit /\ [][ONext]_ovars

-----------------------------------------------------------------------------
(* Recalculating from the full ledger repairs: whatever index a commit     *)
(* touches, if no other request touched it while this one ran, its         *)
(* position is exactly the replay of its ledger afterwards, even when      *)
(* earlier races had left it wrong.                                        *)
UndisturbedCommitRepairs ==
  [][Commits => \A h \in Handlers : Committer(h) =>
       \A i \in Touched \ disturbed[h] : Matches(ledger', positions', i)]_ovars

(* A race needs two requests on the same index or the same row: a position *)
(* that was right is only ever made wrong by a commit that was disturbed   *)
(* on that index, so requests on different holdings cannot hurt each other. *)
OnlyDisturbedCommitsDamage ==
  [][Commits => \A i \in Catalog : Matches(ledger, positions, i) /\ ~Matches(ledger', positions', i) =>
       \E h \in Handlers : Committer(h) /\ i \in disturbed[h]]_ovars
=============================================================================
