----------------------------- MODULE MCAlgorithms -----------------------------
(***************************************************************************)
(* The parts whose state is small: the replay of a ledger, the schema's    *)
(* revisions, the scheduler, and the choice of symbols and addresses.  They*)
(* share no variable: a behaviour explores one part, since running two     *)
(* together would add no behaviour to either.                              *)
(***************************************************************************)
EXTENDS MCPositionCalculator, SchemaMigrations, MarketSchedule, SymbolLookup, BoursoramaUrls

CONSTANTS r1, r2, e1, e2, isin1, isin2, isin3, name1, na, s0, sPar, sDus, sMil, sNyq, sEtf

VARIABLE part  \* the part this behaviour explores

Listing(symbol, preferred, exchange, quote, length) ==
  [symbol |-> symbol, preferred |-> preferred, exchange |-> exchange, quote |-> quote,
   isin_style |-> length > 10, length |-> length]

MCListings == {
  Listing(sPar, TRUE, 0, "equity", 5), Listing(sEtf, TRUE, 0, "etf", 6),
  Listing(sNyq, FALSE, 6, "equity", 3), Listing(sDus, FALSE, 9, "equity", 7),
  Listing(sMil, FALSE, 9, "equity", 7), Listing(s0, FALSE, 9, "etf", 15) }

MCIndices == {
  [id |-> e1, isin |-> isin1, name |-> name1, index_type |-> "COMPANY", yahoo_symbol |-> Absent],
  [id |-> e2, isin |-> isin2, name |-> name1, index_type |-> "ETF", yahoo_symbol |-> s0] }

MCCalls == {
  [yahoo_symbol |-> y, index_id |-> i, isin |-> n] :
    y \in {na, s0}, i \in {e1, Absent}, n \in {isin2, isin3, na} }

NoCall == [yahoo_symbol |-> Absent, index_id |-> Absent, isin |-> Absent]

MCHrefs ==
  [absolute : BOOLEAN, host : {"www.boursorama.com"}, query : BOOLEAN, slash : {TRUE},
   path : {<<"bourse", "actualites", "a">>, <<"bourse", "actualites", "b">>, <<"bourse", "actualites">>,
           <<"cours", "actualites", "t">>, <<"bourse", "actualites", "marches">>, <<"cours", "t">>}]
  \cup {[Page(<<"login">>, FALSE) EXCEPT !.absolute = a] : a \in BOOLEAN}
  \cup {[Page(<<"bourse", "actualites", "a">>, FALSE) EXCEPT !.host = "elsewhere"]}

AlgorithmsInit ==
  /\ part \in {"calculator", "migrations", "schedule", "lookup", "urls"}
  /\ Init /\ MigrationInit /\ UrlsInit
  /\ IF part = "schedule" THEN ScheduleInit
     ELSE day = 0 /\ now = 0 /\ offset = 0 /\ due = {} /\ running = {}
  /\ IF part = "lookup" THEN LookupInit ELSE call = NoCall /\ lookup = <<>>

AlgorithmsNext ==
  /\ part' = part
  /\ \/ /\ part = "calculator" /\ Next
        /\ UNCHANGED <<migrationVars, scheduleVars, lookupVars, links>>
     \/ /\ part = "migrations" /\ MigrationNext
        /\ UNCHANGED <<txs, scheduleVars, lookupVars, links>>
     \/ /\ part = "schedule" /\ ScheduleNext
        /\ UNCHANGED <<txs, migrationVars, lookupVars, links>>
     \/ /\ part = "lookup" /\ LookupNext
        /\ UNCHANGED <<txs, migrationVars, scheduleVars, links>>
     \/ /\ part = "urls" /\ UrlsNext
        /\ UNCHANGED <<txs, migrationVars, scheduleVars, lookupVars>>

AlgorithmsSpec ==
  AlgorithmsInit /\ [][AlgorithmsNext]_<<part, txs, migrationVars, scheduleVars, lookupVars, links>>
=============================================================================
