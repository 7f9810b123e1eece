----------------------------- MODULE SymbolLookup -----------------------------
(***************************************************************************)
(* From the identity in a Yahoo tool call to one symbol: the fields that   *)
(* count, the queries tried in turn, and the choice among the listings     *)
(* that a query returns.  A listing is                                     *)
(*   [symbol, preferred, exchange, quote, isin_style, length]              *)
(* where preferred tells the suffix of yahoo_resolve_prefer_suffix,        *)
(* exchange is its place in the list of preferred exchanges (9: not there),*)
(* and isin_style, length describe its symbol.                             *)
(***************************************************************************)
EXTENDS Integers, Sequences, FiniteSetsExt

CONSTANTS Absent,        \* None, and for a resolved symbol an error
          Placeholders,  \* strings a model sends for a field it does not know
          Indices,       \* rows: [id, isin, name, index_type, yahoo_symbol]
          Calls,         \* tool calls: [yahoo_symbol, index_id, isin]
          Queries,       \* the ISINs and names that calls and rows hold
          Listings,
          MaxListed        \* rows that Yahoo returns, for all queries together

VARIABLES call,
          lookup  \* query -> the rows Yahoo returns for it

lookupVars == <<call, lookup>>

Clean(value) == IF value \in Placeholders THEN Absent ELSE value

(* A call names its index, what is looked up is what calls and rows hold,  *)
(* and a listing has a symbol, ranked by numbers.                          *)
ASSUME LookupAssumption ==
  /\ \A c \in Calls :
       /\ c = [yahoo_symbol |-> c.yahoo_symbol, index_id |-> c.index_id, isin |-> c.isin]
       /\ Clean(c.isin) \in Queries \cup {Absent}
  /\ \A i \in Indices : i.isin \in Queries /\ i.name \in Queries
  /\ \A r \in Listings : r.exchange \in Nat /\ r.length \in Nat /\ r.symbol # Absent

(* Only the first field of yahoo_symbol, index_id and isin that is there   *)
(* is kept; a call without any is refused.                                 *)
Identity(c) ==
  LET cleaned == [c EXCEPT !.yahoo_symbol = Clean(@), !.isin = Clean(@)]
      priority == <<"yahoo_symbol", "index_id", "isin">>
  IN  [f \in DOMAIN c |->
         IF \E n \in 1 .. 3 : /\ f = priority[n]
                              /\ \A m \in 1 .. n - 1 : cleaned[priority[m]] = Absent
         THEN cleaned[f] ELSE Absent]

Accepted(c) == \E f \in DOMAIN c : Identity(c)[f] # Absent

(* _load_index: the row of the id, or of the ISIN.                         *)
Loaded(identity) ==
  LET found == {i \in Indices : IF identity.index_id # Absent THEN i.id = identity.index_id
                                ELSE i.isin = identity.isin}
  IN  IF found = {} THEN Absent ELSE CHOOSE i \in found : TRUE

LookupQueries(identity, index) ==
  IF index = Absent
  THEN IF identity.isin # Absent THEN <<identity.isin>> ELSE <<>>
  ELSE IF index.name # index.isin THEN <<index.isin, index.name>> ELSE <<index.isin>>

QueriesOf(c) == LookupQueries(Identity(c), Loaded(Identity(c)))

TypeOf(c) ==
  LET index == Loaded(Identity(c)) IN IF index = Absent THEN Absent ELSE index.index_type

-----------------------------------------------------------------------------
(* The places of the rows that suit the type.                              *)
FilterByIndexType(rows, index_type) ==
  CASE index_type = Absent -> DOMAIN rows
    [] index_type = "ETF" -> {k \in DOMAIN rows : rows[k].quote = "etf"}
    [] OTHER -> {k \in DOMAIN rows : rows[k].quote = "equity"}

CandidateRank(row) ==
  <<IF row.preferred THEN 0 ELSE 1, row.exchange, IF row.isin_style THEN 1 ELSE 0, row.length>>

(* Tuples compare from the left.                                           *)
Before(a, b) ==
  \E k \in 1 .. Len(a) : a[k] < b[k] /\ \A n \in 1 .. k - 1 : a[n] = b[n]

(* Those with the preferred suffix, if any.                                *)
Pool(rows, places) ==
  LET preferred == {k \in places : rows[k].preferred}
  IN  IF preferred # {} THEN preferred ELSE places

Best(rows, places) ==
  {k \in Pool(rows, places) : \A m \in Pool(rows, places) :
     ~Before(CandidateRank(rows[m]), CandidateRank(rows[k]))}

(* Mutant: the first of the best rows, tied or not. *)
PickFirst(rows, places) ==
  IF Best(rows, places) = {} THEN Absent ELSE rows[Min(Best(rows, places))].symbol

(* No row, or the best two tied: an error, and this query has no hit.      *)
PickLookupRow(rows, places) ==
  IF \E k \in places : Best(rows, places) = {k}
  THEN rows[CHOOSE k \in places : Best(rows, places) = {k}].symbol ELSE Absent

LookupHit(rows, index_type) == PickLookupRow(rows, FilterByIndexType(rows, index_type))

Tied(rows, index_type) ==
  \E k, m \in Best(rows, FilterByIndexType(rows, index_type)) : k # m

(* The queries in turn until one has a hit: after a tie too, the name is   *)
(* looked up.                                                              *)
Resolve(c, answers) ==
  LET identity == Identity(c)
      index == Loaded(identity)
      Hit(n) == LookupHit(answers[QueriesOf(c)[n]], TypeOf(c))
      hits == {n \in DOMAIN QueriesOf(c) : Hit(n) # Absent}
  IN  IF identity.yahoo_symbol # Absent THEN identity.yahoo_symbol
      ELSE IF index # Absent /\ index.yahoo_symbol # Absent THEN index.yahoo_symbol
      ELSE IF hits = {} THEN Absent ELSE Hit(Min(hits))

-----------------------------------------------------------------------------
LookupInit ==
  /\ call \in {c \in Calls : Accepted(c)}
  /\ lookup = [q \in Queries |-> <<>>]

(* Yahoo has one more listing for a query; the rows come in any order.     *)
Lists(q, r) ==
  /\ MapThenSumSet(LAMBDA p : Len(lookup[p]), Queries) < MaxListed
  /\ lookup' = [lookup EXCEPT ![q] = Append(@, r)] /\ UNCHANGED call

LookupNext == \E q \in DOMAIN lookup, r \in Listings : Lists(q, r)

LookupSpec == LookupInit /\ [][LookupNext]_lookupVars

-----------------------------------------------------------------------------
Swapped(rows, k) == [rows EXCEPT ![k] = rows[k + 1], ![k + 1] = rows[k]]

(* A call resolves to the same symbol in whatever order Yahoo returns the  *)
(* listings of a query.  One more listing in any answer, late or early     *)
(* among the queries, leaves the call the symbol it had or gives it the    *)
(* listing's own, never that of a third one, unless it leaves the best of  *)
(* that answer tied: then the call resolves as if the query had found      *)
(* nothing at all, so that only the other query counts.                    *)
SymbolNotByChance ==
  LET symbol == Resolve(call, lookup)
  IN  \A q \in DOMAIN lookup :
        /\ \A k \in 1 .. Len(lookup[q]) - 1 :
             Resolve(call, [lookup EXCEPT ![q] = Swapped(@, k)]) = symbol
        /\ \A r \in Listings :
             LET more == [lookup EXCEPT ![q] = Append(@, r)]
             IN  IF Tied(more[q], TypeOf(call))
                 THEN Resolve(call, more) = Resolve(call, [lookup EXCEPT ![q] = <<>>])
                 ELSE Resolve(call, more) \in {symbol, r.symbol}

(* A call with both an isin and a yahoo_symbol is refused before anything  *)
(* is looked up.                                                           *)
OneIdentityKey == Clean(call.isin) = Absent \/ Clean(call.yahoo_symbol) = Absent

(* When the lookup of a row or an ISIN leaves several equally good symbols,*)
(* none with the preferred suffix, the call has no symbol.                 *)
AmbiguousLookupFails ==
  LET index == Loaded(Identity(call))
      rows == lookup[QueriesOf(call)[1]]
      best == Best(rows, FilterByIndexType(rows, TypeOf(call)))
  IN  /\ Clean(call.yahoo_symbol) = Absent /\ (index # Absent => index.yahoo_symbol = Absent)
      /\ QueriesOf(call) # <<>> /\ \A k \in DOMAIN rows : ~rows[k].preferred
      /\ \E k, m \in best : rows[k].symbol # rows[m].symbol
      => Resolve(call, lookup) = Absent
=============================================================================
