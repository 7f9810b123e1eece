--------------------------- MODULE SymbolResolution ---------------------------
(***************************************************************************)
(* The tools that resolve, use or correct the provider symbols of an       *)
(* index: search_boursorama and search_yahoo_symbol, the Yahoo data tools, *)
(* get_portfolio_positions with its live prices, and the two manual        *)
(* overrides.  They run concurrently in nam-agentic, share the engine's    *)
(* connection pool, and hold a connection while they look a symbol up.     *)
(*                                                                         *)
(* call[c] is the coroutine of caller c; held contains <<c, 1>> while its  *)
(* session has a connection, and <<c, 2>> while the resolver that get_price*)
(* calls has one more.                                                     *)
(***************************************************************************)
EXTENDS BoursoramaClient

CONSTANTS PoolSize,  \* connections the engine's pool can hand out
          Lines,     \* indices of the user's positions, in order
          Found,     \* symbols a lookup may return
          Manual,    \* symbols a user may impose
          None       \* NULL

ASSUME ResolutionAssumption ==
  /\ PoolSize \in Nat \ {0}
  /\ Lines # <<>> /\ Lines \in Seq({Lines[k] : k \in DOMAIN Lines})
  /\ Found \cap Manual = {} /\ None \notin Found \cup Manual

VARIABLES indices,  \* committed rows of indices, by id
          call,     \* caller -> its tool call
          held      \* connections checked out of the pool

resolutionVars == <<indices, call, held>>

Columns == {"boursorama_ticker", "yahoo_symbol"}

(* A call and its arguments, before its first await.                       *)
Tool(op, column, todo, symbol, at) ==
  [op |-> op, column |-> column, todo |-> todo, symbol |-> symbol, at |-> at,
   row |-> None, tries |-> 0, missing |-> 0]

Search(column, i) == Tool("search", column, <<i>>, None, "load")

Fetch(i) == Tool("fetch", "yahoo_symbol", <<i>>, None, "load")

Override(column, i, symbol) == Tool("override", column, <<i>>, symbol, "get")

Positions == Tool("positions", "yahoo_symbol", Lines, None, "list")

At(c, place) == c \in DOMAIN call /\ call[c].at = place

Known(r) == Head(r.todo) \in DOMAIN indices

Row(r) == indices[Head(r.todo)][r.column]

(* The sessions open around a lookup and around a quote: get_price has its *)
(* own, kept while the resolver opens another; the other tools have the    *)
(* resolver's only.                                                        *)
Inner(r) == IF r.op = "positions" THEN {1, 2} ELSE {1}

Outer(r) == Inner(r) \ {IF r.op = "positions" THEN 2 ELSE 1}

Goto(c, r, sessions) ==
  /\ call' = [call EXCEPT ![c] = r]
  /\ held' = {h \in held : h[1] # c} \cup ({c} \X sessions)

Move(c, at, sessions) == Goto(c, [call[c] EXCEPT !.at = at], sessions)

Fails(c) == Move(c, "error", {})

-----------------------------------------------------------------------------
(* Steps that need a connection wait until the pool has one.               *)
NeedsConnection == {"list", "price", "load", "get", "refresh"}

HasFree == Cardinality(held) < PoolSize

List(c) ==
  /\ At(c, "list") /\ HasFree
  /\ Move(c, "price", {}) /\ UNCHANGED indices

(* get_price of one line, up to its resolver or its quote.                 *)
Price(c) ==
  /\ At(c, "price") /\ HasFree
  /\ Move(c, IF Row(call[c]) = None THEN "load" ELSE "quote", {1})
  /\ UNCHANGED indices

Resolved(c) ==
  Move(c, IF call[c].op = "search" THEN "done" ELSE "quote", Outer(call[c]))

(* Mutant: the stored symbol is not looked at. *)
LoadAlways(c) ==
  /\ At(c, "load") /\ HasFree
  /\ Goto(c, [call[c] EXCEPT !.at = "lookup", !.tries = 1], Inner(call[c]))
  /\ UNCHANGED indices

(* resolve(): a symbol in the row is taken as it is.                       *)
Load(c) ==
  /\ At(c, "load") /\ HasFree
  /\ IF Known(call[c]) /\ Row(call[c]) # None
     THEN Resolved(c)
     ELSE Goto(c, [call[c] EXCEPT !.at = "lookup", !.tries = 1], Inner(call[c]))
  /\ UNCHANGED indices

(* The line is done with, priced or not.                                   *)
NextLine(c, unpriced) ==
  LET r == call[c]
  IN  Goto(c, [r EXCEPT !.todo = Tail(@), !.missing = @ + unpriced,
                        !.at = IF Len(r.todo) = 1 THEN "done" ELSE "price"], {})

(* A match: written over whatever the row holds by now, committed, used.   *)
Hit(c) ==
  /\ \E symbol \in Found :
       indices' = IF Known(call[c])
                  THEN [indices EXCEPT ![Head(call[c].todo)][call[c].column] = symbol]
                  ELSE indices
  /\ Resolved(c)

(* No match: the next place to look, or YahooSymbolNotFoundError or        *)
(* BoursoramaParseError; get_price answers None to the former.             *)
Miss(c) ==
  LET r == call[c]
      places == IF r.column = "yahoo_symbol" /\ ~Known(r) THEN 1 ELSE 2
  IN  /\ IF r.tries < places THEN Goto(c, [r EXCEPT !.tries = @ + 1], Inner(r))
         ELSE IF r.op = "positions" THEN NextLine(c, 1)
         ELSE Fails(c)
      /\ UNCHANGED indices

(* Any other exception ends the call, whatever its session held.           *)
Raise(c) == Fails(c) /\ UNCHANGED indices

Searches(c) == At(c, "lookup") /\ call[c].column = "boursorama_ticker"

(* search_boursorama: the redirect, then the list of instruments.          *)
SearchAsks(c) == Searches(c) /\ Ask(c) /\ UNCHANGED resolutionVars

SearchAnswered(c) ==
  Searches(c) /\ Answered(c) /\ (Hit(c) \/ Miss(c) \/ Raise(c))

SearchFails(c) == Searches(c) /\ (Limited(c) \/ Broken(c)) /\ Raise(c)

(* YfinanceClient.lookup in a thread: the ISIN, then the name.             *)
YahooLookup(c) ==
  /\ At(c, "lookup") /\ call[c].column = "yahoo_symbol"
  /\ Hit(c) \/ Miss(c) \/ Raise(c)
  /\ UNCHANGED clientVars

(* The data behind the symbol; a quote without data is a missing price.    *)
Quote(c) ==
  /\ At(c, "quote")
  /\ \/ IF call[c].op = "positions" THEN NextLine(c, 0) ELSE Move(c, "done", {})
     \/ IF call[c].op = "positions" THEN NextLine(c, 1) ELSE Fails(c)
     \/ Fails(c)
  /\ UNCHANGED indices

(* update_index_boursorama, update_index_yahoo_symbol.                     *)
Get(c) ==
  /\ At(c, "get") /\ HasFree
  /\ IF Known(call[c])
     THEN Goto(c, [call[c] EXCEPT !.at = "write", !.row = Row(call[c])], {1})
     ELSE Fails(c)
  /\ UNCHANGED indices

(* Commit: an UPDATE only if the symbol differs from the one loaded.       *)
Impose(c) ==
  /\ At(c, "write")
  /\ indices' = IF call[c].symbol = call[c].row THEN indices
                ELSE [indices EXCEPT ![Head(call[c].todo)][call[c].column] = call[c].symbol]
  /\ Move(c, "refresh", {})

(* session.refresh needs a connection again.                               *)
Refresh(c) == At(c, "refresh") /\ HasFree /\ Move(c, "done", {}) /\ UNCHANGED indices

-----------------------------------------------------------------------------
(* The pool gives up after its timeout: nobody catches that exception.     *)
PoolTimeout(c) ==
  /\ c \in DOMAIN call /\ call[c].at \in NeedsConnection /\ ~HasFree
  /\ Fails(c) /\ UNCHANGED <<indices, clientVars>>

(* The chat request behind a call is abandoned.                            *)
Cancel(c) ==
  /\ c \in DOMAIN call /\ call[c].at \notin {"done", "error"}
  /\ Fails(c) /\ Cancelled(c) /\ UNCHANGED indices

LocalStep(c) ==
  List(c) \/ Price(c) \/ Load(c) \/ Quote(c) \/ Get(c) \/ Impose(c) \/ Refresh(c)

ToolStep(c) ==
  \/ LocalStep(c) /\ UNCHANGED clientVars
  \/ YahooLookup(c) \/ PoolTimeout(c)
  \/ SearchAsks(c)
  \/ Searches(c) /\ Admit(c) /\ UNCHANGED resolutionVars
  \/ SearchAnswered(c) \/ SearchFails(c)
=============================================================================
