----------------------------- MODULE MCAgentTools -----------------------------
(***************************************************************************)
(* Six workloads of nam-agentic, each explored on its own: nothing that   *)
(* one of them leaves out could disturb the others in it.                  *)
(***************************************************************************)
EXTENDS AgentTools, TLC

CONSTANTS c1, c2, c3, c4, i1, i2, absent, u1, u2, m1, s1

VARIABLES inflight,  \* lookups that had begun when their symbol was imposed
          crossed    \* writers that found the row changed since they read it

MCLines == <<i1, i2>>

MCPages == {<<u1>>, <<u1, u2>>, <<u2, u1>>}

NoCalls == [c \in {} |-> None]

(* Rolling budgets; a ticker searched and imposed; positions, quotes and   *)
(* imposed symbols on a pool of two; feeds and an article.                 *)
Workloads == {
  [calls |-> c1 :> Search("boursorama_ticker", absent),
   writers |-> c2 :> DeepRead(u1, FALSE) @@ c3 :> DeepRead(u1, FALSE), ticks |-> 3],
  [calls |-> (c1 :> Search("boursorama_ticker", i1) @@ c2 :> Override("boursorama_ticker", i1, m1)
              @@ c3 :> Search("boursorama_ticker", i1)),
   writers |-> NoCalls, ticks |-> 0],
  [calls |-> (c1 :> Positions @@ c2 :> Positions @@ c3 :> Override("yahoo_symbol", i1, m1)),
   writers |-> NoCalls, ticks |-> 0],
  [calls |-> (c1 :> Fetch(i1) @@ c2 :> Fetch(absent) @@ c3 :> Override("yahoo_symbol", i1, m1)),
   writers |-> c4 :> DeepRead(u1, TRUE), ticks |-> 0],
  [calls |-> NoCalls,
   writers |-> (c1 :> Ingest(1) @@ c2 :> Ingest(1) @@ c3 :> DeepRead(u1, TRUE)), ticks |-> 0],
  [calls |-> c3 :> Override("yahoo_symbol", absent, m1),
   writers |-> c1 :> Ingest(2) @@ c2 :> DeepRead(u1, TRUE), ticks |-> 0] }

MCInit ==
  /\ \E load \in Workloads : Begin(load.calls, load.writers, load.ticks, {i1, i2})
  /\ inflight = {} /\ crossed = {}

Imposing(c) == At(c, "write") /\ At(c, "refresh")'

InLookup(c, d) ==
  At(d, "lookup") /\ call[d].column = call[c].column /\ Head(call[d].todo) = Head(call[c].todo)

Crosses(c) ==
  /\ Writing(c, "insert") /\ writer[c].row # View(writer[c], Head(writer[c].todo))
  /\ writer[c].todo # writer'[c].todo

MCNext ==
  /\ ToolsNext
  /\ inflight' = inflight \cup
       UNION {{<<d, Head(call[d].todo)>> : d \in {d \in DOMAIN call : InLookup(c, d)}} :
              c \in {c \in Callers : Imposing(c)}}
  /\ crossed' = crossed \cup {<<c, Head(writer[c].todo)>> : c \in {c \in Callers : Crosses(c)}}

-----------------------------------------------------------------------------
(* A symbol that the user imposed only gives way to a looked up one when   *)
(* that lookup had begun before: one that begins later finds it in the row *)
(* and keeps it.                                                           *)
OnlyEarlierLookupsReplace ==
  [][\A i \in DOMAIN indices : \A column \in Columns :
       indices[i][column] \in Manual /\ indices'[i][column] \notin Manual =>
         \E c \in DOMAIN call :
           /\ <<c, i>> \in inflight
           /\ call[c].column = column /\ Head(call[c].todo) = i /\ At(c, "lookup")]_indices

(* The vector of an item is of the text the item shows (title, summary,    *)
(* body) unless its last writer found the row changed, between its SELECT  *)
(* and its INSERT, by a transaction that committed in the meantime.        *)
VectorsMatchUnlessCrossed ==
  \A u \in DOMAIN news :
    <<news[u].title, u>> \notin crossed => news[u].vector = <<news[u].title, news[u].body>>

(* The vector of an item is always of the title, the summary and the body  *)
(* that its row has.                                                       *)
EveryVectorMatches ==
  \A u \in DOMAIN news : news[u].vector = <<news[u].title, news[u].body>>
=============================================================================
