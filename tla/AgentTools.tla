------------------------------ MODULE AgentTools ------------------------------
(***************************************************************************)
(* The tool calls and the news ingests of one nam-agentic process, over    *)
(* one Boursorama client, one connection pool and two tables.  A workload  *)
(* says which of them run together.                                        *)
(***************************************************************************)
EXTENDS NewsStore

toolsVars == <<clientVars, resolutionVars, newsVars>>

(* A workload's tool calls, writers and idle ticks start together, on an   *)
(* empty history, over rows with no symbol and no news yet.                *)
Begin(calls, writers, ticks, ids) ==
  /\ ClientInit(ticks)
  /\ call = calls /\ writer = writers /\ held = {}
  /\ indices = [i \in ids |-> [column \in Columns |-> None]]
  /\ news = [u \in {} |-> None]

Step(c) == (ToolStep(c) /\ UNCHANGED newsVars) \/ WriterStep(c)

Stop(c) == (Cancel(c) /\ UNCHANGED newsVars) \/ Abandon(c)

ToolsNext ==
  \/ Tick /\ UNCHANGED <<resolutionVars, newsVars>>
  \/ \E c \in Callers : Step(c) \/ Stop(c)

(* The event loop runs what is ready, time passes, and every wait on the   *)
(* network, on the pool or on a lock ends somehow.                         *)
ToolsFairness ==
  /\ WF_toolsVars(Tick /\ UNCHANGED <<resolutionVars, newsVars>>)
  /\ \A c \in Callers : WF_toolsVars(Step(c))

Over(c) ==
  /\ c \in DOMAIN call => call[c].at \in {"done", "error"}
  /\ c \in DOMAIN writer => writer[c].at \in {"done", "error"}

-----------------------------------------------------------------------------
(* Types; a connection or the semaphore is only held by a call that has    *)
(* not ended, and the pool is never overdrawn.                             *)
ToolsTypeOK ==
  /\ indices \in [DOMAIN indices -> [Columns -> Found \cup Manual \cup {None}]]
  /\ \A u \in DOMAIN news : u \in Urls /\ news[u].title \in DOMAIN writer
  /\ held \subseteq Callers \X {1, 2} /\ Cardinality(held) <= PoolSize
  /\ \A c \in DOMAIN call : call[c].missing + Len(call[c].todo) <= Len(Lines)
  /\ \A c \in DOMAIN writer : DOMAIN writer[c].writes # {} => <<c, 1>> \in held
  /\ \A c \in Callers : Over(c) => semaphore # c /\ {<<c, 1>>, <<c, 2>>} \cap held = {}

(* Whoever waits for the one client, for the pool or for a row that        *)
(* another one holds, every tool call and every ingest ends, and gives     *)
(* everything back.                                                        *)
CallsEnd == <>(\A c \in Callers : Over(c) /\ http[c] = Idle) /\ <>[](held = {} /\ semaphore = NoCaller)
=============================================================================
