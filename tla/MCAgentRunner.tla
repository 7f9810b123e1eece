----------------------------- MODULE MCAgentRunner -----------------------------
(***************************************************************************)
(* A small instance of AgentRunner, its refinement of AgentStream, and a   *)
(* history variable: the threads on which two runs have ever overlapped.   *)
(***************************************************************************)
EXTENDS AgentRefinement, SequencesExt

MCOutputs == {[kind |-> "answer", size |-> 1], [kind |-> "answer", size |-> 2],
              [kind |-> "plan", size |-> 2]}

VARIABLE contested

Running(q) == run[q].phase \in {"graph", "picking"}

HistoryInit == Init /\ contested = {}

HistoryNext ==
  /\ Next
  /\ contested' = contested \cup
       {t \in Questions : \E p, q \in Questions : /\ p # q /\ Running(p)' /\ Running(q)'
                                                  /\ run'[p].thread = t /\ run'[q].thread = t}

HistorySpec == HistoryInit /\ [][HistoryNext]_<<vars, contested>>

-----------------------------------------------------------------------------
(* A run that had its thread to itself never shows a plan, or a shorter    *)
(* text, when it wrote an answer: what its graph saved is what the pick    *)
(* reads, before and after a nudge.                                        *)
OwnAnswerCompetes ==
  \A q \in Questions :
    (run[q].phase = "writing" /\ run[q].thread \notin contested /\ run[q].response.kind # "fallback") =>
      \A i \in DOMAIN run[q].texts :
        LET text == run[q].texts[i]
        IN  text.kind = "answer" =>
              run[q].response.kind = "answer" /\ run[q].response.size >= text.size

(* "A subsequent invoke with the same thread_id continues the              *)
(* conversation": no text of a thread is lost, whatever fails or is        *)
(* cancelled, as long as no two runs overlap on it.                        *)
ThreadGrows ==
  [][\A t \in Questions : t \notin contested' => IsPrefix(checkpoint[t], checkpoint'[t])]_vars

(* "Agent invocations that include a thread_id MUST persist graph state":  *)
(* no text of a thread is ever lost, also when two runs overlap on it.     *)
InvocationsPersist ==
  [][\A t \in Questions : IsPrefix(checkpoint[t], checkpoint'[t])]_vars

(* stream_events "envoie des statuts pendant l'attente, puis la reponse    *)
(* finale": a run alone on its thread that wrote an answer responds with   *)
(* one of its own.                                                         *)
ResponseIsOwn ==
  \A q \in Questions :
    (/\ run[q].phase = "writing" /\ run[q].response.kind # "fallback"
     /\ run[q].thread \notin contested
     /\ \E i \in DOMAIN run[q].texts : run[q].texts[i].of = q /\ run[q].texts[i].kind = "answer")
    => run[q].response.of = q
=============================================================================
