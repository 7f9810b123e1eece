------------------------------- MODULE AgentRunner -------------------------------
(***************************************************************************)
(* AgentRunner.stream_events and the route that streams it: the graph runs *)
(* on the checkpointed thread of the conversation, the final text is       *)
(* picked from that thread and streamed in pieces.                         *)
(***************************************************************************)
EXTENDS ChatStream

CONSTANT Outputs  \* kind and size of the texts the model may write

ASSUME AgentRunnerAssumption ==
  Outputs \subseteq [kind : {"answer", "plan"}, size : 1 .. MaxSize]

VARIABLES checkpoint,  \* thread -> assistant texts of its latest checkpoint
          run          \* question -> the execution of stream_events for it

vars == <<checkpoint, run, streamVars>>

(* Assistant texts without tool calls, with their length in pieces.  A     *)
(* plan is what _looks_like_plan_preamble or _looks_like_internal_draft    *)
(* recognises.                                                             *)
Text(q, output) == [of |-> q, kind |-> output.kind, size |-> output.size]

Texts == {Text(q, output) : q \in Questions, output \in Outputs}

REPONSE_VIDE_SECOURS == [of |-> 0, kind |-> "fallback", size |-> 1]

NoRun == [phase |-> "none", thread |-> None, texts |-> <<>>, tools |-> FALSE, nudged |-> FALSE,
          response |-> REPONSE_VIDE_SECOURS, sent |-> 0]

Init ==
  /\ StreamInit
  /\ checkpoint = [t \in Questions |-> <<>>]
  /\ run = [q \in Questions |-> NoRun]

-----------------------------------------------------------------------------
(* Mutant: the graph starts without the thread's messages. *)
LoadNothing(t) == <<>>

Load(t) == checkpoint[t]

(* chat_stream, and astream's load of the thread's latest checkpoint.      *)
Start(q, thread_id, client) ==
  /\ run[q].phase = "none"
  /\ LET t == ThreadOf(q, thread_id)
     IN  run' = [run EXCEPT ![q] = [@ EXCEPT !.phase = "graph", !.thread = t, !.texts = Load(t)]]
  /\ OpenBody(q, client)
  /\ UNCHANGED checkpoint

(* The generator has yielded its last event, or is over: nothing is left   *)
(* of its locals.                                                          *)
Ended(q, phase) ==
  run' = [run EXCEPT ![q] = [NoRun EXCEPT !.phase = phase, !.thread = run[q].thread]]

(* Each superstep of the graph saves the messages this run knows.          *)
Save(q, texts) == checkpoint' = [checkpoint EXCEPT ![run[q].thread] = texts]

(* A model turn with tool calls, then the tools node.                      *)
ToolRound(q) ==
  /\ run[q].phase = "graph"
  /\ run' = [run EXCEPT ![q] = [@ EXCEPT !.tools = TRUE]]
  /\ Save(q, run[q].texts)
  /\ UNCHANGED streamVars

(* The model turn without tool calls that ends the graph; its text may be  *)
(* empty.                                                                  *)
GraphEnds(q) ==
  /\ run[q].phase = "graph"
  /\ \E new \in {<<>>} \cup {<<Text(q, output)>> : output \in Outputs} :
       LET texts == run[q].texts \o new
       IN  /\ run' = [run EXCEPT ![q] = [@ EXCEPT !.phase = "picking", !.texts = texts]]
           /\ Save(q, texts)
  /\ UNCHANGED streamVars

(* Mutant: the response follows the error event. *)
GraphFailsAndGoesOn(q) ==
  /\ run[q].phase = "graph" /\ ~run[q].nudged
  /\ run' = [run EXCEPT ![q] = [@ EXCEPT !.phase = "writing"]]
  /\ Yield(q, Error(q))
  /\ UNCHANGED checkpoint

(* astream raises: an error event, but the fallback when it was the nudge. *)
GraphFails(q) ==
  /\ run[q].phase = "graph" /\ ~run[q].nudged
  /\ Ended(q, "closing")
  /\ Yield(q, Error(q))
  /\ UNCHANGED checkpoint

NudgeFails(q) ==
  /\ run[q].phase = "graph" /\ run[q].nudged
  /\ run' = [run EXCEPT ![q] = [@ EXCEPT !.phase = "writing"]]
  /\ UNCHANGED <<checkpoint, streamVars>>

(* max() over the texts from the latest to the earliest: the first of the  *)
(* longest.                                                                *)
Longest(texts, pool) ==
  {texts[i] : i \in {k \in pool :
     \A j \in pool : \/ texts[j].size < texts[k].size
                     \/ (texts[j].size = texts[k].size /\ j <= k)}}

(* Mutant: plans compete with answers. *)
FinalOfAll(texts) == Longest(texts, DOMAIN texts)

(* _pick_final_assistant_text: the set of the text, {} for "".             *)
Final(texts) ==
  LET substantive == {i \in DOMAIN texts : texts[i].kind # "plan"}
  IN  Longest(texts, IF substantive # {} THEN substantive ELSE DOMAIN texts)

NeedsSynthesisNudge(q, final) == run[q].tools /\ \A text \in final : text.kind = "plan"

(* One more graph run when only a plan came out of tools or experts.       *)
Nudge(q) ==
  /\ run[q].phase = "picking" /\ ~run[q].nudged
  /\ LET texts == Load(run[q].thread)
     IN  /\ NeedsSynthesisNudge(q, Final(texts))
         /\ run' = [run EXCEPT ![q] = [@ EXCEPT !.phase = "graph", !.nudged = TRUE, !.texts = texts]]
  /\ UNCHANGED <<checkpoint, streamVars>>

Respond(q) ==
  /\ run[q].phase = "picking"
  /\ LET final == Final(Load(run[q].thread))
     IN  /\ run[q].nudged \/ ~NeedsSynthesisNudge(q, final)
         /\ \E response \in IF final = {} THEN {REPONSE_VIDE_SECOURS} ELSE final :
              run' = [run EXCEPT ![q] = [@ EXCEPT !.phase = "writing", !.response = response]]
  /\ UNCHANGED <<checkpoint, streamVars>>

(* aget_state raises, or cleaning the text leaves nothing of it.           *)
FallBack(q) ==
  /\ run[q].phase = "picking"
  /\ run' = [run EXCEPT ![q] = [@ EXCEPT !.phase = "writing"]]
  /\ UNCHANGED <<checkpoint, streamVars>>

(* Mutant: one piece too many. *)
WriteTooMuch(q) ==
  /\ run[q].phase = "writing" /\ run[q].sent <= run[q].response.size
  /\ run' = [run EXCEPT ![q].sent = @ + 1]
  /\ Yield(q, Token(q, run[q].sent + 1))
  /\ UNCHANGED checkpoint

Write(q) ==
  /\ run[q].phase = "writing" /\ run[q].sent < run[q].response.size
  /\ run' = [run EXCEPT ![q].sent = @ + 1]
  /\ Yield(q, Token(q, run[q].sent + 1))
  /\ UNCHANGED checkpoint

Finish(q) ==
  /\ run[q].phase = "writing" /\ run[q].sent = run[q].response.size
  /\ Ended(q, "closing")
  /\ Yield(q, Done(q, run[q].thread))
  /\ UNCHANGED checkpoint

End(q) ==
  /\ run[q].phase = "closing"
  /\ Ended(q, "over")
  /\ EndBody(q)
  /\ UNCHANGED checkpoint

Cancel(q) ==
  /\ Abandoned(q) /\ run[q].phase # "over"
  /\ Ended(q, "over")
  /\ UNCHANGED <<checkpoint, streamVars>>

(* A client knows no thread but those of earlier requests.                 *)
KnownThreads == {None} \cup {run[q].thread : q \in Questions}

Next ==
  \E q \in Questions :
    \/ \E t \in KnownThreads, client \in {"open", "left"} : Start(q, t, client)
    \/ ToolRound(q) \/ GraphEnds(q) \/ GraphFails(q) \/ NudgeFails(q)
    \/ Nudge(q) \/ Respond(q) \/ FallBack(q)
    \/ Write(q) \/ Finish(q) \/ End(q) \/ Cancel(q)
    \/ (BreakBody(q) \/ ReadLine(q) \/ LeaveBody(q)) /\ UNCHANGED <<checkpoint, run>>

Spec == Init /\ [][Next]_vars

-----------------------------------------------------------------------------
(* Types of the checkpoints and of every run.                              *)
TypeOK ==
  /\ checkpoint \in [Questions -> Seq(Texts)]
  /\ run \in [Questions -> [phase : {"none", "graph", "picking", "writing", "closing", "over"},
                            thread : Questions \cup {None}, texts : Seq(Texts), tools : BOOLEAN,
                            nudged : BOOLEAN, response : Texts \cup {REPONSE_VIDE_SECOURS},
                            sent : 0 .. MaxSize]]
  /\ lines \in [Questions -> Seq(Events)]
  /\ link \in [Questions -> {"none", "open", "eof", "cut", "broken", "left"}]
=============================================================================
