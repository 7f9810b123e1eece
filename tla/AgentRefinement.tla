----------------------------- MODULE AgentRefinement -----------------------------
(***************************************************************************)
(* AgentRunner implements AgentStream: checkpoints, texts, nudges and the  *)
(* choice of the response are hidden, and a run whose body nobody reads    *)
(* any more counts as over although its graph may go on.                   *)
(***************************************************************************)
EXTENDS AgentRunner

Streams ==
  [q \in Questions |->
     [phase  |-> IF Abandoned(q) THEN "over"
                 ELSE IF run[q].phase \in {"graph", "picking"} THEN "working"
                 ELSE run[q].phase,
      thread |-> run[q].thread,
      sent   |-> IF Abandoned(q) THEN 0 ELSE run[q].sent]]

Stream == INSTANCE AgentStream WITH stream <- Streams

(* POST /chat/stream keeps the promise of AgentStream: pieces of one       *)
(* response and done, or one error, then the end.                          *)
ImplementsStream == Stream!Spec
=============================================================================
