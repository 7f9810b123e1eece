------------------------------- MODULE AgentStream -------------------------------
(***************************************************************************)
(* What POST /chat/stream promises nam-api, whatever the agent does: the   *)
(* pieces of one response in order and a done event with the thread, or    *)
(* one error event and nothing else, then the end of the body.  A request  *)
(* whose body breaks or is left is over, as far as nam-api can tell.       *)
(***************************************************************************)
EXTENDS ChatStream

VARIABLE stream  \* question -> what nam-agentic does for it

NoStream == [phase |-> "none", thread |-> None, sent |-> 0]

StreamType ==
  stream \in [Questions -> [phase : {"none", "working", "writing", "closing", "over"},
                            thread : Questions \cup {None}, sent : 0 .. MaxSize]]

Init == StreamInit /\ stream = [q \in Questions |-> NoStream]

-----------------------------------------------------------------------------
Becomes(q, phase, sent) ==
  stream' = [stream EXCEPT ![q] = [phase |-> phase, thread |-> stream[q].thread, sent |-> sent]]

Start(q, thread_id, client) ==
  /\ stream[q].phase = "none"
  /\ stream' = [stream EXCEPT ![q] = [phase |-> IF client = "open" THEN "working" ELSE "over",
                                      thread |-> ThreadOf(q, thread_id), sent |-> 0]]
  /\ OpenBody(q, client)

Fail(q) ==
  /\ stream[q].phase = "working"
  /\ Becomes(q, "closing", 0)
  /\ Yield(q, Error(q))

Respond(q) ==
  /\ stream[q].phase = "working"
  /\ Becomes(q, "writing", 0)
  /\ UNCHANGED streamVars

Write(q) ==
  /\ stream[q].phase = "writing" /\ stream[q].sent < MaxSize
  /\ Becomes(q, "writing", stream[q].sent + 1)
  /\ Yield(q, Token(q, stream[q].sent + 1))

(* A response is never empty.                                              *)
Finish(q) ==
  /\ stream[q].phase = "writing" /\ stream[q].sent > 0
  /\ Becomes(q, "closing", 0)
  /\ Yield(q, Done(q, stream[q].thread))

End(q) ==
  /\ stream[q].phase = "closing"
  /\ Becomes(q, "over", 0)
  /\ EndBody(q)

Break(q) == BreakBody(q) /\ Becomes(q, "over", 0)

Read(q) == ReadLine(q) /\ UNCHANGED stream

Leave(q) == LeaveBody(q) /\ Becomes(q, "over", 0)

(* What nam-agentic goes on doing by itself for one request.               *)
Progress(q) == Fail(q) \/ Respond(q) \/ Write(q) \/ Finish(q) \/ End(q)

(* A client knows no thread but those of earlier requests.                 *)
KnownThreads == {None} \cup {stream[q].thread : q \in Questions}

Next ==
  \E q \in Questions :
    \/ \E t \in KnownThreads, client \in {"open", "left"} : Start(q, t, client)
    \/ Progress(q) \/ Break(q) \/ Read(q) \/ Leave(q)

Spec == Init /\ [][Next]_<<stream, streamVars>>
=============================================================================
