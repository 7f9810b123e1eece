------------------------------- MODULE ChatStream -------------------------------
(***************************************************************************)
(* The response bodies of POST /chat/stream: lines of NDJSON from          *)
(* nam-agentic to nam-api.  A request is numbered by the question it       *)
(* carries, a thread by the question whose request created it.  Status     *)
(* events only feed the front's activity line and are left out.            *)
(***************************************************************************)
EXTENDS Naturals, Sequences

CONSTANTS Questions,  \* numbers of the questions a user asks: 1 .. n
          None,       \* no thread_id
          MaxSize,    \* bound: pieces a response is streamed in
          MaxLines,   \* bound: lines in flight, which backpressure imposes
          Cuts        \* how a body may stop before its end

ASSUME ChatStreamAssumption ==
  /\ Questions \subseteq Nat \ {0} /\ None \notin Questions
  /\ MaxSize \in Nat \ {0} /\ MaxLines \in Nat \ {0}
  /\ Cuts \subseteq {"broken", "cut"}

VARIABLES lines,  \* question -> lines sent and not yet read
          link    \* question -> state of the response body

streamVars == <<lines, link>>

Token(q, part) == [type |-> "token", of |-> q, part |-> part]

Done(q, thread) == [type |-> "done", of |-> q, thread |-> thread]

Error(q) == [type |-> "error", of |-> q]

Events == [type : {"token"}, of : Questions, part : 1 .. MaxSize]
            \cup [type : {"done"}, of : Questions, thread : Questions]
            \cup [type : {"error"}, of : Questions]

IsTerminal(event) == event.type \in {"done", "error"}

(* Mutant: a thread of its own for every request. *)
ThreadFresh(q, thread_id) == q

(* body.thread_id or str(uuid4()).                                         *)
ThreadOf(q, thread_id) == IF thread_id = None THEN q ELSE thread_id

StreamInit ==
  /\ lines = [q \in Questions |-> <<>>]
  /\ link = [q \in Questions |-> "none"]

-----------------------------------------------------------------------------
(* The response starts; its client may have left by then.                  *)
OpenBody(q, client) == link' = [link EXCEPT ![q] = client] /\ UNCHANGED lines

(* A line is read by nam-api.  What a run writes to a body that nobody     *)
(* reads any more cannot be told from its being cancelled.                 *)
Yield(q, event) ==
  /\ link[q] = "open" /\ Len(lines[q]) < MaxLines
  /\ lines' = [lines EXCEPT ![q] = Append(@, event)]
  /\ UNCHANGED link

(* The generator returns: the last chunk of the body.                      *)
EndBody(q) ==
  /\ link[q] = "open"
  /\ link' = [link EXCEPT ![q] = "eof"]
  /\ UNCHANGED lines

(* The client has gone, or the process dies: the run will be cancelled.    *)
Abandoned(q) == link[q] \in {"broken", "cut", "left"}

(* The body stops, with what was in flight: "broken" by a network or       *)
(* protocol error, or "cut" by an intermediary as if it were complete.     *)
BreakBody(q) ==
  /\ link[q] = "open"
  /\ \E n \in 0 .. Len(lines[q]) : lines' = [lines EXCEPT ![q] = SubSeq(@, 1, n)]
  /\ \E how \in Cuts : link' = [link EXCEPT ![q] = how]

(* aiter_lines hands the next line to nam-api.                             *)
ReadLine(q) ==
  /\ lines[q] # <<>>
  /\ lines' = [lines EXCEPT ![q] = Tail(@)]
  /\ UNCHANGED link

(* Leaving client.stream closes the response, read to its end or not.      *)
LeaveBody(q) ==
  /\ link[q] # "none"
  /\ link' = [link EXCEPT ![q] = "left"]
  /\ lines' = [lines EXCEPT ![q] = <<>>]
=============================================================================
