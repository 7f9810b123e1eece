------------------------------- MODULE ChatProxy -------------------------------
(***************************************************************************)
(* The /ws/chat coroutine of nam-api, one per WebSocket connection: it     *)
(* receives one question at a time, opens a response stream of             *)
(* nam-agentic for it and relays the lines.                                *)
(***************************************************************************)
EXTENDS AgentStream

CONSTANT Conns  \* WebSocket connections a tab opens, numbered 1 .. n

ASSUME ChatProxyAssumption == Conns \subseteq Nat \ {0}

VARIABLES proxy,  \* connection -> the coroutine
          live,   \* connections that neither end has closed and no failure has cut
          up,     \* connection -> questions on their way to nam-api
          down    \* connection -> messages on their way to the browser

proxyVars == <<proxy, live, up, down>>

Idle == [at |-> "idle", q |-> None, thread_id |-> None, saw_terminal |-> FALSE]

Closed == [Idle EXCEPT !.at = "closed"]

agentVars == <<stream, streamVars>>

ProxyInit ==
  /\ proxy = [c \in Conns |-> Closed]
  /\ live = {}
  /\ up = [c \in Conns |-> <<>>]
  /\ down = [c \in Conns |-> <<>>]

-----------------------------------------------------------------------------
(* websocket.send_text, then `next`; on a connection that is gone it       *)
(* raises WebSocketDisconnect, which ends the coroutine.                   *)
SendText(c, msg, next) ==
  IF c \in live
  THEN down' = [down EXCEPT ![c] = Append(@, msg)] /\ proxy' = [proxy EXCEPT ![c] = next]
  ELSE proxy' = [proxy EXCEPT ![c] = Closed] /\ UNCHANGED down

(* receive_text and the parsing of what the front sends, which is valid.   *)
ReceiveText(c) ==
  /\ proxy[c].at = "idle" /\ up[c] # <<>>
  /\ proxy' = [proxy EXCEPT ![c] = [Idle EXCEPT !.at = "calling", !.q = Head(up[c]).of,
                                                !.thread_id = Head(up[c]).thread_id]]
  /\ up' = [up EXCEPT ![c] = Tail(@)]
  /\ UNCHANGED <<live, down>> /\ UNCHANGED agentVars

(* receive_text raises WebSocketDisconnect.                                *)
Disconnected(c) ==
  /\ proxy[c].at = "idle" /\ up[c] = <<>> /\ c \notin live
  /\ proxy' = [proxy EXCEPT ![c] = Closed]
  /\ UNCHANGED <<live, up, down>> /\ UNCHANGED agentVars

(* nam-agentic answers 200 to the POST.                                    *)
Call(c) ==
  /\ proxy[c].at = "calling"
  /\ Start(proxy[c].q, proxy[c].thread_id, "open")
  /\ proxy' = [proxy EXCEPT ![c].at = "reading"]
  /\ UNCHANGED <<live, up, down>>

(* It cannot be reached, answers another status, or its answer is lost.    *)
CallFails(c) ==
  /\ proxy[c].at = "calling"
  /\ SendText(c, Error(proxy[c].q), Idle)
  /\ UNCHANGED agentVars \/ Start(proxy[c].q, proxy[c].thread_id, "left")
  /\ UNCHANGED <<live, up>>

Saw(saw_terminal, event) == saw_terminal \/ IsTerminal(event)

(* One turn of the loop over aiter_lines; a failed send_text leaves the    *)
(* stream.                                                                 *)
Relay(c) ==
  LET q == proxy[c].q
  IN  /\ proxy[c].at = "reading" /\ lines[q] # <<>>
      /\ SendText(c, Head(lines[q]),
                  [proxy[c] EXCEPT !.saw_terminal = Saw(@, Head(lines[q]))])
      /\ IF c \in live THEN Read(q) ELSE Leave(q)
      /\ UNCHANGED <<live, up>>

(* A status line, which makes a difference only when the connection is     *)
(* gone.                                                                   *)
RelayStatus(c) ==
  LET q == proxy[c].q
  IN  /\ proxy[c].at = "reading" /\ c \notin live
      /\ link[q] = "open" /\ lines[q] = <<>> /\ stream[q].phase = "working"
      /\ proxy' = [proxy EXCEPT ![c] = Closed]
      /\ Leave(q)
      /\ UNCHANGED <<live, up, down>>

(* Mutant: a truncated stream is not reported. *)
StreamEndsSilently(c) ==
  /\ proxy[c].at = "reading"
  /\ lines[proxy[c].q] = <<>> /\ link[proxy[c].q] \in {"eof", "cut"}
  /\ proxy' = [proxy EXCEPT ![c] = Idle] /\ UNCHANGED down
  /\ Leave(proxy[c].q)
  /\ UNCHANGED <<live, up>>

(* The body is over: an error is sent if no terminal event was in it.      *)
StreamEnds(c) ==
  /\ proxy[c].at = "reading"
  /\ lines[proxy[c].q] = <<>> /\ link[proxy[c].q] \in {"eof", "cut"}
  /\ IF proxy[c].saw_terminal
     THEN proxy' = [proxy EXCEPT ![c] = Idle] /\ UNCHANGED down
     ELSE SendText(c, Error(proxy[c].q), Idle)
  /\ Leave(proxy[c].q)
  /\ UNCHANGED <<live, up>>

(* except httpx.HTTPError: an error is sent, whatever was relayed before.  *)
StreamBreaks(c) ==
  /\ proxy[c].at = "reading"
  /\ lines[proxy[c].q] = <<>> /\ link[proxy[c].q] = "broken"
  /\ SendText(c, Error(proxy[c].q), Idle)
  /\ Leave(proxy[c].q)
  /\ UNCHANGED <<live, up>>

(* The network or nam-api fails: messages in flight, the last ones first,  *)
(* are lost.                                                               *)
Drop(c) ==
  /\ c \in live
  /\ live' = live \ {c}
  /\ \E n \in 0 .. Len(up[c]), m \in 0 .. Len(down[c]) :
       /\ up' = [up EXCEPT ![c] = SubSeq(@, 1, n)]
       /\ down' = [down EXCEPT ![c] = SubSeq(@, 1, m)]
  /\ UNCHANGED proxy /\ UNCHANGED agentVars

React(c) ==
  ReceiveText(c) \/ Disconnected(c) \/ Call(c) \/ CallFails(c) \/ Relay(c) \/ RelayStatus(c)
    \/ StreamEnds(c) \/ StreamBreaks(c)

ProxyStep(c) == React(c) \/ Drop(c)
=============================================================================
