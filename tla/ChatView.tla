-------------------------------- MODULE ChatView --------------------------------
(***************************************************************************)
(* ChatView.tsx in one browser tab.  A mount of the component opens one    *)
(* WebSocket and never another; leaving the page closes it.  A bubble is   *)
(* the assistant's message under a question, and bears its number.         *)
(***************************************************************************)
EXTENDS ChatProxy

VARIABLES mount,         \* number of mounts so far; the last one has connection `mount`
          socket,        \* what its handlers know: "open", "failed" (onerror ran), "closed"
          isStreaming,
          isStreamingRef,
          assistantId,   \* question whose bubble is being filled
          buffer,        \* assistantBufferRef
          messages,      \* question -> content of its bubble
          threadId,      \* state and sessionStorage
          error,         \* an error is shown
          asked          \* number of questions asked in this tab

viewVars == <<mount, socket, isStreaming, isStreamingRef, assistantId, buffer, messages, threadId,
              error, asked>>

ViewInit ==
  /\ mount = 0 /\ socket = "closed"
  /\ isStreaming = FALSE /\ isStreamingRef = FALSE
  /\ assistantId = None /\ buffer = <<>>
  /\ messages = [q \in {} |-> <<>>]
  /\ threadId = None
  /\ error = FALSE
  /\ asked = 0

-----------------------------------------------------------------------------
(* The component is mounted, after the cleanup of the previous mount: its  *)
(* socket closes behind what was sent on it, and what was on its way to it *)
(* is dropped.                                                             *)
Mount ==
  /\ mount + 1 \in Conns
  /\ mount' = mount + 1 /\ socket' = "open"
  /\ isStreaming' = FALSE /\ isStreamingRef' = FALSE
  /\ assistantId' = None /\ buffer' = <<>>
  /\ messages' = [q \in {} |-> <<>>]
  /\ error' = FALSE
  /\ live' = (live \ {mount}) \cup {mount + 1}
  /\ proxy' = [proxy EXCEPT ![mount + 1] = Idle]
  /\ down' = [c \in Conns |-> IF c = mount THEN <<>> ELSE down[c]]
  /\ UNCHANGED <<threadId, asked, up>> /\ UNCHANGED agentVars

(* Mutant: a question can be sent while another is answered. *)
SocketOpen == socket = "open"

MaySend == ~isStreaming /\ socket = "open"

(* sendMessage; a failure the browser has not noticed yet loses the        *)
(* question.  React runs the effect that copies isStreaming to its ref     *)
(* before the event that follows a submit.                                 *)
SendMessage ==
  LET q == asked + 1
  IN  /\ q \in Questions
      /\ MaySend
      /\ error' = FALSE /\ isStreaming' = TRUE /\ isStreamingRef' = TRUE
      /\ assistantId' = q /\ buffer' = <<>>
      /\ messages' = [k \in DOMAIN messages \cup {q} |-> IF k = q THEN <<>> ELSE messages[k]]
      /\ up' = IF mount \in live
               THEN [up EXCEPT ![mount] = Append(@, [of |-> q, thread_id |-> threadId])] ELSE up
      /\ asked' = q
      /\ UNCHANGED <<mount, socket, threadId, proxy, live, down>> /\ UNCHANGED agentVars

(* "Connexion au chat indisponible": nothing is sent on a socket that is   *)
(* not open any more.                                                      *)
SendRefused ==
  /\ mount > 0 /\ ~isStreaming /\ socket # "open"
  /\ error' = TRUE
  /\ UNCHANGED <<mount, socket, isStreaming, isStreamingRef, assistantId, buffer, messages, threadId,
                 asked>>
  /\ UNCHANGED proxyVars /\ UNCHANGED agentVars

(* The effect runs some time after the render that onerror asked for.      *)
SyncRef ==
  /\ isStreamingRef # isStreaming
  /\ isStreamingRef' = isStreaming
  /\ UNCHANGED <<mount, socket, isStreaming, assistantId, buffer, messages, threadId, error, asked>>
  /\ UNCHANGED proxyVars /\ UNCHANGED agentVars

Filled(q, content) == [messages EXCEPT ![q] = content]

(* Mutant: the bubble is emptied, not removed. *)
Emptied(q) == [messages EXCEPT ![q] = None]

Without(q) == [k \in DOMAIN messages \ {q} |-> messages[k]]

OnToken(event) ==
  /\ buffer' = Append(buffer, event)
  /\ messages' = IF assistantId = None THEN messages ELSE Filled(assistantId, buffer')
  /\ UNCHANGED <<isStreaming, isStreamingRef, assistantId, threadId, error>>

(* What both terminal events end with.  That the ref follows later cannot  *)
(* be seen: onclose reads it with an assistantId only.                     *)
EndAnswer ==
  isStreaming' = FALSE /\ isStreamingRef' = FALSE /\ assistantId' = None /\ buffer' = <<>>

OnDone(event) ==
  /\ threadId' = event.thread
  /\ IF assistantId = None THEN UNCHANGED <<messages, error>>
     ELSE IF buffer # <<>> THEN messages' = Filled(assistantId, buffer) /\ UNCHANGED error
     ELSE messages' = Without(assistantId) /\ error' = TRUE
  /\ EndAnswer

(* Mutant: a partial answer is left without an error. *)
OnErrorQuiet(event) ==
  /\ messages' = IF assistantId # None /\ buffer = <<>> THEN Without(assistantId) ELSE messages
  /\ error' = (buffer = <<>>)
  /\ EndAnswer
  /\ UNCHANGED threadId

OnError(event) ==
  /\ messages' = IF assistantId # None /\ buffer = <<>> THEN Without(assistantId) ELSE messages
  /\ error' = TRUE
  /\ EndAnswer
  /\ UNCHANGED threadId

OnMessage ==
  /\ mount > 0 /\ socket = "open" /\ down[mount] # <<>>
  /\ LET event == Head(down[mount])
     IN  CASE event.type = "token" -> OnToken(event)
           [] event.type = "done"  -> OnDone(event)
           [] event.type = "error" -> OnError(event)
  /\ down' = [down EXCEPT ![mount] = Tail(@)]
  /\ UNCHANGED <<mount, socket, asked, proxy, live, up>> /\ UNCHANGED agentVars

(* The browser notices that the connection is gone; it fires onerror for   *)
(* some failures, and onclose for all.                                     *)
Noticed == mount > 0 /\ mount \notin live /\ down[mount] = <<>>

SocketOnError ==
  /\ Noticed /\ socket = "open"
  /\ socket' = "failed"
  /\ error' = TRUE /\ isStreaming' = FALSE
  /\ UNCHANGED <<mount, isStreamingRef, assistantId, buffer, messages, threadId, asked>>
  /\ UNCHANGED proxyVars /\ UNCHANGED agentVars

SocketOnClose ==
  /\ Noticed /\ socket # "closed"
  /\ socket' = "closed"
  /\ IF isStreamingRef /\ buffer = <<>> /\ assistantId # None
     THEN messages' = Without(assistantId) /\ error' = TRUE
     ELSE UNCHANGED <<messages, error>>
  /\ isStreaming' = FALSE /\ isStreamingRef' = FALSE /\ assistantId' = None
  /\ UNCHANGED <<mount, buffer, threadId, asked>>
  /\ UNCHANGED proxyVars /\ UNCHANGED agentVars

ViewStep ==
  Mount \/ SendMessage \/ SendRefused \/ SyncRef \/ OnMessage \/ SocketOnError \/ SocketOnClose
=============================================================================
