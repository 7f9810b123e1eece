------------------------------ MODULE ChatProofs ------------------------------
(***************************************************************************)
(* For any number of questions, connections, pieces and lines in flight,   *)
(* and however the bodies may stop: what the page shows under a question   *)
(* is a prefix of the answer to it, a settled page shows all of the last   *)
(* answer, and the conversation stays on its thread.                       *)
(***************************************************************************)
EXTENDS MCChat, TLAPS, SequenceTheorems

Links == {"none", "open", "eof", "cut", "broken", "left"}

Threads == Questions \cup {None}

Requests == [phase : {"none", "working", "writing", "closing", "over"}, thread : Threads,
             sent : 0 .. MaxSize]

Coroutines == [at : {"idle", "calling", "reading", "closed"}, q : Threads, thread_id : Threads,
               saw_terminal : BOOLEAN]

Posts == [of : Questions, thread_id : Threads]

(* A body and its lines belong to a request that has begun, whose thread   *)
(* is known.                                                               *)
StreamsOk ==
  /\ stream \in [Questions -> Requests]
  /\ lines \in [Questions -> Seq(Events)]
  /\ link \in [Questions -> Links]
  /\ \A q \in Questions :
       /\ stream[q].phase = "none" => link[q] = "none" /\ lines[q] = <<>>
       /\ stream[q].phase # "none" => stream[q].thread \in Questions

(* A coroutine that calls or reads knows its question.                     *)
ProxyOk ==
  /\ proxy \in [Conns -> Coroutines]
  /\ live \subseteq Conns
  /\ up \in [Conns -> Seq(Posts)]
  /\ down \in [Conns -> Seq(Events)]
  /\ \A c \in Conns : proxy[c].at \in {"calling", "reading"} => proxy[c].q \in Questions

ViewOk ==
  /\ mount \in Conns \cup {0} /\ socket \in {"open", "failed", "closed"}
  /\ isStreaming \in BOOLEAN /\ isStreamingRef \in BOOLEAN /\ error \in BOOLEAN
  /\ assistantId \in Threads /\ threadId \in Threads
  /\ buffer \in Seq(Events)
  /\ DOMAIN messages \subseteq Questions /\ messages \in [DOMAIN messages -> Seq(Events)]
  /\ asked \in Questions \cup {0}

TypeInv == StreamsOk /\ ProxyOk /\ ViewOk

-----------------------------------------------------------------------------
LEMMA Constants ==
  /\ Questions \subseteq Nat \ {0} /\ None \notin Questions
  /\ MaxSize \in Nat \ {0} /\ Conns \subseteq Nat \ {0}
BY ChatStreamAssumption, ChatProxyAssumption

LEMMA EventTypes ==
  /\ \A q \in Questions, i \in 1 .. MaxSize : Token(q, i) \in Events
  /\ \A q, t \in Questions : Done(q, t) \in Events
  /\ \A q \in Questions : Error(q) \in Events
  /\ \A e \in Events : e.type \in {"token", "done", "error"}
  /\ \A e \in Events : e.type = "done" => e.thread \in Questions
BY DEF Events, Token, Done, Error

(* Changing one entry of each of a request's three functions.              *)
LEMMA OneRequest ==
  ASSUME StreamsOk, NEW q \in Questions,
         NEW s \in Requests, NEW l \in Seq(Events), NEW k \in Links,
         s.phase = "none" => k = "none" /\ l = <<>>, s.phase # "none" => s.thread \in Questions,
         stream' = [stream EXCEPT ![q] = s], lines' = [lines EXCEPT ![q] = l],
         link' = [link EXCEPT ![q] = k]
  PROVE  StreamsOk'
BY DEF StreamsOk

LEMMA Fields ==
  ASSUME StreamsOk, NEW q \in Questions
  PROVE  /\ stream[q] \in Requests /\ lines[q] \in Seq(Events) /\ link[q] \in Links
         /\ stream[q].phase = "none" => link[q] = "none" /\ lines[q] = <<>>
         /\ stream[q].phase # "none" => stream[q].thread \in Questions
         /\ stream[q].thread \in Threads /\ stream[q].sent \in 0 .. MaxSize
         /\ stream = [stream EXCEPT ![q] = stream[q]]
         /\ lines = [lines EXCEPT ![q] = lines[q]]
         /\ link = [link EXCEPT ![q] = link[q]]
BY DEF StreamsOk, Requests

LEMMA ProgressTypes ==
  ASSUME StreamsOk, NEW q \in Questions, Progress(q) \/ Break(q)
  PROVE  StreamsOk'
<1>1. /\ stream[q] \in Requests /\ lines[q] \in Seq(Events) /\ link[q] \in Links
      /\ stream[q].phase # "none" => stream[q].thread \in Questions
      /\ stream[q].phase = "none" => link[q] = "none"
      /\ stream[q].thread \in Threads /\ stream[q].sent \in 0 .. MaxSize
      /\ lines = [lines EXCEPT ![q] = lines[q]] /\ link = [link EXCEPT ![q] = link[q]]
  BY Fields
<1> DEFINE request(phase, sent) == [phase |-> phase, thread |-> stream[q].thread, sent |-> sent]
<1>2. CASE Fail(q)
  <2>1. request("closing", 0) \in Requests /\ Append(lines[q], Error(q)) \in Seq(Events)
    BY <1>1, EventTypes, Constants DEF Requests
  <2> QED
    BY <1>1, <1>2, <2>1, OneRequest DEF Fail, Becomes, Yield
<1>3. CASE Respond(q)
  <2>1. request("writing", 0) \in Requests
    BY <1>1, Constants DEF Requests
  <2>2. stream[q].phase # "none" /\ stream' = [stream EXCEPT ![q] = request("writing", 0)]
    BY <1>3 DEF Respond, Becomes
  <2>3. lines' = lines /\ link' = link
    BY <1>3 DEF Respond, streamVars
  <2> QED
    BY <1>1, <2>1, <2>2, <2>3, OneRequest
<1>4. CASE Write(q)
  <2>1. stream[q].sent + 1 \in 1 .. MaxSize
    BY <1>1, <1>4, Constants DEF Write
  <2>2. request("writing", stream[q].sent + 1) \in Requests
    BY <1>1, <2>1 DEF Requests
  <2>3. Append(lines[q], Token(q, stream[q].sent + 1)) \in Seq(Events)
    BY <1>1, <2>1, EventTypes
  <2> QED
    BY <1>1, <1>4, <2>2, <2>3, OneRequest DEF Write, Becomes, Yield
<1>5. CASE Finish(q)
  <2>1. request("closing", 0) \in Requests
    BY <1>1, Constants DEF Requests
  <2>2. Append(lines[q], Done(q, stream[q].thread)) \in Seq(Events)
    BY <1>1, <1>5, EventTypes DEF Finish
  <2> QED
    BY <1>1, <1>5, <2>1, <2>2, OneRequest DEF Finish, Becomes, Yield
<1>6. CASE End(q)
  <2>1. request("over", 0) \in Requests
    BY <1>1, Constants DEF Requests
  <2>2. "eof" \in Links
    BY DEF Links
  <2>3. stream[q].phase # "none" /\ stream' = [stream EXCEPT ![q] = request("over", 0)]
    BY <1>6 DEF End, Becomes
  <2>4. link' = [link EXCEPT ![q] = "eof"] /\ lines' = lines
    BY <1>6 DEF End, EndBody
  <2> QED
    BY <1>1, <2>1, <2>2, <2>3, <2>4, OneRequest
<1>7. CASE Break(q)
  <2>1. request("over", 0) \in Requests
    BY <1>1, Constants DEF Requests
  <2>2. PICK n \in 0 .. Len(lines[q]) : lines' = [lines EXCEPT ![q] = SubSeq(lines[q], 1, n)]
    BY <1>7, <1>1 DEF Break, BreakBody
  <2>3. SubSeq(lines[q], 1, n) \in Seq(Events)
    BY <1>1, SubSeqProperties
  <2>4. PICK how \in Cuts : link' = [link EXCEPT ![q] = how]
    BY <1>7 DEF Break, BreakBody
  <2>5. how \in Links
    BY ChatStreamAssumption DEF Links
  <2>6. stream[q].phase # "none" /\ stream' = [stream EXCEPT ![q] = request("over", 0)]
    BY <1>1, <1>7 DEF Break, BreakBody, Becomes
  <2> QED
    BY <1>1, <2>1, <2>2, <2>3, <2>4, <2>5, <2>6, OneRequest
<1> QED
  BY <1>2, <1>3, <1>4, <1>5, <1>6, <1>7 DEF Progress

LEMMA ClientTypes ==
  ASSUME StreamsOk, NEW q \in Questions,
         \/ Read(q) \/ Leave(q)
         \/ \E t \in Threads, client \in {"open", "left"} : Start(q, t, client)
  PROVE  StreamsOk'
<1>1. /\ stream[q] \in Requests /\ lines[q] \in Seq(Events) /\ link[q] \in Links
      /\ stream[q].phase # "none" => stream[q].thread \in Questions
      /\ stream[q].phase = "none" => link[q] = "none" /\ lines[q] = <<>>
      /\ stream[q].thread \in Threads
      /\ lines = [lines EXCEPT ![q] = lines[q]] /\ link = [link EXCEPT ![q] = link[q]]
      /\ stream = [stream EXCEPT ![q] = stream[q]]
  BY Fields
<1>2. CASE Read(q)
  <2>1. Tail(lines[q]) \in Seq(Events)
    BY <1>1, <1>2, HeadTailProperties DEF Read, ReadLine
  <2> QED
    BY <1>1, <1>2, <2>1, OneRequest DEF Read, ReadLine
<1>3. CASE Leave(q)
  <2>1. [phase |-> "over", thread |-> stream[q].thread, sent |-> 0] \in Requests
    BY <1>1, Constants DEF Requests
  <2>2. <<>> \in Seq(Events) /\ "left" \in Links
    BY EmptySeq DEF Links
  <2> QED
    BY <1>1, <1>3, <2>1, <2>2, OneRequest DEF Leave, LeaveBody, Becomes
<1>4. ASSUME NEW t \in Threads, NEW client \in {"open", "left"}, Start(q, t, client)
      PROVE  StreamsOk'
  <2> DEFINE s == [phase |-> IF client = "open" THEN "working" ELSE "over",
                   thread |-> ThreadOf(q, t), sent |-> 0]
  <2>1. ThreadOf(q, t) \in Questions
    BY DEF ThreadOf, Threads
  <2>2. s \in Requests /\ s.phase # "none" /\ s.thread \in Questions
    BY <2>1, Constants DEF Requests, Threads
  <2>3. client \in Links
    BY DEF Links
  <2>4. /\ stream' = [stream EXCEPT ![q] = s] /\ lines' = [lines EXCEPT ![q] = lines[q]]
        /\ link' = [link EXCEPT ![q] = client]
    BY <1>4, <1>1 DEF Start, OpenBody
  <2> HIDE DEF s
  <2> QED
    BY <1>1, <2>2, <2>3, <2>4, OneRequest
<1> QED
  BY <1>2, <1>3, <1>4

-----------------------------------------------------------------------------
LEMMA OneCoroutine ==
  ASSUME ProxyOk, NEW c \in Conns,
         NEW r \in Coroutines, r.at \in {"calling", "reading"} => r.q \in Questions,
         NEW u \in Seq(Posts), NEW d \in Seq(Events),
         proxy' = [proxy EXCEPT ![c] = r], up' = [up EXCEPT ![c] = u],
         down' = [down EXCEPT ![c] = d], live' = live \/ live' = live \ {c}
  PROVE  ProxyOk'
BY DEF ProxyOk

LEMMA CoroutineFields ==
  ASSUME ProxyOk, NEW c \in Conns
  PROVE  /\ proxy[c] \in Coroutines /\ up[c] \in Seq(Posts) /\ down[c] \in Seq(Events)
         /\ proxy[c].at \in {"calling", "reading"} => proxy[c].q \in Questions
         /\ proxy[c].thread_id \in Threads
         /\ proxy = [proxy EXCEPT ![c] = proxy[c]] /\ up = [up EXCEPT ![c] = up[c]]
         /\ down = [down EXCEPT ![c] = down[c]]
BY DEF ProxyOk, Coroutines

LEMMA Resting ==
  /\ Idle \in Coroutines /\ Idle.at = "idle" /\ Idle.saw_terminal = FALSE
  /\ Closed \in Coroutines /\ Closed.at = "closed"
BY DEF Idle, Closed, Coroutines, Threads

(* What SendText does, on a connection that is there or gone.              *)
LEMMA Sent ==
  ASSUME ProxyOk, NEW c \in Conns, NEW msg, NEW next, SendText(c, msg, next)
  PROVE  \/ /\ c \in live /\ proxy' = [proxy EXCEPT ![c] = next]
            /\ down' = [down EXCEPT ![c] = Append(down[c], msg)]
         \/ /\ c \notin live /\ proxy' = [proxy EXCEPT ![c] = Closed]
            /\ down' = [down EXCEPT ![c] = down[c]]
BY CoroutineFields DEF SendText

LEMMA SendTypes ==
  ASSUME ProxyOk, NEW c \in Conns, NEW msg \in Events, NEW next \in Coroutines,
         next.at \in {"calling", "reading"} => next.q \in Questions,
         SendText(c, msg, next), UNCHANGED <<live, up>>
  PROVE  ProxyOk'
<1>1. Append(down[c], msg) \in Seq(Events) /\ down[c] \in Seq(Events) /\ up[c] \in Seq(Posts)
  BY CoroutineFields
<1>2. up' = [up EXCEPT ![c] = up[c]] /\ live' = live
  BY CoroutineFields
<1>3. Closed.at \notin {"calling", "reading"} /\ Closed \in Coroutines
  BY Resting
<1> QED
  BY <1>1, <1>2, <1>3, Sent, OneCoroutine

(* The question a coroutine asks for, and what its request does.           *)
LEMMA ReactTypes ==
  ASSUME StreamsOk, ProxyOk, NEW c \in Conns, React(c)
  PROVE  StreamsOk' /\ ProxyOk'
<1> DEFINE q == proxy[c].q
<1>1. /\ proxy[c] \in Coroutines /\ up[c] \in Seq(Posts) /\ down[c] \in Seq(Events)
      /\ proxy[c].at \in {"calling", "reading"} => q \in Questions
      /\ proxy[c].thread_id \in Threads
      /\ proxy = [proxy EXCEPT ![c] = proxy[c]] /\ up = [up EXCEPT ![c] = up[c]]
      /\ down = [down EXCEPT ![c] = down[c]]
  BY CoroutineFields
<1>2. UNCHANGED agentVars => StreamsOk'
  BY DEF StreamsOk, agentVars, streamVars
<1>3. Error(q) \in Events \/ q \notin Questions
  BY EventTypes
<1>4. CASE ReceiveText(c)
  <2> DEFINE r == [Idle EXCEPT !.at = "calling", !.q = Head(up[c]).of, !.thread_id = Head(up[c]).thread_id]
  <2>1. Head(up[c]) \in Posts /\ Tail(up[c]) \in Seq(Posts)
    BY <1>1, <1>4, HeadTailProperties DEF ReceiveText
  <2>2. r \in Coroutines /\ r.q \in Questions
    BY <2>1, Resting DEF Coroutines, Posts, Threads, Idle
  <2>3. proxy' = [proxy EXCEPT ![c] = r] /\ up' = [up EXCEPT ![c] = Tail(up[c])]
    BY <1>4 DEF ReceiveText
  <2>4. down' = [down EXCEPT ![c] = down[c]] /\ live' = live /\ UNCHANGED agentVars
    BY <1>1, <1>4 DEF ReceiveText
  <2> HIDE DEF r
  <2> QED
    BY <1>1, <1>2, <2>1, <2>2, <2>3, <2>4, OneCoroutine
<1>5. CASE Disconnected(c)
  <2>1. /\ proxy' = [proxy EXCEPT ![c] = Closed] /\ up' = [up EXCEPT ![c] = up[c]]
        /\ down' = [down EXCEPT ![c] = down[c]] /\ live' = live /\ UNCHANGED agentVars
    BY <1>1, <1>5 DEF Disconnected
  <2> QED
    BY <1>1, <1>2, <2>1, Resting, OneCoroutine
<1>6. CASE Call(c)
  <2> DEFINE r == [proxy[c] EXCEPT !.at = "reading"]
  <2>1. q \in Questions /\ Start(q, proxy[c].thread_id, "open")
    BY <1>1, <1>6 DEF Call
  <2>2. StreamsOk'
    BY <1>1, <2>1, ClientTypes
  <2>3. r \in Coroutines /\ r.q = q
    BY <1>1 DEF Coroutines
  <2>4. /\ proxy' = [proxy EXCEPT ![c] = r] /\ up' = [up EXCEPT ![c] = up[c]]
        /\ down' = [down EXCEPT ![c] = down[c]] /\ live' = live
    BY <1>1, <1>6 DEF Call
  <2> HIDE DEF r
  <2> QED
    BY <1>1, <2>1, <2>2, <2>3, <2>4, OneCoroutine
<1>7. CASE CallFails(c)
  <2>1. q \in Questions /\ SendText(c, Error(q), Idle) /\ UNCHANGED <<live, up>>
    BY <1>1, <1>7 DEF CallFails
  <2>2. UNCHANGED agentVars \/ Start(q, proxy[c].thread_id, "left")
    BY <1>7 DEF CallFails
  <2>3. StreamsOk'
    BY <1>1, <1>2, <2>1, <2>2, ClientTypes
  <2> QED
    BY <1>3, <2>1, <2>3, Resting, SendTypes
<1>8. CASE Relay(c)
  <2> DEFINE next == [proxy[c] EXCEPT !.saw_terminal = Saw(proxy[c].saw_terminal, Head(lines[q]))]
  <2>1. q \in Questions /\ lines[q] # <<>> /\ (Read(q) \/ Leave(q)) /\ UNCHANGED <<live, up>>
    BY <1>1, <1>8 DEF Relay
  <2>2. StreamsOk'
    BY <2>1, ClientTypes
  <2>3. Head(lines[q]) \in Events
    BY <2>1, Fields, HeadTailProperties
  <2>4. Saw(proxy[c].saw_terminal, Head(lines[q])) \in BOOLEAN
    BY <1>1, Zenon DEF Saw, IsTerminal
  <2>5. next \in Coroutines /\ next.q \in Questions
    BY <1>1, <2>1, <2>4 DEF Coroutines
  <2>6. SendText(c, Head(lines[q]), next)
    BY <1>8 DEF Relay
  <2> HIDE DEF next
  <2> QED
    BY <2>1, <2>2, <2>3, <2>5, <2>6, SendTypes
<1>9. CASE RelayStatus(c)
  <2>1. q \in Questions /\ Leave(q)
    BY <1>1, <1>9 DEF RelayStatus
  <2>2. /\ proxy' = [proxy EXCEPT ![c] = Closed] /\ up' = [up EXCEPT ![c] = up[c]]
        /\ down' = [down EXCEPT ![c] = down[c]] /\ live' = live
    BY <1>1, <1>9 DEF RelayStatus
  <2> QED
    BY <1>1, <2>1, <2>2, ClientTypes, Resting, OneCoroutine
<1>10. CASE StreamEnds(c)
  <2>1. q \in Questions /\ Leave(q) /\ UNCHANGED <<live, up>>
    BY <1>1, <1>10 DEF StreamEnds
  <2>2. \/ proxy' = [proxy EXCEPT ![c] = Idle] /\ UNCHANGED down
        \/ SendText(c, Error(q), Idle)
    BY <1>10 DEF StreamEnds
  <2>3. CASE proxy' = [proxy EXCEPT ![c] = Idle] /\ UNCHANGED down
    <3>1. /\ up' = [up EXCEPT ![c] = up[c]] /\ down' = [down EXCEPT ![c] = down[c]]
          /\ live' = live
      BY <1>1, <2>1, <2>3
    <3> QED
      BY <1>1, <2>1, <2>3, <3>1, ClientTypes, Resting, OneCoroutine
  <2> QED
    BY <1>3, <2>1, <2>2, <2>3, ClientTypes, Resting, SendTypes
<1>11. CASE StreamBreaks(c)
  <2>1. /\ q \in Questions /\ Leave(q) /\ UNCHANGED <<live, up>>
        /\ SendText(c, Error(q), Idle)
    BY <1>1, <1>11 DEF StreamBreaks
  <2> QED
    BY <1>3, <2>1, ClientTypes, Resting, SendTypes
<1> QED
  BY <1>4, <1>5, <1>6, <1>7, <1>8, <1>9, <1>10, <1>11 DEF React

LEMMA DropTypes ==
  ASSUME ProxyOk, NEW c \in Conns, Drop(c)
  PROVE  ProxyOk'
<1>1. PICK n \in 0 .. Len(up[c]), m \in 0 .. Len(down[c]) :
         /\ up' = [up EXCEPT ![c] = SubSeq(up[c], 1, n)]
         /\ down' = [down EXCEPT ![c] = SubSeq(down[c], 1, m)]
  BY DEF Drop
<1>2. SubSeq(up[c], 1, n) \in Seq(Posts) /\ SubSeq(down[c], 1, m) \in Seq(Events)
  BY CoroutineFields, SubSeqProperties
<1>3. proxy' = [proxy EXCEPT ![c] = proxy[c]] /\ live' = live \ {c}
  BY CoroutineFields DEF Drop
<1> QED
  BY <1>1, <1>2, <1>3, CoroutineFields, OneCoroutine

-----------------------------------------------------------------------------
Bubbles == UNION {[D -> Seq(Events)] : D \in SUBSET Questions}

LEMMA BubblesAre ==
  ASSUME NEW m
  PROVE  m \in Bubbles <=> (DOMAIN m \subseteq Questions /\ m \in [DOMAIN m -> Seq(Events)])
BY DEF Bubbles

LEMMA BubbleTypes ==
  ASSUME NEW m \in Bubbles, NEW q \in Questions, NEW b \in Seq(Events)
  PROVE  /\ [k \in DOMAIN m \ {q} |-> m[k]] \in Bubbles
         /\ [m EXCEPT ![q] = b] \in Bubbles
         /\ [k \in DOMAIN m \cup {q} |-> IF k = q THEN b ELSE m[k]] \in Bubbles
<1>1. PICK D \in SUBSET Questions : m \in [D -> Seq(Events)]
  BY DEF Bubbles
<1>2. [k \in D \ {q} |-> m[k]] \in [D \ {q} -> Seq(Events)] /\ D \ {q} \in SUBSET Questions
  BY <1>1
<1>3. [m EXCEPT ![q] = b] \in [D -> Seq(Events)]
  BY <1>1
<1>4. /\ [k \in D \cup {q} |-> IF k = q THEN b ELSE m[k]] \in [D \cup {q} -> Seq(Events)]
      /\ D \cup {q} \in SUBSET Questions
  BY <1>1
<1>5. DOMAIN m = D
  BY <1>1
<1> QED
  BY <1>2, <1>3, <1>4, <1>5, Zenon DEF Bubbles

LEMMA ViewStepTypes ==
  ASSUME TypeInv, ViewStep
  PROVE  TypeInv'
<1>1. StreamsOk /\ ProxyOk /\ ViewOk
  BY DEF TypeInv
<1>2. StreamsOk'
  <2>1. UNCHANGED agentVars
    BY DEF ViewStep, Mount, SendMessage, SendRefused, SyncRef, OnMessage, SocketOnError, SocketOnClose
  <2> QED
    BY <1>1, <2>1 DEF StreamsOk, agentVars, streamVars
<1>3. UNCHANGED proxyVars => ProxyOk'
  BY <1>1 DEF ProxyOk, proxyVars
<1>4. messages \in Bubbles /\ <<>> \in Seq(Events)
  BY <1>1, BubblesAre DEF ViewOk
<1>5. assistantId # None => Without(assistantId) \in Bubbles
  BY <1>1, <1>4, BubbleTypes DEF ViewOk, Threads, Without
<1>6. CASE Mount
  <2>1. ViewOk'
    BY <1>1, <1>4, <1>6 DEF ViewOk, Mount, Threads
  <2>2. down' \in [Conns -> Seq(Events)] /\ live' \subseteq Conns
    BY <1>1, <1>4, <1>6 DEF ProxyOk, Mount
  <2>3. /\ proxy' \in [Conns -> Coroutines]
        /\ \A c \in Conns : proxy'[c].at \in {"calling", "reading"} => proxy'[c].q \in Questions
    BY <1>1, <1>6, Resting DEF ProxyOk, Mount
  <2>4. ProxyOk'
    BY <1>1, <1>6, <2>2, <2>3 DEF ProxyOk, Mount
  <2> QED
    BY <1>2, <2>1, <2>4 DEF TypeInv
<1>7. CASE SendMessage
  <2> DEFINE q == asked + 1
  <2>1. q \in Questions /\ q \in Threads
    BY <1>7 DEF SendMessage, Threads
  <2>2. messages' \in Bubbles
    BY <1>4, <1>7, <2>1, BubbleTypes DEF SendMessage
  <2>3. ViewOk'
    BY <1>1, <1>4, <1>7, <2>1, <2>2, BubblesAre DEF SendMessage, ViewOk
  <2>4. [of |-> q, thread_id |-> threadId] \in Posts
    BY <1>1, <2>1 DEF ViewOk, Posts
  <2>5. up' \in [Conns -> Seq(Posts)]
    BY <1>1, <1>7, <2>4 DEF ProxyOk, SendMessage
  <2>6. ProxyOk'
    BY <1>1, <1>7, <2>5 DEF ProxyOk, SendMessage
  <2> QED
    BY <1>2, <2>3, <2>6 DEF TypeInv
<1>8. CASE SendRefused \/ SyncRef
  BY <1>1, <1>2, <1>3, <1>8 DEF SendRefused, SyncRef, ViewOk, TypeInv
<1>9. CASE OnMessage
  <2>1. mount \in Conns /\ down[mount] \in Seq(Events) /\ down[mount] # <<>>
    BY <1>1, <1>9, Constants DEF OnMessage, ViewOk, ProxyOk
  <2> DEFINE event == Head(down[mount])
  <2>2. event \in Events /\ Tail(down[mount]) \in Seq(Events)
    BY <2>1, HeadTailProperties
  <2>3. ProxyOk'
    BY <1>1, <1>9, <2>1, <2>2 DEF OnMessage, ProxyOk
  <2>4. UNCHANGED <<mount, socket, asked>>
    BY <1>9 DEF OnMessage
  <2> HIDE DEF event
  <2>5. ASSUME OnToken(event) PROVE ViewOk'
    <3>1. buffer' \in Seq(Events)
      BY <1>1, <2>2, <2>5 DEF OnToken, ViewOk
    <3>2. messages' \in Bubbles
      BY <1>1, <1>4, <2>5, <3>1, BubbleTypes DEF OnToken, ViewOk, Filled, Threads
    <3> QED
      BY <1>1, <2>4, <2>5, <3>1, <3>2, BubblesAre DEF OnToken, ViewOk
  <2>6. ASSUME OnDone(event), event.type = "done" PROVE ViewOk'
    <3>1. event.thread \in Threads
      BY <2>2, <2>6, EventTypes DEF Threads
    <3>2. assistantId # None => Filled(assistantId, buffer) \in Bubbles
      BY <1>1, <1>4, BubbleTypes DEF ViewOk, Filled, Threads
    <3>3. messages' \in Bubbles /\ error' \in BOOLEAN
      BY <1>1, <1>4, <1>5, <2>6, <3>2 DEF OnDone, ViewOk
    <3> QED
      BY <1>1, <1>4, <2>4, <2>6, <3>1, <3>3, BubblesAre DEF OnDone, EndAnswer, ViewOk, Threads
  <2>7. ASSUME OnError(event) PROVE ViewOk'
    <3>1. messages' \in Bubbles
      BY <1>4, <1>5, <2>7 DEF OnError
    <3> QED
      BY <1>1, <1>4, <2>4, <2>7, <3>1, BubblesAre DEF OnError, EndAnswer, ViewOk, Threads
  <2>8. event.type \in {"token", "done", "error"}
    BY <2>2, EventTypes
  <2>9. ViewOk'
    BY <1>9, <2>5, <2>6, <2>7, <2>8 DEF OnMessage, event
  <2> QED
    BY <1>2, <2>3, <2>9 DEF TypeInv
<1>10. CASE SocketOnError
  BY <1>1, <1>2, <1>3, <1>10 DEF SocketOnError, ViewOk, TypeInv
<1>11. CASE SocketOnClose
  <2>1. messages' \in Bubbles /\ error' \in BOOLEAN
    BY <1>1, <1>4, <1>5, <1>11 DEF SocketOnClose, ViewOk
  <2>2. ViewOk'
    BY <1>1, <1>11, <2>1, BubblesAre DEF SocketOnClose, ViewOk, Threads
  <2> QED
    BY <1>2, <1>3, <1>11, <2>2 DEF TypeInv, SocketOnClose
<1> QED
  BY <1>6, <1>7, <1>8, <1>9, <1>10, <1>11 DEF ViewStep

LEMMA ChatStepTypes ==
  ASSUME TypeInv, [ChatNext]_chatVars
  PROVE  TypeInv'
<1>1. StreamsOk /\ ProxyOk /\ ViewOk
  BY DEF TypeInv
<1>2. /\ UNCHANGED agentVars => StreamsOk'
      /\ UNCHANGED proxyVars => ProxyOk'
      /\ UNCHANGED viewVars => ViewOk'
  BY <1>1 DEF StreamsOk, ProxyOk, ViewOk, agentVars, streamVars, proxyVars, viewVars
<1>3. CASE AgentNext
  BY <1>1, <1>2, <1>3, ProgressTypes DEF AgentNext, TypeInv
<1>4. CASE ProxyNext
  <2>1. PICK c \in Conns : React(c) \/ Drop(c)
    BY <1>4 DEF ProxyNext, ProxyStep
  <2>2. ViewOk'
    BY <1>2, <1>4 DEF ProxyNext
  <2>3. CASE Drop(c)
    BY <1>1, <1>2, <2>2, <2>3, DropTypes DEF Drop, TypeInv
  <2> QED
    BY <1>1, <2>1, <2>2, <2>3, ReactTypes DEF TypeInv
<1>5. CASE ViewStep
  BY <1>5, ViewStepTypes
<1>6. CASE UNCHANGED chatVars
  BY <1>2, <1>6 DEF chatVars, TypeInv
<1> QED
  BY <1>3, <1>4, <1>5, <1>6 DEF ChatNext

LEMMA ChatInitTypes == ChatInit => TypeInv
<1> SUFFICES ASSUME ChatInit PROVE TypeInv
  OBVIOUS
<1>1. <<>> \in Seq(Events) /\ <<>> \in Seq(Posts)
  OBVIOUS
<1>2. StreamsOk
  <2>1. NoStream \in Requests
    BY Constants DEF NoStream, Requests, Threads
  <2> QED
    BY <1>1, <2>1 DEF ChatInit, Init, StreamInit, StreamsOk, Links, NoStream
<1>3. ProxyOk
  BY <1>1, Resting DEF ChatInit, ProxyInit, ProxyOk
<1>4. ViewOk
  BY <1>1 DEF ChatInit, ViewInit, ViewOk, Threads
<1> QED
  BY <1>2, <1>3, <1>4 DEF TypeInv

(* Every message, question, line and bubble is of its kind, whatever is    *)
(* lost, cut or left between the tab, nam-api and nam-agentic.             *)
THEOREM ChatTypes == ChatSpec => []TypeOK
<1>1. TypeInv => TypeOK
  BY DEF TypeInv, TypeOK, StreamsOk, ProxyOk, ViewOk, StreamType, Links, Threads, Requests,
         Coroutines, Posts
<1> QED
  BY <1>1, ChatInitTypes, ChatStepTypes, PTL DEF ChatSpec

-----------------------------------------------------------------------------
(* The questions on their way to nam-api, or being relayed, on connection c. *)
Carried(c) ==
  {up[c][i].of : i \in DOMAIN up[c]}
    \cup (IF proxy[c].at \in {"calling", "reading"} THEN {proxy[c].q} ELSE {})

(* Only the page's own connection may be there, the next ones are unused.  *)
(* Only asked questions travel; the one whose bubble is on the page, on    *)
(* the page's own connection.                                              *)
Joined ==
  /\ live \subseteq {mount}
  /\ \A c \in Conns : c > mount => up[c] = <<>> /\ down[c] = <<>>
  /\ \A c \in Conns : \A q \in Carried(c) : q <= asked
  /\ asked \in DOMAIN messages => \A c \in Conns \ {mount} : asked \notin Carried(c)
  /\ \A q \in Questions : q > asked => stream[q].phase = "none"

OnlyPieces(events, q, n) == \A i \in DOMAIN events : events[i] = Token(q, n + i)

(* The last event of an answer of n pieces: an error, or the end of all    *)
(* that was written (w), with a thread the tab may go on with.             *)
Ends(event, q, n, w, thread) ==
  \/ event = Error(q)
  \/ w = n /\ n > 0 /\ \E t \in Questions : event = Done(q, t) /\ thread \in {None, t}

(* What is left of an answer after n pieces: the next ones in order, and   *)
(* what it ends with, if that has been sent.                               *)
Follows(events, q, n, w, thread) ==
  \A i \in DOMAIN events :
    events[i] = Token(q, n + i) \/ (i = Len(events) /\ Ends(events[i], q, n + i - 1, w, thread))

Ceased(q) == stream[q].phase \notin {"working", "writing"}

(* The coroutine has relayed the end of its last question, if any.         *)
Spent(c) ==
  /\ proxy[c].at # "calling"
  /\ proxy[c].at = "reading" =>
       /\ proxy[c].saw_terminal /\ lines[proxy[c].q] = <<>>
       /\ stream[proxy[c].q].phase \in {"closing", "over"}

(* No bubble is being filled: nothing is under way on the connection.      *)
Quiet ==
  /\ up[mount] = <<>> /\ down[mount] = <<>> /\ buffer = <<>> /\ Spent(mount)
  /\ asked \in DOMAIN messages => Ceased(asked)

(* The question is on its way, being passed on, or being answered.         *)
Posted ==
  /\ up[mount] = <<[of |-> asked, thread_id |-> threadId]>> /\ Spent(mount)
  /\ down[mount] = <<>> /\ buffer = <<>> /\ stream[asked].phase = "none"

Passed ==
  /\ proxy[mount].at = "calling" /\ proxy[mount].q = asked /\ proxy[mount].thread_id = threadId
  /\ ~proxy[mount].saw_terminal
  /\ up[mount] = <<>> /\ down[mount] = <<>> /\ buffer = <<>> /\ stream[asked].phase = "none"

Relayable(n) ==
  LET s == stream[asked]
  IN  /\ Follows(lines[asked], asked, n, written[asked], threadId)
      /\ s.phase # "none" /\ threadId \in {None, s.thread}
      /\ s.phase = "working" => n = 0 /\ lines[asked] = <<>>
      /\ s.phase = "writing" => OnlyPieces(lines[asked], asked, n) /\ s.sent = n + Len(lines[asked])

Answered ==
  /\ proxy[mount].at = "reading" /\ proxy[mount].q = asked /\ ~proxy[mount].saw_terminal
  /\ up[mount] = <<>>
  /\ OnlyPieces(down[mount], asked, Len(buffer))
  /\ Relayable(Len(buffer) + Len(down[mount]))

(* The answer is relayed, as far as it ever will be.                       *)
Relayed ==
  /\ up[mount] = <<>> /\ Spent(mount) /\ Ceased(asked)
  /\ Follows(down[mount], asked, Len(buffer), written[asked], threadId)

(* The connection is gone, and so are its last messages, the end of the    *)
(* answer among them.                                                      *)
Severed == mount \notin live /\ OnlyPieces(down[mount], asked, Len(buffer))

UnderWay == (mount \in live /\ (Posted \/ Passed \/ Answered)) \/ Severed \/ Relayed

(* The bubble being filled is that of the last question, and says what has *)
(* come of its answer.                                                     *)
Bubble ==
  assistantId # None =>
    /\ assistantId = asked /\ asked \in DOMAIN messages
    /\ messages[asked] = buffer /\ buffer = Pieces(asked, Len(buffer))

InStep ==
  socket = "open" =>
    (assistantId = None /\ Quiet) \/ (assistantId # None /\ UnderWay)

View ==
  /\ mount = 0 => socket = "closed"
  /\ isStreaming => socket = "open"
  /\ socket = "open" => (isStreaming <=> assistantId # None)
  /\ Bubble /\ InStep

HistoryOk == late \in BOOLEAN /\ written \in [Questions -> 0 .. MaxSize]

(* Unless some body broke behind a relayed end, which sends an error too   *)
(* many, the page and the three processes are in step.                     *)
ChatInv ==
  /\ TypeInv /\ HistoryOk /\ Joined
  /\ late \/ (View /\ BubblesArePrefixes /\ SettledShown)

-----------------------------------------------------------------------------
(* What a coroutine does to the request of its question.                   *)
Touches(q) ==
  Read(q) \/ Leave(q) \/ \E t \in Threads, client \in {"open", "left"} : Start(q, t, client)

LEMMA OnlyItsRequest ==
  ASSUME NEW q \in Questions, Touches(q) \/ Progress(q) \/ Break(q), StreamsOk,
         NEW p \in Questions, p # q
  PROVE  stream'[p] = stream[p] /\ lines'[p] = lines[p] /\ link'[p] = link[p]
<1>1. /\ stream' = stream \/ \E s : stream' = [stream EXCEPT ![q] = s]
      /\ lines' = lines \/ \E l : lines' = [lines EXCEPT ![q] = l]
      /\ link' = link \/ \E k : link' = [link EXCEPT ![q] = k]
  <2>1. CASE Read(q) \/ Leave(q)
    BY <2>1 DEF Read, Leave, ReadLine, LeaveBody, Becomes
  <2>2. ASSUME NEW t \in Threads, NEW client \in {"open", "left"}, Start(q, t, client)
        PROVE  /\ \E s : stream' = [stream EXCEPT ![q] = s]
               /\ lines' = lines /\ \E k : link' = [link EXCEPT ![q] = k]
    BY <2>2 DEF Start, OpenBody
  <2>3. CASE Progress(q)
    BY <2>3 DEF Progress, Fail, Respond, Write, Finish, End, Yield, EndBody, Becomes, streamVars
  <2>4. CASE Break(q)
    BY <2>4 DEF Break, BreakBody, Becomes
  <2> QED
    BY <2>1, <2>2, <2>3, <2>4 DEF Touches
<1> QED
  BY <1>1 DEF StreamsOk

LEMMA OthersStay ==
  ASSUME ProxyOk, NEW c \in Conns,
         proxy' = proxy \/ \E r : proxy' = [proxy EXCEPT ![c] = r],
         up' = up \/ \E u : up' = [up EXCEPT ![c] = u],
         down' = down \/ \E d : down' = [down EXCEPT ![c] = d]
  PROVE  \A d \in Conns \ {c} : proxy'[d] = proxy[d] /\ up'[d] = up[d] /\ down'[d] = down[d]
BY DEF ProxyOk

(* A coroutine works for its own connection, carries no question it has    *)
(* not been sent, and sends nothing on a connection that is gone.          *)
Local(c) ==
  /\ live' = live
  /\ \A d \in Conns \ {c} : proxy'[d] = proxy[d] /\ up'[d] = up[d] /\ down'[d] = down[d]
  /\ up'[c] = up[c] \/ (up[c] # <<>> /\ up'[c] = Tail(up[c]))
  /\ c \notin live => down'[c] = down[c]
  /\ proxy'[c].at \in {"calling", "reading"} => proxy'[c].q \in Carried(c)
  /\ UNCHANGED agentVars \/ \E q \in Carried(c) \cap Questions : Touches(q)

LEMMA LocalStep ==
  ASSUME ProxyOk, NEW c \in Conns, NEW r, proxy' = [proxy EXCEPT ![c] = r],
         r.at \in {"calling", "reading"} => r.q \in Carried(c),
         up' = up \/ (up[c] # <<>> /\ up' = [up EXCEPT ![c] = Tail(up[c])]),
         down' = down \/ (c \in live /\ \E d : down' = [down EXCEPT ![c] = d]), live' = live,
         UNCHANGED agentVars \/ \E q \in Carried(c) \cap Questions : Touches(q)
  PROVE  Local(c)
<1>1. c \in DOMAIN proxy /\ c \in DOMAIN up /\ c \in DOMAIN down
  BY DEF ProxyOk
<1>2. \A d \in Conns \ {c} : proxy'[d] = proxy[d] /\ up'[d] = up[d] /\ down'[d] = down[d]
  BY OthersStay
<1>3. /\ up'[c] = up[c] \/ (up[c] # <<>> /\ up'[c] = Tail(up[c]))
      /\ c \notin live => down'[c] = down[c]
      /\ proxy'[c] = r
  BY <1>1
<1> QED
  BY <1>2, <1>3 DEF Local

LEMMA Texts ==
  ASSUME NEW c, NEW msg, NEW next, SendText(c, msg, next)
  PROVE  /\ proxy' = [proxy EXCEPT ![c] = next] \/ proxy' = [proxy EXCEPT ![c] = Closed]
         /\ down' = down \/ (c \in live /\ \E d : down' = [down EXCEPT ![c] = d])
BY DEF SendText

LEMMA ReactEffects ==
  ASSUME ProxyOk, NEW c \in Conns, React(c)
  PROVE  Local(c)
<1> DEFINE q == proxy[c].q
<1>1. /\ proxy[c].at \in {"calling", "reading"} => q \in Carried(c) \cap Questions
      /\ proxy[c].thread_id \in Threads /\ proxy[c] \in Coroutines
  BY DEF ProxyOk, Coroutines, Carried
<1>2. /\ Idle.at \notin {"calling", "reading"}
      /\ Closed.at \notin {"calling", "reading"}
  BY Resting
<1>3. CASE ReceiveText(c)
  <2> DEFINE r == [Idle EXCEPT !.at = "calling", !.q = Head(up[c]).of, !.thread_id = Head(up[c]).thread_id]
  <2>1. r.q \in Carried(c)
    <3>1. up[c] \in Seq(Posts) /\ up[c] # <<>>
      BY <1>3, CoroutineFields DEF ReceiveText
    <3>2. 1 \in DOMAIN up[c] /\ Head(up[c]) = up[c][1]
      BY <3>1
    <3>3. r.q = up[c][1].of
      BY <3>2 DEF Idle
    <3> QED
      BY <3>2, <3>3 DEF Carried
  <2>2. /\ proxy' = [proxy EXCEPT ![c] = r] /\ up' = [up EXCEPT ![c] = Tail(up[c])]
        /\ up[c] # <<>> /\ down' = down /\ live' = live /\ UNCHANGED agentVars
    BY <1>3 DEF ReceiveText
  <2> HIDE DEF r
  <2> QED
    BY <2>1, <2>2, LocalStep
<1>4. CASE Disconnected(c)
  <2>1. /\ proxy' = [proxy EXCEPT ![c] = Closed] /\ UNCHANGED agentVars
        /\ up' = up /\ down' = down /\ live' = live
    BY <1>4 DEF Disconnected
  <2> QED
    BY <1>2, <2>1, LocalStep
<1>5. CASE Call(c)
  <2> DEFINE r == [proxy[c] EXCEPT !.at = "reading"]
  <2>1. r.q \in Carried(c)
    BY <1>1, <1>5 DEF Call, Coroutines
  <2>2. Touches(q) /\ q \in Carried(c) \cap Questions
    BY <1>1, <1>5 DEF Call, Touches
  <2>3. /\ proxy' = [proxy EXCEPT ![c] = r]
        /\ up' = up /\ down' = down /\ live' = live
    BY <1>5 DEF Call
  <2> HIDE DEF r
  <2> QED
    BY <2>1, <2>2, <2>3, LocalStep
<1>6. CASE CallFails(c)
  <2>1. UNCHANGED agentVars \/ Touches(q)
    BY <1>1, <1>6 DEF CallFails, Touches
  <2>2. q \in Carried(c) \cap Questions /\ up' = up /\ live' = live
    BY <1>1, <1>6 DEF CallFails
  <2>3. SendText(c, Error(q), Idle)
    BY <1>6 DEF CallFails
  <2> QED
    BY <1>2, <2>1, <2>2, <2>3, Texts, LocalStep
<1>7. CASE Relay(c)
  <2> DEFINE r == [proxy[c] EXCEPT !.saw_terminal = Saw(proxy[c].saw_terminal, Head(lines[q]))]
  <2>1. r.q \in Carried(c)
    BY <1>1, <1>7 DEF Relay, Coroutines
  <2>2. Touches(q) /\ q \in Carried(c) \cap Questions /\ up' = up /\ live' = live
    BY <1>1, <1>7 DEF Relay, Touches
  <2>3. SendText(c, Head(lines[q]), r)
    BY <1>7 DEF Relay
  <2> HIDE DEF r
  <2> QED
    BY <1>2, <2>1, <2>2, <2>3, Texts, LocalStep
<1>8. CASE RelayStatus(c)
  <2>1. /\ proxy' = [proxy EXCEPT ![c] = Closed] /\ Touches(q) /\ q \in Carried(c) \cap Questions
        /\ up' = up /\ down' = down /\ live' = live
    BY <1>1, <1>8 DEF RelayStatus, Touches
  <2> QED
    BY <1>2, <2>1, LocalStep
<1>9. CASE StreamEnds(c) \/ StreamBreaks(c)
  <2>1. Touches(q) /\ q \in Carried(c) \cap Questions /\ up' = up /\ live' = live
    BY <1>1, <1>9 DEF StreamEnds, StreamBreaks, Touches
  <2>2. \/ proxy' = [proxy EXCEPT ![c] = Idle] /\ down' = down
        \/ SendText(c, Error(q), Idle)
    BY <1>9 DEF StreamEnds, StreamBreaks
  <2> QED
    BY <1>2, <2>1, <2>2, Texts, LocalStep
<1> QED
  BY <1>3, <1>4, <1>5, <1>6, <1>7, <1>8, <1>9 DEF React

(* Who calls and whom a request is for is settled by what is carried: a    *)
(* request begins only for a question carried by its coroutine.            *)
LEMMA LocalCarries ==
  ASSUME ProxyOk, ProxyOk', NEW c \in Conns, Local(c)
  PROVE  \A d \in Conns : Carried(d)' \subseteq Carried(d)
<1>1. ASSUME NEW d \in Conns \ {c} PROVE Carried(d)' = Carried(d)
  BY <1>1 DEF Local, Carried
<1>2. Carried(c)' \subseteq Carried(c)
  <2>1. up[c] \in Seq(Posts)
    BY CoroutineFields
  <2>2. \A i \in DOMAIN up'[c] : \E j \in DOMAIN up[c] : up'[c][i] = up[c][j]
    <3>1. CASE up'[c] = up[c]
      BY <3>1
    <3>2. CASE up[c] # <<>> /\ up'[c] = Tail(up[c])
      <4>1. ASSUME NEW i \in DOMAIN Tail(up[c])
            PROVE  i + 1 \in DOMAIN up[c] /\ Tail(up[c])[i] = up[c][i + 1]
        BY <2>1, <3>2, <4>1
      <4> QED
        BY <3>2, <4>1
    <3> QED
      BY <3>1, <3>2 DEF Local
  <2>3. proxy'[c].at \in {"calling", "reading"} => proxy'[c].q \in Carried(c)
    BY DEF Local
  <2> QED
    BY <2>2, <2>3 DEF Carried
<1> QED
  BY <1>1, <1>2

LEMMA OnlyBegun ==
  ASSUME StreamsOk, NEW q \in Questions, Progress(q) \/ Break(q)
  PROVE  stream[q].phase \notin {"none", "over"} \/ (Break(q) /\ stream[q].phase # "none")
BY DEF StreamsOk, Progress, Fail, Respond, Write, Finish, End, Break, BreakBody

LEMMA AgentJoins ==
  ASSUME TypeInv, Joined, AgentNext
  PROVE  Joined'
<1>1. PICK q \in Questions : Progress(q) \/ Break(q)
  BY DEF AgentNext
<1>2. UNCHANGED proxyVars /\ UNCHANGED viewVars
  BY DEF AgentNext
<1>3. \A c \in Conns : Carried(c)' = Carried(c)
  BY <1>2 DEF proxyVars, Carried
<1>4. \A p \in Questions : p > asked => stream'[p] = stream[p]
  BY <1>1, OnlyItsRequest, OnlyBegun DEF TypeInv, Joined
<1> QED
  BY <1>2, <1>3, <1>4 DEF Joined, proxyVars, viewVars

LEMMA ReactJoins ==
  ASSUME TypeInv, TypeInv', Joined, NEW c \in Conns, React(c), UNCHANGED viewVars
  PROVE  Joined'
<1>1. Local(c) /\ \A d \in Conns : Carried(d)' \subseteq Carried(d)
  BY ReactEffects, LocalCarries DEF TypeInv
<1>2. \A d \in Conns : d > mount => up'[d] = <<>> /\ down'[d] = <<>>
  <2>1. mount \in Nat /\ Conns \subseteq Nat
    BY Constants DEF TypeInv, ViewOk
  <2>2. ASSUME c > mount PROVE up'[c] = <<>> /\ down'[c] = <<>>
    <3>1. c \notin live /\ up[c] = <<>> /\ down[c] = <<>>
      BY <2>1, <2>2 DEF Joined
    <3> QED
      BY <1>1, <3>1 DEF Local
  <2> QED
    BY <1>1, <2>2 DEF Local, Joined
<1>3. \A p \in Questions : p > asked => stream'[p].phase = "none"
  <2>1. CASE UNCHANGED agentVars
    BY <2>1 DEF agentVars, Joined
  <2>2. ASSUME NEW q \in Carried(c) \cap Questions, Touches(q)
        PROVE  \A p \in Questions : p > asked => stream'[p] = stream[p]
    <3>1. ~(q > asked)
      BY Constants DEF Joined, TypeInv, ViewOk
    <3> QED
      BY <2>2, <3>1, OnlyItsRequest DEF TypeInv
  <2> QED
    BY <1>1, <2>1, <2>2 DEF Local, Joined
<1>4. live' = live /\ mount' = mount /\ asked' = asked /\ messages' = messages
  BY <1>1 DEF Local, viewVars
<1> QED
  BY <1>1, <1>2, <1>3, <1>4 DEF Joined

(* What a failure leaves of the sequences in flight.                       *)
LEMMA DropEffects ==
  ASSUME ProxyOk, NEW c \in Conns, Drop(c)
  PROVE  /\ c \in live /\ live' = live \ {c} /\ proxy' = proxy /\ UNCHANGED agentVars
         /\ \A d \in Conns \ {c} : up'[d] = up[d] /\ down'[d] = down[d]
         /\ \E n \in 0 .. Len(up[c]) : up'[c] = SubSeq(up[c], 1, n)
         /\ \E m \in 0 .. Len(down[c]) : down'[c] = SubSeq(down[c], 1, m)
<1>1. PICK n \in 0 .. Len(up[c]), m \in 0 .. Len(down[c]) :
         /\ up' = [up EXCEPT ![c] = SubSeq(up[c], 1, n)]
         /\ down' = [down EXCEPT ![c] = SubSeq(down[c], 1, m)]
  BY DEF Drop
<1>2. up'[c] = SubSeq(up[c], 1, n) /\ down'[c] = SubSeq(down[c], 1, m)
  BY <1>1 DEF ProxyOk
<1>3. \A d \in Conns \ {c} : up'[d] = up[d] /\ down'[d] = down[d]
  BY <1>1 DEF ProxyOk
<1> QED
  BY <1>2, <1>3 DEF Drop

LEMMA DropJoins ==
  ASSUME TypeInv, Joined, NEW c \in Conns, Drop(c), UNCHANGED viewVars
  PROVE  Joined'
<1>1. PICK n \in 0 .. Len(up[c]) : up'[c] = SubSeq(up[c], 1, n)
  BY DropEffects DEF TypeInv
<1>2. /\ c = mount /\ live' = {} /\ proxy' = proxy /\ stream' = stream
      /\ \A d \in Conns \ {c} : up'[d] = up[d] /\ down'[d] = down[d]
  BY DropEffects DEF TypeInv, Joined, agentVars
<1>3. \A d \in Conns : Carried(d)' \subseteq Carried(d)
  <2>1. \A i \in DOMAIN up'[c] : i \in DOMAIN up[c] /\ up'[c][i] = up[c][i]
    <3>1. up[c] \in Seq(Posts)
      BY CoroutineFields DEF TypeInv
    <3> QED
      BY <1>1, <3>1
  <2>2. Carried(c)' \subseteq Carried(c)
    BY <1>2, <2>1 DEF Carried
  <2> QED
    BY <1>2, <2>2 DEF Carried
<1>4. \A d \in Conns : d > mount => d # c
  BY <1>2, Constants
<1>5. mount' = mount /\ asked' = asked /\ messages' = messages
  BY DEF viewVars
<1> QED
  BY <1>2, <1>3, <1>4, <1>5 DEF Joined

(* No bubble appears but that of a question that is sent.                  *)
LEMMA MessagesShrink ==
  ASSUME ProxyOk, ViewOk, SendRefused \/ SyncRef \/ OnMessage \/ SocketOnError \/ SocketOnClose
  PROVE  DOMAIN messages' \subseteq DOMAIN messages
<1>1. \A q, b : DOMAIN Filled(q, b) = DOMAIN messages /\ DOMAIN Without(q) \subseteq DOMAIN messages
  BY DEF Filled, Without
<1>2. CASE OnMessage
  <2> DEFINE event == Head(down[mount])
  <2>1. event.type \in {"token", "done", "error"}
    <3>1. down[mount] \in Seq(Events) /\ down[mount] # <<>>
      BY <1>2, Constants DEF OnMessage, ProxyOk, ViewOk
    <3> QED
      BY <3>1, HeadTailProperties, EventTypes
  <2> HIDE DEF event
  <2>2. OnToken(event) \/ OnDone(event) \/ OnError(event)
    BY <1>2, <2>1 DEF OnMessage, event
  <2>3. \/ messages' = messages \/ \E b : messages' = Filled(assistantId, b)
        \/ messages' = Without(assistantId)
    BY <2>2 DEF OnToken, OnDone, OnError
  <2> QED
    BY <1>1, <2>3
<1> QED
  BY <1>1, <1>2 DEF SendRefused, SyncRef, SocketOnError, SocketOnClose

LEMMA ViewJoins ==
  ASSUME TypeInv, TypeInv', Joined, ViewStep
  PROVE  Joined'
<1>1. /\ mount \in Nat /\ Conns \subseteq Nat /\ 0 \notin Conns /\ asked \in Nat
      /\ Questions \subseteq Nat /\ DOMAIN messages \subseteq Questions
  BY Constants DEF TypeInv, ViewOk
<1>2. /\ proxy \in [Conns -> Coroutines] /\ up \in [Conns -> Seq(Posts)]
      /\ down \in [Conns -> Seq(Events)]
  BY DEF TypeInv, ProxyOk
<1>3. \A c \in Conns : Carried(c) \subseteq Questions
  <2> TAKE c \in Conns
  <2>1. up[c] \in Seq(Posts) /\ (proxy[c].at \in {"calling", "reading"} => proxy[c].q \in Questions)
    BY CoroutineFields DEF TypeInv
  <2>2. \A i \in DOMAIN up[c] : up[c][i] \in Posts
    BY <2>1
  <2>3. \A r \in Posts : r.of \in Questions
    BY DEF Posts
  <2> QED
    BY <2>1, <2>2, <2>3 DEF Carried
<1>4. \A c \in Conns : c > mount => c # mount /\ up[c] = <<>> /\ down[c] = <<>>
  BY <1>1 DEF Joined
<1>5. CASE Mount
  <2>1. /\ mount' = mount + 1 /\ mount + 1 \in Conns /\ up' = up /\ asked' = asked
        /\ live' \subseteq {mount'} /\ stream' = stream
        /\ \A c \in Conns : down'[c] = IF c = mount THEN <<>> ELSE down[c]
        /\ \A c \in Conns : c # mount + 1 => proxy'[c] = proxy[c]
        /\ proxy'[mount + 1] = Idle /\ DOMAIN messages' = {}
    BY <1>1, <1>2, <1>5 DEF Mount, Joined, agentVars
  <2>2. \A c \in Conns : Carried(c)' \subseteq Carried(c)
    BY <2>1, Resting DEF Carried
  <2>3. \A c \in Conns : c > mount' => up'[c] = <<>> /\ down'[c] = <<>>
    BY <1>1, <2>1 DEF Joined
  <2> QED
    BY <2>1, <2>2, <2>3 DEF Joined
<1>6. CASE SendMessage
  <2>1. /\ mount' = mount /\ live' = live /\ down' = down /\ proxy' = proxy /\ stream' = stream
        /\ asked' = asked + 1 /\ asked + 1 \in Questions
        /\ up' = up \/ (mount \in live /\ up' = [up EXCEPT ![mount] =
                                Append(up[mount], [of |-> asked + 1, thread_id |-> threadId])])
    BY <1>6 DEF SendMessage, agentVars
  <2>2. \A c \in Conns \ {mount} : up'[c] = up[c] /\ Carried(c)' = Carried(c)
    BY <1>2, <2>1 DEF Carried
  <2>3. ASSUME NEW c \in Conns, c = mount
        PROVE  Carried(c)' \subseteq Carried(c) \cup {asked + 1}
    <3>1. CASE up' = up
      BY <2>1, <3>1 DEF Carried
    <3>2. CASE up' = [up EXCEPT ![mount] =
                        Append(up[mount], [of |-> asked + 1, thread_id |-> threadId])]
      <4>1. /\ up[c] \in Seq(Posts)
            /\ up'[c] = Append(up[c], [of |-> asked + 1, thread_id |-> threadId])
        BY <1>2, <2>3, <3>2
      <4>2. \A i \in DOMAIN up'[c] :
              \/ i \in DOMAIN up[c] /\ up'[c][i] = up[c][i]
              \/ up'[c][i].of = asked + 1
        BY <4>1
      <4>3. {up'[c][i].of : i \in DOMAIN up'[c]}
              \subseteq {up[c][i].of : i \in DOMAIN up[c]} \cup {asked + 1}
        BY <4>2
      <4> QED
        BY <2>1, <4>3 DEF Carried
    <3> QED
      BY <2>1, <3>1, <3>2
  <2>4. \A c \in Conns : \A q \in Carried(c)' : q <= asked + 1
    <3>1. ASSUME NEW c \in Conns, NEW q \in Carried(c)
          PROVE  q <= asked + 1
      <4>1. q \in Nat /\ q <= asked
        BY <1>1, <1>3 DEF Joined
      <4> QED
        BY <1>1, <4>1
    <3>2. asked + 1 <= asked + 1
      BY <1>1
    <3>3. \A c \in Conns : Carried(c)' \subseteq Carried(c) \cup {asked + 1}
      BY <2>2, <2>3
    <3> QED
      BY <3>1, <3>2, <3>3
  <2>5. \A c \in Conns \ {mount} : asked + 1 \notin Carried(c)'
    BY <1>1, <1>3, <2>2 DEF Joined
  <2>6. \A c \in Conns : c > mount => up'[c] = <<>> /\ down'[c] = <<>>
    BY <1>4, <2>1, <2>2
  <2>7. \A q \in Questions : q > asked + 1 => stream'[q].phase = "none"
    BY <1>1, <2>1 DEF Joined
  <2> QED
    BY <2>1, <2>4, <2>5, <2>6, <2>7 DEF Joined
<1>7. CASE SendRefused \/ SyncRef \/ OnMessage \/ SocketOnError \/ SocketOnClose
  <2>1. /\ mount' = mount /\ live' = live /\ proxy' = proxy /\ up' = up /\ stream' = stream
        /\ asked' = asked
    BY <1>7 DEF SendRefused, SyncRef, OnMessage, SocketOnError, SocketOnClose, agentVars, proxyVars
  <2>2. \A c \in Conns : Carried(c)' = Carried(c)
    BY <2>1 DEF Carried
  <2>3. \A c \in Conns \ {mount} : down'[c] = down[c]
    BY <1>2, <1>7 DEF SendRefused, SyncRef, OnMessage, SocketOnError, SocketOnClose, proxyVars
  <2>4. DOMAIN messages' \subseteq DOMAIN messages
    BY <1>7, MessagesShrink DEF TypeInv
  <2>5. \A c \in Conns : c > mount => up'[c] = <<>> /\ down'[c] = <<>>
    BY <1>4, <2>1, <2>3
  <2> QED
    BY <2>1, <2>2, <2>4, <2>5 DEF Joined
<1> QED
  BY <1>5, <1>6, <1>7 DEF ViewStep

LEMMA JoinedStep ==
  ASSUME TypeInv, TypeInv', Joined, [ChatNext]_chatVars
  PROVE  Joined'
<1>1. CASE ProxyNext
  <2>1. PICK c \in Conns : React(c) \/ Drop(c)
    BY <1>1 DEF ProxyNext, ProxyStep
  <2> QED
    BY <1>1, <2>1, ReactJoins, DropJoins DEF ProxyNext
<1>2. CASE UNCHANGED chatVars
  BY <1>2 DEF Joined, Carried, chatVars, agentVars, streamVars, proxyVars, viewVars
<1> QED
  BY <1>1, <1>2, AgentJoins, ViewJoins DEF ChatNext

-----------------------------------------------------------------------------
LEMMA PiecesAppend ==
  ASSUME NEW S, NEW s \in Seq(S), NEW q, NEW n \in Nat, OnlyPieces(s, q, n)
  PROVE  OnlyPieces(Append(s, Token(q, n + Len(s) + 1)), q, n)
<1> DEFINE e == Token(q, n + Len(s) + 1)
           r == Append(s, e)
<1>1. r \in Seq(S \cup {e}) /\ Len(r) = Len(s) + 1 /\ DOMAIN r = 1 .. Len(r) /\ Len(s) \in Nat
  BY AppendProperties
<1>2. ASSUME NEW i \in DOMAIN r PROVE r[i] = Token(q, n + i)
  <2>1. CASE i = Len(s) + 1
    <3>1. r[i] = e /\ n + i = n + Len(s) + 1
      BY <1>1, <2>1
    <3> QED
      BY <3>1
  <2>2. CASE i # Len(s) + 1
    <3>1. i \in DOMAIN s /\ r[i] = s[i]
      BY <1>1, <2>2
    <3> QED
      BY <3>1 DEF OnlyPieces
  <2> QED
    BY <2>1, <2>2
<1> HIDE DEF r
<1> QED
  BY <1>2 DEF OnlyPieces, r

LEMMA PiecesTail ==
  ASSUME NEW S, NEW s \in Seq(S), s # <<>>, NEW q, NEW n \in Nat, OnlyPieces(s, q, n)
  PROVE  Head(s) = Token(q, n + 1) /\ OnlyPieces(Tail(s), q, n + 1)
<1>1. 1 \in DOMAIN s /\ Head(s) = s[1]
  OBVIOUS
<1>2. \A i \in DOMAIN Tail(s) : i + 1 \in DOMAIN s /\ Tail(s)[i] = s[i + 1] /\ n + 1 + i = n + (i + 1)
  OBVIOUS
<1> QED
  BY <1>1, <1>2 DEF OnlyPieces

LEMMA PiecesPrefix ==
  ASSUME NEW S, NEW s \in Seq(S), NEW m \in 0 .. Len(s), NEW q, NEW n \in Nat, OnlyPieces(s, q, n)
  PROVE  OnlyPieces(SubSeq(s, 1, m), q, n)
BY DEF OnlyPieces

LEMMA NoPieces ==
  \A q, n, w, t : OnlyPieces(<<>>, q, n) /\ Follows(<<>>, q, n, w, t)
BY DEF OnlyPieces, Follows

LEMMA PiecesFollow ==
  ASSUME NEW s, NEW q, NEW n, NEW w, NEW t, OnlyPieces(s, q, n)
  PROVE  Follows(s, q, n, w, t)
BY DEF OnlyPieces, Follows

LEMMA FollowsAppend ==
  ASSUME NEW S, NEW s \in Seq(S), NEW q, NEW n \in Nat, OnlyPieces(s, q, n), NEW w, NEW t,
         NEW e, Ends(e, q, n + Len(s), w, t)
  PROVE  Follows(Append(s, e), q, n, w, t)
<1> DEFINE r == Append(s, e)
<1>1. r \in Seq(S \cup {e}) /\ Len(r) = Len(s) + 1 /\ DOMAIN r = 1 .. Len(r) /\ Len(s) \in Nat
  BY AppendProperties
<1>2. ASSUME NEW i \in DOMAIN r
      PROVE  r[i] = Token(q, n + i) \/ (i = Len(r) /\ Ends(r[i], q, n + i - 1, w, t))
  <2>1. CASE i = Len(s) + 1
    <3>1. r[i] = e /\ n + i - 1 = n + Len(s) /\ i = Len(r)
      BY <1>1, <2>1
    <3> QED
      BY <3>1
  <2>2. CASE i # Len(s) + 1
    <3>1. i \in DOMAIN s /\ r[i] = s[i]
      BY <1>1, <2>2
    <3> QED
      BY <3>1 DEF OnlyPieces
  <2> QED
    BY <2>1, <2>2
<1> HIDE DEF r
<1> QED
  BY <1>2 DEF Follows, r

LEMMA FollowsTail ==
  ASSUME NEW S, NEW s \in Seq(S), s # <<>>, NEW q, NEW n \in Nat, NEW w, NEW t,
         Follows(s, q, n, w, t)
  PROVE  /\ Follows(Tail(s), q, n + 1, w, t)
         /\ Head(s) = Token(q, n + 1) \/ (Tail(s) = <<>> /\ Ends(Head(s), q, n, w, t))
<1>1. 1 \in DOMAIN s /\ Head(s) = s[1] /\ n + 1 - 1 = n /\ Len(Tail(s)) = Len(s) - 1
  OBVIOUS
<1>2. Head(s) = Token(q, n + 1) \/ (1 = Len(s) /\ Ends(Head(s), q, n, w, t))
  BY <1>1 DEF Follows
<1>3. 1 = Len(s) => Tail(s) = <<>>
  <2>1. Tail(s) \in Seq(S)
    OBVIOUS
  <2>2. Len(s) = 1 => Len(Tail(s)) = 0
    BY <1>1
  <2> QED
    BY <2>1, <2>2, EmptySeq
<1>4. ASSUME NEW i \in DOMAIN Tail(s)
      PROVE  \/ Tail(s)[i] = Token(q, n + 1 + i)
             \/ i = Len(Tail(s)) /\ Ends(Tail(s)[i], q, n + 1 + i - 1, w, t)
  <2>1. /\ i + 1 \in DOMAIN s /\ Tail(s)[i] = s[i + 1] /\ n + 1 + i = n + (i + 1)
        /\ i + 1 = Len(s) => i = Len(Tail(s))
        /\ n + 1 + i - 1 = n + (i + 1) - 1
    BY <1>1, <1>4
  <2> QED
    BY <2>1 DEF Follows
<1> QED
  BY <1>2, <1>3, <1>4 DEF Follows

LEMMA FollowsPrefix ==
  ASSUME NEW S, NEW s \in Seq(S), NEW m \in 0 .. Len(s), NEW q, NEW n \in Nat, NEW w, NEW t,
         Follows(s, q, n, w, t)
  PROVE  Follows(SubSeq(s, 1, m), q, n, w, t)
<1>1. \A i \in DOMAIN SubSeq(s, 1, m) :
        i \in DOMAIN s /\ SubSeq(s, 1, m)[i] = s[i] /\ (i = Len(s) => i = Len(SubSeq(s, 1, m)))
  OBVIOUS
<1> QED
  BY <1>1 DEF Follows

-----------------------------------------------------------------------------
(* The count HistoryNext keeps of an answer's pieces.                      *)
Recorded ==
  written' = [q \in Questions |-> IF stream[q].phase = "writing" /\ stream'[q].phase = "closing"
                                  THEN stream[q].sent ELSE written[q]]

LEMMA RecordStays ==
  ASSUME Recorded, NEW q \in Questions, Ceased(q) \/ stream'[q].phase # "closing" \/ stream'[q] = stream[q]
  PROVE  written'[q] = written[q]
BY DEF Recorded, Ceased

LEMMA SpentStays ==
  ASSUME TypeInv, NEW q \in Questions, Touches(q) \/ Progress(q) \/ Break(q),
         NEW p \in Questions, lines[p] = <<>>, stream[p].phase \in {"closing", "over"}
  PROVE  lines'[p] = <<>> /\ stream'[p].phase \in {"closing", "over"}
<1>1. CASE p # q
  BY <1>1, OnlyItsRequest DEF TypeInv
<1>2. CASE p = q
  <2>1. stream \in [Questions -> Requests] /\ lines \in [Questions -> Seq(Events)]
    BY DEF TypeInv, StreamsOk
  <2>2. ~Read(q) /\ ~Fail(q) /\ ~Respond(q) /\ ~Write(q) /\ ~Finish(q)
    BY <1>2 DEF Read, ReadLine, Fail, Respond, Write, Finish
  <2>3. \A t, client : ~Start(q, t, client)
    BY <1>2 DEF Start
  <2>4. CASE Leave(q)
    BY <1>2, <2>1, <2>4 DEF Leave, LeaveBody, Becomes
  <2>5. CASE End(q)
    BY <1>2, <2>1, <2>5 DEF End, EndBody, Becomes
  <2>6. CASE Break(q)
    <3>1. PICK n \in 0 .. Len(lines[q]) : lines' = [lines EXCEPT ![q] = SubSeq(lines[q], 1, n)]
      BY <2>6 DEF Break, BreakBody
    <3>2. SubSeq(lines[q], 1, n) = <<>>
      BY <1>2
    <3> QED
      BY <1>2, <2>1, <2>6, <3>1, <3>2 DEF Break, Becomes
  <2> QED
    BY <2>2, <2>3, <2>4, <2>5, <2>6 DEF Touches, Progress
<1> QED
  BY <1>1, <1>2

LEMMA CeasedStays ==
  ASSUME TypeInv, NEW p \in Questions, Ceased(p), NEW q \in Questions,
         \/ Progress(q) \/ Break(q) \/ Read(q) \/ Leave(q) \/ (Touches(q) /\ p # q)
  PROVE  stream'[p].phase \notin {"working", "writing"}
<1>1. stream \in [Questions -> Requests]
  BY DEF TypeInv, StreamsOk
<1>2. CASE p # q
  BY <1>2, OnlyItsRequest DEF TypeInv, Touches, Ceased
<1>3. CASE p = q
  <2>1. ~Fail(q) /\ ~Respond(q) /\ ~Write(q) /\ ~Finish(q)
    BY <1>3 DEF Fail, Respond, Write, Finish, Ceased
  <2>2. CASE End(q) \/ Break(q) \/ Leave(q)
    BY <1>1, <1>3, <2>2 DEF End, Break, Leave, Becomes
  <2>3. CASE Read(q)
    BY <1>3, <2>3 DEF Read, Ceased
  <2> QED
    BY <1>3, <2>1, <2>2, <2>3 DEF Progress
<1> QED
  BY <1>2, <1>3

(* A line more, or one less, of an answer that is being relayed.           *)
LEMMA RelayableGrows ==
  ASSUME TypeInv, HistoryOk, Recorded, UNCHANGED viewVars, asked \in Questions, NEW n \in Nat,
         Relayable(n), Progress(asked) \/ Break(asked)
  PROVE  Relayable(n)'
<1> DEFINE q == asked
           s == stream[q]
<1>1. /\ stream \in [Questions -> Requests] /\ lines \in [Questions -> Seq(Events)]
      /\ s \in Requests /\ lines[q] \in Seq(Events) /\ (s.phase # "none" => s.thread \in Questions)
      /\ asked' = q /\ threadId' = threadId /\ s.sent \in Nat
  BY DEF TypeInv, StreamsOk, viewVars, Requests
<1>2. /\ Follows(lines[q], q, n, written[q], threadId)
      /\ s.phase # "none" /\ threadId \in {None, s.thread}
      /\ s.phase = "working" => n = 0 /\ lines[q] = <<>>
      /\ s.phase = "writing" => OnlyPieces(lines[q], q, n) /\ s.sent = n + Len(lines[q])
  BY DEF Relayable
<1>3. SUFFICES
        /\ Follows(lines'[q], q, n, written'[q], threadId)
        /\ stream'[q].phase # "none" /\ threadId \in {None, stream'[q].thread}
        /\ stream'[q].phase = "working" => n = 0 /\ lines'[q] = <<>>
        /\ stream'[q].phase = "writing" =>
             OnlyPieces(lines'[q], q, n) /\ stream'[q].sent = n + Len(lines'[q])
  BY <1>1 DEF Relayable
<1>4. CASE Fail(q)
  <2>1. /\ stream'[q].phase = "closing" /\ stream'[q].thread = s.thread
        /\ lines'[q] = Append(lines[q], Error(q)) /\ lines[q] = <<>>
    BY <1>1, <1>2, <1>4 DEF Fail, Becomes, Yield
  <2>2. Ends(Error(q), q, n + Len(lines[q]), written'[q], threadId)
    BY DEF Ends
  <2>3. Follows(lines'[q], q, n, written'[q], threadId)
    BY <1>1, <2>1, <2>2, NoPieces, FollowsAppend
  <2> QED
    BY <1>2, <2>1, <2>3
<1>5. CASE Respond(q)
  <2>1. /\ stream'[q].phase = "writing" /\ stream'[q].thread = s.thread /\ stream'[q].sent = 0
        /\ lines'[q] = <<>> /\ n = 0
    BY <1>1, <1>2, <1>5 DEF Respond, Becomes, streamVars
  <2> QED
    BY <1>2, <2>1, NoPieces
<1>6. CASE Write(q)
  <2>1. /\ stream'[q].phase = "writing" /\ stream'[q].thread = s.thread
        /\ stream'[q].sent = s.sent + 1
        /\ lines'[q] = Append(lines[q], Token(q, s.sent + 1)) /\ s.phase = "writing"
    BY <1>1, <1>6 DEF Write, Becomes, Yield
  <2>2. lines'[q] = Append(lines[q], Token(q, n + Len(lines[q]) + 1))
    BY <1>2, <2>1
  <2>3. OnlyPieces(lines'[q], q, n)
    BY <1>1, <1>2, <2>1, <2>2, PiecesAppend
  <2>4. stream'[q].sent = n + Len(lines'[q])
    <3>1. Len(lines'[q]) = Len(lines[q]) + 1
      BY <1>1, <2>2, AppendProperties
    <3> QED
      BY <1>1, <1>2, <2>1, <3>1
  <2> QED
    BY <1>2, <2>1, <2>3, <2>4, PiecesFollow
<1>7. CASE Finish(q)
  <2>1. /\ stream'[q].phase = "closing" /\ stream'[q].thread = s.thread
        /\ lines'[q] = Append(lines[q], Done(q, s.thread)) /\ s.phase = "writing" /\ s.sent > 0
    BY <1>1, <1>7 DEF Finish, Becomes, Yield
  <2>2. written'[q] = n + Len(lines[q]) /\ written'[q] > 0
    BY <1>2, <2>1 DEF Recorded
  <2>3. Ends(Done(q, s.thread), q, n + Len(lines[q]), written'[q], threadId)
    BY <1>1, <1>2, <2>2 DEF Ends
  <2>4. Follows(lines'[q], q, n, written'[q], threadId)
    BY <1>1, <1>2, <2>1, <2>3, FollowsAppend
  <2> QED
    BY <1>2, <2>1, <2>4
<1>8. CASE End(q) \/ Break(q)
  <2>1. stream'[q].phase = "over" /\ stream'[q].thread = s.thread
    BY <1>1, <1>8 DEF End, Break, Becomes
  <2>2. written'[q] = written[q]
    BY <2>1, RecordStays
  <2>3. PICK m \in 0 .. Len(lines[q]) : lines'[q] = SubSeq(lines[q], 1, m)
    <3>1. CASE End(q)
      <4>1. lines'[q] = SubSeq(lines[q], 1, Len(lines[q])) /\ Len(lines[q]) \in 0 .. Len(lines[q])
        BY <1>1, <3>1 DEF End, EndBody
      <4> QED
        BY <4>1
    <3>2. CASE Break(q)
      BY <1>1, <3>2 DEF Break, BreakBody
    <3> QED
      BY <1>8, <3>1, <3>2
  <2>4. Follows(lines'[q], q, n, written'[q], threadId)
    BY <1>1, <1>2, <2>2, <2>3, FollowsPrefix
  <2> QED
    BY <1>2, <2>1, <2>4
<1> QED
  BY <1>4, <1>5, <1>6, <1>7, <1>8 DEF Progress

-----------------------------------------------------------------------------
LEMMA OpenMount ==
  ASSUME TypeInv, View, socket = "open"
  PROVE  /\ mount \in Conns /\ up[mount] \in Seq(Posts) /\ down[mount] \in Seq(Events)
         /\ proxy[mount] \in Coroutines /\ Len(buffer) \in Nat /\ Len(down[mount]) \in Nat
         /\ proxy[mount].at \in {"calling", "reading"} => proxy[mount].q \in Questions
         /\ assistantId # None => asked \in Questions /\ asked \in DOMAIN messages
<1>1. mount \in Conns
  BY DEF TypeInv, ViewOk, View
<1>2. \A b \in Seq(Events) : Len(b) \in Nat
  OBVIOUS
<1>3. assistantId # None => asked \in Questions /\ asked \in DOMAIN messages
  BY DEF TypeInv, ViewOk, View, Bubble
<1> QED
  BY <1>1, <1>2, <1>3, CoroutineFields DEF TypeInv, ViewOk

LEMMA RelayableStays ==
  ASSUME NEW n, Relayable(n), asked' = asked, threadId' = threadId, stream'[asked] = stream[asked],
         lines'[asked] = lines[asked], written'[asked] = written[asked]
  PROVE  Relayable(n)'
BY DEF Relayable

LEMMA AnsweredStays ==
  ASSUME Answered, UNCHANGED viewVars, stream'[asked] = stream[asked],
         lines'[asked] = lines[asked], written'[asked] = written[asked],
         proxy'[mount] = proxy[mount], up'[mount] = up[mount], down'[mount] = down[mount]
  PROVE  Answered'
<1> DEFINE n == Len(buffer) + Len(down[mount])
<1>1. n' = n
  BY DEF viewVars
<1>2. Relayable(n)
  BY DEF Answered
<1> HIDE DEF n
<1>3. Relayable(n)'
  BY <1>1, <1>2, RelayableStays DEF viewVars
<1> QED
  BY <1>3 DEF Answered, viewVars, n

(* A step of nam-agentic, or of the coroutine of another connection.       *)
Aloof(q) ==
  \/ Progress(q) \/ Break(q)
  \/ Touches(q) /\ (asked \in DOMAIN messages => q # asked)

LEMMA AloofStep ==
  ASSUME TypeInv, HistoryOk, View, Recorded, UNCHANGED viewVars, mount \in Conns,
         proxy'[mount] = proxy[mount], up'[mount] = up[mount], down'[mount] = down[mount],
         mount \in live' <=> mount \in live,
         \/ UNCHANGED agentVars
         \/ \E q \in Questions : Aloof(q)
  PROVE  InStep'
<1> SUFFICES ASSUME socket = "open"
             PROVE  (assistantId = None /\ Quiet') \/ (assistantId # None /\ UnderWay')
  BY DEF InStep, viewVars
<1> USE DEF viewVars
<1>1. /\ proxy[mount].at = "reading" => proxy[mount].q \in Questions
      /\ assistantId # None => asked \in Questions /\ asked \in DOMAIN messages
      /\ Len(buffer) \in Nat /\ Len(down[mount]) \in Nat
  BY OpenMount
<1>2. CASE UNCHANGED agentVars
  <2>1. \A q \in Questions : written'[q] = written[q]
    BY <1>2, RecordStays DEF agentVars
  <2> stream' = stream /\ lines' = lines
    BY <1>2 DEF agentVars, streamVars
  <2>2. Spent(mount) => Spent(mount)'
    BY <1>2 DEF Spent, agentVars, streamVars
  <2>3. CASE assistantId = None
    BY <1>2, <2>2, <2>3 DEF View, InStep, Quiet, Ceased, agentVars
  <2>4. CASE assistantId # None
    <3>1. Posted => Posted'
      BY <1>2, <2>2 DEF Posted, agentVars
    <3>2. Passed => Passed'
      BY <1>2, <2>2 DEF Passed, agentVars
    <3>3. Answered => Answered'
      BY <1>1, <2>1, <2>4, AnsweredStays
    <3>4. Severed => Severed'
      BY DEF Severed
    <3>5. Relayed => Relayed'
      BY <1>1, <1>2, <2>1, <2>2, <2>4 DEF Relayed, Ceased, agentVars
    <3> QED
      BY <2>4, <3>1, <3>2, <3>3, <3>4, <3>5 DEF View, InStep, UnderWay
  <2> QED
    BY <2>3, <2>4
<1>3. ASSUME NEW q \in Questions, Aloof(q)
      PROVE  (assistantId = None /\ Quiet') \/ (assistantId # None /\ UnderWay')
  <2>1. Spent(mount) => Spent(mount)'
    BY <1>1, <1>3, SpentStays DEF Spent, Aloof
  <2>2. asked \in Questions /\ asked \in DOMAIN messages /\ Ceased(asked) => Ceased(asked)'
    BY <1>3, CeasedStays DEF Ceased, Aloof
  <2>3. CASE assistantId = None
    <3>1. DOMAIN messages \subseteq Questions
      BY DEF TypeInv, ViewOk
    <3> QED
      BY <2>1, <2>2, <2>3, <3>1 DEF View, InStep, Quiet
  <2>4. CASE assistantId # None /\ q # asked
    <3>1. stream'[asked] = stream[asked] /\ lines'[asked] = lines[asked]
      BY <1>1, <1>3, <2>4, OnlyItsRequest DEF TypeInv, Aloof
    <3>2. written'[asked] = written[asked]
      BY <1>1, <2>4, <3>1, RecordStays
    <3>3. Posted => Posted'
      BY <2>1, <3>1 DEF Posted
    <3>4. Passed => Passed'
      BY <3>1 DEF Passed
    <3>5. Answered => Answered'
      BY <3>1, <3>2, AnsweredStays
    <3>6. Severed => Severed'
      BY DEF Severed
    <3>7. Relayed => Relayed'
      BY <2>1, <3>1, <3>2 DEF Relayed, Ceased
    <3> QED
      BY <2>4, <3>3, <3>4, <3>5, <3>6, <3>7 DEF View, InStep, UnderWay
  <2>5. CASE assistantId # None /\ q = asked
    <3>1. (Progress(asked) \/ Break(asked)) /\ stream[asked].phase # "none"
      BY <1>1, <1>3, <2>5, OnlyBegun DEF TypeInv, Aloof
    <3>2. ~Posted /\ ~Passed
      BY <3>1 DEF Posted, Passed
    <3>3. Answered => Answered'
      <4>1. Len(buffer) + Len(down[mount]) \in Nat
        BY <1>1
      <4>2. Relayable(Len(buffer) + Len(down[mount])) =>
              Relayable(Len(buffer) + Len(down[mount]))'
        <5> DEFINE n == Len(buffer) + Len(down[mount])
        <5>1. n \in Nat /\ n' = n
          BY <4>1
        <5> HIDE DEF n
        <5>2. Relayable(n) => Relayable(n)'
          BY <1>1, <2>5, <3>1, <5>1, RelayableGrows
        <5> QED
          BY <5>2 DEF n
      <4> QED
        BY <4>2 DEF Answered
    <3>4. Severed => Severed'
      BY DEF Severed
    <3>5. Relayed => Relayed'
      <4>1. Ceased(asked) => written'[asked] = written[asked]
        BY <1>1, <2>5, RecordStays
      <4> QED
        BY <1>1, <2>1, <2>2, <2>5, <4>1 DEF Relayed
    <3> QED
      BY <2>5, <3>2, <3>3, <3>4, <3>5 DEF View, InStep, UnderWay
  <2> QED
    BY <2>3, <2>4, <2>5
<1> QED
  BY <1>2, <1>3

-----------------------------------------------------------------------------
(* What a coroutine that is through with its question may do until it      *)
(* receives another: leave the stream, or end.                             *)
LEMMA SpentReacts ==
  ASSUME TypeInv, NEW c \in Conns, Spent(c), React(c), ~ReceiveText(c), ~BreaksLate(c)
  PROVE  /\ proxy'[c].at \in {"idle", "closed"} /\ up'[c] = up[c] /\ down'[c] = down[c]
         /\ \A p \in Questions : stream[p].phase = "none" => stream'[p] = stream[p]
         /\ \A p \in Questions : Ceased(p) => stream'[p].phase \notin {"working", "writing"}
<1> DEFINE q == proxy[c].q
<1>1. /\ proxy \in [Conns -> Coroutines]
      /\ proxy[c].at \in {"calling", "reading"} => q \in Questions
      /\ stream \in [Questions -> Requests]
  BY DEF TypeInv, ProxyOk, StreamsOk
<1>2. /\ proxy[c].at # "calling"
      /\ proxy[c].at = "reading" => /\ proxy[c].saw_terminal /\ lines[q] = <<>>
                                    /\ stream[q].phase \in {"closing", "over"}
  BY DEF Spent
<1>3. ~Call(c) /\ ~CallFails(c) /\ ~Relay(c) /\ ~RelayStatus(c)
  BY <1>2 DEF Call, CallFails, Relay, RelayStatus
<1>4. CASE Disconnected(c)
  <2>1. proxy'[c] = Closed /\ up' = up /\ down' = down /\ stream' = stream
    BY <1>1, <1>4 DEF Disconnected, agentVars
  <2> QED
    BY <2>1, Resting DEF Ceased
<1>5. CASE StreamEnds(c) \/ StreamBreaks(c)
  <2>1. q \in Questions /\ Leave(q) /\ up' = up /\ proxy[c].at = "reading"
    BY <1>1, <1>5 DEF StreamEnds, StreamBreaks
  <2>2. (proxy'[c] = Idle \/ proxy'[c] = Closed) /\ down' = down
    <3>1. CASE StreamEnds(c)
      BY <1>1, <1>2, <2>1, <3>1 DEF StreamEnds
    <3>2. CASE StreamBreaks(c)
      <4>1. link[q] = "broken" /\ SendText(c, Error(q), Idle)
        BY <3>2 DEF StreamBreaks
      <4>2. c \in live => proxy'[c].at = "idle"
        BY <1>1, <4>1, Resting DEF SendText
      <4>3. c \notin live
        BY <1>2, <2>1, <4>1, <4>2 DEF BreaksLate
      <4> QED
        BY <1>1, <4>1, <4>3 DEF SendText
    <3> QED
      BY <1>5, <3>1, <3>2
  <2>3. \A p \in Questions : stream[p].phase = "none" => stream'[p] = stream[p]
    <3>1. \A p \in Questions : stream[p].phase = "none" => p # q
      BY <1>2, <2>1
    <3> QED
      BY <2>1, <3>1, OnlyItsRequest DEF TypeInv, Touches
  <2>4. \A p \in Questions : Ceased(p) => stream'[p].phase \notin {"working", "writing"}
    BY <2>1, CeasedStays
  <2> QED
    BY <2>1, <2>2, <2>3, <2>4, Resting
<1> QED
  BY <1>3, <1>4, <1>5 DEF React

LEMMA QuietReacts ==
  ASSUME TypeInv, mount \in Conns, React(mount), ~BreaksLate(mount), UNCHANGED viewVars, Quiet
  PROVE  Quiet'
<1>1. ~ReceiveText(mount)
  BY DEF Quiet, ReceiveText
<1>2. DOMAIN messages \subseteq Questions
  BY DEF TypeInv, ViewOk
<1> QED
  BY <1>1, <1>2, SpentReacts DEF Quiet, Spent, Ceased, viewVars

LEMMA PostedReacts ==
  ASSUME TypeInv, mount \in Conns, asked \in Questions, React(mount), ~BreaksLate(mount),
         UNCHANGED viewVars, mount \in live, Posted
  PROVE  Posted' \/ Passed'
<1>1. CASE ReceiveText(mount)
  <2> DEFINE post == [of |-> asked, thread_id |-> threadId]
  <2>1. up[mount] = <<post>> /\ Head(<<post>>) = post /\ Tail(<<post>>) = <<>>
    BY DEF Posted
  <2>2. proxy'[mount] = [Idle EXCEPT !.at = "calling", !.q = post.of, !.thread_id = post.thread_id]
    BY <1>1, <2>1 DEF ReceiveText, TypeInv, ProxyOk
  <2>3. /\ proxy'[mount].at = "calling" /\ proxy'[mount].q = asked
        /\ proxy'[mount].thread_id = threadId /\ ~proxy'[mount].saw_terminal
    BY <2>2 DEF Idle
  <2>4. up'[mount] = <<>> /\ down' = down /\ stream' = stream
    BY <1>1, <2>1 DEF ReceiveText, TypeInv, ProxyOk, agentVars
  <2> QED
    BY <2>3, <2>4 DEF Posted, Passed, viewVars
<1>2. CASE ~ReceiveText(mount)
  <2>1. Spent(mount)
    BY DEF Posted
  <2> QED
    BY <1>2, <2>1, SpentReacts DEF Posted, Spent, viewVars
<1> QED
  BY <1>1, <1>2

LEMMA PassedReacts ==
  ASSUME TypeInv, mount \in Conns, asked \in Questions, React(mount), UNCHANGED viewVars,
         mount \in live, Passed
  PROVE  Answered' \/ Relayed'
<1>1. /\ proxy \in [Conns -> Coroutines] /\ down \in [Conns -> Seq(Events)]
      /\ stream \in [Questions -> Requests] /\ link \in [Questions -> Links]
      /\ lines[asked] = <<>> /\ threadId \in Threads
  BY DEF TypeInv, ProxyOk, StreamsOk, ViewOk, Passed
<1>2. Call(mount) \/ CallFails(mount)
  BY DEF Passed, React, ReceiveText, Disconnected, Relay, RelayStatus, StreamEnds, StreamBreaks
<1>3. /\ proxy[mount].at = "calling" /\ proxy[mount].q = asked /\ proxy[mount].thread_id = threadId
      /\ up[mount] = <<>> /\ down[mount] = <<>> /\ buffer = <<>> /\ stream[asked].phase = "none"
  BY DEF Passed
<1>4. CASE Call(mount)
  <2>1. /\ stream'[asked] = [phase |-> "working", thread |-> ThreadOf(asked, threadId), sent |-> 0]
        /\ lines' = lines /\ up' = up /\ down' = down
        /\ proxy'[mount] = [proxy[mount] EXCEPT !.at = "reading"]
    BY <1>1, <1>3, <1>4 DEF Call, Start, OpenBody
  <2>2. ~proxy[mount].saw_terminal
    BY DEF Passed
  <2>3. proxy'[mount].at = "reading" /\ proxy'[mount].q = asked /\ ~proxy'[mount].saw_terminal
    BY <1>1, <1>3, <2>1, <2>2 DEF Coroutines
  <2>4. threadId \in {None, ThreadOf(asked, threadId)}
    BY DEF ThreadOf
  <2>5. Relayable(0)'
    BY <1>1, <2>1, <2>4, NoPieces DEF Relayable, viewVars
  <2>6. Len(buffer') + Len(down'[mount']) = 0
    BY <1>3, <2>1 DEF viewVars
  <2>7. Relayable(Len(buffer) + Len(down[mount]))'
    <3> DEFINE n == Len(buffer) + Len(down[mount])
    <3>1. n' = 0
      BY <2>6
    <3> HIDE DEF n
    <3>2. Relayable(n)'
      BY <2>5, <3>1 DEF Relayable
    <3> QED
      BY <3>2 DEF n
  <2>8. OnlyPieces(down'[mount], asked, Len(buffer))
    BY <1>3, <2>1, NoPieces
  <2> QED
    BY <1>3, <2>1, <2>3, <2>7, <2>8 DEF Answered, viewVars
<1>5. CASE CallFails(mount)
  <2>1. /\ proxy'[mount] = Idle /\ down'[mount] = Append(<<>>, Error(asked)) /\ up' = up
    BY <1>1, <1>3, <1>5 DEF CallFails, SendText
  <2>2. stream'[asked].phase \in {"none", "over"}
    BY <1>1, <1>3, <1>5 DEF CallFails, Start, agentVars
  <2>3. Ends(Error(asked), asked, 0 + Len(<<>>), written'[asked], threadId)
    BY DEF Ends
  <2>4. Follows(Append(<<>>, Error(asked)), asked, 0, written'[asked], threadId)
    <3>1. <<>> \in Seq(Events)
      OBVIOUS
    <3> QED
      BY <2>3, <3>1, NoPieces, FollowsAppend
  <2>5. Len(buffer) = 0
    BY <1>3
  <2> QED
    BY <1>3, <2>1, <2>2, <2>4, <2>5, Resting DEF Relayed, Spent, Ceased, viewVars
<1> QED
  BY <1>2, <1>4, <1>5

(* One more piece relayed.                                                 *)
LEMMA PieceRelayed ==
  ASSUME TypeInv, HistoryOk, Recorded, UNCHANGED viewVars, asked \in Questions, NEW n \in Nat,
         Relayable(n), lines[asked] # <<>>, stream' = stream,
         lines'[asked] = Tail(lines[asked]), Head(lines[asked]) = Token(asked, n + 1)
  PROVE  Relayable(n + 1)'
<1>1. lines[asked] \in Seq(Events) /\ written'[asked] = written[asked]
  BY RecordStays DEF TypeInv, StreamsOk
<1>2. Follows(Tail(lines[asked]), asked, n + 1, written[asked], threadId)
  BY <1>1, FollowsTail DEF Relayable
<1>3. stream[asked].phase = "writing" =>
        /\ OnlyPieces(Tail(lines[asked]), asked, n + 1)
        /\ stream[asked].sent = n + 1 + Len(Tail(lines[asked]))
  <2> SUFFICES ASSUME stream[asked].phase = "writing"
               PROVE  /\ OnlyPieces(Tail(lines[asked]), asked, n + 1)
                      /\ stream[asked].sent = n + 1 + Len(Tail(lines[asked]))
    OBVIOUS
  <2>1. OnlyPieces(lines[asked], asked, n) /\ stream[asked].sent = n + Len(lines[asked])
    BY DEF Relayable
  <2>2. Len(lines[asked]) \in Nat /\ Len(Tail(lines[asked])) = Len(lines[asked]) - 1
    BY <1>1, HeadTailProperties
  <2>3. OnlyPieces(Tail(lines[asked]), asked, n + 1)
    BY <1>1, <2>1, PiecesTail
  <2>4. n + Len(lines[asked]) = n + 1 + Len(Tail(lines[asked]))
    <3> DEFINE before == Len(lines[asked])
               after == Len(Tail(lines[asked]))
    <3>1. before \in Nat /\ after = before - 1
      BY <2>2
    <3> HIDE DEF before, after
    <3>2. n + before = n + 1 + after
      BY <3>1
    <3> QED
      BY <3>2 DEF before, after
  <2> QED
    BY <2>1, <2>3, <2>4
<1>4. /\ stream[asked].phase # "none" /\ threadId \in {None, stream[asked].thread}
      /\ stream[asked].phase # "working"
  BY DEF Relayable
<1>5. asked' = asked /\ threadId' = threadId
  BY DEF viewVars
<1> QED
  BY <1>1, <1>2, <1>3, <1>4, <1>5 DEF Relayable

LEMMA RelaysAnswer ==
  ASSUME TypeInv, HistoryOk, Recorded, mount \in Conns, asked \in Questions, UNCHANGED viewVars,
         mount \in live, Answered, Relay(mount)
  PROVE  Answered' \/ Relayed'
<1> DEFINE n == Len(buffer) + Len(down[mount])
           e == Head(lines[asked])
<1>1. /\ proxy \in [Conns -> Coroutines] /\ down \in [Conns -> Seq(Events)]
      /\ lines \in [Questions -> Seq(Events)] /\ stream \in [Questions -> Requests]
      /\ down[mount] \in Seq(Events) /\ lines[asked] \in Seq(Events)
      /\ Len(buffer) \in Nat /\ Len(down[mount]) \in Nat
  <2>1. \A b \in Seq(Events) : Len(b) \in Nat
    OBVIOUS
  <2> QED
    BY <2>1 DEF TypeInv, ProxyOk, StreamsOk, ViewOk
<1>2. /\ proxy[mount].at = "reading" /\ proxy[mount].q = asked /\ ~proxy[mount].saw_terminal
      /\ up[mount] = <<>> /\ OnlyPieces(down[mount], asked, Len(buffer)) /\ Relayable(n)
  BY DEF Answered
<1>3. /\ lines[asked] # <<>> /\ lines'[asked] = Tail(lines[asked]) /\ stream' = stream
      /\ up' = up /\ down'[mount] = Append(down[mount], e)
      /\ proxy'[mount] = [proxy[mount] EXCEPT !.saw_terminal = Saw(proxy[mount].saw_terminal, e)]
  BY <1>1, <1>2 DEF Relay, SendText, Read, ReadLine
<1>4. /\ asked' = asked /\ mount' = mount /\ buffer' = buffer /\ threadId' = threadId
  BY DEF viewVars
<1>5. written'[asked] = written[asked] /\ Follows(lines[asked], asked, n, written[asked], threadId)
  BY <1>2, <1>3, RecordStays DEF Relayable
<1>6. n \in Nat
  BY <1>1
<1>7. e = Token(asked, n + 1) \/ (Tail(lines[asked]) = <<>> /\ Ends(e, asked, n, written[asked], threadId))
  <2> HIDE DEF n
  <2> QED
    BY <1>1, <1>3, <1>5, <1>6, FollowsTail
<1> HIDE DEF e
<1>8. CASE e = Token(asked, n + 1)
  <2>1. ~proxy'[mount].saw_terminal /\ proxy'[mount].at = "reading" /\ proxy'[mount].q = asked
    BY <1>1, <1>2, <1>3, <1>8 DEF Saw, IsTerminal, Token, Coroutines
  <2>2. OnlyPieces(down'[mount], asked, Len(buffer))
    <3>1. down'[mount] = Append(down[mount], Token(asked, Len(buffer) + Len(down[mount]) + 1))
      BY <1>3, <1>8
    <3> QED
      BY <1>1, <1>2, <3>1, PiecesAppend
  <2>3. Len(down'[mount]) = Len(down[mount]) + 1
    BY <1>1, <1>3, AppendProperties
  <2>4. n' = n + 1
    BY <1>1, <1>4, <2>3
  <2>5. Relayable(n)'
    <3> HIDE DEF n
    <3>1. PICK k \in Nat : k = n
      BY <1>6
    <3>2. Relayable(k) /\ Head(lines[asked]) = Token(asked, k + 1)
      BY <1>2, <1>8, <3>1 DEF e
    <3>3. Relayable(k + 1)'
      BY <1>3, <3>2, PieceRelayed
    <3> QED
      BY <2>4, <3>1, <3>3 DEF Relayable
  <2> QED
    BY <1>2, <1>3, <1>4, <2>1, <2>2, <2>5 DEF Answered
<1>9. CASE Tail(lines[asked]) = <<>> /\ Ends(e, asked, n, written[asked], threadId)
  <2>1. IsTerminal(e)
    BY <1>9 DEF Ends, Error, Done, IsTerminal
  <2>2. proxy'[mount].saw_terminal /\ proxy'[mount].at = "reading" /\ proxy'[mount].q = asked
    BY <1>1, <1>2, <1>3, <2>1 DEF Saw, Coroutines
  <2>3. Follows(down'[mount], asked, Len(buffer), written[asked], threadId)
    <3>1. Ends(e, asked, Len(buffer) + Len(down[mount]), written[asked], threadId)
      BY <1>9
    <3>2. Follows(Append(down[mount], e), asked, Len(buffer), written[asked], threadId)
      BY <1>1, <1>2, <3>1, FollowsAppend
    <3> QED
      BY <1>3, <3>2
  <2>4. stream[asked].phase \in {"closing", "over"}
    <3>1. stream[asked].phase # "none" /\ stream[asked].phase # "working"
      BY <1>2, <1>3 DEF Relayable
    <3>2. stream[asked].phase # "writing"
      <4>1. ASSUME stream[asked].phase = "writing" PROVE e = Token(asked, n + 1)
        <5>1. OnlyPieces(lines[asked], asked, n)
          BY <1>2, <4>1 DEF Relayable
        <5> HIDE DEF n
        <5> QED
          BY <1>1, <1>3, <1>6, <5>1, PiecesTail DEF e
      <4> QED
        BY <2>1, <4>1 DEF IsTerminal, Token
    <3> QED
      BY <1>1, <3>1, <3>2 DEF Requests
  <2> QED
    BY <1>2, <1>3, <1>4, <1>5, <1>9, <2>2, <2>3, <2>4 DEF Relayed, Spent, Ceased
<1> QED
  BY <1>7, <1>8, <1>9

LEMMA AnsweredReacts ==
  ASSUME TypeInv, HistoryOk, Recorded, mount \in Conns, asked \in Questions, UNCHANGED viewVars,
         mount \in live, Answered, React(mount)
  PROVE  Answered' \/ Relayed'
<1>1. /\ proxy \in [Conns -> Coroutines] /\ down \in [Conns -> Seq(Events)]
      /\ stream \in [Questions -> Requests] /\ down[mount] \in Seq(Events) /\ Len(buffer) \in Nat
  <2>1. \A b \in Seq(Events) : Len(b) \in Nat
    OBVIOUS
  <2> QED
    BY <2>1 DEF TypeInv, ProxyOk, StreamsOk, ViewOk
<1>2. /\ proxy[mount].at = "reading" /\ proxy[mount].q = asked /\ ~proxy[mount].saw_terminal
      /\ up[mount] = <<>> /\ OnlyPieces(down[mount], asked, Len(buffer))
  BY DEF Answered
<1>3. Relay(mount) \/ StreamEnds(mount) \/ StreamBreaks(mount)
  BY <1>2 DEF React, ReceiveText, Disconnected, Call, CallFails, RelayStatus
<1>4. CASE StreamEnds(mount) \/ StreamBreaks(mount)
  <2>1. Leave(asked) /\ up' = up /\ SendText(mount, Error(asked), Idle)
    BY <1>2, <1>4 DEF StreamEnds, StreamBreaks
  <2>2. proxy'[mount] = Idle /\ down'[mount] = Append(down[mount], Error(asked))
    BY <1>1, <2>1 DEF SendText
  <2>3. stream'[asked].phase = "over"
    BY <1>1, <2>1 DEF Leave, Becomes
  <2>4. Ends(Error(asked), asked, Len(buffer) + Len(down[mount]), written'[asked], threadId)
    BY DEF Ends
  <2>5. Follows(down'[mount], asked, Len(buffer), written'[asked], threadId)
    BY <1>1, <1>2, <2>2, <2>4, FollowsAppend
  <2> QED
    BY <1>2, <2>1, <2>2, <2>3, <2>5, Resting DEF Relayed, Spent, Ceased, viewVars
<1> QED
  BY <1>3, <1>4, RelaysAnswer

-----------------------------------------------------------------------------
(* A step of nam-agentic or nam-api leaves the page in step with both.     *)
LEMMA ReactInStep ==
  ASSUME TypeInv, HistoryOk, Joined, View, Recorded, UNCHANGED viewVars,
         NEW c \in Conns, React(c), ~BreaksLate(c)
  PROVE  InStep'
<1>1. Local(c)
  BY ReactEffects DEF TypeInv
<1>2. CASE socket # "open"
  BY <1>2 DEF InStep, viewVars
<1>3. CASE socket = "open" /\ c # mount
  <2>1. mount \in Conns
    BY <1>3, OpenMount
  <2>2. /\ proxy'[mount] = proxy[mount] /\ up'[mount] = up[mount] /\ down'[mount] = down[mount]
        /\ live' = live
    BY <1>1, <1>3, <2>1 DEF Local
  <2>3. UNCHANGED agentVars \/ \E q \in Questions : Aloof(q)
    BY <1>1, <1>3 DEF Local, Joined, Aloof
  <2> QED
    BY <2>1, <2>2, <2>3, AloofStep
<1>4. CASE socket = "open" /\ c = mount
  <2> USE <1>4
  <2>1. mount \in Conns /\ (assistantId # None => asked \in Questions)
    BY OpenMount
  <2>2. live' = live /\ (mount \notin live => down'[mount] = down[mount])
    BY <1>1 DEF Local
  <2>3. CASE assistantId = None
    <3>1. Quiet'
      BY <2>1, <2>3, QuietReacts DEF View, InStep
    <3> QED
      BY <2>3, <3>1 DEF InStep, viewVars
  <2>4. CASE assistantId # None
    <3>1. Severed => Severed'
      BY <2>2 DEF Severed, viewVars
    <3>2. mount \in live /\ Posted => mount \in live' /\ (Posted' \/ Passed')
      BY <2>1, <2>2, <2>4, PostedReacts
    <3>3. mount \in live /\ Passed => mount \in live' /\ (Answered' \/ Relayed')
      BY <2>1, <2>2, <2>4, PassedReacts
    <3>4. mount \in live /\ Answered => mount \in live' /\ (Answered' \/ Relayed')
      BY <2>1, <2>2, <2>4, AnsweredReacts
    <3>5. Relayed => Relayed'
      <4>1. ~ReceiveText(mount) \/ ~Relayed
        BY DEF Relayed, ReceiveText
      <4>2. Ceased(asked) => written'[asked] = written[asked]
        BY <2>1, <2>4, RecordStays
      <4> QED
        BY <2>1, <2>4, <4>1, <4>2, SpentReacts DEF Relayed, Spent, Ceased, viewVars
    <3>6. UnderWay'
      BY <2>4, <3>1, <3>2, <3>3, <3>4, <3>5 DEF View, InStep, UnderWay, viewVars
    <3> QED
      BY <2>4, <3>6 DEF InStep, viewVars
  <2> QED
    BY <2>3, <2>4
<1> QED
  BY <1>2, <1>3, <1>4

LEMMA DropInStep ==
  ASSUME TypeInv, HistoryOk, Joined, View, Recorded, UNCHANGED viewVars,
         NEW c \in Conns, Drop(c)
  PROVE  InStep'
<1> SUFFICES ASSUME socket = "open" PROVE InStep'
  BY DEF InStep, viewVars
<1>1. /\ c = mount /\ mount \in Conns /\ live' = {} /\ proxy' = proxy /\ stream' = stream
      /\ lines' = lines /\ up[mount] \in Seq(Posts) /\ down[mount] \in Seq(Events)
      /\ Len(buffer) \in Nat /\ (assistantId # None => asked \in Questions) /\ c \in live
  BY DropEffects, OpenMount DEF TypeInv, Joined, agentVars, streamVars
<1>2. PICK n \in 0 .. Len(up[mount]) : up'[mount] = SubSeq(up[mount], 1, n)
  BY <1>1, DropEffects DEF TypeInv
<1>3. PICK m \in 0 .. Len(down[mount]) : down'[mount] = SubSeq(down[mount], 1, m)
  BY <1>1, DropEffects DEF TypeInv
<1>4. (up[mount] = <<>> => up'[mount] = <<>>) /\ (down[mount] = <<>> => down'[mount] = <<>>)
  BY <1>1, <1>2, <1>3
<1>5. Spent(mount) => Spent(mount)'
  BY <1>1 DEF Spent, viewVars
<1>6. CASE assistantId = None
  <2>1. Quiet'
    BY <1>1, <1>4, <1>5, <1>6 DEF View, InStep, Quiet, Ceased, viewVars
  <2> QED
    BY <1>6, <2>1 DEF InStep, viewVars
<1>7. CASE assistantId # None
  <2>1. written'[asked] = written[asked]
    BY <1>1, <1>7, RecordStays
  <2>2. Posted \/ Passed \/ Answered => OnlyPieces(down[mount], asked, Len(buffer))
    BY NoPieces DEF Posted, Passed, Answered
  <2>3. Posted \/ Passed \/ Answered => Severed'
    BY <1>1, <1>3, <2>2, PiecesPrefix DEF Severed, viewVars
  <2>4. Relayed => Relayed'
    BY <1>1, <1>3, <1>4, <1>5, <2>1, FollowsPrefix DEF Relayed, Ceased, viewVars
  <2>5. UnderWay'
    BY <1>1, <1>7, <2>3, <2>4 DEF View, InStep, UnderWay, Severed
  <2> QED
    BY <1>7, <2>5 DEF InStep, viewVars
<1> QED
  BY <1>6, <1>7

LEMMA AgentInStep ==
  ASSUME TypeInv, HistoryOk, View, Recorded, AgentNext
  PROVE  InStep'
<1>1. UNCHANGED viewVars /\ UNCHANGED proxyVars /\ \E q \in Questions : Aloof(q)
  BY DEF AgentNext, Aloof
<1>2. CASE socket # "open"
  BY <1>1, <1>2 DEF InStep, viewVars
<1>3. CASE socket = "open"
  <2>1. mount \in Conns
    BY <1>3, OpenMount
  <2> QED
    BY <1>1, <2>1, AloofStep DEF proxyVars
<1> QED
  BY <1>2, <1>3

(* What such a step may spoil on the page is the count of a whole answer.  *)
LEMMA PageStays ==
  ASSUME TypeInv, Recorded, View, BubblesArePrefixes, SettledShown, ~late, ~late',
         UNCHANGED viewVars, InStep'
  PROVE  View' /\ BubblesArePrefixes' /\ SettledShown'
<1>1. View'
  BY DEF View, Bubble, viewVars
<1>2. BubblesArePrefixes'
  BY DEF BubblesArePrefixes, viewVars
<1>3. SettledShown'
  <2>1. CASE isStreaming \/ socket # "open" \/ error
    BY <2>1 DEF SettledShown, viewVars
  <2>2. CASE ~isStreaming /\ socket = "open" /\ ~error /\ asked \in DOMAIN messages
    <3>1. Quiet /\ asked \in Questions
      BY <2>2 DEF View, InStep, TypeInv, ViewOk
    <3>2. written'[asked] = written[asked]
      BY <2>2, <3>1, RecordStays DEF Quiet
    <3>3. messages[asked] = Pieces(asked, written[asked]) /\ written[asked] > 0
      BY <2>2 DEF SettledShown
    <3> QED
      BY <2>2, <3>2, <3>3 DEF SettledShown, viewVars
  <2>3. CASE asked \notin DOMAIN messages
    BY <2>3 DEF SettledShown, viewVars
  <2> QED
    BY <2>1, <2>2, <2>3
<1> QED
  BY <1>1, <1>2, <1>3

-----------------------------------------------------------------------------
LEMMA PiecesGrow ==
  ASSUME NEW q, NEW n \in Nat
  PROVE  /\ Pieces(q, 0) = <<>> /\ Len(Pieces(q, n)) = n
         /\ Append(Pieces(q, n), Token(q, n + 1)) = Pieces(q, n + 1)
<1> DEFINE S == {Token(q, i) : i \in 1 .. n + 1}
<1>1. Pieces(q, 0) = <<>>
  BY DEF Pieces
<1>2. Pieces(q, n) \in Seq(S) /\ Len(Pieces(q, n)) = n
  BY DEF Pieces
<1>3. Pieces(q, n + 1) \in Seq(S) /\ Len(Pieces(q, n + 1)) = n + 1
  BY DEF Pieces
<1>4. /\ Append(Pieces(q, n), Token(q, n + 1)) \in Seq(S)
      /\ Len(Append(Pieces(q, n), Token(q, n + 1))) = n + 1
  BY <1>2, AppendProperties
<1>5. \A i \in 1 .. n + 1 : Append(Pieces(q, n), Token(q, n + 1))[i] = Pieces(q, n + 1)[i]
  BY <1>2 DEF Pieces
<1> QED
  BY <1>1, <1>2, <1>3, <1>4, <1>5, SeqEqual

LEMMA MountInStep ==
  ASSUME TypeInv, Joined, Mount
  PROVE  View' /\ BubblesArePrefixes' /\ SettledShown'
<1>1. /\ mount \in Nat /\ mount + 1 \in Conns /\ mount + 1 > mount /\ mount' = mount + 1
  BY Constants DEF TypeInv, ViewOk, Mount
<1>2. /\ proxy \in [Conns -> Coroutines] /\ up[mount + 1] = <<>> /\ down[mount + 1] = <<>>
  BY <1>1 DEF TypeInv, ProxyOk, Joined
<1>3. /\ socket' = "open" /\ isStreaming' = FALSE /\ assistantId' = None /\ buffer' = <<>>
      /\ DOMAIN messages' = {} /\ proxy'[mount'] = Idle /\ up' = up /\ down'[mount'] = <<>>
  BY <1>1, <1>2 DEF Mount
<1>4. Quiet'
  BY <1>1, <1>2, <1>3, Resting DEF Quiet, Spent
<1>5. View'
  BY <1>1, <1>3, <1>4 DEF View, InStep, Bubble
<1> QED
  BY <1>3, <1>5 DEF BubblesArePrefixes, SettledShown

LEMMA SendInStep ==
  ASSUME TypeInv, Joined, View, BubblesArePrefixes, ~late, SendMessage
  PROVE  View' /\ BubblesArePrefixes' /\ SettledShown'
<1> DEFINE q == asked + 1
           post == [of |-> q, thread_id |-> threadId]
<1>1. /\ q \in Questions /\ socket = "open" /\ ~isStreaming /\ assistantId = None /\ Quiet
      /\ mount \in Conns
  BY DEF SendMessage, MaySend, View, InStep, TypeInv, ViewOk
<1>2. /\ isStreaming' = TRUE /\ assistantId' = q /\ buffer' = <<>> /\ asked' = q
      /\ messages' = [k \in DOMAIN messages \cup {q} |-> IF k = q THEN <<>> ELSE messages[k]]
      /\ UNCHANGED <<mount, socket, threadId, proxy, live, down, stream, lines>>
  BY DEF SendMessage, agentVars, streamVars
<1>3. stream[q].phase = "none" /\ q > asked
  BY <1>1, Constants DEF Joined, TypeInv, ViewOk
<1>4. Spent(mount)' /\ down'[mount'] = <<>> /\ up[mount] = <<>>
  BY <1>1, <1>2 DEF Quiet, Spent
<1>5. UnderWay'
  <2>1. CASE mount \in live
    <3>1. up'[mount'] = <<post>>
      BY <1>1, <1>2, <1>4, <2>1 DEF SendMessage, TypeInv, ProxyOk
    <3>2. Posted'
      BY <1>2, <1>3, <1>4, <3>1 DEF Posted
    <3> QED
      BY <1>2, <2>1, <3>2 DEF UnderWay
  <2>2. CASE mount \notin live
    BY <1>2, <1>4, <2>2, NoPieces DEF UnderWay, Severed
  <2> QED
    BY <2>1, <2>2
<1>6. <<>> = Pieces(q, Len(<<>>))
  BY PiecesGrow
<1>7. Bubble'
  BY <1>2, <1>6 DEF Bubble
<1>8. q # None
  BY <1>1, Constants
<1>9. View'
  BY <1>1, <1>2, <1>5, <1>7, <1>8 DEF View, InStep
<1>10. BubblesArePrefixes'
  BY <1>2, <1>6 DEF BubblesArePrefixes
<1> QED
  BY <1>2, <1>9, <1>10 DEF SettledShown

(* What the browser handles next: the next piece, or the end of a relayed  *)
(* answer, which nothing follows.                                          *)
LEMMA NextMessage ==
  ASSUME TypeInv, View, OnMessage
  PROVE  /\ assistantId # None /\ UnderWay
         /\ \/ Head(down[mount]) = Token(asked, Len(buffer) + 1)
            \/ /\ Relayed /\ Tail(down[mount]) = <<>>
               /\ Ends(Head(down[mount]), asked, Len(buffer), written[asked], threadId)
<1>1. socket = "open" /\ down[mount] # <<>>
  BY DEF OnMessage
<1>2. assistantId # None /\ UnderWay
  BY <1>1 DEF View, InStep, Quiet
<1>3. down[mount] \in Seq(Events) /\ Len(buffer) \in Nat
  BY <1>1, OpenMount
<1>4. CASE OnlyPieces(down[mount], asked, Len(buffer))
  BY <1>1, <1>2, <1>3, <1>4, PiecesTail
<1>5. CASE Relayed
  BY <1>1, <1>2, <1>3, <1>5, FollowsTail DEF Relayed
<1> QED
  BY <1>1, <1>2, <1>4, <1>5 DEF UnderWay, Posted, Passed, Answered, Severed

(* A step of the page does not change what is recorded of the answers.     *)
LEMMA PageRecords ==
  ASSUME HistoryOk, Recorded, UNCHANGED agentVars
  PROVE  written' = written
BY DEF HistoryOk, Recorded, agentVars

LEMMA TokenInStep ==
  ASSUME TypeInv, HistoryOk, Recorded, View, BubblesArePrefixes, ~late, OnMessage,
         Head(down[mount]) = Token(asked, Len(buffer) + 1)
  PROVE  View' /\ BubblesArePrefixes' /\ SettledShown'
<1> DEFINE e == Token(asked, Len(buffer) + 1)
           n == Len(buffer) + Len(down[mount])
<1>1. socket = "open" /\ down[mount] # <<>> /\ assistantId # None /\ UnderWay
  BY NextMessage DEF OnMessage
<1>2. /\ mount \in Conns /\ down[mount] \in Seq(Events) /\ Len(buffer) \in Nat
      /\ asked \in Questions /\ asked \in DOMAIN messages /\ Len(down[mount]) \in Nat
  BY <1>1, OpenMount
<1>3. OnToken(e)
  <2>1. Head(down[mount]).type = "token"
    BY DEF Token
  <2>2. OnToken(Head(down[mount]))
    BY <2>1 DEF OnMessage
  <2> QED
    BY <2>2
<1>4. assistantId = asked /\ buffer = Pieces(asked, Len(buffer))
  BY <1>1 DEF View, Bubble
<1>5. /\ buffer' = Append(buffer, e) /\ messages' = [messages EXCEPT ![asked] = buffer']
      /\ UNCHANGED <<isStreaming, assistantId, threadId, mount, socket, asked, proxy, live, up>>
      /\ UNCHANGED agentVars
  BY <1>1, <1>3, <1>4 DEF OnToken, OnMessage, Filled
<1>6. down'[mount] = Tail(down[mount]) /\ Len(down'[mount]) = Len(down[mount]) - 1
  BY <1>1, <1>2, HeadTailProperties DEF OnMessage, TypeInv, ProxyOk
<1>7. buffer' = Pieces(asked, Len(buffer) + 1) /\ Len(buffer') = Len(buffer) + 1
  BY <1>2, <1>4, <1>5, PiecesGrow
<1>8. written' = written /\ stream' = stream /\ lines' = lines
  BY <1>5, PageRecords DEF agentVars, streamVars
<1>9. ~Posted /\ ~Passed
  BY <1>1 DEF Posted, Passed
<1>10. Answered => Answered'
  <2> SUFFICES ASSUME Answered PROVE Answered'
    OBVIOUS
  <2>1. OnlyPieces(down'[mount], asked, Len(buffer) + 1)
    BY <1>1, <1>2, <1>6, PiecesTail DEF Answered
  <2>2. n' = n
    <3> DEFINE a == Len(buffer)
               b == Len(down[mount])
    <3>1. a \in Nat /\ b \in Nat /\ a' = a + 1 /\ b' = b - 1
      BY <1>2, <1>5, <1>6, <1>7
    <3> HIDE DEF a, b
    <3>2. (a + b)' = a + b
      BY <3>1
    <3> QED
      BY <3>2 DEF a, b
  <2>3. Relayable(n)
    BY DEF Answered
  <2> HIDE DEF n
  <2>4. Relayable(n)'
    BY <1>5, <1>8, <2>2, <2>3, RelayableStays
  <2> QED
    BY <1>5, <1>7, <2>1, <2>4 DEF Answered, n
<1>11. Severed => Severed'
  BY <1>1, <1>2, <1>5, <1>6, <1>7, PiecesTail DEF Severed
<1>12. Relayed => Relayed'
  BY <1>1, <1>2, <1>5, <1>6, <1>7, <1>8, FollowsTail DEF Relayed, Spent, Ceased
<1>13. UnderWay'
  BY <1>1, <1>5, <1>9, <1>10, <1>11, <1>12 DEF UnderWay
<1>14. Bubble'
  BY <1>2, <1>4, <1>5, <1>7 DEF Bubble, TypeInv, ViewOk
<1>15. View'
  BY <1>1, <1>5, <1>13, <1>14 DEF View, InStep
<1>16. BubblesArePrefixes'
  BY <1>2, <1>5, <1>7 DEF BubblesArePrefixes, TypeInv, ViewOk
<1> QED
  BY <1>1, <1>5, <1>15, <1>16 DEF SettledShown, View

LEMMA EndInStep ==
  ASSUME TypeInv, HistoryOk, Recorded, View, BubblesArePrefixes, ~late, OnMessage,
         Relayed, Tail(down[mount]) = <<>>,
         Ends(Head(down[mount]), asked, Len(buffer), written[asked], threadId)
  PROVE  View' /\ BubblesArePrefixes' /\ SettledShown'
<1> DEFINE e == Head(down[mount])
<1>1. socket = "open" /\ assistantId # None
  BY NextMessage DEF OnMessage
<1>2. mount \in Conns /\ asked \in Questions /\ asked \in DOMAIN messages
  BY <1>1, OpenMount
<1>3. /\ assistantId = asked /\ messages[asked] = buffer /\ buffer = Pieces(asked, Len(buffer))
  BY <1>1 DEF View, Bubble
<1>4. /\ UNCHANGED <<mount, socket, asked, proxy, live, up>> /\ UNCHANGED agentVars
      /\ down'[mount] = <<>>
  BY <1>2 DEF OnMessage, TypeInv, ProxyOk
<1>5. written' = written /\ stream' = stream /\ lines' = lines
  BY <1>4, PageRecords DEF agentVars, streamVars
<1>6. \/ e = Error(asked) /\ OnError(e)
      \/ /\ \E t \in Questions : e = Done(asked, t)
         /\ OnDone(e) /\ written[asked] = Len(buffer) /\ Len(buffer) > 0
  <2>1. CASE e = Error(asked)
    <3>1. e.type = "error"
      BY <2>1 DEF Error
    <3>2. OnError(e)
      BY <3>1 DEF OnMessage
    <3> QED
      BY <2>1, <3>2
  <2>2. ASSUME NEW t \in Questions, e = Done(asked, t) PROVE OnDone(e)
    <3>1. e.type = "done"
      BY <2>2 DEF Done
    <3> QED
      BY <3>1 DEF OnMessage
  <2> HIDE DEF e
  <2> QED
    BY <2>1, <2>2 DEF Ends, e
<1>7. EndAnswer
  BY <1>6 DEF OnError, OnDone
<1>8. Quiet'
  BY <1>4, <1>5, <1>7 DEF EndAnswer, Quiet, Relayed, Spent, Ceased
<1>9. View'
  BY <1>1, <1>4, <1>7, <1>8 DEF View, InStep, Bubble, EndAnswer
<1>10. CASE OnError(e)
  <2>1. error' = TRUE /\ (messages' = messages \/ messages' = Without(assistantId))
    BY <1>10 DEF OnError
  <2>2. BubblesArePrefixes'
    BY <2>1 DEF BubblesArePrefixes, Without
  <2> QED
    BY <1>9, <2>1, <2>2 DEF SettledShown
<1>11. CASE OnDone(e) /\ written[asked] = Len(buffer) /\ Len(buffer) > 0
  <2>1. buffer # <<>>
    BY <1>11
  <2>2. messages' = [messages EXCEPT ![asked] = buffer]
    BY <1>1, <1>3, <1>11, <2>1 DEF OnDone, Filled
  <2>3. messages' = messages
    BY <1>2, <1>3, <2>2 DEF TypeInv, ViewOk
  <2>4. BubblesArePrefixes'
    BY <2>3 DEF BubblesArePrefixes
  <2>5. SettledShown'
    BY <1>3, <1>4, <1>5, <1>11, <2>3 DEF SettledShown
  <2> QED
    BY <1>9, <2>4, <2>5
<1> QED
  BY <1>6, <1>10, <1>11

LEMMA SocketInStep ==
  ASSUME TypeInv, View, BubblesArePrefixes, SettledShown, ~late, HistoryOk, Recorded,
         SendRefused \/ SyncRef \/ SocketOnError \/ SocketOnClose
  PROVE  View' /\ BubblesArePrefixes' /\ SettledShown'
<1>1. UNCHANGED agentVars /\ UNCHANGED proxyVars /\ mount' = mount /\ asked' = asked
  BY DEF SendRefused, SyncRef, SocketOnError, SocketOnClose
<1>2. written' = written /\ stream' = stream /\ lines' = lines
  BY <1>1, PageRecords DEF agentVars, streamVars
<1>3. CASE SyncRef
  <2>1. UNCHANGED <<mount, socket, isStreaming, assistantId, buffer, messages, threadId, error, asked>>
    BY <1>3 DEF SyncRef
  <2>2. /\ Spent(mount)' = Spent(mount) /\ (Answered => Answered') /\ (Severed => Severed')
    BY <1>1, <1>2, <2>1 DEF Spent, Answered, Relayable, Severed, proxyVars
  <2>3. Relayed => Relayed'
    BY <1>1, <1>2, <2>1 DEF Relayed, Spent, Ceased, proxyVars
  <2>4. (Quiet => Quiet') /\ (Posted => Posted') /\ (Passed => Passed')
    BY <1>1, <1>2, <2>1 DEF Quiet, Posted, Passed, Spent, Ceased, proxyVars
  <2>5. InStep'
    BY <1>1, <2>1, <2>2, <2>3, <2>4 DEF View, InStep, UnderWay, proxyVars
  <2>6. View'
    BY <2>1, <2>5 DEF View, Bubble
  <2> QED
    BY <1>2, <2>1, <2>6 DEF BubblesArePrefixes, SettledShown
<1>4. CASE SendRefused \/ SocketOnError
  <2>1. socket' # "open" /\ UNCHANGED <<assistantId, buffer, messages>>
    BY <1>4 DEF SendRefused, SocketOnError
  <2>2. ~isStreaming' /\ (mount' = 0 => socket' = "closed")
    BY <1>4 DEF SendRefused, SocketOnError, Noticed, View, TypeInv, ViewOk
  <2> QED
    BY <1>1, <2>1, <2>2 DEF View, InStep, Bubble, BubblesArePrefixes, SettledShown
<1>5. CASE SocketOnClose
  <2>1. /\ socket' = "closed" /\ isStreaming' = FALSE /\ assistantId' = None
        /\ messages' = messages \/ messages' = Without(assistantId)
    BY <1>5 DEF SocketOnClose
  <2>2. BubblesArePrefixes'
    BY <2>1 DEF BubblesArePrefixes, Without
  <2>3. View'
    BY <2>1 DEF View, InStep, Bubble
  <2> QED
    BY <2>1, <2>2, <2>3 DEF SettledShown
<1> QED
  BY <1>3, <1>4, <1>5

-----------------------------------------------------------------------------
LEMMA HistoryTypes ==
  ASSUME TypeInv, HistoryOk, HistoryNext
  PROVE  HistoryOk' /\ Recorded
<1>1. \A q \in Questions : stream[q].sent \in 0 .. MaxSize
  BY Fields DEF TypeInv
<1> QED
  BY <1>1 DEF HistoryOk, HistoryNext, Recorded

LEMMA PageStep ==
  ASSUME TypeInv, HistoryOk, Joined, View, BubblesArePrefixes, SettledShown, ~late, ~late',
         HistoryNext
  PROVE  View' /\ BubblesArePrefixes' /\ SettledShown'
<1>1. Recorded /\ ChatNext /\ \A c \in Conns : ~BreaksLate(c)
  BY HistoryTypes DEF HistoryNext
<1>2. CASE AgentNext
  <2>1. InStep' /\ UNCHANGED viewVars
    BY <1>1, <1>2, AgentInStep DEF AgentNext
  <2> QED
    BY <1>1, <2>1, PageStays
<1>3. CASE ProxyNext
  <2>1. PICK c \in Conns : React(c) \/ Drop(c)
    BY <1>3 DEF ProxyNext, ProxyStep
  <2>2. UNCHANGED viewVars
    BY <1>3 DEF ProxyNext
  <2>3. InStep'
    BY <1>1, <2>1, <2>2, ReactInStep, DropInStep
  <2> QED
    BY <1>1, <2>2, <2>3, PageStays
<1>4. CASE OnMessage
  <2>1. CASE Head(down[mount]) = Token(asked, Len(buffer) + 1)
    BY <1>1, <1>4, <2>1, TokenInStep
  <2>2. CASE ~(Head(down[mount]) = Token(asked, Len(buffer) + 1))
    BY <1>1, <1>4, <2>2, NextMessage, EndInStep
  <2> QED
    BY <2>1, <2>2
<1> QED
  BY <1>1, <1>2, <1>3, <1>4, MountInStep, SendInStep, SocketInStep DEF ChatNext, ViewStep

LEMMA ChatInvHolds == HistorySpec => []ChatInv
<1>1. HistoryInit => ChatInv
  <2> SUFFICES ASSUME HistoryInit PROVE ChatInv
    OBVIOUS
  <2>1. TypeInv
    BY ChatInitTypes DEF HistoryInit
  <2>2. HistoryOk
    <3>1. 0 \in 0 .. MaxSize
      BY Constants
    <3> QED
      BY <3>1 DEF HistoryInit, HistoryOk
  <2>3. Joined
    BY Constants DEF HistoryInit, ChatInit, Init, ProxyInit, ViewInit, Joined, Carried, NoStream, Closed, Idle
  <2>4. View /\ BubblesArePrefixes /\ SettledShown
    BY DEF HistoryInit, ChatInit, ViewInit, View, Bubble, InStep, BubblesArePrefixes, SettledShown
  <2> QED
    BY <2>1, <2>2, <2>3, <2>4 DEF ChatInv
<1>2. ChatInv /\ [HistoryNext]_<<chatVars, history>> => ChatInv'
  <2> SUFFICES ASSUME ChatInv, [HistoryNext]_<<chatVars, history>>
               PROVE  ChatInv'
    OBVIOUS
  <2>1. TypeInv /\ HistoryOk /\ Joined
    BY DEF ChatInv
  <2>2. CASE HistoryNext
    <3>1. TypeInv' /\ Joined' /\ HistoryOk'
      BY <2>1, <2>2, ChatStepTypes, JoinedStep, HistoryTypes DEF HistoryNext
    <3>2. CASE late'
      BY <3>1, <3>2 DEF ChatInv
    <3>3. CASE ~late'
      <4>1. ~late
        BY <2>2, <3>3 DEF HistoryNext
      <4> QED
        BY <2>1, <2>2, <3>1, <3>3, <4>1, PageStep DEF ChatInv
    <3> QED
      BY <3>2, <3>3
  <2>3. CASE UNCHANGED <<chatVars, history>>
    <3>1. UNCHANGED chatVars /\ UNCHANGED agentVars /\ UNCHANGED viewVars /\ UNCHANGED proxyVars
          /\ late' = late /\ written' = written
      BY <2>3 DEF chatVars, history
    <3>2. TypeInv' /\ Joined'
      BY <2>1, <3>1, ChatStepTypes, JoinedStep
    <3>3. HistoryOk' /\ Recorded
      BY <2>1, <3>1 DEF HistoryOk, Recorded, agentVars
    <3>4. ASSUME ~late PROVE View' /\ BubblesArePrefixes' /\ SettledShown'
      <4>1. View /\ BubblesArePrefixes /\ SettledShown
        BY <3>4 DEF ChatInv
      <4>2. socket = "open" => InStep'
        <5>1. socket = "open" => mount \in Conns
          BY <2>1, <4>1, OpenMount
        <5> QED
          BY <2>1, <3>1, <3>3, <4>1, <5>1, AloofStep DEF proxyVars
      <4>3. socket # "open" => InStep'
        BY <3>1 DEF InStep, viewVars
      <4> QED
        BY <2>1, <3>1, <3>3, <3>4, <4>1, <4>2, <4>3, PageStays
    <3> QED
      BY <3>1, <3>2, <3>3, <3>4 DEF ChatInv
  <2> QED
    BY <2>2, <2>3
<1> QED
  BY <1>1, <1>2, PTL DEF HistorySpec

(* No cross-talk, whatever breaks, is lost or is still being produced on a *)
(* connection since closed: a bubble holds the first pieces of the answer  *)
(* to its own question.                                                    *)
THEOREM BubblesPrefix == HistorySpec => []BubblesArePrefixes
<1>1. ChatInv => BubblesArePrefixes
  BY DEF ChatInv, BubblesArePrefixes
<1> QED
  BY <1>1, ChatInvHolds, PTL

(* A page ready for the next question, on a connection it believes open    *)
(* and with no error, shows all pieces of the last answer.                 *)
THEOREM SettledIsShown == HistorySpec => []SettledShown
<1>1. ChatInv => SettledShown
  BY DEF ChatInv, SettledShown
<1> QED
  BY <1>1, ChatInvHolds, PTL

(* The done event of every answer names the thread the tab has been on     *)
(* since its first answer.                                                 *)
THEOREM ThreadStays == HistorySpec => ThreadSticks
<1>1. ChatInv /\ [HistoryNext]_<<chatVars, history>>
        => [threadId # None => late \/ threadId' = threadId]_<<chatVars, history>>
  <2> SUFFICES ASSUME ChatInv, HistoryNext, threadId # None, ~late
               PROVE  threadId' = threadId
    OBVIOUS
  <2>1. TypeInv /\ View /\ ChatNext
    BY DEF ChatInv, HistoryNext
  <2>2. CASE OnMessage
    <3> DEFINE e == Head(down[mount])
    <3>1. e = Token(asked, Len(buffer) + 1) \/ Ends(e, asked, Len(buffer), written[asked], threadId)
      BY <2>1, <2>2, NextMessage
    <3>2. CASE e.type # "done"
      <4>1. e.type = "token" \/ e.type = "error"
        <5> HIDE DEF e
        <5> QED
          BY <3>1, <3>2 DEF Ends, Token, Error, Done
      <4>2. OnToken(e) \/ OnError(e)
        BY <2>2, <4>1 DEF OnMessage
      <4> QED
        BY <4>2 DEF OnToken, OnError
    <3>3. CASE e.type = "done"
      <4>1. OnDone(e)
        BY <2>2, <3>3 DEF OnMessage
      <4>2. PICK t \in Questions : e = Done(asked, t) /\ threadId \in {None, t}
        BY <3>1, <3>3 DEF Ends, Token, Error
      <4>3. e.thread = t
        BY <4>2 DEF Done
      <4> QED
        BY <4>1, <4>2, <4>3 DEF OnDone
    <3> QED
      BY <3>2, <3>3
  <2>3. CASE ~OnMessage
    BY <2>1, <2>3 DEF ChatNext, AgentNext, ProxyNext, ViewStep, viewVars, Mount, SendMessage,
         SendRefused, SyncRef, SocketOnError, SocketOnClose
  <2> QED
    BY <2>2, <2>3
<1> QED
  BY <1>1, ChatInvHolds, PTL DEF HistorySpec, ThreadSticks
=============================================================================
