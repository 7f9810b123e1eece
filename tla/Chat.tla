---------------------------------- MODULE Chat ----------------------------------
(***************************************************************************)
(* The chat as a whole: the tab, the proxy's coroutines and the agent's    *)
(* runs, joined by the WebSocket and by the response streams.              *)
(***************************************************************************)
EXTENDS ChatView

chatVars == <<agentVars, proxyVars, viewVars>>

ChatInit == Init /\ ProxyInit /\ ViewInit

AgentNext ==
  /\ \E q \in Questions : Progress(q) \/ Break(q)
  /\ UNCHANGED proxyVars /\ UNCHANGED viewVars

ProxyNext ==
  /\ \E c \in Conns : ProxyStep(c)
  /\ UNCHANGED viewVars

ChatNext == AgentNext \/ ProxyNext \/ ViewStep

ChatSpec == ChatInit /\ [][ChatNext]_chatVars

(* The system does not stop while a process can go on: coroutines run,     *)
(* graph runs end (recursion_limit bounds their rounds; a model call that  *)
(* never returns is not covered, no process has a timeout for it), and the *)
(* browser handles what arrives and notices a connection that is gone.     *)
(* Each takes finitely many steps for a question, so that one condition    *)
(* for all of them is enough.                                              *)
Work ==
  \/ \E q \in Questions : Progress(q) /\ UNCHANGED <<proxyVars, viewVars>>
  \/ \E c \in Conns : React(c) /\ UNCHANGED viewVars
  \/ OnMessage \/ SocketOnClose

Fairness == WF_chatVars(Work)

FairChatSpec == ChatSpec /\ Fairness

-----------------------------------------------------------------------------
(* Types of every variable of the three processes and the streams between. *)
TypeOK ==
  /\ StreamType
  /\ lines \in [Questions -> Seq(Events)]
  /\ link \in [Questions -> {"none", "open", "eof", "cut", "broken", "left"}]
  /\ proxy \in [Conns -> [at : {"idle", "calling", "reading", "closed"}, q : Questions \cup {None},
                          thread_id : Questions \cup {None}, saw_terminal : BOOLEAN]]
  /\ live \subseteq Conns
  /\ up \in [Conns -> Seq([of : Questions, thread_id : Questions \cup {None}])]
  /\ down \in [Conns -> Seq(Events)]
  /\ mount \in Conns \cup {0} /\ socket \in {"open", "failed", "closed"}
  /\ isStreaming \in BOOLEAN /\ isStreamingRef \in BOOLEAN /\ error \in BOOLEAN
  /\ assistantId \in Questions \cup {None} /\ threadId \in Questions \cup {None}
  /\ buffer \in Seq(Events)
  /\ DOMAIN messages \subseteq Questions /\ messages \in [DOMAIN messages -> Seq(Events)]
  /\ asked \in Questions \cup {0}

(* Each question gets its answer or its error: the tab does not stay in    *)
(* "En cours..." for ever, whichever stream breaks, ends early or is       *)
(* closed, and whatever is lost with a connection.                         *)
AnswersEnd == isStreaming ~> ~isStreaming
=============================================================================
