--------------------------------- MODULE MCChat ---------------------------------
(***************************************************************************)
(* A small instance of Chat, with a history variable: whether some body    *)
(* has broken behind a terminal event already relayed.                     *)
(***************************************************************************)
EXTENDS Chat

VARIABLES late,    \* some body has broken behind a relayed terminal event
          written  \* question -> pieces of an answer written to its end

history == <<late, written>>

HistoryInit == ChatInit /\ late = FALSE /\ written = [q \in Questions |-> 0]

BreaksLate(c) ==
  /\ proxy[c].at = "reading" /\ proxy[c].saw_terminal /\ link[proxy[c].q] = "broken"
  /\ proxy'[c].at = "idle"

HistoryNext ==
  /\ ChatNext
  /\ late' = (late \/ \E c \in Conns : BreaksLate(c))
  /\ written' = [q \in Questions |-> IF stream[q].phase = "writing" /\ stream'[q].phase = "closing"
                                     THEN stream[q].sent ELSE written[q]]

HistorySpec == HistoryInit /\ [][HistoryNext]_<<chatVars, history>> /\ Fairness

-----------------------------------------------------------------------------
Pieces(q, n) == [i \in 1 .. n |-> Token(q, i)]

(* No cross-talk: a bubble holds pieces of the answer to its own question, *)
(* in order and without a gap, whichever earlier answers were cut short,   *)
(* or still being produced on a connection since closed.                   *)
BubblesArePrefixes ==
  late \/ \A q \in DOMAIN messages : messages[q] = Pieces(q, Len(messages[q]))

(* When the tab is ready for the next question on a connection it believes *)
(* open and shows no error, the last answer on the page is complete.       *)
SettledShown ==
  late \/ isStreaming \/ socket # "open" \/ error
       \/ (asked \in DOMAIN messages =>
              written[asked] > 0 /\ messages[asked] = Pieces(asked, written[asked]))

(* "done ... persist thread_id for follow-up messages": the conversation   *)
(* stays on the thread the tab knows, across errors and mounts.            *)
ThreadSticks ==
  [][threadId # None => late \/ threadId' = threadId]_<<chatVars, history>>

(* "Display streamed assistant tokens": a token that the browser hands to  *)
(* the page is added to the bubble of its question.                        *)
TokensDisplayed ==
  [][\A c \in live :
       LET event == Head(down[c])
       IN  (/\ c = mount /\ live' = live /\ down[c] # <<>> /\ down'[c] = Tail(down[c])
            /\ event.type = "token")
           => /\ event.of \in DOMAIN messages'
              /\ messages'[event.of] # <<>>
              /\ messages'[event.of][Len(messages'[event.of])] = event]_chatVars
=============================================================================
