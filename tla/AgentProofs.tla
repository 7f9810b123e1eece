------------------------------ MODULE AgentProofs -----------------------------
(***************************************************************************)
(* For any number of questions, texts and pieces: the types of AgentRunner *)
(* are correct, and it implements AgentStream: every step of a run is a    *)
(* step of its stream, or none.                                            *)
(***************************************************************************)
EXTENDS MCAgentRunner, TLAPS

Runs == [phase : {"none", "graph", "picking", "writing", "closing", "over"},
         thread : Questions \cup {None}, texts : Seq(Texts), tools : BOOLEAN,
         nudged : BOOLEAN, response : Texts \cup {REPONSE_VIDE_SECOURS}, sent : 0 .. MaxSize]

(* What a run's phase says of its body, its thread and its pieces.         *)
Consistent(q) ==
  /\ run[q].phase = "none" <=> link[q] = "none"
  /\ run[q].phase # "none" => run[q].thread \in Questions
  /\ run[q].phase # "writing" => run[q].sent = 0
  /\ run[q].sent <= run[q].response.size

RunnerInv == TypeOK /\ \A q \in Questions : Consistent(q)

-----------------------------------------------------------------------------
(* Every response has at least one piece and at most MaxSize.              *)
LEMMA ResponseSize ==
  ASSUME NEW r \in Texts \cup {REPONSE_VIDE_SECOURS}
  PROVE  r.size \in 1 .. MaxSize
BY ChatStreamAssumption, AgentRunnerAssumption DEF Texts, Text, REPONSE_VIDE_SECOURS

(* The final text is one of the thread's.                                  *)
LEMMA FinalType ==
  ASSUME NEW texts \in Seq(Texts)
  PROVE  Final(texts) \subseteq Texts
BY DEF Final, Longest

LEMMA NoRunType == NoRun \in Runs
BY ChatStreamAssumption DEF NoRun, Runs

(* Whatever a run yields, the lines stay events.                           *)
LEMMA YieldType ==
  ASSUME lines \in [Questions -> Seq(Events)], NEW q \in Questions, NEW event \in Events,
         Yield(q, event)
  PROVE  lines' \in [Questions -> Seq(Events)]
BY DEF Yield

LEMMA InitInv == Init => RunnerInv
BY NoRunType, ResponseSize, ChatStreamAssumption
   DEF Init, StreamInit, RunnerInv, TypeOK, Consistent, Runs, NoRun, REPONSE_VIDE_SECOURS

(* A step that replaces one run by another and touches no other body keeps *)
(* the invariant if the new run is consistent.                             *)
LEMMA OneRunChanges ==
  ASSUME RunnerInv, NEW q \in Questions, NEW r \in Runs,
         run' = [run EXCEPT ![q] = r],
         checkpoint' \in [Questions -> Seq(Texts)],
         lines' \in [Questions -> Seq(Events)],
         link' \in [Questions -> {"none", "open", "eof", "cut", "broken", "left"}],
         \A p \in Questions \ {q} : link'[p] = link[p],
         r.phase = "none" <=> link'[q] = "none",
         r.phase # "none" => r.thread \in Questions,
         r.phase # "writing" => r.sent = 0,
         r.sent <= r.response.size
  PROVE  RunnerInv'
<1>1. run' \in [Questions -> Runs]
  BY DEF RunnerInv, TypeOK, Runs
<1>2. TypeOK'
  BY <1>1 DEF TypeOK, Runs
<1>3. \A p \in Questions : Consistent(p)'
  <2> SUFFICES ASSUME NEW p \in Questions PROVE Consistent(p)'
    OBVIOUS
  <2>1. CASE p = q
    <3>1. run'[p] = r
      BY <2>1 DEF RunnerInv, TypeOK
    <3> QED BY <2>1, <3>1 DEF Consistent
  <2>2. CASE p # q
    <3>1. run'[p] = run[p] /\ link'[p] = link[p]
      BY <2>2 DEF RunnerInv, TypeOK
    <3> QED BY <3>1 DEF RunnerInv, Consistent
  <2> QED BY <2>1, <2>2
<1> QED BY <1>2, <1>3 DEF RunnerInv

(* What RunnerInv says of one run and its body.                            *)
LEMMA RunFacts ==
  ASSUME RunnerInv, NEW q \in Questions
  PROVE  /\ run[q] \in Runs /\ Consistent(q)
         /\ run[q].response.size \in 1 .. MaxSize /\ run[q].sent \in 0 .. MaxSize
         /\ link[q] \in {"none", "open", "eof", "cut", "broken", "left"}
<1>1. run[q] \in Runs
  BY DEF RunnerInv, TypeOK, Runs
<1>2. run[q].response \in Texts \cup {REPONSE_VIDE_SECOURS}
  BY <1>1 DEF Runs
<1> QED BY <1>1, <1>2, ResponseSize DEF RunnerInv, TypeOK, Runs

LEMMA StartKeepsInv ==
  ASSUME RunnerInv, NEW q \in Questions, NEW t \in KnownThreads, NEW client \in {"open", "left"},
         Start(q, t, client)
  PROVE  RunnerInv'
<1> DEFINE th == ThreadOf(q, t)
           r  == [run[q] EXCEPT !.phase = "graph", !.thread = th, !.texts = checkpoint[th]]
<1>1. th \in Questions
  BY DEF KnownThreads, ThreadOf, RunnerInv, TypeOK
<1>2. run' = [run EXCEPT ![q] = r]
  BY RunFacts DEF Start, Load, Runs, RunnerInv, TypeOK
<1>3. /\ r \in Runs /\ r.phase = "graph" /\ r.thread = th
      /\ r.sent = run[q].sent /\ r.response = run[q].response
  <2> HIDE DEF th
  <2> QED BY <1>1, RunFacts DEF RunnerInv, TypeOK, Runs
<1>4. run[q].sent = 0 /\ run[q].response.size \in Nat
  BY RunFacts DEF Start, Consistent
<1>5. /\ link' = [link EXCEPT ![q] = client]
      /\ lines' = lines /\ checkpoint' = checkpoint
  BY DEF Start, OpenBody
<1>6. /\ link' \in [Questions -> {"none", "open", "eof", "cut", "broken", "left"}]
      /\ link'[q] # "none" /\ \A p \in Questions \ {q} : link'[p] = link[p]
      /\ checkpoint' \in [Questions -> Seq(Texts)] /\ lines' \in [Questions -> Seq(Events)]
  BY <1>5 DEF RunnerInv, TypeOK
<1>7. /\ r.phase = "none" <=> link'[q] = "none"
      /\ r.thread \in Questions /\ r.sent = 0 /\ r.sent <= r.response.size
  <2> HIDE DEF r
  <2> QED BY <1>1, <1>3, <1>4, <1>6
<1> HIDE DEF r, th
<1> QED BY <1>2, <1>3, <1>6, <1>7, OneRunChanges

(* A run of a started request goes on without touching its body.           *)
LEMMA QuietStep ==
  ASSUME RunnerInv, NEW q \in Questions, NEW r \in Runs,
         run' = [run EXCEPT ![q] = r],
         checkpoint' \in [Questions -> Seq(Texts)],
         lines' = lines, link' = link,
         run[q].phase # "none", r.phase # "none", r.thread = run[q].thread,
         r.phase # "writing" => r.sent = 0,
         r.sent <= r.response.size
  PROVE  RunnerInv'
<1>1. /\ lines' \in [Questions -> Seq(Events)]
      /\ link' \in [Questions -> {"none", "open", "eof", "cut", "broken", "left"}]
  BY DEF RunnerInv, TypeOK
<1>2. link'[q] # "none" /\ r.thread \in Questions
  BY RunFacts DEF Consistent
<1> QED BY <1>1, <1>2, OneRunChanges

(* A run of a started request yields an event.                             *)
LEMMA SpeakingStep ==
  ASSUME RunnerInv, NEW q \in Questions, NEW r \in Runs, NEW event \in Events,
         run' = [run EXCEPT ![q] = r], Yield(q, event), UNCHANGED checkpoint,
         r.phase # "none", r.thread = run[q].thread,
         r.phase # "writing" => r.sent = 0,
         r.sent <= r.response.size
  PROVE  RunnerInv'
<1>1. lines' \in [Questions -> Seq(Events)]
  BY YieldType DEF RunnerInv, TypeOK
<1>2. link[q] = "open" /\ link' = link /\ checkpoint' = checkpoint
  BY DEF Yield
<1>3. /\ checkpoint' \in [Questions -> Seq(Texts)]
      /\ link' \in [Questions -> {"none", "open", "eof", "cut", "broken", "left"}]
  BY <1>2 DEF RunnerInv, TypeOK
<1>4. link'[q] # "none" /\ r.thread \in Questions
  BY <1>2, RunFacts DEF Consistent
<1> QED BY <1>1, <1>2, <1>3, <1>4, OneRunChanges

LEMMA SaveType ==
  ASSUME RunnerInv, NEW q \in Questions, NEW texts \in Seq(Texts), Save(q, texts)
  PROVE  checkpoint' \in [Questions -> Seq(Texts)]
BY DEF Save, RunnerInv, TypeOK

(* The run goes on in one of the phases, without touching its body.        *)
GoesOn(q, phases) ==
  /\ lines' = lines /\ link' = link
  /\ \E r \in Runs : /\ run' = [run EXCEPT ![q] = r] /\ r.phase \in phases
                     /\ r.thread = run[q].thread /\ r.sent = run[q].sent

LEMMA ToolRoundKeepsInv ==
  ASSUME RunnerInv, NEW q \in Questions, ToolRound(q)
  PROVE  RunnerInv' /\ GoesOn(q, {"graph"})
<1> DEFINE r == [run[q] EXCEPT !.tools = TRUE]
<1>1. run[q].phase = "graph" /\ run' = [run EXCEPT ![q] = r] /\ lines' = lines /\ link' = link
  BY DEF ToolRound, streamVars
<1>2. /\ r \in Runs /\ r.phase = "graph" /\ r.thread = run[q].thread
      /\ r.sent = run[q].sent /\ r.response = run[q].response
      /\ run[q].texts \in Seq(Texts)
  BY <1>1, RunFacts DEF Runs
<1>3. run[q].sent = 0 /\ run[q].response.size \in Nat
  BY <1>1, RunFacts DEF Consistent
<1>4. checkpoint' \in [Questions -> Seq(Texts)]
  BY <1>2, SaveType DEF ToolRound
<1> HIDE DEF r
<1>5. r.sent = 0 /\ r.sent <= r.response.size
  BY <1>1, <1>2, <1>3, <1>4
<1> QED BY <1>1, <1>2, <1>3, <1>4, <1>5, QuietStep DEF GoesOn

LEMMA GraphEndsKeepsInv ==
  ASSUME RunnerInv, NEW q \in Questions, GraphEnds(q)
  PROVE  RunnerInv' /\ GoesOn(q, {"picking"})
<1>1. PICK new \in {<<>>} \cup {<<Text(q, output)>> : output \in Outputs} :
        /\ run' = [run EXCEPT ![q] = [@ EXCEPT !.phase = "picking", !.texts = run[q].texts \o new]]
        /\ Save(q, run[q].texts \o new)
  BY DEF GraphEnds, streamVars
<1> DEFINE texts == run[q].texts \o new
           r     == [run[q] EXCEPT !.phase = "picking", !.texts = texts]
<1>2. run[q].phase = "graph" /\ lines' = lines /\ link' = link
  BY DEF GraphEnds, streamVars
<1>3. run[q] \in Runs /\ run[q].sent = 0 /\ run[q].response.size \in Nat
  BY <1>2, RunFacts DEF Consistent
<1>4. new \in Seq(Texts)
  <2>1. CASE new = <<>>
    BY <2>1
  <2>2. ASSUME NEW output \in Outputs, new = <<Text(q, output)>> PROVE new \in Seq(Texts)
    <3>1. Text(q, output) \in Texts
      BY DEF Texts
    <3> QED BY <2>2, <3>1
  <2> QED BY <2>1, <2>2
<1>5. texts \in Seq(Texts)
  BY <1>3, <1>4 DEF Runs
<1>6. run' = [run EXCEPT ![q] = r] /\ Save(q, texts)
  BY <1>1
<1> HIDE DEF texts
<1>7. /\ r \in Runs /\ r.phase = "picking" /\ r.thread = run[q].thread
      /\ r.sent = run[q].sent /\ r.response = run[q].response
  BY <1>3, <1>5 DEF Runs
<1>8. checkpoint' \in [Questions -> Seq(Texts)]
  BY <1>5, <1>6, SaveType
<1> HIDE DEF r
<1>9. r.sent = 0 /\ r.sent <= r.response.size
  BY <1>2, <1>3, <1>6, <1>7, <1>8
<1> QED BY <1>2, <1>3, <1>6, <1>7, <1>8, <1>9, QuietStep DEF GoesOn

LEMMA NudgeKeepsInv ==
  ASSUME RunnerInv, NEW q \in Questions, Nudge(q)
  PROVE  RunnerInv' /\ GoesOn(q, {"graph"})
<1> DEFINE texts == checkpoint[run[q].thread]
           r     == [run[q] EXCEPT !.phase = "graph", !.nudged = TRUE, !.texts = texts]
<1>1. /\ run[q].phase = "picking" /\ run' = [run EXCEPT ![q] = r]
      /\ lines' = lines /\ link' = link /\ checkpoint' = checkpoint
  BY DEF Nudge, Load, streamVars
<1>2. /\ run[q] \in Runs /\ run[q].sent = 0 /\ run[q].response.size \in Nat
      /\ run[q].thread \in Questions
  BY <1>1, RunFacts DEF Consistent
<1>3. texts \in Seq(Texts) /\ checkpoint' \in [Questions -> Seq(Texts)]
  BY <1>1, <1>2 DEF RunnerInv, TypeOK
<1> HIDE DEF texts
<1>4. /\ r \in Runs /\ r.phase = "graph" /\ r.thread = run[q].thread
      /\ r.sent = run[q].sent /\ r.response = run[q].response
  BY <1>2, <1>3 DEF Runs
<1> HIDE DEF r
<1>5. r.sent = 0 /\ r.sent <= r.response.size
  BY <1>1, <1>2, <1>3, <1>4
<1> QED BY <1>1, <1>2, <1>3, <1>4, <1>5, QuietStep DEF GoesOn

(* A response is chosen: the final text, or the fallback of a new run.     *)
LEMMA RespondKeepsInv ==
  ASSUME RunnerInv, NEW q \in Questions, Respond(q)
  PROVE  RunnerInv' /\ GoesOn(q, {"writing"})
<1> DEFINE final == Final(checkpoint[run[q].thread])
<1>1. PICK response \in IF final = {} THEN {REPONSE_VIDE_SECOURS} ELSE final :
        run' = [run EXCEPT ![q] = [@ EXCEPT !.phase = "writing", !.response = response]]
  BY DEF Respond, Load
<1> DEFINE r == [run[q] EXCEPT !.phase = "writing", !.response = response]
<1>2. run[q].phase = "picking" /\ lines' = lines /\ link' = link /\ checkpoint' = checkpoint
  BY DEF Respond, streamVars
<1>3. run[q] \in Runs /\ run[q].sent = 0 /\ run[q].thread \in Questions
  BY <1>2, RunFacts DEF Consistent
<1>4. /\ checkpoint[run[q].thread] \in Seq(Texts)
      /\ checkpoint' \in [Questions -> Seq(Texts)]
  BY <1>2, <1>3 DEF RunnerInv, TypeOK
<1>5. final \subseteq Texts
  BY <1>4, FinalType
<1> HIDE DEF final
<1>6. response \in Texts \cup {REPONSE_VIDE_SECOURS}
  BY <1>1, <1>5
<1>7. response.size \in Nat
  BY <1>6, ResponseSize, ChatStreamAssumption
<1>8. /\ r \in Runs /\ r.phase = "writing" /\ r.thread = run[q].thread
      /\ r.sent = run[q].sent /\ r.response = response
  BY <1>3, <1>6 DEF Runs
<1>9. run' = [run EXCEPT ![q] = r]
  BY <1>1
<1> HIDE DEF r
<1>10. r.sent = 0 /\ r.sent <= r.response.size
  BY <1>2, <1>3, <1>4, <1>7, <1>8, <1>9
<1> QED BY <1>2, <1>3, <1>4, <1>7, <1>8, <1>9, <1>10, QuietStep DEF GoesOn

LEMMA FallBackKeepsInv ==
  ASSUME RunnerInv, NEW q \in Questions, FallBack(q) \/ NudgeFails(q)
  PROVE  RunnerInv' /\ GoesOn(q, {"writing"})
<1> DEFINE r == [run[q] EXCEPT !.phase = "writing"]
<1>1. /\ run[q].phase \in {"picking", "graph"} /\ run' = [run EXCEPT ![q] = r]
      /\ lines' = lines /\ link' = link /\ checkpoint' = checkpoint
  BY DEF FallBack, NudgeFails, streamVars
<1>2. run[q] \in Runs /\ run[q].sent = 0 /\ run[q].response.size \in Nat
  BY <1>1, RunFacts DEF Consistent
<1>3. checkpoint' \in [Questions -> Seq(Texts)]
  BY <1>1 DEF RunnerInv, TypeOK
<1>4. /\ r \in Runs /\ r.phase = "writing" /\ r.thread = run[q].thread
      /\ r.sent = run[q].sent /\ r.response = run[q].response
  BY <1>2 DEF Runs
<1> HIDE DEF r
<1>5. r.sent = 0 /\ r.sent <= r.response.size
  BY <1>1, <1>2, <1>3, <1>4
<1> QED BY <1>1, <1>2, <1>3, <1>4, <1>5, QuietStep DEF GoesOn

(* What a generator that is over keeps: its phase and its thread.          *)
LEMMA EndedRun ==
  ASSUME RunnerInv, NEW q \in Questions, NEW phase \in {"closing", "over"}, Ended(q, phase)
  PROVE  \E r \in Runs : /\ run' = [run EXCEPT ![q] = r]
                         /\ r.phase = phase /\ r.thread = run[q].thread
                         /\ r.sent = 0 /\ r.response = REPONSE_VIDE_SECOURS
                         /\ r.sent <= r.response.size
<1> DEFINE r == [NoRun EXCEPT !.phase = phase, !.thread = run[q].thread]
<1>1. run' = [run EXCEPT ![q] = r]
  BY DEF Ended
<1>2. run[q].thread \in Questions \cup {None}
  BY RunFacts DEF Runs
<1>3. /\ r.phase = phase /\ r.thread = run[q].thread
      /\ r.sent = 0 /\ r.response = REPONSE_VIDE_SECOURS
  BY DEF NoRun
<1>4. r \in Runs
  BY <1>2, NoRunType DEF Runs
<1>5. r.sent <= r.response.size
  BY <1>3, ResponseSize, ChatStreamAssumption DEF REPONSE_VIDE_SECOURS
<1> HIDE DEF r
<1> QED BY <1>1, <1>3, <1>4, <1>5

LEMMA WriteKeepsInv ==
  ASSUME RunnerInv, NEW q \in Questions, Write(q)
  PROVE  RunnerInv'
<1> DEFINE r == [run[q] EXCEPT !.sent = run[q].sent + 1]
<1>1. /\ run[q].phase = "writing" /\ run[q].sent < run[q].response.size
      /\ run' = [run EXCEPT ![q] = r] /\ checkpoint' = checkpoint
      /\ Yield(q, Token(q, run[q].sent + 1))
  BY DEF Write
<1>2. /\ run[q] \in Runs
      /\ run[q].sent \in 0 .. MaxSize /\ run[q].response.size \in 1 .. MaxSize
  BY RunFacts
<1>3. run[q].sent + 1 \in 1 .. MaxSize /\ run[q].sent + 1 <= run[q].response.size
  BY <1>1, <1>2, ChatStreamAssumption
<1>4. /\ r \in Runs /\ r.phase = "writing" /\ r.thread = run[q].thread
      /\ r.sent = run[q].sent + 1 /\ r.response = run[q].response
  BY <1>1, <1>2, <1>3 DEF Runs
<1>5. Token(q, run[q].sent + 1) \in Events
  BY <1>3 DEF Events, Token
<1> HIDE DEF r
<1>6. r.sent <= r.response.size
  BY <1>3, <1>4
<1> QED BY <1>1, <1>4, <1>5, <1>6, SpeakingStep

LEMMA FinishKeepsInv ==
  ASSUME RunnerInv, NEW q \in Questions, Finish(q) \/ GraphFails(q)
  PROVE  RunnerInv'
<1>1. Ended(q, "closing") /\ checkpoint' = checkpoint
  BY DEF Finish, GraphFails
<1>2. PICK r \in Runs : /\ run' = [run EXCEPT ![q] = r]
                        /\ r.phase = "closing" /\ r.thread = run[q].thread
                        /\ r.sent = 0 /\ r.sent <= r.response.size
  BY <1>1, EndedRun
<1>3. run[q].thread \in Questions
  BY RunFacts DEF Consistent, Finish, GraphFails
<1>4. PICK event \in Events : Yield(q, event)
  <2>1. Done(q, run[q].thread) \in Events /\ Error(q) \in Events
    BY <1>3 DEF Events, Done, Error
  <2> QED BY <2>1 DEF Finish, GraphFails
<1> QED BY <1>1, <1>2, <1>4, SpeakingStep

(* The generator is over, whether the body ended or was abandoned.         *)
LEMMA EndKeepsInv ==
  ASSUME RunnerInv, NEW q \in Questions, End(q) \/ Cancel(q)
  PROVE  RunnerInv'
<1>1. Ended(q, "over") /\ checkpoint' = checkpoint /\ lines' = lines
  BY DEF End, EndBody, Cancel, streamVars
<1>2. PICK r \in Runs : /\ run' = [run EXCEPT ![q] = r]
                        /\ r.phase = "over" /\ r.thread = run[q].thread
                        /\ r.sent = 0 /\ r.sent <= r.response.size
  BY <1>1, EndedRun
<1>3. link[q] # "none" /\ (link' = link \/ link' = [link EXCEPT ![q] = "eof"])
  BY DEF End, EndBody, Cancel, Abandoned, streamVars
<1>4. /\ link' \in [Questions -> {"none", "open", "eof", "cut", "broken", "left"}]
      /\ link'[q] # "none" /\ \A p \in Questions \ {q} : link'[p] = link[p]
      /\ checkpoint' \in [Questions -> Seq(Texts)] /\ lines' \in [Questions -> Seq(Events)]
  BY <1>1, <1>3 DEF RunnerInv, TypeOK
<1>5. r.thread \in Questions
  BY <1>2, <1>3, RunFacts DEF Consistent
<1> QED BY <1>2, <1>4, <1>5, OneRunChanges

(* Breaking, reading and leaving a body change no run.                     *)
LEMMA BodyKeepsInv ==
  ASSUME RunnerInv, NEW q \in Questions, BreakBody(q) \/ ReadLine(q) \/ LeaveBody(q),
         run' = run, checkpoint' = checkpoint
  PROVE  RunnerInv'
<1> USE DEF RunnerInv, TypeOK
<1>1. lines' \in [Questions -> Seq(Events)]
  <2>1. CASE BreakBody(q)
    <3>1. PICK n \in 0 .. Len(lines[q]) : lines' = [lines EXCEPT ![q] = SubSeq(@, 1, n)]
      BY <2>1 DEF BreakBody
    <3>2. SubSeq(lines[q], 1, n) \in Seq(Events)
      OBVIOUS
    <3> QED BY <3>1, <3>2
  <2>2. CASE ReadLine(q)
    BY <2>2 DEF ReadLine
  <2>3. CASE LeaveBody(q)
    BY <2>3 DEF LeaveBody
  <2> QED BY <2>1, <2>2, <2>3
<1>2. /\ link' \in [Questions -> {"none", "open", "eof", "cut", "broken", "left"}]
      /\ \A p \in Questions : link'[p] = "none" <=> link[p] = "none"
  <2>1. CASE BreakBody(q)
    BY <2>1, ChatStreamAssumption DEF BreakBody
  <2>2. CASE ReadLine(q) \/ LeaveBody(q)
    BY <2>2 DEF ReadLine, LeaveBody
  <2> QED BY <2>1, <2>2
<1>3. TypeOK'
  BY <1>1, <1>2
<1>4. \A p \in Questions : Consistent(p)'
  BY <1>2 DEF Consistent
<1> QED BY <1>3, <1>4

-----------------------------------------------------------------------------
LEMMA NextKeepsInv ==
  ASSUME RunnerInv, [Next]_vars
  PROVE  RunnerInv'
<1>1. CASE UNCHANGED vars
  BY <1>1 DEF vars, streamVars, RunnerInv, TypeOK, Consistent
<1>2. ASSUME NEW q \in Questions, NEW t \in KnownThreads, NEW client \in {"open", "left"},
             Start(q, t, client)
      PROVE  RunnerInv'
  BY <1>2, StartKeepsInv
<1>3. ASSUME NEW q \in Questions, ToolRound(q) \/ GraphEnds(q) \/ Nudge(q) \/ Respond(q)
      PROVE  RunnerInv'
  BY <1>3, ToolRoundKeepsInv, GraphEndsKeepsInv, NudgeKeepsInv, RespondKeepsInv
<1>4. ASSUME NEW q \in Questions,
             FallBack(q) \/ NudgeFails(q) \/ GraphFails(q) \/ Write(q) \/ Finish(q)
      PROVE  RunnerInv'
  BY <1>4, FallBackKeepsInv, WriteKeepsInv, FinishKeepsInv
<1>5. ASSUME NEW q \in Questions, End(q) \/ Cancel(q)
      PROVE  RunnerInv'
  BY <1>5, EndKeepsInv
<1>6. ASSUME NEW q \in Questions, BreakBody(q) \/ ReadLine(q) \/ LeaveBody(q),
             UNCHANGED <<checkpoint, run>>
      PROVE  RunnerInv'
  BY <1>6, BodyKeepsInv
<1> QED BY <1>1, <1>2, <1>3, <1>4, <1>5, <1>6 DEF Next

(* Always, whatever the conversations do: the checkpoints hold texts, the  *)
(* lines are events, and no run streams more pieces than its response has. *)
THEOREM RunnerTypes == Spec => []TypeOK
<1>1. Init => RunnerInv
  BY InitInv
<1>2. RunnerInv /\ [Next]_vars => RunnerInv'
  BY NextKeepsInv
<1>3. RunnerInv => TypeOK
  BY DEF RunnerInv
<1> QED BY <1>1, <1>2, <1>3, PTL DEF Spec

-----------------------------------------------------------------------------
streams == <<Streams, streamVars>>

(* A stream is that of its run, unless nobody reads it any more.           *)
LEMMA StreamOfRun ==
  ASSUME NEW q \in Questions
  PROVE  /\ Streams[q].thread = run[q].thread
         /\ ~Abandoned(q) =>
              /\ Streams[q].sent = run[q].sent
              /\ Streams[q].phase = IF run[q].phase \in {"graph", "picking"} THEN "working"
                                    ELSE run[q].phase
BY DEF Streams

(* A step of one run and its body changes one stream.                      *)
LEMMA OneStreamChanges ==
  ASSUME NEW q \in Questions,
         \A p \in Questions \ {q} : run'[p] = run[p] /\ link'[p] = link[p],
         NEW s, Streams'[q] = s
  PROVE  Streams' = [Streams EXCEPT ![q] = s]
BY DEF Streams, Abandoned

(* A run that is still read becomes what its phase says.                   *)
LEMMA BecomesPhase ==
  ASSUME NEW q \in Questions,
         \A p \in Questions \ {q} : run'[p] = run[p] /\ link'[p] = link[p],
         link'[q] \notin {"broken", "cut", "left"},
         NEW r, run'[q] = r, r.thread = run[q].thread, r.phase \notin {"graph", "picking"}
  PROVE  Stream!Becomes(q, r.phase, r.sent)
<1> DEFINE s == [phase |-> r.phase, thread |-> run[q].thread, sent |-> r.sent]
<1>1. Streams'[q] = s
  BY DEF Streams, Abandoned
<1>2. Streams[q].thread = run[q].thread
  BY StreamOfRun
<1>3. Streams' = [Streams EXCEPT ![q] = s]
  <2> HIDE DEF s
  <2> QED BY <1>1, OneStreamChanges
<1> QED BY <1>2, <1>3 DEF Stream!Becomes

(* A run that nobody reads any more is over.                               *)
LEMMA BecomesOver ==
  ASSUME NEW q \in Questions,
         \A p \in Questions \ {q} : run'[p] = run[p] /\ link'[p] = link[p],
         link'[q] \in {"broken", "cut", "left"}, run'[q].thread = run[q].thread
  PROVE  Stream!Becomes(q, "over", 0)
<1> DEFINE s == [phase |-> "over", thread |-> run[q].thread, sent |-> 0]
<1>1. Streams'[q] = s
  BY DEF Streams, Abandoned
<1>2. Streams[q].thread = run[q].thread
  BY StreamOfRun
<1>3. Streams' = [Streams EXCEPT ![q] = s]
  <2> HIDE DEF s
  <2> QED BY <1>1, OneStreamChanges
<1> QED BY <1>2, <1>3 DEF Stream!Becomes

LEMMA InitStreams == Init => Stream!Init
BY DEF Init, StreamInit, Stream!Init, Stream!StreamInit, Streams, Stream!NoStream, NoRun, Abandoned

-----------------------------------------------------------------------------
(* One run and its body change: the other runs and bodies do not.          *)
LEMMA OthersStay ==
  ASSUME RunnerInv, NEW q \in Questions, NEW r,
         run' = [run EXCEPT ![q] = r],
         NEW l, link' = link \/ link' = [link EXCEPT ![q] = l]
  PROVE  /\ run'[q] = r /\ link'[q] \in {link[q], l}
         /\ \A p \in Questions \ {q} : run'[p] = run[p] /\ link'[p] = link[p]
BY DEF RunnerInv, TypeOK

(* The request is accepted: the stream is working, or over for a client    *)
(* that has gone.                                                          *)
LEMMA StartIsStart ==
  ASSUME RunnerInv, NEW q \in Questions, NEW t \in KnownThreads, NEW client \in {"open", "left"},
         Start(q, t, client)
  PROVE  Stream!Next
<1> DEFINE th == ThreadOf(q, t)
           r  == [run[q] EXCEPT !.phase = "graph", !.thread = th, !.texts = checkpoint[th]]
           ph == IF client = "open" THEN "working" ELSE "over"
           s  == [phase |-> ph, thread |-> th, sent |-> 0]
<1>1. /\ run[q].phase = "none" /\ run' = [run EXCEPT ![q] = r]
      /\ link' = [link EXCEPT ![q] = client] /\ lines' = lines
  BY DEF Start, Load, OpenBody
<1>2. /\ run[q] \in Runs /\ run[q].sent = 0 /\ link[q] = "none"
  BY <1>1, RunFacts DEF Consistent
<1>3. r.phase = "graph" /\ r.thread = th /\ r.sent = 0
  <2> HIDE DEF th
  <2> QED BY <1>2 DEF Runs
<1> HIDE DEF r, th
<1>4. /\ run'[q] = r /\ link'[q] = client
      /\ \A p \in Questions \ {q} : run'[p] = run[p] /\ link'[p] = link[p]
  BY <1>1, OthersStay DEF RunnerInv, TypeOK
<1>5. Streams'[q] = s
  BY <1>3, <1>4 DEF Streams, Abandoned
<1>6. Streams[q].phase = "none"
  BY <1>1, <1>2, StreamOfRun DEF Abandoned
<1>7. Streams' = [Streams EXCEPT ![q] = s]
  <2> HIDE DEF s
  <2> QED BY <1>4, <1>5, OneStreamChanges
<1>8. th = Stream!ThreadOf(q, t)
  BY DEF th, ThreadOf, Stream!ThreadOf
<1>9. Stream!Start(q, t, client)
  BY <1>1, <1>6, <1>7, <1>8 DEF Stream!Start, Stream!OpenBody
<1>10. t \in Stream!KnownThreads
  BY DEF KnownThreads, Stream!KnownThreads, Streams
<1> QED BY <1>9, <1>10 DEF Stream!Next

(* The graph, its tools and its nudges are not seen from outside.          *)
LEMMA GraphIsWork ==
  ASSUME RunnerInv, NEW q \in Questions,
         run[q].phase \in {"graph", "picking"}, GoesOn(q, {"graph", "picking"})
  PROVE  UNCHANGED streams
<1>1. PICK r : /\ run' = [run EXCEPT ![q] = r] /\ r.phase \in {"graph", "picking"}
               /\ r.thread = run[q].thread /\ r.sent = run[q].sent
  BY DEF GoesOn
<1>2. run'[q] = r /\ \A p \in Questions \ {q} : run'[p] = run[p]
  BY <1>1 DEF RunnerInv, TypeOK
<1>3. lines' = lines /\ link' = link
  BY DEF GoesOn
<1>4. Streams' = Streams
  BY <1>1, <1>2, <1>3 DEF Streams, Abandoned
<1> QED BY <1>3, <1>4 DEF streams, streamVars

(* A response is chosen, unless nobody waits for it.                       *)
LEMMA RespondIsRespond ==
  ASSUME RunnerInv, NEW q \in Questions,
         run[q].phase \in {"graph", "picking"}, GoesOn(q, {"writing"})
  PROVE  Stream!Next \/ UNCHANGED streams
<1>1. PICK r : /\ run' = [run EXCEPT ![q] = r] /\ r.phase = "writing"
               /\ r.thread = run[q].thread /\ r.sent = run[q].sent
  BY DEF GoesOn
<1>2. run'[q] = r /\ \A p \in Questions \ {q} : run'[p] = run[p]
  BY <1>1 DEF RunnerInv, TypeOK
<1>3. lines' = lines /\ link' = link
  BY DEF GoesOn
<1>4. CASE Abandoned(q)
  <2>1. Streams' = Streams
    BY <1>1, <1>2, <1>3, <1>4 DEF Streams, Abandoned
  <2> QED BY <1>3, <2>1 DEF streams, streamVars
<1>5. CASE ~Abandoned(q)
  <2>1. link'[q] \notin {"broken", "cut", "left"}
    BY <1>3, <1>5 DEF Abandoned
  <2>2. Streams[q].phase = "working" /\ run[q].sent = 0
    <3>1. run[q].sent = 0
      BY RunFacts DEF Consistent
    <3> QED BY <1>5, <3>1, StreamOfRun
  <2>3. Stream!Becomes(q, "writing", 0)
    BY <1>1, <1>2, <1>3, <2>1, <2>2, BecomesPhase
  <2>4. Stream!Respond(q)
    BY <1>3, <2>2, <2>3 DEF Stream!Respond, Stream!streamVars
  <2> QED BY <2>4 DEF Stream!Next, Stream!Progress
<1> QED BY <1>4, <1>5

(* Who yields is read: its body is open before and after.                  *)
LEMMA YieldIsYield ==
  ASSUME NEW q \in Questions, NEW event, Yield(q, event)
  PROVE  /\ link[q] = "open" /\ link' = link /\ ~Abandoned(q)
         /\ Stream!Yield(q, event)
BY DEF Yield, Abandoned, Stream!Yield

LEMMA GraphFailsIsFail ==
  ASSUME RunnerInv, NEW q \in Questions, GraphFails(q)
  PROVE  Stream!Fail(q)
<1>1. Yield(q, Error(q)) /\ Ended(q, "closing") /\ run[q].phase = "graph"
  BY DEF GraphFails
<1>2. PICK r \in Runs : /\ run' = [run EXCEPT ![q] = r]
                        /\ r.phase = "closing" /\ r.thread = run[q].thread /\ r.sent = 0
  BY <1>1, EndedRun
<1>3. run'[q] = r /\ \A p \in Questions \ {q} : run'[p] = run[p]
  BY <1>2 DEF RunnerInv, TypeOK
<1>4. link[q] = "open" /\ link' = link /\ ~Abandoned(q) /\ Stream!Yield(q, Error(q))
  BY <1>1, YieldIsYield
<1>5. Stream!Becomes(q, "closing", 0)
  BY <1>2, <1>3, <1>4, BecomesPhase
<1>6. Streams[q].phase = "working"
  BY <1>1, <1>4, StreamOfRun
<1> QED BY <1>4, <1>5, <1>6 DEF Stream!Fail, Error, Stream!Error

LEMMA WriteIsWrite ==
  ASSUME RunnerInv, NEW q \in Questions, Write(q)
  PROVE  Stream!Write(q)
<1> DEFINE r == [run[q] EXCEPT !.sent = run[q].sent + 1]
           event == Token(q, run[q].sent + 1)
<1>1. /\ run[q].phase = "writing" /\ run[q].sent < run[q].response.size
      /\ run' = [run EXCEPT ![q] = r] /\ Yield(q, event)
  BY DEF Write
<1>2. /\ run[q] \in Runs
      /\ run[q].sent \in 0 .. MaxSize /\ run[q].response.size \in 1 .. MaxSize
  BY RunFacts
<1>3. run[q].sent < MaxSize
  BY <1>1, <1>2, ChatStreamAssumption
<1>4. r.phase = "writing" /\ r.thread = run[q].thread /\ r.sent = run[q].sent + 1
  BY <1>1, <1>2 DEF Runs
<1> HIDE DEF r
<1>5. run'[q] = r /\ \A p \in Questions \ {q} : run'[p] = run[p]
  BY <1>1 DEF RunnerInv, TypeOK
<1> HIDE DEF event
<1>6. link[q] = "open" /\ link' = link /\ ~Abandoned(q) /\ Stream!Yield(q, event)
  BY <1>1, YieldIsYield
<1>7. Stream!Becomes(q, "writing", run[q].sent + 1)
  BY <1>4, <1>5, <1>6, BecomesPhase
<1>8. Streams[q].phase = "writing" /\ Streams[q].sent = run[q].sent
  BY <1>1, <1>6, StreamOfRun
<1> QED BY <1>3, <1>6, <1>7, <1>8 DEF event, Stream!Write, Token, Stream!Token

(* A response is never empty, so done follows at least one piece.          *)
LEMMA FinishIsFinish ==
  ASSUME RunnerInv, NEW q \in Questions, Finish(q)
  PROVE  Stream!Finish(q)
<1> DEFINE event == Done(q, run[q].thread)
<1>1. /\ Yield(q, event) /\ Ended(q, "closing")
      /\ run[q].phase = "writing" /\ run[q].sent = run[q].response.size
  BY DEF Finish
<1> HIDE DEF event
<1>2. PICK r \in Runs : /\ run' = [run EXCEPT ![q] = r]
                        /\ r.phase = "closing" /\ r.thread = run[q].thread /\ r.sent = 0
  BY <1>1, EndedRun
<1>3. run'[q] = r /\ \A p \in Questions \ {q} : run'[p] = run[p]
  BY <1>2 DEF RunnerInv, TypeOK
<1>4. link[q] = "open" /\ link' = link /\ ~Abandoned(q) /\ Stream!Yield(q, event)
  BY <1>1, YieldIsYield
<1>5. Stream!Becomes(q, "closing", 0)
  BY <1>2, <1>3, <1>4, BecomesPhase
<1>6. Streams[q].phase = "writing" /\ Streams[q].sent = run[q].sent
  BY <1>1, <1>4, StreamOfRun
<1>7. run[q].sent > 0
  BY <1>1, RunFacts, ChatStreamAssumption
<1>8. Streams[q].thread = run[q].thread
  BY StreamOfRun
<1> QED BY <1>4, <1>5, <1>6, <1>7, <1>8 DEF event, Stream!Finish, Done, Stream!Done

LEMMA EndIsEnd ==
  ASSUME RunnerInv, NEW q \in Questions, End(q)
  PROVE  Stream!End(q)
<1>1. EndBody(q) /\ Ended(q, "over") /\ run[q].phase = "closing"
  BY DEF End
<1>2. PICK r \in Runs : /\ run' = [run EXCEPT ![q] = r]
                        /\ r.phase = "over" /\ r.thread = run[q].thread /\ r.sent = 0
  BY <1>1, EndedRun
<1>3. run'[q] = r /\ \A p \in Questions \ {q} : run'[p] = run[p]
  BY <1>2 DEF RunnerInv, TypeOK
<1>4. /\ link[q] = "open" /\ link'[q] = "eof"
      /\ \A p \in Questions \ {q} : link'[p] = link[p]
  BY <1>1 DEF EndBody, RunnerInv, TypeOK
<1>5. Stream!Becomes(q, "over", 0)
  BY <1>2, <1>3, <1>4, BecomesPhase
<1>6. Streams[q].phase = "closing"
  BY <1>1, <1>4, StreamOfRun DEF Abandoned
<1> QED BY <1>1, <1>5, <1>6 DEF Stream!End, EndBody, Stream!EndBody

(* Nobody sees the cancellation of a run that nobody reads.                *)
LEMMA CancelIsUnseen ==
  ASSUME RunnerInv, NEW q \in Questions, Cancel(q)
  PROVE  UNCHANGED streams
<1>1. /\ Abandoned(q) /\ Ended(q, "over") /\ link' = link /\ lines' = lines
  BY DEF Cancel, streamVars
<1>2. PICK r \in Runs : run' = [run EXCEPT ![q] = r] /\ r.thread = run[q].thread
  BY <1>1, EndedRun
<1>3. run'[q] = r /\ \A p \in Questions \ {q} : run'[p] = run[p]
  BY <1>2 DEF RunnerInv, TypeOK
<1>4. Streams' = Streams
  BY <1>1, <1>2, <1>3 DEF Streams, Abandoned
<1> QED BY <1>1, <1>4 DEF streams, streamVars

(* What happens to a body is what the abstract stream allows.              *)
LEMMA BodyIsBody ==
  ASSUME RunnerInv, NEW q \in Questions, run' = run,
         BreakBody(q) \/ ReadLine(q) \/ LeaveBody(q)
  PROVE  Stream!Break(q) \/ Stream!Read(q) \/ Stream!Leave(q)
<1>1. CASE BreakBody(q)
  <2>1. /\ link'[q] \in {"broken", "cut"}
        /\ \A p \in Questions \ {q} : link'[p] = link[p]
    BY <1>1, ChatStreamAssumption DEF BreakBody, RunnerInv, TypeOK
  <2>2. Stream!Becomes(q, "over", 0)
    BY <2>1, BecomesOver
  <2> QED BY <1>1, <2>2 DEF Stream!Break, BreakBody, Stream!BreakBody
<1>2. CASE ReadLine(q)
  <2>1. link' = link
    BY <1>2 DEF ReadLine
  <2>2. Streams' = Streams
    BY <2>1 DEF Streams, Abandoned
  <2> QED BY <1>2, <2>2 DEF Stream!Read, ReadLine, Stream!ReadLine
<1>3. CASE LeaveBody(q)
  <2>1. /\ link'[q] = "left"
        /\ \A p \in Questions \ {q} : link'[p] = link[p]
    BY <1>3 DEF LeaveBody, RunnerInv, TypeOK
  <2>2. Stream!Becomes(q, "over", 0)
    BY <2>1, BecomesOver
  <2> QED BY <1>3, <2>2 DEF Stream!Leave, LeaveBody, Stream!LeaveBody
<1> QED BY <1>1, <1>2, <1>3

-----------------------------------------------------------------------------
LEMMA NextIsNext ==
  ASSUME RunnerInv, [Next]_vars
  PROVE  Stream!Next \/ UNCHANGED streams
<1>1. CASE UNCHANGED vars
  BY <1>1 DEF vars, streams, streamVars, Streams, Abandoned
<1>2. ASSUME NEW q \in Questions, NEW t \in KnownThreads, NEW client \in {"open", "left"},
             Start(q, t, client)
      PROVE  Stream!Next
  BY <1>2, StartIsStart
<1>3. ASSUME NEW q \in Questions, ToolRound(q) \/ GraphEnds(q) \/ Nudge(q)
      PROVE  UNCHANGED streams
  <2>1. run[q].phase \in {"graph", "picking"}
    BY <1>3 DEF ToolRound, GraphEnds, Nudge
  <2>2. GoesOn(q, {"graph", "picking"})
    BY <1>3, ToolRoundKeepsInv, GraphEndsKeepsInv, NudgeKeepsInv DEF GoesOn
  <2> QED BY <2>1, <2>2, GraphIsWork
<1>4. ASSUME NEW q \in Questions, NudgeFails(q) \/ Respond(q) \/ FallBack(q)
      PROVE  Stream!Next \/ UNCHANGED streams
  <2>1. run[q].phase \in {"graph", "picking"}
    BY <1>4 DEF NudgeFails, Respond, FallBack
  <2>2. GoesOn(q, {"writing"})
    BY <1>4, RespondKeepsInv, FallBackKeepsInv
  <2> QED BY <2>1, <2>2, RespondIsRespond
<1>5. ASSUME NEW q \in Questions, GraphFails(q) \/ Write(q) \/ Finish(q) \/ End(q)
      PROVE  Stream!Next
  BY <1>5, GraphFailsIsFail, WriteIsWrite, FinishIsFinish, EndIsEnd
     DEF Stream!Next, Stream!Progress
<1>6. ASSUME NEW q \in Questions, Cancel(q)
      PROVE  UNCHANGED streams
  BY <1>6, CancelIsUnseen
<1>7. ASSUME NEW q \in Questions, BreakBody(q) \/ ReadLine(q) \/ LeaveBody(q),
             UNCHANGED <<checkpoint, run>>
      PROVE  Stream!Next
  BY <1>7, BodyIsBody DEF Stream!Next
<1> QED BY <1>1, <1>2, <1>3, <1>4, <1>5, <1>6, <1>7 DEF Next

(* POST /chat/stream keeps its promise for any number of questions, on any *)
(* threads: pieces of one response in order and done, or one error and     *)
(* nothing else, then the end, whatever graph, tools, nudges and           *)
(* concurrent runs on the same thread do.                                  *)
THEOREM RunnerImplementsStream == Spec => ImplementsStream
<1>1. Init => RunnerInv /\ Stream!Init
  BY InitInv, InitStreams
<1>2. RunnerInv /\ [Next]_vars => RunnerInv'
  BY NextKeepsInv
<1>3. RunnerInv /\ [Next]_vars => [Stream!Next]_<<Streams, Stream!streamVars>>
  BY NextIsNext DEF streams, streamVars, Stream!streamVars
<1> QED BY <1>1, <1>2, <1>3, PTL DEF Spec, ImplementsStream, Stream!Spec


-----------------------------------------------------------------------------
(***************************************************************************)
(* What a thread keeps.  The runs that had a thread to themselves know all *)
(* of it, so that saving what they know loses nothing and the pick reads   *)
(* what they know.                                                         *)
(***************************************************************************)
Shared(t) ==
  \E p, q \in Questions : /\ p # q /\ Running(p) /\ Running(q)
                          /\ run[p].thread = t /\ run[q].thread = t

(* The run of q knows its thread as it is saved.                           *)
Knows(q) ==
  (Running(q) /\ run[q].thread \notin contested) => run[q].texts = checkpoint[run[q].thread]

(* A response is chosen once the graph is done.                            *)
Undecided(q) == run[q].phase # "writing" => run[q].response.kind = "fallback"

(* The response of q is no plan and no shorter than an answer it knows.    *)
Competes(q) ==
  (run[q].phase = "writing" /\ run[q].thread \notin contested /\ run[q].response.kind # "fallback") =>
    \A i \in DOMAIN run[q].texts :
      LET text == run[q].texts[i]
      IN  text.kind = "answer" =>
            run[q].response.kind = "answer" /\ run[q].response.size >= text.size

ThreadInv ==
  /\ RunnerInv
  /\ \A t \in Questions \ contested : ~Shared(t)
  /\ \A q \in Questions : Knows(q) /\ Undecided(q) /\ Competes(q)

(* What a step of one run does to its thread: the run loads it, adds to it *)
(* what it has written and saves it, picks a response from it, or leaves   *)
(* it alone.                                                               *)
Loads(r) ==
  /\ checkpoint' = checkpoint
  /\ r.phase = "graph" /\ r.texts = checkpoint[r.thread] /\ r.response.kind = "fallback"

Saves(q, r) ==
  /\ run[q].phase = "graph" /\ r.phase \in {"graph", "picking"} /\ r.thread = run[q].thread
  /\ r.response = run[q].response
  /\ \E new \in Seq(Texts) : r.texts = run[q].texts \o new
  /\ checkpoint' = [checkpoint EXCEPT ![run[q].thread] = r.texts]

Picks(q, r) ==
  /\ checkpoint' = checkpoint
  /\ run[q].phase = "picking" /\ r.phase = "writing" /\ r.thread = run[q].thread
  /\ r.texts = run[q].texts /\ r.response \in Final(checkpoint[run[q].thread])

Rests(q, r) ==
  /\ checkpoint' = checkpoint
  /\ ~(r.phase \in {"graph", "picking"})
  /\ \/ r.response.kind = "fallback"
     \/ /\ run[q].phase = "writing" /\ r.phase = "writing" /\ r.thread = run[q].thread
        /\ r.texts = run[q].texts /\ r.response = run[q].response

ThreadStep(q) ==
  \E r \in Runs :
    /\ run' = [run EXCEPT ![q] = r]
    /\ r.phase # "none" /\ r.thread \in Questions
    /\ Loads(r) \/ Saves(q, r) \/ Picks(q, r) \/ Rests(q, r)

-----------------------------------------------------------------------------
LEMMA StartLoads ==
  ASSUME ThreadInv, NEW q \in Questions, NEW t \in KnownThreads, NEW client \in {"open", "left"},
         Start(q, t, client)
  PROVE  ThreadStep(q)
<1> DEFINE th == ThreadOf(q, t)
           r  == [run[q] EXCEPT !.phase = "graph", !.thread = th, !.texts = checkpoint[th]]
<1>1. th \in Questions
  BY DEF KnownThreads, ThreadOf, ThreadInv, RunnerInv, TypeOK
<1>2. run' = [run EXCEPT ![q] = r] /\ checkpoint' = checkpoint /\ run[q].phase = "none"
  BY DEF Start, Load
<1>3. /\ r \in Runs /\ r.phase = "graph" /\ r.thread = th /\ r.texts = checkpoint[th]
      /\ r.response = run[q].response
  <2> HIDE DEF th
  <2> QED BY <1>1, RunFacts DEF ThreadInv, RunnerInv, TypeOK, Runs
<1>4. run[q].response.kind = "fallback"
  BY <1>2 DEF ThreadInv, Undecided
<1> HIDE DEF r, th
<1> QED BY <1>1, <1>2, <1>3, <1>4 DEF ThreadStep, Loads

LEMMA NudgeLoads ==
  ASSUME ThreadInv, NEW q \in Questions, Nudge(q)
  PROVE  ThreadStep(q)
<1> DEFINE th == run[q].thread
           r  == [run[q] EXCEPT !.phase = "graph", !.nudged = TRUE, !.texts = checkpoint[th]]
<1>1. run' = [run EXCEPT ![q] = r] /\ checkpoint' = checkpoint /\ run[q].phase = "picking"
  BY DEF Nudge, Load
<1>2. run[q] \in Runs /\ th \in Questions
  BY <1>1, RunFacts DEF ThreadInv, Consistent
<1>3. /\ r \in Runs /\ r.phase = "graph" /\ r.thread = th /\ r.texts = checkpoint[th]
      /\ r.response = run[q].response
  <2>1. checkpoint[th] \in Seq(Texts)
    BY <1>2 DEF ThreadInv, RunnerInv, TypeOK
  <2> QED BY <1>2, <2>1 DEF Runs
<1>4. run[q].response.kind = "fallback"
  BY <1>1 DEF ThreadInv, Undecided
<1> HIDE DEF r, th
<1> QED BY <1>1, <1>2, <1>3, <1>4 DEF ThreadStep, Loads

LEMMA ToolRoundSaves ==
  ASSUME ThreadInv, NEW q \in Questions, ToolRound(q)
  PROVE  ThreadStep(q)
<1> DEFINE r == [run[q] EXCEPT !.tools = TRUE]
<1>1. /\ run[q].phase = "graph" /\ run' = [run EXCEPT ![q] = r]
      /\ checkpoint' = [checkpoint EXCEPT ![run[q].thread] = run[q].texts]
  BY DEF ToolRound, Save
<1>2. run[q] \in Runs /\ run[q].thread \in Questions
  BY <1>1, RunFacts DEF ThreadInv, Consistent
<1>3. /\ r \in Runs /\ r.phase = "graph" /\ r.thread = run[q].thread
      /\ r.texts = run[q].texts /\ r.response = run[q].response
  BY <1>1, <1>2 DEF Runs
<1>4. <<>> \in Seq(Texts) /\ run[q].texts = run[q].texts \o <<>>
  BY <1>2 DEF Runs
<1> HIDE DEF r
<1>5. Saves(q, r)
  BY <1>1, <1>3, <1>4 DEF Saves
<1> QED BY <1>1, <1>2, <1>3, <1>5 DEF ThreadStep

LEMMA GraphEndsSaves ==
  ASSUME ThreadInv, NEW q \in Questions, GraphEnds(q)
  PROVE  ThreadStep(q)
<1>1. PICK new \in {<<>>} \cup {<<Text(q, output)>> : output \in Outputs} :
        /\ run' = [run EXCEPT ![q] = [@ EXCEPT !.phase = "picking", !.texts = run[q].texts \o new]]
        /\ Save(q, run[q].texts \o new)
  BY DEF GraphEnds, streamVars
<1> DEFINE texts == run[q].texts \o new
           r     == [run[q] EXCEPT !.phase = "picking", !.texts = texts]
<1>2. run[q].phase = "graph"
  BY DEF GraphEnds
<1>3. run[q] \in Runs /\ run[q].thread \in Questions
  BY <1>2, RunFacts DEF ThreadInv, Consistent
<1>4. new \in Seq(Texts)
  <2>1. CASE new = <<>>
    BY <2>1
  <2>2. ASSUME NEW output \in Outputs, new = <<Text(q, output)>> PROVE new \in Seq(Texts)
    <3>1. Text(q, output) \in Texts
      BY DEF Texts
    <3> QED BY <2>2, <3>1
  <2> QED BY <2>1, <2>2
<1>5. texts \in Seq(Texts) /\ texts = run[q].texts \o new
  BY <1>3, <1>4 DEF Runs
<1>6. /\ run' = [run EXCEPT ![q] = r]
      /\ checkpoint' = [checkpoint EXCEPT ![run[q].thread] = texts]
  BY <1>1 DEF Save
<1> HIDE DEF texts
<1>7. /\ r \in Runs /\ r.phase = "picking" /\ r.thread = run[q].thread
      /\ r.texts = texts /\ r.response = run[q].response
  BY <1>3, <1>5 DEF Runs
<1> HIDE DEF r
<1>8. Saves(q, r)
  BY <1>2, <1>4, <1>5, <1>6, <1>7 DEF Saves
<1> QED BY <1>3, <1>6, <1>7, <1>8 DEF ThreadStep

(* The final text of the thread, or the fallback when it has none.         *)
LEMMA RespondPicks ==
  ASSUME ThreadInv, NEW q \in Questions, Respond(q)
  PROVE  ThreadStep(q)
<1> DEFINE final == Final(checkpoint[run[q].thread])
<1>1. PICK response \in IF final = {} THEN {REPONSE_VIDE_SECOURS} ELSE final :
        run' = [run EXCEPT ![q] = [@ EXCEPT !.phase = "writing", !.response = response]]
  BY DEF Respond, Load
<1> DEFINE r == [run[q] EXCEPT !.phase = "writing", !.response = response]
<1>2. run[q].phase = "picking" /\ checkpoint' = checkpoint
  BY DEF Respond
<1>3. run[q] \in Runs /\ run[q].thread \in Questions
  BY <1>2, RunFacts DEF ThreadInv, Consistent
<1>4. final \subseteq Texts
  BY <1>3, FinalType DEF ThreadInv, RunnerInv, TypeOK
<1> HIDE DEF final
<1>5. /\ response \in Texts \cup {REPONSE_VIDE_SECOURS}
      /\ response \in final \/ response = REPONSE_VIDE_SECOURS
  BY <1>1, <1>4
<1>6. response \in final \/ response.kind = "fallback"
  BY <1>5 DEF REPONSE_VIDE_SECOURS
<1>7. /\ r \in Runs /\ r.phase = "writing" /\ r.thread = run[q].thread
      /\ r.texts = run[q].texts /\ r.response = response
  BY <1>3, <1>5 DEF Runs
<1>8. run' = [run EXCEPT ![q] = r]
  BY <1>1
<1> HIDE DEF r
<1>9. Picks(q, r) \/ Rests(q, r)
  BY <1>2, <1>6, <1>7 DEF Picks, Rests, final
<1> QED BY <1>3, <1>7, <1>8, <1>9 DEF ThreadStep

LEMMA FallBackRests ==
  ASSUME ThreadInv, NEW q \in Questions, FallBack(q) \/ NudgeFails(q)
  PROVE  ThreadStep(q)
<1> DEFINE r == [run[q] EXCEPT !.phase = "writing"]
<1>1. /\ run[q].phase \in {"picking", "graph"} /\ run' = [run EXCEPT ![q] = r]
      /\ checkpoint' = checkpoint
  BY DEF FallBack, NudgeFails
<1>2. run[q] \in Runs /\ run[q].thread \in Questions /\ run[q].response.kind = "fallback"
  BY <1>1, RunFacts DEF ThreadInv, Consistent, Undecided
<1>3. /\ r \in Runs /\ r.phase = "writing" /\ r.thread = run[q].thread
      /\ r.response = run[q].response
  BY <1>2 DEF Runs
<1> HIDE DEF r
<1> QED BY <1>1, <1>2, <1>3 DEF ThreadStep, Rests

LEMMA WriteRests ==
  ASSUME ThreadInv, NEW q \in Questions, Write(q)
  PROVE  ThreadStep(q)
<1> DEFINE r == [run[q] EXCEPT !.sent = run[q].sent + 1]
<1>1. /\ run[q].phase = "writing" /\ run[q].sent < run[q].response.size
      /\ run' = [run EXCEPT ![q] = r] /\ checkpoint' = checkpoint
  BY DEF Write
<1>2. /\ run[q] \in Runs /\ run[q].thread \in Questions
      /\ run[q].sent \in 0 .. MaxSize /\ run[q].response.size \in 1 .. MaxSize
  BY <1>1, RunFacts DEF ThreadInv, Consistent
<1>3. run[q].sent + 1 \in 0 .. MaxSize
  BY <1>1, <1>2, ChatStreamAssumption
<1>4. /\ r \in Runs /\ r.phase = "writing" /\ r.thread = run[q].thread
      /\ r.texts = run[q].texts /\ r.response = run[q].response
  BY <1>1, <1>2, <1>3 DEF Runs
<1> HIDE DEF r
<1> QED BY <1>1, <1>2, <1>4 DEF ThreadStep, Rests

LEMMA EndRests ==
  ASSUME ThreadInv, NEW q \in Questions,
         Finish(q) \/ GraphFails(q) \/ End(q) \/ Cancel(q)
  PROVE  ThreadStep(q)
<1>1. PICK phase \in {"closing", "over"} : Ended(q, phase) /\ checkpoint' = checkpoint
  BY DEF Finish, GraphFails, End, Cancel
<1>2. PICK r \in Runs : /\ run' = [run EXCEPT ![q] = r]
                        /\ r.phase = phase /\ r.thread = run[q].thread
                        /\ r.response = REPONSE_VIDE_SECOURS
  BY <1>1, EndedRun DEF ThreadInv
<1>3. run[q].phase # "none"
  <2>1. CASE Cancel(q)
    BY <2>1, RunFacts DEF Cancel, Abandoned, Consistent, ThreadInv
  <2>2. CASE ~Cancel(q)
    BY <2>2 DEF Finish, GraphFails, End
  <2> QED BY <2>1, <2>2
<1>4. run[q].thread \in Questions
  BY <1>3, RunFacts DEF ThreadInv, Consistent
<1>5. r.response.kind = "fallback"
  BY <1>2 DEF REPONSE_VIDE_SECOURS
<1>6. Rests(q, r)
  BY <1>1, <1>2, <1>5 DEF Rests
<1> QED BY <1>2, <1>4, <1>6 DEF ThreadStep

(* Every step is one of those, or changes no run and no checkpoint.        *)
LEMMA StepsOfThreads ==
  ASSUME ThreadInv, [Next]_vars
  PROVE  (\E q \in Questions : ThreadStep(q)) \/ (run' = run /\ checkpoint' = checkpoint)
<1>1. ASSUME NEW q \in Questions, NEW t \in KnownThreads, NEW client \in {"open", "left"},
             Start(q, t, client)
      PROVE  ThreadStep(q)
  BY <1>1, StartLoads
<1>2. ASSUME NEW q \in Questions, ToolRound(q) \/ GraphEnds(q) \/ Nudge(q) \/ Respond(q)
      PROVE  ThreadStep(q)
  BY <1>2, ToolRoundSaves, GraphEndsSaves, NudgeLoads, RespondPicks
<1>3. ASSUME NEW q \in Questions,
             \/ FallBack(q) \/ NudgeFails(q) \/ Write(q)
             \/ Finish(q) \/ GraphFails(q) \/ End(q) \/ Cancel(q)
      PROVE  ThreadStep(q)
  BY <1>3, FallBackRests, WriteRests, EndRests
<1> QED BY <1>1, <1>2, <1>3 DEF Next, vars


-----------------------------------------------------------------------------
(* A thread two runs share from now on is contested from now on.           *)
LEMMA ContestedGrows ==
  ASSUME HistoryNext
  PROVE  /\ contested \subseteq contested'
         /\ \A t \in Questions \ contested' : ~Shared(t)'
<1>1. contested' = contested \cup
        {t \in Questions : \E p, q \in Questions : /\ p # q /\ Running(p)' /\ Running(q)'
                                                   /\ run'[p].thread = t /\ run'[q].thread = t}
  BY DEF HistoryNext
<1>2. \A t \in Questions : Shared(t)' => t \in contested'
  BY <1>1 DEF Shared
<1> QED BY <1>1, <1>2

(* Nobody else runs on the thread of a run that has it to itself.          *)
LEMMA NobodyElse ==
  ASSUME ThreadInv, NEW p \in Questions, NEW q \in Questions, p # q,
         Running(p), Running(q), run[p].thread = run[q].thread, run[q].thread \in Questions
  PROVE  run[q].thread \in contested
BY DEF ThreadInv, Shared

(* A run that had its thread to itself still knows it: who else saves the  *)
(* thread shares it.                                                       *)
LEMMA KnowsOn ==
  ASSUME ThreadInv, contested \subseteq contested',
         NEW q \in Questions, ThreadStep(q), NEW p \in Questions
  PROVE  Knows(p)'
<1>1. PICK r \in Runs :
        /\ run' = [run EXCEPT ![q] = r]
        /\ r.phase # "none" /\ r.thread \in Questions
        /\ Loads(r) \/ Saves(q, r) \/ Picks(q, r) \/ Rests(q, r)
  BY DEF ThreadStep
<1>2. run'[q] = r /\ \A o \in Questions \ {q} : run'[o] = run[o]
  BY <1>1 DEF ThreadInv, RunnerInv, TypeOK
<1>3. SUFFICES ASSUME Running(p)', run'[p].thread \notin contested'
               PROVE  run'[p].texts = checkpoint'[run'[p].thread]
  BY DEF Knows
<1>4. run'[p].thread \notin contested
  BY <1>3
<1>5. CASE p = q
  <2>1. r.phase \in {"graph", "picking"}
    BY <1>2, <1>3, <1>5 DEF Running
  <2>2. CASE Loads(r)
    BY <1>2, <1>5, <2>2 DEF Loads
  <2>3. CASE Saves(q, r)
    BY <1>1, <1>2, <1>5, <2>3 DEF Saves, ThreadInv, RunnerInv, TypeOK
  <2>4. CASE Picks(q, r) \/ Rests(q, r)
    BY <2>1, <2>4 DEF Picks, Rests
  <2> QED BY <1>1, <2>2, <2>3, <2>4
<1>6. CASE p # q
  <2>1. run'[p] = run[p]
    BY <1>2, <1>6
  <2>2. Running(p)
    BY <1>3, <2>1 DEF Running
  <2>3. run[p].thread \in Questions /\ run[p].texts = checkpoint[run[p].thread]
    <3>1. run[p].thread \in Questions
      BY <2>2, RunFacts DEF ThreadInv, Consistent, Running
    <3> QED BY <1>4, <2>1, <2>2, <3>1 DEF ThreadInv, Knows
  <2>4. CASE Saves(q, r)
    <3>1. Running(q)
      BY <2>4 DEF Saves, Running
    <3>2. run[q].thread # run[p].thread
      BY <1>4, <1>6, <2>1, <2>2, <2>3, <3>1, NobodyElse
    <3> QED BY <2>1, <2>3, <2>4, <3>2 DEF Saves, ThreadInv, RunnerInv, TypeOK
  <2>5. CASE ~Saves(q, r)
    BY <1>1, <2>1, <2>3, <2>5 DEF Loads, Picks, Rests
  <2> QED BY <2>4, <2>5
<1> QED BY <1>5, <1>6

LEMMA UndecidedOn ==
  ASSUME ThreadInv, NEW q \in Questions, ThreadStep(q), NEW p \in Questions
  PROVE  Undecided(p)'
<1>1. PICK r \in Runs :
        /\ run' = [run EXCEPT ![q] = r]
        /\ Loads(r) \/ Saves(q, r) \/ Picks(q, r) \/ Rests(q, r)
  BY DEF ThreadStep
<1>2. run'[q] = r /\ \A o \in Questions \ {q} : run'[o] = run[o]
  BY <1>1 DEF ThreadInv, RunnerInv, TypeOK
<1>3. Undecided(q) /\ Undecided(p)
  BY DEF ThreadInv
<1>4. CASE p = q
  BY <1>1, <1>2, <1>3, <1>4 DEF Loads, Saves, Picks, Rests, Undecided
<1>5. CASE p # q
  BY <1>2, <1>3, <1>5 DEF Undecided
<1> QED BY <1>4, <1>5

(* The final text is an answer, and the longest, when there is an answer.  *)
LEMMA FinalCompetes ==
  ASSUME NEW texts \in Seq(Texts), NEW final \in Final(texts),
         NEW i \in DOMAIN texts, texts[i].kind = "answer"
  PROVE  final.kind = "answer" /\ final.size >= texts[i].size
<1> DEFINE substantive == {j \in DOMAIN texts : texts[j].kind # "plan"}
<1>1. i \in substantive
  OBVIOUS
<1>2. final \in Longest(texts, substantive)
  BY <1>1 DEF Final
<1>3. PICK k \in substantive :
        /\ final = texts[k]
        /\ \A j \in substantive : \/ texts[j].size < texts[k].size
                                  \/ (texts[j].size = texts[k].size /\ j <= k)
  BY <1>2 DEF Longest
<1>4. texts[k] \in Texts /\ texts[i] \in Texts
  BY <1>3
<1>5. texts[k].kind = "answer"
  BY <1>3, <1>4, AgentRunnerAssumption DEF Texts, Text
<1>6. texts[k].size \in Nat /\ texts[i].size \in Nat
  BY <1>4, ResponseSize, ChatStreamAssumption
<1> QED BY <1>1, <1>3, <1>5, <1>6

LEMMA CompetesOn ==
  ASSUME ThreadInv, contested \subseteq contested',
         NEW q \in Questions, ThreadStep(q), NEW p \in Questions
  PROVE  Competes(p)'
<1>1. PICK r \in Runs :
        /\ run' = [run EXCEPT ![q] = r]
        /\ Loads(r) \/ Saves(q, r) \/ Picks(q, r) \/ Rests(q, r)
  BY DEF ThreadStep
<1>2. run'[q] = r /\ \A o \in Questions \ {q} : run'[o] = run[o]
  BY <1>1 DEF ThreadInv, RunnerInv, TypeOK
<1>3. SUFFICES ASSUME run'[p].phase = "writing", run'[p].thread \notin contested',
                      run'[p].response.kind # "fallback",
                      NEW i \in DOMAIN run'[p].texts, run'[p].texts[i].kind = "answer"
               PROVE  /\ run'[p].response.kind = "answer"
                      /\ run'[p].response.size >= run'[p].texts[i].size
  BY DEF Competes
<1>4. run'[p].thread \notin contested
  BY <1>3
<1>5. CASE p = q /\ Picks(q, r)
  <2>1. /\ run[q].phase = "picking" /\ run[q].thread = r.thread /\ run[q].texts = r.texts
        /\ r.response \in Final(checkpoint[run[q].thread])
    BY <1>5 DEF Picks
  <2>2. run[q].texts = checkpoint[run[q].thread]
    BY <1>2, <1>4, <1>5, <2>1 DEF ThreadInv, Knows, Running
  <2>3. run[q].texts \in Seq(Texts)
    BY DEF ThreadInv, RunnerInv, TypeOK
  <2> QED BY <1>2, <1>3, <1>5, <2>1, <2>2, <2>3, FinalCompetes
<1>6. CASE \/ p # q
           \/ /\ run[q].phase = "writing" /\ r.phase = "writing" /\ r.thread = run[q].thread
              /\ r.texts = run[q].texts /\ r.response = run[q].response
  <2>1. /\ run[p].phase = "writing" /\ run'[p].thread = run[p].thread
        /\ run'[p].texts = run[p].texts /\ run'[p].response = run[p].response
    BY <1>2, <1>3, <1>6
  <2> QED BY <1>3, <1>4, <2>1 DEF ThreadInv, Competes
<1> QED BY <1>1, <1>2, <1>3, <1>5, <1>6 DEF Loads, Saves, Rests

LEMMA HistoryKeepsInv ==
  ASSUME ThreadInv, [HistoryNext]_<<vars, contested>>
  PROVE  ThreadInv'
<1>1. CASE UNCHANGED <<vars, contested>>
  BY <1>1 DEF vars, streamVars, ThreadInv, RunnerInv, TypeOK, Consistent, Shared, Running,
              Knows, Undecided, Competes
<1>2. CASE HistoryNext
  <2>1. Next /\ contested \subseteq contested' /\ \A t \in Questions \ contested' : ~Shared(t)'
    BY <1>2, ContestedGrows DEF HistoryNext
  <2>2. RunnerInv'
    BY <2>1, NextKeepsInv DEF ThreadInv
  <2>3. \A p \in Questions : Knows(p)' /\ Undecided(p)' /\ Competes(p)'
    <3>1. CASE \E q \in Questions : ThreadStep(q)
      BY <2>1, <3>1, KnowsOn, UndecidedOn, CompetesOn
    <3>2. CASE run' = run /\ checkpoint' = checkpoint
      BY <2>1, <3>2 DEF ThreadInv, Knows, Undecided, Competes, Running
    <3> QED BY <2>1, <3>1, <3>2, StepsOfThreads
  <2> QED BY <2>1, <2>2, <2>3 DEF ThreadInv
<1> QED BY <1>1, <1>2

LEMMA HistoryStarts == HistoryInit => ThreadInv
BY InitInv DEF HistoryInit, Init, ThreadInv, Shared, Running, Knows, Undecided, Competes,
               NoRun, REPONSE_VIDE_SECOURS

(* A run that had its thread to itself picks from what it knows: never a   *)
(* plan, or a shorter text, when it wrote an answer, whatever other        *)
(* threads, failures and cancellations do.                                 *)
THEOREM AnswersCompete == HistorySpec => []OwnAnswerCompetes
<1>1. ThreadInv => OwnAnswerCompetes
  BY DEF ThreadInv, Competes, OwnAnswerCompetes
<1> QED BY <1>1, HistoryStarts, HistoryKeepsInv, PTL DEF HistorySpec

-----------------------------------------------------------------------------
LEMMA GrownIsPrefix ==
  ASSUME NEW s \in Seq(Texts), NEW new \in Seq(Texts)
  PROVE  IsPrefix(s, s) /\ IsPrefix(s, s \o new)
<1>1. Len(s) \in Nat /\ Len(s \o new) \in Nat /\ Len(s) <= Len(s \o new)
  OBVIOUS
<1>2. SubSeq(s \o new, 1, Len(s)) = SubSeq(s, 1, Len(s))
  OBVIOUS
<1> QED BY <1>1, <1>2 DEF IsPrefix

LEMMA ThreadsGrow ==
  ASSUME ThreadInv, HistoryNext, NEW t \in Questions, t \notin contested'
  PROVE  IsPrefix(checkpoint[t], checkpoint'[t])
<1>1. Next /\ t \notin contested
  BY ContestedGrows DEF HistoryNext
<1>2. checkpoint[t] \in Seq(Texts)
  BY DEF ThreadInv, RunnerInv, TypeOK
<1>3. CASE checkpoint' = checkpoint
  BY <1>2, <1>3, GrownIsPrefix
<1>4. ASSUME NEW q \in Questions, NEW r \in Runs, Saves(q, r)
      PROVE  IsPrefix(checkpoint[t], checkpoint'[t])
  <2>1. CASE run[q].thread = t
    <3>1. run[q].texts = checkpoint[t]
      BY <1>1, <1>4, <2>1 DEF ThreadInv, Knows, Running, Saves
    <3>2. PICK new \in Seq(Texts) : r.texts = run[q].texts \o new
      BY <1>4 DEF Saves
    <3>3. checkpoint'[t] = checkpoint[t] \o new
      BY <1>4, <2>1, <3>1, <3>2 DEF Saves, ThreadInv, RunnerInv, TypeOK
    <3> QED BY <1>2, <3>3, GrownIsPrefix
  <2>2. CASE run[q].thread # t
    <3>1. checkpoint'[t] = checkpoint[t]
      BY <1>4, <2>2 DEF Saves, ThreadInv, RunnerInv, TypeOK
    <3> QED BY <1>2, <3>1, GrownIsPrefix
  <2> QED BY <2>1, <2>2
<1> QED BY <1>1, <1>3, <1>4, StepsOfThreads DEF ThreadStep, Loads, Picks, Rests

(* No text of a thread is ever lost, whatever fails, is cancelled or       *)
(* nudged, as long as no two runs have overlapped on it.                   *)
THEOREM ThreadsKeepTheirTexts == HistorySpec => ThreadGrows
<1>1. ThreadInv /\ [HistoryNext]_<<vars, contested>> =>
        [\A t \in Questions : t \notin contested' => IsPrefix(checkpoint[t], checkpoint'[t])]_vars
  BY ThreadsGrow
<1> QED BY <1>1, HistoryStarts, HistoryKeepsInv, PTL DEF HistorySpec, ThreadGrows
=============================================================================
