--------------------------- MODULE AgentToolsProofs ---------------------------
(***************************************************************************)
(* For any callers, windows, caps, delays and pool: the rolling budgets of *)
(* the Boursorama client hold, also among the tools of nam-agentic; and,   *)
(* for any tool calls and news writers that start together, every call     *)
(* gives back what it holds, no stored body is lost, and what an overlap   *)
(* can spoil is exactly what the history variables say.                    *)
(***************************************************************************)
EXTENDS MCAgentTools, TLAPS, FiniteSetTheorems, SequenceTheorems

Waits == [at : {"idle", "queued", "sent"}, until : Int]

ClientTypeOK ==
  /\ now \in Nat
  /\ http \in [Callers -> Waits]
  /\ sent \in Seq(Nat)
  /\ dropped \in 0 .. Len(sent)

(* Times are recorded in order, none of them ahead of the clock.           *)
InOrder ==
  \A i \in 1 .. Len(sent) :
    sent[i] <= now /\ \A j \in i .. Len(sent) : sent[i] <= sent[j]

(* What the deque has lost is out of both windows.                         *)
DroppedAreOld == \A i \in 1 .. dropped : now - sent[i] > Hour

(* Who pauses holds the semaphore: nobody else can record a time.          *)
Alone == \A c \in Callers : http[c].at = "sent" => semaphore = c

(* The last request but n lies further back than `window`.                 *)
Beyond(n, window) == Len(sent) >= n => now - sent[Len(sent) + 1 - n] > window

(* Why a request whose budget was checked before its pause may be charged  *)
(* after it: there was room, and since then the clock alone has moved.     *)
Room ==
  \A c \in Callers : http[c].at = "sent" =>
    /\ Beyond(MinuteCap, Minute)
    /\ Beyond(HourCap, Hour)
    /\ Len(sent) > 0 => http[c].until - sent[Len(sent)] >= MinDelay

ClientInv == ClientTypeOK /\ InOrder /\ DroppedAreOld /\ Alone /\ Room /\ RollingCaps

-----------------------------------------------------------------------------
LEMMA WindowTypes ==
  /\ Minute \in Nat /\ Hour \in Nat /\ Minute <= Hour
  /\ MinuteCap \in Nat \ {0} /\ HourCap \in Nat \ {0}
  /\ MinDelay \in Nat /\ MaxDelay \in Nat /\ NoCaller \notin Callers
BY ClientAssumption

(* A set of positions with all those from k to n has at least so many.     *)
LEMMA AtLeastAnInterval ==
  ASSUME NEW k \in Int, NEW n \in Int, k <= n,
         NEW m \in Int, NEW S \in SUBSET (m .. n), k .. n \subseteq S
  PROVE  Cardinality(S) >= n - k + 1
<1>1. IsFiniteSet(S)
  BY FS_Interval, FS_Subset
<1>2. Cardinality(k .. n) <= Cardinality(S)
  BY <1>1, FS_Subset
<1>3. Cardinality(k .. n) = n - k + 1
  BY FS_Interval
<1>4. Cardinality(S) \in Nat
  BY <1>1, FS_CardinalityType
<1> QED
  BY <1>2, <1>3, <1>4

(* Entries the loop of _check_budget drops are older than an hour.         *)
LEMMA PrunedAreOld ==
  ASSUME ClientTypeOK, DroppedAreOld, NEW n \in dropped .. Len(sent), Pruned(n)
  PROVE  \A i \in 1 .. n : now - sent[i] > Hour
<1> TAKE i \in 1 .. n
<1>1. CASE i <= dropped
  <2>1. i \in 1 .. dropped
    BY <1>1 DEF ClientTypeOK
  <2> QED
    BY <2>1 DEF DroppedAreOld
<1>2. CASE i > dropped
  <2>1. i \in dropped + 1 .. n
    BY <1>2 DEF ClientTypeOK
  <2> QED
    BY <2>1 DEF Pruned
<1> QED
  BY <1>1, <1>2 DEF ClientTypeOK

(* A budget that is not exhausted leaves room for one more in each window. *)
LEMMA BudgetLeavesRoom ==
  ASSUME ClientTypeOK, InOrder, DroppedAreOld,
         NEW n \in dropped .. Len(sent), Pruned(n), WithinBudget(n)
  PROVE  Beyond(MinuteCap, Minute) /\ Beyond(HourCap, Hour)
<1> DEFINE size == Len(sent)
           S == {i \in n + 1 .. size : now - sent[i] <= Minute}
<1>1. size \in Nat /\ n \in Nat /\ n <= size /\ now \in Nat
  BY DEF ClientTypeOK
<1>2. Beyond(HourCap, Hour)
  <2> SUFFICES ASSUME size >= HourCap PROVE now - sent[size + 1 - HourCap] > Hour
    BY DEF Beyond
  <2>1. size + 1 - HourCap \in 1 .. n
    BY <1>1, WindowTypes DEF WithinBudget
  <2> QED
    BY <2>1, PrunedAreOld
<1>3. Beyond(MinuteCap, Minute)
  <2> DEFINE k == size + 1 - MinuteCap
  <2> SUFFICES ASSUME size >= MinuteCap, ~(now - sent[k] > Minute) PROVE FALSE
    BY DEF Beyond
  <2>1. k \in 1 .. size /\ sent[k] \in Nat
    BY <1>1, WindowTypes DEF ClientTypeOK
  <2>2. k > n
    <3> SUFFICES ASSUME k \in 1 .. n PROVE FALSE
      BY <1>1, <2>1
    <3>1. now - sent[k] > Hour
      BY PrunedAreOld
    <3> QED
      BY <3>1, <1>1, <2>1, WindowTypes
  <2>3. k .. size \subseteq S
    <3> SUFFICES ASSUME NEW i \in k .. size PROVE i \in S
      OBVIOUS
    <3>1. i \in n + 1 .. size /\ i \in 1 .. size /\ sent[i] \in Nat
      BY <1>1, <2>1, <2>2 DEF ClientTypeOK
    <3>2. sent[k] <= sent[i]
      BY <2>1 DEF InOrder
    <3> QED
      BY <3>1, <3>2, <1>1, <2>1, WindowTypes
  <2>4. Cardinality(S) >= size - k + 1
    <3>1. S \in SUBSET (n + 1 .. size) /\ k <= size /\ k \in Int /\ size \in Int /\ n + 1 \in Int
      BY <1>1, <2>1
    <3> HIDE DEF S, k, size
    <3> QED
      BY <3>1, <2>3, AtLeastAnInterval
  <2>5. Cardinality(S) < MinuteCap
    BY DEF WithinBudget
  <2>6. Cardinality(S) \in Nat
    <3>1. S \in SUBSET (n + 1 .. size)
      OBVIOUS
    <3>2. IsFiniteSet(n + 1 .. size)
      BY <1>1, FS_Interval
    <3> HIDE DEF S
    <3>3. IsFiniteSet(S)
      BY <3>1, <3>2, FS_Subset
    <3> QED
      BY <3>3, FS_CardinalityType
  <2> HIDE DEF S
  <2> QED
    BY <2>4, <2>5, <2>6, <1>1, WindowTypes
<1> QED
  BY <1>2, <1>3

-----------------------------------------------------------------------------
LEMMA InitInv == ASSUME NEW ticks \in Nat PROVE ClientInit(ticks) => ClientInv
BY DEF ClientInit, ClientInv, ClientTypeOK, InOrder, DroppedAreOld, Alone, Room, RollingCaps, Waits, Idle

(* The properties of the record of times do not depend on who waits: a     *)
(* step of a caller that neither records nor begins a pause keeps them.    *)
LEMMA CallerMoves ==
  ASSUME ClientInv, NEW c \in Callers, NEW w \in Waits, w.at # "sent",
         http' = [http EXCEPT ![c] = w], semaphore' = semaphore \/ semaphore \in {c, NoCaller},
         now' = now, sent' = sent, dropped' \in 0 .. Len(sent), DroppedAreOld'
  PROVE  ClientInv'
<1> USE DEF ClientInv
<1>1. ClientTypeOK'
  BY DEF ClientTypeOK
<1>2. InOrder' /\ RollingCaps'
  BY DEF InOrder, RollingCaps
<1>3. \A d \in Callers : http'[d].at = "sent" => d # c /\ http'[d] = http[d]
  BY DEF ClientTypeOK
<1>4. Alone'
  BY <1>3, WindowTypes DEF Alone
<1>5. Room'
  BY <1>3 DEF Room, Beyond
<1> QED
  BY <1>1, <1>2, <1>4, <1>5

LEMMA AskKeeps == ASSUME ClientInv, NEW c \in Callers, Ask(c) PROVE ClientInv'
<1> DEFINE w == [at |-> "queued", until |-> 0]
<1>1. w \in Waits /\ w.at # "sent"
  BY DEF Waits
<1>2. http' = [http EXCEPT ![c] = w] /\ semaphore' = semaphore /\ now' = now /\ sent' = sent
      /\ dropped' = dropped
  BY DEF Ask
<1>3. DroppedAreOld' /\ dropped' \in 0 .. Len(sent)
  BY <1>2 DEF DroppedAreOld, ClientInv, ClientTypeOK
<1> HIDE DEF w
<1> QED
  BY <1>1, <1>2, <1>3, CallerMoves

LEMMA IdleType == Idle \in Waits /\ Idle.at = "idle"
BY DEF Idle, Waits

LEMMA LimitedKeeps == ASSUME ClientInv, NEW c \in Callers, Limited(c) PROVE ClientInv'
<1>1. PICK n \in dropped .. Len(sent) : Pruned(n) /\ dropped' = n
  BY DEF Limited
<1>2. http' = [http EXCEPT ![c] = Idle] /\ semaphore' = semaphore /\ now' = now /\ sent' = sent
  BY DEF Limited
<1>3. dropped' \in 0 .. Len(sent)
  BY <1>1 DEF ClientInv, ClientTypeOK
<1>4. DroppedAreOld'
  BY <1>1, <1>2, PrunedAreOld DEF DroppedAreOld, ClientInv
<1> QED
  BY <1>2, <1>3, <1>4, IdleType, CallerMoves

(* Broken and Cancelled leave the record as it is, and nobody pauses after *)
(* the holder of the semaphore has let go.                                 *)
LEMMA LetsGo ==
  ASSUME ClientInv, NEW c \in Callers, http' = [http EXCEPT ![c] = Idle],
         semaphore' = IF semaphore = c THEN NoCaller ELSE semaphore,
         now' = now, sent' = sent, dropped' = dropped
  PROVE  ClientInv'
<1>1. DroppedAreOld' /\ dropped' \in 0 .. Len(sent)
  BY DEF DroppedAreOld, ClientInv, ClientTypeOK
<1>2. semaphore' = semaphore \/ semaphore \in {c, NoCaller}
  OBVIOUS
<1> QED
  BY <1>1, <1>2, IdleType, CallerMoves

LEMMA BrokenRequestKeeps == ASSUME ClientInv, NEW c \in Callers, Broken(c) PROVE ClientInv'
<1>1. semaphore = c
  BY DEF Broken, Awake, ClientInv, Alone
<1> QED
  BY <1>1, LetsGo DEF Broken

LEMMA CancelledKeeps == ASSUME ClientInv, NEW c \in Callers, Cancelled(c) PROVE ClientInv'
BY LetsGo DEF Cancelled

LEMMA AdmitKeeps == ASSUME ClientInv, NEW c \in Callers, Admit(c) PROVE ClientInv'
<1> USE DEF ClientInv
<1>1. PICK n \in dropped .. Len(sent) : Pruned(n) /\ WithinBudget(n) /\ dropped' = n
  BY DEF Admit
<1>2. PICK delay \in MinDelay .. MaxDelay :
        http' = [http EXCEPT ![c] = [at |-> "sent", until |-> now + delay]]
  BY DEF Admit
<1>3. semaphore = NoCaller /\ semaphore' = c /\ now' = now /\ sent' = sent
  BY DEF Admit
<1>4. delay \in Nat /\ delay >= MinDelay
  BY <1>2, WindowTypes
<1>5. ClientTypeOK'
  <2>1. [at |-> "sent", until |-> now + delay] \in Waits
    BY <1>4 DEF ClientTypeOK, Waits
  <2> QED
    BY <2>1, <1>1, <1>2, <1>3 DEF ClientTypeOK
<1>6. InOrder' /\ RollingCaps'
  BY <1>3 DEF InOrder, RollingCaps
<1>7. DroppedAreOld'
  BY <1>1, <1>3, PrunedAreOld DEF DroppedAreOld
<1>8. \A d \in Callers : http'[d].at = "sent" => d = c /\ http'[d].until = now + delay
  BY <1>2, <1>3, WindowTypes DEF ClientTypeOK, Alone
<1>9. Alone'
  BY <1>3, <1>8 DEF Alone
<1>10. Room'
  <2>1. Beyond(MinuteCap, Minute) /\ Beyond(HourCap, Hour)
    BY <1>1, BudgetLeavesRoom
  <2>2. Len(sent) > 0 => now + delay - sent[Len(sent)] >= MinDelay
    BY <1>4, WindowTypes DEF ClientTypeOK, InOrder
  <2>3. Beyond(MinuteCap, Minute)' /\ Beyond(HourCap, Hour)'
    BY <2>1, <1>3 DEF Beyond
  <2>4. ASSUME NEW d \in Callers, http'[d].at = "sent", Len(sent') > 0
        PROVE  http'[d].until - sent'[Len(sent')] >= MinDelay
    <3>1. http'[d].until = now + delay
      BY <1>8, <2>4
    <3>2. Len(sent) > 0 /\ sent'[Len(sent')] = sent[Len(sent)]
      BY <1>3, <2>4
    <3>3. now \in Nat /\ delay \in Nat /\ sent[Len(sent)] \in Nat
      BY <1>4, <3>2 DEF ClientTypeOK
    <3> QED
      BY <3>1, <3>2, <3>3, <2>2, WindowTypes
  <2> QED
    BY <2>3, <2>4 DEF Room
<1> QED
  BY <1>5, <1>6, <1>7, <1>9, <1>10

LEMMA AnsweredKeeps == ASSUME ClientInv, NEW c \in Callers, Answered(c) PROVE ClientInv'
<1> DEFINE size == Len(sent)
<1>1. /\ http[c].at = "sent" /\ now >= http[c].until /\ semaphore = c
      /\ http' = [http EXCEPT ![c] = Idle] /\ now' = now /\ sent' = Append(sent, now)
      /\ dropped' = dropped
  BY DEF Answered, Awake, ClientInv, Alone
<1>2. /\ now \in Nat /\ sent \in Seq(Nat) /\ size \in Nat /\ http[c].until \in Int
      /\ \A i \in 1 .. size : sent[i] \in Nat
  BY DEF ClientInv, ClientTypeOK, Waits
<1>3. /\ Len(sent') = size + 1 /\ sent'[size + 1] = now
      /\ \A i \in 1 .. size : sent'[i] = sent[i]
  BY <1>1, <1>2
<1>4. ClientTypeOK'
  BY <1>1, <1>2, <1>3, IdleType DEF ClientInv, ClientTypeOK
<1>5. InOrder'
  BY <1>1, <1>2, <1>3 DEF ClientInv, InOrder
<1>6. DroppedAreOld'
  BY <1>1, <1>3 DEF ClientInv, ClientTypeOK, DroppedAreOld
<1>7. \A d \in Callers : http'[d].at # "sent"
  BY <1>1, IdleType DEF ClientInv, ClientTypeOK, Alone
<1>8. Alone' /\ Room'
  BY <1>7 DEF Alone, Room
<1>9. /\ Beyond(MinuteCap, Minute) /\ Beyond(HourCap, Hour)
      /\ size > 0 => now - sent[size] >= MinDelay
  BY <1>1, <1>2, WindowTypes DEF ClientInv, Room
<1>10. RollingCaps'
  <2> SUFFICES ASSUME NEW i \in 1 .. size + 1
               PROVE  /\ i > MinuteCap => sent'[i] - sent'[i - MinuteCap] > Minute
                      /\ i > HourCap => sent'[i] - sent'[i - HourCap] > Hour
                      /\ i > 1 => sent'[i] - sent'[i - 1] >= MinDelay
    BY <1>3 DEF RollingCaps
  <2>1. CASE i \in 1 .. size
    <3>1. ASSUME NEW n \in Nat \ {0}, i > n
          PROVE  sent'[i] - sent'[i - n] = sent[i] - sent[i - n]
      <4>1. i - n \in 1 .. size
        BY <1>2, <2>1, <3>1
      <4>2. sent'[i] = sent[i] /\ sent'[i - n] = sent[i - n]
        BY <1>3, <2>1, <4>1
      <4> QED
        BY <4>2
    <3>2. /\ i > MinuteCap => sent[i] - sent[i - MinuteCap] > Minute
          /\ i > HourCap => sent[i] - sent[i - HourCap] > Hour
          /\ i > 1 => sent[i] - sent[i - 1] >= MinDelay
      BY <2>1 DEF ClientInv, RollingCaps
    <3>3. i > MinuteCap => sent'[i] - sent'[i - MinuteCap] > Minute
      BY <3>1, <3>2, WindowTypes
    <3>4. i > HourCap => sent'[i] - sent'[i - HourCap] > Hour
      BY <3>1, <3>2, WindowTypes
    <3>5. i > 1 => sent'[i] - sent'[i - 1] >= MinDelay
      BY <3>1, <3>2
    <3> QED
      BY <3>3, <3>4, <3>5
  <2>2. CASE i = size + 1
    <3>1. \A n \in Nat \ {0} :
            i > n => size >= n /\ sent'[i] - sent'[i - n] = now - sent[size + 1 - n]
      <4>. SUFFICES ASSUME NEW n \in Nat \ {0}, i > n
                    PROVE  size >= n /\ sent'[i] - sent'[i - n] = now - sent[size + 1 - n]
        OBVIOUS
      <4>1. size >= n /\ i - n = size + 1 - n /\ size + 1 - n \in 1 .. size
        BY <2>2, <1>2
      <4>2. sent'[i] = now /\ sent'[i - n] = sent[size + 1 - n]
        BY <2>2, <1>3, <4>1
      <4>. QED  BY <4>1, <4>2
    <3>2. i > 1 => sent'[i] - sent'[i - 1] >= MinDelay
      BY <2>2, <1>2, <1>3, <1>9
    <3>3. /\ i > MinuteCap => sent'[i] - sent'[i - MinuteCap] > Minute
          /\ i > HourCap => sent'[i] - sent'[i - HourCap] > Hour
      BY <3>1, <1>9, WindowTypes DEF Beyond
    <3> QED
      BY <3>2, <3>3
  <2> QED
    BY <2>1, <2>2
<1> QED
  BY <1>4, <1>5, <1>6, <1>8, <1>10 DEF ClientInv

LEMMA TickKeeps == ASSUME ClientInv, Tick PROVE ClientInv'
<1> USE DEF ClientInv
<1>1. now' = now + 1 /\ semaphore' = semaphore /\ http' = http /\ sent' = sent /\ dropped' = dropped
  BY DEF Tick
<1>2. ClientTypeOK' /\ Alone' /\ RollingCaps'
  BY <1>1 DEF ClientTypeOK, Alone, RollingCaps
<1>3. \A i \in 1 .. Len(sent) : sent[i] \in Nat /\ now \in Nat
  BY DEF ClientTypeOK
<1>4. InOrder'
  BY <1>1, <1>3 DEF InOrder
<1>5. DroppedAreOld'
  BY <1>1, <1>3, WindowTypes DEF DroppedAreOld, ClientTypeOK
<1>6. \A n \in Nat \ {0} : Len(sent) >= n => sent[Len(sent) + 1 - n] \in Nat /\ now \in Nat
  <2>1. \A n \in Nat \ {0} : Len(sent) >= n => Len(sent) + 1 - n \in 1 .. Len(sent)
    BY DEF ClientTypeOK
  <2> QED
    BY <2>1, <1>3 DEF ClientTypeOK
<1>7. /\ Beyond(MinuteCap, Minute) => Beyond(MinuteCap, Minute)'
      /\ Beyond(HourCap, Hour) => Beyond(HourCap, Hour)'
  BY <1>1, <1>6, WindowTypes DEF Beyond
<1>8. Room'
  BY <1>1, <1>7 DEF Room
<1> QED
  BY <1>2, <1>4, <1>5, <1>8

LEMMA ClientStep == ClientInv /\ [ClientNext]_clientVars => ClientInv'
<1> SUFFICES ASSUME ClientInv, [ClientNext]_clientVars PROVE ClientInv'
  OBVIOUS
<1>1. CASE Tick
  BY <1>1, TickKeeps
<1>2. ASSUME NEW c \in Callers,
             Ask(c) \/ Admit(c) \/ Limited(c) \/ Answered(c) \/ Broken(c) \/ Cancelled(c)
      PROVE  ClientInv'
  BY <1>2, AskKeeps, AdmitKeeps, LimitedKeeps, AnsweredKeeps, BrokenRequestKeeps, CancelledKeeps
<1>3. CASE UNCHANGED clientVars
  BY <1>3 DEF clientVars, ClientInv, ClientTypeOK, InOrder, DroppedAreOld, Alone, Room, Beyond, RollingCaps
<1> QED
  BY <1>1, <1>2, <1>3 DEF ClientNext

(* No window of the client ever holds more charged requests than its cap,  *)
(* and no two are closer than the shortest pause, whoever asks and however *)
(* requests end.                                                           *)
THEOREM ClientKeepsCaps == ClientSpec => []RollingCaps
<1>1. (\E ticks \in Nat : ClientInit(ticks)) => ClientInv
  BY InitInv
<1>2. ClientInv => RollingCaps
  BY DEF ClientInv
<1> QED
  BY <1>1, <1>2, ClientStep, PTL DEF ClientSpec

-----------------------------------------------------------------------------
(* What the tools and the ingests do to the client are steps of it.        *)
LEMMA StepOfClient == ASSUME NEW c \in Callers, Step(c) \/ Stop(c) PROVE [ClientNext]_clientVars
<1> USE DEF ClientNext
<1>1. CASE ToolStep(c)
  BY <1>1 DEF ToolStep, YahooLookup, PoolTimeout, SearchAsks, SearchAnswered, SearchFails
<1>2. CASE WriterStep(c)
  BY <1>2 DEF WriterStep, FetchAsks, FetchAdmitted, FetchFails, Fetched, Read, Embed, Insert, Commit,
              DeadlockVictim, NoConnection
<1>3. CASE Stop(c)
  BY <1>3 DEF Stop, Cancel, Abandon
<1> QED
  BY <1>1, <1>2, <1>3 DEF Step

LEMMA ToolsStepOfClient == [ToolsNext]_toolsVars => [ClientNext]_clientVars
<1> SUFFICES ASSUME [ToolsNext]_toolsVars PROVE [ClientNext]_clientVars
  OBVIOUS
<1>1. CASE UNCHANGED toolsVars
  BY <1>1 DEF toolsVars
<1>2. CASE Tick
  BY <1>2 DEF ClientNext
<1> QED
  BY <1>1, <1>2, StepOfClient DEF ToolsNext

(* The same among any tool calls and ingests of nam-agentic.               *)
THEOREM ToolsKeepCaps ==
  ASSUME NEW ticks \in Nat
  PROVE  ClientInit(ticks) /\ [][ToolsNext]_toolsVars => []RollingCaps
<1>1. ClientInit(ticks) => ClientInv
  BY InitInv
<1>2. ClientInv /\ [ToolsNext]_toolsVars => ClientInv'
  BY ClientStep, ToolsStepOfClient
<1>3. ClientInv => RollingCaps
  BY DEF ClientInv
<1> QED
  BY <1>1, <1>2, <1>3, PTL

-----------------------------------------------------------------------------
(* The tools and the writers.                                              *)
Listing(s) == s \in Seq({s[k] : k \in DOMAIN s})

HeldBy(c) == {k \in {1, 2} : <<c, k>> \in held}

(* A tool call, wherever it is, and the connections it then holds.         *)
CallOk(r) ==
  /\ r = [op |-> r.op, column |-> r.column, todo |-> r.todo, symbol |-> r.symbol, at |-> r.at,
          row |-> r.row, tries |-> r.tries, missing |-> r.missing]
  /\ r.column \in Columns /\ Listing(r.todo)
  /\ r.missing \in Nat /\ r.missing + Len(r.todo) <= Len(Lines)
  /\ r.at \in {"list", "price", "load", "lookup", "quote", "get", "write", "refresh", "done", "error"}
  /\ r.at \notin {"done", "error"} => r.todo # <<>>
  /\ r.op = "search" => r.at # "quote"
  /\ r.at \in {"list", "price"} => r.op = "positions"
  /\ r.at \in {"get", "write", "refresh"} => r.op = "override"
  /\ r.op = "override" => r.symbol \in Manual /\ r.at \notin {"load", "lookup", "quote"}

Sessions(r) ==
  IF r.at = "lookup" THEN Inner(r)
  ELSE IF r.at \in {"load", "quote"} THEN Outer(r)
  ELSE IF r.at = "write" THEN {1} ELSE {}

(* A deep read commits at most once.                                       *)
StoresOnce(w) ==
  w.op = "deep" => (w.at = "fetch" => w.feeds \in {0, 1})
                   /\ (w.at \in {"read", "embed", "insert", "commit"} => w.feeds = 1)

(* A writer, and what its transaction has written.                         *)
WriterOk(c, w) ==
  /\ w = [op |-> w.op, at |-> w.at, feeds |-> w.feeds, todo |-> w.todo, row |-> w.row,
          vector |-> w.vector, writes |-> w.writes]
  /\ w.todo \in Seq(Urls)
  /\ w.at \in {"fetch", "read", "embed", "insert", "commit", "done", "error"}
  /\ w.at \in {"read", "embed", "insert"} \/ (w.op = "deep" /\ w.at = "fetch") => w.todo # <<>>
  /\ StoresOnce(w)
  /\ w.at \in {"embed", "insert"} => w.row \in NewsRow \cup {None}
  /\ w.at = "insert" => w.vector = <<c, IF w.op = "deep" THEN c
                                        ELSE IF w.row = None THEN None ELSE w.row.body>>
  /\ DOMAIN w.writes \subseteq Urls /\ w.writes \in [DOMAIN w.writes -> NewsRow]
  /\ \A u \in DOMAIN w.writes : w.writes[u].title = c
  /\ DOMAIN w.writes # {} => w.at \in {"read", "embed", "insert", "commit"}

WriterHolds(c, w) ==
  \/ w.at \in {"embed", "insert", "commit"} /\ HeldBy(c) = {1}
  \/ w.at = "read" /\ HeldBy(c) \in {{}, {1}} /\ (DOMAIN w.writes # {} => HeldBy(c) = {1})
  \/ w.at \in {"fetch", "done", "error"} /\ HeldBy(c) = {}

PoolInv ==
  /\ DOMAIN call \subseteq Callers /\ DOMAIN writer \subseteq Callers /\ DOMAIN call \cap DOMAIN writer = {}
  /\ held \subseteq Callers \X {1, 2} /\ IsFiniteSet(held) /\ Cardinality(held) <= PoolSize
  /\ \A c \in Callers : HeldBy(c) # {} => c \in DOMAIN call \cup DOMAIN writer

IndicesOk == indices \in [DOMAIN indices -> [Columns -> Found \cup Manual \cup {None}]]

CallsOk == \A c \in DOMAIN call : CallOk(call[c]) /\ HeldBy(c) = Sessions(call[c])

WritersOk == \A c \in DOMAIN writer : WriterOk(c, writer[c]) /\ WriterHolds(c, writer[c])

NewsOk ==
  /\ DOMAIN news \subseteq Urls /\ news \in [DOMAIN news -> NewsRow]
  /\ \A u \in DOMAIN news : news[u].title \in DOMAIN writer

(* Row locks: two transactions never hold versions of the same row, and a  *)
(* version never drops a body that is stored.                              *)
LocksOk ==
  /\ \A c, d \in DOMAIN writer : c # d => DOMAIN writer[c].writes \cap DOMAIN writer[d].writes = {}
  /\ \A c \in DOMAIN writer : \A u \in DOMAIN writer[c].writes \cap DOMAIN news :
       news[u].body # None => writer[c].writes[u].body # None

(* A caller is in the client only from the two places that call it.        *)
HttpOk ==
  /\ http \in [Callers -> Waits]
  /\ \A c \in Callers : http[c].at # "idle" => Searches(c) \/ Writing(c, "fetch")
  /\ \A c \in Callers : semaphore = c => http[c].at = "sent"

ToolsInv == PoolInv /\ IndicesOk /\ CallsOk /\ WritersOk /\ NewsOk /\ LocksOk /\ HttpOk

(* Unless its writer was crossed, what it has written embeds what it shows.*)
VersionsMatch ==
  \A c \in DOMAIN writer : \A u \in DOMAIN writer[c].writes :
    <<c, u>> \notin crossed =>
      writer[c].writes[u].vector = <<c, writer[c].writes[u].body>>

(* A lookup of a symbol that was imposed meanwhile is on record.           *)
LookupsRecorded ==
  \A c \in DOMAIN call :
    At(c, "lookup") /\ Known(call[c]) /\ Row(call[c]) \in Manual => <<c, Head(call[c].todo)>> \in inflight

-----------------------------------------------------------------------------
LEMMA ListingTail ==
  ASSUME NEW s, Listing(s), s # <<>>
  PROVE  Listing(Tail(s)) /\ Len(s) \in Nat \ {0} /\ Len(Tail(s)) = Len(s) - 1
         /\ (Len(s) # 1 => Tail(s) # <<>>)
<1>. DEFINE S == {s[k] : k \in DOMAIN s}
<1>1. s \in Seq(S)
  BY DEF Listing
<1>2. Len(s) \in Nat \ {0} /\ Len(Tail(s)) = Len(s) - 1 /\ Tail(s) \in Seq(S)
  BY <1>1
<1>3. Tail(s) \in Seq({Tail(s)[k] : k \in DOMAIN Tail(s)})
  <2>. DEFINE t == Tail(s)
              T == {t[k] : k \in DOMAIN t}
  <2>1. Len(t) \in Nat /\ t \in [1 .. Len(t) -> S] /\ DOMAIN t = 1 .. Len(t)
    BY <1>2, LenProperties
  <2>2. t \in [1 .. Len(t) -> T]
    BY <2>1
  <2>. HIDE DEF t, T
  <2>3. t \in Seq(T)
    BY <2>1, <2>2, SeqDef
  <2>. QED  BY <2>3 DEF t, T
<1>. QED  BY <1>2, <1>3 DEF Listing

LEMMA PairsOf == ASSUME NEW c, NEW S PROVE {c} \X S = {<<c, k>> : k \in S}
OBVIOUS

(* One caller exchanges the connections it holds for the sessions S, at    *)
(* most one more than before, and only when the pool has one.              *)
MayHold(c, S) == S \subseteq HeldBy(c) \/ (HasFree /\ \E k \in {1, 2} : S \subseteq HeldBy(c) \cup {k})

LEMMA HeldMoves ==
  ASSUME PoolInv, NEW c \in DOMAIN call \cup DOMAIN writer, NEW S \in SUBSET {1, 2}, MayHold(c, S),
         held' = {h \in held : h[1] # c} \cup ({c} \X S)
  PROVE  /\ held' \subseteq Callers \X {1, 2} /\ IsFiniteSet(held') /\ Cardinality(held') <= PoolSize
         /\ HeldBy(c)' = S /\ \A d \in Callers \ {c} : HeldBy(d)' = HeldBy(d)
<1>1. c \in Callers /\ held \subseteq Callers \X {1, 2} /\ IsFiniteSet(held)
  BY DEF PoolInv
<1>2. held' \subseteq Callers \X {1, 2}
  BY <1>1
<1>3. HeldBy(c)' = S /\ \A d \in Callers \ {c} : HeldBy(d)' = HeldBy(d)
  BY <1>1 DEF HeldBy
<1>4. IsFiniteSet(held') /\ Cardinality(held') <= PoolSize
  <2>1. CASE S \subseteq HeldBy(c)
    <3>1. held' \subseteq held
      <4>1. ASSUME NEW k \in S
            PROVE  <<c, k>> \in held
        BY <2>1 DEF HeldBy
      <4>2. {c} \X S = {<<c, k>> : k \in S}
        BY PairsOf
      <4>3. {c} \X S \subseteq held
        BY <4>1, <4>2
      <4>. QED  BY <4>3
    <3>2. IsFiniteSet(held') /\ Cardinality(held') <= Cardinality(held)
      BY <1>1, <3>1, FS_Subset
    <3>3. Cardinality(held') \in Nat /\ Cardinality(held) \in Nat
      BY <1>1, <3>2, FS_CardinalityType
    <3>. QED  BY <3>2, <3>3, ResolutionAssumption DEF PoolInv
  <2>2. ASSUME HasFree, NEW k \in {1, 2}, S \subseteq HeldBy(c) \cup {k}
        PROVE  IsFiniteSet(held') /\ Cardinality(held') <= PoolSize
    <3>1. held' \subseteq held \cup {<<c, k>>}
      <4>1. ASSUME NEW m \in S
            PROVE  <<c, m>> \in held \cup {<<c, k>>}
        BY <2>2 DEF HeldBy
      <4>2. {c} \X S = {<<c, m>> : m \in S}
        BY PairsOf
      <4>3. {c} \X S \subseteq held \cup {<<c, k>>}
        BY <4>1, <4>2
      <4>. QED  BY <4>3
    <3>2. /\ IsFiniteSet(held \cup {<<c, k>>}) /\ Cardinality(held) \in Nat
          /\ Cardinality(held \cup {<<c, k>>}) <= Cardinality(held) + 1
      <4>1. Cardinality(held) \in Nat
        BY <1>1, FS_CardinalityType
      <4>2. /\ IsFiniteSet(held \cup {<<c, k>>})
            /\ Cardinality(held \cup {<<c, k>>}) = IF <<c, k>> \in held THEN Cardinality(held)
                                                   ELSE Cardinality(held) + 1
        BY <1>1, FS_AddElement, Zenon
      <4>. QED  BY <4>1, <4>2
    <3>3. IsFiniteSet(held') /\ Cardinality(held') <= Cardinality(held \cup {<<c, k>>})
      BY <3>1, <3>2, FS_Subset
    <3>4. Cardinality(held') \in Nat /\ Cardinality(held \cup {<<c, k>>}) \in Nat
      BY <3>2, <3>3, FS_CardinalityType
    <3>. QED  BY <2>2, <3>2, <3>3, <3>4, ResolutionAssumption DEF HasFree
  <2>. QED  BY <2>1, <2>2 DEF MayHold
<1>. QED  BY <1>2, <1>3, <1>4

-----------------------------------------------------------------------------
(* A step of one caller in the client.                                     *)
OnlyCaller(c) ==
  /\ http' \in [Callers -> Waits] /\ \A d \in Callers \ {c} : http'[d] = http[d]
  /\ semaphore' = c => http'[c].at = "sent"
  /\ \A d \in Callers \ {c} : semaphore' = d => semaphore = d

LEMMA AskMoves ==
  ASSUME HttpOk, NEW c \in Callers, Ask(c)
  PROVE  OnlyCaller(c)
<1>1. [at |-> "queued", until |-> 0] \in Waits
  BY DEF Waits
<1>. QED  BY <1>1 DEF Ask, OnlyCaller, HttpOk

LEMMA AdmitMoves ==
  ASSUME ClientTypeOK, HttpOk, NEW c \in Callers, Admit(c)
  PROVE  OnlyCaller(c)
<1>1. PICK delay \in MinDelay .. MaxDelay :
        http' = [http EXCEPT ![c] = [at |-> "sent", until |-> now + delay]]
  BY DEF Admit
<1>2. [at |-> "sent", until |-> now + delay] \in Waits
  BY WindowTypes DEF ClientTypeOK, Waits
<1>. QED  BY <1>1, <1>2 DEF Admit, OnlyCaller, HttpOk

LEMMA IdleMoves ==
  ASSUME HttpOk, NEW c \in Callers,
         Limited(c) \/ Answered(c) \/ Broken(c) \/ Cancelled(c)
         \/ (UNCHANGED clientVars /\ http[c].at = "idle")
  PROVE  OnlyCaller(c) /\ http'[c].at = "idle"
<1>1. ASSUME http' = [http EXCEPT ![c] = Idle], semaphore' = NoCaller \/ (semaphore' = semaphore /\ semaphore # c)
      PROVE  OnlyCaller(c) /\ http'[c].at = "idle"
  BY <1>1, IdleType, WindowTypes DEF OnlyCaller, HttpOk
<1>2. CASE Limited(c) \/ Answered(c) \/ Broken(c) \/ Cancelled(c)
  BY <1>1, <1>2, WindowTypes DEF Limited, Answered, Broken, Cancelled
<1>3. CASE UNCHANGED clientVars /\ http[c].at = "idle"
  BY <1>3 DEF clientVars, OnlyCaller, HttpOk
<1>. QED  BY <1>2, <1>3

-----------------------------------------------------------------------------
(* A step of a tool call: from its place and connections to others.        *)
LEMMA CallMoves ==
  ASSUME ToolsInv, NEW c \in DOMAIN call, NEW r, CallOk(r), Goto(c, r, Sessions(r)),
         MayHold(c, Sessions(r)), IndicesOk', UNCHANGED newsVars, OnlyCaller(c),
         http'[c].at # "idle" => r.at = "lookup" /\ r.column = "boursorama_ticker"
  PROVE  ToolsInv' /\ call'[c] = r /\ DOMAIN call' = DOMAIN call
         /\ \A d \in DOMAIN call : d # c => call'[d] = call[d]
<1>. USE DEF ToolsInv
<1>1. c \in Callers /\ c \notin DOMAIN writer
  BY DEF PoolInv
<1>2. call'[c] = r /\ DOMAIN call' = DOMAIN call /\ \A d \in DOMAIN call : d # c => call'[d] = call[d]
  BY DEF Goto
<1>3. Sessions(r) \in SUBSET {1, 2}
  BY DEF Sessions, Inner, Outer
<1>4. /\ held' \subseteq Callers \X {1, 2} /\ IsFiniteSet(held') /\ Cardinality(held') <= PoolSize
      /\ HeldBy(c)' = Sessions(r) /\ \A d \in Callers \ {c} : HeldBy(d)' = HeldBy(d)
  BY <1>3, HeldMoves DEF Goto
<1>5. news' = news /\ writer' = writer
  BY DEF newsVars
<1>6. PoolInv'
  <2>1. \A d \in Callers : HeldBy(d)' # {} => d \in DOMAIN call' \cup DOMAIN writer'
    BY <1>2, <1>4, <1>5 DEF PoolInv
  <2>. QED  BY <1>2, <1>4, <1>5, <2>1 DEF PoolInv
<1>7. CallsOk'
  <2>. SUFFICES ASSUME NEW d \in DOMAIN call'
                PROVE  CallOk(call'[d]) /\ HeldBy(d)' = Sessions(call'[d])
    BY DEF CallsOk, CallOk, Sessions, Inner, Outer
  <2>1. CASE d = c
    BY <1>2, <1>4, <2>1
  <2>2. CASE d # c
    <3>1. d \in DOMAIN call /\ d \in Callers \ {c} /\ call'[d] = call[d]
      BY <1>2, <2>2 DEF PoolInv
    <3>2. HeldBy(d)' = HeldBy(d)
      BY <1>4, <3>1
    <3>3. CallOk(call[d]) /\ HeldBy(d) = Sessions(call[d])
      BY <3>1 DEF CallsOk
    <3>. QED  BY <3>1, <3>2, <3>3
  <2>. QED  BY <2>1, <2>2
<1>8. WritersOk'
  <2>. SUFFICES ASSUME NEW d \in DOMAIN writer
                PROVE  WriterOk(d, writer[d])' /\ WriterHolds(d, writer[d])'
    BY <1>5 DEF WritersOk
  <2>1. HeldBy(d)' = HeldBy(d)
    BY <1>1, <1>4 DEF PoolInv
  <2>2. WriterOk(d, writer[d]) /\ WriterHolds(d, writer[d])
    BY DEF WritersOk
  <2>3. WriterOk(d, writer[d])'
    BY <1>5, <2>2 DEF WriterOk
  <2>4. WriterHolds(d, writer[d])'
    BY <1>5, <2>1, <2>2 DEF WriterHolds
  <2>. QED  BY <2>3, <2>4
<1>9. NewsOk' /\ LocksOk'
  BY <1>5 DEF NewsOk, LocksOk
<1>10. HttpOk'
  <2>1. ASSUME NEW d \in Callers, http'[d].at # "idle"
        PROVE  Searches(d)' \/ Writing(d, "fetch")'
    <3>1. CASE d = c
      BY <1>2, <2>1, <3>1 DEF Searches, At
    <3>2. CASE d # c
      <4>1. http'[d] = http[d]
        BY <3>2 DEF OnlyCaller
      <4>2. Searches(d) \/ Writing(d, "fetch")
        BY <2>1, <4>1 DEF HttpOk
      <4>. QED  BY <1>2, <1>5, <3>2, <4>2 DEF Searches, At, Writing
    <3>. QED  BY <3>1, <3>2
  <2>2. ASSUME NEW d \in Callers, semaphore' = d
        PROVE  http'[d].at = "sent"
    BY <2>2 DEF OnlyCaller, HttpOk
  <2>. QED  BY <2>1, <2>2 DEF HttpOk, OnlyCaller
<1>. QED  BY <1>2, <1>6, <1>7, <1>8, <1>9, <1>10

(* A call at a place outside the client is idle in it.                     *)
LEMMA IdleThere ==
  ASSUME ToolsInv, NEW c \in DOMAIN call, call[c].at # "lookup" \/ call[c].column # "boursorama_ticker",
         UNCHANGED clientVars
  PROVE  OnlyCaller(c) /\ http'[c].at = "idle" /\ c \in Callers
<1>1. c \in Callers /\ c \notin DOMAIN writer /\ HttpOk
  BY DEF ToolsInv, PoolInv
<1>2. http[c].at = "idle"
  BY <1>1 DEF HttpOk, Searches, At, Writing
<1>. QED  BY <1>1, <1>2, IdleMoves

LEMMA CallFields ==
  ASSUME ToolsInv, NEW c \in DOMAIN call
  PROVE  CallOk(call[c]) /\ HeldBy(c) = Sessions(call[c]) /\ c \in Callers
BY DEF ToolsInv, CallsOk, PoolInv

(* The record of a call that goes elsewhere with the same arguments.       *)
LEMMA Elsewhere ==
  ASSUME NEW r, CallOk(r), r.todo # <<>>,
         NEW at \in {"load", "lookup", "quote", "refresh", "price", "write", "done", "error"}, NEW tries, NEW row,
         r.op = "search" => at # "quote",
         at = "price" => r.op = "positions", at \in {"write", "refresh"} => r.op = "override",
         at \in {"load", "lookup", "quote"} => r.op # "override"
  PROVE  /\ CallOk([r EXCEPT !.at = at, !.tries = tries]) /\ CallOk([r EXCEPT !.at = at, !.row = row])
         /\ CallOk([r EXCEPT !.at = at]) /\ CallOk([r EXCEPT !.tries = tries])
<1>. DEFINE T(a, b, t) == [op |-> r.op, column |-> r.column, todo |-> r.todo, symbol |-> r.symbol, at |-> a,
                           row |-> b, tries |-> t, missing |-> r.missing]
<1>1. r = T(r.at, r.row, r.tries)
  BY DEF CallOk
<1>. DEFINE v == [r EXCEPT !.at = at]
<1>2. v = T(at, r.row, r.tries) /\ [r EXCEPT !.tries = tries] = T(r.at, r.row, tries)
  BY <1>1
<1>4. /\ [r EXCEPT !.at = at, !.tries = tries] = [v EXCEPT !.tries = tries]
      /\ [r EXCEPT !.at = at, !.row = row] = [v EXCEPT !.row = row]
  BY <1>1
<1>5. [v EXCEPT !.tries = tries] = T(at, r.row, tries) /\ [v EXCEPT !.row = row] = T(at, row, r.tries)
  <2>. HIDE DEF v
  <2>. QED  BY <1>2
<1>3. ASSUME NEW b, NEW t
      PROVE  CallOk(T(at, b, t)) /\ CallOk(T(r.at, b, t))
  BY <1>3 DEF CallOk
<1>. HIDE DEF T
<1>. QED  BY <1>2, <1>3, <1>4, <1>5

(* A caller goes to a place its connections allow.                         *)
Goes(c) ==
  \E r : CallOk(r) /\ Goto(c, r, Sessions(r)) /\ MayHold(c, Sessions(r))

LEMMA IdleGoes ==
  ASSUME ToolsInv, NEW c \in DOMAIN call, Goes(c), IndicesOk', UNCHANGED newsVars, OnlyCaller(c),
         http'[c].at = "idle"
  PROVE  ToolsInv'
BY CallMoves DEF Goes

LEMMA FailsGoes ==
  ASSUME ToolsInv, NEW c \in DOMAIN call, call[c].at \notin {"done", "error"}, Fails(c)
  PROVE  Goes(c)
<1>. DEFINE r == [call[c] EXCEPT !.at = "error"]
<1>1. CallOk(call[c]) /\ call[c].todo # <<>>
  BY CallFields DEF CallOk
<1>2. CallOk(r)
  BY <1>1, Elsewhere
<1>3. r.at = "error"
  BY <1>1 DEF CallOk
<1>4. Goto(c, r, {})
  BY DEF Fails, Move
<1>. HIDE DEF r
<1>5. Sessions(r) = {}
  BY <1>3 DEF Sessions
<1>. QED  BY <1>2, <1>4, <1>5 DEF Goes, MayHold

(* To another place with the arguments it has.                             *)
LEMMA MoveGoes ==
  ASSUME ToolsInv, NEW c \in DOMAIN call, call[c].at \notin {"done", "error"},
         NEW at \in {"load", "quote", "refresh", "price", "done"}, NEW S, Move(c, at, S),
         call[c].op = "search" => at # "quote",
         at = "price" => call[c].op = "positions", at = "refresh" => call[c].op = "override",
         at \in {"load", "quote"} => call[c].op # "override",
         S = IF at \in {"load", "quote"} THEN Outer(call[c]) ELSE {}, MayHold(c, S)
  PROVE  Goes(c)
<1>. DEFINE r == [call[c] EXCEPT !.at = at]
<1>1. CallOk(call[c]) /\ call[c].todo # <<>>
  BY CallFields DEF CallOk
<1>2. CallOk(r)
  BY <1>1, Elsewhere
<1>3. r.at = at /\ r.op = call[c].op
  BY <1>1 DEF CallOk
<1>4. Goto(c, r, S)
  BY DEF Move
<1>. HIDE DEF r
<1>5. Sessions(r) = S
  BY <1>3 DEF Sessions, Outer, Inner
<1>. QED  BY <1>2, <1>4, <1>5 DEF Goes

(* Three fields of the record of a call change.                            *)
LEMMA CallRecord ==
  ASSUME NEW p, NEW todo, NEW missing, NEW at,
         p = [op |-> p.op, column |-> p.column, todo |-> p.todo, symbol |-> p.symbol, at |-> p.at,
              row |-> p.row, tries |-> p.tries, missing |-> p.missing]
  PROVE  [p EXCEPT !.todo = todo, !.missing = missing, !.at = at] =
         [op |-> p.op, column |-> p.column, todo |-> todo, symbol |-> p.symbol, at |-> at,
          row |-> p.row, tries |-> p.tries, missing |-> missing]
<1>. DEFINE a == [p EXCEPT !.todo = todo]
            b == [a EXCEPT !.missing = missing]
<1>1. [p EXCEPT !.todo = todo, !.missing = missing, !.at = at] = [b EXCEPT !.at = at]
  OBVIOUS
<1>2. a = [op |-> p.op, column |-> p.column, todo |-> todo, symbol |-> p.symbol, at |-> p.at,
           row |-> p.row, tries |-> p.tries, missing |-> p.missing]
  OBVIOUS
<1>. HIDE DEF a
<1>3. b = [op |-> p.op, column |-> p.column, todo |-> todo, symbol |-> p.symbol, at |-> p.at,
           row |-> p.row, tries |-> p.tries, missing |-> missing]
  BY <1>2
<1>. HIDE DEF b
<1>4. [b EXCEPT !.at = at] =
        [op |-> p.op, column |-> p.column, todo |-> todo, symbol |-> p.symbol, at |-> at,
         row |-> p.row, tries |-> p.tries, missing |-> missing]
  BY <1>3
<1>. QED  BY <1>1, <1>4

LEMMA NextLineGoes ==
  ASSUME ToolsInv, NEW c \in DOMAIN call, call[c].at \notin {"done", "error"},
         call[c].op = "positions", NEW unpriced \in {0, 1}, NextLine(c, unpriced)
  PROVE  Goes(c)
<1>. DEFINE p  == call[c]
            at == IF Len(p.todo) = 1 THEN "done" ELSE "price"
            r  == [p EXCEPT !.todo = Tail(@), !.missing = @ + unpriced, !.at = at]
            t  == [op |-> p.op, column |-> p.column, todo |-> Tail(p.todo), symbol |-> p.symbol, at |-> at,
                   row |-> p.row, tries |-> p.tries, missing |-> p.missing + unpriced]
<1>1. CallOk(p) /\ p.todo # <<>>
  BY CallFields DEF CallOk
<1>2. /\ Listing(Tail(p.todo)) /\ Len(p.todo) \in Nat \ {0} /\ Len(Tail(p.todo)) = Len(p.todo) - 1
      /\ (Len(p.todo) # 1 => Tail(p.todo) # <<>>)
  BY <1>1, ListingTail DEF CallOk
<1>3. r = t
  <2>1. p = [op |-> p.op, column |-> p.column, todo |-> p.todo, symbol |-> p.symbol, at |-> p.at,
             row |-> p.row, tries |-> p.tries, missing |-> p.missing]
    BY <1>1 DEF CallOk
  <2>2. r = [p EXCEPT !.todo = Tail(p.todo), !.missing = p.missing + unpriced, !.at = at]
    OBVIOUS
  <2>. HIDE DEF p, r, at
  <2>. QED  BY <2>1, <2>2, CallRecord
<1>4. Goto(c, r, {})
  BY DEF NextLine
<1>5. p.missing + unpriced \in Nat /\ p.missing + unpriced + Len(Tail(p.todo)) <= Len(Lines)
  <2>1. p.missing \in Nat /\ p.missing + Len(p.todo) <= Len(Lines)
    BY <1>1 DEF CallOk
  <2>2. Len(Lines) \in Nat
    BY ResolutionAssumption
  <2>. QED  BY <1>2, <2>1, <2>2
<1>6. CallOk(t) /\ Sessions(t) = {}
  <2>1. t.at \in {"done", "price"} /\ (t.at = "price" => t.todo # <<>>) /\ t.op = "positions"
    BY <1>2
  <2>2. t.todo = Tail(p.todo) /\ t.missing = p.missing + unpriced /\ t.column = p.column
    OBVIOUS
  <2>3. t = [op |-> t.op, column |-> t.column, todo |-> t.todo, symbol |-> t.symbol, at |-> t.at,
             row |-> t.row, tries |-> t.tries, missing |-> t.missing]
    OBVIOUS
  <2>4. p.column \in Columns
    BY <1>1 DEF CallOk
  <2>. HIDE DEF t
  <2>. QED  BY <1>2, <1>5, <2>1, <2>2, <2>3, <2>4 DEF CallOk, Sessions
<1>. QED  BY <1>3, <1>4, <1>6 DEF Goes, MayHold

LEMMA ResolvedGoes ==
  ASSUME ToolsInv, NEW c \in DOMAIN call, call[c].at \in {"load", "lookup"}, Resolved(c)
  PROVE  Goes(c)
<1>1. CallOk(call[c]) /\ HeldBy(c) = Sessions(call[c])
  BY CallFields
<1>2. Outer(call[c]) \subseteq HeldBy(c)
  BY <1>1 DEF Sessions, Outer
<1>3. CASE call[c].op = "search"
  <2>1. Outer(call[c]) = {}
    BY <1>3 DEF Outer, Inner
  <2>2. Move(c, "done", {})
    BY <1>3, <2>1 DEF Resolved
  <2>. QED  BY <2>2, MoveGoes DEF MayHold
<1>4. CASE call[c].op # "search"
  <2>1. Move(c, "quote", Outer(call[c]))
    BY <1>4 DEF Resolved
  <2>2. call[c].op # "override"
    BY <1>1 DEF CallOk
  <2>. QED  BY <1>2, <1>4, <2>1, <2>2, MoveGoes DEF MayHold
<1>. QED  BY <1>3, <1>4

-----------------------------------------------------------------------------
LEMMA InCallers == ASSUME ToolsInv, NEW c, c \in DOMAIN call PROVE c \in Callers
BY DEF ToolsInv, PoolInv

(* Steps that neither call the client nor write.                           *)
LEMMA PlainKeeps ==
  ASSUME ToolsInv, NEW c \in DOMAIN call, Goes(c), UNCHANGED <<clientVars, newsVars>>, IndicesOk',
         call[c].at # "lookup" \/ call[c].column # "boursorama_ticker"
  PROVE  ToolsInv'
BY IdleThere, IdleGoes

LEMMA ListKeeps ==
  ASSUME ToolsInv, NEW c, List(c), UNCHANGED <<clientVars, newsVars>>
  PROVE  ToolsInv'
<1>1. c \in DOMAIN call /\ call[c].at = "list" /\ Move(c, "price", {}) /\ indices' = indices
  BY DEF List, At
<1>2. call[c].op = "positions"
  BY <1>1, CallFields DEF CallOk
<1>3. Goes(c)
  BY <1>1, <1>2, MoveGoes DEF MayHold
<1>. QED  BY <1>1, <1>3, PlainKeeps DEF ToolsInv, IndicesOk

LEMMA PriceKeeps ==
  ASSUME ToolsInv, NEW c, Price(c), UNCHANGED <<clientVars, newsVars>>
  PROVE  ToolsInv'
<1>. DEFINE at == IF Row(call[c]) = None THEN "load" ELSE "quote"
<1>1. c \in DOMAIN call /\ call[c].at = "price" /\ HasFree /\ Move(c, at, {1}) /\ indices' = indices
  BY DEF Price, At
<1>2. call[c].op = "positions" /\ HeldBy(c) = {}
  BY <1>1, CallFields DEF CallOk, Sessions
<1>3. Outer(call[c]) = {1} /\ MayHold(c, {1})
  BY <1>1, <1>2 DEF Outer, Inner, MayHold
<1>4. Goes(c)
  <2>1. at \in {"load", "quote"}
    OBVIOUS
  <2>. HIDE DEF at
  <2>. QED  BY <1>1, <1>2, <1>3, <2>1, MoveGoes
<1>. QED  BY <1>1, <1>4, PlainKeeps DEF ToolsInv, IndicesOk

(* The lookup begins: one more connection.                                 *)
LEMMA LoadGoes ==
  ASSUME ToolsInv, NEW c \in DOMAIN call, call[c].at = "load", HasFree,
         Goto(c, [call[c] EXCEPT !.at = "lookup", !.tries = 1], Inner(call[c]))
  PROVE  Goes(c)
<1>. DEFINE r == [call[c] EXCEPT !.at = "lookup", !.tries = 1]
<1>1. CallOk(call[c]) /\ call[c].todo # <<>> /\ HeldBy(c) = Outer(call[c]) /\ call[c].op # "override"
  BY CallFields DEF CallOk, Sessions
<1>2. CallOk(r)
  BY <1>1, Elsewhere
<1>3. r.at = "lookup" /\ r.op = call[c].op
  BY <1>1 DEF CallOk
<1>. HIDE DEF r
<1>4. Sessions(r) = Inner(call[c])
  BY <1>3 DEF Sessions, Inner
<1>5. MayHold(c, Inner(call[c]))
  BY <1>1 DEF MayHold, Outer, Inner
<1>6. Goto(c, r, Inner(call[c]))
  BY DEF r
<1>. QED  BY <1>2, <1>4, <1>5, <1>6 DEF Goes

LEMMA LoadKeeps ==
  ASSUME ToolsInv, NEW c, Load(c), UNCHANGED <<clientVars, newsVars>>
  PROVE  ToolsInv'
<1>1. c \in DOMAIN call /\ call[c].at = "load" /\ HasFree /\ indices' = indices
  BY DEF Load, At
<1>2. Goes(c)
  <2>1. CASE Resolved(c)
    BY <1>1, <2>1, ResolvedGoes
  <2>2. CASE Goto(c, [call[c] EXCEPT !.at = "lookup", !.tries = 1], Inner(call[c]))
    BY <1>1, <2>2, LoadGoes
  <2>. QED  BY <2>1, <2>2 DEF Load
<1>. QED  BY <1>1, <1>2, PlainKeeps DEF ToolsInv, IndicesOk

LEMMA QuoteKeeps ==
  ASSUME ToolsInv, NEW c, Quote(c), UNCHANGED <<clientVars, newsVars>>
  PROVE  ToolsInv'
<1>1. c \in DOMAIN call /\ call[c].at = "quote" /\ indices' = indices
  BY DEF Quote, At
<1>2. Goes(c)
  <2>1. CASE Fails(c)
    BY <1>1, <2>1, FailsGoes
  <2>2. ASSUME call[c].op = "positions", NEW unpriced \in {0, 1}, NextLine(c, unpriced)
        PROVE  Goes(c)
    BY <1>1, <2>2, NextLineGoes
  <2>3. CASE Move(c, "done", {})
    BY <1>1, <2>3, MoveGoes DEF MayHold
  <2>. QED  BY <2>1, <2>2, <2>3 DEF Quote
<1>. QED  BY <1>1, <1>2, PlainKeeps DEF ToolsInv, IndicesOk

LEMMA GetKeeps ==
  ASSUME ToolsInv, NEW c, Get(c), UNCHANGED <<clientVars, newsVars>>
  PROVE  ToolsInv'
<1>1. c \in DOMAIN call /\ call[c].at = "get" /\ HasFree /\ indices' = indices
  BY DEF Get, At
<1>2. CASE Fails(c)
  <2>1. Goes(c)
    BY <1>1, <1>2, FailsGoes
  <2>. QED  BY <1>1, <2>1, PlainKeeps DEF ToolsInv, IndicesOk
<1>3. CASE Goto(c, [call[c] EXCEPT !.at = "write", !.row = Row(call[c])], {1})
  <2>. DEFINE r == [call[c] EXCEPT !.at = "write", !.row = Row(call[c])]
  <2>1. CallOk(call[c]) /\ call[c].todo # <<>> /\ call[c].op = "override"
    BY <1>1, CallFields DEF CallOk
  <2>2. CallOk(r)
    BY <2>1, Elsewhere
  <2>3. r.at = "write"
    BY <2>1 DEF CallOk
  <2>4. Goto(c, r, {1})
    BY <1>3
  <2>. HIDE DEF r
  <2>5. Sessions(r) = {1} /\ MayHold(c, {1})
    BY <1>1, <2>3 DEF Sessions, MayHold
  <2>6. Goes(c)
    BY <2>2, <2>4, <2>5 DEF Goes
  <2>. QED  BY <1>1, <2>6, PlainKeeps DEF ToolsInv, IndicesOk
<1>. QED  BY <1>2, <1>3 DEF Get

LEMMA IndicesSet ==
  ASSUME IndicesOk, NEW i, NEW column \in Columns, NEW symbol \in Found \cup Manual,
         indices' = [indices EXCEPT ![i][column] = symbol]
  PROVE  IndicesOk' /\ DOMAIN indices' = DOMAIN indices
         /\ \A j \in DOMAIN indices, other \in Columns :
              indices'[j][other] = IF j = i /\ other = column THEN symbol ELSE indices[j][other]
BY DEF IndicesOk

LEMMA ImposeKeeps ==
  ASSUME ToolsInv, NEW c, Impose(c), UNCHANGED <<clientVars, newsVars>>
  PROVE  ToolsInv'
<1>1. c \in DOMAIN call /\ call[c].at = "write" /\ Move(c, "refresh", {})
  BY DEF Impose, At
<1>2. call[c].op = "override" /\ call[c].symbol \in Manual /\ call[c].column \in Columns
  BY <1>1, CallFields DEF CallOk
<1>3. Goes(c)
  BY <1>1, <1>2, MoveGoes DEF MayHold
<1>4. IndicesOk'
  <2>1. IndicesOk
    BY DEF ToolsInv
  <2>2. CASE indices' = indices
    BY <2>1, <2>2 DEF IndicesOk
  <2>3. CASE indices' = [indices EXCEPT ![Head(call[c].todo)][call[c].column] = call[c].symbol]
    BY <1>2, <2>1, <2>3, IndicesSet
  <2>. QED  BY <2>2, <2>3 DEF Impose
<1>. QED  BY <1>1, <1>3, <1>4, PlainKeeps

LEMMA RefreshKeeps ==
  ASSUME ToolsInv, NEW c, Refresh(c), UNCHANGED <<clientVars, newsVars>>
  PROVE  ToolsInv'
<1>1. c \in DOMAIN call /\ call[c].at = "refresh" /\ Move(c, "done", {}) /\ indices' = indices
  BY DEF Refresh, At
<1>2. Goes(c)
  BY <1>1, MoveGoes DEF MayHold
<1>. QED  BY <1>1, <1>2, PlainKeeps DEF ToolsInv, IndicesOk

(* What a lookup comes to.                                                 *)
LEMMA FoundOrNot ==
  ASSUME ToolsInv, NEW c \in DOMAIN call, call[c].at = "lookup", Hit(c) \/ Miss(c) \/ Raise(c)
  PROVE  Goes(c) /\ IndicesOk'
<1>1. IndicesOk /\ CallOk(call[c]) /\ call[c].column \in Columns
  BY CallFields DEF ToolsInv, CallOk
<1>2. CASE Hit(c)
  <2>1. Goes(c)
    BY <1>2, ResolvedGoes DEF Hit
  <2>2. PICK symbol \in Found :
          indices' = IF Known(call[c])
                     THEN [indices EXCEPT ![Head(call[c].todo)][call[c].column] = symbol]
                     ELSE indices
    BY <1>2 DEF Hit
  <2>3. IndicesOk'
    <3>1. CASE indices' = indices
      BY <1>1, <3>1 DEF IndicesOk
    <3>2. CASE indices' = [indices EXCEPT ![Head(call[c].todo)][call[c].column] = symbol]
      BY <1>1, <3>2, IndicesSet
    <3>. QED  BY <2>2, <3>1, <3>2
  <2>. QED  BY <2>1, <2>3
<1>3. ASSUME indices' = indices
      PROVE  IndicesOk'
  BY <1>1, <1>3 DEF IndicesOk
<1>4. ASSUME Fails(c)
      PROVE  Goes(c)
  BY <1>4, FailsGoes
<1>5. CASE Raise(c)
  BY <1>3, <1>4, <1>5 DEF Raise
<1>6. CASE Miss(c)
  <2>1. indices' = indices
    BY <1>6 DEF Miss
  <2>2. ASSUME Goto(c, [call[c] EXCEPT !.tries = @ + 1], Inner(call[c]))
        PROVE  Goes(c)
    <3>. DEFINE r == [call[c] EXCEPT !.tries = call[c].tries + 1]
    <3>5. call[c].todo # <<>> /\ call[c].op # "override"
      BY <1>1 DEF CallOk
    <3>6. "lookup" \in {"load", "lookup", "quote", "refresh", "price", "write", "done", "error"}
      OBVIOUS
    <3>1. CallOk(r)
      BY <1>1, <3>5, <3>6, Elsewhere
    <3>2. r.at = "lookup" /\ r.op = call[c].op
      BY <1>1 DEF CallOk
    <3>3. Goto(c, r, Inner(call[c]))
      BY <2>2
    <3>. HIDE DEF r
    <3>4. Sessions(r) = Inner(call[c]) /\ HeldBy(c) = Inner(call[c])
      BY <3>2, CallFields DEF Sessions, Inner
    <3>. QED  BY <3>1, <3>3, <3>4 DEF Goes, MayHold
  <2>3. ASSUME call[c].op = "positions", NextLine(c, 1)
        PROVE  Goes(c)
    BY <2>3, NextLineGoes
  <2>. QED  BY <1>3, <1>4, <1>6, <2>1, <2>2, <2>3 DEF Miss
<1>. QED  BY <1>2, <1>5, <1>6

LEMMA YahooLookupKeeps ==
  ASSUME ToolsInv, NEW c, YahooLookup(c), UNCHANGED newsVars
  PROVE  ToolsInv'
<1>1. c \in DOMAIN call /\ call[c].at = "lookup" /\ call[c].column # "boursorama_ticker"
      /\ UNCHANGED clientVars /\ (Hit(c) \/ Miss(c) \/ Raise(c))
  BY DEF YahooLookup, At
<1>2. Goes(c) /\ IndicesOk'
  BY <1>1, FoundOrNot
<1>. QED  BY <1>1, <1>2, PlainKeeps

(* Steps of a search in the client.                                        *)
LEMMA SearchEndsKeeps ==
  ASSUME ToolsInv, NEW c, SearchAnswered(c) \/ SearchFails(c), UNCHANGED newsVars
  PROVE  ToolsInv'
<1>1. c \in DOMAIN call /\ call[c].at = "lookup" /\ c \in Callers
  BY InCallers DEF SearchAnswered, SearchFails, Searches, At
<1>2. OnlyCaller(c) /\ http'[c].at = "idle"
  <2>1. HttpOk
    BY DEF ToolsInv
  <2>. QED  BY <1>1, <2>1, IdleMoves DEF SearchAnswered, SearchFails
<1>3. Goes(c) /\ IndicesOk'
  BY <1>1, FoundOrNot DEF SearchAnswered, SearchFails
<1>. QED  BY <1>1, <1>2, <1>3, IdleGoes

(* A caller that waits in the client stays where it is.                    *)
LEMMA WaitKeeps ==
  ASSUME ToolsInv, ClientTypeOK, NEW c \in Callers, Ask(c) \/ Admit(c),
         Searches(c) \/ Writing(c, "fetch"), UNCHANGED <<resolutionVars, newsVars>>
  PROVE  ToolsInv'
<1>1. OnlyCaller(c)
  BY AskMoves, AdmitMoves DEF ToolsInv
<1>2. indices' = indices /\ call' = call /\ held' = held /\ news' = news /\ writer' = writer
  BY DEF resolutionVars, newsVars
<1>3. HttpOk'
  BY <1>1, <1>2 DEF ToolsInv, HttpOk, OnlyCaller, Searches, At, Writing
<1>4. PoolInv' /\ IndicesOk' /\ CallsOk' /\ NewsOk' /\ LocksOk'
  BY <1>2 DEF ToolsInv, PoolInv, HeldBy, IndicesOk, CallsOk, CallOk, Sessions, Inner, Outer,
     NewsOk, LocksOk
<1>5. WritersOk'
  BY <1>2 DEF ToolsInv, WritersOk, WriterOk, WriterHolds, HeldBy
<1>. QED  BY <1>3, <1>4, <1>5 DEF ToolsInv

LEMMA PoolTimeoutKeeps ==
  ASSUME ToolsInv, NEW c, PoolTimeout(c), UNCHANGED newsVars
  PROVE  ToolsInv'
<1>1. /\ c \in DOMAIN call /\ call[c].at \in NeedsConnection /\ Fails(c) /\ indices' = indices
      /\ UNCHANGED clientVars
  BY DEF PoolTimeout
<1>2. Goes(c)
  BY <1>1, FailsGoes DEF NeedsConnection
<1>. QED  BY <1>1, <1>2, PlainKeeps DEF ToolsInv, IndicesOk, NeedsConnection

LEMMA CancelKeeps ==
  ASSUME ToolsInv, NEW c, Cancel(c), UNCHANGED newsVars
  PROVE  ToolsInv'
<1>1. /\ c \in DOMAIN call /\ call[c].at \notin {"done", "error"} /\ Fails(c) /\ indices' = indices
      /\ Cancelled(c) /\ c \in Callers
  BY InCallers DEF Cancel
<1>2. Goes(c)
  BY <1>1, FailsGoes
<1>3. OnlyCaller(c) /\ http'[c].at = "idle"
  BY <1>1, IdleMoves DEF ToolsInv
<1>. QED  BY <1>1, <1>2, <1>3, IdleGoes DEF ToolsInv, IndicesOk

LEMMA ToolStepKeeps ==
  ASSUME ToolsInv, ClientTypeOK, NEW c \in Callers, ToolStep(c), UNCHANGED newsVars
  PROVE  ToolsInv'
<1>1. CASE LocalStep(c) /\ UNCHANGED clientVars
  BY <1>1, ListKeeps, PriceKeeps, LoadKeeps, QuoteKeeps, GetKeeps, ImposeKeeps, RefreshKeeps
     DEF LocalStep
<1>2. CASE SearchAsks(c) \/ (Searches(c) /\ Admit(c) /\ UNCHANGED resolutionVars)
  BY <1>2, WaitKeeps DEF SearchAsks
<1>. QED  BY <1>1, <1>2, YahooLookupKeeps, PoolTimeoutKeeps, SearchEndsKeeps DEF ToolStep

-----------------------------------------------------------------------------
(* A step of a writer.                                                     *)
LEMMA WriterMoves ==
  ASSUME ToolsInv, NEW c \in DOMAIN writer, NEW w, NEW S \in SUBSET {1, 2}, WriterOk(c, w), Writes(c, w, S),
         MayHold(c, S), NewsOk', LocksOk', OnlyCaller(c), http'[c].at # "idle" => w.at = "fetch",
         \/ w.at \in {"embed", "insert", "commit"} /\ S = {1}
         \/ w.at = "read" /\ S \in {{}, {1}} /\ (DOMAIN w.writes # {} => S = {1})
         \/ w.at \in {"fetch", "done", "error"} /\ S = {}
  PROVE  ToolsInv'
<1>. USE DEF ToolsInv
<1>1. c \in Callers /\ c \notin DOMAIN call
  BY DEF PoolInv
<1>2. /\ writer'[c] = w /\ DOMAIN writer' = DOMAIN writer
      /\ \A d \in DOMAIN writer : d # c => writer'[d] = writer[d]
      /\ indices' = indices /\ call' = call
  BY DEF Writes
<1>3. /\ held' \subseteq Callers \X {1, 2} /\ IsFiniteSet(held') /\ Cardinality(held') <= PoolSize
      /\ HeldBy(c)' = S /\ \A d \in Callers \ {c} : HeldBy(d)' = HeldBy(d)
  BY HeldMoves DEF Writes
<1>4. PoolInv'
  <2>1. \A d \in Callers : HeldBy(d)' # {} => d \in DOMAIN call' \cup DOMAIN writer'
    BY <1>2, <1>3 DEF PoolInv
  <2>. QED  BY <1>2, <1>3, <2>1 DEF PoolInv
<1>5. IndicesOk'
  BY <1>2 DEF IndicesOk
<1>6. CallsOk'
  <2>. SUFFICES ASSUME NEW d \in DOMAIN call
                PROVE  CallOk(call[d]) /\ HeldBy(d)' = Sessions(call[d])
    BY <1>2 DEF CallsOk, CallOk, Sessions, Inner, Outer
  <2>1. HeldBy(d)' = HeldBy(d)
    BY <1>1, <1>3 DEF PoolInv
  <2>. QED  BY <2>1 DEF CallsOk
<1>7. WritersOk'
  <2>. SUFFICES ASSUME NEW d \in DOMAIN writer
                PROVE  WriterOk(d, writer[d])' /\ WriterHolds(d, writer[d])'
    BY <1>2 DEF WritersOk
  <2>1. CASE d = c
    <3>1. WriterOk(d, writer[d])'
      BY <1>2, <2>1 DEF WriterOk
    <3>2. WriterHolds(d, writer[d])'
      BY <1>2, <1>3, <2>1 DEF WriterHolds
    <3>. QED  BY <3>1, <3>2
  <2>2. CASE d # c
    <3>1. HeldBy(d)' = HeldBy(d) /\ writer'[d] = writer[d]
      BY <1>2, <1>3, <2>2 DEF PoolInv
    <3>2. WriterOk(d, writer[d]) /\ WriterHolds(d, writer[d])
      BY DEF WritersOk
    <3>3. WriterOk(d, writer[d])'
      BY <3>1, <3>2 DEF WriterOk
    <3>4. WriterHolds(d, writer[d])'
      BY <3>1, <3>2 DEF WriterHolds
    <3>. QED  BY <3>3, <3>4
  <2>. QED  BY <2>1, <2>2
<1>8. HttpOk'
  <2>1. ASSUME NEW d \in Callers, http'[d].at # "idle"
        PROVE  Searches(d)' \/ Writing(d, "fetch")'
    <3>1. CASE d = c
      BY <1>2, <2>1, <3>1 DEF Writing
    <3>2. CASE d # c
      <4>1. http'[d] = http[d]
        BY <3>2 DEF OnlyCaller
      <4>2. Searches(d) \/ Writing(d, "fetch")
        BY <2>1, <4>1 DEF HttpOk
      <4>. QED  BY <1>2, <3>2, <4>2 DEF Searches, At, Writing
    <3>. QED  BY <3>1, <3>2
  <2>2. ASSUME NEW d \in Callers, semaphore' = d
        PROVE  http'[d].at = "sent"
    BY <2>2 DEF OnlyCaller, HttpOk
  <2>. QED  BY <2>1, <2>2 DEF HttpOk, OnlyCaller
<1>. QED  BY <1>4, <1>5, <1>6, <1>7, <1>8

LEMMA WriterFields ==
  ASSUME ToolsInv, NEW c \in DOMAIN writer
  PROVE  WriterOk(c, writer[c]) /\ WriterHolds(c, writer[c]) /\ c \in Callers /\ c \notin DOMAIN call
BY DEF ToolsInv, WritersOk, PoolInv

(* A writer that adds no version leaves news and locks as they are.        *)
LEMMA NoNewVersion ==
  ASSUME ToolsInv, NEW c \in DOMAIN writer, NEW w, NEW S, Writes(c, w, S), news' = news,
         w.writes = writer[c].writes \/ DOMAIN w.writes = {}
  PROVE  NewsOk' /\ LocksOk'
<1>1. /\ writer'[c] = w /\ DOMAIN writer' = DOMAIN writer
      /\ \A d \in DOMAIN writer : d # c => writer'[d] = writer[d]
  BY DEF Writes
<1>2. NewsOk'
  BY <1>1 DEF NewsOk, ToolsInv
<1>3. \A d \in DOMAIN writer : writer'[d].writes = writer[d].writes \/ DOMAIN writer'[d].writes = {}
  BY <1>1
<1>4. \A d, e \in DOMAIN writer' :
        d # e => DOMAIN writer'[d].writes \cap DOMAIN writer'[e].writes = {}
  BY <1>1, <1>3 DEF LocksOk, ToolsInv
<1>5. \A d \in DOMAIN writer' : \A u \in DOMAIN writer'[d].writes \cap DOMAIN news' :
        news'[u].body # None => writer'[d].writes[u].body # None
  BY <1>1, <1>3 DEF LocksOk, ToolsInv
<1>. QED  BY <1>2, <1>4, <1>5 DEF LocksOk

(* A caller of the client outside of its two places is idle in it.         *)
LEMMA WriterIdle ==
  ASSUME ToolsInv, NEW c \in DOMAIN writer, writer[c].at # "fetch", UNCHANGED clientVars
  PROVE  OnlyCaller(c) /\ http'[c].at = "idle"
<1>1. c \in Callers /\ c \notin DOMAIN call /\ HttpOk
  BY DEF ToolsInv, PoolInv
<1>2. http[c].at = "idle"
  BY <1>1 DEF HttpOk, Searches, At, Writing
<1>. QED  BY <1>1, <1>2, IdleMoves

WriterRecord(op, at, feeds, todo, row, vector, writes) ==
  [op |-> op, at |-> at, feeds |-> feeds, todo |-> todo, row |-> row, vector |-> vector,
   writes |-> writes]

LEMMA TwoFields ==
  ASSUME NEW w, NEW at, NEW todo, NEW row, NEW vector,
         w = WriterRecord(w.op, w.at, w.feeds, w.todo, w.row, w.vector, w.writes)
  PROVE  /\ [w EXCEPT !.at = at] = WriterRecord(w.op, at, w.feeds, w.todo, w.row, w.vector, w.writes)
         /\ [w EXCEPT !.at = at, !.todo = todo] = WriterRecord(w.op, at, w.feeds, todo, w.row, w.vector, w.writes)
         /\ [w EXCEPT !.at = at, !.row = row] = WriterRecord(w.op, at, w.feeds, w.todo, row, w.vector, w.writes)
         /\ [w EXCEPT !.at = at, !.vector = vector] =
              WriterRecord(w.op, at, w.feeds, w.todo, w.row, vector, w.writes)
<1>. DEFINE v == [w EXCEPT !.at = at]
<1>1. v = WriterRecord(w.op, at, w.feeds, w.todo, w.row, w.vector, w.writes)
  BY DEF WriterRecord
<1>2. /\ [w EXCEPT !.at = at, !.todo = todo] = [v EXCEPT !.todo = todo]
      /\ [w EXCEPT !.at = at, !.row = row] = [v EXCEPT !.row = row]
      /\ [w EXCEPT !.at = at, !.vector = vector] = [v EXCEPT !.vector = vector]
  BY DEF WriterRecord
<1>. HIDE DEF v
<1>3. [v EXCEPT !.todo = todo] = WriterRecord(w.op, at, w.feeds, todo, w.row, w.vector, w.writes)
  BY <1>1 DEF WriterRecord
<1>4. [v EXCEPT !.row = row] = WriterRecord(w.op, at, w.feeds, w.todo, row, w.vector, w.writes)
  BY <1>1 DEF WriterRecord
<1>5. [v EXCEPT !.vector = vector] = WriterRecord(w.op, at, w.feeds, w.todo, w.row, vector, w.writes)
  BY <1>1 DEF WriterRecord
<1>. QED  BY <1>1, <1>2, <1>3, <1>4, <1>5 DEF v

LEMMA FeedsAndAt ==
  ASSUME NEW w, NEW at, NEW feeds,
         w = WriterRecord(w.op, w.at, w.feeds, w.todo, w.row, w.vector, w.writes)
  PROVE  [w EXCEPT !.feeds = feeds, !.at = at] =
           WriterRecord(w.op, at, feeds, w.todo, w.row, w.vector, w.writes)
<1>. DEFINE v == [w EXCEPT !.feeds = feeds]
<1>1. v = WriterRecord(w.op, w.at, feeds, w.todo, w.row, w.vector, w.writes)
  BY DEF WriterRecord
<1>2. [w EXCEPT !.feeds = feeds, !.at = at] = [v EXCEPT !.at = at]
  BY DEF WriterRecord
<1>. HIDE DEF v
<1>3. [v EXCEPT !.at = at] = WriterRecord(w.op, at, feeds, w.todo, w.row, w.vector, w.writes)
  BY <1>1 DEF WriterRecord
<1>. QED  BY <1>2, <1>3

-----------------------------------------------------------------------------
Nothing == [u \in {} |-> None]

LEMMA NothingWritten == DOMAIN Nothing = {} /\ Nothing \in [DOMAIN Nothing -> NewsRow]
BY DEF Nothing

LEMMA WriterShape ==
  ASSUME NEW c, NEW w, WriterOk(c, w)
  PROVE  w = WriterRecord(w.op, w.at, w.feeds, w.todo, w.row, w.vector, w.writes)
BY DEF WriterOk, WriterRecord

LEMMA AbortsKeeps ==
  ASSUME ToolsInv, NEW c \in DOMAIN writer, Aborts(c), news' = news, OnlyCaller(c),
         http'[c].at = "idle"
  PROVE  ToolsInv'
<1>. DEFINE w == [writer[c] EXCEPT !.at = "error", !.writes = Nothing]
<1>1. WriterOk(c, writer[c])
  BY WriterFields
<1>2. w = WriterRecord(writer[c].op, "error", writer[c].feeds, writer[c].todo, writer[c].row,
                       writer[c].vector, Nothing)
  <2>1. writer[c] = WriterRecord(writer[c].op, writer[c].at, writer[c].feeds, writer[c].todo,
                                 writer[c].row, writer[c].vector, writer[c].writes)
    BY <1>1, WriterShape
  <2>. DEFINE v == [writer[c] EXCEPT !.at = "error"]
  <2>2. v = WriterRecord(writer[c].op, "error", writer[c].feeds, writer[c].todo, writer[c].row,
                         writer[c].vector, writer[c].writes)
    BY <2>1, TwoFields
  <2>3. w = [v EXCEPT !.writes = Nothing]
    BY <2>1 DEF WriterRecord
  <2>. HIDE DEF v, w
  <2>. QED  BY <2>2, <2>3 DEF WriterRecord
<1>3. Writes(c, w, {})
  BY DEF Aborts, Nothing
<1>. HIDE DEF w
<1>4. WriterOk(c, w) /\ w.at = "error" /\ DOMAIN w.writes = {}
  <2>1. StoresOnce(w)
    BY <1>2 DEF WriterOk, StoresOnce, WriterRecord
  <2>. QED  BY <1>1, <1>2, NothingWritten, <2>1 DEF WriterOk, WriterRecord
<1>5. NewsOk' /\ LocksOk'
  BY <1>3, <1>4, NoNewVersion
<1>. QED  BY <1>3, <1>4, <1>5, WriterMoves DEF MayHold

(* A caller of the client that is not in it after its step.                *)
LEMMA FetchedIdle ==
  ASSUME ToolsInv, NEW c \in DOMAIN writer, Limited(c) \/ Broken(c) \/ Answered(c) \/ Cancelled(c)
  PROVE  OnlyCaller(c) /\ http'[c].at = "idle"
BY IdleMoves, WriterFields DEF ToolsInv

LEMMA FetchFailsKeeps ==
  ASSUME ToolsInv, NEW c, FetchFails(c)
  PROVE  ToolsInv'
<1>1. c \in DOMAIN writer /\ writer[c].at = "fetch" /\ Skips(c) /\ news' = news
  BY DEF FetchFails, Writing
<1>2. OnlyCaller(c) /\ http'[c].at = "idle"
  BY <1>1, FetchedIdle DEF FetchFails
<1>3. WriterOk(c, writer[c]) /\ DOMAIN writer[c].writes = {}
  BY <1>1, WriterFields DEF WriterOk
<1>4. CASE writer[c].op = "deep"
  BY <1>1, <1>2, <1>4, AbortsKeeps DEF Skips
<1>5. CASE writer[c].op # "deep"
  <2>. DEFINE at == IF writer[c].feeds = 1 THEN "done" ELSE "fetch"
              w  == [writer[c] EXCEPT !.feeds = writer[c].feeds - 1, !.at = at]
  <2>1. Writes(c, w, {})
    BY <1>1, <1>5 DEF Skips
  <2>2. at \in {"done", "fetch"}
    OBVIOUS
  <2>. HIDE DEF at
  <2>3. w = WriterRecord(writer[c].op, at, writer[c].feeds - 1, writer[c].todo, writer[c].row,
                         writer[c].vector, writer[c].writes)
    <3>1. writer[c] = WriterRecord(writer[c].op, writer[c].at, writer[c].feeds, writer[c].todo,
                                   writer[c].row, writer[c].vector, writer[c].writes)
      BY <1>3, WriterShape
    <3>. QED  BY <3>1, FeedsAndAt
  <2>. HIDE DEF w
  <2>4. WriterOk(c, w) /\ w.at = at /\ w.writes = writer[c].writes
    <3>1. StoresOnce(w)
      BY <1>5, <2>3 DEF WriterOk, StoresOnce, WriterRecord
    <3>. QED  BY <1>1, <1>3, <1>5, <2>2, <2>3, <3>1 DEF WriterOk, WriterRecord
  <2>5. NewsOk' /\ LocksOk'
    BY <1>1, <2>1, <2>4, NoNewVersion
  <2>. QED  BY <1>1, <1>2, <2>1, <2>2, <2>4, <2>5, WriterMoves DEF MayHold
<1>. QED  BY <1>4, <1>5

LEMMA FetchedKeeps ==
  ASSUME ToolsInv, NEW c, Fetched(c)
  PROVE  ToolsInv'
<1>1. c \in DOMAIN writer /\ writer[c].at = "fetch" /\ news' = news
  BY DEF Fetched, Writing
<1>2. OnlyCaller(c) /\ http'[c].at = "idle"
  BY <1>1, FetchedIdle DEF Fetched
<1>3. WriterOk(c, writer[c]) /\ DOMAIN writer[c].writes = {}
  BY <1>1, WriterFields DEF WriterOk
<1>4. ASSUME writer[c].op = "ingest", NEW page \in Pages,
             Writes(c, [writer[c] EXCEPT !.at = "read", !.todo = page], {})
      PROVE  ToolsInv'
  <2>. DEFINE w == [writer[c] EXCEPT !.at = "read", !.todo = page]
  <2>1. w = WriterRecord(writer[c].op, "read", writer[c].feeds, page, writer[c].row,
                         writer[c].vector, writer[c].writes)
    BY <1>3, WriterShape, TwoFields
  <2>2. page # <<>> /\ page \in Seq(Urls)
    BY <1>4, NewsAssumption
  <2>3. Writes(c, w, {})
    BY <1>4
  <2>. HIDE DEF w
  <2>4. WriterOk(c, w) /\ w.at = "read" /\ w.writes = writer[c].writes
    <3>1. StoresOnce(w)
      BY <1>4, <2>1 DEF WriterOk, StoresOnce, WriterRecord
    <3>. QED  BY <1>3, <2>1, <2>2, <3>1 DEF WriterOk, WriterRecord
  <2>5. NewsOk' /\ LocksOk'
    BY <1>1, <2>3, <2>4, NoNewVersion
  <2>. QED  BY <1>1, <1>2, <1>3, <2>3, <2>4, <2>5, WriterMoves DEF MayHold
<1>5. ASSUME writer[c].op = "deep",
             Writes(c, [writer[c] EXCEPT !.at = IF writer[c].feeds = 0 THEN "done" ELSE "read"], {})
      PROVE  ToolsInv'
  <2>. DEFINE at == IF writer[c].feeds = 0 THEN "done" ELSE "read"
              w  == [writer[c] EXCEPT !.at = at]
  <2>1. Writes(c, w, {})
    BY <1>5
  <2>2. at \in {"done", "read"}
    OBVIOUS
  <2>. HIDE DEF at
  <2>3. w = WriterRecord(writer[c].op, at, writer[c].feeds, writer[c].todo, writer[c].row,
                         writer[c].vector, writer[c].writes)
    BY <1>3, WriterShape, TwoFields
  <2>. HIDE DEF w
  <2>4. WriterOk(c, w) /\ w.at = at /\ w.writes = writer[c].writes
    <3>1. StoresOnce(w)
      BY <1>1, <1>3, <2>3 DEF at, WriterOk, StoresOnce, WriterRecord
    <3>. QED  BY <1>1, <1>3, <1>5, <2>2, <2>3, <3>1 DEF WriterOk, WriterRecord
  <2>5. NewsOk' /\ LocksOk'
    BY <1>1, <2>1, <2>4, NoNewVersion
  <2>. QED  BY <1>1, <1>2, <1>3, <2>1, <2>2, <2>4, <2>5, WriterMoves DEF MayHold
<1>. QED  BY <1>4, <1>5 DEF Fetched

(* Rows as a transaction sees them are rows.                               *)
LEMMA ViewIsRow ==
  ASSUME ToolsInv, NEW c \in DOMAIN writer, NEW u
  PROVE  /\ View(writer[c], u) \in NewsRow \cup {None}
         /\ u \in DOMAIN writer[c].writes => View(writer[c], u) = writer[c].writes[u]
         /\ u \in DOMAIN news \ DOMAIN writer[c].writes => View(writer[c], u) = news[u]
<1>1. writer[c].writes \in [DOMAIN writer[c].writes -> NewsRow] /\ news \in [DOMAIN news -> NewsRow]
  BY WriterFields DEF WriterOk, ToolsInv, NewsOk
<1>. QED  BY <1>1 DEF View, Overlaid

LEMMA ReadKeeps ==
  ASSUME ToolsInv, NEW c, Read(c)
  PROVE  ToolsInv'
<1>1. c \in DOMAIN writer /\ writer[c].at = "read" /\ news' = news /\ UNCHANGED clientVars
  BY DEF Read, Writing
<1>2. OnlyCaller(c) /\ http'[c].at = "idle"
  BY <1>1, WriterIdle
<1>3. WriterOk(c, writer[c]) /\ writer[c].todo # <<>>
  BY <1>1, WriterFields DEF WriterOk
<1>. DEFINE row == View(writer[c], Head(writer[c].todo))
            w   == [writer[c] EXCEPT !.at = "embed", !.row = row]
<1>4. Writes(c, w, {1})
  BY DEF Read
<1>5. row \in NewsRow \cup {None}
  BY <1>1, ViewIsRow
<1>. HIDE DEF row
<1>6. w = WriterRecord(writer[c].op, "embed", writer[c].feeds, writer[c].todo, row,
                       writer[c].vector, writer[c].writes)
  BY <1>3, WriterShape, TwoFields
<1>. HIDE DEF w
<1>7. WriterOk(c, w) /\ w.at = "embed" /\ w.writes = writer[c].writes
  <2>1. StoresOnce(w)
    BY <1>1, <1>3, <1>6 DEF WriterOk, StoresOnce, WriterRecord
  <2>. QED  BY <1>3, <1>5, <1>6, <2>1 DEF WriterOk, WriterRecord
<1>8. NewsOk' /\ LocksOk'
  BY <1>1, <1>4, <1>7, NoNewVersion
<1>9. MayHold(c, {1})
  BY DEF Read, MayHold, HeldBy
<1>. QED  BY <1>1, <1>2, <1>4, <1>7, <1>8, <1>9, WriterMoves

LEMMA EmbedKeeps ==
  ASSUME ToolsInv, NEW c, Embed(c)
  PROVE  ToolsInv'
<1>1. c \in DOMAIN writer /\ writer[c].at = "embed" /\ news' = news /\ UNCHANGED clientVars
  BY DEF Embed, Writing
<1>2. OnlyCaller(c) /\ http'[c].at = "idle"
  BY <1>1, WriterIdle
<1>3. WriterOk(c, writer[c]) /\ HeldBy(c) = {1}
  BY <1>1, WriterFields DEF WriterHolds
<1>4. CASE Aborts(c)
  BY <1>1, <1>2, <1>4, AbortsKeeps
<1>5. CASE Writes(c, [writer[c] EXCEPT !.at = "insert", !.vector = Text(c, writer[c].row)], {1})
  <2>. DEFINE text == Text(c, writer[c].row)
              w    == [writer[c] EXCEPT !.at = "insert", !.vector = text]
  <2>1. Writes(c, w, {1})
    BY <1>5
  <2>2. text = <<c, IF writer[c].op = "deep" THEN c
                    ELSE IF writer[c].row = None THEN None ELSE writer[c].row.body>>
    BY DEF Text, Body
  <2>. HIDE DEF text
  <2>3. w = WriterRecord(writer[c].op, "insert", writer[c].feeds, writer[c].todo, writer[c].row, text,
                         writer[c].writes)
    BY <1>3, WriterShape, TwoFields
  <2>. HIDE DEF w
  <2>4. WriterOk(c, w) /\ w.at = "insert" /\ w.writes = writer[c].writes
    <3>1. StoresOnce(w)
      BY <1>1, <1>3, <2>3 DEF WriterOk, StoresOnce, WriterRecord
    <3>. QED  BY <1>1, <1>3, <2>2, <2>3, <3>1 DEF WriterOk, WriterRecord
  <2>5. NewsOk' /\ LocksOk'
    BY <1>1, <2>1, <2>4, NoNewVersion
  <2>. QED  BY <1>1, <1>2, <1>3, <2>1, <2>4, <2>5, WriterMoves DEF MayHold
<1>. QED  BY <1>4, <1>5 DEF Embed

LEMMA NextUrl ==
  ASSUME NEW S, NEW s \in Seq(S), s # <<>>
  PROVE  /\ Head(s) \in S /\ Tail(s) \in Seq(S) /\ (Len(s) # 1 => Tail(s) # <<>>)
         /\ Len(s) \in Nat /\ Len(Tail(s)) = Len(s) - 1
<1>1. Len(s) \in Nat \ {0} /\ Len(Tail(s)) = Len(s) - 1 /\ Tail(s) \in Seq(S)
  OBVIOUS
<1>2. Head(s) \in S
  OBVIOUS
<1>. QED  BY <1>1, <1>2

(* The version that INSERT .. ON CONFLICT stores: nobody else has one, and *)
(* a body that the row shows is in it.                                     *)
LEMMA StoredVersion ==
  ASSUME ToolsInv, NEW c \in DOMAIN writer, writer[c].at = "insert",
         NEW row \in NewsRow \cup {None}
  PROVE  /\ Stored(c, row) \in NewsRow /\ Stored(c, row).title = c
         /\ row # None /\ row.body # None => Stored(c, row).body # None
<1>1. c \in Callers /\ c # None /\ WriterOk(c, writer[c])
  BY WriterFields, NewsAssumption
<1>2. writer[c].vector \in Callers \X (Callers \cup {None})
  <2>. DEFINE body == IF writer[c].op = "deep" THEN c
                      ELSE IF writer[c].row = None THEN None ELSE writer[c].row.body
  <2>1. writer[c].vector = <<c, body>> /\ writer[c].row \in NewsRow \cup {None}
    BY <1>1 DEF WriterOk
  <2>2. body \in Callers \cup {None}
    BY <1>1, <2>1 DEF NewsRow
  <2>. HIDE DEF body
  <2>. QED  BY <1>1, <2>1, <2>2
<1>3. Body(c, row) \in Callers \cup {None} /\ (row # None /\ row.body # None => Body(c, row) # None)
  BY <1>1 DEF Body, NewsRow
<1>. QED  BY <1>1, <1>2, <1>3 DEF Stored, NewsRow

LEMMA InsertKeeps ==
  ASSUME ToolsInv, NEW c, Insert(c)
  PROVE  ToolsInv'
<1>. DEFINE u       == Head(writer[c].todo)
            row     == View(writer[c], u)
            version == Stored(c, row)
            writes  == Overlaid([v \in {u} |-> version], writer[c].writes)
            at      == IF Len(writer[c].todo) = 1 THEN "commit" ELSE "read"
            todo    == Tail(writer[c].todo)
            w       == [writer[c] EXCEPT !.at = at, !.todo = todo, !.writes = writes]
<1>1. /\ c \in DOMAIN writer /\ writer[c].at = "insert" /\ news' = news /\ UNCHANGED clientVars
      /\ \A d \in DOMAIN writer : ~WaitsFor(c, d)
  BY DEF Insert, Writing
<1>2. OnlyCaller(c) /\ http'[c].at = "idle"
  BY <1>1, WriterIdle
<1>3. WriterOk(c, writer[c]) /\ HeldBy(c) = {1}
  BY <1>1, WriterFields DEF WriterHolds
<1>4. Writes(c, w, {1})
  BY DEF Insert
<1>5. u \in Urls /\ todo \in Seq(Urls) /\ at \in {"commit", "read"} /\ (at = "read" => todo # <<>>)
  <2>1. writer[c].todo \in Seq(Urls) /\ writer[c].todo # <<>>
    BY <1>1, <1>3 DEF WriterOk
  <2>2. u \in Urls /\ todo \in Seq(Urls) /\ (Len(writer[c].todo) # 1 => todo # <<>>)
    BY <2>1, NextUrl
  <2>. QED  BY <2>2
<1>6. /\ row \in NewsRow \cup {None}
      /\ u \in DOMAIN writer[c].writes => row = writer[c].writes[u]
      /\ u \in DOMAIN news \ DOMAIN writer[c].writes => row = news[u]
  BY <1>1, ViewIsRow
<1>. HIDE DEF row
<1>7. /\ version \in NewsRow /\ version.title = c
      /\ row # None /\ row.body # None => version.body # None
  BY <1>1, <1>6, StoredVersion
<1>8. \A d \in DOMAIN writer \ {c} : u \notin DOMAIN writer[d].writes
  BY <1>1 DEF WaitsFor, Writing
<1>. HIDE DEF u, version
<1>9. /\ DOMAIN writes = {u} \cup DOMAIN writer[c].writes /\ writes[u] = version
      /\ \A v \in DOMAIN writer[c].writes \ {u} : writes[v] = writer[c].writes[v]
  BY DEF Overlaid
<1>10. writes \in [DOMAIN writes -> NewsRow]
  <2>1. \A v \in DOMAIN writes : writes[v] \in NewsRow
    BY <1>3, <1>7, <1>9 DEF WriterOk
  <2>2. writes = [v \in DOMAIN writes |-> writes[v]]
    BY DEF Overlaid
  <2>. HIDE DEF writes
  <2>. QED  BY <2>1, <2>2
<1>. HIDE DEF writes, at, todo
<1>11. w = WriterRecord(writer[c].op, at, writer[c].feeds, todo, writer[c].row, writer[c].vector, writes)
  <2>. DEFINE v == [writer[c] EXCEPT !.at = at, !.todo = todo]
  <2>1. v = WriterRecord(writer[c].op, at, writer[c].feeds, todo, writer[c].row, writer[c].vector,
                         writer[c].writes)
    BY <1>3, WriterShape, TwoFields
  <2>2. w = [v EXCEPT !.writes = writes]
    BY <1>3, WriterShape DEF WriterRecord
  <2>. HIDE DEF v, w
  <2>. QED  BY <2>1, <2>2 DEF WriterRecord
<1>. HIDE DEF w
<1>12. WriterOk(c, w) /\ w.at = at /\ w.writes = writes
  <2>1. StoresOnce(w)
    BY <1>1, <1>3, <1>5, <1>11 DEF WriterOk, StoresOnce, WriterRecord
  <2>. QED  BY <1>3, <1>5, <1>7, <1>9, <1>10, <1>11, <2>1 DEF WriterOk, WriterRecord
<1>13. /\ writer'[c] = w /\ DOMAIN writer' = DOMAIN writer
       /\ \A d \in DOMAIN writer : d # c => writer'[d] = writer[d]
  BY <1>1, <1>4 DEF Writes
<1>14. NewsOk'
  BY <1>1, <1>13 DEF NewsOk, ToolsInv
<1>15. LocksOk'
  <2>1. \A d, e \in DOMAIN writer :
          d # e => DOMAIN writer[d].writes \cap DOMAIN writer[e].writes = {}
    BY DEF LocksOk, ToolsInv
  <2>2. \A d, e \in DOMAIN writer' :
          d # e => DOMAIN writer'[d].writes \cap DOMAIN writer'[e].writes = {}
    BY <1>1, <1>8, <1>9, <1>12, <1>13, <2>1
  <2>3. ASSUME NEW d \in DOMAIN writer, NEW v \in DOMAIN writer'[d].writes \cap DOMAIN news,
               news[v].body # None
        PROVE  writer'[d].writes[v].body # None
    <3>1. \A e \in DOMAIN writer : \A x \in DOMAIN writer[e].writes \cap DOMAIN news :
            news[x].body # None => writer[e].writes[x].body # None
      BY DEF LocksOk, ToolsInv
    <3>2. CASE d # c
      BY <1>13, <2>3, <3>1, <3>2
    <3>3. CASE d = c /\ v # u
      BY <1>1, <1>9, <1>12, <1>13, <2>3, <3>1, <3>3
    <3>4. CASE d = c /\ v = u
      <4>1. row # None /\ row.body # None
        <5>1. news[u] \in NewsRow /\ None \notin NewsRow
          BY <2>3, <3>4, NewsAssumption DEF ToolsInv, NewsOk
        <5>2. CASE u \in DOMAIN writer[c].writes
          <6>1. writer[c].writes[u] \in NewsRow
            BY <1>3, <5>2 DEF WriterOk
          <6>. QED  BY <1>1, <1>6, <2>3, <3>1, <3>4, <5>1, <5>2, <6>1
        <5>3. CASE u \notin DOMAIN writer[c].writes
          BY <1>6, <2>3, <3>4, <5>1, <5>3
        <5>. QED  BY <5>2, <5>3
      <4>. QED  BY <1>7, <1>9, <1>12, <1>13, <3>4, <4>1
    <3>. QED  BY <3>2, <3>3, <3>4
  <2>. QED  BY <1>1, <1>13, <2>2, <2>3 DEF LocksOk
<1>16. w.at \in {"insert", "commit"} \/ (w.at = "read" /\ (DOMAIN w.writes # {} => {1} = {1}))
  BY <1>5, <1>12
<1>. QED  BY <1>1, <1>2, <1>3, <1>4, <1>12, <1>14, <1>15, <1>16, WriterMoves DEF MayHold

LEMMA CommitKeeps ==
  ASSUME ToolsInv, NEW c, Commit(c)
  PROVE  ToolsInv'
<1>. DEFINE at    == IF writer[c].feeds = 1 THEN "done" ELSE "fetch"
            feeds == writer[c].feeds - 1
            w     == [writer[c] EXCEPT !.at = at, !.feeds = feeds, !.writes = Nothing]
<1>1. /\ c \in DOMAIN writer /\ writer[c].at = "commit" /\ UNCHANGED clientVars
      /\ news' = Overlaid(writer[c].writes, news)
  BY DEF Commit, Writing
<1>2. OnlyCaller(c) /\ http'[c].at = "idle"
  BY <1>1, WriterIdle
<1>3. WriterOk(c, writer[c])
  BY <1>1, WriterFields
<1>4. Writes(c, w, {})
  BY DEF Commit, Nothing
<1>5. at \in {"done", "fetch"}
  OBVIOUS
<1>. HIDE DEF at, feeds
<1>6. w = WriterRecord(writer[c].op, at, feeds, writer[c].todo, writer[c].row, writer[c].vector, Nothing)
  <2>. DEFINE v == [writer[c] EXCEPT !.feeds = feeds, !.at = at]
  <2>1. v = WriterRecord(writer[c].op, at, feeds, writer[c].todo, writer[c].row, writer[c].vector,
                         writer[c].writes)
    BY <1>3, WriterShape, FeedsAndAt
  <2>2. w = [v EXCEPT !.writes = Nothing]
    BY <1>3, WriterShape DEF WriterRecord
  <2>. HIDE DEF v, w
  <2>. QED  BY <2>1, <2>2 DEF WriterRecord
<1>. HIDE DEF w
<1>7. WriterOk(c, w) /\ w.at = at /\ DOMAIN w.writes = {}
  <2>1. StoresOnce(w)
    BY <1>1, <1>3, <1>6 DEF WriterOk, StoresOnce, WriterRecord, at
  <2>2. w.op = "deep" => w.at = "done"
    BY <1>1, <1>3, <1>6 DEF WriterOk, StoresOnce, WriterRecord, at
  <2>. QED  BY <1>3, <1>5, <1>6, <2>1, <2>2, NothingWritten DEF WriterOk, WriterRecord
<1>8. /\ writer'[c] = w /\ DOMAIN writer' = DOMAIN writer
      /\ \A d \in DOMAIN writer : d # c => writer'[d] = writer[d]
  BY <1>1, <1>4 DEF Writes
<1>9. /\ DOMAIN news' = DOMAIN writer[c].writes \cup DOMAIN news
      /\ \A u \in DOMAIN writer[c].writes : news'[u] = writer[c].writes[u]
      /\ \A u \in DOMAIN news \ DOMAIN writer[c].writes : news'[u] = news[u]
      /\ news' = [u \in DOMAIN news' |-> news'[u]]
  BY <1>1 DEF Overlaid
<1>10. NewsOk'
  <2>1. \A u \in DOMAIN news' : news'[u] \in NewsRow /\ u \in Urls /\ news'[u].title \in DOMAIN writer
    BY <1>1, <1>3, <1>9 DEF WriterOk, ToolsInv, NewsOk
  <2>. QED  BY <1>8, <1>9, <2>1 DEF NewsOk
<1>11. LocksOk'
  <2>1. /\ \A d, e \in DOMAIN writer : d # e => DOMAIN writer[d].writes \cap DOMAIN writer[e].writes = {}
        /\ \A d \in DOMAIN writer : \A u \in DOMAIN writer[d].writes \cap DOMAIN news :
             news[u].body # None => writer[d].writes[u].body # None
    BY DEF LocksOk, ToolsInv
  <2>2. \A d, e \in DOMAIN writer' :
          d # e => DOMAIN writer'[d].writes \cap DOMAIN writer'[e].writes = {}
    BY <1>7, <1>8, <2>1
  <2>3. ASSUME NEW d \in DOMAIN writer, NEW u \in DOMAIN writer'[d].writes \cap DOMAIN news',
               news'[u].body # None
        PROVE  writer'[d].writes[u].body # None
    <3>1. d # c /\ u \in DOMAIN writer[d].writes /\ writer'[d] = writer[d]
      BY <1>7, <1>8, <2>3
    <3>2. u \in DOMAIN news /\ news'[u] = news[u]
      BY <1>1, <1>9, <2>1, <2>3, <3>1
    <3>. QED  BY <2>1, <2>3, <3>1, <3>2
  <2>. QED  BY <1>8, <2>2, <2>3 DEF LocksOk
<1>. QED  BY <1>1, <1>2, <1>4, <1>5, <1>7, <1>10, <1>11, WriterMoves DEF MayHold

LEMMA DeadlockVictimKeeps ==
  ASSUME ToolsInv, NEW c, DeadlockVictim(c)
  PROVE  ToolsInv'
<1>1. c \in DOMAIN writer /\ Aborts(c) /\ news' = news /\ UNCHANGED clientVars /\ writer[c].at = "insert"
  BY DEF DeadlockVictim, Deadlocked, WaitsFor, Writing
<1>2. OnlyCaller(c) /\ http'[c].at = "idle"
  BY <1>1, WriterIdle
<1>. QED  BY <1>1, <1>2, AbortsKeeps

LEMMA NoConnectionKeeps ==
  ASSUME ToolsInv, NEW c, NoConnection(c)
  PROVE  ToolsInv'
<1>1. c \in DOMAIN writer /\ Aborts(c) /\ news' = news /\ UNCHANGED clientVars /\ writer[c].at = "read"
  BY DEF NoConnection, Writing
<1>2. OnlyCaller(c) /\ http'[c].at = "idle"
  BY <1>1, WriterIdle
<1>. QED  BY <1>1, <1>2, AbortsKeeps

LEMMA AbandonKeeps ==
  ASSUME ToolsInv, NEW c, Abandon(c)
  PROVE  ToolsInv'
<1>1. c \in DOMAIN writer /\ Aborts(c) /\ news' = news /\ Cancelled(c)
  BY DEF Abandon
<1>. QED  BY <1>1, FetchedIdle, AbortsKeeps

LEMMA WriterStepKeeps ==
  ASSUME ToolsInv, ClientTypeOK, NEW c \in Callers, WriterStep(c)
  PROVE  ToolsInv'
<1>1. CASE FetchAsks(c) \/ FetchAdmitted(c)
  BY <1>1, WaitKeeps DEF FetchAsks, FetchAdmitted
<1>. QED  BY <1>1, FetchFailsKeeps, FetchedKeeps, ReadKeeps, EmbedKeeps, InsertKeeps, CommitKeeps,
             DeadlockVictimKeeps, NoConnectionKeeps DEF WriterStep

-----------------------------------------------------------------------------
(* Every step keeps the invariant.                                         *)
ServiceInv == ClientInv /\ ToolsInv

LEMMA QuietKeeps ==
  ASSUME ToolsInv, UNCHANGED <<resolutionVars, newsVars, http, semaphore>>
  PROVE  ToolsInv'
<1>1. /\ indices' = indices /\ call' = call /\ held' = held /\ news' = news /\ writer' = writer
      /\ http' = http /\ semaphore' = semaphore
  BY DEF resolutionVars, newsVars
<1>2. PoolInv' /\ IndicesOk' /\ CallsOk' /\ NewsOk' /\ LocksOk'
  BY <1>1 DEF ToolsInv, PoolInv, HeldBy, IndicesOk, CallsOk, CallOk, Sessions, Inner, Outer,
     NewsOk, LocksOk
<1>3. WritersOk'
  BY <1>1 DEF ToolsInv, WritersOk, WriterOk, WriterHolds, HeldBy
<1>4. HttpOk'
  BY <1>1 DEF ToolsInv, HttpOk, Searches, At, Writing
<1>. QED  BY <1>2, <1>3, <1>4 DEF ToolsInv

LEMMA ServiceStep == ServiceInv /\ [ToolsNext]_toolsVars => ServiceInv'
<1>. SUFFICES ASSUME ServiceInv, [ToolsNext]_toolsVars PROVE ServiceInv'
  OBVIOUS
<1>1. ClientInv'
  BY ClientStep, ToolsStepOfClient DEF ServiceInv
<1>2. ToolsInv /\ ClientTypeOK
  BY DEF ServiceInv, ClientInv
<1>3. CASE Tick /\ UNCHANGED <<resolutionVars, newsVars>>
  BY <1>1, <1>2, <1>3, QuietKeeps DEF Tick, ServiceInv
<1>4. CASE UNCHANGED toolsVars
  BY <1>1, <1>2, <1>4, QuietKeeps DEF toolsVars, clientVars, ServiceInv
<1>5. ASSUME NEW c \in Callers, Step(c) \/ Stop(c)
      PROVE  ToolsInv'
  <2>1. CASE ToolStep(c) /\ UNCHANGED newsVars
    BY <1>2, <2>1, ToolStepKeeps
  <2>2. CASE WriterStep(c)
    BY <1>2, <2>2, WriterStepKeeps
  <2>3. CASE Cancel(c) /\ UNCHANGED newsVars
    BY <1>2, <2>3, CancelKeeps
  <2>4. CASE Abandon(c)
    BY <1>2, <2>4, AbandonKeeps
  <2>. QED  BY <1>5, <2>1, <2>2, <2>3, <2>4 DEF Step, Stop
<1>. QED  BY <1>1, <1>3, <1>4, <1>5 DEF ToolsNext, ServiceInv

-----------------------------------------------------------------------------
(* Any tool calls and writers, by different callers, with any arguments:   *)
(* what a workload of the model may be.                                    *)
Requested(r, asked) ==
  \/ r = Positions
  \/ \E i \in asked :
       \/ r = Fetch(i)
       \/ \E column \in Columns :
            r = Search(column, i) \/ \E symbol \in Manual : r = Override(column, i, symbol)

Ordered(w) ==
  \/ \E feeds \in Nat \ {0} : w = Ingest(feeds)
  \/ \E u \in Urls, persist \in BOOLEAN : w = DeepRead(u, persist)

Workload(calls, writers, asked) ==
  /\ DOMAIN calls \subseteq Callers /\ DOMAIN writers \subseteq Callers
  /\ DOMAIN calls \cap DOMAIN writers = {}
  /\ \A c \in DOMAIN calls : Requested(calls[c], asked)
  /\ \A c \in DOMAIN writers : Ordered(writers[c])

LEMMA RequestedOk ==
  ASSUME NEW asked, NEW r, Requested(r, asked)
  PROVE  CallOk(r) /\ Sessions(r) = {} /\ r.at # "lookup"
<1>1. /\ Len(Lines) \in Nat \ {0} /\ Listing(Lines) /\ Lines # <<>>
  BY ResolutionAssumption DEF Listing
<1>2. \A i : Listing(<<i>>) /\ Len(<<i>>) = 1 /\ <<i>> # <<>>
  BY DEF Listing
<1>3. ASSUME r = Positions
      PROVE  CallOk(r) /\ Sessions(r) = {} /\ r.at # "lookup"
  BY <1>1, <1>3 DEF Positions, Tool, CallOk, Sessions, Columns
<1>4. ASSUME NEW i \in asked, r = Fetch(i)
      PROVE  CallOk(r) /\ Sessions(r) = {} /\ r.at # "lookup"
  BY <1>1, <1>2, <1>4 DEF Fetch, Tool, CallOk, Sessions, Columns, Outer, Inner
<1>5. ASSUME NEW i \in asked, NEW column \in Columns, r = Search(column, i)
      PROVE  CallOk(r) /\ Sessions(r) = {} /\ r.at # "lookup"
  BY <1>1, <1>2, <1>5 DEF Search, Tool, CallOk, Sessions, Outer, Inner
<1>6. ASSUME NEW i \in asked, NEW column \in Columns, NEW symbol \in Manual, r = Override(column, i, symbol)
      PROVE  CallOk(r) /\ Sessions(r) = {} /\ r.at # "lookup"
  BY <1>1, <1>2, <1>6 DEF Override, Tool, CallOk, Sessions
<1>. QED  BY <1>3, <1>4, <1>5, <1>6 DEF Requested

LEMMA OrderedOk ==
  ASSUME NEW c, NEW w, Ordered(w)
  PROVE  WriterOk(c, w) /\ w.at = "fetch" /\ DOMAIN w.writes = {}
<1>1. ASSUME NEW feeds \in Nat \ {0}, w = Ingest(feeds)
      PROVE  WriterOk(c, w) /\ w.at = "fetch" /\ DOMAIN w.writes = {}
  <2>1. <<>> \in Seq(Urls)
    OBVIOUS
  <2>. QED  BY <1>1, <2>1 DEF Ingest, WriterOk, StoresOnce
<1>2. ASSUME NEW u \in Urls, NEW persist \in BOOLEAN, w = DeepRead(u, persist)
      PROVE  WriterOk(c, w) /\ w.at = "fetch" /\ DOMAIN w.writes = {}
  <2>1. <<u>> \in Seq(Urls) /\ <<u>> # <<>>
    OBVIOUS
  <2>. QED  BY <1>2, <2>1 DEF DeepRead, WriterOk, StoresOnce
<1>. QED  BY <1>1, <1>2 DEF Ordered

LEMMA BeginInv ==
  ASSUME NEW calls, NEW writers, NEW asked, NEW ids, NEW ticks \in Nat, Workload(calls, writers, asked),
         Begin(calls, writers, ticks, ids)
  PROVE  ServiceInv
<1>1. ClientInv
  BY InitInv DEF Begin
<1>2. /\ call = calls /\ writer = writers /\ held = {} /\ news = [u \in {} |-> None]
      /\ indices = [i \in ids |-> [column \in Columns |-> None]]
      /\ http = [c \in Callers |-> Idle] /\ semaphore = NoCaller
  BY DEF Begin, ClientInit
<1>3. \A c : HeldBy(c) = {}
  BY <1>2 DEF HeldBy
<1>4. PoolInv
  <2>1. IsFiniteSet(held) /\ Cardinality(held) = 0
    BY <1>2, FS_EmptySet
  <2>. QED  BY <1>2, <1>3, <2>1, ResolutionAssumption DEF PoolInv, Workload
<1>5. IndicesOk
  BY <1>2 DEF IndicesOk
<1>6. CallsOk
  BY <1>2, <1>3, RequestedOk DEF CallsOk, Workload
<1>7. WritersOk
  BY <1>2, <1>3, OrderedOk DEF WritersOk, WriterHolds, Workload
<1>8. NewsOk /\ LocksOk
  <2>1. \A c \in DOMAIN writer : DOMAIN writer[c].writes = {}
    BY <1>2, OrderedOk DEF Workload
  <2>. QED  BY <1>2, <2>1 DEF NewsOk, LocksOk
<1>9. HttpOk
  BY <1>2, IdleType, WindowTypes DEF HttpOk
<1>. QED  BY <1>1, <1>4, <1>5, <1>6, <1>7, <1>8, <1>9 DEF ServiceInv, ToolsInv

-----------------------------------------------------------------------------
LEMMA ToolsTypes == ServiceInv => ToolsTypeOK
<1>. SUFFICES ASSUME ServiceInv PROVE ToolsTypeOK
  OBVIOUS
<1>. USE DEF ServiceInv, ToolsInv
<1>1. \A u \in DOMAIN news : u \in Urls /\ news[u].title \in DOMAIN writer
  BY DEF NewsOk
<1>2. \A c \in DOMAIN call : call[c].missing + Len(call[c].todo) <= Len(Lines)
  BY DEF CallsOk, CallOk
<1>3. \A c \in DOMAIN writer : DOMAIN writer[c].writes # {} => <<c, 1>> \in held
  BY DEF WritersOk, WriterOk, WriterHolds, HeldBy
<1>4. ASSUME NEW c \in Callers, Over(c)
      PROVE  semaphore # c /\ {<<c, 1>>, <<c, 2>>} \cap held = {}
  <2>1. c \in DOMAIN call => HeldBy(c) = {}
    BY <1>4 DEF Over, CallsOk, Sessions
  <2>2. c \in DOMAIN writer => HeldBy(c) = {}
    BY <1>4 DEF Over, WritersOk, WriterHolds
  <2>3. HeldBy(c) = {}
    BY <2>1, <2>2 DEF PoolInv
  <2>4. semaphore # c
    BY <1>4 DEF HttpOk, Over, Searches, At, Writing
  <2>. QED  BY <2>3, <2>4 DEF HeldBy
<1>. QED  BY <1>1, <1>2, <1>3, <1>4 DEF ToolsTypeOK, IndicesOk, PoolInv

(* Whatever tool calls, ingests and deep reads of nam-agentic start        *)
(* together, over any pool: it is never overdrawn, a transaction that has  *)
(* written holds its connection, and a call that has ended, by whatever    *)
(* error or cancellation, holds neither a connection nor the semaphore.    *)
THEOREM ToolsTyped ==
  ASSUME NEW calls, NEW writers, NEW asked, NEW ids, NEW ticks \in Nat, Workload(calls, writers, asked)
  PROVE  Begin(calls, writers, ticks, ids) /\ [][ToolsNext]_toolsVars => []ToolsTypeOK
<1>1. Begin(calls, writers, ticks, ids) => ServiceInv
  BY BeginInv
<1>. QED  BY <1>1, ServiceStep, ToolsTypes, PTL

-----------------------------------------------------------------------------
(* Only a commit changes the stored rows.                                  *)
LEMMA OnlyCommitStores ==
  ASSUME [ToolsNext]_toolsVars
  PROVE  news' = news \/ \E c \in Callers : Commit(c)
<1>1. ASSUME NEW c \in Callers, Step(c) \/ Stop(c)
      PROVE  news' = news \/ Commit(c)
  <2>1. CASE ToolStep(c) /\ UNCHANGED newsVars
    BY <2>1 DEF newsVars
  <2>2. CASE WriterStep(c)
    BY <2>2 DEF WriterStep, FetchAsks, FetchAdmitted, FetchFails, Fetched, Read, Embed, Insert, DeadlockVictim,
       NoConnection, newsVars
  <2>3. CASE Stop(c)
    BY <2>3 DEF Stop, Cancel, Abandon, newsVars
  <2>. QED  BY <1>1, <2>1, <2>2, <2>3 DEF Step
<1>. QED  BY <1>1 DEF ToolsNext, toolsVars, newsVars

LEMMA CommitKeepsBodies ==
  ASSUME ToolsInv, NEW c, Commit(c), NEW u \in DOMAIN news
  PROVE  u \in DOMAIN news' /\ (news[u].body # None => news'[u].body # None)
<1>1. c \in DOMAIN writer /\ news' = Overlaid(writer[c].writes, news)
  BY DEF Commit, Writing
<1>2. DOMAIN news' = DOMAIN writer[c].writes \cup DOMAIN news
  BY <1>1 DEF Overlaid
<1>3. CASE u \in DOMAIN writer[c].writes
  <2>1. news'[u] = writer[c].writes[u]
    BY <1>1, <1>3 DEF Overlaid
  <2>. QED  BY <1>1, <1>2, <1>3, <2>1 DEF ToolsInv, LocksOk
<1>4. CASE u \notin DOMAIN writer[c].writes
  <2>1. news'[u] = news[u]
    BY <1>1, <1>4 DEF Overlaid
  <2>. QED  BY <1>2, <2>1
<1>. QED  BY <1>3, <1>4

(* However many feeds and articles are stored at the same time, in         *)
(* whatever order they read, embed, wait for each other's rows and commit, *)
(* and whichever of them fail: no stored body is lost.                     *)
THEOREM BodiesKept ==
  ASSUME NEW calls, NEW writers, NEW asked, NEW ids, NEW ticks \in Nat, Workload(calls, writers, asked)
  PROVE  Begin(calls, writers, ticks, ids) /\ [][ToolsNext]_toolsVars => BodiesSurvive
<1>1. Begin(calls, writers, ticks, ids) => ServiceInv
  BY BeginInv
<1>2. ServiceInv /\ [ToolsNext]_toolsVars =>
        [\A u \in DOMAIN news :
           /\ u \in DOMAIN news'
           /\ news[u].body # None => news'[u].body # None]_newsVars
  <2>. SUFFICES ASSUME ToolsInv, [ToolsNext]_toolsVars, NEW u \in DOMAIN news
                PROVE  u \in DOMAIN news' /\ (news[u].body # None => news'[u].body # None)
    BY DEF ServiceInv
  <2>. QED  BY OnlyCommitStores, CommitKeepsBodies
<1>. QED  BY <1>1, <1>2, ServiceStep, PTL DEF BodiesSurvive

-----------------------------------------------------------------------------
(* What MCAgentTools adds: any workload, and the two history variables.    *)
Recorded(calls, writers, ticks, ids) ==
  Begin(calls, writers, ticks, ids) /\ inflight = {} /\ crossed = {}

historyVars == <<toolsVars, inflight, crossed>>

LEMMA HistoryStep == [MCNext]_historyVars => [ToolsNext]_toolsVars
BY DEF MCNext, historyVars

VectorsInv == ServiceInv /\ VersionsMatch /\ VectorsMatchUnlessCrossed

(* A writer's versions are those it had, fewer, or one more.               *)
LEMMA VersionsMove ==
  ASSUME ToolsInv, [ToolsNext]_toolsVars
  PROVE  /\ DOMAIN writer' = DOMAIN writer
         /\ \A d \in DOMAIN writer :
              \/ writer'[d].writes = writer[d].writes
              \/ DOMAIN writer'[d].writes = {}
              \/ Insert(d)
<1>1. ASSUME NEW c \in Callers, WriterStep(c) \/ Abandon(c)
      PROVE  /\ DOMAIN writer' = DOMAIN writer
             /\ \A d \in DOMAIN writer :
                  \/ writer'[d].writes = writer[d].writes
                  \/ DOMAIN writer'[d].writes = {}
                  \/ Insert(d)
  <2>1. CASE FetchAsks(c) \/ FetchAdmitted(c)
    BY <2>1 DEF FetchAsks, FetchAdmitted, newsVars
  <2>2. c \in DOMAIN writer
    BY <1>1 DEF WriterStep, FetchAsks, FetchAdmitted, FetchFails, Fetched, Read, Embed, Insert, Commit,
       DeadlockVictim, NoConnection, Abandon, Writing
  <2>3. ASSUME NEW w, NEW S, Writes(c, w, S), w.writes = writer[c].writes \/ DOMAIN w.writes = {}
        PROVE  /\ DOMAIN writer' = DOMAIN writer
               /\ \A d \in DOMAIN writer :
                    writer'[d].writes = writer[d].writes \/ DOMAIN writer'[d].writes = {}
    BY <2>2, <2>3 DEF Writes
  <2>4. WriterOk(c, writer[c])
    BY <2>2, WriterFields
  <2>. DEFINE p == writer[c]
  <2>5. p = WriterRecord(p.op, p.at, p.feeds, p.todo, p.row, p.vector, p.writes)
    BY <2>4, WriterShape
  <2>6. CASE Aborts(c)
    <3>1. DOMAIN [p EXCEPT !.at = "error", !.writes = Nothing].writes = {}
      BY <2>5 DEF WriterRecord, Nothing
    <3>2. Writes(c, [p EXCEPT !.at = "error", !.writes = Nothing], {})
      BY <2>6 DEF Aborts, Nothing
    <3>. HIDE DEF p
    <3>. QED  BY <2>3, <3>1, <3>2
  <2>7. CASE FetchFails(c) /\ ~Aborts(c)
    <3>. DEFINE w == [p EXCEPT !.feeds = p.feeds - 1, !.at = IF p.feeds = 1 THEN "done" ELSE p.at]
    <3>1. Writes(c, w, {})
      BY <2>7 DEF FetchFails, Skips
    <3>2. w.writes = p.writes
      BY <2>5 DEF WriterRecord
    <3>. HIDE DEF w
    <3>. QED  BY <2>3, <3>1, <3>2
  <2>8. CASE Fetched(c)
    <3>1. ASSUME NEW page \in Pages, Writes(c, [p EXCEPT !.at = "read", !.todo = page], {})
          PROVE  /\ DOMAIN writer' = DOMAIN writer
                 /\ \A d \in DOMAIN writer :
                      writer'[d].writes = writer[d].writes \/ DOMAIN writer'[d].writes = {}
      <4>1. [p EXCEPT !.at = "read", !.todo = page].writes = p.writes
        BY <2>5 DEF WriterRecord
      <4>. HIDE DEF p
      <4>. QED  BY <2>3, <3>1, <4>1 DEF p
    <3>2. ASSUME Writes(c, [p EXCEPT !.at = IF p.feeds = 0 THEN "done" ELSE "read"], {})
          PROVE  /\ DOMAIN writer' = DOMAIN writer
                 /\ \A d \in DOMAIN writer :
                      writer'[d].writes = writer[d].writes \/ DOMAIN writer'[d].writes = {}
      <4>1. [p EXCEPT !.at = IF p.feeds = 0 THEN "done" ELSE "read"].writes = p.writes
        BY <2>5 DEF WriterRecord
      <4>. HIDE DEF p
      <4>. QED  BY <2>3, <3>2, <4>1 DEF p
    <3>. QED  BY <2>8, <3>1, <3>2 DEF Fetched
  <2>9. CASE Read(c)
    <3>. DEFINE row == View(writer[c], Head(writer[c].todo))
                w   == [p EXCEPT !.at = "embed", !.row = row]
    <3>1. Writes(c, w, {1})
      BY <2>9 DEF Read
    <3>. HIDE DEF row
    <3>2. w.writes = p.writes
      BY <2>5 DEF WriterRecord
    <3>. HIDE DEF w
    <3>. QED  BY <2>3, <3>1, <3>2
  <2>10. CASE Embed(c) /\ ~Aborts(c)
    <3>. DEFINE text == Text(c, writer[c].row)
                w    == [p EXCEPT !.at = "insert", !.vector = text]
    <3>1. Writes(c, w, {1})
      BY <2>10 DEF Embed
    <3>. HIDE DEF text
    <3>2. w.writes = p.writes
      BY <2>5 DEF WriterRecord
    <3>. HIDE DEF w
    <3>. QED  BY <2>3, <3>1, <3>2
  <2>11. CASE Insert(c)
    BY <2>2, <2>11 DEF Insert, Writes
  <2>12. CASE Commit(c)
    <3>. DEFINE w == [p EXCEPT !.at = IF p.feeds = 1 THEN "done" ELSE "fetch", !.feeds = p.feeds - 1,
                               !.writes = Nothing]
    <3>1. Writes(c, w, {})
      BY <2>12 DEF Commit, Nothing
    <3>2. DOMAIN w.writes = {}
      BY <2>5 DEF WriterRecord, Nothing
    <3>. HIDE DEF w
    <3>. QED  BY <2>3, <3>1, <3>2
  <2>. QED  BY <1>1, <2>1, <2>6, <2>7, <2>8, <2>9, <2>10, <2>11, <2>12
            DEF WriterStep, DeadlockVictim, NoConnection, Abandon
<1>2. CASE UNCHANGED newsVars
  BY <1>2 DEF newsVars
<1>. QED  BY <1>1, <1>2 DEF ToolsNext, Step, Stop, toolsVars

(* A version whose writer did not find the row changed embeds what it has. *)
LEMMA InsertMatches ==
  ASSUME ToolsInv, VersionsMatch, NEW c \in Callers, Insert(c), MCNext
  PROVE  \A u \in DOMAIN writer'[c].writes :
           <<c, u>> \notin crossed' => writer'[c].writes[u].vector = <<c, writer'[c].writes[u].body>>
<1>. DEFINE u   == Head(writer[c].todo)
            row == View(writer[c], u)
            version == Stored(c, row)
            writes  == Overlaid([v \in {u} |-> version], writer[c].writes)
            at == IF Len(writer[c].todo) = 1 THEN "commit" ELSE "read"
            w  == [writer[c] EXCEPT !.at = at, !.todo = Tail(writer[c].todo), !.writes = writes]
<1>1. c \in DOMAIN writer /\ writer[c].at = "insert" /\ Writes(c, w, {1})
  BY DEF Insert, Writing
<1>2. WriterOk(c, writer[c])
  BY <1>1, WriterFields
<1>3. w.writes = writes /\ w.todo = Tail(writer[c].todo)
  BY <1>2, WriterShape DEF WriterRecord
<1>4. writer'[c].writes = writes /\ writer'[c].todo # writer[c].todo
  <2>1. writer'[c] = w
    BY <1>1 DEF Writes
  <2>2. Tail(writer[c].todo) # writer[c].todo
    <3>1. writer[c].todo \in Seq(Urls) /\ writer[c].todo # <<>>
      BY <1>1, <1>2 DEF WriterOk
    <3>2. Len(writer[c].todo) \in Nat /\ Len(Tail(writer[c].todo)) = Len(writer[c].todo) - 1
      BY <3>1, NextUrl
    <3>. DEFINE n == Len(writer[c].todo)
                m == Len(Tail(writer[c].todo))
    <3>3. m # n
      <4>. HIDE DEF m, n
      <4>1. n \in Nat /\ m = n - 1
        BY <3>2 DEF m, n
      <4>. QED  BY <4>1
    <3>. QED  BY <3>3, Zenon
  <2>. QED  BY <1>3, <2>1, <2>2
<1>5. writer[c].row # row => <<c, u>> \in crossed'
  BY <1>1, <1>4 DEF MCNext, Crosses, Writing
<1>6. writer[c].row = row => version.vector = <<c, version.body>>
  BY <1>1, <1>2 DEF Stored, Body, WriterOk
<1>7. crossed \subseteq crossed'
  BY DEF MCNext
<1>. HIDE DEF u, version, row
<1>8. /\ DOMAIN writes = {u} \cup DOMAIN writer[c].writes /\ writes[u] = version
      /\ \A v \in DOMAIN writer[c].writes \ {u} : writes[v] = writer[c].writes[v]
  BY DEF Overlaid
<1>. HIDE DEF writes
<1>. QED  BY <1>1, <1>4, <1>5, <1>6, <1>7, <1>8 DEF VersionsMatch

LEMMA VectorsStep == VectorsInv /\ [MCNext]_historyVars => VectorsInv'
<1>. SUFFICES ASSUME ServiceInv, VersionsMatch, VectorsMatchUnlessCrossed, [MCNext]_historyVars
              PROVE  VectorsInv'
  BY DEF VectorsInv
<1>1. ServiceInv' /\ ToolsInv /\ [ToolsNext]_toolsVars
  BY ServiceStep, HistoryStep DEF ServiceInv
<1>2. crossed \subseteq crossed'
  BY DEF MCNext, historyVars
<1>3. VersionsMatch'
  <2>. SUFFICES ASSUME NEW d \in DOMAIN writer', NEW u \in DOMAIN writer'[d].writes, <<d, u>> \notin crossed'
                PROVE  writer'[d].writes[u].vector = <<d, writer'[d].writes[u].body>>
    BY DEF VersionsMatch
  <2>1. d \in DOMAIN writer
    BY <1>1, VersionsMove
  <2>2. CASE writer'[d].writes = writer[d].writes
    BY <1>2, <2>1, <2>2 DEF VersionsMatch
  <2>3. CASE Insert(d)
    <3>1. d \in Callers
      BY <1>1, <2>1, WriterFields
    <3>2. CASE MCNext
      BY <1>1, <2>3, <3>1, <3>2, InsertMatches
    <3>3. CASE UNCHANGED historyVars
      BY <2>1, <3>3, <1>2 DEF historyVars, toolsVars, newsVars, VersionsMatch
    <3>. QED  BY <3>2, <3>3
  <2>. QED  BY <1>1, <2>1, <2>2, <2>3, VersionsMove
<1>4. VectorsMatchUnlessCrossed'
  <2>. SUFFICES ASSUME NEW u \in DOMAIN news', <<news'[u].title, u>> \notin crossed'
                PROVE  news'[u].vector = <<news'[u].title, news'[u].body>>
    BY DEF VectorsMatchUnlessCrossed
  <2>1. CASE news' = news
    BY <1>2, <2>1 DEF VectorsMatchUnlessCrossed
  <2>2. ASSUME NEW c \in Callers, Commit(c)
        PROVE  news'[u].vector = <<news'[u].title, news'[u].body>>
    <3>1. c \in DOMAIN writer /\ news' = Overlaid(writer[c].writes, news)
      BY <2>2 DEF Commit, Writing
    <3>2. CASE u \in DOMAIN writer[c].writes
      <4>1. news'[u] = writer[c].writes[u]
        BY <3>1, <3>2 DEF Overlaid
      <4>2. writer[c].writes[u].title = c
        BY <1>1, <3>1, <3>2, WriterFields DEF WriterOk
      <4>. QED  BY <1>2, <3>1, <3>2, <4>1, <4>2 DEF VersionsMatch
    <3>3. CASE u \notin DOMAIN writer[c].writes
      <4>1. u \in DOMAIN news /\ news'[u] = news[u]
        BY <3>1, <3>3 DEF Overlaid
      <4>. QED  BY <1>2, <4>1 DEF VectorsMatchUnlessCrossed
    <3>. QED  BY <3>2, <3>3
  <2>. QED  BY <1>1, <2>1, <2>2, OnlyCommitStores
<1>. QED  BY <1>1, <1>3, <1>4 DEF VectorsInv

(* For any writers: the stored vector of an item is of the text it shows   *)
(* unless, between the SELECT and the INSERT of the writer it shows,       *)
(* another transaction changed the row.                                    *)
THEOREM VectorsMatch ==
  ASSUME NEW calls, NEW writers, NEW asked, NEW ids, NEW ticks \in Nat, Workload(calls, writers, asked)
  PROVE  Recorded(calls, writers, ticks, ids) /\ [][MCNext]_historyVars => []VectorsMatchUnlessCrossed
<1>1. Recorded(calls, writers, ticks, ids) => VectorsInv
  <2>. SUFFICES ASSUME Recorded(calls, writers, ticks, ids) PROVE VectorsInv
    OBVIOUS
  <2>1. ServiceInv
    BY BeginInv DEF Recorded
  <2>2. VersionsMatch
    BY OrderedOk DEF Recorded, Begin, Workload, VersionsMatch
  <2>3. VectorsMatchUnlessCrossed
    BY DEF Recorded, Begin, VectorsMatchUnlessCrossed
  <2>. QED  BY <2>1, <2>2, <2>3 DEF VectorsInv
<1>2. VectorsInv => VectorsMatchUnlessCrossed
  BY DEF VectorsInv
<1>. QED  BY <1>1, <1>2, VectorsStep, PTL

-----------------------------------------------------------------------------
(* The commit of a lookup that has found a symbol.                         *)
LooksUp(c) ==
  \E symbol \in Found :
    indices' = IF Known(call[c])
               THEN [indices EXCEPT ![Head(call[c].todo)][call[c].column] = symbol]
               ELSE indices

(* Where a lookup begins, goes on and ends, and who writes symbols.        *)
Begins(c) ==
  /\ indices' = indices
  /\ call'[c].at = "lookup" =>
       /\ call'[c].column = call[c].column /\ call'[c].todo = call[c].todo
       /\ call[c].at = "lookup" \/ (Known(call[c]) => Row(call[c]) = None)

LEMMA MoveFields ==
  ASSUME ToolsInv, NEW c \in DOMAIN call, NEW at, NEW S, Move(c, at, S)
  PROVE  call'[c].at = at /\ DOMAIN call' = DOMAIN call /\ \A d \in DOMAIN call : d # c => call'[d] = call[d]
<1>1. CallOk(call[c])
  BY CallFields
<1>2. call'[c] = [call[c] EXCEPT !.at = at]
  BY DEF Move, Goto
<1>3. [call[c] EXCEPT !.at = at].at = at
  BY <1>1 DEF CallOk
<1>. QED  BY <1>2, <1>3 DEF Move, Goto

LEMMA ResolvedFields ==
  ASSUME ToolsInv, NEW c \in DOMAIN call, Resolved(c)
  PROVE  /\ call'[c].at # "lookup" /\ DOMAIN call' = DOMAIN call
         /\ \A d \in DOMAIN call : d # c => call'[d] = call[d]
<1>. DEFINE at == IF call[c].op = "search" THEN "done" ELSE "quote"
<1>1. Move(c, at, Outer(call[c])) /\ at # "lookup"
  BY DEF Resolved
<1>. HIDE DEF at
<1>. QED  BY <1>1, MoveFields

LEMMA NextLineFields ==
  ASSUME ToolsInv, NEW c \in DOMAIN call, NEW unpriced, NextLine(c, unpriced)
  PROVE  /\ call'[c].at # "lookup" /\ DOMAIN call' = DOMAIN call
         /\ \A d \in DOMAIN call : d # c => call'[d] = call[d]
<1>. DEFINE p  == call[c]
            at == IF Len(p.todo) = 1 THEN "done" ELSE "price"
            r  == [p EXCEPT !.todo = Tail(p.todo), !.missing = p.missing + unpriced, !.at = at]
<1>1. p = [op |-> p.op, column |-> p.column, todo |-> p.todo, symbol |-> p.symbol, at |-> p.at,
           row |-> p.row, tries |-> p.tries, missing |-> p.missing]
  BY CallFields DEF CallOk
<1>2. Goto(c, r, {})
  BY DEF NextLine
<1>3. r.at = at
  BY <1>1, CallRecord
<1>4. at # "lookup"
  OBVIOUS
<1>. HIDE DEF at, r
<1>. QED  BY <1>2, <1>3, <1>4 DEF Goto

(* Neither a match nor another end of a lookup leaves it where it was,     *)
(* except to try the next place.                                           *)
LEMMA LookupEnds ==
  ASSUME ToolsInv, NEW c \in DOMAIN call, call[c].at = "lookup", Hit(c) \/ Miss(c) \/ Raise(c)
  PROVE  /\ DOMAIN call' = DOMAIN call /\ \A d \in DOMAIN call : d # c => call'[d] = call[d]
         /\ Begins(c) \/ (call'[c].at # "lookup" /\ LooksUp(c))
<1>1. CASE Hit(c)
  BY <1>1, ResolvedFields DEF Hit, LooksUp
<1>2. CASE Raise(c)
  <2>1. Move(c, "error", {}) /\ indices' = indices
    BY <1>2 DEF Raise, Fails
  <2>. QED  BY <2>1, MoveFields DEF Begins
<1>3. CASE Miss(c)
  <2>0. indices' = indices
    BY <1>3 DEF Miss
  <2>1. ASSUME Goto(c, [call[c] EXCEPT !.tries = call[c].tries + 1], Inner(call[c]))
        PROVE  /\ DOMAIN call' = DOMAIN call /\ \A d \in DOMAIN call : d # c => call'[d] = call[d]
               /\ Begins(c)
    <3>. DEFINE r == [call[c] EXCEPT !.tries = call[c].tries + 1]
    <3>1. r.column = call[c].column /\ r.todo = call[c].todo
      BY CallFields DEF CallOk
    <3>2. Goto(c, r, Inner(call[c]))
      BY <2>1
    <3>. HIDE DEF r
    <3>3. call'[c] = r
      BY <3>2 DEF Goto
    <3>. QED  BY <2>0, <3>1, <3>2, <3>3 DEF Goto, Begins
  <2>2. ASSUME NextLine(c, 1)
        PROVE  /\ DOMAIN call' = DOMAIN call /\ \A d \in DOMAIN call : d # c => call'[d] = call[d]
               /\ Begins(c)
    BY <2>0, <2>2, NextLineFields DEF Begins
  <2>3. ASSUME Fails(c)
        PROVE  /\ DOMAIN call' = DOMAIN call /\ \A d \in DOMAIN call : d # c => call'[d] = call[d]
               /\ Begins(c)
    BY <2>0, <2>3, MoveFields DEF Fails, Begins
  <2>. QED  BY <1>3, <2>1, <2>2, <2>3 DEF Miss
<1>. QED  BY <1>1, <1>2, <1>3

LEMMA LoadBegins ==
  ASSUME ToolsInv, NEW c \in DOMAIN call, Load(c)
  PROVE  /\ DOMAIN call' = DOMAIN call /\ \A d \in DOMAIN call : d # c => call'[d] = call[d]
         /\ Begins(c)
<1>1. indices' = indices
  BY DEF Load
<1>2. CASE Known(call[c]) /\ Row(call[c]) # None
  BY <1>1, <1>2, ResolvedFields DEF Load, Begins
<1>3. CASE ~(Known(call[c]) /\ Row(call[c]) # None)
  <2>. DEFINE p == call[c]
              v == [p EXCEPT !.at = "lookup"]
              r == [p EXCEPT !.at = "lookup", !.tries = 1]
  <2>1. p = [op |-> p.op, column |-> p.column, todo |-> p.todo, symbol |-> p.symbol, at |-> p.at,
             row |-> p.row, tries |-> p.tries, missing |-> p.missing]
    BY CallFields DEF CallOk
  <2>2. v = [op |-> p.op, column |-> p.column, todo |-> p.todo, symbol |-> p.symbol, at |-> "lookup",
             row |-> p.row, tries |-> p.tries, missing |-> p.missing]
    BY <2>1
  <2>3. r = [v EXCEPT !.tries = 1]
    BY <2>1
  <2>4. r.column = p.column /\ r.todo = p.todo
    <3>. HIDE DEF v, r
    <3>. QED  BY <2>2, <2>3
  <2>5. Goto(c, r, Inner(call[c]))
    BY <1>3 DEF Load
  <2>. HIDE DEF r
  <2>6. call'[c] = r
    BY <2>5 DEF Goto
  <2>. QED  BY <1>1, <1>3, <2>4, <2>5, <2>6 DEF Goto, Begins
<1>. QED  BY <1>2, <1>3

(* One step of a tool call.                                                *)
LEMMA CallSteps ==
  ASSUME ToolsInv, NEW c \in DOMAIN call, ToolStep(c) \/ Cancel(c)
  PROVE  /\ DOMAIN call' = DOMAIN call /\ \A d \in DOMAIN call : d # c => call'[d] = call[d]
         /\ \/ Begins(c)
            \/ call[c].at = "lookup" /\ call'[c].at # "lookup" /\ LooksUp(c)
            \/ Impose(c) /\ call'[c].at = "refresh"
<1>. DEFINE Elsewhere1 == /\ DOMAIN call' = DOMAIN call /\ \A d \in DOMAIN call : d # c => call'[d] = call[d]
                          /\ Begins(c)
<1>1. ASSUME indices' = indices, NEW at, NEW S, Move(c, at, S), at # "lookup"
      PROVE  Elsewhere1
  BY <1>1, MoveFields DEF Begins
<1>2. CASE List(c)
  BY <1>1, <1>2 DEF List
<1>3. CASE Price(c)
  <2>. DEFINE at == IF Row(call[c]) = None THEN "load" ELSE "quote"
  <2>1. Move(c, at, {1}) /\ at # "lookup" /\ indices' = indices
    BY <1>3 DEF Price
  <2>. HIDE DEF at
  <2>. QED  BY <1>1, <2>1
<1>4. CASE Load(c)
  BY <1>4, LoadBegins
<1>5. CASE Quote(c)
  <2>1. ASSUME NEW unpriced, NextLine(c, unpriced)
        PROVE  Elsewhere1
    BY <1>5, <2>1, NextLineFields DEF Quote, Begins
  <2>. QED  BY <1>1, <1>5, <2>1 DEF Quote, Fails
<1>6. CASE Get(c)
  <2>1. CASE Known(call[c])
    <3>. DEFINE p == call[c]
                row == Row(p)
                v == [p EXCEPT !.at = "write"]
                r == [p EXCEPT !.at = "write", !.row = row]
    <3>1. p = [op |-> p.op, column |-> p.column, todo |-> p.todo, symbol |-> p.symbol, at |-> p.at,
               row |-> p.row, tries |-> p.tries, missing |-> p.missing]
      BY CallFields DEF CallOk
    <3>2. v = [op |-> p.op, column |-> p.column, todo |-> p.todo, symbol |-> p.symbol, at |-> "write",
               row |-> p.row, tries |-> p.tries, missing |-> p.missing]
      BY <3>1
    <3>3. r = [v EXCEPT !.row = row]
      BY <3>1
    <3>4. r.at = "write"
      <4>. HIDE DEF v, r, row
      <4>. QED  BY <3>2, <3>3
    <3>5. Goto(c, r, {1}) /\ indices' = indices
      BY <1>6, <2>1 DEF Get
    <3>. HIDE DEF r
    <3>. QED  BY <3>4, <3>5 DEF Goto, Begins
  <2>2. CASE ~Known(call[c])
    BY <1>1, <1>6, <2>2 DEF Get, Fails
  <2>. QED  BY <2>1, <2>2
<1>7. CASE Impose(c)
  BY <1>7, MoveFields DEF Impose
<1>8. CASE Refresh(c)
  BY <1>1, <1>8 DEF Refresh
<1>9. CASE PoolTimeout(c) \/ Cancel(c)
  BY <1>1, <1>9 DEF PoolTimeout, Cancel, Fails
<1>10. CASE SearchAsks(c) \/ (Searches(c) /\ Admit(c) /\ UNCHANGED resolutionVars)
  BY <1>10 DEF SearchAsks, resolutionVars, Begins
<1>11. CASE YahooLookup(c) \/ SearchAnswered(c) \/ SearchFails(c)
  BY <1>11, LookupEnds DEF YahooLookup, SearchAnswered, SearchFails, Searches, At
<1>. QED  BY <1>2, <1>3, <1>4, <1>5, <1>6, <1>7, <1>8, <1>9, <1>10, <1>11 DEF ToolStep, LocalStep

(* Every other step leaves the calls and the symbols.                      *)
LEMMA CallsOnly ==
  ASSUME [ToolsNext]_toolsVars
  PROVE  \/ indices' = indices /\ call' = call
         \/ \E c \in Callers : c \in DOMAIN call /\ (ToolStep(c) \/ Cancel(c))
<1>1. ASSUME NEW c \in Callers, WriterStep(c) \/ Abandon(c)
      PROVE  indices' = indices /\ call' = call
  BY <1>1 DEF WriterStep, FetchAsks, FetchAdmitted, FetchFails, Fetched, Read, Embed, Insert, Commit,
     DeadlockVictim, NoConnection, Abandon, Skips, Aborts, Writes, resolutionVars
<1>2. ASSUME NEW c \in Callers, ToolStep(c) \/ Cancel(c)
      PROVE  c \in DOMAIN call
  BY <1>2 DEF ToolStep, LocalStep, List, Price, Load, Quote, Get, Impose, Refresh, YahooLookup, PoolTimeout,
     SearchAsks, SearchAnswered, SearchFails, Searches, Cancel, At
<1>3. CASE UNCHANGED toolsVars \/ UNCHANGED resolutionVars
  BY <1>3 DEF toolsVars, resolutionVars
<1>. QED  BY <1>1, <1>2, <1>3 DEF ToolsNext, Step, Stop


LookupsInv == ServiceInv /\ LookupsRecorded

(* A lookup is recorded when a symbol is imposed under it; one that begins *)
(* later begins over a row that has none.                                  *)
LEMMA LookupsStep == LookupsInv /\ [MCNext]_historyVars => LookupsInv'
<1>. SUFFICES ASSUME ServiceInv, LookupsRecorded, [MCNext]_historyVars PROVE LookupsInv'
  BY DEF LookupsInv
<1>1. ServiceInv' /\ ToolsInv /\ [ToolsNext]_toolsVars
  BY ServiceStep, HistoryStep DEF ServiceInv
<1>2. inflight \subseteq inflight'
  BY DEF MCNext, historyVars
<1>3. LookupsRecorded'
  <2>. SUFFICES ASSUME NEW d \in DOMAIN call', call'[d].at = "lookup", Known(call[d])', Row(call[d])' \in Manual
                PROVE  <<d, Head(call'[d].todo)>> \in inflight'
    BY DEF LookupsRecorded, At
  <2>1. CASE indices' = indices /\ call' = call
    <3>1. At(d, "lookup") /\ Known(call[d]) /\ Row(call[d]) \in Manual /\ d \in DOMAIN call
      BY <2>1 DEF At, Known, Row
    <3>. QED  BY <1>2, <2>1, <3>1 DEF LookupsRecorded
  <2>2. ASSUME NEW c \in Callers, c \in DOMAIN call, ToolStep(c) \/ Cancel(c)
        PROVE  <<d, Head(call'[d].todo)>> \in inflight'
    <3>. DEFINE i == Head(call[d].todo)
                column == call[d].column
    <3>1. /\ DOMAIN call' = DOMAIN call /\ \A e \in DOMAIN call : e # c => call'[e] = call[e]
          /\ \/ Begins(c)
             \/ call[c].at = "lookup" /\ call'[c].at # "lookup" /\ LooksUp(c)
             \/ Impose(c) /\ call'[c].at = "refresh"
      BY <1>1, <2>2, CallSteps
    <3>2. CASE Begins(c)
      <4>1. /\ indices' = indices /\ call'[d].column = column /\ call'[d].todo = call[d].todo
            /\ At(d, "lookup") \/ (Known(call[d]) => Row(call[d]) = None)
        BY <3>1, <3>2 DEF Begins, At
      <4>2. Known(call[d]) /\ Row(call[d]) \in Manual
        BY <4>1 DEF Known, Row
      <4>3. At(d, "lookup")
        BY <4>1, <4>2, ResolutionAssumption
      <4>. QED  BY <1>2, <3>1, <4>1, <4>2, <4>3 DEF LookupsRecorded
    <3>3. CASE ~Begins(c)
      <4>1. d # c /\ call'[d] = call[d] /\ d \in DOMAIN call
        BY <3>1, <3>3
      <4>2. At(d, "lookup") /\ column \in Columns
        BY <1>1, <4>1, CallFields DEF At, CallOk
      <4>3. CASE LooksUp(c)
        <5>1. PICK symbol \in Found :
                indices' = IF Known(call[c])
                           THEN [indices EXCEPT ![Head(call[c].todo)][call[c].column] = symbol]
                           ELSE indices
          BY <4>3 DEF LooksUp
        <5>2. i \in DOMAIN indices /\ indices'[i][column] \in Manual
          BY <4>1, <5>1 DEF Known, Row
        <5>3. indices'[i][column] = indices[i][column] \/ indices'[i][column] = symbol
          BY <1>1, <4>2, <5>1, <5>2 DEF ToolsInv, IndicesOk
        <5>4. Known(call[d]) /\ Row(call[d]) \in Manual
          BY <5>2, <5>3, ResolutionAssumption DEF Known, Row
        <5>. QED  BY <1>2, <4>1, <4>2, <5>4 DEF LookupsRecorded
      <4>4. CASE Impose(c) /\ call'[c].at = "refresh"
        <5>. DEFINE n == Head(call[c].todo)
        <5>1. Imposing(c) /\ (indices' = indices
                 \/ indices' = [indices EXCEPT ![n][call[c].column] = call[c].symbol])
          BY <2>2, <3>1, <4>4 DEF Impose, Imposing, At
        <5>2. CASE column = call[c].column /\ i = n
          <6>1. InLookup(c, d)
            BY <4>2, <5>2 DEF InLookup
          <6>2. CASE MCNext
            BY <2>2, <4>1, <5>1, <6>1, <6>2 DEF MCNext
          <6>3. CASE UNCHANGED historyVars
            BY <2>2, <5>1, <6>3 DEF historyVars, toolsVars, resolutionVars, Imposing, At
          <6>. QED  BY <6>2, <6>3
        <5>3. CASE ~(column = call[c].column /\ i = n)
          <6>1. i \in DOMAIN indices /\ indices'[i][column] \in Manual
            BY <4>1, <5>1 DEF Known, Row
          <6>2. indices'[i][column] = indices[i][column]
            BY <1>1, <4>2, <5>1, <5>3, <6>1 DEF ToolsInv, IndicesOk
          <6>3. Known(call[d]) /\ Row(call[d]) \in Manual
            BY <6>1, <6>2 DEF Known, Row
          <6>. QED  BY <1>2, <4>1, <4>2, <6>3 DEF LookupsRecorded
        <5>. QED  BY <5>2, <5>3
      <4>. QED  BY <3>1, <3>3, <4>3, <4>4
    <3>. QED  BY <3>2, <3>3
  <2>. QED  BY <1>1, <2>1, <2>2, CallsOnly
<1>. QED  BY <1>1, <1>3 DEF LookupsInv

LEMMA OnlyRecordedReplace ==
  ASSUME LookupsInv, [MCNext]_historyVars,
         NEW i \in DOMAIN indices, NEW column \in Columns,
         indices[i][column] \in Manual, indices'[i][column] \notin Manual
  PROVE  \E c \in DOMAIN call :
           /\ <<c, i>> \in inflight
           /\ call[c].column = column /\ Head(call[c].todo) = i /\ At(c, "lookup")
<1>1. ToolsInv /\ LookupsRecorded /\ [ToolsNext]_toolsVars
  BY HistoryStep DEF LookupsInv, ServiceInv
<1>2. PICK c \in Callers : c \in DOMAIN call /\ (ToolStep(c) \/ Cancel(c))
  BY <1>1, CallsOnly
<1>3. ~Begins(c)
  BY DEF Begins
<1>4. CASE call[c].at = "lookup" /\ LooksUp(c)
  <2>1. call[c].column = column /\ Head(call[c].todo) = i
    BY <1>1, <1>4 DEF LooksUp, ToolsInv, IndicesOk
  <2>2. At(c, "lookup") /\ Known(call[c]) /\ Row(call[c]) \in Manual
    BY <1>2, <1>4, <2>1 DEF At, Known, Row
  <2>. QED  BY <1>1, <1>2, <2>1, <2>2 DEF LookupsRecorded
<1>5. CASE Impose(c)
  <2>1. call[c].symbol \in Manual
    <3>1. call[c].at = "write" /\ CallOk(call[c])
      BY <1>1, <1>2, <1>5, CallFields DEF Impose, At
    <3>. QED  BY <3>1 DEF CallOk
  <2>2. indices' = indices
        \/ indices' = [indices EXCEPT ![Head(call[c].todo)][call[c].column] = call[c].symbol]
    BY <1>5 DEF Impose
  <2>3. indices'[i][column] = indices[i][column] \/ indices'[i][column] = call[c].symbol
    BY <1>1, <2>2 DEF ToolsInv, IndicesOk
  <2>. QED  BY <2>1, <2>3
<1>. QED  BY <1>1, <1>2, <1>3, <1>4, <1>5, CallSteps

(* For any calls: an imposed symbol is only ever replaced by a looked up   *)
(* one when that lookup was under way as the user imposed it.              *)
THEOREM LookupsReplace ==
  ASSUME NEW calls, NEW writers, NEW asked, NEW ids, NEW ticks \in Nat, Workload(calls, writers, asked)
  PROVE  Recorded(calls, writers, ticks, ids) /\ [][MCNext]_historyVars => OnlyEarlierLookupsReplace
<1>1. Recorded(calls, writers, ticks, ids) => LookupsInv
  <2>. SUFFICES ASSUME Recorded(calls, writers, ticks, ids) PROVE LookupsInv
    OBVIOUS
  <2>1. ServiceInv
    BY BeginInv DEF Recorded
  <2>2. LookupsRecorded
    BY RequestedOk DEF Recorded, Begin, Workload, LookupsRecorded, At
  <2>. QED  BY <2>1, <2>2 DEF LookupsInv
<1>2. LookupsInv /\ [MCNext]_historyVars =>
        [\A i \in DOMAIN indices : \A column \in Columns :
           indices[i][column] \in Manual /\ indices'[i][column] \notin Manual =>
             \E c \in DOMAIN call :
               /\ <<c, i>> \in inflight
               /\ call[c].column = column /\ Head(call[c].todo) = i /\ At(c, "lookup")]_indices
  BY OnlyRecordedReplace
<1>. QED  BY <1>1, <1>2, LookupsStep, PTL DEF OnlyEarlierLookupsReplace
=============================================================================
