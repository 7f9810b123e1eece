--------------------------- MODULE BoursoramaClient ---------------------------
(***************************************************************************)
(* BoursoramaHttpClient: one client per nam-agentic process, one request   *)
(* at a time, a random pause before each, and two rolling budgets checked  *)
(* before the pause and charged after the answer.                          *)
(*                                                                         *)
(* The deque _request_times is what is left of `sent` once its first       *)
(* `dropped` entries are gone.  A caller of get or get_redirect_location   *)
(* conjoins the operators below with what it does itself.                  *)
(***************************************************************************)
EXTENDS Integers, Sequences, FiniteSets

CONSTANTS Callers,             \* coroutines that may use the client
          NoCaller,            \* no coroutine
          Minute, Hour,        \* lengths of the two windows, 60 and 3600 seconds
          MinuteCap, HourCap,  \* boursorama_max_requests_per_minute, .._per_hour
          MinDelay, MaxDelay   \* boursorama_min_delay_seconds, .._max_delay_..

ASSUME ClientAssumption ==
  /\ NoCaller \notin Callers
  /\ Minute \in Nat /\ Hour \in Nat /\ Minute <= Hour
  /\ MinuteCap \in Nat \ {0} /\ HourCap \in Nat \ {0}
  /\ MinDelay \in Nat /\ MaxDelay \in Nat /\ MinDelay <= MaxDelay

VARIABLES now,        \* time.monotonic()
          spare,      \* bound: ticks left in which nobody sleeps
          semaphore,  \* who holds it
          http,       \* caller -> where it is in _throttled_request
          sent,       \* times recorded, in the order they were
          dropped     \* how many of them the deque has lost

clientVars == <<now, spare, semaphore, http, sent, dropped>>

Idle == [at |-> "idle", until |-> 0]

ClientInit(ticks) ==
  /\ now = 0 /\ spare = ticks
  /\ semaphore = NoCaller
  /\ http = [c \in Callers |-> Idle]
  /\ sent = <<>> /\ dropped = 0

-----------------------------------------------------------------------------
(* _throttled_request, its URL valid, up to the semaphore.                 *)
Ask(c) ==
  /\ http[c].at = "idle"
  /\ http' = [http EXCEPT ![c] = [at |-> "queued", until |-> 0]]
  /\ UNCHANGED <<now, spare, semaphore, sent, dropped>>

(* The while loop of _check_budget: n entries are gone once it ends.       *)
Pruned(n) ==
  /\ n \in dropped .. Len(sent)
  /\ \A i \in dropped + 1 .. n : now - sent[i] > Hour
  /\ n < Len(sent) => now - sent[n + 1] <= Hour

(* Neither cap of _check_budget is reached.                                *)
WithinBudget(n) ==
  /\ Cardinality({i \in n + 1 .. Len(sent) : now - sent[i] <= Minute}) < MinuteCap
  /\ Len(sent) - n < HourCap

(* Mutant: no semaphore. *)
AdmitTogether(c) ==
  /\ http[c].at = "queued"
  /\ \E n \in dropped .. Len(sent) : Pruned(n) /\ WithinBudget(n) /\ dropped' = n
  /\ semaphore' = c
  /\ \E delay \in MinDelay .. MaxDelay :
       http' = [http EXCEPT ![c] = [at |-> "sent", until |-> now + delay]]
  /\ UNCHANGED <<now, spare, sent>>

(* The semaphore is taken, the budget allows it, and the pause begins.     *)
Admit(c) ==
  /\ http[c].at = "queued" /\ semaphore = NoCaller
  /\ \E n \in dropped .. Len(sent) :
       Pruned(n) /\ WithinBudget(n) /\ dropped' = n
  /\ semaphore' = c
  /\ \E delay \in MinDelay .. MaxDelay :
       http' = [http EXCEPT ![c] = [at |-> "sent", until |-> now + delay]]
  /\ UNCHANGED <<now, spare, sent>>

(* BoursoramaRateLimitError: the semaphore is taken and given back.        *)
Limited(c) ==
  /\ http[c].at = "queued" /\ semaphore = NoCaller
  /\ \E n \in dropped .. Len(sent) :
       Pruned(n) /\ ~WithinBudget(n) /\ dropped' = n
  /\ http' = [http EXCEPT ![c] = Idle]
  /\ UNCHANGED <<now, spare, semaphore, sent>>

Awake(c) == http[c].at = "sent" /\ now >= http[c].until

(* The pause is over and an answer has come, good or bad: it is charged.   *)
Answered(c) ==
  /\ Awake(c)
  /\ sent' = Append(sent, now)
  /\ semaphore' = NoCaller
  /\ http' = [http EXCEPT ![c] = Idle]
  /\ UNCHANGED <<now, spare, dropped>>

(* Mutant: an exception leaves the semaphore taken. *)
BrokenKeeps(c) ==
  /\ Awake(c)
  /\ http' = [http EXCEPT ![c] = Idle]
  /\ UNCHANGED <<now, spare, semaphore, sent, dropped>>

(* client.get raises (no connection, a timeout): nothing is charged.       *)
Broken(c) ==
  /\ Awake(c)
  /\ semaphore' = NoCaller
  /\ http' = [http EXCEPT ![c] = Idle]
  /\ UNCHANGED <<now, spare, sent, dropped>>

(* The coroutine is cancelled wherever it waits; `async with` lets go.     *)
Cancelled(c) ==
  /\ semaphore' = IF semaphore = c THEN NoCaller ELSE semaphore
  /\ http' = [http EXCEPT ![c] = Idle]
  /\ UNCHANGED <<now, spare, sent, dropped>>

Asleep == \E c \in Callers : http[c].at = "sent" /\ now < http[c].until

Tick ==
  /\ Asleep \/ spare > 0
  /\ now' = now + 1
  /\ spare' = IF Asleep THEN spare ELSE spare - 1
  /\ UNCHANGED <<semaphore, http, sent, dropped>>

ClientNext ==
  \/ Tick
  \/ \E c \in Callers :
       Ask(c) \/ Admit(c) \/ Limited(c) \/ Answered(c) \/ Broken(c) \/ Cancelled(c)

ClientSpec == (\E ticks \in Nat : ClientInit(ticks)) /\ [][ClientNext]_clientVars

-----------------------------------------------------------------------------
(* "At most N requests in any rolling 60 seconds, M in any rolling hour",  *)
(* ends included, although the budget is checked before the pause and      *)
(* charged after the answer; and two answers are never closer than the     *)
(* shortest pause.                                                         *)
RollingCaps ==
  \A i \in 1 .. Len(sent) :
    /\ i > MinuteCap => sent[i] - sent[i - MinuteCap] > Minute
    /\ i > HourCap => sent[i] - sent[i - HourCap] > Hour
    /\ i > 1 => sent[i] - sent[i - 1] >= MinDelay
=============================================================================
