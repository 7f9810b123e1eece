---------------------------- MODULE MarketSchedule ----------------------------
(***************************************************************************)
(* The cron jobs of the agent's scheduler and the runs they start.  Times  *)
(* are in units of ten minutes since midnight in Paris (every job falls on *)
(* one); the process may keep another local time, which dates the thread a *)
(* market run continues.  Nothing bounds a run in the code: Longest bounds *)
(* it here.                                                                *)
(***************************************************************************)
EXTENDS Integers, FiniteSets

CONSTANTS Offsets,  \* how far the process's local time may be behind Paris
          LastDay,  \* days are 1 .. LastDay, from a Monday
          Longest   \* the longest run

VARIABLES day, now,  \* the time in Paris
          offset,    \* of the process's local time
          due,       \* jobs of this moment the scheduler has not come to
          running    \* runs: their job, the day of their thread, their start

scheduleVars == <<day, now, offset, due, running>>

Midnight == 144

Clock(hour, minutes) == 6 * hour + minutes \div 10

(* The process keeps the time of Paris, or UTC: one or two hours behind.   *)
ASSUME ScheduleAssumption == Offsets \subseteq 0 .. Clock(2, 0)

MARKET_SESSIONS == [
  EU   |-> [open_time |-> Clock(9, 0),   close_time |-> Clock(17, 30)],
  US   |-> [open_time |-> Clock(15, 30), close_time |-> Clock(22, 0)],
  ASIA |-> [open_time |-> Clock(2, 0),   close_time |-> Clock(8, 0)] ]

(* Mutant: every hour. *)
PeriodicHourly(session) ==
  {t \in session.open_time + Clock(0, 20) .. session.close_time :
     (t - session.open_time - Clock(0, 20)) % Clock(1, 0) = 0}

(* From twenty minutes after the opening, every two hours, to the close.   *)
Periodic(session) ==
  {t \in session.open_time + Clock(0, 20) .. session.close_time :
     (t - session.open_time - Clock(0, 20)) % Clock(2, 0) = 0}

Job(market, phase, time) == [market |-> market, phase |-> phase, time |-> time]

MarketJobs ==
  UNION {LET session == MARKET_SESSIONS[m]
         IN  {Job(m, "PRE_OPEN", session.open_time - Clock(0, 10)),
              Job(m, "POST_OPEN", session.open_time + Clock(0, 20)),
              Job(m, "CLOSE", session.close_time)}
             \cup {Job(m, "PERIODIC", t) : t \in Periodic(session)} : m \in DOMAIN MARKET_SESSIONS}

(* The news are read after the EU opening, in mid-session and at the close.*)
IngestJobs ==
  LET eu == MARKET_SESSIONS["EU"]
      first == eu.open_time + Clock(0, 20)
      second == {t \in Periodic(eu) : Cardinality({u \in Periodic(eu) : u < t}) = 1}
  IN  {Job("EU", "INGEST", t) :
         t \in {first, eu.close_time} \cup (IF second # {} THEN second ELSE Periodic(eu))}

(* Monday to Friday.                                                       *)
DueAt(d, t) == IF d <= 5 THEN {j \in MarketJobs \cup IngestJobs : j.time = t} ELSE {}

(* market_thread_id dates a thread by the local day of the process.        *)
ThreadDay(d, t) == IF t < offset THEN d - 1 ELSE d

ScheduleInit ==
  /\ day = 1 /\ now = 0 /\ offset \in Offsets
  /\ due = DueAt(1, 0) /\ running = {}

Tick ==
  /\ due = {} /\ \A r \in running : now - r.job.time < Longest
  /\ day < LastDay \/ now + 1 < Midnight
  /\ now' = (now + 1) % Midnight
  /\ day' = IF now + 1 = Midnight THEN day + 1 ELSE day
  /\ due' = DueAt(day', now')
  /\ UNCHANGED <<offset, running>>

(* A job starts a run; nothing else looks at the runs of other jobs.       *)
Fires(j) ==
  /\ j \in due /\ due' = due \ {j}
  /\ running' = running \cup {[job |-> j, thread |-> <<j.market, j.phase, ThreadDay(day, now)>>]}
  /\ UNCHANGED <<day, now, offset>>

(* The process is down or too busy at that second: there is no job store,  *)
(* and a job more than a second late is skipped.                           *)
Misses(j) ==
  /\ j \in due /\ due' = due \ {j} /\ UNCHANGED <<day, now, offset, running>>

(* A run ends, well or with an exception that the scheduler logs.          *)
RunEnds(r) == r \in running /\ running' = running \ {r} /\ UNCHANGED <<day, now, offset, due>>

(* A restart ends every run.                                               *)
Restarts == running # {} /\ running' = {} /\ UNCHANGED <<day, now, offset, due>>

ScheduleNext ==
  \/ Tick \/ Restarts
  \/ \E j \in due : Fires(j) \/ Misses(j)
  \/ \E r \in running : RunEnds(r)

ScheduleSpec == ScheduleInit /\ [][ScheduleNext]_scheduleVars

-----------------------------------------------------------------------------
(* Two runs continue one thread at a time (and so lose each other's        *)
(* messages), or two ingests fetch the same feeds, only when the first has *)
(* lasted two hours: the jobs of a market, some of which fall on the same  *)
(* minute, never start two runs of a thread closer than that.              *)
TwoHoursApart ==
  \A r, s \in running :
    r # s /\ r.thread = s.thread => r.job.time - s.job.time >= Clock(2, 0)
                                    \/ s.job.time - r.job.time >= Clock(2, 0)

(* A thread continues what one market did in one phase of one day: no two  *)
(* days share one and no day is cut in two, whether the process keeps the  *)
(* time of Paris or that of a container (UTC).                             *)
ThreadsAreDays ==
  \A j, k \in MarketJobs :
    j.market = k.market /\ j.phase = k.phase => ThreadDay(day, j.time) = ThreadDay(day, k.time)

(* What one thread holds is one market's phase, a run at a time: both of   *)
(* the above.                                                              *)
ThreadsKeepApart == TwoHoursApart /\ ThreadsAreDays

(* "At EU POST_OPEN (09:20), first mid PERIODIC (13:20), and CLOSE         *)
(* (17:30)": the news are read at these times and no others.               *)
IngestsAsDocumented ==
  \A r \in running :
    r.job.phase = "INGEST" => r.job.time \in {Clock(9, 20), Clock(13, 20), Clock(17, 30)}
=============================================================================
