------------------------------ MODULE JobClock ------------------------------
(***************************************************************************)
(* When the timers of one active job fire: nextCronOccurrence and the      *)
(* timer chain of _startCronTimer, and the timeout and interval of         *)
(* _startIntervalTimer, against a clock.  The chain is that of one arming; *)
(* pauses, updates and restarts are in JobTimers.                          *)
(*                                                                         *)
(* A Node timer measures its delay apart from the wall clock: it may fire  *)
(* up to Early ticks before the wall clock reaches its time, and any time  *)
(* later while the process is busy.  A delay above MaxDelay (2^31-1 ms)    *)
(* is replaced by the shortest delay.                                      *)
(***************************************************************************)
EXTENDS Naturals

CONSTANTS Horizon,     \* bound: the last instant of the wall clock
          Period,      \* the schedule's occurrences are the multiples of Period
          Intervals,   \* the intervals a job may have; 0 stands for a cron job
          LastRuns,    \* the run before this start, 0 when there is none
          Early,       \* how early a timer may fire
          MaxDelay,    \* the longest delay setTimeout and setInterval take
          MaxBack      \* how far the wall clock may be set back, once

ASSUME JobClockAssumption ==
  /\ Horizon \in Nat /\ Period \in Nat \ {0} /\ Intervals \subseteq Nat /\ LastRuns \subseteq Nat
  /\ Early \in Nat /\ MaxDelay \in Nat \ {0} /\ MaxBack \in Nat

VARIABLES interval, \* the job's interval, 0 when it has a schedule
          now,     \* Date.now()
          left,    \* ticks until the timer may fire
          due,     \* the instant it was armed for: nextRunAt
          lastDue, \* history: the instant the last run was due at, 0 before the first
          lastRun, \* the instant of the last run, 0 before the first
          backs    \* how often the clock was set back
clockVars == <<interval, now, left, due, lastDue, lastRun, backs>>

Cron == interval = 0

\* The first occurrence after t (exclusive).
OccurrenceAfter(t) == (t \div Period + 1) * Period

(* Mutant: the next occurrence is computed from the clock alone. *)
NextFromNow(fired, t) == OccurrenceAfter(t)

\* nextCronOccurrence: after the one that fired, unless that is past too.
NextCronOccurrence(fired, t) ==
  IF OccurrenceAfter(fired) > t THEN OccurrenceAfter(fired) ELSE OccurrenceAfter(t)

\* setTimeout and setInterval: a delay they cannot take becomes the shortest one.
Delay(d) == IF d > MaxDelay THEN 1 ELSE d

\* One interval after the last run, at once when that has passed.
IntervalDue(t) ==
  LET d == (IF lastRun = 0 THEN t ELSE lastRun) + interval IN IF d <= t THEN t ELSE d

\* The timer may fire Early ticks before its delay is over.
MayFireIn(d) == IF d > Early THEN d - Early ELSE 0

ClockInit ==
  /\ interval \in Intervals /\ lastRun \in LastRuns
  /\ now \in lastRun..(lastRun + Period)
  /\ due = IF Cron THEN OccurrenceAfter(now) ELSE IntervalDue(now)
  /\ left = MayFireIn(Delay(due - now))
  /\ lastDue = 0 /\ backs = 0

\* Time passes; a due timer may go on waiting while the process is busy.
Tick ==
  /\ now < Horizon
  /\ now' = now + 1
  /\ left' = IF left > 0 THEN left - 1 ELSE 0
  /\ UNCHANGED <<interval, due, lastDue, lastRun, backs>>

\* The wall clock is set back; the timers do not notice.
SetBack ==
  /\ backs = 0 /\ backs' = 1
  /\ \E b \in 1..MaxBack : b <= now /\ now' = now - b
  /\ UNCHANGED <<interval, left, due, lastDue, lastRun>>

\* The next occurrence is armed before the run starts; an interval repeats.
ClockFires ==
  /\ left = 0 /\ now < Horizon
  /\ due' = IF Cron THEN NextCronOccurrence(due, now) ELSE now + interval
  /\ left' = MayFireIn(Delay(IF due' > now THEN due' - now ELSE 0))
  /\ lastDue' = due /\ lastRun' = now
  /\ UNCHANGED <<interval, now, backs>>

ClockNext == Tick \/ SetBack \/ ClockFires
ClockSpec == ClockInit /\ [][ClockNext]_clockVars

-----------------------------------------------------------------------------
(* Properties *)

(* README: "a timer that fires a few milliseconds early never runs an occurrence
   twice"; nor does one that fires late, or on a clock that was set back.  Unless it
   was, a run of a cron job starts no earlier than the instant the job shows as its
   next run (nextRunAt), but for the timer's own inaccuracy, and of an interval job
   "the next run is the last run plus the interval, across restarts". *)
FiresWhenDue ==
  [][ClockFires =>
       /\ Cron => due > lastDue
       /\ backs = 0 /\ Cron => now + Early >= due
       /\ backs = 0 /\ ~Cron /\ lastRun > 0 => now + Early >= lastRun + interval]_clockVars
=============================================================================
