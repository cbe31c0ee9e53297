------------------------------ MODULE MCTimers ------------------------------
(* A job's schedule, its timers' clock and the statistics of its runs for TLC.
   The modules share no state: a behaviour is one of a single part, and the
   others stand still in one of their initial states. *)
EXTENDS JobTimers, JobClock, JobStats

VARIABLE part

MCInit ==
  /\ part \in {"schedule", "clock", "stats"}
  /\ part # "clock" => interval = 0 /\ lastRun = 0 /\ now = 0
  /\ TimersInit /\ ClockInit /\ StatsInit

MCNext ==
  \/ part = "schedule" /\ TimersNext /\ UNCHANGED <<part, clockVars, statsVars>>
  \/ part = "clock" /\ ClockNext /\ UNCHANGED <<part, timerVars, statsVars>>
  \* Bound: nothing happens after the answer.
  \/ /\ part = "stats" /\ reader.stage # "answered" /\ StatsNext
     /\ UNCHANGED <<part, timerVars, clockVars>>

MCSpec == MCInit /\ [][MCNext]_<<part, timerVars, clockVars, statsVars>> /\ TimersFairness
=============================================================================
