----------------------------- MODULE JobTimers -----------------------------
(***************************************************************************)
(* The schedule of one registered job of CliJobScheduler: its status, the  *)
(* timers armed for it, the status saved in the job storage, start(),      *)
(* stop() and a crash.  What a due run does is in JobRuns; when a timer    *)
(* fires is in JobClock.  The jobs API answers whenever the process is up: *)
(* no method of it asks whether the scheduler runs.                        *)
(*                                                                         *)
(* The storage answers calls in the order they were made; the saves that   *)
(* are still in flight are a queue.  A timer nobody refers to any more (an *)
(* orphan) cannot be stopped, only fire.                                   *)
(***************************************************************************)
EXTENDS Naturals, Sequences

CONSTANTS Enabled,         \* the job's `enabled` option
          InitKind,        \* the registered schedule: "cron", "interval" or "none"
          MaxSaves,        \* bound: saves in flight when a new one is asked for
          MaxOrphans,      \* bound: orphaned timers of a kind when start() is called
          MaxCrashes       \* bound: crashes in a behaviour

Kinds == {"cron", "interval", "none"}
Statuses == {"active", "paused", "stopped"}

ASSUME JobTimersAssumption ==
  /\ Enabled \in BOOLEAN
  /\ InitKind \in Kinds
  /\ MaxSaves \in Nat /\ MaxOrphans \in Nat /\ MaxCrashes \in Nat

(* An interval job waits with a timeout for its first run ("first") and then
   repeats with setInterval ("every"). *)
Timers == {"cron", "first", "every"}
StarterPc == {"down", "load", "interrupted", "arm", "ready", "stopping", "stopped"}
\* Whose save it is: a pause, resume or stop that answers its caller, or the scheduler's own.
Save == [status : Statuses, answers : BOOLEAN]

VARIABLES status,    \* reg.status
          kind,      \* whether reg.options has a schedule, an interval or neither
          timer,     \* what reg.timer refers to: a live timer, a fired one, nothing
          orphans,   \* live timers reg.timer no longer refers to
          running,   \* _running
          tick,      \* flips whenever a run is due
          saves,     \* saveJobState calls in flight
          saved,     \* the status in the storage
          loaded,    \* the saved status start() read
          starter,   \* where start() or stop() is
          answered,  \* history: the status last answered to an API caller
          armedEarly, \* history: a request armed a timer before start() did, in this process
          savedEarly, \* history: a status was saved before start() had restored the saved one
          crashes

timerVars == <<status, kind, timer, orphans, running, tick, saves, saved, loaded,
          starter, answered, armedEarly, savedEarly, crashes>>

InitStatus == IF Enabled THEN "active" ELSE "stopped"

TimersInit ==
  /\ status = InitStatus /\ kind = InitKind
  /\ timer = "none" /\ orphans = [t \in Timers |-> 0]
  /\ running = FALSE /\ tick = FALSE
  /\ saves = <<>> /\ saved = "none" /\ loaded = "none"
  /\ starter = "down" /\ answered = InitStatus /\ crashes = 0
  /\ armedEarly = FALSE /\ savedEarly = FALSE

early == <<armedEarly, savedEarly>>

-----------------------------------------------------------------------------
(* Timers *)

\* reg.timer = setTimeout(...): the timer it referred to, if still live, is orphaned.
SetTimer(old, new, orph) ==
  /\ timer' = new
  /\ orphans' = IF old \in Timers THEN [orph EXCEPT ![old] = @ + 1] ELSE orph

(* _startTimer, with reg.timer being `old`, the status `st` and the schedule `k`:
   a cron timer is armed only while the scheduler runs an active job. *)
StartTimer(old, st, k) ==
  \/ /\ k = "cron" /\ running /\ st = "active"
     /\ SetTimer(old, "cron", orphans)
  \/ /\ k = "interval"
     /\ SetTimer(old, "first", orphans)
  \/ /\ k = "none" \/ (k = "cron" /\ ~(running /\ st = "active"))
     /\ timer' = old /\ UNCHANGED orphans

(* Mutant: a timer is not armed again after it fired. *)
AfterFireForgets(t) == "dead"

\* What a timer that fired leaves armed: the next occurrence, or the interval.
AfterFire(t) == IF t = "cron" THEN "cron" ELSE "every"

\* What a timer's callback looks at before anything else.
IsDue == running /\ status = "active"

\* The callback of the timer reg.timer refers to; an interval stays armed whatever it does.
TimerFires ==
  /\ timer \in Timers
  /\ IF IsDue
     THEN timer' = AfterFire(timer) /\ tick' = ~tick
     ELSE timer' = (IF timer = "every" THEN "every" ELSE "dead") /\ UNCHANGED tick
  /\ UNCHANGED <<status, kind, orphans, running, saves, saved, loaded, starter,
                 answered, crashes, early>>

\* The callback of an orphan: what it arms takes the place of reg.timer.
FireOrphan(t) ==
  /\ orphans[t] > 0
  /\ IF IsDue
     THEN /\ IF t = "every" THEN UNCHANGED <<timer, orphans>>
             ELSE SetTimer(timer, AfterFire(t), [orphans EXCEPT ![t] = @ - 1])
          /\ tick' = ~tick
     ELSE /\ orphans' = IF t = "every" THEN orphans ELSE [orphans EXCEPT ![t] = @ - 1]
          /\ UNCHANGED <<timer, tick>>
  /\ UNCHANGED <<status, kind, running, saves, saved, loaded, starter, answered, crashes, early>>

-----------------------------------------------------------------------------
(* The jobs API *)

(* Mutant: the status is saved as it was before the change. *)
PersistBefore(old, new) == saves' = Append(saves, [status |-> old, answers |-> TRUE])

\* _persistState of an API call: the status is read when the call is made.
Persist(old, new) == saves' = Append(saves, [status |-> new, answers |-> TRUE])

Request == Len(saves) < MaxSaves

\* start() is yet to come, or has yet to restore the saved status, or to arm the timer.
Restoring == starter \in {"down", "load", "interrupted"}
Arming    == starter \in {"down", "load", "interrupted", "arm", "stopped"}

Notes ==
  /\ armedEarly' = (armedEarly \/ (Arming /\ timer' \in Timers))
  /\ savedEarly' = (savedEarly \/ (Restoring /\ saves' # saves))

\* _stopTimer: clearTimeout and clearInterval of what reg.timer refers to.
StopTimer == timer' = "none"

PauseAsync ==
  /\ Request /\ status # "paused"
  /\ status' = "paused" /\ StopTimer /\ Persist(status, "paused") /\ Notes
  /\ UNCHANGED <<kind, orphans, running, tick, saved, loaded, starter, answered, crashes>>

\* An interval is armed whether the scheduler runs or not.
ResumeAsync ==
  /\ Request /\ status = "paused"
  /\ status' = "active" /\ StartTimer(timer, "active", kind)
  /\ Persist(status, "active") /\ Notes
  /\ UNCHANGED <<kind, running, tick, saved, loaded, starter, answered, crashes>>

StopJobAsync ==
  /\ Request
  /\ status' = "stopped" /\ StopTimer /\ Persist(status, "stopped") /\ Notes
  /\ UNCHANGED <<kind, orphans, running, tick, saved, loaded, starter, answered, crashes>>

\* Setting one of schedule and interval clears the other; an active job's timer is restarted.
UpdateOptionsAsync ==
  /\ \E k \in Kinds :
       /\ kind' = k
       /\ IF status = "active" THEN StartTimer("none", status, k)
          ELSE UNCHANGED <<timer, orphans>>
  /\ UNCHANGED saves /\ Notes
  /\ UNCHANGED <<status, running, tick, saved, loaded, starter, answered, crashes>>

\* The end of an attempt of a run persists the job's state too; a trigger may
\* start a run at any time.
RunEnds ==
  /\ Len(saves) < MaxSaves
  /\ saves' = Append(saves, [status |-> status, answers |-> FALSE])
  /\ UNCHANGED timer /\ Notes
  /\ UNCHANGED <<status, kind, orphans, running, tick, saved, loaded, starter, answered, crashes>>

\* The storage takes the oldest save; its caller, if any, is answered.
StoreSaves ==
  /\ saves # <<>>
  /\ saved' = Head(saves).status
  /\ saves' = Tail(saves)
  /\ answered' = IF Head(saves).answers THEN Head(saves).status ELSE answered
  /\ UNCHANGED <<status, kind, timer, orphans, running, tick, loaded, starter, crashes, early>>

-----------------------------------------------------------------------------
(* start(), stop() and a crash *)

\* Bound: start() is called when no save is in flight.
StartScheduler ==
  /\ starter \in {"down", "stopped"} /\ saves = <<>>
  /\ \A t \in Timers : orphans[t] <= MaxOrphans
  /\ running' = TRUE /\ starter' = "load"
  /\ UNCHANGED <<status, kind, timer, orphans, tick, saves, saved, loaded, answered, crashes, early>>

\* getAllJobStates.
LoadStates ==
  /\ starter = "load"
  /\ loaded' = saved /\ starter' = "interrupted"
  /\ UNCHANGED <<status, kind, timer, orphans, running, tick, saves, saved, answered, crashes, early>>

\* The saved status, unless there is none or the code disables the job.
Restored(st) == IF loaded # "none" /\ Enabled THEN loaded ELSE st

RestoreState ==
  /\ starter = "interrupted"
  /\ status' = Restored(status) /\ loaded' = "none" /\ starter' = "arm"
  /\ UNCHANGED <<kind, timer, orphans, running, tick, saves, saved, answered, crashes, early>>

\* The interrupted runs are finished (JobRuns); the run on start may be due at once.
ArmTimer ==
  /\ starter = "arm" /\ starter' = "ready"
  /\ IF status = "active"
     THEN StartTimer(timer, status, kind) /\ tick' \in {tick, ~tick}
     ELSE UNCHANGED <<timer, orphans, tick>>
  /\ UNCHANGED <<status, kind, running, saves, saved, loaded, answered, crashes, early>>

\* stop() comes to the job after those before it, whose saves it waits for.
Stop ==
  /\ starter = "ready"
  /\ running' = FALSE /\ starter' = "stopping"
  /\ UNCHANGED <<status, kind, timer, orphans, tick, saves, saved, loaded, answered, crashes, early>>

\* The runs it cancels are in JobRuns.
StopStep ==
  /\ starter = "stopping" /\ Len(saves) < MaxSaves
  /\ starter' = "stopped" /\ StopTimer
  /\ saves' = Append(saves, [status |-> status, answers |-> FALSE])
  /\ UNCHANGED <<status, kind, orphans, running, tick, saved, loaded, answered, crashes, early>>

\* Only the storage survives; the saves in flight are lost.
Crash ==
  /\ crashes < MaxCrashes
  /\ crashes' = crashes + 1
  /\ status' = InitStatus /\ kind' = InitKind
  /\ timer' = "none" /\ orphans' = [t \in Timers |-> 0]
  /\ running' = FALSE /\ saves' = <<>> /\ loaded' = "none" /\ starter' = "down"
  /\ armedEarly' = FALSE
  /\ UNCHANGED <<tick, saved, answered, savedEarly>>

StartStep == LoadStates \/ RestoreState \/ ArmTimer

TimersNext ==
  \/ PauseAsync \/ ResumeAsync \/ StopJobAsync \/ UpdateOptionsAsync
  \/ RunEnds \/ StoreSaves \/ TimerFires \/ \E t \in Timers : FireOrphan(t)
  \/ StartScheduler \/ StartStep \/ Stop \/ StopStep \/ Crash

(* The storage answers, start() goes on and timers fire; what callers ask for
   need not happen. *)
TimersFairness == WF_timerVars(StoreSaves) /\ WF_timerVars(StartStep) /\ WF_timerVars(TimerFires)

TimersSpec == TimersInit /\ [][TimersNext]_timerVars
FairTimersSpec == TimersSpec /\ TimersFairness

-----------------------------------------------------------------------------
(* Properties *)

TimersTypeOK ==
  /\ status \in Statuses /\ kind \in Kinds
  /\ timer \in Timers \cup {"none", "dead"} /\ orphans \in [Timers -> Nat]
  /\ running \in BOOLEAN /\ tick \in BOOLEAN
  /\ saves \in Seq(Save)
  /\ saved \in Statuses \cup {"none"} /\ loaded \in Statuses \cup {"none"}
  /\ starter \in StarterPc /\ answered \in Statuses /\ armedEarly \in BOOLEAN /\ savedEarly \in BOOLEAN
  /\ crashes \in 0..MaxCrashes

(* A job has at most one live timer, the one reg.timer refers to and the API can
   stop: with two, every due run is started twice.  README: "never a job started
   twice". *)
OneTimer == \A t \in Timers : orphans[t] = 0

(* Unless a request armed a timer while start() had yet to arm the job's own,
   before it or after stop(), the timer armed is the only one, and the one the
   job's schedule and status call for: an active job with a schedule always has
   one (no path of pauses, updates and restarts loses the schedule), another job
   has none, nor has a job that stop() has come to. *)
TimerMatchesStatus ==
  ~armedEarly =>
    /\ OneTimer
    /\ starter = "stopped" => timer \notin Timers
    /\ starter = "ready" =>
         CASE status # "active" \/ kind = "none" -> timer \notin Timers
           [] status = "active" /\ kind = "cron" -> timer = "cron"
           [] status = "active" /\ kind = "interval" -> timer \in {"first", "every"}

(* Unless a status was saved before start() had restored the saved one: whatever
   else saves the state, and wherever a crash or stop() falls, the status of a
   started job is the one its last API caller was told, while stop() ends it and
   after that too. *)
AnsweredIsKept ==
  ~savedEarly /\ Enabled /\ ~Restoring /\ saves = <<>> => status = answered

(* So the schedule of a job is the one its callers were answered. *)
ScheduleAsAnswered == TimerMatchesStatus /\ AnsweredIsKept

(* The schedule of a job that stays active goes on: its runs are due again and again. *)
TicksGoOn ==
  (<>[](starter = "ready" /\ status = "active" /\ kind # "none"))
     => ([]<>tick /\ []<>~tick)
=============================================================================
