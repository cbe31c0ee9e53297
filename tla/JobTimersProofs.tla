-------------------------- MODULE JobTimersProofs --------------------------
(***************************************************************************)
(* What the schedule of a job promises its API callers, for any number of  *)
(* saves in flight, crashes and restarts: where no request came before     *)
(* start() had done its part, the armed timer is the one the job's status  *)
(* calls for, and the status is the one last answered.                     *)
(*                                                                         *)
(* And that the statistics of the runs are exact, however runs start, end  *)
(* and are removed while the pages are read: orders and lists come first,  *)
(* then pages, then what a reader has taken and what is still ahead of it  *)
(* (ReaderFits), then the columns.                                         *)
(*                                                                         *)
(* And that a job's timers fire when they are due (JobClock).              *)
(***************************************************************************)
EXTENDS JobTimers, JobClock, JobStats, SubsequencesProofs

----------------------------------------------------------------------------
\* Types: the flags apart from the rest, which the provers need.

Flags == running \in BOOLEAN /\ tick \in BOOLEAN
         /\ armedEarly \in BOOLEAN /\ savedEarly \in BOOLEAN

Values ==
  /\ status \in Statuses /\ kind \in Kinds
  /\ timer \in Timers \cup {"none", "dead"} /\ orphans \in [Timers -> Nat]
  /\ saves \in Seq(Save)
  /\ saved \in Statuses \cup {"none"} /\ loaded \in Statuses \cup {"none"}
  /\ starter \in StarterPc /\ answered \in Statuses
  /\ crashes \in 0..MaxCrashes

\* The flags are only set, cleared or flipped.
LEMMA FlagsStep == Flags /\ [TimersNext]_timerVars => Flags'
  BY Zenon DEF Flags, TimersNext, timerVars, PauseAsync, ResumeAsync, StopJobAsync,
     UpdateOptionsAsync, RunEnds, StoreSaves, TimerFires, FireOrphan, StartScheduler,
     StartStep, LoadStates, RestoreState, ArmTimer, Stop, StopStep, Crash, Notes, early

LEMMA ArmsATimer ==
  ASSUME Values, NEW old \in Timers \cup {"none", "dead"}, NEW st, NEW k, StartTimer(old, st, k)
  PROVE  timer' \in Timers \cup {"none", "dead"} /\ orphans' \in [Timers -> Nat]
  BY DEF Values, StartTimer, SetTimer, Timers

\* Every action keeps the other variables in their types.
LEMMA ValuesStep == Values /\ [TimersNext]_timerVars => Values'
<1> SUFFICES ASSUME Values, [TimersNext]_timerVars  PROVE Values'
  OBVIOUS
<1> USE JobTimersAssumption
    DEF Values, Statuses, Kinds, StarterPc, InitStatus
<1>1. CASE PauseAsync  BY <1>1 DEF PauseAsync, StopTimer, Persist, Save
<1>2. CASE ResumeAsync
  <2>1. timer' \in Timers \cup {"none", "dead"} /\ orphans' \in [Timers -> Nat]
    BY <1>2, ArmsATimer DEF ResumeAsync
  <2>2. saves' \in Seq(Save)  BY <1>2 DEF ResumeAsync, Persist, Save
  <2> QED  BY <1>2, <2>1, <2>2 DEF ResumeAsync
<1>3. CASE StopJobAsync  BY <1>3 DEF StopJobAsync, StopTimer, Persist, Save
<1>4. CASE UpdateOptionsAsync
  <2>1. timer' \in Timers \cup {"none", "dead"} /\ orphans' \in [Timers -> Nat]
    <3>1. PICK k \in Kinds : /\ kind' = k
                             /\ IF status = "active" THEN StartTimer("none", status, k)
                                ELSE UNCHANGED <<timer, orphans>>
      BY <1>4 DEF UpdateOptionsAsync
    <3>2. CASE status = "active"
      BY <3>1, <3>2, ArmsATimer
    <3> QED  BY <3>1, <3>2
  <2> QED  BY <1>4, <2>1 DEF UpdateOptionsAsync
<1>5. CASE RunEnds
  <2>1. saves' \in Seq(Save)  BY <1>5 DEF RunEnds, Save
  <2> QED  BY <1>5, <2>1 DEF RunEnds
<1>6. CASE StoreSaves
  <2>1. saves \in Seq(Save) /\ saves # << >>  BY <1>6 DEF StoreSaves
  <2>2. Head(saves) \in Save /\ Tail(saves) \in Seq(Save)
    BY <2>1, HeadTailProperties
  <2> QED  BY <1>6, <2>2 DEF StoreSaves, Save
<1>7. CASE TimerFires
  <2>1. timer' \in Timers \cup {"none", "dead"}  BY <1>7 DEF TimerFires, AfterFire, Timers
  <2> QED  BY <1>7, <2>1 DEF TimerFires
<1>8. ASSUME NEW t \in Timers, FireOrphan(t)  PROVE Values'
  <2>1. timer' \in Timers \cup {"none", "dead"} /\ orphans' \in [Timers -> Nat]
    BY <1>8 DEF FireOrphan, AfterFire, SetTimer, Timers
  <2> QED  BY <1>8, <2>1 DEF FireOrphan
<1>9. CASE StartScheduler  BY <1>9 DEF StartScheduler
<1>10. CASE LoadStates  BY <1>10 DEF LoadStates
<1>11. CASE RestoreState  BY <1>11 DEF RestoreState, Restored
<1>12. CASE ArmTimer
  <2>1. timer' \in Timers \cup {"none", "dead"} /\ orphans' \in [Timers -> Nat]
    BY <1>12, ArmsATimer DEF ArmTimer
  <2> QED  BY <1>12, <2>1 DEF ArmTimer
<1>13. CASE Stop  BY <1>13 DEF Stop
<1>14. CASE StopStep
  <2>1. saves' \in Seq(Save)  BY <1>14 DEF StopStep, Save
  <2> QED  BY <1>14, <2>1 DEF StopStep, StopTimer
<1>15. CASE Crash
  <2>1. orphans' \in [Timers -> Nat] /\ crashes' \in 0..MaxCrashes  BY <1>15 DEF Crash
  <2> QED  BY <1>15, <2>1 DEF Crash
<1>16. CASE UNCHANGED timerVars  BY <1>16 DEF timerVars
<1> QED
  BY <1>1, <1>2, <1>3, <1>4, <1>5, <1>6, <1>7, <1>8, <1>9, <1>10, <1>11, <1>12, <1>13, <1>14, <1>15, <1>16
  DEF TimersNext, StartStep

\* Both kinds hold in the initial state.
LEMMA TypesInit == TimersInit => Flags /\ Values
<1>1. TimersInit => Flags
  BY JobTimersAssumption DEF TimersInit, Flags
<1>2. TimersInit => Values
  BY JobTimersAssumption DEF TimersInit, Values, InitStatus, Statuses, Kinds, Timers, StarterPc
<1> QED  BY <1>1, <1>2

LEMMA TypesAre == TimersTypeOK <=> Flags /\ Values
  BY Zenon DEF TimersTypeOK, Flags, Values

(* Every variable of a schedule keeps its type. *)
THEOREM TimersTypeCorrect == TimersSpec => []TimersTypeOK
<1>1. TimersSpec => [](Flags /\ Values)
  BY TypesInit, FlagsStep, ValuesStep, PTL DEF TimersSpec
<1> QED  BY <1>1, TypesAre, PTL

----------------------------------------------------------------------------
(* The armed timer.  Unless a request arms one before start() does, none is armed
   while start() is yet to arm the job's, which is therefore the first. *)

\* The timer that status and schedule call for, while the scheduler runs.
TimerFits(t, st, k) ==
  /\ st = "active" /\ k = "cron" => t = "cron"
  /\ st = "active" /\ k = "interval" => t \in {"first", "every"}
  /\ st # "active" \/ k = "none" => t \notin Timers

TimersInv ==
  /\ OneTimer
  /\ starter \in {"load", "interrupted", "arm", "ready"} => running = TRUE
  /\ starter \in {"down", "stopping", "stopped"} => running = FALSE
  /\ Arming => timer \notin Timers
  /\ starter = "stopping" /\ status # "active" => timer \notin Timers
  /\ starter = "ready" => TimerFits(timer, status, kind)

\* A timer armed where none is live is the one called for, and the only one.
LEMMA ArmsTheTimer ==
  ASSUME NEW old \in {"none", "dead"}, NEW st \in Statuses, NEW k \in Kinds,
         Values, OneTimer, running = TRUE, st = "active", StartTimer(old, st, k)
  PROVE  TimerFits(timer', st, k) /\ orphans' = orphans
  BY DEF StartTimer, SetTimer, TimerFits, Timers, Kinds, Values

\* Whatever is armed where nothing is live leaves no orphan.
LEMMA ArmsNoOrphan ==
  ASSUME NEW old \in {"none", "dead"}, NEW st, NEW k, StartTimer(old, st, k)
  PROVE  orphans' = orphans
  BY DEF StartTimer, SetTimer, Timers

LEMMA TimersInvStep ==
  ASSUME Flags, Values, TimersInv, ~armedEarly',
         [TimersNext]_timerVars
  PROVE  TimersInv'
<1> USE DEF TimersInv, OneTimer, Arming
<1>1. CASE PauseAsync
  BY <1>1 DEF PauseAsync, StopTimer, TimerFits, Timers
<1>2. CASE ResumeAsync
  <2>1. timer \in {"none", "dead"}
    BY <1>2 DEF ResumeAsync, TimerFits, Values, StarterPc
  <2>2. orphans' = orphans /\ status' = "active" /\ UNCHANGED <<starter, running, kind>>
    BY <1>2, <2>1, ArmsNoOrphan DEF ResumeAsync
  <2>3. Arming => timer' \notin Timers
    BY <1>2 DEF ResumeAsync, Notes
  <2>4. starter = "ready" => TimerFits(timer', "active", kind)
    BY <1>2, <2>1, ArmsTheTimer DEF ResumeAsync, Values, Statuses
  <2> QED  BY <2>2, <2>3, <2>4
<1>3. CASE StopJobAsync
  BY <1>3 DEF StopJobAsync, StopTimer, TimerFits, Timers
<1>4. CASE UpdateOptionsAsync
  <2>1. UNCHANGED <<status, starter, running>> /\ (Arming => timer' \notin Timers)
    BY <1>4 DEF UpdateOptionsAsync, Notes
  <2>2. PICK k \in Kinds : /\ kind' = k
                           /\ IF status = "active" THEN StartTimer("none", status, k)
                              ELSE UNCHANGED <<timer, orphans>>
    BY <1>4 DEF UpdateOptionsAsync
  <2>3. CASE status = "active"
    <3>1. orphans' = orphans
      BY <2>2, <2>3, ArmsNoOrphan
    <3>2. starter = "ready" => TimerFits(timer', status, k)
      BY <2>2, <2>3, ArmsTheTimer DEF Values
    <3> QED  BY <2>1, <2>2, <2>3, <3>1, <3>2
  <2>4. CASE status # "active"
    BY <2>1, <2>2, <2>4 DEF TimerFits
  <2> QED  BY <2>3, <2>4
<1>5. CASE RunEnds  BY <1>5 DEF RunEnds
<1>6. CASE StoreSaves  BY <1>6 DEF StoreSaves
<1>7. CASE TimerFires
  <2>1. starter \in {"ready", "stopping"} /\ status = "active" /\ UNCHANGED <<status, kind, starter, running, orphans>>
    BY <1>7 DEF TimerFires, TimerFits, Values, StarterPc
  <2>2. CASE starter = "ready"
    <3>1. timer' = AfterFire(timer)  BY <1>7, <2>1, <2>2 DEF TimerFires, IsDue
    <3>2. TimerFits(timer', status, kind)
      BY <2>1, <2>2, <3>1, <1>7 DEF TimerFires, TimerFits, AfterFire, Timers, Values, Kinds
    <3> QED  BY <2>1, <2>2, <3>2
  <2>3. CASE starter = "stopping"
    BY <2>1, <2>3
  <2> QED  BY <2>1, <2>2, <2>3
<1>8. ASSUME NEW t \in Timers, FireOrphan(t)  PROVE TimersInv'
  BY <1>8 DEF FireOrphan
<1>9. CASE StartScheduler  BY <1>9 DEF StartScheduler
<1>10. CASE LoadStates  BY <1>10 DEF LoadStates
<1>11. CASE RestoreState  BY <1>11 DEF RestoreState
<1>12. CASE ArmTimer
  <2>1. starter = "arm" /\ starter' = "ready" /\ running = TRUE /\ timer \in {"none", "dead"}
    BY <1>12 DEF ArmTimer, Values
  <2>2. CASE status = "active"
    <3>1. TimerFits(timer', status, kind) /\ orphans' = orphans
      BY <1>12, <2>1, <2>2, ArmsTheTimer DEF ArmTimer, Values
    <3> QED  BY <1>12, <2>1, <3>1 DEF ArmTimer
  <2>3. CASE status # "active"
    BY <1>12, <2>1, <2>3 DEF ArmTimer, TimerFits
  <2> QED  BY <2>2, <2>3
<1>13. CASE Stop
  BY <1>13 DEF Stop, TimerFits
<1>14. CASE StopStep
  BY <1>14 DEF StopStep, StopTimer, Timers
<1>15. CASE Crash  BY <1>15 DEF Crash, Timers
<1>16. CASE UNCHANGED timerVars  BY <1>16 DEF timerVars
<1> QED
  BY <1>1, <1>2, <1>3, <1>4, <1>5, <1>6, <1>7, <1>8, <1>9, <1>10, <1>11, <1>12, <1>13, <1>14, <1>15, <1>16
  DEF TimersNext, StartStep

----------------------------------------------------------------------------
(* The answered status.  A save of the scheduler's own repeats the status of
   the save before it, so that the storage always holds what was answered, and
   a started job has the status of the newest save. *)

\* The status the newest save in flight carries, or the one answered.
Newest(ss, a) == IF ss = << >> THEN a ELSE ss[Len(ss)].status

\* What the save at place i finds when it is asked for.
Before(ss, a, i) == IF i = 1 THEN a ELSE ss[i - 1].status

SavesRepeat(ss, a) ==
  \A i \in 1..Len(ss) : ss[i].answers \/ ss[i].status = Before(ss, a, i)

AnsweredInv ==
  /\ SavesRepeat(saves, answered)
  /\ Restoring => saves = << >>
  /\ starter = "down" => status = InitStatus
  /\ saved \in {"none", answered}
  /\ saved = "none" => answered = InitStatus
  /\ starter \in {"load", "interrupted"} /\ saved = "none" => status = answered
  /\ starter = "interrupted" => loaded = saved
  /\ ~Restoring => status = Newest(saves, answered)

\* A new save becomes the newest one.
LEMMA SaveAdded ==
  ASSUME Values, NEW st \in Statuses, NEW ans \in BOOLEAN, SavesRepeat(saves, answered),
         saves' = Append(saves, [status |-> st, answers |-> ans]),
         ans \/ st = Newest(saves, answered)
  PROVE  SavesRepeat(saves', answered) /\ Newest(saves', answered) = st
<1> DEFINE e == [status |-> st, answers |-> ans]
<1>1. saves \in Seq(Save) /\ e \in Save  BY DEF Values, Save
<1>2. /\ Len(saves') = Len(saves) + 1 /\ saves' # << >> /\ saves'[Len(saves) + 1] = e
      /\ \A i \in 1..Len(saves) : saves'[i] = saves[i]
  BY <1>1, AppendProperties
<1>3. Len(saves) \in Nat /\ (saves = << >> <=> Len(saves) = 0)  BY <1>1, EmptySeq
<1>4. Newest(saves', answered) = st  BY <1>2, <1>3 DEF Newest
<1>5. ASSUME NEW i \in 1..Len(saves')
      PROVE  saves'[i].answers \/ saves'[i].status = Before(saves', answered, i)
  <2>1. CASE i = Len(saves) + 1
    BY <1>2, <1>3, <2>1 DEF Newest, Before
  <2>2. CASE i # Len(saves) + 1
    <3>1. i \in 1..Len(saves) /\ (i = 1 \/ i - 1 \in 1..Len(saves))  BY <1>2, <1>3, <2>2
    <3>2. saves'[i] = saves[i] /\ Before(saves', answered, i) = Before(saves, answered, i)
      BY <1>2, <3>1 DEF Before
    <3> QED  BY <3>1, <3>2 DEF SavesRepeat
  <2> QED  BY <2>1, <2>2
<1> QED  BY <1>4, <1>5 DEF SavesRepeat

\* The storage takes the oldest save: what is left repeats what is answered now.
LEMMA SaveTaken ==
  ASSUME Values, SavesRepeat(saves, answered), StoreSaves
  PROVE  /\ SavesRepeat(saves', answered') /\ Newest(saves', answered') = Newest(saves, answered)
         /\ saved' = answered'
<1>1. saves \in Seq(Save) /\ saves # << >>  BY DEF StoreSaves, Values
<1>2. /\ Head(saves) = saves[1] /\ Len(saves') = Len(saves) - 1 /\ saves' \in Seq(Save)
      /\ \A i \in 1..Len(saves') : saves'[i] = saves[i + 1]
  BY <1>1, HeadTailProperties DEF StoreSaves
<1>3. Len(saves) \in Nat /\ Len(saves) > 0 /\ Len(saves') \in Nat /\ 1 \in 1..Len(saves)
      /\ (saves' = << >> <=> Len(saves') = 0)
  BY <1>1, <1>2, EmptySeq
<1>4. answered' = saves[1].status /\ saved' = saves[1].status
  BY <1>2, <1>3 DEF StoreSaves, SavesRepeat, Before
<1>5. Newest(saves', answered') = Newest(saves, answered)
  BY <1>1, <1>2, <1>3, <1>4 DEF Newest
<1>6. ASSUME NEW i \in 1..Len(saves')
      PROVE  saves'[i].answers \/ saves'[i].status = Before(saves', answered', i)
  <2>1. i + 1 \in 1..Len(saves) /\ saves'[i] = saves[i + 1]  BY <1>2, <1>3
  <2>2. saves[i + 1].answers \/ saves[i + 1].status = saves[i].status
    BY <2>1, <1>3 DEF SavesRepeat, Before
  <2>3. Before(saves', answered', i) = saves[i].status
    <3>1. i # 1 => i - 1 \in 1..Len(saves') /\ saves'[i - 1] = saves[i - 1 + 1]  BY <1>2, <1>3
    <3> QED  BY <3>1, <1>4 DEF Before
  <2> QED  BY <2>1, <2>2, <2>3
<1> QED  BY <1>4, <1>5, <1>6 DEF SavesRepeat

LEMMA SaveIsNew ==
  ASSUME Values, NEW st \in Statuses, NEW ans \in BOOLEAN
  PROVE  Append(saves, [status |-> st, answers |-> ans]) # saves
<1>1. saves \in Seq(Save) /\ [status |-> st, answers |-> ans] \in Save  BY DEF Values, Save
<1>2. Len(Append(saves, [status |-> st, answers |-> ans])) = Len(saves) + 1 /\ Len(saves) \in Nat
  BY <1>1, AppendProperties
<1> QED  BY <1>2

LEMMA AnsweredInvStep ==
  ASSUME Flags, Values, AnsweredInv, ~savedEarly', Enabled, [TimersNext]_timerVars
  PROVE  AnsweredInv'
<1> USE DEF AnsweredInv, Restoring
<1>1. CASE PauseAsync \/ ResumeAsync \/ StopJobAsync
  <2>1. PICK st \in Statuses : status' = st /\ saves' = Append(saves, [status |-> st, answers |-> TRUE])
    BY <1>1 DEF PauseAsync, ResumeAsync, StopJobAsync, Persist, Statuses
  <2>2. SavesRepeat(saves', answered) /\ Newest(saves', answered) = st
    BY <2>1, SaveAdded
  <2>3. UNCHANGED <<starter, answered, saved, loaded>> /\ (Restoring => saves' = saves)
    BY <1>1 DEF PauseAsync, ResumeAsync, StopJobAsync, Notes
  <2>4. ~Restoring
    BY <2>1, <2>3, SaveIsNew
  <2> QED  BY <2>1, <2>2, <2>3, <2>4
<1>2. CASE RunEnds \/ StopStep
  <2>1. /\ saves' = Append(saves, [status |-> status, answers |-> FALSE])
        /\ UNCHANGED <<status, answered, saved>>
        /\ starter' = starter \/ (starter = "stopping" /\ starter' = "stopped")
        /\ starter # "stopping" /\ Restoring => saves' = saves
    BY <1>2 DEF RunEnds, StopStep, Notes
  <2>2. ~Restoring
    BY <2>1, SaveIsNew DEF Values
  <2>3. status \in Statuses /\ status = Newest(saves, answered)  BY <2>2 DEF Values
  <2>4. SavesRepeat(saves', answered) /\ Newest(saves', answered) = status
    BY <2>1, <2>3, SaveAdded
  <2> QED  BY <2>1, <2>2, <2>4
<1>3. CASE StoreSaves
  <2>1. /\ SavesRepeat(saves', answered') /\ Newest(saves', answered') = Newest(saves, answered)
        /\ saved' = answered'
    BY <1>3, SaveTaken
  <2>2. saves # << >> /\ UNCHANGED <<starter, status, loaded>> /\ answered' \in Statuses
    BY <1>3, ValuesStep DEF StoreSaves, Values
  <2> QED  BY <2>1, <2>2 DEF Statuses
<1>4. CASE UpdateOptionsAsync  BY <1>4 DEF UpdateOptionsAsync
<1>5. CASE TimerFires  BY <1>5 DEF TimerFires
<1>6. ASSUME NEW t \in Timers, FireOrphan(t)  PROVE AnsweredInv'  BY <1>6 DEF FireOrphan
<1>7. CASE StartScheduler  BY <1>7 DEF StartScheduler, Newest
<1>8. CASE LoadStates  BY <1>8 DEF LoadStates
<1>9. CASE RestoreState
  <2>1. status' = answered
    BY <1>9 DEF RestoreState, Restored
  <2> QED  BY <1>9, <2>1 DEF RestoreState, Newest
<1>10. CASE ArmTimer  BY <1>10 DEF ArmTimer
<1>11. CASE Crash
  BY <1>11 DEF Crash, SavesRepeat
<1>12. CASE Stop  BY <1>12 DEF Stop
<1>13. CASE UNCHANGED timerVars  BY <1>13 DEF timerVars
<1> QED
  BY <1>1, <1>2, <1>3, <1>4, <1>5, <1>6, <1>7, <1>8, <1>9, <1>10, <1>11, <1>12, <1>13
  DEF TimersNext, StartStep

----------------------------------------------------------------------------
ScheduleInv ==
  /\ Flags /\ Values
  /\ ~armedEarly => TimersInv
  /\ ~savedEarly /\ Enabled => AnsweredInv

LEMMA ScheduleInvInit == TimersInit => ScheduleInv
<1> SUFFICES ASSUME TimersInit  PROVE ScheduleInv
  OBVIOUS
<1>1. TimersInv  BY DEF TimersInit, TimersInv, OneTimer, Timers
<1>2. AnsweredInv  BY DEF TimersInit, AnsweredInv, SavesRepeat, Restoring
<1> QED  BY <1>1, <1>2, TypesInit DEF ScheduleInv

\* A process that begins has no timer, whatever the one before it had.
LEMMA CrashClears == ASSUME Crash  PROVE TimersInv'
  BY DEF Crash, TimersInv, OneTimer, Arming, Timers

LEMMA ScheduleInvStep == ScheduleInv /\ [TimersNext]_timerVars => ScheduleInv'
<1> SUFFICES ASSUME ScheduleInv, [TimersNext]_timerVars  PROVE ScheduleInv'
  OBVIOUS
<1>1. savedEarly => savedEarly'
  <2>1. ASSUME Notes  PROVE savedEarly => savedEarly'
    BY <2>1, Zenon DEF Notes
  <2> QED
    BY <2>1, Zenon DEF TimersNext, timerVars, PauseAsync, ResumeAsync, StopJobAsync, UpdateOptionsAsync,
     RunEnds, StoreSaves, TimerFires, FireOrphan, StartScheduler, StartStep, LoadStates,
     RestoreState, ArmTimer, Stop, StopStep, Crash, early
<1>2. armedEarly => armedEarly' \/ Crash
  <2>1. ASSUME Notes  PROVE armedEarly => armedEarly'
    BY <2>1, Zenon DEF Notes
  <2> QED
    BY <2>1, Zenon DEF TimersNext, timerVars, PauseAsync, ResumeAsync, StopJobAsync, UpdateOptionsAsync,
     RunEnds, StoreSaves, TimerFires, FireOrphan, StartScheduler, StartStep, LoadStates,
     RestoreState, ArmTimer, Stop, StopStep, early
<1>3. Flags' /\ Values'
  BY FlagsStep, ValuesStep DEF ScheduleInv
<1>4. ~armedEarly' => TimersInv'
  BY <1>2, CrashClears, TimersInvStep DEF ScheduleInv
<1>5. ~savedEarly' /\ Enabled => AnsweredInv'
  BY <1>1, AnsweredInvStep DEF ScheduleInv
<1> QED  BY <1>3, <1>4, <1>5 DEF ScheduleInv

LEMMA ScheduleInvSuffices == ScheduleInv => ScheduleAsAnswered
<1> SUFFICES ASSUME ScheduleInv  PROVE ScheduleAsAnswered
  OBVIOUS
<1>1. TimerMatchesStatus
  BY DEF ScheduleInv, TimersInv, TimerMatchesStatus, TimerFits, Timers, Kinds, Values, Arming
<1>2. AnsweredIsKept
  BY DEF ScheduleInv, AnsweredInv, AnsweredIsKept, Newest
<1> QED  BY <1>1, <1>2 DEF ScheduleAsAnswered

(* The scheduler keeps its word on a job's schedule.  Unless a request arms a timer
   before start() arms the job's, the armed timer is the only one and the one the
   job's status calls for; unless a status is saved before start() has restored the
   saved one, a started job has the status its last API caller was told: through any
   number of pauses, updates, stops, restarts, saves in flight and crashes. *)
THEOREM ScheduleKept == TimersSpec => []ScheduleAsAnswered
  BY ScheduleInvInit, ScheduleInvStep, ScheduleInvSuffices, PTL DEF TimersSpec


----------------------------------------------------------------------------
(* The statistics of runs: orders and lists, whatever their elements. *)

AheadOf(I, R, i) == {j \in I : <<j, i>> \in R}

\* In a finite set that is totally ordered, elements are numbered from one.
LEMMA OrderRank ==
  ASSUME NEW I, IsFiniteSet(I), NEW R,
         \A i \in I : <<i, i>> \notin R,
         \A i, j, k \in I : <<i, j>> \in R /\ <<j, k>> \in R => <<i, k>> \in R,
         \A i, j \in I : i = j \/ <<i, j>> \in R \/ <<j, i>> \in R
  PROVE  /\ Cardinality(I) \in Nat
         /\ \A i \in I : Cardinality(AheadOf(I, R, i)) + 1 \in 1..Cardinality(I)
         /\ \A i, j \in I : Cardinality(AheadOf(I, R, i)) = Cardinality(AheadOf(I, R, j)) => i = j
         /\ \A k \in 1..Cardinality(I) : \E i \in I : Cardinality(AheadOf(I, R, i)) + 1 = k
<1>1. Cardinality(I) \in Nat
  BY FS_CardinalityType
<1>2. ASSUME NEW i \in I
      PROVE  /\ IsFiniteSet(AheadOf(I, R, i)) /\ Cardinality(AheadOf(I, R, i)) \in Nat
             /\ Cardinality(AheadOf(I, R, i)) < Cardinality(I)
  <2>1. AheadOf(I, R, i) \in SUBSET I /\ i \notin AheadOf(I, R, i)
    BY DEF AheadOf
  <2>2. /\ IsFiniteSet(AheadOf(I, R, i)) /\ Cardinality(AheadOf(I, R, i)) <= Cardinality(I)
        /\ Cardinality(AheadOf(I, R, i)) # Cardinality(I)
    BY <2>1, FS_Subset
  <2>3. Cardinality(AheadOf(I, R, i)) \in Nat
    BY <2>2, FS_CardinalityType
  <2> QED BY <1>1, <2>2, <2>3
<1>3. ASSUME NEW i \in I, NEW j \in I, <<i, j>> \in R
      PROVE  Cardinality(AheadOf(I, R, i)) < Cardinality(AheadOf(I, R, j))
  <2>1. AheadOf(I, R, i) \in SUBSET AheadOf(I, R, j)
    BY <1>3 DEF AheadOf
  <2>2. i \in AheadOf(I, R, j) /\ i \notin AheadOf(I, R, i)
    BY <1>3 DEF AheadOf
  <2>3. /\ Cardinality(AheadOf(I, R, i)) <= Cardinality(AheadOf(I, R, j))
        /\ Cardinality(AheadOf(I, R, i)) # Cardinality(AheadOf(I, R, j))
    BY <1>2, <2>1, <2>2, FS_Subset
  <2> QED BY <1>2, <2>3
<1>4. ASSUME NEW i \in I, NEW j \in I, Cardinality(AheadOf(I, R, i)) = Cardinality(AheadOf(I, R, j))
      PROVE  i = j
  <2>1. <<i, j>> \notin R
    <3> SUFFICES ASSUME <<i, j>> \in R PROVE FALSE
      OBVIOUS
    <3>1. Cardinality(AheadOf(I, R, i)) < Cardinality(AheadOf(I, R, j))
      BY <1>3
    <3> QED BY <1>2, <1>4, <3>1
  <2>2. <<j, i>> \notin R
    <3> SUFFICES ASSUME <<j, i>> \in R PROVE FALSE
      OBVIOUS
    <3>1. Cardinality(AheadOf(I, R, j)) < Cardinality(AheadOf(I, R, i))
      BY <1>3
    <3> QED BY <1>2, <1>4, <3>1
  <2> QED BY <2>1, <2>2
<1>5. ASSUME NEW k \in 1..Cardinality(I) PROVE \E i \in I : Cardinality(AheadOf(I, R, i)) + 1 = k
  <2> DEFINE g == [i \in I |-> Cardinality(AheadOf(I, R, i)) + 1]
  <2>1. g \in [I -> 1..Cardinality(I)]
    <3>1. ASSUME NEW i \in I PROVE Cardinality(AheadOf(I, R, i)) + 1 \in 1..Cardinality(I)
      BY <1>1, <1>2
    <3> QED BY <3>1
  <2>2. ASSUME NEW i \in I, NEW j \in I, g[i] = g[j] PROVE i = j
    <3>1. Cardinality(AheadOf(I, R, i)) = Cardinality(AheadOf(I, R, j))
      <4>1. Cardinality(AheadOf(I, R, i)) + 1 = Cardinality(AheadOf(I, R, j)) + 1
        BY <2>2
      <4>2. Cardinality(AheadOf(I, R, i)) \in Nat /\ Cardinality(AheadOf(I, R, j)) \in Nat
        BY <1>2
      <4> QED BY <4>1, <4>2
    <3> QED BY <1>4, <3>1
  <2>3. g \in Injection(I, 1..Cardinality(I))
    BY <2>1, <2>2 DEF Injection, IsInjective
  <2>4. IsFiniteSet(1..Cardinality(I)) /\ Cardinality(1..Cardinality(I)) = Cardinality(I)
    BY <1>1, FS_Interval
  <2>5. g \in Surjection(I, 1..Cardinality(I))
    <3> HIDE DEF g
    <3> QED BY <2>3, <2>4, FS_Injection
  <2>6. PICK i \in I : g[i] = k
    BY <2>5 DEF Surjection
  <2> QED BY <2>6
<1>6. ASSUME NEW i \in I PROVE Cardinality(AheadOf(I, R, i)) + 1 \in 1..Cardinality(I)
  BY <1>1, <1>2
<1> QED BY <1>1, <1>4, <1>5, <1>6

RunRecords == [id : Nat, start : Nat, status : {"running", "completed", "timed_out"}]

\* No run twice.
NoRunTwice(s) == \A i, j \in DOMAIN s : s[i].id = s[j].id => i = j

\* The list t has what s has at the positions I.
KeptOf(t, s, I) ==
  /\ \A k \in DOMAIN t : \E i \in I : t[k] = s[i]
  /\ \A i \in I : \E k \in DOMAIN t : t[k] = s[i]

LEMMA PickedApart ==
  ASSUME NEW s \in Seq(RunRecords), NoRunTwice(s), NEW I \in SUBSET DOMAIN s, NEW t, t = Picked(s, I)
  PROVE  t \in Seq(RunRecords) /\ NoRunTwice(t) /\ KeptOf(t, s, I)
<1> DEFINE m == Cardinality(I)
<1>1. /\ t \in Seq(RunRecords) /\ Len(t) = m /\ m \in Nat
      /\ \A k \in 1..m : \E i \in I : t[k] = s[i]
      /\ \A i \in I : \E k \in 1..m : t[k] = s[i]
  BY PickedSeq
<1>2. DOMAIN t = 1..m
  BY <1>1
<1>3. IsFiniteSet(I) /\ I \subseteq Nat
  <2>1. IsFiniteSet(1..Len(s)) /\ I \subseteq 1..Len(s) /\ Len(s) \in Nat
    BY FS_Interval
  <2> QED BY <2>1, FS_Subset
<1>4. PICK f : Along(f, I) /\ \A k \in 1..m : t[k] = s[f[k]]
  BY <1>3, PickedFacts
<1>5. \A k \in 1..m : f[k] \in I /\ f[k] \in Int
  BY <1>3, <1>4 DEF Along
<1>6. ASSUME NEW j \in 1..m, NEW k \in 1..m, t[j].id = t[k].id PROVE j = k
  <2>1. f[j] = f[k]
    BY <1>4, <1>5, <1>6 DEF NoRunTwice
  <2>2. ~(j < k) /\ ~(k < j)
    BY <1>4, <1>5, <2>1 DEF Along
  <2> QED BY <1>1, <2>2
<1> QED BY <1>1, <1>2, <1>6 DEF NoRunTwice, KeptOf

\* The list u has nothing that neither s nor t has.
MadeOf(u, s, t) ==
  \A k \in DOMAIN u : (\E i \in DOMAIN s : u[k] = s[i]) \/ (\E i \in DOMAIN t : u[k] = t[i])

LEMMA ConcatApart ==
  ASSUME NEW s \in Seq(RunRecords), NoRunTwice(s), NEW t \in Seq(RunRecords), NoRunTwice(t),
         IdsOf(s) \cap IdsOf(t) = {}
  PROVE  /\ s \o t \in Seq(RunRecords) /\ NoRunTwice(s \o t) /\ IdsOf(s \o t) = IdsOf(s) \cup IdsOf(t)
         /\ MadeOf(s \o t, s, t)
<1>1. PICK m \in Nat, n \in Nat : Len(s) = m /\ DOMAIN s = 1..m /\ Len(t) = n /\ DOMAIN t = 1..n
  OBVIOUS
<1>2. PICK u : u = s \o t
  OBVIOUS
<1>3. u \in Seq(RunRecords) /\ DOMAIN u = 1..(m + n)
  <2>1. u \in Seq(RunRecords) /\ Len(u) = m + n
    BY <1>1, <1>2, ConcatProperties
  <2> QED BY <2>1
<1>4. \A k \in 1..m : u[k] = s[k]
  BY <1>1, <1>2
<1>5. \A k \in 1..n : u[m + k] = t[k] /\ m + k \in 1..(m + n)
  <2>1. \A k \in 1..n : m + k \in 1..(m + n)
    OBVIOUS
  <2>2. ASSUME NEW k \in 1..n PROVE u[m + k] = t[k]
    BY <1>1, <1>2, <2>1, ConcatProperties
  <2> QED BY <2>1, <2>2
<1>6. \A k \in DOMAIN u : k \in 1..m \/ (k - m \in 1..n /\ k = m + (k - m))
  BY <1>3
<1>7. \A k \in DOMAIN u : (k \in 1..m /\ u[k] = s[k]) \/ (k - m \in 1..n /\ u[k] = t[k - m])
  BY <1>4, <1>5, <1>6
<1>8. \A i \in DOMAIN s, j \in DOMAIN t : s[i].id # t[j].id
  BY DEF IdsOf
<1>9. NoRunTwice(u)
  <2> SUFFICES ASSUME NEW j \in DOMAIN u, NEW k \in DOMAIN u, u[j].id = u[k].id PROVE j = k
    BY DEF NoRunTwice
  <2>1. CASE j \in 1..m /\ u[j] = s[j] /\ k \in 1..m /\ u[k] = s[k]
    BY <1>1, <2>1 DEF NoRunTwice
  <2>2. CASE j - m \in 1..n /\ u[j] = t[j - m] /\ k - m \in 1..n /\ u[k] = t[k - m]
    <3>1. j - m = k - m
      BY <1>1, <2>2 DEF NoRunTwice
    <3> QED BY <1>3, <3>1
  <2>3. CASE j \in 1..m /\ u[j] = s[j] /\ k - m \in 1..n /\ u[k] = t[k - m]
    BY <1>1, <1>8, <2>3
  <2>4. CASE j - m \in 1..n /\ u[j] = t[j - m] /\ k \in 1..m /\ u[k] = s[k]
    BY <1>1, <1>8, <2>4
  <2> QED BY <1>7, <2>1, <2>2, <2>3, <2>4
<1>10. IdsOf(u) = IdsOf(s) \cup IdsOf(t)
  <2>1. ASSUME NEW x \in IdsOf(u) PROVE x \in IdsOf(s) \cup IdsOf(t)
    <3>1. PICK k \in DOMAIN u : x = u[k].id
      BY <2>1 DEF IdsOf
    <3> QED BY <1>1, <1>7, <3>1 DEF IdsOf
  <2>2. ASSUME NEW x \in IdsOf(s) PROVE x \in IdsOf(u)
    <3>1. PICK k \in DOMAIN s : x = s[k].id
      BY <2>2 DEF IdsOf
    <3>2. k \in DOMAIN u /\ u[k] = s[k]
      BY <1>1, <1>3, <1>4
    <3> QED BY <3>1, <3>2 DEF IdsOf
  <2>3. ASSUME NEW x \in IdsOf(t) PROVE x \in IdsOf(u)
    <3>1. PICK k \in DOMAIN t : x = t[k].id
      BY <2>3 DEF IdsOf
    <3>2. m + k \in DOMAIN u /\ u[m + k] = t[k]
      BY <1>1, <1>3, <1>5
    <3> QED BY <3>1, <3>2 DEF IdsOf
  <2> QED BY <2>1, <2>2, <2>3
<1>11. MadeOf(u, s, t)
  BY <1>1, <1>7 DEF MadeOf
<1> QED BY <1>2, <1>3, <1>9, <1>10, <1>11

LEMMA ApartCounts ==
  ASSUME NEW s \in Seq(RunRecords), NoRunTwice(s)
  PROVE  Cardinality(IdsOf(s)) = Len(s)
<1>1. PICK m \in Nat : Len(s) = m /\ DOMAIN s = 1..m
  OBVIOUS
<1> DEFINE g == [k \in 1..m |-> s[k].id]
<1>2. g \in [1..m -> IdsOf(s)] /\ \A x \in IdsOf(s) : \E k \in 1..m : g[k] = x
  BY <1>1 DEF IdsOf
<1>3. \A j, k \in 1..m : g[j] = g[k] => j = k
  BY <1>1 DEF NoRunTwice
<1>4. g \in Bijection(1..m, IdsOf(s))
  BY <1>2, <1>3 DEF Bijection, Injection, Surjection, IsInjective
<1>5. ExistsBijection(1..m, IdsOf(s))
  BY <1>4 DEF ExistsBijection
<1>6. IsFiniteSet(1..m) /\ Cardinality(1..m) = m
  BY FS_Interval
<1> QED BY <1>1, <1>5, <1>6, FS_Bijection
----------------------------------------------------------------------------
(* The pages *)

StatsTypes ==
  /\ clock \in Nat /\ begun \in Nat /\ execs \in Seq(RunRecords) /\ NoRunTwice(execs)
  /\ \A i \in DOMAIN execs : execs[i].id <= begun /\ execs[i].start <= clock

LEMMA RecentFacts ==
  ASSUME StatsTypes, NEW since
  PROVE  /\ IsFiniteSet(Recent(since)) /\ Recent(since) \subseteq DOMAIN execs
         /\ \A i \in Recent(since) : i \in Int /\ execs[i].start \in Nat
<1>1. execs \in Seq(RunRecords) /\ DOMAIN execs = 1..Len(execs) /\ Len(execs) \in Nat
  BY DEF StatsTypes
<1>2. Recent(since) \subseteq DOMAIN execs
  BY DEF Recent
<1>3. IsFiniteSet(1..Len(execs))
  BY <1>1, FS_Interval
<1>4. IsFiniteSet(Recent(since))
  BY <1>1, <1>2, <1>3, FS_Subset
<1>5. \A i \in DOMAIN execs : i \in Int /\ execs[i].start \in Nat
  <2> TAKE i \in DOMAIN execs
  <2>1. execs[i] \in RunRecords /\ i \in Int
    BY <1>1
  <2> QED BY <2>1 DEF RunRecords
<1> QED BY <1>2, <1>4, <1>5

\* The runs found are those of the range's beginning and later, each in its place.
LEMMA FoundFacts ==
  ASSUME StatsTypes, NEW since, NEW n, n = Cardinality(Recent(since)), NEW found, found = FoundRuns(since)
  PROVE  /\ n \in Nat /\ found \in Seq(RunRecords) /\ Len(found) = n
         /\ \A i \in Recent(since) : Rank(i, since) \in 1..n /\ found[Rank(i, since)] = execs[i]
         /\ \A k \in 1..n : \E i \in Recent(since) : Rank(i, since) = k /\ found[k] = execs[i]
<1> DEFINE I == Recent(since)
           R == {p \in I \X I : IsBefore(p[1], p[2])}
<1>1. IsFiniteSet(I) /\ I \subseteq DOMAIN execs /\ \A i \in I : i \in Int /\ execs[i].start \in Nat
  BY RecentFacts
<1> HIDE DEF I
<1>2. \A i, j \in I : <<i, j>> \in R <=> IsBefore(i, j)
  OBVIOUS
<1>3. \A i \in I : ~IsBefore(i, i)
  BY <1>1 DEF IsBefore
<1>4. \A i, j, k \in I : IsBefore(i, j) /\ IsBefore(j, k) => IsBefore(i, k)
  BY <1>1 DEF IsBefore
<1>5. \A i, j \in I : i = j \/ IsBefore(i, j) \/ IsBefore(j, i)
  BY <1>1 DEF IsBefore
<1>6. \A i \in I : Rank(i, since) = Cardinality(AheadOf(I, R, i)) + 1
  <2> TAKE i \in I
  <2>1. AheadOf(I, R, i) = {j \in I : IsBefore(j, i)}
    BY <1>2 DEF AheadOf
  <2> QED BY <2>1 DEF Rank, I
<1> HIDE DEF R
<1>7. /\ Cardinality(I) \in Nat
      /\ \A i \in I : Cardinality(AheadOf(I, R, i)) + 1 \in 1..Cardinality(I)
      /\ \A i, j \in I : Cardinality(AheadOf(I, R, i)) = Cardinality(AheadOf(I, R, j)) => i = j
      /\ \A k \in 1..Cardinality(I) : \E i \in I : Cardinality(AheadOf(I, R, i)) + 1 = k
  <2>1. \A i \in I : <<i, i>> \notin R
    BY <1>2, <1>3
  <2>2. \A i, j, k \in I : <<i, j>> \in R /\ <<j, k>> \in R => <<i, k>> \in R
    BY <1>2, <1>4
  <2>3. \A i, j \in I : i = j \/ <<i, j>> \in R \/ <<j, i>> \in R
    BY <1>2, <1>5
  <2> QED BY <1>1, <2>1, <2>2, <2>3, OrderRank
<1>8. n = Cardinality(I) /\ n \in Nat
  BY <1>7 DEF I
<1>9. \A i \in I : Rank(i, since) \in 1..n
  BY <1>6, <1>7, <1>8
<1>10. ASSUME NEW i \in I, NEW j \in I, Rank(i, since) = Rank(j, since) PROVE i = j
  <2>1. PICK a \in Nat, b \in Nat : a = Cardinality(AheadOf(I, R, i)) /\ b = Cardinality(AheadOf(I, R, j))
    <3>1. IsFiniteSet(AheadOf(I, R, i)) /\ IsFiniteSet(AheadOf(I, R, j))
      <4>1. AheadOf(I, R, i) \in SUBSET I /\ AheadOf(I, R, j) \in SUBSET I
        BY DEF AheadOf
      <4> QED BY <1>1, <4>1, FS_Subset
    <3> QED BY <3>1, FS_CardinalityType
  <2>2. a + 1 = b + 1
    BY <1>6, <1>10, <2>1
  <2>3. a = b
    BY <2>2
  <2> QED BY <1>7, <2>1, <2>3
<1>11. \A k \in 1..n : \E i \in I : Rank(i, since) = k
  BY <1>6, <1>7, <1>8
<1>12. ASSUME NEW i \in I
       PROVE  (CHOOSE j \in I : Rank(j, since) = Rank(i, since)) = i
  BY <1>10
<1>13. found = [k \in 1..n |-> execs[CHOOSE j \in I : Rank(j, since) = k]]
  BY <1>8 DEF FoundRuns, I
<1>14. ASSUME NEW i \in I PROVE Rank(i, since) \in 1..n /\ found[Rank(i, since)] = execs[i]
  <2>1. PICK k \in 1..n : k = Rank(i, since)
    BY <1>9
  <2>2. found[k] = execs[CHOOSE j \in I : Rank(j, since) = k]
    BY <1>13
  <2>3. (CHOOSE j \in I : Rank(j, since) = k) = i
    BY <1>12, <2>1
  <2> QED BY <2>1, <2>2, <2>3
<1>15. ASSUME NEW k \in 1..n PROVE \E i \in I : Rank(i, since) = k /\ found[k] = execs[i]
  <2>1. PICK i \in I : Rank(i, since) = k
    BY <1>11
  <2> QED BY <1>14, <2>1
<1>16. \A i \in I : execs[i] \in RunRecords
  BY <1>1 DEF StatsTypes
<1>17. \A k \in 1..n : found[k] \in RunRecords
  BY <1>15, <1>16
<1>18. found \in Seq(RunRecords) /\ Len(found) = n
  <2>1. found = [k \in 1..n |-> found[k]]
    BY <1>13
  <2>2. found \in [1..n -> RunRecords]
    BY <1>17, <2>1
  <2> QED BY <1>8, <2>2
<1> QED BY <1>8, <1>14, <1>15, <1>18 DEF I

\* A page holds the runs whose places follow the offset; past the last page
\* there are none.
OnPage(items, m, since, offset) ==
  \A k \in 1..m : \E i \in Recent(since) : Rank(i, since) = offset + k /\ items[k] = execs[i]

LEMMA StatsPageFacts ==
  ASSUME StatsTypes, JobStatsAssumption, NEW since, NEW offset \in Nat,
         NEW got, got = QueryPage(since, offset), NEW m, m = Len(got.items)
  PROVE  /\ got.items \in Seq(RunRecords) /\ m \in Nat /\ NoRunTwice(got.items)
         /\ OnPage(got.items, m, since, offset)
         /\ \A i \in Recent(since) : Rank(i, since) \in Nat
         /\ \A i \in Recent(since) : offset < Rank(i, since) /\ Rank(i, since) <= offset + m
               => \E k \in 1..m : got.items[k] = execs[i]
         /\ got.items = << >> \/ offset + m >= got.total
               => \A i \in Recent(since) : Rank(i, since) <= offset + m
<1>1. PICK n : n = Cardinality(Recent(since))
  OBVIOUS
<1>2. PICK found : found = FoundRuns(since)
  OBVIOUS
<1>3. /\ n \in Nat /\ found \in Seq(RunRecords) /\ Len(found) = n
      /\ \A i \in Recent(since) : Rank(i, since) \in 1..n /\ found[Rank(i, since)] = execs[i]
      /\ \A k \in 1..n : \E i \in Recent(since) : Rank(i, since) = k /\ found[k] = execs[i]
  BY <1>1, <1>2, FoundFacts
<1>4. PICK size \in Nat : size = StatsPageSize /\ size >= 1
  BY DEF JobStatsAssumption
<1>5. PICK end \in Nat : end = IF offset + size < n THEN offset + size ELSE n
  BY <1>3
<1>6. PICK items : items = SubSeq(found, offset + 1, end)
  OBVIOUS
<1>7. got.items = items /\ got.total = n
  BY <1>2, <1>3, <1>4, <1>5, <1>6 DEF QueryPage
<1>8. end <= n /\ (end > offset => m = end - offset) /\ (end <= offset => m = 0)
      /\ items \in Seq(RunRecords) /\ Len(items) = m /\ m \in Nat
      /\ \A k \in 1..m : items[k] = found[offset + k]
  <2>1. end <= n
    BY <1>3, <1>5
  <2>2. CASE end > offset
    <3>1. \A k \in (offset + 1)..end : k \in 1..n
      BY <1>3, <2>1
    <3>2. \A k \in (offset + 1)..end : found[k] \in RunRecords
      BY <1>3, <3>1
    <3>3. items = [k \in 1..(end - offset) |-> found[offset + k]]
      <4>1. items = [k \in 1..(end - (offset + 1) + 1) |-> found[(offset + 1) + k - 1]]
        BY <1>6
      <4>2. end - (offset + 1) + 1 = end - offset
        OBVIOUS
      <4>3. \A k \in 1..(end - offset) : (offset + 1) + k - 1 = offset + k
        OBVIOUS
      <4> QED BY <4>1, <4>2, <4>3
    <3>4. \A k \in 1..(end - offset) : offset + k \in (offset + 1)..end
      BY <2>2
    <3>5. items \in [1..(end - offset) -> RunRecords] /\ end - offset \in Nat
      BY <2>2, <3>2, <3>3, <3>4
    <3>6. items \in Seq(RunRecords) /\ Len(items) = end - offset
      BY <3>5
    <3> QED BY <1>7, <2>1, <2>2, <3>3, <3>5, <3>6
  <2>3. CASE end <= offset
    <3>1. items = << >>
      BY <1>6, <2>3
    <3> QED BY <1>7, <2>1, <2>3, <3>1
  <2> QED BY <2>2, <2>3
<1>9. ASSUME NEW k \in 1..m
      PROVE  \E i \in Recent(since) : Rank(i, since) = offset + k /\ items[k] = execs[i]
  <2>1. offset + k \in 1..n
    BY <1>3, <1>8
  <2>2. PICK i \in Recent(since) : Rank(i, since) = offset + k /\ found[offset + k] = execs[i]
    BY <1>3, <2>1
  <2> QED BY <1>8, <2>2
<1>10. \A i \in Recent(since) : Rank(i, since) \in Nat /\ Rank(i, since) <= n
  BY <1>3
<1>11. ASSUME NEW i \in Recent(since), offset < Rank(i, since), Rank(i, since) <= offset + m
       PROVE  \E k \in 1..m : items[k] = execs[i]
  <2>1. PICK r \in Nat : r = Rank(i, since)
    BY <1>10
  <2>2. r - offset \in 1..m /\ offset + (r - offset) = r
    BY <1>8, <1>11, <2>1
  <2>3. items[r - offset] = execs[i]
    BY <1>3, <1>8, <2>1, <2>2
  <2> QED BY <2>2, <2>3
<1>12. ASSUME items = << >> \/ offset + m >= n, NEW i \in Recent(since) PROVE Rank(i, since) <= offset + m
  <2>1. PICK r \in Nat : r = Rank(i, since) /\ r <= n
    BY <1>10
  <2>2. CASE items = << >>
    <3>1. m = 0
      BY <1>8, <2>2
    <3>2. end <= offset
      BY <1>8, <3>1
    <3>3. n <= offset
      BY <1>3, <1>4, <1>5, <3>2
    <3> QED BY <1>3, <2>1, <3>1, <3>3
  <2>3. CASE offset + m >= n
    BY <1>3, <1>8, <2>1, <2>3
  <2> QED BY <1>12, <2>2, <2>3
<1>13. NoRunTwice(items)
  <2>1. DOMAIN items = 1..m
    BY <1>8
  <2> SUFFICES ASSUME NEW j \in 1..m, NEW k \in 1..m, items[j].id = items[k].id PROVE j = k
    BY <2>1 DEF NoRunTwice
  <2>2. PICK h \in Recent(since) : Rank(h, since) = offset + j /\ items[j] = execs[h]
    BY <1>9
  <2>3. PICK i \in Recent(since) : Rank(i, since) = offset + k /\ items[k] = execs[i]
    BY <1>9
  <2>4. h \in DOMAIN execs /\ i \in DOMAIN execs
    BY DEF Recent
  <2>5. h = i
    BY <2>2, <2>3, <2>4 DEF StatsTypes, NoRunTwice
  <2>6. offset + j = offset + k
    BY <2>2, <2>3, <2>5
  <2> QED BY <1>8, <2>6
<1>14. OnPage(items, m, since, offset)
  BY <1>9 DEF OnPage
<1> QED BY <1>7, <1>8, <1>10, <1>11, <1>12, <1>13, <1>14
----------------------------------------------------------------------------
(* The reader *)

ReaderType ==
  [stage : {"reading", "answered"}, since : Nat, until : Nat, columns : Nat \ {0}, offset : Nat,
   seen : SUBSET Nat, runs : Seq(RunRecords), lost : SUBSET Nat, kept : SUBSET Nat]

\* What the reader has taken is right as far as it has read, and what it will
\* take is still ahead of it: a run it has not taken has its place after the offset.
ReaderFits(q) ==
  /\ q \in ReaderType /\ q.since < q.until /\ q.until <= clock
  /\ NoRunTwice(q.runs) /\ IdsOf(q.runs) \subseteq q.seen /\ IdsOf(q.runs) \subseteq q.kept
  /\ \A k \in DOMAIN q.runs : InRange(q, q.runs[k].start)
  /\ \A i \in DOMAIN execs : InRange(q, execs[i].start) =>
        /\ execs[i].id \in q.kept
        /\ execs[i].id \in q.seen => execs[i].id \in IdsOf(q.runs)
  /\ q.lost = {} => \A e \in q.kept :
        \/ e \in IdsOf(q.runs)
        \/ /\ q.stage = "reading"
           /\ \E i \in Recent(q.since) : execs[i].id = e /\ InRange(q, execs[i].start) /\ Rank(i, q.since) > q.offset

StatsInv == StatsTypes /\ \A q : q = reader /\ q.stage # "none" => ReaderFits(q)

\* A run keeps its place or is pushed back, while none is removed.
LEMMA RanksGrow ==
  ASSUME StatsTypes, StatsTypes', DOMAIN execs \subseteq DOMAIN execs',
         \A i \in DOMAIN execs : execs'[i].start = execs[i].start,
         NEW since \in Nat, NEW i \in Recent(since)
  PROVE  i \in Recent(since)' /\ Rank(i, since) \in Nat /\ Rank(i, since)' \in Nat /\ Rank(i, since) <= Rank(i, since)'
<1> DEFINE A == {j \in Recent(since) : IsBefore(j, i)}
           B == {j \in Recent(since)' : IsBefore(j, i)'}
<1>1. i \in DOMAIN execs /\ i \in Recent(since)'
  BY DEF Recent
<1>2. A \in SUBSET B
  BY <1>1 DEF Recent, IsBefore
<1>3. IsFiniteSet(A) /\ IsFiniteSet(B)
  <2>1. IsFiniteSet(Recent(since))
    BY RecentFacts
  <2>2. IsFiniteSet(Recent(since)')
    <3>1. execs' \in Seq(RunRecords) /\ DOMAIN execs' = 1..Len(execs') /\ Len(execs') \in Nat
      BY DEF StatsTypes
    <3>2. Recent(since)' \subseteq 1..Len(execs')
      BY <3>1 DEF Recent
    <3>3. IsFiniteSet(1..Len(execs'))
      BY <3>1, FS_Interval
    <3> QED BY <3>2, <3>3, FS_Subset
  <2>3. A \in SUBSET Recent(since) /\ B \in SUBSET (Recent(since)')
    OBVIOUS
  <2> HIDE DEF A, B
  <2> QED BY <2>1, <2>2, <2>3, FS_Subset
<1> HIDE DEF A, B
<1>4. Cardinality(A) <= Cardinality(B) /\ Cardinality(A) \in Nat /\ Cardinality(B) \in Nat
  BY <1>2, <1>3, FS_Subset, FS_CardinalityType
<1>5. Rank(i, since) = Cardinality(A) + 1 /\ Rank(i, since)' = Cardinality(B) + 1
  BY DEF Rank, A, B
<1> QED BY <1>1, <1>4, <1>5

\* A reader is undisturbed by runs that start, by runs that end and by time.
LEMMA FitsGrow ==
  ASSUME StatsTypes, StatsTypes', clock <= clock', DOMAIN execs \subseteq DOMAIN execs',
         \A i \in DOMAIN execs : execs'[i].start = execs[i].start /\ execs'[i].id = execs[i].id,
         \A i \in DOMAIN execs' : i \in DOMAIN execs \/ execs'[i].start >= clock,
         NEW q, ReaderFits(q)
  PROVE  ReaderFits(q)'
<1>1. /\ q \in ReaderType /\ q.since \in Nat /\ q.until \in Nat /\ q.offset \in Nat
      /\ q.until <= clock /\ clock \in Nat /\ clock' \in Nat
  BY DEF ReaderFits, ReaderType, StatsTypes
<1>2. q.until <= clock'
  BY <1>1
<1>3. ASSUME NEW i \in DOMAIN execs', InRange(q, execs'[i].start) PROVE i \in DOMAIN execs
  <2>1. execs'[i].start \in Nat
    <3>1. execs'[i] \in RunRecords
      BY DEF StatsTypes
    <3> QED BY <3>1 DEF RunRecords
  <2>2. ~(execs'[i].start >= clock)
    BY <1>1, <1>3, <2>1 DEF InRange
  <2> QED BY <2>2
<1>4. \A i \in DOMAIN execs' : InRange(q, execs'[i].start) =>
        /\ execs'[i].id \in q.kept
        /\ execs'[i].id \in q.seen => execs'[i].id \in IdsOf(q.runs)
  BY <1>3 DEF ReaderFits
<1>5. ASSUME q.lost = {}, NEW e \in q.kept, e \notin IdsOf(q.runs)
      PROVE  /\ q.stage = "reading"
             /\ \E i \in Recent(q.since)' : execs'[i].id = e /\ InRange(q, execs'[i].start) /\ Rank(i, q.since)' > q.offset
  <2>1. q.stage = "reading" /\ \E i \in Recent(q.since) : execs[i].id = e /\ InRange(q, execs[i].start) /\ Rank(i, q.since) > q.offset
    BY <1>5 DEF ReaderFits
  <2>2. PICK i \in Recent(q.since) : execs[i].id = e /\ InRange(q, execs[i].start) /\ Rank(i, q.since) > q.offset
    BY <2>1
  <2>3. i \in DOMAIN execs
    BY DEF Recent
  <2>4. i \in Recent(q.since)' /\ Rank(i, q.since) \in Nat /\ Rank(i, q.since)' \in Nat /\ Rank(i, q.since) <= Rank(i, q.since)'
    BY <1>1, RanksGrow
  <2>5. Rank(i, q.since)' > q.offset
    BY <1>1, <2>2, <2>4
  <2> QED BY <2>1, <2>2, <2>3, <2>4, <2>5
<1> QED BY <1>1, <1>2, <1>4, <1>5 DEF ReaderFits

\* A reader knows of the removals that it may miss.
LEMMA FitsCut ==
  ASSUME StatsTypes, clock' = clock,
         \A i \in DOMAIN execs' : \E j \in DOMAIN execs : execs'[i] = execs[j],
         NEW q, ReaderFits(q), NEW p \in ReaderType,
         p = q \/ \E d : p = [q EXCEPT !.lost = d],
         p.stage = "reading" => p.lost # {},
         p.stage = "answered" => p = q
  PROVE  ReaderFits(p)'
<1>1. q \in ReaderType
  BY DEF ReaderFits
<1>2. /\ p.stage = q.stage /\ p.since = q.since /\ p.until = q.until /\ p.columns = q.columns
      /\ p.offset = q.offset /\ p.seen = q.seen /\ p.runs = q.runs /\ p.kept = q.kept
  <2>1. ASSUME NEW d, p = [q EXCEPT !.lost = d]
        PROVE  /\ p.stage = q.stage /\ p.since = q.since /\ p.until = q.until /\ p.columns = q.columns
               /\ p.offset = q.offset /\ p.seen = q.seen /\ p.runs = q.runs /\ p.kept = q.kept
    BY <1>1, <2>1 DEF ReaderType
  <2> QED BY <2>1
<1>3. \A time : InRange(p, time) <=> InRange(q, time)
  BY <1>2 DEF InRange
<1>4. \A i \in DOMAIN execs' : InRange(p, execs'[i].start) =>
        /\ execs'[i].id \in p.kept
        /\ execs'[i].id \in p.seen => execs'[i].id \in IdsOf(p.runs)
  BY <1>2, <1>3 DEF ReaderFits
<1>5. p.lost = {} => \A e \in p.kept : e \in IdsOf(p.runs)
  <2> SUFFICES ASSUME p.lost = {} PROVE \A e \in p.kept : e \in IdsOf(p.runs)
    OBVIOUS
  <2>1. p.stage = "answered"
    BY DEF ReaderType
  <2>2. p = q /\ q.stage # "reading"
    BY <2>1
  <2> QED BY <2>2 DEF ReaderFits
<1>6. /\ p.since < p.until /\ p.until <= clock'
      /\ NoRunTwice(p.runs) /\ IdsOf(p.runs) \subseteq p.seen /\ IdsOf(p.runs) \subseteq p.kept
      /\ \A k \in DOMAIN p.runs : InRange(p, p.runs[k].start)
  BY <1>2, <1>3 DEF ReaderFits
<1> QED BY <1>4, <1>5, <1>6 DEF ReaderFits
----------------------------------------------------------------------------
(* The steps *)

LEMMA RunStartsKeeps == ASSUME StatsInv, RunStarts PROVE StatsInv'
<1>1. /\ begun' = begun + 1 /\ clock' = clock /\ reader' = reader
      /\ clock \in Nat /\ begun \in Nat /\ execs \in Seq(RunRecords) /\ NoRunTwice(execs)
      /\ \A i \in DOMAIN execs : execs[i].id <= begun /\ execs[i].start <= clock
  BY DEF StatsInv, StatsTypes, RunStarts
<1>2. PICK new \in RunRecords : new = [id |-> begun + 1, start |-> clock, status |-> "running"]
  <2>1. [id |-> begun + 1, start |-> clock, status |-> "running"] \in RunRecords
    BY <1>1 DEF RunRecords
  <2> QED BY <2>1
<1>3. PICK n \in Nat : n = Len(execs) /\ DOMAIN execs = 1..n
  BY <1>1
<1>4. execs' = Append(execs, new)
  BY <1>2 DEF RunStarts
<1>5. /\ execs' \in Seq(RunRecords) /\ DOMAIN execs' = 1..(n + 1)
      /\ \A i \in 1..n : execs'[i] = execs[i]
      /\ execs'[n + 1] = new
  BY <1>1, <1>3, <1>4
<1>6. \A i \in DOMAIN execs' : i \in 1..n \/ i = n + 1
  BY <1>5
<1>7. new.id = begun + 1 /\ new.start = clock
  BY <1>2
<1>8. \A i \in 1..n : execs[i].id \in Nat /\ execs[i].id <= begun /\ execs[i].start \in Nat /\ execs[i].start <= clock
  <2> TAKE i \in 1..n
  <2>1. execs[i] \in RunRecords
    BY <1>1, <1>3
  <2> QED BY <1>1, <1>3, <2>1 DEF RunRecords
<1>9. NoRunTwice(execs')
  <2> SUFFICES ASSUME NEW i \in DOMAIN execs', NEW j \in DOMAIN execs', execs'[i].id = execs'[j].id PROVE i = j
    BY DEF NoRunTwice
  <2>1. CASE i \in 1..n /\ j \in 1..n
    BY <1>1, <1>3, <1>5, <2>1 DEF NoRunTwice
  <2>2. CASE i \in 1..n /\ j = n + 1
    BY <1>1, <1>5, <1>7, <1>8, <2>2
  <2>3. CASE i = n + 1 /\ j \in 1..n
    BY <1>1, <1>5, <1>7, <1>8, <2>3
  <2> QED BY <1>6, <2>1, <2>2, <2>3
<1>10. \A i \in DOMAIN execs' : execs'[i].id <= begun' /\ execs'[i].start <= clock'
  <2> TAKE i \in DOMAIN execs'
  <2>1. CASE i \in 1..n
    BY <1>1, <1>5, <1>8, <2>1
  <2>2. CASE i = n + 1
    BY <1>1, <1>5, <1>7, <2>2
  <2> QED BY <1>6, <2>1, <2>2
<1>11. StatsTypes'
  BY <1>1, <1>5, <1>9, <1>10 DEF StatsTypes
<1>12. /\ DOMAIN execs \subseteq DOMAIN execs'
       /\ \A i \in DOMAIN execs : execs'[i].start = execs[i].start /\ execs'[i].id = execs[i].id
       /\ \A i \in DOMAIN execs' : i \in DOMAIN execs \/ execs'[i].start >= clock
  BY <1>1, <1>3, <1>5, <1>6, <1>7
<1>13. ASSUME NEW q, ReaderFits(q) PROVE ReaderFits(q)'
  <2>1. StatsTypes /\ clock <= clock'
    BY <1>1 DEF StatsInv
  <2> QED BY <1>11, <1>12, <1>13, <2>1, FitsGrow
<1>14. PICK q : q = reader
  OBVIOUS
<1>15. q.stage # "none" => ReaderFits(q)'
  BY <1>13, <1>14 DEF StatsInv
<1> QED BY <1>1, <1>11, <1>14, <1>15 DEF StatsInv

LEMMA RunStopsKeeps ==
  ASSUME StatsInv, NEW k \in DOMAIN execs, NEW st \in {"completed", "timed_out"}, RunStops(k, st)
  PROVE  StatsInv'
<1>1. /\ begun' = begun /\ clock' = clock /\ reader' = reader
      /\ clock \in Nat /\ begun \in Nat /\ execs \in Seq(RunRecords) /\ NoRunTwice(execs)
      /\ \A i \in DOMAIN execs : execs[i].id <= begun /\ execs[i].start <= clock
  BY DEF StatsInv, StatsTypes, RunStops
<1>2. PICK old \in RunRecords : old = execs[k]
  BY <1>1
<1>3. PICK new \in RunRecords : new = [old EXCEPT !.status = st] /\ new.id = old.id /\ new.start = old.start
  <2>1. PICK new : new = [old EXCEPT !.status = st]
    OBVIOUS
  <2>2. new \in RunRecords /\ new.id = old.id /\ new.start = old.start
    BY <2>1 DEF RunRecords
  <2> QED BY <2>1, <2>2
<1>4. execs' = [execs EXCEPT ![k] = new]
  BY <1>2, <1>3 DEF RunStops
<1>5. execs' \in Seq(RunRecords) /\ DOMAIN execs' = DOMAIN execs
  BY <1>1, <1>4
<1>6. \A i \in DOMAIN execs : execs'[i].start = execs[i].start /\ execs'[i].id = execs[i].id
  BY <1>1, <1>2, <1>3, <1>4
<1>7. StatsTypes'
  BY <1>1, <1>5, <1>6 DEF StatsTypes, NoRunTwice
<1>8. ASSUME NEW q, ReaderFits(q) PROVE ReaderFits(q)'
  <2>1. StatsTypes /\ clock <= clock'
    BY <1>1 DEF StatsInv
  <2>2. /\ DOMAIN execs \subseteq DOMAIN execs'
        /\ \A i \in DOMAIN execs' : i \in DOMAIN execs \/ execs'[i].start >= clock
    BY <1>5
  <2> QED BY <1>6, <1>7, <1>8, <2>1, <2>2, FitsGrow
<1>9. PICK q : q = reader
  OBVIOUS
<1>10. q.stage # "none" => ReaderFits(q)'
  BY <1>8, <1>9 DEF StatsInv
<1> QED BY <1>1, <1>7, <1>9, <1>10 DEF StatsInv

LEMMA ClockTicksKeeps == ASSUME StatsInv, ClockTicks \/ UNCHANGED statsVars PROVE StatsInv'
<1>1. /\ begun' = begun /\ execs' = execs /\ reader' = reader /\ (clock' = clock \/ clock' = clock + 1)
  BY DEF ClockTicks, statsVars
<1>2. StatsTypes
  BY DEF StatsInv
<1>3. clock \in Nat /\ clock' \in Nat /\ clock <= clock'
  BY <1>1, <1>2 DEF StatsTypes
<1>4. \A i \in DOMAIN execs : execs[i].start \in Nat /\ execs[i].start <= clock /\ execs[i].id <= begun
  <2> TAKE i \in DOMAIN execs
  <2>1. execs[i] \in RunRecords
    BY <1>2 DEF StatsTypes
  <2> QED BY <1>2, <2>1 DEF StatsTypes, RunRecords
<1>5. \A i \in DOMAIN execs : execs[i].start <= clock'
  BY <1>3, <1>4
<1>6. StatsTypes'
  BY <1>1, <1>2, <1>3, <1>5 DEF StatsTypes
<1>7. ASSUME NEW q, ReaderFits(q) PROVE ReaderFits(q)'
  <2>1. /\ DOMAIN execs \subseteq DOMAIN execs'
        /\ \A i \in DOMAIN execs : execs'[i].start = execs[i].start /\ execs'[i].id = execs[i].id
        /\ \A i \in DOMAIN execs' : i \in DOMAIN execs \/ execs'[i].start >= clock
    BY <1>1
  <2> QED BY <1>2, <1>3, <1>6, <1>7, <2>1, FitsGrow
<1>8. PICK q : q = reader
  OBVIOUS
<1>9. q.stage # "none" => ReaderFits(q)'
  BY <1>7, <1>8 DEF StatsInv
<1> QED BY <1>1, <1>6, <1>8, <1>9 DEF StatsInv

LEMMA RemovesKeeps ==
  ASSUME StatsInv, NEW dead \in SUBSET Nat, dead # {}, Removes(dead)
  PROVE  StatsInv'
<1> DEFINE I == {i \in DOMAIN execs : execs[i].id \notin dead}
<1>1. /\ begun' = begun /\ clock' = clock /\ clock \in Nat /\ begun \in Nat
      /\ execs \in Seq(RunRecords) /\ NoRunTwice(execs)
      /\ \A i \in DOMAIN execs : execs[i].id <= begun /\ execs[i].start <= clock
      /\ execs' = Picked(execs, I)
      /\ reader' = IF reader.stage = "reading" THEN [reader EXCEPT !.lost = @ \cup dead] ELSE reader
  BY DEF StatsInv, StatsTypes, Removes
<1>2. I \in SUBSET DOMAIN execs
  OBVIOUS
<1> HIDE DEF I
<1>3. PICK t : t = execs'
  OBVIOUS
<1>4. t \in Seq(RunRecords) /\ NoRunTwice(t) /\ \A k \in DOMAIN t : \E i \in I : t[k] = execs[i]
  BY <1>1, <1>2, <1>3, PickedApart DEF KeptOf
<1>5. \A k \in DOMAIN execs' : \E i \in DOMAIN execs : execs'[k] = execs[i]
  BY <1>2, <1>3, <1>4
<1>6. StatsTypes'
  BY <1>1, <1>3, <1>4, <1>5 DEF StatsTypes
<1>7. ASSUME NEW p, p = reader', p.stage # "none" PROVE ReaderFits(p)'
  <2>0. PICK q : q = reader
    OBVIOUS
  <2>2. q.stage # "none"
    <3>1. CASE q.stage = "reading"
      BY <3>1
    <3>2. CASE q.stage # "reading"
      BY <1>1, <1>7, <2>0, <3>2
    <3> QED BY <3>1, <3>2
  <2>1. ReaderFits(q) /\ q \in ReaderType
    BY <2>0, <2>2 DEF StatsInv, ReaderFits
  <2>3. CASE q.stage = "reading"
    <3>1. p = [q EXCEPT !.lost = q.lost \cup dead]
      BY <1>1, <1>7, <2>0, <2>3
    <3>2. q.lost \cup dead \in SUBSET Nat /\ q.lost \cup dead # {}
      BY <2>1 DEF ReaderType
    <3>3. p \in ReaderType /\ p.lost = q.lost \cup dead /\ p.stage = "reading"
      BY <2>1, <2>3, <3>1, <3>2 DEF ReaderType
    <3>4. StatsTypes
      BY DEF StatsInv
    <3>5. p.stage = "reading" => p.lost # {}
      BY <3>2, <3>3
    <3>6. p.stage = "answered" => p = q
      BY <3>3
    <3>7. \E d : p = [q EXCEPT !.lost = d]
      BY <3>1
    <3> QED BY <1>1, <1>5, <2>1, <3>3, <3>4, <3>5, <3>6, <3>7, FitsCut
  <2>4. CASE q.stage = "answered"
    <3>1. p = q
      BY <1>1, <1>7, <2>0, <2>4
    <3>2. StatsTypes
      BY DEF StatsInv
    <3>3. p \in ReaderType /\ p.stage # "reading"
      BY <2>1, <2>4, <3>1
    <3> QED BY <1>1, <1>5, <2>1, <3>1, <3>2, <3>3, FitsCut
  <2> QED BY <2>1, <2>3, <2>4 DEF ReaderType
<1> QED BY <1>6, <1>7 DEF StatsInv

LEMMA AskStatsKeeps ==
  ASSUME StatsInv, JobStatsAssumption, NEW from \in Nat, NEW to \in Nat, NEW cols \in ColumnCounts, AskStats(from, to, cols)
  PROVE  StatsInv'
<1> DEFINE K == {execs[i].id : i \in {j \in DOMAIN execs : from <= execs[j].start /\ execs[j].start < to}}
<1>1. /\ begun' = begun /\ clock' = clock /\ execs' = execs /\ from < to /\ to <= clock
      /\ reader' = [stage |-> "reading", since |-> from, until |-> to, columns |-> cols,
                    offset |-> 0, seen |-> {}, runs |-> << >>, lost |-> {}, kept |-> K]
  BY DEF AskStats
<1>2. StatsTypes /\ clock \in Nat
  BY DEF StatsInv, StatsTypes
<1>3. StatsTypes'
  BY <1>1, <1>2 DEF StatsTypes
<1>4. K \in SUBSET Nat
  <2>1. ASSUME NEW i \in DOMAIN execs PROVE execs[i].id \in Nat
    <3>1. execs[i] \in RunRecords
      BY <1>2 DEF StatsTypes
    <3> QED BY <3>1 DEF RunRecords
  <2> QED BY <2>1
<1>5. PICK q : q = reader'
  OBVIOUS
<1>6. /\ q.since = from /\ q.until = to /\ q.stage = "reading" /\ q.offset = 0 /\ q.runs = << >>
      /\ q.seen = {} /\ q.kept = K
  BY <1>1, <1>5
<1>7. q \in ReaderType
  <2>1. cols \in Nat \ {0} /\ << >> \in Seq(RunRecords) /\ {} \in SUBSET Nat /\ 0 \in Nat
    BY DEF JobStatsAssumption
  <2> QED BY <1>1, <1>2, <1>4, <1>5, <2>1 DEF ReaderType
<1>8. IdsOf(q.runs) = {} /\ NoRunTwice(q.runs)
  BY <1>6 DEF IdsOf, NoRunTwice
<1>9. ASSUME NEW i \in DOMAIN execs, InRange(q, execs[i].start) PROVE execs[i].id \in q.kept
  BY <1>6, <1>9 DEF InRange
<1>10. ASSUME NEW e \in K
       PROVE  \E i \in Recent(from) : execs[i].id = e /\ InRange(q, execs[i].start) /\ Rank(i, from) > 0
  <2>1. PICK i \in DOMAIN execs : e = execs[i].id /\ from <= execs[i].start /\ execs[i].start < to
    OBVIOUS
  <2>2. execs[i].start \in Nat
    <3>1. execs[i] \in RunRecords
      BY <1>2 DEF StatsTypes
    <3> QED BY <3>1 DEF RunRecords
  <2>3. i \in Recent(from)
    BY <2>1, <2>2 DEF Recent
  <2>4. PICK n \in Nat : Rank(i, from) \in 1..n
    BY <1>2, <2>3, FoundFacts
  <2>5. Rank(i, from) > 0
    BY <2>4
  <2> QED BY <1>6, <2>1, <2>3, <2>5 DEF InRange
<1> HIDE DEF K
<1>11. ReaderFits(q)
  BY <1>1, <1>2, <1>6, <1>7, <1>8, <1>9, <1>10 DEF ReaderFits
<1>12. ReaderFits(q)'
  <2>1. /\ Recent(q.since)' = Recent(q.since)
        /\ \A i : Rank(i, q.since)' = Rank(i, q.since)
    BY <1>1 DEF Recent, Rank, IsBefore
  <2> QED BY <1>1, <1>11, <2>1 DEF ReaderFits
<1> QED BY <1>3, <1>5, <1>12 DEF StatsInv
\* What the reader takes of a page: its runs of the range that it has not seen.
TakenFrom(taken, items, q) ==
  \A k \in DOMAIN taken : \E j \in DOMAIN items :
     taken[k] = items[j] /\ items[j].id \notin q.seen /\ InRange(q, items[j].start)

LEMMA TakenFacts ==
  ASSUME StatsTypes, NEW q, q = reader, q \in ReaderType,
         NEW items \in Seq(RunRecords), NoRunTwice(items),
         NEW unseen, unseen = Unseen(items),
         NEW taken, taken = Picked(unseen, {k \in DOMAIN unseen : InRange(q, unseen[k].start)})
  PROVE  /\ taken \in Seq(RunRecords) /\ NoRunTwice(taken)
         /\ TakenFrom(taken, items, q)
         /\ \A j \in DOMAIN items : items[j].id \notin q.seen /\ InRange(q, items[j].start)
               => items[j].id \in IdsOf(taken)
<1> DEFINE I == {k \in DOMAIN items : items[k].id \notin q.seen}
           J == {k \in DOMAIN unseen : InRange(q, unseen[k].start)}
<1>1. I \in SUBSET DOMAIN items /\ unseen = Picked(items, I)
  BY DEF Unseen
<1> HIDE DEF I
<1>2. /\ unseen \in Seq(RunRecords) /\ NoRunTwice(unseen)
      /\ \A k \in DOMAIN unseen : \E i \in I : unseen[k] = items[i]
      /\ \A i \in I : \E k \in DOMAIN unseen : unseen[k] = items[i]
  BY <1>1, PickedApart DEF KeptOf
<1>3. J \in SUBSET DOMAIN unseen /\ taken = Picked(unseen, J)
  OBVIOUS
<1> HIDE DEF J
<1>4. /\ taken \in Seq(RunRecords) /\ NoRunTwice(taken)
      /\ \A k \in DOMAIN taken : \E i \in J : taken[k] = unseen[i]
      /\ \A i \in J : \E k \in DOMAIN taken : taken[k] = unseen[i]
  <2>1. unseen \in Seq(RunRecords) /\ NoRunTwice(unseen)
    BY <1>2
  <2>2. taken \in Seq(RunRecords) /\ NoRunTwice(taken)
    BY <1>3, <2>1, PickedApart
  <2>3. KeptOf(taken, unseen, J)
    BY <1>3, <2>1, PickedApart
  <2> QED BY <2>2, <2>3 DEF KeptOf
<1>5. ASSUME NEW k \in DOMAIN taken
      PROVE  \E j \in DOMAIN items : taken[k] = items[j] /\ items[j].id \notin q.seen /\ InRange(q, items[j].start)
  <2>1. PICK i \in J : taken[k] = unseen[i]
    BY <1>4
  <2>2. i \in DOMAIN unseen /\ InRange(q, unseen[i].start)
    BY DEF J
  <2>3. PICK j \in I : unseen[i] = items[j]
    BY <1>2, <2>2
  <2>4. j \in DOMAIN items /\ items[j].id \notin q.seen
    BY DEF I
  <2> QED BY <2>1, <2>2, <2>3, <2>4
<1>6. ASSUME NEW j \in DOMAIN items, items[j].id \notin q.seen, InRange(q, items[j].start)
      PROVE  items[j].id \in IdsOf(taken)
  <2>1. j \in I
    BY <1>6 DEF I
  <2>2. PICK i \in DOMAIN unseen : unseen[i] = items[j]
    BY <1>2, <2>1
  <2>3. i \in J
    BY <1>6, <2>2 DEF J
  <2>4. PICK k \in DOMAIN taken : taken[k] = unseen[i]
    BY <1>4, <2>3
  <2> QED BY <2>2, <2>4 DEF IdsOf
<1>7. TakenFrom(taken, items, q)
  BY <1>5 DEF TakenFrom
<1> QED BY <1>4, <1>6, <1>7

LEMMA ReadPageKeeps == ASSUME StatsInv, JobStatsAssumption, ReadPage PROVE StatsInv'
<1>1. /\ reader.stage = "reading" /\ execs' = execs /\ begun' = begun /\ clock' = clock
  BY DEF ReadPage
<1>2. PICK q : q = reader
  OBVIOUS
<1>3. StatsTypes /\ ReaderFits(q) /\ q \in ReaderType /\ q.stage = "reading" /\ q.since \in Nat /\ q.offset \in Nat
  BY <1>1, <1>2 DEF StatsInv, ReaderFits, ReaderType
<1>4. PICK got : got = QueryPage(q.since, q.offset)
  OBVIOUS
<1>5. PICK items : items = got.items
  OBVIOUS
<1>6. PICK m : m = Len(items)
  OBVIOUS
<1>7. /\ items \in Seq(RunRecords) /\ m \in Nat /\ NoRunTwice(items)
      /\ \A k \in 1..m : \E i \in Recent(q.since) : Rank(i, q.since) = q.offset + k /\ items[k] = execs[i]
      /\ \A i \in Recent(q.since) : Rank(i, q.since) \in Nat
      /\ \A i \in Recent(q.since) : q.offset < Rank(i, q.since) /\ Rank(i, q.since) <= q.offset + m
            => \E k \in 1..m : items[k] = execs[i]
      /\ items = << >> \/ q.offset + m >= got.total
            => \A i \in Recent(q.since) : Rank(i, q.since) <= q.offset + m
  <2>0. PICK since : since = q.since
    OBVIOUS
  <2>1. PICK offset \in Nat : offset = q.offset
    BY <1>3
  <2>2. StatsTypes /\ got = QueryPage(since, offset) /\ m = Len(got.items)
    BY <1>3, <1>4, <1>5, <1>6, <2>0, <2>1
  <2>3. got.items \in Seq(RunRecords) /\ m \in Nat /\ NoRunTwice(got.items)
    BY <2>2, StatsPageFacts
  <2>4. OnPage(got.items, m, since, offset)
    BY <2>2, StatsPageFacts
  <2>5. \A i \in Recent(since) : Rank(i, since) \in Nat
    BY <2>2, StatsPageFacts
  <2>6. \A i \in Recent(since) : offset < Rank(i, since) /\ Rank(i, since) <= offset + m
          => \E k \in 1..m : got.items[k] = execs[i]
    BY <2>2, StatsPageFacts
  <2>7. got.items = << >> \/ offset + m >= got.total
          => \A i \in Recent(since) : Rank(i, since) <= offset + m
    BY <2>2, StatsPageFacts
  <2> QED BY <1>5, <2>0, <2>1, <2>3, <2>4, <2>5, <2>6, <2>7 DEF OnPage
<1>8. PICK unseen : unseen = Unseen(items)
  OBVIOUS
<1>9. PICK taken : taken = Picked(unseen, {k \in DOMAIN unseen : InRange(q, unseen[k].start)})
  OBVIOUS
<1>10. /\ taken \in Seq(RunRecords) /\ NoRunTwice(taken)
       /\ \A k \in DOMAIN taken : \E j \in DOMAIN items :
             taken[k] = items[j] /\ items[j].id \notin q.seen /\ InRange(q, items[j].start)
       /\ \A j \in DOMAIN items : items[j].id \notin q.seen /\ InRange(q, items[j].start)
             => items[j].id \in IdsOf(taken)
  <2>0. StatsTypes /\ q = reader /\ q \in ReaderType /\ items \in Seq(RunRecords) /\ NoRunTwice(items)
    BY <1>2, <1>3, <1>7
  <2>1. taken \in Seq(RunRecords) /\ NoRunTwice(taken)
    BY <1>8, <1>9, <2>0, TakenFacts
  <2>2. TakenFrom(taken, items, q)
    BY <1>8, <1>9, <2>0, TakenFacts
  <2>3. \A j \in DOMAIN items : items[j].id \notin q.seen /\ InRange(q, items[j].start)
             => items[j].id \in IdsOf(taken)
    BY <1>8, <1>9, <2>0, TakenFacts
  <2> QED BY <2>1, <2>2, <2>3 DEF TakenFrom
<1>11. PICK p : p = reader'
  OBVIOUS
<1>12. PICK st \in {"reading", "answered"} :
         st = IF items = << >> \/ q.offset + m >= got.total THEN "answered" ELSE "reading"
  OBVIOUS
<1>13. p = [q EXCEPT !.offset = q.offset + m, !.seen = q.seen \cup IdsOf(items), !.runs = q.runs \o taken, !.stage = st]
  BY <1>2, <1>4, <1>5, <1>6, <1>8, <1>9, <1>11, <1>12 DEF ReadPage
<1>14. \A k \in DOMAIN items : \E i \in DOMAIN execs : items[k] = execs[i] /\ items[k].id \in Nat
  <2> TAKE k \in DOMAIN items
  <2>1. k \in 1..m
    BY <1>6, <1>7
  <2>2. PICK i \in Recent(q.since) : items[k] = execs[i]
    BY <1>7, <2>1
  <2>3. i \in DOMAIN execs /\ execs[i] \in RunRecords
    BY <1>3 DEF Recent, StatsTypes
  <2> QED BY <2>2, <2>3 DEF RunRecords
<1>15. IdsOf(items) \in SUBSET Nat
  BY <1>14 DEF IdsOf
<1>16. IdsOf(taken) \subseteq IdsOf(items) /\ IdsOf(taken) \cap q.seen = {}
  BY <1>10 DEF IdsOf
<1>17. /\ q.runs \in Seq(RunRecords) /\ NoRunTwice(q.runs) /\ IdsOf(q.runs) \subseteq q.seen /\ IdsOf(q.runs) \subseteq q.kept
       /\ \A k \in DOMAIN q.runs : InRange(q, q.runs[k].start)
       /\ q.seen \in SUBSET Nat
  BY <1>3 DEF ReaderFits, ReaderType
<1>18. PICK all : all = q.runs \o taken
  OBVIOUS
<1>19. /\ all \in Seq(RunRecords) /\ NoRunTwice(all) /\ IdsOf(all) = IdsOf(q.runs) \cup IdsOf(taken)
       /\ \A k \in DOMAIN all : (\E i \in DOMAIN q.runs : all[k] = q.runs[i]) \/ (\E i \in DOMAIN taken : all[k] = taken[i])
  <2>1. IdsOf(q.runs) \cap IdsOf(taken) = {}
    BY <1>16, <1>17
  <2>2. NoRunTwice(taken) /\ taken \in Seq(RunRecords) /\ NoRunTwice(q.runs) /\ q.runs \in Seq(RunRecords)
    BY <1>10, <1>17
  <2>3. PICK runs : runs = q.runs
    OBVIOUS
  <2>4. runs \in Seq(RunRecords) /\ NoRunTwice(runs) /\ IdsOf(runs) \cap IdsOf(taken) = {}
    BY <2>1, <2>2, <2>3
  <2>5. all = runs \o taken
    BY <1>18, <2>3
  <2>6. all \in Seq(RunRecords) /\ NoRunTwice(all) /\ IdsOf(all) = IdsOf(runs) \cup IdsOf(taken)
    BY <2>2, <2>4, <2>5, ConcatApart
  <2>7. MadeOf(all, runs, taken)
    BY <2>2, <2>4, <2>5, ConcatApart
  <2> QED BY <2>3, <2>6, <2>7 DEF MadeOf
<1>20. /\ p.stage = st /\ p.since = q.since /\ p.until = q.until /\ p.columns = q.columns /\ p.offset = q.offset + m
       /\ p.seen = q.seen \cup IdsOf(items) /\ p.runs = all /\ p.lost = q.lost /\ p.kept = q.kept
       /\ p \in ReaderType
  <2>1. q.offset + m \in Nat /\ q.seen \cup IdsOf(items) \in SUBSET Nat
    BY <1>3, <1>7, <1>15, <1>17
  <2>2. p = [q EXCEPT !.offset = q.offset + m, !.seen = q.seen \cup IdsOf(items), !.runs = all, !.stage = st]
    BY <1>13, <1>18
  <2> QED BY <1>3, <1>12, <1>19, <2>1, <2>2 DEF ReaderType
<1>21. \A time : InRange(p, time) <=> InRange(q, time)
  BY <1>20 DEF InRange
<1>22. IdsOf(taken) \subseteq q.kept
  <2> SUFFICES ASSUME NEW k \in DOMAIN taken PROVE taken[k].id \in q.kept
    BY DEF IdsOf
  <2>1. PICK j \in DOMAIN items : taken[k] = items[j] /\ InRange(q, items[j].start)
    BY <1>10
  <2>2. PICK i \in DOMAIN execs : items[j] = execs[i]
    BY <1>14
  <2> QED BY <1>3, <2>1, <2>2 DEF ReaderFits
<1>23. IdsOf(p.runs) \subseteq p.seen /\ IdsOf(p.runs) \subseteq p.kept /\ NoRunTwice(p.runs)
  BY <1>16, <1>17, <1>19, <1>20, <1>22
<1>24. \A k \in DOMAIN p.runs : InRange(p, p.runs[k].start)
  BY <1>10, <1>17, <1>19, <1>20, <1>21
<1>25. ASSUME NEW i \in DOMAIN execs, InRange(q, execs[i].start), execs[i].id \in q.seen \cup IdsOf(items)
       PROVE  execs[i].id \in IdsOf(all)
  <2>1. CASE execs[i].id \in q.seen
    <3>1. execs[i].id \in IdsOf(q.runs)
      BY <1>3, <1>25, <2>1 DEF ReaderFits
    <3> QED BY <1>19, <3>1
  <2>2. CASE execs[i].id \notin q.seen
    <3>1. PICK j \in DOMAIN items : items[j].id = execs[i].id
      BY <1>25, <2>2 DEF IdsOf
    <3>2. PICK h \in DOMAIN execs : items[j] = execs[h]
      BY <1>14
    <3>3. h = i
      BY <1>3, <3>1, <3>2 DEF StatsTypes, NoRunTwice
    <3>4. items[j].id \in IdsOf(taken)
      BY <1>10, <1>25, <2>2, <3>1, <3>2, <3>3
    <3> QED BY <1>19, <3>1, <3>4
  <2> QED BY <2>1, <2>2
<1>26. \A i \in DOMAIN execs : InRange(p, execs[i].start) =>
         /\ execs[i].id \in p.kept
         /\ execs[i].id \in p.seen => execs[i].id \in IdsOf(p.runs)
  <2>1. \A i \in DOMAIN execs : InRange(q, execs[i].start) => execs[i].id \in q.kept
    BY <1>3 DEF ReaderFits
  <2> QED BY <1>20, <1>21, <1>25, <2>1
<1>27. ASSUME p.lost = {}, NEW e \in p.kept, e \notin IdsOf(p.runs)
       PROVE  /\ p.stage = "reading"
              /\ \E i \in Recent(p.since) : execs[i].id = e /\ InRange(p, execs[i].start) /\ Rank(i, p.since) > p.offset
  <2>1. e \notin IdsOf(q.runs) /\ q.lost = {} /\ e \in q.kept
    BY <1>19, <1>20, <1>27
  <2>2. PICK i \in Recent(q.since) : execs[i].id = e /\ InRange(q, execs[i].start) /\ Rank(i, q.since) > q.offset
    BY <1>3, <2>1 DEF ReaderFits
  <2>3. i \in DOMAIN execs
    BY DEF Recent
  <2>4. PICK r \in Nat : r = Rank(i, q.since) /\ r > q.offset
    BY <1>7, <2>2
  <2>5. ~(r <= q.offset + m)
    <3> SUFFICES ASSUME r <= q.offset + m PROVE FALSE
      OBVIOUS
    <3>1. q.offset < r
      BY <1>3, <2>4
    <3>2. PICK k \in 1..m : items[k] = execs[i]
      BY <1>7, <2>4, <3>1
    <3>3. k \in DOMAIN items
      BY <1>6, <1>7
    <3>4. execs[i].id \in IdsOf(items)
      BY <3>2, <3>3 DEF IdsOf
    <3>5. execs[i].id \in IdsOf(all)
      BY <1>25, <2>2, <2>3, <3>4
    <3> QED BY <1>20, <1>27, <2>2, <3>5
  <2>6. ~(items = << >> \/ q.offset + m >= got.total)
    BY <1>7, <2>4, <2>5
  <2>7. p.stage = "reading"
    BY <1>12, <1>20, <2>6
  <2>8. r > q.offset + m
    BY <1>3, <1>7, <2>4, <2>5
  <2>9. Rank(i, p.since) > p.offset /\ i \in Recent(p.since)
    BY <1>20, <2>4, <2>8
  <2> QED BY <1>21, <2>2, <2>7, <2>9
<1>28. p.since < p.until /\ p.until <= clock
  BY <1>3, <1>20 DEF ReaderFits
<1>29. ReaderFits(p)
  BY <1>20, <1>23, <1>24, <1>26, <1>27, <1>28 DEF ReaderFits
<1>30. ReaderFits(p)'
  BY <1>1, <1>29 DEF ReaderFits, Recent, Rank, IsBefore
<1>31. StatsTypes'
  BY <1>1, <1>3 DEF StatsTypes
<1> QED BY <1>11, <1>30, <1>31 DEF StatsInv

LEMMA StatsInvInit == StatsInit => StatsInv
<1> SUFFICES ASSUME StatsInit PROVE StatsInv
  OBVIOUS
<1>1. execs = << >> /\ begun = 0 /\ clock = 0 /\ reader.stage = "none"
  BY DEF StatsInit
<1>2. execs \in Seq(RunRecords) /\ DOMAIN execs = {}
  BY <1>1
<1> QED BY <1>1, <1>2 DEF StatsInv, StatsTypes, NoRunTwice

LEMMA StatsInvStep == StatsInv /\ [StatsNext]_statsVars => StatsInv'
<1> SUFFICES ASSUME StatsInv, [StatsNext]_statsVars PROVE StatsInv'
  OBVIOUS
<1> USE JobStatsAssumption
<1>1. CASE RunStarts
  BY <1>1, RunStartsKeeps
<1>2. CASE ReadPage
  BY <1>2, ReadPageKeeps
<1>3. CASE ClockTicks \/ UNCHANGED statsVars
  BY <1>3, ClockTicksKeeps
<1>4. ASSUME NEW i \in DOMAIN execs PROVE execs[i].id \in Nat
  <2>1. execs[i] \in RunRecords
    BY DEF StatsInv, StatsTypes
  <2> QED BY <2>1 DEF RunRecords
<1>5. ASSUME NEW i \in DOMAIN execs, DeleteRun(i) PROVE StatsInv'
  <2>1. {execs[i].id} \in SUBSET Nat /\ {execs[i].id} # {}
    BY <1>4
  <2> QED BY <1>5, <2>1, RemovesKeeps DEF DeleteRun
<1>6. ASSUME NEW i \in DOMAIN execs, NEW s \in {"completed", "timed_out"}, RunStops(i, s) PROVE StatsInv'
  BY <1>6, RunStopsKeeps
<1>7. ASSUME NEW t \in 0..MaxClock, PruneRuns(t) PROVE StatsInv'
  <2>1. PICK old : old = {execs[i].id : i \in {j \in DOMAIN execs : execs[j].start < t}}
    OBVIOUS
  <2>2. old # {} /\ Removes(old)
    BY <1>7, <2>1 DEF PruneRuns
  <2>3. old \in SUBSET Nat
    BY <1>4, <2>1
  <2> QED BY <2>2, <2>3, RemovesKeeps
<1>8. ASSUME NEW t \in 0..MaxClock, NEW u \in 0..MaxClock, NEW c \in ColumnCounts, AskStats(t, u, c) PROVE StatsInv'
  <2>1. t \in Nat /\ u \in Nat
    BY DEF JobStatsAssumption
  <2> QED BY <1>8, <2>1, AskStatsKeeps
<1> QED BY <1>1, <1>2, <1>3, <1>5, <1>6, <1>7, <1>8 DEF StatsNext

----------------------------------------------------------------------------
(* The columns *)

LEMMA Quotients ==
  ASSUME NEW x \in Nat, NEW w \in Nat, w # 0, NEW d, d = x \div w
  PROVE  d \in Nat /\ d * w <= x /\ x < (d + 1) * w
<1>1. d \in Nat /\ d * w <= x
  OBVIOUS
<1>2. x < (d + 1) * w
  OBVIOUS
<1> QED BY <1>1, <1>2

LEMMA ProductsGrow == ASSUME NEW i \in Nat, NEW j \in Nat, NEW w \in Nat, i <= j PROVE i * w <= j * w /\ i * w \in Nat /\ j * w \in Nat
<1>1. i * w <= j * w
  OBVIOUS
<1>2. i * w \in Nat /\ j * w \in Nat
  OBVIOUS
<1> QED BY <1>1, <1>2

\* A run is counted in the column its start falls into, and in no other.
LEMMA ColumnsAreExact ==
  ASSUME NEW q \in ReaderType, q.since < q.until, NEW time \in Nat, InRange(q, time),
         NEW i \in 0..(q.columns - 1)
  PROVE  BucketIndex(q, time) = i <=> Within(q, i, time)
<1>1. /\ q.since \in Nat /\ q.until \in Nat /\ q.columns \in Nat /\ q.columns # 0 /\ i \in Nat /\ i <= q.columns - 1
      /\ q.since <= time
  BY DEF ReaderType, InRange
<1>2. PICK w \in Nat : w = ColumnWidth(q) /\ w # 0
  <2>1. PICK span \in Nat : span = q.until - q.since
    BY <1>1
  <2>2. PICK c \in Nat : c = q.columns /\ c # 0
    BY <1>1
  <2>3. span \div c \in Nat
    BY <2>2, Quotients
  <2> QED BY <2>1, <2>2, <2>3 DEF ColumnWidth
<1>3. PICK x \in Nat : x = time - q.since
  BY <1>1
<1>4. PICK d : d = x \div w
  OBVIOUS
<1>5. d \in Nat /\ d * w <= x /\ x < (d + 1) * w
  BY <1>2, <1>4, Quotients
<1>6. PICK last \in Nat : last = q.columns - 1 /\ i <= last
  BY <1>1
<1>7. BucketIndex(q, time) = IF d <= last THEN d ELSE last
  <2>1. BucketIndex(q, time) = IF d < q.columns THEN d ELSE q.columns - 1
    BY <1>2, <1>3, <1>4 DEF BucketIndex
  <2>2. d < q.columns <=> d <= last
    BY <1>1, <1>5, <1>6
  <2> QED BY <1>6, <2>1, <2>2
<1>8. PICK iw \in Nat, jw \in Nat, dw \in Nat, ew \in Nat : iw = i * w /\ jw = (i + 1) * w /\ dw = d * w /\ ew = (d + 1) * w
  <2>1. i + 1 \in Nat /\ d + 1 \in Nat /\ i <= i + 1 /\ d <= d + 1
    BY <1>1, <1>5
  <2>2. i * w \in Nat /\ (i + 1) * w \in Nat
    BY <1>1, <2>1, ProductsGrow
  <2>3. d * w \in Nat /\ (d + 1) * w \in Nat
    BY <1>5, <2>1, ProductsGrow
  <2> QED BY <2>2, <2>3
<1>9. dw <= x /\ x < ew
  BY <1>5, <1>8
<1>10. Within(q, i, time) <=> iw <= x /\ (i < last => x < jw)
  <2>1. Within(q, i, time) <=> q.since + iw <= time /\ (i < last => time < q.since + jw)
    BY <1>2, <1>6, <1>8 DEF Within
  <2>2. q.since + iw <= time <=> iw <= x
    BY <1>1, <1>3
  <2>3. time < q.since + jw <=> x < jw
    BY <1>1, <1>3
  <2> QED BY <2>1, <2>2, <2>3
<1>11. d < i => ew <= iw
  <2>1. d < i => d + 1 <= i /\ d + 1 \in Nat
    BY <1>1, <1>5
  <2> QED BY <1>1, <1>8, <2>1, ProductsGrow
<1>12. i < d => jw <= dw
  <2>1. i < d => i + 1 <= d /\ i + 1 \in Nat
    BY <1>1, <1>5
  <2> QED BY <1>5, <1>8, <2>1, ProductsGrow
<1>13. i <= d => iw <= dw
  BY <1>1, <1>5, <1>8, ProductsGrow
<1>14. i = d => iw = dw /\ jw = ew
  BY <1>8
<1>15. CASE d < i
  <2>1. ~(iw <= x)
    BY <1>9, <1>11, <1>15
  <2>2. BucketIndex(q, time) = d /\ d # i
    BY <1>1, <1>5, <1>6, <1>7, <1>15
  <2> QED BY <1>10, <2>1, <2>2
<1>16. CASE d = i
  <2>1. iw <= x /\ x < jw
    BY <1>9, <1>14, <1>16
  <2>2. BucketIndex(q, time) = i
    BY <1>6, <1>7, <1>16
  <2> QED BY <1>10, <2>1, <2>2
<1>17. CASE i < d
  <2>1. iw <= x /\ ~(x < jw)
    BY <1>9, <1>12, <1>13, <1>17, <1>1, <1>5
  <2>2. i < last => BucketIndex(q, time) # i
    BY <1>1, <1>5, <1>6, <1>7, <1>17
  <2>3. i = last => BucketIndex(q, time) = i
    BY <1>1, <1>5, <1>6, <1>7, <1>17
  <2> QED BY <1>1, <1>6, <1>10, <2>1, <2>2, <2>3
<1> QED BY <1>1, <1>5, <1>15, <1>16, <1>17

LEMMA AnswersAreExact == StatsInv => StatsExact
<1> SUFFICES ASSUME StatsInv, reader.stage = "answered" PROVE
    /\ Cardinality(IdsOf(reader.runs)) = Len(reader.runs) /\ IdsOf(reader.runs) \subseteq reader.kept
    /\ reader.lost = {} => reader.kept \subseteq IdsOf(reader.runs)
    /\ \A i \in 0 .. reader.columns - 1, o \in Outcomes :
         Column(reader, i, o) =
           Cardinality({k \in DOMAIN reader.runs : Within(reader, i, reader.runs[k].start) /\ Outcome(reader.runs[k].status) = o})
  BY DEF StatsExact
<1>1. PICK q : q = reader
  OBVIOUS
<1>2. ReaderFits(q) /\ q \in ReaderType /\ q.runs \in Seq(RunRecords) /\ q.since < q.until
  BY <1>1 DEF StatsInv, ReaderFits, ReaderType
<1>3. Cardinality(IdsOf(q.runs)) = Len(q.runs) /\ IdsOf(q.runs) \subseteq q.kept
  BY <1>2, ApartCounts DEF ReaderFits
<1>4. q.lost = {} => q.kept \subseteq IdsOf(q.runs)
  BY <1>1, <1>2 DEF ReaderFits
<1>5. ASSUME NEW i \in 0..(q.columns - 1), NEW o \in Outcomes
      PROVE  Column(q, i, o) =
               Cardinality({k \in DOMAIN q.runs : Within(q, i, q.runs[k].start) /\ Outcome(q.runs[k].status) = o})
  <2>1. ASSUME NEW k \in DOMAIN q.runs PROVE BucketIndex(q, q.runs[k].start) = i <=> Within(q, i, q.runs[k].start)
    <3>1. q.runs[k] \in RunRecords
      BY <1>2
    <3>2. q.runs[k].start \in Nat
      BY <3>1 DEF RunRecords
    <3>3. InRange(q, q.runs[k].start)
      BY <1>2 DEF ReaderFits
    <3> QED BY <1>2, <3>2, <3>3, ColumnsAreExact
  <2>2. {k \in DOMAIN q.runs : BucketIndex(q, q.runs[k].start) = i /\ Outcome(q.runs[k].status) = o}
        = {k \in DOMAIN q.runs : Within(q, i, q.runs[k].start) /\ Outcome(q.runs[k].status) = o}
    BY <2>1
  <2> QED BY <2>2 DEF Column
<1> QED BY <1>1, <1>3, <1>4, <1>5

\* Whatever runs start, end and are removed while the pages are read, the
\* statistics count no run twice, none that is not of the range, all that were
\* there if none was removed, and each in the column of its start.
THEOREM StatisticsAreExact == StatsSpec => []StatsExact
<1>1. StatsInit => StatsInv
  BY StatsInvInit
<1>2. StatsInv /\ [StatsNext]_statsVars => StatsInv'
  BY StatsInvStep
<1>3. StatsInv => StatsExact
  BY AnswersAreExact
<1> QED BY <1>1, <1>2, <1>3, PTL DEF StatsSpec
----------------------------------------------------------------------------
(* The clock of one arming. *)

ClockTypes ==
  /\ interval \in Intervals /\ interval \in Nat
  /\ now \in Nat /\ left \in Nat /\ due \in Nat
  /\ lastDue \in Nat /\ lastRun \in Nat /\ backs \in Nat

\* The occurrence that is armed is later than the one that ran.
OnceInv == ClockTypes /\ (Cron => due > lastDue)

\* The delays asked for are ones that Node's timers take: an occurrence that was
\* run early leaves one more period to wait for.
DelaysFit == Period + Early <= MaxDelay /\ \A i \in Intervals : i <= MaxDelay

\* On a clock that was not set back, the timer still waits for what is missing.
WaitInv ==
  backs = 0 =>
    /\ Cron => due <= now + left + Early
    /\ ~Cron /\ lastRun > 0 => lastRun + interval <= now + left + Early

\* The next occurrence is after the instant, by a period at the most.
LEMMA OccurrenceFacts ==
  ASSUME JobClockAssumption, NEW t \in Nat
  PROVE  OccurrenceAfter(t) \in Nat /\ OccurrenceAfter(t) > t /\ OccurrenceAfter(t) <= t + Period
<1> DEFINE p == Period
           q == t \div p
<1>1. p \in Nat /\ p > 0
  BY DEF JobClockAssumption
<1>2. q \in Nat /\ t % p \in Nat /\ t % p < p /\ t = p * q + (t % p)
  BY <1>1
<1>3. (q + 1) * p = p * q + p /\ p * q \in Nat
  BY <1>1, <1>2
<1>4. OccurrenceAfter(t) = (q + 1) * p
  BY DEF OccurrenceAfter
<1> HIDE DEF p, q
<1>5. p = Period
  BY DEF p
<1> QED BY <1>1, <1>2, <1>3, <1>4, <1>5

\* It is after the one that fired and after now, and not needlessly far.
LEMMA NextFacts ==
  ASSUME JobClockAssumption, NEW fired \in Nat, NEW t \in Nat
  PROVE  /\ NextCronOccurrence(fired, t) \in Nat
         /\ NextCronOccurrence(fired, t) > fired /\ NextCronOccurrence(fired, t) > t
         /\ fired <= t + Early => NextCronOccurrence(fired, t) <= t + Early + Period
<1>1. /\ OccurrenceAfter(fired) \in Nat /\ OccurrenceAfter(fired) > fired /\ OccurrenceAfter(fired) <= fired + Period
      /\ OccurrenceAfter(t) \in Nat /\ OccurrenceAfter(t) > t /\ OccurrenceAfter(t) <= t + Period
  BY OccurrenceFacts
<1>2. Early \in Nat /\ Period \in Nat
  BY DEF JobClockAssumption
<1>3. CASE OccurrenceAfter(fired) > t
  BY <1>1, <1>2, <1>3 DEF NextCronOccurrence
<1>4. CASE ~(OccurrenceAfter(fired) > t)
  BY <1>1, <1>2, <1>4 DEF NextCronOccurrence
<1> QED BY <1>3, <1>4

\* What a timer waits for a delay, and that it is not too early for one it takes.
LEMMA WaitFacts ==
  ASSUME JobClockAssumption, NEW d \in Nat
  PROVE  MayFireIn(Delay(d)) \in Nat /\ (d <= MaxDelay => d <= MayFireIn(Delay(d)) + Early)
BY DEF JobClockAssumption, Delay, MayFireIn

\* A bound on a wait that time leaves as it is, and one on a delay.
LEMMA WaitShifts ==
  ASSUME NEW d \in Nat, NEW n \in Nat, NEW l \in Nat, NEW m \in Nat, NEW k \in Nat, NEW e \in Nat,
         d <= n + l + e, m + k >= n + l
  PROVE  d <= m + k + e
OBVIOUS

LEMMA WithinDelay ==
  ASSUME NEW d \in Nat, NEW n \in Nat, NEW e \in Nat, NEW p \in Nat, NEW m \in Nat,
         d <= n + e + p, p + e <= m
  PROVE  d - n <= m
OBVIOUS

LEMMA ClockStarts == ASSUME JobClockAssumption, ClockInit PROVE OnceInv
<1>1. interval \in Nat /\ lastRun \in Nat /\ now \in Nat /\ Early \in Nat
  BY DEF JobClockAssumption, ClockInit
<1>2. due \in Nat /\ due >= now /\ (Cron => due > 0)
  <2>1. CASE Cron
    BY <1>1, <2>1, OccurrenceFacts DEF ClockInit
  <2>2. CASE ~Cron
    BY <1>1, <2>2 DEF ClockInit, IntervalDue
  <2> QED BY <2>1, <2>2
<1>3. left \in Nat
  <2>1. due - now \in Nat
    BY <1>1, <1>2
  <2> QED BY <2>1, WaitFacts DEF ClockInit
<1> QED BY <1>1, <1>2, <1>3 DEF ClockInit, OnceInv, ClockTypes

\* The instant that a firing timer arms next.
LEMMA NextDue ==
  ASSUME JobClockAssumption, OnceInv, ClockFires
  PROVE  /\ due' \in Nat /\ due' > now /\ (Cron => due' > due)
         /\ left' = MayFireIn(Delay(due' - now)) /\ due' - now \in Nat
         /\ Cron => due' = NextCronOccurrence(due, now)
         /\ ~Cron => due' = now + interval
<1>1. due \in Nat /\ now \in Nat /\ interval \in Nat
  BY DEF OnceInv, ClockTypes
<1>2. CASE Cron
  <2>1. due' = NextCronOccurrence(due, now)
    BY <1>2 DEF ClockFires
  <2>2. due' \in Nat /\ due' > now /\ due' > due
    BY <1>1, <2>1, NextFacts
  <2>3. left' = MayFireIn(Delay(due' - now))
    BY <2>2 DEF ClockFires
  <2> QED BY <1>1, <1>2, <2>1, <2>2, <2>3
<1>3. CASE ~Cron
  <2>1. due' = now + interval /\ interval # 0
    BY <1>3 DEF ClockFires, Cron
  <2>2. due' \in Nat /\ due' > now
    BY <1>1, <2>1
  <2>3. left' = MayFireIn(Delay(due' - now))
    BY <2>2 DEF ClockFires
  <2> QED BY <1>1, <1>3, <2>1, <2>2, <2>3
<1> QED BY <1>2, <1>3

LEMMA ClockKeepsOnce == ASSUME JobClockAssumption, OnceInv, [ClockNext]_clockVars PROVE OnceInv'
<1>1. CASE Tick
  BY <1>1 DEF Tick, OnceInv, ClockTypes, Cron
<1>2. CASE SetBack
  <2>1. now' \in Nat
    BY <1>2 DEF SetBack, OnceInv, ClockTypes, JobClockAssumption
  <2> QED BY <1>2, <2>1 DEF SetBack, OnceInv, ClockTypes, Cron
<1>3. CASE ClockFires
  <2>1. due' \in Nat /\ (Cron => due' > due) /\ left' \in Nat
    BY <1>3, NextDue, WaitFacts
  <2>2. lastDue' = due /\ lastRun' = now /\ UNCHANGED <<interval, now, backs>>
    BY <1>3 DEF ClockFires
  <2> QED BY <2>1, <2>2 DEF OnceInv, ClockTypes, Cron
<1>4. CASE UNCHANGED clockVars
  BY <1>4 DEF clockVars, OnceInv, ClockTypes, Cron
<1> QED BY <1>1, <1>2, <1>3, <1>4 DEF ClockNext

LEMMA WaitStarts == ASSUME JobClockAssumption, DelaysFit, ClockInit PROVE WaitInv
<1>1. /\ interval \in Nat /\ lastRun \in Nat /\ now \in Nat /\ now >= lastRun
      /\ Early \in Nat /\ Period \in Nat /\ MaxDelay \in Nat
  BY DEF JobClockAssumption, ClockInit
<1>2. interval <= MaxDelay /\ Period <= MaxDelay
  BY <1>1 DEF DelaysFit, ClockInit
<1>3. due \in Nat /\ left \in Nat
  BY ClockStarts DEF OnceInv, ClockTypes
<1>4. ASSUME Cron PROVE due <= now + left + Early
  <2>1. due \in Nat /\ due > now /\ due <= now + Period
    BY <1>1, <1>4, OccurrenceFacts DEF ClockInit
  <2>2. due - now \in Nat /\ due - now <= MaxDelay
    BY <1>1, <1>2, <2>1
  <2>3. due - now <= left + Early
    BY <2>2, WaitFacts DEF ClockInit
  <2> QED BY <1>1, <1>3, <2>3
<1>5. ASSUME ~Cron, lastRun > 0 PROVE lastRun + interval <= now + left + Early
  <2>1. due = IF lastRun + interval <= now THEN now ELSE lastRun + interval
    BY <1>1, <1>5 DEF ClockInit, IntervalDue
  <2>2. due - now \in Nat /\ due - now <= MaxDelay /\ lastRun + interval <= due
    BY <1>1, <1>2, <2>1
  <2>3. due - now <= left + Early
    BY <2>2, WaitFacts DEF ClockInit
  <2> QED BY <1>1, <1>3, <2>2, <2>3
<1> QED BY <1>4, <1>5 DEF WaitInv

LEMMA ClockKeepsWait ==
  ASSUME JobClockAssumption, DelaysFit, OnceInv, WaitInv, [ClockNext]_clockVars
  PROVE  WaitInv'
<1>1. /\ interval \in Nat /\ lastRun \in Nat /\ now \in Nat /\ due \in Nat /\ left \in Nat /\ interval <= MaxDelay
      /\ Early \in Nat /\ Period \in Nat /\ MaxDelay \in Nat /\ Period + Early <= MaxDelay
  BY DEF JobClockAssumption, DelaysFit, OnceInv, ClockTypes
<1>2. CASE Tick
  <2>1. now' + left' >= now + left
    BY <1>1, <1>2 DEF Tick
  <2>2. UNCHANGED <<interval, due, lastRun, backs>> /\ now' \in Nat /\ left' \in Nat
    BY <1>1, <1>2 DEF Tick
  <2> SUFFICES ASSUME backs = 0
               PROVE  /\ Cron => due <= now' + left' + Early
                      /\ ~Cron /\ lastRun > 0 => lastRun + interval <= now' + left' + Early
    BY <2>2 DEF WaitInv, Cron
  <2>3. ASSUME Cron PROVE due <= now' + left' + Early
    <3>1. due <= now + left + Early
      BY <2>3 DEF WaitInv
    <3> QED BY <1>1, <2>1, <2>2, <3>1, WaitShifts
  <2>4. ASSUME ~Cron, lastRun > 0 PROVE lastRun + interval <= now' + left' + Early
    <3>1. lastRun + interval <= now + left + Early
      BY <2>4 DEF WaitInv
    <3>2. lastRun + interval \in Nat
      BY <1>1
    <3> QED BY <1>1, <2>1, <2>2, <3>1, <3>2, WaitShifts
  <2> QED BY <2>3, <2>4
<1>3. CASE SetBack
  BY <1>3 DEF SetBack, WaitInv
<1>4. CASE ClockFires
  <2> SUFFICES ASSUME backs' = 0
               PROVE  /\ Cron' => due' <= now' + left' + Early
                      /\ ~Cron' /\ lastRun' > 0 => lastRun' + interval' <= now' + left' + Early
    BY DEF WaitInv
  <2>1. left = 0 /\ lastRun' = now /\ backs = 0 /\ UNCHANGED <<interval, now>>
    BY <1>4 DEF ClockFires
  <2>2. /\ due' \in Nat /\ due' - now \in Nat /\ left' = MayFireIn(Delay(due' - now))
        /\ Cron => due' = NextCronOccurrence(due, now)
        /\ ~Cron => due' = now + interval
    BY <1>4, NextDue
  <2>3. due' - now <= MaxDelay
    <3>1. CASE Cron
      <4>1. due <= now + Early
        BY <1>1, <2>1, <3>1 DEF WaitInv
      <4>2. due' <= now + Early + Period
        BY <1>1, <2>2, <3>1, <4>1, NextFacts
      <4> QED BY <1>1, <2>2, <4>2, WithinDelay
    <3>2. CASE ~Cron
      BY <1>1, <2>2, <3>2
    <3> QED BY <3>1, <3>2
  <2>4. left' \in Nat /\ due' - now <= left' + Early
    BY <2>2, <2>3, WaitFacts
  <2>5. due' <= now + left' + Early
    BY <1>1, <2>2, <2>4
  <2> QED BY <1>1, <2>1, <2>2, <2>5 DEF Cron
<1>5. CASE UNCHANGED clockVars
  BY <1>5 DEF clockVars, WaitInv, Cron
<1> QED BY <1>2, <1>3, <1>4, <1>5 DEF ClockNext

\* No occurrence of a schedule runs twice, however early or late its timers fire
\* and wherever the clock is set to, whatever delays they take (_startCronTimer).
THEOREM OccurrencesRunOnce == ClockSpec => [][ClockFires /\ Cron => due > lastDue]_clockVars
<1>1. ClockInit => OnceInv
  BY ClockStarts, JobClockAssumption
<1>2. OnceInv /\ [ClockNext]_clockVars => OnceInv'
  BY ClockKeepsOnce, JobClockAssumption
<1>3. OnceInv /\ [ClockNext]_clockVars => [ClockFires /\ Cron => due > lastDue]_clockVars
  BY DEF OnceInv
<1> QED BY <1>1, <1>2, <1>3, PTL DEF ClockSpec

\* Where the delays are ones that timers take, a run starts no earlier than the
\* instant shown for it or an interval after the last, and none repeats an occurrence.
THEOREM RunsFireWhenDue == DelaysFit => (ClockSpec => FiresWhenDue)
<1> SUFFICES ASSUME DelaysFit PROVE ClockSpec => FiresWhenDue
  OBVIOUS
<1> DEFINE Inv == OnceInv /\ WaitInv
<1>1. ClockInit => Inv
  BY ClockStarts, WaitStarts, JobClockAssumption
<1>2. Inv /\ [ClockNext]_clockVars => Inv'
  BY ClockKeepsOnce, ClockKeepsWait, JobClockAssumption
<1>3. Inv /\ [ClockNext]_clockVars =>
        [ClockFires =>
           /\ Cron => due > lastDue
           /\ backs = 0 /\ Cron => now + Early >= due
           /\ backs = 0 /\ ~Cron /\ lastRun > 0 => now + Early >= lastRun + interval]_clockVars
  <2> SUFFICES ASSUME Inv, ClockFires
               PROVE  /\ Cron => due > lastDue
                      /\ backs = 0 /\ Cron => now + Early >= due
                      /\ backs = 0 /\ ~Cron /\ lastRun > 0 => now + Early >= lastRun + interval
    OBVIOUS
  <2>1. left = 0 /\ now \in Nat /\ Early \in Nat
    BY JobClockAssumption DEF ClockFires, OnceInv, ClockTypes, JobClockAssumption
  <2> QED BY <2>1, JobClockAssumption DEF OnceInv, ClockTypes, WaitInv, JobClockAssumption
<1> HIDE DEF Inv
<1> QED BY <1>1, <1>2, <1>3, PTL DEF ClockSpec, FiresWhenDue
=============================================================================
