---------------------------- MODULE JobRunsProofs ----------------------------
(***************************************************************************)
(* Proofs about JobRuns, for every bound, every option and every set of    *)
(* storage calls that may fail.  A run is numbered by the request that     *)
(* made room for it, so numbers do not run out (Numbered); a retry is      *)
(* waited for only while one is left (RetriesLeft); and the queue is never *)
(* left behind while a slot is free (NoStrandedQueue, inductive alone).    *)
(*                                                                         *)
(* Then what the storage says of executions: what it shows as running is   *)
(* running, what has ended stays as it ended, and start() interrupts no    *)
(* run that is going.  The argument is ownership.  An execution is Fresh   *)
(* until its attempt begins, then its run holds it, then it is Past, and   *)
(* Past for ever.  A run writes only what it holds; the deleter and        *)
(* start() write only what is Past.  What remains is what a run at each of *)
(* its awaits knows of the store (Works).                                  *)
(***************************************************************************)
EXTENDS JobRuns, FiniteSetTheorems, TLAPS

\* The requests made cover the runs started and the one that is queued.
Numbered ==
  /\ nextRun >= 1 /\ nextRun <= requests + 1
  /\ queued => nextRun <= requests
  /\ \A r \in runs : r < nextRun

RetriesLeft == \A r \in RunId : run[r].pc = "retryWait" => run[r].attempt < MaxRetries

Inv == TypeOK /\ Numbered /\ RetriesLeft /\ NoStrandedQueue

\* A run's state, and its attempt when it waits for the next one.
RunOK(s) == s \in RunState /\ (s.pc = "retryWait" => s.attempt < MaxRetries)

-----------------------------------------------------------------------------
(* What the helpers return *)

(* A run starts in a state of a run. *)
LEMMA NewRunOK == RunOK(NewRun) /\ RunOK(IdleRun)
<1>1. 0 \in 0..MaxRetries
  BY JobRunsAssumption
<1>2. IdleRun \in RunState
  BY <1>1 DEF RunState, IdleRun, RunPc, Io, Final
<1>3. NewRun \in RunState
  BY <1>2 DEF RunState, NewRun, RunPc, Io
<1>4. IdleRun.pc = "idle" /\ NewRun.pc = "saveStart"
  BY DEF IdleRun, NewRun
<1> QED BY <1>2, <1>3, <1>4 DEF RunOK

(* Aborting a run leaves where it is and its attempt alone. *)
LEMMA AbortOK == ASSUME NEW s, RunOK(s)
                 PROVE RunOK(Abort(s)) /\ Abort(s).attempt = s.attempt
BY DEF RunOK, RunState, Abort

(* The end of an attempt, by an exception or after a save. *)
LEMMA EndOK == ASSUME NEW s, RunOK(s)
               PROVE /\ RunOK(Fail(s)) /\ Fail(s).attempt = s.attempt
                     /\ RunOK(Persist(s)) /\ Persist(s).attempt = s.attempt
                     /\ \A t \in AfterError(s) : RunOK(t) /\ t.attempt = s.attempt
<1>1. RunOK(Fail(s)) /\ Fail(s).attempt = s.attempt
  BY DEF RunOK, RunState, RunPc, Io, Fail, Forget
<1>2. RunOK(Persist(s)) /\ Persist(s).attempt = s.attempt
  BY DEF RunOK, RunState, RunPc, Io, Persist, Forget
<1>3. /\ RunOK([s EXCEPT !.pc = "saveBare", !.io = "pending"])
      /\ [s EXCEPT !.pc = "saveBare", !.io = "pending"].attempt = s.attempt
  BY DEF RunOK, RunState, RunPc, Io
<1> QED BY <1>1, <1>2, <1>3 DEF AfterError

-----------------------------------------------------------------------------
(* Slots *)

(* The runs are finitely many. *)
LEMMA FiniteRuns == ASSUME NEW S \in SUBSET RunId
                    PROVE IsFiniteSet(S) /\ Cardinality(S) \in Nat
<1>1. IsFiniteSet(RunId)
  BY JobRunsAssumption, FS_Interval DEF RunId
<1> QED BY <1>1, FS_Subset, FS_CardinalityType

(* One more run fits while the runs are fewer than the limit. *)
LEMMA StartFits == ASSUME NEW S \in SUBSET RunId, NEW r, NEW limit \in Nat, ~Full(S, limit)
                   PROVE Cardinality(S \cup {r}) <= limit
<1> DEFINE T == S \cup {r}
<1>1. IsFiniteSet(S) /\ Cardinality(S) \in Nat /\ Cardinality(S) < limit
  BY FiniteRuns DEF Full
<1>2. CASE r \in S
  <2>1. T = S
    BY <1>2
  <2>2. Cardinality(T) = Cardinality(S)
    BY <2>1
  <2> HIDE DEF T
  <2>3. Cardinality(T) <= limit
    BY <2>2, <1>1
  <2> QED BY <2>3 DEF T
<1>3. CASE r \notin S
  <2>1. Cardinality(T) = Cardinality(S) + 1
    BY <1>1, <1>3, FS_AddElement
  <2> HIDE DEF T
  <2>2. Cardinality(T) <= limit
    BY <2>1, <1>1
  <2> QED BY <2>2 DEF T
<1> QED BY <1>2, <1>3

\* The part of the invariant the slots, the queue and the numbers make up.
SlotsOK ==
  /\ runs \in SUBSET RunId /\ run \in [RunId -> RunState] /\ RetriesLeft
  /\ queued \in BOOLEAN /\ nextRun \in Nat /\ Numbered

\* A step that takes a slot stays within the limit.
StartsFit == ~(runs' \subseteq runs) => Cardinality(runs') <= opts'.limit

\* A step that leaves the attempts of the runs it finds alone.
AttemptsKept == \A r \in runs \cap runs' : run'[r].attempt = run[r].attempt

(* A run that takes a slot gets a number of its own. *)
LEMMA StartRunOK ==
  ASSUME NEW rs \in SUBSET RunId, NEW rn \in [RunId -> RunState],
         \A r \in RunId : RunOK(rn[r]), nextRun \in RunId, StartRun(rs, rn)
  PROVE  /\ runs' \in SUBSET RunId /\ run' \in [RunId -> RunState] /\ RetriesLeft'
         /\ \A r \in RunId : r # nextRun => run'[r] = rn[r]
<1>1. run' = [rn EXCEPT ![nextRun] = NewRun] /\ runs' = rs \cup {nextRun}
  BY DEF StartRun
<1>2. NewRun \in RunState /\ NewRun.pc = "saveStart"
  BY NewRunOK DEF RunOK, NewRun, IdleRun
<1>3. run' \in [RunId -> RunState]
  BY <1>1, <1>2
<1>4. RetriesLeft'
  BY <1>1, <1>2 DEF RetriesLeft, RunOK
<1> QED BY <1>1, <1>3, <1>4

(* _tryStart takes a slot within the limit, and queues a run only when full. *)
LEMMA TryStartOK ==
  ASSUME Inv, requests \in 0..MaxRequests, requests' = requests + 1,
         requests' \in 0..MaxRequests, TryStart, opts' = opts
  PROVE  SlotsOK' /\ NoStrandedQueue' /\ StartsFit /\ AttemptsKept
<1> USE DEF Inv, TypeOK, Numbered
<1>1. opts.limit \in Nat
  BY JobRunsAssumption DEF Options
<1>2. \A r \in RunId : RunOK(run[r])
  BY DEF RunOK, RetriesLeft
<1>3. CASE ~Full(runs, opts.limit) /\ StartRun(runs, run) /\ UNCHANGED queued
  <2>1. nextRun \in RunId /\ nextRun' = nextRun + 1
    <3>1. nextRun \in Nat /\ nextRun >= 1 /\ nextRun <= MaxRequests
      BY JobRunsAssumption
    <3> QED BY <1>3, <3>1, JobRunsAssumption DEF RunId, StartRun
  <2>2. /\ runs' \in SUBSET RunId /\ run' \in [RunId -> RunState] /\ RetriesLeft'
        /\ \A r \in RunId : r # nextRun => run'[r] = run[r]
    BY <1>2, <1>3, <2>1, StartRunOK
  <2>3. SlotsOK'
    BY <1>3, <2>1, <2>2 DEF SlotsOK, StartRun
  <2>4. ~queued
    BY <1>3 DEF NoStrandedQueue
  <2>5. Cardinality(runs') <= opts'.limit
    BY <1>1, <1>3, StartFits DEF StartRun
  <2>6. AttemptsKept
    BY <2>2 DEF AttemptsKept
  <2> QED BY <1>3, <2>3, <2>4, <2>5, <2>6 DEF NoStrandedQueue, StartsFit
<1>4. CASE /\ Full(runs, opts.limit) /\ opts.policy = "skip"
           /\ UNCHANGED <<runs, run, nextRun, queued>>
  BY <1>4 DEF SlotsOK, NoStrandedQueue, StartsFit, AttemptsKept, RetriesLeft
<1>5. CASE /\ Full(runs, opts.limit) /\ queued' = TRUE /\ UNCHANGED <<runs, nextRun>>
           /\ \/ \E r \in RunId : IsOldestLive(r) /\ run' = [run EXCEPT ![r] = Abort(@)]
              \/ UNCHANGED run
  <2>1. run' \in [RunId -> RunState] /\ RetriesLeft' /\ AttemptsKept
    <3>1. CASE UNCHANGED run
      BY <3>1 DEF RetriesLeft, AttemptsKept
    <3>2. ASSUME NEW r \in RunId, run' = [run EXCEPT ![r] = Abort(@)]
          PROVE  run' \in [RunId -> RunState] /\ RetriesLeft' /\ AttemptsKept
      BY <1>2, <3>2, AbortOK DEF RetriesLeft, RunOK, AttemptsKept
    <3> QED BY <1>5, <3>1, <3>2
  <2> QED BY <1>5, <2>1 DEF SlotsOK, NoStrandedQueue, StartsFit
<1> QED BY <1>3, <1>4, <1>5 DEF TryStart

(* _drainQueue, once some runs gave their slot back or the limit changed, starts
   the queued run when it fits and otherwise leaves it queued. *)
LEMMA DrainOK ==
  ASSUME Inv, NEW rs \in SUBSET runs, NEW rn \in [RunId -> RunState],
         \A r \in RunId : RunOK(rn[r]),
         \A r \in rs : rn[r].attempt = run[r].attempt,
         opts' \in Options, DrainQueue(rs, rn, opts'.limit), requests' = requests
  PROVE  SlotsOK' /\ NoStrandedQueue' /\ StartsFit /\ AttemptsKept
<1> USE DEF Inv, TypeOK, Numbered
<1>1. opts'.limit \in Nat /\ rs \in SUBSET RunId
  BY JobRunsAssumption DEF Options
<1>2. CASE queued /\ ~Full(rs, opts'.limit) /\ queued' = FALSE /\ StartRun(rs, rn)
  <2>1. nextRun \in RunId /\ nextRun' = nextRun + 1
    <3>1. nextRun \in Nat /\ nextRun >= 1 /\ nextRun <= MaxRequests
      BY <1>2, JobRunsAssumption
    <3> QED BY <1>2, <3>1, JobRunsAssumption DEF RunId, StartRun
  <2>2. /\ runs' \in SUBSET RunId /\ run' \in [RunId -> RunState] /\ RetriesLeft'
        /\ \A r \in RunId : r # nextRun => run'[r] = rn[r]
    BY <1>1, <1>2, <2>1, StartRunOK
  <2>3. SlotsOK'
    <3>1. queued' \in BOOLEAN /\ ~queued'
      BY <1>2
    <3>2. Numbered' /\ nextRun' \in Nat
      BY <1>1, <1>2, <2>1, <3>1 DEF StartRun
    <3> QED BY <2>2, <3>1, <3>2 DEF SlotsOK
  <2>4. Cardinality(runs') <= opts'.limit
    BY <1>1, <1>2, StartFits DEF StartRun
  <2>5. AttemptsKept
    BY <1>1, <1>2, <2>1, <2>2 DEF AttemptsKept, StartRun
  <2> QED BY <1>2, <2>3, <2>4, <2>5 DEF NoStrandedQueue, StartsFit
<1>3. CASE /\ ~queued \/ Full(rs, opts'.limit)
           /\ runs' = rs /\ run' = rn /\ UNCHANGED <<nextRun, queued>>
  <2>1. SlotsOK' /\ AttemptsKept
    BY <1>1, <1>3 DEF SlotsOK, RetriesLeft, RunOK, AttemptsKept
  <2> QED BY <1>3, <2>1 DEF NoStrandedQueue, StartsFit
<1> QED BY <1>2, <1>3 DEF DrainQueue

-----------------------------------------------------------------------------
(* Steps *)

\* The rest of TypeOK.
OthersOK ==
  /\ opts \in Options /\ store \in [Exec -> StoreStatus]
  /\ announced \in [Exec -> {"no", "started", "ended"}]
  /\ deleter \in [pc : DeleterPc, todo : SUBSET Exec, cur : Exec \cup {NoExec},
                  seen : StoreStatus]
  /\ starter \in [pc : StarterPc, io : Io, todo : SUBSET Exec, cur : Exec \cup {NoExec}]
  /\ epoch \in Nat /\ requests \in 0..MaxRequests /\ crashes \in 0..MaxCrashes

\* A cancelled run makes no further attempt.
CancelledStay ==
  \A r \in runs \cap runs' : run[r].aborted => run'[r].attempt = run[r].attempt

\* What every step does: it keeps the invariant and obeys the two action properties.
StepOK == Inv' /\ StartsFit /\ CancelledStay

(* The invariant is its two parts, in this state and in the next. *)
LEMMA Parts == /\ Inv <=> SlotsOK /\ OthersOK /\ NoStrandedQueue
               /\ SlotsOK' /\ OthersOK' /\ NoStrandedQueue' => Inv'
BY DEF Inv, TypeOK, SlotsOK, OthersOK

(* An attempt that is kept is kept by the cancelled. *)
LEMMA KeptStay == AttemptsKept => CancelledStay
BY DEF AttemptsKept, CancelledStay

(* A run that goes on in its slot. *)
LEMMA ContinueOK ==
  ASSUME Inv, NEW r \in runs, NEW s, RunOK(s), Continue(r, s),
         run[r].aborted => s.attempt = run[r].attempt,
         store' \in [Exec -> StoreStatus],
         announced' \in [Exec -> {"no", "started", "ended"}]
  PROVE  StepOK
<1>1. r \in RunId /\ run' = [run EXCEPT ![r] = s] /\ run \in [RunId -> RunState]
  BY DEF Inv, TypeOK, Continue
<1>2. run' \in [RunId -> RunState] /\ RetriesLeft'
  BY <1>1 DEF Inv, RetriesLeft, RunOK
<1>3. SlotsOK' /\ NoStrandedQueue' /\ StartsFit
  BY <1>2 DEF Inv, TypeOK, Numbered, SlotsOK, NoStrandedQueue, StartsFit, Continue
<1>4. OthersOK'
  BY DEF Inv, TypeOK, OthersOK, Continue
<1>5. CancelledStay
  BY <1>1 DEF Inv, TypeOK, CancelledStay
<1> QED BY <1>3, <1>4, <1>5, Parts DEF StepOK

(* The state of a run that holds a slot. *)
LEMMA RunIsOK == ASSUME Inv, NEW r \in runs
                 PROVE r \in RunId /\ RunOK(run[r]) /\ ExecOf(r) \in Exec
BY DEF Inv, TypeOK, RetriesLeft, RunOK, RunState, ExecOf, Exec

(* The storage's side of a run's calls. *)
LEMMA StoreStepOK ==
  ASSUME Inv, NEW r \in RunId,
         StoreRejects(r) \/ StoreSaves(r) \/ StoreDiscards(r) \/ StorePersists(r)
  PROVE  StepOK
<1>1. store \in [Exec -> StoreStatus] /\ announced \in [Exec -> {"no", "started", "ended"}]
  BY DEF Inv, TypeOK
<1>2. ASSUME NEW i \in {"ok", "kept", "err"}, r \in runs, Continue(r, [run[r] EXCEPT !.io = i]),
             store' \in [Exec -> StoreStatus], UNCHANGED announced
      PROVE  StepOK
  <2>1. /\ RunOK([run[r] EXCEPT !.io = i])
        /\ [run[r] EXCEPT !.io = i].attempt = run[r].attempt
    BY <1>2, RunIsOK DEF RunOK, RunState, Io
  <2> QED BY <1>1, <1>2, <2>1, ContinueOK
<1>3. CASE StoreRejects(r)
  BY <1>1, <1>2, <1>3 DEF StoreRejects
<1>4. CASE StoreSaves(r)
  <2>1. r \in runs /\ Stored(run[r]) \in StoreStatus /\ ExecOf(r) \in Exec
    BY <1>4, RunIsOK DEF StoreSaves, Stored, RunOK, RunState, StoreStatus
  <2>2. store' \in [Exec -> StoreStatus]
    BY <1>1, <1>4, <2>1 DEF StoreSaves
  <2> QED BY <1>2, <1>4, <2>2 DEF StoreSaves
<1>5. CASE StoreDiscards(r)
  <2>1. store' \in [Exec -> StoreStatus]
    BY <1>1, <1>5 DEF StoreDiscards, StoreStatus
  <2> QED BY <1>2, <1>5, <2>1 DEF StoreDiscards
<1>6. CASE StorePersists(r)
  BY <1>1, <1>2, <1>6 DEF StorePersists
<1> QED BY <1>3, <1>4, <1>5, <1>6

(* A run's own steps within its slot. *)
LEMMA AttemptStepOK ==
  ASSUME Inv, NEW r \in RunId,
         \/ StartSaved(r) \/ TimeoutFires(r) \/ JobEnds(r) \/ EndSaved(r)
         \/ StatePersisted(r) \/ RetryDelayEnds(r)
  PROVE  StepOK
<1>1. store \in [Exec -> StoreStatus] /\ announced \in [Exec -> {"no", "started", "ended"}]
  BY DEF Inv, TypeOK
<1>2. r \in runs /\ RunOK(run[r]) /\ ExecOf(r) \in Exec
  BY RunIsOK DEF StartSaved, TimeoutFires, JobEnds, EndSaved, StatePersisted, RetryDelayEnds
<1>3. ASSUME NEW s, RunOK(s), Continue(r, s), run[r].aborted => s.attempt = run[r].attempt,
             UNCHANGED store, announced' \in [Exec -> {"no", "started", "ended"}]
      PROVE  StepOK
  BY <1>1, <1>2, <1>3, ContinueOK
<1>4. CASE StartSaved(r)
  <2>1. announced' \in [Exec -> {"no", "started", "ended"}]
    BY <1>1, <1>4 DEF StartSaved
  <2>2. /\ RunOK([run[r] EXCEPT !.pc = "executing", !.io = "none"])
        /\ [run[r] EXCEPT !.pc = "executing", !.io = "none"].attempt = run[r].attempt
    BY <1>2 DEF RunOK, RunState, RunPc, Io
  <2> QED BY <1>2, <1>3, <1>4, <2>1, <2>2, EndOK DEF StartSaved
<1>5. CASE TimeoutFires(r)
  <2>1. /\ RunOK([run[r] EXCEPT !.timedOut = TRUE])
        /\ [run[r] EXCEPT !.timedOut = TRUE].attempt = run[r].attempt
    BY <1>2 DEF RunOK, RunState
  <2> QED BY <1>1, <1>3, <1>5, <2>1 DEF TimeoutFires
<1>6. CASE JobEnds(r)
  <2> DEFINE After(p, st) == [run[r] EXCEPT !.pc = p, !.io = "pending", !.outcome = st]
  <2>1. ASSUME NEW p \in {"discard", "saveEnd"}, NEW st \in Final
        PROVE  RunOK(After(p, st)) /\ After(p, st).attempt = run[r].attempt
    BY <1>2, <2>1 DEF RunOK, RunState, RunPc, Io
  <2>2. ASSUME NEW returned \in BOOLEAN, NEW d \in BOOLEAN
        PROVE  /\ FinalStatus(run[r], returned) \in Final
               /\ AfterJob(d, FinalStatus(run[r], returned)) \in {"discard", "saveEnd"}
    BY <1>2 DEF FinalStatus, AfterJob, Final, RunOK, RunState
  <2>3. PICK returned \in BOOLEAN, d \in BOOLEAN :
          Continue(r, After(AfterJob(d, FinalStatus(run[r], returned)),
                            FinalStatus(run[r], returned)))
    BY <1>6 DEF JobEnds
  <2> HIDE DEF After
  <2> QED BY <1>1, <1>3, <1>6, <2>1, <2>2, <2>3 DEF JobEnds
<1>7. CASE EndSaved(r)
  <2>1. /\ RunOK([run[r] EXCEPT !.pc = "saveEnd", !.io = "pending"])
        /\ [run[r] EXCEPT !.pc = "saveEnd", !.io = "pending"].attempt = run[r].attempt
    BY <1>2 DEF RunOK, RunState, RunPc, Io
  <2> QED BY <1>1, <1>2, <1>3, <1>7, <2>1, EndOK DEF EndSaved
<1>8. CASE StatePersisted(r)
  <2> DEFINE s == [run[r] EXCEPT !.io = "none",
                     !.pc = IF Retries(run[r], opts.retries) THEN "retryWait" ELSE "settled"]
  <2>1. announced' \in [Exec -> {"no", "started", "ended"}]
    BY <1>1, <1>8 DEF StatePersisted
  <2>2. opts.retries \in 0..MaxRetries /\ run[r].attempt \in 0..MaxRetries
    BY <1>2 DEF Inv, TypeOK, Options, RunOK, RunState
  <2>3. Retries(run[r], opts.retries) => run[r].attempt < MaxRetries
    BY <2>2, JobRunsAssumption DEF Retries
  <2>4. s.attempt = run[r].attempt /\ s \in RunState
    BY <1>2 DEF RunOK, RunState, RunPc, Io
  <2>5. s.pc = "retryWait" => Retries(run[r], opts.retries)
    BY <1>2 DEF RunOK, RunState
  <2>6. RunOK(s)
    BY <2>3, <2>4, <2>5 DEF RunOK
  <2>7. Continue(r, s)
    BY <1>8 DEF StatePersisted
  <2> HIDE DEF s
  <2> QED BY <1>3, <1>8, <2>1, <2>4, <2>6, <2>7 DEF StatePersisted
<1>9. CASE RetryDelayEnds(r)
  <2>1. run[r].attempt \in 0..MaxRetries /\ run[r].attempt < MaxRetries
    BY <1>2, <1>9 DEF RetryDelayEnds, RunOK, RunState
  <2>2. run[r].attempt + 1 \in 0..MaxRetries
    BY <2>1, JobRunsAssumption
  <2>3. CASE run[r].aborted
    BY <1>1, <1>2, <1>3, <1>9, <2>3 DEF RetryDelayEnds, NextAttempt, RunOK, RunState, RunPc
  <2>4. CASE ~run[r].aborted
    <3> DEFINE s == [NewRun EXCEPT !.attempt = run[r].attempt + 1]
    <3>1. s \in RunState /\ s.pc = "saveStart"
      BY <2>2, NewRunOK DEF RunOK, RunState, NewRun, IdleRun
    <3>2. RunOK(s) /\ Continue(r, s)
      BY <1>9, <2>4, <3>1 DEF RunOK, RetryDelayEnds, NextAttempt
    <3> QED BY <1>1, <1>3, <1>9, <2>4, <3>2 DEF RetryDelayEnds
  <2> QED BY <2>3, <2>4
<1> QED BY <1>4, <1>5, <1>6, <1>7, <1>8, <1>9

(* The end of a run: its slot goes to the queued run, if there is one. *)
LEMMA ReleaseOK == ASSUME Inv, NEW r \in RunId, ReleaseSlot(r) PROVE StepOK
<1>1. \A q \in RunId : RunOK(run[q])
  BY DEF Inv, TypeOK, RetriesLeft, RunOK
<1>2. /\ [run EXCEPT ![r] = IdleRun] \in [RunId -> RunState]
      /\ \A q \in RunId : RunOK([run EXCEPT ![r] = IdleRun][q])
      /\ \A q \in runs \ {r} : [run EXCEPT ![r] = IdleRun][q].attempt = run[q].attempt
  BY <1>1, NewRunOK DEF Inv, TypeOK, RunOK
<1>3. /\ opts' \in Options /\ requests' = requests /\ opts' = opts
      /\ DrainQueue(runs \ {r}, [run EXCEPT ![r] = IdleRun], opts'.limit)
  BY DEF Inv, TypeOK, ReleaseSlot
<1>4. SlotsOK' /\ NoStrandedQueue' /\ StartsFit /\ AttemptsKept
  BY <1>2, <1>3, DrainOK
<1>5. OthersOK'
  BY DEF Inv, TypeOK, OthersOK, ReleaseSlot
<1> QED BY <1>4, <1>5, Parts, KeptStay DEF StepOK

(* A due run, from a trigger, a timer or the run on start. *)
LEMMA DueRunOK ==
  ASSUME Inv, DueRun, OthersOK', opts' = opts
  PROVE  StepOK
<1>1. requests' = requests + 1 /\ requests' \in 0..MaxRequests
  BY JobRunsAssumption DEF DueRun, Inv, TypeOK
<1>2. SlotsOK' /\ NoStrandedQueue' /\ StartsFit /\ AttemptsKept
  BY <1>1, TryStartOK DEF DueRun, Inv, TypeOK
<1> QED BY <1>2, Parts, KeptStay DEF StepOK

(* A step that touches neither the slots nor the options. *)
LEMMA SlotsKeptOK ==
  ASSUME Inv, UNCHANGED <<runs, run, queued, opts, nextRun, requests>>, OthersOK'
  PROVE  StepOK
<1>1. SlotsOK' /\ NoStrandedQueue' /\ StartsFit /\ CancelledStay
  BY DEF Inv, TypeOK, SlotsOK, Numbered, RetriesLeft, NoStrandedQueue, StartsFit, CancelledStay
<1> QED BY <1>1, Parts DEF StepOK

(* A trigger and a due timer. *)
LEMMA RequestOK == ASSUME Inv, TriggerAsync \/ HandleTimerFire PROVE StepOK
<1>1. DueRun /\ UNCHANGED <<opts, store, announced, deleter, starter, epoch, crashes>>
  BY DEF TriggerAsync, HandleTimerFire
<1>2. requests' \in 0..MaxRequests
  BY <1>1, JobRunsAssumption DEF DueRun, Inv, TypeOK
<1>3. OthersOK'
  BY <1>1, <1>2 DEF Inv, TypeOK, OthersOK
<1> QED BY <1>1, <1>3, DueRunOK

(* A cancellation empties the queue and aborts every run, where it is. *)
LEMMA CancelOK == ASSUME Inv, CancelCurrentAsync PROVE StepOK
<1>1. /\ run' = [r \in RunId |-> IF r \in runs THEN Abort(run[r]) ELSE run[r]]
      /\ UNCHANGED <<runs, opts, nextRun, requests>>
  BY DEF CancelCurrentAsync, CancelAll
<1>2. ~queued' /\ queued' \in BOOLEAN
  BY DEF CancelCurrentAsync, CancelAll
<1>3. \A r \in RunId : RunOK(run[r])
  BY DEF Inv, TypeOK, RetriesLeft, RunOK
<1>4. \A r \in RunId : RunOK(run'[r]) /\ run'[r].attempt = run[r].attempt
  BY <1>1, <1>3, AbortOK
<1>5. run' \in [RunId -> RunState] /\ RetriesLeft'
  BY <1>1, <1>4 DEF RunOK, RetriesLeft
<1>6. Numbered'
  BY <1>1, <1>2 DEF Inv, Numbered
<1>7. SlotsOK'
  BY <1>1, <1>2, <1>5, <1>6 DEF Inv, TypeOK, SlotsOK
<1>8. OthersOK'
  BY DEF Inv, TypeOK, OthersOK, CancelCurrentAsync
<1>9. NoStrandedQueue' /\ StartsFit
  BY <1>1, <1>2 DEF NoStrandedQueue, StartsFit
<1>10. CancelledStay
  BY <1>4 DEF Inv, TypeOK, CancelledStay
<1> QED BY <1>7, <1>8, <1>9, <1>10, Parts DEF StepOK

(* New options: a higher limit lets the queued run start. *)
LEMMA UpdateOK == ASSUME Inv, UpdateOptionsAsync PROVE StepOK
<1>1. opts' \in Options /\ DrainQueue(runs, run, opts'.limit) /\ requests' = requests
  BY JobRunsAssumption DEF UpdateOptionsAsync, Options
<1>2. run \in [RunId -> RunState] /\ \A r \in RunId : RunOK(run[r])
  BY DEF Inv, TypeOK, RetriesLeft, RunOK
<1>3. SlotsOK' /\ NoStrandedQueue' /\ StartsFit /\ AttemptsKept
  BY <1>1, <1>2, DrainOK
<1>4. OthersOK'
  BY <1>1 DEF Inv, TypeOK, OthersOK, UpdateOptionsAsync
<1> QED BY <1>3, <1>4, Parts, KeptStay DEF StepOK

(* The deletion of finished executions. *)
LEMMA DeleterOK ==
  ASSUME Inv, DeleteExecutionAsync \/ DeleteExecutionsAsync \/ DeleteStep
  PROVE  StepOK
<1>1. ASSUME NEW d, Delete(d), store' \in [Exec -> StoreStatus],
             d \in [pc : DeleterPc, todo : SUBSET Exec, cur : Exec \cup {NoExec},
                    seen : StoreStatus]
      PROVE  StepOK
  <2>1. OthersOK'
    BY <1>1 DEF Inv, TypeOK, OthersOK, Delete
  <2> QED BY <1>1, <2>1, SlotsKeptOK DEF Delete
<1>2. /\ store \in [Exec -> StoreStatus] /\ IdleDeleter.pc = "idle"
      /\ IdleDeleter \in [pc : DeleterPc, todo : SUBSET Exec, cur : Exec \cup {NoExec},
                          seen : StoreStatus]
      /\ deleter \in [pc : DeleterPc, todo : SUBSET Exec, cur : Exec \cup {NoExec},
                      seen : StoreStatus]
  BY DEF Inv, TypeOK, IdleDeleter, DeleterPc, StoreStatus
<1>3. CASE DeleteExecutionAsync
  BY <1>1, <1>2, <1>3 DEF DeleteExecutionAsync, DeleterPc
<1>4. CASE DeleteExecutionsAsync
  BY <1>1, <1>2, <1>4 DEF DeleteExecutionsAsync, DeleterPc
<1>5. CASE ReadOne
  BY <1>1, <1>2, <1>5 DEF ReadOne, DeleterPc
<1>6. CASE CheckOne
  BY <1>1, <1>2, <1>6 DEF CheckOne, DeleterPc
<1>7. CASE StoreDeletes
  BY <1>1, <1>2, <1>7 DEF StoreDeletes, DeleterPc, StoreStatus
<1> QED BY <1>3, <1>4, <1>5, <1>6, <1>7 DEF DeleteStep

(* start(). *)
LEMMA StarterOK == ASSUME Inv, Start \/ StartStep PROVE StepOK
<1> DEFINE StarterType == [pc : StarterPc, io : Io, todo : SUBSET Exec, cur : Exec \cup {NoExec}]
<1>1. ASSUME NEW s \in StarterType, Starting(s), store' \in [Exec -> StoreStatus], epoch' \in Nat
      PROVE  StepOK
  <2>1. OthersOK'
    BY <1>1 DEF Inv, TypeOK, OthersOK, Starting
  <2> QED BY <1>1, <2>1, SlotsKeptOK DEF Starting
<1>2. /\ starter \in StarterType /\ DownStarter \in StarterType
      /\ store \in [Exec -> StoreStatus] /\ epoch \in Nat /\ nextRun \in Nat
  BY DEF Inv, TypeOK, DownStarter, StarterPc, Io
<1>3. CASE Start
  BY <1>1, <1>2, <1>3 DEF Start, StarterPc, Io
<1>4. CASE StatesLoaded
  BY <1>1, <1>2, <1>4 DEF StatesLoaded, StarterPc, Io
<1>5. CASE ListRunning
  BY <1>1, <1>2, <1>5 DEF ListRunning, StarterPc, Io, Running
<1>6. CASE NextInterrupted
  BY <1>1, <1>2, <1>6 DEF NextInterrupted, Io
<1>7. CASE FinishInterrupted
  BY <1>1, <1>2, <1>7 DEF FinishInterrupted, Io, StoreStatus
<1>8. CASE StartDone
  <2>1. /\ starter' \in StarterType
        /\ UNCHANGED <<opts, store, announced, deleter, epoch, crashes>>
    BY <1>2, <1>8 DEF StartDone, StarterPc
  <2>2. CASE DueRun
    <3>1. requests' \in 0..MaxRequests
      BY <2>2, JobRunsAssumption DEF DueRun, Inv, TypeOK
    <3>2. OthersOK'
      BY <2>1, <3>1 DEF Inv, TypeOK, OthersOK
    <3> QED BY <2>1, <2>2, <3>2, DueRunOK
  <2>3. CASE UNCHANGED <<runs, run, queued, nextRun, requests>>
    <3>1. OthersOK'
      BY <2>1, <2>3 DEF Inv, TypeOK, OthersOK
    <3> QED BY <2>1, <2>3, <3>1, SlotsKeptOK
  <2> QED BY <1>8, <2>2, <2>3 DEF StartDone
<1> QED BY <1>3, <1>4, <1>5, <1>6, <1>7, <1>8 DEF StartStep

(* A crash leaves no run and nothing queued. *)
LEMMA CrashOK == ASSUME Inv, Crash PROVE StepOK
<1>1. runs' = {} /\ ~queued' /\ queued' \in BOOLEAN /\ UNCHANGED <<nextRun, requests>>
  BY DEF Crash
<1>2. run' = [r \in RunId |-> IdleRun]
  BY DEF Crash
<1>3. run' \in [RunId -> RunState] /\ RetriesLeft'
  BY <1>2, NewRunOK DEF RunOK, RetriesLeft
<1>4. Numbered'
  BY <1>1 DEF Inv, Numbered
<1>5. SlotsOK'
  BY <1>1, <1>3, <1>4 DEF SlotsOK, Inv, TypeOK
<1>6. opts' \in Options
  BY JobRunsAssumption DEF Crash, Options, InitOptions
<1>7. IdleDeleter \in [pc : DeleterPc, todo : SUBSET Exec, cur : Exec \cup {NoExec},
                       seen : StoreStatus]
  BY DEF IdleDeleter, DeleterPc, StoreStatus
<1>8. DownStarter \in [pc : StarterPc, io : Io, todo : SUBSET Exec, cur : Exec \cup {NoExec}]
  BY DEF DownStarter, StarterPc, Io
<1>9. crashes' \in 0..MaxCrashes
  BY JobRunsAssumption DEF Inv, TypeOK, Crash
<1>10. OthersOK'
  BY <1>6, <1>7, <1>8, <1>9 DEF OthersOK, Inv, TypeOK, Crash
<1>11. NoStrandedQueue' /\ StartsFit /\ CancelledStay
  BY <1>1 DEF NoStrandedQueue, StartsFit, CancelledStay
<1> QED BY <1>5, <1>10, <1>11, Parts DEF StepOK

(* Every step keeps the invariant and obeys the two action properties. *)
LEMMA StepInv == ASSUME Inv, [Next]_vars PROVE StepOK
<1>1. CASE TriggerAsync \/ HandleTimerFire
  BY <1>1, RequestOK
<1>2. CASE CancelCurrentAsync
  BY <1>2, CancelOK
<1>3. CASE UpdateOptionsAsync
  BY <1>3, UpdateOK
<1>4. ASSUME NEW r \in RunId, RunStep(r) PROVE StepOK
  BY <1>4, StoreStepOK, AttemptStepOK, ReleaseOK DEF RunStep
<1>5. CASE DeleteExecutionAsync \/ DeleteExecutionsAsync \/ DeleteStep
  BY <1>5, DeleterOK
<1>6. CASE Start \/ StartStep
  BY <1>6, StarterOK
<1>7. CASE Crash
  BY <1>7, CrashOK
<1>8. CASE UNCHANGED vars
  <2>1. OthersOK'
    BY <1>8 DEF vars, Inv, TypeOK, OthersOK
  <2> QED BY <1>8, <2>1, SlotsKeptOK DEF vars
<1> QED BY <1>1, <1>2, <1>3, <1>4, <1>5, <1>6, <1>7, <1>8 DEF Next

(* The invariant holds before the first start(). *)
LEMMA InitInv == Init => Inv
<1> SUFFICES ASSUME Init PROVE Inv
  OBVIOUS
<1>1. run \in [RunId -> RunState] /\ RetriesLeft
  BY NewRunOK DEF Init, RunOK, RetriesLeft
<1>2. queued \in BOOLEAN /\ ~queued
  BY DEF Init
<1>3. SlotsOK
  BY <1>1, <1>2, JobRunsAssumption DEF Init, SlotsOK, Numbered
<1>4. opts \in Options
  BY JobRunsAssumption DEF Init, InitOptions, Options
<1>5. store \in [Exec -> StoreStatus] /\ announced \in [Exec -> {"no", "started", "ended"}]
  BY DEF Init, StoreStatus
<1>6. deleter \in [pc : DeleterPc, todo : SUBSET Exec, cur : Exec \cup {NoExec},
                   seen : StoreStatus]
  BY DEF Init, IdleDeleter, DeleterPc, StoreStatus
<1>7. starter \in [pc : StarterPc, io : Io, todo : SUBSET Exec, cur : Exec \cup {NoExec}]
  BY DEF Init, DownStarter, StarterPc, Io
<1>8. epoch \in Nat /\ requests \in 0..MaxRequests /\ crashes \in 0..MaxCrashes
  BY JobRunsAssumption DEF Init
<1>9. OthersOK
  BY <1>4, <1>5, <1>6, <1>7, <1>8 DEF OthersOK
<1> QED BY <1>2, <1>3, <1>9, Parts DEF NoStrandedQueue

-----------------------------------------------------------------------------
(* Theorems *)

(* The inductive invariant, of every behaviour of the scheduler. *)
THEOREM Invariance == Spec => []Inv
<1>1. Inv /\ [Next]_vars => Inv'
  BY StepInv DEF StepOK
<1> QED BY <1>1, InitInv, PTL DEF Spec

(* Types: run numbers and attempts stay within their bounds, whatever is
   triggered, cancelled, updated or rejected. *)
THEOREM TypeCorrect == Spec => []TypeOK
<1>1. Inv => TypeOK
  BY DEF Inv
<1> QED BY <1>1, Invariance, PTL

(* No queued run is left behind while a slot is free: every path that frees a
   slot or raises maxConcurrentRuns drains the queue. *)
THEOREM QueueNotStranded == Spec => []NoStrandedQueue
<1>1. Inv => NoStrandedQueue
  BY DEF Inv
<1> QED BY <1>1, Invariance, PTL

(* A run takes a slot only within maxConcurrentRuns, for every limit and
   however the limit changes while runs are going. *)
THEOREM LimitObeyed == Spec => NeverStartsOverLimit
<1>1. Inv /\ [Next]_vars => [~(runs' \subseteq runs) => Cardinality(runs') <= opts'.limit]_vars
  BY StepInv DEF StepOK, StartsFit
<1> QED BY <1>1, Invariance, PTL DEF Spec, NeverStartsOverLimit

(* A cancelled run makes no further attempt, wherever the cancellation finds it. *)
THEOREM CancelledRunsStop == Spec => CancelledNeverRetries
<1>1. Inv /\ [Next]_vars
        => [\A r \in runs \cap runs' : run[r].aborted => run'[r].attempt = run[r].attempt]_vars
  BY StepInv DEF StepOK, CancelledStay
<1> QED BY <1>1, Invariance, PTL DEF Spec, CancelledNeverRetries
-----------------------------------------------------------------------------
(* Executions and what the storage says of them *)


\* An attempt that has begun.
Used(e) == e[1] < nextRun /\ (e[1] \in runs => e[2] <= run[e[1]].attempt)

\* An attempt that its run has left.
Past(e) == Used(e) /\ ~Held(e)

\* The storage does not refuse the end of an attempt (the run's properties aside).
EndsAreSaved == StoreFaults \cap {"discard", "saveEnd", "saveBare"} = {}

Holding == {"saveStart", "executing", "discard", "saveEnd", "saveBare"}
Ending == {"discard", "saveEnd", "saveBare"}

\* What a run in state s knows of its execution: st in the store, an announced.
Works(s, st, an) ==
  /\ s.pc \in Holding => s.holds
  /\ s.pc = "saveStart" => an = "no" /\ st = (IF s.io = "ok" THEN "running" ELSE "none")
  /\ s.pc = "executing" => st = "running"
  /\ s.pc \in Ending => (st = "running" <=> s.io # "ok")
  /\ s.pc = "discard" => s.outcome = "completed"
  /\ s.pc = "saveBare" /\ s.io = "err" => ~EndsAreSaved
  /\ s.pc \in {"persist", "retryWait"} => st # "running"
  /\ s.pc = "settled" /\ EndsAreSaved => st # "running"

AtWork == \A r \in runs : Works(run[r], store[ExecOf(r)], announced[ExecOf(r)])

FreshUnknown == \A e \in Exec : ~Used(e) => store[e] = "none" /\ announced[e] = "no"

EndedIsOver == \A e \in Exec : announced[e] = "ended" => store[e] # "running"

RunningHasRun ==
  EndsAreSaved =>
    \A e \in Exec : Up /\ store[e] = "running" /\ e[1] >= epoch => Held(e)

\* The runs are this process's.
OwnRuns == epoch <= nextRun /\ (\A r \in runs : epoch <= r) /\ (~Up => runs = {})

\* What start() saw running has begun; what it is about to finish is past.
StarterKnows ==
  /\ starter.pc # "finish" => starter.todo = {}
  /\ \A e \in starter.todo : Used(e)
  /\ starter.pc = "finish" /\ starter.io = "pending" => starter.cur \in Exec /\ Past(starter.cur)

\* What the deleter found finished, and what it is about to delete.
DeleterKnows ==
  /\ deleter.pc \in {"read", "deleting"} => deleter.cur \in Exec
  /\ deleter.pc = "read" /\ deleter.seen \notin {"none", "running"} =>
       store[deleter.cur] \notin {"none", "running"}
  /\ deleter.pc = "deleting" =>
       Past(deleter.cur) /\ store[deleter.cur] \notin {"none", "running"}

\* Without an API during start(), nothing moves until it is done.
StartAlone ==
  ~ApiDuringStart =>
    /\ starter.pc \notin {"ready", "failed"} => runs = {} /\ deleter.pc = "idle"
    /\ \A e \in starter.todo : store[e] = "running"
    /\ starter.pc = "finish" /\ starter.io = "pending" =>
         store[starter.cur] = "running" /\ starter.cur \notin starter.todo

HistInv ==
  /\ Inv /\ AtWork /\ FreshUnknown /\ EndedIsOver /\ RunningHasRun /\ OwnRuns
  /\ StarterKnows /\ DeleterKnows /\ StartAlone /\ LiveNotInterrupted

\* What a step may do to the history, where nothing is served during start().
HistoryStep ==
  ~ApiDuringStart =>
    \A e \in Exec :
      /\ store[e] \notin {"none", "running"} => store'[e] \in {store[e], "none"}
      /\ store[e] = "none" /\ announced[e] # "no" => store'[e] = "none"
      /\ store[e] = "running" /\ store'[e] = "none" =>
           \E r \in runs : ExecOf(r) = e /\ run[r].pc = "discard" /\ run[r].outcome = "completed"

\* What every step does.
StepHist == HistInv' /\ HistoryStep

-----------------------------------------------------------------------------
(* Ownership *)

(* A run holds one execution. *)
LEMMA HeldIs ==
  ASSUME NEW rs \in SUBSET RunId, NEW rn, NEW e \in Exec
  PROVE  (\E r \in rs : rn[r].holds /\ <<r, rn[r].attempt>> = e)
           <=> (e[1] \in rs /\ rn[e[1]].holds /\ rn[e[1]].attempt = e[2])
<1>1. e = <<e[1], e[2]>>
  BY DEF Exec
<1>2. \A r \in rs : <<r, rn[r].attempt>> = e <=> r = e[1] /\ rn[r].attempt = e[2]
  BY <1>1
<1> QED BY <1>2

(* What a run knows it still knows with its controller aborted. *)
LEMMA AbortWorks ==
  ASSUME NEW s \in RunState, NEW st, NEW an, Works(s, st, an)
  PROVE  Works(Abort(s), st, an) /\ Abort(s).holds = s.holds /\ Abort(s).attempt = s.attempt
BY DEF Abort, Works, RunState, Holding, Ending

\* Runs start, go on and end; the store is left alone.
SlotMove ==
  /\ UNCHANGED <<store, announced, epoch>>
  /\ nextRun <= nextRun'
  /\ \A r \in runs' :
       \/ r \in runs /\ run'[r] \in {run[r], Abort(run[r])}
       \/ r = nextRun /\ run'[r] = NewRun /\ nextRun' = nextRun + 1
  /\ \/ \A r \in runs \ runs' : run[r].pc = "settled"
     \/ runs' = {} /\ starter'.pc = "down"
  /\ deleter' \in {deleter, IdleDeleter}
  /\ starter' \in {starter, DownStarter, [DownStarter EXCEPT !.pc = "ready"]}
  /\ runs' # {} => starter'.pc # "down"
  /\ Up' => Up
  /\ ~ApiDuringStart /\ starter'.pc \notin {"ready", "failed"} =>
       runs' = {} /\ deleter'.pc = "idle"

(* What begun executions are stays, and what is past stays past. *)
LEMMA SlotOwnership ==
  ASSUME HistInv, Inv', SlotMove
  PROVE  /\ \A e \in Exec : Used(e) => Used(e)'
         /\ \A e \in Exec : Past(e) => Past(e)'
         /\ \A e \in Exec : Held(e) => Held(e)' \/ run[e[1]].pc = "settled" \/ starter'.pc = "down"
<1>1. /\ runs \in SUBSET RunId /\ runs' \in SUBSET RunId /\ nextRun \in Nat /\ nextRun' \in Nat
      /\ \A r \in runs : r < nextRun
      /\ run \in [RunId -> RunState]
  BY DEF HistInv, Inv, TypeOK, Numbered
<1>2. \A r \in runs : Abort(run[r]).holds = run[r].holds /\ Abort(run[r]).attempt = run[r].attempt
  BY <1>1 DEF Abort, RunState
<1>3. \A r \in runs \cap runs' : run'[r].holds = run[r].holds /\ run'[r].attempt = run[r].attempt
  BY <1>1, <1>2, JobRunsAssumption DEF SlotMove, RunId
<1>4. \A r \in runs' \ runs : r = nextRun /\ nextRun' = nextRun + 1
  BY DEF SlotMove
<1>5. \A e \in Exec : e[1] \in RunId
  BY DEF Exec
<1>6. ASSUME NEW e \in Exec, Used(e) PROVE Used(e)'
  <2>1. e[1] < nextRun'
    BY <1>1, <1>5, <1>6, JobRunsAssumption DEF Used, SlotMove, RunId
  <2>2. ASSUME e[1] \in runs' PROVE e[2] <= run'[e[1]].attempt
    <3>1. e[1] \in runs
      BY <1>1, <1>4, <1>5, <1>6, <2>2, JobRunsAssumption DEF Used, RunId
    <3> QED BY <1>3, <1>6, <2>2, <3>1 DEF Used
  <2> QED BY <2>1, <2>2 DEF Used
<1>7. ASSUME NEW e \in Exec, Past(e) PROVE Past(e)'
  <2>1. Used(e)' /\ Used(e) /\ ~Held(e)
    BY <1>6, <1>7 DEF Past
  <2>2. Held(e)' => e[1] \in runs' /\ run'[e[1]].holds /\ run'[e[1]].attempt = e[2]
    BY <1>1, HeldIs DEF Held, ExecOf
  <2>3. e[1] \in runs /\ run[e[1]].holds /\ run[e[1]].attempt = e[2] => Held(e)
    BY <1>1, HeldIs DEF Held, ExecOf
  <2>4. e[1] \in runs' => e[1] \in runs
    BY <1>1, <1>4, <1>5, <2>1, JobRunsAssumption DEF Used, RunId
  <2>5. ~Held(e)'
    BY <1>3, <2>1, <2>2, <2>3, <2>4
  <2> QED BY <2>1, <2>5 DEF Past
<1>8. ASSUME NEW e \in Exec, Held(e)
      PROVE  Held(e)' \/ run[e[1]].pc = "settled" \/ starter'.pc = "down"
  <2>1. e[1] \in runs /\ run[e[1]].holds /\ run[e[1]].attempt = e[2]
    BY <1>1, <1>8, HeldIs DEF Held, ExecOf
  <2>2. CASE e[1] \in runs'
    <3>1. run'[e[1]].holds /\ run'[e[1]].attempt = e[2]
      BY <1>3, <2>1, <2>2
    <3> QED BY <1>1, <2>2, <3>1, HeldIs DEF Held, ExecOf
  <2>3. CASE e[1] \notin runs'
    BY <2>1, <2>3 DEF SlotMove
  <2> QED BY <2>2, <2>3
<1> QED BY <1>6, <1>7, <1>8

(* Starting, aborting and ending runs keeps what is known of the history. *)
LEMMA SlotMoveOK == ASSUME HistInv, Inv', SlotMove PROVE StepHist
<1> USE JobRunsAssumption
<1>1. /\ runs \in SUBSET RunId /\ runs' \in SUBSET RunId /\ nextRun \in Nat /\ nextRun' \in Nat
      /\ \A r \in runs : r < nextRun
      /\ run \in [RunId -> RunState] /\ epoch \in Nat
      /\ store' = store /\ announced' = announced /\ epoch' = epoch
  BY DEF HistInv, Inv, TypeOK, Numbered, SlotMove
<1>2. /\ \A e \in Exec : Used(e) => Used(e)'
      /\ \A e \in Exec : Past(e) => Past(e)'
      /\ \A e \in Exec : Held(e) => Held(e)' \/ run[e[1]].pc = "settled" \/ starter'.pc = "down"
  BY SlotOwnership
<1>3. ASSUME NEW r \in runs' PROVE Works(run'[r], store[<<r, run'[r].attempt>>],
                                          announced[<<r, run'[r].attempt>>])
  <2>1. CASE r \in runs /\ run'[r] \in {run[r], Abort(run[r])}
    <3>1. Works(run[r], store[ExecOf(r)], announced[ExecOf(r)]) /\ run[r] \in RunState
      BY <1>1, <2>1 DEF HistInv, AtWork
    <3>2. Works(Abort(run[r]), store[ExecOf(r)], announced[ExecOf(r)])
          /\ Abort(run[r]).attempt = run[r].attempt
      BY <3>1, AbortWorks
    <3> QED BY <2>1, <3>1, <3>2 DEF ExecOf
  <2>2. CASE r = nextRun /\ run'[r] = NewRun
    <3>1. <<r, 0>> \in Exec /\ ~Used(<<r, 0>>)
      BY <1>1, <2>2 DEF Exec, Used
    <3>2. store[<<r, 0>>] = "none" /\ announced[<<r, 0>>] = "no"
      BY <3>1 DEF HistInv, FreshUnknown
    <3>3. NewRun.attempt = 0 /\ NewRun.pc = "saveStart" /\ NewRun.io = "pending" /\ NewRun.holds
      BY DEF NewRun, IdleRun
    <3> QED BY <2>2, <3>2, <3>3 DEF Works, Ending
  <2> QED BY <2>1, <2>2 DEF SlotMove
<1>4. AtWork'
  BY <1>1, <1>3 DEF AtWork, ExecOf
<1>5. FreshUnknown' /\ EndedIsOver'
  BY <1>1, <1>2 DEF HistInv, FreshUnknown, EndedIsOver
<1>6. RunningHasRun'
  <2> SUFFICES ASSUME EndsAreSaved, NEW e \in Exec, Up', store[e] = "running", e[1] >= epoch
               PROVE  Held(e)'
    BY <1>1 DEF RunningHasRun
  <2>1. Held(e)
    BY DEF HistInv, RunningHasRun, SlotMove
  <2>2. e[1] \in runs /\ run[e[1]].attempt = e[2] /\ e = <<e[1], e[2]>>
    <3>1. e[1] \in runs /\ run[e[1]].attempt = e[2]
      BY <1>1, <2>1, HeldIs DEF Held, ExecOf
    <3> QED BY <3>1 DEF Exec
  <2>3. Works(run[e[1]], store[e], announced[e])
    BY <2>2 DEF HistInv, AtWork, ExecOf
  <2>4. run[e[1]].pc # "settled"
    BY <2>3 DEF Works
  <2> QED BY <1>2, <2>1, <2>4 DEF Up
<1>7. OwnRuns'
  <2>1. epoch <= nextRun' /\ \A r \in runs' : epoch <= r
    BY <1>1 DEF HistInv, OwnRuns, SlotMove, RunId
  <2>2. ~Up' => runs' = {}
    BY DEF SlotMove, Up
  <2> QED BY <1>1, <2>1, <2>2 DEF OwnRuns
<1>8. StarterKnows'
  <2>1. CASE starter' = starter
    <3>1. starter.todo \subseteq Exec
      BY DEF HistInv, Inv, TypeOK
    <3>2. /\ starter'.pc # "finish" => starter'.todo = {}
          /\ \A e \in starter'.todo : Used(e)'
      BY <1>2, <2>1, <3>1 DEF HistInv, StarterKnows
    <3>3. ASSUME NEW c \in Exec, c = starter.cur, Past(c) PROVE Past(starter.cur)'
      BY <1>2, <2>1, <3>3 DEF Past, Used, Held
    <3> QED BY <2>1, <3>2, <3>3 DEF HistInv, StarterKnows
  <2>2. CASE starter' \in {DownStarter, [DownStarter EXCEPT !.pc = "ready"]}
    BY <2>2 DEF StarterKnows, DownStarter
  <2> QED BY <2>1, <2>2 DEF SlotMove
<1>9. DeleterKnows'
  <2>1. CASE deleter' = deleter
    <3>1. ASSUME NEW c \in Exec, c = deleter.cur, Past(c) PROVE Past(deleter.cur)'
      BY <1>2, <2>1, <3>1 DEF Past, Used, Held
    <3> QED BY <1>1, <2>1, <3>1 DEF HistInv, DeleterKnows
  <2>2. CASE deleter' = IdleDeleter
    BY <2>2 DEF DeleterKnows, IdleDeleter
  <2> QED BY <2>1, <2>2 DEF SlotMove
<1>10. StartAlone'
  <2>1. CASE starter' = starter
    BY <1>1, <2>1 DEF HistInv, StartAlone, SlotMove
  <2>2. CASE starter' \in {DownStarter, [DownStarter EXCEPT !.pc = "ready"]}
    BY <2>2 DEF SlotMove, StartAlone, DownStarter
  <2> QED BY <2>1, <2>2 DEF SlotMove
<1>11. LiveNotInterrupted'
  <2> SUFFICES ASSUME NEW e \in Exec, store[e] = "interrupted" PROVE ~Held(e)'
    BY <1>1 DEF LiveNotInterrupted
  <2>1. ~Held(e) /\ Used(e)
    BY DEF HistInv, LiveNotInterrupted, FreshUnknown
  <2> QED BY <1>2, <2>1 DEF Past
<1>12. HistoryStep
  BY <1>1 DEF HistoryStep
<1> QED BY <1>4, <1>5, <1>6, <1>7, <1>8, <1>9, <1>10, <1>11, <1>12 DEF StepHist, HistInv

-----------------------------------------------------------------------------
(* The steps that move runs *)

\* The runs' part of SlotMove, when the process goes on.
RunsMove ==
  /\ nextRun <= nextRun'
  /\ \A r \in runs' :
       \/ r \in runs /\ run'[r] \in {run[r], Abort(run[r])}
       \/ r = nextRun /\ run'[r] = NewRun /\ nextRun' = nextRun + 1
  /\ \A r \in runs \ runs' : run[r].pc = "settled"

(* A run starts beside those that keep their slots. *)
LEMMA StartMoves ==
  ASSUME HistInv, NEW rs \in SUBSET runs, NEW rn \in [RunId -> RunState],
         StartRun(rs, rn), nextRun \in RunId,
         \A r \in rs : rn[r] \in {run[r], Abort(run[r])},
         \A r \in runs \ rs : run[r].pc = "settled"
  PROVE  RunsMove
<1>1. runs \in SUBSET RunId /\ nextRun \in Nat /\ \A r \in runs : r < nextRun
  BY DEF HistInv, Inv, TypeOK, Numbered
<1>2. \A r \in rs : r # nextRun
  BY <1>1, JobRunsAssumption DEF RunId
<1>3. run'[nextRun] = NewRun /\ \A r \in rs : run'[r] = rn[r]
  BY <1>1, <1>2 DEF StartRun
<1>4. runs' = rs \cup {nextRun} /\ nextRun' = nextRun + 1 /\ nextRun <= nextRun'
  BY <1>1 DEF StartRun
<1>5. ASSUME NEW r \in runs'
      PROVE  \/ r \in runs /\ run'[r] \in {run[r], Abort(run[r])}
             \/ r = nextRun /\ run'[r] = NewRun /\ nextRun' = nextRun + 1
  <2>1. CASE r \in rs
    BY <1>3, <2>1
  <2>2. CASE r = nextRun
    BY <1>3, <1>4, <2>2
  <2> QED BY <1>4, <2>1, <2>2
<1>6. \A r \in runs \ runs' : run[r].pc = "settled"
  BY <1>4
<1> QED BY <1>4, <1>5, <1>6 DEF RunsMove

(* A due run starts, is left out, or is queued with at most one run aborted. *)
LEMMA TryStartMoves ==
  ASSUME HistInv, TryStart, requests < MaxRequests
  PROVE  RunsMove
<1>1. /\ runs \in SUBSET RunId /\ run \in [RunId -> RunState] /\ nextRun \in Nat
      /\ requests \in Nat /\ nextRun >= 1 /\ nextRun <= requests + 1
  BY JobRunsAssumption DEF HistInv, Inv, TypeOK, Numbered
<1>2. CASE StartRun(runs, run)
  <2>1. nextRun \in RunId
    BY <1>1, JobRunsAssumption DEF RunId
  <2> QED BY <1>1, <1>2, <2>1, StartMoves
<1>3. CASE UNCHANGED <<runs, nextRun>> /\ UNCHANGED run
  BY <1>1, <1>3 DEF RunsMove
<1>4. ASSUME NEW q \in RunId, UNCHANGED <<runs, nextRun>>, run' = [run EXCEPT ![q] = Abort(@)]
      PROVE  RunsMove
  BY <1>1, <1>4 DEF RunsMove
<1> QED BY <1>2, <1>3, <1>4 DEF TryStart

(* The queue is drained into the slots that are left. *)
LEMMA DrainMoves ==
  ASSUME HistInv, NEW rs \in SUBSET runs, NEW rn \in [RunId -> RunState], NEW limit,
         DrainQueue(rs, rn, limit),
         \A r \in rs : rn[r] = run[r],
         \A r \in runs \ rs : run[r].pc = "settled"
  PROVE  RunsMove
<1>1. CASE queued /\ StartRun(rs, rn)
  <2>1. nextRun \in RunId
    BY <1>1, JobRunsAssumption DEF HistInv, Inv, TypeOK, Numbered, RunId
  <2> QED BY <1>1, <2>1, StartMoves
<1>2. CASE runs' = rs /\ run' = rn /\ UNCHANGED nextRun
  <2>1. nextRun \in Nat
    BY DEF HistInv, Inv, TypeOK
  <2> QED BY <1>2, <2>1 DEF RunsMove
<1> QED BY <1>1, <1>2 DEF DrainQueue

(* The steps of the process that move runs and leave the rest alone. *)
LEMMA RunsMoveOK ==
  ASSUME HistInv, Inv', RunsMove, UNCHANGED <<store, announced, epoch, deleter>>,
         \/ UNCHANGED starter /\ (runs' # {} => Up)
            /\ (~ApiDuringStart /\ starter.pc \notin {"ready", "failed"} => runs' = {})
         \/ starter.pc = "finish" /\ starter' = [DownStarter EXCEPT !.pc = "ready"]
  PROVE  StepHist
<1>1. CASE /\ UNCHANGED starter /\ (runs' # {} => Up)
           /\ (~ApiDuringStart /\ starter.pc \notin {"ready", "failed"} => runs' = {})
  BY <1>1, SlotMoveOK DEF SlotMove, RunsMove, Up, HistInv, StartAlone
<1>2. CASE starter.pc = "finish" /\ starter' = [DownStarter EXCEPT !.pc = "ready"]
  BY <1>2, SlotMoveOK DEF SlotMove, RunsMove, Up, DownStarter
<1> QED BY <1>1, <1>2

(* Requests. *)
LEMMA RequestsOK ==
  ASSUME HistInv, Inv',
         TriggerAsync \/ HandleTimerFire \/ CancelCurrentAsync \/ UpdateOptionsAsync
  PROVE  StepHist
<1>1. runs \in SUBSET RunId /\ run \in [RunId -> RunState] /\ nextRun \in Nat
  BY DEF HistInv, Inv, TypeOK
<1>2. CASE TriggerAsync
  BY <1>2, TryStartMoves, RunsMoveOK DEF TriggerAsync, DueRun, ApiOpen
<1>3. CASE HandleTimerFire
  BY <1>3, TryStartMoves, RunsMoveOK DEF HandleTimerFire, DueRun, Up
<1>4. CASE CancelCurrentAsync
  <2>1. RunsMove
    BY <1>1, <1>4 DEF RunsMove, CancelCurrentAsync, CancelAll
  <2> QED BY <1>4, <2>1, RunsMoveOK DEF CancelCurrentAsync, ApiOpen
<1>5. CASE UpdateOptionsAsync
  <2>1. RunsMove
    BY <1>1, <1>5, DrainMoves DEF UpdateOptionsAsync
  <2> QED BY <1>5, <2>1, RunsMoveOK DEF UpdateOptionsAsync, ApiOpen
<1> QED BY <1>2, <1>3, <1>4, <1>5

(* The end of a run. *)
LEMMA ReleaseKeeps == ASSUME HistInv, Inv', NEW r \in RunId, ReleaseSlot(r) PROVE StepHist
<1>1. runs \in SUBSET RunId /\ run \in [RunId -> RunState]
  BY DEF HistInv, Inv, TypeOK
<1>2. [run EXCEPT ![r] = IdleRun] \in [RunId -> RunState]
  BY <1>1, NewRunOK DEF RunOK
<1>3. RunsMove
  <2>1. runs \ {r} \in SUBSET runs /\ \A q \in runs \ {r} : [run EXCEPT ![r] = IdleRun][q] = run[q]
    BY <1>1
  <2>2. \A q \in runs \ (runs \ {r}) : run[q].pc = "settled"
    BY DEF ReleaseSlot
  <2> QED BY <1>2, <2>1, <2>2, DrainMoves DEF ReleaseSlot
<1>4. Up /\ (~ApiDuringStart => starter.pc \in {"ready", "failed"})
  BY DEF HistInv, OwnRuns, StartAlone, ReleaseSlot
<1> QED BY <1>3, <1>4, RunsMoveOK DEF ReleaseSlot

(* start() is done, with or without a run at once. *)
LEMMA DoneKeeps == ASSUME HistInv, Inv', StartDone PROVE StepHist
<1>1. runs \in SUBSET RunId /\ run \in [RunId -> RunState] /\ nextRun \in Nat
  BY DEF HistInv, Inv, TypeOK
<1>2. RunsMove
  <2>1. CASE DueRun
    BY <2>1, TryStartMoves DEF DueRun
  <2>2. CASE UNCHANGED <<runs, run, nextRun>>
    BY <1>1, <2>2 DEF RunsMove
  <2> QED BY <2>1, <2>2 DEF StartDone
<1> QED BY <1>2, RunsMoveOK DEF StartDone

(* A crash ends every run. *)
LEMMA CrashKeeps == ASSUME HistInv, Inv', Crash PROVE StepHist
<1>1. nextRun \in Nat
  BY DEF HistInv, Inv, TypeOK
<1>2. SlotMove
  BY <1>1 DEF Crash, SlotMove, DownStarter, IdleDeleter, Up
<1> QED BY <1>2, SlotMoveOK

-----------------------------------------------------------------------------
(* The steps of a run *)

(* A run that goes on with the same attempt, and what it may write meanwhile. *)
LEMMA RunGoesOn ==
  ASSUME HistInv, Inv', NEW r \in runs, NEW s \in RunState, NEW st, NEW an,
         Continue(r, s),
         store' = [store EXCEPT ![ExecOf(r)] = st],
         announced' = [announced EXCEPT ![ExecOf(r)] = an],
         s.attempt = run[r].attempt,
         s.holds => run[r].holds,
         Works(s, st, an),
         an = "ended" => st # "running",
         EndsAreSaved /\ st = "running" => s.holds,
         st # store[ExecOf(r)] => /\ store[ExecOf(r)] \in {"none", "running"}
                                  /\ st # "interrupted",
         store[ExecOf(r)] = "none" /\ announced[ExecOf(r)] # "no" => st = "none",
         store[ExecOf(r)] = "running" /\ st = "none" =>
           run[r].pc = "discard" /\ run[r].outcome = "completed"
  PROVE  StepHist
<1> DEFINE x == ExecOf(r)
<1>1. /\ runs \in SUBSET RunId /\ run \in [RunId -> RunState] /\ r \in RunId
      /\ x \in Exec /\ x = <<r, run[r].attempt>> /\ Used(x)
      /\ store \in [Exec -> StoreStatus]
      /\ announced \in [Exec -> {"no", "started", "ended"}]
  <2>1. /\ runs \in SUBSET RunId /\ run \in [RunId -> RunState] /\ r \in RunId
        /\ x = <<r, run[r].attempt>> /\ r < nextRun /\ run[r].attempt \in 0..MaxRetries
        /\ store \in [Exec -> StoreStatus]
        /\ announced \in [Exec -> {"no", "started", "ended"}]
    BY DEF HistInv, Inv, TypeOK, Numbered, ExecOf, RunState
  <2> QED BY <2>1, JobRunsAssumption DEF Exec, Used
<1>2. /\ runs' = runs /\ run' = [run EXCEPT ![r] = s] /\ nextRun' = nextRun /\ epoch' = epoch
      /\ deleter' = deleter /\ starter' = starter
      /\ store'[x] = st /\ \A e \in Exec : e # x => store'[e] = store[e]
      /\ announced'[x] = an /\ \A e \in Exec : e # x => announced'[e] = announced[e]
  BY <1>1 DEF Continue
<1>3. \A q \in runs : run'[q].attempt = run[q].attempt /\ (run'[q].holds => run[q].holds)
  BY <1>1, <1>2
<1>4. \A e \in Exec : Used(e)' <=> Used(e)
  BY <1>2, <1>3 DEF Used
<1>5. \A e \in Exec : Held(e)' => Held(e)
  BY <1>2, <1>3 DEF Held, ExecOf
<1>6. \A e \in Exec : Past(e) => Past(e)'
  BY <1>4, <1>5 DEF Past
<1>7. \A e \in Exec : e # x => (Held(e) => Held(e)')
  <2> SUFFICES ASSUME NEW e \in Exec, e # x, NEW q \in runs, run[q].holds, ExecOf(q) = e
               PROVE  Held(e)'
    BY DEF Held
  <2>1. q # r
    OBVIOUS
  <2>2. run'[q] = run[q]
    BY <1>1, <1>2, <2>1
  <2> QED BY <1>2, <2>2 DEF Held, ExecOf
<1>8. \A e \in Exec : e = x /\ s.holds => Held(e)'
  BY <1>1, <1>2 DEF Held, ExecOf
<1> HIDE DEF x
<1>9. AtWork'
  <2> SUFFICES ASSUME NEW q \in runs
               PROVE  Works(run'[q], store'[<<q, run'[q].attempt>>],
                            announced'[<<q, run'[q].attempt>>])
    BY <1>2 DEF AtWork, ExecOf
  <2>1. CASE q = r
    BY <1>1, <1>2, <2>1
  <2>2. CASE q # r
    <3>1. <<q, run[q].attempt>> # x /\ <<q, run[q].attempt>> \in Exec /\ run'[q] = run[q]
      BY <1>1, <1>2, <2>2 DEF Exec, RunState
    <3>2. Works(run[q], store[<<q, run[q].attempt>>], announced[<<q, run[q].attempt>>])
      BY DEF HistInv, AtWork, ExecOf
    <3> QED BY <1>2, <3>1, <3>2
  <2> QED BY <2>1, <2>2
<1>10. FreshUnknown' /\ EndedIsOver'
  <2>1. \A e \in Exec : e = x \/ (store'[e] = store[e] /\ announced'[e] = announced[e])
    BY <1>2
  <2> QED BY <1>1, <1>2, <1>4, <2>1 DEF HistInv, FreshUnknown, EndedIsOver
<1>11. RunningHasRun'
  <2> SUFFICES ASSUME EndsAreSaved, NEW e \in Exec, Up, store'[e] = "running", e[1] >= epoch
               PROVE  Held(e)'
    BY <1>2 DEF RunningHasRun, Up
  <2>1. CASE e = x
    BY <1>2, <1>8, <2>1
  <2>2. CASE e # x
    BY <1>2, <1>7, <2>2 DEF HistInv, RunningHasRun
  <2> QED BY <2>1, <2>2
<1>12. OwnRuns'
  BY <1>2 DEF HistInv, OwnRuns, Up
<1>13. StarterKnows'
  <2>1. starter.todo \subseteq Exec
    BY DEF HistInv, Inv, TypeOK
  <2>2. ASSUME NEW c \in Exec, c = starter.cur, Past(c) PROVE Past(starter.cur)'
    BY <1>2, <1>6, <2>2 DEF Past, Used, Held
  <2>3. /\ starter'.pc # "finish" => starter'.todo = {}
        /\ \A e \in starter'.todo : Used(e)'
    BY <1>2, <1>4, <2>1 DEF HistInv, StarterKnows
  <2> QED BY <1>2, <2>2, <2>3 DEF HistInv, StarterKnows
<1>14. DeleterKnows'
  <2>1. ASSUME NEW c \in Exec, c = deleter.cur, Past(c) PROVE Past(deleter.cur)'
    BY <1>2, <1>6, <2>1 DEF Past, Used, Held
  <2>2. ASSUME NEW c \in Exec, store[c] \notin {"none", "running"}
        PROVE  store'[c] \notin {"none", "running"}
    BY <1>2, <2>2 DEF x
  <2> QED BY <1>2, <2>1, <2>2 DEF HistInv, DeleterKnows
<1>15. StartAlone'
  BY <1>2 DEF HistInv, StartAlone, StarterKnows
<1>16. LiveNotInterrupted'
  BY <1>2, <1>5 DEF HistInv, LiveNotInterrupted, x
<1>17. HistoryStep
  <2> SUFFICES ASSUME NEW e \in Exec
               PROVE  /\ store[e] \notin {"none", "running"} => store'[e] \in {store[e], "none"}
                      /\ store[e] = "none" /\ announced[e] # "no" => store'[e] = "none"
                      /\ store[e] = "running" /\ store'[e] = "none" =>
                           \E q \in runs : /\ ExecOf(q) = e
                                           /\ run[q].pc = "discard" /\ run[q].outcome = "completed"
    BY DEF HistoryStep
  <2>1. CASE e = x
    BY <1>2, <2>1 DEF x
  <2>2. CASE e # x
    BY <1>2, <2>2
  <2> QED BY <2>1, <2>2
<1> QED BY <1>9, <1>10, <1>11, <1>12, <1>13, <1>14, <1>15, <1>16, <1>17 DEF StepHist, HistInv

(* What a run knows of its execution, and the types of both. *)
LEMMA RunKnows ==
  ASSUME HistInv, NEW r \in runs
  PROVE  /\ r \in RunId /\ run[r] \in RunState /\ ExecOf(r) \in Exec /\ RunOK(run[r])
         /\ Works(run[r], store[ExecOf(r)], announced[ExecOf(r)])
         /\ store = [store EXCEPT ![ExecOf(r)] = store[ExecOf(r)]]
         /\ announced = [announced EXCEPT ![ExecOf(r)] = announced[ExecOf(r)]]
         /\ announced[ExecOf(r)] = "ended" => store[ExecOf(r)] # "running"
<1>1. r \in RunId /\ RunOK(run[r]) /\ ExecOf(r) \in Exec
  BY RunIsOK DEF HistInv
<1>2. store \in [Exec -> StoreStatus] /\ announced \in [Exec -> {"no", "started", "ended"}]
  BY DEF HistInv, Inv, TypeOK
<1>3. Works(run[r], store[ExecOf(r)], announced[ExecOf(r)])
  BY DEF HistInv, AtWork
<1> QED BY <1>1, <1>2, <1>3 DEF RunOK, HistInv, EndedIsOver

(* A step of a run that leaves the storage alone. *)
LEMMA RunWaits ==
  ASSUME HistInv, Inv', NEW r \in runs, NEW s \in RunState, NEW an,
         Continue(r, s), UNCHANGED store,
         announced' = [announced EXCEPT ![ExecOf(r)] = an],
         s.attempt = run[r].attempt,
         s.holds => run[r].holds,
         Works(s, store[ExecOf(r)], an),
         an = "ended" => store[ExecOf(r)] # "running",
         EndsAreSaved /\ store[ExecOf(r)] = "running" => s.holds
  PROVE  StepHist
<1> DEFINE st == store[ExecOf(r)]
<1>1. store' = [store EXCEPT ![ExecOf(r)] = st]
  BY RunKnows
<1> QED BY <1>1, RunGoesOn

(* The storage's side of a run's calls. *)
LEMMA StoreStepKeeps ==
  ASSUME HistInv, Inv', NEW r \in RunId,
         StoreRejects(r) \/ StoreSaves(r) \/ StoreDiscards(r) \/ StorePersists(r)
  PROVE  StepHist
<1> DEFINE S(i) == [run[r] EXCEPT !.io = i]
           w == store[ExecOf(r)]
           a == announced[ExecOf(r)]
<1>1. r \in runs /\ run[r].io = "pending"
  BY DEF StoreRejects, StoreSaves, StoreDiscards, StorePersists
<1>2. run[r] \in RunState /\ Works(run[r], w, a) /\ (a = "ended" => w # "running")
      /\ announced = [announced EXCEPT ![ExecOf(r)] = a]
  BY <1>1, RunKnows
<1>3. ASSUME NEW i \in {"ok", "kept", "err"}
      PROVE  /\ S(i) \in RunState /\ S(i).attempt = run[r].attempt
             /\ S(i).holds = run[r].holds /\ S(i).pc = run[r].pc /\ S(i).io = i
             /\ S(i).outcome = run[r].outcome
  BY <1>2 DEF RunState, Io
<1>4. CASE StoreRejects(r)
  <2>1. Works(S("err"), w, a)
    BY <1>1, <1>2, <1>3, <1>4 DEF Works, StoreRejects, MayReject, EndsAreSaved, Ending, Holding
  <2>2. EndsAreSaved /\ w = "running" => run[r].holds
    BY <1>1, <1>2, <1>4, JobRunsAssumption
       DEF Works, StoreRejects, MayReject, Faults, Ending, Holding, RunState, RunPc
  <2> QED BY <1>1, <1>2, <1>3, <1>4, <2>1, <2>2, RunWaits DEF StoreRejects
<1>5. CASE StoreSaves(r)
  <2>1. Works(S("ok"), Stored(run[r]), a) /\ run[r].holds
    BY <1>1, <1>2, <1>3, <1>5 DEF Works, StoreSaves, Stored, Ending, Holding, RunState, Final
  <2>2. /\ a = "ended" => Stored(run[r]) # "running"
        /\ Stored(run[r]) # "interrupted" /\ Stored(run[r]) # "none"
        /\ w \in {"none", "running"}
        /\ w = "none" => a = "no"
    BY <1>1, <1>2, <1>5 DEF Works, StoreSaves, Stored, Ending, Holding, RunState, Final
  <2>3. /\ Continue(r, S("ok")) /\ store' = [store EXCEPT ![ExecOf(r)] = Stored(run[r])]
        /\ announced' = [announced EXCEPT ![ExecOf(r)] = a]
    BY <1>2, <1>5 DEF StoreSaves
  <2> HIDE DEF S
  <2> QED BY <1>1, <1>3, <2>1, <2>2, <2>3, RunGoesOn
<1>6. CASE StoreDiscards(r)
  <2>1. run[r].pc = "discard" /\ run[r].holds /\ w = "running" /\ run[r].outcome = "completed"
    BY <1>1, <1>2, <1>6 DEF Works, StoreDiscards, Ending, Holding
  <2>2. CASE store' = [store EXCEPT ![ExecOf(r)] = "none"] /\ Continue(r, S("ok"))
    <3>1. Works(S("ok"), "none", a)
      BY <1>3, <2>1 DEF Works, Ending, Holding
    <3>2. announced' = [announced EXCEPT ![ExecOf(r)] = a]
      BY <1>2, <1>6 DEF StoreDiscards
    <3> DEFINE s == S("ok")
               st == "none"
    <3>3. s \in RunState /\ s.attempt = run[r].attempt /\ s.holds
      BY <1>3, <2>1
    <3>4. Continue(r, s) /\ store' = [store EXCEPT ![ExecOf(r)] = st] /\ Works(s, st, a)
      BY <2>2, <3>1
    <3> HIDE DEF s, S
    <3> QED BY <1>1, <2>1, <3>2, <3>3, <3>4, RunGoesOn
  <2>3. CASE UNCHANGED store /\ Continue(r, S("kept"))
    <3>1. Works(S("kept"), w, a)
      BY <1>2, <1>3, <2>1 DEF Works, Ending, Holding
    <3> QED BY <1>1, <1>2, <1>3, <1>6, <2>1, <2>3, <3>1, RunWaits DEF StoreDiscards
  <2> QED BY <1>6, <2>2, <2>3 DEF StoreDiscards
<1>7. CASE StorePersists(r)
  <2>1. Works(S("ok"), w, a) /\ w # "running"
    BY <1>2, <1>3, <1>7 DEF Works, StorePersists, Ending, Holding
  <2> QED BY <1>1, <1>2, <1>3, <1>7, <2>1, RunWaits DEF StorePersists
<1> QED BY <1>4, <1>5, <1>6, <1>7

(* A run's own steps, up to the wait for a retry. *)
LEMMA AttemptStepKeeps ==
  ASSUME HistInv, Inv', NEW r \in RunId,
         StartSaved(r) \/ TimeoutFires(r) \/ JobEnds(r) \/ EndSaved(r) \/ StatePersisted(r)
  PROVE  StepHist
<1> DEFINE w == store[ExecOf(r)]
           a == announced[ExecOf(r)]
<1>1. r \in runs
  BY DEF StartSaved, TimeoutFires, JobEnds, EndSaved, StatePersisted
<1>2. /\ run[r] \in RunState /\ RunOK(run[r]) /\ Works(run[r], w, a)
      /\ announced = [announced EXCEPT ![ExecOf(r)] = a]
      /\ (a = "ended" => w # "running")
  BY <1>1, RunKnows
<1>3. CASE StartSaved(r)
  <2>1. /\ run[r].pc = "saveStart" /\ run[r].holds
        /\ w = (IF run[r].io = "ok" THEN "running" ELSE "none")
    BY <1>2, <1>3 DEF StartSaved, Works, Holding
  <2>2. CASE run[r].io = "ok"
    <3> DEFINE s == [run[r] EXCEPT !.pc = "executing", !.io = "none"]
    <3>1. /\ s \in RunState /\ s.attempt = run[r].attempt
          /\ s.holds = run[r].holds /\ s.pc = "executing"
      BY <1>2 DEF RunState, RunPc, Io
    <3>2. Works(s, w, "started")
      BY <2>1, <2>2, <3>1 DEF Works, Holding, Ending
    <3>3. Continue(r, s) /\ UNCHANGED store
          /\ announced' = [announced EXCEPT ![ExecOf(r)] = "started"]
      BY <1>3, <2>2 DEF StartSaved
    <3> HIDE DEF s
    <3> QED BY <1>1, <2>1, <3>1, <3>2, <3>3, RunWaits
  <2>3. CASE run[r].io # "ok"
    <3>1. /\ Fail(run[r]) \in RunState /\ Fail(run[r]).attempt = run[r].attempt
          /\ Fail(run[r]).holds = run[r].holds /\ Fail(run[r]).pc = "settled"
      BY <1>2 DEF RunState, RunPc, Io, Fail, Forget
    <3>2. Works(Fail(run[r]), w, a)
      BY <2>1, <2>3, <3>1 DEF Works, Holding, Ending
    <3> QED BY <1>1, <1>2, <1>3, <2>1, <2>3, <3>1, <3>2, RunWaits DEF StartSaved
  <2> QED BY <2>2, <2>3
<1>4. CASE TimeoutFires(r)
  <2> DEFINE s == [run[r] EXCEPT !.timedOut = TRUE]
  <2>1. /\ s \in RunState /\ s.attempt = run[r].attempt /\ s.holds = run[r].holds
        /\ s.pc = run[r].pc /\ s.io = run[r].io /\ s.outcome = run[r].outcome
    BY <1>2 DEF RunState
  <2>2. Works(s, w, a) /\ run[r].holds
    BY <1>2, <1>4, <2>1 DEF Works, TimeoutFires, Holding
  <2>3. Continue(r, s) /\ UNCHANGED <<store, announced>>
    BY <1>4 DEF TimeoutFires
  <2> HIDE DEF s
  <2> QED BY <1>1, <1>2, <2>1, <2>2, <2>3, RunWaits
<1>5. CASE JobEnds(r)
  <2>1. PICK returned \in BOOLEAN, d \in BOOLEAN :
          Continue(r, [run[r] EXCEPT !.pc = AfterJob(d, FinalStatus(run[r], returned)),
                                     !.io = "pending",
                                     !.outcome = FinalStatus(run[r], returned)])
    BY <1>5 DEF JobEnds
  <2> DEFINE o == FinalStatus(run[r], returned)
             p == AfterJob(d, o)
             s == [run[r] EXCEPT !.pc = p, !.io = "pending", !.outcome = o]
  <2>2. o \in Final /\ p \in {"discard", "saveEnd"} /\ (p = "discard" => o = "completed")
    BY <1>2 DEF FinalStatus, AfterJob, Final, RunState
  <2> HIDE DEF o, p
  <2>3. /\ s \in RunState /\ s.attempt = run[r].attempt /\ s.holds = run[r].holds
        /\ s.pc = p /\ s.io = "pending" /\ s.outcome = o
    BY <1>2, <2>2 DEF RunState, RunPc, Io
  <2>4. w = "running" /\ run[r].holds
    BY <1>2, <1>5 DEF JobEnds, Works, Holding
  <2>5. Works(s, w, a)
    BY <2>2, <2>3, <2>4 DEF Works, Holding, Ending
  <2>6. Continue(r, s) /\ UNCHANGED <<store, announced>>
    BY <1>5, <2>1 DEF JobEnds, o, p
  <2> HIDE DEF s
  <2> QED BY <1>1, <1>2, <2>3, <2>4, <2>5, <2>6, RunWaits
<1>6. CASE EndSaved(r)
  <2>1. run[r].pc \in Ending /\ run[r].holds /\ (w = "running" <=> run[r].io # "ok")
    BY <1>2, <1>6 DEF EndSaved, Works, Ending, Holding
  <2>2. ASSUME NEW s \in RunState, s.attempt = run[r].attempt, Continue(r, s),
               s.holds => run[r].holds, Works(s, w, a),
               EndsAreSaved /\ w = "running" => s.holds
        PROVE  StepHist
    BY <1>1, <1>2, <1>6, <2>2, RunWaits DEF EndSaved
  <2>3. CASE run[r].io = "ok" /\ Continue(r, Persist(run[r]))
    <3>1. /\ Persist(run[r]) \in RunState /\ Persist(run[r]).attempt = run[r].attempt
          /\ ~Persist(run[r]).holds /\ Persist(run[r]).pc = "persist"
      BY <1>2 DEF Persist, Forget, RunState, RunPc, Io
    <3>2. Works(Persist(run[r]), w, a)
      BY <2>1, <2>3, <3>1 DEF Works, Holding, Ending
    <3> QED BY <2>1, <2>2, <2>3, <3>1, <3>2
  <2>4. ASSUME NEW p \in {"saveEnd", "saveBare"}, run[r].io # "ok",
               Continue(r, [run[r] EXCEPT !.pc = p, !.io = "pending"])
        PROVE  StepHist
    <3> DEFINE s == [run[r] EXCEPT !.pc = p, !.io = "pending"]
    <3>1. /\ s \in RunState /\ s.attempt = run[r].attempt /\ s.holds = run[r].holds
          /\ s.pc = p /\ s.io = "pending"
      BY <1>2 DEF RunState, RunPc, Io
    <3>2. Works(s, w, a)
      BY <2>1, <2>4, <3>1 DEF Works, Holding, Ending
    <3> HIDE DEF s
    <3> QED BY <2>1, <2>2, <2>4, <3>1, <3>2 DEF s
  <2>5. CASE Continue(r, Fail(run[r])) /\ ~EndsAreSaved
    <3>1. /\ Fail(run[r]) \in RunState /\ Fail(run[r]).attempt = run[r].attempt
          /\ Fail(run[r]).holds = run[r].holds /\ Fail(run[r]).pc = "settled"
      BY <1>2 DEF RunState, RunPc, Io, Fail, Forget
    <3>2. Works(Fail(run[r]), w, a)
      BY <2>1, <2>5, <3>1 DEF Works, Holding, Ending
    <3> QED BY <2>1, <2>2, <2>5, <3>1, <3>2
  <2>6. run[r].pc = "saveBare" /\ run[r].io = "err" => ~EndsAreSaved
    BY <1>2 DEF Works
  <2>7. run[r].pc \in StoreFaults => ~EndsAreSaved
    BY <2>1 DEF EndsAreSaved, Ending
  <2> QED BY <1>6, <2>3, <2>4, <2>5, <2>6, <2>7 DEF EndSaved, AfterError
<1>7. CASE StatePersisted(r)
  <2> DEFINE s == [run[r] EXCEPT !.io = "none",
                     !.pc = IF Retries(run[r], opts.retries) THEN "retryWait" ELSE "settled"]
  <2>1. /\ s \in RunState /\ s.attempt = run[r].attempt /\ s.holds = run[r].holds
        /\ s.pc \in {"retryWait", "settled"}
    BY <1>2 DEF RunState, RunPc, Io
  <2>2. w # "running"
    BY <1>2, <1>7 DEF StatePersisted, Works
  <2>3. Works(s, w, "ended")
    BY <2>1, <2>2 DEF Works, Holding, Ending
  <2>4. Continue(r, s) /\ UNCHANGED store /\ announced' = [announced EXCEPT ![ExecOf(r)] = "ended"]
    BY <1>7 DEF StatePersisted
  <2> HIDE DEF s
  <2> QED BY <1>1, <2>1, <2>2, <2>3, <2>4, RunWaits
<1> QED BY <1>3, <1>4, <1>5, <1>6, <1>7

(* The end of the delay: the run ends or begins an attempt nobody has heard of. *)
LEMMA RetryKeeps ==
  ASSUME HistInv, Inv', NEW r \in RunId, RetryDelayEnds(r)
  PROVE  StepHist
<1> DEFINE w == store[ExecOf(r)]
           a == announced[ExecOf(r)]
<1>1. r \in runs /\ run[r].pc = "retryWait" /\ UNCHANGED <<store, announced>>
  BY DEF RetryDelayEnds
<1>2. /\ run[r] \in RunState /\ RunOK(run[r]) /\ Works(run[r], w, a)
      /\ announced = [announced EXCEPT ![ExecOf(r)] = a]
      /\ (a = "ended" => w # "running")
  BY <1>1, RunKnows
<1>3. w # "running"
  BY <1>1, <1>2 DEF Works
<1>4. CASE run[r].aborted
  <2> DEFINE s == [run[r] EXCEPT !.pc = "settled"]
  <2>1. s \in RunState /\ s.attempt = run[r].attempt /\ s.holds = run[r].holds /\ s.pc = "settled"
    BY <1>2 DEF RunState, RunPc
  <2>2. Works(s, w, a)
    BY <1>3, <2>1 DEF Works, Holding, Ending
  <2>3. Continue(r, s)
    BY <1>4 DEF RetryDelayEnds, NextAttempt
  <2> HIDE DEF s
  <2> QED BY <1>1, <1>2, <1>3, <2>1, <2>2, <2>3, RunWaits
<1>5. CASE ~run[r].aborted
  <2> DEFINE k == run[r].attempt
             s == [NewRun EXCEPT !.attempt = k + 1]
             y == <<r, k + 1>>
  <2>1. /\ runs \in SUBSET RunId /\ run \in [RunId -> RunState] /\ r < nextRun
        /\ starter.todo \subseteq Exec
    BY <1>1 DEF HistInv, Inv, TypeOK, Numbered
  <2>2. k \in 0..MaxRetries /\ k < MaxRetries
    BY <1>1, <1>2 DEF RunOK, RunState
  <2>3. y \in Exec /\ y[1] = r /\ y[2] = k + 1 /\ k + 1 > k
    BY <2>2, JobRunsAssumption DEF Exec
  <2>4. store[y] = "none" /\ announced[y] = "no"
    BY <1>1, <2>2, <2>3 DEF HistInv, FreshUnknown, Used
  <2>5. s.pc = "saveStart" /\ s.io = "pending" /\ s.holds /\ s.attempt = k + 1
    BY DEF NewRun, IdleRun
  <2>6. Works(s, store[y], announced[y])
    BY <2>4, <2>5 DEF Works, Holding, Ending
  <2>7. /\ runs' = runs /\ run' = [run EXCEPT ![r] = s] /\ nextRun' = nextRun /\ epoch' = epoch
        /\ deleter' = deleter /\ starter' = starter /\ store' = store /\ announced' = announced
    BY <1>1, <1>5 DEF RetryDelayEnds, NextAttempt, Continue
  <2> HIDE DEF s, k
  <2>8. \A e \in Exec : Used(e) => Used(e)'
    <3> SUFFICES ASSUME NEW e \in Exec, Used(e) PROVE Used(e)'
      OBVIOUS
    <3>1. e[2] \in Nat
      BY JobRunsAssumption DEF Exec
    <3>2. e[1] \in runs => e[2] <= run'[e[1]].attempt
      BY <2>1, <2>2, <2>5, <2>7, <3>1 DEF Used, k
    <3> QED BY <2>7, <3>2 DEF Used
  <2>9. \A e \in Exec : Held(e)' <=> (e = y \/ (Held(e) /\ e[1] # r))
    <3> SUFFICES ASSUME NEW e \in Exec PROVE Held(e)' <=> (e = y \/ (Held(e) /\ e[1] # r))
      OBVIOUS
    <3>1. Held(e)' <=> e[1] \in runs /\ run'[e[1]].holds /\ run'[e[1]].attempt = e[2]
      BY <2>1, <2>7, HeldIs DEF Held, ExecOf
    <3>2. Held(e) <=> e[1] \in runs /\ run[e[1]].holds /\ run[e[1]].attempt = e[2]
      BY <2>1, HeldIs DEF Held, ExecOf
    <3>3. e = y <=> e[1] = r /\ e[2] = k + 1
      BY <2>3 DEF Exec
    <3> QED BY <1>1, <2>1, <2>5, <2>7, <3>1, <3>2, <3>3
  <2>10. \A e \in Exec : Past(e) => Past(e)'
    BY <1>1, <2>2, <2>3, <2>8, <2>9 DEF Past, Used, k
  <2>11. AtWork'
    <3> SUFFICES ASSUME NEW q \in runs
                 PROVE  Works(run'[q], store[<<q, run'[q].attempt>>],
                              announced[<<q, run'[q].attempt>>])
      BY <2>7 DEF AtWork, ExecOf
    <3>1. CASE q = r
      BY <2>1, <2>5, <2>6, <2>7, <3>1
    <3>2. CASE q # r
      BY <2>1, <2>7, <3>2 DEF HistInv, AtWork, ExecOf
    <3> QED BY <3>1, <3>2
  <2>12. FreshUnknown' /\ EndedIsOver'
    BY <2>7, <2>8 DEF HistInv, FreshUnknown, EndedIsOver
  <2>13. RunningHasRun'
    <3> SUFFICES ASSUME EndsAreSaved, NEW e \in Exec, Up, store[e] = "running", e[1] >= epoch
                 PROVE  Held(e)'
      BY <2>7 DEF RunningHasRun, Up
    <3>1. Held(e)
      BY DEF HistInv, RunningHasRun
    <3>2. e[1] # r
      <4> SUFFICES ASSUME e[1] = r PROVE FALSE
        OBVIOUS
      <4>1. e = ExecOf(r)
        BY <2>1, <3>1 DEF Held, ExecOf
      <4> QED BY <1>3, <4>1
    <3> QED BY <2>9, <3>1, <3>2
  <2>14. OwnRuns'
    BY <2>7 DEF HistInv, OwnRuns, Up
  <2>15. StarterKnows'
    <3>1. ASSUME NEW c \in Exec, c = starter.cur, Past(c) PROVE Past(starter.cur)'
      BY <2>7, <2>10, <3>1 DEF Past, Used, Held
    <3>2. /\ starter'.pc # "finish" => starter'.todo = {}
          /\ \A e \in starter'.todo : Used(e)'
      BY <2>1, <2>7, <2>8 DEF HistInv, StarterKnows
    <3> QED BY <2>7, <3>1, <3>2 DEF HistInv, StarterKnows
  <2>16. DeleterKnows'
    <3>1. ASSUME NEW c \in Exec, c = deleter.cur, Past(c) PROVE Past(deleter.cur)'
      BY <2>7, <2>10, <3>1 DEF Past, Used, Held
    <3> QED BY <2>7, <3>1 DEF HistInv, DeleterKnows
  <2>17. StartAlone'
    BY <2>7 DEF HistInv, StartAlone
  <2>18. LiveNotInterrupted'
    BY <2>4, <2>7, <2>9 DEF HistInv, LiveNotInterrupted
  <2>19. HistoryStep
    BY <2>7 DEF HistoryStep
  <2> QED BY <2>11, <2>12, <2>13, <2>14, <2>15, <2>16, <2>17, <2>18, <2>19 DEF StepHist, HistInv
<1> QED BY <1>4, <1>5

-----------------------------------------------------------------------------
(* The deleter and start() *)

\* A write of somebody other than the runs.
PastWritten ==
  \A e \in Exec : store'[e] = store[e] \/ (Past(e) /\ store'[e] \in {"none", "interrupted"})

(* What is written to past executions disturbs no run. *)
LEMMA OthersWrite ==
  ASSUME HistInv, Inv', UNCHANGED <<runs, run, nextRun, announced>>, PastWritten,
         (epoch' = epoch /\ (Up' <=> Up)) \/ (epoch' = nextRun /\ ~Up),
         HistoryStep, StarterKnows', DeleterKnows', StartAlone'
  PROVE  StepHist
<1>1. /\ runs \in SUBSET RunId /\ run \in [RunId -> RunState] /\ nextRun \in Nat
      /\ \A r \in runs : r < nextRun
  BY DEF HistInv, Inv, TypeOK, Numbered
<1>2. \A e \in Exec : (Used(e)' <=> Used(e)) /\ (Held(e)' <=> Held(e))
  BY DEF Used, Held, ExecOf
<1>3. AtWork'
  <2> SUFFICES ASSUME NEW r \in runs
               PROVE  Works(run[r], store'[<<r, run[r].attempt>>], announced[<<r, run[r].attempt>>])
    BY DEF AtWork, ExecOf
  <2> DEFINE x == <<r, run[r].attempt>>
  <2>1. x \in Exec /\ run[r] \in RunState
    BY <1>1, RunKnows DEF ExecOf
  <2>2. Works(run[r], store[x], announced[x])
    BY DEF HistInv, AtWork, ExecOf
  <2>3. CASE store'[x] = store[x]
    BY <2>2, <2>3
  <2>4. CASE Past(x) /\ store'[x] \in {"none", "interrupted"}
    <3>1. ~run[r].holds
      BY <2>4 DEF Past, Held, ExecOf
    <3> QED BY <2>2, <2>4, <3>1 DEF Works, Holding, Ending
  <2> QED BY <2>1, <2>3, <2>4 DEF PastWritten
<1>4. FreshUnknown' /\ EndedIsOver'
  BY <1>2 DEF HistInv, FreshUnknown, EndedIsOver, PastWritten, Past
<1>5. RunningHasRun'
  <2> SUFFICES ASSUME EndsAreSaved, NEW e \in Exec, Up', store'[e] = "running", e[1] >= epoch'
               PROVE  Held(e)'
    BY DEF RunningHasRun
  <2>1. store[e] = "running" /\ Used(e)
    BY DEF PastWritten, HistInv, FreshUnknown
  <2>2. Up /\ epoch' = epoch
    BY <1>1, <2>1, JobRunsAssumption DEF Used, Exec, RunId
  <2> QED BY <1>2, <2>1, <2>2 DEF HistInv, RunningHasRun
<1>6. OwnRuns'
  BY <1>1 DEF HistInv, OwnRuns
<1>7. LiveNotInterrupted'
  BY <1>2 DEF HistInv, LiveNotInterrupted, PastWritten, Past
<1> QED BY <1>3, <1>4, <1>5, <1>6, <1>7 DEF StepHist, HistInv

(* Deleting finished executions. *)
LEMMA DeleterKeeps ==
  ASSUME HistInv, Inv', DeleteExecutionAsync \/ DeleteExecutionsAsync \/ DeleteStep
  PROVE  StepHist
<1>1. /\ UNCHANGED <<runs, run, nextRun, announced, starter, epoch>>
      /\ store \in [Exec -> StoreStatus] /\ starter.todo \subseteq Exec
      /\ deleter.todo \subseteq Exec
  BY DEF DeleteExecutionAsync, DeleteExecutionsAsync, DeleteStep, ReadOne, CheckOne,
         StoreDeletes, Delete, HistInv, Inv, TypeOK
<1>2. \A e \in Exec : (Used(e)' <=> Used(e)) /\ (Past(e)' <=> Past(e))
  BY <1>1 DEF Used, Past, Held, ExecOf
<1>3. ASSUME NEW c \in Exec, c = starter.cur, Past(c) PROVE Past(starter.cur)'
  BY <1>1, <1>2, <1>3 DEF Past, Used, Held
<1>4. StarterKnows'
  <2>1. starter'.pc # "finish" => starter'.todo = {}
    BY <1>1 DEF HistInv, StarterKnows
  <2>2. \A e \in starter'.todo : Used(e)'
    BY <1>1, <1>2 DEF HistInv, StarterKnows
  <2> QED BY <1>1, <1>3, <2>1, <2>2 DEF HistInv, StarterKnows
<1>5. deleter.pc # "idle" \/ ApiOpen
  BY DEF DeleteExecutionAsync, DeleteExecutionsAsync, DeleteStep, ReadOne, CheckOne, StoreDeletes
<1>6. ~ApiDuringStart => starter.pc \in {"ready", "failed"} /\ starter.todo = {}
  BY <1>5 DEF HistInv, StartAlone, StarterKnows, ApiOpen
<1>7. StartAlone'
  BY <1>1, <1>6 DEF StartAlone
<1>8. ASSUME UNCHANGED store, DeleterKnows' PROVE StepHist
  <2>1. PastWritten /\ HistoryStep
    BY <1>8 DEF PastWritten, HistoryStep
  <2> QED BY <1>1, <1>4, <1>7, <1>8, <2>1, OthersWrite DEF Up
<1>9. CASE DeleteExecutionAsync \/ DeleteExecutionsAsync
  <2>1. UNCHANGED store /\ deleter'.pc = "next"
    BY <1>9 DEF DeleteExecutionAsync, DeleteExecutionsAsync, Delete, HistInv, Inv, TypeOK
  <2> QED BY <1>8, <2>1 DEF DeleterKnows
<1>10. CASE ReadOne
  <2>1. CASE deleter' = IdleDeleter
    BY <1>8, <1>10, <2>1 DEF ReadOne, DeleterKnows, IdleDeleter
  <2>2. ASSUME NEW e \in deleter.todo,
               deleter' = [deleter EXCEPT !.pc = "read", !.todo = @ \ {e},
                                          !.cur = e, !.seen = store[e]]
        PROVE  StepHist
    <3>1. deleter'.pc = "read" /\ deleter'.cur = e /\ deleter'.seen = store[e]
      BY <2>2 DEF HistInv, Inv, TypeOK
    <3>2. DeleterKnows'
      BY <1>1, <1>10, <3>1 DEF DeleterKnows, ReadOne
    <3> QED BY <1>8, <1>10, <3>2 DEF ReadOne
  <2> QED BY <1>10, <2>1, <2>2 DEF ReadOne, Delete
<1>11. CASE CheckOne
  <2>1. /\ deleter.pc = "read" /\ deleter.cur \in Exec /\ store' = store
        /\ deleter'.cur = deleter.cur
        /\ deleter'.pc = IF MayDelete(deleter.cur, deleter.seen) THEN "deleting" ELSE "next"
    BY <1>11 DEF CheckOne, Delete, HistInv, Inv, TypeOK, DeleterKnows
  <2>2. ASSUME NEW c \in Exec, c = deleter.cur, MayDelete(c, deleter.seen)
        PROVE  Past(deleter.cur)' /\ store[c] \notin {"none", "running"}
    <3>1. store[c] \notin {"none", "running"} /\ ~Held(c)
      BY <2>1, <2>2 DEF MayDelete, HistInv, DeleterKnows
    <3>2. Past(c)
      BY <3>1 DEF Past, HistInv, FreshUnknown
    <3>3. Past(c)'
      BY <1>2, <3>2
    <3> QED BY <2>1, <2>2, <3>1, <3>3 DEF Past, Used, Held
  <2>3. DeleterKnows'
    BY <2>1, <2>2 DEF DeleterKnows
  <2> QED BY <1>8, <2>1, <2>3
<1>12. CASE StoreDeletes
  <2>1. /\ deleter.cur \in Exec /\ Past(deleter.cur)
        /\ store[deleter.cur] \notin {"none", "running"}
        /\ store' = [store EXCEPT ![deleter.cur] = "none"] /\ deleter'.pc = "next"
    BY <1>12 DEF StoreDeletes, Delete, HistInv, Inv, TypeOK, DeleterKnows
  <2>2. PastWritten /\ HistoryStep
    BY <1>1, <2>1 DEF PastWritten, HistoryStep
  <2>3. DeleterKnows'
    BY <2>1 DEF DeleterKnows
  <2> QED BY <1>1, <1>4, <1>7, <2>2, <2>3, OthersWrite DEF Up
<1> QED BY <1>9, <1>10, <1>11, <1>12 DEF DeleteStep

(* start(), up to the end of the interrupted runs. *)
LEMMA StarterKeeps ==
  ASSUME HistInv, Inv',
         Start \/ StatesLoaded \/ ListRunning \/ NextInterrupted \/ FinishInterrupted
  PROVE  StepHist
<1>1. /\ UNCHANGED <<runs, run, nextRun, announced, deleter>>
      /\ store \in [Exec -> StoreStatus] /\ starter.todo \subseteq Exec
      /\ starter \in [pc : StarterPc, io : Io, todo : SUBSET Exec, cur : Exec \cup {NoExec}]
  BY DEF Start, StatesLoaded, ListRunning, NextInterrupted, FinishInterrupted, Starting,
         HistInv, Inv, TypeOK
<1>2. \A e \in Exec : (Used(e)' <=> Used(e)) /\ (Past(e)' <=> Past(e))
  BY <1>1 DEF Used, Past, Held, ExecOf
<1>3. starter.pc \notin {"ready", "failed"}
  BY DEF Start, StatesLoaded, ListRunning, NextInterrupted, FinishInterrupted
<1>4. ASSUME NEW c \in Exec, c = deleter.cur, Past(c) PROVE Past(deleter.cur)'
  BY <1>1, <1>2, <1>4 DEF Past, Used, Held
<1>5. ASSUME store' = store PROVE DeleterKnows' /\ PastWritten /\ HistoryStep
  <2>1. PastWritten /\ HistoryStep
    BY <1>5 DEF PastWritten, HistoryStep
  <2> QED BY <1>1, <1>4, <1>5, <2>1 DEF HistInv, DeleterKnows
<1>6. ~ApiDuringStart => runs' = {} /\ deleter'.pc = "idle"
  BY <1>1, <1>3 DEF HistInv, StartAlone
<1>7. CASE Start
  <2>1. ~Up /\ epoch' = nextRun /\ store' = store
    BY <1>7 DEF Start, Up, Starting
  <2>2. starter'.pc = "states" /\ starter'.todo = {}
    BY <1>7 DEF Start, Starting, DownStarter
  <2>3. StarterKnows' /\ StartAlone'
    BY <1>6, <2>2 DEF StarterKnows, StartAlone
  <2> QED BY <1>1, <1>5, <2>1, <2>3, OthersWrite
<1>9. ASSUME store' = store, starter'.pc # "down", epoch' = epoch, Up, StarterKnows', StartAlone'
      PROVE  StepHist
  <2>1. Up' <=> Up
    BY <1>9 DEF Up
  <2> QED BY <1>1, <1>5, <1>9, <2>1, OthersWrite
<1>10. CASE StatesLoaded
  <2>1. /\ store' = store /\ starter'.pc \in {"list", "failed"} /\ epoch' = epoch /\ Up
        /\ starter'.todo = {}
    BY <1>1, <1>10 DEF StatesLoaded, Starting, DownStarter, Up, HistInv, StarterKnows
  <2>2. StarterKnows' /\ StartAlone'
    BY <1>6, <2>1 DEF StarterKnows, StartAlone
  <2> QED BY <1>9, <2>1, <2>2
<1>11. CASE ListRunning
  <2>1. /\ store' = store /\ starter'.pc = "finish" /\ starter'.io = "none"
        /\ epoch' = epoch /\ Up /\ starter'.todo \subseteq Running
    BY <1>1, <1>11 DEF ListRunning, Starting, Up, HistInv, StarterKnows
  <2>2. StarterKnows'
    BY <1>2, <2>1 DEF StarterKnows, Running, HistInv, FreshUnknown
  <2>3. StartAlone'
    BY <1>6, <2>1 DEF StartAlone, Running
  <2> QED BY <1>9, <2>1, <2>2, <2>3
<1>12. CASE NextInterrupted
  <2>1. /\ store' = store /\ starter.pc = "finish" /\ starter.io = "none"
        /\ starter'.pc = "finish" /\ epoch' = epoch /\ Up
    BY <1>1, <1>12 DEF NextInterrupted, Starting, Up
  <2>2. PICK e \in starter.todo :
          starter' = IF IsInterrupted(e)
                     THEN [starter EXCEPT !.todo = @ \ {e}, !.cur = e, !.io = "pending"]
                     ELSE [starter EXCEPT !.todo = @ \ {e}]
    BY <1>12 DEF NextInterrupted, Starting
  <2>3. e \in Exec /\ Used(e)
    BY <1>1 DEF HistInv, StarterKnows
  <2>4. CASE IsInterrupted(e)
    <3>1. starter'.todo = starter.todo \ {e} /\ starter'.cur = e
      BY <1>1, <2>2, <2>4
    <3>2. Past(e)'
      BY <1>2, <2>3, <2>4 DEF IsInterrupted, Past
    <3>3. Past(starter.cur)'
      BY <3>1, <3>2 DEF Past, Used, Held
    <3>4. StarterKnows'
      BY <1>1, <1>2, <2>1, <2>3, <3>1, <3>3 DEF StarterKnows, HistInv
    <3>5. StartAlone'
      BY <1>6, <2>1, <3>1 DEF StartAlone, HistInv
    <3> QED BY <1>9, <2>1, <3>4, <3>5
  <2>5. CASE ~IsInterrupted(e)
    <3>1. starter'.todo = starter.todo \ {e} /\ starter'.io = "none"
      BY <1>1, <2>1, <2>2, <2>5
    <3>2. StarterKnows'
      BY <1>1, <1>2, <2>1, <3>1 DEF StarterKnows, HistInv
    <3>3. StartAlone'
      BY <1>6, <2>1, <3>1 DEF StartAlone, HistInv
    <3> QED BY <1>9, <2>1, <3>2, <3>3
  <2> QED BY <2>4, <2>5
<1>13. CASE FinishInterrupted
  <2>1. /\ starter.pc = "finish" /\ starter.io = "pending" /\ starter'.pc = "finish"
        /\ starter'.io = "none" /\ starter'.todo = starter.todo /\ epoch' = epoch /\ Up
        /\ starter.cur \in Exec /\ Past(starter.cur)
        /\ store' = store \/ store' = [store EXCEPT ![starter.cur] = "interrupted"]
    BY <1>1, <1>13 DEF FinishInterrupted, Starting, Up, HistInv, StarterKnows
  <2>2. StarterKnows'
    BY <1>1, <1>2, <2>1 DEF StarterKnows, HistInv
  <2>3. \A e \in Exec : store'[e] = store[e] \/ (e = starter.cur /\ store'[e] = "interrupted")
    BY <1>1, <2>1
  <2>4. StartAlone'
    BY <1>1, <1>6, <2>1, <2>3 DEF StartAlone, HistInv
  <2>5. PastWritten
    BY <2>1, <2>3 DEF PastWritten
  <2>6. HistoryStep
    <3> SUFFICES ASSUME ~ApiDuringStart PROVE HistoryStep
      BY DEF HistoryStep
    <3>1. store[starter.cur] = "running"
      BY <2>1 DEF HistInv, StartAlone
    <3> QED BY <1>1, <2>1, <2>3, <3>1 DEF HistoryStep
  <2>7. DeleterKnows'
    BY <1>1, <1>4, <2>1, <2>3 DEF HistInv, DeleterKnows
  <2>8. Up' <=> Up
    BY <2>1 DEF Up
  <2> QED BY <1>1, <2>1, <2>2, <2>4, <2>5, <2>6, <2>7, <2>8, OthersWrite
<1> QED BY <1>7, <1>10, <1>11, <1>12, <1>13

-----------------------------------------------------------------------------
(* Theorems *)

(* Every step keeps the invariant and the history. *)
LEMMA StepHistory == ASSUME HistInv, [Next]_vars PROVE StepHist
<1>1. Inv'
  BY StepInv DEF HistInv, StepOK
<1>2. CASE TriggerAsync \/ HandleTimerFire \/ CancelCurrentAsync \/ UpdateOptionsAsync
  BY <1>1, <1>2, RequestsOK
<1>3. ASSUME NEW r \in RunId, RunStep(r) PROVE StepHist
  BY <1>1, <1>3, StoreStepKeeps, AttemptStepKeeps, RetryKeeps, ReleaseKeeps DEF RunStep
<1>4. CASE DeleteExecutionAsync \/ DeleteExecutionsAsync \/ DeleteStep
  BY <1>1, <1>4, DeleterKeeps
<1>5. CASE Start \/ StartStep
  BY <1>1, <1>5, StarterKeeps, DoneKeeps DEF StartStep
<1>6. CASE Crash
  BY <1>1, <1>6, CrashKeeps
<1>7. CASE UNCHANGED vars
  <2>1. \A r \in runs : run[r] \in {run[r], Abort(run[r])}
    OBVIOUS
  <2>2. nextRun \in Nat
    BY DEF HistInv, Inv, TypeOK
  <2>3. SlotMove
    BY <1>7, <2>1, <2>2 DEF vars, SlotMove, Up, HistInv, OwnRuns, StartAlone
  <2> QED BY <1>1, <2>3, SlotMoveOK
<1> QED BY <1>2, <1>3, <1>4, <1>5, <1>6, <1>7 DEF Next

(* It holds before the first start(). *)
LEMMA InitHistory == Init => HistInv
<1> SUFFICES ASSUME Init PROVE HistInv
  OBVIOUS
<1>1. Inv /\ AtWork
  BY InitInv DEF Init, AtWork
<1>2. FreshUnknown /\ EndedIsOver /\ RunningHasRun /\ LiveNotInterrupted
  BY DEF Init, FreshUnknown, EndedIsOver, RunningHasRun, LiveNotInterrupted
<1>3. OwnRuns
  BY DEF Init, OwnRuns
<1>4. StarterKnows /\ DeleterKnows /\ StartAlone
  BY DEF Init, StarterKnows, DeleterKnows, StartAlone, DownStarter, IdleDeleter
<1> QED BY <1>1, <1>2, <1>3, <1>4 DEF HistInv

(* The inductive invariant, of every behaviour. *)
THEOREM HistoryInvariance == Spec => []HistInv
<1>1. HistInv /\ [Next]_vars => HistInv'
  BY StepHistory DEF StepHist
<1> QED BY <1>1, InitHistory, PTL DEF Spec

(* What the storage shows as running in this process is running, and nobody who
   heard of its end finds it running, as long as the storage does not refuse the
   end itself: with the properties of a run refused, or anything else. *)
THEOREM RunningIsRunning == EndsAreSaved => (Spec => []RunningIsHeld)
<1> SUFFICES ASSUME EndsAreSaved PROVE Spec => []RunningIsHeld
  OBVIOUS
<1>1. HistInv => RunningIsHeld
  BY DEF HistInv, RunningHasRun, EndedIsOver, RunningIsHeld
<1> QED BY <1>1, HistoryInvariance, PTL

(* start() interrupts no run that is going, whatever requests it serves meanwhile. *)
THEOREM StartSparesTheLiving == Spec => []LiveNotInterrupted
<1>1. HistInv => LiveNotInterrupted
  BY DEF HistInv
<1> QED BY <1>1, HistoryInvariance, PTL

(* An ended execution stays as it ended or is deleted, a deleted one stays away,
   and only a discard removes a running one, where the API opens after start(). *)
THEOREM HistoryStands == ~ApiDuringStart => (Spec => HistoryIsFinal)
<1> SUFFICES ASSUME ~ApiDuringStart PROVE Spec => HistoryIsFinal
  OBVIOUS
<1> DEFINE Stands ==
       \A e \in Exec :
         /\ store[e] \notin {"none", "running"} => store'[e] \in {store[e], "none"}
         /\ store[e] = "none" /\ announced[e] # "no" => store'[e] = "none"
         /\ store[e] = "running" /\ store'[e] = "none" =>
              \E r \in runs : ExecOf(r) = e /\ run[r].pc = "discard" /\ run[r].outcome = "completed"
<1>1. HistInv /\ [Next]_vars => [Stands]_vars
  BY StepHistory DEF StepHist, HistoryStep
<1> QED BY <1>1, HistoryInvariance, PTL DEF Spec, HistoryIsFinal
=============================================================================
