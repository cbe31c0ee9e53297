------------------------------ MODULE JobRuns ------------------------------
(***************************************************************************)
(* The runs of one registered job of CliJobScheduler: the run slots, the   *)
(* overlap policy, an attempt and its retries, the executions the runs     *)
(* leave in the job storage, the deletion of finished executions, and what *)
(* start() does after a crash to the executions a process left "running".  *)
(*                                                                         *)
(* Jobs share nothing but the storage, keyed by job, so one job is the     *)
(* whole system as far as these properties go.  Node runs one callback at  *)
(* a time: an action is the code between two awaits.  An awaited storage   *)
(* call has two steps, its effect in the store ("pending" to "ok" or       *)
(* "err") and the continuation that sees the result; anything may happen   *)
(* before, between and after them.                                         *)
(*                                                                         *)
(* The job's timers and its status are in JobTimers.  lastRunAt and the    *)
(* other fields that only describe the last run are left out here.         *)
(***************************************************************************)
EXTENDS Naturals, FiniteSets

CONSTANTS MaxRequests,      \* bound: due runs and triggers in a behaviour
          MaxCrashes,       \* bound: crashes in a behaviour
          MaxLimit,         \* bound: maxConcurrentRuns
          MaxRetries,       \* bound: maxRetries
          InitLimit,        \* maxConcurrentRuns as registered
          InitRetries,      \* maxRetries as registered
          InitPolicy,       \* overlapPolicy as registered
          Updates,          \* options updateOptionsAsync may set
          CanDelete,        \* the storage implements deleteExecution
          StoreFaults,      \* storage calls that may be rejected
          ApiDuringStart    \* the jobs API is served while start() runs

Policies == {"skip", "queue", "cancel"}
Faults == {"saveStart", "discard", "saveEnd", "props", "saveBare", "persist",
           "states", "list", "finish"}

ASSUME JobRunsAssumption ==
  /\ MaxRequests \in Nat /\ MaxCrashes \in Nat
  /\ MaxLimit \in Nat /\ InitLimit \in 1..MaxLimit
  /\ MaxRetries \in Nat /\ InitRetries \in 0..MaxRetries
  /\ InitPolicy \in Policies
  /\ Updates \subseteq [limit : 1..MaxLimit, policy : Policies, retries : 0..MaxRetries]
  /\ StoreFaults \subseteq Faults
  /\ CanDelete \in BOOLEAN /\ ApiDuringStart \in BOOLEAN

(* A run is numbered in the order runs start, so the Map `reg.runs`, oldest
   first, is a set of numbers; an execution is named by its run and attempt. *)
RunId == 1..MaxRequests
Exec == RunId \X (0..MaxRetries)
NoExec == <<0, 0>>

Final == {"completed", "failed", "cancelled", "timed_out"}
Io == {"none", "pending", "ok", "kept", "err"}
\* Where a run's coroutine is; "idle" is a number no run has or no run has any more.
RunPc == {"idle", "saveStart", "executing", "discard", "saveEnd", "saveBare",
          "persist", "retryWait", "settled"}
DeleterPc == {"idle", "next", "read", "deleting"}
StarterPc == {"down", "states", "list", "finish", "ready", "failed"}

RunState == [pc : RunPc, io : Io, attempt : 0..MaxRetries,
             holds : BOOLEAN,      \* run.executionId is set
             aborted : BOOLEAN,    \* the run's controller is aborted
             timedOut : BOOLEAN,   \* the attempt's timeout fired
             cancelledFirst : BOOLEAN, \* history: cancelled before any timeout
             outcome : Final]

\* "interrupted" is the status `cancelled` with INTERRUPTED_RUN_ERROR.
StoreStatus == Final \cup {"none", "running", "interrupted"}
Options == [limit : 1..MaxLimit, policy : Policies, retries : 0..MaxRetries]

VARIABLES runs,      \* reg.runs: the runs that hold a slot
          run,       \* run number -> the run's coroutine
          queued,    \* reg.queued
          opts,      \* the options an update can change
          store,     \* execution -> its status in the job storage
          announced, \* execution -> which lifecycle events were published
          deleter,   \* a deleteExecution(s)Async in progress
          starter,   \* start()
          nextRun,   \* the number of the next run
          epoch,     \* the first run number of this process
          requests, crashes

vars == <<runs, run, queued, opts, store, announced, deleter, starter,
          nextRun, epoch, requests, crashes>>

-----------------------------------------------------------------------------
(* Initial state and helpers *)

IdleRun == [pc |-> "idle", io |-> "none", attempt |-> 0, holds |-> FALSE,
            aborted |-> FALSE, timedOut |-> FALSE, cancelledFirst |-> FALSE,
            outcome |-> "completed"]

InitOptions == [limit |-> InitLimit, policy |-> InitPolicy, retries |-> InitRetries]
IdleDeleter == [pc |-> "idle", todo |-> {}, cur |-> NoExec, seen |-> "none"]
DownStarter == [pc |-> "down", io |-> "none", todo |-> {}, cur |-> NoExec]

Init ==
  /\ runs = {} /\ run = [r \in RunId |-> IdleRun]
  /\ queued = FALSE /\ opts = InitOptions
  /\ store = [e \in Exec |-> "none"] /\ announced = [e \in Exec |-> "no"]
  /\ deleter = IdleDeleter /\ starter = DownStarter
  /\ nextRun = 1 /\ epoch = 1 /\ requests = 0 /\ crashes = 0

ExecOf(r) == <<r, run[r].attempt>>

\* Some run of the job has e as its executionId.
Held(e) == \E r \in runs : run[r].holds /\ ExecOf(r) = e

Up == starter.pc # "down"
ApiOpen == Up /\ (ApiDuringStart \/ starter.pc \in {"ready", "failed"})

-----------------------------------------------------------------------------
(* Run slots *)

(* A run's first attempt up to its first await: the slot is taken, the
   execution id is set and the save of the running execution is in flight. *)
NewRun == [IdleRun EXCEPT !.pc = "saveStart", !.io = "pending", !.holds = TRUE]

StartRun(rs, rn) ==
  /\ runs' = rs \cup {nextRun}
  /\ run' = [rn EXCEPT ![nextRun] = NewRun]
  /\ nextRun' = nextRun + 1

(* Mutant: the limit compared with > instead of >=. *)
FullOffByOne(rs, limit) == Cardinality(rs) > limit

Full(rs, limit) == Cardinality(rs) >= limit

\* The run with its controller aborted, and the attempt's with it.
Abort(s) == [s EXCEPT !.aborted = TRUE,
                      !.cancelledFirst = s.cancelledFirst \/ ~s.timedOut]

\* `find` on the runs, oldest first: the oldest one not aborted yet.
IsOldestLive(r) ==
  /\ r \in runs /\ ~run[r].aborted
  /\ \A q \in runs : ~run[q].aborted => r <= q

TryStart ==
  \/ /\ ~Full(runs, opts.limit)
     /\ StartRun(runs, run)
     /\ UNCHANGED queued
  \/ /\ Full(runs, opts.limit)
     /\ opts.policy = "skip"
     /\ UNCHANGED <<runs, run, nextRun, queued>>
  \/ /\ Full(runs, opts.limit)
     /\ opts.policy # "skip"
     /\ queued' = TRUE
     /\ IF opts.policy = "cancel" /\ ~queued
        THEN \/ \E r \in RunId : IsOldestLive(r) /\ run' = [run EXCEPT ![r] = Abort(@)]
             \/ (\A r \in runs : run[r].aborted) /\ UNCHANGED run
        ELSE UNCHANGED run
     /\ UNCHANGED <<runs, nextRun>>

(* Mutant: a freed slot is not given to the queued run. *)
DrainNothing(rs, rn, limit) ==
  runs' = rs /\ run' = rn /\ UNCHANGED <<nextRun, queued>>

DrainQueue(rs, rn, limit) ==
  \/ /\ queued /\ ~Full(rs, limit)
     /\ queued' = FALSE /\ StartRun(rs, rn)
  \/ /\ ~queued \/ Full(rs, limit)
     /\ runs' = rs /\ run' = rn /\ UNCHANGED <<nextRun, queued>>

-----------------------------------------------------------------------------
(* Requests: a trigger, a due timer, a cancellation, an options update *)

DueRun ==
  /\ requests < MaxRequests
  /\ requests' = requests + 1
  /\ TryStart

TriggerAsync ==
  /\ ApiOpen
  /\ DueRun
  /\ UNCHANGED <<opts, store, announced, deleter, starter, epoch, crashes>>

\* A timer is armed by start() when it has finished.
HandleTimerFire ==
  /\ starter.pc = "ready"
  /\ DueRun
  /\ UNCHANGED <<opts, store, announced, deleter, starter, epoch, crashes>>

CancelAll ==
  /\ queued' = FALSE
  /\ run' = [r \in RunId |-> IF r \in runs THEN Abort(run[r]) ELSE run[r]]

(* cancelCurrentAsync refuses an idle job; stopJobAsync and stop() cancel
   all the same, with no run and nothing queued for them to change then. *)
CancelCurrentAsync ==
  /\ ApiOpen
  /\ runs # {} \/ queued
  /\ CancelAll
  /\ UNCHANGED <<runs, opts, store, announced, deleter, starter, nextRun,
                 epoch, requests, crashes>>

UpdateOptionsAsync ==
  /\ ApiOpen
  /\ \E o \in Updates : opts' = o /\ DrainQueue(runs, run, o.limit)
  /\ UNCHANGED <<store, announced, deleter, starter, epoch, requests, crashes>>

-----------------------------------------------------------------------------
(* A run: its attempts, one storage call after the other *)

Continue(r, s) ==
  /\ run' = [run EXCEPT ![r] = s]
  /\ UNCHANGED <<runs, queued, opts, deleter, starter, nextRun, epoch, requests, crashes>>

\* The call run r waits for may be rejected; "props": for the run's properties only.
MayReject(r) ==
  run[r].pc \in StoreFaults \/ (run[r].pc = "saveEnd" /\ "props" \in StoreFaults)

StoreRejects(r) ==
  /\ r \in runs /\ run[r].io = "pending" /\ MayReject(r)
  /\ Continue(r, [run[r] EXCEPT !.io = "err"])
  /\ UNCHANGED <<store, announced>>

\* What the storage holds for the execution once the call took effect.
Stored(s) == IF s.pc = "saveStart" THEN "running" ELSE s.outcome

StoreSaves(r) ==
  /\ r \in runs /\ run[r].io = "pending"
  /\ run[r].pc \in {"saveStart", "saveEnd", "saveBare"}
  /\ store' = [store EXCEPT ![ExecOf(r)] = Stored(run[r])]
  /\ Continue(r, [run[r] EXCEPT !.io = "ok"])
  /\ UNCHANGED announced

(* deleteJobExecution: true when it was deleted, false ("kept") when it was
   not there or the storage cannot delete. *)
StoreDiscards(r) ==
  /\ r \in runs /\ run[r].io = "pending" /\ run[r].pc = "discard"
  /\ \/ /\ CanDelete /\ store[ExecOf(r)] # "none"
        /\ store' = [store EXCEPT ![ExecOf(r)] = "none"]
        /\ Continue(r, [run[r] EXCEPT !.io = "ok"])
     \/ /\ ~CanDelete \/ store[ExecOf(r)] = "none"
        /\ UNCHANGED store
        /\ Continue(r, [run[r] EXCEPT !.io = "kept"])
  /\ UNCHANGED announced

\* saveJobState: its effect on the saved state is in JobTimers.
StorePersists(r) ==
  /\ r \in runs /\ run[r].io = "pending" /\ run[r].pc = "persist"
  /\ Continue(r, [run[r] EXCEPT !.io = "ok"])
  /\ UNCHANGED <<store, announced>>

\* What the end of an attempt leaves of it: the locals of _executeAttemptAsync are gone.
Forget(s) == [s EXCEPT !.timedOut = FALSE, !.cancelledFirst = FALSE]

(* Mutant: the exception of a rejected storage call is lost, and with it the
   end of the run. *)
FailHangs(s) == [Forget(s) EXCEPT !.io = "none"]

\* The attempt is over by an exception: the run's promise is rejected.
Fail(s) == [Forget(s) EXCEPT !.pc = "settled", !.io = "none"]

StartSaved(r) ==
  /\ r \in runs /\ run[r].pc = "saveStart" /\ run[r].io \in {"ok", "err"}
  /\ IF run[r].io = "ok"
     THEN /\ Continue(r, [run[r] EXCEPT !.pc = "executing", !.io = "none"])
          /\ announced' = [announced EXCEPT ![ExecOf(r)] = "started"]
     ELSE Continue(r, Fail(run[r])) /\ UNCHANGED announced
  /\ UNCHANGED store

\* The attempt's timer: armed for the whole of executeAsync.
TimeoutFires(r) ==
  /\ r \in runs /\ run[r].pc = "executing" /\ ~run[r].timedOut
  /\ Continue(r, [run[r] EXCEPT !.timedOut = TRUE])
  /\ UNCHANGED <<store, announced>>

\* The status of an attempt whose executeAsync returned or threw.
FinalStatus(s, returned) ==
  CASE s.timedOut -> "timed_out"
    [] ~s.timedOut /\ s.aborted -> "cancelled"
    [] OTHER -> IF returned THEN "completed" ELSE "failed"

\* _saveFinished, its first call: failed runs are always kept.
AfterJob(discard, status) ==
  IF discard /\ status = "completed" THEN "discard" ELSE "saveEnd"

JobEnds(r) ==
  /\ r \in runs /\ run[r].pc = "executing"
  /\ \E returned, discard \in BOOLEAN :
       LET status == FinalStatus(run[r], returned) IN
       Continue(r, [run[r] EXCEPT !.pc = AfterJob(discard, status),
                                  !.io = "pending", !.outcome = status])
  /\ UNCHANGED <<store, announced>>

\* Saved or discarded: executionId is cleared and the job's state persisted.
Persist(s) == [Forget(s) EXCEPT !.pc = "persist", !.io = "pending", !.holds = FALSE]

(* Mutant: a rejected save is not repeated without the properties. *)
AfterErrorGivesUp(s) == {Fail(s)}

(* The catch of _saveFinished: once more, without the properties, if there are
   any; a call rejected for them alone had some. *)
AfterError(s) ==
  {[s EXCEPT !.pc = "saveBare", !.io = "pending"]}
    \cup (IF s.pc \in StoreFaults THEN {Fail(s)} ELSE {})

EndSaved(r) ==
  /\ r \in runs
  /\ \/ /\ run[r].pc \in {"discard", "saveEnd", "saveBare"} /\ run[r].io = "ok"
        /\ Continue(r, Persist(run[r]))
     \/ /\ run[r].pc = "discard" /\ run[r].io = "kept"
        /\ Continue(r, [run[r] EXCEPT !.pc = "saveEnd", !.io = "pending"])
     \/ /\ run[r].pc \in {"discard", "saveEnd"} /\ run[r].io = "err"
        /\ \E s \in AfterError(run[r]) : Continue(r, s)
     \/ /\ run[r].pc = "saveBare" /\ run[r].io = "err"
        /\ Continue(r, Fail(run[r]))
  /\ UNCHANGED <<store, announced>>

Retries(s, retries) ==
  s.outcome = "failed" /\ ~s.aborted /\ s.attempt < retries

\* The state save's errors are only logged; then the final event, then the retry loop.
StatePersisted(r) ==
  /\ r \in runs /\ run[r].pc = "persist" /\ run[r].io \in {"ok", "err"}
  /\ announced' = [announced EXCEPT ![ExecOf(r)] = "ended"]
  /\ Continue(r, [run[r] EXCEPT !.io = "none",
                    !.pc = IF Retries(run[r], opts.retries) THEN "retryWait" ELSE "settled"])
  /\ UNCHANGED store

(* Mutant: the end of the delay does not look at the abort. *)
NextAttemptAnyway(s) ==
  [NewRun EXCEPT !.attempt = s.attempt + 1, !.aborted = s.aborted,
                 !.cancelledFirst = s.aborted]

\* sleepUnlessAborted: an abort ends the run, the end of the delay its next attempt.
NextAttempt(s) ==
  IF s.aborted THEN [s EXCEPT !.pc = "settled"]
  ELSE [NewRun EXCEPT !.attempt = s.attempt + 1]

RetryDelayEnds(r) ==
  /\ r \in runs /\ run[r].pc = "retryWait"
  /\ Continue(r, NextAttempt(run[r]))
  /\ UNCHANGED <<store, announced>>

\* The finally of _startRun: the slot is released and the queue drained.
ReleaseSlot(r) ==
  /\ r \in runs /\ run[r].pc = "settled"
  /\ DrainQueue(runs \ {r}, [run EXCEPT ![r] = IdleRun], opts.limit)
  /\ UNCHANGED <<opts, store, announced, deleter, starter, epoch, requests, crashes>>

RunStep(r) ==
  \/ StoreRejects(r) \/ StoreSaves(r) \/ StoreDiscards(r) \/ StorePersists(r)
  \/ StartSaved(r) \/ TimeoutFires(r) \/ JobEnds(r) \/ EndSaved(r)
  \/ StatePersisted(r) \/ RetryDelayEnds(r) \/ ReleaseSlot(r)

-----------------------------------------------------------------------------
(* Deleting finished executions *)

Delete(d) ==
  /\ deleter' = d
  /\ UNCHANGED <<runs, run, queued, opts, announced, starter, nextRun, epoch,
                 requests, crashes>>

DeleteExecutionAsync ==
  /\ ApiOpen /\ CanDelete /\ deleter.pc = "idle"
  /\ \E e \in Exec : Delete([deleter EXCEPT !.pc = "next", !.todo = {e}])
  /\ UNCHANGED store

\* The listing of deleteFinishedJobExecutions, for every status or for one.
DeleteExecutionsAsync ==
  /\ ApiOpen /\ CanDelete /\ deleter.pc = "idle"
  /\ \E S \in {Final \cup {"interrupted"}} \cup {{s} : s \in Final} :
       Delete([deleter EXCEPT !.pc = "next", !.todo = {e \in Exec : store[e] \in S}])
  /\ UNCHANGED store

ReadOne ==
  /\ deleter.pc = "next"
  /\ \/ \E e \in deleter.todo :
          Delete([deleter EXCEPT !.pc = "read", !.todo = @ \ {e}, !.cur = e, !.seen = store[e]])
     \/ deleter.todo = {} /\ Delete(IdleDeleter)
  /\ UNCHANGED store

\* After the read: found, not running, and not the execution of one of the runs.
MayDelete(e, seen) == seen \notin {"none", "running"} /\ ~Held(e)

CheckOne ==
  /\ deleter.pc = "read"
  /\ Delete([deleter EXCEPT !.pc = IF MayDelete(deleter.cur, deleter.seen)
                                   THEN "deleting" ELSE "next"])
  /\ UNCHANGED store

StoreDeletes ==
  /\ deleter.pc = "deleting"
  /\ store' = [store EXCEPT ![deleter.cur] = "none"]
  /\ Delete([deleter EXCEPT !.pc = "next"])

DeleteStep == ReadOne \/ CheckOne \/ StoreDeletes

-----------------------------------------------------------------------------
(* start(), the interrupted runs, and a crash *)

Starting(s) ==
  /\ starter' = s
  /\ UNCHANGED <<runs, run, queued, opts, announced, deleter, nextRun, requests, crashes>>

Start ==
  /\ starter.pc = "down"
  /\ epoch' = nextRun
  /\ Starting([DownStarter EXCEPT !.pc = "states", !.io = "pending"])
  /\ UNCHANGED store

\* getAllJobStates: a rejection is start()'s own, and no timer is armed.
StatesLoaded ==
  /\ starter.pc = "states"
  /\ \/ Starting([starter EXCEPT !.pc = "list", !.io = "pending"])
     \/ "states" \in StoreFaults /\ Starting([DownStarter EXCEPT !.pc = "failed"])
  /\ UNCHANGED <<store, epoch>>

(* Mutants: the status filter is dropped; the pages after the first are not read. *)
RunningUnfiltered == {e \in Exec : store[e] # "none"}
RunningFirstPage ==
  {e \in Exec : store[e] = "running" /\ \A f \in Exec : store[f] = "running" => f[1] <= e[1]}

\* The executions the storage lists as running.
Running == {e \in Exec : store[e] = "running"}

\* getExecutions with status running: the answer, then (NextInterrupted) its use.
ListRunning ==
  /\ starter.pc = "list" /\ starter.io = "pending"
  /\ \/ Starting([starter EXCEPT !.pc = "finish", !.io = "none",
                                 !.todo = Running])
     \/ "list" \in StoreFaults /\ Starting([starter EXCEPT !.pc = "finish", !.io = "none"])
  /\ UNCHANGED <<store, epoch>>

(* Mutant: the listed runs are not compared with this process's runs. *)
IsInterruptedUnchecked(e) == TRUE

IsInterrupted(e) == ~Held(e)

NextInterrupted ==
  /\ starter.pc = "finish" /\ starter.io = "none"
  /\ \E e \in starter.todo :
       Starting(IF IsInterrupted(e)
                THEN [starter EXCEPT !.todo = @ \ {e}, !.cur = e, !.io = "pending"]
                ELSE [starter EXCEPT !.todo = @ \ {e}])
  /\ UNCHANGED <<store, epoch>>

\* A rejected save is only logged.
FinishInterrupted ==
  /\ starter.pc = "finish" /\ starter.io = "pending"
  /\ \/ /\ store' = [store EXCEPT ![starter.cur] = "interrupted"]
        /\ Starting([starter EXCEPT !.io = "none"])
     \/ /\ "finish" \in StoreFaults
        /\ UNCHANGED store
        /\ Starting([starter EXCEPT !.io = "none"])
  /\ UNCHANGED epoch

\* Timers are armed; the job may be due at once (runOnStart).
StartDone ==
  /\ starter.pc = "finish" /\ starter.io = "none" /\ starter.todo = {}
  /\ starter' = [DownStarter EXCEPT !.pc = "ready"]
  /\ DueRun \/ UNCHANGED <<runs, run, queued, nextRun, requests>>
  /\ UNCHANGED <<opts, store, announced, deleter, epoch, crashes>>

(* The process dies: only the store survives.  Options changed at run time
   are the registered ones again. *)
Crash ==
  /\ Up /\ crashes < MaxCrashes
  /\ crashes' = crashes + 1
  /\ runs' = {} /\ run' = [r \in RunId |-> IdleRun] /\ queued' = FALSE
  /\ opts' = InitOptions /\ deleter' = IdleDeleter /\ starter' = DownStarter
  /\ UNCHANGED <<store, announced, nextRun, epoch, requests>>

StartStep == StatesLoaded \/ ListRunning \/ NextInterrupted \/ FinishInterrupted \/ StartDone

Next ==
  \/ TriggerAsync \/ HandleTimerFire \/ CancelCurrentAsync \/ UpdateOptionsAsync
  \/ \E r \in RunId : RunStep(r)
  \/ DeleteExecutionAsync \/ DeleteExecutionsAsync \/ DeleteStep
  \/ Start \/ StartStep \/ Crash

(* Every storage call is answered, every callback that is due is run and
   every job's executeAsync settles; requests, timeouts and crashes need
   not happen. *)
RunProgress(r) ==
  \/ StoreSaves(r) \/ StoreDiscards(r) \/ StorePersists(r) \/ StoreRejects(r)
  \/ StartSaved(r) \/ JobEnds(r) \/ EndSaved(r) \/ StatePersisted(r)
  \/ RetryDelayEnds(r) \/ ReleaseSlot(r)

Fairness ==
  /\ \A r \in RunId : WF_vars(RunProgress(r))
  /\ WF_vars(DeleteStep) /\ WF_vars(Start) /\ WF_vars(StartStep)

Spec == Init /\ [][Next]_vars
FairSpec == Spec /\ Fairness

-----------------------------------------------------------------------------
(* Properties *)

TypeOK ==
  /\ runs \in SUBSET RunId /\ run \in [RunId -> RunState]
  /\ queued \in BOOLEAN /\ opts \in Options
  /\ store \in [Exec -> StoreStatus]
  /\ announced \in [Exec -> {"no", "started", "ended"}]
  /\ deleter \in [pc : DeleterPc, todo : SUBSET Exec, cur : Exec \cup {NoExec},
                  seen : StoreStatus]
  /\ starter \in [pc : StarterPc, io : Io, todo : SUBSET Exec, cur : Exec \cup {NoExec}]
  /\ nextRun \in Nat /\ epoch \in Nat
  /\ requests \in 0..MaxRequests /\ crashes \in 0..MaxCrashes

(* A run is queued only while every slot is taken: whatever frees a slot or
   raises the limit starts it (_releaseSlot, updateOptionsAsync, _drainQueue). *)
NoStrandedQueue == queued => Full(runs, opts.limit)

(* README: "due runs at the same moment never exceed the limit" and "Lowering
   maxConcurrentRuns cancels nothing": a step that takes a slot leaves at most
   maxConcurrentRuns runs, though there may be more runs than that. *)
NeverStartsOverLimit ==
  [][~(runs' \subseteq runs) => Cardinality(runs') <= opts'.limit]_vars

(* The store and the process agree on what runs: an execution of this process
   that the store shows as running belongs to a run that is still going, even
   when the store refuses the run's properties (_saveFinished: "so it never stays
   running"), and who hears that an execution ended (job:completed, ...) does not
   find it running in the store. *)
RunningIsHeld ==
  \A e \in Exec :
    /\ Up /\ store[e] = "running" /\ e[1] >= epoch => Held(e)
    /\ announced[e] = "ended" => store[e] # "running"

(* What the history says of a finished execution stays: it may be deleted, but
   no late save (of the run itself, or of start()) changes it or brings it back.
   And "Running runs are never deleted", with "failed runs are always kept" by a
   discard: an execution leaves the store while running only when its own run
   completed and was discarded. *)
HistoryIsFinal ==
  [][\A e \in Exec :
       /\ store[e] \notin {"none", "running"} => store'[e] \in {store[e], "none"}
       /\ store[e] = "none" /\ announced[e] # "no" => store'[e] = "none"
       /\ store[e] = "running" /\ store'[e] = "none" =>
            \E r \in runs : ExecOf(r) = e /\ run[r].pc = "discard" /\ run[r].outcome = "completed"]_vars

(* A cancelled run makes no further attempt, wherever the cancellation finds
   it: executing, between two storage calls or in its retry delay. *)
CancelledNeverRetries ==
  [][\A r \in runs \cap runs' : run[r].aborted => run'[r].attempt = run[r].attempt]_vars

(* A cancellation by hand drops the queued run and ends every run as cancelled,
   unless it ended by itself or timed out first: README "a run cancelled by hand
   ends as cancelled, never timed_out". *)
CancelledNotTimedOut ==
  \A r \in runs : run[r].cancelledFirst /\ run[r].pc \in {"discard", "saveEnd", "saveBare"}
                   => run[r].outcome # "timed_out"

(* start() finishes no run that is still going, even when the jobs API starts
   runs while start() waits for the storage: it skips the executions its own
   process holds. *)
LiveNotInterrupted ==
  \A e \in Exec : store[e] = "interrupted" => ~Held(e)

(* Every run ends and gives its slot back, and a queued run does not wait for
   ever. *)
RunsEnd ==
  /\ \A r \in RunId : (r \in runs) ~> (r \notin runs)
  /\ queued ~> ~queued

(* An execution a previous process left running, by a crash or because the
   store refused the save of its end, is finished by the next start. *)
InterruptedFinishes ==
  \A e \in Exec : (store[e] = "running" /\ e[1] < epoch) ~> (store[e] # "running")
=============================================================================
