# Verification of the Qodalis CLI server (Node.js)

TLA+ models of `@qodalis/cli-server-node` and its plugins, the TLC runs that check them and
the proofs that TLAPS checks. Paths are relative to the repository's root.

The server is an Express application. Node runs one callback at a time, so nothing here is
about threads: everything is about **awaits**. Between two awaits code is atomic; at an await
any other request, timer or socket callback may run, and the storage behind every component
(jobs, users, sessions, tokens, files) is a pluggable, asynchronous interface that may be slow,
may reject, and outlives the process. An action of these models is the code between two awaits.

## 1. Inventory

### Jobs (`plugins/jobs`)

| Part | State | Operations |
|---|---|---|
| `CliJobScheduler` | per job: `runs` (the slots taken), `queued`, `options`, `status`, `timer`; `_running` | timer fires, `triggerAsync`, `cancelCurrentAsync`, `pauseAsync`, `resumeAsync`, `stopJobAsync`, `updateOptionsAsync`, `deleteExecution(s)Async`, `start`, `stop` |
| a run | `AbortController`, `executionId`, attempt, the attempt's timeout | save "running", execute, discard or save the end, persist the state, retry |
| storage (`ICliJobStorageProvider`) | executions, saved job states | save, delete, list by pages, prune; survives the process |
| statistics | none; a copy of the history collected page by page | the columns of a range |
| controller, logger, interval parser | none of their own | REST, formatting |

*Interaction.* Timers and the REST API call the scheduler; the scheduler awaits the storage at
six points of an attempt and at three of `start()`; it publishes `job:*` events.
*Hard.* A cancellation, an update or a deletion between two storage calls of an attempt; a
storage call that rejects in the middle; a crash; an API that is served while `start()` waits;
timers that nobody refers to any more; a history that changes while it is read.
*Right when.* No run starts over `maxConcurrentRuns`, nothing is queued beside a free slot,
a cancelled run makes no further attempt, the history is not rewritten, what a crash left is
finished, the timer is the one the status calls for, the answered status survives.

### Users (`plugins/users`)

| Part | State | Operations |
|---|---|---|
| `AuthService`, lockout | `lockouts`: per key the attempts, the lock and the last attempt | reserve, fail, succeed, reset, sweep |
| `AuthService`, sessions | the session store; tickets | login, logout, validate, revalidate, issue and consume tickets, revoke, clean up |
| `AuthService`, API tokens | the token store | create, use, revoke, record the last use |
| passwords and the hasher | the credential store; the hashes under way and those that wait | check, change, reset; a bounded number of hashes at a time |
| `DirectoryService` | users, groups | create, update, delete, members; the last administrator; who may grant what; seeding |
| permissions, middleware, stores, builder | none, or maps | pure functions and wiring |

*Interaction.* Every change of access ends in a session event: `session-ended` (of one session,
revoked or not) or `access-changed` (of anybody). The sockets listen to both.
*Hard.* Each request makes several store calls; a login, a check and an administration request
interleave at each of them. Events are only useful to sockets that are already registered.
*Right when.* Guesses are bounded, locks stand, nothing keeps running on an identity that ended,
somebody can administer, nobody is given what the giver does not have.

### Server (`src`)

| Part | State | Operations |
|---|---|---|
| assembly (`createCliServer`, `CliBuilder`) | the auth provider, the features, the mounted plugins | create, set the provider, mount a plugin |
| `SessionBoundSockets` | the bound sockets, a running check and a grace timer of each | bind, session events, re-check, wait for the kick |
| events and logs sockets | connected clients with the context of their ticket | accept, broadcast, `session-kicked`, disconnect |
| `CliShellSessionManager` | shells with their pseudo-terminal, timers and limits | accept, check, spawn, exit, time out, re-check |
| process trees | nothing between two kills | collect, signal, collect again, kill |
| `CliEventBus` | subscriptions | publish one handler after the other, subscribe |
| registry, executor, usage statistics | tree of processors, counters | find, execute, stream, count |
| authentication gate, MCP endpoint, REST controllers | none that changes at run time | decide, translate |

*Hard.* Anything that waits while a client leaves, a session ends or a provider is replaced; a
bus whose handlers fail and whose failures are events again; processes that leave the shell they
were started in.
*Right when.* Sockets follow their identities and hear events in order, what is counted, told and
answered of a command agrees, limits hold for shells that wait too.

### Plugins around it

`filesystem`, `-json`, `-sqlite`, `-s3` are five stores of one file tree behind one interface:
the operating system's, a tree in memory, the same tree in a file that is written after every
change, rows found by path, by parent and with `LIKE`, and keys of a bucket found by prefix, page by
page. *Hard.* Sources and destinations that contain one another, the root, two ways to find an entry
that must agree, a save that fails or is cut short, a move that is two operations, an operation that
is many calls. *Right when.* The tree stays a tree, the stores answer and change alike, a move loses
nothing, a restart finds what was answered.

`data-explorer` sends a query to one of seven kinds of database, with a timer and a row limit.
*Right when.* Every client it opens is ended, and a result that is cut off says so.

`audit` and `admin` keep bounded buffers (audit entries with failed sign-ins capped apart, a log
ring, status samples); `admin` also switches modules off and on. `aws`, `weather` and `demo` are
commands over libraries.

`components` in `PROJECT.json` lists every part with its status.

## 2. What is modelled

### Jobs

**`JobRuns`: the runs of one job.** Jobs share nothing but a storage keyed by job, so one job is
enough. Runs are numbered as they start, so `reg.runs`, a `Map` in insertion order, is a set of
numbers. `run[r]` is where the coroutine of a run is; an awaited storage call has two steps, its
effect in the store (`StoreSaves`, `StoreDiscards`, `StorePersists`, or `StoreRejects`) and the
continuation that sees the result. `TryStart`, `DrainQueue`, `ReleaseSlot`, `CancelAll` carry the
names of the methods they model; `JobEnds`, `EndSaved`, `StatePersisted` and `RetryDelayEnds` are
`_executeAttemptAsync` and `_runWithRetriesAsync` at their awaits. The deleter reads an execution,
checks, and deletes at three instants. `start()` lists and finishes interrupted executions one by
one while, with `ApiDuringStart`, requests go on. `Crash` keeps the storage only. `announced` and
`cancelledFirst` are history.

**`JobTimers` and `JobClock`: its schedule.** `JobTimers` has the status, what `reg.timer` refers to,
the *orphans* (live timers it no longer refers to, which nothing can stop), the saves in flight (a
queue: the storage answers calls in order), `start()` at its two waits and `stop()` at its own. The
API is served throughout, before `start()` and after `stop()` too: `pauseAsync`, `resumeAsync` and
`updateOptionsAsync` do not ask whether the scheduler runs, and `_startIntervalTimer` arms whether it
does or not. `armedEarly` (a request armed a timer that `start()` will arm a second one beside) and
`savedEarly` (a status was saved that `start()` has yet to restore, or to overwrite) are history; what
the properties promise is for behaviours without them. `JobClock` is one
arming against a wall clock that may be set back, timers that fire early or late, and the longest
delay a Node timer takes.

**`JobStats`: the statistics of a history that changes.** Runs start, end and are removed while
`collectRuns` reads pages by offset, newest first; `Unseen` is its set of ids, `Column` what a bucket
shows. A page is a filter by positions (`Picked` of `Subsequences`, which `EventBus` uses too).

### Users

**`LoginLockout`: the lockout of one key.** An attempt is reserved before the slow hash, so the
failures of concurrent attempts arrive in any order, after the lock, its expiry, a sweep or a reset.
`reservedAt`, `counted`, `wrong` and `since` are history.

**`Passwords`: one user's password, its sessions and the hasher.** Logins and changes wait for a slot
of the hasher; the change is written, the flag set and the sessions ended after the waits, from what
was read before them. Whoever disables or enables the user does so at any point.

**`ApiTokens`: tokens and the tickets issued with them.** A call is its store calls; `during`
remembers what held at some instant of a call, because a token, its owner and the permissions are
read one after the other and an answer may rest on each at another instant.

**`Directory`: users, groups and who may change them.** `Stages` is the order of the store calls of a
request; what it reads it keeps in `rq`. Seeding, restarts and rejected calls are actions. With
`Overlap` the stores wait, and requests interleave at every call; without it a request runs to its
end, as it does over the in-memory stores, whose promises are settled when they are returned.

**`SessionSockets`: identities and the sockets that live on them.** This module composes
`AuthService` (sessions, tokens, revocation), `SessionBoundSockets` and `CliShellSessionManager`. One
user, whose flags are `barred` and whose right to a shell is `mayShell`; several identities. A check
(`consumeTicket` when a socket is accepted, `revalidate` afterwards) reads the session or token, then
the user, then the permissions, each a step, and its answer is used in a fourth. `accept[w]` is the
check an acceptance waits for, `checks[w]` the re-checks under way. Session events reach both managers
in the step that sends them, as the code calls its listeners. An administration request is the
sequence of its store calls (`todo`, `left`, `revoking`). Abstractions: two checks of one shell at the
same point count as one; the refusing read of a session and its deletion are one step; a limit that
refuses a shell is a free choice (`ShellLives` counts); a revocation's broadcast may fail. Logs
sockets are sockets outside `AwaitKick`.

### Server

**`ServerAssembly`.** `Create`, `SetAuth` and `Mount` in any order of plugins, while clients connect,
lose their identities and are re-checked. `heard` is whose session events a manager listens to.
`mcpFeatures` and `mcpPlugins` are the tool providers in order, `Owner` whose tool a name is.

**`EventBus`.** A publication calls the handlers one after the other and waits for each; a failure is
reported as a log line, which is published too. Subscribers come and go between. `Allows` decides
which socket may read an event, `inbox` is what it got.

**`Commands`.** A command on one of three routes from the body parser to the counters, the event and
the answer, with clients that leave and a module that is switched. The close event of a request comes
when its body has been read, not when its client leaves (`bodyClose`); this is Node's.

**`CommandGate`.** Three walks over the tree of processors: `ProcessorPermissions` (the gate),
`Resolved` (the registry) and `ToolPermissions` (the MCP endpoint). A chain of commands that is not an
array (`isArray`) is no chain to the gate and one to the registry, which iterates what it is given.

**`ShellLives`.** Acceptance against the limits, with a wait in the middle; idle and duration timers
whose delay is cut to the longest that Node takes.

**`ShellTrees`.** Processes fork, change group or session, drop the mark and die; the kernel re-parents
orphans. The server collects, signals, waits and collects again, and may exit.

### Files, queries, histories

**`TreeOps`, `FileTree`, `SqliteRows`, `FileStores`.** `TreeOps` has the operations of the in-memory
and JSON providers, whose code is the same, on a function from paths to contents; each returns its
answer and the tree it leaves, so a move is literally a copy followed by a removal, with an error in
between. The root has no name: `getParentAndName` makes an operation at the root one on its child with
the empty name, which is `Unnamed`. `FileTree` is the abstract store: a request is asked, and
that request, no other, changes the tree and is answered. The request is part of the state of both
levels, so a SQLite operation that answers without its effect, has another's effect, or refuses what
the tree accepts, is not a step of `FileTree`.
`SqliteRows` has the same operations on the `files` table, statement by statement: `Deleted`,
`RowsUnder` and `Clash` are its `DELETE`, its `LIKE` and its unique index. `FileStores` is a server with
one of the three providers; the JSON provider's saves are separate writes of the file, any of which may
throw or be cut short by the end of the process (`Saves`, `SaveFails`, `DiesSaving`).

SQLite is compared with the tree on the requests that `Careful` allows. Outside them the stores differ,
as the code stands: `remove('/')` deletes SQLite's root row until the next start and does nothing to a
tree; a write to `/` makes a child without a name in a tree and is refused by SQLite; a directory
copied into itself or onto its ancestor loses or repeats children in SQLite; a move of an entry onto
itself deletes it in all three; a recursive mkdir onto a file is answered `FileExists` by the trees
(409) and `NotADirectory` by SQLite (400); and `LIKE` takes `_` and `%` in a name as wildcards and
ignores case, so an operation on one directory takes along what is under another whose name matches.
The constant `Like` has the pairs of names that match; in the run a name matches itself only.

**`S3Keys`.** The bucket is a function from keys; a directory is its marker or any key under it. Every
operation is its calls (`HeadSource`, `ListToCopy`, `CopyKey`, `DeletePage`, ...), interleaved with
those of another request, any of which may fail. A path may come with a slash at its end, which `toKey`
leaves on the key (`ToKey`): it is then the marker's key, while a prefix is the same with and without it.

**`Explorer`.** A request to one of seven providers, each with its own order of connecting, querying
and ending; the timer aborts a signal that no provider looks at. `globalPool` is the one pool that
`sql.connect()` keeps for the process.

**`Recent`, `Histories`.** `Recent` is the abstract specification: of each kind the newest entries
within a bound, in the order they came. `Histories` has the log ring, the sampler's ring and the audit
log with its two lists, and implements three instances of it. A build makes new rings (`Anew`: the
sampler's begins with a sample).

## 3. Runs

Parts that share no state are checked side by side: an `MC` module extends several modules and has
a variable `part`, chosen in the initial state; a behaviour takes the steps of that part only, and
the others stand still in one of their initial states. A property of one module is then checked in
every behaviour of its part, and the parts' states add up instead of multiplying.

| Run | Question | Bounds, and why they are enough |
|---|---|---|
| `JobSlots` | Slots, policies and the queue: no run over the limit, none queued beside a free slot, every run ends | three requests, limits 1 and 2 and updates between them: two runs, one queued, and a limit below the number of runs; a rejected save of a start |
| `JobHistory` | What the storage says of an execution is right and stays; a cancelled run makes no further attempt | two runs, one retry, one crash, a deleter; rejections of properties, of finishing, of the states and of the list |
| `JobStart` | The API during `start()`: no run that is going is called interrupted, all that a crash left is finished | two requests, one before the crash and one after it, or both at a time |
| `Timers` | Timer, status and schedule are those the callers were answered; an active schedule goes on; each occurrence once and not early; statistics count each run once | two saves in flight (one of an answered call behind one of the scheduler's own), one orphan of each kind when `start()` is called, which it is with no save in flight, one crash; everything else in any order, the API served throughout. The clock: period 4, intervals 3 and 5, timers one tick early, set back once by up to 5, more than a period; horizon 20 and a longest delay of 12, less than the horizon. The statistics: pages of one run of three, ranges that end now or before |
| `Sockets` | No shell outlives its session; what is quiet is entitled; what is not entitled closes | one session, one token, one user, and one socket, which is an events socket or (on the session) a shell. Two sockets meet only in `SessionBoundSockets`' map, where each has its own entry |
| `Accounts` | Guesses, passwords, tokens, the directory | four attempts against a limit of two; two logins, two changes and two slots of the hasher, so that somebody waits; two tokens against a limit of one, one ticket, two calls; three users of whom two may administer, three groups, one rejection or restart anywhere, no overlap of requests |
| `Storage` | Stores of files, queries and logs lose and leak nothing | names `a` and `b`, paths of length two; five entries for SQLite, so that a directory with an entry is copied beside itself, four for the in-memory store, three for the JSON store, whose tree and file are two trees and whose copies from nowhere are of one place; two interleaved S3 requests, with paths that end in a slash and others, pages of two keys and a failed call; two queries on eight sources of seven kinds, up to two rows against limits of one; rings of three and two |
| `Requests` | The server around its components | two providers, three plugins and two clients; three publications, a subscriber that fails and one that comes late; two commands; a tree of four processors, chains that are arrays and others; three terminals, two at a time and one per user; three processes, one of which ignores signals |

Four runs show that the code does not do what its documentation says:

| Run | What happens |
|---|---|
| `JobCancelTimeout` | A run is cancelled; its job takes longer to settle than the attempt's timeout, which is still armed: the run ends as `timed_out`. `plugins/jobs/README.md:103`: "a run cancelled by hand ends as `cancelled`, never `timed_out`" |
| `LastAdmin` | Over a store whose calls wait, two requests each find another administrator and each take one away. `plugins/users/README.md:142`: "the last enabled member of `admin` cannot be deleted, disabled or removed from `admin`". Over the in-memory stores it holds, and is proved |
| `StaleLogin` | A login checks the old password; the change is written and ends the sessions; the login creates its session. `plugins/users/README.md:143`: "A password change by the user revokes their other sessions; by someone else, all of the target's sessions." |
| `ShutdownKill` | The server ends its shells and exits before the timer of their last signal. `src/README.md:417`: "its whole process tree is killed (SIGHUP, SIGTERM, then SIGKILL after 1 s)" |

`CHECK_DEADLOCK FALSE` is in every configuration: a server that is asked nothing does nothing, and
the bounded numbers of requests come to an end.

Every property has a mutant, a change of one mapped definition as a bug would make it, under which
TLC finds the property violated. Mutants stand beside the definition they change (marked *Mutant* in
the comment) and are not part of the model.

### What else the code does, met while modelling

These are behaviours of the models, left out of the properties by the weaker form that each property
has; none of them contradicts a promise of the documentation clearly enough for a run of its own.

*Jobs.* A resume or an update of an interval job arms its timer whether the scheduler runs or not
(`cli-job-scheduler.ts:462`, `:589`, `:659`): before `start()`, while it waits, or after `stop()`. A
`start()` that follows arms a second one, nothing refers to the first any more, and each of its runs is
due twice (`armedEarly`). `start()` restores the status that it read before a pause answered meanwhile,
and a status saved before it restored the stored one replaces that (`savedEarly`); it also saves its
copy of an execution that has ended meanwhile as interrupted. `ScheduleAsAnswered` and
`LiveNotInterrupted` say what holds beside these. A `setInterval` above
2^31-1 ms fires every millisecond. The statistics skip a run that a deletion moves to a page already
read (`cli-jobs-stats.ts:127`); `StatsExact` asks for every run only where none is removed meanwhile.

*Sockets.* A socket that waits for its kick is closed without it when a validation sends another
`session-ended`, not a revocation, before the broadcast. A token revoked between a check and the
binding, or after a re-check has read it, leaves its socket open until the sweep. A shell accepted
while the manager is disposed is spawned after the shutdown. A provider that is replaced leaves its
sockets open until their next re-check. An idle timer first counts from the spawn.
`broadcastDisconnect` drops a client that connects while it waits. The `session-kicked` of one session
reaches every client of the user and closes only those of that session
(`cli-event-socket-manager.ts:251`).

*Users.* A group's deletion that breaks off, by a rejected call or a restart, leaves the group among its
members, who are in a group of that name that is created later (`directory-service.ts:376`);
`NoDanglingMembership` allows just these. With overlapping requests `NoEscalation` and `NoDanglingMembership` fail like
`AdminRemains`; the default group of a user created without groups is not compared with what the
caller holds. A login uses the `disabled` it read before the hash. An administrator's reset can be
overwritten by a change under way. Overlapping requests get past the limit of tokens and past unique
names; a token made while its user is deleted survives, and opens nothing.

*Commands.* The gate walks `chainCommands` if it is an array (`cli-server-auth-gate.ts:59`), the executor
if it has a length (`cli-command-executor-service.ts:95`), and the registry iterates what it gets: a
chain of another kind runs a sub-command under the permissions of its root, and `ChainPermitted`
promises no more for it. The close event of a request comes when its body has been read, so streams are aborted
early (`cli-controller.ts:79`, `:103`). A module that is switched off refuses its root command but
not a sub-command found another way (`module-registry.ts:114`); switching is a flip, and registering
again puts a processor behind or before later ones of its name.

*Files and queries.* The trees refuse to remove an empty directory without `recursive`, which
`i-file-storage-provider.ts:22` reads otherwise. S3 lists one page only, takes no notice of keys that
`DeleteObjects` could not delete, deletes what is uploaded between the copy and the removal of a
move (`s3-provider.ts:401`), and loses the contents of a path that is a file and a directory. It takes a
directory that is named with the slash of its marker for a file (`s3-provider.ts:75`, `:336`): `stat`
says so, `copy` copies the marker alone, and `move` then removes all that was under it; `Transfers`,
hence `CarriedIsKept`, leaves out a directory of more than its marker that is named so. A save of the
JSON file that is cut short leaves a file that does not parse, and the next start an empty tree
(`json-file-provider.ts:95`): `FileFollowsTree` is about stores whose last save succeeded, and no
property says more. The schema of Redis is of ten scans, and what they left out is not marked
(`redis-data-explorer-provider.ts:267`); `CutIsMarked` is about the rows of results, and a limit of 0 is
none to the executor. The
timeout of a query aborts a signal that no provider reads; the global pool of `mssql` reaches the
source that connected first; an `end()` that rejects loses a result already there. Pages of the audit log by
offset repeat entries when new ones arrive.

### Fairness

* `JobRuns`: every storage call is answered, every callback that is due runs, every job's
  `executeAsync` settles. Requests, timeouts and crashes need not happen. The first two are what
  Node and a storage that answers or rejects give; the third is the job's own promise, which the
  code cannot enforce, since a timeout aborts a signal but not the job.
* `JobTimers`: the storage answers, `start()` goes on, the timer that `reg.timer` refers to fires.
* `SessionSockets`: store calls return, the sweep and the check interval repeat (`setInterval`) and
  a grace period ends. Nothing of clients or administrators: `UnentitledCloses` holds although
  nobody ever closes a socket. It is stated per reason, because two reasons that take turns may
  both be missed by a check that reads them one after the other.
* `ServerAssembly`: each kind of socket is re-checked again and again (`setInterval`).
* `ShellTrees`: the timers between the signals fire, as long as the process lives.

All fairness is weak.

## 4. Proofs

The theorems hold for all values of the constants that satisfy the module's assumption, which
TLC evaluates on every run. Every invariant used was checked by TLC before it was proved.

* `JobRunsProofs`: `TypeCorrect`, `QueueNotStranded`, `LimitObeyed`, `CancelledRunsStop`. The
  invariant `Inv` adds two facts to the types and `NoStrandedQueue`: runs are numbered by the
  request that made room for them (`Numbered`: without it a queued run could need a number that
  does not exist), and a retry is waited for only while one is left (`RetriesLeft`: without it the
  attempt could leave its type). The two action properties follow from the types and from what
  `StartRun` and `NextAttempt` do.
* `JobRunsProofs`, on what the storage says of executions: `RunningIsRunning`,
  `StartSparesTheLiving`, `HistoryStands`. The argument is ownership. An execution is unknown to the store until its attempt begins, then its run holds it,
  then it is past, and past for ever; a run writes only what it holds, the deleter and `start()`
  only what is past. `Works` is what a run knows of the store at each of its awaits. None of the
  three properties is inductive: they do not say what a save under way is about to write.
  `RunningIsRunning` assumes that the storage does not refuse the end of an attempt itself
  (`EndsAreSaved`; it may refuse a run's properties), `HistoryStands` that the API opens after
  `start()`; without either TLC finds the property violated. `StartSparesTheLiving` needs neither.
* `JobTimersProofs`: `TimersTypeCorrect`, `ScheduleKept`. As long as no request armed a timer before
  `start()` came to the job there are no orphans, and the timer is the one the status and the schedule
  call for. As long as no status was saved before `start()` restored the stored one, what the saves
  under way will leave in the storage, in order, always ends in the status that was answered last: the
  scheduler's own saves, those of `stop()` among them, repeat the status before them, so a crash
  between two saves loses nothing that was answered.
* `JobTimersProofs`, on `JobClock`: `OccurrencesRunOnce`, `RunsFireWhenDue`. No occurrence of a
  schedule is run twice, however early its timer fires and however the clock is set back, since the
  next one is counted from the one that fired. That each run comes when it is due is proved where
  `DelaysFit`: the schedule's gaps and the interval are within what a Node timer takes. The hypothesis
  is needed: `_startCronTimer` and `_startIntervalTimer` give `setTimeout` and `setInterval` delays as
  they are, a delay above 2^31-1 ms (24.8 days: a monthly schedule, an interval of 60 days) becomes
  1 ms, and with `MaxDelay = 4` instead of 12 TLC finds `FiresWhenDue` violated in run `Timers`.
* `JobTimersProofs`, on `JobStats`: `StatisticsAreExact`. What a reader has taken is of the range and
  taken once, and a run of the range that is kept and not yet taken stands behind the reader's offset
  (`ReaderFits`): runs that start are newer and only push the others back (`RanksGrow`), and a removal
  is noted in `lost`. So the last page leaves nothing out. A start falls in one column because columns
  divide the range evenly (`Quotients`, `ColumnsAreExact`). `OrderRank` is the lemma on which the
  pages rest: a place in the list, newest first, is the number of runs not older.
* `CredentialsProofs`, on `LoginLockout`: `TypeCorrect`, `GuessesBounded`, `FailuresLock`,
  `LocksStand`. The invariant ties the entry to its history: the entry counts exactly the attempts
  in `counted`, an attempt outside it was reserved before the entry was dropped, hence a whole
  period ago, and no time lies in the future. `AttemptsBounded` alone is not inductive: it does not
  say that a dropped entry's attempts have left the window.
* `CredentialsProofs`, on `Passwords`: `ChangesPrevail`, `SlotsKept`. What a login or a change read
  before it waited for a hash still holds when it goes on, unless the one is marked `raced` or the
  other `crossed` (`ReadsHold`, `FlagsHold`); a hash that ends hands its slot over or frees it, so
  the counter is the number of hashes at every step (`SlotsOK`, which needs that whoever waits or
  hashes is at a stage that does, `BusyAtWork`).
* `CredentialsProofs`, on `ApiTokens`: `TokensAreJustified`. What a check or a redemption goes by was
  so at an instant of it: what is so now is in its history (`NotedNow`), what it has read was so then
  (`ReadWasSo`), and the ticket it takes was live, and is taken by nobody else (`TicketInv`). History
  only grows (`Lasting`). The attempt at this proof corrected the property, which first said that the
  user held the granted permissions at one instant: the user's groups are read before what they give,
  so a user removed in between is still granted what the group gains after that. TLC finds it once two
  changes are allowed (`MaxChanges`), which is why run `Accounts` has that bound.
* `RequestsProofs`, from a session's shells to the server they run in.
  `ShellsWithinLimits`, `ShellTimersFollow`: a connection counts as a shell from the instant it is
  admitted (`LifeInv`), and every input rearms the whole timer.
  `TreesAreKilled`: what the scan did not find, and what it found but no longer is, is in `Escaped`
  or gone (`MissedEscaped`, `FoundAreGone`); `Descendants` is the least set that holds the seed and
  the children of its members, so a fork outside it changes nothing in it.
  `ChainsArePermitted`: a command above another one in the chain has a shorter path
  (`AboveIsShorter`), and whatever the executor resolves was listed (`ListedResolves`).
  `CommandRecordsAgree`: each execution has exactly one record (`RecordOf`), so counting the records
  is counting executions.
  `AssemblyIsTold`, `EndsAreHeard`: a feature has one provider (`OneProvider`), the plugins' offers
  stand in order of registration (`FeaturesInOrder`), and a socket that stays open is told of every
  end (`SteadyAreHeard`). The first offer is the least index, whose existence is `LeastNatural`.
  `EventsAreHeardInOrder`: a client of the events socket hears what it may of all that was published
  from its connection to its end, once and in that order. `deliverEvent` subscribes first, when the
  server is built (create-cli-server.ts:257, `EventBusAssumption`), and stays first of the list
  (`DeliverFirst`, `FirstIsKept`), so a publication calls it before it first waits, hence before any
  other publication begins; a client's inbox grows along the publications it is due (`Heard`), and a
  list that does so is the filtered list (`InOrderIsPicked`).
* `SubsequencesProofs`: what a filter leaves of a list, for `JobStats`, `EventBus` and `Histories`.
  `Picked(s, I)` has as many elements as there are positions in `I`, in their order, and is the only
  such list; a filter of a filtered list is one filter (`PickedTwice`).
* `DirectoryProofs`: `AdministratorRemains`, `MembershipsAreReal`, `NobodyEscalates`, where requests
  do not overlap. At most one request is under way (`OneAtATime`); its stages are in order of rank,
  so what is ahead of it and what it has read are known from the stage it is at; and what the
  stages behind it taught it (`Learned`: there is another administrator, the groups exist, the
  caller covers what it gives) is still true, since nobody else moved. Where requests overlap it
  is not, and run `LastAdmin` shows it.
* `SessionSocketsProofs`: `TypeCorrect`, `ShellsEndWithSessions` and `QuietShellsAreEntitled`.
  A shell that runs, or whose
  check after its registration has read the session as live, has a live session or an announcement
  that is still due (`Held`); a socket that has not been asked for has no check (`Unused`).
  Between the deletion of a session and its `session-ended` the announcement is due, and when it
  is made the shell is registered, so it is found.
  For what else takes a shell's right away (a token revoked, the user barred, `shell:execute` lost)
  the invariant is `Seen`: while a shell counts, either a check that has not read the change yet, or
  has read it, is under way, or the running request still has an audit ahead (`RecheckDue`) that has
  every shell checked from the start. A check never answers "alive" past such a change, and a
  re-check is added whatever else is under way for the shell; run
  `Sockets` has the mutant that skips shells being checked.
* `StorageProofs`, on `FileStores`: `TreesStayWellFormed`, `FileAlwaysFollows`, `MovesLoseNothing`. Paths
  come first: taking the
  parent commutes with moving a path from under one place to under another (`RebaseParent`), and
  moving it there and back is the identity (`RebaseBack`). From these each operation leaves a good
  tree (`GraftGood` is the one that matters), then each tree it saves is good. The invariant says
  so of the tree and of the file, and that the file is the tree unless a save has failed. A move's
  two saves keep every entry (`Keeps`): the copy has the source's entries rebased, and the removal
  takes none of them, since nothing is at or under two places that are apart.
* `StorageProofs`, on `SqliteRows`: `RowsImplementTree`, the refinement of `FileTree` by the rows.
  The invariant is that the rows are those of a finite tree without unnamed entries (`RowsOf`,
  `NamedTree`); there is one lemma per operation (`WriteFileRows` to `MoveRows`), which says that it
  answers as the tree does and leaves the rows of the tree that the tree's operation leaves. On the
  requests of the run (`Careful`) `LIKE` finds just what is under the path, and the unique index
  refuses nothing, since rebasing takes no two paths to the same one (`RebaseBack`).
* `StorageProofs`, on `S3Keys`: `CargoIsKept`, `DirectoriesStayKeys`, for any number of requests under
  way, names in any order and pages of any size. The order of the keys is total and transitive
  (`KeysAreOrdered`, `KeyOrderIsTransitive`), so a page is an initial part of what is left and its
  last key is before the rest (`PageFacts`): a key that a request has yet to handle is on its page or
  after its token (`Ahead`). The invariant says for each key of a copy or move which nobody else has
  changed that it is where it was until the deleting starts, and that it has arrived unless it is
  ahead (`CarryInv`); for a removal, that what is left of the directory is ahead (`GoneInv`). It needs
  that no two keys of the source are copied to the same key (`RebasedApart`), and that what other
  requests do is in `touched` (`OthersKeep`). `S3Assumption` asks that no two names have the same place
  in the order and that the first bucket has finitely many keys.
* `StorageProofs`, on `Histories`: `KeptInMemoryIsRecent`, the refinement of `Recent` by the two rings
  and the audit log. A ring that is not full has not wrapped (`RingFits`), so its two readers read the
  same (`GetAllIsHistory`), and one more entry leaves the last `n` (`PushedHistory`), which is what
  `Recent` keeps of one kind (`LatestIsLast`). The two lists of the audit log are each in order of
  sequence number, share none, and hold one kind each (`TwoLists`). An entry has as many later ones of
  its kind as stand behind it in its list (`LinesFacts`), so a list that drops its oldest keeps what
  `Recent` keeps of the whole log (`LatestAreFreshest`, `LinesLog`); that a filter of the merged list
  is a filter of what is stored is `PickedTwice`, of `SubsequencesProofs`.
* `StorageProofs`, on `Explorer`: `ConnectionsComeBack`, `CutsAreMarked`. A client is that of a request
  that has still to pass its `finally` block (`OwnClient`), a pool of SQL Server that is open is held by
  a request under way (`PoolUsed`), and a result carries the provider's mark until the executor's limit
  adds its own (`Marked`, `LimitedIsMarked`).

Model-checked only is all liveness (`RunsEnd`, `InterruptedFinishes`, `TicksGoOn`,
`UnentitledCloses`, `SocketsFollowProviders`, and `FoundDie`, which run `ShutdownKill` finds violated):
fairness and `ENABLED` are out of the prover's reach.

Each invariant, action property and refinement that a passing run checks has a theorem.

What a recursive definition computes for every input cannot be proved here, since the
library's induction theorems take an operator as a parameter. Induction over a set that is given as
such is within reach: `LeastNatural` (every set of numbers that is not empty has a least member) is
proved from the well-foundedness of the numbers, and stands for it (`LeastNumber` in `StorageProofs`,
where the first and the last of a finite set of keys follow from it).

## 5. Not modelled

*Whole parts.* The operating system's file provider (each operation is one call of `node:fs`), the
REST API of files (a check of the path and one call), the built-in command processors, the response
builder, paging and the splitting of shell words (formatting without state), the AWS plugin (a
remote call between parsing and formatting), `weather` and `demo`.

*Within the modelled parts.*

* Jobs: the fields that describe the last run, `stop()` while `start()` waits, saves of a job's
  state that reject after an API call, the log lines of a run, the parsing of cron expressions.
* Users: `touchSession`, external identities, profile fields, the rules on a new password, the
  letters' case of names, permission wildcards other than `*`, read-only stores, the derivation of a
  hash.
* Sockets: the level filter of the logs socket, flow control and resizing of a terminal, the frames
  themselves.
* Commands: the parsing of arguments, per-command counters, schemas and rendering of MCP tools,
  the fixed permissions of the REST routes, the dashboard's login and static files.
* Files: sizes, dates and permissions of entries, reads other than `list`; names with characters
  that a provider treats specially, but for the pairs that `LIKE` confuses.
* Data explorer: what a query says; the kinds of operation of MongoDB and Redis.
* Audit: filters of a listing.
