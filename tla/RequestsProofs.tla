---------------------------- MODULE RequestsProofs ----------------------------
EXTENDS ServerAssembly, EventBus, Commands, CommandGate, ShellLives, ShellTrees, SubsequencesProofs,
        WellFoundedInduction, TLAPS

(* Shells and their limits. *)

Lives == {"out", "authorizing", "checking", "open", "over"}

LifeTypes ==
  /\ life \in [Terminals -> Lives] /\ key \in [Terminals -> Keys] /\ now \in Nat
  /\ lastInput \in [Terminals -> Nat] /\ started \in [Terminals -> Nat]
  /\ idleAt \in [Terminals -> Nat] /\ expireAt \in [Terminals -> Nat]

\* Input is never later than now.
InputIsPast == \A h \in Terminals : lastInput[h] <= now

LifeInv == LifeTypes /\ InputIsPast /\ WithinLimits /\ TimersFollowInput

\* The shells of one key.
OfKey(k) == {h \in InUse : key[h] = k}

\* The counts of the limits are those of finite sets.
LEMMA InUseIsFinite ==
  ASSUME ShellLivesAssumption
  PROVE  IsFiniteSet(InUse) /\ \A k : IsFiniteSet(OfKey(k))
<1>1. IsFiniteSet(InUse)
  BY FS_Subset DEF InUse, ShellLivesAssumption
<1> QED BY <1>1, FS_Subset DEF OfKey

\* Where no shell is added the limits hold on.
LEMMA LimitsKept ==
  ASSUME ShellLivesAssumption, WithinLimits, InUse' \subseteq InUse, UNCHANGED key
  PROVE  WithinLimits'
<1>1. IsFiniteSet(InUse) /\ \A k : IsFiniteSet(OfKey(k))
  BY InUseIsFinite
<1>2. Cardinality(InUse') <= Cardinality(InUse) /\ Cardinality(InUse) \in Nat /\ Cardinality(InUse') \in Nat
  BY <1>1, FS_Subset, FS_CardinalityType
<1>3. ASSUME NEW k \in Keys
      PROVE  Cardinality({h \in InUse' : key'[h] = k}) <= MaxSessionsPerUser
  <2>1. {h \in InUse' : key'[h] = k} \subseteq OfKey(k)
    BY DEF OfKey
  <2>2. /\ Cardinality({h \in InUse' : key'[h] = k}) <= Cardinality(OfKey(k))
        /\ Cardinality(OfKey(k)) \in Nat /\ Cardinality({h \in InUse' : key'[h] = k}) \in Nat
    BY <1>1, <2>1, FS_Subset, FS_CardinalityType
  <2>3. Cardinality(OfKey(k)) <= MaxSessionsPerUser
    BY DEF WithinLimits, OfKey
  <2> QED BY <2>2, <2>3 DEF ShellLivesAssumption
<1>4. Cardinality(InUse') <= MaxSessions
  BY <1>2 DEF WithinLimits, ShellLivesAssumption
<1> QED BY <1>3, <1>4 DEF WithinLimits

\* The one step that adds a shell finds room for it.
LEMMA RoomIsThere ==
  ASSUME ShellLivesAssumption, LifeTypes, WithinLimits, NEW h \in Terminals,
         life[h] = "authorizing", HasRoom(h),
         life' = [life EXCEPT ![h] = "checking"], UNCHANGED key
  PROVE  WithinLimits'
<1>1. IsFiniteSet(InUse) /\ \A k : IsFiniteSet(OfKey(k))
  BY InUseIsFinite
<1>2. InUse' = InUse \cup {h} /\ h \notin InUse
  BY DEF InUse, LifeTypes
<1>3. Cardinality(InUse') <= MaxSessions
  <2>1. Cardinality(InUse \cup {h}) = Cardinality(InUse) + 1 /\ Cardinality(InUse) \in Nat
    BY <1>1, <1>2, FS_AddElement, FS_CardinalityType
  <2>2. Cardinality(InUse) < MaxSessions
    BY DEF HasRoom
  <2> QED BY <1>2, <2>1, <2>2 DEF ShellLivesAssumption
<1>4. ASSUME NEW k \in Keys
      PROVE  Cardinality({g \in InUse' : key'[g] = k}) <= MaxSessionsPerUser
  <2>1. CASE key[h] = k
    <3>1. {g \in InUse' : key'[g] = k} = OfKey(k) \cup {h} /\ h \notin OfKey(k)
      BY <1>2, <2>1 DEF OfKey
    <3>2. Cardinality(OfKey(k) \cup {h}) = Cardinality(OfKey(k)) + 1 /\ Cardinality(OfKey(k)) \in Nat
      BY <1>1, <3>1, FS_AddElement, FS_CardinalityType
    <3>3. Cardinality(OfKey(k)) < MaxSessionsPerUser
      BY <2>1 DEF HasRoom, OfKey
    <3> QED BY <3>1, <3>2, <3>3 DEF ShellLivesAssumption
  <2>2. CASE key[h] # k
    <3>1. {g \in InUse' : key'[g] = k} = OfKey(k)
      BY <1>2, <2>2 DEF OfKey
    <3> QED BY <3>1 DEF WithinLimits, OfKey
  <2> QED BY <2>1, <2>2
<1> QED BY <1>3, <1>4 DEF WithinLimits

\* The end of a shell is fine wherever it falls.
LEMMA EndKeeps ==
  ASSUME ShellLivesAssumption, LifeInv, NEW h \in Terminals, EndOf(h)
  PROVE  LifeInv'
<1>1. LifeTypes' /\ InputIsPast'
  BY DEF LifeInv, LifeTypes, InputIsPast, EndOf, Lives
<1>2. InUse' \subseteq InUse
  BY DEF LifeInv, LifeTypes, EndOf, InUse
<1>3. WithinLimits'
  BY <1>2, LimitsKept DEF LifeInv, EndOf
<1>4. TimersFollowInput'
  BY DEF LifeInv, LifeTypes, EndOf, TimersFollowInput
<1> QED BY <1>1, <1>3, <1>4 DEF LifeInv

\* Every other step keeps the limits or arms a timer below its deadline.
LEMMA LivesStep ==
  ASSUME ShellLivesAssumption, LifeInv, [LivesNext]_lifeVars
  PROVE  LifeInv'
<1> USE DEF LifeInv
<1>1. ASSUME UNCHANGED <<life, key>>
      PROVE  WithinLimits'
  <2>1. InUse' \subseteq InUse
    BY <1>1 DEF InUse
  <2> QED BY <1>1, <2>1, LimitsKept
<1>2. ASSUME NEW h \in Terminals, Accept(h)
      PROVE  LifeInv'
  <2>1. LifeTypes' /\ InputIsPast' /\ TimersFollowInput'
    BY <1>2 DEF Accept, times, LifeTypes, Lives, InputIsPast, TimersFollowInput
  <2>2. InUse' \subseteq InUse
    BY <1>2 DEF Accept, InUse, LifeTypes
  <2> QED BY <1>2, <2>1, <2>2, LimitsKept DEF Accept
<1>3. ASSUME NEW h \in Terminals, Authorized(h), ~EndOf(h)
      PROVE  LifeInv'
  <2>1. LifeTypes' /\ InputIsPast' /\ TimersFollowInput'
    BY <1>3 DEF Authorized, LifeTypes, Lives, InputIsPast, TimersFollowInput
  <2> QED BY <1>3, <2>1, RoomIsThere DEF Authorized
<1>4. ASSUME NEW h \in Terminals, Checked(h), ~EndOf(h)
      PROVE  LifeInv'
  <2>1. LifeTypes' /\ InputIsPast' /\ TimersFollowInput'
    BY <1>4 DEF Checked, Spawns, Min2, LifeTypes, Lives, InputIsPast, TimersFollowInput, ShellLivesAssumption
  <2>2. InUse' \subseteq InUse
    BY <1>4 DEF Checked, Spawns, InUse, LifeTypes
  <2> QED BY <1>4, <2>1, <2>2, LimitsKept DEF Checked, Spawns
<1>5. ASSUME NEW h \in Terminals, Stdin(h)
      PROVE  LifeInv'
  <2>1. LifeTypes' /\ InputIsPast' /\ TimersFollowInput'
    BY <1>5 DEF Stdin, LifeTypes, InputIsPast, TimersFollowInput, ShellLivesAssumption
  <2> QED BY <1>1, <1>5, <2>1 DEF Stdin
<1>6. ASSUME NEW h \in Terminals, ClientCloses(h), ~EndOf(h)
      PROVE  LifeInv'
  <2>1. LifeTypes' /\ InputIsPast' /\ TimersFollowInput'
    BY <1>6 DEF ClientCloses, times, LifeTypes, InputIsPast, TimersFollowInput
  <2> QED BY <1>1, <1>6, <2>1 DEF ClientCloses
<1>7. ASSUME NEW h \in Terminals, IdleCheck(h), ~EndOf(h)
      PROVE  LifeInv'
  <2>1. Rearmed(h) \in Nat /\ Rearmed(h) <= lastInput[h] + IdleTimeout
    BY <1>7 DEF IdleCheck, Rearmed, Min2, LifeTypes, ShellLivesAssumption
  <2>2. LifeTypes' /\ InputIsPast' /\ TimersFollowInput'
    BY <1>7, <2>1 DEF IdleCheck, LifeTypes, InputIsPast, TimersFollowInput
  <2> QED BY <1>1, <1>7, <2>2 DEF IdleCheck
<1>8. ASSUME NEW h \in Terminals, DurationCheck(h), ~EndOf(h)
      PROVE  LifeInv'
  <2> DEFINE next == now + Min2(started[h] + MaxDuration - now, MaxTimeout)
  <2>1. next \in Nat /\ next <= started[h] + MaxDuration
    BY <1>8 DEF DurationCheck, Min2, LifeTypes, ShellLivesAssumption
  <2>2. expireAt' = [expireAt EXCEPT ![h] = next]
    BY <1>8 DEF DurationCheck
  <2> HIDE DEF next
  <2>3. LifeTypes' /\ InputIsPast' /\ TimersFollowInput'
    BY <1>8, <2>1, <2>2 DEF DurationCheck, LifeTypes, InputIsPast, TimersFollowInput
  <2> QED BY <1>1, <1>8, <2>3 DEF DurationCheck
<1>9. CASE Tick
  <2>1. LifeTypes' /\ InputIsPast' /\ TimersFollowInput'
    BY <1>9 DEF Tick, LifeTypes, InputIsPast, TimersFollowInput
  <2> QED BY <1>1, <1>9, <2>1 DEF Tick
<1>10. CASE UNCHANGED lifeVars
  <2>1. LifeTypes' /\ InputIsPast' /\ TimersFollowInput'
    BY <1>10 DEF lifeVars, times, LifeTypes, InputIsPast, TimersFollowInput
  <2> QED BY <1>1, <1>10, <2>1 DEF lifeVars
<1>11. ASSUME NEW h \in Terminals, EndOf(h)
       PROVE  LifeInv'
  BY <1>11, EndKeeps
<1> QED
  BY <1>2, <1>3, <1>4, <1>5, <1>6, <1>7, <1>8, <1>9, <1>10, <1>11 DEF LivesNext, EndsFor

\* The invariant of shells: their limits and timers, and that input is past.
LEMMA LivesInvariant == LivesSpec => []LifeInv
<1>1. LivesInit => LifeInv
  <2> SUFFICES ASSUME LivesInit PROVE LifeInv
    OBVIOUS
  <2>1. InUse = {}
    BY DEF LivesInit, InUse
  <2>2. /\ Cardinality(InUse) <= MaxSessions
        /\ \A k \in Keys : Cardinality({h \in InUse : key[h] = k}) <= MaxSessionsPerUser
    BY <2>1, FS_EmptySet, ShellLivesAssumption DEF ShellLivesAssumption
  <2> QED BY <2>2 DEF LivesInit, LifeInv, LifeTypes, Lives, InputIsPast, TimersFollowInput, WithinLimits
<1>2. LifeInv /\ [LivesNext]_lifeVars => LifeInv'
  BY LivesStep, ShellLivesAssumption
<1> QED BY <1>1, <1>2, PTL DEF LivesSpec

(* However many authorizations wait at once and whichever end, there are never
   more shells than the limits, in all and per key. *)
THEOREM ShellsWithinLimits == LivesSpec => []WithinLimits
BY LivesInvariant, PTL DEF LifeInv

(* No timer of a shell waits past its idle deadline or its duration, although
   input moves the one and MAX_TIMEOUT_MS cuts both: for all timeouts. *)
THEOREM ShellTimersFollow == LivesSpec => []TimersFollowInput
BY LivesInvariant, PTL DEF LifeInv

-----------------------------------------------------------------------------
(* Process trees. *)

TreeTypes ==
  /\ born \subseteq Pids /\ alive \subseteq born /\ seen \subseteq born /\ Root \in born
  /\ parent \in [Pids -> Pids \cup {Init1}] /\ place \in [Pids -> {"group", "session", "away"}]

\* What the last collection missed had escaped by then, and escaped it stays.
MissedEscaped ==
  killing \in {"recollected", "killed"} =>
    \A p \in (alive \cap seen) \ (targets \cup {Root}) : place[p] = "away" /\ p \notin marked \cup known

\* What it found died of the KILL, and no process comes back.
FoundAreGone == killing = "killed" => alive \cap seen \cap (targets \cup {Root}) = {}

TreeInv == TreeTypes /\ MissedEscaped /\ FoundAreGone

\* A collection finds its seeds, but for the shell: the closure only adds.
LEMMA SeedsAreFound ==
  ASSUME TreeTypes, NEW extra
  PROVE  Seeds(extra) \ {Root} \subseteq Collect(extra)
BY DEF TreeTypes, Seeds, Collect, Descendants, ClosedOver

\* The processes that die take nothing of the invariant with them.
LEMMA DieKeeps ==
  ASSUME ShellTreesAssumption, TreeTypes, NEW dead, Die(dead), UNCHANGED <<targets, known, seen>>
  PROVE  TreeTypes' /\ (alive \cap seen)' = (alive \cap seen) \ dead
BY DEF ShellTreesAssumption, TreeTypes, Die

\* Each process step and each step of the server keeps the invariant.
LEMMA TreeStep ==
  ASSUME ShellTreesAssumption, TreeInv, [TreeNext]_treeVars
  PROVE  TreeInv'
<1> USE DEF TreeInv
<1>1. ASSUME NEW p \in Pids, NEW q \in Pids, Fork(p, q)
      PROVE  TreeInv'
  <2>1. TreeTypes'
    BY <1>1 DEF Fork, TreeTypes, serverVars
  <2>2. /\ q \notin born /\ (alive \cap seen)' = alive \cap seen
        /\ \A x \in alive : place'[x] = place[x] /\ (x \in marked' => x \in marked)
    BY <1>1 DEF Fork, TreeTypes, serverVars
  <2> QED BY <1>1, <2>1, <2>2 DEF Fork, serverVars, MissedEscaped, FoundAreGone
<1>2. ASSUME NEW p \in Pids, NEW to \in {"session", "away"}, Moves(p, to)
      PROVE  TreeInv'
  BY <1>2 DEF Moves, TreeTypes, MissedEscaped, FoundAreGone, serverVars
<1>3. ASSUME NEW p \in Pids, DropMark(p)
      PROVE  TreeInv'
  BY <1>3 DEF DropMark, TreeTypes, MissedEscaped, FoundAreGone, serverVars
<1>4. ASSUME NEW p \in Pids, Exits(p)
      PROVE  TreeInv'
  <2>1. TreeTypes' /\ (alive \cap seen)' = (alive \cap seen) \ {p}
    BY <1>4, DieKeeps DEF Exits, serverVars
  <2> QED BY <1>4, <2>1 DEF Exits, Die, MissedEscaped, FoundAreGone, serverVars
<1>5. CASE Collects
  BY <1>5 DEF Collects, TreeTypes, MissedEscaped, FoundAreGone, osVars
<1>6. CASE Terms
  <2> DEFINE dead == (InGroup \cup {Root} \cup targets) \ Stubborn
  <2>1. Die(dead) /\ UNCHANGED <<targets, known, seen>> /\ killing' = "termed"
    BY <1>6 DEF Terms
  <2>2. TreeTypes'
    BY <2>1, DieKeeps
  <2> QED BY <2>1, <2>2 DEF MissedEscaped, FoundAreGone
<1>7. CASE Recollects
  <2>1. TreeTypes' /\ FoundAreGone'
    BY <1>7 DEF Recollects, TreeTypes, FoundAreGone, osVars
  <2>2. ASSUME NEW p \in (alive' \cap seen') \ (targets' \cup {Root})
        PROVE  place'[p] = "away" /\ p \notin marked' \cup known'
    <3>1. p \in alive /\ p # Root /\ p \notin Collect(known) /\ UNCHANGED <<place, marked, known>>
      BY <1>7, <2>2 DEF Recollects, Recollected, osVars
    <3>2. p \notin Seeds(known)
      BY <3>1, SeedsAreFound
    <3> QED BY <3>1, <3>2 DEF Seeds
  <2> QED BY <2>1, <2>2 DEF MissedEscaped
<1>8. CASE Kills
  <2> DEFINE dead == InGroup \cup {Root} \cup targets
  <2>1. Die(dead) /\ UNCHANGED <<targets, known, seen>> /\ killing = "recollected"
    BY <1>8 DEF Kills
  <2>2. TreeTypes' /\ (alive \cap seen)' = (alive \cap seen) \ dead
    BY <2>1, DieKeeps
  <2>3. FoundAreGone'
    BY <2>1, <2>2 DEF FoundAreGone
  <2> QED BY <2>1, <2>2, <2>3 DEF Die, MissedEscaped
<1>9. CASE ServerExits
  BY <1>9 DEF ServerExits, TreeTypes, MissedEscaped, FoundAreGone, osVars
<1>10. CASE UNCHANGED treeVars
  BY <1>10 DEF treeVars, osVars, serverVars, TreeTypes, MissedEscaped, FoundAreGone
<1> QED
  BY <1>1, <1>2, <1>3, <1>4, <1>5, <1>6, <1>7, <1>8, <1>9, <1>10 DEF TreeNext

(* Whatever the processes do between the collections and the signals (fork, leave
   the group or the session, drop the mark, exit, be adopted), one the last
   collection saw survives the KILL only by every escape there is: for any
   number of processes, and whichever ignore TERM. *)
THEOREM TreesAreKilled == TreeSpec => []SurvivorsEscaped
<1>1. TreeInit => TreeInv
  BY ShellTreesAssumption DEF ShellTreesAssumption, TreeInit, TreeInv, TreeTypes, MissedEscaped, FoundAreGone
<1>2. TreeInv /\ [TreeNext]_treeVars => TreeInv'
  BY TreeStep, ShellTreesAssumption
<1>3. TreeInv => SurvivorsEscaped
  BY DEF TreeInv, MissedEscaped, FoundAreGone, SurvivorsEscaped
<1> QED BY <1>1, <1>2, <1>3, PTL DEF TreeSpec

-----------------------------------------------------------------------------
(* Who may run which processor. *)

\* What lies above a chain is no longer than it, and as long only if it is the chain.
LEMMA AboveIsShorter ==
  ASSUME NEW n \in Seq(STRING)
  PROVE  /\ n \in Above(n)
         /\ \A m \in Above(n) : m \in Seq(STRING) /\ Len(m) <= Len(n) /\ (Len(m) = Len(n) => m = n)
<1>1. SubSeq(n, 1, Len(n)) = n
  OBVIOUS
<1>2. ASSUME NEW i \in 0 .. Len(n)
      PROVE  SubSeq(n, 1, i) \in Seq(STRING) /\ Len(SubSeq(n, 1, i)) = i
  OBVIOUS
<1>3. ASSUME NEW m \in Above(n)
      PROVE  m \in Seq(STRING) /\ Len(m) <= Len(n) /\ (Len(m) = Len(n) => m = n)
  <2>1. PICK i \in 0 .. Len(n) : m = SubSeq(n, 1, i)
    BY DEF Above
  <2>2. m \in Seq(STRING) /\ Len(m) = i
    BY <2>1, <1>2
  <2>3. i \in Nat /\ Len(n) \in Nat /\ i <= Len(n)
    OBVIOUS
  <2>4. i = Len(n) => m = n
    BY <2>1, <1>1
  <2> QED BY <2>2, <2>3, <2>4
<1>4. Len(n) \in 0 .. Len(n)
  OBVIOUS
<1> QED BY <1>1, <1>3, <1>4 DEF Above

\* resolveChain finds a listed processor at the end of its own chain.
LEMMA ListedResolves ==
  ASSUME CommandGateAssumption, NEW n \in Listed
  PROVE  Deepest(n) = n
<1>1. n \in Seq(STRING)
  BY DEF CommandGateAssumption
<1> DEFINE Longest(d) == \A m \in Above(n) \cap Listed : Len(m) <= Len(d)
<1>2. n \in Above(n) \cap Listed /\ Longest(n)
  BY <1>1, AboveIsShorter
<1>3. ASSUME NEW d \in Above(n) \cap Listed, Longest(d)
      PROVE  d = n
  <2>1. Len(d) = Len(n)
    BY <1>1, <1>2, <1>3, AboveIsShorter
  <2> QED BY <1>1, <2>1, AboveIsShorter
<1> QED BY <1>2, <1>3 DEF Deepest

\* The endpoint and the gate ask the same of a tool.
LEMMA ToolsAskTheSame ==
  ASSUME CommandGateAssumption, NEW n \in Listed, IsTool(n)
  PROVE  MayCall(n) <=> MayExecute(n, TRUE)
BY ListedResolves DEF MayCall, MayExecute, ToolPermissions, RequiredPermissions, ProcessorPermissions

\* A request runs what it was let through for.
LEMMA GateStep ==
  ASSUME CommandGateAssumption, ChainPermitted, [GateNext]_gateVars
  PROVE  ChainPermitted'
<1> DEFINE Permitted(n, whole) ==
             guarded => {"commands:execute"} \cup PermsAlong(IF whole THEN n ELSE <<>>) \subseteq granted
<1>1. UNCHANGED <<takesInput, granted, guarded>>
  BY DEF GateNext, Execute, CallTool, gateVars
<1>2. \A n \in ran' : Permitted(n, asArray')
  <2>1. ASSUME NEW c \in Chains, NEW isArray \in BOOLEAN, Execute(c, isArray)
        PROVE  \A n \in ran' : Permitted(n, asArray')
    BY <2>1 DEF Execute, Resolved, MayExecute, RequiredPermissions, ProcessorPermissions
  <2>2. ASSUME NEW t \in Listed, CallTool(t)
        PROVE  \A n \in ran' : Permitted(n, asArray')
    <3>1. Resolved(t) \subseteq {t}
      BY ListedResolves DEF Resolved
    <3> QED BY <2>2, <3>1 DEF CallTool, MayCall, ToolPermissions
  <2>3. CASE UNCHANGED gateVars
    BY <2>3 DEF gateVars, ChainPermitted
  <2> QED BY <2>1, <2>2, <2>3 DEF GateNext
<1>3. \A n \in Listed : IsTool(n)' <=> IsTool(n)
  BY <1>1 DEF IsTool
<1>4. \A n \in Listed : IsTool(n)' => (MayCall(n)' <=> MayCall(n)) /\ (MayExecute(n, TRUE)' <=> MayExecute(n, TRUE))
  BY <1>1, <1>3 DEF MayCall, MayExecute
<1> QED BY <1>1, <1>2, <1>3, <1>4, ToolsAskTheSame DEF ChainPermitted

(* No processor runs without commands:execute and the permissions along its whole
   chain, by whichever way it was reached, when the chain comes as an array, and
   the root's when it does not; and a tool is callable exactly by those who may
   execute it: for every tree of processors and every chain asked for. *)
THEOREM ChainsArePermitted == GateSpec => []ChainPermitted
<1>1. GateInit => ChainPermitted
  BY ToolsAskTheSame, CommandGateAssumption DEF GateInit, ChainPermitted
<1>2. ChainPermitted /\ [GateNext]_gateVars => ChainPermitted'
  BY GateStep, CommandGateAssumption
<1> QED BY <1>1, <1>2, PTL DEF GateSpec

-----------------------------------------------------------------------------
(* Commands and what is kept of them. *)

CommandTypes ==
  /\ path \in [Requests -> Paths] /\ target \in [Requests -> Targets]
  /\ at \in [Requests -> {"new", "gate", "running", "publishing", "done"}]
  /\ result \in [Requests -> {"none", "ok", "exit", "thrown"}]
  /\ event \in [Requests -> {"none", "success", "failure"}]
  /\ answer \in [Requests -> {"none", "ok", "failed", "cut", "refused"}]

\* What the event of a command that has ended says.
EventTells(r) ==
  event[r] = IF target[r] = "unknown" THEN "none" ELSE IF result[r] = "ok" THEN "success" ELSE "failure"

\* How much of its record a request has at each point of its way.
RecordOf(r) ==
  /\ at[r] \in {"new", "gate"} => result[r] = "none"
  /\ at[r] \in {"new", "gate", "running"} => answer[r] = "none" /\ event[r] = "none"
  /\ at[r] = "publishing" =>
       /\ EventTells(r) /\ answer[r] # "refused"
       /\ path[r] = "stream" => (answer[r] = "ok" <=> result[r] = "ok")
  /\ at[r] = "done" /\ answer[r] # "refused" => EventTells(r) /\ (answer[r] = "ok" <=> result[r] = "ok")

FailedOnes == {r \in Counted : result[r] # "ok"}

Counts == executions = Cardinality(Counted) /\ failures = Cardinality(FailedOnes)

CommandInv == CommandTypes /\ (\A r \in Requests : RecordOf(r)) /\ Counts

\* Where the same requests are counted, with the same results, the counters hold.
LEMMA CountsKept ==
  ASSUME Counts, UNCHANGED <<executions, failures>>, Counted' = Counted,
         \A r \in Counted : result'[r] = result[r]
  PROVE  Counts'
<1>1. FailedOnes' = FailedOnes
  BY DEF FailedOnes
<1> QED BY <1>1 DEF Counts

\* The one step that counts adds the request that was not counted before.
LEMMA CountedOnce ==
  ASSUME CommandsAssumption, CommandInv, NEW r \in Requests, Records(r)
  PROVE  Counts'
<1>1. IsFiniteSet(Counted) /\ IsFiniteSet(FailedOnes)
  BY FS_Subset DEF CommandsAssumption, Counted, FailedOnes
<1>2. r \notin Counted /\ Counted' = Counted \cup {r} /\ UNCHANGED result
  BY DEF Records, Counted, CommandInv, CommandTypes, RecordOf
<1>3. Cardinality(Counted') = Cardinality(Counted) + 1
  BY <1>1, <1>2, FS_AddElement
<1>4. executions' = executions + 1
  BY DEF Records
<1>5. CASE Failed(r)
  <2>1. FailedOnes' = FailedOnes \cup {r} /\ r \notin FailedOnes
    BY <1>2, <1>5 DEF FailedOnes, Failed
  <2>2. Cardinality(FailedOnes') = Cardinality(FailedOnes) + 1
    BY <1>1, <2>1, FS_AddElement
  <2>3. failures' = failures + 1
    BY <1>5 DEF Records
  <2> QED BY <1>3, <1>4, <2>2, <2>3 DEF Counts, CommandInv
<1>6. CASE ~Failed(r)
  <2>1. FailedOnes' = FailedOnes
    BY <1>2, <1>6 DEF FailedOnes, Failed
  <2>2. failures' = failures
    BY <1>6 DEF Records
  <2> QED BY <1>3, <1>4, <2>1, <2>2 DEF Counts, CommandInv
<1> QED BY <1>5, <1>6

\* A request on its way in: it starts, waits at the gate, or is refused there.
LEMMA EntryKeeps ==
  ASSUME CommandInv, NEW r \in Requests, Arrives(r) \/ GateAnswers(r)
  PROVE  CommandInv'
<1>1. /\ at[r] \in {"new", "gate"} /\ UNCHANGED <<path, target, executions, failures, event>>
      /\ at' \in [Requests -> {"new", "gate", "running", "publishing", "done"}]
      /\ \A q \in Requests \ {r} : at'[q] = at[q] /\ result'[q] = result[q] /\ answer'[q] = answer[q]
  BY DEF CommandInv, CommandTypes, Arrives, GateAnswers, Starts, asked, kept
<1>2. /\ result' \in [Requests -> {"none", "ok", "exit", "thrown"}]
      /\ answer' \in [Requests -> {"none", "ok", "failed", "cut", "refused"}]
      /\ \/ at'[r] = "running" /\ answer'[r] = "none"
         \/ at'[r] = "gate" /\ result'[r] = "none" /\ answer'[r] = "none"
         \/ at'[r] = "done" /\ answer'[r] = "refused"
  BY DEF CommandInv, CommandTypes, RecordOf, Arrives, GateAnswers, Starts, kept
<1>3. CommandTypes'
  BY <1>1, <1>2 DEF CommandInv, CommandTypes
<1>4. \A q \in Requests : RecordOf(q)'
  BY <1>1, <1>2 DEF CommandInv, RecordOf, EventTells
<1>5. Counted' = Counted /\ r \notin Counted
  BY <1>1, <1>2 DEF Counted
<1>6. Counts'
  BY <1>1, <1>5, CountsKept DEF CommandInv, Counted
<1> QED BY <1>3, <1>4, <1>6 DEF CommandInv

\* Every step of a command keeps its record and the counters together.
LEMMA CommandStep ==
  ASSUME CommandsAssumption, CommandInv, [CommandsNext]_commandVars
  PROVE  CommandInv'
<1> USE DEF CommandInv
<1>1. ASSUME NEW r \in Requests, Arrives(r) \/ GateAnswers(r)
      PROVE  CommandInv'
  BY <1>1, EntryKeeps
<1>2. ASSUME UNCHANGED <<path, target, at, result, executions, failures, event, answer>>
      PROVE  CommandInv'
  <2>1. CommandTypes' /\ Counted' = Counted
    BY <1>2 DEF CommandTypes, Counted
  <2>2. \A q \in Requests : RecordOf(q)'
    BY <1>2 DEF RecordOf, EventTells
  <2> QED BY <1>2, <2>1, <2>2, CountsKept
<1>3. ASSUME NEW r \in Requests, NEW how \in {"ok", "exit", "thrown"}, Processed(r, how)
      PROVE  CommandInv'
  <2>1. CommandTypes' /\ Counted' = Counted /\ r \notin Counted
    BY <1>3 DEF Processed, asked, kept, CommandTypes, Counted
  <2>2. \A q \in Requests : RecordOf(q)'
    BY <1>3 DEF Processed, asked, kept, CommandTypes, RecordOf, EventTells
  <2>3. \A q \in Counted : result'[q] = result[q]
    BY <1>3, <2>1 DEF Processed, CommandTypes, Counted
  <2> QED BY <1>3, <2>1, <2>2, <2>3, CountsKept DEF Processed, kept
<1>4. ASSUME NEW r \in Requests, Records(r)
      PROVE  CommandInv'
  <2>1. CommandTypes'
    BY <1>4 DEF Records, asked, CommandTypes
  <2>2. /\ at[r] = "running" /\ result[r] # "none" /\ event[r] = "none" /\ answer[r] = "none"
        /\ at'[r] = "publishing" /\ UNCHANGED <<path, target, result>>
        /\ \A q \in Requests \ {r} : at'[q] = at[q] /\ event'[q] = event[q] /\ answer'[q] = answer[q]
    BY <1>4 DEF Records, asked, CommandTypes, RecordOf
  <2>3. /\ event'[r] = IF target[r] = "unknown" THEN "none" ELSE IF result[r] = "ok" THEN "success" ELSE "failure"
        /\ answer'[r] # "refused" /\ (path[r] = "stream" => (answer'[r] = "ok" <=> result[r] = "ok"))
    BY <1>4, <2>2 DEF Records, Failed, CommandTypes, KnownRoot, Targets
  <2>4. \A q \in Requests : RecordOf(q)'
    BY <2>2, <2>3 DEF RecordOf, EventTells
  <2> QED BY <1>4, <2>1, <2>4, CountedOnce
<1>5. ASSUME NEW r \in Requests, Responds(r)
      PROVE  CommandInv'
  <2>1. CommandTypes' /\ Counted' = Counted
    BY <1>5 DEF Responds, asked, CommandTypes, RecordOf, Counted
  <2>2. \A q \in Requests : RecordOf(q)'
    BY <1>5 DEF Responds, asked, CommandTypes, RecordOf, EventTells
  <2> QED BY <1>5, <2>1, <2>2, CountsKept DEF Responds
<1>6. ASSUME NEW r \in Requests, RequestCloses(r) \/ ClientLeaves(r)
      PROVE  CommandInv'
  BY <1>2, <1>6 DEF RequestCloses, ClientLeaves, asked, kept
<1>7. CASE Toggle
  BY <1>2, <1>7 DEF Toggle, asked, kept
<1>8. CASE UNCHANGED commandVars
  BY <1>2, <1>8 DEF commandVars, asked, kept
<1> QED BY <1>1, <1>3, <1>4, <1>5, <1>6, <1>7, <1>8 DEF CommandsNext

(* The answer, the usage counters and the command:executed event tell the same of
   every command, however many are under way at once, whichever way each came
   and ended. *)
THEOREM CommandRecordsAgree == CommandsSpec => []RecordsAgree
<1>1. CommandsInit => CommandInv
  <2> SUFFICES ASSUME CommandsInit PROVE CommandInv
    OBVIOUS
  <2>1. Counted = {} /\ FailedOnes = {}
    BY DEF CommandsInit, Counted, FailedOnes
  <2>2. Counts
    BY <2>1, FS_EmptySet DEF Counts, CommandsInit
  <2> QED BY <2>2 DEF CommandsInit, CommandInv, CommandTypes, RecordOf
<1>2. CommandInv /\ [CommandsNext]_commandVars => CommandInv'
  BY CommandStep, CommandsAssumption
<1>3. CommandInv => RecordsAgree
  BY DEF CommandInv, RecordOf, EventTells, Counts, FailedOnes, RecordsAgree
<1> QED BY <1>1, <1>2, <1>3, PTL DEF CommandsSpec

-----------------------------------------------------------------------------
(* The assembly of a server. *)

Features == {"server", "filesystem", "explorer", "jobs"}

Sockets == [open : {TRUE}, kind : Kinds, by : AuthProviders \cup {NoAuth},
            ended : BOOLEAN, steady : BOOLEAN]

AssemblyTypes ==
  /\ created \in BOOLEAN /\ installed \subseteq Plugins
  /\ serverAuth \in AuthProviders \cup {NoAuth}
  /\ serverOptions \in [externalAuthentication : BOOLEAN, jobsEnabled : BOOLEAN]
  /\ mcpFeatures \in Seq(Features) /\ mcpPlugins \in Seq(Plugins)
  /\ clients \in [Clients -> Sockets \cup {Closed}]

\* There is one provider: every kind of socket asks it, and hears it.
OneProvider ==
  /\ managerAuth = [k \in Kinds |-> serverAuth]
  /\ heard = [k \in Kinds |-> {serverAuth} \ {NoAuth}]

NothingYet ==
  ~created => serverAuth = NoAuth /\ installed = {} /\ mcpFeatures = << >> /\ (\A c \in Clients : ~clients[c].open)

OptionsTell ==
  /\ serverOptions.externalAuthentication = (serverAuth \in Delegating)
  /\ serverOptions.jobsEnabled = (installed \cap Schedulers # {})

\* The server's own tools are first, the scheduler's there once, as soon as there is one.
FeaturesInOrder ==
  /\ created => mcpFeatures # << >> /\ mcpFeatures[1] = "server"
  /\ (\E i \in DOMAIN mcpFeatures : mcpFeatures[i] = "jobs") <=> installed \cap Schedulers # {}
  /\ \A i, j \in DOMAIN mcpFeatures : mcpFeatures[i] = "jobs" /\ mcpFeatures[j] = "jobs" => i = j

\* A socket of the present provider that nobody replaced has not outlived its session.
SteadyAreHeard ==
  \A c \in Clients : Bound(c) /\ clients[c].steady =>
    clients[c].by = serverAuth /\ (clients[c].ended => clients[c].by \in Delegating)

AssemblyInv ==
  AssemblyTypes /\ OneProvider /\ NothingYet /\ OptionsTell /\ FeaturesInOrder /\ SteadyAreHeard

\* A non-empty set of natural numbers has a least one.
LEMMA LeastNatural ==
  ASSUME NEW T, T \subseteq Nat, T # {}
  PROVE  Min(T) \in T /\ \A y \in T : Min(T) <= y
<1>1. PICK x \in T : \A y \in T : ~(<<y, x>> \in OpToRel(<, Nat))
  BY NatLessThanWellFounded, WFMin
<1>2. \A y \in T : ~(y < x)
  BY <1>1 DEF OpToRel
<1>3. \A y \in T : x <= y
  BY <1>2
<1> QED BY <1>3 DEF Min

\* The first that offers a tool answers for it, so no feature loses one to a plugin.
LEMMA FeaturesKeepTools ==
  ASSUME AssemblyTypes, NEW tool, NEW i \in DOMAIN mcpFeatures, tool \in ToolsOf[mcpFeatures[i]]
  PROVE  \E j \in DOMAIN mcpFeatures : j <= i /\ Owner(tool) = mcpFeatures[j]
<1> DEFINE offering == {n \in DOMAIN ToolProviders : tool \in ToolsOf[ToolProviders[n]]}
<1> DEFINE all == Features \cup Plugins \cup {"commands"}
<1>1. /\ mcpFeatures \in Seq(all) /\ mcpPlugins \in Seq(all) /\ <<"commands">> \in Seq(all)
  BY DEF AssemblyTypes
<1>2. /\ Len(ToolProviders) = Len(mcpFeatures) + Len(mcpPlugins) + 1 /\ ToolProviders \in Seq(all)
      /\ \A n \in 1 .. Len(mcpFeatures) : ToolProviders[n] = mcpFeatures[n]
  <2> HIDE DEF all
  <2>1. <<"commands">> \in Seq(all) /\ Len(<<"commands">>) = 1
    BY <1>1
  <2> QED BY <1>1, <2>1 DEF ToolProviders
<1>3. i \in offering /\ offering \subseteq Nat /\ i \in 1 .. Len(mcpFeatures)
  BY <1>1, <1>2
<1>4. Min(offering) \in offering /\ Min(offering) <= i
  BY <1>3, LeastNatural
<1>5. Owner(tool) = ToolProviders[Min(offering)]
  BY <1>3 DEF Owner
<1>6. Min(offering) \in DOMAIN mcpFeatures
  BY <1>1, <1>2, <1>3, <1>4
<1>7. ToolProviders[Min(offering)] = mcpFeatures[Min(offering)]
  BY <1>1, <1>2, <1>6
<1> HIDE DEF offering
<1> QED BY <1>4, <1>5, <1>6, <1>7

\* Adding the tools of a scheduler keeps the features in order.
LEMMA JobsToolsOnce ==
  ASSUME AssemblyInv, created, created', NEW p \in Plugins, p \notin installed,
         installed' = installed \cup {p}, mcpFeatures' = WithJobs(p)
  PROVE  mcpFeatures' \in Seq(Features) /\ FeaturesInOrder'
<1>1. mcpFeatures \in Seq(Features) /\ Len(mcpFeatures) \in Nat /\ Len(mcpFeatures) >= 1
  BY DEF AssemblyInv, AssemblyTypes, FeaturesInOrder
<1>2. (\E i \in DOMAIN mcpFeatures : mcpFeatures[i] = "jobs") <=> Contains(mcpFeatures, "jobs")
  BY <1>1 DEF Contains
<1>3. CASE p \in Schedulers /\ ~Contains(mcpFeatures, "jobs")
  <2>1. /\ mcpFeatures' \in Seq(Features) /\ Len(mcpFeatures') = Len(mcpFeatures) + 1
        /\ \A i \in 1 .. Len(mcpFeatures) : mcpFeatures'[i] = mcpFeatures[i]
        /\ mcpFeatures'[Len(mcpFeatures) + 1] = "jobs"
    BY <1>1, <1>3 DEF WithJobs, Features
  <2>2. \A i \in DOMAIN mcpFeatures' : mcpFeatures'[i] = "jobs" <=> i = Len(mcpFeatures) + 1
    BY <1>1, <1>2, <1>3, <2>1
  <2>3. mcpFeatures'[1] = "server" /\ mcpFeatures' # << >>
    BY <1>1, <2>1 DEF AssemblyInv, FeaturesInOrder
  <2>4. Len(mcpFeatures) + 1 \in DOMAIN mcpFeatures'
    BY <1>1, <2>1
  <2> QED BY <1>3, <2>1, <2>2, <2>3, <2>4 DEF FeaturesInOrder
<1>4. CASE ~(p \in Schedulers /\ ~Contains(mcpFeatures, "jobs"))
  BY <1>1, <1>2, <1>4 DEF WithJobs, AssemblyInv, FeaturesInOrder
<1> QED BY <1>3, <1>4

\* A provider that is installed is the one everything asks, and the sockets of another know it.
LEMMA InstallsKeep ==
  ASSUME ServerAssemblyAssumption, AssemblyTypes, OneProvider, SteadyAreHeard,
         NEW a \in AuthProviders \cup {NoAuth}, serverAuth' = a,
         managerAuth' = [k \in Kinds |-> a], heard' = [k \in Kinds |-> Hears(k, a)],
         clients' = [c \in Clients |-> IF clients[c].open /\ a # serverAuth
                                       THEN [clients[c] EXCEPT !.steady = FALSE] ELSE clients[c]]
  PROVE  OneProvider' /\ SteadyAreHeard' /\ clients' \in [Clients -> Sockets \cup {Closed}]
<1>1. OneProvider'
  BY DEF OneProvider, Hears
<1>2. ASSUME NEW c \in Clients
      PROVE  /\ clients'[c] \in Sockets \cup {Closed}
             /\ clients'[c].open /\ clients'[c].steady => a = serverAuth /\ clients'[c] = clients[c]
  <2>1. CASE clients[c].open /\ a # serverAuth
    <3>1. clients[c] \in Sockets
      BY <2>1 DEF AssemblyTypes, Closed
    <3>2. clients'[c] = [clients[c] EXCEPT !.steady = FALSE]
      BY <2>1
    <3> QED BY <3>1, <3>2 DEF Sockets
  <2>2. CASE ~(clients[c].open /\ a # serverAuth)
    BY <2>2 DEF AssemblyTypes, Closed
  <2> QED BY <2>1, <2>2
<1>3. SteadyAreHeard'
  BY <1>2 DEF SteadyAreHeard, Bound
<1> QED BY <1>1, <1>2, <1>3

\* The option of external authentication is that of the provider installed.
LEMMA InstallsOptions ==
  ASSUME AssemblyTypes, OptionsTell, NEW a, Installs(a), UNCHANGED installed
  PROVE  OptionsTell' /\ serverOptions' \in [externalAuthentication : BOOLEAN, jobsEnabled : BOOLEAN]
<1>1. serverOptions' = [serverOptions EXCEPT !.externalAuthentication = External(a)] /\ serverAuth' = a
  BY DEF Installs
<1>2. External(a) \in BOOLEAN /\ External(a) = (a \in Delegating)
  BY DEF External
<1>3. serverOptions \in [externalAuthentication : BOOLEAN, jobsEnabled : BOOLEAN]
  BY DEF AssemblyTypes
<1>4. serverOptions'.externalAuthentication = External(a) /\ serverOptions'.jobsEnabled = serverOptions.jobsEnabled
  BY <1>1, <1>3
<1>5. serverOptions' \in [externalAuthentication : BOOLEAN, jobsEnabled : BOOLEAN]
  BY <1>1, <1>2, <1>3
<1> QED BY <1>1, <1>2, <1>4, <1>5 DEF OptionsTell

\* createCliServer returns with the server's tools first and none of a scheduler.
LEMMA CreateKeeps ==
  ASSUME ServerAssemblyAssumption, AssemblyInv, Create
  PROVE  AssemblyInv'
<1> USE DEF AssemblyInv
<1>1. ~created /\ created' = TRUE /\ installed = {} /\ serverAuth = NoAuth /\ UNCHANGED <<mcpPlugins, installed>>
  BY DEF Create, NothingYet
<1>2. PICK features \in BuilderFeatures : mcpFeatures' = <<"server">> \o features
  BY DEF Create
<1>3. /\ mcpFeatures' \in Seq(Features) /\ mcpFeatures' # << >> /\ mcpFeatures'[1] = "server"
      /\ \A i \in DOMAIN mcpFeatures' : mcpFeatures'[i] # "jobs"
  <2>1. features \in Seq({"filesystem", "explorer"})
    <3> DEFINE own == {"filesystem", "explorer"}
    <3>1. << >> \in Seq(own) /\ <<"filesystem">> \in Seq(own) /\ <<"explorer">> \in Seq(own)
      OBVIOUS
    <3>2. <<"filesystem", "explorer">> \in Seq(own)
      OBVIOUS
    <3> HIDE DEF own
    <3>3. features \in Seq(own)
      BY <3>1, <3>2, Zenon DEF BuilderFeatures
    <3> QED BY <3>3 DEF own
  <2>2. <<"server">> \in Seq(Features) /\ Len(<<"server">>) = 1 /\ <<"server">>[1] = "server"
    BY DEF Features
  <2>3. features \in Seq(Features) /\ \A i \in 1 .. Len(features) : features[i] # "jobs"
    BY <2>1 DEF Features
  <2>4. /\ mcpFeatures' \in Seq(Features) /\ Len(mcpFeatures') = 1 + Len(features)
        /\ \A i \in 1 .. Len(mcpFeatures') :
             mcpFeatures'[i] = IF i <= 1 THEN <<"server">>[i] ELSE features[i - 1]
    BY <1>2, <2>2, <2>3
  <2>5. Len(features) \in Nat /\ DOMAIN mcpFeatures' = 1 .. Len(mcpFeatures')
    BY <2>3, <2>4
  <2> QED BY <2>2, <2>3, <2>4, <2>5
<1>4. FeaturesInOrder' /\ NothingYet'
  BY <1>1, <1>3 DEF FeaturesInOrder, NothingYet
<1>5. PICK a \in AuthProviders \cup {NoAuth} :
        IF a = NoAuth THEN UNCHANGED <<serverAuth, managerAuth, heard, serverOptions, clients>> ELSE Installs(a)
  BY DEF Create
<1>6. CASE a = NoAuth
  <2>1. AssemblyTypes' /\ OneProvider' /\ OptionsTell'
    BY <1>1, <1>3, <1>5, <1>6 DEF AssemblyTypes, OneProvider, OptionsTell
  <2>2. SteadyAreHeard'
    BY <1>1, <1>5, <1>6 DEF SteadyAreHeard, NothingYet, Bound
  <2> QED BY <1>4, <2>1, <2>2
<1>7. CASE a # NoAuth
  <2>1. OneProvider' /\ SteadyAreHeard' /\ clients' \in [Clients -> Sockets \cup {Closed}]
    BY <1>5, <1>7, InstallsKeep DEF Installs
  <2>2. OptionsTell' /\ serverOptions' \in [externalAuthentication : BOOLEAN, jobsEnabled : BOOLEAN]
    BY <1>1, <1>5, <1>7, InstallsOptions
  <2>3. AssemblyTypes'
    BY <1>1, <1>3, <1>5, <1>7, <2>1, <2>2 DEF Installs, AssemblyTypes
  <2> QED BY <1>4, <2>1, <2>2, <2>3
<1> QED BY <1>6, <1>7

\* A plugin that is mounted brings its provider, its tools and its scheduler.
LEMMA MountKeeps ==
  ASSUME ServerAssemblyAssumption, AssemblyInv, NEW p \in Plugins, Mount(p)
  PROVE  AssemblyInv'
<1> USE DEF AssemblyInv
<1>1. /\ created /\ created' /\ p \notin installed /\ installed' = installed \cup {p} /\ created' \in BOOLEAN
      /\ mcpFeatures' = WithJobs(p) /\ mcpPlugins' = Append(mcpPlugins, p)
  BY DEF Mount, AssemblyTypes
<1>2. mcpFeatures' \in Seq(Features) /\ FeaturesInOrder' /\ NothingYet'
  BY <1>1, JobsToolsOnce DEF NothingYet
<1>3. mcpPlugins' \in Seq(Plugins) /\ installed' \subseteq Plugins
  BY <1>1 DEF AssemblyTypes
<1>4. (serverOptions.jobsEnabled \/ p \in Schedulers) = (installed' \cap Schedulers # {})
  BY <1>1 DEF OptionsTell, AssemblyTypes
<1>5. CASE PluginAuth[p] \in {NoAuth, serverAuth}
  <2>1. /\ serverOptions' = [serverOptions EXCEPT !.jobsEnabled = serverOptions.jobsEnabled \/ p \in Schedulers]
        /\ UNCHANGED <<serverAuth, managerAuth, heard, clients>>
    BY <1>5 DEF Mount
  <2>2. OptionsTell' /\ serverOptions' \in [externalAuthentication : BOOLEAN, jobsEnabled : BOOLEAN]
    BY <1>4, <2>1 DEF OptionsTell, AssemblyTypes
  <2>3. OneProvider' /\ SteadyAreHeard'
    BY <2>1 DEF OneProvider, SteadyAreHeard, Bound
  <2>4. AssemblyTypes'
    BY <1>1, <1>2, <1>3, <2>1, <2>2 DEF AssemblyTypes
  <2> QED BY <1>2, <2>2, <2>3, <2>4
<1>6. CASE PluginAuth[p] \notin {NoAuth, serverAuth}
  <2> DEFINE a == PluginAuth[p]
  <2>1. /\ a \in AuthProviders /\ a # serverAuth /\ serverAuth' = a
        /\ managerAuth' = [k \in Kinds |-> a] /\ heard' = [k \in Kinds |-> Hears(k, a)]
        /\ serverOptions' = [externalAuthentication |-> External(a),
                             jobsEnabled |-> serverOptions.jobsEnabled \/ p \in Schedulers]
        /\ clients' = [c \in Clients |-> IF clients[c].open /\ a # serverAuth
                                         THEN [clients[c] EXCEPT !.steady = FALSE] ELSE clients[c]]
    BY <1>6 DEF Mount, ServerAssemblyAssumption
  <2> HIDE DEF a
  <2>2. OneProvider' /\ SteadyAreHeard' /\ clients' \in [Clients -> Sockets \cup {Closed}]
    BY <2>1, InstallsKeep
  <2>3. OptionsTell' /\ serverOptions' \in [externalAuthentication : BOOLEAN, jobsEnabled : BOOLEAN]
    BY <1>4, <2>1 DEF OptionsTell, External, AssemblyTypes
  <2>4. AssemblyTypes'
    BY <1>1, <1>2, <1>3, <2>1, <2>2, <2>3 DEF AssemblyTypes
  <2> QED BY <1>2, <2>2, <2>3, <2>4
<1> QED BY <1>5, <1>6

\* A socket that connects, ends or is re-checked is a socket of the provider it asked.
LEMMA SocketStepsKeep ==
  ASSUME ServerAssemblyAssumption, AssemblyInv,
         UNCHANGED <<created, serverAuth, managerAuth, heard, serverOptions, mcpFeatures, mcpPlugins, installed>>,
         \/ \E c \in Clients : IdentityEnds(c) \/ \E kind \in Kinds : Connect(c, kind)
         \/ \E kind \in Kinds : RecheckClients(kind)
  PROVE  AssemblyInv'
<1> USE DEF AssemblyInv
<1>1. \A d \in Clients : clients[d] \in Sockets \cup {Closed}
  BY DEF AssemblyTypes
<1>2. /\ clients' \in [Clients -> Sockets \cup {Closed}] /\ SteadyAreHeard'
      /\ ~created => \A c \in Clients : ~clients'[c].open
  <2>1. ASSUME NEW c \in Clients, IdentityEnds(c)
        PROVE  <1>2
    <3>1. clients[c] \in Sockets /\ clients[c].by # NoAuth
      BY <1>1, <2>1 DEF IdentityEnds, Bound, Closed
    <3>2. /\ \A d \in Clients \ {c} : clients'[d] = clients[d]
          /\ clients'[c] = Closed \/ (clients'[c] = [clients[c] EXCEPT !.ended = TRUE]
                                        /\ ~(clients[c].by \in heard[clients[c].kind] \ Delegating))
          /\ clients' = [d \in Clients |-> clients'[d]]
      BY <2>1 DEF IdentityEnds, AssemblyTypes
    <3>3. clients'[c] = [clients[c] EXCEPT !.ended = TRUE] =>
            clients'[c] \in Sockets /\ clients'[c].by = clients[c].by /\ clients'[c].steady = clients[c].steady
      BY <3>1 DEF Sockets
    <3>4. heard[clients[c].kind] = {serverAuth} \ {NoAuth}
      BY <3>1 DEF OneProvider, Sockets
    <3>5. clients'[c] = Closed \/ (clients'[c] \in Sockets /\ (clients'[c].steady =>
            clients'[c].by = serverAuth /\ clients'[c].by \in Delegating))
      BY <2>1, <3>1, <3>2, <3>3, <3>4 DEF SteadyAreHeard, IdentityEnds
    <3>6. SteadyAreHeard'
      BY <3>2, <3>5 DEF SteadyAreHeard, Bound, Closed
    <3>7. clients' \in [Clients -> Sockets \cup {Closed}]
      BY <1>1, <3>2, <3>5
    <3>8. created
      BY <2>1 DEF IdentityEnds, Bound, NothingYet
    <3> QED BY <3>6, <3>7, <3>8
  <2>2. ASSUME NEW c \in Clients, NEW kind \in Kinds, Connect(c, kind)
        PROVE  <1>2
    <3> DEFINE new == [open |-> TRUE, kind |-> kind, by |-> managerAuth[kind], ended |-> FALSE, steady |-> TRUE]
    <3>1. new \in Sockets /\ new.by = serverAuth /\ ~new.ended
      BY DEF Sockets, OneProvider, AssemblyTypes
    <3>2. clients' = [clients EXCEPT ![c] = new] /\ created
      BY <2>2 DEF Connect
    <3> HIDE DEF new
    <3> QED BY <1>1, <3>1, <3>2 DEF SteadyAreHeard, Bound, AssemblyTypes
  <2>3. ASSUME NEW kind \in Kinds, RecheckClients(kind)
        PROVE  <1>2
    <3>1. /\ clients' = [d \in Clients |-> clients'[d]]
          /\ \A d \in Clients : clients'[d] \in {clients[d], Closed}
      BY <2>3 DEF RecheckClients
    <3> QED BY <1>1, <3>1 DEF SteadyAreHeard, Bound, NothingYet, Closed
  <2> QED BY <2>1, <2>2, <2>3
<1>3. AssemblyTypes' /\ OneProvider' /\ OptionsTell' /\ FeaturesInOrder' /\ NothingYet'
  BY <1>2 DEF AssemblyTypes, OneProvider, OptionsTell, FeaturesInOrder, NothingYet
<1> QED BY <1>2, <1>3

\* Every step of the assembly keeps the one provider, the options and the tools in order.
LEMMA AssemblyStep ==
  ASSUME ServerAssemblyAssumption, AssemblyInv, [AssemblyNext]_assemblyVars
  PROVE  AssemblyInv'
<1> USE DEF AssemblyInv
<1>1. CASE Create
  BY <1>1, CreateKeeps
<1>2. ASSUME NEW a \in AuthProviders \cup {NoAuth}, SetAuth(a)
      PROVE  AssemblyInv'
  <2>1. OneProvider' /\ SteadyAreHeard' /\ clients' \in [Clients -> Sockets \cup {Closed}]
    BY <1>2, InstallsKeep DEF SetAuth, Installs
  <2>2. OptionsTell' /\ serverOptions' \in [externalAuthentication : BOOLEAN, jobsEnabled : BOOLEAN]
    BY <1>2, InstallsOptions DEF SetAuth
  <2>3. AssemblyTypes' /\ FeaturesInOrder' /\ NothingYet'
    BY <1>2, <2>1, <2>2 DEF SetAuth, Installs, AssemblyTypes, FeaturesInOrder, NothingYet
  <2> QED BY <2>1, <2>2, <2>3
<1>3. ASSUME NEW p \in Plugins, Mount(p)
      PROVE  AssemblyInv'
  BY <1>3, MountKeeps
<1>4. ASSUME NEW c \in Clients, IdentityEnds(c) \/ \E kind \in Kinds : Connect(c, kind)
      PROVE  AssemblyInv'
  BY <1>4, SocketStepsKeep DEF IdentityEnds, Connect
<1>5. ASSUME NEW kind \in Kinds, RecheckClients(kind)
      PROVE  AssemblyInv'
  BY <1>5, SocketStepsKeep DEF RecheckClients
<1>6. CASE UNCHANGED assemblyVars
  BY <1>6 DEF assemblyVars, AssemblyTypes, OneProvider, NothingYet, OptionsTell, FeaturesInOrder, SteadyAreHeard, Bound
<1> QED BY <1>1, <1>2, <1>3, <1>4, <1>5, <1>6 DEF AssemblyNext

\* The inductive invariant of the assembly.
LEMMA AssemblyInvariant == AssemblySpec => []AssemblyInv
<1>1. AssemblyInit => AssemblyInv
  <2> SUFFICES ASSUME AssemblyInit PROVE AssemblyInv
    OBVIOUS
  <2> USE DEF AssemblyInit
  <2>1. AssemblyTypes
    <3>1. << >> \in Seq(Features) /\ << >> \in Seq(Plugins)
      OBVIOUS
    <3>2. serverOptions \in [externalAuthentication : BOOLEAN, jobsEnabled : BOOLEAN]
      OBVIOUS
    <3>3. clients \in [Clients -> Sockets \cup {Closed}]
      OBVIOUS
    <3> QED BY <3>1, <3>2, <3>3 DEF AssemblyTypes
  <2>4. NothingYet /\ SteadyAreHeard
    BY DEF NothingYet, SteadyAreHeard, Bound, Closed
  <2>2. OneProvider /\ FeaturesInOrder
    BY DEF OneProvider, FeaturesInOrder
  <2>3. OptionsTell
    <3>2. NoAuth \notin Delegating /\ installed \cap Schedulers = {} /\ serverAuth = NoAuth
      BY ServerAssemblyAssumption DEF ServerAssemblyAssumption
    <3>3. serverOptions.externalAuthentication = FALSE /\ serverOptions.jobsEnabled = FALSE
      OBVIOUS
    <3>4. (serverAuth \in Delegating) = FALSE /\ (installed \cap Schedulers # {}) = FALSE
      BY <3>2
    <3> QED BY <3>3, <3>4, Zenon DEF OptionsTell
  <2> QED BY <2>1, <2>2, <2>3, <2>4 DEF AssemblyInv
<1>2. AssemblyInv /\ [AssemblyNext]_assemblyVars => AssemblyInv'
  BY AssemblyStep, ServerAssemblyAssumption
<1> QED BY <1>1, <1>2, PTL DEF AssemblySpec

(* In whatever order providers are installed and plugins mounted, the options tell
   what the server has and no plugin takes a tool name from a feature: for all
   plugins, providers and tools. *)
THEOREM AssemblyIsTold == AssemblySpec => []AssemblyTells
<1>1. ASSUME AssemblyInv, created
      PROVE  Cardinality({i \in DOMAIN mcpFeatures : mcpFeatures[i] = "jobs"})
               = IF installed \cap Schedulers = {} THEN 0 ELSE 1
  <2> DEFINE jobs == {i \in DOMAIN mcpFeatures : mcpFeatures[i] = "jobs"}
  <2>1. CASE installed \cap Schedulers = {}
    <3>1. jobs = {}
      BY <1>1, <2>1 DEF AssemblyInv, FeaturesInOrder
    <3> QED BY <2>1, <3>1, FS_EmptySet
  <2>2. CASE installed \cap Schedulers # {}
    <3>1. PICK i \in DOMAIN mcpFeatures : jobs = {i}
      BY <1>1, <2>2 DEF AssemblyInv, FeaturesInOrder
    <3> QED BY <2>2, <3>1, FS_Singleton
  <2> QED BY <2>1, <2>2
<1>2. ASSUME AssemblyInv, created, NEW tool
      PROVE  /\ (\E i \in DOMAIN mcpFeatures : tool \in ToolsOf[mcpFeatures[i]]) => Contains(mcpFeatures, Owner(tool))
             /\ tool \in ToolsOf["server"] => Owner(tool) = "server"
  <2>1. mcpFeatures \in Seq(Features) /\ mcpFeatures[1] = "server" /\ 1 \in DOMAIN mcpFeatures
    BY <1>2 DEF AssemblyInv, AssemblyTypes, FeaturesInOrder
  <2>2. ASSUME NEW i \in DOMAIN mcpFeatures, tool \in ToolsOf[mcpFeatures[i]]
        PROVE  Contains(mcpFeatures, Owner(tool))
    BY <1>2, <2>1, <2>2, FeaturesKeepTools DEF AssemblyInv, Contains
  <2>3. ASSUME tool \in ToolsOf["server"]
        PROVE  Owner(tool) = "server"
    <3>1. PICK j \in DOMAIN mcpFeatures : j <= 1 /\ Owner(tool) = mcpFeatures[j]
      BY <1>2, <2>1, <2>3, FeaturesKeepTools DEF AssemblyInv
    <3>2. j = 1
      BY <2>1, <3>1
    <3> QED BY <2>1, <3>1, <3>2
  <2> QED BY <2>2, <2>3
<1>3. AssemblyInv => AssemblyTells
  BY <1>1, <1>2 DEF AssemblyTells, AssemblyInv, OptionsTell
<1> QED BY <1>3, AssemblyInvariant, PTL

(* The end of a session closes its sockets while the provider they were opened
   with stays installed, whichever were installed before it. *)
THEOREM EndsAreHeard == AssemblySpec => EndsReachSockets
<1>1. ASSUME ServerAssemblyAssumption, AssemblyInv, [AssemblyNext]_assemblyVars, NEW c \in Clients,
             Bound(c), clients[c].steady, clients[c].by \notin Delegating
      PROVE  ~(clients'[c].open /\ clients'[c].ended)
  <2>1. clients[c] \in Sockets /\ ~clients[c].ended /\ clients[c].by = serverAuth /\ serverAuth # NoAuth
    BY <1>1 DEF AssemblyInv, AssemblyTypes, SteadyAreHeard, Bound, Closed
  <2>2. [clients[c] EXCEPT !.steady = FALSE].ended = clients[c].ended
    BY <2>1 DEF Sockets
  <2>3. ASSUME NEW a, Installs(a)
        PROVE  ~clients'[c].ended
    BY <2>1, <2>2, <2>3 DEF Installs
  <2>4. CASE Create
    BY <1>1, <2>1, <2>4 DEF Create, AssemblyInv, NothingYet, Bound
  <2>5. ASSUME NEW a \in AuthProviders \cup {NoAuth}, SetAuth(a)
        PROVE  ~clients'[c].ended
    BY <2>3, <2>5 DEF SetAuth
  <2>6. ASSUME NEW p \in Plugins, Mount(p)
        PROVE  ~clients'[c].ended
    BY <2>1, <2>2, <2>6 DEF Mount
  <2>7. ASSUME NEW d \in Clients, IdentityEnds(d)
        PROVE  ~(clients'[c].open /\ clients'[c].ended)
    <3>1. d = c => clients[c].by \in heard[clients[c].kind] \ Delegating
      BY <1>1, <2>1 DEF AssemblyInv, OneProvider, Sockets
    <3> QED BY <1>1, <2>1, <2>7, <3>1 DEF IdentityEnds, AssemblyInv, AssemblyTypes, Closed
  <2>8. ASSUME NEW d \in Clients, NEW kind \in Kinds, Connect(d, kind)
        PROVE  ~clients'[c].ended
    BY <1>1, <2>1, <2>8 DEF Connect, Bound, AssemblyInv, AssemblyTypes
  <2>9. ASSUME NEW kind \in Kinds, RecheckClients(kind)
        PROVE  ~(clients'[c].open /\ clients'[c].ended)
    BY <2>1, <2>9 DEF RecheckClients, Closed
  <2>10. CASE UNCHANGED assemblyVars
    BY <2>1, <2>10 DEF assemblyVars
  <2> QED BY <1>1, <2>4, <2>5, <2>6, <2>7, <2>8, <2>9, <2>10 DEF AssemblyNext
<1>2. AssemblyInv /\ [AssemblyNext]_assemblyVars =>
        [\A c \in Clients : Bound(c) /\ clients[c].steady /\ clients[c].by \notin Delegating
           => ~(clients'[c].open /\ clients'[c].ended)]_assemblyVars
  BY <1>1, ServerAssemblyAssumption
<1> QED BY <1>2, AssemblyInvariant, PTL DEF AssemblySpec, EndsReachSockets

-----------------------------------------------------------------------------
(* The sockets of the event bus. *)

Handlers == Subscribers \cup {SocketsHandler}

\* deliverEvent is subscribed first, and what a publication has still to call
\* after its first handler is others.
BusTypes ==
  /\ subscribed \in Seq(Handlers) /\ Len(subscribed) >= 1 /\ subscribed[1] = SocketsHandler
  /\ \A i \in 2..Len(subscribed) : subscribed[i] # SocketsHandler
  /\ published \in Seq([topic : Topics, raw : BOOLEAN, left : Seq(Handlers)])
  /\ \A n \in DOMAIN published : \A i \in 2..Len(published[n].left) : published[n].left[i] # SocketsHandler

ClientTypes ==
  /\ inbox \in [Watchers -> Seq(Nat)]
  /\ watcher \in [Watchers -> {"out", "open", "ending", "closed"}]
  /\ since \in [Watchers -> Nat] /\ until \in [Watchers -> Nat] /\ upto \in [Watchers -> Nat]
  /\ \A w \in Watchers : since[w] <= Len(published) /\ until[w] <= Len(published) /\ upto[w] <= Len(published)

\* A socket has got what was due to it, each once and in order.
Heard(w) ==
  /\ watcher[w] = "out" => inbox[w] = << >>
  /\ \A k \in DOMAIN inbox[w] : inbox[w][k] \in DOMAIN published
  /\ \A j, k \in DOMAIN inbox[w] : j < k => inbox[w][j] < inbox[w][k]
  /\ watcher[w] # "out" =>
        \A n \in DOMAIN published : Due(w, n) <=> \E k \in DOMAIN inbox[w] : inbox[w][k] = n

BusInv == BusTypes /\ ClientTypes /\ \A w \in Watchers : Heard(w)

----------------------------------------------------------------------------
\* deliverEvent is at the head of the list and nowhere else.
DeliverFirst(list) ==
  /\ list \in Seq(Handlers) /\ Len(list) \in Nat \ {0} /\ list[1] = SocketsHandler
  /\ \A i \in 2..Len(list) : list[i] # SocketsHandler

\* It stays there in what is kept of the list, if it is kept.
LEMMA FirstIsKept ==
  ASSUME NEW list, DeliverFirst(list), NEW I \in SUBSET DOMAIN list, 1 \in I
  PROVE  DeliverFirst(Picked(list, I))
<1> DEFINE m == Cardinality(I)
<1>1. list \in Seq(Handlers) /\ DOMAIN list = 1..Len(list) /\ Len(list) \in Nat
  BY DEF DeliverFirst
<1>2. I \subseteq Nat
  BY <1>1
<1>4. /\ Picked(list, I) \in Seq(Handlers) /\ Len(Picked(list, I)) = m /\ m \in Nat
  BY <1>1, PickedSeq
<1>5. IsFiniteSet(I)
  <2>1. IsFiniteSet(1..Len(list))
    BY <1>1, FS_Interval
  <2> QED BY <1>1, <2>1, FS_Subset
<1>6. PICK f : Along(f, I) /\ \A k \in 1..m : Picked(list, I)[k] = list[f[k]]
  BY <1>2, <1>5, PickedFacts
<1>7. /\ f \in [1..m -> I]
      /\ \A j, k \in 1..m : j < k => f[j] < f[k]
      /\ \A i \in I : \E k \in 1..m : f[k] = i
  BY <1>6 DEF Along
<1>8. \A k \in 1..m : f[k] \in Int /\ f[k] >= 1
  <2>1. \A i \in I : i \in Int /\ i >= 1
    BY <1>1
  <2> QED BY <1>7, <2>1
<1>9. PICK k \in 1..m : f[k] = 1
  BY <1>7
<1>10. m \in Nat \ {0} /\ f[1] = 1
  <2>1. 1 \in 1..m
    BY <1>4, <1>9
  <2>2. ~(1 < k)
    <3> SUFFICES ASSUME 1 < k PROVE FALSE
      OBVIOUS
    <3>1. f[1] < f[k]
      BY <1>7, <1>9, <2>1
    <3> QED BY <1>8, <1>9, <2>1, <3>1
  <2> QED BY <1>4, <1>9, <2>1, <2>2
<1>11. Picked(list, I)[1] = SocketsHandler
  BY <1>6, <1>10 DEF DeliverFirst
<1>12. ASSUME NEW i \in 2..m PROVE Picked(list, I)[i] # SocketsHandler
  <2>1. i \in 1..m /\ 1 \in 1..m /\ 1 < i
    BY <1>10
  <2>2. f[1] < f[i] /\ f[i] \in I
    BY <1>7, <2>1
  <2>3. f[i] \in 2..Len(list)
    BY <1>1, <1>8, <1>10, <2>1, <2>2
  <2> QED BY <1>6, <2>1, <2>3 DEF DeliverFirst
<1> QED BY <1>4, <1>10, <1>11, <1>12 DEF DeliverFirst

\* The handlers of a topic: deliverEvent, then others.
LEMMA MatchingFacts ==
  ASSUME BusTypes, NEW topic \in Topics
  PROVE  /\ Matching(topic) \in Seq(Handlers) /\ Len(Matching(topic)) \in Nat \ {0}
         /\ Matching(topic)[1] = SocketsHandler
         /\ \A i \in 2..Len(Matching(topic)) : Matching(topic)[i] # SocketsHandler
<1> DEFINE I == {i \in DOMAIN subscribed : Listens(subscribed[i], topic)}
<1>1. DeliverFirst(subscribed)
  BY DEF BusTypes, DeliverFirst
<1>2. I \in SUBSET DOMAIN subscribed /\ 1 \in I
  BY <1>1, EventBusAssumption DEF DeliverFirst
<1> HIDE DEF I
<1>3. DeliverFirst(Picked(subscribed, I))
  BY <1>1, <1>2, FirstIsKept
<1>4. Matching(topic) = Picked(subscribed, I)
  BY DEF Matching, I
<1> QED BY <1>3, <1>4 DEF DeliverFirst

----------------------------------------------------------------------------
\* A step that calls deliverEvent for nothing sends nothing.
LEMMA MakesNone ==
  ASSUME ClientTypes, NEW calls, NEW events, Makes(calls, events),
         \A i \in DOMAIN calls : calls[i][1] # SocketsHandler
  PROVE  inbox' = inbox /\ watcher' = watcher /\ until' = until /\ upto' = upto
<1> DEFINE to(w) == Picked(calls, {i \in DOMAIN calls : calls[i][1] = SocketsHandler /\ Receives(w, events[calls[i][2]])})
           kicked(w) == \E i \in DOMAIN to(w) : events[to(w)[i][2]].topic = "kick"
<1>1. /\ inbox' = [w \in Watchers |-> inbox[w] \o Numbers(to(w))]
      /\ watcher' = [w \in Watchers |-> IF kicked(w) THEN "closed" ELSE watcher[w]]
      /\ upto' = [w \in Watchers |-> IF kicked(w) THEN Len(events) ELSE upto[w]]
      /\ until' = [w \in Watchers |-> IF kicked(w) /\ watcher[w] = "open" THEN Len(events) ELSE until[w]]
  BY DEF Makes
<1>2. ASSUME NEW w \in Watchers PROVE to(w) = << >>
  <2>1. {i \in DOMAIN calls : calls[i][1] = SocketsHandler /\ Receives(w, events[calls[i][2]])} = {}
    OBVIOUS
  <2> QED BY <2>1, PickedFew
<1> HIDE DEF to
<1>3. ASSUME NEW w \in Watchers PROVE ~kicked(w) /\ inbox[w] \o Numbers(to(w)) = inbox[w]
  <2>1. ~kicked(w)
    BY <1>2
  <2>2. Numbers(to(w)) = << >>
    BY <1>2 DEF Numbers
  <2>3. inbox[w] \in Seq(Nat)
    BY DEF ClientTypes
  <2> QED BY <2>1, <2>2, <2>3
<1>4. inbox' = [w \in Watchers |-> inbox[w]]
  BY <1>1, <1>3
<1> HIDE DEF kicked
<1>5. /\ watcher' = [w \in Watchers |-> watcher[w]]
      /\ upto' = [w \in Watchers |-> upto[w]]
      /\ until' = [w \in Watchers |-> until[w]]
  BY <1>1, <1>3
<1> QED BY <1>4, <1>5 DEF ClientTypes

\* The publication is a session-kicked that reaches the socket.
Kicked(w, news) == Receives(w, news) /\ news.topic = "kick"

\* A step whose first call is deliverEvent's sends that publication to those
\* who receive it, and a session-kicked closes their sockets.
LEMMA MakesOne ==
  ASSUME ClientTypes, NEW calls, NEW events, NEW n, Makes(calls, events),
         NEW m \in Nat, DOMAIN calls = 1..m, m >= 1, calls[1] = <<SocketsHandler, n>>,
         \A i \in 2..m : calls[i][1] # SocketsHandler,
         NEW w \in Watchers
  PROVE  /\ inbox'[w] = IF Receives(w, events[n]) THEN Append(inbox[w], n) ELSE inbox[w]
         /\ watcher'[w] = IF Kicked(w, events[n]) THEN "closed" ELSE watcher[w]
         /\ upto'[w] = IF Kicked(w, events[n]) THEN Len(events) ELSE upto[w]
         /\ until'[w] = IF Kicked(w, events[n]) /\ watcher[w] = "open"
                        THEN Len(events) ELSE until[w]
<1> DEFINE to(x) == Picked(calls, {i \in DOMAIN calls : calls[i][1] = SocketsHandler /\ Receives(x, events[calls[i][2]])})
           kicked(x) == \E i \in DOMAIN to(x) : events[to(x)[i][2]].topic = "kick"
<1>1. /\ inbox' = [x \in Watchers |-> inbox[x] \o Numbers(to(x))]
      /\ watcher' = [x \in Watchers |-> IF kicked(x) THEN "closed" ELSE watcher[x]]
      /\ upto' = [x \in Watchers |-> IF kicked(x) THEN Len(events) ELSE upto[x]]
      /\ until' = [x \in Watchers |-> IF kicked(x) /\ watcher[x] = "open" THEN Len(events) ELSE until[x]]
  BY DEF Makes
<1>2. \A i \in DOMAIN calls : calls[i][1] = SocketsHandler => i = 1
  BY SMT
<1>3. 1 \in DOMAIN calls /\ calls[1][1] = SocketsHandler /\ calls[1][2] = n
  BY SMT
<1>4. CASE Receives(w, events[n])
  <2>1. {i \in DOMAIN calls : calls[i][1] = SocketsHandler /\ Receives(w, events[calls[i][2]])} = {1}
    BY <1>2, <1>3, <1>4
  <2>2. to(w) = <<calls[1]>>
    BY <2>1, PickedFew
  <2> HIDE DEF to
  <2>3. to(w) = <<<<SocketsHandler, n>>>>
    BY <2>2
  <2>4. kicked(w) <=> events[n].topic = "kick"
    BY <2>3
  <2>5. Numbers(to(w)) = <<n>>
    BY <2>3 DEF Numbers
  <2>6. inbox[w] \o <<n>> = Append(inbox[w], n)
    <3>1. inbox[w] \in Seq(Nat)
      BY DEF ClientTypes
    <3> QED BY <3>1
  <2> HIDE DEF kicked
  <2>7. inbox'[w] = Append(inbox[w], n)
    BY <1>1, <2>5, <2>6
  <2>8. /\ watcher'[w] = IF kicked(w) THEN "closed" ELSE watcher[w]
        /\ upto'[w] = IF kicked(w) THEN Len(events) ELSE upto[w]
        /\ until'[w] = IF kicked(w) /\ watcher[w] = "open" THEN Len(events) ELSE until[w]
    BY <1>1
  <2> QED BY <1>4, <2>4, <2>7, <2>8 DEF Kicked
<1>5. CASE ~Receives(w, events[n])
  <2>1. {i \in DOMAIN calls : calls[i][1] = SocketsHandler /\ Receives(w, events[calls[i][2]])} = {}
    BY <1>2, <1>3, <1>5
  <2>2. to(w) = << >>
    BY <2>1, PickedFew
  <2> HIDE DEF to
  <2>3. ~kicked(w) /\ Numbers(to(w)) = << >>
    BY <2>2 DEF Numbers
  <2>4. inbox[w] \o << >> = inbox[w]
    <3>1. inbox[w] \in Seq(Nat)
      BY DEF ClientTypes
    <3> QED BY <3>1
  <2> HIDE DEF kicked
  <2>5. inbox'[w] = inbox[w]
    BY <1>1, <2>3, <2>4
  <2>6. /\ watcher'[w] = IF kicked(w) THEN "closed" ELSE watcher[w]
        /\ upto'[w] = IF kicked(w) THEN Len(events) ELSE upto[w]
        /\ until'[w] = IF kicked(w) /\ watcher[w] = "open" THEN Len(events) ELSE until[w]
    BY <1>1
  <2> QED BY <1>5, <2>3, <2>5, <2>6 DEF Kicked
<1> QED BY <1>4, <1>5
----------------------------------------------------------------------------
\* What is published anew is sent, within the step, to the sockets it is due to.
LEMMA NewsIsHeard ==
  ASSUME BusInv, BusTypes', since' = since,
         NEW N \in Nat, N = Len(published) + 1, Len(published') = N,
         \A n \in DOMAIN published : published'[n].topic = published[n].topic,
         NEW calls, NEW m \in Nat, DOMAIN calls = 1..m, m >= 1,
         calls[1] = <<SocketsHandler, N>>,
         \A i \in 2..m : calls[i][1] # SocketsHandler,
         Makes(calls, published')
  PROVE  BusInv'
<1> DEFINE L == Len(published)
           e == published'[N]
<1>1. /\ L \in Nat /\ N \in Nat /\ N > L /\ Len(published') = N
      /\ DOMAIN published = 1..L /\ DOMAIN published' = 1..N
  BY DEF BusInv, BusTypes
<1>2. e.topic \in Topics /\ e.raw \in BOOLEAN
  <2>1. published' \in Seq([topic : Topics, raw : BOOLEAN, left : Seq(Handlers)])
    BY DEF BusTypes
  <2>2. N \in 1..Len(published')
    BY <1>1
  <2>3. \A S : published' \in Seq(S) => published'[N] \in S
    BY <2>2
  <2>4. published'[N] \in [topic : Topics, raw : BOOLEAN, left : Seq(Handlers)]
    BY <2>1, <2>3
  <2> QED BY <2>4
<1>3. ClientTypes
  BY DEF BusInv
<1>4. ASSUME NEW w \in Watchers
      PROVE  /\ inbox'[w] = IF Receives(w, e) THEN Append(inbox[w], N) ELSE inbox[w]
             /\ watcher'[w] = IF Receives(w, e) /\ e.topic = "kick" THEN "closed" ELSE watcher[w]
             /\ upto'[w] = IF Receives(w, e) /\ e.topic = "kick" THEN N ELSE upto[w]
             /\ until'[w] = IF Receives(w, e) /\ e.topic = "kick" /\ watcher[w] = "open" THEN N ELSE until[w]
  <2>0. PICK events : events = published'
    OBVIOUS
  <2>2. Makes(calls, events) /\ Len(events) = N /\ events[N] = e
    BY <2>0
  <2> HIDE DEF e
  <2>3. inbox'[w] = IF Receives(w, events[N]) THEN Append(inbox[w], N) ELSE inbox[w]
    BY <1>3, <2>2, MakesOne
  <2>4. watcher'[w] = IF Kicked(w, events[N]) THEN "closed" ELSE watcher[w]
    BY <1>3, <2>2, MakesOne
  <2>5. upto'[w] = IF Kicked(w, events[N]) THEN Len(events) ELSE upto[w]
    BY <1>3, <2>2, MakesOne
  <2>6. until'[w] = IF Kicked(w, events[N]) /\ watcher[w] = "open"
                    THEN Len(events) ELSE until[w]
    BY <1>3, <2>2, MakesOne
  <2> QED BY <2>2, <2>3, <2>4, <2>5, <2>6 DEF Kicked
<1>5. ASSUME NEW w \in Watchers
      PROVE  Receives(w, e) <=> IF e.topic = "kick" THEN watcher[w] \in {"open", "ending"} /\ w \in OwnWatchers
                                ELSE watcher[w] = "open" /\ Allows(w, AudienceOf(e.topic))
  <2>1. e.topic # "kick" => DefaultAudience(e.topic) = AudienceOf(e.topic)
    BY DEF DefaultAudience, AudienceOf
  <2> QED BY <2>1 DEF Receives
<1>6. /\ inbox' = [w \in Watchers |-> inbox'[w]] /\ watcher' = [w \in Watchers |-> watcher'[w]]
      /\ upto' = [w \in Watchers |-> upto'[w]] /\ until' = [w \in Watchers |-> until'[w]]
  BY DEF Makes
<1> HIDE DEF e
<1>7. ASSUME NEW w \in Watchers
      PROVE  /\ inbox[w] \in Seq(Nat) /\ watcher[w] \in {"out", "open", "ending", "closed"}
             /\ since[w] \in Nat /\ until[w] \in Nat /\ upto[w] \in Nat
             /\ since[w] <= L /\ until[w] <= L /\ upto[w] <= L /\ Heard(w)
  BY DEF BusInv, ClientTypes
<1>8. ClientTypes'
  <2>1. ASSUME NEW w \in Watchers PROVE inbox'[w] \in Seq(Nat)
    <3>1. inbox[w] \in Seq(Nat) /\ Append(inbox[w], N) \in Seq(Nat)
      BY <1>1, <1>7
    <3>2. inbox'[w] = Append(inbox[w], N) \/ inbox'[w] = inbox[w]
      BY <1>4
    <3> QED BY <3>1, <3>2
  <2>2. \A w \in Watchers : watcher'[w] \in {"out", "open", "ending", "closed"}
    BY <1>4, <1>7
  <2>3. \A w \in Watchers : until'[w] \in Nat /\ until'[w] <= N
    BY <1>1, <1>4, <1>7
  <2>4. \A w \in Watchers : upto'[w] \in Nat /\ upto'[w] <= N
    BY <1>1, <1>4, <1>7
  <2>5. since' \in [Watchers -> Nat] /\ \A w \in Watchers : since'[w] <= N
    <3>1. since \in [Watchers -> Nat]
      BY <1>3 DEF ClientTypes
    <3> QED BY <1>1, <1>7, <3>1
  <2>6. inbox' \in [Watchers -> Seq(Nat)]
    BY <1>6, <2>1
  <2>7. watcher' \in [Watchers -> {"out", "open", "ending", "closed"}]
    BY <1>6, <2>2
  <2>8. until' \in [Watchers -> Nat] /\ upto' \in [Watchers -> Nat]
    BY <1>6, <2>3, <2>4
  <2> QED BY <1>1, <2>3, <2>4, <2>5, <2>6, <2>7, <2>8 DEF ClientTypes
<1>9. ASSUME NEW w \in Watchers PROVE Heard(w)'
  <2> USE <1>1, <1>7
  <2>1. watcher'[w] = "out" => watcher[w] = "out" /\ inbox'[w] = << >>
    <3>1. watcher'[w] = "out" => watcher[w] = "out"
      BY <1>4
    <3>2. watcher[w] = "out" => ~Receives(w, e)
      BY <1>5
    <3> QED BY <1>4, <3>1, <3>2 DEF Heard
  <2>2. watcher[w] = "out" => watcher'[w] = "out"
    <3>1. watcher[w] = "out" => ~Receives(w, e)
      BY <1>5
    <3> QED BY <1>4, <3>1
  <2>3. \A k \in DOMAIN inbox[w] : inbox[w][k] \in 1..L
    BY DEF Heard
  <2>o. PICK l \in Nat : Len(inbox[w]) = l /\ DOMAIN inbox[w] = 1..l
    <3>1. inbox[w] \in Seq(Nat)
      OBVIOUS
    <3>2. Len(inbox[w]) \in Nat /\ DOMAIN inbox[w] = 1..Len(inbox[w])
      BY <3>1
    <3> QED BY <3>2
  <2>a. ASSUME inbox'[w] = Append(inbox[w], N)
        PROVE  /\ DOMAIN inbox'[w] = 1..(l + 1) /\ inbox'[w][l + 1] = N
               /\ \A k \in 1..l : inbox'[w][k] = inbox[w][k]
    BY <2>o, <2>a
  <2>b. \A k \in 1..l : inbox[w][k] \in Int /\ inbox[w][k] < N
    <3> TAKE k \in 1..l
    <3>1. inbox[w][k] \in 1..L
      BY <2>o, <2>3
    <3> QED BY <1>1, <3>1
  <2>4. \A k \in DOMAIN inbox'[w] : inbox'[w][k] \in 1..N
    <3>1. CASE inbox'[w] = Append(inbox[w], N)
      <4> TAKE k \in DOMAIN inbox'[w]
      <4>1. k = l + 1 \/ k \in 1..l
        BY <2>a, <2>o, <3>1
      <4>2. N \in 1..N /\ \A i \in 1..L : i \in 1..N
        OBVIOUS
      <4> QED BY <2>a, <2>o, <2>3, <3>1, <4>1, <4>2
    <3>2. CASE inbox'[w] = inbox[w]
      <4>1. \A i \in 1..L : i \in 1..N
        OBVIOUS
      <4> QED BY <2>3, <3>2, <4>1
    <3>3. inbox'[w] = Append(inbox[w], N) \/ inbox'[w] = inbox[w]
      BY <1>4
    <3> QED BY <3>1, <3>2, <3>3
  <2>5. \A j, k \in DOMAIN inbox'[w] : j < k => inbox'[w][j] < inbox'[w][k]
    <3>1. \A j, k \in DOMAIN inbox[w] : j < k => inbox[w][j] < inbox[w][k]
      BY DEF Heard
    <3>2. CASE Receives(w, e)
      <4>1. inbox'[w] = Append(inbox[w], N)
        BY <1>4, <3>2
      <4> TAKE j, k \in DOMAIN inbox'[w]
      <4> SUFFICES ASSUME j < k PROVE inbox'[w][j] < inbox'[w][k]
        OBVIOUS
      <4>2. j \in 1..l /\ (k = l + 1 \/ k \in 1..l)
        BY <2>a, <2>o, <4>1
      <4> QED BY <2>a, <2>b, <2>o, <3>1, <4>1, <4>2
    <3> QED BY <1>4, <3>1, <3>2
  <2>6. ASSUME watcher[w] # "out", NEW n \in 1..L PROVE Due(w, n)' <=> Due(w, n)
    <3>1. published'[n].topic = published[n].topic
      OBVIOUS
    <3>2. CASE Receives(w, e) /\ e.topic = "kick"
      <4>1. watcher'[w] = "closed" /\ upto'[w] = N /\ watcher[w] \in {"open", "ending"}
        BY <1>4, <1>5, <3>2
      <4>2. until'[w] = IF watcher[w] = "open" THEN N ELSE until[w]
        BY <1>4, <3>2
      <4> QED BY <3>1, <4>1, <4>2 DEF Due
    <3>3. CASE ~(Receives(w, e) /\ e.topic = "kick")
      <4>1. watcher'[w] = watcher[w] /\ upto'[w] = upto[w] /\ until'[w] = until[w]
        BY <1>4, <3>3
      <4> QED BY <3>1, <4>1 DEF Due
    <3> QED BY <3>2, <3>3
  <2>7. ASSUME watcher[w] # "out" PROVE Due(w, N)' <=> Receives(w, e)
    <3>1. since'[w] < N
      OBVIOUS
    <3>2. CASE Receives(w, e) /\ e.topic = "kick"
      <4>1. w \in OwnWatchers /\ upto'[w] = N
        BY <1>4, <1>5, <3>2
      <4>2. published'[N].topic = "kick"
        BY <3>2 DEF e
      <4>3. N <= upto'[w]
        BY <4>1
      <4>4. Due(w, N)'
        BY <3>1, <4>1, <4>2, <4>3 DEF Due
      <4> QED BY <3>2, <4>4
    <3>3. CASE ~(Receives(w, e) /\ e.topic = "kick")
      <4>1. watcher'[w] = watcher[w] /\ upto'[w] = upto[w] /\ until'[w] = until[w]
        BY <1>4, <3>3
      <4>2. CASE e.topic = "kick"
        <5>1. Due(w, N)' <=> w \in OwnWatchers /\ (watcher[w] = "closed" => N <= upto[w])
          <6>1. published'[N].topic = "kick"
            BY <4>2 DEF e
          <6>2. Due(w, N)' <=> since'[w] < N /\ w \in OwnWatchers /\ (watcher'[w] = "closed" => N <= upto'[w])
            BY <6>1 DEF Due
          <6> QED BY <3>1, <4>1, <6>2
        <5>2. ~(N <= upto[w])
          OBVIOUS
        <5> QED BY <1>5, <2>7, <4>2, <5>1, <5>2
      <4>3. CASE e.topic # "kick"
        <5>1. Due(w, N)' <=> Allows(w, AudienceOf(e.topic)) /\ (watcher[w] # "open" => N <= until[w])
          <6>1. published'[N].topic = e.topic
            BY DEF e
          <6>2. Due(w, N)' <=> since'[w] < N /\ Allows(w, AudienceOf(e.topic)) /\ (watcher'[w] # "open" => N <= until'[w])
            BY <4>3, <6>1 DEF Due
          <6> QED BY <3>1, <4>1, <6>2
        <5>2. ~(N <= until[w])
          OBVIOUS
        <5> QED BY <1>5, <4>3, <5>1, <5>2
      <4> QED BY <4>2, <4>3
    <3> QED BY <3>2, <3>3
  <2>8. ASSUME watcher'[w] # "out", NEW n \in 1..N
        PROVE  Due(w, n)' <=> \E k \in DOMAIN inbox'[w] : inbox'[w][k] = n
    <3>0. watcher[w] # "out"
      BY <2>2, <2>8
    <3>1. \A i \in 1..L : Due(w, i) <=> \E k \in DOMAIN inbox[w] : inbox[w][k] = i
      BY <3>0 DEF Heard
    <3>2. CASE Receives(w, e)
      <4>1. inbox'[w] = Append(inbox[w], N)
        BY <1>4, <3>2
      <4>2. ASSUME NEW i
            PROVE  (\E k \in DOMAIN inbox'[w] : inbox'[w][k] = i)
                     <=> i = N \/ \E k \in DOMAIN inbox[w] : inbox[w][k] = i
        <5>1. \A k \in DOMAIN inbox'[w] : k = l + 1 \/ k \in 1..l
          BY <2>a, <2>o, <4>1
        <5>2. l + 1 \in DOMAIN inbox'[w] /\ \A k \in 1..l : k \in DOMAIN inbox'[w]
          BY <2>a, <2>o, <4>1
        <5> QED BY <2>a, <2>o, <4>1, <5>1, <5>2
      <4>3. CASE n = N
        <5>1. Due(w, N)'
          BY <2>7, <3>0, <3>2
        <5>2. \E k \in DOMAIN inbox'[w] : inbox'[w][k] = N
          BY <4>2
        <5>3. Due(w, n)'
          BY <4>3, <5>1
        <5> QED BY <4>3, <5>2, <5>3
      <4>4. CASE n # N
        <5>1. n \in 1..L
          BY <4>4
        <5> QED BY <2>6, <3>0, <3>1, <4>2, <4>4, <5>1
      <4> QED BY <4>3, <4>4
    <3>3. CASE ~Receives(w, e)
      <4>1. inbox'[w] = inbox[w]
        BY <1>4, <3>3
      <4>3. CASE n = N
        <5>1. ~\E k \in DOMAIN inbox[w] : inbox[w][k] = N
          BY <2>3
        <5>2. ~Due(w, N)'
          BY <2>7, <3>0, <3>3
        <5>3. ~Due(w, n)'
          BY <4>3, <5>2
        <5> QED BY <4>1, <4>3, <5>1, <5>3
      <4>4. CASE n # N
        <5>1. n \in 1..L
          BY <4>4
        <5> QED BY <2>6, <3>0, <3>1, <4>1, <5>1
      <4> QED BY <4>3, <4>4
    <3> QED BY <3>2, <3>3
  <2> QED BY <2>1, <2>4, <2>5, <2>8 DEF Heard
<1> QED BY <1>8, <1>9 DEF BusInv

\* A step that publishes nothing and touches no socket leaves all as it was.
LEMMA QuietStep ==
  ASSUME BusInv, BusTypes', UNCHANGED clientVars,
         Len(published') = Len(published),
         \A n \in DOMAIN published : published'[n].topic = published[n].topic
  PROVE  BusInv'
<1>1. /\ inbox' = inbox /\ watcher' = watcher /\ since' = since /\ until' = until /\ upto' = upto
  BY DEF clientVars
<1>2. ClientTypes'
  BY <1>1 DEF BusInv, ClientTypes
<1>3. DOMAIN published' = DOMAIN published
  BY DEF BusInv, BusTypes
<1>4. ASSUME NEW w \in Watchers PROVE Heard(w)'
  <2>1. \A n \in DOMAIN published : Due(w, n)' <=> Due(w, n)
    BY <1>1 DEF Due
  <2> QED BY <1>1, <1>3, <2>1 DEF BusInv, Heard
<1> QED BY <1>2, <1>4 DEF BusInv
----------------------------------------------------------------------------
(* The steps *)

Publications == [topic : Topics, raw : BOOLEAN, left : Seq(Handlers)]

AreMade(list) ==
  /\ list \in Seq(Publications)
  /\ \A n \in DOMAIN list : \A i \in 2..Len(list[n].left) : list[n].left[i] # SocketsHandler

\* Of a publication just made, only its first handler is deliverEvent.
LEMMA AppendTypes ==
  ASSUME BusTypes, subscribed' = subscribed, NEW news \in Publications,
         \A i \in 2..Len(news.left) : news.left[i] # SocketsHandler,
         published' = Append(published, news)
  PROVE  /\ BusTypes' /\ Len(published') = Len(published) + 1
         /\ \A n \in DOMAIN published : published'[n].topic = published[n].topic
<1> DEFINE L == Len(published)
<1>1. published \in Seq(Publications) /\ L \in Nat /\ DOMAIN published = 1..L
  BY DEF BusTypes, Publications
<1>2. /\ published' \in Seq(Publications) /\ Len(published') = L + 1 /\ DOMAIN published' = 1..(L + 1)
      /\ \A n \in 1..L : published'[n] = published[n]
      /\ published'[L + 1] = news
  BY <1>1
<1>3. \A n \in DOMAIN published' : n \in 1..L \/ n = L + 1
  BY <1>1, <1>2
<1>4. \A n \in DOMAIN published' : \A i \in 2..Len(published'[n].left) : published'[n].left[i] # SocketsHandler
  BY <1>1, <1>2, <1>3 DEF BusTypes
<1>5. BusTypes'
  BY <1>2, <1>4 DEF BusTypes, Publications
<1> QED BY <1>1, <1>2, <1>5

LEMMA PublishKeepsBus ==
  ASSUME BusInv, NEW topic \in Topics, Publish(topic)
  PROVE  BusInv'
<1> DEFINE calls == FirstCalls(Matching(topic), Len(published) + 1)
           news == Event(topic, FALSE, Matching(topic))
<1>0. BusTypes
  BY DEF BusInv
<1>1. /\ Matching(topic) \in Seq(Handlers) /\ Len(Matching(topic)) \in Nat \ {0}
      /\ Matching(topic)[1] = SocketsHandler
      /\ \A i \in 2..Len(Matching(topic)) : Matching(topic)[i] # SocketsHandler
  BY <1>0, MatchingFacts
<1>2. news \in Publications /\ news.left = Matching(topic)
  BY <1>1 DEF Event, Publications
<1>3. PICK ev \in Publications : ev = news
  BY <1>2
<1>4. /\ published' = Append(published, ev) /\ subscribed' = subscribed /\ since' = since
      /\ Makes(calls, published')
  BY <1>3 DEF Publish
<1>5. \A i \in 2..Len(ev.left) : ev.left[i] # SocketsHandler
  BY <1>1, <1>2, <1>3
<1> HIDE DEF news
<1>6. /\ BusTypes' /\ Len(published') = Len(published) + 1
      /\ \A n \in DOMAIN published : published'[n].topic = published[n].topic
  BY <1>0, <1>4, <1>5, AppendTypes
<1>7. calls = <<<<SocketsHandler, Len(published) + 1>>>>
  BY <1>1 DEF FirstCalls
<1> HIDE DEF calls
<1>8. PICK N \in Nat : N = Len(published) + 1
  BY <1>0 DEF BusTypes
<1>9. PICK cs : cs = calls
  OBVIOUS
<1>10. /\ DOMAIN cs = 1..1 /\ cs[1] = <<SocketsHandler, N>> /\ Makes(cs, published')
       /\ \A i \in 2..1 : cs[i][1] # SocketsHandler
  BY <1>4, <1>7, <1>8, <1>9
<1>11. Len(published') = N
  BY <1>6, <1>8
<1>12. PICK m \in Nat : DOMAIN cs = 1..m /\ m >= 1 /\ \A i \in 2..m : cs[i][1] # SocketsHandler
  BY <1>10
<1> QED BY <1>4, <1>6, <1>8, <1>10, <1>11, <1>12, NewsIsHeard

LEMMA BroadcastKeepsBus ==
  ASSUME BusInv, NEW topic \in Topics, Broadcast(topic)
  PROVE  BusInv'
<1>0. BusTypes
  BY DEF BusInv
<1>1. PICK ev \in Publications : ev = Event(topic, TRUE, << >>)
  <2>1. << >> \in Seq(Handlers)
    OBVIOUS
  <2>2. Event(topic, TRUE, << >>) \in Publications
    BY <2>1 DEF Event, Publications
  <2> QED BY <2>2
<1>2. PICK N \in Nat : N = Len(published) + 1
  BY <1>0 DEF BusTypes
<1>3. PICK cs : cs = <<<<SocketsHandler, N>>>>
  OBVIOUS
<1>4. /\ published' = Append(published, ev) /\ subscribed' = subscribed /\ since' = since
      /\ Makes(cs, published')
  BY <1>1, <1>2, <1>3 DEF Broadcast
<1>5. \A i \in 2..Len(ev.left) : ev.left[i] # SocketsHandler
  BY <1>1 DEF Event
<1>6. /\ BusTypes' /\ Len(published') = Len(published) + 1
      /\ \A n \in DOMAIN published : published'[n].topic = published[n].topic
  BY <1>0, <1>4, <1>5, AppendTypes
<1>7. /\ DOMAIN cs = 1..1 /\ cs[1] = <<SocketsHandler, N>>
      /\ \A i \in 2..1 : cs[i][1] # SocketsHandler
  BY <1>3
<1>8. Len(published') = N
  BY <1>2, <1>6
<1>9. PICK m \in Nat : DOMAIN cs = 1..m /\ m >= 1 /\ \A i \in 2..m : cs[i][1] # SocketsHandler
  BY <1>7
<1> QED BY <1>2, <1>4, <1>6, <1>7, <1>8, <1>9, NewsIsHeard

\* The handlers that are left after the first are none of the server's.
LEMMA RestFacts ==
  ASSUME BusTypes, NEW n \in DOMAIN published, published[n].left # << >>, NEW rest, rest = Tail(published[n].left)
  PROVE  /\ rest \in Seq(Handlers)
         /\ \A i \in 1..Len(rest) : rest[i] # SocketsHandler
         /\ FirstCalls(rest, n) = << >> \/ (rest # << >> /\ FirstCalls(rest, n) = <<<<rest[1], n>>>> /\ rest[1] # SocketsHandler)
<1>1. PICK left \in Seq(Handlers) : left = published[n].left
  <2>1. published \in Seq(Publications)
    BY DEF BusTypes, Publications
  <2>2. PICK p \in Publications : p = published[n]
    BY <2>1
  <2>3. p.left \in Seq(Handlers)
    BY DEF Publications
  <2> QED BY <2>2, <2>3
<1>2. \A i \in 2..Len(left) : left[i] # SocketsHandler
  BY <1>1 DEF BusTypes
<1>3. left # << >> /\ rest = Tail(left)
  BY <1>1
<1>4. /\ rest \in Seq(Handlers) /\ Len(rest) = Len(left) - 1 /\ Len(left) \in Nat
      /\ \A i \in 1..Len(rest) : rest[i] = left[i + 1]
  <2>1. /\ Tail(left) \in Seq(Handlers) /\ Len(Tail(left)) = Len(left) - 1
        /\ \A i \in 1..Len(Tail(left)) : Tail(left)[i] = left[i + 1]
    BY <1>3, HeadTailProperties
  <2>2. Len(left) \in Nat
    OBVIOUS
  <2> QED BY <1>3, <2>1, <2>2
<1>5. \A i \in 1..Len(rest) : i + 1 \in 2..Len(left)
  BY <1>4
<1>6. \A i \in 1..Len(rest) : rest[i] # SocketsHandler
  BY <1>2, <1>4, <1>5
<1>7. CASE rest = << >>
  BY <1>4, <1>6, <1>7 DEF FirstCalls
<1>8. CASE rest # << >>
  <2>1. 1 \in 1..Len(rest) /\ Head(rest) = rest[1]
    BY <1>4, <1>8
  <2> QED BY <1>4, <1>6, <1>8, <2>1 DEF FirstCalls
<1> QED BY <1>7, <1>8

\* With one handler fewer to call, the publications are as they were.
LEMMA RestTypes ==
  ASSUME BusTypes, NEW n \in DOMAIN published, NEW rest \in Seq(Handlers),
         \A i \in 1..Len(rest) : rest[i] # SocketsHandler,
         NEW settled, settled = [published EXCEPT ![n].left = rest]
  PROVE  /\ AreMade(settled) /\ Len(settled) = Len(published)
         /\ \A k \in DOMAIN published : settled[k].topic = published[k].topic
<1>1. published \in Seq(Publications) /\ Len(published) \in Nat /\ DOMAIN published = 1..Len(published)
  BY DEF BusTypes, Publications
<1>2. PICK p \in Publications : p = published[n]
  BY <1>1
<1>3. settled = [published EXCEPT ![n] = [p EXCEPT !.left = rest]]
  BY <1>2
<1>4. PICK q \in Publications : q = [p EXCEPT !.left = rest] /\ q.topic = p.topic /\ q.left = rest
  <2>1. PICK q : q = [p EXCEPT !.left = rest]
    OBVIOUS
  <2>2. q = [topic |-> p.topic, raw |-> p.raw, left |-> rest]
    BY <2>1 DEF Publications
  <2>3. q \in Publications /\ q.topic = p.topic /\ q.left = rest
    BY <2>2 DEF Publications
  <2> QED BY <2>1, <2>3
<1>5. settled = [published EXCEPT ![n] = q]
  BY <1>3, <1>4
<1>6. settled \in Seq(Publications) /\ Len(settled) = Len(published)
  BY <1>1, <1>5
<1>7. \A k \in DOMAIN published : settled[k] = IF k = n THEN q ELSE published[k]
  BY <1>1, <1>5
<1>8. \A k \in DOMAIN published : settled[k].topic = published[k].topic
  BY <1>2, <1>4, <1>7
<1>9. ASSUME NEW k \in DOMAIN published, NEW i \in 2..Len(settled[k].left) PROVE settled[k].left[i] # SocketsHandler
  <2>1. CASE k = n
    <3>1. settled[k].left = rest /\ Len(rest) \in Nat
      <4>1. settled[k] = q /\ Len(rest) \in Nat
        BY <1>7, <2>1
      <4> QED BY <1>4, <4>1
    <3>2. i \in 1..Len(rest)
      <4>1. i \in 2..Len(rest)
        BY <3>1
      <4> QED BY <3>1, <4>1
    <3> QED BY <3>1, <3>2
  <2>2. CASE k # n
    BY <1>7, <2>2 DEF BusTypes
  <2> QED BY <2>1, <2>2
<1>10. DOMAIN settled = DOMAIN published
  BY <1>1, <1>6
<1> QED BY <1>6, <1>8, <1>9, <1>10 DEF AreMade

LEMMA SettledKeepsBus ==
  ASSUME BusInv, NEW n \in DOMAIN published, Settled(n)
  PROVE  BusInv'
<1>0. BusTypes /\ ClientTypes
  BY DEF BusInv
<1>1. PICK rest : rest = Tail(published[n].left)
  OBVIOUS
<1>2. PICK settled : settled = [published EXCEPT ![n].left = rest]
  OBVIOUS
<1>3. published[n].left # << >> /\ subscribed' = subscribed /\ since' = since
  BY DEF Settled
<1>4. /\ rest \in Seq(Handlers)
      /\ \A i \in 1..Len(rest) : rest[i] # SocketsHandler
      /\ FirstCalls(rest, n) = << >> \/ (rest # << >> /\ FirstCalls(rest, n) = <<<<rest[1], n>>>> /\ rest[1] # SocketsHandler)
  BY <1>0, <1>1, <1>3, RestFacts
<1>5. /\ settled \in Seq(Publications) /\ Len(settled) = Len(published)
      /\ \A k \in DOMAIN published : settled[k].topic = published[k].topic
      /\ \A k \in DOMAIN published : \A i \in 2..Len(settled[k].left) : settled[k].left[i] # SocketsHandler
  <2>1. BusTypes /\ rest \in Seq(Handlers) /\ \A i \in 1..Len(rest) : rest[i] # SocketsHandler
    BY <1>0, <1>4
  <2>2. AreMade(settled)
    BY <1>2, <2>1, RestTypes
  <2>5. Len(settled) = Len(published)
    BY <1>2, <2>1, RestTypes
  <2>3. \A k \in DOMAIN published : settled[k].topic = published[k].topic
    BY <1>2, <2>1, RestTypes
  <2>6. settled \in Seq(Publications)
    BY <2>2 DEF AreMade
  <2>7. DOMAIN settled = DOMAIN published
    <3>1. published \in Seq(Publications)
      BY <1>0 DEF BusTypes, Publications
    <3> QED BY <2>5, <2>6, <3>1
  <2>4. \A k \in DOMAIN published : \A i \in 2..Len(settled[k].left) : settled[k].left[i] # SocketsHandler
    BY <2>2, <2>7 DEF AreMade
  <2> QED BY <2>3, <2>4, <2>5, <2>6
<1>6. Len(published) \in Nat /\ DOMAIN published = 1..Len(published)
  BY <1>0 DEF BusTypes
<1>7. CASE ~Reported(n)
  <2>1. PICK cs : cs = FirstCalls(rest, n)
    OBVIOUS
  <2>2. << >> \o cs = cs
    BY <1>4, <2>1
  <2>3. published' = settled \o << >> /\ Makes(<< >> \o cs, published')
    BY <1>1, <1>2, <1>7, <2>1 DEF Settled
  <2>4. published' = settled
    BY <1>5, <2>3
  <2>5. PICK events : events = published'
    OBVIOUS
  <2>6. Makes(cs, events)
    BY <2>2, <2>3, <2>5
  <2>7. \A i \in DOMAIN cs : cs[i][1] # SocketsHandler
    BY <1>4, <2>1
  <2>8. UNCHANGED clientVars
    BY <1>0, <1>3, <2>6, <2>7, MakesNone DEF clientVars
  <2>9. BusTypes'
    <3>1. subscribed' \in Seq(Handlers) /\ Len(subscribed') >= 1 /\ subscribed'[1] = SocketsHandler
      BY <1>0, <1>3 DEF BusTypes
    <3>2. \A i \in 2..Len(subscribed') : subscribed'[i] # SocketsHandler
      BY <1>0, <1>3 DEF BusTypes
    <3>3. DOMAIN published' = DOMAIN published
      BY <1>5, <1>6, <2>4
    <3> QED BY <1>5, <2>4, <3>1, <3>2, <3>3 DEF BusTypes, Publications
  <2>10. Len(published') = Len(published) /\ \A k \in DOMAIN published : published'[k].topic = published[k].topic
    BY <1>5, <2>4
  <2> QED BY <2>8, <2>9, <2>10, QuietStep
<1>8. CASE Reported(n)
  <2>0. "log" \in Topics
    BY EventBusAssumption
  <2>1. PICK handlers : handlers = Matching("log")
    OBVIOUS
  <2>2. /\ handlers \in Seq(Handlers) /\ Len(handlers) \in Nat \ {0} /\ handlers[1] = SocketsHandler
        /\ \A i \in 2..Len(handlers) : handlers[i] # SocketsHandler
    BY <1>0, <2>0, <2>1, MatchingFacts
  <2>3. PICK N \in Nat : N = Len(published) + 1
    BY <1>6
  <2>4. PICK ev \in Publications : ev = Event("log", FALSE, handlers) /\ ev.left = handlers
    <3>1. Event("log", FALSE, handlers) \in Publications /\ Event("log", FALSE, handlers).left = handlers
      BY <2>0, <2>2 DEF Event, Publications
    <3> QED BY <3>1
  <2>5. FirstCalls(handlers, N) = <<<<SocketsHandler, N>>>>
    BY <2>2 DEF FirstCalls
  <2>6. PICK cs : cs = <<<<SocketsHandler, N>>>> \o FirstCalls(rest, n)
    OBVIOUS
  <2>7. published' = settled \o <<ev>> /\ Makes(cs, published')
    <3>1. published' = settled \o <<Event("log", FALSE, Matching("log"))>>
      BY <1>1, <1>2, <1>8 DEF Settled
    <3>2. Makes(FirstCalls(Matching("log"), Len(published) + 1) \o FirstCalls(rest, n), published')
      BY <1>1, <1>2, <1>8 DEF Settled
    <3> QED BY <2>1, <2>3, <2>4, <2>5, <2>6, <3>1, <3>2
  <2>8. published' = Append(settled, ev)
    BY <1>5, <2>7
  <2>9. /\ published' \in Seq(Publications) /\ Len(published') = N /\ DOMAIN published' = 1..N
        /\ \A k \in DOMAIN published : published'[k] = settled[k]
        /\ published'[N] = ev
    BY <1>5, <1>6, <2>3, <2>8
  <2>10. \A k \in DOMAIN published' : k \in DOMAIN published \/ k = N
    BY <1>6, <2>3, <2>9
  <2>11. BusTypes'
    <3>1. subscribed' \in Seq(Handlers) /\ Len(subscribed') >= 1 /\ subscribed'[1] = SocketsHandler
      BY <1>0, <1>3 DEF BusTypes
    <3>2. \A i \in 2..Len(subscribed') : subscribed'[i] # SocketsHandler
      BY <1>0, <1>3 DEF BusTypes
    <3>3. \A k \in DOMAIN published' : \A i \in 2..Len(published'[k].left) : published'[k].left[i] # SocketsHandler
      <4>1. \A i \in 2..Len(published'[N].left) : published'[N].left[i] # SocketsHandler
        BY <2>2, <2>4, <2>9
      <4>2. \A k \in DOMAIN published : \A i \in 2..Len(published'[k].left) : published'[k].left[i] # SocketsHandler
        BY <1>5, <2>9
      <4> QED BY <2>10, <4>1, <4>2
    <3> QED BY <2>9, <3>1, <3>2, <3>3 DEF BusTypes, Publications
  <2>12. \A k \in DOMAIN published : published'[k].topic = published[k].topic
    BY <1>5, <2>9
  <2>13. PICK m \in Nat : DOMAIN cs = 1..m /\ m >= 1 /\ cs[1] = <<SocketsHandler, N>>
                          /\ \A i \in 2..m : cs[i][1] # SocketsHandler
    <3>1. CASE FirstCalls(rest, n) = << >>
      <4>1. cs = <<<<SocketsHandler, N>>>>
        BY <2>6, <3>1
      <4>2. DOMAIN cs = 1..1 /\ cs[1] = <<SocketsHandler, N>> /\ \A i \in 2..1 : cs[i][1] # SocketsHandler
        BY <4>1
      <4> QED BY <4>2
    <3>2. CASE FirstCalls(rest, n) = <<<<rest[1], n>>>> /\ rest[1] # SocketsHandler
      <4>1. cs = <<<<SocketsHandler, N>>, <<rest[1], n>>>>
        <5>1. ASSUME NEW a, NEW b PROVE <<a>> \o <<b>> = <<a, b>>
          <6>0. <<a>> \in Seq({a, b}) /\ <<b>> \in Seq({a, b})
            OBVIOUS
          <6>1. PICK u \in Seq({a, b}) : u = <<a>>
            BY <6>0
          <6>2. PICK v \in Seq({a, b}) : v = <<b>>
            BY <6>0
          <6>3. Len(u \o v) = 2 /\ (u \o v)[1] = a /\ (u \o v)[2] = b
            BY <6>1, <6>2
          <6>4. u \o v = [i \in 1..2 |-> (u \o v)[i]]
            BY <6>1, <6>2
          <6>5. u \o v = <<a, b>>
            BY <6>3, <6>4
          <6> QED BY <6>1, <6>2, <6>5
        <5> QED BY <2>6, <3>2, <5>1
      <4>2. DOMAIN cs = 1..2 /\ cs[1] = <<SocketsHandler, N>> /\ cs[2][1] # SocketsHandler
        BY <3>2, <4>1
      <4>3. \A i \in 2..2 : cs[i][1] # SocketsHandler
        BY <4>2
      <4> QED BY <4>2, <4>3
    <3> QED BY <1>4, <3>1, <3>2
  <2> QED BY <1>3, <2>3, <2>7, <2>9, <2>11, <2>12, <2>13, NewsIsHeard
<1> QED BY <1>7, <1>8
LEMMA SubscribeKeepsBus ==
  ASSUME BusInv, NEW h \in Subscribers, Subscribe(h) \/ Unsubscribe(h)
  PROVE  BusInv'
<1>0. BusTypes
  BY DEF BusInv
<1>1. published' = published /\ UNCHANGED clientVars
  BY DEF Subscribe, Unsubscribe
<1>2. h # SocketsHandler /\ h \in Handlers
  BY EventBusAssumption DEF Handlers
<1>3. /\ subscribed \in Seq(Handlers) /\ DOMAIN subscribed = 1..Len(subscribed) /\ Len(subscribed) \in Nat
      /\ Len(subscribed) >= 1 /\ subscribed[1] = SocketsHandler
      /\ \A i \in 2..Len(subscribed) : subscribed[i] # SocketsHandler
  BY <1>0 DEF BusTypes
<1>4. CASE Subscribe(h)
  <2>1. subscribed' = Append(subscribed, h)
    BY <1>4 DEF Subscribe, With
  <2>2. /\ subscribed' \in Seq(Handlers) /\ Len(subscribed') = Len(subscribed) + 1
        /\ \A i \in 1..Len(subscribed) : subscribed'[i] = subscribed[i]
        /\ subscribed'[Len(subscribed) + 1] = h
    BY <1>2, <1>3, <2>1
  <2>3. subscribed'[1] = SocketsHandler /\ Len(subscribed') >= 1
    BY <1>3, <2>2
  <2>4. ASSUME NEW i \in 2..Len(subscribed') PROVE subscribed'[i] # SocketsHandler
    <3>1. i \in 2..Len(subscribed) \/ i = Len(subscribed) + 1
      BY <1>3, <2>2
    <3>2. \A j \in 2..Len(subscribed) : j \in 1..Len(subscribed)
      BY <1>3
    <3> QED BY <1>2, <1>3, <2>2, <3>1, <3>2
  <2>5. BusTypes'
    BY <1>0, <1>1, <2>2, <2>3, <2>4 DEF BusTypes
  <2> QED BY <1>1, <2>5, QuietStep
<1>5. CASE Unsubscribe(h)
  <2> DEFINE I == {i \in DOMAIN subscribed : subscribed[i] # h}
             m == Cardinality(I)
  <2>1. subscribed' = Picked(subscribed, I)
    BY <1>5 DEF Unsubscribe
  <2>2. 1 \in I
    BY <1>2, <1>3
  <2>3. I \in SUBSET DOMAIN subscribed /\ I \subseteq Nat
    BY <1>3
  <2> HIDE DEF I
  <2>4. DeliverFirst(subscribed')
    BY <1>3, <2>1, <2>2, <2>3, FirstIsKept DEF DeliverFirst
  <2>5. BusTypes'
    BY <1>0, <1>1, <2>4 DEF BusTypes, DeliverFirst
  <2> QED BY <1>1, <2>5, QuietStep
<1> QED BY <1>4, <1>5

\* Sockets come and go between publications.
LEMMA SocketKeepsBus ==
  ASSUME BusInv, NEW x \in Watchers, Joins(x) \/ SessionEnds(x) \/ Closes(x)
  PROVE  BusInv'
<1> DEFINE L == Len(published)
<1>0. BusTypes /\ ClientTypes
  BY DEF BusInv
<1>1. subscribed' = subscribed /\ published' = published /\ inbox' = inbox
  BY DEF Joins, SessionEnds, Closes, busVars
<1>2. BusTypes'
  BY <1>0, <1>1 DEF BusTypes
<1>3. L \in Nat /\ DOMAIN published = 1..L
  BY <1>0 DEF BusTypes
<1>4. ASSUME NEW w \in Watchers
      PROVE  /\ inbox[w] \in Seq(Nat) /\ watcher[w] \in {"out", "open", "ending", "closed"}
             /\ since[w] \in Nat /\ until[w] \in Nat /\ upto[w] \in Nat
             /\ since[w] <= L /\ until[w] <= L /\ upto[w] <= L /\ Heard(w)
  BY DEF BusInv, ClientTypes
<1>5. ASSUME NEW w \in Watchers, w # x, watcher'[w] = watcher[w], since'[w] = since[w],
             until'[w] = until[w], upto'[w] = upto[w]
      PROVE  Heard(w)'
  <2>1. \A n \in DOMAIN published : Due(w, n)' <=> Due(w, n)
    BY <1>1, <1>5 DEF Due
  <2> QED BY <1>1, <1>4, <1>5, <2>1 DEF Heard
<1>6. CASE Joins(x)
  <2>1. /\ watcher[x] = "out" /\ watcher' = [watcher EXCEPT ![x] = "open"]
        /\ since' = [since EXCEPT ![x] = L] /\ until' = until /\ upto' = upto
    BY <1>6 DEF Joins
  <2>2. ClientTypes'
    BY <1>0, <1>1, <1>3, <2>1 DEF ClientTypes
  <2>3. watcher'[x] = "open" /\ since'[x] = L /\ inbox'[x] = << >>
    BY <1>0, <1>1, <1>4, <2>1 DEF ClientTypes, Heard
  <2>4. \A n \in DOMAIN published : ~Due(x, n)'
    BY <1>1, <1>3, <2>3 DEF Due
  <2>5. Heard(x)'
    BY <1>1, <2>3, <2>4 DEF Heard
  <2>6. ASSUME NEW w \in Watchers, w # x PROVE Heard(w)'
    <3>1. watcher'[w] = watcher[w] /\ since'[w] = since[w] /\ until'[w] = until[w] /\ upto'[w] = upto[w]
      BY <1>0, <2>1, <2>6 DEF ClientTypes
    <3> QED BY <1>5, <2>6, <3>1
  <2> QED BY <1>2, <2>2, <2>5, <2>6 DEF BusInv
<1>7. CASE SessionEnds(x)
  <2>1. /\ watcher[x] = "open" /\ watcher' = [watcher EXCEPT ![x] = "ending"]
        /\ until' = [until EXCEPT ![x] = L] /\ since' = since /\ upto' = upto
    BY <1>7 DEF SessionEnds
  <2>2. ClientTypes'
    BY <1>0, <1>1, <1>3, <2>1 DEF ClientTypes
  <2>3. watcher'[x] = "ending" /\ until'[x] = L
    BY <1>0, <2>1 DEF ClientTypes
  <2>4. \A n \in DOMAIN published : Due(x, n)' <=> Due(x, n)
    BY <1>1, <1>3, <2>1, <2>3 DEF Due
  <2>5. Heard(x)'
    BY <1>1, <1>4, <2>1, <2>3, <2>4 DEF Heard
  <2>6. ASSUME NEW w \in Watchers, w # x PROVE Heard(w)'
    <3>1. watcher'[w] = watcher[w] /\ since'[w] = since[w] /\ until'[w] = until[w] /\ upto'[w] = upto[w]
      BY <1>0, <2>1, <2>6 DEF ClientTypes
    <3> QED BY <1>5, <2>6, <3>1
  <2> QED BY <1>2, <2>2, <2>5, <2>6 DEF BusInv
<1>8. CASE Closes(x)
  <2>1. /\ watcher[x] \in {"open", "ending"} /\ watcher' = [watcher EXCEPT ![x] = "closed"]
        /\ upto' = [upto EXCEPT ![x] = L] /\ since' = since
        /\ until' = IF watcher[x] = "open" THEN [until EXCEPT ![x] = L] ELSE until
    BY <1>8 DEF Closes
  <2>7. /\ until' \in [Watchers -> Nat] /\ until'[x] = (IF watcher[x] = "open" THEN L ELSE until[x])
        /\ \A w \in Watchers : w # x => until'[w] = until[w]
    BY <1>0, <1>3, <2>1 DEF ClientTypes
  <2>8. /\ watcher' \in [Watchers -> {"out", "open", "ending", "closed"}] /\ upto' \in [Watchers -> Nat]
        /\ watcher'[x] = "closed" /\ upto'[x] = L
        /\ \A w \in Watchers : w # x => watcher'[w] = watcher[w] /\ upto'[w] = upto[w]
    BY <1>0, <1>3, <2>1 DEF ClientTypes
  <2>2. ClientTypes'
    <3>1. \A w \in Watchers : since'[w] <= L /\ until'[w] <= L /\ upto'[w] <= L
      BY <1>3, <1>4, <2>1, <2>7, <2>8
    <3> QED BY <1>0, <1>1, <2>1, <2>7, <2>8, <3>1 DEF ClientTypes
  <2>4. \A n \in DOMAIN published : Due(x, n)' <=> Due(x, n)
    BY <1>1, <1>3, <2>1, <2>7, <2>8 DEF Due
  <2>5. Heard(x)'
    BY <1>1, <1>4, <2>1, <2>8, <2>4 DEF Heard
  <2>6. ASSUME NEW w \in Watchers, w # x PROVE Heard(w)'
    <3>1. watcher'[w] = watcher[w] /\ since'[w] = since[w] /\ until'[w] = until[w] /\ upto'[w] = upto[w]
      BY <2>1, <2>6, <2>7, <2>8
    <3> QED BY <1>5, <2>6, <3>1
  <2> QED BY <1>2, <2>2, <2>5, <2>6 DEF BusInv
<1> QED BY <1>6, <1>7, <1>8

LEMMA BusInvInit == EventInit => BusInv
<1> SUFFICES ASSUME EventInit PROVE BusInv
  OBVIOUS
<1>1. subscribed = <<SocketsHandler>> /\ published = << >>
  BY DEF EventInit
<1>2. BusTypes
  <2>1. subscribed \in Seq(Handlers) /\ Len(subscribed) = 1 /\ subscribed[1] = SocketsHandler
    BY <1>1 DEF Handlers
  <2>2. \A i \in 2..Len(subscribed) : subscribed[i] # SocketsHandler
    BY <2>1
  <2>3. published \in Seq([topic : Topics, raw : BOOLEAN, left : Seq(Handlers)]) /\ DOMAIN published = {}
    BY <1>1
  <2> QED BY <2>1, <2>2, <2>3 DEF BusTypes
<1>3. ClientTypes
  <2>1. Len(published) = 0
    BY <1>1
  <2>2. << >> \in Seq(Nat)
    OBVIOUS
  <2> QED BY <2>1, <2>2 DEF EventInit, ClientTypes
<1>4. \A w \in Watchers : Heard(w)
  <2> TAKE w \in Watchers
  <2>1. inbox[w] = << >> /\ watcher[w] = "out"
    BY DEF EventInit
  <2> QED BY <2>1 DEF Heard
<1> QED BY <1>2, <1>3, <1>4 DEF BusInv

LEMMA BusInvStep == BusInv /\ [EventNext]_eventVars => BusInv'
<1> SUFFICES ASSUME BusInv, [EventNext]_eventVars PROVE BusInv'
  OBVIOUS
<1>1. ASSUME NEW topic \in Topics, Publish(topic) PROVE BusInv'
  BY <1>1, PublishKeepsBus
<1>2. ASSUME NEW topic \in Topics, Broadcast(topic) PROVE BusInv'
  BY <1>2, BroadcastKeepsBus
<1>3. ASSUME NEW n \in DOMAIN published, Settled(n) PROVE BusInv'
  BY <1>3, SettledKeepsBus
<1>4. ASSUME NEW h \in Subscribers, Subscribe(h) \/ Unsubscribe(h) PROVE BusInv'
  BY <1>4, SubscribeKeepsBus
<1>5. ASSUME NEW w \in Watchers, Joins(w) \/ SessionEnds(w) \/ Closes(w) PROVE BusInv'
  BY <1>5, SocketKeepsBus
<1>6. CASE UNCHANGED eventVars
  <2>1. UNCHANGED clientVars /\ published' = published /\ subscribed' = subscribed
    BY <1>6 DEF eventVars, busVars
  <2>2. BusTypes'
    BY <2>1 DEF BusInv, BusTypes
  <2> QED BY <2>1, <2>2, QuietStep
<1> QED BY <1>1, <1>2, <1>3, <1>4, <1>5, <1>6 DEF EventNext

\* A socket has in its inbox the publications due to it, in order, each once.
LEMMA HeardIsInOrder == BusInv => SocketsHearInOrder
<1> SUFFICES ASSUME BusInv, NEW w \in Watchers, watcher[w] # "out"
             PROVE  inbox[w] = Picked([n \in DOMAIN published |-> n], {n \in DOMAIN published : Due(w, n)})
  BY DEF SocketsHearInOrder
<1> DEFINE I == {n \in DOMAIN published : Due(w, n)}
<1>1. PICK N \in Nat : N = Len(published) /\ DOMAIN published = 1..N
  BY DEF BusInv, BusTypes
<1>2. I \in SUBSET (1..N)
  BY <1>1
<1>3. Heard(w) /\ inbox[w] \in Seq(Nat)
  BY DEF BusInv, ClientTypes
<1>4. \A i \in 1..N : i \in I <=> \E k \in DOMAIN inbox[w] : inbox[w][k] = i
  BY <1>1, <1>3 DEF Heard
<1>5. \A k \in DOMAIN inbox[w] : inbox[w][k] \in 1..N
  BY <1>1, <1>3 DEF Heard
<1> HIDE DEF I
<1>6. PICK u : u = inbox[w]
  OBVIOUS
<1>7. \A k \in DOMAIN u : u[k] \in I
  BY <1>4, <1>5, <1>6
<1>8. u \in Seq(I)
  <2>1. u \in Seq(Nat)
    BY <1>3, <1>6
  <2> QED BY <1>7, <2>1
<1>9. \A j, k \in DOMAIN u : j < k => u[j] < u[k]
  BY <1>3, <1>6 DEF Heard
<1>10. \A i \in I : \E k \in DOMAIN u : u[k] = i
  BY <1>2, <1>4, <1>6
<1>11. u = Picked([i \in 1..N |-> i], I)
  BY <1>2, <1>8, <1>9, <1>10, InOrderIsPicked
<1> QED BY <1>1, <1>6, <1>11 DEF I

\* Whatever publications interleave and whatever handlers fail between them, a
\* socket gets just the events its audience entitles it to, in their order.
THEOREM EventsAreHeardInOrder == EventSpec => []SocketsHearInOrder
<1>1. EventInit => BusInv
  BY BusInvInit
<1>2. BusInv /\ [EventNext]_eventVars => BusInv'
  BY BusInvStep
<1>3. BusInv => SocketsHearInOrder
  BY HeardIsInOrder
<1> QED BY <1>1, <1>2, <1>3, PTL DEF EventSpec
=============================================================================
