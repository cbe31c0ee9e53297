------------------------------ MODULE Commands ------------------------------
(***************************************************************************)
(* A command on its way through the server: the body parser, the gate that *)
(* authenticates it (which waits), the executor or the stream route, the   *)
(* processor, and what is kept of it afterwards: the usage counters, the   *)
(* command:executed event and the answer.  Meanwhile clients leave, and    *)
(* the dashboard switches the module of some commands off and on.          *)
(***************************************************************************)
EXTENDS Naturals, FiniteSets

CONSTANT Requests

ASSUME CommandsAssumption == IsFiniteSet(Requests)

Paths == {"execute", "stream", "mcp"}

(* What a request names: a root command of the module, a sub-command of it, a
   sub-command that does not exist, a command of no module, or none that is
   registered. *)
Targets == {"root", "sub", "unlisted", "free", "unknown"}
Resolves == {"root", "sub", "free"}
KnownRoot == {"root", "sub", "unlisted", "free"}

VARIABLES protected,     \* an auth provider protects the server
          path, target,  \* per request
          at,            \* "new", "gate", "running", "publishing", "done"
          result,        \* of its processor: "none", "ok", "exit" (a non-zero code), "thrown"
          caller,        \* "waits", "gone"
          bodyClose,     \* the request's own close event: "no", "due", "emitted"
          listens,       \* requests whose handler listens for it
          aborted,       \* requests whose AbortSignal fired
          enabled,       \* the module
          executions, failures,  \* CliCommandUsageStats, of all commands
          event,         \* per request: "none", "success", "failure"
          answer         \* per request: "none", "ok", "failed", "cut", "refused"

asked == <<protected, path, target>>
kept == <<executions, failures, event, answer>>
signals == <<caller, bodyClose, listens, aborted>>
commandVars == <<asked, at, result, signals, enabled, kept>>

CommandsInit ==
  /\ protected \in BOOLEAN
  /\ path \in [Requests -> Paths] /\ target \in [Requests -> Targets]
  /\ \A r \in Requests : path[r] = "mcp" => target[r] \in Resolves  \* an unknown tool is refused unexecuted
  /\ at = [r \in Requests |-> "new"] /\ result = [r \in Requests |-> "none"]
  /\ caller = [r \in Requests |-> "waits"] /\ bodyClose = [r \in Requests |-> "no"]
  /\ listens = {} /\ aborted = {} /\ enabled = TRUE
  /\ executions = 0 /\ failures = 0
  /\ event = [r \in Requests |-> "none"] /\ answer = event

-----------------------------------------------------------------------------
(* Starting *)

\* ModuleRegistry tracks the processors a module lists: its root commands.
Tracked == {"root"}

IsBlocked(r) == ~enabled /\ target[r] \in Tracked

Runs(r) == target[r] \in Resolves /\ ~IsBlocked(r)

(* The route's handler: it listens for the end of the request (the MCP endpoint
   for the response's), resolves the command and calls its processor, or is done
   at once. *)
Starts(r) ==
  /\ listens' = IF path[r] = "mcp" THEN listens ELSE listens \cup {r}
  /\ at' = [at EXCEPT ![r] = "running"]
  /\ result' = [result EXCEPT ![r] = IF Runs(r) THEN "none" ELSE "exit"]

(* The body is read; with a provider the gate authenticates next.  The server
   reads the body of an MCP call behind the gate. *)
Arrives(r) ==
  /\ at[r] = "new"
  /\ bodyClose' = [bodyClose EXCEPT ![r] = IF path[r] = "mcp" THEN "no" ELSE "due"]
  /\ IF protected THEN at' = [at EXCEPT ![r] = "gate"] /\ UNCHANGED <<listens, result>> ELSE Starts(r)
  /\ UNCHANGED <<asked, caller, aborted, enabled, kept>>

GateAnswers(r) ==
  /\ at[r] = "gate"
  /\ \/ Starts(r) /\ UNCHANGED answer
     \/ /\ at' = [at EXCEPT ![r] = "done"] /\ answer' = [answer EXCEPT ![r] = "refused"]
        /\ UNCHANGED <<listens, result>>
  /\ UNCHANGED <<asked, caller, bodyClose, aborted, enabled, executions, failures, event>>

-----------------------------------------------------------------------------
(* Signals *)

(* Since version 16 of Node a request emits `close` when its body has been read,
   not when the connection goes: to those who listen by then. *)
RequestCloses(r) ==
  /\ bodyClose[r] = "due"
  /\ bodyClose' = [bodyClose EXCEPT ![r] = "emitted"]
  /\ aborted' = IF r \in listens THEN aborted \cup {r} ELSE aborted
  /\ UNCHANGED <<asked, at, result, caller, listens, enabled, kept>>

\* The connection goes; the MCP endpoint aborts an unanswered call.
ClientLeaves(r) ==
  /\ caller[r] = "waits" /\ at[r] \notin {"new", "done"}
  /\ caller' = [caller EXCEPT ![r] = "gone"]
  /\ aborted' = IF path[r] = "mcp" /\ at[r] \in {"running", "publishing"} THEN aborted \cup {r} ELSE aborted
  /\ UNCHANGED <<asked, at, result, bodyClose, listens, enabled, kept>>

\* ModuleRegistry.toggle.
Toggle ==
  /\ enabled' = ~enabled
  /\ UNCHANGED <<asked, at, result, signals, kept>>

-----------------------------------------------------------------------------
(* Ending *)

Processed(r, how) ==
  /\ at[r] = "running" /\ result[r] = "none"
  /\ result' = [result EXCEPT ![r] = how]
  /\ UNCHANGED <<asked, at, signals, enabled, kept>>

(* Mutant: the stream route starts from success and only an exception fails it. *)
FailedThrown(r) == IF path[r] = "stream" THEN result[r] = "thrown" ELSE result[r] # "ok"

\* The exit code is not zero, or there is none.
Failed(r) == result[r] # "ok"

(* The finally blocks: the executor, or the stream route, counts; the route
   publishes command:executed when the root command is known.  The stream has
   been answered by then: `done`, `error`, or nothing when it was aborted. *)
Records(r) ==
  /\ at[r] = "running" /\ result[r] # "none"
  /\ executions' = executions + 1
  /\ failures' = IF Failed(r) THEN failures + 1 ELSE failures
  /\ event' = IF target[r] \in KnownRoot
              THEN [event EXCEPT ![r] = IF Failed(r) THEN "failure" ELSE "success"] ELSE event
  /\ answer' = IF path[r] # "stream" THEN answer
               ELSE [answer EXCEPT ![r] = CASE result[r] = "ok" -> "ok"
                                            [] result[r] = "thrown" /\ r \in aborted -> "cut"
                                            [] OTHER -> "failed"]
  /\ at' = [at EXCEPT ![r] = "publishing"]
  /\ UNCHANGED <<asked, result, signals, enabled>>

\* The bus has called every handler: the response is sent, or ended.
Responds(r) ==
  /\ at[r] = "publishing"
  /\ at' = [at EXCEPT ![r] = "done"]
  /\ answer' = IF path[r] = "stream" THEN answer
               ELSE [answer EXCEPT ![r] = IF result[r] = "ok" THEN "ok" ELSE "failed"]
  /\ UNCHANGED <<asked, result, signals, enabled, executions, failures, event>>

CommandsNext ==
  \/ \E r \in Requests :
       \/ Arrives(r) \/ GateAnswers(r) \/ RequestCloses(r) \/ ClientLeaves(r)
       \/ (\E how \in {"ok", "exit", "thrown"} : Processed(r, how))
       \/ Records(r) \/ Responds(r)
  \/ Toggle

CommandsSpec == CommandsInit /\ [][CommandsNext]_commandVars

-----------------------------------------------------------------------------
(* Properties *)

Counted == {r \in Requests : at[r] \in {"publishing", "done"} /\ answer[r] # "refused"}

(* Whatever the route (execute, stream, MCP) and the way a command ends (unknown,
   disabled, a non-zero code, an exception, a caller that left), the answer, the
   counters and the command:executed event tell the same: it was counted once,
   it failed in all three or in none. *)
RecordsAgree ==
  /\ executions = Cardinality(Counted)
  /\ failures = Cardinality({r \in Counted : result[r] # "ok"})
  /\ \A r \in Requests : at[r] = "done" /\ answer[r] # "refused" =>
       /\ answer[r] = "ok" <=> result[r] = "ok"
       /\ event[r] = (IF target[r] = "unknown" THEN "none" ELSE IF answer[r] = "ok" THEN "success" ELSE "failure")
=============================================================================
