----------------------------- MODULE ShellTrees -----------------------------
(***************************************************************************)
(* The processes a shell starts, and how terminateProcessTree ends them.   *)
(* The server collects by the process table and by the QCLI_SHELL_ID mark  *)
(* that processes inherit, sends HUP and TERM, waits for the grace,        *)
(* collects again and sends KILL.  The processes run meanwhile: between    *)
(* any two of those steps they fork, leave the group or the session, drop  *)
(* the mark, exit.                                                         *)
(***************************************************************************)
EXTENDS Naturals, FiniteSets

CONSTANTS Pids, Root,  \* Root: the shell
          Init1,       \* the process that adopts orphans
          Stubborn     \* the processes that ignore HUP and TERM

ASSUME ShellTreesAssumption ==
  Root \in Pids /\ Init1 \notin Pids /\ Stubborn \subseteq Pids

VARIABLES born, alive,
          parent,   \* per process
          place,    \* "group" of the shell; only its "session"; or "away"
          marked,   \* with QCLI_SHELL_ID in the environment it was started with
          killing,  \* "no", "collected", "termed", "recollected", "killed"
          targets,  \* what the last collection found
          known,    \* what the first one found
          seen,     \* the processes alive at the last one
          server    \* the server runs

osVars == <<born, alive, parent, place, marked>>
serverVars == <<killing, targets, known, seen, server>>
treeVars == <<osVars, serverVars>>

TreeInit ==
  /\ born = {Root} /\ alive = {Root} /\ parent = [p \in Pids |-> Init1]
  /\ place = [p \in Pids |-> IF p = Root THEN "group" ELSE "away"] /\ marked = {Root}
  /\ killing = "no" /\ targets = {} /\ known = {} /\ seen = {} /\ server = TRUE

-----------------------------------------------------------------------------
(* The processes *)

\* Their children are adopted.
Die(dead) ==
  /\ alive' = alive \ dead
  /\ parent' = [p \in Pids |-> IF parent[p] \in dead THEN Init1 ELSE parent[p]]
  /\ UNCHANGED <<born, place, marked>>

Fork(p, q) ==
  /\ p \in alive /\ q \notin born
  /\ born' = born \cup {q} /\ alive' = alive \cup {q}
  /\ parent' = [parent EXCEPT ![q] = p]
  /\ place' = [place EXCEPT ![q] = place[p]]
  /\ marked' = IF p \in marked THEN marked \cup {q} ELSE marked
  /\ UNCHANGED serverVars

\* A job of an interactive shell gets a group of its own; setsid leaves the session.
Moves(p, to) ==
  /\ p \in alive \ {Root}
  /\ \/ place[p] = "group" /\ to \in {"session", "away"}
     \/ place[p] = "session" /\ to = "away"
  /\ place' = [place EXCEPT ![p] = to]
  /\ UNCHANGED <<born, alive, parent, marked, serverVars>>

\* It goes on without the mark in its environment.
DropMark(p) ==
  /\ p \in (alive \cap marked) \ {Root}
  /\ marked' = marked \ {p}
  /\ UNCHANGED <<born, alive, parent, place, serverVars>>

Exits(p) == p \in alive /\ Die({p}) /\ UNCHANGED serverVars

-----------------------------------------------------------------------------
(* The server *)

InGroup == {p \in alive : place[p] = "group"}

\* descendants, by the parents of the process table; never the shell itself.
ClosedOver(seeds) ==
  {s \in SUBSET Pids : seeds \cup {Root} \subseteq s /\ \A p \in alive : parent[p] \in s => p \in s}

Descendants(seeds) == {p \in Pids \ {Root} : \A s \in ClosedOver(seeds) : p \in s}

(* Mutant: the marks are not looked for. *)
SeedsUnmarked(extra) == {p \in alive : place[p] # "away"} \cup (extra \cap alive)

\* treeSeeds (group and session), the marked, and the earlier targets still alive.
Seeds(extra) == ({p \in alive : place[p] # "away" \/ p \in marked}) \cup (extra \cap alive)

Collect(extra) == Descendants(Seeds(extra))

\* A shell ends (end, killTree); its own process may have exited.
Collects ==
  /\ server /\ killing = "no"
  /\ killing' = "collected" /\ targets' = Collect({}) /\ known' = Collect({}) /\ seen' = alive
  /\ UNCHANGED <<osVars, server>>

\* send: the group, the shell and the targets.
Terms ==
  /\ server /\ killing = "collected"
  /\ Die((InGroup \cup {Root} \cup targets) \ Stubborn)
  /\ killing' = "termed"
  /\ UNCHANGED <<targets, known, seen, server>>

Recollected == Collect(known)

\* After the grace.
Recollects ==
  /\ server /\ killing = "termed"
  /\ targets' = Recollected /\ killing' = "recollected" /\ seen' = alive
  /\ UNCHANGED <<osVars, known, server>>

Kills ==
  /\ server /\ killing = "recollected"
  /\ Die(InGroup \cup {Root} \cup targets)
  /\ killing' = "killed"
  /\ UNCHANGED <<targets, known, seen, server>>

\* process.exit(0), right after broadcastDisconnect ended the shells: no grace timer fires.
ServerExits ==
  /\ server /\ killing \in {"termed", "killed"}
  /\ server' = FALSE
  /\ UNCHANGED <<osVars, killing, targets, known, seen>>

TreeNext ==
  \/ \E p, q \in Pids : Fork(p, q)
  \/ \E p \in Pids : (\E to \in {"session", "away"} : Moves(p, to)) \/ DropMark(p) \/ Exits(p)
  \/ Collects \/ Terms \/ Recollects \/ Kills \/ ServerExits

TreeFairness == WF_treeVars(Terms) /\ WF_treeVars(Recollects) /\ WF_treeVars(Kills)

TreeSpec == TreeInit /\ [][TreeNext]_treeVars /\ TreeFairness

-----------------------------------------------------------------------------
(* Properties *)

(* Once the KILL was sent, a process that was alive at the last collection and
   still lives has escaped by every way there is: it left the session, dropped
   the mark, and was not among the first targets either (process-tree.ts: the
   mark finds what was re-parented, the first targets what lost its mark). *)
SurvivorsEscaped ==
  killing = "killed" => \A p \in alive \cap seen : place[p] = "away" /\ p \notin marked \cup known

(* "When a shell ends, its whole process tree is killed (SIGHUP, SIGTERM, then
   SIGKILL after 1 s)" (README.md:417): what the server found dies. *)
FoundDie == killing = "collected" ~> known \cap alive = {}
=============================================================================
