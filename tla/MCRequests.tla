----------------------------- MODULE MCRequests -----------------------------
(* The server's assembly, events, commands and shells for TLC.  The modules
   share no state: a behaviour is one of a single part, and the others stand
   still in one of their initial states. *)
EXTENDS ServerAssembly, EventBus, Commands, CommandGate, ShellLives, ShellTrees

VARIABLE part

MCPluginAuth == [p \in Plugins |-> IF p = "users" THEN "host" ELSE NoAuth]
MCToolsOf ==
  [o \in Plugins \cup {"server", "filesystem", "explorer", "jobs", "commands"} |->
    CASE o = "server" -> {"info"} [] o = "filesystem" -> {"fs"} [] o = "explorer" -> {"query"}
      [] o = "jobs" -> {"trigger"} [] o = "users" -> {"info", "trigger", "own"}
      [] OTHER -> {"trigger", "own"}]

MCListens(h, topic) == TRUE
MCFails(h) == h = "faulty"
MCTicketGrants(w) == {"logs:read"}

MCListed == {<<>>, <<"a">>, <<"a", "b">>, <<"b">>}
MCChains == MCListed \cup {<<"x">>, <<"a", "x">>, <<"x", "b">>, <<"a", "b", "x">>}
MCPermOf == [n \in MCListed |-> IF n = <<>> THEN "root:use" ELSE IF n = <<"a">> THEN "root:a"
                                ELSE IF n = <<"b">> THEN "root:b" ELSE "root:ab"]

\* The initial states of the parts that have several.
Resting ==
  /\ part # "lives" => key = [h \in Terminals |-> CHOOSE k \in Keys : TRUE]
  /\ part # "commands" =>
       /\ protected = FALSE /\ path = [r \in Requests |-> "execute"] /\ target = [r \in Requests |-> "root"]
  /\ part # "gate" => unlisted = {} /\ takesInput = {} /\ granted = {} /\ guarded = FALSE

MCInit ==
  /\ part \in {"assembly", "events", "commands", "gate", "lives", "trees"}
  /\ Resting
  /\ AssemblyInit /\ EventInit /\ CommandsInit /\ GateInit /\ LivesInit /\ TreeInit
  \* Bound: one of two requests executes a command of the module that is switched on and off.
  /\ part = "commands" => path["r2"] = "execute" /\ target["r2"] = "root"

MCNext ==
  \/ /\ part = "assembly" /\ AssemblyNext
     /\ UNCHANGED <<part, eventVars, commandVars, gateVars, lifeVars, treeVars>>
  \/ /\ part = "events" /\ EventNext
     /\ UNCHANGED <<part, assemblyVars, commandVars, gateVars, lifeVars, treeVars>>
  \/ /\ part = "commands" /\ CommandsNext
     /\ UNCHANGED <<part, assemblyVars, eventVars, gateVars, lifeVars, treeVars>>
  \/ /\ part = "gate" /\ GateNext
     /\ UNCHANGED <<part, assemblyVars, eventVars, commandVars, lifeVars, treeVars>>
  \/ /\ part = "lives" /\ LivesNext
     /\ UNCHANGED <<part, assemblyVars, eventVars, commandVars, gateVars, treeVars>>
  \/ /\ part = "trees" /\ TreeNext
     /\ UNCHANGED <<part, assemblyVars, eventVars, commandVars, gateVars, lifeVars>>

requestVars == <<part, assemblyVars, eventVars, commandVars, gateVars, lifeVars, treeVars>>

MCSpec == MCInit /\ [][MCNext]_requestVars /\ AssemblyFairness
=============================================================================
