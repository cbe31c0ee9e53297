---------------------------- MODULE CommandGate -----------------------------
(***************************************************************************)
(* Who may run which processor.  A command names a root and a chain of     *)
(* sub-commands.  The gate in front of /execute collects the permissions   *)
(* along the chain (processorPermissions), the registry resolves the same  *)
(* chain (resolveChain), and the MCP endpoint lists each processor as a    *)
(* tool with the permissions of its own walk of the tree (getTools).       *)
(* The chain is what the body of the request says: the gate reads one that *)
(* is an array, the registry whatever it can go through.                   *)
(***************************************************************************)
EXTENDS Naturals, Sequences, FiniteSets

CONSTANTS Listed,     \* the processors, each as the chain that leads to it; <<>> is the root
          Chains,     \* what requests ask for, listed or not
          PermOf      \* what a processor requires, over those above it

ASSUME CommandGateAssumption ==
  /\ <<>> \in Listed /\ Listed \subseteq Chains /\ Chains \subseteq Seq(STRING)
  /\ \A n \in Listed : n # <<>> => SubSeq(n, 1, Len(n) - 1) \in Listed
  /\ PermOf \in [Listed -> STRING]

VARIABLES unlisted,   \* processors that take sub-commands they do not list
          takesInput, \* processors with sub-commands that declare parameters or take a value
          granted,    \* what the caller holds
          guarded,    \* an auth provider protects the server
          ran,        \* what the last request ran: one processor or none
          asArray     \* history: whether its chain came as an array

gateVars == <<unlisted, takesInput, granted, guarded, ran, asArray>>

Above(n) == {SubSeq(n, 1, i) : i \in 0 .. Len(n)}
PermsAlong(n) == {PermOf[m] : m \in Above(n)}
Grants == SUBSET ({"commands:execute"} \cup {PermOf[n] : n \in Listed})

GateInit ==
  /\ unlisted \in SUBSET Listed /\ takesInput \in SUBSET {n \in Listed : \E m \in Listed : Len(m) > Len(n) /\ n \in Above(m)}
  /\ granted \in Grants /\ guarded \in BOOLEAN
  /\ ran = {} /\ asArray = TRUE

-----------------------------------------------------------------------------
\* As far as the chain names listed processors.
Deepest(chain) == CHOOSE n \in Above(chain) \cap Listed : \A m \in Above(chain) \cap Listed : Len(m) <= Len(n)

\* resolveChain: a processor, or none.
Resolved(chain) == {n \in {Deepest(chain)} : n = chain \/ n \in unlisted}

(* Mutant: the sub-commands' permissions are not collected. *)
ProcessorPermissionsOfRoot(chain, isArray) == PermsAlong(<<>>)

\* It breaks at the first sub-command that is not listed, and goes through no
\* chain but an array.
ProcessorPermissions(chain, isArray) == PermsAlong(IF isArray THEN Deepest(chain) ELSE <<>>)

RequiredPermissions(chain, isArray) == {"commands:execute"} \cup ProcessorPermissions(chain, isArray)

MayExecute(chain, isArray) == guarded => RequiredPermissions(chain, isArray) \subseteq granted

\* POST /execute, /execute/stream.
Execute(chain, isArray) ==
  /\ ran' = IF MayExecute(chain, isArray) THEN Resolved(chain) ELSE {}
  /\ asArray' = isArray
  /\ UNCHANGED <<unlisted, takesInput, granted, guarded>>

IsTool(n) == n \in takesInput \/ ~\E m \in Listed : Len(m) = Len(n) + 1 /\ n \in Above(m)

\* The permissions walk collects on its way down.
ToolPermissions(n) == PermsAlong(n)

\* The gate asks for commands:execute, visibleTools for the rest.
MayCall(n) == IsTool(n) /\ (guarded => {"commands:execute"} \cup ToolPermissions(n) \subseteq granted)

\* tools/call; a tool the caller does not see is unknown to it.
CallTool(n) ==
  /\ ran' = IF MayCall(n) THEN Resolved(n) ELSE {}
  /\ asArray' = TRUE
  /\ UNCHANGED <<unlisted, takesInput, granted, guarded>>

GateNext ==
  \/ \E c \in Chains, isArray \in BOOLEAN : Execute(c, isArray)
  \/ \E n \in Listed : CallTool(n)

GateSpec == GateInit /\ [][GateNext]_gateVars

-----------------------------------------------------------------------------
(* Properties *)

(* On a protected server a processor runs only for a caller that holds
   commands:execute and what it and every processor above it require, whether
   it was named, or reached as the one that takes an unlisted sub-command; when
   the chain does not come as an array, no more is sure than commands:execute and
   what the root requires.  And a processor that is a tool can be called exactly
   by those who may execute it. *)
ChainPermitted ==
  /\ \A n \in ran :
       guarded => {"commands:execute"} \cup PermsAlong(IF asArray THEN n ELSE <<>>) \subseteq granted
  /\ \A n \in Listed : IsTool(n) => (MayCall(n) <=> MayExecute(n, TRUE))
=============================================================================
