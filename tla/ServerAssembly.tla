--------------------------- MODULE ServerAssembly ---------------------------
(***************************************************************************)
(* How a server is put together, and changed while it runs: createCliServer *)
(* with the builder's features, setAuth, mountPlugin, and what depends on   *)
(* them: the auth provider in front of the routes and of each kind of       *)
(* socket, whose session events close sockets, the runtime options, and     *)
(* which provider answers for an MCP tool.  An upgrade is one step here;     *)
(* SessionSockets has its awaits.                                           *)
(***************************************************************************)
EXTENDS Naturals, Sequences, FiniteSets, SequencesExt

CONSTANTS AuthProviders, NoAuth,
          Delegating,     \* those whose host signs users in: no sessions of their own
          Plugins, PluginAuth, Schedulers, \* what a plugin brings
          ToolsOf,        \* feature, plugin or "commands" -> the tools it offers
          Clients         \* sockets

Kinds == {"events", "logs", "shell"}

\* What a builder is given: the tools of file storage come before the explorer's.
BuilderFeatures == {<< >>, <<"filesystem">>, <<"explorer">>, <<"filesystem", "explorer">>}

ASSUME ServerAssemblyAssumption ==
    /\ NoAuth \notin AuthProviders /\ Delegating \subseteq AuthProviders
    /\ PluginAuth \in [Plugins -> AuthProviders \cup {NoAuth}] /\ Schedulers \subseteq Plugins
    /\ DOMAIN ToolsOf = Plugins \cup {"server", "filesystem", "explorer", "jobs", "commands"}

VARIABLES created,      \* createCliServer has returned
          serverAuth,   \* what the gate, the MCP endpoint and mountPlugin see
          managerAuth,  \* kind of socket -> the provider its upgrades ask
          heard,        \* kind of socket -> the providers whose session events reach it
          serverOptions,
          mcpFeatures,  \* the built-in tool providers, in order
          mcpPlugins,   \* those of plugins, in the order they were added
          installed,    \* plugins mounted
          clients       \* socket -> Closed, or how it was opened

assemblyVars == <<created, serverAuth, managerAuth, heard, serverOptions, mcpFeatures,
                  mcpPlugins, installed, clients>>

Closed == [open |-> FALSE]

AssemblyInit ==
    /\ created = FALSE /\ serverAuth = NoAuth
    /\ managerAuth = [k \in Kinds |-> NoAuth] /\ heard = [k \in Kinds |-> {}]
    /\ serverOptions = [externalAuthentication |-> FALSE, jobsEnabled |-> FALSE]
    /\ mcpFeatures = << >> /\ mcpPlugins = << >> /\ installed = {}
    /\ clients = [c \in Clients |-> Closed]

-----------------------------------------------------------------------------
(* Mutant: a manager stays with the provider it had. *)
HearsFormer(kind, a) == IF heard[kind] = {} THEN {a} \ {NoAuth} ELSE heard[kind]

\* A manager drops its subscription and takes the new provider's.
Hears(kind, a) == {a} \ {NoAuth}

\* Reset, then set by the new provider as it attaches.
External(a) == a \in Delegating

\* setAuth.
Installs(a) ==
    /\ serverAuth' = a
    /\ managerAuth' = [k \in Kinds |-> a] /\ heard' = [k \in Kinds |-> Hears(k, a)]
    /\ serverOptions' = [serverOptions EXCEPT !.externalAuthentication = External(a)]
    /\ clients' = [c \in Clients |->
          IF clients[c].open /\ a # serverAuth THEN [clients[c] EXCEPT !.steady = FALSE] ELSE clients[c]]

\* createCliServer: the features the builder was given, then the provider of
\* the options.
Create ==
    /\ ~created /\ created' = TRUE
    /\ \E features \in BuilderFeatures :
          mcpFeatures' = <<"server">> \o features
    /\ \E a \in AuthProviders \cup {NoAuth} :
          IF a = NoAuth THEN UNCHANGED <<serverAuth, managerAuth, heard, serverOptions, clients>>
          ELSE Installs(a)
    /\ UNCHANGED <<mcpPlugins, installed>>

SetAuth(a) ==
    /\ created /\ Installs(a)
    /\ UNCHANGED <<created, mcpFeatures, mcpPlugins, installed>>

(* Mutant: each scheduler adds its tools in front. *)
WithJobsFirst(p) ==
    IF p \in Schedulers THEN <<"jobs">> \o mcpFeatures ELSE mcpFeatures

\* The tools of the first scheduler; a later one has none.
WithJobs(p) ==
    IF p \in Schedulers /\ ~Contains(mcpFeatures, "jobs") THEN Append(mcpFeatures, "jobs")
    ELSE mcpFeatures

\* mountPlugin: its auth provider, if it is another one, its tools, its scheduler.
Mount(p) ==
    /\ created /\ p \notin installed /\ installed' = installed \cup {p}
    /\ LET jobs == serverOptions.jobsEnabled \/ p \in Schedulers IN
       IF PluginAuth[p] \in {NoAuth, serverAuth}
       THEN /\ serverOptions' = [serverOptions EXCEPT !.jobsEnabled = jobs]
            /\ UNCHANGED <<serverAuth, managerAuth, heard, clients>>
       ELSE /\ serverAuth' = PluginAuth[p]
            /\ managerAuth' = [k \in Kinds |-> PluginAuth[p]]
            /\ heard' = [k \in Kinds |-> Hears(k, PluginAuth[p])]
            /\ serverOptions' = [externalAuthentication |-> External(PluginAuth[p]), jobsEnabled |-> jobs]
            /\ clients' = [c \in Clients |->
                  IF clients[c].open THEN [clients[c] EXCEPT !.steady = FALSE] ELSE clients[c]]
    /\ mcpFeatures' = WithJobs(p) /\ mcpPlugins' = Append(mcpPlugins, p)
    /\ UNCHANGED created

-----------------------------------------------------------------------------
\* authorizeWsUpgrade, and bind: with a provider there is an identity, and a
\* session behind it unless the host signs users in.
Connect(c, kind) ==
    /\ created /\ ~clients[c].open
    /\ clients' = [clients EXCEPT ![c] =
          [open |-> TRUE, kind |-> kind, by |-> managerAuth[kind], ended |-> FALSE, steady |-> TRUE]]
    /\ UNCHANGED <<created, serverAuth, managerAuth, heard, serverOptions, mcpFeatures, mcpPlugins, installed>>

Bound(c) == clients[c].open /\ clients[c].by # NoAuth

\* The identity of a socket ends; the provider tells who listens, if it knows.
\* (A socket that waits for its session-kicked, one second at most, counts as
\* closed.)
IdentityEnds(c) ==
    /\ Bound(c) /\ ~clients[c].ended
    /\ clients' = [clients EXCEPT ![c] =
          IF clients[c].by \in heard[clients[c].kind] \ Delegating THEN Closed
          ELSE [clients[c] EXCEPT !.ended = TRUE]]
    /\ UNCHANGED <<created, serverAuth, managerAuth, heard, serverOptions, mcpFeatures, mcpPlugins, installed>>

\* revalidate by the provider of now, which does not know another's sessions.
Alive(c) == managerAuth[clients[c].kind] = clients[c].by /\ ~clients[c].ended

\* The timers, the expiry sweep, or any change of users: bound sockets are
\* re-checked, if there is somebody to ask.
RecheckClients(kind) ==
    /\ managerAuth[kind] # NoAuth
    /\ \E c \in Clients : Bound(c) /\ clients[c].kind = kind /\ ~Alive(c)
    /\ clients' = [c \in Clients |->
          IF Bound(c) /\ clients[c].kind = kind /\ ~Alive(c) THEN Closed ELSE clients[c]]
    /\ UNCHANGED <<created, serverAuth, managerAuth, heard, serverOptions, mcpFeatures, mcpPlugins, installed>>

AssemblyNext ==
    \/ Create
    \/ \E a \in AuthProviders \cup {NoAuth} : SetAuth(a)
    \/ \E p \in Plugins : Mount(p)
    \/ \E c \in Clients : IdentityEnds(c) \/ \E kind \in Kinds : Connect(c, kind)
    \/ \E kind \in Kinds : RecheckClients(kind)

AssemblyFairness == \A kind \in Kinds : WF_assemblyVars(RecheckClients(kind))

AssemblySpec == AssemblyInit /\ [][AssemblyNext]_assemblyVars /\ AssemblyFairness

-----------------------------------------------------------------------------
\* The tool providers a request consults, in order.
ToolProviders == mcpFeatures \o mcpPlugins \o <<"commands">>

\* collectMcpTools: the first that offers a tool answers for it.
Owner(tool) ==
    LET offering == {i \in DOMAIN ToolProviders : tool \in ToolsOf[ToolProviders[i]]}
    IN  IF offering = {} THEN NoAuth ELSE ToolProviders[Min(offering)]

AllTools == UNION {ToolsOf[o] : o \in DOMAIN ToolsOf}

\* Whatever order providers are installed in and plugins are mounted in: "On a
\* name collision built-in feature tools win, then providers in registration
\* order, then command tools", so no plugin takes a tool from one that was
\* there before it, but a feature that is mounted late does; and the options
\* other plugins read tell what the server has.
AssemblyTells ==
    created =>
       /\ serverOptions.externalAuthentication = (serverAuth \in Delegating)
       /\ serverOptions.jobsEnabled = (installed \cap Schedulers # {})
       /\ Cardinality({i \in DOMAIN mcpFeatures : mcpFeatures[i] = "jobs"})
             = IF installed \cap Schedulers = {} THEN 0 ELSE 1
       /\ \A tool \in AllTools :
             /\ (\E i \in DOMAIN mcpFeatures : tool \in ToolsOf[mcpFeatures[i]])
                  => Contains(mcpFeatures, Owner(tool))
             /\ tool \in ToolsOf["server"] => Owner(tool) = "server"

\* A socket whose session ends is closed by it while the provider it was opened
\* with stays, whichever providers were installed before.
EndsReachSockets ==
    [][\A c \in Clients :
          Bound(c) /\ clients[c].steady /\ clients[c].by \notin Delegating
             => ~(clients'[c].open /\ clients'[c].ended)]_assemblyVars

Stranger(c) == Bound(c) /\ clients[c].by # managerAuth[clients[c].kind]

\* A socket whose provider was replaced is closed in the end, as long as there
\* is a provider to ask.
StrangersLeave ==
    \A c \in Clients : Stranger(c) ~> (~Stranger(c) \/ managerAuth[clients[c].kind] = NoAuth)

\* Sockets follow the provider they were opened with, through every replacement.
SocketsFollowProviders == EndsReachSockets /\ StrangersLeave
=============================================================================
