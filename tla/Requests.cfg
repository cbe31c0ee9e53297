SPECIFICATION MCSpec
CONSTANTS
  AuthProviders = {"users", "host"}
  NoAuth = NoAuth
  Delegating = {"host"}
  Plugins = {"users", "scheduler", "scheduler2"}
  PluginAuth <- MCPluginAuth
  Schedulers = {"scheduler", "scheduler2"}
  ToolsOf <- MCToolsOf
  Clients = {1, 2}
  Topics = {"job", "token", "kick", "log"}
  Subscribers = {"faulty"}
  Listens <- MCListens
  Fails <- MCFails
  Watchers = {"w1"}
  TicketGrants <- MCTicketGrants
  OwnWatchers = {"w1"}
  MaxPublished = 3
  Requests = {"r1", "r2"}
  Listed <- MCListed
  Chains <- MCChains
  PermOf <- MCPermOf
  Terminals = {"h1", "h2", "h3"}
  Keys = {"ann", "ben"}
  MaxSessions = 2
  MaxSessionsPerUser = 1
  IdleTimeout = 2
  MaxDuration = 2
  MaxTimeout = 1
  MaxNow = 2
  Pids = {"sh", "p1", "p2"}
  Root = "sh"
  Init1 = "init"
  Stubborn = {"p2"}
INVARIANTS
  AssemblyTells
  SocketsHearInOrder
  RecordsAgree
  ChainPermitted
  WithinLimits
  TimersFollowInput
  SurvivorsEscaped
PROPERTIES
  SocketsFollowProviders
CHECK_DEADLOCK FALSE
