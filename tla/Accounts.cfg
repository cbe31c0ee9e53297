SPECIFICATION MCSpec
CONSTANTS
  Attempts = {a1, a2, a3, a4}
  MaxLoginAttempts = 2
  LockoutMs = 2
  MaxTime = 5
  Logins = {l1, l2}
  Changes = {c1, c2}
  First = First
  Other = Other
  HashSlots = 2
  TokenIds = {1, 2}
  TicketIds = {1}
  TokenCalls = {r1, r2}
  TokenPerms = {"jobs"}
  TokenAsks <- MCTokenAsks
  Unscoped = Unscoped
  Never = Never
  None = None
  MaxApiTokensPerUser = 1
  TicketTtl = 0
  LastUsedInterval = 1
  MaxInstant = 1
  MaxOverlapTokens = 1
  MaxChanges = 2
  root = root
  u1 = u1
  u2 = u2
  admin = admin
  everyone = everyone
  g1 = g1
  all = all
  manage = manage
  use = use
  Users = {root, u1, u2}
  Root = root
  GroupNames = {admin, everyone, g1}
  Admin = admin
  Everyone = everyone
  Perms = {all, manage, use}
  All = all
  Manage = manage
  Gone = Gone
  Unset = Unset
  Requesters = {1}
  DirAsks <- MCAsks
  Overlap = FALSE
  MaxRejects = 1
SYMMETRY MCSymmetry
INVARIANTS
  AttemptsBounded
  AllWrongLocks
  AdminRemains
  NoDanglingMembership
  ChangesTakeEffect
  HashSlotsKept
  TokensJustified
PROPERTIES
  NoEscalation
CHECK_DEADLOCK FALSE
