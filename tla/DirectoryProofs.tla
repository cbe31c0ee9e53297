-------------------------- MODULE DirectoryProofs --------------------------
(***************************************************************************)
(* Proofs about Directory, for every set of users, groups, permissions and *)
(* requests, over stores whose calls do not wait (Overlap = FALSE).  At    *)
(* most one request is under way, so what it has read still holds when it  *)
(* writes.  The induction goes along its stages: what it has not yet to do *)
(* (~Does) it has done, and Learned says what it knows from that.          *)
(***************************************************************************)
EXTENDS Directory, SequenceTheorems, TLAPS

StageNames == {"groups", "user", "actOn", "last", "write", "members", "strip"}

OfUser == {"updateUser", "deleteUser", "addMember", "removeMember"}

\* A request has yet to come to a stage.
Does(s, stage) == \E i \in 1..Len(s) : s[i] = stage

\* Groups and user are read in either order; the rest comes in this one.
Rank(stage) ==
  CASE stage \in {"groups", "user"} -> 1
    [] stage = "actOn"   -> 2
    [] stage = "last"    -> 3
    [] stage = "write"   -> 4
    [] stage = "members" -> 5
    [] stage = "strip"   -> 6

InOrder(s) == \A i, j \in 1..Len(s) : i < j => Rank(s[i]) <= Rank(s[j]) /\ s[i] # s[j]

DirTypes ==
  /\ users \in [Users -> Records \cup {Gone}]
  /\ groups \in [GroupNames -> (SUBSET Perms) \cup {Gone}]
  /\ seeded \in {"admin", "everyone", "root", "ready"}
  /\ halved \in BOOLEAN
  /\ left \in [Requesters -> Seq(StageNames)]
  /\ rq = [r \in Requesters |-> rq[r]]

\* Which stages belong to which operation.
Planned(s, q) ==
  /\ InOrder(s)
  /\ Does(s, "groups") => q.op # "deleteUser" /\ (q.op = "updateUser" => q.groups # Unset)
  /\ Does(s, "user") \/ Does(s, "actOn") \/ Does(s, "last") => q.op \in OfUser
  /\ Does(s, "groups") /\ q.op \in OfUser => Does(s, "actOn")
  /\ Does(s, "user") /\ (q.op = "updateUser" => q.groups # Unset \/ q.disabled # Unset) => Does(s, "actOn")
  /\ Does(s, "members") \/ Does(s, "strip") => q.op = "deleteGroup"
  /\ Does(s, "members") => Does(s, "strip")
  /\ Does(s, "write") => (q.op = "deleteGroup" => Does(s, "members"))
  /\ ~Does(s, "write") => q.op = "deleteGroup" /\ ~Does(s, "groups")

\* The groups that the request names exist and are as it has read them.
GroupsKnown(k) ==
  LET q == k.ask IN
  /\ q.op \in {"createUser", "addMember", "removeMember"} \/ (q.op = "updateUser" /\ q.groups # Unset) =>
        \A g \in Named(q) : groups[g] # Gone /\ k.given[g] = groups[g]
  /\ q.op = "createUser" /\ q.groups # {} => Covers(k.held, PermsOf(q.groups))
  /\ q.op \in {"createGroup", "updateGroup"} => Covers(k.held, q.perms)
  /\ q.op = "updateGroup" => q.group # Admin
  /\ q.op = "deleteGroup" => q.group \notin BuiltIn

\* The caller may act on the user and give what it adds.
ActChecked(k) ==
  LET q == k.ask IN
  q.op \in OfUser /\ (q.op = "updateUser" => q.groups # Unset \/ q.disabled # Unset) =>
    Covers(k.held, PermsOf(users[q.user].groups)) /\ MayAdd(q, k.held, k.seen, k.given)

LastChecked(k) ==
  LET q == k.ask IN
  q.op \in {"updateUser", "deleteUser"} \/ (q.op = "removeMember" /\ q.group = Admin) =>
    ~(LastEnabledAdmin(q.user, users[q.user]) /\ TakesAdmin(q))

MembersKnown(k) ==
  /\ DOMAIN k.members # {}
  /\ \A u \in DOMAIN k.members :
        u \in Users /\ users[u] # Gone /\ k.members[u] = users[u].groups

\* What a request knows, from the stages that are behind it.
Learned(s, k) ==
  LET q == k.ask IN
  /\ Does(s, "write") => k.held = PermsOf(users[q.by].groups)
  /\ q.op \in OfUser /\ ~Does(s, "user") => users[q.user] # Gone /\ k.seen = users[q.user]
  /\ ~Does(s, "groups") => GroupsKnown(k)
  /\ ~Does(s, "actOn") => ActChecked(k)
  /\ ~Does(s, "last") => LastChecked(k)
  /\ ~Does(s, "write") => groups[q.group] = Gone
  /\ q.op = "deleteGroup" /\ ~Does(s, "members") => MembersKnown(k)

\* A request under way.
UnderWay(s, k) ==
  /\ k = [op |-> k.ask.op, ask |-> k.ask, held |-> k.held, seen |-> k.seen,
          given |-> k.given, members |-> k.members]
  /\ k.ask \in DirAsks /\ k.held \subseteq Perms
  /\ Planned(s, k.ask) /\ Learned(s, k)

OneAtATime ==
  \A r \in Requesters : left[r] # << >> =>
    /\ seeded = "ready" /\ UnderWay(left[r], rq[r])
    /\ \A s \in Requesters : left[s] # << >> => s = r

SomeAdmin == \E u \in Users : Enabled(u) /\ Admin \in users[u].groups

\* The group of the administrators is there from the first seeding on, and an
\* administrator as soon as there is a user.
AdminKept ==
  /\ groups[Admin] \in {Gone, {All}}
  /\ seeded # "admin" => groups[Admin] = {All}
  /\ SomeAdmin \/ (seeded # "ready" /\ \A u \in Users : users[u] = Gone)

\* The deletion of a group is going to take it from this user.
Losing(u, g) ==
  \E r \in Requesters :
    /\ At(r, "members") \/ (At(r, "strip") /\ u \in DOMAIN rq[r].members)
    /\ g = rq[r].ask.group

GroupsThere ==
  ~halved => \A u \in Users : users[u] # Gone =>
                \A g \in users[u].groups : groups[g] # Gone \/ Losing(u, g)

DirectoryInv == DirTypes /\ OneAtATime /\ AdminKept /\ GroupsThere

----------------------------------------------------------------------------
(* The first of several stages in order is behind once the rest is left. *)
LEMMA TailInOrder ==
  ASSUME NEW s \in Seq(StageNames), s # << >>, InOrder(s)
  PROVE  /\ Head(s) \in StageNames /\ Does(s, Head(s))
         /\ Tail(s) \in Seq(StageNames) /\ InOrder(Tail(s))
         /\ Len(s) # 1 => Tail(s) # << >>
         /\ Len(s) = 1 => \A stage : Does(s, stage) => stage = Head(s)
         /\ ~Does(Tail(s), Head(s))
         /\ \A stage : Does(s, stage) <=> stage = Head(s) \/ Does(Tail(s), stage)
         /\ \A stage : Does(s, stage) => Rank(Head(s)) <= Rank(stage)
<1> DEFINE t == Tail(s)
<1>1. /\ Len(s) \in Nat \ {0} /\ Head(s) = s[1] /\ Head(s) \in StageNames
      /\ t \in Seq(StageNames) /\ Len(t) = Len(s) - 1
      /\ \A i \in 1..Len(t) : t[i] = s[i + 1]
  BY HeadTailProperties, LenProperties, EmptySeq
<1> HIDE DEF t
<1>2. \A i \in 1..Len(s) : i = 1 \/ (i - 1 \in 1..Len(t) /\ t[i - 1] = s[i])
  BY <1>1
<1>3. \A i \in 1..Len(t) : i + 1 \in 1..Len(s) /\ t[i] = s[i + 1] /\ s[i + 1] # s[1]
  BY <1>1 DEF InOrder
<1>4. InOrder(t)
  BY <1>1, <1>3 DEF InOrder
<1>5. Does(s, Head(s)) /\ ~Does(t, Head(s))
  BY <1>1, <1>3 DEF Does
<1>6. \A stage : Does(s, stage) <=> stage = Head(s) \/ Does(t, stage)
  BY <1>1, <1>2, <1>3 DEF Does
<1>7. \A i \in 1..Len(s) : Rank(s[1]) <= Rank(s[i])
  <2>1. Rank(s[1]) \in Int
    BY <1>1 DEF Rank, StageNames
  <2> QED BY <1>1, <2>1 DEF InOrder
<1>8. \A stage : Does(s, stage) => Rank(Head(s)) <= Rank(stage)
  BY <1>1, <1>7 DEF Does
<1>9. (Len(s) # 1 => t # << >>) /\ (Len(s) = 1 => \A stage : Does(s, stage) => stage = Head(s))
  <2>1. Len(<< >>) = 0
    OBVIOUS
  <2> QED BY <1>1, <2>1 DEF Does
<1> QED BY <1>1, <1>4, <1>5, <1>6, <1>8, <1>9 DEF t

(* The stages of a request are in order, and those that its operation needs. *)
LEMMA StagesPlanned ==
  ASSUME NEW q \in DirAsks
  PROVE  /\ Stages(q) \in Seq(StageNames) /\ Stages(q) # << >> /\ Planned(Stages(q), q)
         /\ Does(Stages(q), "write")
         /\ q.op \in OfUser => Does(Stages(q), "user")
         /\ q.op # "deleteUser" /\ (q.op = "updateUser" => q.groups # Unset) => Does(Stages(q), "groups")
         /\ q.op \in OfUser /\ (q.op = "updateUser" => q.groups # Unset \/ q.disabled # Unset)
              => Does(Stages(q), "actOn")
         /\ q.op \in {"updateUser", "deleteUser"} \/ (q.op = "removeMember" /\ q.group = Admin)
              => Does(Stages(q), "last")
         /\ q.op = "deleteGroup" => Does(Stages(q), "members")
<1>1. q \in Asked
  BY DirectoryAssumption
<1>2. CASE q.op = "updateUser" /\ q.groups = Unset /\ q.disabled = Unset
  <2>1. Stages(q) = <<"user", "last", "write">>
    BY <1>2 DEF Stages
  <2> QED BY <1>2, <2>1 DEF Planned, InOrder, Rank, Does, OfUser, StageNames
<1>3. CASE q.op = "updateUser" /\ q.groups = Unset /\ q.disabled # Unset
  <2>1. Stages(q) = <<"user", "actOn", "last", "write">>
    BY <1>3 DEF Stages
  <2> QED BY <1>3, <2>1 DEF Planned, InOrder, Rank, Does, OfUser, StageNames
<1>4. CASE q.op = "updateUser" /\ q.groups # Unset
  <2>1. Stages(q) = <<"user", "groups", "actOn", "last", "write">>
    BY <1>4 DEF Stages
  <2> QED BY <1>4, <2>1 DEF Planned, InOrder, Rank, Does, OfUser, StageNames
<1>5. CASE q.op = "removeMember" /\ q.group = Admin
  <2>1. Stages(q) = <<"groups", "user", "actOn", "last", "write">>
    BY <1>5 DEF Stages
  <2> QED BY <1>5, <2>1 DEF Planned, InOrder, Rank, Does, OfUser, StageNames
<1>6. CASE q.op = "addMember" \/ (q.op = "removeMember" /\ q.group # Admin)
  <2>1. Stages(q) = <<"groups", "user", "actOn", "write">>
    BY <1>6 DEF Stages
  <2> QED BY <1>6, <2>1 DEF Planned, InOrder, Rank, Does, OfUser, StageNames
<1>7. CASE q.op = "deleteUser"
  <2>1. Stages(q) = <<"user", "actOn", "last", "write">>
    BY <1>7 DEF Stages
  <2> QED BY <1>7, <2>1 DEF Planned, InOrder, Rank, Does, OfUser, StageNames
<1>8. CASE q.op = "deleteGroup"
  <2>1. Stages(q) = <<"groups", "write", "members", "strip">>
    BY <1>8 DEF Stages
  <2> QED BY <1>8, <2>1 DEF Planned, InOrder, Rank, Does, OfUser, StageNames
<1>9. CASE q.op \in {"createUser", "createGroup", "updateGroup"}
  <2>1. Stages(q) = <<"groups", "write">>
    BY <1>9 DEF Stages
  <2> QED BY <1>9, <2>1 DEF Planned, InOrder, Rank, Does, OfUser, StageNames
<1> QED BY <1>1, <1>2, <1>3, <1>4, <1>5, <1>6, <1>7, <1>8, <1>9 DEF Asked
----------------------------------------------------------------------------
(* What covers two sets of permissions covers what is in either. *)
LEMMA CoversBoth ==
  ASSUME NEW held, NEW A, NEW B, NEW C, Covers(held, A), Covers(held, B), C \subseteq A \cup B
  PROVE  Covers(held, C)
BY DEF Covers

(* A group gives its permissions to whoever is in it, and nothing else does. *)
LEMMA PermsFacts ==
  ASSUME DirTypes, NEW names \in SUBSET GroupNames
  PROVE  /\ PermsOf(names) \subseteq Perms
         /\ \A g \in names : groups[g] # Gone => groups[g] \subseteq PermsOf(names)
         /\ \A p \in PermsOf(names) : \E g \in names : groups[g] # Gone /\ p \in groups[g]
<1>1. PermsOf(names) \subseteq Perms
  BY DEF DirTypes, PermsOf
<1>2. \A g \in names : groups[g] # Gone => groups[g] \subseteq PermsOf(names)
  BY Zenon DEF PermsOf
<1>3. \A p \in PermsOf(names) : \E g \in names : groups[g] # Gone /\ p \in groups[g]
  BY Zenon DEF PermsOf
<1> QED BY <1>1, <1>2, <1>3

(* What a request names are users and groups. *)
LEMMA AskTypes ==
  ASSUME NEW q \in DirAsks
  PROVE  /\ q.op \in {"createUser", "updateUser", "deleteUser", "createGroup", "updateGroup",
                      "deleteGroup", "addMember", "removeMember"}
         /\ q.by \in Users /\ q.perms \subseteq Perms
         /\ q.op \in {"createGroup", "updateGroup", "deleteGroup"} <=> q.user = Unset
         /\ q.op \in OfUser \cup {"createUser"} <=> q.user \in Users
         /\ q.op \in {"createGroup", "updateGroup", "deleteGroup", "addMember", "removeMember"}
              => q.group \in GroupNames
         /\ q.op = "createUser" \/ q.groups # Unset => q.groups \subseteq GroupNames
         /\ q.op = "createUser" \/ (q.op = "updateUser" /\ q.groups # Unset) \/ q.op \in {"addMember", "removeMember"}
              => Named(q) \subseteq GroupNames
         /\ q.disabled \in BOOLEAN \cup {Unset}
<1>1. /\ q.op \in {"createUser", "updateUser", "deleteUser", "createGroup", "updateGroup",
                      "deleteGroup", "addMember", "removeMember"}
      /\ q.by \in Users /\ q.user \in Users \cup {Unset} /\ q.group \in GroupNames \cup {Unset}
      /\ q.groups \in (SUBSET GroupNames) \cup {Unset} /\ q.disabled \in BOOLEAN \cup {Unset}
      /\ q.perms \in SUBSET Perms
  BY DirectoryAssumption DEF Asked
<1>2. /\ Unset \notin Users \cup GroupNames
      /\ q.user = Unset <=> q.op \in {"createGroup", "updateGroup", "deleteGroup"}
      /\ q.group = Unset <=> q.op \in {"createUser", "updateUser", "deleteUser"}
      /\ q.op = "createUser" => q.groups # Unset
      /\ Everyone \in GroupNames
  BY DirectoryAssumption
<1>3. q.op \in {"createGroup", "updateGroup", "deleteGroup"} <=> q.user = Unset
  BY <1>2
<1>4. q.op \in OfUser \cup {"createUser"} <=> q.user \in Users
  BY <1>1, <1>2 DEF OfUser
<1>5. q.op \in {"createGroup", "updateGroup", "deleteGroup", "addMember", "removeMember"}
              => q.group \in GroupNames
  BY <1>1, <1>2
<1>6. q.op = "createUser" \/ q.groups # Unset => q.groups \subseteq GroupNames
  BY <1>1, <1>2
<1>7. q.op = "createUser" \/ (q.op = "updateUser" /\ q.groups # Unset) \/ q.op \in {"addMember", "removeMember"}
              => Named(q) \subseteq GroupNames
  BY <1>2, <1>5, <1>6 DEF Named
<1> QED BY <1>1, <1>3, <1>4, <1>5, <1>6, <1>7

(* Going on to the next stage keeps the plan. *)
LEMMA PlanGoesOn ==
  ASSUME NEW s \in Seq(StageNames), s # << >>, NEW q, Planned(s, q)
  PROVE  /\ InOrder(Tail(s))
         /\ Head(s) \in {"groups", "user", "actOn", "last"} =>
              /\ Planned(Tail(s), q) /\ Does(s, "write")
         /\ Head(s) \in {"actOn", "last", "write", "members", "strip"} =>
              ~Does(s, "groups") /\ ~Does(s, "user")
         /\ Head(s) \in {"last", "write", "members", "strip"} => ~Does(s, "actOn")
         /\ Head(s) \in {"write", "members", "strip"} => ~Does(s, "last")
         /\ Head(s) \in {"members", "strip"} => ~Does(s, "write")
         /\ Head(s) = "strip" => ~Does(s, "members")
<1>1. /\ Head(s) \in StageNames /\ Does(s, Head(s)) /\ InOrder(Tail(s)) /\ ~Does(Tail(s), Head(s))
      /\ \A stage : Does(s, stage) <=> stage = Head(s) \/ Does(Tail(s), stage)
      /\ \A stage : Does(s, stage) => Rank(Head(s)) <= Rank(stage)
  BY TailInOrder DEF Planned
<1>2. /\ Rank("groups") = 1 /\ Rank("user") = 1 /\ Rank("actOn") = 2 /\ Rank("last") = 3
      /\ Rank("write") = 4 /\ Rank("members") = 5 /\ Rank("strip") = 6
  BY DEF Rank
<1>3. /\ Head(s) \in {"actOn", "last", "write", "members", "strip"} =>
              ~Does(s, "groups") /\ ~Does(s, "user")
      /\ Head(s) \in {"last", "write", "members", "strip"} => ~Does(s, "actOn")
      /\ Head(s) \in {"write", "members", "strip"} => ~Does(s, "last")
      /\ Head(s) \in {"members", "strip"} => ~Does(s, "write")
      /\ Head(s) = "strip" => ~Does(s, "members")
  BY <1>1, <1>2
<1>4. ASSUME Head(s) \in {"groups", "user", "actOn", "last"}
      PROVE  Planned(Tail(s), q) /\ Does(s, "write")
  <2>1. Does(s, "write")
    <3>1. q.op = "deleteGroup" => ~Does(s, "user") /\ ~Does(s, "actOn") /\ ~Does(s, "last")
      BY DEF Planned, OfUser
    <3>2. q.op = "deleteGroup" => Head(s) = "groups"
      BY <3>1, <1>1, <1>4
    <3>3. ~Does(s, "write") => q.op = "deleteGroup" /\ ~Does(s, "groups")
      BY DEF Planned
    <3> QED BY <3>2, <3>3, <1>1
  <2> QED BY <2>1, <1>1, <1>3, <1>4 DEF Planned
<1> QED BY <1>1, <1>3, <1>4
----------------------------------------------------------------------------
(* What is read at a stage is known once the stage is behind. *)

(* The groups that the request names. *)
LEMMA GroupsLearned ==
  ASSUME DirTypes, NEW s \in Seq(StageNames), s # << >>, Head(s) = "groups",
         NEW k, UnderWay(s, k), GroupsAllow(k.ask, k.held)
  PROVE  UnderWay(Tail(s), [k EXCEPT !.given = [g \in Named(k.ask) |-> groups[g]]])
<1> DEFINE q == k.ask
           j == [k EXCEPT !.given = [g \in Named(q) |-> groups[g]]]
           t == Tail(s)
<1>1. /\ j = [op |-> j.ask.op, ask |-> j.ask, held |-> j.held, seen |-> j.seen,
              given |-> j.given, members |-> j.members]
      /\ j.ask = q /\ j.held = k.held /\ j.seen = k.seen /\ j.members = k.members
      /\ j.given = [g \in Named(q) |-> groups[g]]
  BY DEF UnderWay
<1>2. /\ q \in DirAsks /\ k.held \subseteq Perms /\ Planned(s, q) /\ Learned(s, k)
  BY DEF UnderWay
<1>3. /\ Planned(t, q) /\ Does(s, "write") /\ ~Does(t, "groups")
      /\ \A stage : Does(s, stage) <=> stage = "groups" \/ Does(t, stage)
  BY <1>2, PlanGoesOn, TailInOrder DEF Planned
<1>4. /\ q.op # "deleteUser" /\ (q.op = "updateUser" => q.groups # Unset)
      /\ q.op \in OfUser => Does(t, "actOn")
      /\ q.op = "deleteGroup" => Does(t, "members")
  BY <1>2, <1>3 DEF Planned
<1>5. GroupsKnown(j)
  <2>1. CASE q.op = "createGroup"
    BY <1>1, <2>1 DEF GroupsKnown, GroupsAllow
  <2>2. CASE q.op = "updateGroup"
    BY <1>1, <2>2 DEF GroupsKnown, GroupsAllow
  <2>3. CASE q.op = "deleteGroup"
    BY <1>1, <2>3 DEF GroupsKnown, GroupsAllow
  <2>4. CASE q.op \notin {"createGroup", "updateGroup", "deleteGroup"}
    BY <1>1, <2>4 DEF GroupsKnown, GroupsAllow
  <2> QED BY <2>1, <2>2, <2>3, <2>4
<1> HIDE DEF q, j, t
<1>6. Does(t, "write") /\ j.held = PermsOf(users[q.by].groups)
  BY <1>1, <1>2, <1>3 DEF Learned, q
<1>7. q.op \in OfUser /\ ~Does(t, "user") => users[q.user] # Gone /\ j.seen = users[q.user]
  BY <1>1, <1>2, <1>3 DEF Learned, q
<1>8. ~Does(t, "actOn") => ActChecked(j)
  BY <1>1, <1>4 DEF ActChecked
<1>9. ~Does(t, "last") => LastChecked(j)
  BY <1>1, <1>2, <1>3 DEF Learned, LastChecked, q
<1>10. Learned(t, j)
  BY <1>1, <1>4, <1>5, <1>6, <1>7, <1>8, <1>9 DEF Learned
<1> QED BY <1>1, <1>2, <1>3, <1>10 DEF UnderWay, j, t, q

(* The user that it is about. *)
LEMMA UserLearned ==
  ASSUME DirTypes, NEW s \in Seq(StageNames), s # << >>, Head(s) = "user",
         NEW k, UnderWay(s, k), users[k.ask.user] # Gone
  PROVE  UnderWay(Tail(s), [k EXCEPT !.seen = users[k.ask.user]])
<1> DEFINE q == k.ask
           j == [k EXCEPT !.seen = users[q.user]]
           t == Tail(s)
<1>1. /\ j = [op |-> j.ask.op, ask |-> j.ask, held |-> j.held, seen |-> j.seen,
              given |-> j.given, members |-> j.members]
      /\ j.ask = q /\ j.held = k.held /\ j.given = k.given /\ j.members = k.members
      /\ j.seen = users[q.user]
  BY DEF UnderWay
<1>2. /\ q \in DirAsks /\ k.held \subseteq Perms /\ Planned(s, q) /\ Learned(s, k)
  BY DEF UnderWay
<1>3. /\ Planned(t, q) /\ Does(s, "write") /\ ~Does(t, "user")
      /\ \A stage : Does(s, stage) <=> stage = "user" \/ Does(t, stage)
  BY <1>2, PlanGoesOn, TailInOrder DEF Planned
<1>4. /\ q.op \in OfUser /\ q.op # "deleteGroup"
      /\ (q.op = "updateUser" => q.groups # Unset \/ q.disabled # Unset) => Does(t, "actOn")
  BY <1>2, <1>3 DEF Planned, OfUser
<1> HIDE DEF q, j, t
<1>6. Does(t, "write") /\ j.held = PermsOf(users[q.by].groups)
  BY <1>1, <1>2, <1>3 DEF Learned, q
<1>7. ~Does(t, "groups") => GroupsKnown(j)
  BY <1>1, <1>2, <1>3 DEF Learned, GroupsKnown, q
<1>8. ~Does(t, "actOn") => ActChecked(j)
  BY <1>1, <1>4 DEF ActChecked
<1>9. ~Does(t, "last") => LastChecked(j)
  BY <1>1, <1>2, <1>3 DEF Learned, LastChecked, q
<1>10. Learned(t, j)
  <2>1. users[q.user] # Gone
    BY DEF q
  <2> QED BY <2>1, <1>1, <1>4, <1>6, <1>7, <1>8, <1>9 DEF Learned
<1> QED BY <1>1, <1>2, <1>3, <1>10 DEF UnderWay, j, t, q

(* That the caller may act on the user. *)
LEMMA ActLearned ==
  ASSUME DirTypes, NEW s \in Seq(StageNames), s # << >>, Head(s) = "actOn",
         NEW k, UnderWay(s, k),
         k.ask.by = k.ask.user \/ Covers(k.held, PermsOf(k.seen.groups)),
         MayAdd(k.ask, k.held, k.seen, k.given)
  PROVE  UnderWay(Tail(s), k)
<1> DEFINE q == k.ask
           t == Tail(s)
<1>2. /\ q \in DirAsks /\ k.held \subseteq Perms /\ Planned(s, q) /\ Learned(s, k)
  BY DEF UnderWay
<1>3. /\ Planned(t, q) /\ Does(s, "write") /\ ~Does(s, "user") /\ ~Does(s, "groups") /\ Does(s, "actOn")
      /\ \A stage : Does(s, stage) <=> stage = "actOn" \/ Does(t, stage)
  BY <1>2, PlanGoesOn, TailInOrder DEF Planned
<1>4. q.op \in OfUser /\ q.op # "deleteGroup"
  BY <1>2, <1>3 DEF Planned, OfUser
<1>5. users[q.user] # Gone /\ k.seen = users[q.user] /\ k.held = PermsOf(users[q.by].groups)
  BY <1>2, <1>3, <1>4 DEF Learned
<1>6. Covers(k.held, PermsOf(users[q.user].groups))
  BY <1>5 DEF Covers
<1>7. ActChecked(k)
  BY <1>6 DEF ActChecked
<1>8. Learned(t, k)
  BY <1>2, <1>3, <1>4, <1>5, <1>7 DEF Learned
<1> QED BY <1>2, <1>3, <1>8 DEF UnderWay

(* That somebody else administers. *)
LEMMA LastLearned ==
  ASSUME DirTypes, NEW s \in Seq(StageNames), s # << >>, Head(s) = "last",
         NEW k, UnderWay(s, k), ~(LastEnabledAdmin(k.ask.user, k.seen) /\ TakesAdmin(k.ask))
  PROVE  UnderWay(Tail(s), k)
<1> DEFINE q == k.ask
           t == Tail(s)
<1>2. /\ q \in DirAsks /\ k.held \subseteq Perms /\ Planned(s, q) /\ Learned(s, k)
  BY DEF UnderWay
<1>3. /\ Planned(t, q) /\ Does(s, "write") /\ ~Does(s, "user") /\ Does(s, "last")
      /\ \A stage : Does(s, stage) <=> stage = "last" \/ Does(t, stage)
  BY <1>2, PlanGoesOn, TailInOrder DEF Planned
<1>4. q.op \in OfUser /\ q.op # "deleteGroup"
  BY <1>2, <1>3 DEF Planned, OfUser
<1>5. users[q.user] # Gone /\ k.seen = users[q.user]
  BY <1>2, <1>3, <1>4 DEF Learned
<1>7. LastChecked(k)
  BY <1>5 DEF LastChecked
<1>8. Learned(t, k)
  BY <1>2, <1>3, <1>4, <1>5, <1>7 DEF Learned
<1> QED BY <1>2, <1>3, <1>8 DEF UnderWay

----------------------------------------------------------------------------
(* While the stores stay as they are, so does what is known of them. *)
LEMMA StoresStay ==
  ASSUME users' = users, groups' = groups, NEW r \in Requesters, UnderWay(left'[r], rq'[r])
  PROVE  UnderWay(left[r], rq[r])'
<1>1. GroupsKnown(rq'[r]) => GroupsKnown(rq[r])'
  BY DEF GroupsKnown, PermsOf
<1>2. ActChecked(rq'[r]) => ActChecked(rq[r])'
  BY DEF ActChecked, PermsOf
<1>3. LastChecked(rq'[r]) => LastChecked(rq[r])'
  BY DEF LastChecked, LastEnabledAdmin, Enabled
<1>4. MembersKnown(rq'[r]) => MembersKnown(rq[r])'
  BY DEF MembersKnown
<1>5. Learned(left'[r], rq'[r]) => Learned(left[r], rq[r])'
  BY <1>1, <1>2, <1>3, <1>4 DEF Learned, PermsOf
<1> QED BY <1>5 DEF UnderWay

(* A request that ends leaves none under way. *)
LEMMA Ended ==
  ASSUME DirectoryInv, NEW r \in Requesters, left[r] # << >>, Ends(r)
  PROVE  /\ left' \in [Requesters -> Seq(StageNames)] /\ rq' = [x \in Requesters |-> rq'[x]]
         /\ \A x \in Requesters : left'[x] = << >>
         /\ OneAtATime'
         /\ \A u, g : ~Losing(u, g)'
<1>0. << >> \in Seq(StageNames)
  BY EmptySeq
<1>1. /\ left' \in [Requesters -> Seq(StageNames)] /\ rq' = [x \in Requesters |-> rq'[x]]
      /\ \A x \in Requesters : left'[x] = << >>
  <2>1. left \in [Requesters -> Seq(StageNames)] /\ left' = [left EXCEPT ![r] = << >>]
    BY DEF DirectoryInv, DirTypes, Ends
  <2>2. left' \in [Requesters -> Seq(StageNames)]
    BY <1>0, <2>1
  <2>3. \A x \in Requesters : left'[x] = << >>
    BY <2>1 DEF DirectoryInv, OneAtATime
  <2>4. rq' = [x \in Requesters |-> rq'[x]]
    BY DEF DirectoryInv, DirTypes, Ends
  <2> QED BY <2>2, <2>3, <2>4
<1>2. OneAtATime' /\ \A u, g : ~Losing(u, g)'
  BY <1>1 DEF OneAtATime, Losing, At
<1> QED BY <1>1, <1>2

(* A request that goes on is still the only one. *)
LEMMA WentOn ==
  ASSUME DirectoryInv, NEW r \in Requesters, left[r] # << >>, NEW t \in Seq(StageNames), NEW k,
         left' = [left EXCEPT ![r] = t], rq' = [rq EXCEPT ![r] = k], seeded' = seeded,
         UnderWay(left[r], rq[r])'
  PROVE  /\ left' \in [Requesters -> Seq(StageNames)] /\ rq' = [x \in Requesters |-> rq'[x]]
         /\ OneAtATime'
<1>1. /\ left' \in [Requesters -> Seq(StageNames)] /\ rq' = [x \in Requesters |-> rq'[x]]
      /\ \A x \in Requesters \ {r} : left'[x] = << >>
  BY DEF DirectoryInv, DirTypes, OneAtATime
<1>2. seeded' = "ready"
  BY DEF DirectoryInv, OneAtATime
<1> QED BY <1>1, <1>2 DEF OneAtATime

(* Without a deletion under way, every user's groups are there. *)
LEMMA NothingLost ==
  ASSUME DirectoryInv, NEW r \in Requesters, left[r] # << >>, Head(left[r]) \notin {"members", "strip"}
  PROVE  \A u, g : ~Losing(u, g)
BY DEF DirectoryInv, OneAtATime, Losing, At

(* A step that only reads keeps the invariant, if what it read is known. *)
LEMMA ReadKeeps ==
  ASSUME DirectoryInv, NEW r \in Requesters, left[r] # << >>, StoreIs,
         Head(left[r]) \notin {"members", "strip"},
         NEW k, Ends(r) \/ (GoesOn(r, k) /\ UnderWay(Tail(left[r]), k))
  PROVE  DirectoryInv'
<1>1. left[r] \in Seq(StageNames) /\ Planned(left[r], rq[r].ask)
  BY DEF DirectoryInv, DirTypes, OneAtATime, UnderWay
<1>2. Tail(left[r]) \in Seq(StageNames)
  BY <1>1, TailInOrder DEF Planned
<1>3. /\ left' \in [Requesters -> Seq(StageNames)] /\ rq' = [x \in Requesters |-> rq'[x]]
      /\ OneAtATime'
  <2>1. CASE Ends(r)
    BY <2>1, Ended
  <2>2. CASE ~Ends(r)
    <3>1. left' = [left EXCEPT ![r] = Tail(left[r])] /\ rq' = [rq EXCEPT ![r] = k]
      BY <2>2 DEF GoesOn
    <3>2. left'[r] = Tail(left[r]) /\ rq'[r] = k
      BY <3>1 DEF DirectoryInv, DirTypes
    <3>3. UnderWay(left'[r], rq'[r])
      BY <2>2, <3>2
    <3>4. UnderWay(left[r], rq[r])'
      BY <3>3, StoresStay DEF StoreIs
    <3> QED BY <1>2, <3>1, <3>4, WentOn DEF StoreIs
  <2> QED BY <2>1, <2>2
<1>4. DirTypes'
  BY <1>3 DEF DirectoryInv, DirTypes, StoreIs
<1>5. AdminKept'
  BY DEF DirectoryInv, AdminKept, SomeAdmin, Enabled, StoreIs
<1>6. GroupsThere'
  BY NothingLost DEF DirectoryInv, GroupsThere, StoreIs
<1> QED BY <1>3, <1>4, <1>5, <1>6 DEF DirectoryInv

(* The steps that read. *)
LEMMA ReadsKeep ==
  ASSUME DirectoryInv, NEW r \in Requesters,
         ReadGroups(r) \/ ReadUser(r) \/ ActOn(r) \/ CheckLast(r)
  PROVE  DirectoryInv'
<1>1. /\ left[r] # << >> /\ StoreIs /\ Head(left[r]) \in {"groups", "user", "actOn", "last"}
  BY DEF ReadGroups, ReadUser, ActOn, CheckLast, At
<1>2. DirTypes /\ left[r] \in Seq(StageNames) /\ UnderWay(left[r], rq[r])
  BY <1>1 DEF DirectoryInv, DirTypes, OneAtATime
<1>3. CASE ReadGroups(r)
  <2> DEFINE k == [rq[r] EXCEPT !.given = [g \in Named(rq[r].ask) |-> groups[g]]]
  <2>1. Ends(r) \/ (GoesOn(r, k) /\ GroupsAllow(rq[r].ask, rq[r].held))
    BY <1>3 DEF ReadGroups
  <2>2. GroupsAllow(rq[r].ask, rq[r].held) => UnderWay(Tail(left[r]), k)
    BY <1>1, <1>2, <1>3, GroupsLearned DEF ReadGroups, At
  <2> HIDE DEF k
  <2> QED BY <1>1, <2>1, <2>2, ReadKeeps
<1>4. CASE ReadUser(r)
  <2> DEFINE k == [rq[r] EXCEPT !.seen = users[rq[r].ask.user]]
  <2>1. Ends(r) \/ (GoesOn(r, k) /\ users[rq[r].ask.user] # Gone)
    BY <1>4 DEF ReadUser
  <2>2. users[rq[r].ask.user] # Gone => UnderWay(Tail(left[r]), k)
    BY <1>1, <1>2, <1>4, UserLearned DEF ReadUser, At
  <2> HIDE DEF k
  <2> QED BY <1>1, <2>1, <2>2, ReadKeeps
<1>5. CASE ActOn(r)
  <2>1. \/ Ends(r)
        \/ /\ GoesOn(r, rq[r])
           /\ rq[r].ask.by = rq[r].ask.user \/ Covers(rq[r].held, PermsOf(rq[r].seen.groups))
           /\ MayAdd(rq[r].ask, rq[r].held, rq[r].seen, rq[r].given)
    BY <1>5 DEF ActOn
  <2>2. Ends(r) \/ (GoesOn(r, rq[r]) /\ UnderWay(Tail(left[r]), rq[r]))
    BY <1>1, <1>2, <1>5, <2>1, ActLearned DEF ActOn, At
  <2> QED BY <1>1, <2>2, ReadKeeps
<1>6. CASE CheckLast(r)
  <2>1. \/ Ends(r)
        \/ /\ GoesOn(r, rq[r])
           /\ ~(LastEnabledAdmin(rq[r].ask.user, rq[r].seen) /\ TakesAdmin(rq[r].ask))
    BY <1>6 DEF CheckLast
  <2>2. Ends(r) \/ (GoesOn(r, rq[r]) /\ UnderWay(Tail(left[r]), rq[r]))
    BY <1>1, <1>2, <1>6, <2>1, LastLearned DEF CheckLast, At
  <2> QED BY <1>1, <2>2, ReadKeeps
<1> QED BY <1>3, <1>4, <1>5, <1>6

----------------------------------------------------------------------------
(* What holds when a request writes. *)
LEMMA AtWrite ==
  ASSUME DirectoryInv, NEW r \in Requesters, At(r, "write")
  PROVE  /\ left[r] # << >> /\ left[r] \in Seq(StageNames) /\ UnderWay(left[r], rq[r])
         /\ rq[r].ask \in DirAsks /\ rq[r].held \subseteq Perms
         /\ rq[r].held = PermsOf(users[rq[r].ask.by].groups)
         /\ rq[r].ask.op \in OfUser =>
              users[rq[r].ask.user] # Gone /\ rq[r].seen = users[rq[r].ask.user]
         /\ GroupsKnown(rq[r]) /\ ActChecked(rq[r]) /\ LastChecked(rq[r])
         /\ seeded = "ready" /\ groups[Admin] = {All} /\ SomeAdmin
         /\ \A u, g : ~Losing(u, g)
<1>1. /\ left[r] # << >> /\ Head(left[r]) = "write" /\ left[r] \in Seq(StageNames)
      /\ UnderWay(left[r], rq[r]) /\ seeded = "ready"
  BY DEF At, DirectoryInv, DirTypes, OneAtATime
<1>2. Planned(left[r], rq[r].ask) /\ Learned(left[r], rq[r])
  BY <1>1 DEF UnderWay
<1>3. /\ ~Does(left[r], "groups") /\ ~Does(left[r], "user") /\ ~Does(left[r], "actOn") /\ ~Does(left[r], "last")
      /\ Does(left[r], "write")
  BY <1>1, <1>2, PlanGoesOn, TailInOrder DEF Planned
<1>4. /\ rq[r].held = PermsOf(users[rq[r].ask.by].groups)
      /\ rq[r].ask.op \in OfUser =>
              users[rq[r].ask.user] # Gone /\ rq[r].seen = users[rq[r].ask.user]
      /\ GroupsKnown(rq[r]) /\ ActChecked(rq[r]) /\ LastChecked(rq[r])
  BY <1>2, <1>3 DEF Learned
<1>5. groups[Admin] = {All} /\ SomeAdmin
  BY <1>1 DEF DirectoryInv, AdminKept
<1>6. \A u, g : ~Losing(u, g)
  BY <1>1, NothingLost
<1> QED BY <1>1, <1>4, <1>5, <1>6 DEF UnderWay

(* What a write makes of its user: a record of groups that are there, of which
   it had, or is given, each; and an administrator stays one if the request may
   not take one away. *)
LEMMA RewrittenFacts ==
  ASSUME DirTypes, NEW k, LET q == k.ask IN
           /\ q \in DirAsks /\ q.op \in OfUser \cup {"createUser"}
           /\ q.op # "createUser" => users[q.user] # Gone /\ k.seen = users[q.user]
           /\ GroupsKnown(k)
  PROVE  LET q == k.ask
             old == IF q.op = "createUser" THEN {} ELSE users[q.user].groups
             new == Rewritten(q, k.seen) IN
         /\ q.op = "deleteUser" => new = Gone
         /\ q.op # "deleteUser" =>
              /\ new \in Records
              /\ \A g \in new.groups : g \in old \/ (groups[g] # Gone /\ g \in Named(q)
                                                     /\ q.op \in {"createUser", "updateUser", "addMember"}
                                                     /\ (q.op = "updateUser" => q.groups # Unset))
         /\ q.op # "createUser" /\ ~users[q.user].disabled /\ Admin \in users[q.user].groups
              /\ (TakesAdmin(q) => q.op = "removeMember" /\ q.group # Admin) =>
              ~new.disabled /\ Admin \in new.groups
<1> DEFINE q == k.ask
           new == Rewritten(q, k.seen)
<1>1. /\ q \in DirAsks /\ q.op \in OfUser \cup {"createUser"}
      /\ q.op # "createUser" => users[q.user] # Gone /\ k.seen = users[q.user]
      /\ GroupsKnown(k)
  OBVIOUS
<1>2. /\ q.user \in Users /\ q.disabled \in BOOLEAN \cup {Unset}
      /\ q.op \in {"addMember", "removeMember"} => q.group \in GroupNames
      /\ q.op = "createUser" \/ q.groups # Unset => q.groups \subseteq GroupNames
      /\ q.op = "createUser" => Named(q) \subseteq GroupNames
  BY <1>1, AskTypes
<1>3. q.op # "createUser" => /\ users[q.user] \in Records
                             /\ users[q.user].groups \subseteq GroupNames /\ users[q.user].disabled \in BOOLEAN
                             /\ users[q.user] = [groups |-> users[q.user].groups, disabled |-> users[q.user].disabled]
  BY <1>1, <1>2 DEF DirTypes, Records
<1>4. CASE q.op = "createUser"
  <2>1. new = [groups |-> Named(q), disabled |-> q.disabled = TRUE]
    BY <1>4 DEF Rewritten
  <2>2. \A g \in Named(q) : groups[g] # Gone
    BY <1>1, <1>4 DEF GroupsKnown
  <2>3. (q.disabled = TRUE) \in BOOLEAN
    OBVIOUS
  <2> HIDE DEF q, new
  <2>4. new \in Records
    BY <1>2, <1>4, <2>1, <2>3 DEF Records
  <2> QED BY <1>4, <2>1, <2>2, <2>4 DEF q, new
<1>5. CASE q.op = "updateUser"
  <2>1. /\ new.groups = IF q.groups = Unset THEN users[q.user].groups ELSE q.groups
        /\ new.disabled = IF q.disabled = Unset THEN users[q.user].disabled ELSE q.disabled
        /\ new = [groups |-> new.groups, disabled |-> new.disabled]
    BY <1>5 DEF Rewritten
  <2>2. q.groups # Unset => Named(q) = q.groups /\ \A g \in Named(q) : groups[g] # Gone
    BY <1>1, <1>5 DEF GroupsKnown, Named
  <2> HIDE DEF q, new
  <2>3. new.groups \subseteq GroupNames /\ new.disabled \in BOOLEAN
    BY <1>2, <1>3, <1>5, <2>1
  <2>4. new \in Records
    BY <2>1, <2>3 DEF Records
  <2>5. ASSUME ~users[q.user].disabled, Admin \in users[q.user].groups, ~TakesAdmin(q)
        PROVE  ~new.disabled /\ Admin \in new.groups
    <3>1. q.disabled # TRUE /\ (q.groups # Unset => Admin \in q.groups)
      BY <1>5, <2>5 DEF TakesAdmin
    <3>2. ~new.disabled
      BY <1>2, <2>1, <2>5, <3>1
    <3>3. Admin \in new.groups
      BY <2>1, <2>5, <3>1
    <3> QED BY <3>2, <3>3
  <2> QED BY <1>5, <2>1, <2>2, <2>4, <2>5 DEF q, new
<1>6. CASE q.op = "deleteUser"
  <2>1. new = Gone /\ TakesAdmin(q)
    BY <1>6 DEF Rewritten, TakesAdmin
  <2> QED BY <1>6, <2>1
<1>7. CASE q.op = "addMember"
  <2>1. new = [users[q.user] EXCEPT !.groups = users[q.user].groups \cup {q.group}]
    BY <1>1, <1>7 DEF Rewritten
  <2>2. Named(q) = {q.group} /\ groups[q.group] # Gone
    BY <1>1, <1>7 DEF GroupsKnown, Named
  <2> HIDE DEF q, new
  <2>3. new.groups = users[q.user].groups \cup {q.group} /\ new.disabled = users[q.user].disabled
    BY <1>3, <1>7, <2>1
  <2>4. new \in Records
    BY <1>2, <1>3, <1>7, <2>1 DEF Records
  <2> QED BY <1>7, <2>2, <2>3, <2>4 DEF q, new
<1>8. CASE q.op = "removeMember"
  <2>1. new = [users[q.user] EXCEPT !.groups = users[q.user].groups \ {q.group}]
    BY <1>1, <1>8 DEF Rewritten
  <2>2. TakesAdmin(q)
    BY <1>8 DEF TakesAdmin
  <2> HIDE DEF q, new
  <2>3. new.groups = users[q.user].groups \ {q.group} /\ new.disabled = users[q.user].disabled
    BY <1>3, <1>8, <2>1
  <2>4. new \in Records
    BY <1>2, <1>3, <1>8, <2>1 DEF Records
  <2> QED BY <1>8, <2>2, <2>3, <2>4 DEF q, new
<1> QED BY <1>1, <1>4, <1>5, <1>6, <1>7, <1>8 DEF OfUser

(* A write of a user keeps the invariant. *)
LEMMA WriteUserKeeps ==
  ASSUME DirectoryInv, NEW r \in Requesters, WriteUser(r)
  PROVE  DirectoryInv'
<1> DEFINE k == rq[r]
           q == k.ask
           new == Rewritten(q, k.seen)
<1>1. /\ At(r, "write") /\ q.user # Unset /\ Ends(r) /\ UNCHANGED <<groups, seeded, rejects, halved>>
      /\ users' = users \/ users' = [users EXCEPT ![q.user] = new]
      /\ q.op = "createUser" => users' = users \/ users[q.user] = Gone
  BY DEF WriteUser
<1>2. /\ left[r] # << >> /\ q \in DirAsks
      /\ q.op \in OfUser => users[q.user] # Gone /\ k.seen = users[q.user]
      /\ GroupsKnown(k) /\ LastChecked(k)
      /\ seeded = "ready" /\ groups[Admin] = {All} /\ SomeAdmin
      /\ \A u, g : ~Losing(u, g)
  BY <1>1, AtWrite
<1>3. q.op \in OfUser \cup {"createUser"} /\ q.user \in Users
  BY <1>1, <1>2, AskTypes DEF OfUser
<1>4. /\ q.op = "deleteUser" => new = Gone
      /\ q.op # "deleteUser" =>
           /\ new \in Records
           /\ \A g \in new.groups : groups[g] # Gone \/ (q.op # "createUser" /\ g \in users[q.user].groups)
      /\ q.op # "createUser" /\ ~users[q.user].disabled /\ Admin \in users[q.user].groups
              /\ (TakesAdmin(q) => q.op = "removeMember" /\ q.group # Admin) =>
              ~new.disabled /\ Admin \in new.groups /\ q.op # "deleteUser"
  <2>1. q.op # "createUser" => users[q.user] # Gone /\ k.seen = users[q.user]
    BY <1>2, <1>3 DEF OfUser
  <2>2. DirTypes
    BY DEF DirectoryInv
  <2>3. q.op = "deleteUser" => TakesAdmin(q)
    BY DEF TakesAdmin
  <2> QED BY <1>2, <1>3, <2>1, <2>2, <2>3, RewrittenFacts
<1> HIDE DEF k, new, q
<1>5. \A u \in Users : u # q.user => users'[u] = users[u]
  BY <1>1, <1>3 DEF DirectoryInv, DirTypes
<1>6. users' = users \/ users'[q.user] = new
  BY <1>1, <1>3 DEF DirectoryInv, DirTypes
<1>7. /\ left' \in [Requesters -> Seq(StageNames)] /\ rq' = [x \in Requesters |-> rq'[x]]
      /\ OneAtATime'
  BY <1>1, <1>2, Ended
<1>8. DirTypes'
  <2>1. new \in Records \cup {Gone}
    BY <1>4
  <2>2. users' \in [Users -> Records \cup {Gone}]
    BY <1>1, <2>1 DEF DirectoryInv, DirTypes
  <2> QED BY <1>1, <1>7, <2>2 DEF DirectoryInv, DirTypes
<1>9. AdminKept'
  <2>1. SomeAdmin'
    <3>1. CASE users' = users
      BY <1>2, <3>1 DEF SomeAdmin, Enabled
    <3>2. CASE \E v \in Users \ {q.user} : Enabled(v) /\ Admin \in users[v].groups
      BY <1>5, <3>2 DEF SomeAdmin, Enabled
    <3>3. CASE users' # users /\ ~\E v \in Users \ {q.user} : Enabled(v) /\ Admin \in users[v].groups
      <4>1. Enabled(q.user) /\ Admin \in users[q.user].groups
        BY <1>2, <3>3 DEF SomeAdmin
      <4>2. q.op # "createUser" /\ LastEnabledAdmin(q.user, users[q.user])
        BY <1>1, <3>3, <4>1 DEF LastEnabledAdmin, Enabled
      <4>3. TakesAdmin(q) => q.op = "removeMember" /\ q.group # Admin
        BY <1>2, <4>2 DEF LastChecked, TakesAdmin, q
      <4>4. q.op # "deleteUser" /\ ~new.disabled /\ Admin \in new.groups
        BY <1>4, <4>1, <4>2, <4>3 DEF Enabled
      <4>5. new # Gone
        BY <1>4, <4>4, DirectoryAssumption
      <4> QED BY <1>3, <1>6, <3>3, <4>4, <4>5 DEF SomeAdmin, Enabled
    <3> QED BY <3>1, <3>2, <3>3
  <2> QED BY <1>1, <1>2, <2>1 DEF AdminKept
<1>10. GroupsThere'
  <2> SUFFICES ASSUME ~halved, NEW u \in Users, users'[u] # Gone, NEW g \in users'[u].groups
               PROVE  groups[g] # Gone
    BY <1>1 DEF GroupsThere
  <2>1. \A v \in Users : users[v] # Gone => \A h \in users[v].groups : groups[h] # Gone
    BY <1>2 DEF DirectoryInv, GroupsThere
  <2>2. CASE u # q.user \/ users' = users
    BY <1>5, <2>1, <2>2
  <2>3. CASE u = q.user /\ users' # users
    <3>1. users'[u] = new /\ new # Gone
      BY <1>6, <2>3
    <3>2. q.op # "deleteUser"
      BY <1>4, <3>1
    <3>3. q.op # "createUser" => users[q.user] # Gone
      BY <1>2, <1>3 DEF OfUser
    <3> QED BY <1>3, <1>4, <2>1, <3>1, <3>2, <3>3
  <2> QED BY <2>2, <2>3
<1> QED BY <1>7, <1>8, <1>9, <1>10 DEF DirectoryInv

(* The write is the last stage, but for a deletion of a group. *)
LEMMA AfterWrite ==
  ASSUME NEW s \in Seq(StageNames), s # << >>, Head(s) = "write", NEW q, Planned(s, q)
  PROVE  /\ q.op # "deleteGroup" => Len(s) = 1
         /\ q.op = "deleteGroup" =>
              /\ Len(s) # 1 /\ Tail(s) \in Seq(StageNames) /\ Tail(s) # << >>
              /\ Head(Tail(s)) = "members" /\ Planned(Tail(s), q)
              /\ Does(Tail(s), "members") /\ ~Does(Tail(s), "write")
<1> DEFINE t == Tail(s)
<1>1. /\ Does(s, "write") /\ InOrder(t) /\ ~Does(t, "write") /\ t \in Seq(StageNames)
      /\ Len(s) # 1 => t # << >>
      /\ Len(s) = 1 => \A stage : Does(s, stage) => stage = "write"
      /\ \A stage : Does(s, stage) <=> stage = "write" \/ Does(t, stage)
      /\ \A stage : Does(s, stage) => Rank("write") <= Rank(stage)
  BY TailInOrder DEF Planned
<1> HIDE DEF t
<1>2. t # << >> => /\ Head(t) \in StageNames /\ Does(t, Head(t))
                   /\ \A stage : Does(t, stage) => Rank(Head(t)) <= Rank(stage)
  BY <1>1, TailInOrder
<1>3. /\ Rank("groups") = 1 /\ Rank("user") = 1 /\ Rank("actOn") = 2 /\ Rank("last") = 3
      /\ Rank("write") = 4 /\ Rank("members") = 5 /\ Rank("strip") = 6
  BY DEF Rank
<1>4. t # << >> => Head(t) \in {"members", "strip"}
  BY <1>1, <1>2, <1>3 DEF StageNames
<1>5. q.op # "deleteGroup" => Len(s) = 1
  BY <1>1, <1>2, <1>4 DEF Planned
<1>6. ASSUME q.op = "deleteGroup"
      PROVE  Len(s) # 1 /\ Head(t) = "members" /\ Planned(t, q) /\ Does(t, "members")
  <2>1. Does(s, "members") /\ Len(s) # 1 /\ Does(t, "members")
    BY <1>1, <1>6 DEF Planned
  <2>2. Head(t) = "members"
    BY <1>1, <1>2, <1>3, <1>4, <2>1
  <2>3. ~Does(t, "groups") /\ ~Does(t, "user")
    BY <1>1, <1>3
  <2>4. Planned(t, q)
    BY <1>1, <1>6, <2>1, <2>3 DEF Planned
  <2> QED BY <2>1, <2>2, <2>4
<1> QED BY <1>1, <1>5, <1>6 DEF t

(* Taking the group from the members is the last stage of its deletion. *)
LEMMA AfterMembers ==
  ASSUME NEW s \in Seq(StageNames), s # << >>, Head(s) = "members", NEW q, Planned(s, q)
  PROVE  /\ Len(s) # 1 /\ Tail(s) \in Seq(StageNames) /\ Tail(s) # << >>
         /\ Head(Tail(s)) = "strip" /\ Planned(Tail(s), q)
         /\ ~Does(Tail(s), "write") /\ q.op = "deleteGroup" /\ ~Does(s, "write")
<1> DEFINE t == Tail(s)
<1>1. /\ Does(s, "members") /\ InOrder(t) /\ ~Does(t, "members") /\ t \in Seq(StageNames)
      /\ Len(s) # 1 => t # << >>
      /\ Len(s) = 1 => \A stage : Does(s, stage) => stage = "members"
      /\ \A stage : Does(s, stage) <=> stage = "members" \/ Does(t, stage)
      /\ \A stage : Does(s, stage) => Rank("members") <= Rank(stage)
  BY TailInOrder DEF Planned
<1> HIDE DEF t
<1>2. t # << >> => Head(t) \in StageNames /\ Does(t, Head(t))
  BY <1>1, TailInOrder
<1>3. /\ Rank("groups") = 1 /\ Rank("user") = 1 /\ Rank("actOn") = 2 /\ Rank("last") = 3
      /\ Rank("write") = 4 /\ Rank("members") = 5 /\ Rank("strip") = 6
  BY DEF Rank
<1>4. t # << >> => Head(t) = "strip"
  BY <1>1, <1>2, <1>3 DEF StageNames
<1>5. Does(s, "strip") /\ q.op = "deleteGroup"
  BY <1>1 DEF Planned
<1>6. Len(s) # 1
  BY <1>1, <1>5
<1>7. ~Does(s, "write") /\ ~Does(s, "groups") /\ ~Does(s, "user")
  BY <1>1, <1>3
<1>8. Planned(t, q)
  BY <1>1, <1>5, <1>7 DEF Planned
<1> QED BY <1>1, <1>4, <1>5, <1>6, <1>7, <1>8 DEF t

(* A write of a group keeps it: the group of the administrators is neither
   made anew nor changed nor deleted, and a deletion goes on to the members. *)
LEMMA WriteGroupKeeps ==
  ASSUME DirectoryInv, NEW r \in Requesters, WriteGroup(r)
  PROVE  DirectoryInv'
<1> DEFINE q == rq[r].ask
           new == IF q.op = "deleteGroup" THEN Gone ELSE q.perms
<1>1. /\ At(r, "write") /\ q.user = Unset /\ UNCHANGED <<users, seeded, rejects, halved>>
      /\ \/ groups' = groups /\ Ends(r)
         \/ /\ groups' = [groups EXCEPT ![q.group] = new] /\ GoesOn(r, rq[r])
            /\ q.op = "createGroup" => groups[q.group] = Gone
  BY DEF WriteGroup
<1>2. /\ left[r] # << >> /\ left[r] \in Seq(StageNames) /\ UnderWay(left[r], rq[r]) /\ q \in DirAsks
      /\ GroupsKnown(rq[r])
      /\ seeded = "ready" /\ groups[Admin] = {All} /\ SomeAdmin
      /\ \A u, g : ~Losing(u, g)
  BY <1>1, AtWrite
<1>3. /\ q.op \in {"createGroup", "updateGroup", "deleteGroup"} /\ q.group \in GroupNames
      /\ q.perms \subseteq Perms
  BY <1>1, <1>2, AskTypes
<1>4. groups' # groups => q.group # Admin
  <2>1. groups[Admin] # Gone
    BY <1>2, DirectoryAssumption
  <2> QED BY <1>1, <1>2, <1>3, <2>1 DEF GroupsKnown, BuiltIn
<1>5. groups' \in [GroupNames -> (SUBSET Perms) \cup {Gone}] /\ groups'[Admin] = {All}
  BY <1>1, <1>2, <1>3, <1>4, DirectoryAssumption DEF DirectoryInv, DirTypes
<1>6. AdminKept'
  BY <1>1, <1>2, <1>5 DEF AdminKept, SomeAdmin, Enabled
<1>7. Planned(left[r], q) /\ Learned(left[r], rq[r]) /\ Head(left[r]) = "write"
  BY <1>1, <1>2 DEF UnderWay, At
<1>8. /\ left' \in [Requesters -> Seq(StageNames)] /\ rq' = [x \in Requesters |-> rq'[x]]
      /\ OneAtATime'
      /\ q.op = "deleteGroup" /\ groups' # groups => At(r, "members")' /\ rq'[r].ask = q
  <2>1. CASE Ends(r) /\ (q.op = "deleteGroup" => groups' = groups)
    BY <1>2, <2>1, Ended
  <2>2. CASE ~(Ends(r) /\ (q.op = "deleteGroup" => groups' = groups))
    <3> DEFINE t == Tail(left[r])
    <3>1. GoesOn(r, rq[r]) /\ groups' = [groups EXCEPT ![q.group] = new]
      BY <1>1, <2>2
    <3>2. q.op = "deleteGroup"
      BY <1>2, <1>7, <2>2, <3>1, AfterWrite DEF GoesOn
    <3>3. /\ Len(left[r]) # 1 /\ t \in Seq(StageNames) /\ t # << >>
          /\ Head(t) = "members" /\ Planned(t, q) /\ Does(t, "members") /\ ~Does(t, "write")
      BY <1>2, <1>7, <3>2, AfterWrite
    <3> HIDE DEF t, q
    <3>4. left' = [left EXCEPT ![r] = t] /\ rq' = [rq EXCEPT ![r] = rq[r]]
      BY <3>1, <3>3 DEF GoesOn, t
    <3>5. left'[r] = t /\ rq'[r] = rq[r]
      BY <3>4 DEF DirectoryInv, DirTypes
    <3>6. groups'[q.group] = Gone
      BY <1>3, <3>1, <3>2 DEF DirectoryInv, DirTypes
    <3>7. GroupsKnown(rq[r])' /\ ActChecked(rq[r])' /\ LastChecked(rq[r])'
      BY <1>2, <3>2, <3>5 DEF GroupsKnown, ActChecked, LastChecked, OfUser, q
    <3>8. Learned(left[r], rq[r])'
      BY <3>2, <3>3, <3>5, <3>6, <3>7 DEF Learned, OfUser, q
    <3>9. UnderWay(left[r], rq[r])'
      BY <1>2, <3>3, <3>5, <3>8 DEF UnderWay, q
    <3>10. /\ left' \in [Requesters -> Seq(StageNames)] /\ rq' = [x \in Requesters |-> rq'[x]]
           /\ OneAtATime'
      BY <1>1, <1>2, <3>3, <3>4, <3>9, WentOn
    <3> QED BY <3>3, <3>5, <3>10 DEF At, q
  <2> QED BY <2>1, <2>2
<1>9. GroupsThere'
  <2> SUFFICES ASSUME ~halved, NEW u \in Users, users[u] # Gone, NEW g \in users[u].groups
               PROVE  groups'[g] # Gone \/ Losing(u, g)'
    BY <1>1 DEF GroupsThere
  <2>1. groups[g] # Gone /\ g \in GroupNames
    BY <1>2 DEF DirectoryInv, GroupsThere, DirTypes, Records
  <2>2. CASE groups' = groups \/ g # q.group
    BY <1>1, <2>1, <2>2 DEF DirectoryInv, DirTypes
  <2>3. CASE q.op # "deleteGroup" /\ g = q.group
    BY <1>1, <1>3, <2>1, <2>3, DirectoryAssumption DEF DirectoryInv, DirTypes
  <2>4. CASE q.op = "deleteGroup" /\ groups' # groups /\ g = q.group
    BY <1>8, <2>4 DEF Losing
  <2> QED BY <2>2, <2>3, <2>4
<1>10. DirTypes'
  BY <1>1, <1>5, <1>8 DEF DirectoryInv, DirTypes
<1> QED BY <1>6, <1>8, <1>9, <1>10 DEF DirectoryInv

(* What holds when a deletion goes through the members. *)
LEMMA AtDeletion ==
  ASSUME DirectoryInv, NEW r \in Requesters, At(r, "members") \/ At(r, "strip")
  PROVE  /\ left[r] # << >> /\ left[r] \in Seq(StageNames) /\ UnderWay(left[r], rq[r])
         /\ rq[r].ask.op = "deleteGroup" /\ rq[r].ask.group \in GroupNames \ BuiltIn
         /\ groups[rq[r].ask.group] = Gone /\ seeded = "ready"
         /\ At(r, "strip") => MembersKnown(rq[r])
         /\ \A u, g : Losing(u, g) <=> g = rq[r].ask.group /\
                        (At(r, "members") \/ (At(r, "strip") /\ u \in DOMAIN rq[r].members))
<1>1. /\ left[r] # << >> /\ Head(left[r]) \in {"members", "strip"} /\ left[r] \in Seq(StageNames)
      /\ UnderWay(left[r], rq[r]) /\ seeded = "ready"
  BY DEF At, DirectoryInv, DirTypes, OneAtATime
<1>2. Planned(left[r], rq[r].ask) /\ Learned(left[r], rq[r]) /\ rq[r].ask \in DirAsks
  BY <1>1 DEF UnderWay
<1>3. /\ ~Does(left[r], "groups") /\ ~Does(left[r], "write")
      /\ Head(left[r]) = "strip" => ~Does(left[r], "members")
      /\ rq[r].ask.op = "deleteGroup"
  BY <1>1, <1>2, PlanGoesOn, TailInOrder DEF Planned
<1>4. rq[r].ask.group \in GroupNames \ BuiltIn
  BY <1>2, <1>3, AskTypes DEF Learned, GroupsKnown
<1>5. groups[rq[r].ask.group] = Gone /\ (At(r, "strip") => MembersKnown(rq[r]))
  BY <1>2, <1>3 DEF Learned, At
<1>6. \A x \in Requesters : left[x] # << >> => x = r
  BY <1>1 DEF DirectoryInv, OneAtATime
<1>7. \A u, g : Losing(u, g) <=> g = rq[r].ask.group /\
                        (At(r, "members") \/ (At(r, "strip") /\ u \in DOMAIN rq[r].members))
  BY <1>6 DEF Losing, At
<1> QED BY <1>1, <1>3, <1>4, <1>5, <1>7

(* Listing the members of a deleted group. *)
LEMMA ListMembersKeeps ==
  ASSUME DirectoryInv, NEW r \in Requesters, ListMembers(r)
  PROVE  DirectoryInv'
<1> DEFINE q == rq[r].ask
           members == {u \in Users : users[u] # Gone /\ q.group \in users[u].groups}
           k == [rq[r] EXCEPT !.members = [u \in members |-> users[u].groups]]
<1>1. /\ At(r, "members") /\ StoreIs
      /\ (members = {} /\ Ends(r)) \/ (members # {} /\ GoesOn(r, k))
  BY DEF ListMembers
<1>2. /\ left[r] # << >> /\ left[r] \in Seq(StageNames) /\ UnderWay(left[r], rq[r])
      /\ q.op = "deleteGroup" /\ q.group \in GroupNames \ BuiltIn /\ groups[q.group] = Gone
      /\ seeded = "ready"
      /\ \A u, g : Losing(u, g) <=> g = q.group
  BY <1>1, AtDeletion DEF At
<1>3. Planned(left[r], q) /\ Learned(left[r], rq[r]) /\ Head(left[r]) = "members"
  BY <1>1, <1>2 DEF UnderWay, At
<1>4. AdminKept'
  BY <1>1 DEF DirectoryInv, AdminKept, SomeAdmin, Enabled, StoreIs
<1>5. ~halved => \A u \in Users : users[u] # Gone =>
          \A g \in users[u].groups : groups[g] # Gone \/ (g = q.group /\ u \in members)
  BY <1>2 DEF DirectoryInv, GroupsThere
<1>6. CASE members = {} /\ Ends(r)
  <2>1. /\ left' \in [Requesters -> Seq(StageNames)] /\ rq' = [x \in Requesters |-> rq'[x]]
        /\ OneAtATime'
    BY <1>2, <1>6, Ended
  <2>2. DirTypes'
    BY <1>1, <2>1 DEF DirectoryInv, DirTypes, StoreIs
  <2>3. GroupsThere'
    BY <1>1, <1>5, <1>6 DEF GroupsThere, StoreIs
  <2> QED BY <1>4, <2>1, <2>2, <2>3 DEF DirectoryInv
<1>7. CASE members # {} /\ GoesOn(r, k)
  <2> DEFINE t == Tail(left[r])
  <2>1. /\ Len(left[r]) # 1 /\ t \in Seq(StageNames) /\ t # << >>
        /\ Head(t) = "strip" /\ Planned(t, q) /\ ~Does(t, "write")
    BY <1>2, <1>3, AfterMembers
  <2>2. /\ k = [op |-> k.ask.op, ask |-> k.ask, held |-> k.held, seen |-> k.seen,
                given |-> k.given, members |-> k.members]
        /\ k.ask = q /\ k.held = rq[r].held /\ q \in DirAsks /\ k.held \subseteq Perms
        /\ k.members = [u \in members |-> users[u].groups]
    BY <1>2 DEF UnderWay
  <2>3. MembersKnown(k)
    BY <1>7, <2>2 DEF MembersKnown
  <2> HIDE DEF t, q, k, members
  <2>4. Learned(t, k)
    BY <1>2, <2>1, <2>2, <2>3 DEF Learned, GroupsKnown, ActChecked, LastChecked, OfUser
  <2>5. left' = [left EXCEPT ![r] = t] /\ rq' = [rq EXCEPT ![r] = k]
    BY <1>7, <2>1 DEF GoesOn, t
  <2>6. left'[r] = t /\ rq'[r] = k
    BY <2>5 DEF DirectoryInv, DirTypes
  <2>7. UnderWay(left'[r], rq'[r])
    BY <2>1, <2>2, <2>4, <2>6 DEF UnderWay
  <2>8. UnderWay(left[r], rq[r])'
    BY <1>1, <2>7, StoresStay DEF StoreIs
  <2>9. /\ left' \in [Requesters -> Seq(StageNames)] /\ rq' = [x \in Requesters |-> rq'[x]]
        /\ OneAtATime'
    BY <1>1, <1>2, <2>1, <2>5, <2>8, WentOn DEF StoreIs
  <2>10. DirTypes'
    BY <1>1, <2>9 DEF DirectoryInv, DirTypes, StoreIs
  <2>11. \A u \in members, g \in {q.group} : Losing(u, g)'
    BY <2>1, <2>2, <2>6 DEF Losing, At
  <2>12. GroupsThere'
    BY <1>1, <1>5, <2>11 DEF GroupsThere, StoreIs
  <2> QED BY <1>4, <2>9, <2>10, <2>12 DEF DirectoryInv
<1> QED BY <1>1, <1>6, <1>7

(* Taking the group from one member: not the administrators' group. *)
LEMMA StripMemberKeeps ==
  ASSUME DirectoryInv, NEW r \in Requesters, StripMember(r)
  PROVE  DirectoryInv'
<1> DEFINE q == rq[r].ask
           members == rq[r].members
<1>1. At(r, "strip") /\ UNCHANGED <<groups, seeded, rejects>>
  BY DEF StripMember
<1>2. /\ left[r] # << >> /\ left[r] \in Seq(StageNames) /\ UnderWay(left[r], rq[r])
      /\ q.op = "deleteGroup" /\ q.group \in GroupNames \ BuiltIn /\ groups[q.group] = Gone
      /\ seeded = "ready" /\ MembersKnown(rq[r])
  BY <1>1, AtDeletion
<1>3. \A u, g : Losing(u, g) <=> g = q.group /\ u \in DOMAIN members
  <2>1. ~At(r, "members")
    BY <1>1 DEF At
  <2> QED BY <1>1, <2>1, AtDeletion
<1>4. PICK u \in DOMAIN members :
        LET rest == [v \in DOMAIN members \ {u} |-> members[v]] IN
        /\ users' = IF users[u] = Gone THEN users
                    ELSE [users EXCEPT ![u].groups = members[u] \ {q.group}]
        /\ halved' = (halved \/ (users[u] = Gone /\ DOMAIN rest # {}))
        /\ IF users[u] = Gone \/ DOMAIN rest = {} THEN Ends(r)
           ELSE rq' = [rq EXCEPT ![r].members = rest] /\ UNCHANGED left
  BY DEF StripMember
<1> DEFINE rest == [v \in DOMAIN members \ {u} |-> members[v]]
<1>5. /\ u \in Users /\ users[u] # Gone /\ members[u] = users[u].groups
      /\ \A v \in DOMAIN members : v \in Users /\ users[v] # Gone /\ members[v] = users[v].groups
  BY <1>2 DEF MembersKnown
<1>6. /\ users' = [users EXCEPT ![u].groups = users[u].groups \ {q.group}]
      /\ halved' = halved
      /\ IF DOMAIN members \ {u} = {} THEN Ends(r)
         ELSE rq' = [rq EXCEPT ![r].members = rest] /\ UNCHANGED left
  <2>1. DOMAIN rest = DOMAIN members \ {u}
    OBVIOUS
  <2>2. /\ users' = [users EXCEPT ![u].groups = members[u] \ {q.group}]
        /\ halved' = (halved \/ FALSE)
        /\ IF DOMAIN rest = {} THEN Ends(r)
           ELSE rq' = [rq EXCEPT ![r].members = rest] /\ UNCHANGED left
    BY <1>4, <1>5, Zenon
  <2>3. halved' = halved
    BY <2>2 DEF DirectoryInv, DirTypes
  <2> QED BY <1>5, <2>1, <2>2, <2>3
<1>7. /\ users[u] \in Records
      /\ users'[u] = [users[u] EXCEPT !.groups = users[u].groups \ {q.group}]
      /\ \A v \in Users : v # u => users'[v] = users[v]
  BY <1>5, <1>6 DEF DirectoryInv, DirTypes
<1>8. /\ users'[u] \in Records /\ users'[u].groups = users[u].groups \ {q.group}
      /\ users'[u].disabled = users[u].disabled
  BY <1>7 DEF Records
<1>9. users'[u] # Gone /\ users' \in [Users -> Records \cup {Gone}]
  <2>1. users'[u] # Gone
    BY <1>8, DirectoryAssumption
  <2>2. users' = [users EXCEPT ![u] = users'[u]]
    BY <1>5, <1>6, <1>7 DEF DirectoryInv, DirTypes
  <2> QED BY <1>8, <2>1, <2>2 DEF DirectoryInv, DirTypes
<1> HIDE DEF q, members, rest
<1>10. AdminKept'
  <2>1. SomeAdmin
    BY <1>2 DEF DirectoryInv, AdminKept
  <2>2. q.group # Admin
    BY <1>2 DEF BuiltIn
  <2>3. PICK v \in Users : Enabled(v) /\ Admin \in users[v].groups
    BY <2>1 DEF SomeAdmin
  <2>4. users'[v] # Gone /\ ~users'[v].disabled /\ Admin \in users'[v].groups
    <3>1. CASE v = u
      BY <1>8, <1>9, <2>2, <2>3, <3>1 DEF Enabled
    <3>2. CASE v # u
      BY <1>7, <2>3, <3>2 DEF Enabled
    <3> QED BY <3>1, <3>2
  <2>5. SomeAdmin'
    BY <2>4 DEF SomeAdmin, Enabled
  <2> QED BY <1>1, <2>5 DEF DirectoryInv, AdminKept
<1>11. ~halved => \A v \in Users : users'[v] # Gone => \A g \in users'[v].groups :
                     groups[g] # Gone \/ (g = q.group /\ v \in DOMAIN members \ {u})
  <2> SUFFICES ASSUME ~halved, NEW v \in Users, users'[v] # Gone, NEW g \in users'[v].groups
               PROVE  groups[g] # Gone \/ (g = q.group /\ v \in DOMAIN members \ {u})
    OBVIOUS
  <2>1. \A h \in users[v].groups : users[v] # Gone =>
           groups[h] # Gone \/ (h = q.group /\ v \in DOMAIN members)
    BY <1>3 DEF DirectoryInv, GroupsThere
  <2>2. CASE v = u
    BY <1>5, <1>8, <2>1, <2>2
  <2>3. CASE v # u
    BY <1>7, <2>1, <2>3
  <2> QED BY <2>2, <2>3
<1>12. CASE DOMAIN members \ {u} = {} /\ Ends(r)
  <2>1. /\ left' \in [Requesters -> Seq(StageNames)] /\ rq' = [x \in Requesters |-> rq'[x]]
        /\ OneAtATime'
    BY <1>2, <1>12, Ended
  <2>2. DirTypes'
    BY <1>1, <1>6, <1>9, <2>1 DEF DirectoryInv, DirTypes
  <2>3. GroupsThere'
    BY <1>1, <1>6, <1>11, <1>12 DEF GroupsThere
  <2> QED BY <1>10, <2>1, <2>2, <2>3 DEF DirectoryInv
<1>13. CASE DOMAIN members \ {u} # {} /\ rq' = [rq EXCEPT ![r].members = rest] /\ UNCHANGED left
  <2> DEFINE k == [rq[r] EXCEPT !.members = rest]
  <2>1. rq' = [rq EXCEPT ![r] = k] /\ left' = [left EXCEPT ![r] = left[r]]
    BY <1>13 DEF DirectoryInv, DirTypes
  <2>2. /\ k = [op |-> k.ask.op, ask |-> k.ask, held |-> k.held, seen |-> k.seen,
                given |-> k.given, members |-> k.members]
        /\ k.ask = q /\ k.held = rq[r].held /\ q \in DirAsks /\ k.held \subseteq Perms
        /\ k.members = rest
    BY <1>2 DEF UnderWay, q
  <2>3. DOMAIN rest = DOMAIN members \ {u} /\ \A v \in DOMAIN rest : rest[v] = members[v]
    BY DEF rest
  <2> HIDE DEF k
  <2>4. rq'[r] = k /\ left'[r] = left[r]
    BY <2>1 DEF DirectoryInv, DirTypes
  <2>5. MembersKnown(rq[r])'
    BY <1>5, <1>7, <1>13, <2>2, <2>3, <2>4 DEF MembersKnown
  <2>6. ~Does(left[r], "write") /\ Planned(left[r], q)
    <3>1. Planned(left[r], q)
      BY <1>2 DEF UnderWay, q
    <3> QED BY <1>1, <1>2, <3>1, PlanGoesOn DEF At
  <2>7. Learned(left[r], rq[r])'
    BY <1>1, <1>2, <2>2, <2>4, <2>5, <2>6 DEF Learned, GroupsKnown, ActChecked, LastChecked, OfUser
  <2>8. UnderWay(left[r], rq[r])'
    BY <2>2, <2>4, <2>6, <2>7 DEF UnderWay
  <2>9. /\ left' \in [Requesters -> Seq(StageNames)] /\ rq' = [x \in Requesters |-> rq'[x]]
        /\ OneAtATime'
    BY <1>1, <1>2, <2>1, <2>8, WentOn
  <2>10. DirTypes'
    BY <1>1, <1>6, <1>9, <2>9 DEF DirectoryInv, DirTypes
  <2>11. \A v \in DOMAIN members \ {u}, g \in {q.group} : Losing(v, g)'
    BY <1>1, <2>2, <2>3, <2>4 DEF Losing, At
  <2>12. GroupsThere'
    BY <1>1, <1>6, <1>11, <2>11 DEF GroupsThere
  <2> QED BY <1>10, <2>9, <2>10, <2>12 DEF DirectoryInv
<1> QED BY <1>6, <1>12, <1>13

(* A request that is received knows nothing yet. *)
LEMMA ReceiveKeeps ==
  ASSUME DirectoryInv, ~Overlap, NEW r \in Requesters, Receive(r)
  PROVE  DirectoryInv'
<1>1. /\ seeded = "ready" /\ \A x \in Requesters : left[x] = << >>
      /\ UNCHANGED <<users, groups, seeded, rejects, halved>>
  BY DEF Receive
<1>2. PICK q \in DirAsks :
        /\ rq' = [rq EXCEPT ![r] = [op |-> q.op, ask |-> q, held |-> PermsOf(users[q.by].groups),
                                    seen |-> Gone, given |-> << >>, members |-> << >>]]
        /\ left' = [left EXCEPT ![r] = Stages(q)] /\ Enabled(q.by)
  BY DEF Receive
<1> DEFINE k == [op |-> q.op, ask |-> q, held |-> PermsOf(users[q.by].groups),
                 seen |-> Gone, given |-> << >>, members |-> << >>]
           s == Stages(q)
<1>3. /\ s \in Seq(StageNames) /\ s # << >> /\ Planned(s, q)
      /\ Does(s, "write")
      /\ q.op \in OfUser => Does(s, "user")
      /\ q.op # "deleteUser" /\ (q.op = "updateUser" => q.groups # Unset) => Does(s, "groups")
      /\ q.op \in OfUser /\ (q.op = "updateUser" => q.groups # Unset \/ q.disabled # Unset)
           => Does(s, "actOn")
      /\ q.op \in {"updateUser", "deleteUser"} \/ (q.op = "removeMember" /\ q.group = Admin)
           => Does(s, "last")
      /\ q.op = "deleteGroup" => Does(s, "members")
  BY StagesPlanned
<1>4. k.held \subseteq Perms
  <2>1. users[q.by] \in Records
    BY <1>2, AskTypes DEF Enabled, DirectoryInv, DirTypes
  <2>2. users[q.by].groups \subseteq GroupNames
    BY <2>1 DEF Records
  <2> QED BY <2>2, PermsFacts DEF DirectoryInv
<1>5. /\ k.ask = q /\ k.held = PermsOf(users[q.by].groups)
      /\ k = [op |-> k.ask.op, ask |-> k.ask, held |-> k.held, seen |-> k.seen,
              given |-> k.given, members |-> k.members]
  OBVIOUS
<1> HIDE DEF k, s
<1>6. Learned(s, k)
  BY <1>3, <1>5 DEF Learned, GroupsKnown, ActChecked, LastChecked
<1>7. rq' = [rq EXCEPT ![r] = k] /\ left' = [left EXCEPT ![r] = s]
  BY <1>2 DEF k, s
<1>8. left'[r] = s /\ rq'[r] = k /\ \A x \in Requesters \ {r} : left'[x] = << >>
  BY <1>1, <1>7 DEF DirectoryInv, DirTypes
<1>9. UnderWay(left'[r], rq'[r])
  BY <1>3, <1>4, <1>5, <1>6, <1>8 DEF UnderWay
<1>10. UnderWay(left[r], rq[r])'
  BY <1>1, <1>9, StoresStay
<1>11. OneAtATime'
  BY <1>1, <1>8, <1>10 DEF OneAtATime
<1>12. DirTypes'
  BY <1>1, <1>3, <1>7 DEF DirectoryInv, DirTypes
<1>13. AdminKept'
  BY <1>1 DEF DirectoryInv, AdminKept, SomeAdmin, Enabled
<1>14. GroupsThere'
  <2>1. \A u, g : ~Losing(u, g)
    BY <1>1 DEF Losing, At
  <2> QED BY <1>1, <2>1 DEF DirectoryInv, GroupsThere
<1> QED BY <1>11, <1>12, <1>13, <1>14 DEF DirectoryInv

(* A request that ends in an error: what it wrote stays. *)
LEMMA RejectKeeps ==
  ASSUME DirectoryInv, NEW r \in Requesters, CallRejects(r)
  PROVE  DirectoryInv'
<1>1. /\ left[r] # << >> /\ Ends(r) /\ UNCHANGED <<users, groups, seeded>>
      /\ halved' = (halved \/ Head(left[r]) \in {"members", "strip"})
  BY DEF CallRejects
<1>2. /\ left' \in [Requesters -> Seq(StageNames)] /\ rq' = [x \in Requesters |-> rq'[x]]
      /\ OneAtATime'
  BY <1>1, Ended
<1>3. halved' \in BOOLEAN
  BY <1>1
<1>4. DirTypes'
  BY <1>1, <1>2, <1>3 DEF DirectoryInv, DirTypes
<1>5. AdminKept'
  BY <1>1 DEF DirectoryInv, AdminKept, SomeAdmin, Enabled
<1>6. ~halved' => ~halved /\ Head(left[r]) \notin {"members", "strip"}
  BY <1>1
<1>7. GroupsThere'
  BY <1>1, <1>6, NothingLost DEF DirectoryInv, GroupsThere
<1> QED BY <1>2, <1>4, <1>5, <1>7 DEF DirectoryInv

(* A restart drops the request and begins to seed again. *)
LEMMA RestartKeeps == DirectoryInv /\ Restarts => DirectoryInv'
<1> SUFFICES ASSUME DirectoryInv, Restarts PROVE DirectoryInv'
  OBVIOUS
<1>1. /\ seeded' = "admin" /\ UNCHANGED <<users, groups>>
      /\ rq' = [r \in Requesters |-> NoRequest] /\ left' = [r \in Requesters |-> << >>]
      /\ halved' = (halved \/ \E r \in Requesters : left[r] # << >> /\ Head(left[r]) \in {"members", "strip"})
  BY DEF Restarts
<1>2. halved' \in BOOLEAN
  BY <1>1
<1>3. << >> \in Seq(StageNames)
  BY EmptySeq
<1>4. DirTypes'
  BY <1>1, <1>2, <1>3 DEF DirectoryInv, DirTypes
<1>5. OneAtATime'
  BY <1>1 DEF OneAtATime
<1>6. AdminKept'
  BY <1>1 DEF DirectoryInv, AdminKept, SomeAdmin, Enabled
<1>7. ~halved' => ~halved /\ \A u, g : ~Losing(u, g)
  BY <1>1 DEF Losing, At
<1>8. GroupsThere'
  BY <1>1, <1>7 DEF DirectoryInv, GroupsThere
<1> QED BY <1>4, <1>5, <1>6, <1>8 DEF DirectoryInv

(* Seeding adds what is not there, before any request is received. *)
LEMMA SeedKeeps == DirectoryInv /\ Seed /\ UNCHANGED <<rq, left, rejects, halved>> => DirectoryInv'
<1> SUFFICES ASSUME DirectoryInv, Seed, UNCHANGED <<rq, left, rejects, halved>>
             PROVE  DirectoryInv'
  OBVIOUS
<1>1. seeded # "ready"
  BY DEF Seed
<1>2. \A r \in Requesters : left[r] = << >>
  BY <1>1 DEF DirectoryInv, OneAtATime
<1>3. OneAtATime' /\ \A u, g : ~Losing(u, g)
  BY <1>2 DEF OneAtATime, Losing, At
<1>4. \A S \in SUBSET Perms : S # Gone
  BY DirectoryAssumption
<1>5. {All} \in SUBSET Perms /\ Admin \in GroupNames /\ Everyone \in GroupNames /\ Admin # Everyone
      /\ Root \in Users
  BY DirectoryAssumption
<1>6. CASE seeded \in {"admin", "everyone"}
  <2>1. PICK g \in GroupNames, S \in SUBSET Perms :
          /\ groups' = groups \/ (groups[g] = Gone /\ groups' = [groups EXCEPT ![g] = S])
          /\ users' = users /\ seeded' \in {"everyone", "root"}
          /\ seeded = "admin" => g = Admin /\ S = {All} /\ groups'[Admin] # Gone
          /\ seeded = "everyone" => g = Everyone
    <3>1. CASE seeded = "admin"
      <4>1. /\ groups' = IF groups[Admin] = Gone THEN [groups EXCEPT ![Admin] = {All}] ELSE groups
            /\ users' = users /\ seeded' = "everyone"
        BY <3>1 DEF Seed
      <4>2. groups'[Admin] # Gone
        BY <1>4, <1>5, <4>1 DEF DirectoryInv, DirTypes
      <4> QED BY <1>5, <3>1, <4>1, <4>2
    <3>2. CASE seeded = "everyone"
      <4>1. PICK basic \in SUBSET (Perms \ {All, Manage}) :
               groups' = IF groups[Everyone] = Gone THEN [groups EXCEPT ![Everyone] = basic] ELSE groups
        BY <3>2 DEF Seed
      <4>2. basic \in SUBSET Perms /\ users' = users /\ seeded' = "root"
        BY <3>2 DEF Seed
      <4> QED BY <1>5, <3>2, <4>1, <4>2
    <3> QED BY <1>6, <3>1, <3>2
  <2>2. /\ groups' \in [GroupNames -> (SUBSET Perms) \cup {Gone}]
        /\ \A h \in GroupNames : groups[h] # Gone => groups'[h] = groups[h]
    BY <2>1 DEF DirectoryInv, DirTypes
  <2>3. DirTypes'
    BY <2>1, <2>2 DEF DirectoryInv, DirTypes
  <2>4. groups'[Admin] = {All}
    BY <1>4, <1>5, <1>6, <2>1, <2>2 DEF DirectoryInv, AdminKept, DirTypes
  <2>5. AdminKept'
    BY <1>1, <2>1, <2>4 DEF DirectoryInv, AdminKept, SomeAdmin, Enabled
  <2>6. GroupsThere'
    <3> SUFFICES ASSUME ~halved, NEW u \in Users, users[u] # Gone, NEW h \in users[u].groups
                 PROVE  groups'[h] # Gone
      BY <2>1 DEF GroupsThere
    <3>1. groups[h] # Gone /\ h \in GroupNames
      BY <1>3 DEF DirectoryInv, GroupsThere, DirTypes, Records
    <3> QED BY <2>2, <3>1
  <2> QED BY <1>3, <2>3, <2>5, <2>6 DEF DirectoryInv
<1>7. CASE seeded = "root"
  <2> DEFINE root == [groups |-> {Admin}, disabled |-> FALSE]
  <2>1. /\ seeded' = "ready" /\ groups' = groups
        /\ users' = IF \A u \in Users : users[u] = Gone THEN [users EXCEPT ![Root] = root] ELSE users
    BY <1>7 DEF Seed
  <2>2. root \in Records
    BY <1>5 DEF Records
  <2>3. root # Gone /\ root.groups = {Admin} /\ ~root.disabled
    BY <2>2, DirectoryAssumption
  <2>4. groups[Admin] = {All}
    BY <1>7 DEF DirectoryInv, AdminKept
  <2> HIDE DEF root
  <2>5. CASE \A u \in Users : users[u] = Gone
    <3>1. users'[Root] = root /\ \A u \in Users : u # Root => users'[u] = Gone
      BY <1>5, <2>1, <2>5 DEF DirectoryInv, DirTypes
    <3>2. DirTypes'
      BY <2>1, <2>2, <2>5 DEF DirectoryInv, DirTypes
    <3>3. SomeAdmin'
      BY <1>5, <2>3, <3>1 DEF SomeAdmin, Enabled
    <3>4. AdminKept'
      BY <2>1, <2>4, <3>3 DEF AdminKept
    <3>5. GroupsThere'
      <4>1. groups[Admin] # Gone
        BY <1>4, <1>5, <2>4
      <4> QED BY <2>1, <2>3, <3>1, <4>1 DEF GroupsThere
    <3> QED BY <1>3, <3>2, <3>4, <3>5 DEF DirectoryInv
  <2>6. CASE ~\A u \in Users : users[u] = Gone
    <3>1. users' = users
      BY <2>1, <2>6
    <3>2. DirTypes'
      BY <2>1, <3>1 DEF DirectoryInv, DirTypes
    <3>3. AdminKept'
      BY <2>1, <2>4, <2>6, <3>1 DEF DirectoryInv, AdminKept, SomeAdmin, Enabled
    <3>4. GroupsThere'
      BY <1>3, <2>1, <3>1 DEF DirectoryInv, GroupsThere
    <3> QED BY <1>3, <3>2, <3>3, <3>4 DEF DirectoryInv
  <2> QED BY <2>5, <2>6
<1> QED BY <1>1, <1>6, <1>7 DEF DirectoryInv, DirTypes

----------------------------------------------------------------------------
(* The invariant is inductive. *)
LEMMA DirectoryInit == DirInit => DirectoryInv
<1>1. << >> \in Seq(StageNames)
  BY EmptySeq
<1> SUFFICES ASSUME DirInit PROVE DirectoryInv
  OBVIOUS
<1>2. DirTypes
  BY <1>1 DEF DirInit, DirTypes
<1>3. OneAtATime /\ AdminKept /\ GroupsThere
  BY DirectoryAssumption DEF DirInit, OneAtATime, AdminKept, GroupsThere
<1> QED BY <1>2, <1>3 DEF DirectoryInv

LEMMA DirectoryStep == ASSUME ~Overlap, DirectoryInv, [DirNext]_dirvars PROVE DirectoryInv'
<1>1. CASE UNCHANGED dirvars
  <2>1. /\ users' = users /\ groups' = groups /\ seeded' = seeded /\ rq' = rq /\ left' = left
        /\ halved' = halved
    BY <1>1 DEF dirvars
  <2>2. \A r \in Requesters : UnderWay(left[r], rq[r]) => UnderWay(left[r], rq[r])'
    BY <2>1, StoresStay
  <2>3. OneAtATime'
    BY <2>1, <2>2 DEF DirectoryInv, OneAtATime
  <2>4. DirTypes'
    BY <2>1 DEF DirectoryInv, DirTypes
  <2>5. AdminKept'
    BY <2>1 DEF DirectoryInv, AdminKept, SomeAdmin, Enabled
  <2>6. GroupsThere'
    BY <2>1 DEF DirectoryInv, GroupsThere, Losing, At
  <2> QED BY <2>3, <2>4, <2>5, <2>6 DEF DirectoryInv
<1>2. CASE Seed /\ UNCHANGED <<rq, left, rejects, halved>>
  BY <1>2, SeedKeeps
<1>3. CASE Restarts
  BY <1>3, RestartKeeps
<1>4. ASSUME NEW r \in Requesters, Request(r)
      PROVE  DirectoryInv'
  BY <1>4, ReceiveKeeps, ReadsKeep, WriteUserKeeps, WriteGroupKeeps, ListMembersKeeps,
     StripMemberKeeps, RejectKeeps DEF Request
<1> QED BY <1>1, <1>2, <1>3, <1>4 DEF DirNext

LEMMA DirectoryInductive == ASSUME ~Overlap PROVE DirSpec => []DirectoryInv
<1>1. DirectoryInv /\ [DirNext]_dirvars => DirectoryInv'
  BY DirectoryStep
<1> QED BY <1>1, DirectoryInit, PTL DEF DirSpec

(* "The last enabled member of admin cannot be deleted, disabled or removed
   from admin": over stores whose calls do not wait somebody can always
   administer, whatever is asked by whom, and whatever fails. *)
THEOREM AdministratorRemains == ~Overlap => (DirSpec => []AdminRemains)
<1> SUFFICES ASSUME ~Overlap PROVE DirSpec => []AdminRemains
  OBVIOUS
<1>1. DirectoryInv => AdminRemains
  BY DEF DirectoryInv, AdminKept, SomeAdmin, AdminRemains
<1> QED BY <1>1, DirectoryInductive, PTL

(* "Deleting a group removes it from every user": nobody is listed in a group
   that is not there, unless its deletion is going on or ended half-way. *)
THEOREM MembershipsAreReal == ~Overlap => (DirSpec => []NoDanglingMembership)
<1> SUFFICES ASSUME ~Overlap PROVE DirSpec => []NoDanglingMembership
  OBVIOUS
<1>1. DirectoryInv => NoDanglingMembership
  BY DEF DirectoryInv, GroupsThere, Losing, NoDanglingMembership
<1> QED BY <1>1, DirectoryInductive, PTL

----------------------------------------------------------------------------
(* What a user may do, permission by permission. *)
LEMMA PowersAre ==
  ASSUME NEW u \in Users
  PROVE  /\ \A p : p \in Powers(u) <=>
              /\ users[u] # Gone /\ ~users[u].disabled
              /\ \E g \in users[u].groups : groups[g] # Gone /\ p \in groups[g]
         /\ \A p : p \in Powers(u)' <=>
              /\ users'[u] # Gone /\ ~users'[u].disabled
              /\ \E g \in users'[u].groups : groups'[g] # Gone /\ p \in groups'[g]
<1>1. \A names, p : p \in PermsOf(names) <=> \E g \in names : groups[g] # Gone /\ p \in groups[g]
  BY Zenon DEF PermsOf
<1>2. \A names, p : p \in PermsOf(names)' <=> \E g \in names' : groups'[g] # Gone /\ p \in groups'[g]
  BY Zenon DEF PermsOf
<1>3. \A p : p \in Powers(u) <=>
              /\ users[u] # Gone /\ ~users[u].disabled
              /\ \E g \in users[u].groups : groups[g] # Gone /\ p \in groups[g]
  BY <1>1 DEF Powers, Enabled
<1>4. \A p : p \in Powers(u)' <=>
              /\ users'[u] # Gone /\ ~users'[u].disabled
              /\ \E g \in users'[u].groups : groups'[g] # Gone /\ p \in groups'[g]
  BY Zenon DEF Powers, Enabled, PermsOf
<1> QED BY <1>3, <1>4

(* A write of a user gives it nothing that the caller does not have. *)
LEMMA WriteUserGives ==
  ASSUME DirectoryInv, NEW r \in Requesters, WriteUser(r), NEW u \in Users,
         rq[r].op = "createUser" => rq[r].ask.groups # {}
  PROVE  Covers(rq[r].held, Powers(u)' \ Powers(u))
<1> DEFINE k == rq[r]
           q == k.ask
           new == Rewritten(q, k.seen)
<1>1. /\ At(r, "write") /\ q.user # Unset /\ groups' = groups
      /\ users' = users \/ users' = [users EXCEPT ![q.user] = new]
  BY DEF WriteUser
<1>2. /\ UnderWay(left[r], k) /\ q \in DirAsks
      /\ q.op \in OfUser => users[q.user] # Gone /\ k.seen = users[q.user]
      /\ GroupsKnown(k) /\ ActChecked(k)
  BY <1>1, AtWrite
<1>3. /\ q.op \in OfUser \cup {"createUser"} /\ q.user \in Users
      /\ q.op = "createUser" => q.groups # {}
  <2>1. k.op = q.op
    BY <1>2 DEF UnderWay
  <2> QED BY <1>1, <1>2, <2>1, AskTypes DEF OfUser
<1>4. q.op # "deleteUser" =>
        \A g \in new.groups :
           \/ q.op # "createUser" /\ g \in users[q.user].groups
           \/ /\ groups[g] # Gone /\ g \in Named(q) /\ q.op \in {"createUser", "updateUser", "addMember"}
              /\ q.op = "updateUser" => q.groups # Unset
  <2>1. q.op # "createUser" => users[q.user] # Gone /\ k.seen = users[q.user]
    BY <1>2, <1>3
  <2>2. DirTypes
    BY DEF DirectoryInv
  <2> QED BY <1>2, <1>3, <2>1, <2>2, RewrittenFacts
<1>5. q.op = "deleteUser" => new = Gone
  BY DEF Rewritten
<1>6. \A g \in Named(q) \cap new.groups : \A p :
        /\ groups[g] # Gone /\ p \in groups[g] /\ q.op \in {"createUser", "updateUser", "addMember"}
        /\ q.op = "updateUser" => q.groups # Unset
        /\ q.op # "createUser" => g \notin users[q.user].groups
        => All \in k.held \/ p \in k.held
  <2> SUFFICES ASSUME NEW g \in Named(q), NEW p, groups[g] # Gone, p \in groups[g],
                      q.op \in {"createUser", "updateUser", "addMember"},
                      q.op = "updateUser" => q.groups # Unset,
                      q.op # "createUser" => g \notin users[q.user].groups
               PROVE  All \in k.held \/ p \in k.held
    OBVIOUS
  <2>1. CASE q.op = "createUser"
    <3>1. Covers(k.held, PermsOf(q.groups)) /\ Named(q) = q.groups
      BY <1>2, <1>3, <2>1 DEF GroupsKnown, Named
    <3>2. p \in PermsOf(q.groups)
      BY <3>1, Zenon DEF PermsOf
    <3> QED BY <3>1, <3>2 DEF Covers
  <2>2. CASE q.op = "updateUser"
    <3>1. /\ Covers(k.held, UNION {k.given[h] : h \in q.groups \ k.seen.groups})
          /\ Named(q) = q.groups /\ k.given[g] = groups[g] /\ k.seen = users[q.user]
      BY <1>2, <2>2 DEF ActChecked, MayAdd, OfUser, GroupsKnown, Named
    <3>2. p \in UNION {k.given[h] : h \in q.groups \ k.seen.groups}
      BY <2>2, <3>1
    <3> QED BY <3>1, <3>2 DEF Covers
  <2>3. CASE q.op = "addMember"
    <3>1. Covers(k.held, k.given[q.group]) /\ g = q.group /\ k.given[g] = groups[g]
      BY <1>2, <2>3 DEF ActChecked, MayAdd, OfUser, GroupsKnown, Named
    <3> QED BY <3>1 DEF Covers
  <2> QED BY <2>1, <2>2, <2>3
<1>7. q.op \in OfUser /\ (q.op = "updateUser" => q.groups # Unset \/ q.disabled # Unset) =>
        \A g \in users[q.user].groups : \A p :
          groups[g] # Gone /\ p \in groups[g] => All \in k.held \/ p \in k.held
  <2>1. \A g \in users[q.user].groups : \A p :
          groups[g] # Gone /\ p \in groups[g] => p \in PermsOf(users[q.user].groups)
    BY Zenon DEF PermsOf
  <2> QED BY <1>2, <2>1 DEF ActChecked, Covers
<1>8. q.op = "updateUser" /\ q.groups = Unset /\ q.disabled = Unset =>
        new.groups = users[q.user].groups /\ new.disabled = users[q.user].disabled
  BY DEF Rewritten
<1>9. /\ \A v \in Users : v # q.user => users'[v] = users[v]
      /\ users' = users \/ users'[q.user] = new
  BY <1>1, <1>3 DEF DirectoryInv, DirTypes
<1> HIDE DEF k, q, new
<1>10. ASSUME NEW p \in Powers(u)', p \notin Powers(u)
       PROVE  All \in k.held \/ p \in k.held
  <2>1. /\ users'[u] # Gone /\ ~users'[u].disabled
        /\ \E g \in users'[u].groups : groups[g] # Gone /\ p \in groups[g]
    BY <1>1, <1>10, PowersAre
  <2>2. ~(/\ users[u] # Gone /\ ~users[u].disabled
          /\ \E g \in users[u].groups : groups[g] # Gone /\ p \in groups[g])
    BY <1>10, PowersAre
  <2>3. u = q.user /\ users'[u] = new
    BY <1>9, <2>1, <2>2
  <2>4. q.op # "deleteUser"
    BY <1>5, <2>1, <2>3
  <2>5. PICK g \in new.groups : groups[g] # Gone /\ p \in groups[g]
    BY <2>1, <2>3
  <2>6. CASE q.op # "createUser" /\ g \in users[q.user].groups
    <3>1. q.op \in OfUser /\ users[u] # Gone
      BY <1>2, <1>3, <2>3, <2>6
    <3>2. q.op = "updateUser" => q.groups # Unset \/ q.disabled # Unset
      BY <1>8, <2>1, <2>2, <2>3, <2>5, <3>1
    <3> QED BY <1>7, <2>5, <2>6, <3>1, <3>2
  <2>7. CASE ~(q.op # "createUser" /\ g \in users[q.user].groups)
    BY <1>4, <1>6, <2>4, <2>5, <2>7
  <2> QED BY <2>6, <2>7
<1> QED BY <1>10 DEF Covers, k

(* A write of a group gives its members what the caller has. *)
LEMMA WriteGroupGives ==
  ASSUME DirectoryInv, NEW r \in Requesters, WriteGroup(r), NEW u \in Users
  PROVE  Covers(rq[r].held, Powers(u)' \ Powers(u))
<1> DEFINE q == rq[r].ask
           new == IF q.op = "deleteGroup" THEN Gone ELSE q.perms
<1>1. /\ At(r, "write") /\ q.user = Unset /\ users' = users
      /\ groups' = groups \/ groups' = [groups EXCEPT ![q.group] = new]
  BY DEF WriteGroup
<1>2. q \in DirAsks /\ GroupsKnown(rq[r])
  BY <1>1, AtWrite
<1>3. q.op \in {"createGroup", "updateGroup", "deleteGroup"} /\ q.group \in GroupNames
  BY <1>1, <1>2, AskTypes
<1>4. q.op # "deleteGroup" => Covers(rq[r].held, q.perms)
  BY <1>2, <1>3 DEF GroupsKnown
<1>5. \A g \in GroupNames : groups'[g] = groups[g] \/ (g = q.group /\ groups'[g] = new)
  BY <1>1, <1>3 DEF DirectoryInv, DirTypes
<1>6. users[u] # Gone => users[u].groups \subseteq GroupNames
  BY DEF DirectoryInv, DirTypes, Records
<1> HIDE DEF q
<1>7. ASSUME NEW p \in Powers(u)', p \notin Powers(u)
      PROVE  q.op # "deleteGroup" /\ p \in q.perms
  <2>1. /\ users[u] # Gone /\ ~users[u].disabled
        /\ \E g \in users[u].groups : groups'[g] # Gone /\ p \in groups'[g]
    BY <1>1, <1>7, PowersAre
  <2>2. PICK g \in users[u].groups : groups'[g] # Gone /\ p \in groups'[g]
    BY <2>1
  <2>3. ~(groups[g] # Gone /\ p \in groups[g])
    BY <1>7, <2>1, PowersAre
  <2>4. groups'[g] = new
    BY <1>5, <1>6, <2>1, <2>2, <2>3
  <2> QED BY <2>2, <2>4
<1> QED BY <1>4, <1>7 DEF Covers

(* Taking a group from its member gives nobody anything. *)
LEMMA StripMemberGives ==
  ASSUME DirectoryInv, NEW r \in Requesters, StripMember(r), NEW u \in Users
  PROVE  Powers(u)' \subseteq Powers(u)
<1> DEFINE g == rq[r].ask.group
           members == rq[r].members
<1>1. groups' = groups /\ MembersKnown(rq[r])
  BY AtDeletion DEF StripMember
<1>2. PICK v \in DOMAIN members :
        users' = IF users[v] = Gone THEN users
                 ELSE [users EXCEPT ![v].groups = members[v] \ {g}]
  BY DEF StripMember
<1>3. v \in Users /\ users[v] # Gone /\ members[v] = users[v].groups
  BY <1>1 DEF MembersKnown
<1>4. users[v] \in Records
  BY <1>3 DEF DirectoryInv, DirTypes
<1>5. /\ users'[v].groups = users[v].groups \ {g} /\ users'[v].disabled = users[v].disabled
      /\ \A w \in Users : w # v => users'[w] = users[w]
  BY <1>2, <1>3, <1>4 DEF DirectoryInv, DirTypes, Records
<1> HIDE DEF g
<1>6. ASSUME NEW p \in Powers(u)' PROVE p \in Powers(u)
  <2>1. /\ users'[u] # Gone /\ ~users'[u].disabled
        /\ \E h \in users'[u].groups : groups[h] # Gone /\ p \in groups[h]
    BY <1>1, <1>6, PowersAre
  <2>2. /\ users[u] # Gone /\ ~users[u].disabled
        /\ \E h \in users[u].groups : groups[h] # Gone /\ p \in groups[h]
    BY <1>3, <1>5, <2>1
  <2> QED BY <2>2, PowersAre
<1> QED BY <1>6

(* Who may do what changes with a write only. *)
LEMMA PowersStay ==
  ASSUME users' = users, groups' = groups, NEW u \in Users, NEW held
  PROVE  Covers(held, Powers(u)' \ Powers(u))
<1>1. Powers(u)' = Powers(u)
  BY PowersAre
<1> QED BY <1>1 DEF Covers

(* No privilege escalation: whatever a step of a request adds to what anybody
   may do, its caller could do; over stores whose calls do not wait. *)
THEOREM NobodyEscalates == ~Overlap => (DirSpec => NoEscalation)
<1> SUFFICES ASSUME ~Overlap PROVE DirSpec => NoEscalation
  OBVIOUS
<1> DEFINE Justified(u, r) ==
      left'[r] # left[r] /\ left[r] # << >> /\ (rq[r].op = "createUser" => rq[r].ask.groups # {})
        => Covers(rq[r].held, Powers(u)' \ Powers(u))
<1>1. ASSUME DirectoryInv, [DirNext]_dirvars, NEW u \in Users, NEW r \in Requesters
      PROVE  Justified(u, r)
  <2> SUFFICES ASSUME left'[r] # left[r], left[r] # << >>,
                      rq[r].op = "createUser" => rq[r].ask.groups # {}
               PROVE  Covers(rq[r].held, Powers(u)' \ Powers(u))
    OBVIOUS
  <2>1. CASE UNCHANGED dirvars \/ Restarts \/ (Seed /\ UNCHANGED <<rq, left, rejects, halved>>)
    BY <1>1, <2>1, PowersStay DEF dirvars, Restarts
  <2>2. ASSUME NEW s \in Requesters, Request(s)
        PROVE  Covers(rq[r].held, Powers(u)' \ Powers(u))
    <3>1. CASE users' = users /\ groups' = groups
      BY <3>1, PowersStay
    <3>2. CASE WriteUser(s) \/ WriteGroup(s) \/ StripMember(s)
      <4>1. left[s] # << >>
        BY <3>2 DEF WriteUser, WriteGroup, StripMember, At
      <4>2. s = r
        BY <1>1, <4>1 DEF DirectoryInv, OneAtATime
      <4>3. StripMember(r) => Covers(rq[r].held, Powers(u)' \ Powers(u))
        BY <1>1, StripMemberGives DEF Covers
      <4> QED BY <1>1, <3>2, <4>2, <4>3, WriteUserGives, WriteGroupGives
    <3>3. Receive(s) \/ ReadGroups(s) \/ ReadUser(s) \/ ActOn(s) \/ CheckLast(s)
            \/ ListMembers(s) \/ CallRejects(s) => users' = users /\ groups' = groups
      BY DEF Receive, ReadGroups, ReadUser, ActOn, CheckLast, ListMembers, CallRejects, StoreIs
    <3> QED BY <2>2, <3>1, <3>2, <3>3 DEF Request
  <2> QED BY <1>1, <2>1, <2>2 DEF DirNext
<1>2. DirectoryInv /\ [DirNext]_dirvars => [\A u \in Users, r \in Requesters : Justified(u, r)]_dirvars
  BY <1>1
<1> QED BY <1>2, DirectoryInductive, PTL DEF DirSpec, NoEscalation

=============================================================================
