----------------------------- MODULE Directory -----------------------------
(***************************************************************************)
(* Users, groups and who may change them: DirectoryService behind the      *)
(* users and groups controllers, and the seeding of an empty directory.    *)
(* A request is the sequence of its store calls; what it read is kept from *)
(* one call to the next.  Over the in-memory stores a request runs to its  *)
(* end before the next one begins, since their promises are settled when   *)
(* they are returned; over other stores requests overlap.  Names stand for *)
(* themselves, so their letters' case is left out, and so are permission   *)
(* wildcards but for All.                                                  *)
(***************************************************************************)
EXTENDS Naturals, Sequences, FiniteSets

CONSTANTS Users, Root, GroupNames, Admin, Everyone,
          Perms, All, Manage,  \* "*"; the users: and groups: permissions
          Gone, Unset,         \* no such entry; a field the request leaves out
          Requesters,          \* requests in flight
          DirAsks,             \* what may be asked, and by whom
          Overlap,             \* asynchronous stores
          MaxRejects           \* a bound on the store calls that reject

Records == [groups : SUBSET GroupNames, disabled : BOOLEAN]
Asked == [op : {"createUser", "updateUser", "deleteUser", "createGroup", "updateGroup",
                "deleteGroup", "addMember", "removeMember"},
          by : Users, user : Users \cup {Unset}, group : GroupNames \cup {Unset},
          groups : (SUBSET GroupNames) \cup {Unset}, disabled : BOOLEAN \cup {Unset},
          perms : SUBSET Perms]

ASSUME DirectoryAssumption ==
    /\ Root \in Users /\ Admin \in GroupNames /\ Everyone \in GroupNames /\ Admin # Everyone
    /\ {All, Manage} \subseteq Perms /\ DirAsks \subseteq Asked
    /\ Overlap \in BOOLEAN /\ MaxRejects \in Nat
    /\ Unset \notin Users \cup GroupNames
    /\ \A some \in Records \cup (SUBSET Perms) : some # Gone
    /\ \A some \in (SUBSET GroupNames) \cup BOOLEAN : some # Unset
    /\ \A q \in DirAsks :
          /\ q.user = Unset <=> q.op \in {"createGroup", "updateGroup", "deleteGroup"}
          /\ q.group = Unset <=> q.op \in {"createUser", "updateUser", "deleteUser"}
          /\ q.op = "createUser" => q.groups # Unset

VARIABLES users,   \* user -> its record, or Gone
          groups,  \* group -> its permissions, or Gone
          seeded,  \* how far seed() is; "ready" lets requests through
          rq,      \* what each request asked for, and what it has read
          left,    \* the store calls it has yet to make
          rejects, \* store calls that rejected
          halved   \* history: a group's deletion ended half-way

dirvars == <<users, groups, seeded, rq, left, rejects, halved>>

BuiltIn == {Admin, Everyone}
NoRequest == [op |-> "none"]

----------------------------------------------------------------------------
\* getEffectivePermissions: a group that is gone gives nothing.
PermsOf(names) == UNION {groups[g] : g \in {h \in names : groups[h] # Gone}}

\* uncoveredPermissions(held, wanted) is empty.
Covers(held, wanted) == All \in held \/ wanted \subseteq held

Enabled(u) == users[u] # Gone /\ ~users[u].disabled

(* Mutant: disabled members count. *)
LastEnabledAdminAny(u, seen) ==
    /\ ~seen.disabled /\ Admin \in seen.groups
    /\ ~\E v \in Users \ {u} : users[v] # Gone /\ Admin \in users[v].groups

\* isLastEnabledAdmin, of a user as the request has read it.
LastEnabledAdmin(u, seen) ==
    /\ ~seen.disabled /\ Admin \in seen.groups
    /\ ~\E v \in Users \ {u} : Enabled(v) /\ Admin \in users[v].groups

----------------------------------------------------------------------------
DirInit ==
    /\ users = [u \in Users |-> Gone] /\ groups = [g \in GroupNames |-> Gone]
    /\ seeded = "admin"
    /\ rq = [r \in Requesters |-> NoRequest] /\ left = [r \in Requesters |-> << >>]
    /\ rejects = 0 /\ halved = FALSE

\* seedBuiltInGroups and seedRoot, each entry only if it is not there.
Seed ==
    \/ /\ seeded = "admin" /\ seeded' = "everyone"
       /\ groups' = IF groups[Admin] = Gone THEN [groups EXCEPT ![Admin] = {All}] ELSE groups
       /\ UNCHANGED users
    \/ /\ seeded = "everyone" /\ seeded' = "root"
       /\ \E basic \in SUBSET (Perms \ {All, Manage}) :
             groups' = IF groups[Everyone] = Gone THEN [groups EXCEPT ![Everyone] = basic] ELSE groups
       /\ UNCHANGED users
    \/ /\ seeded = "root" /\ seeded' = "ready"
       /\ users' = IF \A u \in Users : users[u] = Gone
                   THEN [users EXCEPT ![Root] = [groups |-> {Admin}, disabled |-> FALSE]]
                   ELSE users
       /\ UNCHANGED groups

\* The process ends, and starts again on the same stores.
Restarts ==
    /\ rejects < MaxRejects /\ rejects' = rejects + 1
    /\ seeded' = "admin"
    /\ rq' = [r \in Requesters |-> NoRequest] /\ left' = [r \in Requesters |-> << >>]
    /\ halved' = (halved \/ \E r \in Requesters : left[r] # << >> /\ Head(left[r]) \in {"members", "strip"})
    /\ UNCHANGED <<users, groups>>

(* Mutant: only a change of groups asks whether the caller may act on the user. *)
StagesGroupsOnly(q) ==
    CASE q.op = "updateUser" ->
           IF q.groups # Unset THEN <<"user", "groups", "actOn", "last", "write">>
           ELSE <<"user", "last", "write">>
      [] q.op = "removeMember" ->
           IF q.group = Admin THEN <<"groups", "user", "actOn", "last", "write">>
           ELSE <<"groups", "user", "actOn", "write">>
      [] q.op = "deleteUser"  -> <<"user", "actOn", "last", "write">>
      [] q.op = "addMember"   -> <<"groups", "user", "actOn", "write">>
      [] q.op = "deleteGroup" -> <<"groups", "write", "members", "strip">>
      [] OTHER                -> <<"groups", "write">>

\* The store calls of a request that is not refused, in their order.
Stages(q) ==
    CASE q.op = "updateUser" ->
           IF q.groups # Unset THEN <<"user", "groups", "actOn", "last", "write">>
           ELSE IF q.disabled # Unset THEN <<"user", "actOn", "last", "write">>
           ELSE <<"user", "last", "write">>
      [] q.op = "removeMember" ->
           IF q.group = Admin THEN <<"groups", "user", "actOn", "last", "write">>
           ELSE <<"groups", "user", "actOn", "write">>
      [] q.op = "deleteUser"  -> <<"user", "actOn", "last", "write">>
      [] q.op = "addMember"   -> <<"groups", "user", "actOn", "write">>
      [] q.op = "deleteGroup" -> <<"groups", "write", "members", "strip">>
      [] OTHER                -> <<"groups", "write">>

\* authMiddleware and requirePermission; the caller's permissions stay as read.
Receive(r) ==
    /\ seeded = "ready" /\ left[r] = << >>
    /\ Overlap \/ \A s \in Requesters : left[s] = << >>
    /\ \E q \in DirAsks :
          /\ Enabled(q.by) /\ Covers(PermsOf(users[q.by].groups), {Manage})
          /\ rq' = [rq EXCEPT ![r] = [op |-> q.op, ask |-> q, held |-> PermsOf(users[q.by].groups),
                                      seen |-> Gone, given |-> << >>, members |-> << >>]]
          /\ left' = [left EXCEPT ![r] = Stages(q)]
    /\ UNCHANGED <<users, groups, seeded, rejects, halved>>

At(r, stage) == left[r] # << >> /\ Head(left[r]) = stage
StoreIs      == UNCHANGED <<users, groups, seeded, rejects, halved>>

Ends(r) == left' = [left EXCEPT ![r] = << >>] /\ rq' = [rq EXCEPT ![r] = NoRequest]

\* The call's answer is kept and the next one is made, or the request ends.
GoesOn(r, known) ==
    IF Len(left[r]) = 1 THEN Ends(r)
    ELSE left' = [left EXCEPT ![r] = Tail(@)] /\ rq' = [rq EXCEPT ![r] = known]

\* resolveGroups, getGroupOr404: what the request names, the default included.
Named(q) ==
    IF q.op \in {"createUser", "updateUser"} THEN IF q.groups = {} /\ q.op = "createUser"
                                                  THEN {Everyone} ELSE q.groups
    ELSE {q.group}

\* What is checked when the groups are known.
GroupsAllow(q, held) ==
    CASE q.op = "createGroup" -> groups[q.group] = Gone /\ Covers(held, q.perms)
      [] q.op = "updateGroup" -> groups[q.group] # Gone /\ q.group # Admin /\ Covers(held, q.perms)
      [] q.op = "deleteGroup" -> groups[q.group] # Gone /\ q.group \notin BuiltIn
      [] OTHER ->
           /\ \A g \in Named(q) : groups[g] # Gone
           /\ q.op = "createUser" /\ q.groups # {} => Covers(held, PermsOf(q.groups))

ReadGroups(r) ==
    /\ At(r, "groups") /\ StoreIs
    /\ LET q == rq[r].ask IN
       IF GroupsAllow(q, rq[r].held)
       THEN GoesOn(r, [rq[r] EXCEPT !.given = [g \in Named(q) |-> groups[g]]])
       ELSE Ends(r)

\* getUserOr404; nobody deletes himself, and a membership that is as asked for is left.
ReadUser(r) ==
    /\ At(r, "user") /\ StoreIs
    /\ LET q == rq[r].ask IN
       IF \/ users[q.user] = Gone
          \/ q.op = "deleteUser" /\ q.user = q.by
          \/ q.op = "addMember" /\ q.group \in users[q.user].groups
          \/ q.op = "removeMember" /\ q.group \notin users[q.user].groups
       THEN Ends(r)
       ELSE GoesOn(r, [rq[r] EXCEPT !.seen = users[q.user]])

\* assertCanAddGroups: the groups as the request has read them.
MayAdd(q, held, seen, given) ==
    CASE q.op = "updateUser" /\ q.groups # Unset ->
           Covers(held, UNION {given[g] : g \in q.groups \ seen.groups})
      [] q.op = "addMember" -> Covers(held, given[q.group])
      [] OTHER -> TRUE

\* assertCanActOn, from the user as read and the groups as they are.
ActOn(r) ==
    /\ At(r, "actOn") /\ StoreIs
    /\ LET q == rq[r].ask IN
       IF /\ q.by = q.user \/ Covers(rq[r].held, PermsOf(rq[r].seen.groups))
          /\ MayAdd(q, rq[r].held, rq[r].seen, rq[r].given)
       THEN GoesOn(r, rq[r]) ELSE Ends(r)

\* The request would take an administrator away.
TakesAdmin(q) ==
    \/ q.op \in {"deleteUser", "removeMember"}
    \/ q.op = "updateUser" /\ (q.disabled = TRUE \/ (q.groups # Unset /\ Admin \notin q.groups))

CheckLast(r) ==
    /\ At(r, "last") /\ StoreIs
    /\ LET q == rq[r].ask IN
       IF LastEnabledAdmin(q.user, rq[r].seen) /\ TakesAdmin(q) THEN Ends(r) ELSE GoesOn(r, rq[r])

----------------------------------------------------------------------------
\* A user's write replaces the fields it names, whatever they have become.
Rewritten(q, seen) ==
    LET old == users[q.user] IN
    CASE q.op = "createUser" -> [groups |-> Named(q), disabled |-> q.disabled = TRUE]
      [] q.op = "deleteUser" -> Gone
      [] q.op = "updateUser" -> [groups   |-> IF q.groups = Unset THEN old.groups ELSE q.groups,
                                 disabled |-> IF q.disabled = Unset THEN old.disabled ELSE q.disabled]
      [] q.op = "addMember"    -> [old EXCEPT !.groups = seen.groups \cup {q.group}]
      [] q.op = "removeMember" -> [old EXCEPT !.groups = seen.groups \ {q.group}]

\* The stores refuse a name that is taken, or an update of what is gone.
WriteUser(r) ==
    /\ At(r, "write") /\ rq[r].ask.user # Unset
    /\ LET q == rq[r].ask IN
       IF CASE q.op = "createUser" -> users[q.user] = Gone
            [] q.op = "deleteUser" -> TRUE
            [] OTHER               -> users[q.user] # Gone
       THEN users' = [users EXCEPT ![q.user] = Rewritten(q, rq[r].seen)]
       ELSE UNCHANGED users
    /\ Ends(r) /\ UNCHANGED <<groups, seeded, rejects, halved>>

WriteGroup(r) ==
    /\ At(r, "write") /\ rq[r].ask.user = Unset
    /\ LET q    == rq[r].ask
           done == CASE q.op = "createGroup" -> groups[q.group] = Gone
                     [] q.op = "updateGroup" -> groups[q.group] # Gone
                     [] q.op = "deleteGroup" -> TRUE
       IN  IF done
           THEN /\ groups' = [groups EXCEPT ![q.group] = IF q.op = "deleteGroup" THEN Gone ELSE q.perms]
                /\ GoesOn(r, rq[r])
           ELSE UNCHANGED groups /\ Ends(r)
    /\ UNCHANGED <<users, seeded, rejects, halved>>

\* deleteGroup: the members as they are when it lists them.
ListMembers(r) ==
    /\ At(r, "members") /\ StoreIs
    /\ LET g == rq[r].ask.group
           members == {u \in Users : users[u] # Gone /\ g \in users[u].groups}
       IN  IF members = {} THEN Ends(r)
           ELSE GoesOn(r, [rq[r] EXCEPT !.members = [u \in members |-> users[u].groups]])

(* Mutant: the deletion ends with the first member. *)
StripMemberFirst(r) ==
    /\ At(r, "strip")
    /\ \E u \in DOMAIN rq[r].members :
          users' = [users EXCEPT ![u].groups = rq[r].members[u] \ {rq[r].ask.group}]
    /\ Ends(r) /\ UNCHANGED <<groups, seeded, rejects, halved>>

\* One member loses the group, from the list of its groups that was read; one
\* that is gone by now ends the deletion with an error.
StripMember(r) ==
    /\ At(r, "strip")
    /\ \E u \in DOMAIN rq[r].members :
          LET rest == [v \in DOMAIN rq[r].members \ {u} |-> rq[r].members[v]] IN
          /\ users' = IF users[u] = Gone THEN users
                      ELSE [users EXCEPT ![u].groups = rq[r].members[u] \ {rq[r].ask.group}]
          /\ halved' = (halved \/ (users[u] = Gone /\ DOMAIN rest # {}))
          /\ IF users[u] = Gone \/ DOMAIN rest = {} THEN Ends(r)
             ELSE rq' = [rq EXCEPT ![r].members = rest] /\ UNCHANGED left
    /\ UNCHANGED <<groups, seeded, rejects>>

\* A store call rejects: the request is answered with an error, what it wrote stays.
CallRejects(r) ==
    /\ left[r] # << >> /\ rejects < MaxRejects
    /\ rejects' = rejects + 1
    /\ halved' = (halved \/ Head(left[r]) \in {"members", "strip"})
    /\ Ends(r) /\ UNCHANGED <<users, groups, seeded>>

Request(r) ==
    \/ Receive(r) \/ ReadGroups(r) \/ ReadUser(r) \/ ActOn(r) \/ CheckLast(r)
    \/ WriteUser(r) \/ WriteGroup(r) \/ ListMembers(r) \/ StripMember(r) \/ CallRejects(r)

DirNext ==
    \/ Seed /\ UNCHANGED <<rq, left, rejects, halved>>
    \/ Restarts
    \/ \E r \in Requesters : Request(r)

DirSpec == DirInit /\ [][DirNext]_dirvars

----------------------------------------------------------------------------
\* "The last enabled member of admin cannot be deleted, disabled or removed
\* from admin": once the directory is seeded, somebody can administer it,
\* whatever sequence of requests, errors and restarts follows.
AdminRemains ==
    seeded = "ready" =>
        groups[Admin] = {All} /\ \E u \in Users : Enabled(u) /\ Admin \in users[u].groups

Powers(u) == IF Enabled(u) THEN PermsOf(users[u].groups) ELSE {}

\* No privilege escalation: whatever a step of a request adds to what anybody
\* may do, by membership, by a group's permissions, by enabling a user or by
\* creating a group that somebody is still listed in, its caller could do.
\* (A user created without groups gets the default one, which is not checked.)
NoEscalation ==
    [][\A u \in Users, r \in Requesters :
          (left'[r] # left[r] /\ left[r] # << >> /\ (rq[r].op = "createUser" => rq[r].ask.groups # {}))
             => Covers(rq[r].held, Powers(u)' \ Powers(u))]_dirvars

\* "Deleting a group removes it from every user": no user is listed in a group
\* that is not there, so none gets its permissions back with a new group of
\* that name, unless a deletion is going on or ended half-way.
NoDanglingMembership ==
    \/ halved
    \/ \E r \in Requesters : At(r, "members") \/ At(r, "strip")
    \/ \A u \in Users : users[u] # Gone => \A g \in users[u].groups : groups[g] # Gone
=============================================================================
