---------------------------- MODULE MCDirectory ----------------------------
(* Instances of Directory for TLC. *)
EXTENDS Directory
CONSTANTS root, u1, u2, admin, everyone, g1, all, manage, use

Ask(op, by, user, group, gs, disabled, perms) ==
    [op |-> op, by |-> by, user |-> user, group |-> group, groups |-> gs,
     disabled |-> disabled, perms |-> perms]

\* A manager, u1, who may be made one by root, and a user whom either creates.
MCAsks ==
    LET Who == {root, u1} IN
    {Ask("createUser", root, u1, Unset, gs, Unset, {}) : gs \in {{}, {g1}}}
      \cup {Ask("createUser", u1, u2, Unset, {g1}, Unset, {}), Ask("createUser", root, u2, Unset, {admin}, Unset, {})}
      \cup {Ask("updateUser", b, u, Unset, gs, Unset, {}) : b \in Who, u \in Who, gs \in {{admin}, {g1}}}
      \cup {Ask("updateUser", b, u, Unset, Unset, d, {}) : b \in Who, u \in Users, d \in BOOLEAN}
      \cup {Ask("deleteUser", b, u, Unset, Unset, Unset, {}) : b \in Who, u \in Users}
      \cup {Ask("createGroup", b, Unset, g1, Unset, Unset, ps) : b \in Who, ps \in {{manage}, {use}}}
      \cup {Ask("updateGroup", b, Unset, g1, Unset, Unset, ps) : b \in Who, ps \in {{manage}, {all}}}
      \cup {Ask("deleteGroup", b, Unset, g1, Unset, Unset, {}) : b \in Who}
      \cup {Ask(op, b, u, g, Unset, Unset, {}) :
              op \in {"addMember", "removeMember"}, b \in Who, u \in Who, g \in {admin, g1}}

\* Two administrators, each of whom disables or removes the other.
MCRivals ==
    {Ask("createUser", root, u1, Unset, {admin}, Unset, {})}
      \cup {Ask("updateUser", b, u, Unset, Unset, TRUE, {}) : b \in {root, u1}, u \in {root, u1}}
      \cup {Ask("removeMember", b, u, admin, Unset, Unset, {}) : b \in {root, u1}, u \in {root, u1}}
=============================================================================
