----------------------------- MODULE Passwords -----------------------------
(***************************************************************************)
(* One user's password over the in-memory stores: logins, changes by the   *)
(* user and resets by others.  All that these requests wait for there is   *)
(* PBKDF2, in one of a few slots, so between two waits each of them runs   *)
(* undisturbed, and across a wait it goes on with what it read before.     *)
(* Passwords are told apart by the change that set them; attempts are      *)
(* limited in LoginLockout.                                                *)
(***************************************************************************)
EXTENDS Naturals, Sequences, FiniteSets

CONSTANTS Logins, Changes,  \* requests; a change is also the password it sets
          First,            \* the password at the beginning
          Other,            \* a change made by somebody else
          HashSlots         \* PBKDF2_CONCURRENCY

ASSUME PasswordsAssumption ==
    /\ HashSlots \in Nat \ {0} /\ First \notin Changes
    /\ Other \notin Logins /\ Logins \cap Changes = {}

VARIABLES stored,    \* the password whose hash is in the credential store
          must,      \* mustChangePassword
          disabled,
          login,     \* each login, and the session that it led to
          change,    \* each change
          active,    \* hashes that count as running
          hashing,   \* the requests whose hashes do run
          waiters,   \* those that wait for a slot, in order
          raced,     \* history: logins under way at a change or a disabling
          crossed    \* history: changes under way when another was written

pwvars == <<stored, must, disabled, login, change, active, hashing, waiters, raced, crossed>>

Live(l)   == login[l].at = "session"
Checking  == {l \in Logins : login[l].at = "checking"}
UnderWay  == {c \in Changes : change[c].at \in {"verify", "set"}}

----------------------------------------------------------------------------
PwInit ==
    /\ stored = First /\ must \in BOOLEAN /\ disabled = FALSE
    /\ login = [l \in Logins |-> [at |-> "none"]]
    /\ change = [c \in Changes |-> [at |-> "none"]]
    /\ active = 0 /\ hashing = {} /\ waiters = << >>
    /\ raced = {} /\ crossed = {}

\* pbkdf2Async: a slot, or a place in the queue.
Takes(j, a, h, w) ==
    IF a >= HashSlots THEN active' = a /\ hashing' = h /\ waiters' = Append(w, j)
    ELSE active' = a + 1 /\ hashing' = h \cup {j} /\ waiters' = w

(* Mutant: the slot is freed and the next one starts all the same. *)
FreedTwice(j) ==
    IF waiters = << >> THEN [a |-> active - 1, h |-> hashing \ {j}, w |-> waiters]
    ELSE [a |-> active - 1, h |-> (hashing \ {j}) \cup {Head(waiters)}, w |-> Tail(waiters)]

\* Its end: the slot is handed to the next in the queue, if there is one.
Freed(j) ==
    IF waiters = << >> THEN [a |-> active - 1, h |-> hashing \ {j}, w |-> waiters]
    ELSE [a |-> active, h |-> (hashing \ {j}) \cup {Head(waiters)}, w |-> Tail(waiters)]

Frees(j) == active' = Freed(j).a /\ hashing' = Freed(j).h /\ waiters' = Freed(j).w

----------------------------------------------------------------------------
\* login: the user and the stored hash as they are before the check, which the
\* password given matches or not.
LoginBegins(l) ==
    /\ login[l].at = "none"
    /\ \E right \in BOOLEAN :
          login' = [login EXCEPT ![l] = [at |-> "checking", right |-> right, read |-> stored,
                                         disabled |-> disabled]]
    /\ Takes(l, active, hashing, waiters)
    /\ UNCHANGED <<stored, must, disabled, change, raced, crossed>>

\* The check ends: the user that was read decides, and a session is created.
LoginChecked(l) ==
    /\ l \in hashing /\ login[l].at = "checking"
    /\ login' = [login EXCEPT ![l].at =
                    IF login[l].right /\ ~login[l].disabled THEN "session" ELSE "refused"]
    /\ Frees(l)
    /\ UNCHANGED <<stored, must, disabled, change, raced, crossed>>

Logout(l) ==
    /\ Live(l) /\ login' = [login EXCEPT ![l].at = "ended"]
    /\ UNCHANGED <<stored, must, disabled, change, active, hashing, waiters, raced, crossed>>

\* PUT /users/:id/password by the user, whose session is checked first, or by
\* somebody else; the user's record is kept as read.  A holder of users:update
\* need not give the current password, which is then not checked.
ChangeBegins(c) ==
    /\ change[c].at = "none"
    /\ \E by \in {l \in Logins : Live(l) /\ ~disabled} \cup {Other},
          first \in {"verify", "set"}, right \in BOOLEAN, temporary \in BOOLEAN :
          /\ by = Other => first = "set"
          /\ by # Other => ~temporary
          /\ first = "set" => right
          /\ change' = [change EXCEPT ![c] = [at |-> first, by |-> by, right |-> right,
                                              mustRead |-> must, mustBe |-> temporary]]
    /\ Takes(c, active, hashing, waiters)
    /\ UNCHANGED <<stored, must, disabled, login, raced, crossed>>

\* verifyPasswordWithLockout ends; then the new password is hashed.
ChangeVerified(c) ==
    /\ c \in hashing /\ change[c].at = "verify"
    /\ IF change[c].right
       THEN /\ change' = [change EXCEPT ![c].at = "set"]
            /\ Takes(c, Freed(c).a, Freed(c).h, Freed(c).w)
       ELSE change' = [change EXCEPT ![c].at = "refused"] /\ Frees(c)
    /\ UNCHANGED <<stored, must, disabled, login, raced, crossed>>

\* setMustChangePassword writes only what differs from the record it was given.
FlagAfter(c) == IF change[c].mustRead # change[c].mustBe THEN change[c].mustBe ELSE must

(* Mutant: a reset keeps the session too, whichever it is. *)
EndSessionsButOne(keep) ==
    LET kept == IF keep \in Logins THEN keep ELSE CHOOSE l \in Logins : TRUE IN
    [l \in Logins |-> IF Live(l) /\ l # kept THEN [login[l] EXCEPT !.at = "ended"] ELSE login[l]]

\* revokeUserSessions, except the one that the change came with.
EndSessions(keep) ==
    [l \in Logins |-> IF Live(l) /\ l # keep THEN [login[l] EXCEPT !.at = "ended"] ELSE login[l]]

\* The new hash is ready: it is stored, the flag follows, sessions are revoked.
ChangeWritten(c) ==
    /\ c \in hashing /\ change[c].at = "set"
    /\ stored' = c /\ must' = FlagAfter(c)
    /\ login' = EndSessions(change[c].by)
    /\ change' = [change EXCEPT ![c].at = "done"]
    /\ Frees(c)
    /\ raced' = raced \cup Checking /\ crossed' = crossed \cup (UnderWay \ {c})
    /\ UNCHANGED disabled

\* updateUser with disabled: the sessions are revoked in the same turn.
Disable ==
    /\ ~disabled /\ disabled' = TRUE /\ login' = EndSessions(Other) /\ raced' = raced \cup Checking
    /\ UNCHANGED <<stored, must, change, active, hashing, waiters, crossed>>

Enable ==
    /\ disabled /\ disabled' = FALSE
    /\ UNCHANGED <<stored, must, login, change, active, hashing, waiters, raced, crossed>>

HashEnds(j) ==
    \/ j \in Logins /\ LoginChecked(j)
    \/ j \in Changes /\ (ChangeVerified(j) \/ ChangeWritten(j))

PwNext ==
    \/ \E l \in Logins : LoginBegins(l) \/ Logout(l)
    \/ \E c \in Changes : ChangeBegins(c)
    \/ \E j \in Logins \cup Changes : HashEnds(j)
    \/ Disable \/ Enable

PwSpec == PwInit /\ [][PwNext]_pwvars

----------------------------------------------------------------------------
Owns(l) == stored \in Changes /\ change[stored].by = l

\* "A password change by the user revokes their other sessions; by someone else,
\* all of the target's sessions": who holds a session knows the password of now,
\* or made the change with that session.
ChangeEndsSessions == \A l \in Logins : Live(l) => login[l].read = stored \/ Owns(l)

\* What holds of it: but for logins that were being checked at the change; and
\* of a disabled user's sessions, but for those checked when it was disabled.
OldSessionsEnd ==
    \A l \in Logins : Live(l) => l \in raced \/ (~disabled /\ (login[l].read = stored \/ Owns(l)))

\* "An admin password reset makes the password temporary (mustChangePassword)
\* unless the body has temporary: false", and the user's own change ends that,
\* whatever the flag was, unless another change was written in between.
FlagFollowsChange ==
    \A c \in Changes : stored = c /\ c \notin crossed => must = change[c].mustBe

\* So whoever changed the password last, its sessions and its flag are theirs.
ChangesTakeEffect == OldSessionsEnd /\ FlagFollowsChange

\* At most so many hashes run, counted right as slots pass from hand to hand,
\* and nobody waits beside a free slot.
HashSlotsKept ==
    /\ active = Cardinality(hashing) /\ active <= HashSlots
    /\ waiters # << >> => active = HashSlots
=============================================================================
