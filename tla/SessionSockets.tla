--------------------------- MODULE SessionSockets ---------------------------
(***************************************************************************)
(* The WebSockets of one user and the identities behind them: the stored   *)
(* sessions and API tokens of AuthService, the events and logs sockets of  *)
(* SessionBoundSockets, the shells of CliShellSessionManager, and the      *)
(* session events by which the first closes the others.  Every store call  *)
(* is a step of its own, so a check reads the session, the user and the    *)
(* permissions at three instants and its answer is used at a fourth.  Two  *)
(* checks of a shell that stand at the same point count as one.            *)
(***************************************************************************)
EXTENDS Naturals, Sequences, FiniteSets

CONSTANTS Sessions, Tokens,  \* the identities of the user
          Sockets,           \* sockets of SessionBoundSockets
          AwaitKick,         \* those of the events endpoint (awaitKick)
          Shells,
          NoOne

ASSUME SessionSocketsAssumption ==
  /\ IsFiniteSet(Sessions) /\ IsFiniteSet(Tokens) /\ IsFiniteSet(Sockets) /\ IsFiniteSet(Shells)
  /\ Sessions \cap Tokens = {} /\ Sockets \cap Shells = {} /\ AwaitKick \subseteq Sockets
  /\ NoOne \notin Sessions \cup Tokens

Ids == Sessions \cup Tokens
Ends == Sockets \cup Shells

\* Where a check stands: the next store call, or the answer it has got.
Answers == {"alive", "dead"}
Phases == {"session", "user", "dropped", "permissions"} \cup Answers

VARIABLES stored,    \* per identity: "none", "verified" (its login is), "live", "gone"
          expired,   \* identities past expiresAt
          barred,    \* the user's flags: "disabled", "mustChange", "deleted"
          mayShell,  \* the user's groups grant shell:execute
          todo,      \* what the running administration request still does
          left,      \* sessions it still revokes
          revoking,  \* how far it is with the one it revokes
          due,       \* sessions whose deletion is not announced yet
          conn,      \* per socket: its life; "closed" by an event or a check, or "over"
          ident,     \* per socket: the identity of its ticket
          accept,    \* per socket: the check its acceptance waits for
          checks     \* per socket: its re-checks under way

store == <<stored, expired, barred, mayShell>>
admin == <<todo, left, revoking>>
vars == <<store, admin, due, conn, ident, accept, checks>>

Idle == [of |-> NoOne, pc |-> "idle"]

Init ==
  /\ stored = [i \in Ids |-> IF i \in Sessions THEN "none" ELSE "live"]
  /\ expired = {} /\ barred = {} /\ mayShell = TRUE
  /\ todo = <<>> /\ left = {} /\ revoking = Idle /\ due = {}
  /\ conn = [w \in Ends |-> "out"] /\ ident = [w \in Ends |-> NoOne]
  /\ accept = [w \in Ends |-> "idle"] /\ checks = [w \in Ends |-> {}]

Unavailable == barred \cap {"disabled", "deleted"} # {}
Registered == {"starting", "open", "ending"}

-----------------------------------------------------------------------------
(* Session events *)

(* SessionBoundSockets.ended and, for a shell, end: only an events socket waits
   for the kick, and only when one may follow. *)
Ended(w, mayBeKicked) == IF w \in AwaitKick /\ mayBeKicked THEN "ending" ELSE "closed"

\* `session-ended`, heard by both managers.
AfterEnded(s, revoked) ==
  [w \in Ends |-> IF conn[w] \in Registered /\ ident[w] = s THEN Ended(w, revoked) ELSE conn[w]]

SocketsToCheck == {w \in Sockets : conn[w] = "open" /\ checks[w] = {}}

(* Mutant: shells whose check is running are skipped. *)
ShellsToCheckIdle == {h \in Shells : conn[h] \in {"starting", "open"} /\ checks[h] = {}}

ShellsToCheck == {h \in Shells : conn[h] \in {"starting", "open"}}

\* `access-changed`: both managers re-check.
Rechecked ==
  [w \in Ends |-> checks[w] \cup IF w \in SocketsToCheck \cup ShellsToCheck THEN {"session"} ELSE {}]

-----------------------------------------------------------------------------
(* Checks: revalidate, and consumeTicket, which does the same. *)

At(w, phase) == phase \in checks[w] \cup {accept[w]}

Move(w, from, to) ==
  \/ /\ accept[w] = from /\ accept' = [accept EXCEPT ![w] = to]
     /\ UNCHANGED checks
  \/ /\ from \in checks[w] /\ checks' = [checks EXCEPT ![w] = (@ \ {from}) \cup {to}]
     /\ UNCHANGED accept

\* validateSession refuses: a session is deleted (and announced next), a token is not.
Refuse(w, from) ==
  IF ident[w] \in Sessions
  THEN Move(w, from, "dropped") /\ stored' = [stored EXCEPT ![ident[w]] = "gone"]
  ELSE Move(w, from, "dead") /\ UNCHANGED stored

\* getSessionById or getToken, then the expiry.
GetSession(w) ==
  /\ At(w, "session")
  /\ \/ stored[ident[w]] # "live" /\ Move(w, "session", "dead") /\ UNCHANGED stored
     \/ stored[ident[w]] = "live" /\ ident[w] \in expired /\ Refuse(w, "session")
     \/ stored[ident[w]] = "live" /\ ident[w] \notin expired /\ Move(w, "session", "user") /\ UNCHANGED stored
  /\ UNCHANGED <<expired, barred, mayShell, admin, due, conn, ident>>

GetUser(w) ==
  /\ At(w, "user")
  /\ \/ Unavailable /\ Refuse(w, "user")
     \/ barred = {"mustChange"} /\ Move(w, "user", "dead") /\ UNCHANGED stored
     \/ barred = {} /\ Move(w, "user", "permissions") /\ UNCHANGED stored
  /\ UNCHANGED <<expired, barred, mayShell, admin, due, conn, ident>>

\* The refused session is announced, not as a revocation.
AnnounceRefused(w) ==
  /\ Move(w, "dropped", "dead")
  /\ conn' = AfterEnded(ident[w], FALSE)
  /\ UNCHANGED <<store, admin, due, ident>>

HasPermission(w) == w \in Shells => mayShell

\* getEffectivePermissions; a shell asks for shell:execute.
GetPermissions(w) ==
  /\ Move(w, "permissions", IF HasPermission(w) THEN "alive" ELSE "dead")
  /\ UNCHANGED <<store, admin, due, conn, ident>>

\* The answer to a re-check; a socket that is no longer bound ignores it.
Answered(w, answer) ==
  /\ answer \in checks[w]
  /\ checks' = [checks EXCEPT ![w] = @ \ {answer}]
  /\ conn' = [conn EXCEPT ![w] = IF @ \in Registered /\ answer = "dead" THEN Ended(w, TRUE) ELSE @]
  /\ UNCHANGED <<store, admin, due, ident, accept>>

-----------------------------------------------------------------------------
(* Sockets *)

\* An upgrade with a ticket, issued while the identity was live.
Upgrade(w, i) ==
  /\ conn[w] = "out" /\ stored[i] \in {"live", "gone"}
  /\ conn' = [conn EXCEPT ![w] = "upgrade"]
  /\ ident' = [ident EXCEPT ![w] = i]
  /\ accept' = [accept EXCEPT ![w] = "session"]
  /\ UNCHANGED <<store, admin, due, checks>>

\* authorizeWsUpgrade answered: bind asks no more questions.
Bind(w) ==
  /\ w \in Sockets /\ conn[w] = "upgrade" /\ accept[w] \in Answers
  /\ conn' = [conn EXCEPT ![w] = IF accept[w] = "dead" THEN "over" ELSE "open"]
  /\ accept' = [accept EXCEPT ![w] = "idle"]
  /\ UNCHANGED <<store, admin, due, ident, checks>>

(* Mutant: the shell is started on the strength of its ticket. *)
RegisteredAsOpen == [at |-> "open", check |-> "idle"]

\* A shell is registered, and checked once more before anything is spawned.
RegisteredAs == [at |-> "starting", check |-> "session"]

(* accept, after authorize; the limits count other users' shells too, so any
   shell may find no room. *)
Register(h) ==
  /\ h \in Shells /\ conn[h] = "upgrade" /\ accept[h] \in Answers
  /\ \/ /\ accept[h] = "alive"
        /\ conn' = [conn EXCEPT ![h] = RegisteredAs.at]
        /\ accept' = [accept EXCEPT ![h] = RegisteredAs.check]
     \/ /\ conn' = [conn EXCEPT ![h] = "over"]
        /\ accept' = [accept EXCEPT ![h] = "idle"]
  /\ UNCHANGED <<store, admin, due, ident, checks>>

\* accept, after that check: spawn, unless the shell ended or its client left.
Spawn(h) ==
  /\ h \in Shells /\ conn[h] # "upgrade" /\ accept[h] \in Answers
  /\ \/ /\ conn[h] = "starting"
        /\ conn' \in {[conn EXCEPT ![h] = c] : c \in IF accept[h] = "alive" THEN {"open", "over"} ELSE {"closed"}}
     \/ conn[h] # "starting" /\ UNCHANGED conn
  /\ accept' = [accept EXCEPT ![h] = "idle"]
  /\ UNCHANGED <<store, admin, due, ident, checks>>

\* The client closes, or the shell exits or times out.
Leave(w) ==
  /\ conn[w] \in {"open", "ending"}
  /\ conn' = [conn EXCEPT ![w] = "over"]
  /\ UNCHANGED <<store, admin, due, ident, accept, checks>>

\* KICK_GRACE_MS passed without a kick.
Grace(w) ==
  /\ conn[w] = "ending"
  /\ conn' = [conn EXCEPT ![w] = "over"]
  /\ UNCHANGED <<store, admin, due, ident, accept, checks>>

\* sessionCheckIntervalMs: the shells' own timer.
CheckTimer ==
  /\ ShellsToCheck # {}
  /\ checks' = [w \in Ends |-> checks[w] \cup IF w \in ShellsToCheck THEN {"session"} ELSE {}]
  /\ UNCHANGED <<store, admin, due, conn, ident, accept>>

-----------------------------------------------------------------------------
(* Sessions *)

\* login has checked the password and the account ...
VerifyLogin(s) ==
  /\ stored[s] = "none" /\ ~Unavailable
  /\ stored' = [stored EXCEPT ![s] = "verified"]
  /\ UNCHANGED <<expired, barred, mayShell, admin, due, conn, ident, accept, checks>>

\* ... and creates the session, whatever became of the account meanwhile.
CreateSession(s) ==
  /\ stored[s] = "verified"
  /\ stored' = [stored EXCEPT ![s] = "live"]
  /\ UNCHANGED <<expired, barred, mayShell, admin, due, conn, ident, accept, checks>>

Expire(i) ==
  /\ stored[i] = "live" /\ i \notin expired
  /\ expired' = expired \cup {i}
  /\ UNCHANGED <<stored, barred, mayShell, admin, due, conn, ident, accept, checks>>

\* logout, or listSessions on an expired session: deleted, announced later.
Delete(s) ==
  /\ stored[s] = "live"
  /\ stored' = [stored EXCEPT ![s] = "gone"] /\ due' = due \cup {s}
  /\ UNCHANGED <<expired, barred, mayShell, admin, conn, ident, accept, checks>>

Announce(s) ==
  /\ s \in due
  /\ due' = due \ {s} /\ conn' = AfterEnded(s, FALSE)
  /\ UNCHANGED <<store, admin, ident, accept, checks>>

\* sessionStore.cleanup drops an idle session and tells nobody.
Cleanup(s) ==
  /\ stored[s] = "live" /\ s \in expired
  /\ stored' = [stored EXCEPT ![s] = "gone"]
  /\ UNCHANGED <<expired, barred, mayShell, admin, due, conn, ident, accept, checks>>

(* Mutant: the sweep ends without an event. *)
SweptQuietly == checks

Swept == Rechecked

\* cleanupExpiredSessions ends with `access-changed`.
Sweep ==
  /\ checks' = Swept
  /\ UNCHANGED <<store, admin, due, conn, ident, accept>>

-----------------------------------------------------------------------------
(* Administration: one request at a time, its store calls in order. *)

Free == todo = <<>> /\ left = {}

UpdateUser(flags, steps) ==
  /\ Free /\ "deleted" \notin barred
  /\ barred' = flags /\ todo' = steps
  /\ UNCHANGED <<stored, expired, mayShell, left, revoking, due, conn, ident, accept, checks>>

RevokeList(keep) == [do |-> "list", keep |-> keep]
Audit == [do |-> "audit", keep |-> NoOne]
DropTokens == [do |-> "tokens", keep |-> NoOne]

Disable == "disabled" \notin barred /\ UpdateUser(barred \cup {"disabled"}, <<RevokeList(NoOne), Audit>>)
Enable == "disabled" \in barred /\ UpdateUser(barred \ {"disabled"}, <<Audit>>)
ResetPassword == UpdateUser(barred \cup {"mustChange"}, <<Audit, RevokeList(NoOne)>>)
ChangePassword(s) ==
  /\ stored[s] = "live" /\ ~Unavailable
  /\ UpdateUser(barred \ {"mustChange"}, <<Audit, RevokeList(s)>>)
DeleteUser == UpdateUser({"deleted"}, <<RevokeList(NoOne), DropTokens, Audit>>)

\* A group gains or loses shell:execute, or the user the group.
ChangeGroups ==
  /\ Free /\ mayShell' = ~mayShell /\ todo' = <<Audit>>
  /\ UNCHANGED <<stored, expired, barred, left, revoking, due, conn, ident, accept, checks>>

\* revokeApiToken: deleted now, `access-changed` at the end.
RevokeToken(t) ==
  /\ Free /\ stored[t] = "live"
  /\ stored' = [stored EXCEPT ![t] = "gone"] /\ todo' = <<Audit>>
  /\ UNCHANGED <<expired, barred, mayShell, left, revoking, due, conn, ident, accept, checks>>

\* DELETE /sessions/:id.
Revoke(s) ==
  /\ Free /\ stored[s] = "live"
  /\ left' = {s}
  /\ UNCHANGED <<store, todo, revoking, due, conn, ident, accept, checks>>

\* revokeUserSessions: the sessions there are now.
ListSessions ==
  /\ left = {} /\ todo # <<>> /\ Head(todo).do = "list"
  /\ left' = {s \in Sessions : stored[s] = "live" /\ s # Head(todo).keep}
  /\ todo' = Tail(todo)
  /\ UNCHANGED <<store, revoking, due, conn, ident, accept, checks>>

\* An audit of the kind that changes access, or the end of revokeApiToken.
LogAudit ==
  /\ left = {} /\ todo # <<>> /\ Head(todo).do = "audit"
  /\ checks' = Rechecked /\ todo' = Tail(todo)
  /\ UNCHANGED <<store, left, revoking, due, conn, ident, accept>>

\* deleteUserTokens: the deletion and the event follow each other at once.
DeleteUserTokens ==
  /\ left = {} /\ todo # <<>> /\ Head(todo).do = "tokens"
  /\ stored' = [i \in Ids |-> IF i \in Tokens THEN "gone" ELSE stored[i]]
  /\ checks' = Rechecked /\ todo' = Tail(todo)
  /\ UNCHANGED <<expired, barred, mayShell, left, revoking, due, conn, ident, accept>>

\* revokeSession, at its awaits: deleted; announced; kicked.
RevokeDelete(s) ==
  /\ s \in left /\ revoking.pc = "idle"
  /\ stored' = [stored EXCEPT ![s] = "gone"] /\ revoking' = [of |-> s, pc |-> "deleted"]
  /\ UNCHANGED <<expired, barred, mayShell, todo, left, due, conn, ident, accept, checks>>

RevokeAnnounce ==
  /\ revoking.pc = "deleted"
  /\ revoking' = [revoking EXCEPT !.pc = "announced"]
  /\ conn' = AfterEnded(revoking.of, TRUE)
  /\ UNCHANGED <<store, todo, left, due, ident, accept, checks>>

\* The broadcast may fail; it is logged and the sockets wait for their grace.
RevokeKick ==
  /\ revoking.pc = "announced"
  /\ revoking' = Idle /\ left' = left \ {revoking.of}
  /\ \/ conn' = [w \in Ends |->
          IF w \in AwaitKick /\ conn[w] \in Registered /\ ident[w] = revoking.of THEN "over" ELSE conn[w]]
     \/ UNCHANGED conn
  /\ UNCHANGED <<store, todo, due, ident, accept, checks>>

-----------------------------------------------------------------------------
Check(w) ==
  \/ GetSession(w) \/ GetUser(w) \/ AnnounceRefused(w) \/ GetPermissions(w)
  \/ \E answer \in Answers : Answered(w, answer)

Request ==
  \/ Disable \/ Enable \/ ResetPassword \/ DeleteUser \/ ChangeGroups
  \/ \E s \in Sessions : ChangePassword(s) \/ Revoke(s)
  \/ \E t \in Tokens : RevokeToken(t)

RequestStep ==
  \/ ListSessions \/ LogAudit \/ DeleteUserTokens \/ RevokeAnnounce \/ RevokeKick
  \/ \E s \in Sessions : RevokeDelete(s)

Next ==
  \/ \E w \in Ends : Check(w) \/ Bind(w) \/ Register(w) \/ Spawn(w) \/ Leave(w) \/ Grace(w)
  \/ \E w \in Ends, i \in Ids : Upgrade(w, i)
  \/ \E i \in Ids : Expire(i)
  \/ \E s \in Sessions : VerifyLogin(s) \/ CreateSession(s) \/ Delete(s) \/ Announce(s) \/ Cleanup(s)
  \/ CheckTimer \/ Sweep \/ Request \/ RequestStep

Spec == Init /\ [][Next]_vars

(* Store calls return, and timers fire: the sweep's and the shells' intervals
   and the grace period.  Nothing is assumed of clients and administrators. *)
Fairness ==
  /\ \A w \in Ends :
       /\ WF_vars(GetSession(w)) /\ WF_vars(GetUser(w)) /\ WF_vars(GetPermissions(w))
       /\ WF_vars(AnnounceRefused(w)) /\ \A answer \in Answers : WF_vars(Answered(w, answer))
       /\ WF_vars(Bind(w)) /\ WF_vars(Register(w)) /\ WF_vars(Spawn(w)) /\ WF_vars(Grace(w))
  /\ WF_vars(RequestStep) /\ WF_vars(Sweep) /\ WF_vars(CheckTimer)

FairSpec == Spec /\ Fairness

-----------------------------------------------------------------------------
(* Properties *)

Steps == {Audit, DropTokens} \cup {RevokeList(k) : k \in Sessions \cup {NoOne}}

Types ==
  /\ stored \in [Ids -> {"none", "verified", "live", "gone"}]
  /\ expired \subseteq Ids /\ barred \subseteq {"disabled", "mustChange", "deleted"}
  /\ mayShell \in BOOLEAN /\ todo \in Seq(Steps)
  /\ left \subseteq Sessions /\ due \subseteq Sessions
  /\ revoking \in [of : Sessions \cup {NoOne}, pc : {"idle", "deleted", "announced"}]
  /\ conn \in [Ends -> {"out", "upgrade", "closed", "over"} \cup Registered]
  /\ ident \in [Ends -> Ids \cup {NoOne}]
  /\ accept \in [Ends -> Phases \cup {"idle"}] /\ checks \in [Ends -> SUBSET Phases]

\* SessionBoundSockets: checks never stack.
NeverStacked == \A w \in Sockets : \A p, q \in checks[w] : p = q

(* The types; and checks of an events or logs socket never stack. *)
TypeOK == Types /\ NeverStacked

\* The identity is still good for the socket; expiry is noticed by a check only.
Entitled(w) ==
  /\ stored[ident[w]] = "live" /\ barred = {}
  /\ w \in Shells => mayShell

\* A deletion of s that a session-ended will follow.
AnnouncementDue(s) ==
  \/ s \in due \/ revoking = [of |-> s, pc |-> "deleted"]
  \/ \E w \in Ends : ident[w] = s /\ "dropped" \in checks[w] \cup {accept[w]}

(* A shell never runs on after its session ended: whenever the deletion falls,
   before, during or after the acceptance, the event finds the shell or the
   check before the spawn finds the session gone. *)
NoShellOfEndedSession ==
  \A h \in Shells : conn[h] = "open" /\ ident[h] \in Sessions \ expired =>
    stored[ident[h]] = "live" \/ AnnouncementDue(ident[h])

(* Once no request and no check of it is under way, a running shell is one its
   user may have: no re-check that read old state has the last word. *)
QuietShellEntitled ==
  \A h \in Shells :
    /\ conn[h] = "open" /\ checks[h] = {} /\ ident[h] \notin expired
    /\ Free /\ ~AnnouncementDue(ident[h])
    => Entitled(h)

(* A socket or shell does not stay when its identity ended or expired, the user
   is barred or the shell's right is lost: events may be missed, and a sweep or a
   timer makes up for it.  (Of two reasons that take turns a check, which reads
   them one after the other, may miss both.) *)
Stays(w, reason) == conn[w] \in Registered /\ reason

UnentitledCloses ==
  \A w \in Ends :
    /\ []<>~Stays(w, stored[ident[w]] = "gone" \/ ident[w] \in expired)
    /\ []<>~Stays(w, barred # {})
    /\ []<>~Stays(w, w \in Shells /\ ~mayShell)
=============================================================================
