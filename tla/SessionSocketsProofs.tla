------------------------ MODULE SessionSocketsProofs ------------------------
(***************************************************************************)
(* No shell runs on after its session ended, or past what its user may     *)
(* have, for any number of sessions, tokens, sockets and shells.           *)
(***************************************************************************)
EXTENDS SessionSockets, TLAPS

(* The parts of the state a session event or an answer does not touch. *)
LEMMA AfterEndedType ==
  ASSUME Types, NEW s, NEW b
  PROVE  AfterEnded(s, b) \in [Ends -> {"out", "upgrade", "closed", "over"} \cup Registered]
BY DEF AfterEnded, Ended, Types, Registered, Ends

LEMMA RecheckedType ==
  ASSUME Types
  PROVE  Rechecked \in [Ends -> SUBSET Phases]
BY DEF Rechecked, Types, Phases, Answers, Ends

LEMMA MoveType ==
  ASSUME Types, NEW w \in Ends, NEW p \in Phases, NEW q \in Phases, Move(w, p, q)
  PROVE  /\ accept' \in [Ends -> Phases \cup {"idle"}]
         /\ checks' \in [Ends -> SUBSET Phases]
BY DEF Move, Types

(* Every step keeps the types. *)
LEMMA TypesStep ==
  ASSUME Types, [Next]_vars
  PROVE  Types'
<1>0. CASE UNCHANGED vars
  BY <1>0 DEF Types, vars, store, admin
<1>1. ASSUME NEW w \in Ends, GetSession(w)
      PROVE  Types'
  <2>1. accept' \in [Ends -> Phases \cup {"idle"}] /\ checks' \in [Ends -> SUBSET Phases]
    BY <1>1, MoveType DEF GetSession, Refuse, Phases, Answers
  <2>2. stored' \in [Ids -> {"none", "verified", "live", "gone"}]
    BY <1>1 DEF GetSession, Refuse, Types
  <2> QED BY <1>1, <2>1, <2>2 DEF GetSession, Types, admin
<1>2. ASSUME NEW w \in Ends, GetUser(w)
      PROVE  Types'
  <2>1. accept' \in [Ends -> Phases \cup {"idle"}] /\ checks' \in [Ends -> SUBSET Phases]
    BY <1>2, MoveType DEF GetUser, Refuse, Phases, Answers
  <2>2. stored' \in [Ids -> {"none", "verified", "live", "gone"}]
    BY <1>2 DEF GetUser, Refuse, Types
  <2> QED BY <1>2, <2>1, <2>2 DEF GetUser, Types, admin
<1>3. ASSUME NEW w \in Ends, AnnounceRefused(w)
      PROVE  Types'
  <2>1. accept' \in [Ends -> Phases \cup {"idle"}] /\ checks' \in [Ends -> SUBSET Phases]
    BY <1>3, MoveType DEF AnnounceRefused, Phases, Answers
  <2> QED BY <1>3, <2>1, AfterEndedType DEF AnnounceRefused, Types, admin, store
<1>4. ASSUME NEW w \in Ends, GetPermissions(w)
      PROVE  Types'
  <2>1. accept' \in [Ends -> Phases \cup {"idle"}] /\ checks' \in [Ends -> SUBSET Phases]
    BY <1>4, MoveType DEF GetPermissions, Phases, Answers
  <2> QED BY <1>4, <2>1 DEF GetPermissions, Types, admin, store
<1>5. ASSUME NEW w \in Ends, NEW answer \in Answers, Answered(w, answer)
      PROVE  Types'
  BY <1>5 DEF Answered, Ended, Types, Registered, admin, store
<1>6. ASSUME NEW w \in Ends, Bind(w) \/ Register(w) \/ Spawn(w) \/ Leave(w) \/ Grace(w)
      PROVE  Types'
  <2>1. CASE Bind(w)
    BY <2>1 DEF Bind, Types, Registered, admin, store
  <2>2. CASE Register(w)
    BY <2>2 DEF Register, RegisteredAs, Types, Registered, Phases, admin, store
  <2>3. CASE Spawn(w)
    BY <2>3 DEF Spawn, Types, Registered, admin, store
  <2>4. CASE Leave(w) \/ Grace(w)
    BY <2>4 DEF Leave, Grace, Types, admin, store
  <2> QED BY <1>6, <2>1, <2>2, <2>3, <2>4
<1>7. ASSUME NEW w \in Ends, NEW i \in Ids, Upgrade(w, i)
      PROVE  Types'
  BY <1>7 DEF Upgrade, Types, Phases, admin, store
<1>8. ASSUME NEW i \in Ids, Expire(i)
      PROVE  Types'
  BY <1>8 DEF Expire, Types, admin
<1>9. ASSUME NEW s \in Sessions,
             VerifyLogin(s) \/ CreateSession(s) \/ Delete(s) \/ Cleanup(s)
      PROVE  Types'
  BY <1>9 DEF VerifyLogin, CreateSession, Delete, Cleanup, Types, admin
<1>10. ASSUME NEW s \in Sessions, Announce(s)
       PROVE  Types'
  BY <1>10, AfterEndedType DEF Announce, Types, admin, store
<1>11. CASE CheckTimer \/ Sweep
  <2>1. checks' \in [Ends -> SUBSET Phases]
    BY <1>11, RecheckedType DEF CheckTimer, Sweep, Swept, Types, Phases
  <2> QED BY <1>11, <2>1 DEF CheckTimer, Sweep, Types, admin, store
<1>12. CASE Request
  <2> DEFINE S == Steps
  <2>0. /\ Audit \in S /\ DropTokens \in S /\ RevokeList(NoOne) \in S
        /\ \A s \in Sessions : RevokeList(s) \in S
    BY DEF Steps
  <2>1. /\ <<Audit>> \in Seq(S) /\ <<RevokeList(NoOne), Audit>> \in Seq(S)
        /\ <<Audit, RevokeList(NoOne)>> \in Seq(S)
        /\ <<RevokeList(NoOne), DropTokens, Audit>> \in Seq(S)
        /\ \A s \in Sessions : <<Audit, RevokeList(s)>> \in Seq(S)
    <3> HIDE DEF S
    <3> QED BY <2>0
  <2>2. CASE Disable \/ Enable \/ ResetPassword \/ DeleteUser
    BY <2>1, <2>2 DEF Disable, Enable, ResetPassword, DeleteUser, UpdateUser, Types
  <2>3. ASSUME NEW s \in Sessions, ChangePassword(s)
        PROVE  Types'
    BY <2>1, <2>3 DEF ChangePassword, UpdateUser, Types
  <2>4. CASE ChangeGroups
    BY <2>1, <2>4 DEF ChangeGroups, Types
  <2>5. ASSUME NEW s \in Sessions, Revoke(s)
        PROVE  Types'
    BY <2>5 DEF Revoke, Types, store
  <2>6. ASSUME NEW t \in Tokens, RevokeToken(t)
        PROVE  Types'
    BY <2>1, <2>6 DEF RevokeToken, Types
  <2> QED BY <1>12, <2>2, <2>3, <2>4, <2>5, <2>6 DEF Request
<1>13. CASE RequestStep
  <2>1. todo # <<>> => Tail(todo) \in Seq(Steps)
    BY DEF Types
  <2>2. CASE ListSessions
    BY <2>1, <2>2 DEF ListSessions, Types, store
  <2>3. CASE LogAudit
    BY <2>1, <2>3, RecheckedType DEF LogAudit, Types, store
  <2>4. CASE DeleteUserTokens
    BY <2>1, <2>4, RecheckedType DEF DeleteUserTokens, Types
  <2>5. ASSUME NEW s \in Sessions, RevokeDelete(s)
        PROVE  Types'
    BY <2>5 DEF RevokeDelete, Types
  <2>6. CASE RevokeAnnounce
    BY <2>6, AfterEndedType DEF RevokeAnnounce, Types, store
  <2>7. CASE RevokeKick
    BY <2>7 DEF RevokeKick, Idle, Types, store
  <2> QED BY <1>13, <2>2, <2>3, <2>4, <2>5, <2>6, <2>7 DEF RequestStep
<1> QED
  BY <1>0, <1>1, <1>2, <1>3, <1>4, <1>5, <1>6, <1>7, <1>8, <1>9, <1>10, <1>11, <1>12, <1>13
  DEF Next, Check

-----------------------------------------------------------------------------
(* Checks of an events or logs socket never stack. *)

LEMMA MoveStacked ==
  ASSUME NeverStacked, Types, NEW w \in Ends, NEW p, NEW q, Move(w, p, q)
  PROVE  NeverStacked'
BY DEF Move, NeverStacked, Types, Ends

LEMMA RecheckedStacked ==
  ASSUME NeverStacked, SessionSocketsAssumption, checks' = Rechecked
  PROVE  NeverStacked'
BY DEF NeverStacked, Rechecked, SocketsToCheck, ShellsToCheck, SessionSocketsAssumption, Ends

LEMMA StackedStep ==
  ASSUME NeverStacked, Types, SessionSocketsAssumption, [Next]_vars
  PROVE  NeverStacked'
<1>1. ASSUME NEW w \in Ends, Check(w)
      PROVE  NeverStacked'
  <2>1. CASE GetSession(w)
    BY <2>1, MoveStacked DEF GetSession, Refuse
  <2>2. CASE GetUser(w)
    BY <2>2, MoveStacked DEF GetUser, Refuse
  <2>3. CASE AnnounceRefused(w) \/ GetPermissions(w)
    BY <2>3, MoveStacked DEF AnnounceRefused, GetPermissions
  <2>4. ASSUME NEW answer \in Answers, Answered(w, answer)
        PROVE  NeverStacked'
    BY <2>4 DEF Answered, NeverStacked, Types
  <2> QED BY <1>1, <2>1, <2>2, <2>3, <2>4 DEF Check
<1>2. CASE Sweep \/ LogAudit \/ DeleteUserTokens
  BY <1>2, RecheckedStacked DEF Sweep, Swept, LogAudit, DeleteUserTokens
<1>3. CASE CheckTimer
  BY <1>3 DEF CheckTimer, ShellsToCheck, NeverStacked, SessionSocketsAssumption, Ends
<1>4. CASE UNCHANGED checks
  BY <1>4 DEF NeverStacked
<1>5. ASSUME NEW w \in Ends, Bind(w) \/ Register(w) \/ Spawn(w) \/ Leave(w) \/ Grace(w)
      PROVE  UNCHANGED checks
  BY <1>5 DEF Bind, Register, Spawn, Leave, Grace
<1>6. ASSUME NEW i \in Ids, Expire(i) \/ \E w \in Ends : Upgrade(w, i)
      PROVE  UNCHANGED checks
  BY <1>6 DEF Upgrade, Expire
<1>7. ASSUME NEW s \in Sessions,
             VerifyLogin(s) \/ CreateSession(s) \/ Delete(s) \/ Announce(s) \/ Cleanup(s)
      PROVE  UNCHANGED checks
  BY <1>7 DEF VerifyLogin, CreateSession, Delete, Announce, Cleanup
<1>8. ASSUME Request
      PROVE  UNCHANGED checks
  BY <1>8 DEF Request, Disable, Enable, ResetPassword, DeleteUser, ChangePassword, UpdateUser,
    ChangeGroups, Revoke, RevokeToken
<1>9. ASSUME RequestStep, ~LogAudit, ~DeleteUserTokens
      PROVE  UNCHANGED checks
  BY <1>9 DEF RequestStep, ListSessions, RevokeDelete, RevokeAnnounce, RevokeKick
<1>10. CASE UNCHANGED vars
  BY <1>4, <1>10 DEF vars
<1> QED
  BY <1>1, <1>2, <1>3, <1>4, <1>5, <1>6, <1>7, <1>8, <1>9, <1>10 DEF Next

THEOREM TypeCorrect == Spec => []TypeOK
<1>1. Init => TypeOK
  <2> SUFFICES ASSUME Init PROVE TypeOK
    OBVIOUS
  <2>1. Types
    BY DEF Init, Types, Idle, Ids, Ends, Phases
  <2> QED BY <2>1 DEF Init, TypeOK, NeverStacked, Ends
<1>2. TypeOK /\ [Next]_vars => TypeOK'
  BY TypesStep, StackedStep, SessionSocketsAssumption DEF TypeOK
<1> QED BY <1>1, <1>2, PTL DEF Spec

-----------------------------------------------------------------------------
(* No shell of an ended session. *)

\* The shell runs, or its acceptance has seen the session live since it was registered.
Claims(h) ==
  \/ conn[h] = "open"
  \/ conn[h] = "starting" /\ accept[h] \in {"user", "permissions", "alive"}

Held(h) ==
  Claims(h) /\ ident[h] \in Sessions \ expired =>
    stored[ident[h]] = "live" \/ AnnouncementDue(ident[h])

\* A socket nobody opened has no check.
Unused == \A w \in Ends : conn[w] = "out" => accept[w] = "idle" /\ checks[w] = {}

IInv == TypeOK /\ Unused /\ \A h \in Shells : Held(h)

\* What a session event does to the sockets.
LEMMA AfterEndedConn ==
  ASSUME Types, SessionSocketsAssumption, NEW s, NEW b, NEW w \in Ends
  PROVE  /\ AfterEnded(s, b)[w] \in {"ending", "closed", conn[w]}
         /\ w \in Shells /\ conn[w] \in Registered /\ ident[w] = s => AfterEnded(s, b)[w] = "closed"
         /\ w \in Shells /\ AfterEnded(s, b)[w] \in Registered => AfterEnded(s, b)[w] = conn[w]
BY DEF AfterEnded, Ended, Types, Registered, SessionSocketsAssumption, Ends

LEMMA MoveUnused ==
  ASSUME Types, Unused, NEW w \in Ends, NEW p \in Phases, NEW q \in Phases, Move(w, p, q)
  PROVE  \A v \in Ends : conn[v] = "out" => accept'[v] = "idle" /\ checks'[v] = {}
BY DEF Move, Unused, Types, Phases, Answers

LEMMA RecheckedUnused ==
  ASSUME Unused, SessionSocketsAssumption, checks' \in {Rechecked,
           [w \in Ends |-> checks[w] \cup IF w \in ShellsToCheck THEN {"session"} ELSE {}]}
  PROVE  \A v \in Ends : conn[v] = "out" => checks'[v] = {}
BY DEF Rechecked, SocketsToCheck, ShellsToCheck, Unused

LEMMA UnusedStep ==
  ASSUME Types, Unused, SessionSocketsAssumption, [Next]_vars
  PROVE  Unused'
<1>1. ASSUME NEW w \in Ends, Check(w)
      PROVE  Unused'
  <2>1. CASE GetSession(w)
    BY <2>1, MoveUnused DEF GetSession, Refuse, Unused, Phases, Answers
  <2>2. CASE GetUser(w)
    BY <2>2, MoveUnused DEF GetUser, Refuse, Unused, Phases, Answers
  <2>3. CASE AnnounceRefused(w)
    <3>1. \A v \in Ends : conn'[v] = "out" => conn[v] = "out"
      BY <2>3, AfterEndedConn DEF AnnounceRefused
    <3> QED BY <3>1, <2>3, MoveUnused DEF AnnounceRefused, Unused, Phases, Answers
  <2>4. CASE GetPermissions(w)
    BY <2>4, MoveUnused DEF GetPermissions, Unused, Phases, Answers
  <2>5. ASSUME NEW answer \in Answers, Answered(w, answer)
        PROVE  Unused'
    BY <2>5 DEF Answered, Ended, Unused, Types
  <2> QED BY <1>1, <2>1, <2>2, <2>3, <2>4, <2>5 DEF Check
<1>2. ASSUME NEW w \in Ends, Bind(w) \/ Register(w) \/ Spawn(w) \/ Leave(w) \/ Grace(w)
      PROVE  Unused'
  BY <1>2 DEF Bind, Register, RegisteredAs, Spawn, Leave, Grace, Unused, Types, Answers
<1>3. ASSUME NEW w \in Ends, NEW i \in Ids, Upgrade(w, i)
      PROVE  Unused'
  BY <1>3 DEF Upgrade, Unused, Types
<1>4. ASSUME NEW s, AfterEnded(s, TRUE) = conn' \/ AfterEnded(s, FALSE) = conn', UNCHANGED <<accept, checks>>
      PROVE  Unused'
  <2>1. \A w \in Ends : conn'[w] = "out" => conn[w] = "out"
    BY <1>4, AfterEndedConn
  <2> QED BY <1>4, <2>1 DEF Unused
<1>5. CASE Sweep \/ LogAudit \/ DeleteUserTokens \/ CheckTimer
  BY <1>5, RecheckedUnused DEF Sweep, Swept, LogAudit, DeleteUserTokens, CheckTimer, Unused
<1>6. CASE UNCHANGED <<conn, accept, checks>>
  BY <1>6 DEF Unused
<1>7. ASSUME NEW i \in Ids, Expire(i)
      PROVE  Unused'
  BY <1>6, <1>7 DEF Expire
<1>8. ASSUME NEW s \in Sessions,
             VerifyLogin(s) \/ CreateSession(s) \/ Delete(s) \/ Announce(s) \/ Cleanup(s)
      PROVE  Unused'
  BY <1>4, <1>6, <1>8 DEF VerifyLogin, CreateSession, Delete, Announce, Cleanup
<1>9. CASE Request
  <2>1. UNCHANGED <<conn, accept, checks>>
    BY <1>9 DEF Request, Disable, Enable, ResetPassword, DeleteUser, ChangePassword, UpdateUser,
      ChangeGroups, Revoke, RevokeToken
  <2> QED BY <1>6, <2>1
<1>10. ASSUME RequestStep, ~LogAudit, ~DeleteUserTokens
       PROVE  Unused'
  <2>1. CASE RevokeAnnounce
    BY <1>4, <2>1 DEF RevokeAnnounce
  <2>2. CASE RevokeKick
    BY <2>2 DEF RevokeKick, Unused
  <2>3. CASE ListSessions \/ \E s \in Sessions : RevokeDelete(s)
    BY <1>6, <2>3 DEF ListSessions, RevokeDelete
  <2> QED BY <1>10, <2>1, <2>2, <2>3 DEF RequestStep
<1>11. CASE UNCHANGED vars
  BY <1>6, <1>11 DEF vars
<1> QED
  BY <1>1, <1>2, <1>3, <1>5, <1>7, <1>8, <1>9, <1>10, <1>11 DEF Next

LEMMA HeldStep ==
  ASSUME Types, Unused, SessionSocketsAssumption, [Next]_vars,
         NEW h \in Shells, Held(h)
  PROVE  Held(h)'
<1> USE DEF Held
<1>0. h \in Ends /\ h \notin Sockets /\ h \notin AwaitKick
  BY DEF SessionSocketsAssumption, Ends
<1>1. ASSUME NEW w \in Ends, GetSession(w)
      PROVE  Held(h)'
  BY <1>0, <1>1 DEF GetSession, Refuse, At, Move, Claims, AnnouncementDue, Types, admin
<1>2. ASSUME NEW w \in Ends, GetUser(w)
      PROVE  Held(h)'
  BY <1>0, <1>2 DEF GetUser, Refuse, At, Move, Claims, AnnouncementDue, Types, admin
<1>3. ASSUME NEW w \in Ends, AnnounceRefused(w)
      PROVE  Held(h)'
  <2>1. /\ UNCHANGED <<stored, expired, due, revoking, ident>>
        /\ conn'[h] = IF conn[h] \in Registered /\ ident[h] = ident[w] THEN "closed" ELSE conn[h]
    BY <1>0, <1>3 DEF AnnounceRefused, AfterEnded, Ended, store, admin
  <2>2. Claims(h)' /\ ident[h] # ident[w] => Claims(h)
    <3>1. ident[h] # ident[w] => conn'[h] = conn[h] /\ accept'[h] = accept[h]
      BY <1>0, <1>3, <2>1 DEF AnnounceRefused, Move, Types
    <3> QED BY <3>1 DEF Claims
  <2>3. Claims(h)' => ident[h] # ident[w]
    BY <2>1 DEF Claims, Registered
  <2>4. AnnouncementDue(ident[h]) /\ ident[h] # ident[w] => AnnouncementDue(ident[h])'
    <3>1. \A v \in Ends : v # w => accept'[v] = accept[v] /\ checks'[v] = checks[v]
      BY <1>3 DEF AnnounceRefused, Move, Types
    <3> QED BY <2>1, <3>1 DEF AnnouncementDue
  <2> QED BY <2>1, <2>2, <2>3, <2>4
<1>4. ASSUME NEW w \in Ends, GetPermissions(w)
      PROVE  Held(h)'
  BY <1>0, <1>4 DEF GetPermissions, Move, Claims, AnnouncementDue, Types, admin, store
<1>5. ASSUME NEW w \in Ends, NEW answer \in Answers, Answered(w, answer)
      PROVE  Held(h)'
  BY <1>0, <1>5 DEF Answered, Ended, Answers, Claims, AnnouncementDue, Types, admin, store
<1>6. ASSUME NEW w \in Ends, Bind(w) \/ Register(w) \/ Spawn(w)
      PROVE  Held(h)'
  BY <1>0, <1>6 DEF Bind, Register, RegisteredAs, Spawn, Answers, Claims, AnnouncementDue, Types, admin, store, SessionSocketsAssumption
<1>7. ASSUME NEW w \in Ends, Leave(w) \/ Grace(w)
      PROVE  Held(h)'
  BY <1>0, <1>7 DEF Leave, Grace, Claims, AnnouncementDue, Types, admin, store
<1>8. ASSUME NEW w \in Ends, NEW i \in Ids, Upgrade(w, i)
      PROVE  Held(h)'
  BY <1>0, <1>8 DEF Upgrade, Unused, Claims, AnnouncementDue, Types, admin, store
<1>9. ASSUME NEW i \in Ids, Expire(i)
      PROVE  Held(h)'
  BY <1>0, <1>9 DEF Expire, Claims, AnnouncementDue, Types, admin
<1>10. ASSUME NEW s \in Sessions,
             VerifyLogin(s) \/ CreateSession(s) \/ Delete(s) \/ Cleanup(s)
      PROVE  Held(h)'
  BY <1>0, <1>10 DEF VerifyLogin, CreateSession, Delete, Cleanup, Claims, AnnouncementDue, Types, admin
<1>11. ASSUME NEW s \in Sessions, Announce(s)
      PROVE  Held(h)'
  BY <1>0, <1>11, AfterEndedConn DEF Announce, Claims, AnnouncementDue, Types, Registered, admin, store
<1>12. ASSUME UNCHANGED <<stored, expired, due, revoking, conn, ident, accept>>,
              \A w \in Ends : "dropped" \in checks[w] => "dropped" \in checks'[w]
       PROVE  Held(h)'
  BY <1>12 DEF Claims, AnnouncementDue
<1>13. CASE CheckTimer \/ Sweep \/ LogAudit
  BY <1>12, <1>13 DEF CheckTimer, Sweep, Swept, LogAudit, Rechecked, store, admin
<1>14. CASE DeleteUserTokens
  BY <1>0, <1>14 DEF DeleteUserTokens, Rechecked, Claims, AnnouncementDue, Types, SessionSocketsAssumption
<1>15. CASE Request
  <2>1. ASSUME NEW t \in Tokens, RevokeToken(t)
        PROVE  Held(h)'
    BY <1>0, <2>1 DEF RevokeToken, Claims, AnnouncementDue, Types, SessionSocketsAssumption
  <2>2. CASE \A t \in Tokens : ~RevokeToken(t)
    <3>1. UNCHANGED <<stored, expired, due, revoking, conn, ident, accept, checks>>
      BY <1>15, <2>2 DEF Request, Disable, Enable, ResetPassword, DeleteUser, ChangePassword, UpdateUser,
        ChangeGroups, Revoke, store
    <3> QED BY <1>12, <3>1
  <2> QED BY <2>1, <2>2
<1>16. CASE ListSessions
  BY <1>12, <1>16 DEF ListSessions, store
<1>17. ASSUME NEW s \in Sessions, RevokeDelete(s)
       PROVE  Held(h)'
  BY <1>0, <1>17 DEF RevokeDelete, Claims, AnnouncementDue, Types
<1>18. CASE RevokeAnnounce
  <2>1. /\ UNCHANGED <<stored, expired, due, ident, accept, checks>>
        /\ conn'[h] = IF conn[h] \in Registered /\ ident[h] = revoking.of THEN "closed" ELSE conn[h]
    BY <1>0, <1>18 DEF RevokeAnnounce, AfterEnded, Ended, store
  <2>2. Claims(h)' => Claims(h) /\ ident[h] # revoking.of
    BY <2>1 DEF Claims, Registered
  <2>3. AnnouncementDue(ident[h]) /\ ident[h] # revoking.of => AnnouncementDue(ident[h])'
    BY <2>1 DEF AnnouncementDue
  <2> QED BY <2>1, <2>2, <2>3
<1>19. CASE RevokeKick
  BY <1>0, <1>19 DEF RevokeKick, Idle, Claims, AnnouncementDue, Types, store
<1>20. CASE UNCHANGED vars
  BY <1>12, <1>20 DEF vars, store, admin
<1> QED
  BY <1>1, <1>2, <1>3, <1>4, <1>5, <1>6, <1>7, <1>8, <1>9, <1>10, <1>11, <1>13, <1>14, <1>15, <1>16,
     <1>17, <1>18, <1>19, <1>20
  DEF Next, Check, RequestStep

(* A shell never runs on after its session ended: the invariant adds what an
   acceptance knows, that from the check after the registration on the session is
   live or its end is still to be announced to the registered shell. *)
THEOREM ShellsEndWithSessions == Spec => []NoShellOfEndedSession
<1>1. Init => IInv
  <2> SUFFICES ASSUME Init PROVE IInv
    OBVIOUS
  <2>1. Types
    BY DEF Init, Types, Idle, Ids, Ends, Phases
  <2>2. NeverStacked /\ Unused
    BY DEF Init, NeverStacked, Unused, Ends
  <2>3. \A h \in Shells : Held(h)
    BY DEF Init, Held, Claims, Ends
  <2> QED BY <2>1, <2>2, <2>3 DEF IInv, TypeOK
<1>2. IInv /\ [Next]_vars => IInv'
  BY TypesStep, StackedStep, UnusedStep, HeldStep, SessionSocketsAssumption DEF IInv, TypeOK
<1>3. IInv => NoShellOfEndedSession
  BY DEF IInv, Held, Claims, NoShellOfEndedSession
<1> QED BY <1>1, <1>2, <1>3, PTL DEF Spec

-----------------------------------------------------------------------------
(* A quiet shell is one its user may have. *)

Counted(h) == conn[h] \in {"starting", "open"}
Asking(h, phases) == phases \cap (checks[h] \cup {accept[h]}) # {}

\* The running request will have every shell checked.
RecheckDue == \E n \in DOMAIN todo : todo[n].do = "audit"

\* Whatever a shell is not entitled by, a check that has not read it yet, or has
\* read it right, is under way, or will be asked for.
TokenSeen(h) ==
  Counted(h) /\ ident[h] \in Tokens /\ stored[ident[h]] # "live" =>
    RecheckDue \/ Asking(h, {"session", "dead"})
BarredSeen(h) ==
  Counted(h) /\ barred # {} => RecheckDue \/ Asking(h, {"session", "user", "dropped", "dead"})
RightSeen(h) ==
  Counted(h) /\ ~mayShell =>
    RecheckDue \/ Asking(h, {"session", "user", "dropped", "permissions", "dead"})
Seen(h) == TokenSeen(h) /\ BarredSeen(h) /\ RightSeen(h)

\* A socket that was asked for has an identity, and one that runs was accepted.
Accepted == \A w \in Ends :
  /\ conn[w] # "out" => ident[w] \in Ids
  /\ w \in Shells /\ conn[w] = "open" => accept[w] = "idle"

\* A request for another check is not lost before its turn.
LEMMA DueStays ==
  ASSUME Types, todo # <<>>, Head(todo).do # "audit", todo' = Tail(todo), RecheckDue
  PROVE  RecheckDue'
<1>1. PICK n \in DOMAIN todo : todo[n].do = "audit"
  BY DEF RecheckDue
<1>2. todo \in Seq(Steps) /\ n \in 1..Len(todo) /\ n # 1
  BY <1>1 DEF Types
<1>3. n - 1 \in DOMAIN Tail(todo) /\ Tail(todo)[n - 1] = todo[n]
  BY <1>2
<1> QED BY <1>1, <1>3 DEF RecheckDue

\* A request that changes access has every shell checked at its end.
LEMMA StepsDue ==
  ASSUME todo' \in {<<Audit>>, <<Audit, RevokeList(NoOne)>>, <<RevokeList(NoOne), Audit>>,
                    <<RevokeList(NoOne), DropTokens, Audit>>}
                   \cup {<<Audit, RevokeList(s)>> : s \in Sessions}
  PROVE  RecheckDue'
<1>1. Audit.do = "audit"
  BY DEF Audit
<1>2. todo' = <<RevokeList(NoOne), DropTokens, Audit>> => 3 \in DOMAIN todo' /\ todo'[3] = Audit
  OBVIOUS
<1>3. todo' = <<RevokeList(NoOne), Audit>> => 2 \in DOMAIN todo' /\ todo'[2] = Audit
  OBVIOUS
<1>4. \A x : todo' = <<Audit, x>> \/ todo' = <<Audit>> => 1 \in DOMAIN todo' /\ todo'[1] = Audit
  OBVIOUS
<1> QED BY <1>1, <1>2, <1>3, <1>4 DEF RecheckDue

\* Nothing happened that concerns the shell.
LEMMA SeenKept ==
  ASSUME NEW h \in Shells, Seen(h), Counted(h)' => Counted(h),
         UNCHANGED <<barred, mayShell, ident>>, RecheckDue => RecheckDue',
         stored[ident[h]] = "live" => stored'[ident[h]] = "live" \/ ident[h] \notin Tokens,
         Counted(h)' => checks[h] \cup {accept[h]} \subseteq checks'[h] \cup {accept'[h]}
  PROVE  Seen(h)'
BY DEF Seen, TokenSeen, BarredSeen, RightSeen, Asking

\* A check of the shell goes on.
LEMMA SeenMoves ==
  ASSUME Types, NEW h \in Shells, Seen(h), Counted(h)' => Counted(h),
         UNCHANGED <<barred, mayShell, ident, todo>>,
         stored'[ident[h]] = stored[ident[h]] \/ ident[h] \notin Tokens,
         NEW p \in Phases, NEW q \in Phases, Move(h, p, q),
         p \in {"session", "dead"} /\ q \notin {"session", "dead"} => stored[ident[h]] = "live",
         p \in {"session", "user", "dropped", "dead"} /\ q \notin {"session", "user", "dropped", "dead"} =>
           barred = {},
         p # "alive" /\ q = "alive" => mayShell
  PROVE  Seen(h)'
<1>1. h \in Ends
  BY DEF Ends
<1>2. checks'[h] \cup {accept'[h]} \in {((checks[h] \cup {accept[h]}) \ {p}) \cup {q},
                                        (checks[h] \cup {accept[h]}) \cup {q}}
  BY <1>1 DEF Move, Types
<1> DEFINE now == checks[h] \cup {accept[h]}
<1>3. ASSUME NEW S, S \cap now # {}, p \in S => q \in S
      PROVE  S \cap (checks'[h] \cup {accept'[h]}) # {}
  BY <1>2, <1>3
<1>4. TokenSeen(h)'
  BY <1>3 DEF Seen, TokenSeen, RecheckDue, Asking
<1>5. BarredSeen(h)'
  BY <1>3 DEF Seen, BarredSeen, RecheckDue, Asking
<1>6. RightSeen(h)'
  BY <1>3 DEF Seen, RightSeen, RecheckDue, Asking, Phases, Answers
<1> QED BY <1>4, <1>5, <1>6 DEF Seen

\* A session event ends shells and starts none.
LEMMA CountedStays ==
  ASSUME Types, SessionSocketsAssumption, NEW h \in Shells, NEW s, NEW b, conn' = AfterEnded(s, b)
  PROVE  Counted(h)' => Counted(h)
<1>1. h \in Ends
  BY DEF Ends
<1>2. conn'[h] \in Registered => conn'[h] = conn[h]
  BY <1>1, AfterEndedConn
<1> QED BY <1>2 DEF Counted, Registered

\* A check of an identity leaves tokens and what the other sockets wait for alone.
LEMMA CheckAlone ==
  ASSUME Types, SessionSocketsAssumption, NEW w \in Ends, NEW h \in Shells,
         NEW p, NEW q, Move(w, p, q)
  PROVE  h # w => checks'[h] = checks[h] /\ accept'[h] = accept[h]
BY DEF Move, Types, Ends

LEMMA RefuseSpares ==
  ASSUME Types, SessionSocketsAssumption, NEW w \in Ends, NEW h \in Shells, NEW p, Refuse(w, p)
  PROVE  stored'[ident[h]] = stored[ident[h]] \/ ident[h] \notin Tokens
<1>1. CASE ident[w] \in Sessions
  <2>1. stored' = [stored EXCEPT ![ident[w]] = "gone"]
    BY <1>1 DEF Refuse
  <2>2. ident[h] \in Tokens => ident[h] # ident[w] /\ ident[h] \in Ids
    BY <1>1 DEF SessionSocketsAssumption, Ids
  <2> QED BY <2>1, <2>2 DEF Types
<1>2. CASE ident[w] \notin Sessions
  BY <1>2 DEF Refuse
<1> QED BY <1>1, <1>2

(* The steps of a check. *)
LEMMA SeenCheck ==
  ASSUME Types, SessionSocketsAssumption, NEW w \in Ends, Check(w), NEW h \in Shells, Seen(h)
  PROVE  Seen(h)'
<1> USE DEF Phases, Answers
<1>0. h \in Ends /\ h \notin AwaitKick /\ h \notin Sockets
  BY DEF SessionSocketsAssumption, Ends
<1>1. ASSUME NEW p \in Phases, NEW q \in Phases, Move(w, p, q), h # w,
             Counted(h)' => Counted(h), UNCHANGED <<barred, mayShell, ident, todo>>,
             stored'[ident[h]] = stored[ident[h]] \/ ident[h] \notin Tokens
      PROVE  Seen(h)'
  <2>1. checks'[h] = checks[h] /\ accept'[h] = accept[h]
    BY <1>1, CheckAlone
  <2> QED BY <1>1, <2>1, SeenKept DEF RecheckDue
<1>2. CASE GetSession(w)
  <2>1. /\ UNCHANGED <<barred, mayShell, ident, todo, conn>>
        /\ stored'[ident[h]] = stored[ident[h]] \/ ident[h] \notin Tokens
    BY <1>2, RefuseSpares DEF GetSession, admin
  <2>2. Counted(h)' <=> Counted(h)
    BY <2>1 DEF Counted
  <2>3. PICK q \in {"dead", "dropped", "user"} :
          Move(w, "session", q) /\ (q # "dead" => stored[ident[w]] = "live")
    BY <1>2 DEF GetSession, Refuse
  <2>4. CASE h = w
    BY <2>1, <2>2, <2>3, <2>4, SeenMoves
  <2>5. CASE h # w
    BY <1>1, <2>1, <2>2, <2>3, <2>5
  <2> QED BY <2>4, <2>5
<1>3. CASE GetUser(w)
  <2>1. /\ UNCHANGED <<barred, mayShell, ident, todo, conn>>
        /\ stored'[ident[h]] = stored[ident[h]] \/ ident[h] \notin Tokens
    BY <1>3, RefuseSpares DEF GetUser, admin
  <2>2. Counted(h)' <=> Counted(h)
    BY <2>1 DEF Counted
  <2>3. PICK q \in {"dead", "dropped", "permissions"} :
          Move(w, "user", q) /\ (q = "permissions" => barred = {})
    BY <1>3 DEF GetUser, Refuse
  <2>4. CASE h = w
    BY <2>1, <2>2, <2>3, <2>4, SeenMoves
  <2>5. CASE h # w
    BY <1>1, <2>1, <2>2, <2>3, <2>5
  <2> QED BY <2>4, <2>5
<1>4. CASE AnnounceRefused(w)
  <2>1. UNCHANGED <<barred, mayShell, ident, todo, stored>> /\ Move(w, "dropped", "dead")
    BY <1>4 DEF AnnounceRefused, admin, store
  <2>2. Counted(h)' => Counted(h)
    BY <1>4, CountedStays DEF AnnounceRefused
  <2>3. CASE h = w
    BY <2>1, <2>2, <2>3, SeenMoves
  <2>4. CASE h # w
    BY <1>1, <2>1, <2>2, <2>4
  <2> QED BY <2>3, <2>4
<1>5. CASE GetPermissions(w)
  <2>1. UNCHANGED <<barred, mayShell, ident, todo, stored, conn>>
    BY <1>5 DEF GetPermissions, admin, store
  <2>2. Counted(h)' <=> Counted(h)
    BY <2>1 DEF Counted
  <2>3. PICK q \in {"alive", "dead"} :
          Move(w, "permissions", q) /\ (w \in Shells /\ q = "alive" => mayShell)
    BY <1>5 DEF GetPermissions, HasPermission
  <2>4. CASE h = w
    BY <2>1, <2>2, <2>3, <2>4, SeenMoves
  <2>5. CASE h # w
    BY <1>1, <2>1, <2>2, <2>3, <2>5
  <2> QED BY <2>4, <2>5
<1>6. ASSUME NEW answer \in Answers, Answered(w, answer)
      PROVE  Seen(h)'
  <2>1. /\ UNCHANGED <<barred, mayShell, ident, todo, stored, accept>>
        /\ checks' = [checks EXCEPT ![w] = @ \ {answer}]
        /\ conn'[h] = IF h = w /\ conn[h] \in Registered /\ answer = "dead" THEN "closed" ELSE conn[h]
    BY <1>0, <1>6 DEF Answered, Ended, admin, store, Types
  <2>2. Counted(h)' => Counted(h) /\ (h # w \/ answer = "alive")
    BY <2>1 DEF Counted, Registered
  <2>3. Counted(h)' => \A S : "alive" \notin S /\ S \cap (checks[h] \cup {accept[h]}) # {} =>
                                S \cap (checks'[h] \cup {accept'[h]}) # {}
    BY <1>0, <2>1, <2>2 DEF Types
  <2> QED BY <2>1, <2>2, <2>3 DEF Seen, TokenSeen, BarredSeen, RightSeen, Asking, RecheckDue
<1> QED BY <1>2, <1>3, <1>4, <1>5, <1>6 DEF Check

(* The steps of a socket. *)
LEMMA SeenSocket ==
  ASSUME Types, Accepted, SessionSocketsAssumption, NEW w \in Ends, NEW h \in Shells, Seen(h),
         \/ Bind(w) \/ Register(w) \/ Spawn(w) \/ Leave(w) \/ Grace(w)
         \/ \E i \in Ids : Upgrade(w, i)
  PROVE  Seen(h)'
<1>0. h \in Ends /\ h \notin Sockets
  BY DEF SessionSocketsAssumption, Ends
<1>1. UNCHANGED <<stored, barred, mayShell, todo, checks>>
  BY DEF Bind, Register, Spawn, Leave, Grace, Upgrade, store, admin
<1>2. CASE h # w
  <2>1. conn'[h] = conn[h] /\ accept'[h] = accept[h] /\ ident'[h] = ident[h]
    <3>1. CASE Bind(w) \/ Leave(w) \/ Grace(w)
      BY <1>0, <1>2, <3>1 DEF Bind, Leave, Grace, Types
    <3>2. CASE Register(w)
      BY <1>0, <1>2, <3>2 DEF Register, Types
    <3>3. CASE Spawn(w)
      BY <1>0, <1>2, <3>3 DEF Spawn, Types
    <3>4. CASE \E i \in Ids : Upgrade(w, i)
      BY <1>0, <1>2, <3>4 DEF Upgrade, Types
    <3> QED BY <3>1, <3>2, <3>3, <3>4
  <2> QED BY <1>1, <2>1 DEF Seen, TokenSeen, BarredSeen, RightSeen, Asking, RecheckDue, Counted
<1>3. CASE h = w /\ ~Counted(h)'
  BY <1>3 DEF Seen, TokenSeen, BarredSeen, RightSeen
<1>4. CASE h = w /\ Counted(h)'
  <2>1. CASE Register(h)
    <3>1. "session" \in checks'[h] \cup {accept'[h]}
      BY <1>0, <1>4, <2>1 DEF Register, RegisteredAs, Counted, Types
    <3> QED BY <3>1 DEF Seen, TokenSeen, BarredSeen, RightSeen, Asking
  <2>2. CASE Spawn(h)
    <3>1. conn[h] = "starting" /\ accept[h] = "alive" /\ UNCHANGED ident
      BY <1>0, <1>4, <2>2 DEF Spawn, Counted, Types, Accepted, Answers
    <3>2. \A S : "alive" \notin S /\ S \cap (checks[h] \cup {accept[h]}) # {} =>
                   S \cap (checks'[h] \cup {accept'[h]}) # {}
      BY <1>1, <3>1
    <3>3. Counted(h)
      BY <3>1 DEF Counted
    <3> QED BY <1>1, <3>1, <3>2, <3>3 DEF Seen, TokenSeen, BarredSeen, RightSeen, Asking, RecheckDue
  <2>3. ~Bind(h) /\ ~Leave(h) /\ ~Grace(h) /\ ~\E i \in Ids : Upgrade(h, i)
    BY <1>0, <1>4 DEF Bind, Leave, Grace, Upgrade, Counted, Types
  <2> QED BY <1>4, <2>1, <2>2, <2>3
<1> QED BY <1>2, <1>3, <1>4

\* Every shell is being checked from the start, or will be.
LEMMA SeenAfresh ==
  ASSUME NEW h \in Shells, RecheckDue' \/ (Counted(h)' => "session" \in checks'[h])
  PROVE  Seen(h)'
BY DEF Seen, TokenSeen, BarredSeen, RightSeen, Asking

\* The session a step ends or makes is no shell's token.
LEMMA TokenSpared ==
  ASSUME Types, SessionSocketsAssumption, NEW h \in Shells, NEW s \in Sessions, NEW v,
         stored' = [stored EXCEPT ![s] = v] \/ UNCHANGED stored
  PROVE  stored[ident[h]] = "live" => stored'[ident[h]] = "live" \/ ident[h] \notin Tokens
<1>1. ident[h] \in Tokens => ident[h] \in Ids /\ ident[h] # s
  BY DEF SessionSocketsAssumption, Ids
<1> QED BY <1>1 DEF Types

(* The steps of a request. *)
LEMMA SeenRequest ==
  ASSUME Types, SessionSocketsAssumption, NEW h \in Shells, Seen(h), Request
  PROVE  Seen(h)'
<1>1. ASSUME NEW s \in Sessions, Revoke(s)
      PROVE  Seen(h)'
  BY <1>1, SeenKept DEF Revoke, Counted, RecheckDue, store
<1>2. CASE Disable \/ Enable \/ ResetPassword \/ DeleteUser
  BY <1>2, StepsDue, SeenAfresh DEF Disable, Enable, ResetPassword, DeleteUser, UpdateUser
<1>3. ASSUME NEW s \in Sessions, ChangePassword(s)
      PROVE  Seen(h)'
  BY <1>3, StepsDue, SeenAfresh DEF ChangePassword, UpdateUser
<1>4. CASE ChangeGroups
  BY <1>4, StepsDue, SeenAfresh DEF ChangeGroups
<1>5. ASSUME NEW t \in Tokens, RevokeToken(t)
      PROVE  Seen(h)'
  BY <1>5, StepsDue, SeenAfresh DEF RevokeToken
<1> QED BY <1>1, <1>2, <1>3, <1>4, <1>5 DEF Request

LEMMA SeenRequestStep ==
  ASSUME Types, SessionSocketsAssumption, NEW h \in Shells, Seen(h), RequestStep
  PROVE  Seen(h)'
<1>0. h \in Ends /\ h \notin AwaitKick
  BY DEF SessionSocketsAssumption, Ends
<1>1. CASE ListSessions
  <2>1. RecheckDue => RecheckDue'
    BY <1>1, DueStays DEF ListSessions
  <2> QED BY <1>1, <2>1, SeenKept DEF ListSessions, Counted, store
<1>2. CASE LogAudit \/ DeleteUserTokens
  BY <1>0, <1>2, SeenAfresh DEF LogAudit, DeleteUserTokens, Rechecked, ShellsToCheck, Counted
<1>3. CASE RevokeAnnounce
  <2>1. Counted(h)' => Counted(h)
    BY <1>3, CountedStays DEF RevokeAnnounce
  <2> QED BY <1>3, <2>1, SeenKept DEF RevokeAnnounce, RecheckDue, store
<1>4. CASE RevokeKick
  <2>1. Counted(h)' => Counted(h)
    BY <1>0, <1>4 DEF RevokeKick, Counted
  <2> QED BY <1>4, <2>1, SeenKept DEF RevokeKick, RecheckDue, store
<1>5. ASSUME NEW s \in Sessions, RevokeDelete(s)
      PROVE  Seen(h)'
  <2>1. stored[ident[h]] = "live" => stored'[ident[h]] = "live" \/ ident[h] \notin Tokens
    BY <1>5, TokenSpared DEF RevokeDelete
  <2> QED BY <1>5, <2>1, SeenKept DEF RevokeDelete, Counted, RecheckDue
<1> QED BY <1>1, <1>2, <1>3, <1>4, <1>5 DEF RequestStep

LEMMA SeenStep ==
  ASSUME Types, Accepted, SessionSocketsAssumption, [Next]_vars, NEW h \in Shells, Seen(h)
  PROVE  Seen(h)'
<1>0. h \in Ends
  BY DEF Ends
<1>1. ASSUME NEW i \in Ids, Expire(i)
      PROVE  Seen(h)'
  BY <1>1, SeenKept DEF Expire, Counted, RecheckDue, admin
<1>2. ASSUME NEW s \in Sessions,
             VerifyLogin(s) \/ CreateSession(s) \/ Delete(s) \/ Cleanup(s)
      PROVE  Seen(h)'
  <2>1. stored[ident[h]] = "live" => stored'[ident[h]] = "live" \/ ident[h] \notin Tokens
    BY <1>2, TokenSpared DEF VerifyLogin, CreateSession, Delete, Cleanup
  <2> QED
    BY <1>2, <2>1, SeenKept DEF VerifyLogin, CreateSession, Delete, Cleanup, Counted, RecheckDue, admin
<1>3. ASSUME NEW s \in Sessions, Announce(s)
      PROVE  Seen(h)'
  <2>1. Counted(h)' => Counted(h)
    BY <1>3, CountedStays DEF Announce
  <2> QED BY <1>3, <2>1, SeenKept DEF Announce, RecheckDue, admin, store
<1>4. CASE CheckTimer \/ Sweep
  BY <1>0, <1>4, SeenAfresh DEF CheckTimer, Sweep, Swept, Rechecked, ShellsToCheck, Counted
<1>5. CASE UNCHANGED vars
  BY <1>5, SeenKept DEF vars, store, admin, Counted, RecheckDue
<1> QED
  BY <1>1, <1>2, <1>3, <1>4, <1>5, SeenCheck, SeenSocket, SeenRequest, SeenRequestStep DEF Next

\* An answer the shell's own acceptance waits for is no idle one.
LEMMA MoveAccepted ==
  ASSUME Types, Accepted, NEW w \in Ends, NEW p \in Phases, NEW q \in Phases, Move(w, p, q)
  PROVE  \A v \in Shells : conn[v] = "open" => accept'[v] = "idle"
BY DEF Move, Accepted, Types, Phases, Answers, Ends

\* A session event opens nothing.
LEMMA EndedAccepted ==
  ASSUME Types, Accepted, SessionSocketsAssumption, NEW s, NEW b, conn' = AfterEnded(s, b),
         UNCHANGED ident, \A v \in Shells : conn[v] = "open" => accept'[v] = "idle"
  PROVE  Accepted'
<1>1. ASSUME NEW w \in Ends
      PROVE  /\ conn'[w] # "out" => conn[w] # "out"
             /\ w \in Shells /\ conn'[w] = "open" => conn[w] = "open"
  <2>1. conn'[w] # conn[w] => conn[w] \in Registered
    BY <1>1 DEF AfterEnded
  <2>2. w \in Shells /\ conn'[w] = "open" => conn[w] = "open"
    BY <1>1, AfterEndedConn
  <2> QED BY <2>1, <2>2 DEF Registered
<1> QED BY <1>1 DEF Accepted

LEMMA AcceptedStep ==
  ASSUME Types, Accepted, SessionSocketsAssumption, [Next]_vars
  PROVE  Accepted'
<1>0. UNCHANGED <<conn, ident, accept>> => Accepted'
  BY DEF Accepted
<1>1. ASSUME NEW w \in Ends, NEW p \in Phases, NEW q \in Phases, Move(w, p, q), UNCHANGED <<conn, ident>>
      PROVE  Accepted'
  BY <1>1, MoveAccepted DEF Accepted
<1>2. ASSUME NEW w \in Ends, Check(w)
      PROVE  Accepted'
  <2> USE DEF Phases, Answers
  <2>1. CASE GetSession(w)
    BY <1>1, <2>1 DEF GetSession, Refuse
  <2>2. CASE GetUser(w)
    BY <1>1, <2>2 DEF GetUser, Refuse
  <2>3. CASE AnnounceRefused(w)
    <3>1. \A v \in Shells : conn[v] = "open" => accept'[v] = "idle"
      BY <2>3, MoveAccepted DEF AnnounceRefused
    <3> QED BY <2>3, <3>1, EndedAccepted DEF AnnounceRefused
  <2>4. CASE GetPermissions(w)
    BY <1>1, <2>4 DEF GetPermissions
  <2>5. ASSUME NEW answer \in Answers, Answered(w, answer)
        PROVE  Accepted'
    BY <2>5 DEF Answered, Ended, Accepted, Types, Registered
  <2> QED BY <1>2, <2>1, <2>2, <2>3, <2>4, <2>5 DEF Check
<1>3. ASSUME NEW w \in Ends, Bind(w) \/ Register(w) \/ Spawn(w) \/ Leave(w) \/ Grace(w)
      PROVE  Accepted'
  BY <1>3 DEF Bind, Register, RegisteredAs, Spawn, Leave, Grace, Accepted, Types, Answers, SessionSocketsAssumption
<1>4. ASSUME NEW w \in Ends, NEW i \in Ids, Upgrade(w, i)
      PROVE  Accepted'
  BY <1>4 DEF Upgrade, Accepted, Types
<1>5. ASSUME NEW i \in Ids, Expire(i)
      PROVE  Accepted'
  BY <1>0, <1>5 DEF Expire
<1>6. ASSUME NEW s \in Sessions,
             VerifyLogin(s) \/ CreateSession(s) \/ Delete(s) \/ Cleanup(s)
      PROVE  Accepted'
  BY <1>0, <1>6 DEF VerifyLogin, CreateSession, Delete, Cleanup
<1>7. ASSUME NEW s \in Sessions, Announce(s)
      PROVE  Accepted'
  BY <1>7, EndedAccepted DEF Announce, Accepted, Ends
<1>8. CASE CheckTimer \/ Sweep
  BY <1>0, <1>8 DEF CheckTimer, Sweep
<1>9. CASE Request
  BY <1>0, <1>9 DEF Request, Disable, Enable, ResetPassword, DeleteUser, ChangePassword, UpdateUser,
    ChangeGroups, Revoke, RevokeToken
<1>10. CASE RequestStep
  <2>1. CASE RevokeAnnounce
    BY <2>1, EndedAccepted DEF RevokeAnnounce, Accepted, Ends
  <2>2. CASE RevokeKick
    BY <2>2 DEF RevokeKick, Accepted, Registered
  <2>3. CASE ListSessions \/ LogAudit \/ DeleteUserTokens \/ \E s \in Sessions : RevokeDelete(s)
    BY <1>0, <2>3 DEF ListSessions, LogAudit, DeleteUserTokens, RevokeDelete
  <2> QED BY <1>10, <2>1, <2>2, <2>3 DEF RequestStep
<1>11. CASE UNCHANGED vars
  BY <1>0, <1>11 DEF vars
<1> QED BY <1>2, <1>3, <1>4, <1>5, <1>6, <1>7, <1>8, <1>9, <1>10, <1>11 DEF Next

\* The sockets hold what they should, whatever became of the access of their user.
QInv == IInv /\ Accepted /\ \A h \in Shells : Seen(h)

(* Once no request and no check of it is under way, a running shell is one its
   user may have: AuthService reads the session, the user and the permissions at
   three instants, but every change of one of them is followed by a re-check of
   the shells, started after it, and a check that started before the change does
   not stop that one (ShellsToCheck asks nothing about the checks under way). *)
THEOREM QuietShellsAreEntitled == Spec => []QuietShellEntitled
<1>1. Init => QInv
  <2> SUFFICES ASSUME Init PROVE QInv
    OBVIOUS
  <2>1. Types
    BY DEF Init, Types, Idle, Ids, Ends, Phases
  <2>2. NeverStacked /\ Unused /\ Accepted
    BY DEF Init, NeverStacked, Unused, Accepted, Ends
  <2>3. \A h \in Shells : Held(h) /\ Seen(h)
    BY DEF Init, Held, Claims, Ends, Seen, TokenSeen, BarredSeen, RightSeen, Counted
  <2> QED BY <2>1, <2>2, <2>3 DEF QInv, IInv, TypeOK
<1>2. QInv /\ [Next]_vars => QInv'
  BY TypesStep, StackedStep, UnusedStep, HeldStep, AcceptedStep, SeenStep, SessionSocketsAssumption
  DEF QInv, IInv, TypeOK
<1>3. QInv => QuietShellEntitled
  <2> SUFFICES ASSUME QInv, NEW h \in Shells, conn[h] = "open", checks[h] = {},
                      ident[h] \notin expired, Free, ~AnnouncementDue(ident[h])
               PROVE  Entitled(h)
    BY DEF QuietShellEntitled
  <2>1. accept[h] = "idle" /\ ident[h] \in Ids
    BY DEF QInv, Accepted, Ends
  <2>2. ~RecheckDue
    BY DEF Free, RecheckDue
  <2>3. \A S : "idle" \notin S => ~Asking(h, S)
    BY <2>1 DEF Asking
  <2>4. barred = {} /\ mayShell
    BY <2>2, <2>3 DEF QInv, Seen, BarredSeen, RightSeen, Counted, IInv, TypeOK, Types
  <2>5. stored[ident[h]] = "live"
    <3>1. CASE ident[h] \in Sessions
      BY <3>1 DEF QInv, IInv, Held, Claims
    <3>2. CASE ident[h] \in Tokens
      BY <2>2, <2>3, <3>2 DEF QInv, Seen, TokenSeen, Counted
    <3> QED BY <2>1, <3>1, <3>2 DEF Ids
  <2> QED BY <2>4, <2>5 DEF Entitled
<1> QED BY <1>1, <1>2, <1>3, PTL DEF Spec
=============================================================================
