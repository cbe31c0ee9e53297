----------------------------- MODULE ShellLives -----------------------------
(***************************************************************************)
(* The life of a shell session in CliShellSessionManager: authorization,   *)
(* which awaits, then the limits, the first re-check of its user, the      *)
(* spawn, the idle and duration timers, and its one end.  Who is entitled  *)
(* to a shell is SessionSockets' subject; here a check may answer either.  *)
(***************************************************************************)
EXTENDS Naturals, FiniteSets

CONSTANTS Terminals,
          Keys,                   \* a limit key: a user, or a remote address
          MaxSessions, MaxSessionsPerUser,
          IdleTimeout, MaxDuration,
          MaxTimeout,             \* MAX_TIMEOUT_MS, the longest delay a timer takes
          MaxNow                  \* bound on the clock

ASSUME ShellLivesAssumption ==
  /\ IsFiniteSet(Terminals)
  /\ {MaxSessions, MaxSessionsPerUser, IdleTimeout, MaxDuration, MaxTimeout} \subseteq Nat \ {0}
  /\ MaxNow \in Nat

VARIABLES life,      \* per shell: "out", "authorizing", "checking", "open", "over"
          key,       \* per shell
          gone,      \* shells whose client has closed the socket
          now,
          lastInput, started,
          idleAt, expireAt  \* when the timers fire

times == <<now, lastInput, started, idleAt, expireAt>>
lifeVars == <<life, key, gone, times>>

InUse == {h \in Terminals : life[h] \in {"checking", "open"}}

LivesInit ==
  /\ life = [h \in Terminals |-> "out"] /\ key \in [Terminals -> Keys] /\ gone = {}
  /\ now = 0 /\ lastInput = [h \in Terminals |-> 0] /\ started = lastInput
  /\ idleAt = lastInput /\ expireAt = lastInput

-----------------------------------------------------------------------------
(* The end *)

\* end: once per session; the timers are cleared.
EndOf(h) ==
  /\ life' = [life EXCEPT ![h] = "over"]
  /\ gone' = gone \ {h}
  /\ idleAt' = [idleAt EXCEPT ![h] = 0] /\ expireAt' = [expireAt EXCEPT ![h] = 0]
  /\ lastInput' = [lastInput EXCEPT ![h] = 0] /\ started' = [started EXCEPT ![h] = 0]
  /\ UNCHANGED <<key, now>>

-----------------------------------------------------------------------------
(* accept *)

Accept(h) ==
  /\ life[h] = "out"
  /\ life' = [life EXCEPT ![h] = "authorizing"]
  /\ UNCHANGED <<key, gone, times>>

(* Mutant: the shells under authorization's way are not counted again. *)
HasRoomForOne(h) == Cardinality(InUse) <= MaxSessions

HasRoom(h) ==
  /\ Cardinality({g \in InUse : key[g] = key[h]}) < MaxSessionsPerUser
  /\ Cardinality(InUse) < MaxSessions

Min2(a, b) == IF a < b THEN a ELSE b

\* spawn and armTimers; an unavailable pty or a failing spawn ends the session.
Spawns(h) ==
  \/ /\ life' = [life EXCEPT ![h] = "open"]
     /\ idleAt' = [idleAt EXCEPT ![h] = now + Min2(IdleTimeout, MaxTimeout)]
     /\ expireAt' = [expireAt EXCEPT ![h] = now + Min2(MaxDuration, MaxTimeout)]
     /\ started' = [started EXCEPT ![h] = now]
     /\ UNCHANGED <<key, gone, now, lastInput>>
  \/ EndOf(h)

\* authorize answers: refused, or the client left, or no room; else registered.
Authorized(h) ==
  /\ life[h] = "authorizing"
  /\ \/ EndOf(h)
     \/ /\ h \notin gone /\ HasRoom(h)
        /\ life' = [life EXCEPT ![h] = "checking"]
        /\ lastInput' = [lastInput EXCEPT ![h] = now]
        /\ UNCHANGED <<key, gone, now, started, idleAt, expireAt>>

\* The re-check of the user, or none without one; then the spawn, unless it failed
\* or the client has left.
Checked(h) ==
  /\ life[h] = "checking"
  /\ \/ EndOf(h)
     \/ h \notin gone /\ Spawns(h)

-----------------------------------------------------------------------------
(* An open shell *)

Stdin(h) ==
  /\ life[h] = "open" /\ h \notin gone
  /\ lastInput' = [lastInput EXCEPT ![h] = now]
  /\ UNCHANGED <<life, key, gone, now, started, idleAt, expireAt>>

\* The client closes: an open shell ends, an earlier one finds out later.
ClientCloses(h) ==
  /\ h \notin gone /\ life[h] \in {"authorizing", "checking", "open"}
  /\ \/ life[h] = "open" /\ EndOf(h)
     \/ life[h] # "open" /\ gone' = gone \cup {h} /\ UNCHANGED <<life, key, times>>

\* The shell exits, its session or permission ends, or the server disposes of it.
EndsFor(h) == h \in InUse /\ EndOf(h)

(* Mutant: the timer starts over with the whole idle time. *)
RearmedWhole(h) == now + IdleTimeout

Rearmed(h) == now + Min2(lastInput[h] + IdleTimeout - now, MaxTimeout)

\* The idle timer's check.
IdleCheck(h) ==
  /\ life[h] = "open" /\ idleAt[h] <= now
  /\ \/ lastInput[h] + IdleTimeout <= now /\ EndOf(h)
     \/ /\ lastInput[h] + IdleTimeout > now
        /\ idleAt' = [idleAt EXCEPT ![h] = Rearmed(h)]
        /\ UNCHANGED <<life, key, gone, now, lastInput, started, expireAt>>

\* The duration timer, re-armed while its delay is cut to MAX_TIMEOUT_MS.
DurationCheck(h) ==
  /\ life[h] = "open" /\ expireAt[h] <= now
  /\ \/ started[h] + MaxDuration <= now /\ EndOf(h)
     \/ /\ started[h] + MaxDuration > now
        /\ expireAt' = [expireAt EXCEPT ![h] = now + Min2(started[h] + MaxDuration - now, MaxTimeout)]
        /\ UNCHANGED <<life, key, gone, now, lastInput, started, idleAt>>

Tick ==
  /\ now < MaxNow
  /\ now' = now + 1
  /\ UNCHANGED <<life, key, gone, lastInput, started, idleAt, expireAt>>

LivesNext ==
  \/ \E h \in Terminals : Accept(h) \/ Authorized(h) \/ Checked(h) \/ Stdin(h) \/ ClientCloses(h) \/ EndsFor(h)
                       \/ IdleCheck(h) \/ DurationCheck(h)
  \/ Tick

LivesSpec == LivesInit /\ [][LivesNext]_lifeVars

-----------------------------------------------------------------------------
(* Properties *)

(* There are never more shells than the limits, in all and per key, although
   several authorizations wait at once: they are counted after the wait. *)
WithinLimits ==
  /\ Cardinality(InUse) <= MaxSessions
  /\ \A k \in Keys : Cardinality({h \in InUse : key[h] = k}) <= MaxSessionsPerUser

(* The timers follow the input: they never wait past the idle deadline (the
   first: counted from the spawn, after a slow re-check) or the duration,
   although a delay is cut to MAX_TIMEOUT_MS and re-armed. *)
TimersFollowInput ==
  \A h \in Terminals : life[h] = "open" =>
    /\ idleAt[h] <= lastInput[h] + IdleTimeout \/ idleAt[h] <= started[h] + IdleTimeout
    /\ expireAt[h] <= started[h] + MaxDuration
=============================================================================
