---------------------------- MODULE LoginLockout ----------------------------
(***************************************************************************)
(* The lockout of AuthService for one key (a user's id, or an attempted    *)
(* name): an attempt is reserved before the slow password check, counted   *)
(* while it is in flight and after it failed, and forgotten on a success,  *)
(* on a reset by an administrator or when the count or the lock expires.   *)
(* Keys share nothing but the size above which a sweep runs, and a sweep   *)
(* may run at any time here.                                               *)
(***************************************************************************)
EXTENDS Naturals, FiniteSets

CONSTANTS Attempts,          \* the password checks of a behaviour
          MaxLoginAttempts,
          LockoutMs,
          MaxTime            \* bound: the last instant of the clock

ASSUME LoginLockoutAssumption ==
  /\ IsFiniteSet(Attempts)
  /\ MaxLoginAttempts \in Nat \ {0} /\ LockoutMs \in Nat \ {0} /\ MaxTime \in Nat

VARIABLES known,       \* `lockouts` has an entry for the key
          failures, lockedUntil, lastAttempt, \* that entry
          now,         \* Date.now()
          inFlight,    \* attempts reserved, their password check not over
          reservedAt,  \* history: when an attempt was reserved, 0 before that
          counted,     \* history: the attempts the entry counts
          wrong,       \* history: those of them that failed
          since        \* history: the attempts since the last success or reset

entry == <<known, failures, lockedUntil, lastAttempt>>
vars == <<known, failures, lockedUntil, lastAttempt, now, inFlight, reservedAt,
          counted, wrong, since>>

Init ==
  /\ known = FALSE /\ failures = 0 /\ lockedUntil = 0 /\ lastAttempt = 0
  /\ now = 1 /\ inFlight = {} /\ reservedAt = [a \in Attempts |-> 0]
  /\ counted = {} /\ wrong = {} /\ since = {}

\* isLockoutExpired.
Expired ==
  IF lockedUntil # 0 THEN now >= lockedUntil ELSE now >= lastAttempt + LockoutMs

(* Mutant: an attempt is counted when it has failed, not when it is reserved. *)
CountUnreserved(n) == n

Count(n) == n + 1

Free(n) == n < MaxLoginAttempts

(* reserveAttempt: an expired entry is dropped, a missing one created; the
   attempt is refused (429, nothing changes) while the key is locked or when
   every attempt is taken. *)
Reserve(a) ==
  /\ reservedAt[a] = 0
  /\ \/ /\ known /\ ~Expired
        /\ lockedUntil <= now /\ Free(failures)
        /\ failures' = Count(failures) /\ counted' = counted \cup {a}
        /\ UNCHANGED <<lockedUntil, wrong>>
     \/ /\ ~known \/ Expired
        /\ failures' = Count(0) /\ lockedUntil' = 0
        /\ counted' = {a} /\ wrong' = {}
  /\ known' = TRUE /\ lastAttempt' = now
  /\ inFlight' = inFlight \cup {a} /\ since' = since \cup {a}
  /\ reservedAt' = [reservedAt EXCEPT ![a] = now]
  /\ UNCHANGED now

Forget ==
  /\ known' = FALSE /\ failures' = 0 /\ lockedUntil' = 0 /\ lastAttempt' = 0
  /\ counted' = {} /\ wrong' = {}

(* Mutant: the key is never locked. *)
LockedUntilNever(n, until) == until

\* The lock set by the last failure; a lock that stands is left alone.
LockedUntil(n, until) ==
  IF n >= MaxLoginAttempts /\ until = 0 THEN now + LockoutMs ELSE until

\* attemptFailed: the entry may be gone by now, or be a later one.
AttemptFailed(a) ==
  /\ a \in inFlight
  /\ \/ /\ known
        /\ lockedUntil' = LockedUntil(failures, lockedUntil)
        /\ wrong' = wrong \cup (counted \cap {a})
        /\ UNCHANGED <<failures, counted>>
     \/ /\ ~known
        /\ failures' = 1 /\ lockedUntil' = LockedUntil(1, 0)
        /\ counted' = {a} /\ wrong' = {a}
  /\ known' = TRUE /\ lastAttempt' = now
  /\ inFlight' = inFlight \ {a}
  /\ UNCHANGED <<now, reservedAt, since>>

\* attemptSucceeded: the entry goes, whatever it counts besides.
AttemptSucceeded(a) ==
  /\ a \in inFlight
  /\ Forget
  /\ inFlight' = inFlight \ {a} /\ since' = {}
  /\ UNCHANGED <<now, reservedAt>>

\* The credential store rejects: the attempt stays counted.
CheckThrows(a) ==
  /\ a \in inFlight
  /\ inFlight' = inFlight \ {a}
  /\ UNCHANGED <<entry, now, reservedAt, counted, wrong, since>>

\* clearLockout: a password reset or the user's deletion.
ClearLockout ==
  /\ Forget /\ since' = {}
  /\ UNCHANGED <<now, inFlight, reservedAt>>

\* sweepLockouts, and isLocked on an expired entry.
SweepLockouts ==
  /\ known /\ Expired
  /\ Forget
  /\ UNCHANGED <<now, inFlight, reservedAt, since>>

Tick ==
  /\ now < MaxTime /\ now' = now + 1
  /\ UNCHANGED <<entry, inFlight, reservedAt, counted, wrong, since>>

Next ==
  \/ \E a \in Attempts :
       Reserve(a) \/ AttemptFailed(a) \/ AttemptSucceeded(a) \/ CheckThrows(a)
  \/ ClearLockout \/ SweepLockouts \/ Tick

Spec == Init /\ [][Next]_vars

-----------------------------------------------------------------------------
(* Properties *)

TypeOK ==
  /\ known \in BOOLEAN /\ failures \in 0..MaxLoginAttempts
  /\ lockedUntil \in Nat /\ lastAttempt \in Nat
  /\ now \in Nat \ {0} /\ reservedAt \in [Attempts -> Nat]
  /\ inFlight \in SUBSET Attempts /\ counted \in SUBSET Attempts
  /\ wrong \in SUBSET Attempts /\ since \in SUBSET Attempts

Recent == {a \in since : now < reservedAt[a] + LockoutMs}

(* reserveAttempt: since the last success or reset, at most maxLoginAttempts
   passwords are checked in any stretch of lockoutMs, however the checks,
   their failures, the sweeps and the lock's expiry interleave. *)
AttemptsBounded == Cardinality(Recent) <= MaxLoginAttempts

(* Once every attempt an entry allows has failed the key is locked: no order of
   late failures leaves it open. *)
AllWrongLocks ==
  known /\ Cardinality(wrong) >= MaxLoginAttempts => lockedUntil # 0

(* A lock ends when it was said to: failures of attempts that were in flight
   when it was set do not move it. *)
LockNotMoved ==
  [][known /\ lockedUntil # 0 => lockedUntil' \in {lockedUntil, 0} \/ now >= lockedUntil]_vars
=============================================================================
