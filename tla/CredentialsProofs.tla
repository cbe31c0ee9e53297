------------------------- MODULE CredentialsProofs --------------------------
EXTENDS LoginLockout, Passwords, ApiTokens, FiniteSetTheorems, SequenceTheorems, TLAPS

(***************************************************************************)
(* Proofs about LoginLockout, for every set of attempts, every limit and   *)
(* every lockout window.  The induction: an entry counts at least the      *)
(* attempts of the last window, and dates them: each was reserved before   *)
(* lastAttempt, and its window is over when a lock set since then is.      *)
(***************************************************************************)

\* What an entry says of the attempts it counts.
EntryCounts ==
  known => /\ Recent \subseteq counted /\ wrong \subseteq counted
           /\ Cardinality(counted) <= failures
           /\ \A a \in counted :
                /\ reservedAt[a] <= lastAttempt
                /\ lockedUntil # 0 => reservedAt[a] + LockoutMs <= lockedUntil

\* Without an entry there is nothing left to count.
NoEntry == ~known => Recent = {}

Dated == lastAttempt <= now /\ \A a \in Attempts : reservedAt[a] <= now

Inv == TypeOK /\ EntryCounts /\ NoEntry /\ Dated /\ AllWrongLocks

(* The sets of attempts are finite. *)
LEMMA FiniteAttempts == ASSUME NEW S \in SUBSET Attempts
                        PROVE IsFiniteSet(S) /\ Cardinality(S) \in Nat
BY LoginLockoutAssumption, FS_Subset, FS_CardinalityType

(* Counting one attempt more raises the count by one at most. *)
LEMMA CountOne == ASSUME NEW S \in SUBSET Attempts, NEW a \in Attempts
                  PROVE Cardinality(S \cup {a}) <= Cardinality(S) + 1
<1> DEFINE T == S \cup {a}
<1>1. IsFiniteSet(S) /\ Cardinality(S) \in Nat
  BY FiniteAttempts
<1>2. CASE a \in S
  <2>1. T = S
    BY <1>2
  <2>2. Cardinality(T) = Cardinality(S)
    BY <2>1
  <2> HIDE DEF T
  <2>3. Cardinality(T) <= Cardinality(S) + 1
    BY <2>2, <1>1
  <2> QED BY <2>3 DEF T
<1>3. CASE a \notin S
  <2>1. Cardinality(T) = Cardinality(S) + 1
    BY <1>1, <1>3, FS_AddElement
  <2> HIDE DEF T
  <2>2. Cardinality(T) <= Cardinality(S) + 1
    BY <2>1, <1>1
  <2> QED BY <2>2 DEF T
<1> QED BY <1>2, <1>3

(* An expired entry counts no attempt of the last window. *)
LEMMA ExpiredForgets == ASSUME Inv, known, Expired PROVE Recent = {}
BY LoginLockoutAssumption DEF Inv, TypeOK, EntryCounts, Expired, Recent

(* Initially there is no entry and no attempt. *)
LEMMA InitInv == Init => Inv
<1> SUFFICES ASSUME Init PROVE Inv
  OBVIOUS
<1>1. TypeOK
  <2>1. known \in BOOLEAN
    BY DEF Init
  <2>2. failures \in 0..MaxLoginAttempts
    BY LoginLockoutAssumption DEF Init
  <2>3. reservedAt \in [Attempts -> Nat]
    BY DEF Init
  <2> QED BY <2>1, <2>2, <2>3 DEF Init, TypeOK
<1>2. Recent = {}
  BY DEF Init, Recent
<1>3. EntryCounts /\ NoEntry /\ AllWrongLocks
  BY <1>2 DEF Init, EntryCounts, NoEntry, AllWrongLocks
<1>4. Dated
  BY DEF Init, Dated
<1> QED BY <1>1, <1>3, <1>4 DEF Inv

(* reserveAttempt keeps the invariant. *)
LEMMA ReserveInv == ASSUME Inv, NEW a \in Attempts, Reserve(a) PROVE Inv'
<1> USE LoginLockoutAssumption
<1>1. TypeOK'
  BY DEF Inv, TypeOK, Reserve, Count, Free
<1>2. Dated'
  BY DEF Inv, TypeOK, Dated, Reserve
<1>3. NoEntry'
  BY DEF NoEntry, Reserve
<1>4. Recent' \subseteq Recent \cup {a}
  BY DEF Inv, TypeOK, Recent, Reserve
<1>5. CASE known /\ ~Expired
  <2>1. /\ failures' = failures + 1 /\ failures < MaxLoginAttempts
        /\ counted' = counted \cup {a} /\ lockedUntil' = lockedUntil
        /\ lockedUntil = 0 /\ wrong' = wrong /\ lastAttempt' = now
    BY <1>5 DEF Inv, TypeOK, Reserve, Count, Free, Expired
  <2>2. Cardinality(counted') <= failures'
    <3>1. Cardinality(counted \cup {a}) <= Cardinality(counted) + 1
      BY CountOne DEF Inv, TypeOK
    <3>2. Cardinality(counted) \in Nat /\ Cardinality(counted \cup {a}) \in Nat
      BY FiniteAttempts DEF Inv, TypeOK
    <3> QED BY <3>1, <3>2, <2>1, <1>5 DEF Inv, TypeOK, EntryCounts
  <2>3. EntryCounts'
    <3>1. Recent' \subseteq counted' /\ wrong' \subseteq counted'
      BY <1>4, <1>5, <2>1 DEF Inv, EntryCounts
    <3>2. \A b \in counted' : reservedAt'[b] <= lastAttempt'
      BY <1>5, <2>1 DEF Inv, TypeOK, EntryCounts, Dated, Reserve
    <3> QED BY <3>1, <3>2, <2>1, <2>2 DEF EntryCounts
  <2>4. AllWrongLocks'
    BY <1>5, <2>1 DEF Inv, AllWrongLocks
  <2> QED BY <1>1, <1>2, <1>3, <2>3, <2>4 DEF Inv
<1>6. CASE ~known \/ Expired
  <2>1. /\ failures' = 1 /\ lockedUntil' = 0 /\ counted' = {a} /\ wrong' = {}
        /\ lastAttempt' = now
    BY <1>6 DEF Reserve, Count
  <2>2. Recent = {}
    BY <1>6, ExpiredForgets DEF Inv, NoEntry
  <2>3. Cardinality(counted') = 1 /\ Cardinality(wrong') = 0
    BY <2>1, FS_Singleton, FS_EmptySet
  <2>4. EntryCounts'
    BY <1>4, <2>1, <2>2, <2>3 DEF Inv, TypeOK, EntryCounts, Reserve
  <2>5. AllWrongLocks'
    BY <2>3 DEF AllWrongLocks
  <2> QED BY <1>1, <1>2, <1>3, <2>4, <2>5 DEF Inv
<1> QED BY <1>5, <1>6 DEF Reserve

(* attemptFailed keeps the invariant, whether the entry still stands or not. *)
LEMMA FailedInv == ASSUME Inv, NEW a \in Attempts, AttemptFailed(a) PROVE Inv'
<1> USE LoginLockoutAssumption
<1>1. TypeOK'
  BY DEF Inv, TypeOK, AttemptFailed, LockedUntil
<1>2. Dated' /\ NoEntry'
  BY DEF Inv, TypeOK, Dated, NoEntry, AttemptFailed
<1>3. Recent' = Recent
  BY DEF Recent, AttemptFailed
<1>4. CASE known
  <2>1. /\ failures' = failures /\ counted' = counted /\ lastAttempt' = now
        /\ lockedUntil' = LockedUntil(failures, lockedUntil)
        /\ wrong' = wrong \cup (counted \cap {a}) /\ reservedAt' = reservedAt
    BY <1>4 DEF AttemptFailed
  <2>2. EntryCounts'
    BY <1>3, <1>4, <2>1 DEF Inv, TypeOK, EntryCounts, Dated, LockedUntil
  <2>3. AllWrongLocks'
    <3>1. Cardinality(wrong') <= Cardinality(counted)
      BY <2>1, <1>4, FiniteAttempts, FS_Subset DEF Inv, TypeOK, EntryCounts
    <3>2. Cardinality(wrong') \in Nat /\ Cardinality(counted) \in Nat
      BY <1>1, FiniteAttempts DEF Inv, TypeOK
    <3> QED BY <3>1, <3>2, <1>4, <2>1
            DEF Inv, TypeOK, EntryCounts, AllWrongLocks, LockedUntil
  <2> QED BY <1>1, <1>2, <2>2, <2>3 DEF Inv
<1>5. CASE ~known
  <2>1. /\ failures' = 1 /\ counted' = {a} /\ wrong' = {a} /\ lastAttempt' = now
        /\ lockedUntil' = LockedUntil(1, 0) /\ reservedAt' = reservedAt
    BY <1>5 DEF AttemptFailed
  <2>2. Cardinality({a}) = 1
    BY FS_Singleton
  <2>3. EntryCounts'
    BY <1>3, <1>5, <2>1, <2>2 DEF Inv, TypeOK, EntryCounts, NoEntry, Dated, LockedUntil
  <2>4. AllWrongLocks'
    BY <2>1, <2>2 DEF Inv, TypeOK, AllWrongLocks, LockedUntil
  <2> QED BY <1>1, <1>2, <2>3, <2>4 DEF Inv
<1> QED BY <1>4, <1>5

(* Forgetting the entry keeps the types. *)
LEMMA ForgetTypes == ASSUME TypeOK, Forget, now' = now, reservedAt' = reservedAt,
                            inFlight' \in SUBSET Attempts, since' \in SUBSET Attempts
                     PROVE TypeOK'
<1>1. known' \in BOOLEAN
  BY DEF Forget
<1>2. failures' \in 0..MaxLoginAttempts
  BY LoginLockoutAssumption DEF Forget
<1> QED BY <1>1, <1>2 DEF TypeOK, Forget

(* Forgetting the entry keeps the invariant when no attempt of the last window
   is left to count. *)
LEMMA ForgetInv == ASSUME Inv, Forget, TypeOK', Recent' = {}, now' = now,
                          reservedAt' = reservedAt
                   PROVE Inv'
<1>1. EntryCounts' /\ NoEntry' /\ AllWrongLocks'
  BY DEF Forget, EntryCounts, NoEntry, AllWrongLocks
<1>2. Dated'
  BY DEF Inv, TypeOK, Forget, Dated
<1> QED BY <1>1, <1>2 DEF Inv

(* Every step keeps the invariant. *)
LEMMA StepInv == Inv /\ [Next]_vars => Inv'
<1> SUFFICES ASSUME Inv, [Next]_vars PROVE Inv'
  OBVIOUS
<1> USE LoginLockoutAssumption
<1>1. ASSUME NEW a \in Attempts, Reserve(a) PROVE Inv'
  BY <1>1, ReserveInv
<1>2. ASSUME NEW a \in Attempts, AttemptFailed(a) PROVE Inv'
  BY <1>2, FailedInv
<1>3. ASSUME NEW a \in Attempts, AttemptSucceeded(a) PROVE Inv'
  <2>1. TypeOK'
    BY <1>3, ForgetTypes DEF Inv, TypeOK, AttemptSucceeded
  <2>2. Recent' = {}
    BY <1>3 DEF AttemptSucceeded, Recent
  <2> QED BY <1>3, <2>1, <2>2, ForgetInv DEF AttemptSucceeded
<1>4. ASSUME NEW a \in Attempts, CheckThrows(a) PROVE Inv'
  <2>1. TypeOK' /\ Recent' = Recent
    BY <1>4 DEF Inv, TypeOK, CheckThrows, entry, Recent
  <2> QED BY <1>4, <2>1
          DEF Inv, CheckThrows, entry, EntryCounts, NoEntry, Dated, AllWrongLocks
<1>5. CASE ClearLockout
  <2>1. TypeOK'
    BY <1>5, ForgetTypes DEF Inv, TypeOK, ClearLockout
  <2>2. Recent' = {}
    BY <1>5 DEF ClearLockout, Recent
  <2> QED BY <1>5, <2>1, <2>2, ForgetInv DEF ClearLockout
<1>6. CASE SweepLockouts
  <2>1. Recent' = Recent /\ Recent = {}
    BY <1>6, ExpiredForgets DEF SweepLockouts, Recent
  <2>2. TypeOK'
    BY <1>6, ForgetTypes DEF Inv, TypeOK, SweepLockouts
  <2> QED BY <1>6, <2>1, <2>2, ForgetInv DEF SweepLockouts
<1>7. CASE Tick
  <2>1. TypeOK' /\ Recent' \subseteq Recent
    BY <1>7 DEF Inv, TypeOK, Tick, entry, Recent
  <2>2. Dated'
    BY <1>7 DEF Inv, TypeOK, Tick, entry, Dated
  <2>3. EntryCounts' /\ NoEntry' /\ AllWrongLocks'
    BY <1>7, <2>1 DEF Inv, Tick, entry, EntryCounts, NoEntry, AllWrongLocks
  <2> QED BY <2>1, <2>2, <2>3 DEF Inv
<1>8. CASE UNCHANGED vars
  <2>1. Recent' = Recent
    BY <1>8 DEF vars, Recent
  <2> QED BY <1>8, <2>1
          DEF Inv, vars, TypeOK, EntryCounts, NoEntry, Dated, AllWrongLocks
<1> QED BY <1>1, <1>2, <1>3, <1>4, <1>5, <1>6, <1>7, <1>8 DEF Next

(* The invariant holds of every behaviour. *)
THEOREM Invariance == Spec => []Inv
BY InitInv, StepInv, PTL DEF Spec

(* The counts stay within the limit and every variable in its type. *)
THEOREM TypeCorrect == Spec => []TypeOK
<1>1. Inv => TypeOK
  BY DEF Inv
<1> QED BY <1>1, Invariance, PTL

(* reserveAttempt: however attempts, failures, sweeps and expiries interleave, at
   most maxLoginAttempts passwords are checked within lockoutMs, until one
   succeeds or an administrator resets the count. *)
THEOREM GuessesBounded == Spec => []AttemptsBounded
<1>1. Inv => AttemptsBounded
  <2> SUFFICES ASSUME Inv PROVE AttemptsBounded
    OBVIOUS
  <2>1. CASE known
    <3>1. Cardinality(Recent) <= Cardinality(counted)
      BY <2>1, FiniteAttempts, FS_Subset DEF Inv, TypeOK, EntryCounts
    <3>2. Cardinality(Recent) \in Nat /\ Cardinality(counted) \in Nat
      BY FiniteAttempts DEF Inv, TypeOK, Recent
    <3> QED BY <2>1, <3>1, <3>2, LoginLockoutAssumption
            DEF Inv, TypeOK, EntryCounts, AttemptsBounded
  <2>2. CASE ~known
    BY <2>2, FS_EmptySet, LoginLockoutAssumption DEF Inv, NoEntry, AttemptsBounded
  <2> QED BY <2>1, <2>2
<1> QED BY <1>1, Invariance, PTL

(* attemptFailed: when every attempt an entry allows has failed, it is locked. *)
THEOREM FailuresLock == Spec => []AllWrongLocks
<1>1. Inv => AllWrongLocks
  BY DEF Inv
<1> QED BY <1>1, Invariance, PTL

(* A lock ends when it was said to: late failures do not prolong it. *)
THEOREM LocksStand == Spec => LockNotMoved
<1>1. Inv /\ [Next]_vars =>
        [known /\ lockedUntil # 0 => lockedUntil' \in {lockedUntil, 0} \/ now >= lockedUntil]_vars
  BY LoginLockoutAssumption
     DEF Inv, TypeOK, Next, vars, entry, Reserve, AttemptFailed, AttemptSucceeded,
         CheckThrows, ClearLockout, SweepLockouts, Tick, Forget, LockedUntil, Expired
<1> QED BY <1>1, Invariance, PTL DEF Spec, LockNotMoved

-----------------------------------------------------------------------------
(***************************************************************************)
(* Proofs about Passwords, for every number of logins, changes and slots.  *)
(* The slots: who hashes and who waits are different requests, and nobody  *)
(* is both or waits twice.  The sessions: a login that is being checked,   *)
(* and no change or disabling has raced with, still holds what it read.    *)
(* The flag: so does a change that no other has crossed.                   *)
(***************************************************************************)

Jobs == Logins \cup Changes

PwTypes ==
  /\ stored \in Changes \cup {First} /\ must \in BOOLEAN /\ disabled \in BOOLEAN
  /\ login = [l \in Logins |-> login[l]]
  /\ \A l \in Logins : login[l].at # "none" =>
       login[l] \in [at : {"checking", "session", "refused", "ended"}, right : BOOLEAN,
                     read : Changes \cup {First}, disabled : BOOLEAN]
  /\ change = [c \in Changes |-> change[c]]
  /\ \A c \in Changes : change[c].at # "none" =>
       change[c] \in [at : {"verify", "set", "refused", "done"}, by : Logins \cup {Other},
                      right : BOOLEAN, mustRead : BOOLEAN, mustBe : BOOLEAN]
  /\ raced \subseteq Logins /\ crossed \subseteq Changes

\* Hashing, or waiting for it.
Waits(j, w) == \E i \in 1..Len(w) : w[i] = j
Busy(j, h, w) == j \in h \/ Waits(j, w)

SlotsOK(a, h, w) ==
  /\ h \subseteq Jobs /\ IsFiniteSet(h) /\ a = Cardinality(h) /\ a <= HashSlots
  /\ w \in Seq(Jobs) /\ (w # << >> => a = HashSlots)
  /\ \A i, j \in 1..Len(w) : w[i] = w[j] => i = j
  /\ \A j \in h : ~Waits(j, w)

\* A request has a hash to wait for just while it is at one.
BusyAtWork ==
  \A j \in Jobs : Busy(j, hashing, waiters) =>
    /\ j \in Logins => login[j].at = "checking"
    /\ j \in Changes => change[j].at \in {"verify", "set"}

\* What an undisturbed login read is so still.
ReadsHold ==
  \A l \in Logins \ raced : login[l].at = "checking" =>
    login[l].read = stored /\ (~login[l].disabled => ~disabled)

\* What an undisturbed change read is so still.
FlagsHold == \A c \in Changes \ crossed : change[c].at \in {"verify", "set"} => must = change[c].mustRead

StoredDone == stored \in Changes => change[stored].at = "done"

PwInv ==
  /\ PwTypes /\ SlotsOK(active, hashing, waiters) /\ BusyAtWork
  /\ ReadsHold /\ FlagsHold /\ StoredDone /\ OldSessionsEnd /\ FlagFollowsChange

----------------------------------------------------------------------------
(* A request that takes a slot or waits for one is busy from then on. *)
LEMMA TakesKeeps ==
  ASSUME NEW a, NEW h, NEW w, SlotsOK(a, h, w), NEW j \in Jobs, ~Busy(j, h, w), Takes(j, a, h, w)
  PROVE  /\ SlotsOK(active', hashing', waiters')
         /\ \A i : Busy(i, hashing', waiters') <=> Busy(i, h, w) \/ i = j
<1>1. HashSlots \in Nat /\ Cardinality(h) \in Nat
  BY PasswordsAssumption, FS_CardinalityType DEF SlotsOK
<1>2. CASE a >= HashSlots
  <2>1. active' = a /\ hashing' = h /\ waiters' = Append(w, j)
    BY <1>2 DEF Takes
  <2> DEFINE v == Append(w, j)
  <2>2. /\ v \in Seq(Jobs) /\ Len(w) \in Nat /\ Len(v) = Len(w) + 1 /\ v[Len(w) + 1] = j
        /\ \A i \in 1..Len(w) : v[i] = w[i]
    BY AppendProperties, LenProperties DEF SlotsOK
  <2> HIDE DEF v
  <2>3. \A i : Waits(i, v) <=> Waits(i, w) \/ i = j
    BY <2>2 DEF Waits
  <2>4. \A i, k \in 1..Len(v) : v[i] = v[k] => i = k
    BY <2>2 DEF SlotsOK, Busy, Waits
  <2> QED BY <1>1, <1>2, <2>1, <2>2, <2>3, <2>4 DEF SlotsOK, Busy, v
<1>3. CASE ~(a >= HashSlots)
  <2>1. active' = a + 1 /\ hashing' = h \cup {j} /\ waiters' = w
    BY <1>3 DEF Takes
  <2>2. IsFiniteSet(hashing') /\ Cardinality(hashing') = a + 1
    BY <2>1, FS_AddElement DEF SlotsOK, Busy
  <2> QED BY <1>1, <1>3, <2>1, <2>2 DEF SlotsOK, Busy
<1> QED BY <1>2, <1>3

(* A request that gives its slot back hands it to the first that waits. *)
LEMMA FreesKeeps ==
  ASSUME SlotsOK(active, hashing, waiters), NEW j \in hashing
  PROVE  /\ SlotsOK(Freed(j).a, Freed(j).h, Freed(j).w)
         /\ \A i : Busy(i, Freed(j).h, Freed(j).w) <=> Busy(i, hashing, waiters) /\ i # j
<1> DEFINE rest == hashing \ {j}
<1>1. HashSlots \in Nat /\ Cardinality(hashing) \in Nat
  BY PasswordsAssumption, FS_CardinalityType DEF SlotsOK
<1>2. IsFiniteSet(rest) /\ Cardinality(rest) = active - 1
  BY FS_RemoveElement DEF SlotsOK
<1>3. CASE waiters = << >>
  <2>1. Freed(j).a = active - 1 /\ Freed(j).h = rest /\ Freed(j).w = waiters
    BY <1>3 DEF Freed
  <2>2. \A i : ~Waits(i, waiters)
    BY <1>3 DEF Waits
  <2> QED BY <1>1, <1>2, <1>3, <2>1, <2>2 DEF SlotsOK, Busy
<1>4. CASE waiters # << >>
  <2> DEFINE first == Head(waiters)
             w == Tail(waiters)
  <2>1. Freed(j).a = active /\ Freed(j).h = rest \cup {first} /\ Freed(j).w = w
    BY <1>4 DEF Freed
  <2>2. /\ first \in Jobs /\ w \in Seq(Jobs) /\ Len(waiters) \in Nat \ {0} /\ first = waiters[1]
        /\ Len(w) = Len(waiters) - 1 /\ \A i \in 1..Len(w) : w[i] = waiters[i + 1]
    BY <1>4, HeadTailProperties, LenProperties, EmptySeq DEF SlotsOK
  <2> HIDE DEF first, w
  <2>3. \A i \in 1..Len(waiters) : i = 1 \/ (i - 1 \in 1..Len(w) /\ w[i - 1] = waiters[i])
    BY <2>2
  <2>4. \A i \in 1..Len(w) : i + 1 \in 1..Len(waiters) /\ w[i] = waiters[i + 1]
    BY <2>2
  <2>5. Waits(first, waiters) /\ ~Waits(first, w) /\ first \notin hashing
    BY <2>2, <2>4 DEF SlotsOK, Waits
  <2>6. \A i : Waits(i, waiters) <=> Waits(i, w) \/ i = first
    <3>1. ASSUME NEW i, Waits(i, waiters)
          PROVE  Waits(i, w) \/ i = first
      BY <2>2, <2>3, <3>1 DEF Waits
    <3>2. ASSUME NEW i, Waits(i, w) \/ i = first
          PROVE  Waits(i, waiters)
      BY <2>4, <2>5, <3>2 DEF Waits
    <3> QED BY <3>1, <3>2
  <2>7. IsFiniteSet(rest \cup {first}) /\ Cardinality(rest \cup {first}) = active
    <3>1. first \notin rest /\ active \in Nat
      BY <1>1, <2>5 DEF SlotsOK
    <3> HIDE DEF rest
    <3>2. IsFiniteSet(rest \cup {first}) /\ Cardinality(rest \cup {first}) = (active - 1) + 1
      BY <1>2, <3>1, FS_AddElement
    <3> QED BY <3>1, <3>2
  <2>8. \A i, k \in 1..Len(w) : w[i] = w[k] => i = k
    BY <2>2, <2>4 DEF SlotsOK
  <2>9. \A i \in rest \cup {first} : ~Waits(i, w)
    BY <2>5, <2>6 DEF SlotsOK
  <2>10. SlotsOK(active, rest \cup {first}, w)
    BY <1>4, <2>2, <2>7, <2>8, <2>9 DEF SlotsOK
  <2>11. ~Waits(j, waiters)
    BY DEF SlotsOK
  <2> QED BY <2>1, <2>5, <2>6, <2>9, <2>10, <2>11 DEF Busy
<1> QED BY <1>3, <1>4

(* A request that goes on as it was keeps the slots. *)
LEMMA FreesStep ==
  ASSUME SlotsOK(active, hashing, waiters), NEW j \in hashing, Frees(j)
  PROVE  /\ SlotsOK(active', hashing', waiters')
         /\ \A i : Busy(i, hashing', waiters') <=> Busy(i, hashing, waiters) /\ i # j
BY FreesKeeps DEF Frees
----------------------------------------------------------------------------
(* A login that begins reads what is there. *)
LEMMA LoginBeginsKeeps ==
  ASSUME PwInv, NEW l \in Logins, LoginBegins(l)
  PROVE  PwInv'
<1>1. /\ login[l].at = "none" /\ Takes(l, active, hashing, waiters)
      /\ UNCHANGED <<stored, must, disabled, change, raced, crossed>>
  BY DEF LoginBegins
<1>2. PICK right \in BOOLEAN :
        login' = [login EXCEPT ![l] = [at |-> "checking", right |-> right, read |-> stored,
                                       disabled |-> disabled]]
  BY DEF LoginBegins
<1>3. /\ login'[l] = [at |-> "checking", right |-> right, read |-> stored, disabled |-> disabled]
      /\ \A m \in Logins : m # l => login'[m] = login[m]
      /\ login' = [m \in Logins |-> login'[m]]
  BY <1>2 DEF PwInv, PwTypes
<1>4. l \in Jobs /\ l \notin Changes
  BY PasswordsAssumption DEF Jobs
<1>5. ~Busy(l, hashing, waiters)
  BY <1>1, <1>4 DEF PwInv, BusyAtWork
<1>6. /\ SlotsOK(active', hashing', waiters')
      /\ \A i : Busy(i, hashing', waiters') <=> Busy(i, hashing, waiters) \/ i = l
  BY <1>1, <1>4, <1>5, TakesKeeps DEF PwInv
<1>7. PwTypes'
  <2>1. login'[l] \in [at : {"checking", "session", "refused", "ended"}, right : BOOLEAN,
                       read : Changes \cup {First}, disabled : BOOLEAN]
    BY <1>3 DEF PwInv, PwTypes
  <2> QED BY <1>1, <1>3, <2>1 DEF PwInv, PwTypes
<1>8. BusyAtWork'
  BY <1>1, <1>3, <1>4, <1>6 DEF PwInv, BusyAtWork
<1>9. ReadsHold'
  BY <1>1, <1>3 DEF PwInv, ReadsHold
<1>10. OldSessionsEnd'
  BY <1>1, <1>3 DEF PwInv, OldSessionsEnd, Live, Owns
<1>11. FlagsHold' /\ StoredDone' /\ FlagFollowsChange'
  BY <1>1 DEF PwInv, FlagsHold, StoredDone, FlagFollowsChange
<1> QED BY <1>6, <1>7, <1>8, <1>9, <1>10, <1>11 DEF PwInv

(* The session that a check leads to rests on what the login read. *)
LEMMA LoginCheckedKeeps ==
  ASSUME PwInv, NEW l \in Logins, LoginChecked(l)
  PROVE  PwInv'
<1> DEFINE goal == IF login[l].right /\ ~login[l].disabled THEN "session" ELSE "refused"
<1>1. /\ l \in hashing /\ login[l].at = "checking" /\ login' = [login EXCEPT ![l].at = goal]
      /\ Frees(l) /\ UNCHANGED <<stored, must, disabled, change, raced, crossed>>
  BY DEF LoginChecked
<1>2. goal = "session" => ~login[l].disabled
  OBVIOUS
<1>3. goal \in {"session", "refused"}
  OBVIOUS
<1> HIDE DEF goal
<1>4. /\ login'[l] = [login[l] EXCEPT !.at = goal]
      /\ \A m \in Logins : m # l => login'[m] = login[m]
      /\ login' = [m \in Logins |-> login'[m]]
  BY <1>1 DEF PwInv, PwTypes
<1>5. login[l] \in [at : {"checking", "session", "refused", "ended"}, right : BOOLEAN,
                     read : Changes \cup {First}, disabled : BOOLEAN]
  BY <1>1 DEF PwInv, PwTypes
<1>6. /\ login'[l] \in [at : {"checking", "session", "refused", "ended"}, right : BOOLEAN,
                       read : Changes \cup {First}, disabled : BOOLEAN]
      /\ login'[l].at = goal /\ login'[l].read = login[l].read
  BY <1>3, <1>4, <1>5
<1>7. /\ SlotsOK(active', hashing', waiters')
      /\ \A i : Busy(i, hashing', waiters') <=> Busy(i, hashing, waiters) /\ i # l
  BY <1>1, FreesStep DEF PwInv
<1>8. PwTypes'
  BY <1>1, <1>4, <1>6 DEF PwInv, PwTypes
<1>9. BusyAtWork'
  BY <1>1, <1>4, <1>7 DEF PwInv, BusyAtWork
<1>10. ReadsHold'
  BY <1>1, <1>3, <1>4, <1>6 DEF PwInv, ReadsHold
<1>11. OldSessionsEnd'
  <2>1. goal = "session" => l \in raced \/ (~disabled /\ login[l].read = stored)
    BY <1>1, <1>2 DEF PwInv, ReadsHold
  <2> QED BY <1>1, <1>4, <1>6, <2>1 DEF PwInv, OldSessionsEnd, Live, Owns
<1>12. FlagsHold' /\ StoredDone' /\ FlagFollowsChange'
  BY <1>1 DEF PwInv, FlagsHold, StoredDone, FlagFollowsChange
<1> QED BY <1>7, <1>8, <1>9, <1>10, <1>11, <1>12 DEF PwInv

(* Sessions that end, of those that are live. *)
LEMMA SessionsEndKeeps ==
  ASSUME PwInv, NEW ends \in SUBSET Logins, \A l \in ends : Live(l),
         login' = [l \in Logins |-> IF l \in ends THEN [login[l] EXCEPT !.at = "ended"] ELSE login[l]]
  PROVE  /\ login' = [l \in Logins |-> login'[l]]
         /\ \A l \in Logins : login'[l].at # "none" =>
              login'[l] \in [at : {"checking", "session", "refused", "ended"}, right : BOOLEAN,
                             read : Changes \cup {First}, disabled : BOOLEAN]
         /\ \A l \in Logins \ ends : login'[l] = login[l]
         /\ \A l \in ends : login'[l].at = "ended" /\ login[l].at = "session"
<1>1. \A l \in ends : /\ login[l].at = "session"
                      /\ login[l] \in [at : {"checking", "session", "refused", "ended"}, right : BOOLEAN,
                                       read : Changes \cup {First}, disabled : BOOLEAN]
  BY DEF Live, PwInv, PwTypes
<1>2. \A l \in ends : /\ login'[l] = [login[l] EXCEPT !.at = "ended"]
                      /\ login'[l].at = "ended"
                      /\ login'[l] \in [at : {"checking", "session", "refused", "ended"}, right : BOOLEAN,
                                        read : Changes \cup {First}, disabled : BOOLEAN]
  BY <1>1
<1>3. \A l \in Logins \ ends : login'[l] = login[l]
  OBVIOUS
<1>4. \A l \in Logins \ ends : login[l].at # "none" =>
         login[l] \in [at : {"checking", "session", "refused", "ended"}, right : BOOLEAN,
                       read : Changes \cup {First}, disabled : BOOLEAN]
  BY DEF PwInv, PwTypes
<1> QED BY <1>1, <1>2, <1>3, <1>4

(* A logout ends one session. *)
LEMMA LogoutKeeps ==
  ASSUME PwInv, NEW l \in Logins, Logout(l)
  PROVE  PwInv'
<1>1. /\ Live(l) /\ login' = [login EXCEPT ![l].at = "ended"]
      /\ stored' = stored /\ must' = must /\ disabled' = disabled /\ change' = change
      /\ active' = active /\ hashing' = hashing /\ waiters' = waiters /\ raced' = raced /\ crossed' = crossed
  BY DEF Logout
<1>2. login' = [m \in Logins |-> IF m \in {l} THEN [login[m] EXCEPT !.at = "ended"] ELSE login[m]]
  BY <1>1 DEF PwInv, PwTypes
<1>3. /\ login' = [m \in Logins |-> login'[m]]
      /\ \A m \in Logins : login'[m].at # "none" =>
              login'[m] \in [at : {"checking", "session", "refused", "ended"}, right : BOOLEAN,
                             read : Changes \cup {First}, disabled : BOOLEAN]
      /\ \A m \in Logins \ {l} : login'[m] = login[m]
      /\ login'[l].at = "ended" /\ login[l].at = "session"
  BY <1>1, <1>2, SessionsEndKeeps
<1>4. PwTypes'
  BY <1>1, <1>3 DEF PwInv, PwTypes
<1>5. SlotsOK(active, hashing, waiters)' /\ FlagsHold' /\ StoredDone' /\ FlagFollowsChange'
  BY <1>1 DEF PwInv, SlotsOK, FlagsHold, StoredDone, FlagFollowsChange
<1>6. BusyAtWork'
  BY <1>1, <1>3 DEF PwInv, BusyAtWork
<1>7. ReadsHold' /\ OldSessionsEnd'
  BY <1>1, <1>3 DEF PwInv, ReadsHold, OldSessionsEnd, Live, Owns
<1> QED BY <1>4, <1>5, <1>6, <1>7 DEF PwInv

(* What disabling the user ends, and what it races with. *)
LEMMA DisableKeeps == PwInv /\ Disable => PwInv'
<1> SUFFICES ASSUME PwInv, Disable PROVE PwInv'
  OBVIOUS
<1> DEFINE ends == {l \in Logins : Live(l) /\ l # Other}
<1>1. /\ disabled' = TRUE /\ raced' = raced \cup Checking
      /\ login' = [l \in Logins |-> IF l \in ends THEN [login[l] EXCEPT !.at = "ended"] ELSE login[l]]
      /\ stored' = stored /\ must' = must /\ change' = change
      /\ active' = active /\ hashing' = hashing /\ waiters' = waiters /\ crossed' = crossed
  BY DEF Disable, EndSessions
<1>2. \A l \in Logins : Live(l) <=> l \in ends
  BY PasswordsAssumption
<1> HIDE DEF ends
<1>3. /\ login' = [l \in Logins |-> login'[l]]
      /\ \A l \in Logins : login'[l].at # "none" =>
              login'[l] \in [at : {"checking", "session", "refused", "ended"}, right : BOOLEAN,
                             read : Changes \cup {First}, disabled : BOOLEAN]
      /\ \A l \in Logins \ ends : login'[l] = login[l]
      /\ \A l \in ends : login'[l].at = "ended" /\ login[l].at = "session"
  <2>1. ends \in SUBSET Logins
    BY DEF ends
  <2> QED BY <1>1, <1>2, <2>1, SessionsEndKeeps
<1>4. PwTypes'
  BY <1>1, <1>3 DEF PwInv, PwTypes, Checking
<1>5. SlotsOK(active, hashing, waiters)' /\ FlagsHold' /\ StoredDone' /\ FlagFollowsChange'
  BY <1>1 DEF PwInv, SlotsOK, FlagsHold, StoredDone, FlagFollowsChange
<1>6. BusyAtWork'
  BY <1>1, <1>3 DEF PwInv, BusyAtWork
<1>7. ReadsHold'
  BY <1>1, <1>3 DEF ReadsHold, Checking
<1>8. OldSessionsEnd'
  BY <1>1, <1>2, <1>3 DEF OldSessionsEnd, Live
<1> QED BY <1>4, <1>5, <1>6, <1>7, <1>8 DEF PwInv

(* Enabling the user gives nobody a session. *)
LEMMA EnableKeeps == PwInv /\ Enable => PwInv'
<1> SUFFICES ASSUME PwInv, Enable PROVE PwInv'
  OBVIOUS
<1>1. /\ disabled' = FALSE /\ login' = login /\ raced' = raced
      /\ stored' = stored /\ must' = must /\ change' = change
      /\ active' = active /\ hashing' = hashing /\ waiters' = waiters /\ crossed' = crossed
  BY DEF Enable
<1>2. PwTypes'
  BY <1>1 DEF PwInv, PwTypes
<1>3. SlotsOK(active, hashing, waiters)' /\ FlagsHold' /\ StoredDone' /\ FlagFollowsChange' /\ BusyAtWork'
  BY <1>1 DEF PwInv, SlotsOK, FlagsHold, StoredDone, FlagFollowsChange, BusyAtWork
<1>4. ReadsHold' /\ OldSessionsEnd'
  BY <1>1 DEF PwInv, ReadsHold, OldSessionsEnd, Live, Owns
<1> QED BY <1>2, <1>3, <1>4 DEF PwInv

(* A change that begins reads the flag that is there. *)
LEMMA ChangeBeginsKeeps ==
  ASSUME PwInv, NEW c \in Changes, ChangeBegins(c)
  PROVE  PwInv'
<1>1. /\ change[c].at = "none" /\ Takes(c, active, hashing, waiters)
      /\ stored' = stored /\ must' = must /\ disabled' = disabled /\ login' = login
      /\ raced' = raced /\ crossed' = crossed
  BY DEF ChangeBegins
<1>2. PICK by \in Logins \cup {Other}, first \in {"verify", "set"}, right \in BOOLEAN, temporary \in BOOLEAN :
        change' = [change EXCEPT ![c] = [at |-> first, by |-> by, right |-> right,
                                         mustRead |-> must, mustBe |-> temporary]]
  BY DEF ChangeBegins
<1>3. /\ change'[c] = [at |-> first, by |-> by, right |-> right, mustRead |-> must, mustBe |-> temporary]
      /\ \A d \in Changes : d # c => change'[d] = change[d]
      /\ change' = [d \in Changes |-> change'[d]]
  BY <1>2 DEF PwInv, PwTypes
<1>4. c \in Jobs /\ c \notin Logins
  BY PasswordsAssumption DEF Jobs
<1>5. ~Busy(c, hashing, waiters)
  BY <1>1, <1>4 DEF PwInv, BusyAtWork
<1>6. /\ SlotsOK(active', hashing', waiters')
      /\ \A i : Busy(i, hashing', waiters') <=> Busy(i, hashing, waiters) \/ i = c
  BY <1>1, <1>4, <1>5, TakesKeeps DEF PwInv
<1>7. PwTypes'
  <2>1. change'[c] \in [at : {"verify", "set", "refused", "done"}, by : Logins \cup {Other},
                        right : BOOLEAN, mustRead : BOOLEAN, mustBe : BOOLEAN]
    BY <1>3 DEF PwInv, PwTypes
  <2> QED BY <1>1, <1>3, <2>1 DEF PwInv, PwTypes
<1>8. BusyAtWork'
  BY <1>1, <1>3, <1>4, <1>6 DEF PwInv, BusyAtWork
<1>9. c # stored
  BY <1>1 DEF PwInv, StoredDone
<1>10. FlagsHold' /\ StoredDone' /\ FlagFollowsChange'
  BY <1>1, <1>3, <1>9 DEF PwInv, FlagsHold, StoredDone, FlagFollowsChange
<1>11. ReadsHold' /\ OldSessionsEnd'
  BY <1>1, <1>3, <1>9 DEF PwInv, ReadsHold, OldSessionsEnd, Live, Owns
<1> QED BY <1>6, <1>7, <1>8, <1>10, <1>11 DEF PwInv

(* The current password was right or wrong: a wrong one ends the change. *)
LEMMA ChangeVerifiedKeeps ==
  ASSUME PwInv, NEW c \in Changes, ChangeVerified(c)
  PROVE  PwInv'
<1> DEFINE goal == IF change[c].right THEN "set" ELSE "refused"
<1>1. /\ c \in hashing /\ change[c].at = "verify" /\ change' = [change EXCEPT ![c].at = goal]
      /\ \/ goal = "set" /\ Takes(c, Freed(c).a, Freed(c).h, Freed(c).w)
         \/ goal = "refused" /\ Frees(c)
      /\ stored' = stored /\ must' = must /\ disabled' = disabled /\ login' = login
      /\ raced' = raced /\ crossed' = crossed
  <2>1. CASE change[c].right
    BY <2>1 DEF ChangeVerified
  <2>2. CASE ~change[c].right
    BY <2>2 DEF ChangeVerified
  <2> QED BY <2>1, <2>2
<1> HIDE DEF goal
<1>2. change[c] \in [at : {"verify", "set", "refused", "done"}, by : Logins \cup {Other},
                      right : BOOLEAN, mustRead : BOOLEAN, mustBe : BOOLEAN]
  BY <1>1 DEF PwInv, PwTypes
<1>3. /\ change'[c] = [change[c] EXCEPT !.at = goal]
      /\ \A d \in Changes : d # c => change'[d] = change[d]
      /\ change' = [d \in Changes |-> change'[d]]
  BY <1>1 DEF PwInv, PwTypes
<1>4. /\ change'[c] \in [at : {"verify", "set", "refused", "done"}, by : Logins \cup {Other},
                         right : BOOLEAN, mustRead : BOOLEAN, mustBe : BOOLEAN]
      /\ change'[c].at = goal /\ change'[c].mustRead = change[c].mustRead
  BY <1>1, <1>2, <1>3
<1>5. c \in Jobs /\ c \notin Logins
  BY PasswordsAssumption DEF Jobs
<1>6. /\ SlotsOK(Freed(c).a, Freed(c).h, Freed(c).w)
      /\ \A i : Busy(i, Freed(c).h, Freed(c).w) <=> Busy(i, hashing, waiters) /\ i # c
  BY <1>1, FreesKeeps DEF PwInv
<1>7. /\ SlotsOK(active', hashing', waiters')
      /\ \A i : Busy(i, hashing', waiters') => Busy(i, hashing, waiters) /\ (i = c => goal = "set")
  <2>1. Busy(c, hashing, waiters)
    BY <1>1 DEF Busy
  <2>2. CASE goal = "set" /\ Takes(c, Freed(c).a, Freed(c).h, Freed(c).w)
    <3>1. /\ SlotsOK(active', hashing', waiters')
          /\ \A i : Busy(i, hashing', waiters') <=> Busy(i, Freed(c).h, Freed(c).w) \/ i = c
      BY <1>5, <1>6, <2>2, TakesKeeps
    <3> QED BY <1>6, <2>1, <2>2, <3>1
  <2>3. CASE goal = "refused" /\ Frees(c)
    BY <1>6, <2>3 DEF Frees
  <2> QED BY <1>1, <2>2, <2>3
<1>8. PwTypes'
  BY <1>1, <1>3, <1>4 DEF PwInv, PwTypes
<1>9. BusyAtWork'
  BY <1>1, <1>3, <1>4, <1>5, <1>7 DEF PwInv, BusyAtWork
<1>10. c # stored
  BY <1>1 DEF PwInv, StoredDone
<1>11. FlagsHold' /\ StoredDone' /\ FlagFollowsChange'
  BY <1>1, <1>3, <1>4, <1>10 DEF PwInv, FlagsHold, StoredDone, FlagFollowsChange
<1>12. ReadsHold' /\ OldSessionsEnd'
  BY <1>1, <1>3, <1>10 DEF PwInv, ReadsHold, OldSessionsEnd, Live, Owns
<1> QED BY <1>7, <1>8, <1>9, <1>11, <1>12 DEF PwInv

(* A written change: the sessions but its own are over, the flag is its own,
   and what goes on has raced with it or is crossed by it. *)
LEMMA ChangeWrittenKeeps ==
  ASSUME PwInv, NEW c \in Changes, ChangeWritten(c)
  PROVE  PwInv'
<1> DEFINE keep == change[c].by
           ends == {l \in Logins : Live(l) /\ l # keep}
<1>1. /\ c \in hashing /\ change[c].at = "set" /\ change' = [change EXCEPT ![c].at = "done"]
      /\ stored' = c /\ must' = FlagAfter(c) /\ Frees(c)
      /\ login' = [l \in Logins |-> IF l \in ends THEN [login[l] EXCEPT !.at = "ended"] ELSE login[l]]
      /\ raced' = raced \cup Checking /\ crossed' = crossed \cup (UnderWay \ {c}) /\ disabled' = disabled
  BY DEF ChangeWritten, EndSessions
<1>2. change[c] \in [at : {"verify", "set", "refused", "done"}, by : Logins \cup {Other},
                      right : BOOLEAN, mustRead : BOOLEAN, mustBe : BOOLEAN]
  BY <1>1 DEF PwInv, PwTypes
<1>3. /\ change'[c] = [change[c] EXCEPT !.at = "done"]
      /\ \A d \in Changes : d # c => change'[d] = change[d]
      /\ change' = [d \in Changes |-> change'[d]]
  BY <1>1 DEF PwInv, PwTypes
<1>4. /\ change'[c] \in [at : {"verify", "set", "refused", "done"}, by : Logins \cup {Other},
                         right : BOOLEAN, mustRead : BOOLEAN, mustBe : BOOLEAN]
      /\ change'[c].at = "done" /\ change'[c].by = keep /\ change'[c].mustBe = change[c].mustBe
  BY <1>2, <1>3
<1>5. \A l \in Logins : Live(l) /\ l \notin ends => l = keep
  OBVIOUS
<1> HIDE DEF ends, keep
<1>6. /\ login' = [l \in Logins |-> login'[l]]
      /\ \A l \in Logins : login'[l].at # "none" =>
              login'[l] \in [at : {"checking", "session", "refused", "ended"}, right : BOOLEAN,
                             read : Changes \cup {First}, disabled : BOOLEAN]
      /\ \A l \in Logins \ ends : login'[l] = login[l]
      /\ \A l \in ends : login'[l].at = "ended" /\ login[l].at = "session"
  <2>1. ends \in SUBSET Logins /\ \A l \in ends : Live(l)
    BY DEF ends
  <2> QED BY <1>1, <2>1, SessionsEndKeeps
<1>7. /\ SlotsOK(active', hashing', waiters')
      /\ \A i : Busy(i, hashing', waiters') <=> Busy(i, hashing, waiters) /\ i # c
  BY <1>1, FreesStep DEF PwInv
<1>8. PwTypes'
  <2>1. must' \in BOOLEAN
    BY <1>1, <1>2 DEF FlagAfter, PwInv, PwTypes
  <2>2. raced' \subseteq Logins /\ crossed' \subseteq Changes
    BY <1>1 DEF PwInv, PwTypes, Checking, UnderWay
  <2>3. \A d \in Changes : change'[d].at # "none" =>
          change'[d] \in [at : {"verify", "set", "refused", "done"}, by : Logins \cup {Other},
                          right : BOOLEAN, mustRead : BOOLEAN, mustBe : BOOLEAN]
    BY <1>3, <1>4 DEF PwInv, PwTypes
  <2> QED BY <1>1, <1>3, <1>6, <2>1, <2>2, <2>3 DEF PwInv, PwTypes
<1>9. BusyAtWork'
  BY <1>3, <1>6, <1>7 DEF PwInv, BusyAtWork
<1>10. ReadsHold'
  BY <1>1, <1>6 DEF ReadsHold, Checking
<1>11. FlagsHold'
  BY <1>1, <1>3, <1>4 DEF FlagsHold, UnderWay
<1>12. StoredDone'
  BY <1>1, <1>4 DEF StoredDone
<1>13. OldSessionsEnd'
  <2> SUFFICES ASSUME NEW l \in Logins, login'[l].at = "session"
               PROVE  l \in raced' \/ (~disabled' /\ Owns(l)')
    BY DEF OldSessionsEnd, Live
  <2>1. l \notin ends /\ Live(l)
    BY <1>6 DEF Live
  <2>2. l = keep /\ Owns(l)'
    BY <1>1, <1>4, <1>5, <2>1 DEF Owns
  <2>3. l \in raced \/ ~disabled
    BY <2>1 DEF PwInv, OldSessionsEnd
  <2> QED BY <1>1, <2>2, <2>3
<1>14. FlagFollowsChange'
  <2> SUFFICES ASSUME c \notin crossed'
               PROVE  must' = change'[c].mustBe
    BY <1>1 DEF FlagFollowsChange
  <2>1. must = change[c].mustRead
    BY <1>1 DEF PwInv, FlagsHold
  <2>2. FlagAfter(c) = change[c].mustBe
    BY <2>1, Zenon DEF FlagAfter
  <2> QED BY <1>1, <1>4, <2>2, Zenon
<1> QED BY <1>7, <1>8, <1>9, <1>10, <1>11, <1>12, <1>13, <1>14 DEF PwInv

----------------------------------------------------------------------------
(* The invariant is inductive. *)
LEMMA PwInitInv == PwInit => PwInv
<1> SUFFICES ASSUME PwInit PROVE PwInv
  OBVIOUS
<1>1. IsFiniteSet({}) /\ Cardinality({}) = 0 /\ << >> \in Seq(Jobs) /\ Len(<< >>) = 0
  BY FS_EmptySet, EmptySeq
<1>2. SlotsOK(active, hashing, waiters)
  BY <1>1, PasswordsAssumption DEF PwInit, SlotsOK
<1>3. PwTypes
  BY DEF PwInit, PwTypes
<1>4. BusyAtWork
  BY <1>1 DEF PwInit, BusyAtWork, Busy, Waits
<1>5. ReadsHold /\ FlagsHold /\ StoredDone /\ OldSessionsEnd /\ FlagFollowsChange
  BY PasswordsAssumption DEF PwInit, ReadsHold, FlagsHold, StoredDone, OldSessionsEnd, Live, FlagFollowsChange
<1> QED BY <1>2, <1>3, <1>4, <1>5 DEF PwInv

LEMMA PwStep == PwInv /\ [PwNext]_pwvars => PwInv'
<1> SUFFICES ASSUME PwInv, [PwNext]_pwvars PROVE PwInv'
  OBVIOUS
<1>1. ASSUME NEW l \in Logins, LoginBegins(l) \/ Logout(l) PROVE PwInv'
  BY <1>1, LoginBeginsKeeps, LogoutKeeps
<1>2. ASSUME NEW c \in Changes, ChangeBegins(c) PROVE PwInv'
  BY <1>2, ChangeBeginsKeeps
<1>3. ASSUME NEW j \in Logins \cup Changes, HashEnds(j) PROVE PwInv'
  BY <1>3, LoginCheckedKeeps, ChangeVerifiedKeeps, ChangeWrittenKeeps DEF HashEnds
<1>4. CASE Disable \/ Enable
  BY <1>4, DisableKeeps, EnableKeeps
<1>5. CASE UNCHANGED pwvars
  BY <1>5 DEF pwvars, PwInv, PwTypes, SlotsOK, BusyAtWork, ReadsHold, FlagsHold, StoredDone,
              OldSessionsEnd, Live, Owns, FlagFollowsChange
<1> QED BY <1>1, <1>2, <1>3, <1>4, <1>5 DEF PwNext

LEMMA PwInductive == PwSpec => []PwInv
BY PwInitInv, PwStep, PTL DEF PwSpec

(* "A password change by the user revokes their other sessions; by someone
   else, all of the target's sessions", and so does disabling the user, but
   for logins whose check was under way; the flag is the last change's own. *)
THEOREM ChangesPrevail == PwSpec => []ChangesTakeEffect
<1>1. PwInv => ChangesTakeEffect
  BY DEF PwInv, ChangesTakeEffect
<1> QED BY <1>1, PwInductive, PTL

(* The hasher never runs more hashes than it has slots, and nobody waits while
   one is free, however slots pass from request to request. *)
THEOREM SlotsKept == PwSpec => []HashSlotsKept
<1>1. PwInv => HashSlotsKept
  BY DEF PwInv, SlotsOK, HashSlotsKept
<1> QED BY <1>1, PwInductive, PTL

-----------------------------------------------------------------------------
(***************************************************************************)
(* API tokens, for every number of tokens, tickets, calls and changes.  A  *)
(* call keeps what it read, so the invariant says for each of its steps    *)
(* that what it read was so at an instant of the call (ReadWasSo), and     *)
(* that what holds now has been noted for it (NotedNow); others can only   *)
(* end a token or add to the notes.  A ticket is unissued, or waits, or    *)
(* one call consumes it, or it was used (TicketInv).                       *)
(***************************************************************************)

GrantSteps == {"token", "user", "perms", "touch", "context"}

CallSteps == GrantSteps \cup {"ended", "list", "store", "delete", "account", "tokens"}

States == {"enabled", "disabled", "mustChange", "gone"}

TokenRecords == [there : BOOLEAN, name : {ask.name : ask \in TokenAsks}, scope : (SUBSET TokenPerms) \cup {Unscoped},
                 lastUsed : Nat \cup {Never}, expires : Nat \cup {Never}]

TicketRecords == [there : BOOLEAN, token : TokenIds, issuedAt : Nat]

CallRecords ==
  [step : CallSteps, op : {None, "create", "request", "issueTicket", "consumeTicket", "revoke", "deleteUser"},
   token : TokenIds \cup {None}, ticket : TicketIds \cup {None}, ask : TokenAsks \cup {NoAsk}, at : Nat,
   lastUsed : Nat \cup {Never}, seen : [state : States, member : BOOLEAN], got : SUBSET (TokenPerms \cup {Never})]

NoteRecords == [usable : BOOLEAN, enabled : BOOLEAN, member : BOOLEAN, perms : SUBSET TokenPerms]

TokenTypes ==
  /\ apiTokens \in [TokenIds -> TokenRecords \cup {Nothing}]
  /\ wsTickets \in [TicketIds -> TicketRecords \cup {Nothing}]
  /\ account \in [state : States, member : BOOLEAN] /\ gives \in SUBSET TokenPerms
  /\ calls \in [TokenCalls -> CallRecords] /\ during \in [TokenCalls -> NoteRecords]
  /\ uses \in [TicketIds -> Nat] /\ instant \in Nat

WasMade(t) == t \in TokenIds /\ apiTokens[t] # Nothing

\* What a call has fixed at each of its steps.
CallShape(c) ==
  /\ calls[c].step \in GrantSteps \cup {"delete"} => WasMade(calls[c].token)
  /\ calls[c].step \in {"list", "store"} => calls[c].ask \in TokenAsks
  /\ calls[c].ticket # None => calls[c].step \in GrantSteps /\ calls[c].op = "consumeTicket"

\* What holds now has been noted for a call that may grant.
NotedNow(c) ==
  calls[c].step \in GrantSteps =>
    /\ account.state = "enabled" => during[c].enabled
    /\ account.member => during[c].member
    /\ during[c].member => gives \subseteq during[c].perms

\* What a call has read was so at an instant of it.
ReadWasSo(c) ==
  /\ calls[c].step = "token" /\ Usable(calls[c].token) => during[c].usable
  /\ calls[c].step \in {"user", "perms", "touch", "context"} => during[c].usable
  /\ calls[c].step = "perms" =>
       /\ calls[c].seen.state \in {"enabled", "mustChange"}
       /\ calls[c].seen.state = "enabled" => during[c].enabled
       /\ calls[c].seen.member => during[c].member
  /\ calls[c].step \in {"touch", "context"} /\ calls[c].got # Refused =>
       /\ during[c].enabled /\ calls[c].got \subseteq during[c].perms
       /\ apiTokens[calls[c].token].scope = Unscoped \/ calls[c].got \subseteq apiTokens[calls[c].token].scope

CallInv(c) == CallShape(c) /\ NotedNow(c) /\ ReadWasSo(c)

\* A ticket is unissued, or waits, or one call consumes it, or it was used.
Consumes(c, k) == calls[c].ticket = k

TicketInv(k) ==
  /\ uses[k] <= 1
  /\ wsTickets[k] = Nothing \/ wsTickets[k].there => uses[k] = 0 /\ \A c \in TokenCalls : ~Consumes(c, k)
  /\ \A c, d \in TokenCalls : Consumes(c, k) /\ Consumes(d, k) => c = d
  /\ \A c \in TokenCalls : Consumes(c, k) => uses[k] = 0
  /\ wsTickets[k] # Nothing => WasMade(wsTickets[k].token)

TokenInv ==
  TokenTypes /\ (\A c \in TokenCalls : CallInv(c)) /\ (\A k \in TicketIds : TicketInv(k))

\* Once made a token keeps its scope, and once it cannot be used it never can again.
Lasting(t) ==
  apiTokens[t] # Nothing =>
    apiTokens'[t] # Nothing /\ apiTokens'[t].scope = apiTokens[t].scope /\ (Usable(t)' => Usable(t))

\* The store's record of a token is not the mark of one that was never made.
LEMMA TokenIsRecord ==
  ASSUME TokenTypes, NEW t \in TokenIds, apiTokens[t] # Nothing
  PROVE  apiTokens[t] \in TokenRecords
BY DEF TokenTypes

\* Records differ from Nothing, which has one field.
LEMMA RecordsAreSomething ==
  /\ \A r \in TokenRecords : r # Nothing
  /\ \A r \in TicketRecords : r # Nothing
<1>1. \A r \in TokenRecords : "name" \in DOMAIN r
  BY DEF TokenRecords
<1>2. \A r \in TicketRecords : "token" \in DOMAIN r
  BY DEF TicketRecords
<1>3. "name" \notin DOMAIN Nothing /\ "token" \notin DOMAIN Nothing
  BY DEF Nothing
<1> QED BY <1>1, <1>2, <1>3

\* Where the tokens stand still they last, although time passes.
LEMMA StillLasts ==
  ASSUME TokenTypes, UNCHANGED apiTokens, instant' \in Nat, instant <= instant'
  PROVE  \A t \in TokenIds : Lasting(t)
<1> SUFFICES ASSUME NEW t \in TokenIds, apiTokens[t] # Nothing, Usable(t)'
             PROVE  Usable(t)
  BY DEF Lasting
<1>1. apiTokens[t] \in TokenRecords
  BY TokenIsRecord
<1> QED BY <1>1 DEF TokenTypes, Usable, Stored, TokenExpired, TokenRecords

\* What a call of token t does to the record of it.
LEMMA RecordLasts ==
  ASSUME TokenTypes, UNCHANGED instant, apiTokens' \in [TokenIds -> TokenRecords \cup {Nothing}],
         \A t \in TokenIds : apiTokens[t] # Nothing =>
           /\ apiTokens'[t] \in TokenRecords
           /\ apiTokens'[t].scope = apiTokens[t].scope /\ apiTokens'[t].expires = apiTokens[t].expires
           /\ apiTokens'[t].there => apiTokens[t].there
  PROVE  \A t \in TokenIds : Lasting(t)
BY RecordsAreSomething DEF Lasting, Usable, Stored, TokenExpired

\* A call stays justified while others act: they undo no note and no token.
LEMMA CallStays ==
  ASSUME TokenTypes, NEW d \in TokenCalls, CallInv(d), calls'[d] = calls[d], during'[d] = during[d],
         UNCHANGED gives, account'.member = account.member, account'.state \in {account.state, "gone"},
         \A t \in TokenIds : Lasting(t)
  PROVE  CallInv(d)'
<1>1. CallShape(d)'
  BY DEF CallInv, CallShape, WasMade, Lasting
<1>2. NotedNow(d)'
  BY DEF CallInv, NotedNow
<1>3. calls[d].step \in GrantSteps => WasMade(calls[d].token)
  BY DEF CallInv, CallShape
<1>4. ReadWasSo(d)'
  <2>1. CASE calls[d].step \in GrantSteps
    <3>1. PICK t \in TokenIds : t = calls[d].token /\ apiTokens[t] # Nothing
      BY <1>3, <2>1 DEF WasMade
    <3>2. apiTokens'[t].scope = apiTokens[t].scope /\ (Usable(t)' => Usable(t))
      BY <3>1 DEF Lasting
    <3>3. Usable(calls[d].token)' <=> Usable(t)'
      BY <3>1 DEF Usable, Stored, TokenExpired
    <3> QED BY <3>1, <3>2, <3>3 DEF CallInv, ReadWasSo
  <2>2. CASE calls[d].step \notin GrantSteps
    BY <2>2 DEF ReadWasSo, GrantSteps
  <2> QED BY <2>1, <2>2
<1> QED BY <1>1, <1>2, <1>4 DEF CallInv

\* A call that ended has nothing to justify, and one may begin then.
LEMMA ReadyIsFine ==
  ASSUME NEW c \in TokenCalls, calls'[c] = Ready
  PROVE  CallInv(c)' /\ Ready \in CallRecords /\ NotYet \in NoteRecords
<1>1. Ready.step = "ended" /\ Ready.ticket = None
  BY DEF Ready
<1>2. CallInv(c)'
  BY <1>1 DEF CallInv, CallShape, NotedNow, ReadWasSo, GrantSteps
<1>3. Ready \in CallRecords
  BY DEF Ready, CallRecords, CallSteps, GrantSteps, NoAccount, States, Refused
<1>4. NotYet \in NoteRecords
  BY DEF NotYet, NoteRecords
<1> QED BY <1>2, <1>3, <1>4

\* The tickets are fine where none is issued or consumed and no call takes one.
LEMMA TicketsStay ==
  ASSUME TokenInv, UNCHANGED <<wsTickets, uses>>, \A t \in TokenIds : Lasting(t),
         \A d \in TokenCalls : calls'[d].ticket \in {calls[d].ticket, None},
         None \notin TicketIds
  PROVE  \A k \in TicketIds : TicketInv(k)'
BY DEF TokenInv, TicketInv, Consumes, WasMade, Lasting

-----------------------------------------------------------------------------
(* The steps of calls. *)

\* A step of one call, that leaves the account and the tickets alone, is right if it is for the call itself.
LEMMA OneCallSteps ==
  ASSUME TokenInv, NEW c \in TokenCalls, UNCHANGED <<gives, wsTickets, uses>>,
         account' \in [state : States, member : BOOLEAN],
         account'.member = account.member, account'.state \in {account.state, "gone"}, None \notin TicketIds,
         instant' \in Nat, apiTokens' \in [TokenIds -> TokenRecords \cup {Nothing}], \A t \in TokenIds : Lasting(t),
         calls' = [calls EXCEPT ![c] = calls'[c]], calls'[c] \in CallRecords,
         during' = [during EXCEPT ![c] = during'[c]], during'[c] \in NoteRecords,
         CallInv(c)', calls'[c].ticket \in {calls[c].ticket, None}
  PROVE  TokenInv'
<1> USE DEF TokenInv
<1>1. \A d \in TokenCalls \ {c} : calls'[d] = calls[d] /\ during'[d] = during[d]
  BY DEF TokenTypes
<1>2. \A d \in TokenCalls : CallInv(d)'
  BY <1>1, CallStays
<1>3. \A d \in TokenCalls : calls'[d].ticket \in {calls[d].ticket, None}
  BY <1>1
<1>4. \A k \in TicketIds : TicketInv(k)'
  BY <1>3, TicketsStay
<1>5. TokenTypes'
  BY DEF TokenTypes
<1> QED BY <1>2, <1>4, <1>5

\* The step of a call that returns with nothing, changing no ticket.
LEMMA ReturnSteps ==
  ASSUME TokenInv, NEW c \in TokenCalls, UNCHANGED <<gives, wsTickets, uses, account, instant>>, None \notin TicketIds,
         apiTokens' \in [TokenIds -> TokenRecords \cup {Nothing}], \A t \in TokenIds : Lasting(t), Returns(c)
  PROVE  TokenInv'
<1>1. calls'[c] = Ready /\ calls' = [calls EXCEPT ![c] = Ready] /\ during' = [during EXCEPT ![c] = NotYet]
  BY DEF Returns, TokenInv, TokenTypes
<1>2. CallInv(c)' /\ Ready \in CallRecords /\ NotYet \in NoteRecords
  BY <1>1, ReadyIsFine
<1>3. Ready.ticket = None
  BY DEF Ready
<1>4. during'[c] = NotYet
  BY <1>1 DEF TokenInv, TokenTypes
<1>5. account' \in [state : States, member : BOOLEAN] /\ account'.member = account.member /\ account'.state = account.state /\ instant' \in Nat
  BY DEF TokenInv, TokenTypes
<1> QED BY <1>1, <1>2, <1>3, <1>4, <1>5, OneCallSteps

\* Nothing stored changes.
LEMMA StoresLast ==
  ASSUME TokenInv, UNCHANGED <<apiTokens, instant>>
  PROVE  \A t \in TokenIds : Lasting(t)
BY StillLasts DEF TokenInv, TokenTypes

\* A call as it begins.
FreshCall(step, op, t, k, ask, at, lastUsed) ==
  [step |-> step, op |-> op, token |-> t, ticket |-> k, ask |-> ask, at |-> at, lastUsed |-> lastUsed,
   seen |-> NoAccount, got |-> Refused]

Operations == {None, "create", "request", "issueTicket", "consumeTicket", "revoke", "deleteUser"}

\* What a call begins with is a record of a call.
LEMMA FreshIsRecord ==
  ASSUME NEW step \in CallSteps, NEW op \in Operations, NEW t \in TokenIds \cup {None},
         NEW k \in TicketIds \cup {None}, NEW ask \in TokenAsks \cup {NoAsk}, NEW at \in Nat,
         NEW lastUsed \in Nat \cup {Never}
  PROVE  FreshCall(step, op, t, k, ask, at, lastUsed) \in CallRecords
<1>1. NoAccount \in [state : States, member : BOOLEAN] /\ Refused \in SUBSET (TokenPerms \cup {Never})
  BY DEF NoAccount, States, Refused
<1> QED BY <1>1 DEF FreshCall, CallRecords, Operations

\* A call that goes a step on stays what it is otherwise.
LEMMA StepOfRecord ==
  ASSUME NEW r \in CallRecords, NEW s \in CallSteps, NEW q, q = [r EXCEPT !.step = s]
  PROVE  /\ q \in CallRecords /\ q.step = s
         /\ q.op = r.op /\ q.token = r.token /\ q.ticket = r.ticket /\ q.ask = r.ask
         /\ q.got = r.got /\ q.seen = r.seen
BY DEF CallRecords

\* createApiToken: asked for, refused or on its way to the store.
LEMMA CreateKeepsTokens ==
  ASSUME ApiTokensAssumption, TokenInv, NEW c \in TokenCalls, AskCreate(c) \/ ListOwn(c) \/ StoreToken(c)
  PROVE  TokenInv'
<1> USE DEF TokenInv, ApiTokensAssumption
<1>1. CASE AskCreate(c)
  <2>1. PICK ask \in TokenAsks :
          calls' = [calls EXCEPT ![c] = [Ready EXCEPT !.step = "list", !.op = "create", !.ask = ask, !.at = instant]]
    BY <1>1 DEF AskCreate
  <2>2. /\ calls'[c] = [Ready EXCEPT !.step = "list", !.op = "create", !.ask = ask, !.at = instant]
        /\ UNCHANGED <<apiTokens, wsTickets, account, gives, instant, during, uses>>
    BY <1>1, <2>1 DEF AskCreate, StoresStay, OthersStay, HistoryStays, TokenTypes
  <2>3. /\ calls'[c] \in CallRecords /\ calls'[c].step = "list" /\ calls'[c].ask \in TokenAsks
        /\ calls'[c].ticket = None
    <3>1. calls'[c] = FreshCall("list", "create", None, None, ask, instant, Never)
      BY <2>2 DEF FreshCall, Ready
    <3>2. instant \in Nat /\ "list" \in CallSteps /\ "create" \in Operations
      BY DEF TokenTypes, CallSteps, Operations
    <3>3. calls'[c] \in CallRecords
      BY <3>1, <3>2, FreshIsRecord
    <3> QED BY <3>1, <3>3 DEF FreshCall
  <2>4. CallInv(c)'
    BY <2>3 DEF CallInv, CallShape, NotedNow, ReadWasSo, GrantSteps
  <2> QED BY <2>1, <2>2, <2>3, <2>4, OneCallSteps, StoresLast DEF TokenTypes
<1>2. CASE ListOwn(c)
  <2>1. UNCHANGED <<apiTokens, wsTickets, account, gives, instant, uses>> /\ calls[c].step = "list"
    BY <1>2 DEF ListOwn, StoresStay, OthersStay
  <2>2. CASE Returns(c)
    BY <2>1, <2>2, ReturnSteps, StoresLast DEF TokenTypes
  <2>3. CASE Goes(c, "store")
    <3>1. /\ calls' = [calls EXCEPT ![c] = [calls[c] EXCEPT !.step = "store"]] /\ UNCHANGED during
          /\ calls'[c] = [calls[c] EXCEPT !.step = "store"]
      BY <2>3 DEF Goes, TokenTypes
    <3>2. calls'[c] \in CallRecords /\ calls'[c].step = "store" /\ calls'[c].ask = calls[c].ask /\ calls'[c].ticket = calls[c].ticket
      <4>1. calls[c] \in CallRecords /\ "store" \in CallSteps
        BY DEF TokenTypes, CallSteps
      <4> QED BY <3>1, <4>1, StepOfRecord
    <3>3. CallInv(c)'
      BY <2>1, <3>2 DEF CallInv, CallShape, NotedNow, ReadWasSo, GrantSteps
    <3> QED BY <2>1, <3>1, <3>2, <3>3, OneCallSteps, StoresLast DEF TokenTypes
  <2> QED BY <1>2, <2>2, <2>3 DEF ListOwn
<1>3. CASE StoreToken(c)
  <2>1. /\ UNCHANGED <<wsTickets, account, gives, instant, uses>> /\ calls[c].step = "store" /\ Returns(c)
        /\ TokenIds \ Made # {}
    BY <1>3 DEF StoreToken, OthersStay
  <2>2. PICK t \in TokenIds \ Made :
          apiTokens' = [apiTokens EXCEPT ![t] =
            [there |-> TRUE, name |-> calls[c].ask.name, scope |-> calls[c].ask.scope, lastUsed |-> Never,
             expires |-> IF calls[c].ask.days = Never THEN Never ELSE calls[c].at + calls[c].ask.days]]
    BY <1>3, <2>1 DEF StoreToken
  <2> DEFINE new == [there |-> TRUE, name |-> calls[c].ask.name, scope |-> calls[c].ask.scope, lastUsed |-> Never,
                     expires |-> IF calls[c].ask.days = Never THEN Never ELSE calls[c].at + calls[c].ask.days]
  <2>3. calls[c].ask \in TokenAsks /\ calls[c].at \in Nat
    BY <2>1 DEF CallInv, CallShape, TokenTypes, CallRecords
  <2>4. new \in TokenRecords
    <3>1. PICK ask \in TokenAsks : ask = calls[c].ask
      BY <2>3
    <3>2. ask.days = Never \/ ask.days \in Nat
      BY <3>1
    <3>3. ask.scope \in (SUBSET TokenPerms) \cup {Unscoped}
      BY <3>1
    <3>4. (IF ask.days = Never THEN Never ELSE calls[c].at + ask.days) \in Nat \cup {Never}
      BY <2>3, <3>2
    <3> QED BY <3>1, <3>3, <3>4 DEF TokenRecords
  <2>5. apiTokens' = [apiTokens EXCEPT ![t] = new]
    BY <2>2
  <2> HIDE DEF new
  <2>6. apiTokens[t] = Nothing
    BY <2>2 DEF Made
  <2>7. apiTokens' \in [TokenIds -> TokenRecords \cup {Nothing}]
    BY <2>4, <2>5 DEF TokenTypes
  <2>8. \A s \in TokenIds : apiTokens[s] # Nothing => apiTokens'[s] = apiTokens[s] /\ apiTokens[s] \in TokenRecords
    BY <2>5, <2>6 DEF TokenTypes
  <2>9. \A s \in TokenIds : Lasting(s)
    BY <2>1, <2>7, <2>8, RecordLasts
  <2> QED BY <2>1, <2>7, <2>9, ReturnSteps
<1> QED BY <1>1, <1>2, <1>3

\* What Begins notes for a call of a token.
LEMMA BeginNotes ==
  ASSUME TokenTypes, NEW c \in TokenCalls, NEW t \in TokenIds, NEW call \in CallRecords, Begins(c, t, call),
         call.step \in {"token", "user"}, call.step = "user" => Usable(t), call.token = t, WasMade(t),
         call.ticket # None => call.op = "consumeTicket", UNCHANGED <<apiTokens, account, gives, instant>>
  PROVE  /\ calls' = [calls EXCEPT ![c] = call] /\ calls'[c] = call
         /\ during' = [during EXCEPT ![c] = during'[c]] /\ during'[c] \in NoteRecords
         /\ CallInv(c)'
<1> DEFINE note == [usable  |-> Stored(t) /\ ~TokenExpired(t, instant), enabled |-> account.state = "enabled",
                    member  |-> account.member, perms |-> Held(account.member)]
<1>1. calls' = [calls EXCEPT ![c] = call] /\ calls'[c] = call /\ during' = [during EXCEPT ![c] = note] /\ during'[c] = note
  BY DEF Begins, TokenTypes
<1>2. apiTokens[t] \in TokenRecords
  BY TokenIsRecord DEF WasMade
<1>3. (Stored(t) /\ ~TokenExpired(t, instant)) \in BOOLEAN /\ (account.state = "enabled") \in BOOLEAN
  BY <1>2 DEF TokenRecords, Stored, TokenExpired
<1>4. account.member \in BOOLEAN /\ Held(account.member) \in SUBSET TokenPerms /\ (account.member => gives \subseteq Held(account.member))
  BY DEF TokenTypes, Held
<1>5. note \in NoteRecords
  BY <1>3, <1>4 DEF NoteRecords
<1>6. note.usable = Usable(t) /\ note.enabled = (account.state = "enabled") /\ note.member = account.member
      /\ note.perms = Held(account.member)
  BY DEF Usable
<1> HIDE DEF note
<1>7. CallShape(c)'
  BY <1>1 DEF CallShape, WasMade, GrantSteps
<1>8. NotedNow(c)'
  BY <1>1, <1>4, <1>6 DEF NotedNow
<1>9. Usable(calls[c].token)' <=> Usable(t)
  BY <1>1 DEF Usable, Stored, TokenExpired
<1>10. ReadWasSo(c)'
  BY <1>1, <1>6, <1>9 DEF ReadWasSo
<1> QED BY <1>1, <1>5, <1>7, <1>8, <1>10 DEF CallInv

\* A request with a token begins.
LEMMA FindKeeps ==
  ASSUME ApiTokensAssumption, TokenInv, NEW c \in TokenCalls, NEW t \in TokenIds, Find(c, t)
  PROVE  TokenInv'
<1>1. /\ UNCHANGED <<apiTokens, wsTickets, account, gives, instant, uses>>
      /\ t \in Made /\ Stored(t) /\ ~TokenExpired(t, instant)
  BY DEF Find, StoresStay, OthersStay
<1>2. PICK op \in {"request", "issueTicket"} :
        Begins(c, t, [Ready EXCEPT !.step = "user", !.op = op, !.token = t, !.lastUsed = apiTokens[t].lastUsed])
  BY DEF Find
<1> DEFINE call == FreshCall("user", op, t, None, NoAsk, 0, apiTokens[t].lastUsed)
<1>3. Begins(c, t, call)
  <2>1. [Ready EXCEPT !.step = "user", !.op = op, !.token = t, !.lastUsed = apiTokens[t].lastUsed] = call
    <3>1. ASSUME NEW r, r = [Ready EXCEPT !.step = "user", !.op = op, !.token = t, !.lastUsed = apiTokens[t].lastUsed]
          PROVE  r = call
      BY <3>1 DEF FreshCall, Ready
    <3> QED BY <3>1
  <2> QED BY <1>2, <2>1
<1>4. WasMade(t) /\ Usable(t) /\ apiTokens[t].lastUsed \in Nat \cup {Never}
  <2>1. WasMade(t) /\ Usable(t)
    BY <1>1 DEF WasMade, Made, Usable
  <2> QED BY <2>1, TokenIsRecord DEF TokenRecords, WasMade, TokenInv
<1>5. call \in CallRecords
  <2>1. "user" \in CallSteps /\ op \in Operations
    BY DEF CallSteps, GrantSteps, Operations
  <2> QED BY <1>4, <2>1, FreshIsRecord
<1>6. call.step = "user" /\ call.token = t /\ call.ticket = None
  BY DEF FreshCall
<1> HIDE DEF call
<1>7. /\ calls' = [calls EXCEPT ![c] = call] /\ calls'[c] = call
      /\ during' = [during EXCEPT ![c] = during'[c]] /\ during'[c] \in NoteRecords /\ CallInv(c)'
  BY <1>1, <1>3, <1>4, <1>5, <1>6, BeginNotes DEF TokenInv
<1> QED
  BY <1>1, <1>5, <1>6, <1>7, OneCallSteps, StoresLast DEF TokenInv, TokenTypes, ApiTokensAssumption

\* A ticket is taken at once: one call has it, or none when it is over.
LEMMA ConsumeKeeps ==
  ASSUME ApiTokensAssumption, TokenInv, NEW c \in TokenCalls, NEW k \in TicketIds, Consume(c, k)
  PROVE  TokenInv'
<1> USE DEF TokenInv
<1>1. /\ UNCHANGED <<apiTokens, account, gives, instant, uses>> /\ wsTickets[k].there
      /\ wsTickets' = [wsTickets EXCEPT ![k] = [wsTickets[k] EXCEPT !.there = FALSE]] /\ calls[c].step = "ended"
      /\ None \notin TicketIds
  BY DEF Consume, OthersStay, MayBegin, Active, ApiTokensAssumption
<1>2. wsTickets[k] \in TicketRecords /\ wsTickets[k] # Nothing
  BY <1>1 DEF TokenTypes, Nothing
<1>3. PICK spent \in TicketRecords :
        /\ wsTickets' = [wsTickets EXCEPT ![k] = spent] /\ ~spent.there /\ spent.token = wsTickets[k].token
        /\ spent # Nothing
  <2> DEFINE spent == [wsTickets[k] EXCEPT !.there = FALSE]
  <2>1. spent \in TicketRecords /\ ~spent.there /\ spent.token = wsTickets[k].token
    BY <1>2 DEF TicketRecords
  <2>2. wsTickets' = [wsTickets EXCEPT ![k] = spent]
    BY <1>1
  <2> HIDE DEF spent
  <2> QED BY <2>1, <2>2, RecordsAreSomething
<1>4. /\ wsTickets' \in [TicketIds -> TicketRecords \cup {Nothing}] /\ wsTickets'[k] = spent
      /\ \A j \in TicketIds \ {k} : wsTickets'[j] = wsTickets[j]
  BY <1>3 DEF TokenTypes
<1>5. calls[c].ticket = None /\ uses[k] = 0 /\ \A d \in TokenCalls : ~Consumes(d, k)
  <2>1. calls[c].ticket = None
    BY <1>1 DEF CallInv, CallShape, GrantSteps
  <2> QED BY <1>1, <2>1 DEF TicketInv
<1>6. \A t \in TokenIds : Lasting(t)
  BY <1>1, StoresLast
<1>7. WasMade(wsTickets[k].token)
  BY <1>2 DEF TicketInv
<1>8. ASSUME /\ calls' = [calls EXCEPT ![c] = calls'[c]] /\ calls'[c] \in CallRecords /\ CallInv(c)'
             /\ calls'[c].ticket \in {None, k}
             /\ during' = [during EXCEPT ![c] = during'[c]] /\ during'[c] \in NoteRecords
      PROVE  TokenInv'
  <2>1. \A d \in TokenCalls \ {c} : calls'[d] = calls[d] /\ during'[d] = during[d]
    BY <1>8 DEF TokenTypes
  <2>2. \A d \in TokenCalls : CallInv(d)'
    BY <1>1, <1>6, <1>8, <2>1, CallStays
  <2>3. TokenTypes'
    BY <1>1, <1>4, <1>8 DEF TokenTypes
  <2>4. \A d \in TokenCalls, j \in TicketIds \ {k} : Consumes(d, j)' <=> Consumes(d, j)
    BY <1>1, <1>5, <1>8, <2>1 DEF Consumes
  <2>5. \A j \in TicketIds \ {k} : TicketInv(j)'
    BY <1>1, <1>4, <2>4 DEF TicketInv, WasMade
  <2>6. \A d \in TokenCalls \ {c} : ~Consumes(d, k)'
    BY <1>5, <2>1 DEF Consumes
  <2>7. TicketInv(k)'
    BY <1>1, <1>3, <1>4, <1>5, <1>7, <2>6 DEF TicketInv, WasMade
  <2> QED BY <2>2, <2>3, <2>5, <2>7
<1>9. CASE TicketOver(k)
  <2>1. calls' = calls /\ during' = during
    BY <1>9 DEF Consume
  <2>2. CallInv(c)'
    BY <1>1, <1>6, <2>1, CallStays
  <2> QED BY <1>5, <1>8, <2>1, <2>2 DEF TokenTypes
<1>10. CASE ~TicketOver(k)
  <2> DEFINE t == wsTickets[k].token
  <2> DEFINE call == FreshCall("token", "consumeTicket", t, k, NoAsk, 0, Never)
  <2>1. Begins(c, t, call)
    <3>1. [Ready EXCEPT !.step = "token", !.op = "consumeTicket", !.token = t, !.ticket = k] = call
      <4>1. ASSUME NEW r, r = [Ready EXCEPT !.step = "token", !.op = "consumeTicket", !.token = t, !.ticket = k]
            PROVE  r = call
        BY <4>1 DEF FreshCall, Ready
      <4> QED BY <4>1
    <3>2. Begins(c, t, [Ready EXCEPT !.step = "token", !.op = "consumeTicket", !.token = t, !.ticket = k])
      BY <1>10 DEF Consume
    <3> QED BY <3>1, <3>2
  <2>2. t \in TokenIds
    BY <1>7 DEF WasMade
  <2>3. call \in CallRecords
    <3>1. "token" \in CallSteps /\ "consumeTicket" \in Operations
      BY DEF CallSteps, GrantSteps, Operations
    <3> QED BY <2>2, <3>1, FreshIsRecord
  <2>4. call.step = "token" /\ call.token = t /\ call.ticket = k /\ call.op = "consumeTicket"
    BY DEF FreshCall
  <2> HIDE DEF call
  <2>5. /\ calls' = [calls EXCEPT ![c] = call] /\ calls'[c] = call
        /\ during' = [during EXCEPT ![c] = during'[c]] /\ during'[c] \in NoteRecords /\ CallInv(c)'
    BY <1>1, <1>7, <2>1, <2>2, <2>3, <2>4, BeginNotes
  <2> QED BY <1>8, <2>3, <2>4, <2>5
<1> QED BY <1>9, <1>10

\* What a call on its way reads is noted: the token, then the user, then the permissions.
LEMMA ReadsKeep ==
  ASSUME ApiTokensAssumption, TokenInv, NEW c \in TokenCalls, FindAgain(c) \/ ReadOwner(c) \/ ReadPermissions(c)
  PROVE  TokenInv'
<1> USE DEF TokenInv
<1>1. /\ UNCHANGED <<apiTokens, wsTickets, account, gives, instant, uses>> /\ None \notin TicketIds
      /\ calls[c] \in CallRecords /\ during[c] \in NoteRecords
  BY DEF FindAgain, ReadOwner, ReadPermissions, StoresStay, OthersStay, HistoryStays, ApiTokensAssumption, TokenTypes
<1>2. calls[c].step \in GrantSteps /\ WasMade(calls[c].token)
  BY DEF FindAgain, ReadOwner, ReadPermissions, GrantSteps, CallInv, CallShape
<1>3. ASSUME Returns(c)
      PROVE  TokenInv'
  BY <1>1, <1>3, ReturnSteps, StoresLast DEF TokenTypes
<1>4. ASSUME UNCHANGED during, NEW q \in CallRecords, calls' = [calls EXCEPT ![c] = q], calls'[c] = q,
             q.step \in GrantSteps, q.token = calls[c].token, q.ticket = calls[c].ticket, q.op = calls[c].op, ReadWasSo(c)'
      PROVE  TokenInv'
  <2>1. CallShape(c)' /\ NotedNow(c)'
    BY <1>1, <1>2, <1>4 DEF CallInv, CallShape, NotedNow, WasMade, GrantSteps
  <2> QED BY <1>1, <1>4, <2>1, OneCallSteps, StoresLast DEF TokenTypes, CallInv
<1>5. CASE FindAgain(c) /\ Goes(c, "user")
  <2> DEFINE q == [calls[c] EXCEPT !.step = "user"]
  <2>1. calls' = [calls EXCEPT ![c] = q] /\ calls'[c] = q /\ UNCHANGED during /\ "user" \in CallSteps
    BY <1>5 DEF Goes, TokenTypes, CallSteps, GrantSteps
  <2>2. q \in CallRecords /\ q.step = "user" /\ q.token = calls[c].token /\ q.ticket = calls[c].ticket /\ q.op = calls[c].op
    BY <1>1, <2>1, StepOfRecord
  <2> HIDE DEF q
  <2>3. Usable(calls[c].token) \/ Returns(c)
    BY <1>5 DEF FindAgain
  <2>4. CASE Usable(calls[c].token)
    <3>1. during[c].usable
      BY <1>5, <2>4 DEF FindAgain, CallInv, ReadWasSo
    <3>2. ReadWasSo(c)'
      BY <2>1, <2>2, <3>1 DEF ReadWasSo
    <3> QED BY <1>4, <2>1, <2>2, <3>2 DEF GrantSteps
  <2> QED BY <1>3, <2>3, <2>4
<1>6. CASE ReadOwner(c) /\ ~Returns(c)
  <2> DEFINE q == [calls[c] EXCEPT !.step = "perms", !.seen = account]
  <2>1. /\ calls' = [calls EXCEPT ![c] = q] /\ calls'[c] = q /\ UNCHANGED during /\ "perms" \in CallSteps
        /\ account \in [state : States, member : BOOLEAN] /\ account.state \in {"enabled", "mustChange"}
        /\ calls[c].step = "user"
    BY <1>6 DEF ReadOwner, TokenTypes, CallSteps, GrantSteps, States
  <2>2. /\ q \in CallRecords /\ q.step = "perms" /\ q.token = calls[c].token /\ q.ticket = calls[c].ticket
        /\ q.op = calls[c].op /\ q.seen = account
    BY <1>1, <2>1 DEF CallRecords
  <2> HIDE DEF q
  <2>3. NotedNow(c) /\ during[c].usable
    BY <2>1 DEF CallInv, ReadWasSo
  <2>4. ReadWasSo(c)'
    BY <1>2, <2>1, <2>2, <2>3 DEF ReadWasSo, NotedNow
  <2> QED BY <1>4, <2>1, <2>2, <2>4 DEF GrantSteps
<1>7. CASE ReadPermissions(c)
  <2> DEFINE next == IF DueLastUsed(c) THEN "touch" ELSE "context"
  <2> DEFINE q == [calls[c] EXCEPT !.step = next, !.got = Context(c), !.at = IF DueLastUsed(c) THEN instant ELSE 0,
                                   !.seen = NoAccount, !.lastUsed = Never]
  <2>1. calls' = [calls EXCEPT ![c] = q] /\ calls'[c] = q /\ UNCHANGED during /\ calls[c].step = "perms"
    BY <1>7 DEF ReadPermissions, TokenTypes, HistoryStays
  <2>2. PICK t \in TokenIds : t = calls[c].token /\ apiTokens[t] \in TokenRecords
    BY <1>2, TokenIsRecord DEF WasMade
  <2>3. NotedNow(c) /\ ReadWasSo(c)
    BY DEF CallInv
  <2>4. Context(c) # Refused =>
          /\ during[c].enabled /\ Context(c) \subseteq during[c].perms
          /\ apiTokens[t].scope = Unscoped \/ Context(c) \subseteq apiTokens[t].scope
    <3>1. calls[c].seen.member => gives \subseteq during[c].perms
      BY <1>2, <2>1, <2>3 DEF NotedNow, ReadWasSo
    <3>2. Held(calls[c].seen.member) \subseteq during[c].perms
      BY <3>1 DEF Held
    <3>3. calls[c].seen.state # "mustChange" => during[c].enabled
      BY <2>1, <2>3 DEF ReadWasSo
    <3> QED BY <2>2, <3>2, <3>3 DEF Context, Scoped
  <2>5. Context(c) \subseteq TokenPerms \cup {Never}
    <3>1. Held(calls[c].seen.member) \subseteq TokenPerms
      BY DEF Held, TokenTypes
    <3> QED BY <3>1 DEF Context, Scoped, Refused
  <2>6. /\ q \in CallRecords /\ q.step = next /\ q.token = calls[c].token /\ q.ticket = calls[c].ticket
        /\ q.op = calls[c].op /\ q.got = Context(c)
    <3>1. NoAccount \in [state : States, member : BOOLEAN] /\ next \in CallSteps /\ (IF DueLastUsed(c) THEN instant ELSE 0) \in Nat
      BY DEF NoAccount, States, CallSteps, GrantSteps, TokenTypes
    <3> HIDE DEF next
    <3> QED BY <1>1, <2>5, <3>1 DEF CallRecords
  <2>7. next \in {"touch", "context"}
    OBVIOUS
  <2> HIDE DEF q, next
  <2>8. ReadWasSo(c)'
    BY <1>1, <2>1, <2>2, <2>3, <2>4, <2>6, <2>7 DEF ReadWasSo
  <2> QED BY <1>4, <2>1, <2>6, <2>7, <2>8 DEF GrantSteps
<1> QED
  BY <1>3, <1>5, <1>6, <1>7 DEF FindAgain

\* A request records the use of its token.
LEMMA TouchKeeps ==
  ASSUME ApiTokensAssumption, TokenInv, NEW c \in TokenCalls, TouchToken(c)
  PROVE  TokenInv'
<1> USE DEF TokenInv
<1>1. /\ calls[c].step = "touch" /\ UNCHANGED <<wsTickets, uses, account, gives, instant>> /\ UNCHANGED during
      /\ calls[c] \in CallRecords /\ during[c] \in NoteRecords /\ None \notin TicketIds
  BY DEF TouchToken, OthersStay, TokenTypes, ApiTokensAssumption, Goes
<1>2. PICK t \in TokenIds : t = calls[c].token /\ apiTokens[t] \in TokenRecords /\ WasMade(t)
  BY <1>1, TokenIsRecord DEF CallInv, CallShape, WasMade, GrantSteps
<1>3. PICK used \in TokenRecords :
        /\ apiTokens' = [apiTokens EXCEPT ![t] = used]
        /\ used.scope = apiTokens[t].scope /\ used.expires = apiTokens[t].expires /\ used.there = apiTokens[t].there
  <2>1. CASE Stored(t)
    <3> DEFINE used == [apiTokens[t] EXCEPT !.lastUsed = calls[c].at]
    <3>1. apiTokens' = [apiTokens EXCEPT ![t] = used]
      BY <1>2, <2>1 DEF TouchToken
    <3>2. used \in TokenRecords /\ used.scope = apiTokens[t].scope /\ used.expires = apiTokens[t].expires /\ used.there = apiTokens[t].there
      BY <1>1, <1>2 DEF TokenRecords, CallRecords
    <3> HIDE DEF used
    <3> QED BY <3>1, <3>2
  <2>2. CASE ~Stored(t)
    <3>1. apiTokens' = [apiTokens EXCEPT ![t] = apiTokens[t]]
      BY <1>2, <2>2 DEF TouchToken, TokenTypes
    <3> QED BY <1>2, <3>1
  <2> QED BY <2>1, <2>2
<1>4. apiTokens' \in [TokenIds -> TokenRecords \cup {Nothing}]
  BY <1>3 DEF TokenTypes
<1>5. \A s \in TokenIds : apiTokens[s] # Nothing =>
           /\ apiTokens'[s] \in TokenRecords
           /\ apiTokens'[s].scope = apiTokens[s].scope /\ apiTokens'[s].expires = apiTokens[s].expires
           /\ apiTokens'[s].there => apiTokens[s].there
  BY <1>2, <1>3 DEF TokenTypes
<1>6. \A s \in TokenIds : Lasting(s)
  BY <1>1, <1>4, <1>5, RecordLasts
<1> DEFINE q == [calls[c] EXCEPT !.step = "context"]
<1>7. calls' = [calls EXCEPT ![c] = q] /\ calls'[c] = q /\ "context" \in CallSteps
  BY DEF TouchToken, Goes, TokenTypes, CallSteps, GrantSteps
<1>8. /\ q \in CallRecords /\ q.step = "context" /\ q.token = calls[c].token /\ q.ticket = calls[c].ticket
      /\ q.op = calls[c].op /\ q.got = calls[c].got
  BY <1>1, <1>7, StepOfRecord
<1> HIDE DEF q
<1>9. CallShape(c)' /\ NotedNow(c)' /\ ReadWasSo(c)'
  <2>1. apiTokens'[t] # Nothing /\ apiTokens'[t].scope = apiTokens[t].scope
    BY <1>2, <1>6 DEF Lasting, WasMade
  <2> QED BY <1>1, <1>2, <1>7, <1>8, <2>1 DEF CallInv, CallShape, NotedNow, ReadWasSo, WasMade, GrantSteps
<1> QED BY <1>1, <1>4, <1>6, <1>7, <1>8, <1>9, OneCallSteps DEF TokenTypes, CallInv

\* Tokens that are deleted, one or all, can only be used less.
LEMMA DeletionLasts ==
  ASSUME TokenInv, NEW gone, UNCHANGED instant,
         apiTokens' = [t \in TokenIds |-> IF t \in gone /\ t \in Made THEN [apiTokens[t] EXCEPT !.there = FALSE]
                                          ELSE apiTokens[t]]
  PROVE  apiTokens' \in [TokenIds -> TokenRecords \cup {Nothing}] /\ \A t \in TokenIds : Lasting(t)
<1>1. ASSUME NEW t \in TokenIds, apiTokens[t] # Nothing
      PROVE  /\ apiTokens'[t] \in TokenRecords
             /\ apiTokens'[t].scope = apiTokens[t].scope /\ apiTokens'[t].expires = apiTokens[t].expires
             /\ apiTokens'[t].there => apiTokens[t].there
  <2>1. apiTokens[t] \in TokenRecords
    BY <1>1, TokenIsRecord DEF TokenInv
  <2>2. apiTokens'[t] = apiTokens[t] \/ apiTokens'[t] = [apiTokens[t] EXCEPT !.there = FALSE]
    OBVIOUS
  <2> QED BY <2>1, <2>2 DEF TokenRecords
<1>2. \A t \in TokenIds : apiTokens[t] = Nothing => apiTokens'[t] = Nothing
  BY DEF Made
<1>3. apiTokens' \in [TokenIds -> TokenRecords \cup {Nothing}]
  BY <1>1, <1>2
<1> QED BY <1>1, <1>3, RecordLasts DEF TokenInv

\* revokeApiToken, and the tokens of a user who is deleted.
LEMMA RevokeKeeps ==
  ASSUME ApiTokensAssumption, TokenInv, NEW c \in TokenCalls,
         (\E t \in TokenIds : AskRevoke(c, t)) \/ DeleteToken(c) \/ AskDelete(c) \/ DeleteOwner(c) \/ DeleteOwnTokens(c)
  PROVE  TokenInv'
<1> USE DEF TokenInv
<1>1. calls[c] \in CallRecords /\ during[c] \in NoteRecords /\ None \notin TicketIds
  BY DEF TokenTypes, ApiTokensAssumption
<1>2. ASSUME NEW t \in TokenIds, AskRevoke(c, t)
      PROVE  TokenInv'
  <2> DEFINE call == FreshCall("delete", "revoke", t, None, NoAsk, 0, Never)
  <2>1. UNCHANGED <<apiTokens, wsTickets, account, gives, instant, during, uses>> /\ WasMade(t)
    BY <1>2 DEF AskRevoke, StoresStay, OthersStay, HistoryStays, Made, WasMade
  <2>2. [Ready EXCEPT !.step = "delete", !.op = "revoke", !.token = t] = call
    <3>1. ASSUME NEW r, r = [Ready EXCEPT !.step = "delete", !.op = "revoke", !.token = t]
          PROVE  r = call
      BY <3>1 DEF FreshCall, Ready
    <3> QED BY <3>1
  <2>3. calls' = [calls EXCEPT ![c] = call] /\ calls'[c] = call
    BY <1>2, <2>2 DEF AskRevoke, TokenTypes
  <2>4. call \in CallRecords
    <3>1. "delete" \in CallSteps /\ "revoke" \in Operations
      BY DEF CallSteps, Operations
    <3> QED BY <3>1, FreshIsRecord
  <2>5. call.step = "delete" /\ call.ticket = None /\ call.token = t
    BY DEF FreshCall
  <2> HIDE DEF call
  <2>6. CallInv(c)'
    BY <2>1, <2>3, <2>5 DEF CallInv, CallShape, NotedNow, ReadWasSo, GrantSteps, WasMade
  <2> QED BY <1>1, <2>1, <2>3, <2>4, <2>5, <2>6, OneCallSteps, StoresLast DEF TokenTypes
<1>3. CASE DeleteToken(c)
  <2>1. UNCHANGED <<wsTickets, account, gives, instant, uses>> /\ Returns(c) /\ calls[c].step = "delete"
    BY <1>3 DEF DeleteToken, OthersStay
  <2>2. PICK t \in TokenIds : t = calls[c].token /\ apiTokens[t] # Nothing
    BY <2>1 DEF CallInv, CallShape, WasMade
  <2>3. apiTokens' = [s \in TokenIds |-> IF s \in {t} /\ s \in Made THEN [apiTokens[s] EXCEPT !.there = FALSE] ELSE apiTokens[s]]
    BY <1>3, <2>2 DEF DeleteToken, TokenTypes, Made
  <2> QED BY <1>1, <2>1, <2>3, DeletionLasts, ReturnSteps
<1>4. CASE AskDelete(c)
  <2> DEFINE call == FreshCall("account", "deleteUser", None, None, NoAsk, 0, Never)
  <2>1. UNCHANGED <<apiTokens, wsTickets, account, gives, instant, during, uses>>
    BY <1>4 DEF AskDelete, StoresStay, OthersStay, HistoryStays
  <2>2. [Ready EXCEPT !.step = "account", !.op = "deleteUser"] = call
    <3>1. ASSUME NEW r, r = [Ready EXCEPT !.step = "account", !.op = "deleteUser"]
          PROVE  r = call
      BY <3>1 DEF FreshCall, Ready
    <3> QED BY <3>1
  <2>3. calls' = [calls EXCEPT ![c] = call] /\ calls'[c] = call
    BY <1>4, <2>2 DEF AskDelete, TokenTypes
  <2>4. call \in CallRecords
    <3>1. "account" \in CallSteps /\ "deleteUser" \in Operations
      BY DEF CallSteps, Operations
    <3> QED BY <3>1, FreshIsRecord
  <2>5. call.step = "account" /\ call.ticket = None
    BY DEF FreshCall
  <2> HIDE DEF call
  <2>6. CallInv(c)'
    BY <2>3, <2>5 DEF CallInv, CallShape, NotedNow, ReadWasSo, GrantSteps
  <2> QED BY <1>1, <2>1, <2>3, <2>4, <2>5, <2>6, OneCallSteps, StoresLast DEF TokenTypes
<1>5. CASE DeleteOwner(c)
  <2> DEFINE q == [calls[c] EXCEPT !.step = "tokens"]
  <2>1. UNCHANGED <<apiTokens, wsTickets, gives, instant, during, uses>> /\ calls[c].step = "account"
    BY <1>5 DEF DeleteOwner, StoresStay, Goes
  <2>2. calls' = [calls EXCEPT ![c] = q] /\ calls'[c] = q /\ "tokens" \in CallSteps
    BY <1>5 DEF DeleteOwner, Goes, TokenTypes, CallSteps
  <2>3. q \in CallRecords /\ q.step = "tokens" /\ q.ticket = calls[c].ticket
    BY <1>1, <2>2, StepOfRecord
  <2> HIDE DEF q
  <2>4. calls[c].ticket = None
    BY <2>1 DEF CallInv, CallShape, GrantSteps
  <2>5. CallInv(c)'
    BY <2>2, <2>3, <2>4 DEF CallInv, CallShape, NotedNow, ReadWasSo, GrantSteps
  <2>6. account' \in [state : States, member : BOOLEAN] /\ account'.member = account.member /\ account'.state = "gone"
    BY <1>5 DEF DeleteOwner, TokenTypes, States
  <2> QED BY <1>1, <2>1, <2>2, <2>3, <2>5, <2>6, OneCallSteps, StoresLast DEF TokenTypes
<1>6. CASE DeleteOwnTokens(c)
  <2>1. UNCHANGED <<wsTickets, account, gives, instant, uses>> /\ Returns(c)
    BY <1>6 DEF DeleteOwnTokens, OthersStay
  <2>2. apiTokens' = [s \in TokenIds |-> IF s \in TokenIds /\ s \in Made THEN [apiTokens[s] EXCEPT !.there = FALSE] ELSE apiTokens[s]]
    BY <1>6 DEF DeleteOwnTokens, Made
  <2> QED BY <1>1, <2>1, <2>2, DeletionLasts, ReturnSteps
<1> QED BY <1>2, <1>3, <1>4, <1>5, <1>6

\* The handler has its context: a ticket is used up, and perhaps one is issued.
LEMMA HandleKeeps ==
  ASSUME ApiTokensAssumption, TokenInv, NEW c \in TokenCalls, Handle(c)
  PROVE  TokenInv'
<1> USE DEF TokenInv
<1>1. /\ UNCHANGED <<apiTokens, account, gives, instant>> /\ calls[c].step = "context" /\ None \notin TicketIds
      /\ calls' = [calls EXCEPT ![c] = Ready] /\ during' = [during EXCEPT ![c] = NotYet]
  BY DEF Handle, OthersStay, Returns, ApiTokensAssumption
<1>2. /\ \A d \in TokenCalls \ {c} : calls'[d] = calls[d] /\ during'[d] = during[d]
      /\ calls'[c] = Ready /\ Ready.ticket = None
  BY <1>1 DEF TokenTypes, Ready
<1>3. \A t \in TokenIds : Lasting(t)
  BY <1>1, StoresLast
<1>4. (\A d \in TokenCalls : CallInv(d)') /\ Ready \in CallRecords /\ NotYet \in NoteRecords
  BY <1>1, <1>2, <1>3, CallStays, ReadyIsFine
<1>5. \A k \in TicketIds : ~Consumes(c, k)' /\ \A d \in TokenCalls \ {c} : Consumes(d, k)' <=> Consumes(d, k)
  BY <1>1, <1>2 DEF Consumes
<1>6. /\ uses' \in [TicketIds -> Nat]
      /\ \A k \in TicketIds : uses'[k] = uses[k] \/ (Consumes(c, k) /\ uses'[k] = uses[k] + 1)
  <2>1. calls[c].ticket \in TicketIds \cup {None}
    BY DEF TokenTypes, CallRecords
  <2>2. CASE calls[c].ticket # None /\ calls[c].got # Refused
    <3>1. uses' = [uses EXCEPT ![calls[c].ticket] = uses[calls[c].ticket] + 1] /\ calls[c].ticket \in TicketIds
      BY <2>1, <2>2 DEF Handle
    <3> QED BY <3>1 DEF TokenTypes, Consumes
  <2>3. CASE ~(calls[c].ticket # None /\ calls[c].got # Refused)
    <3>1. uses' = uses
      BY <2>3 DEF Handle
    <3> QED BY <3>1 DEF TokenTypes
  <2> QED BY <2>2, <2>3
<1> DEFINE swept == [k \in TicketIds |-> IF wsTickets[k].there /\ TicketOver(k)
                                         THEN [wsTickets[k] EXCEPT !.there = FALSE] ELSE wsTickets[k]]
<1>7. ASSUME NEW k \in TicketIds
      PROVE  /\ swept[k] \in TicketRecords \cup {Nothing} /\ (wsTickets[k] = Nothing => swept[k] = Nothing)
             /\ (swept[k] = Nothing \/ swept[k].there => wsTickets[k] = Nothing \/ wsTickets[k].there)
             /\ (wsTickets[k] # Nothing => swept[k].token = wsTickets[k].token)
  <2>1. CASE wsTickets[k] = Nothing
    BY <2>1 DEF Nothing
  <2>2. CASE wsTickets[k] # Nothing
    <3>1. wsTickets[k] \in TicketRecords
      BY <2>2 DEF TokenTypes
    <3>2. CASE wsTickets[k].there /\ TicketOver(k)
      BY <2>2, <3>1, <3>2 DEF TicketRecords
    <3>3. CASE ~(wsTickets[k].there /\ TicketOver(k))
      BY <2>2, <3>1, <3>3
    <3> QED BY <3>2, <3>3
  <2> QED BY <2>1, <2>2
<1>8. CASE UNCHANGED wsTickets
  <2>1. ASSUME NEW k \in TicketIds
        PROVE  TicketInv(k)'
    BY <1>1, <1>5, <1>6, <1>8 DEF TicketInv, TokenTypes, WasMade
  <2> QED BY <1>1, <1>4, <1>6, <1>8, <2>1 DEF TokenTypes
<1>9. CASE wsTickets' # wsTickets
  <2>1. /\ calls[c].op = "issueTicket" /\ Unissued # {}
        /\ wsTickets' = [swept EXCEPT ![CHOOSE k \in Unissued : TRUE] =
                           [there |-> TRUE, token |-> calls[c].token, issuedAt |-> instant]]
    BY <1>9 DEF Handle
  <2>2. PICK new \in Unissued :
          wsTickets' = [swept EXCEPT ![new] = [there |-> TRUE, token |-> calls[c].token, issuedAt |-> instant]]
    BY <2>1
  <2> DEFINE ticket == [there |-> TRUE, token |-> calls[c].token, issuedAt |-> instant]
  <2>3. WasMade(calls[c].token) /\ calls[c].ticket = None
    BY <1>1, <2>1 DEF CallInv, CallShape, GrantSteps
  <2>4. ticket \in TicketRecords /\ ticket.token = calls[c].token
    BY <2>3 DEF TicketRecords, WasMade, TokenTypes
  <2> HIDE DEF ticket
  <2>5. new \in TicketIds /\ wsTickets[new] = Nothing
    BY <2>2 DEF Unissued
  <2> HIDE DEF swept
  <2>6. /\ wsTickets' = [swept EXCEPT ![new] = ticket] /\ DOMAIN swept = TicketIds
        /\ wsTickets'[new] = ticket /\ \A k \in TicketIds \ {new} : wsTickets'[k] = swept[k]
    BY <2>2, <2>5 DEF swept, ticket
  <2>7. uses' = uses
    BY <2>3 DEF Handle
  <2>8. wsTickets' \in [TicketIds -> TicketRecords \cup {Nothing}]
    BY <1>7, <2>4, <2>6
  <2>9. \A k \in TicketIds, d \in TokenCalls : Consumes(d, k)' <=> Consumes(d, k)
    BY <1>1, <1>5, <2>3 DEF Consumes
  <2>10. ASSUME NEW k \in TicketIds \ {new}
         PROVE  TicketInv(k)'
    <3>1. wsTickets'[k] # Nothing => wsTickets[k] # Nothing /\ wsTickets'[k].token = wsTickets[k].token
      BY <1>7, <2>6
    <3>2. wsTickets'[k] = Nothing \/ wsTickets'[k].there => wsTickets[k] = Nothing \/ wsTickets[k].there
      BY <1>7, <2>6
    <3> QED BY <1>1, <2>7, <2>9, <3>1, <3>2 DEF TicketInv, WasMade
  <2>11. TicketInv(new)'
    BY <1>1, <2>3, <2>4, <2>5, <2>6, <2>7, <2>9 DEF TicketInv, WasMade
  <2>12. TokenTypes'
    BY <1>1, <1>4, <1>6, <2>8 DEF TokenTypes
  <2> QED BY <1>4, <2>10, <2>11, <2>12
<1> QED BY <1>8, <1>9

\* What others change is noted for every call under way.
LEMMA ChangesKeep ==
  ASSUME ApiTokensAssumption, TokenInv, AccountChanges
  PROVE  TokenInv'
<1> USE DEF TokenInv
<1>1. UNCHANGED <<apiTokens, wsTickets, calls, uses, instant>> /\ None \notin TokenIds
  BY DEF AccountChanges, ApiTokensAssumption
<1>2. account' \in [state : States, member : BOOLEAN] /\ gives' \in SUBSET TokenPerms
  BY DEF AccountChanges, TokenTypes, States
<1> DEFINE note(c) == [during[c] EXCEPT !.enabled = @ \/ account'.state = "enabled", !.member = @ \/ account'.member,
                                       !.perms = @ \cup (IF during[c].member \/ account'.member THEN gives' ELSE {})]
<1>3. during' = [c \in TokenCalls |-> IF Active(c) /\ calls[c].token # None THEN note(c) ELSE during[c]]
  BY DEF AccountChanges, Noted
<1>4. ASSUME NEW c \in TokenCalls
      PROVE  /\ note(c) \in NoteRecords /\ note(c).usable = during[c].usable
             /\ (note(c).enabled <=> during[c].enabled \/ account'.state = "enabled")
             /\ (note(c).member <=> during[c].member \/ account'.member)
             /\ note(c).perms = during[c].perms \cup (IF during[c].member \/ account'.member THEN gives' ELSE {})
  <2>1. during[c] \in NoteRecords
    BY DEF TokenTypes
  <2>2. account'.member \in BOOLEAN /\ (account'.state = "enabled") \in BOOLEAN
    BY <1>2
  <2> QED BY <1>2, <2>1, <2>2 DEF NoteRecords
<1> HIDE DEF note
<1>5. TokenTypes'
  BY <1>1, <1>2, <1>3, <1>4 DEF TokenTypes
<1>6. \A t \in TokenIds : Usable(t)' <=> Usable(t)
  BY <1>1 DEF Usable, Stored, TokenExpired
<1>7. ASSUME NEW c \in TokenCalls
      PROVE  CallInv(c)'
  <2>1. CallShape(c)'
    BY <1>1 DEF CallInv, CallShape, WasMade
  <2>2. CASE calls[c].step \in GrantSteps
    <3>1. PICK t \in TokenIds : t = calls[c].token
      BY <2>2 DEF CallInv, CallShape, WasMade
    <3>2. during'[c] = note(c)
      BY <1>1, <1>3, <2>2, <3>1 DEF Active, GrantSteps
    <3>3. NotedNow(c)'
      BY <1>1, <1>4, <3>2 DEF NotedNow
    <3>4. Usable(calls[c].token)' <=> Usable(calls[c].token)
      BY <1>1, <1>6, <3>1 DEF Usable, Stored, TokenExpired
    <3>5. ReadWasSo(c)'
      BY <1>1, <1>4, <3>2, <3>4 DEF CallInv, ReadWasSo
    <3> QED BY <2>1, <3>3, <3>5 DEF CallInv
  <2>3. CASE calls[c].step \notin GrantSteps
    BY <1>1, <2>1, <2>3 DEF CallInv, NotedNow, ReadWasSo, GrantSteps
  <2> QED BY <2>2, <2>3
<1>8. \A k \in TicketIds : TicketInv(k)'
  BY <1>1 DEF TicketInv, Consumes, WasMade
<1> QED BY <1>5, <1>7, <1>8

\* Every step keeps calls justified and tickets single.
LEMMA TokensStep ==
  ASSUME ApiTokensAssumption, TokenInv, [TokensNext]_tokenVars
  PROVE  TokenInv'
<1>1. CASE AccountChanges
  BY <1>1, ChangesKeep
<1>2. ASSUME UNCHANGED <<apiTokens, wsTickets, account, gives, calls, during, uses>>, instant' \in Nat, instant <= instant'
      PROVE  TokenInv'
  <2>1. \A t \in TokenIds : Lasting(t)
    BY <1>2, StillLasts DEF TokenInv
  <2>2. \A c \in TokenCalls : CallInv(c)'
    BY <1>2, <2>1, CallStays DEF TokenInv
  <2>3. TokenTypes'
    BY <1>2 DEF TokenInv, TokenTypes
  <2>4. \A k \in TicketIds : TicketInv(k)'
    BY <1>2 DEF TokenInv, TicketInv, Consumes, WasMade
  <2> QED BY <2>2, <2>3, <2>4 DEF TokenInv
<1>3. CASE Passes
  BY <1>2, <1>3 DEF Passes, TokenInv, TokenTypes
<1>4. CASE UNCHANGED tokenVars
  BY <1>2, <1>4 DEF tokenVars, TokenInv, TokenTypes
<1>5. ASSUME NEW c \in TokenCalls, TokenCall(c)
      PROVE  TokenInv'
  BY <1>5, CreateKeepsTokens, FindKeeps, ConsumeKeeps, ReadsKeep, TouchKeeps, RevokeKeeps, HandleKeeps DEF TokenCall
<1> QED BY <1>1, <1>3, <1>4, <1>5 DEF TokensNext

(* What a token opens is justified: however calls, revocations, changes of the
   user and of its group interleave, and for every number of them. *)
THEOREM TokensAreJustified == TokensSpec => []TokensJustified
<1>1. TokenInit => TokenInv
  <2> SUFFICES ASSUME TokenInit PROVE TokenInv
    OBVIOUS
  <2>1. \A c \in TokenCalls : calls[c] = Ready /\ Ready.step = "ended" /\ Ready.ticket = None
    BY DEF TokenInit, Ready
  <2>2. Ready \in CallRecords /\ NotYet \in NoteRecords
    BY DEF Ready, CallRecords, CallSteps, NoAccount, States, Refused, NotYet, NoteRecords
  <2>3. TokenTypes
    BY <2>2 DEF TokenInit, TokenTypes, States
  <2>4. \A c \in TokenCalls : CallInv(c)
    BY <2>1 DEF CallInv, CallShape, NotedNow, ReadWasSo, GrantSteps
  <2>5. \A k \in TicketIds : TicketInv(k)
    BY <2>1, ApiTokensAssumption DEF TokenInit, TicketInv, Consumes, ApiTokensAssumption
  <2> QED BY <2>3, <2>4, <2>5 DEF TokenInv
<1>2. TokenInv /\ [TokensNext]_tokenVars => TokenInv'
  BY TokensStep, ApiTokensAssumption
<1>3. TokenInv => TokensJustified
  BY DEF TokenInv, CallInv, NotedNow, ReadWasSo, TicketInv, GrantSteps, TokensJustified, GrantsJustified, TicketsOnce
<1> QED BY <1>1, <1>2, <1>3, PTL DEF TokensSpec
=============================================================================
