----------------------------- MODULE Histories ------------------------------
(***************************************************************************)
(* The bounded histories kept in memory: the console log of the admin      *)
(* plugin (LogRingBuffer), its status samples (StatusSampler), both rings  *)
(* over an array, and the audit log (InMemoryAuditStore), two lists with a *)
(* sequence number.  Each implements Recent.                               *)
(***************************************************************************)
EXTENDS Subsequences

CONSTANTS Lines,        \* what is logged and sampled
          LogCapacity, SampleCapacity,
          MaxAuditEntries, MaxFailedLogins,
          MaxSeq,       \* bound on the audit entries recorded
          AuditTimes    \* the timestamps of audit entries

ASSUME HistoriesAssumption ==
  /\ {LogCapacity, SampleCapacity, MaxAuditEntries, MaxFailedLogins} \subseteq Nat \ {0}
  /\ MaxSeq \in Nat /\ AuditTimes \subseteq Nat

VARIABLES logRing, samples,  \* [slots, head, count]
          sampling,          \* the sampler's timer runs
          captured,          \* console.log, warn and error are intercepted
          entries, failedLogins, auditSeq

rings == <<logRing, samples, sampling, captured>>
auditStore == <<entries, failedLogins, auditSeq>>
historyVars == <<rings, auditStore>>

-----------------------------------------------------------------------------
(* Rings *)

Empty(capacity) == [slots |-> [i \in 0 .. capacity - 1 |-> "unset"], head |-> 0, count |-> 0]

\* push, add.
Pushed(ring, x) ==
  LET n == Cardinality(DOMAIN ring.slots)
  IN [slots |-> [ring.slots EXCEPT ![ring.head] = x], head |-> (ring.head + 1) % n,
      count |-> IF ring.count < n THEN ring.count + 1 ELSE ring.count]

\* getAll: an unwrapped prefix, or the two slices around head.
GetAll(ring) ==
  LET n == Cardinality(DOMAIN ring.slots)
      slice(a, b) == [i \in 1 .. b - a |-> ring.slots[a + i - 1]]
  IN IF ring.count < n THEN slice(0, ring.count) ELSE slice(ring.head, n) \o slice(0, ring.head)

(* Mutant: the oldest sample is looked for at head, wrapped or not. *)
OldestSlotAtHead(ring) == ring.head

\* The slot of the oldest sample.
OldestSlot(ring) ==
  LET n == Cardinality(DOMAIN ring.slots) IN (ring.head - ring.count + n) % n

\* StatusSampler.history, of every sample.
History(ring) == [i \in 1 .. ring.count |-> ring.slots[(OldestSlot(ring) + i - 1) % Cardinality(DOMAIN ring.slots)]]

-----------------------------------------------------------------------------
(* The audit log *)

AuditEntries == [failed : BOOLEAN, at : AuditTimes]

LastN(s, n) == IF Len(s) > n THEN SubSeq(s, Len(s) - n + 1, Len(s)) ELSE s

\* What is stored, each entry at its sequence number.
BySeq(stored) == [n \in {s.seq : s \in stored} |-> (CHOOSE s \in stored : s.seq = n).entry]

\* getEntries, oldest first: the two lists by sequence number.
InOrder(stored) == Picked(BySeq(stored), DOMAIN BySeq(stored))

Stored(list) == {list[i] : i \in DOMAIN list}

AuditEntriesKept == InOrder(Stored(entries) \cup Stored(failedLogins))

Since(list, before) == Picked(list, {i \in DOMAIN list : list[i].entry.at >= before})

-----------------------------------------------------------------------------
HistoriesInit ==
  /\ logRing = Empty(LogCapacity) /\ samples = Empty(SampleCapacity)
  /\ sampling = FALSE /\ captured = FALSE
  /\ entries = <<>> /\ failedLogins = <<>> /\ auditSeq = 0

\* build: two new rings; the console is intercepted, and the sampler takes a
\* sample and starts.
Build(x) ==
  /\ ~captured /\ ~sampling
  /\ captured' = TRUE /\ sampling' = TRUE
  /\ logRing' = Empty(LogCapacity) /\ samples' = Pushed(Empty(SampleCapacity), x)
  /\ UNCHANGED auditStore

\* dispose: the histories stay as they are.
Dispose ==
  /\ captured
  /\ captured' = FALSE /\ sampling' = FALSE
  /\ UNCHANGED <<logRing, samples, auditStore>>

LogLine(x) ==
  /\ captured
  /\ logRing' = Pushed(logRing, x)
  /\ UNCHANGED <<samples, sampling, captured, auditStore>>

SampleTick(x) ==
  /\ sampling
  /\ samples' = Pushed(samples, x)
  /\ UNCHANGED <<logRing, sampling, captured, auditStore>>

AuditLog(e) ==
  /\ auditSeq < MaxSeq
  /\ auditSeq' = auditSeq + 1
  /\ LET stored == [seq |-> auditSeq, entry |-> e] IN
     IF e.failed
     THEN failedLogins' = LastN(Append(failedLogins, stored), MaxFailedLogins) /\ UNCHANGED entries
     ELSE entries' = LastN(Append(entries, stored), MaxAuditEntries) /\ UNCHANGED failedLogins
  /\ UNCHANGED rings

AuditPrune(before) ==
  /\ entries' = Since(entries, before)
  /\ failedLogins' = Since(failedLogins, before)
  /\ UNCHANGED <<auditSeq, rings>>

\* DELETE: the log is cleared, and the clearing recorded next.
AuditClear ==
  /\ entries' = <<>> /\ failedLogins' = <<>>
  /\ UNCHANGED <<auditSeq, rings>>

HistoriesNext ==
  \/ \E x \in Lines : Build(x) \/ LogLine(x) \/ SampleTick(x)
  \/ Dispose
  \/ \E e \in AuditEntries : AuditLog(e)
  \/ \E t \in AuditTimes : AuditPrune(t)
  \/ AuditClear

HistoriesSpec == HistoriesInit /\ [][HistoriesNext]_historyVars

-----------------------------------------------------------------------------
(* Properties *)

OneKind(x) == "any"
NoTime(x) == 0

LogHistory == INSTANCE Recent WITH
  log <- GetAll(logRing), Entries <- Lines, KindOf <- OneKind, Cap <- LAMBDA k : LogCapacity,
  TimeOf <- NoTime, Times <- {}, Firsts <- {}

SampleHistory == INSTANCE Recent WITH
  log <- History(samples), Entries <- Lines, KindOf <- OneKind, Cap <- LAMBDA k : SampleCapacity,
  TimeOf <- NoTime, Times <- {}, Firsts <- Lines

AuditHistory == INSTANCE Recent WITH
  log <- AuditEntriesKept, Entries <- AuditEntries, KindOf <- LAMBDA e : e.failed,
  Cap <- LAMBDA failed : IF failed THEN MaxFailedLogins ELSE MaxAuditEntries,
  TimeOf <- LAMBDA e : e.at, Times <- AuditTimes, Firsts <- {}

(* The two rings, read by their own readers (getAll; history), always hold the
   latest entries in the order they came, before and after they wrap. *)
RingsAreRecent == LogHistory!RecentSpec /\ SampleHistory!RecentSpec

(* The audit log, read over its two lists, is one history in recording order of
   which a flood of failed sign-ins evicts nothing but failed sign-ins
   (in-memory-audit-store.ts). *)
AuditIsRecent == AuditHistory!RecentSpec

(* Each history kept in memory is Recent: its latest entries, in order. *)
HistoriesAreRecent == RingsAreRecent /\ AuditIsRecent
=============================================================================
