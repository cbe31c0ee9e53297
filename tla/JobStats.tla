------------------------------ MODULE JobStats ------------------------------
(***************************************************************************)
(* GET /stats of the jobs API: collectRuns reads the executions page by    *)
(* page, newest first, through the storage, and buildJobStats counts them  *)
(* in columns.  A storage that really waits lets runs start, end and be    *)
(* removed between two pages.                                              *)
(***************************************************************************)
EXTENDS Subsequences

CONSTANTS StatsPageSize, \* STATS_PAGE_SIZE
          ColumnCounts,  \* the numbers of columns asked for
          MaxRuns,       \* bound on the runs started
          MaxClock       \* bound on the clock

ASSUME JobStatsAssumption ==
  /\ StatsPageSize \in Nat \ {0} /\ ColumnCounts \subseteq Nat \ {0}
  /\ MaxRuns \in Nat /\ MaxClock \in Nat

VARIABLES execs,   \* the executions kept, in the order they were first saved
          begun,   \* how many runs there have been
          clock,
          reader   \* a request for statistics

statsVars == <<execs, begun, clock, reader>>

Outcome(status) ==
  CASE status = "completed" -> "succeeded" [] status \in {"failed", "timed_out"} -> "failed"
    [] status = "running" -> "running" [] OTHER -> "cancelled"

IdsOf(s) == {s[i].id : i \in DOMAIN s}

StatsInit ==
  /\ execs = <<>> /\ begun = 0 /\ clock = 0
  /\ reader = [stage |-> "none"]

-----------------------------------------------------------------------------
(* The storage *)

\* saveExecution, of a new run and of one that ends: it keeps its place.
RunStarts ==
  /\ begun < MaxRuns
  /\ begun' = begun + 1
  /\ execs' = Append(execs, [id |-> begun + 1, start |-> clock, status |-> "running"])
  /\ UNCHANGED <<clock, reader>>

RunStops(i, status) ==
  /\ execs[i].status = "running"
  /\ execs' = [execs EXCEPT ![i].status = status]
  /\ UNCHANGED <<begun, clock, reader>>

\* What a reader will miss is noted with it.
Removes(dead) ==
  /\ execs' = Picked(execs, {i \in DOMAIN execs : execs[i].id \notin dead})
  /\ reader' = IF reader.stage = "reading" THEN [reader EXCEPT !.lost = @ \cup dead] ELSE reader
  /\ UNCHANGED <<begun, clock>>

\* deleteExecution, of finished runs only (a bulk deletion is several).
DeleteRun(i) == execs[i].status # "running" /\ Removes({execs[i].id})

\* prune removes running ones too.
PruneRuns(before) ==
  LET old == {execs[i].id : i \in {j \in DOMAIN execs : execs[j].start < before}}
  IN old # {} /\ Removes(old)

\* queryExecutions: newest first; of one moment in the order they were saved.
IsBefore(i, j) ==
  execs[i].start > execs[j].start \/ (execs[i].start = execs[j].start /\ i < j)

Recent(since) == {i \in DOMAIN execs : execs[i].start >= since}

Rank(i, since) == Cardinality({j \in Recent(since) : IsBefore(j, i)}) + 1

FoundRuns(since) ==
  [k \in 1..Cardinality(Recent(since)) |-> execs[CHOOSE i \in Recent(since) : Rank(i, since) = k]]

QueryPage(since, offset) ==
  LET found == FoundRuns(since)
      end == IF offset + StatsPageSize < Len(found) THEN offset + StatsPageSize ELSE Len(found)
  IN [items |-> SubSeq(found, offset + 1, end), total |-> Len(found)]

-----------------------------------------------------------------------------
(* The statistics *)

ColumnWidth(q) == LET w == (q.until - q.since) \div q.columns IN IF w = 0 THEN 1 ELSE w

BucketIndex(q, time) ==
  LET i == (time - q.since) \div ColumnWidth(q) IN IF i < q.columns THEN i ELSE q.columns - 1

InRange(q, time) == q.since <= time /\ time < q.until

\* resolveStatsRange: an empty range is refused.  Bound: the range does not end
\* later than now, which is its end unless the query says another.
AskStats(since, until, columns) ==
  /\ reader.stage = "none"
  /\ since < until /\ until <= clock
  /\ reader' = [stage |-> "reading", since |-> since, until |-> until, columns |-> columns,
                offset |-> 0, seen |-> {}, runs |-> <<>>, lost |-> {},
                kept |-> {execs[i].id : i \in {j \in DOMAIN execs : since <= execs[j].start /\ execs[j].start < until}}]
  /\ UNCHANGED <<execs, begun, clock>>

(* Mutant: a run that a new one has pushed to the next page is taken again. *)
UnseenAll(items) == items

Unseen(items) == Picked(items, {k \in DOMAIN items : items[k].id \notin reader.seen})

\* One turn of collectRuns' loop.
ReadPage ==
  /\ reader.stage = "reading"
  /\ LET page == QueryPage(reader.since, reader.offset)
         next == reader.offset + Len(page.items)
         unseen == Unseen(page.items)
         taken == Picked(unseen, {k \in DOMAIN unseen : InRange(reader, unseen[k].start)})
     IN reader' = [reader EXCEPT
          !.offset = next, !.seen = @ \cup IdsOf(page.items), !.runs = @ \o taken,
          !.stage = IF page.items = <<>> \/ next >= page.total THEN "answered" ELSE "reading"]
  /\ UNCHANGED <<execs, begun, clock>>

\* buildJobStats.
Column(q, i, outcome) ==
  Cardinality({k \in DOMAIN q.runs : BucketIndex(q, q.runs[k].start) = i /\ Outcome(q.runs[k].status) = outcome})

ClockTicks ==
  /\ clock < MaxClock
  /\ clock' = clock + 1
  /\ UNCHANGED <<execs, begun, reader>>

StatsNext ==
  \/ RunStarts \/ ReadPage \/ ClockTicks
  \/ \E i \in DOMAIN execs : DeleteRun(i) \/ (\E s \in {"completed", "timed_out"} : RunStops(i, s))
  \/ \E t \in 0 .. MaxClock : PruneRuns(t) \/ (\E u \in 0 .. MaxClock, c \in ColumnCounts : AskStats(t, u, c))

StatsSpec == StatsInit /\ [][StatsNext]_statsVars

-----------------------------------------------------------------------------
(* Properties *)

Outcomes == {"succeeded", "failed", "cancelled", "running"}

\* Where a column begins, and where the next does; the last takes what is left of the range.
Within(q, i, time) ==
  /\ q.since + i * ColumnWidth(q) <= time
  /\ i < q.columns - 1 => time < q.since + (i + 1) * ColumnWidth(q)

(* The answer counts no run twice, although runs that start while the pages are
   read push others from page to page; if none is removed meanwhile it counts
   every run of the range; and each in the one column its start falls into,
   however the range divides by the columns. *)
StatsExact ==
  reader.stage = "answered" =>
    /\ Cardinality(IdsOf(reader.runs)) = Len(reader.runs) /\ IdsOf(reader.runs) \subseteq reader.kept
    /\ reader.lost = {} => reader.kept \subseteq IdsOf(reader.runs)
    /\ \A i \in 0 .. reader.columns - 1, o \in Outcomes :
         Column(reader, i, o) =
           Cardinality({k \in DOMAIN reader.runs : Within(reader, i, reader.runs[k].start) /\ Outcome(reader.runs[k].status) = o})
=============================================================================
