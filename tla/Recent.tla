------------------------------- MODULE Recent -------------------------------
(***************************************************************************)
(* What a bounded history promises: entries in the order they were         *)
(* recorded, and of every kind the latest Cap(kind); recording one evicts  *)
(* at most the oldest of its own kind.  It may be emptied, and where it is *)
(* made anew it may begin with one of Firsts.                              *)
(***************************************************************************)
EXTENDS Subsequences

CONSTANTS Entries, KindOf(_), Cap(_), TimeOf(_), Times, Firsts
VARIABLE log

\* Fewer than Cap of the later entries are of the kind of the i-th.
Fresh(s, i) ==
  Cardinality({j \in DOMAIN s : j > i /\ KindOf(s[j]) = KindOf(s[i])}) < Cap(KindOf(s[i]))

Latest(s) == Picked(s, {i \in DOMAIN s : Fresh(s, i)})

Record(e) == log' = Latest(Append(log, e))
Forget(before) == log' = Picked(log, {i \in DOMAIN log : TimeOf(log[i]) >= before})
Clear == log' = <<>>
Anew(e) == log' = <<e>>

RecentNext ==
  \/ \E e \in Entries : Record(e)
  \/ \E t \in Times : Forget(t)
  \/ \E e \in Firsts : Anew(e)
  \/ Clear
RecentSpec == log = <<>> /\ [][RecentNext]_log
=============================================================================
