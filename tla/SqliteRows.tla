----------------------------- MODULE SqliteRows -----------------------------
(***************************************************************************)
(* The operations of the SQLite provider on its table: a row has a path,   *)
(* the table's unique key, and the kind (Dir, or the content of a file),   *)
(* the name and the parent_path that list selects by.  Each operation      *)
(* finds what is under a path with LIKE, in which a name with a wildcard   *)
(* matches others, and letters match without regard to case.               *)
(***************************************************************************)
EXTENDS TreeOps, FiniteSets

CONSTANT Like   \* the pairs of a name in a pattern and a name it matches

ASSUME LikeAssumption == \A n \in Names : <<n, n>> \in Like

Name(p) == IF p = Root THEN Unnamed ELSE p[Len(p)]

Row(p, kind) == [kind |-> kind, name |-> Name(p), parent |-> Parent(p)]

\* ensureRoot; the root's parent_path is NULL, which no path is.
RootOnly == [p \in {Root} |-> [kind |-> Dir, name |-> Unnamed, parent |-> <<Unnamed>>]]

AsTree(rows) == [p \in DOMAIN rows |-> rows[p].kind]

IsDirRow(rows, p)  == p \in DOMAIN rows /\ rows[p].kind = Dir
IsFileRow(rows, p) == p \in DOMAIN rows /\ rows[p].kind # Dir

\* path LIKE p || '/%'; for the root the pattern is '//%', which no path has.
LikeUnder(p, q) ==
    /\ p # Root
    /\ Len(p) < Len(q)
    /\ \A i \in 1..Len(p) : <<p[i], q[i]>> \in Like

\* DELETE FROM files WHERE path = ? OR path LIKE ? || '/%'
Deleted(rows, p) ==
    [q \in {x \in DOMAIN rows : x # p /\ ~LikeUnder(p, x)} |-> rows[q]]

RowsUnder(rows, p) == {q \in DOMAIN rows : LikeUnder(p, q)}

RowWriteFile(rows, p, content) ==
    CASE Parent(p) \notin DOMAIN rows -> Refused("FileNotFound", rows)
      [] IsFileRow(rows, Parent(p))   -> Refused("NotADirectory", rows)
      [] IsDirRow(rows, Parent(p)) /\ IsDirRow(rows, p)  -> Refused("IsADirectory", rows)
      [] IsDirRow(rows, Parent(p)) /\ IsFileRow(rows, p) ->
            Done([rows EXCEPT ![p].kind = content])
      [] OTHER -> Done(Put(rows, p, Row(p, content)))

RowMkdir(rows, p) ==
    CASE Parent(p) \notin DOMAIN rows -> Refused("FileNotFound", rows)
      [] IsFileRow(rows, Parent(p))   -> Refused("NotADirectory", rows)
      [] IsDirRow(rows, Parent(p)) /\ p \in DOMAIN rows -> Refused("FileExists", rows)
      [] OTHER -> Done(Put(rows, p, Row(p, Dir)))

\* A file on the way is answered NotADirectory here; the tree says FileExists.
RowMkdirAll(rows, p) ==
    IF \E q \in Chain(p) \ {Root} : IsFileRow(rows, q)
    THEN Refused("NotADirectory", rows)
    ELSE Done(Overlay([q \in Chain(p) \ {Root} |-> Row(q, Dir)], rows))

RowRemove(rows, p, recursive) ==
    CASE p \notin DOMAIN rows              -> Refused("FileNotFound", rows)
      [] IsDirRow(rows, p) /\ ~recursive   -> Refused("IsADirectory", rows)
      [] p \in DOMAIN rows /\ recursive    -> Done(Deleted(rows, p))
      [] OTHER -> Done([q \in DOMAIN rows \ {p} |-> rows[q]])

\* The checks copy and move make before their transactions.
TransferProblem(rows, s, d) ==
    CASE s \notin DOMAIN rows -> "FileNotFound"
      [] s \in DOMAIN rows /\ Parent(d) \notin DOMAIN rows -> "FileNotFound"
      [] s \in DOMAIN rows /\ IsFileRow(rows, Parent(d))   -> "NotADirectory"
      [] OTHER -> "ok"

\* The rows of qs under their paths below d instead of s, their names kept.
Rebased(rows, qs, s, d) ==
    [n \in {Rebase(s, d, q) : q \in qs} |->
        [rows[CHOOSE q \in qs : Rebase(s, d, q) = n] EXCEPT !.parent = Parent(n)]]

\* Paths are unique: a row too many for one rolls the transaction back.
Clash(rows, qs, s, d, taken) ==
    LET new == {Rebase(s, d, q) : q \in qs} IN
    Cardinality(new) < Cardinality(qs) \/ new \cap taken # {}

\* The destination is cleared, the source's row copied to it, and then
\* the rows under the source: those that are there by then.
RowCopy(rows, s, d) ==
    LET problem == TransferProblem(rows, s, d)
        placed  == Put(Deleted(rows, d), d, Row(d, rows[s].kind))
        below   == IF rows[s].kind = Dir THEN RowsUnder(placed, s) ELSE {}
    IN  CASE problem # "ok" -> Refused(problem, rows)
          [] problem = "ok" /\ Clash(placed, below, s, d, DOMAIN placed) ->
                Refused("Constraint", rows)
          [] OTHER -> Done(Overlay(placed, Rebased(placed, below, s, d)))

(* Mutant: the source of a move stays. *)
RowMoveCopies(rows, s, d) == RowCopy(rows, s, d)

\* The row of s takes d's path, if clearing d has left it, then those below.
RowMove(rows, s, d) ==
    LET problem == TransferProblem(rows, s, d)
        cleared == Deleted(rows, d)
        moved   == IF s \notin DOMAIN cleared THEN cleared
                   ELSE Put([q \in DOMAIN cleared \ {s} |-> cleared[q]],
                            d, Row(d, cleared[s].kind))
        below   == IF rows[s].kind = Dir THEN RowsUnder(moved, s) ELSE {}
        rest    == [q \in DOMAIN moved \ below |-> moved[q]]
    IN  CASE problem # "ok" -> Refused(problem, rows)
          [] problem = "ok" /\ Clash(moved, below, s, d, DOMAIN rest) ->
                Refused("Constraint", rows)
          [] OTHER -> Done(Overlay(rest, Rebased(moved, below, s, d)))

RowApply(rows, r) ==
    CASE r.op = "writeFile" -> RowWriteFile(rows, r.path, r.content)
      [] r.op = "mkdir"     -> IF r.recursive THEN RowMkdirAll(rows, r.path)
                                              ELSE RowMkdir(rows, r.path)
      [] r.op = "remove"    -> RowRemove(rows, r.path, r.recursive)
      [] r.op = "copy"      -> RowCopy(rows, r.path, r.dest)
      [] r.op = "move"      -> RowMove(rows, r.path, r.dest)

\* list: SELECT name, type FROM files WHERE parent_path = ?
RowList(rows, p) == {<<rows[q].name, rows[q].kind = Dir>> :
                        q \in {x \in DOMAIN rows : rows[x].parent = p}}
=============================================================================
