------------------------------ MODULE TreeOps ------------------------------
(***************************************************************************)
(* The operations of the file storage providers that keep a tree: the      *)
(* in-memory provider, and the JSON file provider, whose code is the same  *)
(* but for the save (FileStores).  A path is the sequence of its names,    *)
(* which is what normalizePath and split('/') leave of it; a tree is a     *)
(* function from the paths that exist to Dir or to a file's content.       *)
(*                                                                         *)
(* The root has no name, and getParentAndName answers '' for it with the   *)
(* root as parent: an entry put or deleted AT the root is the root's child *)
(* with the empty name, Unnamed here, which no path of a caller reaches.   *)
(***************************************************************************)
EXTENDS Integers, Sequences

CONSTANTS Names,    \* what an entry can be called
          Contents, \* what a file can hold
          MaxDepth, \* the longest path of a request
          Unnamed,  \* the empty name
          Dir       \* what a directory holds

ASSUME NamesAssumption == Unnamed \notin Names
ASSUME ContentsAssumption == Dir \notin Contents
ASSUME DepthAssumption == MaxDepth \in Nat

Root == << >>

Paths == UNION {[1..n -> Names] : n \in 0..MaxDepth}

\* The paths an entry can have: those of the requests, below them, and the
\* ones of entries put at the root.
Places == Seq(Names \cup {Unnamed})

Parent(p) == SubSeq(p, 1, Len(p) - 1)

\* Where an entry for path p is put in, or deleted from, its parent.
Slot(p) == IF p = Root THEN <<Unnamed>> ELSE p

AtOrUnder(p, q) == Len(p) <= Len(q) /\ \A i \in 1..Len(p) : q[i] = p[i]

\* The path of q, which is at or under s, once s is called d.
Rebase(s, d, q) == d \o SubSeq(q, Len(s) + 1, Len(q))

----------------------------------------------------------------------------
EmptyTree == [p \in {Root} |-> Dir]

IsDir(t, p)  == p \in DOMAIN t /\ t[p] = Dir
IsFile(t, p) == p \in DOMAIN t /\ t[p] # Dir

\* t with u in place of what both have.
Overlay(t, u) == [p \in DOMAIN t \cup DOMAIN u |->
                     IF p \in DOMAIN u THEN u[p] ELSE t[p]]

Put(t, p, v) == Overlay(t, [q \in {p} |-> v])

Subtree(t, p) == {q \in DOMAIN t : AtOrUnder(p, q)}

(* Mutant: only the entry itself is deleted. *)
PruneOne(t, p) == [q \in DOMAIN t \ {p} |-> t[q]]

\* t without what is at and under p.
Prune(t, p) == [q \in DOMAIN t \ Subtree(t, p) |-> t[q]]

(* Mutant: a clone that stops at the entry itself. *)
ClonedShallow(t, s, d) == [q \in {d} |-> t[s]]

\* What is at and under s, cloned to d.
Cloned(t, s, d) == [q \in {Rebase(s, d, x) : x \in Subtree(t, s)} |->
                       t[Rebase(d, s, q)]]

----------------------------------------------------------------------------
(***************************************************************************)
(* An operation's outcome: its answer, "ok" or the error it throws, and    *)
(* the tree it leaves.                                                     *)
(***************************************************************************)
Done(t)       == [answer |-> "ok", tree |-> t]
Refused(e, t) == [answer |-> e, tree |-> t]

WriteFile(t, p, content) ==
    CASE Parent(p) \notin DOMAIN t -> Refused("FileNotFound", t)
      [] IsFile(t, Parent(p))      -> Refused("NotADirectory", t)
      [] IsDir(t, Parent(p)) /\ IsDir(t, Slot(p)) -> Refused("IsADirectory", t)
      [] OTHER                     -> Done(Put(t, Slot(p), content))

Mkdir(t, p) ==
    CASE Parent(p) \notin DOMAIN t -> Refused("FileNotFound", t)
      [] IsFile(t, Parent(p))      -> Refused("NotADirectory", t)
      [] IsDir(t, Parent(p)) /\ Slot(p) \in DOMAIN t -> Refused("FileExists", t)
      [] OTHER                     -> Done(Put(t, Slot(p), Dir))

\* The directories on the way to p, p included.
Chain(p) == {SubSeq(p, 1, n) : n \in 0..Len(p)}

\* mkdir with recursive: the walk meets a file before it creates anything.
MkdirAll(t, p) ==
    IF \E q \in Chain(p) : IsFile(t, q)
    THEN Refused("FileExists", t)
    ELSE Done(Overlay(t, [q \in Chain(p) |-> Dir]))

Remove(t, p, recursive) ==
    CASE p \notin DOMAIN t            -> Refused("FileNotFound", t)
      [] IsDir(t, p) /\ ~recursive    -> Refused("IsADirectory", t)
      [] OTHER                        -> Done(Prune(t, Slot(p)))

\* copy looks at the source and at the destination's parent, clones, and
\* replaces whatever is at the destination.
Copy(t, s, d) ==
    CASE s \notin DOMAIN t -> Refused("FileNotFound", t)
      [] s \in DOMAIN t /\ Parent(d) \notin DOMAIN t -> Refused("FileNotFound", t)
      [] s \in DOMAIN t /\ IsFile(t, Parent(d))      -> Refused("NotADirectory", t)
      [] OTHER -> Done(Overlay(Prune(t, Slot(d)), Cloned(t, s, Slot(d))))

\* move is a copy and then a removal, which may find nothing left to remove.
Move(t, s, d) ==
    LET copied == Copy(t, s, d) IN
    IF copied.answer = "ok" THEN Remove(copied.tree, s, TRUE) ELSE copied

----------------------------------------------------------------------------
\* The calls of IFileStorageProvider that change something; uploadFile is
\* writeFile in these providers.
Requests ==
    [op : {"writeFile"}, path : Paths, content : Contents]
      \cup [op : {"mkdir", "remove"}, path : Paths, recursive : BOOLEAN]
      \cup [op : {"copy", "move"}, path : Paths, dest : Paths]

NoRequest == [op |-> "none"]

Apply(t, r) ==
    CASE r.op = "writeFile" -> WriteFile(t, r.path, r.content)
      [] r.op = "mkdir"     -> IF r.recursive THEN MkdirAll(t, r.path)
                                              ELSE Mkdir(t, r.path)
      [] r.op = "remove"    -> Remove(t, r.path, r.recursive)
      [] r.op = "copy"      -> Copy(t, r.path, r.dest)
      [] r.op = "move"      -> Move(t, r.path, r.dest)

\* list: the names and types of the entries whose parent is p.
List(t, p) == {<<q[Len(q)], t[q] = Dir>> :
                  q \in {x \in DOMAIN t : x # Root /\ Parent(x) = p}}

\* What makes a function from paths a tree: everything is in a directory.
WellFormed(t) ==
    /\ IsDir(t, Root)
    /\ \A p \in DOMAIN t \ {Root} : IsDir(t, Parent(p))

IsTree(t) ==
    /\ DOMAIN t \subseteq Places
    /\ t \in [DOMAIN t -> Contents \cup {Dir}]
=============================================================================
