----------------------------- MODULE FileStores -----------------------------
(***************************************************************************)
(* A server with one file storage provider: the tree in memory, the tree   *)
(* that is saved to a JSON file after every change, or the rows of SQLite. *)
(* A provider's operation runs to its end between two events of the loop;  *)
(* a process that dies in an operation of the JSON provider can leave the  *)
(* file as any of its saves found it, made it, or half written.            *)
(***************************************************************************)
EXTENDS SqliteRows

CONSTANTS Providers,  \* the providers a server is checked with
          MaxEntries  \* a bound on the entries of each provider's tree

ASSUME ProvidersAssumption == Providers \subseteq {"in-memory", "json-file", "sqlite"}

VARIABLES provider,  \* IFileStorageProvider.name
          root,      \* root of the in-memory and JSON providers
          file,      \* the tree filePath holds, or none: it is missing or torn
          rows,      \* the files table
          unsaved,   \* a save failed and none has succeeded since
          request,   \* what the provider is asked, and has yet to answer
          answer     \* what SQLite's last request was answered; the trees' are Apply's

vars == <<provider, root, file, rows, unsaved, request, answer>>

\* load(): a file that is not there or that does not parse is a fresh tree.
Load == IF file = {} THEN EmptyTree ELSE CHOOSE t \in file : TRUE

Init ==
    /\ provider \in Providers
    /\ root = EmptyTree
    /\ file = {}
    /\ rows = RootOnly
    /\ unsaved = FALSE
    /\ request = NoRequest
    /\ answer = "ok"

\* A request that the bounds or Careful leave out stays unanswered, and is the last.
Ask ==
    /\ request = NoRequest /\ request' \in Requests
    /\ UNCHANGED <<provider, root, file, rows, unsaved, answer>>

\* The bounds: what is explored is kept small.
Fits(t) == /\ Cardinality(DOMAIN t) <= MaxEntries[provider]
           /\ \A p \in DOMAIN t : Len(p) <= MaxDepth

----------------------------------------------------------------------------
(***************************************************************************)
(* The requests on which the rows are compared with the tree.  Outside of  *)
(* them SQLite differs: at the root, which is a row like any other; when   *)
(* source and destination are the same or one is under the other, where    *)
(* the destination is cleared before the source is read; and where a name  *)
(* of the request matches another name of the table.                       *)
(***************************************************************************)
Apart(p, q) == ~AtOrUnder(p, q) /\ ~AtOrUnder(q, p)

LikeIsUnder(t, p) == \A q \in DOMAIN t : LikeUnder(p, q) => AtOrUnder(p, q)

Careful(r) ==
    /\ r.path # Root
    /\ r.op \in {"remove", "copy", "move"} => LikeIsUnder(rows, r.path)
    /\ r.op \in {"copy", "move"} =>
          /\ Apart(r.path, r.dest) /\ ~LikeUnder(r.path, r.dest)
          /\ LikeIsUnder(rows, r.dest)

ServeMemory(r) ==
    /\ provider = "in-memory"
    /\ Fits(Apply(root, r).tree)
    /\ root' = Apply(root, r).tree
    /\ UNCHANGED <<provider, file, rows, unsaved, answer>>

ServeSqlite(r) ==
    /\ provider = "sqlite"
    /\ Careful(r)
    /\ Fits(RowApply(rows, r).tree)
    /\ rows' = RowApply(rows, r).tree
    /\ answer' = RowApply(rows, r).answer
    /\ UNCHANGED <<provider, root, file, unsaved>>

----------------------------------------------------------------------------
(* Mutant: a removal is not saved. *)
SavesNoRemoval(t, r) ==
    IF r.op # "remove" /\ Apply(t, r).answer = "ok" THEN <<Apply(t, r).tree>> ELSE << >>

(***************************************************************************)
(* The JSON provider: the trees an operation saves, in order.  A refused   *)
(* operation saves nothing; a move saves its copy, then its removal.       *)
(***************************************************************************)
Saves(t, r) ==
    (IF r.op = "move" /\ Copy(t, r.path, r.dest).answer = "ok"
     THEN <<Copy(t, r.path, r.dest).tree>> ELSE << >>)
    \o
    (IF Apply(t, r).answer = "ok" THEN <<Apply(t, r).tree>> ELSE << >>)

ServeJson(r) ==
    /\ provider = "json-file"
    /\ Fits(Apply(root, r).tree)
    /\ root' = Apply(root, r).tree
    /\ LET saves == Saves(root, r) IN
       IF saves = << >> THEN UNCHANGED <<file, unsaved>>
       ELSE file' = {saves[Len(saves)]} /\ unsaved' = FALSE
    /\ UNCHANGED <<provider, rows, answer>>

\* What the file can hold when the k-th save of an operation did not end.
Interrupted(r, k) ==
    {{}, IF k = 1 THEN file ELSE {Saves(root, r)[k - 1]}}

\* writeFileSync throws: the request fails, and the tree stays changed.
SaveFails(r) ==
    /\ provider = "json-file"
    /\ \E k \in 1..Len(Saves(root, r)) :
          /\ Fits(Saves(root, r)[k])
          /\ root' = Saves(root, r)[k]
          /\ file' \in Interrupted(r, k) /\ Fits(Load')
    /\ unsaved' = TRUE
    /\ UNCHANGED <<provider, rows, answer>>

----------------------------------------------------------------------------
(***************************************************************************)
(* The process ends and a new one constructs its provider: load() reads    *)
(* the file, ensureRoot inserts the root's row only if it is missing, and  *)
(* the in-memory provider begins anew.  A process that ends before it has  *)
(* served a request ends as if it had not been asked.                      *)
(***************************************************************************)
EnsureRoot == IF Root \in DOMAIN rows THEN rows ELSE Overlay(rows, RootOnly)

Restart ==
    /\ request = NoRequest
    /\ root' = IF provider = "json-file" THEN Load ELSE EmptyTree
    /\ rows' = EnsureRoot
    /\ unsaved' = FALSE
    /\ UNCHANGED <<provider, file, request, answer>>

\* The process ends in a save, before, in or after its write.
DiesSaving(r) ==
    /\ provider = "json-file"
    /\ \E k \in 1..Len(Saves(root, r)) :
          /\ Fits(Saves(root, r)[k])
          /\ file' \in Interrupted(r, k) \cup {{Saves(root, r)[k]}} /\ Fits(Load')
    /\ root' = Load'
    /\ unsaved' = FALSE
    /\ UNCHANGED <<provider, rows, answer>>

Serves(r) ==
    ServeMemory(r) \/ ServeSqlite(r) \/ ServeJson(r) \/ SaveFails(r) \/ DiesSaving(r)

Next ==
    \/ Ask
    \/ request \in Requests /\ request' = NoRequest /\ Serves(request)
    \/ Restart

Spec == Init /\ [][Next]_vars

----------------------------------------------------------------------------
\* The types of the state.  The answers leave out Constraint: the statements
\* of a copy or a move, in a transaction with unique paths, never collide.
TypeOK ==
    /\ provider \in Providers
    /\ IsTree(root)
    /\ IsTree(Load) /\ file \in {{}, {Load}}
    /\ unsaved \in BOOLEAN
    /\ request \in Requests \cup {NoRequest}
    /\ answer \in {"ok", "FileNotFound", "FileExists", "NotADirectory", "IsADirectory"}

\* Whatever is written, created, removed, copied or moved, onto, into or out
\* of whatever, at the root too: every entry of the tree, and of the tree a
\* restart would read, is in a directory, so list and resolve reach it.
TreesWellFormed ==
    /\ WellFormed(root)
    /\ WellFormed(Load)

\* The file follows the tree: unless a save has failed since, a restart finds
\* the tree that requests were answered from, whichever operation ran last.
\* ("flushed to disk after every mutation", the JSON provider's class comment)
FileFollowsTree == provider = "json-file" /\ ~unsaved => Load = root

\* The rows agree with themselves: list, which selects by parent_path and
\* answers name, finds just the entries that stat and readFile find by path.
RowsListed ==
    provider = "sqlite" =>
        \A p \in DOMAIN rows : RowList(rows, p) = List(AsTree(rows), p)

\* A move of something to a place apart from it loses nothing, even if it is
\* cut short after any of its saves: each saved tree has all of the source's
\* entries at the source or at the destination, and what is elsewhere stays.
MoveLosesNothing ==
    \A s \in (Paths \ {Root}) \cap DOMAIN root, d \in Paths \ {Root} :
        LET saves == Saves(root, [op |-> "move", path |-> s, dest |-> d]) IN
        Apart(s, d) =>
            \A k \in 1..Len(saves) :
                LET t == saves[k] IN
                /\ \E p \in {s, d} : \A x \in Subtree(root, s) :
                      Rebase(s, p, x) \in DOMAIN t /\ t[Rebase(s, p, x)] = root[x]
                /\ \A x \in DOMAIN root :
                      ~AtOrUnder(s, x) /\ ~AtOrUnder(d, x) => x \in DOMAIN t /\ t[x] = root[x]

\* SQLite's rows implement the tree: the request that is asked has the answer
\* and the effect that same request has on the tree of the in-memory provider,
\* but for the error of a recursive mkdir onto a file, which FileTree leaves open.
Tree == INSTANCE FileTree WITH
    tree    <- IF provider = "sqlite" THEN AsTree(rows) ELSE EmptyTree,
    request <- IF provider = "sqlite" THEN request ELSE NoRequest,
    answer  <- IF provider # "sqlite" THEN "ok" ELSE answer

SqliteImplementsTree == []RowsListed /\ Tree!Spec
=============================================================================
