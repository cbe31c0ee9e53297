------------------------------ MODULE FileTree ------------------------------
(***************************************************************************)
(* What a file storage provider promises: a tree, asked and changed by one *)
(* request at a time, and the answer to each.  The in-memory provider is   *)
(* this, and loses the tree with its process; FileStores shows that the    *)
(* SQLite provider implements it.                                          *)
(***************************************************************************)
EXTENDS TreeOps

VARIABLES tree,    \* InMemoryFileStorageProvider.root
          request, \* what the provider is asked, and has yet to answer
          answer   \* what the last request was answered

treeVars == <<tree, request, answer>>

Init == tree = EmptyTree /\ request = NoRequest /\ answer = "ok"

Ask ==
    /\ request = NoRequest /\ request' \in Requests
    /\ UNCHANGED <<tree, answer>>

\* A recursive mkdir that meets a file throws FileExists in the in-memory and
\* JSON providers and NotADirectory in SQLite's: a provider may answer either.
Answers(r) ==
    LET thrown == Apply(tree, r).answer IN
    IF r.op = "mkdir" /\ thrown = "FileExists" /\ r.recursive
    THEN {"FileExists", "NotADirectory"} ELSE {thrown}

\* The request asked, and no other, changes the tree and is answered.
Serve ==
    /\ request \in Requests
    /\ tree' = Apply(tree, request).tree
    /\ answer' \in Answers(request)
    /\ request' = NoRequest

Next == Ask \/ Serve

Spec == Init /\ [][Next]_treeVars
=============================================================================
