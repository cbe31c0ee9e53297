----------------------------- MODULE MCStorage ------------------------------
(* The file stores, the data explorer and what the server keeps of the past,
   for TLC.  The modules share no state: a behaviour is one of a single part,
   and the others stand still in one of their initial states. *)
EXTENDS FileStores, S3Keys, Explorer, Histories
CONSTANTS a, b, d1, d2, c1, c2, sq, pg, my, ms1, ms2, mo, re, es

VARIABLE part

(* FileStores *)

\* Names without wildcards that differ in more than the case of their letters.
MCLike == {<<a, a>>, <<b, b>>}

\* The JSON provider's trees come in pairs, in memory and on disk.
MCMaxEntries == [p \in Providers |->
  CASE p = "json-file" -> 3 [] p = "in-memory" -> 4 [] p = "sqlite" -> 5]

\* Bounds: these files hold one content; of the JSON provider's copies and moves
\* from nowhere, those from one place.
OneContent == request'.op = "writeFile" => request'.content = d1
FewFromNowhere ==
  provider = "json-file" /\ request'.op \in {"copy", "move"} =>
    request'.path \in DOMAIN root \cup {<<a>>}

(* S3Keys *)

MCNameOrder == [n \in {a, b, Unnamed} |-> CASE n = Unnamed -> 0 [] n = a -> 1 [] n = b -> 2]

\* A directory of two pages with its marker and one without, a file, nothing.
MCFirstKeys ==
  LET Key(k, v) == [x \in {k} |-> v] IN
  {Overlay(Key(<<a, Unnamed>>, Dir), Overlay(Key(<<a, a>>, d1), Key(<<a, b>>, d2))),
   Overlay(Key(<<a, b>>, d1), Key(<<b, Unnamed>>, Dir)),
   Key(<<a>>, d1),
   Key(<<a, Unnamed>>, Dir)}

\* One caller carries or removes the directory, the other interferes.
MCAsks == [c \in {c1, c2} |->
  IF c = c1
  THEN [op : {"copy", "move"}, path : {<<a>>}, slash : {FALSE}, dest : {<<b>>, <<a, b>>}, destSlash : {FALSE}]
         \cup [op : {"move"}, path : {<<a>>}, slash : {TRUE}, dest : {<<b>>}, destSlash : BOOLEAN]
         \cup [op : {"copy"}, path : {<<a>>}, slash : {TRUE}, dest : {<<b>>}, destSlash : {FALSE}]
         \cup [op : {"remove"}, path : {<<a>>}, slash : BOOLEAN, recursive : BOOLEAN]
  ELSE LET noSlash == {FALSE} IN
       [op : {"writeFile"}, path : {<<a>>, <<a, b>>}, slash : noSlash, content : {d1}]
         \cup [op : {"writeFile"}, path : {<<a>>}, slash : {TRUE}, content : {d1}]
         \cup [op : {"mkdir"}, path : {<<a>>}, slash : noSlash]
         \cup [op : {"remove"}, path : {<<a, b>>}, slash : noSlash, recursive : {FALSE}]
         \cup [op : {"remove"}, path : {<<b>>}, slash : noSlash, recursive : {TRUE}]
         \cup [op : {"move"}, path : {<<a, b>>}, slash : noSlash, dest : {<<a, a>>}, destSlash : noSlash]
         \cup [op : {"move"}, path : {<<b>>}, slash : noSlash, dest : {<<a>>}, destSlash : noSlash]]

(* Explorer *)

MCProvider == [s \in Sources |->
  CASE s = sq -> "sqlite" [] s = pg -> "postgres" [] s = my -> "mysql" [] s \in {ms1, ms2} -> "mssql"
    [] s = mo -> "mongo" [] s = re -> "redis" [] s = es -> "elastic"]
MCMaxRows == [s \in Sources |-> IF s \in {ms1, pg, mo} THEN 1 ELSE 0]

MCInit ==
  /\ part \in {"files", "s3", "explorer", "rings", "audit"}
  /\ part # "files" => provider = "in-memory"
  /\ part # "s3" => bucket = CHOOSE keys \in FirstKeys : TRUE
  /\ Init /\ S3Init /\ ExplorerInit /\ HistoriesInit

MCNext ==
  \/ /\ part = "files" /\ Next /\ OneContent /\ FewFromNowhere
     /\ UNCHANGED <<part, s3vars, explorerVars, historyVars>>
  \/ /\ part = "s3" /\ S3Next
     /\ UNCHANGED <<part, vars, explorerVars, historyVars>>
  \/ /\ part = "explorer" /\ ExplorerNext
     /\ UNCHANGED <<part, vars, s3vars, historyVars>>
  \* Bound: the rings, or the audit log.
  \/ /\ part = "rings" /\ HistoriesNext /\ UNCHANGED auditSeq
     /\ UNCHANGED <<part, vars, s3vars, explorerVars>>
  \/ /\ part = "audit" /\ HistoriesNext /\ UNCHANGED rings
     /\ UNCHANGED <<part, vars, s3vars, explorerVars>>

MCSpec == MCInit /\ [][MCNext]_<<part, vars, s3vars, explorerVars, historyVars>>
=============================================================================
