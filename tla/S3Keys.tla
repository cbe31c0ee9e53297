------------------------------- MODULE S3Keys -------------------------------
(***************************************************************************)
(* The S3 provider: a bucket of keys, and requests that are sequences of   *)
(* calls of the service, each of which sees what other requests have done  *)
(* since the one before.  A key is the sequence of its names; that of a    *)
(* directory's marker ends in "/", so in the empty name.  A prefix is      *)
(* listed a page of keys at a time, in the order of the keys; the token of *)
(* a page is its last key, and there is none when the page is the last.    *)
(* A request may write a path with a slash at its end: it is the same      *)
(* prefix, and another key.                                                *)
(***************************************************************************)
EXTENDS TreeOps, FiniteSets

CONSTANTS Callers,    \* requests in flight
          Asks,       \* what each of them may ask for
          PageSize,   \* the keys on a page of ListObjectsV2
          NameOrder,  \* where a name stands in the order of keys
          FirstKeys,  \* the buckets a run begins with
          MaxKeyLen,  \* the longest key the service takes
          MaxFails    \* a bound on the calls that fail

S3Requests ==
    LET path == Paths \ {Root} IN
    [op : {"writeFile"}, path : path, slash : BOOLEAN, content : Contents]
      \cup [op : {"mkdir"}, path : path, slash : BOOLEAN]
      \cup [op : {"remove"}, path : path, slash : BOOLEAN, recursive : BOOLEAN]
      \cup [op : {"copy", "move"}, path : path, slash : BOOLEAN, dest : path, destSlash : BOOLEAN]

ASSUME S3Assumption ==
    /\ \A c \in Callers : Asks[c] \subseteq S3Requests
    /\ PageSize \in Nat \ {0} /\ MaxKeyLen \in Nat /\ MaxFails \in Nat
    /\ NameOrder \in [Names \cup {Unnamed} -> Nat]
    /\ \A m, n \in Names \cup {Unnamed} : NameOrder[m] = NameOrder[n] => m = n
    /\ \A first \in FirstKeys : IsFiniteSet(DOMAIN first) /\ DOMAIN first \subseteq Places

Idle   == "idle"
Calls  == {"put", "head", "copyFile", "listCopy", "copyKey", "check", "deleteMarker",
           "deleteFile", "listDelete", "deletePage", "deleteKey"}
Closed == {"ok", "IsADirectory", "FileNotFound", "failed"}

VARIABLES bucket,  \* key -> content; a marker's is Dir
          req,     \* what each caller asked for
          at,      \* the call it makes next, or how it was answered
          page,    \* the keys of the last page that it has yet to copy or delete
          token,   \* continuationToken
          copied,  \* copy's local of that name
          fails,   \* calls that failed, whole or in part
          before,  \* history: the bucket when the request began
          touched  \* history: the keys that other requests have changed since

s3vars == <<bucket, req, at, page, token, copied, fails, before, touched>>

----------------------------------------------------------------------------
Marker(p) == Append(p, Unnamed)

\* toKey leaves the slash that a path ends in.
ToKey(p, slash) == IF slash THEN Marker(p) ELSE p

SourceKey(c) == ToKey(req[c].path, req[c].slash)
DestKey(c)   == ToKey(req[c].dest, req[c].destSlash)

\* The keys under the prefix toDirKey(p), the marker among them.
KeysUnder(b, p) == {k \in DOMAIN b : Len(k) > Len(p) /\ AtOrUnder(p, k)}

KeyBefore(j, k) ==
    \E i \in 1..Len(k) :
        /\ i <= Len(j) + 1 /\ \A n \in 1..(i - 1) : j[n] = k[n]
        /\ i <= Len(j) => NameOrder[j[i]] < NameOrder[k[i]]

LastOf(keys)  == CHOOSE k \in keys : \A j \in keys \ {k} : KeyBefore(j, k)
FirstOf(keys) == CHOOSE k \in keys : \A j \in keys \ {k} : KeyBefore(k, j)

\* What ListObjectsV2 has left after the token, and the page it answers.
LeftAfter(p, from) == {k \in KeysUnder(bucket, p) : KeyBefore(from, k)}
PageOf(left) == {k \in left : Cardinality({j \in left : KeyBefore(j, k)}) < PageSize}

\* stat of a path without a slash at its end: a file first, then a marker, or
\* anything under the path.
Stat(b, p) ==
    IF p \in DOMAIN b THEN "file"
    ELSE IF Marker(p) \in DOMAIN b \/ KeysUnder(b, p) # {} THEN "directory" ELSE "none"

Exists(b, p) == p \in DOMAIN b \/ KeysUnder(b, p) # {}

\* The keys one name below and the common prefixes, the marker among them: what
\* a listing with a delimiter counts.  "x" comes before "x/".
Entries(b, p) == {<<k[Len(p) + 1], Len(k) > Len(p) + 1>> : k \in KeysUnder(b, p)}

EntryBefore(e, f) ==
    NameOrder[e[1]] < NameOrder[f[1]] \/ (e[1] = f[1] /\ ~e[2] /\ f[2])

\* list: the first page of them only, the marker left out.
ListS3(b, p) ==
    {e \in Entries(b, p) : Cardinality({f \in Entries(b, p) : EntryBefore(f, e)}) < PageSize}
        \ {<<Unnamed, FALSE>>}

----------------------------------------------------------------------------
S3Init ==
    /\ bucket \in FirstKeys
    /\ req = [c \in Callers |-> [op |-> "none"]] /\ at = [c \in Callers |-> Idle]
    /\ page = [c \in Callers |-> {}] /\ token = [c \in Callers |-> << >>]
    /\ copied = [c \in Callers |-> FALSE] /\ fails = 0
    /\ before = [c \in Callers |-> bucket] /\ touched = [c \in Callers |-> {}]

FirstCall(r) ==
    CASE r.op \in {"writeFile", "mkdir"}   -> "put"
      [] r.op = "remove" /\ r.recursive    -> "listDelete"
      [] r.op = "remove" /\ ~r.recursive   -> "check"
      [] r.op \in {"copy", "move"}         -> "head"

Begin(c) ==
    /\ at[c] = Idle
    /\ \E r \in Asks[c] :
          /\ req' = [req EXCEPT ![c] = r] /\ at' = [at EXCEPT ![c] = FirstCall(r)]
    /\ before' = [before EXCEPT ![c] = bucket]
    /\ touched' = [touched EXCEPT ![c] = {}]
    /\ UNCHANGED <<bucket, page, token, copied, fails>>

\* c's call is made, and next is what it does then.
Goes(c, next) == at' = [at EXCEPT ![c] = next] /\ UNCHANGED <<req, before>>

Becomes(c, b, ks) ==
    /\ bucket' = b
    /\ touched' = [d \in Callers |-> IF d = c THEN touched[d] ELSE touched[d] \cup ks]

Kept == UNCHANGED <<bucket, touched>>
Without(ks) == [k \in DOMAIN bucket \ ks |-> bucket[k]]

\* Once it has copied, a move goes on to remove its source with what is under it.
AfterCopy(c) == IF req[c].op = "move" THEN "listDelete" ELSE "ok"

PutObject(c) ==
    /\ at[c] = "put"
    /\ LET k == IF req[c].op = "mkdir" THEN Marker(req[c].path) ELSE SourceKey(c)
           v == IF req[c].op = "mkdir" THEN Dir ELSE req[c].content
       IN  Becomes(c, Put(bucket, k, v), {k})
    /\ Goes(c, "ok") /\ UNCHANGED <<page, token, copied, fails>>

\* copy: is the source a file?  The marker of a directory whose name is given
\* with its slash is taken for one.
HeadSource(c) ==
    /\ at[c] = "head"
    /\ Goes(c, IF SourceKey(c) \in DOMAIN bucket THEN "copyFile" ELSE "listCopy")
    /\ Kept /\ UNCHANGED <<page, token, copied, fails>>

\* A source that is gone by now is a 404, which is caught as the head's is.
CopyFile(c) ==
    /\ at[c] = "copyFile"
    /\ IF SourceKey(c) \in DOMAIN bucket
       THEN /\ Becomes(c, Put(bucket, DestKey(c), bucket[SourceKey(c)]), {DestKey(c)})
            /\ Goes(c, AfterCopy(c))
       ELSE Kept /\ Goes(c, "listCopy")
    /\ UNCHANGED <<page, token, copied, fails>>

TakesPage(c) ==
    LET left == LeftAfter(req[c].path, token[c]) IN
    /\ page' = [page EXCEPT ![c] = PageOf(left)]
    /\ token' = [token EXCEPT ![c] = IF PageOf(left) = left THEN << >> ELSE LastOf(PageOf(left))]

\* The page is empty only at the end, or when its keys are gone by now.
ListToCopy(c) ==
    /\ at[c] = "listCopy"
    /\ TakesPage(c)
    /\ Goes(c, IF page'[c] # {} THEN "copyKey"
               ELSE IF copied[c] THEN AfterCopy(c) ELSE "FileNotFound")
    /\ Kept /\ UNCHANGED <<copied, fails>>

AfterKey(c, left) ==
    IF left # {} THEN "copyKey" ELSE IF token[c] # << >> THEN "listCopy" ELSE AfterCopy(c)

\* The next key of the page: one that is gone by now, or whose copy's key is
\* too long, fails the request.
CopyKey(c) ==
    /\ at[c] = "copyKey"
    /\ LET k == FirstOf(page[c])
           n == Rebase(req[c].path, req[c].dest, k)
       IN  IF k \in DOMAIN bucket /\ Len(n) <= MaxKeyLen
           THEN /\ Becomes(c, Put(bucket, n, bucket[k]), {n})
                /\ page' = [page EXCEPT ![c] = @ \ {k}]
                /\ copied' = [copied EXCEPT ![c] = TRUE]
                /\ Goes(c, AfterKey(c, page'[c])) /\ UNCHANGED token
           ELSE Kept /\ Goes(c, "failed") /\ UNCHANGED <<page, copied, token>>
    /\ UNCHANGED fails

\* deleteByPrefix: a page, then its keys.
ListToDelete(c) ==
    /\ at[c] = "listDelete"
    /\ TakesPage(c)
    /\ Goes(c, IF page'[c] # {} THEN "deletePage" ELSE "deleteKey")
    /\ Kept /\ UNCHANGED <<copied, fails>>

(* Mutant: only the first page is deleted. *)
AfterPageOnce(c) == "deleteKey"

AfterPage(c) == IF token[c] # << >> THEN "listDelete" ELSE "deleteKey"

\* The keys that DeleteObjects could not delete are in its answer, unread.
DeletePage(c) ==
    /\ at[c] = "deletePage"
    /\ \E gone \in SUBSET page[c] :
          /\ gone # page[c] => fails < MaxFails
          /\ fails' = IF gone = page[c] THEN fails ELSE fails + 1
          /\ Becomes(c, Without(gone), gone)
    /\ page' = [page EXCEPT ![c] = {}]
    /\ Goes(c, AfterPage(c)) /\ UNCHANGED <<token, copied>>

\* Also try to delete the path as a file key.
DeleteKey(c) ==
    /\ at[c] \in {"deleteKey", "deleteFile"}
    /\ Becomes(c, Without({SourceKey(c)}), {SourceKey(c)})
    /\ Goes(c, "ok") /\ UNCHANGED <<page, token, copied, fails>>

\* remove without recursive: two keys of the prefix tell what the path is.
Check(c) ==
    /\ at[c] = "check"
    /\ LET under == KeysUnder(bucket, req[c].path) IN
       Goes(c, CASE under = {}                        -> "deleteFile"
                 [] under = {Marker(req[c].path)}     -> "deleteMarker"
                 [] under \ {Marker(req[c].path)} # {} -> "IsADirectory")
    /\ Kept /\ UNCHANGED <<page, token, copied, fails>>

DeleteMarker(c) ==
    /\ at[c] = "deleteMarker"
    /\ Becomes(c, Without({Marker(req[c].path)}), {Marker(req[c].path)})
    /\ Goes(c, "ok") /\ UNCHANGED <<page, token, copied, fails>>

(* Mutant: the objects that could not be copied are left out. *)
CallFailsIgnored(c) ==
    /\ at[c] \in Calls /\ fails < MaxFails
    /\ fails' = fails + 1
    /\ Goes(c, CASE at[c] = "deleteKey" -> "ok"
                 [] at[c] = "copyKey"   -> AfterCopy(c)
                 [] OTHER               -> "failed")
    /\ Kept /\ UNCHANGED <<page, token, copied>>

\* A call is refused, or does not get through; the last one of a recursive
\* removal is allowed to.
CallFails(c) ==
    /\ at[c] \in Calls /\ fails < MaxFails
    /\ fails' = fails + 1
    /\ Goes(c, IF at[c] = "deleteKey" THEN "ok" ELSE "failed")
    /\ Kept /\ UNCHANGED <<page, token, copied>>

CallReturns(c) ==
    \/ PutObject(c) \/ HeadSource(c) \/ CopyFile(c) \/ ListToCopy(c) \/ CopyKey(c)
    \/ ListToDelete(c) \/ DeletePage(c) \/ DeleteKey(c) \/ Check(c) \/ DeleteMarker(c)

S3Next == \E c \in Callers : Begin(c) \/ CallReturns(c) \/ CallFails(c)

S3Spec == S3Init /\ [][S3Next]_s3vars

----------------------------------------------------------------------------
S3Apart(p, q) == ~AtOrUnder(p, q) /\ ~AtOrUnder(q, p)

\* What a copy or move has to carry: the object that its source names, or what
\* is under the directory; and where that goes.
Cargo(c) == IF SourceKey(c) \in DOMAIN before[c] THEN {SourceKey(c)}
            ELSE KeysUnder(before[c], req[c].path)

Lands(c, k) == IF SourceKey(c) \in DOMAIN before[c] THEN DestKey(c)
               ELSE Rebase(req[c].path, req[c].dest, k)

\* The transfers that the properties are about: nothing else is under a source
\* that names an object, and nobody has put one in the directory's place.  A
\* directory of more than its marker, named with its slash, is not among them:
\* a copy takes the marker alone, and a move then removes the rest with it.
Transfers(c) ==
    /\ at[c] # Idle /\ req[c].op \in {"copy", "move"}
    /\ S3Apart(req[c].path, req[c].dest)
    /\ SourceKey(c) \in DOMAIN before[c] => KeysUnder(before[c], req[c].path) \subseteq {SourceKey(c)}
    /\ SourceKey(c) \notin touched[c]

\* The keys of the cargo that nobody else has changed, there or where they go.
Untouched(c) == {k \in Cargo(c) : {k, Lands(c, k)} \cap touched[c] = {}}

Holds(k, v) == k \in DOMAIN bucket /\ bucket[k] = v

\* Whatever other requests do, and whichever call of it fails, a move loses
\* nothing it was asked to move: at every moment each object that nobody else
\* has changed is where it was or where it goes, with its content.
MovedIsKept ==
    \A c \in Callers : Transfers(c) =>
        \A k \in Untouched(c) :
            \/ Holds(k, before[c][k])
            \/ Holds(Lands(c, k), before[c][k])

\* A copy or move that is answered has carried everything, on every page.
CopiedIsThere ==
    \A c \in Callers : Transfers(c) /\ at[c] = "ok" =>
        \A k \in Untouched(c) : Holds(Lands(c, k), before[c][k])

\* What a request carries is safe: on the way, cut short, and when it is answered.
CarriedIsKept == MovedIsKept /\ CopiedIsThere

\* A recursive removal, or a move, that is answered has left nothing of what
\* was there when it began, unless a call failed or others wrote it meanwhile.
RemovedIsGone ==
    \A c \in Callers :
        (at[c] = "ok" /\ fails = 0 /\ FirstCall(req[c]) # "put" /\ req[c].op # "copy") =>
            LET gone == IF req[c].op = "remove" /\ ~req[c].recursive THEN {}
                        ELSE KeysUnder(before[c], req[c].path) \cup {SourceKey(c)}
            IN  gone \cap DOMAIN bucket \subseteq touched[c]

\* Without recursive, no object under the path goes but the directory's marker
\* ("recursive required for non-empty directories").
PlainRemovalIsShallow ==
    \A c \in Callers :
        (at[c] # Idle /\ req[c].op = "remove" /\ ~req[c].recursive) =>
            \A k \in KeysUnder(before[c], req[c].path) \ (touched[c] \cup {Marker(req[c].path)}) :
                Holds(k, before[c][k]) /\ at[c] # "ok"

\* The reads of paths without a slash at the end agree on what there is: what is listed is what stat and exists
\* find, whether a marker was made for a directory or only objects under it;
\* and a directory whose entries fit a page is listed whole.
ReadsAgree ==
    \A p \in Paths : Len(p) < MaxDepth =>
        \A x \in Names :
            LET child  == Append(p, x)
                listed == {e \in ListS3(bucket, p) : e[1] = x}
            IN  /\ Exists(bucket, child) <=> Stat(bucket, child) # "none"
                /\ listed # {} => Stat(bucket, child) # "none"
                /\ Cardinality(Entries(bucket, p)) <= PageSize =>
                      /\ Stat(bucket, child) = "file" <=> <<x, FALSE>> \in listed
                      /\ Stat(bucket, child) = "directory" <=> listed = {<<x, TRUE>>}

\* A directory is nothing but keys: removals take what they should of them, and
\* the reads agree on them.
DirectoriesAreKeys == RemovedIsGone /\ PlainRemovalIsShallow /\ ReadsAgree
=============================================================================
