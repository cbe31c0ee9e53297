---------------------------- MODULE StorageProofs ----------------------------
(***************************************************************************)
(* The file stores and the data explorer.  The tree of the in-memory and   *)
(* JSON providers stays a tree, in memory and on disk, and the file        *)
(* follows it, for all names, contents and depths: facts about paths come  *)
(* first, then one lemma per operation, then the steps of the provider.    *)
(* What requests to S3 carry is safe and what they remove is gone, for any *)
(* number of requests, any order of the keys and any size of a page: the   *)
(* order of the keys comes first, then pages, then one lemma per call.     *)
(* The explorer gives its connections back, and marks what it cuts.        *)
(* The rows of SQLite are always those of a named, finite tree: the        *)
(* provider refines FileTree, for all trees and requests.                  *)
(* The histories kept in memory refine Recent: the rings hold the last,    *)
(* and what the audit log reads over its two lists is the freshest.        *)
(***************************************************************************)
EXTENDS FileStores, S3Keys, Explorer, Histories, SubsequencesProofs, SequenceTheorems,
        FiniteSetTheorems, WellFoundedInduction, TLAPS

GoodTree(t) == IsTree(t) /\ WellFormed(t)

----------------------------------------------------------------------------
\* Paths.

\* A request's path is one an entry can have.
LEMMA PathsArePlaces == Paths \subseteq Places
<1> SUFFICES ASSUME NEW n \in 0..MaxDepth, NEW p \in [1..n -> Names]
             PROVE  p \in Places
  BY DEF Paths
<1> QED  BY DepthAssumption DEF Places

\* The parent of a path that is not the root is one name shorter.
LEMMA ParentFacts ==
  ASSUME NEW p \in Places
  PROVE  /\ Parent(p) \in Places
         /\ p # Root => Len(p) > 0 /\ Len(Parent(p)) = Len(p) - 1
         /\ \A i \in 1..Len(Parent(p)) : Parent(p)[i] = p[i]
<1>1. Len(p) \in Nat  BY DEF Places
<1>2. CASE Len(p) = 0
  <2>1. p = << >>  BY <1>2, EmptySeq DEF Places
  <2>2. SubSeq(p, 1, Len(p) - 1) = << >>  BY <2>1
  <2> QED  BY <2>1, <2>2 DEF Parent, Root, Places
<1>3. CASE Len(p) > 0
  <2>1. p # << >>  BY <1>3
  <2> DEFINE n == Len(p) - 1
             u == SubSeq(p, 1, n)
  <2>a. n \in Int /\ 1 \in Int /\ n >= 0  BY <1>1, <1>3
  <2>b. \A i \in 1..n : p[i] \in Names \cup {Unnamed}
    BY <1>1, ElementOfSeq DEF Places
  <2> HIDE DEF n
  <2>c. /\ u \in Seq(Names \cup {Unnamed})
        /\ Len(u) = IF 1 <= n THEN n - 1 + 1 ELSE 0
        /\ \A i \in 1..(n - 1 + 1) : u[i] = p[1 + i - 1]
    BY <2>a, <2>b, SubSeqProperties
  <2> HIDE DEF u
  <2>d. Len(u) = n /\ \A i \in 1..n : u[i] = p[i]
    BY <2>a, <2>c
  <2>2. /\ SubSeq(p, 1, Len(p) - 1) \in Places
        /\ Len(SubSeq(p, 1, Len(p) - 1)) = Len(p) - 1
        /\ \A i \in 1..(Len(p) - 1) : SubSeq(p, 1, Len(p) - 1)[i] = p[i]
    BY <2>c, <2>d DEF u, n, Places
  <2> QED  BY <1>3, <2>2 DEF Parent
<1> QED  BY <1>1, <1>2, <1>3

\* The slot of a path is not the root, and its parent is the path's.
LEMMA SlotFacts ==
  ASSUME NEW p \in Paths
  PROVE  Slot(p) \in Places /\ Slot(p) # Root /\ Parent(Slot(p)) = Parent(p)
<1>1. p \in Places  BY PathsArePlaces
<1>2. CASE p = Root
  <2>1. <<Unnamed>> \in Places /\ <<Unnamed>> # << >>  BY DEF Places
  <2>2. Parent(<<Unnamed>>) = << >>  BY DEF Parent
  <2>3. Parent(<< >>) = << >>  BY DEF Parent
  <2> QED  BY <1>2, <2>1, <2>2, <2>3 DEF Slot, Root
<1>3. CASE p # Root  BY <1>1, <1>3 DEF Slot
<1> QED  BY <1>2, <1>3

\* What is at or under d's place has its descendants there too.
LEMMA UnderParent ==
  ASSUME NEW d \in Places, NEW q \in Places, AtOrUnder(d, Parent(q))
  PROVE  AtOrUnder(d, q)
<1>1. CASE q = Root
  <2>1. Parent(q) = q  BY <1>1 DEF Parent, Root
  <2> QED  BY <2>1
<1>2. CASE q # Root
  <2>1. Len(Parent(q)) = Len(q) - 1 /\ \A i \in 1..Len(Parent(q)) : Parent(q)[i] = q[i]
    BY <1>2, ParentFacts
  <2>2. Len(d) \in Nat /\ Len(q) \in Nat  BY DEF Places
  <2> QED  BY <2>1, <2>2 DEF AtOrUnder
<1> QED  BY <1>1, <1>2

\* A path at s or under it is s, or has its parent there.
LEMMA StrictlyUnder ==
  ASSUME NEW s \in Places, NEW q \in Places, AtOrUnder(s, q), q # s
  PROVE  q # Root /\ Len(q) > Len(s) /\ AtOrUnder(s, Parent(q))
<1>1. Len(s) \in Nat /\ Len(q) \in Nat  BY DEF Places
<1>2. Len(q) # Len(s)
  <2> SUFFICES ASSUME Len(q) = Len(s) PROVE FALSE  OBVIOUS
  <2>1. \A i \in 1..Len(s) : q[i] = s[i]  BY DEF AtOrUnder
  <2>2. q = s  BY <2>1 DEF Places
  <2> QED  BY <2>2
<1>3. Len(q) > Len(s)  BY <1>1, <1>2 DEF AtOrUnder
<1>4. q # Root  BY <1>1, <1>3 DEF Root
<1>5. Len(Parent(q)) = Len(q) - 1 /\ \A i \in 1..Len(Parent(q)) : Parent(q)[i] = q[i]
  BY <1>4, ParentFacts
<1> QED  BY <1>1, <1>3, <1>4, <1>5 DEF AtOrUnder

\* Rebasing puts what is at or under s at or under d, and back again.
LEMMA RebaseFacts ==
  ASSUME NEW s \in Places, NEW d \in Places, NEW q \in Places, AtOrUnder(s, q)
  PROVE  /\ Rebase(s, d, q) \in Places
         /\ Len(Rebase(s, d, q)) = Len(d) + Len(q) - Len(s)
         /\ \A i \in 1..Len(d) : Rebase(s, d, q)[i] = d[i]
         /\ \A i \in 1..(Len(q) - Len(s)) : Rebase(s, d, q)[Len(d) + i] = q[Len(s) + i]
         /\ AtOrUnder(d, Rebase(s, d, q))
<1> DEFINE rest == SubSeq(q, Len(s) + 1, Len(q))
<1>1. Len(s) \in Nat /\ Len(q) \in Nat /\ Len(d) \in Nat /\ Len(s) <= Len(q)
  BY DEF Places, AtOrUnder
<1>2. /\ rest \in Places /\ Len(rest) = Len(q) - Len(s)
      /\ \A i \in 1..(Len(q) - Len(s)) : rest[i] = q[Len(s) + i]
  BY <1>1 DEF Places
<1>3. /\ d \o rest \in Places /\ Len(d \o rest) = Len(d) + Len(rest)
      /\ \A i \in 1..Len(d) : (d \o rest)[i] = d[i]
      /\ \A i \in 1..Len(rest) : (d \o rest)[Len(d) + i] = rest[i]
  BY <1>1, <1>2 DEF Places
<1>4. Rebase(s, d, q) = d \o rest  BY DEF Rebase
<1> HIDE DEF rest
<1> QED  BY <1>1, <1>2, <1>3, <1>4 DEF AtOrUnder

LEMMA RebaseBack ==
  ASSUME NEW s \in Places, NEW d \in Places, NEW q \in Places, AtOrUnder(s, q)
  PROVE  Rebase(d, s, Rebase(s, d, q)) = q
<1> DEFINE m == Rebase(s, d, q)
           b == Rebase(d, s, m)
<1>1. Len(s) \in Nat /\ Len(q) \in Nat /\ Len(d) \in Nat /\ Len(s) <= Len(q)
  BY DEF Places, AtOrUnder
<1>2. /\ m \in Places /\ Len(m) = Len(d) + Len(q) - Len(s)
      /\ \A i \in 1..(Len(q) - Len(s)) : m[Len(d) + i] = q[Len(s) + i]
      /\ AtOrUnder(d, m)
  BY RebaseFacts
<1> HIDE DEF m
<1>3. /\ b \in Places /\ Len(b) = Len(s) + Len(m) - Len(d)
      /\ \A i \in 1..Len(s) : b[i] = s[i]
      /\ \A i \in 1..(Len(m) - Len(d)) : b[Len(s) + i] = m[Len(d) + i]
  BY <1>2, RebaseFacts
<1> HIDE DEF b
<1>4. Len(b) = Len(q)  BY <1>1, <1>2, <1>3
<1>5. ASSUME NEW i \in 1..Len(q) PROVE b[i] = q[i]
  <2>1. CASE i <= Len(s)  BY <1>1, <1>3, <2>1 DEF AtOrUnder
  <2>2. CASE i > Len(s)
    <3> DEFINE j == i - Len(s)
    <3>1. j \in 1..(Len(q) - Len(s)) /\ Len(s) + j = i  BY <1>1, <2>2
    <3>2. Len(m) - Len(d) = Len(q) - Len(s)  BY <1>1, <1>2
    <3> HIDE DEF j
    <3>3. b[Len(s) + j] = m[Len(d) + j]  BY <1>3, <3>1, <3>2
    <3>4. m[Len(d) + j] = q[Len(s) + j]  BY <1>2, <3>1
    <3> QED  BY <3>1, <3>3, <3>4
  <2> QED  BY <1>1, <2>1, <2>2
<1>6. b = q
  <2>1. b \in Seq(Names \cup {Unnamed}) /\ q \in Seq(Names \cup {Unnamed})
    BY <1>3 DEF Places
  <2> QED  BY <1>4, <1>5, <2>1, SeqEqual
<1> QED  BY <1>6 DEF b, m

\* Rebasing commutes with taking the parent, below the source.
LEMMA RebaseParent ==
  ASSUME NEW s \in Places, NEW d \in Places, NEW q \in Places,
         AtOrUnder(s, q), q # s
  PROVE  Parent(Rebase(s, d, q)) = Rebase(s, d, Parent(q))
<1> DEFINE m == Rebase(s, d, q)
           b == Rebase(s, d, Parent(q))
<1>1. Len(s) \in Nat /\ Len(q) \in Nat /\ Len(d) \in Nat  BY DEF Places
<1>2. q # Root /\ Len(q) > Len(s) /\ AtOrUnder(s, Parent(q))  BY StrictlyUnder
<1>3. /\ Parent(q) \in Places /\ Len(Parent(q)) = Len(q) - 1
      /\ \A i \in 1..Len(Parent(q)) : Parent(q)[i] = q[i]
  BY <1>2, ParentFacts
<1>4. /\ m \in Places /\ Len(m) = Len(d) + Len(q) - Len(s)
      /\ \A i \in 1..Len(d) : m[i] = d[i]
      /\ \A i \in 1..(Len(q) - Len(s)) : m[Len(d) + i] = q[Len(s) + i]
  BY RebaseFacts
<1>5. /\ b \in Places /\ Len(b) = Len(d) + (Len(q) - 1) - Len(s)
      /\ \A i \in 1..Len(d) : b[i] = d[i]
      /\ \A i \in 1..(Len(q) - 1 - Len(s)) : b[Len(d) + i] = Parent(q)[Len(s) + i]
  <2> DEFINE u == Parent(q)
  <2>1. u \in Places /\ AtOrUnder(s, u) /\ Len(u) = Len(q) - 1  BY <1>2, <1>3
  <2> HIDE DEF u
  <2>2. /\ Rebase(s, d, u) \in Places
        /\ Len(Rebase(s, d, u)) = Len(d) + Len(u) - Len(s)
        /\ \A i \in 1..Len(d) : Rebase(s, d, u)[i] = d[i]
        /\ \A i \in 1..(Len(u) - Len(s)) : Rebase(s, d, u)[Len(d) + i] = u[Len(s) + i]
    BY <2>1, RebaseFacts
  <2>3. b = Rebase(s, d, u)  BY DEF u
  <2> HIDE DEF b
  <2>4. u = Parent(q)  BY DEF u
  <2> QED  BY <2>1, <2>2, <2>3, <2>4
<1> HIDE DEF m, b
<1>6. m # Root  BY <1>1, <1>2, <1>4 DEF Root
<1>7. /\ Parent(m) \in Places /\ Len(Parent(m)) = Len(m) - 1
      /\ \A i \in 1..Len(Parent(m)) : Parent(m)[i] = m[i]
  BY <1>4, <1>6, ParentFacts
<1>8. Len(Parent(m)) = Len(b)  BY <1>1, <1>4, <1>5, <1>7
<1>9. ASSUME NEW i \in 1..Len(b) PROVE Parent(m)[i] = b[i]
  <2>1. Parent(m)[i] = m[i]  BY <1>7, <1>8
  <2>2. CASE i <= Len(d)  BY <1>1, <1>4, <1>5, <2>1, <2>2
  <2>3. CASE i > Len(d)
    <3> DEFINE j == i - Len(d)
    <3>1. j \in 1..(Len(q) - 1 - Len(s)) /\ Len(d) + j = i
      BY <1>1, <1>5, <2>3
    <3> HIDE DEF j
    <3>2. m[i] = q[Len(s) + j]
      <4>1. j \in 1..(Len(q) - Len(s))  BY <1>1, <3>1
      <4> QED  BY <1>4, <3>1, <4>1
    <3>3. b[i] = Parent(q)[Len(s) + j]  BY <1>5, <3>1
    <3>4. Len(s) + j \in 1..Len(Parent(q))  BY <1>1, <1>3, <3>1
    <3> QED  BY <1>3, <2>1, <3>2, <3>3, <3>4
  <2> QED  BY <1>1, <1>5, <2>2, <2>3
<1>10. Parent(m) = b
  <2>1. Parent(m) \in Seq(Names \cup {Unnamed}) /\ b \in Seq(Names \cup {Unnamed})
    BY <1>5, <1>7 DEF Places
  <2> QED  BY <1>8, <1>9, <2>1, SeqEqual
<1> QED  BY <1>10 DEF m, b

----------------------------------------------------------------------------
\* Operations.

\* An entry of a good tree: a place, a value, and a directory above it.
LEMMA GoodEntry ==
  ASSUME NEW t, GoodTree(t), NEW q \in DOMAIN t
  PROVE  /\ q \in Places /\ t[q] \in Contents \cup {Dir}
         /\ q # Root => IsDir(t, Parent(q))
BY DEF GoodTree, IsTree, WellFormed

LEMMA EmptyTreeGood == GoodTree(EmptyTree)
<1>1. Root \in Places  BY DEF Root, Places
<1> QED  BY <1>1 DEF GoodTree, IsTree, WellFormed, EmptyTree, IsDir

\* Putting an entry in a directory, not a file over a directory, is good.
LEMMA PutGood ==
  ASSUME NEW t, GoodTree(t), NEW p \in Places, p # Root,
         NEW v \in Contents \cup {Dir},
         IsDir(t, Parent(p)), IsDir(t, p) => v = Dir
  PROVE  GoodTree(Put(t, p, v))
<1> DEFINE u == Put(t, p, v)
<1>1. DOMAIN u = DOMAIN t \cup {p}  BY DEF Put, Overlay
<1>2. \A q \in DOMAIN u : u[q] = IF q = p THEN v ELSE t[q]
  BY DEF Put, Overlay
<1>3. u \in [DOMAIN u -> Contents \cup {Dir}]
  <2>1. u = [q \in DOMAIN u |-> u[q]]  BY DEF Put, Overlay
  <2> HIDE DEF u
  <2>2. \A q \in DOMAIN u : u[q] \in Contents \cup {Dir}
    BY <1>1, <1>2, GoodEntry
  <2> QED  BY <2>1, <2>2
<1> HIDE DEF u
<1>4. DOMAIN u \subseteq Places  BY <1>1, GoodEntry
<1>5. \A q : IsDir(t, q) => IsDir(u, q)
  BY <1>1, <1>2 DEF IsDir
<1>6. IsDir(t, Root)  BY DEF GoodTree, WellFormed
<1>7. \A q \in DOMAIN u \ {Root} : IsDir(u, Parent(q))
  BY <1>1, <1>5, GoodEntry
<1>8. GoodTree(u)  BY <1>3, <1>4, <1>5, <1>6, <1>7 DEF GoodTree, IsTree, WellFormed
<1> QED  BY <1>8 DEF u

\* Deleting an entry with all that is under it is good, but at the root.
LEMMA PruneGood ==
  ASSUME NEW t, GoodTree(t), NEW p \in Places, p # Root
  PROVE  /\ GoodTree(Prune(t, p))
         /\ \A q : IsDir(t, q) /\ ~AtOrUnder(p, q) => IsDir(Prune(t, p), q)
<1> DEFINE u == Prune(t, p)
<1>1. DOMAIN u = {q \in DOMAIN t : ~AtOrUnder(p, q)}
  BY DEF Prune, Subtree
<1>2. \A q \in DOMAIN u : u[q] = t[q]  BY DEF Prune
<1>3. u \in [DOMAIN u -> Contents \cup {Dir}]
  <2>1. u = [q \in DOMAIN u |-> u[q]]  BY DEF Prune
  <2> HIDE DEF u
  <2> QED  BY <1>1, <1>2, <2>1, GoodEntry
<1> HIDE DEF u
<1>4. DOMAIN u \subseteq Places  BY <1>1, GoodEntry
<1>5. \A q : IsDir(t, q) /\ ~AtOrUnder(p, q) => IsDir(u, q)
  BY <1>1, <1>2 DEF IsDir
<1>6. IsDir(u, Root)
  <2>1. Len(p) > 0  BY ParentFacts
  <2>2. ~AtOrUnder(p, Root)  BY <2>1 DEF AtOrUnder, Root, Places
  <2> QED  BY <1>5, <2>2 DEF GoodTree, WellFormed
<1>7. ASSUME NEW q \in DOMAIN u \ {Root} PROVE IsDir(u, Parent(q))
  <2>1. q \in Places /\ IsDir(t, Parent(q)) /\ ~AtOrUnder(p, q)
    BY <1>1, GoodEntry
  <2>2. ~AtOrUnder(p, Parent(q))  BY <2>1, UnderParent
  <2> QED  BY <1>5, <2>1, <2>2
<1>8. GoodTree(u)  BY <1>3, <1>4, <1>6, <1>7 DEF GoodTree, IsTree, WellFormed
<1> QED  BY <1>5, <1>8 DEF u

\* A clone put in place of what was at d, whose parent is a directory.
LEMMA GraftGood ==
  ASSUME NEW t, GoodTree(t), NEW s \in DOMAIN t,
         NEW d \in Places, d # Root, IsDir(t, Parent(d))
  PROVE  GoodTree(Overlay(Prune(t, d), Cloned(t, s, d)))
<1> DEFINE pruned == Prune(t, d)
           clone  == Cloned(t, s, d)
           u      == Overlay(pruned, clone)
<1>1. s \in Places  BY GoodEntry
<1>2. DOMAIN clone = {Rebase(s, d, x) : x \in Subtree(t, s)}  BY DEF Cloned
<1>3. ASSUME NEW x \in Subtree(t, s)
      PROVE  /\ x \in DOMAIN t /\ x \in Places /\ AtOrUnder(s, x)
             /\ Rebase(s, d, x) \in DOMAIN clone
             /\ Rebase(s, d, x) \in Places
             /\ AtOrUnder(d, Rebase(s, d, x))
             /\ clone[Rebase(s, d, x)] = t[x]
  <2>1. x \in DOMAIN t /\ x \in Places /\ AtOrUnder(s, x)
    BY GoodEntry DEF Subtree
  <2>2. Rebase(s, d, x) \in DOMAIN clone  BY <1>2
  <2>3. Rebase(s, d, x) \in Places /\ AtOrUnder(d, Rebase(s, d, x))
    BY <1>1, <2>1, RebaseFacts
  <2>4. clone[Rebase(s, d, x)] = t[Rebase(d, s, Rebase(s, d, x))]
    BY <2>2 DEF Cloned
  <2> QED  BY <1>1, <2>1, <2>2, <2>3, <2>4, RebaseBack
<1>4. GoodTree(pruned) /\ \A q : IsDir(t, q) /\ ~AtOrUnder(d, q) => IsDir(pruned, q)
  BY PruneGood
<1>5. \A q \in DOMAIN pruned : ~AtOrUnder(d, q)  BY DEF Prune, Subtree
<1>6. u = [q \in DOMAIN pruned \cup DOMAIN clone |->
              IF q \in DOMAIN clone THEN clone[q] ELSE pruned[q]]
  BY DEF Overlay
<1> HIDE DEF pruned, clone, u
<1>7. DOMAIN u = DOMAIN pruned \cup DOMAIN clone  BY <1>6
<1>8. \A q \in DOMAIN clone : u[q] = clone[q] /\ AtOrUnder(d, q)
  BY <1>2, <1>3, <1>6
<1>9. \A q \in DOMAIN pruned : u[q] = pruned[q]
  BY <1>5, <1>6, <1>8
<1>10. \A q : IsDir(pruned, q) => IsDir(u, q)  BY <1>7, <1>9 DEF IsDir
<1>11. IsTree(u)
  <2>1. DOMAIN u \subseteq Places  BY <1>2, <1>3, <1>4, <1>7, GoodEntry
  <2>2. \A q \in DOMAIN u : u[q] \in Contents \cup {Dir}
    <3>1. \A q \in DOMAIN clone : u[q] \in Contents \cup {Dir}
      BY <1>2, <1>3, <1>8, GoodEntry
    <3>2. \A q \in DOMAIN pruned : u[q] \in Contents \cup {Dir}
      BY <1>4, <1>9, GoodEntry
    <3> QED  BY <1>7, <3>1, <3>2
  <2>3. u = [q \in DOMAIN u |-> u[q]]  BY <1>6
  <2> QED  BY <2>1, <2>2, <2>3 DEF IsTree
<1>12. IsDir(u, Root)  BY <1>4, <1>10 DEF GoodTree, WellFormed
<1>13. ASSUME NEW q \in DOMAIN pruned, q # Root PROVE IsDir(u, Parent(q))
  BY <1>4, <1>10, <1>13, GoodEntry
<1>14. ASSUME NEW x \in Subtree(t, s) PROVE IsDir(u, Parent(Rebase(s, d, x)))
  <2>1. CASE x = s
    <3>1. Rebase(s, d, s) = d
      <4>1. Len(s) \in Nat /\ AtOrUnder(s, s) /\ Len(d) \in Nat
        BY <1>1 DEF AtOrUnder, Places
      <4>2. /\ Rebase(s, d, s) \in Places
            /\ Len(Rebase(s, d, s)) = Len(d)
            /\ \A i \in 1..Len(d) : Rebase(s, d, s)[i] = d[i]
        <5> DEFINE m == Rebase(s, d, s)
        <5>1. /\ m \in Places
              /\ Len(m) = Len(d) + Len(s) - Len(s)
              /\ \A i \in 1..Len(d) : m[i] = d[i]
          BY <1>1, <4>1, RebaseFacts
        <5> HIDE DEF m
        <5>2. Len(m) = Len(d)  BY <4>1, <5>1
        <5> QED  BY <5>1, <5>2 DEF m
      <4> QED  BY <4>2, SeqEqual DEF Places
    <3>2. ~AtOrUnder(d, Parent(d))
      <4>1. Len(d) > 0 /\ Len(Parent(d)) = Len(d) - 1 /\ Len(d) \in Nat
        BY ParentFacts DEF Places
      <4> QED  BY <4>1 DEF AtOrUnder
    <3> QED  BY <1>4, <1>10, <2>1, <3>1, <3>2
  <2>2. CASE x # s
    <3>1. x # Root /\ AtOrUnder(s, Parent(x))
      BY <1>1, <1>3, <2>2, StrictlyUnder
    <3>2. IsDir(t, Parent(x))  BY <1>3, <3>1, GoodEntry
    <3>3. Parent(x) \in Subtree(t, s)  BY <3>1, <3>2 DEF Subtree, IsDir
    <3>4. Parent(Rebase(s, d, x)) = Rebase(s, d, Parent(x))
      BY <1>1, <1>3, <2>2, RebaseParent
    <3>5. IsDir(u, Rebase(s, d, Parent(x)))
      BY <1>3, <1>7, <1>8, <3>2, <3>3 DEF IsDir
    <3> QED  BY <3>4, <3>5
  <2> QED  BY <2>1, <2>2
<1>15. GoodTree(u)
  BY <1>2, <1>7, <1>11, <1>12, <1>13, <1>14 DEF GoodTree, WellFormed
<1> QED  BY <1>15 DEF u, pruned, clone

\* Every operation leaves a good tree, and the same tree if it refuses.
LEMMA WriteFileGood ==
  ASSUME NEW t, GoodTree(t), NEW p \in Paths, NEW c \in Contents
  PROVE  LET o == WriteFile(t, p, c) IN
         GoodTree(o.tree) /\ (o.answer # "ok" => o.tree = t)
<1>1. Slot(p) \in Places /\ Slot(p) # Root /\ Parent(Slot(p)) = Parent(p)
  BY SlotFacts
<1>2. CASE Parent(p) \notin DOMAIN t \/ IsFile(t, Parent(p)) \/
           (IsDir(t, Parent(p)) /\ IsDir(t, Slot(p)))
  BY <1>2 DEF WriteFile, Refused, IsFile, IsDir
<1>3. CASE IsDir(t, Parent(p)) /\ ~IsDir(t, Slot(p))
  <2>1. WriteFile(t, p, c) = Done(Put(t, Slot(p), c))
    BY <1>3 DEF WriteFile, IsFile, IsDir
  <2>2. GoodTree(Put(t, Slot(p), c))  BY <1>1, <1>3, PutGood
  <2> QED  BY <2>1, <2>2 DEF Done
<1> QED  BY <1>2, <1>3 DEF IsFile, IsDir

LEMMA MkdirGood ==
  ASSUME NEW t, GoodTree(t), NEW p \in Paths
  PROVE  LET o == Mkdir(t, p) IN
         GoodTree(o.tree) /\ (o.answer # "ok" => o.tree = t)
<1>1. Slot(p) \in Places /\ Slot(p) # Root /\ Parent(Slot(p)) = Parent(p)
  BY SlotFacts
<1>2. CASE Parent(p) \notin DOMAIN t \/ IsFile(t, Parent(p)) \/
           (IsDir(t, Parent(p)) /\ Slot(p) \in DOMAIN t)
  BY <1>2 DEF Mkdir, Refused, IsFile, IsDir
<1>3. CASE IsDir(t, Parent(p)) /\ Slot(p) \notin DOMAIN t
  <2>1. Mkdir(t, p) = Done(Put(t, Slot(p), Dir))
    BY <1>3 DEF Mkdir, IsFile, IsDir
  <2>2. GoodTree(Put(t, Slot(p), Dir))  BY <1>1, <1>3, PutGood
  <2> QED  BY <2>1, <2>2 DEF Done
<1> QED  BY <1>2, <1>3 DEF IsFile, IsDir

\* The parent of a path on the way to p is on the way to p.
LEMMA ChainFacts ==
  ASSUME NEW p \in Places, NEW q \in Chain(p)
  PROVE  q \in Places /\ (q # Root => Parent(q) \in Chain(p))
<1>1. PICK n \in 0..Len(p) : q = SubSeq(p, 1, n)  BY DEF Chain
<1>2. Len(p) \in Nat /\ n \in Int /\ 1 \in Int /\ n - 1 \in Int  BY DEF Places
<1>3. \A i \in 1..n : p[i] \in Names \cup {Unnamed}
  BY <1>2, ElementOfSeq DEF Places
<1>4. /\ q \in Seq(Names \cup {Unnamed})
      /\ Len(q) = IF 1 <= n THEN n - 1 + 1 ELSE 0
      /\ \A i \in 1..(n - 1 + 1) : q[i] = p[1 + i - 1]
  BY <1>1, <1>2, <1>3, SubSeqProperties
<1>5. Len(q) = n /\ \A i \in 1..n : q[i] = p[i]  BY <1>2, <1>4
<1>6. ASSUME q # Root PROVE Parent(q) = SubSeq(p, 1, n - 1)
  <2>1. /\ Parent(q) \in Places /\ n > 0 /\ Len(Parent(q)) = n - 1
        /\ \A i \in 1..(n - 1) : Parent(q)[i] = q[i]
    BY <1>4, <1>5, <1>6, ParentFacts DEF Places
  <2> DEFINE u == SubSeq(p, 1, n - 1)
  <2>2. \A i \in 1..(n - 1) : p[i] \in Names \cup {Unnamed}  BY <1>2, <1>3
  <2>3. /\ u \in Seq(Names \cup {Unnamed})
        /\ Len(u) = IF 1 <= n - 1 THEN n - 1 - 1 + 1 ELSE 0
        /\ \A i \in 1..(n - 1 - 1 + 1) : u[i] = p[1 + i - 1]
    BY <1>2, <2>2, SubSeqProperties
  <2> HIDE DEF u
  <2>4. Len(u) = n - 1 /\ \A i \in 1..(n - 1) : u[i] = p[i]  BY <1>2, <2>1, <2>3
  <2>5. \A i \in 1..(n - 1) : Parent(q)[i] = u[i]  BY <1>2, <1>5, <2>1, <2>4
  <2>6. Parent(q) = u  BY <2>1, <2>3, <2>4, <2>5, SeqEqual DEF Places
  <2> QED  BY <2>6 DEF u
<1>7. ASSUME q # Root PROVE n - 1 \in 0..Len(p)
  <2>1. n > 0  BY <1>4, <1>5, <1>7, ParentFacts DEF Places
  <2> QED  BY <1>2, <2>1
<1> QED  BY <1>4, <1>6, <1>7 DEF Chain, Places

LEMMA MkdirAllGood ==
  ASSUME NEW t, GoodTree(t), NEW p \in Paths
  PROVE  LET o == MkdirAll(t, p) IN
         GoodTree(o.tree) /\ (o.answer # "ok" => o.tree = t)
<1>1. CASE \E q \in Chain(p) : IsFile(t, q)
  BY <1>1 DEF MkdirAll, Refused
<1>2. CASE \A q \in Chain(p) : ~IsFile(t, q)
  <2> DEFINE u == Overlay(t, [q \in Chain(p) |-> Dir])
  <2>1. MkdirAll(t, p) = Done(u)  BY <1>2 DEF MkdirAll
  <2>2. u = [q \in DOMAIN t \cup Chain(p) |-> IF q \in Chain(p) THEN Dir ELSE t[q]]
    BY DEF Overlay
  <2>3. p \in Places  BY PathsArePlaces
  <2> HIDE DEF u
  <2>4. \A q : IsDir(t, q) \/ q \in Chain(p) => IsDir(u, q)
    BY <2>2 DEF IsDir
  <2>5. IsTree(u)
    <3>1. \A q \in DOMAIN u : u[q] \in Contents \cup {Dir}  BY <2>2, GoodEntry
    <3>2. DOMAIN u \subseteq Places  BY <2>2, <2>3, GoodEntry, ChainFacts
    <3> QED  BY <2>2, <3>1, <3>2 DEF IsTree
  <2>6. IsDir(u, Root)  BY <2>4 DEF GoodTree, WellFormed
  <2>7. \A q \in DOMAIN u \ {Root} : IsDir(u, Parent(q))
    BY <2>2, <2>3, <2>4, GoodEntry, ChainFacts
  <2>8. GoodTree(u)  BY <2>5, <2>6, <2>7 DEF GoodTree, WellFormed
  <2> QED  BY <2>1, <2>8 DEF Done
<1> QED  BY <1>1, <1>2

LEMMA RemoveGood ==
  ASSUME NEW t, GoodTree(t), NEW p \in Paths, NEW recursive \in BOOLEAN
  PROVE  LET o == Remove(t, p, recursive) IN
         GoodTree(o.tree) /\ (o.answer # "ok" => o.tree = t)
<1>1. CASE p \notin DOMAIN t \/ (IsDir(t, p) /\ ~recursive)
  BY <1>1 DEF Remove, Refused, IsDir
<1>2. CASE p \in DOMAIN t /\ ~(IsDir(t, p) /\ ~recursive)
  <2>1. Remove(t, p, recursive) = Done(Prune(t, Slot(p)))  BY <1>2 DEF Remove
  <2>2. GoodTree(Prune(t, Slot(p)))  BY SlotFacts, PruneGood
  <2> QED  BY <2>1, <2>2 DEF Done
<1> QED  BY <1>1, <1>2

LEMMA CopyGood ==
  ASSUME NEW t, GoodTree(t), NEW s \in Paths, NEW d \in Paths
  PROVE  LET o == Copy(t, s, d) IN
         GoodTree(o.tree) /\ (o.answer # "ok" => o.tree = t)
<1>1. Slot(d) \in Places /\ Slot(d) # Root /\ Parent(Slot(d)) = Parent(d)
  BY SlotFacts
<1>2. CASE s \notin DOMAIN t \/ Parent(d) \notin DOMAIN t \/ IsFile(t, Parent(d))
  BY <1>2 DEF Copy, Refused, IsFile
<1>3. CASE s \in DOMAIN t /\ IsDir(t, Parent(d))
  <2> DEFINE u == Overlay(Prune(t, Slot(d)), Cloned(t, s, Slot(d)))
  <2>1. Copy(t, s, d) = Done(u)  BY <1>3 DEF Copy, IsFile, IsDir
  <2>2. GoodTree(u)  BY <1>1, <1>3, GraftGood
  <2> QED  BY <2>1, <2>2 DEF Done
<1> QED  BY <1>2, <1>3 DEF IsFile, IsDir

LEMMA MoveGood ==
  ASSUME NEW t, GoodTree(t), NEW s \in Paths, NEW d \in Paths
  PROVE  LET o == Move(t, s, d)
             cloned == Copy(t, s, d) IN
         /\ GoodTree(o.tree)
         /\ cloned.answer # "ok" => o.answer # "ok" /\ o.tree = t
         /\ cloned.answer = "ok" /\ o.answer # "ok" => o.tree = cloned.tree
<1> DEFINE cloned == Copy(t, s, d)
<1>1. GoodTree(cloned.tree) /\ (cloned.answer # "ok" => cloned.tree = t)
  BY CopyGood
<1>2. Move(t, s, d) = IF cloned.answer = "ok" THEN Remove(cloned.tree, s, TRUE)
                                              ELSE cloned
  BY DEF Move
<1> HIDE DEF cloned
<1>3. LET o == Remove(cloned.tree, s, TRUE) IN
      GoodTree(o.tree) /\ (o.answer # "ok" => o.tree = cloned.tree)
  BY <1>1, RemoveGood
<1> QED  BY <1>1, <1>2, <1>3 DEF cloned

\* What a request leaves is good; a refusal that is not a move's second half
\* changes nothing.
LEMMA ApplyGood ==
  ASSUME NEW t, GoodTree(t), NEW r \in Requests
  PROVE  /\ GoodTree(Apply(t, r).tree)
         /\ r.op # "move" /\ Apply(t, r).answer # "ok" => Apply(t, r).tree = t
<1>1. CASE r \in [op : {"writeFile"}, path : Paths, content : Contents]
  <2>1. Apply(t, r) = WriteFile(t, r.path, r.content)  BY <1>1 DEF Apply
  <2> QED  BY <1>1, <2>1, WriteFileGood
<1>2. CASE r \in [op : {"mkdir", "remove"}, path : Paths, recursive : BOOLEAN]
  <2>1. CASE r.op = "mkdir" /\ r.recursive
    <3>1. Apply(t, r) = MkdirAll(t, r.path)  BY <2>1 DEF Apply
    <3> QED  BY <1>2, <3>1, MkdirAllGood
  <2>2. CASE r.op = "mkdir" /\ ~r.recursive
    <3>1. Apply(t, r) = Mkdir(t, r.path)  BY <2>2 DEF Apply
    <3> QED  BY <1>2, <3>1, MkdirGood
  <2>3. CASE r.op = "remove"
    <3>1. Apply(t, r) = Remove(t, r.path, r.recursive)  BY <2>3 DEF Apply
    <3> QED  BY <1>2, <3>1, RemoveGood
  <2> QED  BY <1>2, <2>1, <2>2, <2>3
<1>3. CASE r \in [op : {"copy", "move"}, path : Paths, dest : Paths]
  <2>1. CASE r.op = "copy"
    <3>1. Apply(t, r) = Copy(t, r.path, r.dest)  BY <2>1 DEF Apply
    <3> QED  BY <1>3, <3>1, CopyGood
  <2>2. CASE r.op = "move"
    <3>1. Apply(t, r) = Move(t, r.path, r.dest)  BY <2>2 DEF Apply
    <3> QED  BY <1>3, <2>2, <3>1, MoveGood
  <2> QED  BY <1>3, <2>1, <2>2
<1> QED  BY <1>1, <1>2, <1>3 DEF Requests

\* Two sequences of at most one element, joined.
LEMMA JoinFacts ==
  ASSUME NEW x, NEW y
  PROVE  <<x>> \o <<y>> = <<x, y>> /\ << >> \o <<y>> = <<y>>
<1> DEFINE S == {x, y}
           a == <<x>>
           b == <<y>>
           c == <<x, y>>
<1>1. a \in Seq(S) /\ b \in Seq(S) /\ c \in Seq(S)  OBVIOUS
<1>2. /\ Len(a) = 1 /\ a[1] = x /\ Len(b) = 1 /\ b[1] = y
      /\ Len(c) = 2 /\ c[1] = x /\ c[2] = y
  OBVIOUS
<1> HIDE DEF S, a, b, c
<1>3. << >> \o b = b  BY <1>1, ConcatEmptySeq
<1>4. /\ a \o b \in Seq(S) /\ Len(a \o b) = 2
      /\ (a \o b)[1] = x /\ (a \o b)[2] = y
  <2>1. /\ a \o b \in Seq(S) /\ Len(a \o b) = Len(a) + Len(b)
        /\ \A i \in 1..Len(a) + Len(b) :
              (a \o b)[i] = IF i <= Len(a) THEN a[i] ELSE b[i - Len(a)]
    BY <1>1, ConcatProperties
  <2>2. Len(a) + Len(b) = 2 /\ 1 \in 1..2 /\ 2 \in 1..2 /\ 2 - Len(a) = 1
    BY <1>2
  <2>3. (a \o b)[1] = a[1]  BY <1>2, <2>1, <2>2
  <2>4. (a \o b)[2] = b[2 - Len(a)]  BY <1>2, <2>1, <2>2
  <2> QED  BY <1>2, <2>1, <2>2, <2>3, <2>4
<1>5. a \o b = c  BY <1>1, <1>2, <1>4, SeqEqual
<1> QED  BY <1>3, <1>5 DEF a, b, c

\* The trees an operation saves are good, the last is the one it leaves.
LEMMA SavesGood ==
  ASSUME NEW t, GoodTree(t), NEW r \in Requests
  PROVE  LET saves == Saves(t, r) IN
         /\ Len(saves) \in Nat
         /\ \A k \in 1..Len(saves) : GoodTree(saves[k])
         /\ saves = << >> => Apply(t, r).tree = t
         /\ saves # << >> => Len(saves) > 0 /\ saves[Len(saves)] = Apply(t, r).tree
<1> DEFINE cloned == Copy(t, r.path, r.dest)
           final  == Apply(t, r)
<1>1. /\ GoodTree(final.tree)
      /\ r.op # "move" /\ final.answer # "ok" => final.tree = t
  BY ApplyGood
<1>2. ASSUME r.op = "move"
      PROVE  /\ GoodTree(cloned.tree)
             /\ cloned.answer # "ok" => final.answer # "ok" /\ final.tree = t
             /\ cloned.answer = "ok" /\ final.answer # "ok" => final.tree = cloned.tree
  <2>1. r.path \in Paths /\ r.dest \in Paths  BY <1>2 DEF Requests
  <2>2. final = Move(t, r.path, r.dest)  BY <1>2 DEF Apply
  <2> QED  BY <2>1, <2>2, CopyGood, MoveGood
<1>3. Saves(t, r) = (IF r.op = "move" /\ cloned.answer = "ok" THEN <<cloned.tree>> ELSE << >>)
                      \o (IF final.answer = "ok" THEN <<final.tree>> ELSE << >>)
  BY DEF Saves
<1> HIDE DEF cloned, final
<1>4. CASE r.op = "move" /\ cloned.answer = "ok" /\ final.answer = "ok"
  <2>1. Saves(t, r) = <<cloned.tree, final.tree>>  BY <1>3, <1>4, JoinFacts
  <2> QED  BY <1>1, <1>2, <1>4, <2>1 DEF final
<1>5. CASE r.op = "move" /\ cloned.answer = "ok" /\ final.answer # "ok"
  <2>1. Saves(t, r) = <<cloned.tree>>  BY <1>3, <1>5
  <2> QED  BY <1>2, <1>5, <2>1 DEF final
<1>6. CASE ~(r.op = "move" /\ cloned.answer = "ok") /\ final.answer = "ok"
  <2>1. Saves(t, r) = <<final.tree>>  BY <1>3, <1>6, JoinFacts
  <2> QED  BY <1>1, <2>1 DEF final
<1>7. CASE ~(r.op = "move" /\ cloned.answer = "ok") /\ final.answer # "ok"
  <2>1. Saves(t, r) = << >>  BY <1>3, <1>7
  <2> QED  BY <1>1, <1>2, <1>7, <2>1 DEF final
<1> QED  BY <1>4, <1>5, <1>6, <1>7

----------------------------------------------------------------------------
\* The provider.

\* The inductive invariant: good trees in memory and in the file, and the
\* file behind the tree only after a save that failed.
Inv ==
    /\ GoodTree(root)
    /\ \A t \in file : GoodTree(t) /\ file = {t}
    /\ FileFollowsTree

\* What load() finds: the tree of the file, or the empty one.
LEMMA LoadGood ==
  ASSUME \A t \in file : GoodTree(t) /\ file = {t}
  PROVE  GoodTree(Load) /\ \A t : file = {t} => Load = t
<1>1. CASE file = {}  BY <1>1, EmptyTreeGood DEF Load
<1>2. CASE file # {}
  <2>1. PICK t : t \in file  BY <1>2
  <2>2. file = {t} /\ GoodTree(t)  BY <2>1
  <2>3. (CHOOSE u \in {t} : TRUE) = t  OBVIOUS
  <2>4. Load = t  BY <1>2, <2>2, <2>3 DEF Load
  <2> QED  BY <2>2, <2>4
<1> QED  BY <1>1, <1>2

LEMMA InitInv == Init => Inv
<1> SUFFICES ASSUME Init PROVE Inv  OBVIOUS
<1>1. Load = EmptyTree  BY DEF Init, Load
<1> QED  BY <1>1, EmptyTreeGood DEF Init, Inv, FileFollowsTree

\* What an interrupted save leaves in the file is good.
LEMMA InterruptedGood ==
  ASSUME Inv, NEW r \in Requests, NEW k \in 1..Len(Saves(root, r)),
         NEW f \in Interrupted(r, k) \cup {{Saves(root, r)[k]}}
  PROVE  \A t \in f : GoodTree(t) /\ f = {t}
<1>1. /\ Len(Saves(root, r)) \in Nat
      /\ \A j \in 1..Len(Saves(root, r)) : GoodTree(Saves(root, r)[j])
  BY SavesGood DEF Inv
<1>2. CASE f = {}  BY <1>2
<1>3. CASE f = {Saves(root, r)[k]}  BY <1>1, <1>3
<1>4. CASE k = 1 /\ f = file  BY <1>4 DEF Inv
<1>5. CASE k # 1 /\ f = {Saves(root, r)[k - 1]}
  <2>1. k - 1 \in 1..Len(Saves(root, r))  BY <1>1, <1>5
  <2> QED  BY <1>1, <1>5, <2>1
<1> QED  BY <1>2, <1>3, <1>4, <1>5 DEF Interrupted

LEMMA NextInv == Inv /\ [Next]_vars => Inv'
<1> SUFFICES ASSUME Inv, [Next]_vars PROVE Inv'  OBVIOUS
<1> USE DEF Inv
<1>1. ASSUME NEW r \in Requests, ServeMemory(r) PROVE Inv'
  <2>1. GoodTree(root')  BY <1>1, ApplyGood DEF ServeMemory
  <2> QED  BY <1>1, <2>1 DEF ServeMemory, FileFollowsTree
<1>2. ASSUME NEW r \in Requests, ServeSqlite(r) PROVE Inv'
  BY <1>2 DEF ServeSqlite, FileFollowsTree, Load
<1>3. ASSUME NEW r \in Requests, ServeJson(r) PROVE Inv'
  <2> DEFINE saves == Saves(root, r)
  <2>1. root' = Apply(root, r).tree /\ GoodTree(root')
    BY <1>3, ApplyGood DEF ServeJson
  <2>2. /\ saves = << >> => Apply(root, r).tree = root
        /\ saves # << >> => saves[Len(saves)] = Apply(root, r).tree
    BY SavesGood
  <2>3. CASE saves = << >>
    <3>1. root' = root /\ file' = file /\ unsaved' = unsaved /\ provider' = provider
      BY <1>3, <2>1, <2>2, <2>3 DEF ServeJson
    <3> QED  BY <2>1, <3>1 DEF FileFollowsTree, Load
  <2>4. CASE saves # << >>
    <3>1. file' = {root'}  BY <1>3, <2>1, <2>2, <2>4 DEF ServeJson
    <3>2. Load' = root'
      <4>1. (CHOOSE u \in {root'} : TRUE) = root'  OBVIOUS
      <4> QED  BY <3>1, <4>1 DEF Load
    <3> QED  BY <2>1, <3>1, <3>2 DEF FileFollowsTree
  <2> QED  BY <2>3, <2>4
<1>4. ASSUME NEW r \in Requests, SaveFails(r) PROVE Inv'
  <2>1. PICK k \in 1..Len(Saves(root, r)) :
            root' = Saves(root, r)[k] /\ file' \in Interrupted(r, k)
    BY <1>4 DEF SaveFails
  <2>2. GoodTree(root')  BY <2>1, SavesGood
  <2>3. \A t \in file' : GoodTree(t) /\ file' = {t}  BY <2>1, InterruptedGood
  <2>4. unsaved' = TRUE  BY <1>4 DEF SaveFails
  <2> QED  BY <2>2, <2>3, <2>4 DEF FileFollowsTree
<1>5. ASSUME NEW r \in Requests, DiesSaving(r) PROVE Inv'
  <2>1. PICK k \in 1..Len(Saves(root, r)) :
            file' \in Interrupted(r, k) \cup {{Saves(root, r)[k]}}
    BY <1>5 DEF DiesSaving
  <2>2. \A t \in file' : GoodTree(t) /\ file' = {t}  BY <2>1, InterruptedGood
  <2>3. GoodTree(Load')
    <3>1. CASE file' = {}  BY <3>1, EmptyTreeGood DEF Load
    <3>2. CASE file' # {}
      <4>1. (CHOOSE t \in file' : TRUE) \in file'  BY <3>2
      <4> QED  BY <2>2, <3>2, <4>1 DEF Load
    <3> QED  BY <3>1, <3>2
  <2>4. root' = Load'  BY <1>5 DEF DiesSaving
  <2> QED  BY <2>2, <2>3, <2>4 DEF FileFollowsTree
<1>6. CASE Restart
  <2>1. file' = file /\ provider' = provider /\ Load' = Load  BY <1>6 DEF Restart, Load
  <2>2. GoodTree(root')  BY <1>6, LoadGood, EmptyTreeGood DEF Restart
  <2>3. provider = "json-file" => root' = Load  BY <1>6 DEF Restart
  <2> QED  BY <2>1, <2>2, <2>3 DEF FileFollowsTree
<1>7. CASE Ask \/ UNCHANGED vars  BY <1>7 DEF Ask, vars, FileFollowsTree, Load
<1> QED  BY <1>1, <1>2, <1>3, <1>4, <1>5, <1>6, <1>7 DEF Next, Serves

\* Whatever is requested, at the root and of things inside one another too,
\* and whichever saves fail or are cut short: the tree and what a restart
\* would read are trees, every entry in a directory.
THEOREM TreesStayWellFormed == Spec => []TreesWellFormed
<1>1. Inv => TreesWellFormed  BY LoadGood DEF Inv, GoodTree, TreesWellFormed
<1> QED  BY InitInv, NextInv, <1>1, PTL DEF Spec

\* Unless a save has failed, a restart finds the tree that requests were
\* answered from, for every sequence of operations.
THEOREM FileAlwaysFollows == Spec => []FileFollowsTree
<1>1. Inv => FileFollowsTree  BY DEF Inv
<1> QED  BY InitInv, NextInv, <1>1, PTL DEF Spec

----------------------------------------------------------------------------
\* A move.

\* Nothing is at or under two places that are apart.
LEMMA ApartFacts ==
  ASSUME NEW s \in Places, NEW d \in Places, NEW q \in Places,
         Apart(s, d), AtOrUnder(d, q)
  PROVE  ~AtOrUnder(s, q)
<1> SUFFICES ASSUME AtOrUnder(s, q) PROVE FALSE  OBVIOUS
<1>1. Len(s) \in Nat /\ Len(d) \in Nat  BY DEF Places
<1>2. CASE Len(s) <= Len(d)
  <2>1. \A i \in 1..Len(s) : i \in 1..Len(d)  BY <1>1, <1>2
  <2> QED  BY <1>2, <2>1 DEF AtOrUnder, Apart
<1>3. CASE Len(d) <= Len(s)
  <2>1. \A i \in 1..Len(d) : i \in 1..Len(s)  BY <1>1, <1>3
  <2> QED  BY <1>3, <2>1 DEF AtOrUnder, Apart
<1> QED  BY <1>1, <1>2, <1>3

\* What t has at and under s is in u at and under p, and what t has elsewhere
\* than at s and d is in u too.
Keeps(t, u, s, d, p) ==
    /\ \A x \in Subtree(t, s) : Rebase(s, p, x) \in DOMAIN u /\ u[Rebase(s, p, x)] = t[x]
    /\ \A x \in DOMAIN t :
          ~AtOrUnder(s, x) /\ ~AtOrUnder(d, x) => x \in DOMAIN u /\ u[x] = t[x]

\* The copy has the source at the destination, and spares the rest.
LEMMA GraftKeeps ==
  ASSUME NEW t, GoodTree(t), NEW s \in DOMAIN t, NEW d \in Places
  PROVE  Keeps(t, Overlay(Prune(t, d), Cloned(t, s, d)), s, d, d)
<1> DEFINE pruned == Prune(t, d)
           clone  == Cloned(t, s, d)
           u      == Overlay(pruned, clone)
<1>1. s \in Places  BY GoodEntry
<1>2. DOMAIN clone = {Rebase(s, d, x) : x \in Subtree(t, s)}  BY DEF Cloned
<1>3. ASSUME NEW x \in Subtree(t, s)
      PROVE  /\ Rebase(s, d, x) \in DOMAIN clone
             /\ clone[Rebase(s, d, x)] = t[x]
             /\ AtOrUnder(d, Rebase(s, d, x))
  <2>1. x \in DOMAIN t /\ x \in Places /\ AtOrUnder(s, x)
    BY GoodEntry DEF Subtree
  <2>2. Rebase(s, d, x) \in DOMAIN clone  BY <1>2
  <2>3. AtOrUnder(d, Rebase(s, d, x))  BY <1>1, <2>1, RebaseFacts
  <2>4. clone[Rebase(s, d, x)] = t[Rebase(d, s, Rebase(s, d, x))]
    BY <2>2 DEF Cloned
  <2> QED  BY <1>1, <2>1, <2>2, <2>3, <2>4, RebaseBack
<1>4. \A x \in DOMAIN t : ~AtOrUnder(d, x) => x \in DOMAIN pruned /\ pruned[x] = t[x]
  BY DEF Prune, Subtree
<1>5. u = [q \in DOMAIN pruned \cup DOMAIN clone |->
              IF q \in DOMAIN clone THEN clone[q] ELSE pruned[q]]
  BY DEF Overlay
<1> HIDE DEF pruned, clone, u
<1>6. \A x \in Subtree(t, s) : Rebase(s, d, x) \in DOMAIN u /\ u[Rebase(s, d, x)] = t[x]
  BY <1>3, <1>5
<1>7. ASSUME NEW x \in DOMAIN t, ~AtOrUnder(d, x)
      PROVE  x \in DOMAIN u /\ u[x] = t[x]
  <2>1. x \notin DOMAIN clone  BY <1>2, <1>3, <1>7
  <2> QED  BY <1>4, <1>5, <1>7, <2>1
<1>8. Keeps(t, u, s, d, d)  BY <1>6, <1>7 DEF Keeps
<1> QED  BY <1>8 DEF u, pruned, clone

\* Removing the source afterwards takes nothing of the copy.
LEMMA PruneKeeps ==
  ASSUME NEW t, GoodTree(t), NEW u, NEW s \in Places, NEW d \in Places,
         Apart(s, d), Keeps(t, u, s, d, d)
  PROVE  Keeps(t, Prune(u, s), s, d, d)
<1>1. \A q \in DOMAIN u : ~AtOrUnder(s, q) => q \in DOMAIN Prune(u, s) /\ Prune(u, s)[q] = u[q]
  BY DEF Prune, Subtree
<1>2. ASSUME NEW x \in Subtree(t, s)
      PROVE  Rebase(s, d, x) \in DOMAIN Prune(u, s) /\ Prune(u, s)[Rebase(s, d, x)] = t[x]
  <2>1. x \in Places /\ AtOrUnder(s, x)  BY GoodEntry DEF Subtree
  <2>2. Rebase(s, d, x) \in Places /\ AtOrUnder(d, Rebase(s, d, x))
    BY <2>1, RebaseFacts
  <2>3. ~AtOrUnder(s, Rebase(s, d, x))  BY <2>2, ApartFacts
  <2> QED  BY <1>1, <2>3 DEF Keeps
<1> QED  BY <1>1, <1>2 DEF Keeps

\* Each tree that a move saves keeps everything.
LEMMA MoveKeeps ==
  ASSUME NEW t, GoodTree(t), NEW s \in Paths \ {Root}, s \in DOMAIN t,
         NEW d \in Paths \ {Root}, Apart(s, d)
  PROVE  LET saves == Saves(t, [op |-> "move", path |-> s, dest |-> d]) IN
         \A k \in 1..Len(saves) : Keeps(t, saves[k], s, d, d)
<1> DEFINE r      == [op |-> "move", path |-> s, dest |-> d]
           cloned == Copy(t, s, d)
           u      == Overlay(Prune(t, d), Cloned(t, s, d))
           final  == Remove(cloned.tree, s, TRUE)
<1>1. s \in Places /\ d \in Places  BY PathsArePlaces
<1>2. Slot(s) = s /\ Slot(d) = d  BY DEF Slot
<1>3. cloned.answer = "ok" => cloned.tree = u
  BY <1>2 DEF Copy, Refused, Done
<1>4. Keeps(t, u, s, d, d)  BY <1>1, GraftKeeps
<1>5. Apply(t, r) = IF cloned.answer = "ok" THEN final ELSE cloned
  BY DEF Apply, Move
<1>6. Saves(t, r) = (IF cloned.answer = "ok" THEN <<cloned.tree>> ELSE << >>)
                      \o (IF Apply(t, r).answer = "ok" THEN <<Apply(t, r).tree>> ELSE << >>)
  BY DEF Saves
<1>7. final.answer = "ok" => final.tree = Prune(cloned.tree, s)
  BY <1>2 DEF Remove, Refused, Done
<1> HIDE DEF r, cloned, u, final
<1>8. CASE cloned.answer = "ok" /\ final.answer = "ok"
  <2>1. Saves(t, r) = <<u, Prune(u, s)>>  BY <1>3, <1>5, <1>6, <1>7, <1>8, JoinFacts
  <2>2. Keeps(t, Prune(u, s), s, d, d)  BY <1>1, <1>4, PruneKeeps
  <2> QED  BY <1>4, <2>1, <2>2 DEF r
<1>9. CASE cloned.answer = "ok" /\ final.answer # "ok"
  <2>1. Saves(t, r) = <<u>>  BY <1>3, <1>5, <1>6, <1>9
  <2> QED  BY <1>4, <2>1 DEF r
<1>10. CASE cloned.answer # "ok"
  <2>1. Saves(t, r) = << >>  BY <1>5, <1>6, <1>10
  <2> QED  BY <2>1 DEF r
<1> QED  BY <1>8, <1>9, <1>10

\* A move to a place apart from its source loses nothing, whichever of its
\* saves is the last, for all trees, names, contents and depths.
THEOREM MovesLoseNothing == Spec => []MoveLosesNothing
<1>1. Inv => MoveLosesNothing
  <2> SUFFICES ASSUME GoodTree(root), NEW s \in (Paths \ {Root}) \cap DOMAIN root,
                      NEW d \in Paths \ {Root}, Apart(s, d),
                      NEW k \in 1..Len(Saves(root, [op |-> "move", path |-> s, dest |-> d]))
               PROVE  Keeps(root, Saves(root, [op |-> "move", path |-> s, dest |-> d])[k], s, d, d)
    BY DEF Inv, MoveLosesNothing, Keeps
  <2> QED  BY MoveKeeps
<1> QED  BY InitInv, NextInv, <1>1, PTL DEF Spec

----------------------------------------------------------------------------
(* The S3 provider. *)

\* Of numbers that are not none there is a least.
LEMMA LeastNumber ==
  ASSUME NEW T, T \subseteq Nat, T # {}
  PROVE  \E x \in T : \A y \in T : x <= y
<1>1. PICK x \in T : \A y \in T : ~(<<y, x>> \in OpToRel(<, Nat))
  BY NatLessThanWellFounded, WFMin
<1>2. \A y \in T : ~(y < x)
  BY <1>1 DEF OpToRel
<1> QED BY <1>2

\* The order of the keys is total.
LEMMA NoKeyBeforeItself ==
  ASSUME NEW k \in Places
  PROVE  ~KeyBefore(k, k)
<1> SUFFICES ASSUME NEW i \in 1..Len(k), i <= Len(k) => NameOrder[k[i]] < NameOrder[k[i]]
             PROVE  FALSE
  BY DEF KeyBefore
<1>1. Len(k) \in Nat /\ k[i] \in Names \cup {Unnamed}
  BY DEF Places
<1> QED BY <1>1, S3Assumption

\* Of two keys one is before the other.
LEMMA KeysAreOrdered ==
  ASSUME NEW j \in Places, NEW k \in Places, j # k
  PROVE  KeyBefore(j, k) \/ KeyBefore(k, j)
<1> DEFINE T == {i \in 1..(Len(j) + Len(k) + 1) : i > Len(j) \/ i > Len(k) \/ j[i] # k[i]}
<1>1. Len(j) \in Nat /\ Len(k) \in Nat
  BY DEF Places
<1>2. PICK i \in T : \A n \in T : i <= n
  <2>1. Len(j) + Len(k) + 1 \in T
    BY <1>1
  <2>2. T \subseteq Nat
    BY <1>1
  <2> HIDE DEF T
  <2> QED BY <2>1, <2>2, LeastNumber
<1>3. \A n \in 1..(i - 1) : n <= Len(j) /\ n <= Len(k) /\ j[n] = k[n]
  BY <1>1, <1>2
<1>4. i <= Len(j) + 1 /\ i <= Len(k) + 1 /\ i \in Nat /\ i >= 1
  <2>1. i = 1 \/ i - 1 \in 1..(i - 1)
    BY <1>1
  <2> QED BY <1>1, <1>3, <2>1
<1>5. CASE i > Len(j) /\ i > Len(k)
  <2>1. Len(j) = Len(k) /\ \A n \in 1..Len(j) : j[n] = k[n]
    BY <1>1, <1>3, <1>4, <1>5
  <2> QED BY <2>1, SeqEqual DEF Places
<1>6. CASE i > Len(j) /\ i <= Len(k)
  BY <1>1, <1>3, <1>4, <1>6 DEF KeyBefore
<1>7. CASE i <= Len(j) /\ i > Len(k)
  BY <1>1, <1>3, <1>4, <1>7 DEF KeyBefore
<1>8. CASE i <= Len(j) /\ i <= Len(k)
  <2>1. j[i] # k[i] /\ j[i] \in Names \cup {Unnamed} /\ k[i] \in Names \cup {Unnamed}
    BY <1>1, <1>2, <1>4, <1>8 DEF Places
  <2>2. NameOrder[j[i]] < NameOrder[k[i]] \/ NameOrder[k[i]] < NameOrder[j[i]]
    <3>1. NameOrder[j[i]] \in Nat /\ NameOrder[k[i]] \in Nat /\ NameOrder[j[i]] # NameOrder[k[i]]
      BY <2>1, S3Assumption
    <3> QED BY <3>1
  <2> QED BY <1>1, <1>3, <1>4, <1>8, <2>2 DEF KeyBefore
<1> QED BY <1>1, <1>4, <1>5, <1>6, <1>7, <1>8

\* What is before a key is before what comes after it.
LEMMA KeyOrderIsTransitive ==
  ASSUME NEW h \in Places, NEW j \in Places, NEW k \in Places, KeyBefore(h, j), KeyBefore(j, k)
  PROVE  KeyBefore(h, k)
<1>1. Len(h) \in Nat /\ Len(j) \in Nat /\ Len(k) \in Nat
  BY DEF Places
<1>2. PICK m \in 1..Len(j) : /\ m <= Len(h) + 1 /\ \A n \in 1..(m - 1) : h[n] = j[n]
                             /\ m <= Len(h) => NameOrder[h[m]] < NameOrder[j[m]]
  BY DEF KeyBefore
<1>3. PICK i \in 1..Len(k) : /\ i <= Len(j) + 1 /\ \A n \in 1..(i - 1) : j[n] = k[n]
                             /\ i <= Len(j) => NameOrder[j[i]] < NameOrder[k[i]]
  BY DEF KeyBefore
<1>4. CASE m < i
  <2>1. m \in 1..Len(k) /\ m \in 1..(i - 1)
    BY <1>1, <1>2, <1>3, <1>4
  <2>2. j[m] = k[m] /\ \A n \in 1..(m - 1) : n \in 1..(i - 1)
    BY <1>1, <1>3, <1>4, <2>1
  <2>3. \A n \in 1..(m - 1) : h[n] = k[n]
    BY <1>2, <1>3, <2>2
  <2> QED BY <1>2, <2>1, <2>2, <2>3 DEF KeyBefore
<1>5. CASE i < m
  <2>1. i <= Len(h) + 1 /\ i <= Len(j) /\ h[i] = j[i] /\ \A n \in 1..(i - 1) : h[n] = k[n]
    BY <1>1, <1>2, <1>3, <1>5
  <2> QED BY <1>3, <2>1 DEF KeyBefore
<1>6. CASE i = m
  <2>1. \A n \in 1..(i - 1) : h[n] = k[n]
    BY <1>1, <1>2, <1>3, <1>6
  <2>2. ASSUME i <= Len(h) PROVE NameOrder[h[i]] < NameOrder[k[i]]
    <3>1. h[i] \in Names \cup {Unnamed} /\ j[i] \in Names \cup {Unnamed} /\ k[i] \in Names \cup {Unnamed}
      BY <1>1, <1>2, <1>3, <1>6, <2>2 DEF Places
    <3>2. NameOrder[h[i]] < NameOrder[j[i]] /\ NameOrder[j[i]] < NameOrder[k[i]]
      BY <1>2, <1>3, <1>6, <2>2
    <3>3. NameOrder[h[i]] \in Nat /\ NameOrder[j[i]] \in Nat /\ NameOrder[k[i]] \in Nat
      BY <3>1, S3Assumption
    <3> QED BY <3>2, <3>3
  <2> QED BY <1>2, <1>3, <1>6, <2>1, <2>2 DEF KeyBefore
<1> QED BY <1>1, <1>4, <1>5, <1>6
\* A set of keys that is not empty and finite has a first and a last one.
LEMMA FirstKey ==
  ASSUME NEW keys \in SUBSET Places, IsFiniteSet(keys), keys # {}
  PROVE  FirstOf(keys) \in keys /\ \A j \in keys \ {FirstOf(keys)} : KeyBefore(FirstOf(keys), j)
<1> DEFINE Below(k) == {j \in keys : KeyBefore(j, k)}
           T == {Cardinality(Below(k)) : k \in keys}
<1>1. \A k \in keys : IsFiniteSet(Below(k)) /\ Cardinality(Below(k)) \in Nat
  <2> TAKE k \in keys
  <2>1. Below(k) \in SUBSET keys
    OBVIOUS
  <2>2. IsFiniteSet(Below(k))
    BY <2>1, FS_Subset
  <2> QED BY <2>2, FS_CardinalityType
<1>2. PICK k \in keys : \A j \in keys : Cardinality(Below(k)) <= Cardinality(Below(j))
  <2>1. T \subseteq Nat /\ T # {}
    BY <1>1
  <2>2. PICK x \in T : \A y \in T : x <= y
    <3> HIDE DEF T
    <3> QED BY <2>1, LeastNumber
  <2> QED BY <2>2
<1>3. ASSUME NEW j \in keys, KeyBefore(j, k) PROVE FALSE
  <2>1. Below(j) \in SUBSET Below(k)
    BY <1>3, KeyOrderIsTransitive
  <2>2. j \in Below(k) /\ j \notin Below(j)
    BY <1>3, NoKeyBeforeItself
  <2>3. Cardinality(Below(j)) <= Cardinality(Below(k)) /\ Cardinality(Below(k)) # Cardinality(Below(j))
    <3> HIDE DEF Below
    <3> QED BY <1>1, <2>1, <2>2, FS_Subset
  <2> HIDE DEF Below
  <2> QED BY <1>1, <1>2, <2>3
<1>4. \A j \in keys \ {k} : KeyBefore(k, j)
  BY <1>3, KeysAreOrdered
<1> QED BY <1>4 DEF FirstOf

\* And a last one.
LEMMA LastKey ==
  ASSUME NEW keys \in SUBSET Places, IsFiniteSet(keys), keys # {}
  PROVE  LastOf(keys) \in keys /\ \A j \in keys \ {LastOf(keys)} : KeyBefore(j, LastOf(keys))
<1> DEFINE Above(k) == {j \in keys : KeyBefore(k, j)}
           T == {Cardinality(Above(k)) : k \in keys}
<1>1. \A k \in keys : IsFiniteSet(Above(k)) /\ Cardinality(Above(k)) \in Nat
  <2> TAKE k \in keys
  <2>1. Above(k) \in SUBSET keys
    OBVIOUS
  <2>2. IsFiniteSet(Above(k))
    BY <2>1, FS_Subset
  <2> QED BY <2>2, FS_CardinalityType
<1>2. PICK k \in keys : \A j \in keys : Cardinality(Above(k)) <= Cardinality(Above(j))
  <2>1. T \subseteq Nat /\ T # {}
    BY <1>1
  <2>2. PICK x \in T : \A y \in T : x <= y
    <3> HIDE DEF T
    <3> QED BY <2>1, LeastNumber
  <2> QED BY <2>2
<1>3. ASSUME NEW j \in keys, KeyBefore(k, j) PROVE FALSE
  <2>1. Above(j) \in SUBSET Above(k)
    BY <1>3, KeyOrderIsTransitive
  <2>2. j \in Above(k) /\ j \notin Above(j)
    BY <1>3, NoKeyBeforeItself
  <2>3. Cardinality(Above(j)) <= Cardinality(Above(k)) /\ Cardinality(Above(k)) # Cardinality(Above(j))
    <3> HIDE DEF Above
    <3> QED BY <1>1, <2>1, <2>2, FS_Subset
  <2> HIDE DEF Above
  <2> QED BY <1>1, <1>2, <2>3
<1>4. \A j \in keys \ {k} : KeyBefore(j, k)
  BY <1>3, KeysAreOrdered
<1> QED BY <1>4 DEF LastOf

\* A page is an initial part of what is left, and empty only when nothing is.
LEMMA PageFacts ==
  ASSUME NEW left \in SUBSET Places, IsFiniteSet(left)
  PROVE  /\ PageOf(left) \subseteq left /\ IsFiniteSet(PageOf(left))
         /\ PageOf(left) = {} => left = {}
         /\ PageOf(left) # left =>
              /\ LastOf(PageOf(left)) \in PageOf(left)
              /\ \A k \in left \ PageOf(left) : KeyBefore(LastOf(PageOf(left)), k)
<1> DEFINE Below(k) == {j \in left : KeyBefore(j, k)}
<1>0. PageOf(left) = {k \in left : Cardinality(Below(k)) < PageSize}
  BY DEF PageOf
<1>1. \A k \in left : IsFiniteSet(Below(k)) /\ Cardinality(Below(k)) \in Nat
  <2> TAKE k \in left
  <2>1. Below(k) \in SUBSET left
    OBVIOUS
  <2>2. IsFiniteSet(Below(k))
    BY <2>1, FS_Subset
  <2> QED BY <2>2, FS_CardinalityType
<1>2. PageOf(left) \in SUBSET left /\ IsFiniteSet(PageOf(left))
  BY <1>0, FS_Subset
<1>3. ASSUME left # {} PROVE PageOf(left) # {}
  <2>1. FirstOf(left) \in left /\ \A j \in left \ {FirstOf(left)} : KeyBefore(FirstOf(left), j)
    BY <1>3, FirstKey
  <2>2. Below(FirstOf(left)) = {}
    <3> SUFFICES ASSUME NEW j \in left, KeyBefore(j, FirstOf(left)) PROVE FALSE
      OBVIOUS
    <3>1. KeyBefore(j, j)
      BY <2>1, KeyOrderIsTransitive
    <3> QED BY <3>1, NoKeyBeforeItself
  <2>3. Cardinality(Below(FirstOf(left))) = 0
    BY <2>2, FS_EmptySet
  <2> HIDE DEF Below
  <2> QED BY <1>0, <2>1, <2>3, S3Assumption
<1>4. ASSUME PageOf(left) # left
      PROVE  /\ LastOf(PageOf(left)) \in PageOf(left)
             /\ \A k \in left \ PageOf(left) : KeyBefore(LastOf(PageOf(left)), k)
  <2> DEFINE last == LastOf(PageOf(left))
  <2>1. last \in PageOf(left)
    <3>1. left # {}
      BY <1>2, <1>4
    <3> QED BY <1>2, <1>3, <3>1, LastKey
  <2>2. ASSUME NEW k \in left \ PageOf(left) PROVE KeyBefore(last, k)
    <3>1. k # last /\ k \in left /\ last \in left
      BY <1>2, <2>1, <2>2
    <3> SUFFICES ASSUME KeyBefore(k, last) PROVE FALSE
      BY <3>1, KeysAreOrdered
    <3>2. Below(k) \in SUBSET Below(last)
      BY <3>1, KeyOrderIsTransitive
    <3> HIDE DEF last
    <3>3. Cardinality(Below(last)) < PageSize /\ ~(Cardinality(Below(k)) < PageSize)
      BY <1>0, <2>1, <2>2
    <3> HIDE DEF Below
    <3>4. Cardinality(Below(k)) <= Cardinality(Below(last))
      BY <1>1, <3>1, <3>2, FS_Subset
    <3> QED BY <1>1, <3>1, <3>3, <3>4, S3Assumption
  <2> QED BY <2>1, <2>2
<1> QED BY <1>2, <1>3, <1>4

\* The calls of a copy, of a recursive removal, and of one that is not.
CopyStages   == {"head", "copyFile", "listCopy", "copyKey"}
DeleteStages == {"listDelete", "deletePage", "deleteKey"}
PlainStages  == {"check", "deleteMarker", "deleteFile"}

Transporting(c) == req[c].op \in {"copy", "move"}
Plain(c)   == req[c].op = "remove" /\ ~req[c].recursive

\* A request that goes through keys, and ones that go through a directory's.
RemovesAll(c) == req[c].op = "move" \/ (req[c].op = "remove" /\ req[c].recursive)

\* The values that the variables take.
S3Types ==
  /\ IsFiniteSet(DOMAIN bucket) /\ DOMAIN bucket \subseteq Places
  /\ req \in [Callers -> S3Requests \cup {[op |-> "none"]}]
  /\ at \in [Callers -> {Idle} \cup Calls \cup Closed]
  /\ page \in [Callers -> SUBSET Places]
  /\ token \in [Callers -> Places]
  /\ fails \in Nat
  /\ before = [c \in Callers |-> before[c]]
  /\ \A c \in Callers : DOMAIN before[c] \subseteq Places
  /\ touched \in [Callers -> SUBSET Places]

\* A request is at a call of its operation.
StageInv(c) ==
  /\ at[c] # Idle => req[c] \in S3Requests
  /\ at[c] \in CopyStages => Transporting(c)
  /\ at[c] \in DeleteStages => RemovesAll(c)
  /\ at[c] \in PlainStages => Plain(c)
  /\ at[c] = "put" => req[c].op \in {"writeFile", "mkdir"}

\* A page is of keys under the path, and there is one only where its keys are gone through.
PageInv(c) ==
  /\ IsFiniteSet(page[c])
  /\ page[c] # {} => at[c] \notin {Idle, "head", "copyFile", "put"} \cup PlainStages
  /\ at[c] = "copyKey" => page[c] # {}
  /\ \A k \in page[c] : Len(k) > Len(req[c].path) /\ AtOrUnder(req[c].path, k)
  /\ at[c] \in {Idle, "head", "copyFile"} => token[c] = << >>

\* The keys a request has yet to list, or to copy or delete.
Ahead(c, k) ==
  \/ at[c] \in {"listCopy", "listDelete"} /\ KeyBefore(token[c], k)
  \/ at[c] \in {"copyKey", "deletePage"} /\ (k \in page[c] \/ (token[c] # << >> /\ KeyBefore(token[c], k)))

There(c, k) == Holds(Lands(c, k), before[c][k])
Here(c, k)  == Holds(k, before[c][k])

\* While it copies, what a request carries is where it was, and what is not
\* ahead has arrived; once it deletes, all of it has.
CarryInv(c) ==
  Transfers(c) =>
    /\ at[c] \in CopyStages => (SourceKey(c) \in DOMAIN bucket <=> SourceKey(c) \in DOMAIN before[c])
    /\ at[c] \in {"listCopy", "copyKey"} => SourceKey(c) \notin DOMAIN before[c]
    /\ at[c] = "copyFile" => SourceKey(c) \in DOMAIN before[c]
    /\ \A k \in Cargo(c) \ touched[c] : at[c] \in CopyStages => Here(c, k)
    /\ \A k \in Untouched(c) :
          /\ at[c] \in {"listCopy", "copyKey"} => There(c, k) \/ Ahead(c, k)
          /\ at[c] \in DeleteStages \cup {"ok"} => There(c, k)
          /\ at[c] \in Closed => Here(c, k) \/ There(c, k)

\* A request that removes a directory, as long as no call fails, has ahead what
\* is left of it.
GoneInv(c) ==
  fails = 0 /\ at[c] # Idle /\ RemovesAll(c) =>
    /\ \A k \in KeysUnder(before[c], req[c].path) \ touched[c] :
          at[c] \in DeleteStages /\ k \in DOMAIN bucket => Ahead(c, k)
    /\ at[c] = "ok" =>
          (KeysUnder(before[c], req[c].path) \cup {SourceKey(c)}) \cap DOMAIN bucket \subseteq touched[c]

\* A plain removal goes on only where nothing but the marker is under the path.
ShallowInv(c) ==
  at[c] # Idle /\ Plain(c) =>
    \A k \in KeysUnder(before[c], req[c].path) \ (touched[c] \cup {Marker(req[c].path)}) :
       Here(c, k) /\ at[c] \notin {"deleteMarker", "deleteFile", "ok"}

\* What holds of every request at every moment.
S3Inv ==
  /\ S3Types
  /\ \A c \in Callers : StageInv(c) /\ PageInv(c) /\ CarryInv(c) /\ GoneInv(c) /\ ShallowInv(c)

----------------------------------------------------------------------------
\* What a request asks for.
LEMMA RequestShape ==
  ASSUME NEW r \in S3Requests
  PROVE  /\ r.path \in Places /\ r.path # Root /\ Len(r.path) \in Nat \ {0}
         /\ r.op \in {"writeFile", "mkdir", "remove", "copy", "move"}
         /\ r.op \in {"copy", "move"} => r.dest \in Places /\ r.dest # Root
         /\ r.op = "remove" => r.recursive \in BOOLEAN
<1>1. \A p \in Paths \ {Root} : p \in Places /\ p # Root /\ Len(p) \in Nat \ {0}
  <2> TAKE p \in Paths \ {Root}
  <2>1. p \in Places
    BY PathsArePlaces
  <2> QED BY <2>1, ParentFacts DEF Places
<1>2. r.path \in Paths \ {Root}
  BY DEF S3Requests
<1>3. r.op \in {"writeFile", "mkdir", "remove", "copy", "move"}
  BY DEF S3Requests
<1>4. r.op \in {"copy", "move"} => r.dest \in Paths \ {Root}
  BY DEF S3Requests
<1>5. r.op = "remove" => r.recursive \in BOOLEAN
  BY DEF S3Requests
<1> QED BY <1>1, <1>2, <1>3, <1>4, <1>5

\* What is at or under the source goes elsewhere, each key to a place of its own.
LEMMA RebasedApart ==
  ASSUME NEW s \in Places, NEW d \in Places, NEW q \in Places, AtOrUnder(s, q)
  PROVE  /\ Rebase(s, d, q) \in Places
         /\ S3Apart(s, d) => ~AtOrUnder(s, Rebase(s, d, q))
         /\ \A x \in Places : AtOrUnder(s, x) /\ Rebase(s, d, x) = Rebase(s, d, q) => x = q
<1>1. Rebase(s, d, q) \in Places /\ AtOrUnder(d, Rebase(s, d, q))
  BY RebaseFacts
<1>2. S3Apart(s, d) => ~AtOrUnder(s, Rebase(s, d, q))
  BY <1>1, ApartFacts DEF S3Apart, Apart
<1>3. ASSUME NEW x \in Places, AtOrUnder(s, x), Rebase(s, d, x) = Rebase(s, d, q)
      PROVE  x = q
  <2>1. Rebase(d, s, Rebase(s, d, x)) = x
    BY <1>3, RebaseBack
  <2>2. Rebase(d, s, Rebase(s, d, q)) = q
    BY RebaseBack
  <2> QED BY <1>3, <2>1, <2>2
<1> QED BY <1>1, <1>2, <1>3

\* The marker of a directory is a key under it.
LEMMA MarkerFacts ==
  ASSUME NEW p \in Places
  PROVE  Marker(p) \in Places /\ Len(Marker(p)) = Len(p) + 1 /\ AtOrUnder(p, Marker(p)) /\ AtOrUnder(p, p)
BY DEF Marker, Places, AtOrUnder

\* With its slash or without, a path is the name of a key at or under it.
LEMMA ToKeyFacts ==
  ASSUME NEW p \in Places, NEW slash
  PROVE  ToKey(p, slash) \in Places /\ AtOrUnder(p, ToKey(p, slash))
BY MarkerFacts DEF ToKey

\* The keys a request is about are those of what it asks for.
LEMMA SameKeys ==
  ASSUME NEW c \in Callers, req'[c] = req[c], before'[c] = before[c]
  PROVE  /\ SourceKey(c)' = SourceKey(c) /\ DestKey(c)' = DestKey(c)
         /\ \A k : Lands(c, k)' = Lands(c, k)
<1>1. SourceKey(c)' = SourceKey(c) /\ DestKey(c)' = DestKey(c)
  BY DEF SourceKey, DestKey, ToKey, Marker
<1> QED BY <1>1 DEF Lands

\* The token a listing begins with is before every key.
LEMMA EmptyIsFirst ==
  ASSUME NEW k \in Places, Len(k) > 0
  PROVE  KeyBefore(<< >>, k)
<1>1. 1 \in 1..Len(k)
  BY DEF Places
<1>2. Len(<< >>) = 0
  OBVIOUS
<1> QED BY <1>1, <1>2 DEF KeyBefore

\* A step leaves the key alone.
SameKey(k) ==
  /\ k \in DOMAIN bucket' <=> k \in DOMAIN bucket
  /\ k \in DOMAIN bucket => bucket'[k] = bucket[k]

\* Another request's step does not disturb d: what it changes is in touched.
LEMMA OthersKeep ==
  ASSUME S3Inv, NEW d \in Callers, req'[d] = req[d], before'[d] = before[d],
         at'[d] = at[d], page'[d] = page[d], token'[d] = token[d],
         touched[d] \subseteq touched'[d], \A k : k \notin touched'[d] => SameKey(k),
         fails' \in Nat, fails <= fails'
  PROVE  StageInv(d)' /\ PageInv(d)' /\ CarryInv(d)' /\ GoneInv(d)' /\ ShallowInv(d)'
<1> USE DEF S3Inv
<1>1. StageInv(d)' /\ PageInv(d)'
  BY DEF StageInv, PageInv, Transporting, RemovesAll, Plain
<1>2. \A k, v : k \notin touched'[d] => (Holds(k, v)' <=> Holds(k, v))
  BY DEF Holds, SameKey
<1>3. \A k : Ahead(d, k)' <=> Ahead(d, k)
  BY DEF Ahead
<1>0. SourceKey(d)' = SourceKey(d) /\ \A k : Lands(d, k)' = Lands(d, k)
  BY SameKeys
<1>4. CarryInv(d)'
  <2> SUFFICES ASSUME Transfers(d)' PROVE CarryInv(d)'
    BY DEF CarryInv
  <2>1. Transfers(d) /\ CarryInv(d)
    BY <1>0 DEF Transfers
  <2>2. Cargo(d)' = Cargo(d) /\ (Cargo(d) \ touched[d])' \subseteq Cargo(d) \ touched[d]
    BY <1>0 DEF Cargo
  <2>3. ASSUME NEW k \in Untouched(d)'
        PROVE  /\ k \in Untouched(d) /\ k \notin touched'[d]
               /\ Lands(d, k) \notin touched'[d]
    BY <1>0, <2>2, <2>3 DEF Untouched
  <2>4. SourceKey(d) \notin touched'[d]
    BY <1>0 DEF Transfers
  <2>5. at[d] \in CopyStages => (SourceKey(d) \in DOMAIN bucket' <=> SourceKey(d) \in DOMAIN before[d])
    BY <2>1, <2>4 DEF CarryInv, SameKey
  <2>6. \A k \in (Cargo(d) \ touched[d])' : at[d] \in CopyStages => Here(d, k)'
    BY <1>2, <2>1, <2>2 DEF CarryInv, Here
  <2>7. ASSUME NEW k \in Untouched(d)'
        PROVE  /\ at[d] \in {"listCopy", "copyKey"} => There(d, k)' \/ Ahead(d, k)'
               /\ at[d] \in DeleteStages \cup {"ok"} => There(d, k)'
               /\ at[d] \in Closed => Here(d, k)' \/ There(d, k)'
    <3>1. /\ There(d, k)' <=> There(d, k)
          /\ Here(d, k)' <=> Here(d, k)
      BY <1>0, <1>2, <2>3, <2>7 DEF There, Here
    <3> QED BY <1>3, <2>1, <2>3, <2>7, <3>1 DEF CarryInv
  <2> QED BY <1>0, <2>1, <2>5, <2>6, <2>7 DEF CarryInv
<1>5. GoneInv(d)'
  <2> SUFFICES ASSUME fails' = 0, at[d] # Idle, RemovesAll(d) PROVE GoneInv(d)'
    BY DEF GoneInv, RemovesAll
  <2>1. fails = 0
    BY DEF S3Types
  <2>2. \A k \in KeysUnder(before[d], req[d].path) \ touched'[d] :
          at[d] \in DeleteStages /\ k \in DOMAIN bucket' => Ahead(d, k)'
    BY <1>3, <2>1 DEF GoneInv, SameKey
  <2>3. at[d] = "ok" =>
          (KeysUnder(before[d], req[d].path) \cup {SourceKey(d)}) \cap DOMAIN bucket' \subseteq touched'[d]
    BY <2>1 DEF GoneInv, SameKey
  <2>4. KeysUnder(before[d], req[d].path)' = KeysUnder(before[d], req[d].path)
    BY DEF KeysUnder
  <2> QED BY <1>0, <2>2, <2>3, <2>4 DEF GoneInv
<1>6. ShallowInv(d)'
  BY <1>2 DEF ShallowInv, Plain, Here
<1> QED BY <1>1, <1>4, <1>5, <1>6

\* What a step that writes or deletes keys leaves alone.
LEMMA BecomesFacts ==
  ASSUME S3Types, NEW c \in Callers, NEW b, NEW ks, Becomes(c, b, ks), ks \subseteq Places,
         IsFiniteSet(DOMAIN b), DOMAIN b \subseteq DOMAIN bucket \cup ks,
         \A k : k \notin ks => /\ k \in DOMAIN b <=> k \in DOMAIN bucket
                               /\ k \in DOMAIN bucket => b[k] = bucket[k]
  PROVE  /\ IsFiniteSet(DOMAIN bucket') /\ DOMAIN bucket' \subseteq Places
         /\ touched' \in [Callers -> SUBSET Places] /\ touched'[c] = touched[c]
         /\ \A k : k \notin ks => SameKey(k)
         /\ \A d \in Callers \ {c} : touched[d] \subseteq touched'[d] /\ \A k : k \notin touched'[d] => SameKey(k)
<1>1. bucket' = b /\ touched' = [d \in Callers |-> IF d = c THEN touched[d] ELSE touched[d] \cup ks]
  BY DEF Becomes
<1>2. \A d \in Callers : touched[d] \subseteq Places
  BY DEF S3Types
<1>3. /\ touched' \in [Callers -> SUBSET Places] /\ touched'[c] = touched[c]
      /\ \A d \in Callers \ {c} : touched'[d] = touched[d] \cup ks
  BY <1>1, <1>2
<1>4. \A k : k \notin ks => SameKey(k)
  BY <1>1 DEF SameKey
<1> QED BY <1>1, <1>3, <1>4 DEF S3Types

\* Keys are deleted.
LEMMA WithoutFacts ==
  ASSUME S3Types, NEW ks, NEW b, b = Without(ks)
  PROVE  /\ DOMAIN b = DOMAIN bucket \ ks
         /\ IsFiniteSet(DOMAIN b) /\ DOMAIN b \subseteq DOMAIN bucket \cup ks
         /\ \A k : k \notin ks => /\ k \in DOMAIN b <=> k \in DOMAIN bucket
                                  /\ k \in DOMAIN bucket => b[k] = bucket[k]
<1>1. DOMAIN b = DOMAIN bucket \ ks /\ \A k \in DOMAIN bucket \ ks : b[k] = bucket[k]
  BY DEF Without
<1>2. IsFiniteSet(DOMAIN bucket \ ks)
  BY FS_Subset DEF S3Types
<1> QED BY <1>1, <1>2

\* What c's calls change of the bucket: the keys they write or delete, which
\* are touched for the others.
Effect(c, ks) ==
  /\ IsFiniteSet(DOMAIN bucket') /\ DOMAIN bucket' \subseteq Places
  /\ touched' \in [Callers -> SUBSET Places] /\ touched'[c] = touched[c]
  /\ \A k : k \notin ks => SameKey(k)
  /\ \A d \in Callers \ {c} : touched[d] \subseteq touched'[d] /\ \A k : k \notin touched'[d] => SameKey(k)

\* A call that only reads changes no key.
LEMMA KeptEffect ==
  ASSUME S3Types, NEW c \in Callers, Kept
  PROVE  Effect(c, {})
BY DEF Kept, Effect, S3Types, SameKey

\* PutObject and CopyObject change the key they write.
LEMMA PutEffect ==
  ASSUME S3Types, NEW c \in Callers, NEW n \in Places, NEW v, Becomes(c, Put(bucket, n, v), {n})
  PROVE  Effect(c, {n}) /\ Holds(n, v)'
<1>1. PICK b : b = Put(bucket, n, v)
  OBVIOUS
<1>2. /\ DOMAIN b = DOMAIN bucket \cup {n} /\ b[n] = v
      /\ IsFiniteSet(DOMAIN b) /\ DOMAIN b \subseteq DOMAIN bucket \cup {n}
      /\ \A k : k \notin {n} => /\ k \in DOMAIN b <=> k \in DOMAIN bucket
                                /\ k \in DOMAIN bucket => b[k] = bucket[k]
  <2>1. /\ DOMAIN b = DOMAIN bucket \cup {n} /\ b[n] = v
        /\ \A k \in DOMAIN bucket \ {n} : b[k] = bucket[k]
    BY <1>1 DEF Put, Overlay
  <2>2. IsFiniteSet(DOMAIN bucket \cup {n})
    BY FS_AddElement DEF S3Types
  <2> QED BY <2>1, <2>2
<1>3. Becomes(c, b, {n}) /\ bucket' = b
  BY <1>1 DEF Becomes
<1>4. Effect(c, {n})
  BY <1>2, <1>3, BecomesFacts DEF Effect
<1> QED BY <1>2, <1>3, <1>4 DEF Holds

\* A deletion changes the keys it deletes.
LEMMA WithoutEffect ==
  ASSUME S3Types, NEW c \in Callers, NEW ks \in SUBSET Places, Becomes(c, Without(ks), ks)
  PROVE  Effect(c, ks) /\ DOMAIN bucket' = DOMAIN bucket \ ks
<1>1. PICK b : b = Without(ks)
  OBVIOUS
<1>2. /\ DOMAIN b = DOMAIN bucket \ ks
      /\ IsFiniteSet(DOMAIN b) /\ DOMAIN b \subseteq DOMAIN bucket \cup ks
      /\ \A k : k \notin ks => /\ k \in DOMAIN b <=> k \in DOMAIN bucket
                               /\ k \in DOMAIN bucket => b[k] = bucket[k]
  BY <1>1, WithoutFacts
<1>3. Becomes(c, b, ks) /\ bucket' = b
  BY <1>1 DEF Becomes
<1> QED BY <1>2, <1>3, BecomesFacts DEF Effect

\* What a listing leaves: a page, and what comes after it.
LEMMA TakesPageFacts ==
  ASSUME S3Inv, NEW c \in Callers, req[c] \in S3Requests, TakesPage(c)
  PROVE  /\ page' = [page EXCEPT ![c] = page'[c]] /\ token' = [token EXCEPT ![c] = token'[c]]
         /\ IsFiniteSet(page'[c]) /\ page'[c] \in SUBSET Places /\ token'[c] \in Places
         /\ \A k \in page'[c] : k \in DOMAIN bucket /\ Len(k) > Len(req[c].path) /\ AtOrUnder(req[c].path, k)
         /\ page'[c] = {} => token'[c] = << >>
         /\ \A k \in DOMAIN bucket :
              Len(k) > Len(req[c].path) /\ AtOrUnder(req[c].path, k) /\ KeyBefore(token[c], k) =>
                k \in page'[c] \/ (token'[c] # << >> /\ KeyBefore(token'[c], k))
<1> DEFINE left == LeftAfter(req[c].path, token[c])
           p == PageOf(left)
<1>1. left \in SUBSET DOMAIN bucket /\ left \in SUBSET Places /\ IsFiniteSet(left)
  <2>1. left \in SUBSET DOMAIN bucket
    BY DEF LeftAfter, KeysUnder
  <2> QED BY <2>1, FS_Subset DEF S3Inv, S3Types
<1>2. /\ p \subseteq left /\ IsFiniteSet(p)
      /\ p = {} => left = {}
      /\ p # left => LastOf(p) \in p /\ \A k \in left \ p : KeyBefore(LastOf(p), k)
  <2> HIDE DEF left
  <2> QED BY <1>1, PageFacts
<1>3. /\ page \in [Callers -> SUBSET Places] /\ token \in [Callers -> Places]
  BY DEF S3Inv, S3Types
<1>4. /\ page' = [page EXCEPT ![c] = p]
      /\ token' = [token EXCEPT ![c] = IF p = left THEN << >> ELSE LastOf(p)]
  BY DEF TakesPage
<1>5. \A k \in left : Len(k) > Len(req[c].path) /\ AtOrUnder(req[c].path, k)
  BY DEF LeftAfter, KeysUnder
<1>6. \A k \in DOMAIN bucket :
        Len(k) > Len(req[c].path) /\ AtOrUnder(req[c].path, k) /\ KeyBefore(token[c], k) => k \in left
  BY DEF LeftAfter, KeysUnder
<1> HIDE DEF left
<1> HIDE DEF p
<1>7. page'[c] = p /\ token'[c] = IF p = left THEN << >> ELSE LastOf(p)
  BY <1>3, <1>4
<1>8. p # left => LastOf(p) # << >>
  <2> SUFFICES ASSUME p # left, LastOf(p) = << >> PROVE FALSE
    OBVIOUS
  <2>1. LastOf(p) \in left
    BY <1>2
  <2>2. Len(LastOf(p)) > Len(req[c].path) /\ Len(req[c].path) \in Nat
    BY <1>5, <2>1, RequestShape
  <2> QED BY <2>2
<1>9. token'[c] \in Places
  <2>1. << >> \in Places
    BY DEF Places
  <2> QED BY <1>1, <1>2, <1>7, <2>1
<1> QED BY <1>1, <1>2, <1>4, <1>5, <1>6, <1>7, <1>8, <1>9

\* c goes on to stage n with page p and token t.
GoesOn(c, n, p, t) ==
  /\ req' = req /\ before' = before
  /\ at' \in [Callers -> {Idle} \cup Calls \cup Closed] /\ at'[c] = n
  /\ page' \in [Callers -> SUBSET Places] /\ page'[c] = p
  /\ token' \in [Callers -> Places] /\ token'[c] = t
  /\ \A d \in Callers \ {c} : at'[d] = at[d] /\ page'[d] = page[d] /\ token'[d] = token[d]
  /\ fails' \in Nat /\ fails <= fails'

\* A call that lists nothing leaves the page and the token as they are.
LEMMA GoesOnFacts ==
  ASSUME S3Inv, NEW c \in Callers, at[c] \in Calls, NEW n \in Calls \cup Closed, Goes(c, n),
         fails' \in Nat, fails <= fails', UNCHANGED <<page, token>>
  PROVE  GoesOn(c, n, page[c], token[c])
BY DEF Goes, GoesOn, S3Inv, S3Types

\* One that lists takes a page and its token.
LEMMA GoesOnPaging ==
  ASSUME S3Inv, NEW c \in Callers, at[c] \in Calls, NEW n \in Calls \cup Closed, Goes(c, n),
         fails' \in Nat, fails <= fails', NEW p \in SUBSET Places, NEW t \in Places,
         page' = [page EXCEPT ![c] = p], token' = [token EXCEPT ![c] = t]
  PROVE  GoesOn(c, n, p, t)
BY DEF Goes, GoesOn, S3Inv, S3Types

\* The invariant after c's call, given what it is for c.
LEMMA OwnStepInv ==
  ASSUME S3Inv, NEW c \in Callers, NEW ks, Effect(c, ks), NEW n, NEW p, NEW t, GoesOn(c, n, p, t),
         StageInv(c)', PageInv(c)', CarryInv(c)', GoneInv(c)', ShallowInv(c)'
  PROVE  S3Inv'
<1>1. S3Types'
  BY DEF S3Inv, S3Types, Effect, GoesOn
<1>2. \A d \in Callers \ {c} : StageInv(d)' /\ PageInv(d)' /\ CarryInv(d)' /\ GoneInv(d)' /\ ShallowInv(d)'
  BY OthersKeep DEF Effect, GoesOn
<1> QED BY <1>1, <1>2 DEF S3Inv

\* What is known of a request at one of its calls.
LEMMA CallFacts ==
  ASSUME S3Inv, NEW c \in Callers, at[c] \in Calls
  PROVE  /\ req[c] \in S3Requests /\ req[c].path \in Places /\ Len(req[c].path) \in Nat \ {0}
         /\ SourceKey(c) \in Places /\ AtOrUnder(req[c].path, SourceKey(c))
         /\ req[c].op \in {"copy", "move"} => req[c].dest \in Places /\ DestKey(c) \in Places
         /\ req[c].op = "remove" => req[c].recursive \in BOOLEAN
         /\ StageInv(c) /\ PageInv(c) /\ CarryInv(c) /\ GoneInv(c) /\ ShallowInv(c)
         /\ page[c] \in SUBSET Places /\ token[c] \in Places /\ fails \in Nat
<1>1. StageInv(c) /\ at[c] # Idle
  BY DEF S3Inv, Calls, Idle
<1>2. req[c] \in S3Requests
  BY <1>1 DEF StageInv
<1>3. SourceKey(c) \in Places /\ AtOrUnder(req[c].path, SourceKey(c))
  BY <1>2, RequestShape, ToKeyFacts DEF SourceKey
<1>4. req[c].op \in {"copy", "move"} => req[c].dest \in Places /\ DestKey(c) \in Places
  BY <1>2, RequestShape, ToKeyFacts DEF DestKey
<1> QED BY <1>1, <1>2, <1>3, <1>4, RequestShape DEF S3Inv, S3Types

\* A transfer after c's call is the transfer it was.
LEMMA SameTransfer ==
  ASSUME S3Inv, NEW c \in Callers, at[c] \in Calls, NEW ks, Effect(c, ks), NEW n, NEW p, NEW t, GoesOn(c, n, p, t)
  PROVE  /\ Transfers(c)' => Transfers(c)
         /\ Cargo(c)' = Cargo(c) /\ Untouched(c)' = Untouched(c)
         /\ \A k, v : k \notin ks => (Holds(k, v)' <=> Holds(k, v))
         /\ \A k : k \notin ks => (Here(c, k)' <=> Here(c, k))
         /\ \A k : Lands(c, k) \notin ks => (There(c, k)' <=> There(c, k))
         /\ SourceKey(c)' = SourceKey(c) /\ \A k : Lands(c, k)' = Lands(c, k)
<1>1. at[c] # Idle /\ req' = req /\ before' = before /\ touched'[c] = touched[c]
  BY DEF Calls, Idle, Effect, GoesOn
<1>0. SourceKey(c)' = SourceKey(c) /\ \A k : Lands(c, k)' = Lands(c, k)
  BY <1>1, SameKeys
<1>2. Transfers(c)' => Transfers(c)
  BY <1>0, <1>1 DEF Transfers, KeysUnder
<1>3. Cargo(c)' = Cargo(c)
  BY <1>0, <1>1 DEF Cargo, KeysUnder
<1>4. Untouched(c)' = Untouched(c)
  BY <1>0, <1>1, <1>3 DEF Untouched
<1>5. \A k, v : k \notin ks => (Holds(k, v)' <=> Holds(k, v))
  BY DEF Effect, SameKey, Holds
<1> QED BY <1>0, <1>1, <1>2, <1>3, <1>4, <1>5 DEF Here, There

\* What a transfer carries is at or under its path, and goes elsewhere.
LEMMA CargoFacts ==
  ASSUME S3Inv, NEW c \in Callers, at[c] \in Calls, Transfers(c)
  PROVE  /\ req[c].path \in Places /\ req[c].dest \in Places /\ S3Apart(req[c].path, req[c].dest)
         /\ SourceKey(c) \in Places /\ AtOrUnder(req[c].path, SourceKey(c))
         /\ \A k \in Cargo(c) : k \in Places /\ AtOrUnder(req[c].path, k) /\ ~AtOrUnder(req[c].path, Lands(c, k))
         /\ \A j, k \in Places : AtOrUnder(req[c].path, k) /\ AtOrUnder(req[c].path, j) /\ j # k =>
              Rebase(req[c].path, req[c].dest, j) # Rebase(req[c].path, req[c].dest, k)
<1>1. /\ req[c].path \in Places /\ req[c].dest \in Places /\ S3Apart(req[c].path, req[c].dest)
      /\ SourceKey(c) \in Places /\ AtOrUnder(req[c].path, SourceKey(c))
      /\ DOMAIN before[c] \subseteq Places
  BY CallFacts DEF Transfers, S3Inv, S3Types
<1>2. ~AtOrUnder(req[c].path, DestKey(c))
  <2>1. DestKey(c) \in Places /\ AtOrUnder(req[c].dest, DestKey(c))
    BY <1>1, ToKeyFacts DEF DestKey
  <2> QED BY <1>1, <2>1, ApartFacts DEF S3Apart, Apart
<1>3. ASSUME NEW k \in Cargo(c) PROVE k \in Places /\ AtOrUnder(req[c].path, k)
  BY <1>1, <1>3 DEF Cargo, KeysUnder
<1>4. ASSUME NEW k \in Cargo(c) PROVE ~AtOrUnder(req[c].path, Lands(c, k))
  <2>1. ~AtOrUnder(req[c].path, Rebase(req[c].path, req[c].dest, k))
    BY <1>1, <1>3, <1>4, RebasedApart
  <2> QED BY <1>2, <2>1 DEF Lands
<1>5. \A j, k \in Places : AtOrUnder(req[c].path, k) /\ AtOrUnder(req[c].path, j) /\ j # k =>
        Rebase(req[c].path, req[c].dest, j) # Rebase(req[c].path, req[c].dest, k)
  BY <1>1, RebasedApart
<1> QED BY <1>1, <1>3, <1>4, <1>5

----------------------------------------------------------------------------
\* The calls, one by one.
LEMMA PutObjectKeeps ==
  ASSUME S3Inv, NEW c \in Callers, PutObject(c)
  PROVE  S3Inv'
<1>1. at[c] = "put" /\ at[c] \in Calls /\ UNCHANGED <<page, token, fails>> /\ Goes(c, "ok")
  BY DEF PutObject, Calls
<1>2. /\ req[c].path \in Places /\ SourceKey(c) \in Places /\ StageInv(c) /\ PageInv(c) /\ fails \in Nat
  BY <1>1, CallFacts
<1>3. PICK n \in Places : Effect(c, {n})
  <2>1. Marker(req[c].path) \in Places
    BY <1>2, MarkerFacts
  <2>2. PICK n \in Places : \E v : Becomes(c, Put(bucket, n, v), {n})
    BY <1>2, <2>1 DEF PutObject
  <2> QED BY <2>2, PutEffect DEF S3Inv
<1>4. GoesOn(c, "ok", page[c], token[c])
  BY <1>1, <1>2, GoesOnFacts DEF Closed
<1>5. ~Transporting(c) /\ ~Plain(c) /\ ~RemovesAll(c)
  BY <1>1, <1>2 DEF StageInv, Transporting, Plain, RemovesAll
<1>6. /\ StageInv(c)' /\ PageInv(c)'
  BY <1>1, <1>2, <1>4, <1>5, CallFacts DEF StageInv, PageInv, GoesOn, CopyStages, DeleteStages, PlainStages, Idle, Transporting, Plain, RemovesAll
<1>7. CarryInv(c)' /\ GoneInv(c)' /\ ShallowInv(c)'
  BY <1>4, <1>5 DEF CarryInv, Transfers, GoneInv, ShallowInv, GoesOn, Transporting, Plain, RemovesAll
<1> QED BY <1>3, <1>4, <1>6, <1>7, OwnStepInv

\* A copy learns whether its source is a file.
LEMMA HeadSourceKeeps ==
  ASSUME S3Inv, NEW c \in Callers, HeadSource(c)
  PROVE  S3Inv'
<1> DEFINE n == IF SourceKey(c) \in DOMAIN bucket THEN "copyFile" ELSE "listCopy"
<1>1. /\ at[c] = "head" /\ at[c] \in Calls /\ UNCHANGED <<page, token, fails>> /\ Goes(c, n) /\ Kept
      /\ n \in {"copyFile", "listCopy"} /\ n \in Calls \cup Closed
  BY DEF HeadSource, Calls
<1>2. /\ req[c].path \in Places /\ Len(req[c].path) \in Nat \ {0}
      /\ StageInv(c) /\ PageInv(c) /\ CarryInv(c) /\ fails \in Nat /\ req[c] \in S3Requests
  BY <1>1, CallFacts
<1>3. Effect(c, {})
  BY <1>1, KeptEffect DEF S3Inv
<1>4. GoesOn(c, n, page[c], token[c])
  BY <1>1, <1>2, GoesOnFacts
<1>5. Transporting(c) /\ page[c] = {} /\ token[c] = << >>
  BY <1>1, <1>2 DEF StageInv, PageInv, CopyStages
<1> HIDE DEF n
<1>6. StageInv(c)' /\ PageInv(c)'
  BY <1>1, <1>2, <1>4, <1>5 DEF StageInv, PageInv, GoesOn, CopyStages, DeleteStages, PlainStages, Idle, Transporting
<1>7. GoneInv(c)' /\ ShallowInv(c)'
  BY <1>1, <1>4, <1>5 DEF GoneInv, ShallowInv, GoesOn, Transporting, Plain, DeleteStages
<1>8. CarryInv(c)'
  <2> SUFFICES ASSUME Transfers(c)' PROVE CarryInv(c)'
    BY DEF CarryInv
  <2>1. /\ Transfers(c) /\ Cargo(c)' = Cargo(c) /\ Untouched(c)' = Untouched(c)
        /\ \A k : (Here(c, k)' <=> Here(c, k)) /\ (There(c, k)' <=> There(c, k))
        /\ SourceKey(c)' = SourceKey(c)
    BY <1>1, <1>3, <1>4, SameTransfer
  <2>2. /\ bucket' = bucket /\ touched' = touched /\ req' = req /\ before' = before /\ at'[c] = n /\ token'[c] = << >>
    BY <1>1, <1>4, <1>5 DEF Kept, GoesOn
  <2>3. \A k \in Untouched(c) : n = "listCopy" => Ahead(c, k)'
    <3> TAKE k \in Untouched(c)
    <3>1. k \in Places /\ AtOrUnder(req[c].path, k)
      BY <1>1, <2>1, CargoFacts DEF Untouched
    <3>2. Len(k) > 0
      BY <1>2, <3>1 DEF AtOrUnder, Places
    <3> QED BY <2>2, <3>1, <3>2, EmptyIsFirst DEF Ahead
  <2>4. SourceKey(c) \in DOMAIN bucket <=> SourceKey(c) \in DOMAIN before[c]
    BY <1>1, <1>2, <2>1 DEF CarryInv, CopyStages
  <2>5. \A k \in Cargo(c) \ touched[c] : Here(c, k)
    BY <1>1, <1>2, <2>1 DEF CarryInv, CopyStages
  <2>6. n = "copyFile" <=> SourceKey(c) \in DOMAIN bucket
    BY DEF n
  <2> QED BY <1>1, <2>1, <2>2, <2>3, <2>4, <2>5, <2>6 DEF CarryInv, DeleteStages, Closed
<1> QED BY <1>3, <1>4, <1>6, <1>7, <1>8, OwnStepInv

\* A request cut short leaves what it was to carry where it was, or has it there.
LEMMA CallFailsKeeps ==
  ASSUME S3Inv, NEW c \in Callers, CallFails(c)
  PROVE  S3Inv'
<1> DEFINE n == IF at[c] = "deleteKey" THEN "ok" ELSE "failed"
<1>1. /\ at[c] \in Calls /\ UNCHANGED <<page, token>> /\ Goes(c, n) /\ Kept /\ fails' = fails + 1
      /\ n \in {"ok", "failed"} /\ n \in Calls \cup Closed /\ (n = "ok" <=> at[c] = "deleteKey")
  BY DEF CallFails, Closed
<1>2. /\ StageInv(c) /\ PageInv(c) /\ CarryInv(c) /\ ShallowInv(c) /\ fails \in Nat /\ req[c] \in S3Requests
  BY <1>1, CallFacts
<1>3. Effect(c, {})
  BY <1>1, KeptEffect DEF S3Inv
<1>4. GoesOn(c, n, page[c], token[c])
  BY <1>1, <1>2, GoesOnFacts
<1> HIDE DEF n
<1>6. StageInv(c)' /\ PageInv(c)'
  BY <1>1, <1>2, <1>4 DEF StageInv, PageInv, GoesOn, CopyStages, DeleteStages, PlainStages, Idle
<1>7. GoneInv(c)'
  BY <1>1, <1>2 DEF GoneInv
<1>8. ShallowInv(c)'
  <2>1. \A k : Here(c, k)' <=> Here(c, k)
    BY <1>1, <1>3, <1>4, SameTransfer
  <2>2. Plain(c) => n = "failed"
    BY <1>1, <1>2 DEF StageInv, DeleteStages, Plain, RemovesAll
  <2>3. KeysUnder(before[c], req[c].path)' = KeysUnder(before[c], req[c].path)
    BY <1>4 DEF KeysUnder, GoesOn
  <2>4. at[c] # Idle /\ touched'[c] = touched[c] /\ req' = req /\ before' = before /\ at'[c] = n
    BY <1>1, <1>3, <1>4 DEF Calls, Idle, Effect, GoesOn
  <2> QED BY <1>2, <2>1, <2>2, <2>3, <2>4 DEF ShallowInv, Plain
<1>9. CarryInv(c)'
  <2> SUFFICES ASSUME Transfers(c)' PROVE CarryInv(c)'
    BY DEF CarryInv
  <2>1. /\ Transfers(c) /\ Cargo(c)' = Cargo(c) /\ Untouched(c)' = Untouched(c)
        /\ \A k : (Here(c, k)' <=> Here(c, k)) /\ (There(c, k)' <=> There(c, k))
    BY <1>1, <1>3, <1>4, SameTransfer
  <2>2. at[c] \in CopyStages \cup DeleteStages
    BY <1>1, <1>2, <2>1 DEF StageInv, Transfers, Calls, CopyStages, DeleteStages, PlainStages, Plain
  <2>3. \A k \in Untouched(c) : k \in Cargo(c) \ touched[c]
    BY DEF Untouched
  <2>4. \A k \in Untouched(c) : Here(c, k) \/ There(c, k)
    BY <1>2, <2>1, <2>2, <2>3 DEF CarryInv
  <2>5. n = "ok" => \A k \in Untouched(c) : There(c, k)
    BY <1>1, <1>2, <2>1 DEF CarryInv, DeleteStages
  <2>6. at'[c] = n
    BY <1>4 DEF GoesOn
  <2> QED BY <1>1, <2>1, <2>4, <2>5, <2>6 DEF CarryInv, CopyStages, DeleteStages
<1> QED BY <1>3, <1>4, <1>6, <1>7, <1>8, <1>9, OwnStepInv

\* At the first listing everything is ahead.
LEMMA AllAhead ==
  ASSUME S3Inv, NEW c \in Callers, at[c] \in Calls, NEW ks, Effect(c, ks), NEW p, GoesOn(c, "listDelete", p, << >>)
  PROVE  GoneInv(c)'
<1>1. /\ req[c].path \in Places /\ Len(req[c].path) \in Nat \ {0}
  BY CallFacts
<1>2. \A k \in KeysUnder(before[c], req[c].path) : k \in Places /\ Len(k) > 0
  BY <1>1 DEF KeysUnder, S3Inv, S3Types
<1>3. at'[c] = "listDelete" /\ token'[c] = << >> /\ req' = req /\ before' = before
  BY DEF GoesOn
<1>4. \A k \in KeysUnder(before[c], req[c].path) : Ahead(c, k)'
  BY <1>2, <1>3, EmptyIsFirst DEF Ahead
<1>5. KeysUnder(before[c], req[c].path)' = KeysUnder(before[c], req[c].path)
  BY <1>3 DEF KeysUnder
<1> QED BY <1>3, <1>4, <1>5 DEF GoneInv

\* The source is a file, and is copied by one call.
LEMMA CopyFileKeeps ==
  ASSUME S3Inv, NEW c \in Callers, CopyFile(c)
  PROVE  S3Inv'
<1>1. at[c] = "copyFile" /\ at[c] \in Calls /\ UNCHANGED <<page, token, fails>>
  BY DEF CopyFile, Calls
<1>2. /\ req[c].path \in Places /\ req[c] \in S3Requests /\ Len(req[c].path) \in Nat \ {0}
      /\ StageInv(c) /\ PageInv(c) /\ CarryInv(c) /\ fails \in Nat
      /\ SourceKey(c) \in Places /\ (req[c].op \in {"copy", "move"} => DestKey(c) \in Places)
  BY <1>1, CallFacts
<1>3. Transporting(c) /\ page[c] = {} /\ token[c] = << >> /\ DestKey(c) \in Places
  BY <1>1, <1>2 DEF StageInv, PageInv, CopyStages, Transporting
<1>4. CASE SourceKey(c) \in DOMAIN bucket
  <2>1. PICK n \in {"listDelete", "ok"} : n = AfterCopy(c)
    BY DEF AfterCopy
  <2>0. PICK s \in Places, d \in Places : s = SourceKey(c) /\ d = DestKey(c)
    BY <1>2, <1>3
  <2>2. PICK v : v = bucket[s]
    OBVIOUS
  <2>3. Goes(c, n) /\ Becomes(c, Put(bucket, d, v), {d})
    BY <1>4, <2>1, <2>2, <2>0 DEF CopyFile
  <2>4. GoesOn(c, n, {}, << >>)
    <3>1. n \in Calls \cup Closed
      BY <2>1 DEF Calls, Closed
    <3>2. GoesOn(c, n, page[c], token[c])
      BY <1>1, <1>2, <2>3, <3>1, GoesOnFacts
    <3> QED BY <1>3, <3>2
  <2>5. Effect(c, {d}) /\ Holds(d, v)'
    BY <2>3, PutEffect DEF S3Inv
  <2>6. (n = "listDelete" <=> req[c].op = "move") /\ req[c].op \in {"copy", "move"}
    BY <1>3, <2>1 DEF AfterCopy, Transporting
  <2>7. StageInv(c)' /\ PageInv(c)'
    BY <1>2, <1>3, <2>4, <2>6 DEF StageInv, PageInv, GoesOn, CopyStages, DeleteStages, PlainStages, Idle, RemovesAll
  <2>8. GoneInv(c)'
    <3>1. CASE n = "listDelete"
      BY <1>1, <2>4, <2>5, <3>1, AllAhead
    <3>2. CASE n = "ok"
      BY <2>4, <2>6, <3>2 DEF GoneInv, RemovesAll, GoesOn
    <3> QED BY <3>1, <3>2
  <2>9. ShallowInv(c)'
    BY <2>4, <2>6 DEF ShallowInv, Plain, GoesOn
  <2>10. CarryInv(c)'
    <3> SUFFICES ASSUME Transfers(c)' PROVE CarryInv(c)'
      BY DEF CarryInv
    <3>1. Transfers(c) /\ Untouched(c)' = Untouched(c) /\ Lands(c, s)' = Lands(c, s)
      BY <1>1, <2>4, <2>5, SameTransfer
    <3>2. s \in DOMAIN before[c] /\ Cargo(c) = {s} /\ s \notin touched[c]
      BY <1>1, <1>2, <2>2, <2>0, <3>1 DEF CarryInv, Cargo, Transfers
    <3>3. Here(c, s)
      BY <1>1, <1>2, <3>1, <3>2 DEF CarryInv, CopyStages
    <3>4. There(c, s)'
      <4>1. Lands(c, s)' = d
        BY <2>0, <3>1, <3>2 DEF Lands
      <4>2. v = before[c][s]
        BY <2>2, <2>0, <3>3 DEF Here, Holds
      <4>3. req' = req /\ before' = before
        BY <2>4 DEF GoesOn
      <4> QED BY <2>5, <4>1, <4>2, <4>3 DEF There, Holds
    <3>5. \A k \in Untouched(c)' : There(c, k)'
      <4>1. \A k \in Untouched(c) : k = s
        BY <3>2 DEF Untouched
      <4> QED BY <3>1, <3>4, <4>1
    <3>6. at'[c] \in {"listDelete", "ok"}
      BY <2>4 DEF GoesOn
    <3> QED BY <3>5, <3>6 DEF CarryInv, CopyStages
  <2> QED BY <2>4, <2>5, <2>7, <2>8, <2>9, <2>10, OwnStepInv
<1>5. CASE SourceKey(c) \notin DOMAIN bucket
  <2>1. Kept /\ Goes(c, "listCopy")
    BY <1>5 DEF CopyFile
  <2>2. Effect(c, {})
    BY <2>1, KeptEffect DEF S3Inv
  <2>3. GoesOn(c, "listCopy", {}, << >>)
    <3>1. "listCopy" \in Calls \cup Closed
      BY DEF Calls
    <3>2. GoesOn(c, "listCopy", page[c], token[c])
      BY <1>1, <1>2, <2>1, <3>1, GoesOnFacts
    <3> QED BY <1>3, <3>2
  <2>4. StageInv(c)' /\ PageInv(c)'
    BY <1>2, <1>3, <2>3 DEF StageInv, PageInv, GoesOn, CopyStages, DeleteStages, PlainStages, Idle, Transporting
  <2>5. GoneInv(c)' /\ ShallowInv(c)'
    BY <1>3, <2>3 DEF GoneInv, ShallowInv, GoesOn, Transporting, Plain, DeleteStages
  <2>6. ~Transfers(c)'
    <3> SUFFICES ASSUME Transfers(c)' PROVE FALSE
      OBVIOUS
    <3>1. Transfers(c)
      BY <1>1, <2>2, <2>3, SameTransfer
    <3> QED BY <1>1, <1>2, <1>5, <3>1 DEF CarryInv, CopyStages
  <2>7. CarryInv(c)'
    BY <2>6 DEF CarryInv
  <2> QED BY <2>2, <2>3, <2>4, <2>5, <2>7, OwnStepInv
<1> QED BY <1>4, <1>5

\* What a listing leaves out is after its token, so still ahead.
LEMMA ListToCopyKeeps ==
  ASSUME S3Inv, NEW c \in Callers, ListToCopy(c)
  PROVE  S3Inv'
<1>1. at[c] = "listCopy" /\ at[c] \in Calls /\ UNCHANGED fails /\ Kept /\ TakesPage(c)
  BY DEF ListToCopy, Calls
<1>2. /\ req[c].path \in Places /\ req[c] \in S3Requests /\ Len(req[c].path) \in Nat \ {0}
      /\ StageInv(c) /\ CarryInv(c) /\ fails \in Nat
  BY <1>1, CallFacts
<1>3. PICK p \in SUBSET Places, t \in Places :
        /\ page' = [page EXCEPT ![c] = p] /\ token' = [token EXCEPT ![c] = t]
        /\ page'[c] = p /\ token'[c] = t
        /\ IsFiniteSet(p)
        /\ \A k \in p : k \in DOMAIN bucket /\ Len(k) > Len(req[c].path) /\ AtOrUnder(req[c].path, k)
        /\ p = {} => t = << >>
        /\ \A k \in DOMAIN bucket :
             Len(k) > Len(req[c].path) /\ AtOrUnder(req[c].path, k) /\ KeyBefore(token[c], k) =>
               k \in p \/ (t # << >> /\ KeyBefore(t, k))
  BY <1>1, <1>2, TakesPageFacts
<1>4. Transporting(c)
  BY <1>1, <1>2 DEF StageInv, CopyStages
<1>5. PICK n \in {"copyKey", "listDelete", "ok", "FileNotFound"} :
        /\ Goes(c, n) /\ (n = "copyKey" <=> p # {})
        /\ n = "listDelete" => req[c].op = "move"
        /\ n = "ok" => req[c].op = "copy"
  BY <1>3, <1>4 DEF ListToCopy, AfterCopy, Transporting
<1>6. GoesOn(c, n, p, t)
  <2>1. n \in Calls \cup Closed
    BY DEF Calls, Closed
  <2>2. page' = [page EXCEPT ![c] = p] /\ token' = [token EXCEPT ![c] = t]
    BY <1>3
  <2>3. fails' \in Nat /\ fails <= fails'
    BY <1>1, <1>2
  <2> QED BY <1>1, <1>5, <2>1, <2>2, <2>3, GoesOnPaging
<1>7. Effect(c, {})
  BY <1>1, KeptEffect DEF S3Inv
<1>8. StageInv(c)' /\ PageInv(c)'
  BY <1>2, <1>3, <1>4, <1>5, <1>6 DEF StageInv, PageInv, GoesOn, CopyStages, DeleteStages, PlainStages, Idle, Transporting, RemovesAll
<1>9. GoneInv(c)'
  <2>1. CASE n = "listDelete"
    BY <1>1, <1>3, <1>5, <1>6, <1>7, <2>1, AllAhead
  <2>2. CASE n # "listDelete"
    BY <1>4, <1>5, <1>6, <2>2 DEF GoneInv, RemovesAll, GoesOn, DeleteStages
  <2> QED BY <2>1, <2>2
<1>10. ShallowInv(c)'
  BY <1>4, <1>6 DEF ShallowInv, Plain, GoesOn, Transporting
<1>11. CarryInv(c)'
  <2> SUFFICES ASSUME Transfers(c)' PROVE CarryInv(c)'
    BY DEF CarryInv
  <2>1. /\ Transfers(c) /\ Cargo(c)' = Cargo(c) /\ Untouched(c)' = Untouched(c)
        /\ \A k : (Here(c, k)' <=> Here(c, k)) /\ (There(c, k)' <=> There(c, k))
        /\ SourceKey(c)' = SourceKey(c)
    BY <1>1, <1>6, <1>7, SameTransfer
  <2>2. SourceKey(c) \notin DOMAIN before[c] /\ SourceKey(c) \notin DOMAIN bucket
    BY <1>1, <1>2, <2>1 DEF CarryInv, CopyStages
  <2>3. \A k \in Cargo(c) \ touched[c] : Here(c, k)
    BY <1>1, <1>2, <2>1 DEF CarryInv, CopyStages
  <2>4. \A k \in Cargo(c) : Len(k) > Len(req[c].path) /\ AtOrUnder(req[c].path, k)
    BY <2>2 DEF Cargo, KeysUnder
  <2>5. \A k \in Untouched(c) : There(c, k) \/ k \in p \/ (t # << >> /\ KeyBefore(t, k))
    <3> TAKE k \in Untouched(c)
    <3>1. k \in Cargo(c) \ touched[c]
      BY DEF Untouched
    <3>2. k \in DOMAIN bucket
      BY <2>3, <3>1 DEF Here, Holds
    <3>3. There(c, k) \/ KeyBefore(token[c], k)
      BY <1>1, <1>2, <2>1 DEF CarryInv, Ahead
    <3> QED BY <1>3, <2>4, <3>1, <3>2, <3>3
  <2>6. /\ at'[c] = n /\ page'[c] = p /\ token'[c] = t /\ bucket' = bucket /\ touched' = touched
        /\ req' = req /\ before' = before
    BY <1>1, <1>6 DEF GoesOn, Kept
  <2>7. CASE n = "copyKey"
    <3>1. \A k \in Untouched(c) : There(c, k)' \/ Ahead(c, k)'
      BY <2>1, <2>5, <2>6, <2>7 DEF Ahead
    <3> QED BY <2>1, <2>2, <2>3, <2>6, <2>7, <3>1 DEF CarryInv, CopyStages, DeleteStages, Closed
  <2>8. CASE n # "copyKey"
    <3>1. \A k \in Untouched(c) : There(c, k)'
      BY <1>3, <1>5, <2>1, <2>5, <2>8
    <3> QED BY <1>5, <2>1, <2>6, <2>8, <3>1 DEF CarryInv, CopyStages, DeleteStages, Closed
  <2> QED BY <2>7, <2>8
<1> QED BY <1>6, <1>7, <1>8, <1>9, <1>10, <1>11, OwnStepInv

\* The first key of the page arrives, and no other copy is where it goes.
LEMMA CopyKeyKeeps ==
  ASSUME S3Inv, NEW c \in Callers, CopyKey(c)
  PROVE  S3Inv'
<1>1. at[c] = "copyKey" /\ at[c] \in Calls /\ UNCHANGED fails
  BY DEF CopyKey, Calls
<1>2. /\ req[c].path \in Places /\ req[c] \in S3Requests /\ Len(req[c].path) \in Nat \ {0}
      /\ StageInv(c) /\ PageInv(c) /\ CarryInv(c) /\ fails \in Nat
      /\ (req[c].op \in {"copy", "move"} => req[c].dest \in Places)
      /\ page[c] \in SUBSET Places /\ token[c] \in Places
  BY <1>1, CallFacts
<1>3. Transporting(c) /\ req[c].dest \in Places
  BY <1>1, <1>2 DEF StageInv, CopyStages, Transporting
<1>4. PICK k \in page[c] : k = FirstOf(page[c])
  <2>1. IsFiniteSet(page[c]) /\ page[c] # {}
    BY <1>1, <1>2 DEF PageInv
  <2> QED BY <1>2, <2>1, FirstKey
<1>5. k \in Places /\ AtOrUnder(req[c].path, k)
  BY <1>2 DEF PageInv
<1>0. PICK s \in Places, d \in Places, m \in Places :
        s = req[c].path /\ d = req[c].dest /\ m = Rebase(s, d, k)
  BY <1>2, <1>3, <1>5, RebasedApart
<1>6. PICK v : v = bucket[k]
  OBVIOUS
<1>7. CASE k \in DOMAIN bucket /\ Len(m) <= MaxKeyLen
  <2> DEFINE left == page[c] \ {k}
  <2>1. /\ Becomes(c, Put(bucket, m, v), {m})
        /\ page' = [page EXCEPT ![c] = left] /\ UNCHANGED token
        /\ Goes(c, AfterKey(c, page'[c]))
    BY <1>4, <1>6, <1>0, <1>7 DEF CopyKey
  <2>2. page'[c] = left /\ left \in SUBSET Places /\ IsFiniteSet(left)
    <3>1. page \in [Callers -> SUBSET Places] /\ IsFiniteSet(page[c])
      BY <1>2 DEF S3Inv, S3Types, PageInv
    <3>2. IsFiniteSet(page[c] \ {k})
      BY <3>1, FS_RemoveElement
    <3> QED BY <2>1, <3>1, <3>2
  <2> HIDE DEF left
  <2>3. PICK n \in {"copyKey", "listCopy", "listDelete", "ok"} :
          /\ n = AfterKey(c, left)
          /\ n = "copyKey" <=> left # {}
          /\ n = "listCopy" => token[c] # << >>
          /\ n \in {"listDelete", "ok"} => token[c] = << >>
          /\ n = "listDelete" => req[c].op = "move"
          /\ n = "ok" => req[c].op = "copy"
    BY <1>3 DEF AfterKey, AfterCopy, Transporting
  <2>4. GoesOn(c, n, left, token[c])
    <3>1. n \in Calls \cup Closed
      BY DEF Calls, Closed
    <3>2. token' = [token EXCEPT ![c] = token[c]]
      BY <2>1 DEF S3Inv, S3Types
    <3>3. Goes(c, n) /\ fails' \in Nat /\ fails <= fails'
      BY <1>1, <1>2, <2>1, <2>2, <2>3
    <3> QED BY <1>1, <1>2, <2>1, <2>2, <3>1, <3>2, <3>3, GoesOnPaging
  <2>5. Effect(c, {m}) /\ Holds(m, v)'
    BY <2>1, PutEffect DEF S3Inv
  <2>6. StageInv(c)'
    BY <1>2, <1>3, <2>3, <2>4 DEF StageInv, GoesOn, CopyStages, DeleteStages, PlainStages, Idle, Transporting, RemovesAll
  <2>7. PageInv(c)'
    <3>1. \A j \in left : Len(j) > Len(req[c].path) /\ AtOrUnder(req[c].path, j)
      BY <1>2 DEF PageInv, left
    <3> QED BY <2>2, <2>3, <2>4, <3>1 DEF PageInv, GoesOn, PlainStages, Idle
  <2>8. GoneInv(c)'
    <3>1. CASE n = "listDelete"
      BY <1>1, <2>3, <2>4, <2>5, <3>1, AllAhead
    <3>2. CASE n # "listDelete"
      BY <1>3, <2>3, <2>4, <3>2 DEF GoneInv, RemovesAll, GoesOn, DeleteStages
    <3> QED BY <3>1, <3>2
  <2>9. ShallowInv(c)'
    BY <1>3, <2>4 DEF ShallowInv, Plain, GoesOn, Transporting
  <2>10. CarryInv(c)'
    <3> SUFFICES ASSUME Transfers(c)' PROVE CarryInv(c)'
      BY DEF CarryInv
    <3>1. /\ Transfers(c) /\ Cargo(c)' = Cargo(c) /\ Untouched(c)' = Untouched(c)
          /\ \A j : j \notin {m} => (Here(c, j)' <=> Here(c, j))
          /\ \A j : Lands(c, j) \notin {m} => (There(c, j)' <=> There(c, j))
          /\ SourceKey(c)' = SourceKey(c) /\ \A j : Lands(c, j)' = Lands(c, j)
      BY <1>1, <2>4, <2>5, SameTransfer
    <3>10. /\ S3Apart(s, d) /\ AtOrUnder(s, SourceKey(c))
           /\ \A j \in Cargo(c) : j \in Places /\ AtOrUnder(s, j)
           /\ \A j, i \in Places : AtOrUnder(s, i) /\ AtOrUnder(s, j) /\ j # i => Rebase(s, d, j) # Rebase(s, d, i)
      BY <1>0, <1>1, <3>1, CargoFacts
    <3>11. AtOrUnder(s, k) /\ ~AtOrUnder(s, m)
      BY <1>0, <1>5, <3>10, RebasedApart
    <3>12. SourceKey(c) \notin DOMAIN before[c] /\ SourceKey(c) \notin DOMAIN bucket
      BY <1>1, <1>2, <3>1 DEF CarryInv, CopyStages
    <3>2. /\ AtOrUnder(s, k) /\ ~AtOrUnder(s, m) /\ AtOrUnder(s, SourceKey(c))
          /\ \A j \in Cargo(c) : j \in Places /\ AtOrUnder(s, j)
          /\ \A j \in Places : AtOrUnder(s, j) /\ j # k => Rebase(s, d, j) # m
          /\ \A j : Lands(c, j) = Rebase(s, d, j)
      BY <1>0, <1>5, <3>10, <3>11, <3>12 DEF Lands
    <3>3. SourceKey(c) \notin DOMAIN before[c] /\ SourceKey(c) \notin DOMAIN bucket /\ SourceKey(c) \notin DOMAIN bucket'
      <4>2. SourceKey(c) \notin {m}
        BY <3>2
      <4> QED BY <2>5, <3>12, <4>2 DEF Effect, SameKey
    <3>4. \A j \in Cargo(c) \ touched[c] : Here(c, j) /\ Here(c, j)'
      <4> TAKE j \in Cargo(c) \ touched[c]
      <4>1. Here(c, j)
        BY <1>1, <1>2, <3>1 DEF CarryInv, CopyStages
      <4>2. j \notin {m}
        BY <3>2
      <4> QED BY <3>1, <4>1, <4>2
    <3>5. /\ at'[c] = n /\ page'[c] = left /\ token'[c] = token[c] /\ touched'[c] = touched[c]
          /\ req' = req /\ before' = before
      BY <2>4, <2>5 DEF GoesOn, Effect
    <3>6. \A j \in Untouched(c) : There(c, j)' \/ (j # k /\ (j \in page[c] \/ (token[c] # << >> /\ KeyBefore(token[c], j))))
      <4> TAKE j \in Untouched(c)
      <4>1. j \in Cargo(c) \ touched[c]
        BY DEF Untouched
      <4>2. CASE j = k
        <5>1. v = before[c][k]
          BY <1>6, <3>4, <4>1, <4>2 DEF Here, Holds
        <5>2. Lands(c, k)' = m
          BY <1>0, <3>1, <3>2
        <5> QED BY <2>5, <3>5, <4>2, <5>1, <5>2 DEF There, Holds
      <4>3. CASE j # k
        <5>1. There(c, j)' <=> There(c, j)
          BY <3>1, <3>2, <4>1, <4>3
        <5>2. There(c, j) \/ Ahead(c, j)
          BY <1>1, <1>2, <3>1 DEF CarryInv
        <5> QED BY <1>1, <4>3, <5>1, <5>2 DEF Ahead
      <4> QED BY <4>2, <4>3
    <3>7. \A j \in Untouched(c) : There(c, j)' \/ (n \in {"copyKey", "listCopy"} /\ Ahead(c, j)')
      <4> TAKE j \in Untouched(c)
      <4>1. j \in page[c] /\ j # k => j \in left
        BY DEF left
      <4> QED BY <2>3, <3>5, <3>6, <4>1 DEF Ahead
    <3>8. CASE n \in {"copyKey", "listCopy"}
      BY <1>6, <1>0, <3>1, <3>3, <3>4, <3>5, <3>7, <3>8 DEF CarryInv, CopyStages, DeleteStages, Closed
    <3>9. CASE n \in {"listDelete", "ok"}
      BY <3>1, <3>5, <3>7, <3>9 DEF CarryInv, CopyStages
    <3> QED BY <2>3, <3>8, <3>9
  <2> QED BY <2>4, <2>5, <2>6, <2>7, <2>8, <2>9, <2>10, OwnStepInv
<1>8. CASE ~(k \in DOMAIN bucket /\ Len(m) <= MaxKeyLen)
  <2>1. Kept /\ Goes(c, "failed") /\ UNCHANGED <<page, token>>
    BY <1>4, <1>6, <1>0, <1>8 DEF CopyKey
  <2>2. Effect(c, {})
    BY <2>1, KeptEffect DEF S3Inv
  <2>3. GoesOn(c, "failed", page[c], token[c])
    BY <1>1, <1>2, <2>1, GoesOnFacts DEF Closed
  <2>4. StageInv(c)' /\ PageInv(c)'
    BY <1>2, <1>3, <2>3 DEF StageInv, PageInv, GoesOn, CopyStages, DeleteStages, PlainStages, Idle
  <2>5. GoneInv(c)' /\ ShallowInv(c)'
    BY <1>3, <2>3 DEF GoneInv, ShallowInv, GoesOn, Transporting, Plain, DeleteStages
  <2>6. CarryInv(c)'
    <3> SUFFICES ASSUME Transfers(c)' PROVE CarryInv(c)'
      BY DEF CarryInv
    <3>1. /\ Transfers(c) /\ Untouched(c)' = Untouched(c)
          /\ \A j : Here(c, j)' <=> Here(c, j)
      BY <1>1, <2>2, <2>3, SameTransfer
    <3>2. \A j \in Untouched(c) : Here(c, j)
      BY <1>1, <1>2, <3>1 DEF CarryInv, CopyStages, Untouched
    <3>3. at'[c] = "failed"
      BY <2>3 DEF GoesOn
    <3> QED BY <3>1, <3>2, <3>3 DEF CarryInv, CopyStages, DeleteStages
  <2> QED BY <2>2, <2>3, <2>4, <2>5, <2>6, OwnStepInv
<1> QED BY <1>7, <1>8

\* What is deleted under a transfer's path is not what it has carried.
LEMMA DeletesSpareCarried ==
  ASSUME S3Inv, NEW c \in Callers, at[c] \in DeleteStages, at[c] \in Calls, NEW ks, Effect(c, ks),
         NEW n \in DeleteStages \cup {"ok"}, NEW p, NEW t, GoesOn(c, n, p, t),
         \A k \in ks : AtOrUnder(req[c].path, k)
  PROVE  CarryInv(c)'
<1> SUFFICES ASSUME Transfers(c)' PROVE CarryInv(c)'
  BY DEF CarryInv
<1>2. /\ Transfers(c) /\ Untouched(c)' = Untouched(c)
      /\ \A k : Lands(c, k) \notin ks => (There(c, k)' <=> There(c, k))
  BY SameTransfer
<1>3. \A k \in Cargo(c) : Lands(c, k) \notin ks
  BY <1>2, CargoFacts
<1>4. \A k \in Untouched(c) : There(c, k)
  BY <1>2, CallFacts DEF CarryInv
<1>5. \A k \in Untouched(c) : There(c, k)'
  BY <1>2, <1>3, <1>4 DEF Untouched
<1>6. at'[c] = n
  BY DEF GoesOn
<1> QED BY <1>2, <1>5, <1>6 DEF CarryInv, CopyStages, DeleteStages

\* What a listing leaves out is after its token here too.
LEMMA ListToDeleteKeeps ==
  ASSUME S3Inv, NEW c \in Callers, ListToDelete(c)
  PROVE  S3Inv'
<1>1. at[c] = "listDelete" /\ at[c] \in Calls /\ UNCHANGED fails /\ Kept /\ TakesPage(c) /\ at[c] \in DeleteStages
  BY DEF ListToDelete, Calls, DeleteStages
<1>2. /\ req[c].path \in Places /\ req[c] \in S3Requests
      /\ StageInv(c) /\ GoneInv(c) /\ fails \in Nat
  BY <1>1, CallFacts
<1>3. PICK p \in SUBSET Places, t \in Places :
        /\ page' = [page EXCEPT ![c] = p] /\ token' = [token EXCEPT ![c] = t]
        /\ page'[c] = p /\ token'[c] = t
        /\ IsFiniteSet(p)
        /\ \A k \in p : k \in DOMAIN bucket /\ Len(k) > Len(req[c].path) /\ AtOrUnder(req[c].path, k)
        /\ p = {} => t = << >>
        /\ \A k \in DOMAIN bucket :
             Len(k) > Len(req[c].path) /\ AtOrUnder(req[c].path, k) /\ KeyBefore(token[c], k) =>
               k \in p \/ (t # << >> /\ KeyBefore(t, k))
  BY <1>1, <1>2, TakesPageFacts
<1>4. RemovesAll(c)
  BY <1>1, <1>2 DEF StageInv
<1>5. PICK n \in {"deletePage", "deleteKey"} : Goes(c, n) /\ (n = "deletePage" <=> p # {})
  BY <1>3 DEF ListToDelete
<1>6. GoesOn(c, n, p, t)
  <2>1. n \in Calls \cup Closed
    BY DEF Calls, Closed
  <2>2. page' = [page EXCEPT ![c] = p] /\ token' = [token EXCEPT ![c] = t]
    BY <1>3
  <2>3. fails' \in Nat /\ fails <= fails'
    BY <1>1, <1>2
  <2> QED BY <1>1, <1>5, <2>1, <2>2, <2>3, GoesOnPaging
<1>7. Effect(c, {})
  BY <1>1, KeptEffect DEF S3Inv
<1>8. StageInv(c)' /\ PageInv(c)'
  BY <1>2, <1>3, <1>4, <1>5, <1>6 DEF StageInv, PageInv, GoesOn, CopyStages, DeleteStages, PlainStages, Idle, RemovesAll
<1>9. GoneInv(c)'
  <2>1. /\ at'[c] = n /\ page'[c] = p /\ token'[c] = t /\ bucket' = bucket /\ touched' = touched
        /\ req' = req /\ before' = before /\ fails' = fails
    BY <1>1, <1>6 DEF GoesOn, Kept
  <2>2. ASSUME fails = 0, NEW k \in KeysUnder(before[c], req[c].path) \ touched[c], k \in DOMAIN bucket
        PROVE  Ahead(c, k)'
    <3>1. KeyBefore(token[c], k)
      BY <1>1, <1>2, <1>4, <2>2 DEF GoneInv, Ahead, Idle
    <3>2. k \in p \/ (t # << >> /\ KeyBefore(t, k))
      BY <1>3, <2>2, <3>1 DEF KeysUnder
    <3> QED BY <1>3, <1>5, <2>1, <3>2 DEF Ahead
  <2>3. KeysUnder(before[c], req[c].path)' = KeysUnder(before[c], req[c].path)
    BY <2>1 DEF KeysUnder
  <2> QED BY <1>5, <2>1, <2>2, <2>3 DEF GoneInv
<1>10. ShallowInv(c)'
  BY <1>4, <1>6 DEF ShallowInv, Plain, GoesOn, RemovesAll
<1>11. CarryInv(c)'
  BY <1>1, <1>5, <1>6, <1>7, DeletesSpareCarried DEF DeleteStages
<1> QED BY <1>6, <1>7, <1>8, <1>9, <1>10, <1>11, OwnStepInv

\* The keys of the page are deleted, or a failure is counted.
LEMMA DeletePageKeeps ==
  ASSUME S3Inv, NEW c \in Callers, DeletePage(c)
  PROVE  S3Inv'
<1>1. at[c] = "deletePage" /\ at[c] \in Calls /\ at[c] \in DeleteStages /\ UNCHANGED token /\ page' = [page EXCEPT ![c] = {}]
  BY DEF DeletePage, Calls, DeleteStages
<1>2. /\ req[c].path \in Places /\ req[c] \in S3Requests
      /\ StageInv(c) /\ PageInv(c) /\ GoneInv(c) /\ fails \in Nat
      /\ page[c] \in SUBSET Places /\ token[c] \in Places
  BY <1>1, CallFacts
<1>3. PICK gone \in SUBSET page[c] :
        /\ fails' = IF gone = page[c] THEN fails ELSE fails + 1
        /\ Becomes(c, Without(gone), gone)
  BY DEF DeletePage
<1>4. RemovesAll(c) /\ gone \in SUBSET Places /\ fails' \in Nat /\ fails <= fails' /\ (fails' = 0 => fails = 0 /\ gone = page[c])
  BY <1>1, <1>2, <1>3 DEF StageInv
<1>5. PICK n \in {"listDelete", "deleteKey"} : Goes(c, n) /\ (n = "listDelete" <=> token[c] # << >>)
  BY DEF DeletePage, AfterPage
<1>6. GoesOn(c, n, {}, token[c])
  <2>1. n \in Calls \cup Closed
    BY DEF Calls, Closed
  <2>2. token' = [token EXCEPT ![c] = token[c]]
    BY <1>1 DEF S3Inv, S3Types
  <2>3. {} \in SUBSET Places
    OBVIOUS
  <2> QED BY <1>1, <1>2, <1>4, <1>5, <2>1, <2>2, <2>3, GoesOnPaging
<1>7. Effect(c, gone) /\ DOMAIN bucket' = DOMAIN bucket \ gone
  BY <1>3, <1>4, WithoutEffect DEF S3Inv
<1>8. StageInv(c)' /\ PageInv(c)'
  BY <1>2, <1>4, <1>5, <1>6, FS_EmptySet DEF StageInv, PageInv, GoesOn, CopyStages, DeleteStages, PlainStages, Idle, RemovesAll
<1>9. GoneInv(c)'
  <2>1. /\ at'[c] = n /\ page'[c] = {} /\ token'[c] = token[c] /\ touched'[c] = touched[c]
        /\ req' = req /\ before' = before
    BY <1>6, <1>7 DEF GoesOn, Effect
  <2>2. ASSUME fails' = 0, NEW k \in KeysUnder(before[c], req[c].path) \ touched[c], k \in DOMAIN bucket'
        PROVE  Ahead(c, k)'
    <3>1. k \in DOMAIN bucket /\ k \notin page[c]
      BY <1>4, <1>7, <2>2
    <3>2. Ahead(c, k)
      BY <1>1, <1>2, <1>4, <2>2, <3>1 DEF GoneInv, Idle
    <3> QED BY <1>1, <1>5, <2>1, <3>1, <3>2 DEF Ahead
  <2>3. KeysUnder(before[c], req[c].path)' = KeysUnder(before[c], req[c].path)
    BY <2>1 DEF KeysUnder
  <2> QED BY <1>5, <2>1, <2>2, <2>3 DEF GoneInv
<1>10. ShallowInv(c)'
  BY <1>4, <1>6 DEF ShallowInv, Plain, GoesOn, RemovesAll
<1>11. CarryInv(c)'
  <2>1. \A k \in gone : AtOrUnder(req[c].path, k)
    BY <1>2, <1>3 DEF PageInv
  <2> QED BY <1>1, <1>5, <1>6, <1>7, <2>1, DeletesSpareCarried DEF DeleteStages
<1> QED BY <1>6, <1>7, <1>8, <1>9, <1>10, <1>11, OwnStepInv

\* The path's own key goes last, with nothing ahead any more.
LEMMA DeleteKeyKeeps ==
  ASSUME S3Inv, NEW c \in Callers, DeleteKey(c)
  PROVE  S3Inv'
<1>1. /\ at[c] \in {"deleteKey", "deleteFile"} /\ at[c] \in Calls /\ UNCHANGED <<page, token, fails>> /\ Goes(c, "ok")
      /\ Becomes(c, Without({SourceKey(c)}), {SourceKey(c)})
  BY DEF DeleteKey, Calls
<1>2. /\ SourceKey(c) \in Places /\ AtOrUnder(req[c].path, SourceKey(c)) /\ req[c] \in S3Requests
      /\ StageInv(c) /\ PageInv(c) /\ GoneInv(c) /\ ShallowInv(c) /\ fails \in Nat
  BY <1>1, CallFacts
<1>3. GoesOn(c, "ok", page[c], token[c])
  BY <1>1, <1>2, GoesOnFacts DEF Closed
<1>4. Effect(c, {SourceKey(c)}) /\ DOMAIN bucket' = DOMAIN bucket \ {SourceKey(c)}
  <2>1. {SourceKey(c)} \in SUBSET Places
    BY <1>2
  <2> QED BY <1>1, <2>1, WithoutEffect DEF S3Inv
<1>5. StageInv(c)' /\ PageInv(c)'
  BY <1>1, <1>2, <1>3 DEF StageInv, PageInv, GoesOn, CopyStages, DeleteStages, PlainStages, Idle
<1>6. /\ at[c] # Idle /\ at'[c] = "ok" /\ touched'[c] = touched[c] /\ req' = req /\ before' = before /\ fails' = fails
      /\ KeysUnder(before[c], req[c].path)' = KeysUnder(before[c], req[c].path)
  BY <1>1, <1>3, <1>4 DEF GoesOn, Effect, KeysUnder, Idle
<1>9. SourceKey(c)' = SourceKey(c)
  BY <1>6, SameKeys
<1>7. CASE at[c] = "deleteKey"
  <2>1. RemovesAll(c) /\ at[c] \in DeleteStages
    BY <1>2, <1>7 DEF StageInv, DeleteStages
  <2>2. GoneInv(c)'
    <3>1. ASSUME fails = 0, NEW k \in KeysUnder(before[c], req[c].path) \ touched[c] PROVE k \notin DOMAIN bucket
      BY <1>2, <1>6, <1>7, <2>1, <3>1 DEF GoneInv, Ahead
    <3> QED BY <1>4, <1>6, <1>9, <3>1 DEF GoneInv, DeleteStages
  <2>3. ShallowInv(c)'
    BY <1>6, <2>1 DEF ShallowInv, Plain, RemovesAll
  <2>4. CarryInv(c)'
    <3>1. \A k \in {SourceKey(c)} : AtOrUnder(req[c].path, k)
      BY <1>2
    <3> QED BY <1>1, <1>3, <1>4, <2>1, <3>1, DeletesSpareCarried
  <2> QED BY <1>3, <1>4, <1>5, <2>2, <2>3, <2>4, OwnStepInv
<1>8. CASE at[c] = "deleteFile"
  <2>1. Plain(c)
    BY <1>2, <1>8 DEF StageInv, PlainStages
  <2>2. ShallowInv(c)'
    BY <1>2, <1>6, <1>8, <2>1 DEF ShallowInv, Plain
  <2>3. GoneInv(c)' /\ CarryInv(c)'
    BY <1>6, <2>1 DEF GoneInv, RemovesAll, Plain, CarryInv, Transfers
  <2> QED BY <1>3, <1>4, <1>5, <2>2, <2>3, OwnStepInv
<1> QED BY <1>1, <1>7, <1>8

\* A plain removal deletes the marker only when nothing else was there.
LEMMA DeleteMarkerKeeps ==
  ASSUME S3Inv, NEW c \in Callers, DeleteMarker(c)
  PROVE  S3Inv'
<1>1. /\ at[c] = "deleteMarker" /\ at[c] \in Calls /\ UNCHANGED <<page, token, fails>> /\ Goes(c, "ok")
      /\ Becomes(c, Without({Marker(req[c].path)}), {Marker(req[c].path)})
  BY DEF DeleteMarker, Calls
<1>2. /\ req[c].path \in Places /\ req[c] \in S3Requests
      /\ StageInv(c) /\ PageInv(c) /\ ShallowInv(c) /\ fails \in Nat
  BY <1>1, CallFacts
<1>3. GoesOn(c, "ok", page[c], token[c])
  BY <1>1, <1>2, GoesOnFacts DEF Closed
<1>4. Effect(c, {Marker(req[c].path)})
  <2>1. {Marker(req[c].path)} \in SUBSET Places
    BY <1>2, MarkerFacts
  <2> QED BY <1>1, <2>1, WithoutEffect DEF S3Inv
<1>5. StageInv(c)' /\ PageInv(c)'
  BY <1>1, <1>2, <1>3 DEF StageInv, PageInv, GoesOn, CopyStages, DeleteStages, PlainStages, Idle
<1>6. /\ at[c] # Idle /\ at'[c] = "ok" /\ touched'[c] = touched[c] /\ req' = req /\ before' = before
      /\ KeysUnder(before[c], req[c].path)' = KeysUnder(before[c], req[c].path)
  BY <1>1, <1>3, <1>4 DEF GoesOn, Effect, KeysUnder, Idle
<1>7. Plain(c)
  BY <1>1, <1>2 DEF StageInv, PlainStages
<1>8. ShallowInv(c)'
  BY <1>1, <1>2, <1>6, <1>7 DEF ShallowInv, Plain
<1>9. GoneInv(c)' /\ CarryInv(c)'
  BY <1>6, <1>7 DEF GoneInv, RemovesAll, Plain, CarryInv, Transfers
<1> QED BY <1>3, <1>4, <1>5, <1>8, <1>9, OwnStepInv

\* It learns so from a listing of two keys.
LEMMA CheckKeeps ==
  ASSUME S3Inv, NEW c \in Callers, Check(c)
  PROVE  S3Inv'
<1> DEFINE under == KeysUnder(bucket, req[c].path)
<1>1. at[c] = "check" /\ at[c] \in Calls /\ UNCHANGED <<page, token, fails>> /\ Kept
  BY DEF Check, Calls
<1>2. /\ req[c].path \in Places /\ req[c] \in S3Requests
      /\ StageInv(c) /\ PageInv(c) /\ ShallowInv(c) /\ fails \in Nat
  BY <1>1, CallFacts
<1>3. PICK n \in {"deleteFile", "deleteMarker", "IsADirectory"} :
        Goes(c, n) /\ (under \ {Marker(req[c].path)} # {} => n = "IsADirectory")
  <2>1. CASE under = {}
    BY <2>1 DEF Check
  <2>2. CASE under = {Marker(req[c].path)}
    BY <2>2 DEF Check
  <2>3. CASE under \ {Marker(req[c].path)} # {}
    BY <2>3 DEF Check
  <2> QED BY <2>1, <2>2, <2>3
<1>4. GoesOn(c, n, page[c], token[c])
  BY <1>1, <1>2, <1>3, GoesOnFacts DEF Calls, Closed
<1>5. Effect(c, {})
  BY <1>1, KeptEffect DEF S3Inv
<1>6. Plain(c) /\ page[c] = {}
  BY <1>1, <1>2 DEF StageInv, PlainStages, PageInv
<1>7. StageInv(c)' /\ PageInv(c)'
  BY <1>2, <1>3, <1>4, <1>6 DEF StageInv, PageInv, GoesOn, CopyStages, DeleteStages, PlainStages, Idle, Plain
<1>8. /\ at[c] # Idle /\ at'[c] = n /\ touched'[c] = touched[c] /\ req' = req /\ before' = before
      /\ KeysUnder(before[c], req[c].path)' = KeysUnder(before[c], req[c].path)
  BY <1>1, <1>4, <1>5 DEF GoesOn, Effect, KeysUnder, Idle
<1>9. GoneInv(c)' /\ CarryInv(c)'
  BY <1>6, <1>8 DEF GoneInv, RemovesAll, Plain, CarryInv, Transfers
<1>10. ShallowInv(c)'
  <2> DEFINE standing == KeysUnder(before[c], req[c].path) \ (touched[c] \cup {Marker(req[c].path)})
  <2>1. \A k : Here(c, k)' <=> Here(c, k)
    BY <1>1, <1>4, <1>5, SameTransfer
  <2>2. \A k \in standing : Here(c, k)
    BY <1>2, <1>6, <1>8 DEF ShallowInv
  <2>3. \A k \in standing : n = "IsADirectory"
    <3> TAKE k \in standing
    <3>1. k \in under \ {Marker(req[c].path)}
      BY <2>2 DEF KeysUnder, Here, Holds
    <3> QED BY <1>3, <3>1
  <2>4. Marker(req[c].path)' = Marker(req[c].path)
    BY <1>8 DEF Marker
  <2> QED BY <1>6, <1>8, <2>1, <2>2, <2>3, <2>4 DEF ShallowInv, Plain
<1> QED BY <1>4, <1>5, <1>7, <1>9, <1>10, OwnStepInv

\* A request begins with everything where it is, and all of it ahead.
LEMMA BeginKeeps ==
  ASSUME S3Inv, NEW c \in Callers, Begin(c)
  PROVE  S3Inv'
<1>1. PICK r \in Asks[c] : req' = [req EXCEPT ![c] = r] /\ at' = [at EXCEPT ![c] = FirstCall(r)]
  BY DEF Begin
<1>2. /\ at[c] = Idle /\ before' = [before EXCEPT ![c] = bucket] /\ touched' = [touched EXCEPT ![c] = {}]
      /\ bucket' = bucket /\ page' = page /\ token' = token /\ fails' = fails
  BY DEF Begin
<1>3. /\ r \in S3Requests /\ r.path \in Places /\ Len(r.path) \in Nat
      /\ r.op \in {"writeFile", "mkdir", "remove", "copy", "move"}
      /\ r.op = "remove" => r.recursive \in BOOLEAN
  BY S3Assumption, RequestShape
<1>4. PICK n \in {"put", "listDelete", "check", "head"} :
        /\ n = FirstCall(r)
        /\ n = "put" <=> r.op \in {"writeFile", "mkdir"}
        /\ n = "listDelete" <=> r.op = "remove" /\ r.recursive
        /\ n = "check" <=> r.op = "remove" /\ ~r.recursive
        /\ n = "head" <=> r.op \in {"copy", "move"}
  <2>1. CASE r.op \in {"writeFile", "mkdir"}
    BY <2>1 DEF FirstCall
  <2>2. CASE r.op = "remove" /\ r.recursive
    BY <2>2 DEF FirstCall
  <2>3. CASE r.op = "remove" /\ ~r.recursive
    BY <2>3 DEF FirstCall
  <2>4. CASE r.op \in {"copy", "move"}
    BY <2>4 DEF FirstCall
  <2> QED BY <1>3, <2>1, <2>2, <2>3, <2>4
<1>5. S3Types /\ page[c] = {} /\ token[c] = << >> /\ IsFiniteSet(page[c])
  BY <1>2 DEF S3Inv, PageInv
<1>6. /\ req'[c] = r /\ at'[c] = n /\ before'[c] = bucket /\ touched'[c] = {}
      /\ \A d \in Callers \ {c} : req'[d] = req[d] /\ at'[d] = at[d] /\ before'[d] = before[d] /\ touched'[d] = touched[d]
  BY <1>1, <1>2, <1>4, <1>5 DEF S3Types
<1>7. S3Types'
  <2>1. n \in {Idle} \cup Calls \cup Closed
    BY <1>4 DEF Calls
  <2>2. /\ req' \in [Callers -> S3Requests \cup {[op |-> "none"]}] /\ at' \in [Callers -> {Idle} \cup Calls \cup Closed]
        /\ touched' \in [Callers -> SUBSET Places]
    BY <1>1, <1>2, <1>3, <1>4, <1>5, <2>1 DEF S3Types
  <2>3. before' = [d \in Callers |-> before'[d]] /\ \A d \in Callers : DOMAIN before'[d] \subseteq Places
    BY <1>2, <1>5, <1>6 DEF S3Types
  <2> QED BY <1>2, <1>5, <2>2, <2>3 DEF S3Types
<1>8. \A d \in Callers \ {c} : StageInv(d)' /\ PageInv(d)' /\ CarryInv(d)' /\ GoneInv(d)' /\ ShallowInv(d)'
  <2>1. \A k : SameKey(k)
    BY <1>2 DEF SameKey
  <2>2. fails' \in Nat /\ fails <= fails'
    BY <1>2, <1>5 DEF S3Types
  <2> QED BY <1>2, <1>6, <2>1, <2>2, OthersKeep
<1>9. StageInv(c)'
  BY <1>3, <1>4, <1>6 DEF StageInv, CopyStages, DeleteStages, PlainStages, Transporting, RemovesAll, Plain
<1>10. PageInv(c)'
  BY <1>2, <1>4, <1>5, <1>6 DEF PageInv
<1>11. \A k \in DOMAIN bucket : Here(c, k)'
  BY <1>2, <1>6 DEF Here, Holds
<1>12. CarryInv(c)'
  <2> SUFFICES ASSUME Transfers(c)' PROVE CarryInv(c)'
    BY DEF CarryInv
  <2>1. n = "head"
    BY <1>4, <1>6 DEF Transfers
  <2>2. \A k \in Cargo(c)' : Here(c, k)'
    BY <1>6, <1>11 DEF Cargo, KeysUnder
  <2>3. before'[c] = bucket'
    BY <1>2, <1>6
  <2> QED BY <1>6, <2>1, <2>2, <2>3 DEF CarryInv, CopyStages, DeleteStages, Closed
<1>13. GoneInv(c)'
  <2>1. ASSUME NEW k \in KeysUnder(before[c], req[c].path)', n = "listDelete"
        PROVE  Ahead(c, k)'
    <3>1. k \in Places /\ Len(k) > Len(r.path)
      BY <1>5, <1>6, <2>1 DEF KeysUnder, S3Types
    <3>2. KeyBefore(<< >>, k)
      BY <1>3, <3>1, EmptyIsFirst DEF Places
    <3> QED BY <1>2, <1>5, <1>6, <2>1, <3>2 DEF Ahead
  <2> QED BY <1>4, <1>6, <2>1 DEF GoneInv, DeleteStages
<1>14. ShallowInv(c)'
  BY <1>4, <1>6, <1>11 DEF ShallowInv, KeysUnder
<1> QED BY <1>7, <1>8, <1>9, <1>10, <1>12, <1>13, <1>14 DEF S3Inv

\* When nothing is asked yet.
LEMMA S3Begins ==
  ASSUME S3Init
  PROVE  S3Inv
<1>1. S3Types
  <2>1. << >> \in Places /\ {} \in SUBSET Places
    BY DEF Places
  <2> QED BY <2>1, S3Assumption DEF S3Init, S3Types
<1>2. ASSUME NEW c \in Callers
      PROVE  StageInv(c) /\ PageInv(c) /\ CarryInv(c) /\ GoneInv(c) /\ ShallowInv(c)
  <2>1. at[c] = Idle /\ page[c] = {} /\ token[c] = << >>
    BY DEF S3Init
  <2>2. StageInv(c) /\ PageInv(c)
    BY <2>1, FS_EmptySet DEF StageInv, PageInv, CopyStages, DeleteStages, PlainStages, Idle
  <2> QED BY <2>1, <2>2 DEF CarryInv, Transfers, GoneInv, ShallowInv
<1> QED BY <1>1, <1>2 DEF S3Inv

\* Every step keeps the invariant.
LEMMA S3Stays == S3Inv /\ [S3Next]_s3vars => S3Inv'
<1> SUFFICES ASSUME S3Inv, [S3Next]_s3vars PROVE S3Inv'
  OBVIOUS
<1>1. CASE UNCHANGED s3vars
  <2>1. S3Types'
    BY <1>1 DEF s3vars, S3Inv, S3Types
  <2>2. \A k : SameKey(k)
    BY <1>1 DEF s3vars, SameKey
  <2>3. fails' \in Nat /\ fails <= fails'
    BY <1>1 DEF s3vars, S3Inv, S3Types
  <2>4. ASSUME NEW d \in Callers
        PROVE  StageInv(d)' /\ PageInv(d)' /\ CarryInv(d)' /\ GoneInv(d)' /\ ShallowInv(d)'
    BY <1>1, <2>2, <2>3, OthersKeep DEF s3vars
  <2> QED BY <2>1, <2>4 DEF S3Inv
<1>2. ASSUME NEW c \in Callers, Begin(c) \/ CallReturns(c) \/ CallFails(c)
      PROVE  S3Inv'
  <2>1. CASE Begin(c)
    BY <2>1, BeginKeeps
  <2>2. CASE CallFails(c)
    BY <2>2, CallFailsKeeps
  <2>3. CASE PutObject(c)
    BY <2>3, PutObjectKeeps
  <2>4. CASE HeadSource(c)
    BY <2>4, HeadSourceKeeps
  <2>5. CASE CopyFile(c)
    BY <2>5, CopyFileKeeps
  <2>6. CASE ListToCopy(c)
    BY <2>6, ListToCopyKeeps
  <2>7. CASE CopyKey(c)
    BY <2>7, CopyKeyKeeps
  <2>8. CASE ListToDelete(c)
    BY <2>8, ListToDeleteKeeps
  <2>9. CASE DeletePage(c)
    BY <2>9, DeletePageKeeps
  <2>10. CASE DeleteKey(c)
    BY <2>10, DeleteKeyKeeps
  <2>11. CASE Check(c)
    BY <2>11, CheckKeeps
  <2>12. CASE DeleteMarker(c)
    BY <2>12, DeleteMarkerKeeps
  <2> QED BY <1>2, <2>1, <2>2, <2>3, <2>4, <2>5, <2>6, <2>7, <2>8, <2>9, <2>10, <2>11, <2>12 DEF CallReturns
<1> QED BY <1>1, <1>2 DEF S3Next

----------------------------------------------------------------------------
\* What the reads answer.

\* The entry of a key: a file's, or a directory's.
LEMMA EntryOfKey ==
  ASSUME NEW p \in Places, NEW k \in Places, Len(k) > Len(p)
  PROVE  /\ Len(k) = Len(p) + 1 => <<k[Len(p) + 1], Len(k) > Len(p) + 1>> = <<k[Len(p) + 1], FALSE>>
         /\ Len(k) # Len(p) + 1 => <<k[Len(p) + 1], Len(k) > Len(p) + 1>> = <<k[Len(p) + 1], TRUE>>
<1>1. Len(p) \in Nat /\ Len(k) \in Nat
  BY DEF Places
<1>2. ASSUME Len(k) = Len(p) + 1 PROVE (Len(k) > Len(p) + 1) = FALSE
  BY <1>1, <1>2
<1>3. ASSUME Len(k) # Len(p) + 1 PROVE (Len(k) > Len(p) + 1) = TRUE
  <2>1. Len(k) > Len(p) + 1
    BY <1>1, <1>3
  <2> QED BY <2>1, Zenon
<1> QED BY <1>2, <1>3, Zenon

\* A key one name below a directory is its child, a longer one is under it.
LEMMA KeyBelow ==
  ASSUME NEW p \in Places, NEW x \in Names, NEW k \in Places
  PROVE  /\ Append(p, x) \in Places /\ Len(Append(p, x)) = Len(p) + 1
         /\ Len(k) > Len(p) /\ AtOrUnder(p, k) /\ k[Len(p) + 1] = x <=> AtOrUnder(Append(p, x), k)
         /\ AtOrUnder(Append(p, x), k) /\ Len(k) = Len(p) + 1 => k = Append(p, x)
<1> DEFINE child == Append(p, x)
<1>1. /\ child \in Places /\ Len(child) = Len(p) + 1 /\ Len(p) \in Nat /\ Len(k) \in Nat
      /\ child[Len(p) + 1] = x /\ \A i \in 1..Len(p) : child[i] = p[i]
  BY DEF Places
<1> HIDE DEF child
<1>2. AtOrUnder(child, k) <=> Len(k) > Len(p) /\ AtOrUnder(p, k) /\ k[Len(p) + 1] = x
  <2>1. ASSUME AtOrUnder(child, k) PROVE Len(k) > Len(p) /\ AtOrUnder(p, k) /\ k[Len(p) + 1] = x
    BY <1>1, <2>1 DEF AtOrUnder
  <2>2. ASSUME Len(k) > Len(p), AtOrUnder(p, k), k[Len(p) + 1] = x PROVE AtOrUnder(child, k)
    <3>1. \A i \in 1..Len(child) : i = Len(p) + 1 \/ i \in 1..Len(p)
      BY <1>1
    <3>2. \A i \in 1..Len(child) : k[i] = child[i]
      BY <1>1, <2>2, <3>1 DEF AtOrUnder
    <3> QED BY <1>1, <2>2, <3>2 DEF AtOrUnder
  <2> QED BY <2>1, <2>2
<1>3. ASSUME AtOrUnder(child, k), Len(k) = Len(p) + 1 PROVE k = child
  <2>1. Len(k) = Len(child) /\ \A i \in 1..Len(k) : k[i] = child[i]
    BY <1>1, <1>3 DEF AtOrUnder
  <2> QED BY <1>1, <2>1, SeqEqual DEF Places
<1> QED BY <1>1, <1>2, <1>3 DEF child

\* Entries are told apart.
LEMMA EntriesDiffer ==
  ASSUME NEW x, NEW y
  PROVE  /\ <<y, FALSE>> = <<x, FALSE>> => y = x
         /\ <<y, TRUE>> = <<x, TRUE>> => y = x
         /\ <<y, TRUE>> # <<x, FALSE>> /\ <<y, FALSE>> # <<x, TRUE>>
<1>1. <<y, FALSE>> = <<x, FALSE>> => y = x
  OBVIOUS
<1>2. <<y, TRUE>> = <<x, TRUE>> => y = x
  OBVIOUS
<1>3. <<y, TRUE>> # <<x, FALSE>>
  OBVIOUS
<1>4. <<y, FALSE>> # <<x, TRUE>>
  OBVIOUS
<1> QED BY <1>1, <1>2, <1>3, <1>4

\* What is listed of a child is the key it is, and the keys under it.
LEMMA EntriesOfChild ==
  ASSUME NEW b, DOMAIN b \subseteq Places, NEW p \in Places, NEW x \in Names
  PROVE  /\ <<x, FALSE>> \in Entries(b, p) <=> Append(p, x) \in DOMAIN b
         /\ <<x, TRUE>> \in Entries(b, p) <=> KeysUnder(b, Append(p, x)) # {}
         /\ \A e \in Entries(b, p) : e[1] = x => e \in {<<x, FALSE>>, <<x, TRUE>>}
<1> DEFINE child == Append(p, x)
           entry(k) == <<k[Len(p) + 1], Len(k) > Len(p) + 1>>
<1>1. child \in Places /\ Len(child) = Len(p) + 1 /\ Len(p) \in Nat
  BY KeyBelow DEF Places
<1>2. \A k \in DOMAIN b : /\ k \in KeysUnder(b, p) /\ k[Len(p) + 1] = x <=> AtOrUnder(child, k)
                          /\ AtOrUnder(child, k) /\ Len(k) = Len(p) + 1 => k = child
                          /\ Len(k) \in Nat
  BY KeyBelow DEF KeysUnder, Places
<1>3. \A k \in KeysUnder(b, p) : /\ k \in DOMAIN b
                                 /\ Len(k) = Len(p) + 1 => entry(k) = <<k[Len(p) + 1], FALSE>>
                                 /\ Len(k) # Len(p) + 1 => entry(k) = <<k[Len(p) + 1], TRUE>>
  BY EntryOfKey DEF KeysUnder
<1>4. \A e : e \in Entries(b, p) <=> \E k \in KeysUnder(b, p) : e = entry(k)
  BY DEF Entries
<1> HIDE DEF entry
<1>5. ASSUME NEW k \in KeysUnder(b, p), entry(k) = <<x, FALSE>> PROVE child \in DOMAIN b
  <2>1. k[Len(p) + 1] = x /\ Len(k) = Len(p) + 1
    BY <1>3, <1>5, EntriesDiffer
  <2> QED BY <1>2, <1>3, <2>1
<1>6. ASSUME child \in DOMAIN b PROVE child \in KeysUnder(b, p) /\ entry(child) = <<x, FALSE>>
  <2>1. AtOrUnder(child, child)
    BY <1>1, MarkerFacts
  <2> QED BY <1>1, <1>2, <1>3, <1>6, <2>1
<1>7. ASSUME NEW k \in KeysUnder(b, p), entry(k) = <<x, TRUE>> PROVE k \in KeysUnder(b, child)
  <2>1. k[Len(p) + 1] = x /\ Len(k) # Len(p) + 1
    BY <1>3, <1>7, EntriesDiffer
  <2>2. AtOrUnder(child, k) /\ k \in DOMAIN b /\ Len(k) >= Len(child)
    BY <1>2, <1>3, <2>1 DEF AtOrUnder
  <2> QED BY <1>1, <1>2, <2>1, <2>2 DEF KeysUnder
<1>8. ASSUME NEW k \in KeysUnder(b, child) PROVE k \in KeysUnder(b, p) /\ entry(k) = <<x, TRUE>>
  <2>1. k \in DOMAIN b /\ Len(k) > Len(p) + 1 /\ AtOrUnder(child, k)
    BY <1>1 DEF KeysUnder
  <2>2. k \in KeysUnder(b, p) /\ k[Len(p) + 1] = x /\ Len(k) # Len(p) + 1
    BY <1>1, <1>2, <2>1
  <2> QED BY <1>3, <2>2
<1>9. ASSUME NEW e \in Entries(b, p), e[1] = x PROVE e \in {<<x, FALSE>>, <<x, TRUE>>}
  <2>1. PICK k \in KeysUnder(b, p) : e = entry(k)
    BY <1>4
  <2>2. e = <<k[Len(p) + 1], FALSE>> \/ e = <<k[Len(p) + 1], TRUE>>
    BY <1>3, <2>1
  <2>3. CASE e = <<k[Len(p) + 1], FALSE>>
    BY <1>9, <2>3
  <2>4. CASE e = <<k[Len(p) + 1], TRUE>>
    BY <1>9, <2>4
  <2> QED BY <2>2, <2>3, <2>4
<1>10. <<x, FALSE>> \in Entries(b, p) <=> child \in DOMAIN b
  BY <1>4, <1>5, <1>6
<1>11. <<x, TRUE>> \in Entries(b, p) <=> KeysUnder(b, child) # {}
  BY <1>4, <1>7, <1>8
<1> QED BY <1>9, <1>10, <1>11

\* A listing whose entries fit a page is whole, but for the marker.
LEMMA ListingWhole ==
  ASSUME NEW b, DOMAIN b \subseteq Places, IsFiniteSet(DOMAIN b), NEW p \in Places,
         Cardinality(Entries(b, p)) <= PageSize
  PROVE  ListS3(b, p) = Entries(b, p) \ {<<Unnamed, FALSE>>}
<1> DEFINE keys == KeysUnder(b, p)
           held == Entries(b, p)
           f == [k \in keys |-> <<k[Len(p) + 1], Len(k) > Len(p) + 1>>]
           Below(e) == {g \in held : EntryBefore(g, e)}
<1>1. IsFiniteSet(keys)
  BY FS_Subset DEF KeysUnder
<1>2. held = {<<k[Len(p) + 1], Len(k) > Len(p) + 1>> : k \in keys}
  BY DEF Entries
<1>3. f \in Surjection(keys, held)
  <2>1. f \in [keys -> held]
    BY <1>2
  <2>2. \A e \in held : \E k \in keys : f[k] = e
    BY <1>2
  <2> QED BY <2>1, <2>2 DEF Surjection
<1>4. IsFiniteSet(held)
  <2> HIDE DEF keys
  <2> HIDE DEF held
  <2> HIDE DEF f
  <2> QED BY <1>1, <1>3, FS_Surjection
<1>5. ASSUME NEW e \in held PROVE Cardinality(Below(e)) < PageSize
  <2>1. ~EntryBefore(e, e)
    <3>1. PICK k \in keys : e = <<k[Len(p) + 1], Len(k) > Len(p) + 1>>
      BY <1>2
    <3>2. k \in Places /\ Len(k) > Len(p) /\ Len(p) \in Nat
      BY <3>1 DEF KeysUnder, Places
    <3>3. k[Len(p) + 1] \in Names \cup {Unnamed}
      BY <3>2 DEF Places
    <3>4. e[1] \in Names \cup {Unnamed}
      BY <3>1, <3>3
    <3>5. ~(NameOrder[e[1]] < NameOrder[e[1]])
      BY <3>4, S3Assumption
    <3> QED BY <3>5 DEF EntryBefore
  <2>2. Below(e) \in SUBSET held /\ e \notin Below(e)
    BY <2>1
  <2> HIDE DEF Below
  <2> HIDE DEF held
  <2>3. Cardinality(Below(e)) <= Cardinality(held) /\ Cardinality(Below(e)) # Cardinality(held) /\ IsFiniteSet(Below(e))
    BY <1>4, <1>5, <2>2, FS_Subset
  <2>4. Cardinality(Below(e)) \in Nat /\ Cardinality(held) \in Nat
    BY <1>4, <2>3, FS_CardinalityType
  <2>5. Cardinality(held) <= PageSize
    BY DEF held
  <2> QED BY <2>3, <2>4, <2>5, S3Assumption
<1>6. ListS3(b, p) = {e \in held : Cardinality(Below(e)) < PageSize} \ {<<Unnamed, FALSE>>}
  BY DEF ListS3
<1> HIDE DEF Below
<1> QED BY <1>5, <1>6

\* The reads agree whenever the bucket is keys, finitely many.
LEMMA ReadsAlwaysAgree == S3Types => ReadsAgree
<1> SUFFICES ASSUME S3Types, NEW p \in Paths, Len(p) < MaxDepth, NEW x \in Names,
                    NEW child, child = Append(p, x),
                    NEW listed, listed = {e \in ListS3(bucket, p) : e[1] = x}
             PROVE  /\ Exists(bucket, child) <=> Stat(bucket, child) # "none"
                    /\ listed # {} => Stat(bucket, child) # "none"
                    /\ Cardinality(Entries(bucket, p)) <= PageSize =>
                          /\ Stat(bucket, child) = "file" <=> <<x, FALSE>> \in listed
                          /\ Stat(bucket, child) = "directory" <=> listed = {<<x, TRUE>>}
  BY DEF ReadsAgree
<1>1. p \in Places /\ child \in Places /\ DOMAIN bucket \subseteq Places /\ IsFiniteSet(DOMAIN bucket)
  BY PathsArePlaces, KeyBelow DEF S3Types
<1>2. Marker(child) \in DOMAIN bucket => KeysUnder(bucket, child) # {}
  <2>1. Len(Marker(child)) > Len(child) /\ AtOrUnder(child, Marker(child))
    <3>1. Len(Marker(child)) = Len(child) + 1 /\ AtOrUnder(child, Marker(child))
      BY <1>1, MarkerFacts
    <3>2. Len(child) \in Nat
      BY <1>1 DEF Places
    <3> HIDE DEF Marker
    <3> QED BY <3>1, <3>2
  <2> QED BY <2>1 DEF KeysUnder
<1>3. /\ Stat(bucket, child) = "file" <=> child \in DOMAIN bucket
      /\ Stat(bucket, child) = "directory" <=> child \notin DOMAIN bucket /\ KeysUnder(bucket, child) # {}
      /\ Stat(bucket, child) # "none" <=> Exists(bucket, child)
  BY <1>2 DEF Stat, Exists
<1>4. /\ <<x, FALSE>> \in Entries(bucket, p) <=> child \in DOMAIN bucket
      /\ <<x, TRUE>> \in Entries(bucket, p) <=> KeysUnder(bucket, child) # {}
      /\ \A e \in Entries(bucket, p) : e[1] = x => e \in {<<x, FALSE>>, <<x, TRUE>>}
  BY <1>1, EntriesOfChild
<1>5. \A e \in listed : e \in Entries(bucket, p) /\ e[1] = x
  BY DEF ListS3
<1>6. listed # {} => Exists(bucket, child)
  BY <1>4, <1>5 DEF Exists
<1>7. ASSUME Cardinality(Entries(bucket, p)) <= PageSize
      PROVE  /\ Stat(bucket, child) = "file" <=> <<x, FALSE>> \in listed
             /\ Stat(bucket, child) = "directory" <=> listed = {<<x, TRUE>>}
  <2>1. ListS3(bucket, p) = Entries(bucket, p) \ {<<Unnamed, FALSE>>}
    BY <1>1, <1>7, ListingWhole
  <2>2. <<x, FALSE>> # <<Unnamed, FALSE>> /\ <<x, TRUE>> # <<Unnamed, FALSE>>
    <3>1. x # Unnamed
      BY NamesAssumption
    <3> QED BY <3>1, EntriesDiffer
  <2>3. <<x, FALSE>> \in listed <=> child \in DOMAIN bucket
    BY <1>4, <2>1, <2>2
  <2>4. <<x, TRUE>> \in listed <=> KeysUnder(bucket, child) # {}
    BY <1>4, <2>1, <2>2
  <2>5. \A e \in listed : e = <<x, FALSE>> \/ e = <<x, TRUE>>
    BY <1>4, <1>5
  <2>6. <<x, FALSE>> # <<x, TRUE>>
    BY EntriesDiffer
  <2>7. listed = {<<x, TRUE>>} <=> <<x, TRUE>> \in listed /\ <<x, FALSE>> \notin listed
    BY <2>5, <2>6, Zenon
  <2> QED BY <1>3, <2>3, <2>4, <2>7
<1> QED BY <1>3, <1>6, <1>7

\* What is asked and how far it is tell what holds of it.
LEMMA S3InvSays == S3Inv => CarriedIsKept /\ RemovedIsGone /\ PlainRemovalIsShallow /\ ReadsAgree
<1> SUFFICES ASSUME S3Inv
             PROVE  CarriedIsKept /\ RemovedIsGone /\ PlainRemovalIsShallow /\ ReadsAgree
  OBVIOUS
<1>1. MovedIsKept
  <2> SUFFICES ASSUME NEW c \in Callers, Transfers(c), NEW k \in Untouched(c)
               PROVE  Here(c, k) \/ There(c, k)
    BY DEF MovedIsKept, Here, There
  <2>1. StageInv(c) /\ CarryInv(c) /\ at[c] \in Calls \cup Closed
    BY DEF S3Inv, S3Types, Transfers
  <2>2. k \in Cargo(c) \ touched[c]
    BY DEF Untouched
  <2>3. at[c] \in CopyStages \cup DeleteStages \cup Closed
    BY <2>1 DEF StageInv, Plain, Transfers, Calls, CopyStages, DeleteStages, PlainStages
  <2> QED BY <2>1, <2>2, <2>3 DEF CarryInv
<1>2. CopiedIsThere
  <2> SUFFICES ASSUME NEW c \in Callers, Transfers(c), at[c] = "ok", NEW k \in Untouched(c)
               PROVE  There(c, k)
    BY DEF CopiedIsThere, There
  <2> QED BY DEF S3Inv, CarryInv
<1>3. RemovedIsGone
  <2> SUFFICES ASSUME NEW c \in Callers, at[c] = "ok", fails = 0, FirstCall(req[c]) # "put", req[c].op # "copy",
                      ~(req[c].op = "remove" /\ ~req[c].recursive)
               PROVE  (KeysUnder(before[c], req[c].path) \cup {SourceKey(c)}) \cap DOMAIN bucket \subseteq touched[c]
    BY DEF RemovedIsGone
  <2>1. at[c] # Idle /\ req[c] \in S3Requests /\ GoneInv(c)
    BY DEF Idle, S3Inv, StageInv
  <2>2. req[c].op \in {"writeFile", "mkdir", "remove", "copy", "move"}
    BY <2>1, RequestShape
  <2>3. RemovesAll(c)
    BY <2>2 DEF RemovesAll, FirstCall
  <2> QED BY <2>1, <2>3 DEF GoneInv
<1>4. PlainRemovalIsShallow
  BY DEF PlainRemovalIsShallow, S3Inv, ShallowInv, Plain, Here
<1> QED BY <1>1, <1>2, <1>3, <1>4, ReadsAlwaysAgree DEF CarriedIsKept, S3Inv

\* S3Provider.copy and move, page by page, call by call: whatever other
\* requests do and whichever call fails, what is carried and nobody else has
\* changed is where it was or where it goes, and all of it is there once the
\* request is answered.
THEOREM CargoIsKept == S3Spec => []CarriedIsKept
<1> QED BY S3Begins, S3Stays, S3InvSays, PTL DEF S3Spec

\* S3Provider.remove and deleteByPrefix, and the reads: a recursive removal
\* that met no failure leaves nothing of what was there, one that is not
\* recursive deletes no more than the marker, and list, stat and exists agree.
THEOREM DirectoriesStayKeys == S3Spec => []DirectoriesAreKeys
<1>1. S3Inv => DirectoriesAreKeys
  BY S3InvSays DEF DirectoriesAreKeys
<1> QED BY <1>1, S3Begins, S3Stays, PTL DEF S3Spec

----------------------------------------------------------------------------
(* The data explorer. *)

\* A request to the explorer, as its record is written.
Stages == {"idle", "opening", "querying", "closing", "answered"}
Answers == [ok : BOOLEAN, rows : Nat, truncated : BOOLEAN]
Queries == [at : Stages, op : {"query", "schema"}, source : Sources \cup {Nothing},
            pool : Asking \cup {Nothing}, timer : {"off", "armed", "fired"}, found : Nat,
            answer : Answers]

\* The values that the variables take.
ExplorerTypes ==
  /\ query \in [Asking -> Queries]
  /\ clients \subseteq Asking
  /\ pool \in [Asking -> {"none", "connecting", "open", "refused", "closed"}]
  /\ globalPool \in Asking \cup {Nothing}

\* A request whose provider has been asked and has not answered.
Active(r) == query[r].at \in {"opening", "querying", "closing"}

\* Who is under way has a source, and who holds a pool is a request to SQL Server.
RightSource(r) ==
  /\ Active(r) => query[r].source # Nothing
  /\ query[r].pool # Nothing => Uses(r, "mssql")
  /\ Active(r) /\ Uses(r, "mssql") => query[r].pool # Nothing

\* A client is that of a request whose finally block ends it.
OwnClient(r) ==
  r \in clients => /\ Active(r)
                   /\ \/ Uses(r, "postgres") \/ Uses(r, "mongo") \/ Uses(r, "redis")
                      \/ Uses(r, "mysql") /\ query[r].at # "opening"

\* A pool of SQL Server is that of a request under way.
PoolUsed(p) ==
  pool[p] \in {"connecting", "open"} => \E r \in Asking : query[r].pool = p /\ Active(r)

\* What is on its way to the executor is marked where MongoDB cut it, and within
\* the limit once it is there.
Marked(op, s, st, n, got) ==
  /\ st \in {"idle", "opening", "querying"} => ~got.ok
  /\ ~got.ok => got.rows = 0
  /\ got.ok => got.rows <= n /\ (got.truncated <=> got.rows < n)
  /\ st = "answered" /\ got.ok /\ op = "query" /\ MaxRows[s] > 0 => got.rows <= MaxRows[s]

\* The request's own result is.
MarkedSoFar(r) == Marked(query[r].op, query[r].source, query[r].at, query[r].found, query[r].answer)

\* What holds of every request at every moment.
ExplorerInv ==
  /\ ExplorerTypes
  /\ \A r \in Asking : RightSource(r) /\ OwnClient(r) /\ PoolUsed(r) /\ MarkedSoFar(r)

\* Nothing is asked at first.
LEMMA ExplorerBegins == ExplorerInit => ExplorerInv
<1> SUFFICES ASSUME ExplorerInit PROVE ExplorerInv
  OBVIOUS
<1>1. IdleQuery \in Queries
  BY DEF IdleQuery, Queries, Stages, Answers, NoAnswer
<1>2. ExplorerTypes
  BY <1>1 DEF ExplorerInit, ExplorerTypes
<1>3. \A r \in Asking : RightSource(r) /\ OwnClient(r) /\ PoolUsed(r) /\ MarkedSoFar(r)
  BY DEF ExplorerInit, RightSource, OwnClient, PoolUsed, MarkedSoFar, Marked, Active, IdleQuery, NoAnswer
<1> QED BY <1>2, <1>3 DEF ExplorerInv

\* The executor cuts what is too long, and marks it.
LEMMA LimitedIsMarked ==
  ASSUME ExplorerInv, NEW r \in Asking, query[r].source # Nothing,
         NEW got \in Answers, NEW n \in Nat,
         Marked(query[r].op, query[r].source, "closing", n, got)
  PROVE  /\ Limited(r, got) \in Answers
         /\ Marked(query[r].op, query[r].source, "answered", n, Limited(r, got))
<1>1. PICK max \in Nat : max = MaxRows[query[r].source]
  BY ExplorerAssumption DEF ExplorerInv, ExplorerTypes, Queries
<1>2. got.ok \in BOOLEAN /\ got.rows \in Nat /\ got.truncated \in BOOLEAN
  BY DEF Answers
<1>3. CASE query[r].op = "query" /\ max > 0 /\ got.rows > max
  <2>1. Limited(r, got) = [ok |-> TRUE, rows |-> max, truncated |-> TRUE]
    BY <1>1, <1>3 DEF Limited, Found
  <2>2. Limited(r, got).ok /\ Limited(r, got).rows = max /\ Limited(r, got).truncated
    BY <2>1
  <2>3. got.ok /\ max < n
    BY <1>1, <1>2, <1>3 DEF Marked
  <2>4. Limited(r, got) \in Answers
    BY <1>1, <2>1 DEF Answers
  <2> QED BY <1>1, <1>3, <2>2, <2>3, <2>4 DEF Marked
<1>4. CASE ~(query[r].op = "query" /\ max > 0 /\ got.rows > max)
  <2>1. Limited(r, got) = got
    BY <1>1, <1>4 DEF Limited
  <2> QED BY <1>1, <1>2, <1>4, <2>1 DEF Marked
<1> QED BY <1>3, <1>4

\* A record of a request, at stage st.
Moved(q, st, tm, n, a) == [q EXCEPT !.at = st, !.timer = tm, !.found = n, !.answer = a]

\* Where a request may hold a client.
Client(r, st) ==
  /\ st \in {"opening", "querying", "closing"}
  /\ \/ Uses(r, "postgres") \/ Uses(r, "mongo") \/ Uses(r, "redis")
     \/ Uses(r, "mysql") /\ st # "opening"

\* What a step of r leaves of the other requests.
LEMMA OthersStand ==
  ASSUME ExplorerInv, NEW r \in Asking, NEW q \in Queries, query' = [query EXCEPT ![r] = q],
         clients' \in SUBSET Asking, clients' \cup {r} = clients \cup {r}
  PROVE  /\ query' \in [Asking -> Queries] /\ query'[r] = q
         /\ \A o \in Asking \ {r} : query'[o] = query[o] /\ RightSource(o)' /\ OwnClient(o)' /\ MarkedSoFar(o)'
<1>1. query \in [Asking -> Queries]
  BY DEF ExplorerInv, ExplorerTypes
<1>2. query' \in [Asking -> Queries] /\ query'[r] = q
  BY <1>1
<1>3. ASSUME NEW o \in Asking \ {r}
      PROVE  query'[o] = query[o] /\ RightSource(o)' /\ OwnClient(o)' /\ MarkedSoFar(o)'
  <2>1. query'[o] = query[o]
    BY <1>1
  <2>2. RightSource(o) /\ OwnClient(o) /\ MarkedSoFar(o)
    BY DEF ExplorerInv
  <2>3. o \in clients' <=> o \in clients
    BY <1>3
  <2>4. RightSource(o)'
    BY <2>1, <2>2 DEF RightSource, Active, Uses
  <2>5. OwnClient(o)'
    BY <2>1, <2>2, <2>3 DEF OwnClient, Active, Uses
  <2>6. MarkedSoFar(o)'
    BY <2>1, <2>2 DEF MarkedSoFar
  <2> QED BY <2>1, <2>4, <2>5, <2>6
<1> QED BY <1>2, <1>3

\* A request that is under way goes to another stage.
LEMMA RecordStep ==
  ASSUME ExplorerInv, NEW r \in Asking, Active(r),
         NEW st \in Stages \ {"idle"}, NEW tm \in {"off", "armed", "fired"}, NEW n \in Nat, NEW a \in Answers,
         query' = [query EXCEPT ![r] = Moved(query[r], st, tm, n, a)],
         clients' \in SUBSET Asking, clients' \cup {r} = clients \cup {r},
         r \in clients' => Client(r, st),
         Marked(query[r].op, query[r].source, st, n, a)
  PROVE  /\ query' \in [Asking -> Queries]
         /\ query'[r].at = st /\ query'[r].pool = query[r].pool
         /\ \A o \in Asking \ {r} : query'[o] = query[o]
         /\ \A o \in Asking : RightSource(o)' /\ OwnClient(o)' /\ MarkedSoFar(o)'
<1>1. query[r] \in Queries /\ RightSource(r)
  BY DEF ExplorerInv, ExplorerTypes
<1>2. PICK q : q = Moved(query[r], st, tm, n, a)
  OBVIOUS
<1>3. /\ q \in Queries /\ q.at = st /\ q.timer = tm /\ q.found = n /\ q.answer = a
      /\ q.pool = query[r].pool /\ q.source = query[r].source /\ q.op = query[r].op
  BY <1>1, <1>2 DEF Queries, Moved
<1>4. /\ query' \in [Asking -> Queries] /\ query'[r] = q
      /\ \A o \in Asking \ {r} : query'[o] = query[o] /\ RightSource(o)' /\ OwnClient(o)' /\ MarkedSoFar(o)'
  <2>1. query' = [query EXCEPT ![r] = q]
    BY <1>2
  <2> QED BY <1>3, <2>1, OthersStand
<1>5. RightSource(r)'
  BY <1>1, <1>3, <1>4 DEF RightSource, Active, Uses
<1>6. OwnClient(r)'
  BY <1>3, <1>4 DEF OwnClient, Active, Client, Uses
<1>7. MarkedSoFar(r)'
  BY <1>3, <1>4 DEF MarkedSoFar, Marked
<1> QED BY <1>3, <1>4, <1>5, <1>6, <1>7

\* It leaves the pools alone, if it is not answered or has none.
LEMMA RequestStep ==
  ASSUME ExplorerInv, NEW r \in Asking, Active(r), UNCHANGED <<pool, globalPool>>,
         NEW st \in Stages \ {"idle"}, NEW tm \in {"off", "armed", "fired"}, NEW n \in Nat, NEW a \in Answers,
         query' = [query EXCEPT ![r] = Moved(query[r], st, tm, n, a)],
         clients' \in SUBSET Asking, clients' \cup {r} = clients \cup {r},
         r \in clients' => Client(r, st),
         ~Uses(r, "mssql") \/ st # "answered",
         Marked(query[r].op, query[r].source, st, n, a)
  PROVE  ExplorerInv'
<1>1. /\ query' \in [Asking -> Queries]
      /\ query'[r].at = st /\ query'[r].pool = query[r].pool
      /\ \A o \in Asking \ {r} : query'[o] = query[o]
      /\ \A o \in Asking : RightSource(o)' /\ OwnClient(o)' /\ MarkedSoFar(o)'
  BY RecordStep
<1>2. ExplorerTypes'
  BY <1>1 DEF ExplorerInv, ExplorerTypes
<1>3. ASSUME NEW p \in Asking PROVE PoolUsed(p)'
  <2>1. PoolUsed(p) /\ pool'[p] = pool[p]
    BY DEF ExplorerInv
  <2>2. SUFFICES ASSUME pool[p] \in {"connecting", "open"}
                 PROVE  \E o \in Asking : query'[o].pool = p /\ Active(o)'
    BY <2>1 DEF PoolUsed
  <2>3. PICK o \in Asking : query[o].pool = p /\ Active(o)
    BY <2>1, <2>2 DEF PoolUsed
  <2>4. CASE o = r
    <3>1. Uses(r, "mssql")
      BY <2>3, <2>4, ExplorerAssumption DEF ExplorerInv, RightSource
    <3>2. st \in {"opening", "querying", "closing"}
      BY <3>1 DEF Stages
    <3> QED BY <1>1, <2>3, <2>4, <3>2 DEF Active
  <2>5. CASE o # r
    BY <1>1, <2>3, <2>5 DEF Active
  <2> QED BY <2>4, <2>5
<1> QED BY <1>1, <1>2, <1>3 DEF ExplorerInv

\* A request that is answered takes the provider's result through the executor's limit.
LEMMA SettleStep ==
  ASSUME ExplorerInv, NEW r \in Asking, Active(r), UNCHANGED <<pool, globalPool>>,
         NEW n \in Nat, NEW got \in Answers, NEW tm \in {"off", "armed", "fired"},
         query' = [query EXCEPT ![r] = Moved(query[r], "answered", tm, n, Limited(r, got))],
         clients' \in SUBSET Asking, clients' \cup {r} = clients \cup {r}, r \notin clients',
         ~Uses(r, "mssql"),
         Marked(query[r].op, query[r].source, "closing", n, got)
  PROVE  ExplorerInv'
<1>1. query[r].source # Nothing
  BY DEF ExplorerInv, RightSource
<1>2. PICK a : a = Limited(r, got)
  OBVIOUS
<1>3. a \in Answers /\ Marked(query[r].op, query[r].source, "answered", n, a)
  BY <1>1, <1>2, LimitedIsMarked
<1>4. query' = [query EXCEPT ![r] = Moved(query[r], "answered", tm, n, a)]
  BY <1>2
<1>5. "answered" \in Stages \ {"idle"}
  BY DEF Stages
<1> QED BY <1>3, <1>4, <1>5, RequestStep

\* What is known of a request's record.
LEMMA RequestFacts ==
  ASSUME ExplorerInv, NEW r \in Asking
  PROVE  /\ query[r] \in Queries /\ clients \subseteq Asking
         /\ query[r].timer \in {"off", "armed", "fired"} /\ query[r].found \in Nat /\ query[r].answer \in Answers
         /\ MarkedSoFar(r) /\ RightSource(r) /\ OwnClient(r)
         /\ NoAnswer \in Answers
         /\ \A op, s : \A st \in Stages \ {"answered"}, n \in Nat : Marked(op, s, st, n, NoAnswer)
<1>1. query[r] \in Queries /\ clients \subseteq Asking /\ MarkedSoFar(r) /\ RightSource(r) /\ OwnClient(r)
  BY DEF ExplorerInv, ExplorerTypes
<1>2. query[r].timer \in {"off", "armed", "fired"} /\ query[r].found \in Nat /\ query[r].answer \in Answers
  BY <1>1 DEF Queries
<1>4. NoAnswer \in Answers /\ ~NoAnswer.ok /\ NoAnswer.rows = 0
  BY DEF NoAnswer, Answers
<1>5. \A op, s : \A st \in Stages \ {"answered"}, n \in Nat : Marked(op, s, st, n, NoAnswer)
  BY <1>4 DEF Marked
<1> QED BY <1>1, <1>2, <1>4, <1>5

\* How Settle, Finish and a step to another stage write it.
LEMMA QueryForms ==
  ASSUME NEW r \in Asking, query[r] \in Queries, NEW st, NEW n, NEW a,
         NEW tm, tm = IF query[r].timer = "armed" THEN "off" ELSE query[r].timer
  PROVE  /\ Settle(r, a) => query' = [query EXCEPT ![r] = Moved(query[r], "answered", tm, query[r].found, Limited(r, a))]
         /\ Finish(r, a) => query' = [query EXCEPT ![r] = Moved(query[r], "closing", query[r].timer, query[r].found, a)]
         /\ query' = [query EXCEPT ![r].at = st] =>
              query' = [query EXCEPT ![r] = Moved(query[r], st, query[r].timer, query[r].found, query[r].answer)]
         /\ query' = [query EXCEPT ![r].timer = st] =>
              query' = [query EXCEPT ![r] = Moved(query[r], query[r].at, st, query[r].found, query[r].answer)]
<1>0. PICK q \in Queries : q = query[r]
  OBVIOUS
<1>1. /\ [q EXCEPT !.at = st] = Moved(q, st, q.timer, q.found, q.answer)
      /\ [q EXCEPT !.timer = st] = Moved(q, q.at, st, q.found, q.answer)
      /\ [q EXCEPT !.at = "closing", !.answer = a] = Moved(q, "closing", q.timer, q.found, a)
      /\ [q EXCEPT !.at = "answered", !.timer = tm, !.answer = Limited(r, a)] = Moved(q, "answered", tm, q.found, Limited(r, a))
  BY DEF Queries, Moved
<1>2. ASSUME Settle(r, a)
      PROVE  query' = [query EXCEPT ![r] = [q EXCEPT !.at = "answered", !.timer = tm, !.answer = Limited(r, a)]]
  BY <1>0, <1>2 DEF Settle
<1>3. ASSUME Finish(r, a)
      PROVE  query' = [query EXCEPT ![r] = [q EXCEPT !.at = "closing", !.answer = a]]
  BY <1>0, <1>3 DEF Finish
<1>4. ASSUME query' = [query EXCEPT ![r].at = st]
      PROVE  query' = [query EXCEPT ![r] = [q EXCEPT !.at = st]]
  BY <1>0, <1>4
<1>5. ASSUME query' = [query EXCEPT ![r].timer = st]
      PROVE  query' = [query EXCEPT ![r] = [q EXCEPT !.timer = st]]
  BY <1>0, <1>5
<1> QED BY <1>0, <1>1, <1>2, <1>3, <1>4, <1>5

\* How a query that finds n rows writes it.
LEMMA FindsForm ==
  ASSUME NEW r \in Asking, query \in [Asking -> Queries], NEW n, NEW a,
         query' = [Finds(r, n) EXCEPT ![r].at = "closing", ![r].answer = a]
  PROVE  query' = [query EXCEPT ![r] = Moved(query[r], "closing", query[r].timer, n, a)]
<1>0. PICK q \in Queries : q = query[r]
  OBVIOUS
<1>1. [[q EXCEPT !.found = n] EXCEPT !.at = "closing", !.answer = a] = Moved(q, "closing", q.timer, n, a)
  BY DEF Queries, Moved
<1>2. query' = [query EXCEPT ![r] = [[q EXCEPT !.found = n] EXCEPT !.at = "closing", !.answer = a]]
  BY <1>0 DEF Finds
<1> QED BY <1>0, <1>1, <1>2

\* A result on its way to the finally block.
LEMMA ToClosing ==
  ASSUME ExplorerInv, NEW r \in Asking, Active(r), UNCHANGED <<clients, pool, globalPool>>,
         NEW n \in Nat, NEW a \in Answers,
         query' = [query EXCEPT ![r] = Moved(query[r], "closing", query[r].timer, n, a)],
         Marked(query[r].op, query[r].source, "closing", n, a)
  PROVE  ExplorerInv'
<1>1. "closing" \in Stages \ {"idle"} /\ ~(Uses(r, "mssql") /\ "closing" = "answered")
  BY DEF Stages
<1>2. r \in clients' => Client(r, "closing")
  BY RequestFacts DEF OwnClient, Client
<1>3. clients' \in SUBSET Asking /\ clients' \cup {r} = clients \cup {r} /\ UNCHANGED <<pool, globalPool>>
  BY RequestFacts
<1>4. query[r].timer \in {"off", "armed", "fired"}
  BY RequestFacts
<1> QED BY <1>1, <1>2, <1>3, <1>4, RequestStep

\* The providers' query and its failure.
LEMMA RunsGood ==
  ASSUME ExplorerInv, NEW r \in Asking, NEW n \in 0..MostFound,
         Runs(r, n) \/ PoolRuns(r, n) \/ MongoFinds(r, n) \/ Fails(r) \/ RefusedInside(r)
  PROVE  ExplorerInv'
<1> DEFINE op == query[r].op
           source == query[r].source
<1>1. /\ query \in [Asking -> Queries] /\ query[r] \in Queries /\ query[r].found \in Nat
      /\ NoAnswer \in Answers /\ Marked(op, source, "closing", query[r].found, NoAnswer)
  BY RequestFacts DEF ExplorerInv, ExplorerTypes, Stages
<1>2. Active(r) /\ UNCHANGED <<clients, pool, globalPool>>
  BY DEF Runs, PoolRuns, MongoFinds, Fails, RefusedInside, Active
<1>3. n \in Nat
  BY ExplorerAssumption
<1>4. CASE Runs(r, n) \/ PoolRuns(r, n)
  <2>1. Found(n, FALSE) \in Answers /\ Marked(op, source, "closing", n, Found(n, FALSE))
    BY <1>3 DEF Found, Answers, Marked
  <2>2. query' = [query EXCEPT ![r] = Moved(query[r], "closing", query[r].timer, n, Found(n, FALSE))]
    BY <1>1, <1>4, FindsForm DEF Runs, PoolRuns
  <2> QED BY <1>2, <1>3, <2>1, <2>2, ToClosing
<1>5. CASE MongoFinds(r, n)
  <2>1. PICK limit \in Nat : limit = MongoLimit(r)
    BY ExplorerAssumption, RequestFacts, <1>2 DEF MongoLimit, RightSource, Queries
  <2>2. PICK fetched : fetched = MinOf(n, limit + 1)
    OBVIOUS
  <2>3. PICK got :
          /\ got = Found(IF fetched > limit THEN fetched - 1 ELSE fetched, fetched > limit)
          /\ query' = [Finds(r, n) EXCEPT ![r].at = "closing", ![r].answer = got]
    BY <1>5, <2>1, <2>2 DEF MongoFinds
  <2>4. query' = [query EXCEPT ![r] = Moved(query[r], "closing", query[r].timer, n, got)]
    <3>1. query' = [Finds(r, n) EXCEPT ![r].at = "closing", ![r].answer = got]
      BY <2>3
    <3> QED BY <1>1, <3>1, FindsForm
  <2>5. CASE fetched > limit
    <3>1. fetched = limit + 1 /\ fetched <= n
      BY <1>3, <2>1, <2>2, <2>5 DEF MinOf
    <3>2. (fetched > limit) = TRUE
      BY <2>5, Zenon
    <3>3. got = Found(limit, TRUE)
      <4>1. got = Found(fetched - 1, TRUE)
        BY <2>3, <2>5, <3>2, Zenon
      <4>2. fetched - 1 = limit
        BY <2>1, <3>1
      <4> QED BY <4>1, <4>2
    <3>4. got \in Answers /\ Marked(op, source, "closing", n, got)
      BY <1>3, <2>1, <3>1, <3>3 DEF Found, Answers, Marked
    <3> QED BY <1>2, <1>3, <2>4, <3>4, ToClosing
  <2>6. CASE ~(fetched > limit)
    <3>1. fetched = n
      BY <1>3, <2>1, <2>2, <2>6 DEF MinOf
    <3>2. (fetched > limit) = FALSE
      BY <1>3, <2>1, <2>6, <3>1, SMT
    <3>3. got = Found(n, FALSE)
      BY <2>3, <2>6, <3>1, <3>2, Zenon
    <3>4. got \in Answers /\ Marked(op, source, "closing", n, got)
      BY <1>3, <3>3 DEF Found, Answers, Marked
    <3> QED BY <1>2, <1>3, <2>4, <3>4, ToClosing
  <2> QED BY <2>5, <2>6
<1>6. CASE Fails(r) \/ RefusedInside(r)
  <2>1. Finish(r, NoAnswer)
    BY <1>6 DEF Fails, RefusedInside
  <2>2. query' = [query EXCEPT ![r] = Moved(query[r], "closing", query[r].timer, query[r].found, NoAnswer)]
    BY <1>1, <2>1, QueryForms
  <2> QED BY <1>1, <1>2, <2>2, ToClosing
<1> QED BY <1>4, <1>5, <1>6

\* The answers, but those of SQL Server.
LEMMA SettlesGood ==
  ASSUME ExplorerInv, NEW r \in Asking, Active(r), ~Uses(r, "mssql"), UNCHANGED <<pool, globalPool>>,
         Settle(r, NoAnswer) \/ (query[r].at = "closing" /\ Settle(r, query[r].answer)),
         clients' = clients \ {r} \/ (r \notin clients /\ clients' = clients)
  PROVE  ExplorerInv'
<1>1. /\ query[r] \in Queries /\ query[r].found \in Nat /\ query[r].answer \in Answers
      /\ NoAnswer \in Answers /\ Marked(query[r].op, query[r].source, "closing", query[r].found, NoAnswer)
  BY RequestFacts DEF Stages
<1>2. PICK tm \in {"off", "armed", "fired"} : tm = IF query[r].timer = "armed" THEN "off" ELSE query[r].timer
  BY RequestFacts
<1>3. PICK got \in Answers : Settle(r, got) /\ Marked(query[r].op, query[r].source, "closing", query[r].found, got)
  <2>1. CASE Settle(r, NoAnswer)
    BY <1>1, <2>1
  <2>2. CASE query[r].at = "closing" /\ Settle(r, query[r].answer)
    <3>1. Marked(query[r].op, query[r].source, "closing", query[r].found, query[r].answer)
      BY <2>2, RequestFacts DEF Marked, MarkedSoFar
    <3> QED BY <1>1, <2>2, <3>1
  <2> QED BY <2>1, <2>2
<1>4. query' = [query EXCEPT ![r] = Moved(query[r], "answered", tm, query[r].found, Limited(r, got))]
  BY <1>1, <1>2, <1>3, QueryForms
<1>5. clients' \in SUBSET Asking /\ clients' \cup {r} = clients \cup {r} /\ r \notin clients'
  BY RequestFacts
<1> QED BY <1>1, <1>2, <1>3, <1>4, <1>5, SettleStep

\* SQLite answers within its step.
LEMMA SqliteGood ==
  ASSUME ExplorerInv, NEW r \in Asking, Sqlite(r)
  PROVE  ExplorerInv'
<1>1. /\ Active(r) /\ ~Uses(r, "mssql") /\ UNCHANGED <<clients, pool, globalPool>> /\ Uses(r, "sqlite")
  BY DEF Sqlite, Active, Uses
<1>2. r \notin clients
  BY <1>1, RequestFacts DEF OwnClient, Uses
<1>3. CASE Settle(r, NoAnswer)
  BY <1>1, <1>2, <1>3, SettlesGood
<1>4. ASSUME NEW n \in 0..MostFound,
             query' = [Finds(r, n) EXCEPT
                         ![r].at = "answered", ![r].timer = IF @ = "armed" THEN "off" ELSE @,
                         ![r].answer = Limited(r, Found(n, FALSE))]
      PROVE  ExplorerInv'
  <2>1. PICK q \in Queries : q = query[r] /\ q.timer \in {"off", "armed", "fired"}
    BY RequestFacts
  <2>2. PICK tm \in {"off", "armed", "fired"} : tm = IF q.timer = "armed" THEN "off" ELSE q.timer
    BY <2>1
  <2>3. PICK a : a = Limited(r, Found(n, FALSE))
    OBVIOUS
  <2>4. [[q EXCEPT !.found = n] EXCEPT !.at = "answered", !.timer = tm, !.answer = a] = Moved(q, "answered", tm, n, a)
    BY DEF Queries, Moved
  <2>5. query' = [query EXCEPT ![r] = [[q EXCEPT !.found = n] EXCEPT !.at = "answered", !.timer = tm, !.answer = a]]
    BY <1>4, <2>1, <2>2, <2>3 DEF Finds, ExplorerInv, ExplorerTypes, Queries
  <2>6. n \in Nat /\ Found(n, FALSE) \in Answers /\ Marked(query[r].op, query[r].source, "closing", n, Found(n, FALSE))
    BY ExplorerAssumption DEF Found, Answers, Marked
  <2>7. clients' \in SUBSET Asking /\ clients' \cup {r} = clients \cup {r} /\ r \notin clients'
    BY <1>1, <1>2, RequestFacts
  <2> QED BY <1>1, <2>1, <2>2, <2>3, <2>4, <2>5, <2>6, <2>7, SettleStep
<1> QED BY <1>3, <1>4 DEF Sqlite

\* The providers that have connections of their own, or none.
LEMMA OwnConnectionsGood ==
  ASSUME ExplorerInv, NEW r \in Asking,
         Postgres(r) \/ Mysql(r) \/ Mongo(r) \/ Redis(r) \/ Elastic(r)
  PROVE  ExplorerInv'
<1>1. ~Uses(r, "mssql")
  BY DEF Postgres, Mysql, Mongo, Redis, Elastic, Uses
<1>2. CASE \E n \in 0..MostFound : Runs(r, n) \/ MongoFinds(r, n)
  BY <1>2, RunsGood
<1>3. CASE Fails(r) \/ RefusedInside(r)
  <2>1. 0 \in 0..MostFound
    BY ExplorerAssumption
  <2> QED BY <1>3, <2>1, RunsGood
<1>4. CASE Connects(r) /\ (Uses(r, "postgres") \/ Uses(r, "mongo") \/ Uses(r, "mysql"))
  <2>1. query[r] \in Queries /\ clients \subseteq Asking
    BY RequestFacts
  <2>2. query' = [query EXCEPT ![r] = Moved(query[r], "querying", query[r].timer, query[r].found, query[r].answer)]
    <3>1. query' = [query EXCEPT ![r].at = "querying"]
      BY <1>4 DEF Connects
    <3>2. PICK tm : tm = IF query[r].timer = "armed" THEN "off" ELSE query[r].timer
      OBVIOUS
    <3> QED BY <2>1, <3>1, <3>2, QueryForms
  <2>3. Active(r) /\ UNCHANGED <<pool, globalPool>> /\ clients' = clients \cup {r} /\ query[r].at = "opening"
    BY <1>4 DEF Connects, Active
  <2>4. Client(r, "querying")
    BY <1>4 DEF Client
  <2>5. Marked(query[r].op, query[r].source, "querying", query[r].found, query[r].answer)
    BY <2>3, RequestFacts DEF Marked, MarkedSoFar
  <2>6. "querying" \in Stages \ {"idle"} /\ clients' \in SUBSET Asking /\ clients' \cup {r} = clients \cup {r}
    BY <2>1, <2>3 DEF Stages
  <2>7. /\ query[r].timer \in {"off", "armed", "fired"} /\ query[r].found \in Nat /\ query[r].answer \in Answers
    BY RequestFacts
  <2> QED BY <1>1, <2>2, <2>3, <2>4, <2>5, <2>6, <2>7, RequestStep
<1>5. CASE RefusedOutside(r) /\ Uses(r, "mysql")
  <2>1. r \notin clients
    BY <1>5, RequestFacts DEF OwnClient, RefusedOutside, Uses
  <2> QED BY <1>1, <1>5, <2>1, SettlesGood DEF RefusedOutside, Active
<1>6. CASE Ends(r) \/ RedisEnds(r)
  BY <1>1, <1>6, SettlesGood DEF Ends, RedisEnds, Active
<1>7. CASE Uses(r, "elastic") /\ query[r].at = "closing" /\ Settle(r, query[r].answer) /\ UNCHANGED <<clients, pool, globalPool>>
  <2>1. r \notin clients
    BY <1>7, RequestFacts DEF OwnClient, Uses
  <2> QED BY <1>1, <1>7, <2>1, SettlesGood DEF Active
<1> QED BY <1>2, <1>3, <1>4, <1>5, <1>6, <1>7 DEF Postgres, Mysql, Mongo, Redis, Elastic

\* A shared pool is that of a request, which somebody else may have closed.
LEMMA MssqlGood ==
  ASSUME ExplorerInv, NEW r \in Asking, Mssql(r)
  PROVE  ExplorerInv'
<1>1. CASE Fails(r) \/ \E n \in 0..MostFound : PoolRuns(r, n)
  <2>1. 0 \in 0..MostFound
    BY ExplorerAssumption
  <2> QED BY <1>1, <2>1, RunsGood
<1>2. ASSUME PoolConnects(r) \/ PoolRefused(r) \/ PoolCloses(r)
      PROVE  ExplorerInv'
  <2> DEFINE p == query[r].pool
  <2>1. /\ Active(r) /\ clients' = clients /\ r \notin clients
        /\ Uses(r, "mssql")
    <3>1. Active(r) /\ clients' = clients /\ Uses(r, "mssql")
      BY <1>2 DEF PoolConnects, PoolRefused, PoolCloses, Mssql, Active
    <3> QED BY <3>1, RequestFacts DEF OwnClient, Uses
  <2>2. /\ query[r] \in Queries /\ clients \subseteq Asking
        /\ query[r].timer \in {"off", "armed", "fired"} /\ query[r].found \in Nat /\ query[r].answer \in Answers
        /\ NoAnswer \in Answers
    BY RequestFacts
  <2>3. p \in Asking /\ query[r].source # Nothing
    BY <2>1, <2>2, RequestFacts DEF RightSource, Queries
  <2>4. PICK tm \in {"off", "armed", "fired"} : tm = IF query[r].timer = "armed" THEN "off" ELSE query[r].timer
    BY <2>2
  <2>5. PICK st \in Stages \ {"idle"}, v \in {"off", "armed", "fired"}, a \in Answers :
          /\ query' = [query EXCEPT ![r] = Moved(query[r], st, v, query[r].found, a)]
          /\ Marked(query[r].op, query[r].source, st, query[r].found, a)
          /\ st = "answered" => PoolRefused(r) \/ PoolCloses(r)
    <3>1. CASE PoolConnects(r)
      <4>1. query' = [query EXCEPT ![r] = Moved(query[r], "querying", query[r].timer, query[r].found, query[r].answer)]
        <5>1. query' = [query EXCEPT ![r].at = "querying"]
          BY <3>1 DEF PoolConnects
        <5> QED BY <2>2, <2>4, <5>1, QueryForms
      <4>2. Marked(query[r].op, query[r].source, "querying", query[r].found, query[r].answer)
        BY <3>1, RequestFacts DEF Marked, MarkedSoFar, PoolConnects
      <4>3. "querying" \in Stages \ {"idle"}
        BY DEF Stages
      <4> QED BY <2>2, <4>1, <4>2, <4>3
    <3>2. CASE PoolRefused(r) \/ PoolCloses(r)
      <4>1. PICK got \in Answers : Settle(r, got) /\ Marked(query[r].op, query[r].source, "closing", query[r].found, got)
        <5>1. Marked(query[r].op, query[r].source, "closing", query[r].found, NoAnswer)
          BY <2>2, RequestFacts DEF Stages
        <5>2. CASE Settle(r, NoAnswer)
          BY <2>2, <5>1, <5>2
        <5>3. CASE query[r].at = "closing" /\ Settle(r, query[r].answer)
          <6>1. Marked(query[r].op, query[r].source, "closing", query[r].found, query[r].answer)
            BY <5>3, RequestFacts DEF Marked, MarkedSoFar
          <6> QED BY <2>2, <5>3, <6>1
        <5> QED BY <3>2, <5>2, <5>3 DEF PoolRefused, PoolCloses
      <4>2. PICK a : a = Limited(r, got)
        OBVIOUS
      <4>3. a \in Answers /\ Marked(query[r].op, query[r].source, "answered", query[r].found, a)
        BY <2>2, <2>3, <4>1, <4>2, LimitedIsMarked
      <4>4. query' = [query EXCEPT ![r] = Moved(query[r], "answered", tm, query[r].found, a)]
        BY <2>2, <2>4, <4>1, <4>2, QueryForms
      <4>5. "answered" \in Stages \ {"idle"}
        BY DEF Stages
      <4> QED BY <3>2, <4>3, <4>4, <4>5
    <3> QED BY <1>2, <3>1, <3>2
  <2>6. clients' \in SUBSET Asking /\ clients' \cup {r} = clients \cup {r} /\ r \notin clients'
    BY <2>1, <2>2
  <2>7. /\ query' \in [Asking -> Queries]
        /\ query'[r].at = st /\ query'[r].pool = p
        /\ \A o \in Asking \ {r} : query'[o] = query[o]
        /\ \A o \in Asking : RightSource(o)' /\ OwnClient(o)' /\ MarkedSoFar(o)'
    BY <2>1, <2>2, <2>5, <2>6, RecordStep
  <2>8. /\ pool \in [Asking -> {"none", "connecting", "open", "refused", "closed"}]
        /\ globalPool \in Asking \cup {Nothing}
    BY DEF ExplorerInv, ExplorerTypes
  <2>9. /\ pool' \in [Asking -> {"none", "connecting", "open", "refused", "closed"}]
        /\ globalPool' \in Asking \cup {Nothing}
        /\ \A o \in Asking \ {p} : pool'[o] = pool[o]
        /\ PoolRefused(r) \/ PoolCloses(r) => pool'[p] \in {"refused", "closed"}
    BY <1>2, <2>3, <2>8 DEF PoolConnects, PoolRefused, PoolCloses
  <2>10. ExplorerTypes'
    BY <2>6, <2>7, <2>9 DEF ExplorerTypes
  <2>11. ASSUME NEW o \in Asking PROVE PoolUsed(o)'
    <3>1. CASE o = p
      <4>1. CASE st = "answered"
        BY <2>5, <2>9, <3>1, <4>1 DEF PoolUsed
      <4>2. CASE st # "answered"
        BY <2>7, <3>1, <4>2 DEF PoolUsed, Active, Stages
      <4> QED BY <4>1, <4>2
    <3>2. CASE o # p
      BY <2>7, <2>9, <3>2 DEF PoolUsed, Active, ExplorerInv
    <3> QED BY <3>1, <3>2
  <2> QED BY <2>7, <2>10, <2>11 DEF ExplorerInv
<1> QED BY <1>1, <1>2 DEF Mssql

\* A request begins.
LEMMA BeginsGood ==
  ASSUME ExplorerInv, NEW r \in Asking,
         UnknownSource(r) \/ \E op \in {"query", "schema"}, s \in Sources : Execute(r, op, s)
  PROVE  ExplorerInv'
<1>1. /\ query \in [Asking -> Queries] /\ query[r] \in Queries /\ r \notin clients /\ query[r].at = "idle"
      /\ clients \subseteq Asking
      /\ pool \in [Asking -> {"none", "connecting", "open", "refused", "closed"}]
      /\ globalPool \in Asking \cup {Nothing}
  BY DEF ExplorerInv, ExplorerTypes, OwnClient, Active, UnknownSource, Execute
<1>2. CASE UnknownSource(r)
  <2>1. PICK q : q = [query[r] EXCEPT !.at = "answered"]
    OBVIOUS
  <2>2. q \in Queries /\ q.at = "answered" /\ q.answer = query[r].answer /\ q.pool = query[r].pool /\ q.source = query[r].source
    BY <1>1, <2>1 DEF Queries, Stages
  <2>3. /\ query' \in [Asking -> Queries] /\ query'[r] = q
        /\ \A o \in Asking \ {r} : query'[o] = query[o] /\ RightSource(o)' /\ OwnClient(o)' /\ MarkedSoFar(o)'
    <3>1. query' = [query EXCEPT ![r] = q] /\ clients' = clients
      BY <1>2, <2>1 DEF UnknownSource
    <3> QED BY <1>1, <2>2, <3>1, OthersStand
  <2>4. ~query[r].answer.ok /\ query[r].answer.rows = 0 /\ (query[r].pool # Nothing => Uses(r, "mssql"))
    BY <1>1 DEF ExplorerInv, MarkedSoFar, Marked, RightSource
  <2>5. RightSource(r)' /\ OwnClient(r)' /\ MarkedSoFar(r)'
    BY <1>1, <1>2, <2>2, <2>3, <2>4 DEF RightSource, OwnClient, MarkedSoFar, Marked, Active, Uses, UnknownSource
  <2>6. \A p \in Asking : PoolUsed(p)'
    BY <1>1, <1>2, <2>3 DEF ExplorerInv, PoolUsed, Active, UnknownSource
  <2>7. ExplorerTypes'
    BY <1>1, <1>2, <2>3 DEF ExplorerTypes, UnknownSource
  <2> QED BY <2>3, <2>5, <2>6, <2>7 DEF ExplorerInv
<1>3. ASSUME NEW op \in {"query", "schema"}, NEW s \in Sources, Execute(r, op, s)
      PROVE  ExplorerInv'
  <2> DEFINE mssql == Provider[s] = "mssql"
  <2>1. PICK first \in {"opening", "querying"} :
          first = IF Provider[s] \in {"postgres", "mysql", "mssql", "mongo"} THEN "opening" ELSE "querying"
    OBVIOUS
  <2>2. PICK held \in Asking \cup {Nothing} :
          /\ held = IF mssql THEN PoolFor(r) ELSE Nothing
          /\ held # Nothing <=> mssql
    BY <1>1, ExplorerAssumption DEF PoolFor
  <2>3. PICK tm \in {"off", "armed", "fired"} : tm = IF op = "query" THEN "armed" ELSE "off"
    OBVIOUS
  <2>4. PICK q : q = [IdleQuery EXCEPT !.at = first, !.op = op, !.source = s, !.pool = held, !.timer = tm]
    OBVIOUS
  <2>5. query' = [query EXCEPT ![r] = q]
    BY <1>3, <2>1, <2>2, <2>3, <2>4 DEF Execute
  <2>6. /\ q.at = first /\ q.op = op /\ q.source = s /\ q.pool = held /\ q.timer = tm
        /\ q.answer = NoAnswer /\ q.found = 0
    BY <2>4 DEF IdleQuery
  <2>7. q \in Queries
    <3>1. NoAnswer \in Answers
      BY DEF NoAnswer, Answers
    <3>2. q = [at |-> first, op |-> op, source |-> s, pool |-> held, timer |-> tm, found |-> 0, answer |-> NoAnswer]
      BY <2>4 DEF IdleQuery
    <3> QED BY <3>1, <3>2 DEF Queries, Stages
  <2>8. /\ query' \in [Asking -> Queries] /\ query'[r] = q
        /\ \A o \in Asking \ {r} : query'[o] = query[o] /\ RightSource(o)' /\ OwnClient(o)' /\ MarkedSoFar(o)'
    <3>1. clients' \in SUBSET Asking /\ clients' \cup {r} = clients \cup {r}
      BY <1>1, <1>3 DEF Execute
    <3> QED BY <2>5, <2>7, <3>1, OthersStand
  <2>9. s # Nothing
    BY ExplorerAssumption
  <2>10. RightSource(r)' /\ MarkedSoFar(r)'
    <3>1. ~NoAnswer.ok /\ NoAnswer.rows = 0
      BY DEF NoAnswer
    <3> QED BY <2>2, <2>6, <2>8, <2>9, <3>1 DEF RightSource, MarkedSoFar, Marked, Active, Uses
  <2>11. OwnClient(r)'
    <3>1. r \in clients' => Provider[s] \in {"postgres", "mongo", "redis"}
      BY <1>1, <1>3 DEF Execute
    <3>2. query'[r].source = s /\ query'[r].at \in {"opening", "querying"}
      BY <2>1, <2>6, <2>8
    <3> QED BY <2>9, <3>1, <3>2 DEF OwnClient, Active, Uses
  <2>12. /\ ~mssql => UNCHANGED <<pool, globalPool>>
         /\ mssql => /\ globalPool' = held
                     /\ pool' = IF globalPool = Nothing THEN [pool EXCEPT ![r] = "connecting"] ELSE pool
                     /\ globalPool = Nothing => held = r
    BY <1>3, <2>2 DEF Execute, PoolFor
  <2>13. ExplorerTypes'
    <3>1. clients' \subseteq Asking
      BY <1>1, <1>3 DEF Execute
    <3>2. /\ pool' \in [Asking -> {"none", "connecting", "open", "refused", "closed"}]
          /\ globalPool' \in Asking \cup {Nothing}
      BY <1>1, <2>2, <2>12
    <3> QED BY <2>8, <3>1, <3>2 DEF ExplorerTypes
  <2>14. ASSUME NEW p \in Asking PROVE PoolUsed(p)'
    <3>1. CASE mssql /\ globalPool = Nothing /\ p = r
      BY <2>1, <2>6, <2>8, <2>12, <3>1 DEF PoolUsed, Active
    <3>2. CASE ~(mssql /\ globalPool = Nothing /\ p = r)
      <4>1. pool'[p] = pool[p]
        BY <1>1, <2>12, <3>2
      <4> QED BY <1>1, <2>8, <4>1 DEF ExplorerInv, PoolUsed, Active
    <3> QED BY <3>1, <3>2
  <2> QED BY <2>8, <2>10, <2>11, <2>13, <2>14 DEF ExplorerInv
<1> QED BY <1>2, <1>3

\* The timer fires, which changes nothing else.
LEMMA TimeoutGood ==
  ASSUME ExplorerInv, NEW r \in Asking, TimeoutFires(r)
  PROVE  ExplorerInv'
<1>1. PICK q : q = [query[r] EXCEPT !.timer = "fired"]
  OBVIOUS
<1>2. query[r] \in Queries /\ clients' = clients /\ clients \subseteq Asking /\ query' = [query EXCEPT ![r] = q]
  BY <1>1 DEF ExplorerInv, ExplorerTypes, TimeoutFires
<1>3. /\ q \in Queries /\ q.at = query[r].at /\ q.op = query[r].op /\ q.source = query[r].source
      /\ q.pool = query[r].pool /\ q.found = query[r].found /\ q.answer = query[r].answer
  BY <1>1, <1>2 DEF Queries
<1>4. /\ query' \in [Asking -> Queries] /\ query'[r] = q
      /\ \A o \in Asking \ {r} : query'[o] = query[o] /\ RightSource(o)' /\ OwnClient(o)' /\ MarkedSoFar(o)'
  BY <1>2, <1>3, OthersStand
<1>5. RightSource(r)' /\ OwnClient(r)' /\ MarkedSoFar(r)'
  BY <1>2, <1>3, <1>4 DEF ExplorerInv, RightSource, OwnClient, MarkedSoFar, Active, Uses
<1>6. UNCHANGED <<pool, globalPool>>
  BY DEF TimeoutFires
<1>7. ASSUME NEW p \in Asking PROVE PoolUsed(p)'
  <2>1. \A o \in Asking : query'[o].pool = query[o].pool /\ query'[o].at = query[o].at
    BY <1>3, <1>4
  <2> QED BY <1>6, <2>1 DEF ExplorerInv, PoolUsed, Active
<1> QED BY <1>2, <1>4, <1>5, <1>6, <1>7 DEF ExplorerInv, ExplorerTypes

\* Every step keeps the invariant.
LEMMA ExplorerStays == ExplorerInv /\ [ExplorerNext]_explorerVars => ExplorerInv'
<1> SUFFICES ASSUME ExplorerInv, [ExplorerNext]_explorerVars PROVE ExplorerInv'
  OBVIOUS
<1>1. CASE UNCHANGED explorerVars
  BY <1>1 DEF explorerVars, ExplorerInv, ExplorerTypes, RightSource, OwnClient, PoolUsed, MarkedSoFar, Active, Uses
<1>2. CASE ExplorerNext
  BY <1>2, BeginsGood, TimeoutGood, SqliteGood, OwnConnectionsGood, MssqlGood DEF ExplorerNext
<1> QED BY <1>1, <1>2

\* The providers' finally blocks: a client is connected, and a pool open, only
\* while a request that uses it is under way, whichever call failed or timed out.
THEOREM ConnectionsComeBack == ExplorerSpec => []ConnectionsReturned
<1>1. ExplorerInv => ConnectionsReturned
  BY DEF ExplorerInv, ConnectionsReturned, OwnClient, PoolUsed, Active, ExplorerTypes
<1> QED BY <1>1, ExplorerBegins, ExplorerStays, PTL DEF ExplorerSpec

\* DataExplorerExecutor.executeAsync and MongoDB's own limit: a result that was
\* cut says so, no complete one does, and a query's is within the source's limit.
THEOREM CutsAreMarked == ExplorerSpec => []CutIsMarked
<1>1. ExplorerInv => CutIsMarked
  BY DEF ExplorerInv, CutIsMarked, MarkedSoFar, Marked
<1> QED BY <1>1, ExplorerBegins, ExplorerStays, PTL DEF ExplorerSpec

----------------------------------------------------------------------------
(* The rows of SQLite. *)

\* The row an entry has, and the rows of a tree.
RowOf(p, kind) ==
  IF p = Root THEN [kind |-> kind, name |-> Unnamed, parent |-> <<Unnamed>>] ELSE Row(p, kind)

RowsOf(t) == [p \in DOMAIN t |-> RowOf(p, t[p])]

\* A tree without an entry put at the root.
NamedTree(t) == GoodTree(t) /\ DOMAIN t \subseteq Seq(Names) /\ IsFiniteSet(DOMAIN t)

\* A request has the same answer and the same effect on the rows and on the tree.
Agrees(o, w) == o.tree = RowsOf(w.tree) /\ o.answer = w.answer

LEMMA PathsAreNames == ASSUME NEW p \in Paths PROVE p \in Seq(Names)
<1>1. PICK n \in 0..MaxDepth : p \in [1..n -> Names]
  BY DEF Paths
<1> QED BY <1>1, DepthAssumption

LEMMA RowParts ==
  ASSUME NEW p, NEW kind
  PROVE  /\ RowOf(p, kind).kind = kind
         /\ p = Root => RowOf(p, kind).parent = <<Unnamed>>
         /\ p # Root => RowOf(p, kind).parent = Parent(p) /\ RowOf(p, kind).name = Name(p)
BY DEF RowOf, Row

LEMMA RowsOfFacts ==
  ASSUME NEW t
  PROVE  /\ DOMAIN RowsOf(t) = DOMAIN t
         /\ \A p \in DOMAIN t : RowsOf(t)[p] = RowOf(p, t[p])
         /\ \A p \in DOMAIN t : RowsOf(t)[p].kind = t[p]
         /\ \A p : IsDirRow(RowsOf(t), p) <=> IsDir(t, p)
         /\ \A p : IsFileRow(RowsOf(t), p) <=> IsFile(t, p)
<1>1. DOMAIN RowsOf(t) = DOMAIN t /\ \A p \in DOMAIN t : RowsOf(t)[p] = RowOf(p, t[p])
  BY DEF RowsOf
<1>2. ASSUME NEW p, NEW kind PROVE RowOf(p, kind).kind = kind
  BY DEF RowOf, Row
<1>3. \A p \in DOMAIN t : RowsOf(t)[p].kind = t[p]
  BY <1>1, <1>2
<1>4. \A p : IsDirRow(RowsOf(t), p) <=> IsDir(t, p)
  BY <1>1, <1>3 DEF IsDirRow, IsDir
<1>5. \A p : IsFileRow(RowsOf(t), p) <=> IsFile(t, p)
  BY <1>1, <1>3 DEF IsFileRow, IsFile
<1> QED BY <1>1, <1>3, <1>4, <1>5

\* The rows show the tree they were made of.
LEMMA RowsShowTree == ASSUME NEW t, GoodTree(t) PROVE AsTree(RowsOf(t)) = t
<1>1. t = [p \in DOMAIN t |-> t[p]]
  BY DEF GoodTree, IsTree
<1>2. AsTree(RowsOf(t)) = [p \in DOMAIN t |-> t[p]]
  BY RowsOfFacts DEF AsTree
<1> QED BY <1>1, <1>2

\* Rows that agree at every path are the rows of the tree.
LEMMA RowsEqual ==
  ASSUME NEW t, NEW R, R = [p \in DOMAIN R |-> R[p]], DOMAIN R = DOMAIN t,
         \A p \in DOMAIN t : R[p] = RowOf(p, t[p])
  PROVE  R = RowsOf(t)
BY DEF RowsOf

\* An entry that is put in its place is a row that is put there.
LEMMA PutRows ==
  ASSUME NEW t, NEW p, p # Root, NEW v
  PROVE  Put(RowsOf(t), p, Row(p, v)) = RowsOf(Put(t, p, v))
<1> DEFINE R == Put(RowsOf(t), p, Row(p, v))
           u == Put(t, p, v)
<1>1. DOMAIN u = DOMAIN t \cup {p} /\ \A q \in DOMAIN u : u[q] = IF q = p THEN v ELSE t[q]
  BY DEF Put, Overlay
<1>2. /\ R = [q \in DOMAIN R |-> R[q]] /\ DOMAIN R = DOMAIN t \cup {p}
      /\ \A q \in DOMAIN R : R[q] = IF q = p THEN Row(p, v) ELSE RowsOf(t)[q]
  BY RowsOfFacts DEF Put, Overlay
<1> HIDE DEF R, u
<1>3. \A q \in DOMAIN u : R[q] = RowOf(q, u[q])
  BY <1>1, <1>2, RowsOfFacts DEF RowOf
<1>4. R = RowsOf(u)
  BY <1>1, <1>2, <1>3, RowsEqual
<1> QED BY <1>4 DEF R, u

\* Nothing is under a file.
LEMMA FileIsAlone ==
  ASSUME NEW t, GoodTree(t), NEW p, IsFile(t, p)
  PROVE  Subtree(t, p) = {p}
<1>1. p \in DOMAIN t /\ p \in Places /\ AtOrUnder(p, p)
  BY GoodEntry DEF IsFile, AtOrUnder, Places
<1>2. SUFFICES ASSUME NEW x \in Subtree(t, p), x # p PROVE FALSE
  BY <1>1 DEF Subtree
<1> DEFINE T == {Len(q) : q \in Subtree(t, p) \ {p}}
<1>3. T \subseteq Nat /\ T # {}
  <2>1. \A q \in Subtree(t, p) : Len(q) \in Nat
    BY GoodEntry DEF Subtree, Places
  <2>2. x \in Subtree(t, p) \ {p}
    BY <1>2
  <2>3. Len(x) \in T
    BY <2>2
  <2> QED BY <2>1, <2>3
<1>4. PICK n \in T : \A m \in T : n <= m
  <2> HIDE DEF T
  <2> QED BY <1>3, LeastNumber
<1>5. PICK q \in Subtree(t, p) \ {p} : n = Len(q)
  BY <1>4
<1>6. q \in DOMAIN t /\ q \in Places /\ AtOrUnder(p, q) /\ q # p
  BY <1>5, GoodEntry DEF Subtree
<1>7. q # Root /\ AtOrUnder(p, Parent(q)) /\ Len(Parent(q)) = Len(q) - 1
  BY <1>1, <1>6, StrictlyUnder, ParentFacts
<1>8. IsDir(t, Parent(q))
  BY <1>6, <1>7, GoodEntry
<1>9. Parent(q) \in Subtree(t, p) \ {p}
  BY <1>7, <1>8 DEF Subtree, IsDir, IsFile
<1>10. n <= Len(q) - 1
  BY <1>4, <1>7, <1>9
<1> QED BY <1>5, <1>6, <1>10 DEF Places

\* LIKE finds what is under the path, where it finds nothing else.
LEMMA LikeFacts ==
  ASSUME NEW t, DOMAIN t \subseteq Seq(Names), NEW p \in Seq(Names), p # Root,
         LikeIsUnder(t, p), NEW q \in DOMAIN t
  PROVE  LikeUnder(p, q) <=> AtOrUnder(p, q) /\ q # p
<1>1. p \in Places /\ q \in Places /\ q \in Seq(Names)
  BY DEF Places
<1>2. ASSUME LikeUnder(p, q) PROVE AtOrUnder(p, q) /\ q # p
  BY <1>1, <1>2 DEF LikeIsUnder, LikeUnder
<1>3. ASSUME AtOrUnder(p, q), q # p PROVE LikeUnder(p, q)
  <2>1. Len(p) < Len(q)
    BY <1>1, <1>3, StrictlyUnder
  <2>2. \A i \in 1..Len(p) : p[i] \in Names /\ q[i] = p[i]
    BY <1>3 DEF AtOrUnder
  <2> QED BY <2>1, <2>2, LikeAssumption DEF LikeUnder
<1> QED BY <1>2, <1>3

\* Clearing a path with LIKE is pruning it.
LEMMA DeletedRows ==
  ASSUME NEW t, DOMAIN t \subseteq Seq(Names), NEW p \in Seq(Names), p # Root,
         LikeIsUnder(RowsOf(t), p)
  PROVE  Deleted(RowsOf(t), p) = RowsOf(Prune(t, p))
<1>1. DOMAIN RowsOf(t) = DOMAIN t /\ \A q \in DOMAIN t : RowsOf(t)[q] = RowOf(q, t[q])
  BY RowsOfFacts
<1>2. LikeIsUnder(t, p)
  BY <1>1 DEF LikeIsUnder
<1>3. AtOrUnder(p, p)
  BY DEF AtOrUnder
<1>4. \A q \in DOMAIN t : q # p /\ ~LikeUnder(p, q) <=> ~AtOrUnder(p, q)
  BY <1>2, <1>3, LikeFacts
<1> DEFINE R == Deleted(RowsOf(t), p)
           u == Prune(t, p)
<1>5. DOMAIN u = {q \in DOMAIN t : ~AtOrUnder(p, q)} /\ \A q \in DOMAIN u : u[q] = t[q]
  BY DEF Prune, Subtree
<1>6. /\ R = [q \in DOMAIN R |-> R[q]] /\ DOMAIN R = {q \in DOMAIN t : q # p /\ ~LikeUnder(p, q)}
      /\ \A q \in DOMAIN R : R[q] = RowsOf(t)[q]
  BY <1>1 DEF Deleted
<1> HIDE DEF R, u
<1>7. DOMAIN R = DOMAIN u
  BY <1>4, <1>5, <1>6
<1>8. R = RowsOf(u)
  BY <1>1, <1>5, <1>6, <1>7, RowsEqual
<1> QED BY <1>8 DEF R, u

----------------------------------------------------------------------------
\* The operations on rows.

LEMMA WriteFileRows ==
  ASSUME NEW t, GoodTree(t), NEW p \in Paths, p # Root, NEW c \in Contents
  PROVE  Agrees(RowWriteFile(RowsOf(t), p, c), WriteFile(t, p, c))
<1> DEFINE R == RowsOf(t)
<1>1. /\ DOMAIN R = DOMAIN t /\ \A q \in DOMAIN t : R[q] = RowOf(q, t[q])
      /\ \A q : IsDirRow(R, q) <=> IsDir(t, q)
      /\ \A q : IsFileRow(R, q) <=> IsFile(t, q)
  BY RowsOfFacts
<1>2. Slot(p) = p
  BY DEF Slot
<1>3. CASE ~IsDir(t, Parent(p))
  <2>1. Parent(p) \notin DOMAIN t \/ (Parent(p) \in DOMAIN t /\ IsFile(t, Parent(p)))
    BY <1>3 DEF IsDir, IsFile
  <2>2. CASE Parent(p) \notin DOMAIN t
    <3>1. ~IsDir(t, Parent(p)) /\ ~IsFile(t, Parent(p))
      BY <2>2 DEF IsDir, IsFile
    <3>2. WriteFile(t, p, c) = Refused("FileNotFound", t)
      BY <2>2, <3>1 DEF WriteFile
    <3>3. RowWriteFile(R, p, c) = Refused("FileNotFound", R)
      BY <1>1, <2>2, <3>1 DEF RowWriteFile
    <3> QED BY <3>2, <3>3 DEF Refused, Agrees
  <2>3. CASE Parent(p) \in DOMAIN t /\ IsFile(t, Parent(p))
    <3>1. WriteFile(t, p, c) = Refused("NotADirectory", t)
      BY <1>3, <2>3 DEF WriteFile
    <3>2. RowWriteFile(R, p, c) = Refused("NotADirectory", R)
      BY <1>1, <1>3, <2>3 DEF RowWriteFile
    <3> QED BY <3>1, <3>2 DEF Refused, Agrees
  <2> QED BY <2>1, <2>2, <2>3
<1>4. CASE IsDir(t, Parent(p))
  <2>1. Parent(p) \in DOMAIN t /\ ~IsFile(t, Parent(p))
    BY <1>4 DEF IsDir, IsFile
  <2>2. CASE IsDir(t, p)
    <3>1. ~IsFile(t, p)
      BY <2>2 DEF IsDir, IsFile
    <3>2. WriteFile(t, p, c) = Refused("IsADirectory", t)
      BY <1>2, <1>4, <2>1, <2>2 DEF WriteFile
    <3>3. RowWriteFile(R, p, c) = Refused("IsADirectory", R)
      BY <1>1, <1>4, <2>1, <2>2, <3>1 DEF RowWriteFile
    <3> QED BY <3>2, <3>3 DEF Refused, Agrees
  <2>3. CASE ~IsDir(t, p)
    <3>1. WriteFile(t, p, c) = Done(Put(t, p, c))
      BY <1>2, <1>4, <2>1, <2>3 DEF WriteFile
    <3>2. RowsOf(Put(t, p, c)) = Put(R, p, Row(p, c))
      BY PutRows
    <3>3. CASE IsFile(t, p)
      <4>1. RowWriteFile(R, p, c) = Done([R EXCEPT ![p].kind = c])
        BY <1>1, <1>4, <2>1, <2>3, <3>3 DEF RowWriteFile
      <4>2. p \in DOMAIN t /\ R[p] = Row(p, t[p])
        BY <1>1, <3>3 DEF IsFile, RowOf
      <4>3. [R[p] EXCEPT !.kind = c] = Row(p, c)
        BY <4>2 DEF Row
      <4>4. [R EXCEPT ![p].kind = c] = Put(R, p, Row(p, c))
        <5>1. [R EXCEPT ![p].kind = c] = [q \in DOMAIN t |-> IF q = p THEN Row(p, c) ELSE R[q]]
          BY <1>1, <4>2, <4>3
        <5>2. Put(R, p, Row(p, c)) = [q \in DOMAIN t \cup {p} |-> IF q = p THEN Row(p, c) ELSE R[q]]
          BY <1>1 DEF Put, Overlay
        <5>3. DOMAIN t \cup {p} = DOMAIN t
          BY <4>2
        <5> QED BY <5>1, <5>2, <5>3
      <4> QED BY <3>1, <3>2, <4>1, <4>4 DEF Done, Agrees
    <3>4. CASE ~IsFile(t, p)
      <4>1. RowWriteFile(R, p, c) = Done(Put(R, p, Row(p, c)))
        BY <1>1, <1>4, <2>1, <2>3, <3>4 DEF RowWriteFile
      <4> QED BY <3>1, <3>2, <4>1 DEF Done, Agrees
    <3> QED BY <3>3, <3>4
  <2> QED BY <2>2, <2>3
<1> QED BY <1>3, <1>4

LEMMA MkdirRows ==
  ASSUME NEW t, NEW p \in Paths, p # Root
  PROVE  Agrees(RowMkdir(RowsOf(t), p), Mkdir(t, p))
<1> DEFINE R == RowsOf(t)
<1>1. /\ DOMAIN R = DOMAIN t
      /\ \A q : IsDirRow(R, q) <=> IsDir(t, q)
      /\ \A q : IsFileRow(R, q) <=> IsFile(t, q)
  BY RowsOfFacts
<1>2. Slot(p) = p
  BY DEF Slot
<1>3. CASE Parent(p) \notin DOMAIN t
  <2>1. ~IsDir(t, Parent(p)) /\ ~IsFile(t, Parent(p))
    BY <1>3 DEF IsDir, IsFile
  <2>2. Mkdir(t, p) = Refused("FileNotFound", t) /\ RowMkdir(R, p) = Refused("FileNotFound", R)
    BY <1>1, <1>3, <2>1 DEF Mkdir, RowMkdir
  <2> QED BY <2>2 DEF Refused, Agrees
<1>4. CASE IsFile(t, Parent(p))
  <2>1. Parent(p) \in DOMAIN t /\ ~IsDir(t, Parent(p))
    BY <1>4 DEF IsDir, IsFile
  <2>2. Mkdir(t, p) = Refused("NotADirectory", t) /\ RowMkdir(R, p) = Refused("NotADirectory", R)
    BY <1>1, <1>4, <2>1 DEF Mkdir, RowMkdir
  <2> QED BY <2>2 DEF Refused, Agrees
<1>5. CASE IsDir(t, Parent(p))
  <2>1. Parent(p) \in DOMAIN t /\ ~IsFile(t, Parent(p))
    BY <1>5 DEF IsDir, IsFile
  <2>2. CASE p \in DOMAIN t
    <3>1. Mkdir(t, p) = Refused("FileExists", t) /\ RowMkdir(R, p) = Refused("FileExists", R)
      BY <1>1, <1>2, <1>5, <2>1, <2>2 DEF Mkdir, RowMkdir
    <3> QED BY <3>1 DEF Refused, Agrees
  <2>3. CASE p \notin DOMAIN t
    <3>1. Mkdir(t, p) = Done(Put(t, p, Dir)) /\ RowMkdir(R, p) = Done(Put(R, p, Row(p, Dir)))
      BY <1>1, <1>2, <1>5, <2>1, <2>3 DEF Mkdir, RowMkdir
    <3>2. RowsOf(Put(t, p, Dir)) = Put(R, p, Row(p, Dir))
      BY PutRows
    <3> QED BY <3>1, <3>2 DEF Done, Agrees
  <2> QED BY <2>2, <2>3
<1> QED BY <1>3, <1>4, <1>5 DEF IsDir, IsFile

\* A recursive mkdir, but for the error that meets a file.
LEMMA MkdirAllRows ==
  ASSUME NEW t, GoodTree(t), NEW p \in Paths
  PROVE  LET o == RowMkdirAll(RowsOf(t), p)
             w == MkdirAll(t, p)
         IN /\ o.tree = RowsOf(w.tree)
            /\ \/ o.answer = w.answer
               \/ o.answer = "NotADirectory" /\ w.answer = "FileExists"
<1> DEFINE R == RowsOf(t)
<1>1. /\ DOMAIN R = DOMAIN t /\ \A q \in DOMAIN t : R[q] = RowOf(q, t[q])
      /\ \A q : IsFileRow(R, q) <=> IsFile(t, q)
  BY RowsOfFacts
<1>2. Root \in DOMAIN t /\ ~IsFile(t, Root)
  BY DEF GoodTree, WellFormed, IsDir, IsFile
<1>3. CASE \E q \in Chain(p) : IsFile(t, q)
  <2>1. MkdirAll(t, p) = Refused("FileExists", t)
    BY <1>3 DEF MkdirAll
  <2>2. RowMkdirAll(R, p) = Refused("NotADirectory", R)
    BY <1>1, <1>2, <1>3 DEF RowMkdirAll
  <2> QED BY <2>1, <2>2 DEF Refused
<1>4. CASE ~\E q \in Chain(p) : IsFile(t, q)
  <2> DEFINE u == Overlay(t, [q \in Chain(p) |-> Dir])
             S == Overlay([q \in Chain(p) \ {Root} |-> Row(q, Dir)], R)
  <2>1. MkdirAll(t, p) = Done(u) /\ RowMkdirAll(R, p) = Done(S)
    BY <1>1, <1>4 DEF MkdirAll, RowMkdirAll
  <2>2. DOMAIN u = DOMAIN t \cup Chain(p) /\ \A q \in DOMAIN u : u[q] = IF q \in Chain(p) THEN Dir ELSE t[q]
    BY DEF Overlay
  <2>3. /\ S = [q \in DOMAIN S |-> S[q]] /\ DOMAIN S = (Chain(p) \ {Root}) \cup DOMAIN t
        /\ \A q \in DOMAIN S : S[q] = IF q \in DOMAIN t THEN R[q] ELSE Row(q, Dir)
    BY <1>1 DEF Overlay
  <2> HIDE DEF u, S, R
  <2>4. \A q \in DOMAIN t \cap Chain(p) : t[q] = Dir
    BY <1>4 DEF IsFile
  <2>5. DOMAIN S = DOMAIN u
    BY <1>2, <2>2, <2>3
  <2>6. \A q \in DOMAIN u : S[q] = RowOf(q, u[q])
    BY <1>1, <1>2, <2>2, <2>3, <2>4, <2>5 DEF RowOf
  <2>7. S = RowsOf(u)
    BY <2>3, <2>5, <2>6, RowsEqual
  <2> QED BY <2>1, <2>7 DEF Done, R
<1> QED BY <1>3, <1>4

LEMMA RemoveRows ==
  ASSUME NEW t, NamedTree(t), NEW p \in Paths, p # Root, LikeIsUnder(RowsOf(t), p),
         NEW recursive \in BOOLEAN
  PROVE  Agrees(RowRemove(RowsOf(t), p, recursive), Remove(t, p, recursive))
<1> DEFINE R == RowsOf(t)
<1>1. /\ DOMAIN R = DOMAIN t /\ \A q \in DOMAIN t : R[q] = RowOf(q, t[q])
      /\ \A q : IsDirRow(R, q) <=> IsDir(t, q)
  BY RowsOfFacts
<1>2. Slot(p) = p
  BY DEF Slot
<1>3. CASE p \notin DOMAIN t
  <2>1. Remove(t, p, recursive) = Refused("FileNotFound", t) /\ RowRemove(R, p, recursive) = Refused("FileNotFound", R)
    BY <1>1, <1>3 DEF Remove, RowRemove, IsDir
  <2> QED BY <2>1 DEF Refused, Agrees
<1>4. CASE IsDir(t, p) /\ ~recursive
  <2>1. Remove(t, p, recursive) = Refused("IsADirectory", t) /\ RowRemove(R, p, recursive) = Refused("IsADirectory", R)
    BY <1>1, <1>4 DEF Remove, RowRemove, IsDir
  <2> QED BY <2>1 DEF Refused, Agrees
<1>5. CASE p \in DOMAIN t /\ recursive
  <2>1. Remove(t, p, recursive) = Done(Prune(t, p)) /\ RowRemove(R, p, recursive) = Done(Deleted(R, p))
    BY <1>1, <1>2, <1>5 DEF Remove, RowRemove
  <2>2. Deleted(R, p) = RowsOf(Prune(t, p))
    BY PathsAreNames, DeletedRows DEF NamedTree
  <2> QED BY <2>1, <2>2 DEF Done, Agrees
<1>6. CASE IsFile(t, p) /\ ~recursive
  <2> DEFINE S == [q \in DOMAIN R \ {p} |-> R[q]]
             u == Prune(t, p)
  <2>1. p \in DOMAIN t /\ ~IsDir(t, p)
    BY <1>6 DEF IsDir, IsFile
  <2>2. Remove(t, p, recursive) = Done(u) /\ RowRemove(R, p, recursive) = Done(S)
    BY <1>1, <1>2, <1>6, <2>1 DEF Remove, RowRemove
  <2>3. DOMAIN u = DOMAIN t \ {p} /\ \A q \in DOMAIN u : u[q] = t[q]
    BY <1>6, FileIsAlone DEF Prune, NamedTree
  <2>4. S = [q \in DOMAIN S |-> S[q]] /\ DOMAIN S = DOMAIN t \ {p} /\ \A q \in DOMAIN S : S[q] = R[q]
    BY <1>1
  <2> HIDE DEF S, u, R
  <2>5. S = RowsOf(u)
    BY <1>1, <2>3, <2>4, RowsEqual
  <2> QED BY <2>2, <2>5 DEF Done, Agrees, R
<1> QED BY <1>3, <1>4, <1>5, <1>6 DEF IsDir, IsFile

\* What copy and move carry: all that is under the source.
Under(t, s) == Subtree(t, s) \ {s}

\* And where it goes.
Carried(t, s, d) == {Rebase(s, d, q) : q \in Under(t, s)}

\* It is what LIKE finds under the source among rows that still have it.
LEMMA RowsUnderSource ==
  ASSUME NEW t, NamedTree(t), NEW s \in Seq(Names), s # Root, LikeIsUnder(t, s), s \in DOMAIN t,
         NEW P, \A q \in DOMAIN P : q \in DOMAIN t \/ ~LikeUnder(s, q), Under(t, s) \subseteq DOMAIN P
  PROVE  (IF RowsOf(t)[s].kind = Dir THEN RowsUnder(P, s) ELSE {}) = Under(t, s)
<1>1. RowsOf(t)[s].kind = t[s]
  BY RowsOfFacts
<1>2. CASE t[s] = Dir
  <2>1. RowsUnder(P, s) = Under(t, s)
    BY LikeFacts DEF RowsUnder, Under, Subtree, NamedTree
  <2> QED BY <1>1, <1>2, <2>1
<1>3. CASE t[s] # Dir
  <2>1. Subtree(t, s) = {s}
    BY <1>3, FileIsAlone DEF NamedTree, IsFile
  <2> QED BY <1>1, <1>3, <2>1 DEF Under
<1> QED BY <1>2, <1>3

\* What is carried goes strictly under the destination, each to a place of its own.
LEMMA CarriedPlaces ==
  ASSUME NEW t, GoodTree(t), NEW s \in Places, NEW d \in Places, NEW q \in Under(t, s)
  PROVE  /\ q \in DOMAIN t /\ q \in Places /\ AtOrUnder(s, q) /\ q # Root
         /\ Rebase(s, d, q) \in Places /\ AtOrUnder(d, Rebase(s, d, q))
         /\ Rebase(s, d, q) # d /\ Rebase(s, d, q) # Root
         /\ Rebase(d, s, Rebase(s, d, q)) = q
         /\ Name(Rebase(s, d, q)) = Name(q)
<1>1. q \in DOMAIN t /\ q \in Places /\ AtOrUnder(s, q) /\ q # s
  BY GoodEntry DEF Under, Subtree
<1>2. q # Root /\ Len(q) > Len(s)
  BY <1>1, StrictlyUnder
<1> DEFINE n == Rebase(s, d, q)
<1>3. /\ n \in Places /\ AtOrUnder(d, n) /\ Len(n) = Len(d) + Len(q) - Len(s)
      /\ \A i \in 1..(Len(q) - Len(s)) : n[Len(d) + i] = q[Len(s) + i]
  BY <1>1, RebaseFacts
<1>9. Rebase(d, s, n) = q
  BY <1>1, RebaseBack
<1> HIDE DEF n
<1>4. Len(s) \in Nat /\ Len(q) \in Nat /\ Len(d) \in Nat
  BY <1>1 DEF Places
<1>5. Len(n) > Len(d) /\ Len(n) > 0
  BY <1>2, <1>3, <1>4
<1>6. n # d /\ n # Root
  BY <1>5, <1>4 DEF Root
<1>7. n[Len(n)] = q[Len(q)]
  <2>1. Len(q) - Len(s) \in 1..(Len(q) - Len(s))
    BY <1>2, <1>4
  <2>2. n[Len(d) + (Len(q) - Len(s))] = q[Len(s) + (Len(q) - Len(s))]
    BY <1>3, <2>1
  <2>3. Len(d) + (Len(q) - Len(s)) = Len(n) /\ Len(s) + (Len(q) - Len(s)) = Len(q)
    BY <1>3, <1>4
  <2> QED BY <2>2, <2>3
<1>8. Name(n) = Name(q)
  BY <1>2, <1>6, <1>7 DEF Name
<1> QED BY <1>1, <1>2, <1>3, <1>6, <1>8, <1>9 DEF n

\* The rows carried, under their new paths: one each.
LEMMA RebasedRows ==
  ASSUME NEW t, NamedTree(t), NEW s \in Places, NEW d \in Places, NEW P,
         Under(t, s) \subseteq DOMAIN P, \A q \in Under(t, s) : P[q] = RowsOf(t)[q]
  PROVE  LET S == Rebased(P, Under(t, s), s, d)
         IN /\ S = [n \in DOMAIN S |-> S[n]] /\ DOMAIN S = Carried(t, s, d)
            /\ \A n \in Carried(t, s, d) : S[n] = Row(n, t[Rebase(d, s, n)])
            /\ Cardinality(Carried(t, s, d)) = Cardinality(Under(t, s)) /\ IsFiniteSet(Carried(t, s, d))
<1> DEFINE B == Under(t, s)
           S == Rebased(P, B, s, d)
           new == {Rebase(s, d, q) : q \in B}
           f == [q \in B |-> Rebase(s, d, q)]
<1>1. GoodTree(t)
  BY DEF NamedTree
<1>2. \A q \in B : Rebase(d, s, Rebase(s, d, q)) = q
  BY <1>1, CarriedPlaces
<1>3. S = [n \in DOMAIN S |-> S[n]] /\ DOMAIN S = new
  BY DEF Rebased
<1>4. ASSUME NEW n \in new PROVE S[n] = Row(n, t[Rebase(d, s, n)])
  <2>1. PICK q \in B : n = Rebase(s, d, q)
    BY <1>4
  <2>2. \A x \in B : Rebase(s, d, x) = n => x = q
    BY <1>2, <2>1
  <2>3. (CHOOSE x \in B : Rebase(s, d, x) = n) = q
    BY <2>1, <2>2
  <2>4. S[n] = [P[q] EXCEPT !.parent = Parent(n)]
    BY <2>3 DEF Rebased
  <2>5. q \in DOMAIN t /\ q # Root /\ Name(n) = Name(q) /\ Rebase(d, s, n) = q
    BY <1>1, <2>1, CarriedPlaces
  <2>6. P[q] = Row(q, t[q])
    BY <2>5, RowsOfFacts DEF RowOf
  <2>7. [Row(q, t[q]) EXCEPT !.parent = Parent(n)] = Row(n, t[q])
    BY <2>5 DEF Row
  <2> QED BY <2>4, <2>5, <2>6, <2>7
<1>5. IsFiniteSet(B)
  BY FS_Subset DEF Under, Subtree, NamedTree
<1>6. f \in Bijection(B, new)
  <2>1. f \in [B -> new] /\ \A n \in new : \E q \in B : f[q] = n
    OBVIOUS
  <2>2. \A x, y \in B : f[x] = f[y] => x = y
    BY <1>2
  <2> HIDE DEF f, new, B
  <2> QED BY <2>1, <2>2 DEF Bijection, Injection, Surjection, IsInjective
<1>7. Cardinality(new) = Cardinality(B) /\ IsFiniteSet(new)
  <2> HIDE DEF f, new, B
  <2> QED BY <1>5, <1>6, FS_Bijection DEF ExistsBijection
<1> QED BY <1>3, <1>4, <1>7 DEF Carried

LEMMA RebaseSelf == ASSUME NEW s \in Places, NEW d \in Places PROVE Rebase(s, d, s) = d
<1> DEFINE n == Rebase(s, d, s)
<1>1. Len(s) \in Nat /\ Len(d) \in Nat /\ AtOrUnder(s, s)
  BY DEF Places, AtOrUnder
<1>2. n \in Places /\ Len(n) = Len(d) + Len(s) - Len(s) /\ \A i \in 1..Len(d) : n[i] = d[i]
  BY <1>1, RebaseFacts
<1> HIDE DEF n
<1>3. Len(n) = Len(d)
  BY <1>1, <1>2
<1>4. n \in Seq(Names \cup {Unnamed}) /\ d \in Seq(Names \cup {Unnamed})
  BY <1>2 DEF Places
<1>5. n = d
  BY <1>2, <1>3, <1>4, SeqEqual
<1> QED BY <1>5 DEF n

\* The clone of the source is the destination's entry and what is carried.
LEMMA ClonedFacts ==
  ASSUME NEW t, GoodTree(t), NEW s \in DOMAIN t, NEW d \in Places
  PROVE  LET c == Cloned(t, s, d)
         IN /\ DOMAIN c = {d} \cup Carried(t, s, d) /\ d \notin Carried(t, s, d)
            /\ c[d] = t[s] /\ \A n \in Carried(t, s, d) : c[n] = t[Rebase(d, s, n)]
<1> DEFINE new == {Rebase(s, d, q) : q \in Under(t, s)}
           c == Cloned(t, s, d)
<1>1. s \in Places
  BY GoodEntry
<1>2. AtOrUnder(s, s) /\ Rebase(s, d, s) = d /\ Rebase(d, s, d) = s
  <2>1. AtOrUnder(s, s)
    BY <1>1 DEF AtOrUnder, Places
  <2> QED BY <1>1, <2>1, RebaseSelf
<1>3. Subtree(t, s) = {s} \cup Under(t, s)
  BY <1>2 DEF Under, Subtree
<1>4. /\ DOMAIN c = {Rebase(s, d, x) : x \in Subtree(t, s)}
      /\ \A n \in DOMAIN c : c[n] = t[Rebase(d, s, n)]
  BY DEF Cloned
<1>5. d \notin new
  BY <1>1, CarriedPlaces
<1> HIDE DEF c
<1>6. DOMAIN c = {d} \cup new
  BY <1>2, <1>3, <1>4
<1>7. c[d] = t[s] /\ \A n \in new : c[n] = t[Rebase(d, s, n)]
  BY <1>2, <1>4, <1>6
<1> QED BY <1>5, <1>6, <1>7 DEF c, Carried

\* The requests' checks are the same.
LEMMA TransferFacts ==
  ASSUME NEW t, NEW s, NEW d, d # Root
  PROVE  LET problem == TransferProblem(RowsOf(t), s, d)
         IN /\ problem = "ok" <=> s \in DOMAIN t /\ IsDir(t, Parent(d))
            /\ problem # "ok" => Copy(t, s, d) = Refused(problem, t)
            /\ problem = "ok" => Copy(t, s, d) = Done(Overlay(Prune(t, d), Cloned(t, s, d)))
<1>1. /\ DOMAIN RowsOf(t) = DOMAIN t
      /\ \A q : IsFileRow(RowsOf(t), q) <=> IsFile(t, q)
  BY RowsOfFacts
<1>2. Slot(d) = d
  BY DEF Slot
<1>3. CASE s \notin DOMAIN t
  BY <1>1, <1>2, <1>3 DEF TransferProblem, Copy
<1>4. CASE s \in DOMAIN t /\ Parent(d) \notin DOMAIN t
  <2>1. ~IsFile(t, Parent(d)) /\ ~IsDir(t, Parent(d))
    BY <1>4 DEF IsFile, IsDir
  <2> QED BY <1>1, <1>2, <1>4, <2>1 DEF TransferProblem, Copy
<1>5. CASE s \in DOMAIN t /\ IsFile(t, Parent(d))
  <2>1. Parent(d) \in DOMAIN t /\ ~IsDir(t, Parent(d))
    BY <1>5 DEF IsFile, IsDir
  <2> QED BY <1>1, <1>2, <1>5, <2>1 DEF TransferProblem, Copy
<1>6. CASE s \in DOMAIN t /\ IsDir(t, Parent(d))
  <2>1. Parent(d) \in DOMAIN t /\ ~IsFile(t, Parent(d))
    BY <1>6 DEF IsFile, IsDir
  <2> QED BY <1>1, <1>2, <1>6, <2>1 DEF TransferProblem, Copy
<1> QED BY <1>3, <1>4, <1>5, <1>6 DEF IsFile, IsDir

\* A transfer between places apart, of which LIKE finds no more than is there.
CarefulTransfer(t, s, d) ==
  /\ s \in Paths /\ d \in Paths /\ s # Root /\ d # Root /\ Apart(s, d)
  /\ ~LikeUnder(s, d) /\ LikeIsUnder(RowsOf(t), s) /\ LikeIsUnder(RowsOf(t), d)

LEMMA CarefulFacts ==
  ASSUME NEW t, NamedTree(t), NEW s, NEW d, CarefulTransfer(t, s, d)
  PROVE  /\ s \in Seq(Names) /\ d \in Seq(Names) /\ s \in Places /\ d \in Places
         /\ LikeIsUnder(t, s) /\ LikeIsUnder(t, d) /\ s # d
         /\ \A q \in Under(t, s) : ~AtOrUnder(d, q) /\ q # d
<1>1. s \in Seq(Names) /\ d \in Seq(Names) /\ s \in Places /\ d \in Places
  BY PathsAreNames, PathsArePlaces DEF CarefulTransfer
<1>2. LikeIsUnder(t, s) /\ LikeIsUnder(t, d)
  BY RowsOfFacts DEF LikeIsUnder, CarefulTransfer
<1>3. AtOrUnder(s, s) /\ AtOrUnder(d, d)
  BY <1>1 DEF AtOrUnder, Places
<1>4. Apart(s, d) /\ Apart(d, s)
  BY DEF Apart, CarefulTransfer
<1>5. ASSUME NEW q \in Under(t, s) PROVE ~AtOrUnder(d, q)
  <2>1. q \in Places /\ AtOrUnder(s, q)
    BY GoodEntry DEF Under, Subtree, NamedTree
  <2> QED BY <1>1, <1>4, <2>1, ApartFacts
<1> QED BY <1>1, <1>2, <1>3, <1>4, <1>5 DEF Apart

LEMMA CopyRows ==
  ASSUME NEW t, NamedTree(t), NEW s, NEW d, CarefulTransfer(t, s, d)
  PROVE  Agrees(RowCopy(RowsOf(t), s, d), Copy(t, s, d))
<1> DEFINE R == RowsOf(t)
           problem == TransferProblem(R, s, d)
           v == Put(Prune(t, d), d, t[s])
           placed == Put(Deleted(R, d), d, Row(d, R[s].kind))
           B == Under(t, s)
           new == Carried(t, s, d)
           u == Overlay(Prune(t, d), Cloned(t, s, d))
<1>1. /\ s \in Seq(Names) /\ d \in Seq(Names) /\ s \in Places /\ d \in Places
      /\ LikeIsUnder(t, s) /\ LikeIsUnder(t, d) /\ s # d
      /\ \A q \in B : ~AtOrUnder(d, q) /\ q # d
  BY CarefulFacts
<1>2. s # Root /\ d # Root /\ ~LikeUnder(s, d) /\ LikeIsUnder(R, d)
  BY DEF CarefulTransfer
<1>3. /\ problem = "ok" <=> s \in DOMAIN t /\ IsDir(t, Parent(d))
      /\ problem # "ok" => Copy(t, s, d) = Refused(problem, t)
      /\ problem = "ok" => Copy(t, s, d) = Done(u)
  BY <1>2, TransferFacts
<1>4. CASE problem # "ok"
  <2>1. RowCopy(R, s, d) = Refused(problem, R)
    BY <1>4 DEF RowCopy
  <2> QED BY <1>3, <1>4, <2>1 DEF Refused, Agrees
<1>5. CASE problem = "ok"
  <2>1. s \in DOMAIN t /\ R[s].kind = t[s] /\ GoodTree(t)
    BY <1>3, <1>5, RowsOfFacts DEF NamedTree
  <2>2. placed = RowsOf(v)
    <3>1. Deleted(R, d) = RowsOf(Prune(t, d))
      BY <1>1, <1>2, DeletedRows DEF NamedTree
    <3> QED BY <1>2, <2>1, <3>1, PutRows
  <2>3. /\ DOMAIN v = {q \in DOMAIN t : ~AtOrUnder(d, q)} \cup {d}
        /\ \A q \in DOMAIN v : v[q] = IF q = d THEN t[s] ELSE t[q]
    BY DEF Put, Overlay, Prune, Subtree
  <2> HIDE DEF v
  <2>4. DOMAIN placed = DOMAIN v /\ \A q \in DOMAIN v : placed[q] = RowOf(q, v[q])
    BY <2>2, RowsOfFacts
  <2>5. B \subseteq DOMAIN t
    BY DEF Under, Subtree
  <2>6. B \subseteq DOMAIN placed /\ \A q \in B : placed[q] = R[q]
    BY <1>1, <2>3, <2>4, <2>5, RowsOfFacts
  <2>7. \A q \in DOMAIN placed : q \in DOMAIN t \/ ~LikeUnder(s, q)
    BY <1>2, <2>3, <2>4
  <2> HIDE DEF placed
  <2>8. (IF R[s].kind = Dir THEN RowsUnder(placed, s) ELSE {}) = B
    BY <1>1, <1>2, <2>1, <2>6, <2>7, RowsUnderSource
  <2> DEFINE S == Rebased(placed, B, s, d)
  <2>9. /\ S = [n \in DOMAIN S |-> S[n]] /\ DOMAIN S = new
        /\ \A n \in new : S[n] = Row(n, t[Rebase(d, s, n)])
        /\ Cardinality(new) = Cardinality(B) /\ IsFiniteSet(new)
    BY <1>1, <2>6, RebasedRows
  <2>10. \A n \in new : AtOrUnder(d, n) /\ n # d /\ n # Root
    BY <1>1, <2>1, CarriedPlaces DEF Carried
  <2>11. ~Clash(placed, B, s, d, DOMAIN placed)
    <3>1. new \cap DOMAIN placed = {}
      BY <2>3, <2>4, <2>10
    <3>2. Cardinality(new) \in Nat
      BY <2>9, FS_CardinalityType
    <3>3. ~(Cardinality(new) < Cardinality(B))
      BY <2>9, <3>2
    <3> QED BY <3>1, <3>3 DEF Clash, Carried
  <2>12. RowCopy(R, s, d) = Done(Overlay(placed, S))
    BY <1>5, <2>8, <2>11 DEF RowCopy, placed
  <2>13. /\ DOMAIN Cloned(t, s, d) = {d} \cup new /\ d \notin new
         /\ Cloned(t, s, d)[d] = t[s] /\ \A n \in new : Cloned(t, s, d)[n] = t[Rebase(d, s, n)]
    BY <1>1, <2>1, ClonedFacts
  <2>14. /\ DOMAIN u = {q \in DOMAIN t : ~AtOrUnder(d, q)} \cup {d} \cup new
         /\ \A q \in DOMAIN u : u[q] = IF q \in new THEN t[Rebase(d, s, q)] ELSE IF q = d THEN t[s] ELSE t[q]
    BY <2>13 DEF Overlay, Prune, Subtree
  <2> DEFINE O == Overlay(placed, S)
  <2> HIDE DEF S, u, new
  <2>15. /\ O = [q \in DOMAIN O |-> O[q]] /\ DOMAIN O = DOMAIN v \cup new
         /\ \A q \in DOMAIN O : O[q] = IF q \in new THEN S[q] ELSE placed[q]
    BY <2>4, <2>9 DEF Overlay
  <2> HIDE DEF O
  <2>16. DOMAIN O = DOMAIN u
    BY <2>3, <2>14, <2>15
  <2>17. \A q \in DOMAIN u : O[q] = RowOf(q, u[q])
    BY <2>3, <2>4, <2>9, <2>10, <2>14, <2>15, <2>16 DEF RowOf
  <2>18. O = RowsOf(u)
    BY <2>15, <2>16, <2>17, RowsEqual
  <2> QED BY <1>3, <1>5, <2>12, <2>18 DEF Done, Agrees, O
<1> QED BY <1>4, <1>5

LEMMA MoveRows ==
  ASSUME NEW t, NamedTree(t), NEW s, NEW d, CarefulTransfer(t, s, d)
  PROVE  Agrees(RowMove(RowsOf(t), s, d), Move(t, s, d))
<1> DEFINE R == RowsOf(t)
           problem == TransferProblem(R, s, d)
           cleared == Deleted(R, d)
           left == [q \in DOMAIN cleared \ {s} |-> cleared[q]]
           moved == Put(left, d, Row(d, cleared[s].kind))
           B == Under(t, s)
           new == Carried(t, s, d)
           rest == [q \in DOMAIN moved \ B |-> moved[q]]
           grown == Overlay(Prune(t, d), Cloned(t, s, d))
           u == Prune(grown, s)
<1>1. /\ s \in Seq(Names) /\ d \in Seq(Names) /\ s \in Places /\ d \in Places
      /\ LikeIsUnder(t, s) /\ LikeIsUnder(t, d) /\ s # d
      /\ \A q \in B : ~AtOrUnder(d, q) /\ q # d
  BY CarefulFacts
<1>2. /\ s # Root /\ d # Root /\ ~LikeUnder(s, d) /\ LikeIsUnder(R, d)
      /\ ~AtOrUnder(d, s) /\ ~AtOrUnder(s, d) /\ Apart(s, d)
  BY DEF CarefulTransfer, Apart
<1>3. /\ problem = "ok" <=> s \in DOMAIN t /\ IsDir(t, Parent(d))
      /\ problem # "ok" => Copy(t, s, d) = Refused(problem, t)
      /\ problem = "ok" => Copy(t, s, d) = Done(grown)
  BY <1>2, TransferFacts
<1>4. CASE problem # "ok"
  <2>1. RowMove(R, s, d) = Refused(problem, R)
    BY <1>4 DEF RowMove
  <2>2. Move(t, s, d) = Refused(problem, t)
    <3>1. Copy(t, s, d) = Refused(problem, t) /\ Copy(t, s, d).answer # "ok"
      BY <1>3, <1>4 DEF Refused
    <3> QED BY <3>1 DEF Move
  <2> QED BY <2>1, <2>2 DEF Refused, Agrees
<1>5. CASE problem = "ok"
  <2>1. s \in DOMAIN t /\ R[s].kind = t[s] /\ GoodTree(t)
    BY <1>3, <1>5, RowsOfFacts DEF NamedTree
  <2>2. cleared = RowsOf(Prune(t, d))
    BY <1>1, <1>2, DeletedRows DEF NamedTree
  <2>3. DOMAIN Prune(t, d) = {q \in DOMAIN t : ~AtOrUnder(d, q)} /\ \A q \in DOMAIN Prune(t, d) : Prune(t, d)[q] = t[q]
    BY DEF Prune, Subtree
  <2>4. /\ DOMAIN cleared = {q \in DOMAIN t : ~AtOrUnder(d, q)}
        /\ \A q \in DOMAIN cleared : cleared[q] = RowOf(q, t[q])
        /\ s \in DOMAIN cleared /\ cleared[s].kind = t[s]
    BY <1>2, <2>1, <2>2, <2>3, RowsOfFacts
  <2> HIDE DEF cleared
  <2>5. /\ DOMAIN moved = {q \in DOMAIN t : ~AtOrUnder(d, q) /\ q # s} \cup {d}
        /\ \A q \in DOMAIN moved : moved[q] = IF q = d THEN Row(d, t[s]) ELSE RowOf(q, t[q])
    BY <2>4 DEF Put, Overlay
  <2>6. B \subseteq DOMAIN t /\ s \notin B
    BY DEF Under, Subtree
  <2> HIDE DEF moved
  <2>7. B \subseteq DOMAIN moved /\ \A q \in B : moved[q] = R[q]
    BY <1>1, <2>5, <2>6, RowsOfFacts
  <2>8. \A q \in DOMAIN moved : q \in DOMAIN t \/ ~LikeUnder(s, q)
    BY <1>2, <2>5
  <2>9. (IF R[s].kind = Dir THEN RowsUnder(moved, s) ELSE {}) = B
    BY <1>1, <1>2, <2>1, <2>7, <2>8, RowsUnderSource
  <2> DEFINE S == Rebased(moved, B, s, d)
  <2>10. /\ S = [n \in DOMAIN S |-> S[n]] /\ DOMAIN S = new
         /\ \A n \in new : S[n] = Row(n, t[Rebase(d, s, n)])
         /\ Cardinality(new) = Cardinality(B) /\ IsFiniteSet(new)
    BY <1>1, <2>7, RebasedRows
  <2>11. \A n \in new : n \in Places /\ AtOrUnder(d, n) /\ n # d /\ n # Root
    BY <1>1, <2>1, CarriedPlaces DEF Carried
  <2>12. \A n \in new : ~AtOrUnder(s, n)
    BY <1>1, <1>2, <2>11, ApartFacts
  <2>13. DOMAIN rest = DOMAIN moved \ B /\ \A q \in DOMAIN rest : rest[q] = moved[q]
    OBVIOUS
  <2>14. ~Clash(moved, B, s, d, DOMAIN rest)
    <3>1. new \cap DOMAIN rest = {}
      BY <2>5, <2>11, <2>13
    <3>2. Cardinality(new) \in Nat
      BY <2>10, FS_CardinalityType
    <3>3. ~(Cardinality(new) < Cardinality(B))
      BY <2>10, <3>2
    <3> QED BY <3>1, <3>3 DEF Clash, Carried
  <2>15. RowMove(R, s, d) = Done(Overlay(rest, S))
    BY <1>5, <2>4, <2>9, <2>14 DEF RowMove, moved, cleared
  <2>16. /\ DOMAIN Cloned(t, s, d) = {d} \cup new /\ d \notin new
         /\ Cloned(t, s, d)[d] = t[s] /\ \A n \in new : Cloned(t, s, d)[n] = t[Rebase(d, s, n)]
    BY <1>1, <2>1, ClonedFacts
  <2>17. /\ DOMAIN grown = {q \in DOMAIN t : ~AtOrUnder(d, q)} \cup {d} \cup new
         /\ \A q \in DOMAIN grown :
              grown[q] = IF q \in new THEN t[Rebase(d, s, q)] ELSE IF q = d THEN t[s] ELSE t[q]
    BY <2>16 DEF Overlay, Prune, Subtree
  <2> HIDE DEF grown, new, rest
  <2>18. Move(t, s, d) = Done(u)
    <3>1. s \in DOMAIN grown
      BY <1>2, <2>1, <2>17
    <3>2. Slot(s) = s
      BY <1>2 DEF Slot
    <3>3. Copy(t, s, d).answer = "ok" /\ Copy(t, s, d).tree = grown
      BY <1>3, <1>5 DEF Done
    <3>4. Move(t, s, d) = Remove(grown, s, TRUE)
      BY <3>3 DEF Move
    <3> QED BY <3>1, <3>2, <3>4 DEF Remove
  <2>19. DOMAIN u = {q \in DOMAIN grown : ~AtOrUnder(s, q)} /\ \A q \in DOMAIN u : u[q] = grown[q]
    BY DEF Prune, Subtree
  <2> DEFINE O == Overlay(rest, S)
  <2> HIDE DEF S, u
  <2>20. /\ O = [q \in DOMAIN O |-> O[q]] /\ DOMAIN O = DOMAIN rest \cup new
         /\ \A q \in DOMAIN O : O[q] = IF q \in new THEN S[q] ELSE rest[q]
    BY <2>10 DEF Overlay
  <2> HIDE DEF O
  <2>21. AtOrUnder(s, s) /\ \A q \in DOMAIN t : q \in B <=> AtOrUnder(s, q) /\ q # s
    BY <1>1 DEF Under, Subtree, AtOrUnder, Places
  <2>22. DOMAIN O = DOMAIN u
    BY <1>2, <1>1, <2>5, <2>6, <2>12, <2>13, <2>17, <2>19, <2>20, <2>21
  <2>23. \A q \in DOMAIN u : O[q] = RowOf(q, u[q])
    <3> TAKE q \in DOMAIN u
    <3>1. q \in DOMAIN grown /\ u[q] = grown[q] /\ q \in DOMAIN O
      BY <2>19, <2>22
    <3>2. CASE q \in new
      BY <2>10, <2>11, <2>17, <2>20, <3>1, <3>2 DEF RowOf
    <3>3. CASE q \notin new
      <4>1. q \in DOMAIN moved /\ O[q] = moved[q]
        BY <2>13, <2>20, <3>1, <3>3
      <4> QED BY <1>2, <2>5, <2>17, <3>1, <3>3, <4>1 DEF RowOf
    <3> QED BY <3>2, <3>3
  <2>24. O = RowsOf(u)
    BY <2>20, <2>22, <2>23, RowsEqual
  <2> QED BY <2>15, <2>18, <2>24 DEF Done, Agrees, O
<1> QED BY <1>4, <1>5

----------------------------------------------------------------------------
\* The table, request by request.

\* A request away from the root leaves a tree without an entry put there.
LEMMA ApplyNamed ==
  ASSUME NEW t, NamedTree(t), NEW r \in Requests, r.path # Root,
         r.op \in {"copy", "move"} => r.dest # Root
  PROVE  NamedTree(Apply(t, r).tree)
<1> DEFINE Named(u) == DOMAIN u \subseteq Seq(Names) /\ IsFiniteSet(DOMAIN u)
<1>1. GoodTree(Apply(t, r).tree)
  BY ApplyGood DEF NamedTree
<1>2. Named(t)
  BY DEF NamedTree
<1>3. ASSUME NEW u, Named(u), NEW p \in Seq(Names), NEW v PROVE Named(Put(u, p, v))
  <2>1. DOMAIN Put(u, p, v) = DOMAIN u \cup {p}
    BY DEF Put, Overlay
  <2> QED BY <1>3, <2>1, FS_AddElement
<1>4. ASSUME NEW u, Named(u), NEW p PROVE Named(Prune(u, p))
  <2>1. DOMAIN Prune(u, p) \subseteq DOMAIN u
    BY DEF Prune
  <2> QED BY <1>4, <2>1, FS_Subset
<1>5. ASSUME NEW p \in Paths PROVE Chain(p) \subseteq Seq(Names) /\ IsFiniteSet(Chain(p))
  <2>1. p \in Seq(Names) /\ Len(p) \in Nat
    BY PathsAreNames
  <2>2. \A n \in 0..Len(p) : SubSeq(p, 1, n) \in Seq(Names)
    BY <2>1
  <2>3. IsFiniteSet(0..Len(p))
    BY <2>1, FS_Interval
  <2> DEFINE f == [n \in 0..Len(p) |-> SubSeq(p, 1, n)]
  <2>4. f \in Surjection(0..Len(p), Chain(p))
    BY DEF Surjection, Chain
  <2>5. IsFiniteSet(Chain(p))
    BY <2>3, <2>4, FS_Surjection
  <2> QED BY <2>2, <2>5 DEF Chain
<1>6. ASSUME NEW s \in DOMAIN t, NEW d \in Paths
      PROVE  Named(Overlay(Prune(t, d), Cloned(t, s, d)))
  <2> DEFINE c == Cloned(t, s, d)
  <2>1. d \in Seq(Names) /\ s \in Seq(Names)
    BY <1>2, PathsAreNames
  <2>2. DOMAIN c = {Rebase(s, d, x) : x \in Subtree(t, s)}
    BY DEF Cloned
  <2>3. \A x \in Subtree(t, s) : x \in Seq(Names) /\ Len(s) + 1 \in Nat /\ Len(s) + 1 >= 1
    BY <1>2, <2>1 DEF Subtree
  <2>4. \A x \in Subtree(t, s) : SubSeq(x, Len(s) + 1, Len(x)) \in Seq(Names)
    BY <2>1, <2>3
  <2>5. DOMAIN c \subseteq Seq(Names)
    <3>1. \A x \in Subtree(t, s) : Rebase(s, d, x) \in Seq(Names)
      BY <2>1, <2>4 DEF Rebase
    <3> QED BY <2>2, <3>1
  <2>6. IsFiniteSet(Subtree(t, s))
    BY <1>2, FS_Subset DEF Subtree
  <2> DEFINE f == [x \in Subtree(t, s) |-> Rebase(s, d, x)]
  <2>7. f \in Surjection(Subtree(t, s), DOMAIN c)
    BY <2>2 DEF Surjection
  <2>8. IsFiniteSet(DOMAIN c)
    BY <2>6, <2>7, FS_Surjection
  <2>9. Named(Prune(t, d))
    BY <1>2, <1>4
  <2>10. DOMAIN Overlay(Prune(t, d), c) = DOMAIN Prune(t, d) \cup DOMAIN c
    BY DEF Overlay
  <2> HIDE DEF c
  <2>11. IsFiniteSet(DOMAIN Prune(t, d) \cup DOMAIN c)
    BY <2>8, <2>9, FS_Union
  <2>12. Named(Overlay(Prune(t, d), c))
    BY <2>5, <2>9, <2>10, <2>11
  <2> QED BY <2>12 DEF c
<1> HIDE DEF Named
<1>7. ASSUME NEW s \in Paths, NEW d \in Paths, d # Root PROVE Named(Copy(t, s, d).tree)
  <2>1. Slot(d) = d
    BY <1>7 DEF Slot
  <2>2. CASE s \in DOMAIN t
    BY <1>2, <1>6, <2>1, <2>2 DEF Copy, Refused, Done
  <2>3. CASE s \notin DOMAIN t
    BY <1>2, <2>3 DEF Copy, Refused
  <2> QED BY <2>2, <2>3
<1>8. CASE r \in [op : {"writeFile"}, path : Paths, content : Contents]
  <2>1. Apply(t, r) = WriteFile(t, r.path, r.content) /\ Slot(r.path) = r.path
    BY <1>8 DEF Apply, Slot
  <2>2. Named(Put(t, r.path, r.content))
    BY <1>2, <1>3, <1>8, PathsAreNames
  <2>3. Named(WriteFile(t, r.path, r.content).tree)
    BY <1>2, <2>1, <2>2 DEF WriteFile, Refused, Done
  <2> QED BY <1>1, <2>1, <2>3 DEF NamedTree, Named
<1>9. CASE r \in [op : {"mkdir", "remove"}, path : Paths, recursive : BOOLEAN]
  <2>0. Slot(r.path) = r.path
    BY DEF Slot
  <2>1. CASE r.op = "mkdir" /\ r.recursive
    <3>1. Apply(t, r) = MkdirAll(t, r.path)
      BY <2>1 DEF Apply
    <3>2. Chain(r.path) \subseteq Seq(Names) /\ IsFiniteSet(Chain(r.path))
      BY <1>5, <1>9
    <3>3. DOMAIN Overlay(t, [q \in Chain(r.path) |-> Dir]) = DOMAIN t \cup Chain(r.path)
      BY DEF Overlay
    <3>4. Named(Overlay(t, [q \in Chain(r.path) |-> Dir]))
      BY <1>2, <3>2, <3>3, FS_Union DEF Named
    <3>5. Named(MkdirAll(t, r.path).tree)
      BY <1>2, <3>4 DEF MkdirAll, Refused, Done
    <3> QED BY <1>1, <3>1, <3>5 DEF NamedTree, Named
  <2>2. CASE r.op = "mkdir" /\ ~r.recursive
    <3>1. Apply(t, r) = Mkdir(t, r.path)
      BY <2>2 DEF Apply
    <3>2. Named(Put(t, r.path, Dir))
      BY <1>2, <1>3, <1>9, PathsAreNames
    <3>3. Named(Mkdir(t, r.path).tree)
      BY <1>2, <2>0, <3>2 DEF Mkdir, Refused, Done
    <3> QED BY <1>1, <3>1, <3>3 DEF NamedTree, Named
  <2>3. CASE r.op = "remove"
    <3>1. Apply(t, r) = Remove(t, r.path, r.recursive)
      BY <2>3 DEF Apply
    <3>2. Named(Prune(t, r.path))
      BY <1>2, <1>4
    <3>3. Named(Remove(t, r.path, r.recursive).tree)
      BY <1>2, <2>0, <3>2 DEF Remove, Refused, Done
    <3> QED BY <1>1, <3>1, <3>3 DEF NamedTree, Named
  <2> QED BY <1>9, <2>1, <2>2, <2>3
<1>10. CASE r \in [op : {"copy", "move"}, path : Paths, dest : Paths]
  <2>1. Named(Copy(t, r.path, r.dest).tree)
    BY <1>7, <1>10
  <2>2. CASE r.op = "copy"
    <3>1. Apply(t, r) = Copy(t, r.path, r.dest)
      BY <2>2 DEF Apply
    <3> QED BY <1>1, <2>1, <3>1 DEF NamedTree, Named
  <2>3. CASE r.op = "move"
    <3> DEFINE w == Copy(t, r.path, r.dest)
    <3>1. Apply(t, r) = IF w.answer = "ok" THEN Remove(w.tree, r.path, TRUE) ELSE w
      BY <2>3 DEF Apply, Move
    <3> HIDE DEF w
    <3>2. Named(w.tree)
      BY <2>1 DEF w
    <3>3. Slot(r.path) = r.path
      BY DEF Slot
    <3>4. Named(Prune(w.tree, r.path))
      BY <1>4, <3>2
    <3>5. Named(Remove(w.tree, r.path, TRUE).tree)
      BY <3>2, <3>3, <3>4 DEF Remove, Refused, Done
    <3> QED BY <1>1, <3>1, <3>2, <3>5 DEF NamedTree, Named
  <2> QED BY <1>10, <2>2, <2>3
<1> QED BY <1>8, <1>9, <1>10 DEF Requests

\* The rows answer and change as the tree does, but for the error of a
\* recursive mkdir that meets a file.
LEMMA RowApplyAgrees ==
  ASSUME NEW t, NamedTree(t), NEW r \in Requests, rows = RowsOf(t), Careful(r)
  PROVE  /\ RowApply(rows, r).tree = RowsOf(Apply(t, r).tree)
         /\ \/ RowApply(rows, r).answer = Apply(t, r).answer
            \/ /\ r.op = "mkdir" /\ r.recursive
               /\ RowApply(rows, r).answer = "NotADirectory" /\ Apply(t, r).answer = "FileExists"
<1>1. r.path # Root /\ GoodTree(t)
  BY DEF Careful, NamedTree
<1>2. CASE r \in [op : {"writeFile"}, path : Paths, content : Contents]
  <2>1. Apply(t, r) = WriteFile(t, r.path, r.content) /\ RowApply(rows, r) = RowWriteFile(rows, r.path, r.content)
    BY <1>2 DEF Apply, RowApply
  <2>2. Agrees(RowWriteFile(rows, r.path, r.content), WriteFile(t, r.path, r.content))
    BY <1>1, <1>2, WriteFileRows
  <2> QED BY <2>1, <2>2 DEF Agrees
<1>3. CASE r \in [op : {"mkdir", "remove"}, path : Paths, recursive : BOOLEAN]
  <2>1. CASE r.op = "mkdir" /\ r.recursive
    <3>1. Apply(t, r) = MkdirAll(t, r.path) /\ RowApply(rows, r) = RowMkdirAll(rows, r.path)
      BY <2>1 DEF Apply, RowApply
    <3> QED BY <1>1, <1>3, <2>1, <3>1, MkdirAllRows
  <2>2. CASE r.op = "mkdir" /\ ~r.recursive
    <3>1. Apply(t, r) = Mkdir(t, r.path) /\ RowApply(rows, r) = RowMkdir(rows, r.path)
      BY <2>2 DEF Apply, RowApply
    <3>2. Agrees(RowMkdir(rows, r.path), Mkdir(t, r.path))
      BY <1>1, <1>3, MkdirRows
    <3> QED BY <3>1, <3>2 DEF Agrees
  <2>3. CASE r.op = "remove"
    <3>1. Apply(t, r) = Remove(t, r.path, r.recursive) /\ RowApply(rows, r) = RowRemove(rows, r.path, r.recursive)
      BY <2>3 DEF Apply, RowApply
    <3>2. LikeIsUnder(RowsOf(t), r.path)
      BY <2>3 DEF Careful
    <3>3. Agrees(RowRemove(rows, r.path, r.recursive), Remove(t, r.path, r.recursive))
      BY <1>1, <1>3, <3>2, RemoveRows
    <3> QED BY <3>1, <3>3 DEF Agrees
  <2> QED BY <1>3, <2>1, <2>2, <2>3
<1>4. CASE r \in [op : {"copy", "move"}, path : Paths, dest : Paths]
  <2>1. r.path \in Paths /\ r.dest \in Paths /\ r.op \in {"copy", "move"}
    BY <1>4
  <2>2. r.dest # Root
    BY <2>1 DEF Careful, Apart, AtOrUnder, Root
  <2>3. CarefulTransfer(t, r.path, r.dest)
    BY <1>1, <2>1, <2>2 DEF Careful, CarefulTransfer
  <2>4. CASE r.op = "copy"
    <3>1. Apply(t, r) = Copy(t, r.path, r.dest) /\ RowApply(rows, r) = RowCopy(rows, r.path, r.dest)
      BY <2>4 DEF Apply, RowApply
    <3>2. Agrees(RowCopy(rows, r.path, r.dest), Copy(t, r.path, r.dest))
      BY <2>3, CopyRows
    <3> QED BY <3>1, <3>2 DEF Agrees
  <2>5. CASE r.op = "move"
    <3>1. Apply(t, r) = Move(t, r.path, r.dest) /\ RowApply(rows, r) = RowMove(rows, r.path, r.dest)
      BY <2>5 DEF Apply, RowApply
    <3>2. Agrees(RowMove(rows, r.path, r.dest), Move(t, r.path, r.dest))
      BY <2>3, MoveRows
    <3> QED BY <3>1, <3>2 DEF Agrees
  <2> QED BY <2>1, <2>4, <2>5
<1> QED BY <1>2, <1>3, <1>4 DEF Requests

\* The rows are those of a tree.
RowsInv == provider = "sqlite" => \E t : NamedTree(t) /\ rows = RowsOf(t)

LEMMA RowsInvInit == Init => RowsInv
<1> SUFFICES ASSUME Init PROVE NamedTree(EmptyTree) /\ rows = RowsOf(EmptyTree)
  BY DEF RowsInv
<1>1. DOMAIN EmptyTree = {Root} /\ EmptyTree[Root] = Dir
  BY DEF EmptyTree
<1>2. Root \in Seq(Names) /\ IsFiniteSet({Root})
  <2>1. Root \in Seq(Names)
    BY DEF Root
  <2>2. IsFiniteSet({Root})
    BY FS_Singleton
  <2> QED BY <2>1, <2>2
<1>3. NamedTree(EmptyTree)
  BY <1>1, <1>2, EmptyTreeGood DEF NamedTree
<1>4. RootOnly = RowsOf(EmptyTree)
  BY <1>1 DEF RootOnly, RowsOf, RowOf
<1> QED BY <1>3, <1>4 DEF Init

LEMMA RowsInvStep == RowsInv /\ [Next]_vars => RowsInv'
<1> SUFFICES ASSUME RowsInv, [Next]_vars, provider' = "sqlite"
             PROVE  \E t : NamedTree(t) /\ rows' = RowsOf(t)
  BY DEF RowsInv
<1>1. provider = "sqlite"
  BY DEF Next, vars, Ask, Serves, ServeMemory, ServeSqlite, ServeJson, SaveFails, DiesSaving, Restart
<1>2. PICK t : NamedTree(t) /\ rows = RowsOf(t)
  BY <1>1 DEF RowsInv
<1>3. ASSUME NEW r \in Requests, ServeSqlite(r) PROVE \E u : NamedTree(u) /\ rows' = RowsOf(u)
  <2>1. Careful(r) /\ rows' = RowApply(rows, r).tree
    BY <1>3 DEF ServeSqlite
  <2>2. rows' = RowsOf(Apply(t, r).tree)
    BY <1>2, <2>1, RowApplyAgrees
  <2>3. r.path # Root /\ (r.op \in {"copy", "move"} => r.dest # Root)
    BY <2>1 DEF Careful, Apart, AtOrUnder, Root
  <2>4. NamedTree(Apply(t, r).tree)
    BY <1>2, <2>3, ApplyNamed
  <2> QED BY <2>2, <2>4
<1>4. ASSUME Ask \/ Restart \/ UNCHANGED vars PROVE rows' = rows
  <2>1. Root \in DOMAIN rows
    BY <1>2, RowsOfFacts DEF NamedTree, GoodTree, WellFormed, IsDir
  <2> QED BY <1>4, <2>1 DEF Ask, Restart, EnsureRoot, vars
<1>5. ASSUME NEW r \in Requests, ServeMemory(r) \/ ServeJson(r) \/ SaveFails(r) \/ DiesSaving(r) PROVE FALSE
  BY <1>1, <1>5 DEF ServeMemory, ServeJson, SaveFails, DiesSaving
<1> QED BY <1>2, <1>3, <1>4, <1>5 DEF Next, Serves

\* list, which selects by parent, finds the entries of the tree.
LEMMA RowsInvListed == RowsInv => RowsListed
<1> SUFFICES ASSUME NEW t, NamedTree(t), rows = RowsOf(t), NEW p \in DOMAIN rows
             PROVE  RowList(rows, p) = List(AsTree(rows), p)
  BY DEF RowsInv, RowsListed
<1>1. AsTree(rows) = t /\ DOMAIN rows = DOMAIN t /\ p \in Seq(Names)
  BY RowsShowTree, RowsOfFacts DEF NamedTree
<1>2. \A q \in DOMAIN t : rows[q] = RowOf(q, t[q])
  BY RowsOfFacts
<1>3. p # <<Unnamed>>
  <2> SUFFICES ASSUME p = <<Unnamed>> PROVE FALSE
    OBVIOUS
  <2>1. p[1] = Unnamed /\ Len(p) = 1
    OBVIOUS
  <2>2. p[1] \in Names
    BY <1>1, <2>1
  <2> QED BY <2>1, <2>2, NamesAssumption
<1>4. ASSUME NEW q \in DOMAIN t PROVE rows[q].parent = p <=> q # Root /\ Parent(q) = p
  <2>1. CASE q = Root
    <3>1. rows[q].parent = <<Unnamed>>
      BY <1>2, <2>1, RowParts
    <3> QED BY <1>3, <2>1, <3>1
  <2>2. CASE q # Root
    <3>1. rows[q].parent = Parent(q)
      BY <1>2, <2>2, RowParts
    <3> QED BY <2>2, <3>1
  <2> QED BY <2>1, <2>2
<1>5. ASSUME NEW q \in DOMAIN t, q # Root PROVE rows[q].name = q[Len(q)] /\ rows[q].kind = t[q]
  <2>1. rows[q].name = Name(q) /\ rows[q].kind = t[q]
    BY <1>2, <1>5, RowParts
  <2> QED BY <1>5, <2>1 DEF Name
<1> DEFINE S == {x \in DOMAIN rows : rows[x].parent = p}
           T == {x \in DOMAIN t : x # Root /\ Parent(x) = p}
<1>6. S = T
  BY <1>1, <1>4
<1>7. \A q \in T : <<rows[q].name, rows[q].kind = Dir>> = <<q[Len(q)], t[q] = Dir>>
  BY <1>5
<1>8. RowList(rows, p) = {<<rows[q].name, rows[q].kind = Dir>> : q \in S}
  BY DEF RowList
<1>9. List(t, p) = {<<q[Len(q)], t[q] = Dir>> : q \in T}
  BY DEF List
<1> HIDE DEF S, T
<1> QED BY <1>1, <1>6, <1>7, <1>8, <1>9

----------------------------------------------------------------------------
\* The refinement.  The operations of the abstract tree are those of TreeOps.
LEMMA TreeIsTree ==
  /\ \A t, r : Tree!Apply(t, r) = Apply(t, r)
  /\ Tree!Requests = Requests /\ Tree!EmptyTree = EmptyTree /\ Tree!NoRequest = NoRequest
<1>1. \A p : Tree!Parent(p) = Parent(p) /\ Tree!Slot(p) = Slot(p) /\ Tree!Chain(p) = Chain(p)
  BY DEF Tree!Parent, Parent, Tree!Slot, Slot, Tree!Root, Root, Tree!Chain, Chain
<1>2. \A t, p : Tree!IsDir(t, p) = IsDir(t, p) /\ Tree!IsFile(t, p) = IsFile(t, p)
  BY DEF Tree!IsDir, IsDir, Tree!IsFile, IsFile
<1>3. \A t, u, p, v : Tree!Overlay(t, u) = Overlay(t, u) /\ Tree!Put(t, p, v) = Put(t, p, v)
  BY DEF Tree!Overlay, Overlay, Tree!Put, Put
<1>4. \A t, p : Tree!Subtree(t, p) = Subtree(t, p) /\ Tree!Prune(t, p) = Prune(t, p)
  BY DEF Tree!Subtree, Subtree, Tree!Prune, Prune, Tree!AtOrUnder, AtOrUnder
<1>5. \A s, d, q : Tree!Rebase(s, d, q) = Rebase(s, d, q)
  BY DEF Tree!Rebase, Rebase
<1>6. \A t, s, d : Tree!Cloned(t, s, d) = Cloned(t, s, d)
  BY DEF Tree!Cloned, Cloned, Tree!Rebase, Rebase, Tree!Subtree, Subtree, Tree!AtOrUnder, AtOrUnder
<1>7. \A e, t : Tree!Done(t) = Done(t) /\ Tree!Refused(e, t) = Refused(e, t)
  BY DEF Tree!Done, Done, Tree!Refused, Refused
<1>8. \A t, p, c : Tree!WriteFile(t, p, c) = WriteFile(t, p, c)
  BY <1>1, <1>2, <1>3, <1>7 DEF Tree!WriteFile, WriteFile
<1>9. \A t, p : Tree!Mkdir(t, p) = Mkdir(t, p)
  BY <1>1, <1>2, <1>3, <1>7 DEF Tree!Mkdir, Mkdir
<1>10. \A t, p : Tree!MkdirAll(t, p) = MkdirAll(t, p)
  BY DEF Tree!MkdirAll, MkdirAll, Tree!Chain, Chain, Tree!IsFile, IsFile, Tree!Refused, Refused,
         Tree!Done, Done, Tree!Overlay, Overlay
<1>11. \A t, p, b : Tree!Remove(t, p, b) = Remove(t, p, b)
  BY <1>1, <1>2, <1>4, <1>7 DEF Tree!Remove, Remove
<1>12. \A t, s, d : Tree!Copy(t, s, d) = Copy(t, s, d)
  BY <1>1, <1>2, <1>3, <1>4, <1>6, <1>7 DEF Tree!Copy, Copy
<1>13. \A t, s, d : Tree!Move(t, s, d) = Move(t, s, d)
  BY <1>11, <1>12 DEF Tree!Move, Move
<1>14. \A t, r : Tree!Apply(t, r) = Apply(t, r)
  BY <1>8, <1>9, <1>10, <1>11, <1>12, <1>13 DEF Tree!Apply, Apply
<1>15. Tree!Requests = Requests
  BY DEF Tree!Requests, Requests, Tree!Paths, Paths
<1>16. Tree!EmptyTree = EmptyTree
  BY DEF Tree!EmptyTree, EmptyTree, Tree!Root, Root
<1>17. Tree!NoRequest = NoRequest
  BY DEF Tree!NoRequest, NoRequest
<1> QED BY <1>14, <1>15, <1>16, <1>17

LEMMA TreeStarts == Init => Tree!Init
<1> SUFFICES ASSUME Init PROVE Tree!Init
  OBVIOUS
<1>1. AsTree(RootOnly) = EmptyTree
  BY DEF AsTree, RootOnly, EmptyTree
<1> QED BY <1>1, TreeIsTree DEF Init, Tree!Init

\* The request served from the rows is the one the tree serves; nothing else moves it.
LEMMA TreeSteps == RowsInv /\ [Next]_vars => [Tree!Next]_Tree!treeVars
<1> SUFFICES ASSUME RowsInv, [Next]_vars PROVE Tree!Next \/ UNCHANGED Tree!treeVars
  OBVIOUS
<1>1. provider' = provider
  BY DEF Next, vars, Ask, Serves, ServeMemory, ServeSqlite, ServeJson, SaveFails, DiesSaving, Restart
<1>2. CASE provider # "sqlite"
  BY <1>1, <1>2 DEF Tree!treeVars
<1>3. CASE provider = "sqlite"
  <2>1. PICK t : NamedTree(t) /\ rows = RowsOf(t)
    BY <1>3 DEF RowsInv
  <2>2. AsTree(rows) = t
    BY <2>1, RowsShowTree DEF NamedTree
  <2>3. ASSUME NEW r \in Requests, request = r, request' = NoRequest, ServeSqlite(r) PROVE Tree!Next
    <3>1. /\ Careful(r) /\ rows' = RowApply(rows, r).tree /\ answer' = RowApply(rows, r).answer
      BY <2>3 DEF ServeSqlite
    <3>2. /\ rows' = RowsOf(Apply(t, r).tree)
          /\ \/ answer' = Apply(t, r).answer
             \/ /\ r.op = "mkdir" /\ r.recursive
                /\ answer' = "NotADirectory" /\ Apply(t, r).answer = "FileExists"
      BY <2>1, <3>1, RowApplyAgrees
    <3>3. r.path # Root /\ (r.op \in {"copy", "move"} => r.dest # Root)
      BY <3>1 DEF Careful, Apart, AtOrUnder, Root
    <3>4. GoodTree(Apply(t, r).tree)
      BY <2>1, <3>3, ApplyNamed DEF NamedTree
    <3>5. AsTree(rows') = Apply(t, r).tree
      BY <3>2, <3>4, RowsShowTree
    <3>6. Tree!Serve
      BY <1>1, <1>3, <2>2, <2>3, <3>2, <3>5, TreeIsTree DEF Tree!Serve, Tree!Answers
    <3> QED BY <3>6 DEF Tree!Next
  <2>4. ASSUME Restart \/ UNCHANGED vars PROVE UNCHANGED Tree!treeVars
    <3>1. Root \in DOMAIN rows
      BY <2>1, RowsOfFacts DEF NamedTree, GoodTree, WellFormed, IsDir
    <3>2. rows' = rows /\ answer' = answer /\ request' = request
      BY <2>4, <3>1 DEF Restart, EnsureRoot, vars
    <3> QED BY <1>1, <3>2 DEF Tree!treeVars
  <2>5. ASSUME NEW r \in Requests, ServeMemory(r) \/ ServeJson(r) \/ SaveFails(r) \/ DiesSaving(r) PROVE FALSE
    BY <1>3, <2>5 DEF ServeMemory, ServeJson, SaveFails, DiesSaving
  <2>6. ASSUME Ask PROVE Tree!Next
    <3>1. Tree!Ask
      BY <1>1, <1>3, <2>6, TreeIsTree DEF Ask, Tree!Ask
    <3> QED BY <3>1 DEF Tree!Next
  <2> QED BY <2>3, <2>4, <2>5, <2>6 DEF Next, Serves
<1> QED BY <1>2, <1>3

\* SQLite's rows implement the tree, each request by what the tree does on that
\* request, for all names, contents and depths and whatever LIKE matches, on those of which LIKE finds no more than is
\* there and whose places are apart and not the root (Careful).
THEOREM RowsImplementTree == Spec => SqliteImplementsTree
<1>1. Spec => []RowsInv
  BY RowsInvInit, RowsInvStep, PTL DEF Spec
<1>2. Spec => []RowsListed
  BY <1>1, RowsInvListed, PTL
<1>3. Spec => Tree!Spec
  BY <1>1, TreeStarts, TreeSteps, PTL DEF Spec, Tree!Spec
<1> QED BY <1>2, <1>3 DEF SqliteImplementsTree

----------------------------------------------------------------------------
(* Rings *)

LEMMA ListFacts ==
  ASSUME NEW S, NEW u \in Seq(S)
  PROVE  /\ Len(u) \in Nat /\ u = [i \in 1..Len(u) |-> u[i]]
         /\ \A x \in S : /\ Append(u, x) \in Seq(S) /\ Len(Append(u, x)) = Len(u) + 1
                        /\ \A i \in 1..(Len(u) + 1) : Append(u, x)[i] = IF i = Len(u) + 1 THEN x ELSE u[i]
OBVIOUS

\* An index wraps at most once.
LEMMA Wraps ==
  ASSUME NEW n \in Nat, n # 0, NEW a \in Nat, a < n + n
  PROVE  a % n = IF a < n THEN a ELSE a - n
OBVIOUS

RingFits(ring, n) ==
  /\ n \in Nat \ {0}
  /\ ring.slots = [i \in 0..(n - 1) |-> ring.slots[i]]
  /\ ring.head \in 0..(n - 1) /\ ring.count \in 0..n
  /\ ring.count < n => ring.head = ring.count

\* Where the i-th oldest is.
SlotOf(ring, n, i) ==
  IF ring.count < n THEN i - 1
  ELSE IF ring.head + i - 1 < n THEN ring.head + i - 1 ELSE ring.head + i - 1 - n

LEMMA RingSize ==
  ASSUME NEW ring, NEW n, RingFits(ring, n)
  PROVE  DOMAIN ring.slots = 0..(n - 1) /\ Cardinality(DOMAIN ring.slots) = n
<1>1. n \in Nat \ {0} /\ DOMAIN ring.slots = 0..(n - 1)
  BY DEF RingFits
<1>2. Cardinality(0..(n - 1)) = n
  <2>1. PICK m \in Nat : m = n - 1
    BY <1>1
  <2>2. Cardinality(0..m) = m + 1
    BY FS_Interval
  <2> QED BY <1>1, <2>1, <2>2
<1> QED BY <1>1, <1>2

\* The history is the occupied slots from the oldest on.
LEMMA HistoryPlaces ==
  ASSUME NEW ring, NEW n, RingFits(ring, n)
  PROVE  /\ History(ring) = [i \in 1..ring.count |-> ring.slots[SlotOf(ring, n, i)]]
         /\ \A i \in 1..ring.count : SlotOf(ring, n, i) \in 0..(n - 1)
<1>1. /\ n \in Nat /\ n # 0 /\ ring.head \in 0..(n - 1) /\ ring.count \in 0..n
      /\ ring.count < n => ring.head = ring.count
  BY DEF RingFits
<1>2. OldestSlot(ring) = IF ring.count < n THEN 0 ELSE ring.head
  <2>1. OldestSlot(ring) = (ring.head - ring.count + n) % n
    BY RingSize DEF OldestSlot
  <2>2. PICK a \in Nat : a = ring.head - ring.count + n /\ a < n + n
    BY <1>1
  <2>3. a % n = IF a < n THEN a ELSE a - n
    BY <1>1, <2>2, Wraps
  <2> QED BY <1>1, <2>1, <2>2, <2>3
<1>3. ASSUME NEW i \in 1..ring.count
      PROVE  /\ (OldestSlot(ring) + i - 1) % n = SlotOf(ring, n, i)
             /\ SlotOf(ring, n, i) \in 0..(n - 1)
  <2>1. PICK a \in Nat : a = OldestSlot(ring) + i - 1 /\ a < n + n
    BY <1>1, <1>2
  <2>2. a % n = IF a < n THEN a ELSE a - n
    BY <1>1, <2>1, Wraps
  <2>3. SlotOf(ring, n, i) = IF a < n THEN a ELSE a - n
    BY <1>1, <1>2, <2>1 DEF SlotOf
  <2>4. SlotOf(ring, n, i) \in 0..(n - 1)
    BY <1>1, <2>1, <2>3
  <2> QED BY <2>1, <2>2, <2>3, <2>4
<1>4. History(ring) = [i \in 1..ring.count |-> ring.slots[(OldestSlot(ring) + i - 1) % n]]
  BY RingSize DEF History
<1> QED BY <1>3, <1>4

\* The two slices of getAll are the history.
LEMMA GetAllIsHistory ==
  ASSUME NEW ring, NEW n, RingFits(ring, n)
  PROVE  GetAll(ring) = History(ring)
<1> DEFINE h == ring.head
           c == ring.count
           Slice(a, b) == [i \in 1..(b - a) |-> ring.slots[a + i - 1]]
<1>1. n \in Nat /\ n # 0 /\ h \in 0..(n - 1) /\ c \in 0..n /\ (c < n => h = c)
  BY DEF RingFits
<1>2. GetAll(ring) = IF c < n THEN Slice(0, c) ELSE Slice(h, n) \o Slice(0, h)
  <2>1. Cardinality(DOMAIN ring.slots) = n
    BY RingSize
  <2> QED BY <2>1, Zenon DEF GetAll
<1>3. History(ring) = [i \in 1..c |-> ring.slots[SlotOf(ring, n, i)]]
  BY HistoryPlaces
<1>4. CASE c < n
  <2>1. Slice(0, c) = [i \in 1..c |-> ring.slots[i - 1]]
    BY <1>1
  <2>2. \A i \in 1..c : SlotOf(ring, n, i) = i - 1
    BY <1>4 DEF SlotOf
  <2>3. History(ring) = [i \in 1..c |-> ring.slots[i - 1]]
    BY <1>3, <2>2
  <2> QED BY <1>2, <1>4, <2>1, <2>3
<1>5. CASE ~(c < n)
  <2> DEFINE S == {ring.slots[i] : i \in 0..(n - 1)}
             u == Slice(h, n)
             v == Slice(0, h)
  <2>0. c = n
    BY <1>1, <1>5
  <2>1. u \in Seq(S) /\ Len(u) = n - h /\ \A i \in 1..(n - h) : u[i] = ring.slots[h + i - 1]
    <3>1. n - h \in Nat /\ \A i \in 1..(n - h) : h + i - 1 \in 0..(n - 1)
      BY <1>1
    <3>2. u \in [1..(n - h) -> S]
      BY <3>1
    <3> QED BY <3>1, <3>2
  <2>2. v \in Seq(S) /\ Len(v) = h /\ \A i \in 1..h : v[i] = ring.slots[i - 1]
    <3>1. h \in Nat /\ h - 0 = h /\ \A i \in 1..h : 0 + i - 1 = i - 1 /\ i - 1 \in 0..(n - 1)
      BY <1>1
    <3>2. v \in [1..h -> S]
      BY <3>1
    <3> QED BY <3>1, <3>2
  <2> HIDE DEF u, v
  <2>3. u \o v = [i \in 1..n |-> IF i <= n - h THEN u[i] ELSE v[i - (n - h)]]
    <3>1. Len(u) + Len(v) = n
      BY <1>1, <2>1, <2>2
    <3>2. /\ u \o v \in Seq(S) /\ Len(u \o v) = Len(u) + Len(v)
          /\ \A i \in 1..(Len(u) + Len(v)) : (u \o v)[i] = IF i <= Len(u) THEN u[i] ELSE v[i - Len(u)]
      <4> HIDE DEF S
      <4> QED BY <2>1, <2>2, ConcatProperties
    <3>3. u \o v = [i \in 1..n |-> (u \o v)[i]]
      <4> HIDE DEF S
      <4>1. u \o v = [i \in 1..Len(u \o v) |-> (u \o v)[i]]
        BY <3>2, ListFacts
      <4> QED BY <3>1, <3>2, <4>1
    <3> QED BY <2>1, <3>1, <3>2, <3>3
  <2>4. ASSUME NEW i \in 1..n PROVE (IF i <= n - h THEN u[i] ELSE v[i - (n - h)]) = ring.slots[SlotOf(ring, n, i)]
    <3>1. CASE i <= n - h
      <4>1. i \in 1..(n - h) /\ SlotOf(ring, n, i) = h + i - 1
        BY <1>1, <1>5, <2>4, <3>1 DEF SlotOf
      <4> QED BY <2>1, <3>1, <4>1
    <3>2. CASE ~(i <= n - h)
      <4>1. i - (n - h) \in 1..h /\ SlotOf(ring, n, i) = (i - (n - h)) - 1
        BY <1>1, <1>5, <2>4, <3>2 DEF SlotOf
      <4> QED BY <2>2, <3>2, <4>1
    <3> QED BY <3>1, <3>2
  <2> QED BY <1>2, <1>3, <1>5, <2>0, <2>3, <2>4 DEF u, v
<1> QED BY <1>4, <1>5

LEMMA EmptyFits ==
  ASSUME NEW n \in Nat \ {0}
  PROVE  RingFits(Empty(n), n) /\ History(Empty(n)) = << >>
<1>1. RingFits(Empty(n), n)
  BY DEF RingFits, Empty
<1>2. Empty(n).count = 0
  BY DEF Empty
<1> QED BY <1>1, <1>2, HistoryPlaces

\* One more in the ring: the oldest goes when it is full.
LEMMA PushedHistory ==
  ASSUME NEW ring, NEW n, RingFits(ring, n), NEW x
  PROVE  /\ RingFits(Pushed(ring, x), n)
         /\ History(Pushed(ring, x)) = LastN(Append(History(ring), x), n)
<1> DEFINE h == ring.head
           c == ring.count
           new == Pushed(ring, x)
           S == {ring.slots[i] : i \in 0..(n - 1)} \cup {x}
           u == History(ring)
<1>1. n \in Nat /\ n # 0 /\ h \in 0..(n - 1) /\ c \in 0..n /\ (c < n => h = c)
  BY DEF RingFits
<1>2. /\ new.slots = [ring.slots EXCEPT ![h] = x]
      /\ new.head = (h + 1) % n /\ new.count = IF c < n THEN c + 1 ELSE c
  BY RingSize DEF Pushed
<1>3. new.head = IF h + 1 < n THEN h + 1 ELSE 0
  <2>1. PICK a \in Nat : a = h + 1 /\ a < n + n /\ a <= n
    BY <1>1
  <2>2. a % n = IF a < n THEN a ELSE a - n
    BY <1>1, <2>1, Wraps
  <2> QED BY <1>1, <1>2, <2>1, <2>2
<1>4. new.slots = [i \in 0..(n - 1) |-> IF i = h THEN x ELSE ring.slots[i]]
  BY <1>2 DEF RingFits
<1> HIDE DEF new
<1>5. RingFits(new, n)
  <2>1. new.slots = [i \in 0..(n - 1) |-> new.slots[i]]
    BY <1>4
  <2>2. new.head \in 0..(n - 1) /\ new.count \in 0..n /\ (new.count < n => new.head = new.count)
    BY <1>1, <1>2, <1>3
  <2> QED BY <1>1, <2>1, <2>2 DEF RingFits
<1>6. History(new) = [i \in 1..new.count |-> new.slots[SlotOf(new, n, i)]]
  BY <1>5, HistoryPlaces
<1>7. u = [i \in 1..c |-> ring.slots[SlotOf(ring, n, i)]] /\ \A i \in 1..c : SlotOf(ring, n, i) \in 0..(n - 1)
  BY HistoryPlaces
<1>8. u \in Seq(S) /\ Len(u) = c
  <2>1. u \in [1..c -> S]
    BY <1>7
  <2> QED BY <1>1, <1>7, <2>1
<1> HIDE DEF u
<1>9. /\ Append(u, x) \in Seq(S) /\ Len(Append(u, x)) = c + 1 /\ x \in S
      /\ \A i \in 1..(c + 1) : Append(u, x)[i] = IF i = c + 1 THEN x ELSE u[i]
      /\ Append(u, x) = [i \in 1..(c + 1) |-> IF i = c + 1 THEN x ELSE u[i]]
  <2>1. x \in S
    OBVIOUS
  <2> HIDE DEF S
  <2>2. /\ Append(u, x) \in Seq(S) /\ Len(Append(u, x)) = c + 1
        /\ \A i \in 1..(c + 1) : Append(u, x)[i] = IF i = c + 1 THEN x ELSE u[i]
    BY <1>8, <2>1, ListFacts
  <2>3. Append(u, x) = [i \in 1..(c + 1) |-> Append(u, x)[i]]
    BY <2>2, ListFacts
  <2> QED BY <2>1, <2>2, <2>3
<1>10. ASSUME c < n PROVE History(new) = LastN(Append(u, x), n)
  <2>1. LastN(Append(u, x), n) = [i \in 1..(c + 1) |-> IF i = c + 1 THEN x ELSE u[i]]
    BY <1>1, <1>9, <1>10 DEF LastN
  <2>2. ASSUME NEW i \in 1..(c + 1) PROVE new.slots[SlotOf(new, n, i)] = IF i = c + 1 THEN x ELSE u[i]
    <3>1. SlotOf(new, n, i) = i - 1 /\ i - 1 \in 0..(n - 1)
      BY <1>1, <1>2, <1>3, <1>10, <2>2 DEF SlotOf
    <3>2. i # c + 1 => u[i] = ring.slots[i - 1]
      BY <1>1, <1>7, <1>10, <2>2 DEF SlotOf
    <3> QED BY <1>1, <1>4, <1>10, <2>2, <3>1, <3>2
  <2>3. History(new) = [i \in 1..(c + 1) |-> new.slots[SlotOf(new, n, i)]]
    BY <1>2, <1>6, <1>10
  <2> QED BY <2>1, <2>2, <2>3
<1>11. ASSUME ~(c < n) PROVE History(new) = LastN(Append(u, x), n)
  <2>0. c = n
    BY <1>1, <1>11
  <2>1. LastN(Append(u, x), n) = [i \in 1..n |-> IF i = n THEN x ELSE u[i + 1]]
    <3>1. LastN(Append(u, x), n) = SubSeq(Append(u, x), 2, n + 1)
      <4>1. Len(Append(u, x)) > n /\ Len(Append(u, x)) - n + 1 = 2 /\ Len(Append(u, x)) = n + 1
        BY <1>1, <1>9, <2>0
      <4> QED BY <4>1 DEF LastN
    <3>2. SubSeq(Append(u, x), 2, n + 1) = [i \in 1..n |-> Append(u, x)[i + 1]]
      BY <1>1, <1>9, <2>0
    <3>3. \A i \in 1..n : Append(u, x)[i + 1] = IF i = n THEN x ELSE u[i + 1]
      BY <1>1, <1>9, <2>0
    <3> QED BY <3>1, <3>2, <3>3
  <2>2. ASSUME NEW i \in 1..n PROVE new.slots[SlotOf(new, n, i)] = IF i = n THEN x ELSE u[i + 1]
    <3>1. CASE i = n
      <4>1. SlotOf(new, n, i) = h
        BY <1>1, <1>2, <1>3, <2>0, <3>1 DEF SlotOf
      <4> QED BY <1>1, <1>4, <3>1, <4>1
    <3>2. CASE i # n
      <4>1. i + 1 \in 1..c
        BY <1>1, <2>0, <3>2
      <4>2. u[i + 1] = ring.slots[SlotOf(ring, n, i + 1)] /\ SlotOf(ring, n, i + 1) \in 0..(n - 1)
        BY <1>7, <4>1
      <4>3. SlotOf(new, n, i) = SlotOf(ring, n, i + 1) /\ SlotOf(ring, n, i + 1) # h
        BY <1>1, <1>2, <1>3, <2>0, <3>2 DEF SlotOf
      <4> QED BY <1>4, <3>2, <4>2, <4>3
    <3> QED BY <3>1, <3>2
  <2>3. History(new) = [i \in 1..n |-> new.slots[SlotOf(new, n, i)]]
    BY <1>2, <1>6, <1>11, <2>0
  <2> QED BY <2>1, <2>2, <2>3
<1> QED BY <1>5, <1>10, <1>11 DEF new, u

\* Of one kind, the latest are the last.
LEMMA LatestIsLast ==
  ASSUME NEW S, NEW s \in Seq(S), NEW c \in Nat \ {0}
  PROVE  Picked(s, {i \in DOMAIN s : Cardinality({j \in DOMAIN s : j > i}) < c}) = LastN(s, c)
<1>0. PICK n \in Nat : n = Len(s) /\ DOMAIN s = 1..n
  OBVIOUS
<1>1. ASSUME NEW i \in 1..n PROVE Cardinality({j \in 1..n : j > i}) = n - i
  <2>1. {j \in 1..n : j > i} = (i + 1)..n
    BY <1>1
  <2>2. i + 1 \in Int /\ n \in Int
    BY <1>1
  <2>3. Cardinality((i + 1)..n) = IF i + 1 > n THEN 0 ELSE n - (i + 1) + 1
    BY <2>2, FS_Interval
  <2>4. Cardinality((i + 1)..n) = n - i
    BY <1>1, <2>3
  <2> QED BY <2>1, <2>4
<1> DEFINE a == IF n > c THEN n - c + 1 ELSE 1
<1>2. a \in 1..(n + 1)
  OBVIOUS
<1>3. {i \in DOMAIN s : Cardinality({j \in DOMAIN s : j > i}) < c} = a..n
  <2>1. \A i \in 1..n : n - i < c <=> i >= a
    OBVIOUS
  <2>2. {i \in 1..n : Cardinality({j \in 1..n : j > i}) < c} = {i \in 1..n : i >= a}
    BY <1>1, <2>1
  <2>3. {i \in 1..n : i >= a} = a..n
    BY <1>2
  <2> QED BY <1>0, <2>2, <2>3
<1>4. Picked(s, a..n) = SubSeq(s, a, n)
  BY <1>0, <1>2, PickedRun
<1>5. SubSeq(s, a, n) = LastN(s, c)
  <2>1. n <= c => SubSeq(s, 1, n) = s
    BY <1>0
  <2>2. LastN(s, c) = IF n > c THEN SubSeq(s, n - c + 1, n) ELSE s
    BY <1>0 DEF LastN
  <2> QED BY <2>1, <2>2
<1> QED BY <1>3, <1>4, <1>5

----------------------------------------------------------------------------
(* The audit log *)

StoredEntry == [seq : Nat, entry : AuditEntries]
SeqsOf(stored) == {s.seq : s \in stored}

\* Finitely many stored entries, no two of a sequence number.
Numbered(stored) == IsFiniteSet(stored) /\ stored \subseteq StoredEntry /\ \A s, t \in stored : s.seq = t.seq => s = t

PlaceOf(stored, s) == Cardinality(UpTo(SeqsOf(stored), s.seq))

\* A list of one kind, by sequence number, of what was recorded before q.
InLine(list, q, failed) ==
  /\ list \in Seq(StoredEntry)
  /\ \A i \in DOMAIN list : list[i].seq < q /\ list[i].entry.failed = failed
  /\ \A i, j \in DOMAIN list : i < j => list[i].seq < list[j].seq

LEMMA BySeqFacts ==
  ASSUME NEW A, Numbered(A)
  PROVE  /\ IsFiniteSet(SeqsOf(A)) /\ SeqsOf(A) \subseteq Nat
         /\ DOMAIN BySeq(A) = SeqsOf(A) /\ \A s \in A : BySeq(A)[s.seq] = s.entry
<1>1. SeqsOf(A) \subseteq Nat
  BY DEF Numbered, SeqsOf, StoredEntry
<1>2. IsFiniteSet(SeqsOf(A))
  <2> DEFINE g == [s \in A |-> s.seq]
  <2>1. g \in Bijection(A, SeqsOf(A))
    BY DEF Bijection, Injection, Surjection, IsInjective, Numbered, SeqsOf
  <2>2. ExistsBijection(A, SeqsOf(A))
    BY <2>1 DEF ExistsBijection
  <2> QED BY <2>2, FS_Bijection DEF Numbered
<1>3. DOMAIN BySeq(A) = SeqsOf(A)
  BY DEF BySeq, SeqsOf
<1>4. ASSUME NEW s \in A PROVE BySeq(A)[s.seq] = s.entry
  <2>1. (CHOOSE t \in A : t.seq = s.seq) = s
    BY DEF Numbered
  <2> QED BY <2>1 DEF BySeq
<1> QED BY <1>1, <1>2, <1>3, <1>4

\* What is read is as long as what is stored, and each entry is at its place.
LEMMA InOrderFacts ==
  ASSUME NEW A, Numbered(A)
  PROVE  /\ InOrder(A) = Picked(BySeq(A), SeqsOf(A))
         /\ Cardinality(SeqsOf(A)) \in Nat /\ DOMAIN InOrder(A) = 1..Cardinality(SeqsOf(A))
         /\ \A s \in A : PlaceOf(A, s) \in DOMAIN InOrder(A) /\ InOrder(A)[PlaceOf(A, s)] = s.entry
         /\ \A i \in DOMAIN InOrder(A) : \E s \in A : PlaceOf(A, s) = i
         /\ \A s, t \in A : PlaceOf(A, s) < PlaceOf(A, t) <=> s.seq < t.seq
<1> DEFINE M == SeqsOf(A)
<1>1. IsFiniteSet(M) /\ M \subseteq Nat /\ DOMAIN BySeq(A) = M /\ \A s \in A : BySeq(A)[s.seq] = s.entry
  BY BySeqFacts
<1>2. InOrder(A) = Picked(BySeq(A), M)
  BY <1>1 DEF InOrder
<1>3. \A s \in A : s.seq \in M
  BY DEF SeqsOf
<1>4. \A m \in M : \E s \in A : s.seq = m
  BY DEF SeqsOf
<1> HIDE DEF M
<1>5. /\ Cardinality(M) \in Nat
      /\ \A i \in M : Cardinality(UpTo(M, i)) \in 1..Cardinality(M)
      /\ \A i, j \in M : i < j => Cardinality(UpTo(M, i)) < Cardinality(UpTo(M, j))
      /\ \A k \in 1..Cardinality(M) : \E i \in M : Cardinality(UpTo(M, i)) = k
  BY <1>1, RankFacts
<1>6. DOMAIN InOrder(A) = 1..Cardinality(M) /\ \A i \in M : InOrder(A)[Cardinality(UpTo(M, i))] = BySeq(A)[i]
  BY <1>1, <1>2, PickedAt
<1>7. \A s \in A : PlaceOf(A, s) = Cardinality(UpTo(M, s.seq))
  BY DEF PlaceOf, M
<1>8. ASSUME NEW s \in A, NEW t \in A PROVE PlaceOf(A, s) < PlaceOf(A, t) <=> s.seq < t.seq
  <2>1. s.seq \in M /\ t.seq \in M
    BY <1>3
  <2>2. s.seq \in Nat /\ t.seq \in Nat
    BY <1>1, <2>1
  <2>3. PlaceOf(A, s) \in Nat /\ PlaceOf(A, t) \in Nat
    BY <1>5, <1>7, <2>1
  <2>4. s.seq < t.seq => PlaceOf(A, s) < PlaceOf(A, t)
    BY <1>5, <1>7, <2>1
  <2>5. t.seq < s.seq => PlaceOf(A, t) < PlaceOf(A, s)
    BY <1>5, <1>7, <2>1
  <2>6. t.seq = s.seq => PlaceOf(A, t) = PlaceOf(A, s)
    BY <1>7
  <2> QED BY <2>2, <2>3, <2>4, <2>5, <2>6
<1>9. \A s \in A : PlaceOf(A, s) \in DOMAIN InOrder(A) /\ InOrder(A)[PlaceOf(A, s)] = s.entry
  BY <1>1, <1>3, <1>5, <1>6, <1>7
<1>10. \A i \in DOMAIN InOrder(A) : \E s \in A : PlaceOf(A, s) = i
  BY <1>4, <1>5, <1>6, <1>7
<1> QED BY <1>2, <1>5, <1>6, <1>8, <1>9, <1>10 DEF M

\* A filter of what is read reads what the filter leaves stored.
LEMMA InOrderFiltered ==
  ASSUME NEW A, Numbered(A), NEW B \in SUBSET A, NEW I \in SUBSET DOMAIN InOrder(A),
         \A s \in A : s \in B <=> PlaceOf(A, s) \in I
  PROVE  Picked(InOrder(A), I) = InOrder(B) /\ Numbered(B)
<1> DEFINE M == SeqsOf(A)
<1>1. IsFiniteSet(M) /\ M \subseteq Nat /\ \A s \in A : BySeq(A)[s.seq] = s.entry
  BY BySeqFacts
<1>2. InOrder(A) = Picked(BySeq(A), M) /\ I \in SUBSET (1..Cardinality(M))
  BY InOrderFacts
<1>3. Numbered(B)
  BY FS_Subset DEF Numbered
<1>4. AtPlaces(M, I) = SeqsOf(B)
  BY DEF PlaceOf, SeqsOf, AtPlaces
<1>5. Picked(InOrder(A), I) = Picked(BySeq(A), SeqsOf(B))
  <2> HIDE DEF M
  <2>1. Picked(Picked(BySeq(A), M), I) = Picked(BySeq(A), AtPlaces(M, I))
    BY <1>1, <1>2, PickedTwice
  <2> QED BY <1>2, <1>4, <2>1
<1>6. IsFiniteSet(SeqsOf(B)) /\ SeqsOf(B) \subseteq Nat /\ \A s \in B : BySeq(B)[s.seq] = s.entry
  BY <1>3, BySeqFacts
<1>7. \A m \in SeqsOf(B) : BySeq(A)[m] = BySeq(B)[m]
  BY <1>1, <1>6 DEF SeqsOf
<1>8. Picked(BySeq(A), SeqsOf(B)) = Picked(BySeq(B), SeqsOf(B))
  BY <1>6, <1>7, PickedSame
<1> QED BY <1>3, <1>5, <1>8, InOrderFacts

\* What is recorded next is read last.
LEMMA InOrderAppended ==
  ASSUME NEW A, Numbered(A), NEW q \in Nat, \A s \in A : s.seq < q, NEW e \in AuditEntries
  PROVE  LET B == A \cup {[seq |-> q, entry |-> e]}
         IN Numbered(B) /\ InOrder(B) = Append(InOrder(A), e) /\ InOrder(A) \in Seq(AuditEntries)
<1> DEFINE st == [seq |-> q, entry |-> e]
           B == A \cup {st}
<1>1. st \in StoredEntry /\ st.seq = q /\ st.entry = e
  BY DEF StoredEntry
<1> HIDE DEF st
<1>2. Numbered(B)
  <2>1. IsFiniteSet(B)
    BY FS_AddElement DEF Numbered
  <2>2. B \subseteq StoredEntry
    BY <1>1 DEF Numbered
  <2>3. ASSUME NEW s \in B, NEW t \in B, s.seq = t.seq PROVE s = t
    <3>1. \A r \in A : r.seq # q
      <4> TAKE r \in A
      <4>1. r.seq \in Nat /\ r.seq < q
        BY DEF Numbered, StoredEntry
      <4> QED BY <4>1
    <3> QED BY <1>1, <2>3, <3>1 DEF Numbered
  <2> QED BY <2>1, <2>2, <2>3 DEF Numbered
<1>3. SeqsOf(B) = SeqsOf(A) \cup {q}
  BY <1>1 DEF SeqsOf
<1>4. IsFiniteSet(SeqsOf(A)) /\ SeqsOf(A) \subseteq Nat /\ \A s \in A : BySeq(A)[s.seq] = s.entry
  BY BySeqFacts
<1>5. \A s \in B : BySeq(B)[s.seq] = s.entry
  BY <1>2, BySeqFacts
<1>6. \A m \in SeqsOf(A) : m < q /\ BySeq(A)[m] = BySeq(B)[m] /\ BySeq(B)[m] \in AuditEntries
  BY <1>4, <1>5 DEF SeqsOf, Numbered, StoredEntry
<1>7. BySeq(B)[q] = e
  BY <1>1, <1>5
<1>8. Picked(BySeq(B), SeqsOf(A)) = Picked(BySeq(A), SeqsOf(A))
  BY <1>4, <1>6, PickedSame
<1>9. /\ Picked(BySeq(B), SeqsOf(A) \cup {q}) = Append(Picked(BySeq(B), SeqsOf(A)), BySeq(B)[q])
      /\ Picked(BySeq(B), SeqsOf(A)) \in Seq(AuditEntries)
  BY <1>4, <1>6, <1>7, PickedAppend
<1>10. InOrder(A) = Picked(BySeq(A), SeqsOf(A)) /\ InOrder(B) = Picked(BySeq(B), SeqsOf(B))
  BY <1>2, InOrderFacts
<1> QED BY <1>2, <1>3, <1>7, <1>8, <1>9, <1>10 DEF st

\* Nothing stored, nothing read.
LEMMA InOrderEmpty == InOrder({}) = << >> /\ Numbered({})
<1>1. Numbered({})
  BY FS_EmptySet DEF Numbered
<1>2. InOrder({}) = Picked(BySeq({}), SeqsOf({})) /\ SeqsOf({}) = {}
  BY <1>1, InOrderFacts DEF SeqsOf
<1> QED BY <1>1, <1>2, PickedFew

KindCap(failed) == IF failed THEN MaxFailedLogins ELSE MaxAuditEntries

\* The later entries of a stored one's kind.
LaterThan(stored, s) == SeqsOf({t \in stored : t.seq > s.seq /\ t.entry.failed = s.entry.failed})
Freshest(stored) == {s \in stored : Cardinality(LaterThan(stored, s)) < KindCap(s.entry.failed)}

\* The latest of what is read are the freshest of what is stored.
LEMMA LatestAreFreshest ==
  ASSUME NEW A, Numbered(A)
  PROVE  AuditHistory!Latest(InOrder(A)) = InOrder(Freshest(A)) /\ Numbered(Freshest(A))
<1> DEFINE L == InOrder(A)
           LaterAt(i) == {j \in DOMAIN L : j > i /\ L[j].failed = L[i].failed}
           I == {i \in DOMAIN L : Cardinality(LaterAt(i)) < KindCap(L[i].failed)}
           M == SeqsOf(A)
<1>1. \A S : AuditHistory!Cardinality(S) = Cardinality(S)
  BY DEF AuditHistory!Cardinality, Cardinality
<1>2. \A i : AuditHistory!Fresh(L, i) <=> Cardinality(LaterAt(i)) < KindCap(L[i].failed)
  BY <1>1 DEF AuditHistory!Fresh, KindCap
<1>3. AuditHistory!Latest(L) = Picked(L, I)
  <2>1. AuditHistory!Latest(L) = AuditHistory!Picked(L, I)
    BY <1>2 DEF AuditHistory!Latest
  <2>2. AuditHistory!Picked(L, I) = Picked(L, I)
    <3> HIDE DEF L, I
    <3> QED BY DEF AuditHistory!Picked, Picked, AuditHistory!Cardinality, Cardinality
  <2> QED BY <2>1, <2>2
<1>4. /\ Cardinality(M) \in Nat /\ DOMAIN L = 1..Cardinality(M)
      /\ \A s \in A : PlaceOf(A, s) \in DOMAIN L /\ L[PlaceOf(A, s)] = s.entry
      /\ \A s, t \in A : PlaceOf(A, s) < PlaceOf(A, t) <=> s.seq < t.seq
  BY InOrderFacts
<1>5. IsFiniteSet(M) /\ M \subseteq Nat
  BY BySeqFacts
<1>6. ASSUME NEW s \in A PROVE Cardinality(LaterAt(PlaceOf(A, s))) = Cardinality(LaterThan(A, s))
  <2> DEFINE i == PlaceOf(A, s)
  <2>1. LaterAt(i) \in SUBSET (1..Cardinality(M))
    BY <1>4
  <2>2. \A t \in A : PlaceOf(A, t) \in LaterAt(i) <=> (t.seq > s.seq /\ t.entry.failed = s.entry.failed)
    <3> TAKE t \in A
    <3>1. /\ PlaceOf(A, t) \in DOMAIN L /\ L[PlaceOf(A, t)] = t.entry /\ L[i] = s.entry
          /\ i \in DOMAIN L
      BY <1>4
    <3>2. PlaceOf(A, t) > i <=> t.seq > s.seq
      <4>1. PlaceOf(A, t) \in Int /\ i \in Int
        BY <1>4, <3>1
      <4>2. t.seq \in Nat /\ s.seq \in Nat
        BY DEF Numbered, StoredEntry
      <4> QED BY <1>4, <4>1, <4>2
    <3> QED BY <3>1, <3>2
  <2> HIDE DEF L, LaterAt, i
  <2>3. AtPlaces(M, LaterAt(i)) = LaterThan(A, s)
    BY <2>2 DEF LaterThan, SeqsOf, PlaceOf, AtPlaces
  <2> HIDE DEF M
  <2>4. Cardinality(AtPlaces(M, LaterAt(i))) = Cardinality(LaterAt(i))
    BY <1>5, <2>1, PlacesCount
  <2> QED BY <2>3, <2>4 DEF i
<1>7. ASSUME NEW s \in A PROVE s \in Freshest(A) <=> PlaceOf(A, s) \in I
  BY <1>4, <1>6 DEF Freshest
<1>8. Freshest(A) \in SUBSET A /\ I \in SUBSET DOMAIN L
  BY DEF Freshest
<1> HIDE DEF I
<1>9. Picked(L, I) = InOrder(Freshest(A)) /\ Numbered(Freshest(A))
  BY <1>7, <1>8, InOrderFiltered
<1> QED BY <1>3, <1>9

----------------------------------------------------------------------------

\* The two lists of the store: what was recorded before q, of kind failed and
\* of the other, each within its cap, and no number in both.
TwoLists(l, m, q, failed) ==
  /\ q \in Nat /\ failed \in BOOLEAN
  /\ InLine(l, q, failed) /\ InLine(m, q, ~failed)
  /\ \A i \in DOMAIN l, j \in DOMAIN m : l[i].seq # m[j].seq
  /\ Len(l) <= KindCap(failed) /\ Len(m) <= KindCap(~failed)

LEMMA LinesTurn == ASSUME NEW l, NEW m, NEW q, NEW f, TwoLists(l, m, q, f) PROVE TwoLists(m, l, q, ~f)
<1>1. f \in BOOLEAN /\ (~f) \in BOOLEAN /\ (~(~f)) = f
  BY DEF TwoLists
<1> QED BY <1>1 DEF TwoLists

LEMMA LineFacts ==
  ASSUME NEW l, NEW q, NEW f, InLine(l, q, f)
  PROVE  /\ Len(l) \in Nat /\ DOMAIN l = 1..Len(l) /\ \A i \in DOMAIN l : l[i] \in StoredEntry /\ l[i].seq \in Nat
         /\ \A i, j \in DOMAIN l : i < j <=> l[i].seq < l[j].seq
         /\ \A i, j \in DOMAIN l : l[i].seq = l[j].seq => i = j
         /\ Stored(l) \subseteq StoredEntry /\ IsFiniteSet(Stored(l))
         /\ \A s \in Stored(l) : s.seq < q /\ s.entry.failed = f
<1>1. PICK n \in Nat : n = Len(l) /\ DOMAIN l = 1..n /\ \A i \in 1..n : l[i] \in StoredEntry
  BY DEF InLine
<1>2. \A i \in 1..n : l[i].seq \in Nat /\ l[i].seq < q /\ l[i].entry.failed = f
  BY <1>1 DEF InLine, StoredEntry
<1>3. \A i, j \in 1..n : i < j => l[i].seq < l[j].seq
  BY <1>1 DEF InLine
<1>4. ASSUME NEW i \in 1..n, NEW j \in 1..n
      PROVE  (i < j <=> l[i].seq < l[j].seq) /\ (l[i].seq = l[j].seq => i = j)
  <2>1. i < j \/ i = j \/ j < i
    OBVIOUS
  <2>2. l[i].seq \in Nat /\ l[j].seq \in Nat
    BY <1>2
  <2> QED BY <1>3, <2>1, <2>2
<1>5. IsFiniteSet(Stored(l))
  <2> DEFINE g == [i \in 1..n |-> l[i]]
  <2>1. g \in Bijection(1..n, Stored(l))
    <3>1. g \in [1..n -> Stored(l)] /\ \A s \in Stored(l) : \E i \in 1..n : g[i] = s
      BY <1>1 DEF Stored
    <3>2. \A i, j \in 1..n : g[i] = g[j] => i = j
      BY <1>4
    <3> HIDE DEF g
    <3> QED BY <3>1, <3>2 DEF Bijection, Injection, Surjection, IsInjective
  <2>2. ExistsBijection(1..n, Stored(l)) /\ IsFiniteSet(1..n)
    BY <2>1, FS_Interval DEF ExistsBijection
  <2> QED BY <2>2, FS_Bijection
<1>6. Stored(l) \subseteq StoredEntry /\ \A s \in Stored(l) : s.seq < q /\ s.entry.failed = f
  BY <1>1, <1>2 DEF Stored
<1> QED BY <1>1, <1>2, <1>4, <1>5, <1>6

\* What the two lists hold is numbered, and as many of the kind of an entry
\* are later as stand behind it in its list.
LEMMA LinesFacts ==
  ASSUME NEW l, NEW m, NEW q, NEW f, f \in BOOLEAN,
         InLine(l, q, f), InLine(m, q, ~f), \A i \in DOMAIN l, j \in DOMAIN m : l[i].seq # m[j].seq
  PROVE  /\ Numbered(Stored(l) \cup Stored(m))
         /\ \A s \in Stored(l) \cup Stored(m) : s.seq < q
         /\ \A i \in DOMAIN l : Cardinality(LaterThan(Stored(l) \cup Stored(m), l[i])) = Len(l) - i
<1> DEFINE A == Stored(l) \cup Stored(m)
<1>1. /\ Len(l) \in Nat /\ DOMAIN l = 1..Len(l) /\ \A i \in DOMAIN l : l[i] \in StoredEntry /\ l[i].seq \in Nat
      /\ \A i, j \in DOMAIN l : i < j <=> l[i].seq < l[j].seq
      /\ \A i, j \in DOMAIN l : l[i].seq = l[j].seq => i = j
      /\ Stored(l) \subseteq StoredEntry /\ IsFiniteSet(Stored(l))
      /\ \A s \in Stored(l) : s.seq < q /\ s.entry.failed = f
  BY LineFacts
<1>2. /\ \A i, j \in DOMAIN m : m[i].seq = m[j].seq => i = j
      /\ Stored(m) \subseteq StoredEntry /\ IsFiniteSet(Stored(m))
      /\ \A s \in Stored(m) : s.seq < q /\ s.entry.failed = ~f
  BY LineFacts
<1>3. Numbered(A)
  <2>1. IsFiniteSet(A)
    BY <1>1, <1>2, FS_Union
  <2>2. ASSUME NEW s \in A, NEW t \in A, s.seq = t.seq PROVE s = t
    BY <1>1, <1>2, <2>2 DEF Stored
  <2> QED BY <1>1, <1>2, <2>1, <2>2 DEF Numbered
<1>4. ASSUME NEW i \in DOMAIN l PROVE Cardinality(LaterThan(A, l[i])) = Len(l) - i
  <2>0. PICK n \in Nat : n = Len(l) /\ DOMAIN l = 1..n
    BY <1>1
  <2>1. LaterThan(A, l[i]) = {l[j].seq : j \in (i + 1)..n}
    <3>1. ASSUME NEW t \in A, t.seq > l[i].seq, t.entry.failed = l[i].entry.failed
          PROVE  \E j \in (i + 1)..n : t.seq = l[j].seq
      <4>1. l[i] \in Stored(l) /\ l[i].entry.failed = f
        BY <1>1 DEF Stored
      <4>2. t \in Stored(l)
        BY <1>2, <3>1, <4>1
      <4>3. PICK j \in 1..n : t = l[j]
        BY <2>0, <4>2 DEF Stored
      <4>4. i < j
        BY <1>1, <2>0, <3>1, <4>3
      <4> QED BY <2>0, <4>3, <4>4
    <3>2. ASSUME NEW j \in (i + 1)..n
          PROVE  l[j] \in A /\ l[j].seq > l[i].seq /\ l[j].entry.failed = l[i].entry.failed
      <4>1. j \in 1..n /\ i < j
        BY <2>0
      <4>2. l[j] \in Stored(l) /\ l[i] \in Stored(l)
        BY <2>0, <4>1 DEF Stored
      <4>3. l[i].seq \in Nat /\ l[j].seq \in Nat /\ l[i].seq < l[j].seq
        BY <1>1, <2>0, <4>1
      <4> QED BY <1>1, <4>2, <4>3
    <3> HIDE DEF A
    <3> QED BY <3>1, <3>2 DEF LaterThan, SeqsOf
  <2>2. Cardinality({l[j].seq : j \in (i + 1)..n}) = Cardinality((i + 1)..n)
    <3> DEFINE T == {l[j].seq : j \in (i + 1)..n}
               g == [j \in (i + 1)..n |-> l[j].seq]
    <3>1. g \in [(i + 1)..n -> T] /\ \A s \in T : \E j \in (i + 1)..n : g[j] = s
      OBVIOUS
    <3>2. ASSUME NEW j \in (i + 1)..n, NEW k \in (i + 1)..n, g[j] = g[k] PROVE j = k
      <4>1. j \in DOMAIN l /\ k \in DOMAIN l
        BY <2>0
      <4> QED BY <1>1, <3>2, <4>1
    <3>3. IsFiniteSet((i + 1)..n)
      <4>1. i + 1 \in Int /\ n \in Int
        BY <2>0
      <4> QED BY <4>1, FS_Interval
    <3>4. ExistsBijection((i + 1)..n, T)
      <4> HIDE DEF g, T
      <4>1. g \in Bijection((i + 1)..n, T)
        BY <3>1, <3>2 DEF Bijection, Injection, Surjection, IsInjective
      <4> QED BY <4>1 DEF ExistsBijection
    <3> HIDE DEF T
    <3>5. Cardinality(T) = Cardinality((i + 1)..n)
      BY <3>3, <3>4, FS_Bijection
    <3> QED BY <3>5 DEF T
  <2>3. Cardinality((i + 1)..n) = n - i
    <3>1. i + 1 \in Int /\ n \in Int /\ i \in 1..n
      BY <2>0
    <3>2. Cardinality((i + 1)..n) = IF i + 1 > n THEN 0 ELSE n - (i + 1) + 1
      BY <3>1, FS_Interval
    <3> QED BY <3>1, <3>2
  <2> QED BY <2>0, <2>1, <2>2, <2>3
<1> QED BY <1>1, <1>2, <1>3, <1>4

\* Of a list only the end is kept, which is in line too.
LEMMA LastNFacts ==
  ASSUME NEW l, NEW q, NEW f, InLine(l, q, f), NEW c \in Nat
  PROVE  /\ InLine(LastN(l, c), q, f) /\ Len(LastN(l, c)) <= c
         /\ Stored(LastN(l, c)) = {l[i] : i \in {j \in DOMAIN l : j > Len(l) - c}}
<1>1. PICK n \in Nat : n = Len(l) /\ DOMAIN l = 1..n /\ \A i \in 1..n : l[i] \in StoredEntry
  BY DEF InLine
<1>2. CASE n <= c
  <2>1. LastN(l, c) = l
    BY <1>1, <1>2 DEF LastN
  <2>2. {j \in DOMAIN l : j > Len(l) - c} = DOMAIN l
    BY <1>1, <1>2
  <2> QED BY <1>1, <1>2, <2>1, <2>2 DEF Stored
<1>3. CASE n > c
  <2> DEFINE u == LastN(l, c)
  <2>1. u = SubSeq(l, n - c + 1, n)
    BY <1>1, <1>3 DEF LastN
  <2>2. n - c + 1 \in 1..n \/ (c = 0 /\ n - c + 1 = n + 1)
    BY <1>3
  <2>3. u = [i \in 1..c |-> l[n - c + i]]
    <3>1. SubSeq(l, n - c + 1, n) = [i \in 1..(n - (n - c + 1) + 1) |-> l[(n - c + 1) + i - 1]]
      BY <1>1, <2>2
    <3>2. n - (n - c + 1) + 1 = c /\ \A i \in 1..c : (n - c + 1) + i - 1 = n - c + i
      OBVIOUS
    <3> QED BY <2>1, <3>1, <3>2
  <2>4. \A i \in 1..c : n - c + i \in 1..n /\ n - c + i > n - c
    BY <1>3
  <2> HIDE DEF u
  <2>5. u \in Seq(StoredEntry) /\ Len(u) = c /\ DOMAIN u = 1..c
    <3>1. u \in [1..c -> StoredEntry]
      BY <1>1, <2>3, <2>4
    <3>2. DOMAIN u = 1..c
      BY <2>3
    <3> QED BY <3>1, <3>2
  <2>6. \A i, j \in 1..c : i < j => n - c + i < n - c + j
    OBVIOUS
  <2>7. InLine(u, q, f)
    BY <1>1, <2>3, <2>4, <2>5, <2>6 DEF InLine
  <2>8. Stored(u) = {l[i] : i \in {j \in 1..n : j > n - c}}
    <3>1. ASSUME NEW i \in 1..n, i > n - c PROVE \E k \in 1..c : n - c + k = i
      <4>1. i - (n - c) \in 1..c /\ n - c + (i - (n - c)) = i
        BY <1>3, <3>1
      <4> QED BY <4>1
    <3> QED BY <2>3, <2>4, <2>5, <3>1 DEF Stored
  <2> QED BY <1>1, <2>5, <2>7, <2>8 DEF u
<1> QED BY <1>2, <1>3

\* The next entry is in line, last.
LEMMA AppendFacts ==
  ASSUME NEW l, NEW q \in Nat, NEW f, InLine(l, q, f), NEW e \in AuditEntries, e.failed = f
  PROVE  LET st == [seq |-> q, entry |-> e]
         IN InLine(Append(l, st), q + 1, f) /\ Stored(Append(l, st)) = Stored(l) \cup {st}
<1> DEFINE st == [seq |-> q, entry |-> e]
           u == Append(l, st)
<1>1. PICK n \in Nat : n = Len(l) /\ DOMAIN l = 1..n /\ l \in Seq(StoredEntry)
  BY DEF InLine
<1>2. st \in StoredEntry /\ st.seq = q /\ st.entry = e
  BY DEF StoredEntry
<1>3. \A i \in 1..n : l[i] \in StoredEntry /\ l[i].seq \in Nat /\ l[i].seq < q /\ l[i].entry.failed = f
  <2>1. /\ \A i \in DOMAIN l : l[i] \in StoredEntry /\ l[i].seq \in Nat
        /\ \A i \in DOMAIN l : l[i].seq < q /\ l[i].entry.failed = f
    BY LineFacts DEF InLine
  <2> QED BY <1>1, <2>1
<1> HIDE DEF st
<1>4. u \in Seq(StoredEntry) /\ Len(u) = n + 1 /\ DOMAIN u = 1..(n + 1)
  BY <1>1, <1>2
<1>5. \A i \in 1..(n + 1) : u[i] = IF i = n + 1 THEN st ELSE l[i]
  BY <1>1, <1>2, ListFacts
<1> HIDE DEF u
<1>6. InLine(u, q + 1, f)
  <2>1. ASSUME NEW i \in DOMAIN u PROVE u[i].seq < q + 1 /\ u[i].entry.failed = f
    BY <1>2, <1>3, <1>4, <1>5
  <2>2. ASSUME NEW i \in DOMAIN u, NEW j \in DOMAIN u, i < j PROVE u[i].seq < u[j].seq
    <3>1. i \in 1..n /\ u[i] = l[i] /\ (j = n + 1 \/ j \in 1..n)
      BY <1>4, <1>5, <2>2
    <3>2. CASE j = n + 1
      BY <1>2, <1>3, <1>4, <1>5, <3>1, <3>2
    <3>3. CASE j \in 1..n
      <4>1. u[j] = l[j]
        BY <1>5, <3>3
      <4> QED BY <1>1, <2>2, <3>1, <3>3, <4>1 DEF InLine
    <3> QED BY <3>1, <3>2, <3>3
  <2> QED BY <1>4, <2>1, <2>2 DEF InLine
<1>7. Stored(u) = Stored(l) \cup {st}
  <2>1. n + 1 \in 1..(n + 1) /\ \A i \in 1..n : i \in 1..(n + 1) /\ i # n + 1
    OBVIOUS
  <2>2. \A i \in 1..(n + 1) : i = n + 1 \/ i \in 1..n
    OBVIOUS
  <2> QED BY <1>1, <1>4, <1>5, <2>1, <2>2 DEF Stored
<1> QED BY <1>6, <1>7 DEF u, st

\* A filter leaves the list in line.
LEMMA SinceFacts ==
  ASSUME NEW l, NEW q, NEW f, InLine(l, q, f), NEW t
  PROVE  /\ InLine(Since(l, t), q, f) /\ Len(Since(l, t)) <= Len(l)
         /\ Stored(Since(l, t)) = {s \in Stored(l) : s.entry.at >= t}
<1> DEFINE I == {i \in DOMAIN l : l[i].entry.at >= t}
           u == Picked(l, I)
<1>1. PICK n \in Nat : n = Len(l) /\ DOMAIN l = 1..n /\ l \in Seq(StoredEntry)
  BY DEF InLine
<1>2. IsFiniteSet(1..n) /\ Cardinality(1..n) = n
  BY FS_Interval
<1>3. I \in SUBSET (1..n)
  BY <1>1
<1>4. IsFiniteSet(I) /\ Cardinality(I) <= n /\ I \subseteq Nat
  <2>1. IsFiniteSet(I) /\ Cardinality(I) <= n
    BY <1>2, <1>3, FS_Subset
  <2> QED BY <1>3, <2>1
<1>5. u \in Seq(StoredEntry) /\ Len(u) = Cardinality(I) /\ Cardinality(I) \in Nat
  BY <1>1, <1>3, PickedSeq
<1> HIDE DEF I
<1>6. PICK g : Along(g, I) /\ \A k \in 1..Cardinality(I) : u[k] = l[g[k]]
  <2>1. PICK g : Picks(l, I, g)
    BY <1>1, <1>3, PickedFollows
  <2> QED BY <2>1 DEF Picks
<1>7. /\ g \in [1..Cardinality(I) -> I]
      /\ \A j, k \in 1..Cardinality(I) : j < k => g[j] < g[k]
      /\ \A i \in I : \E k \in 1..Cardinality(I) : g[k] = i
  BY <1>6 DEF Along
<1>8. \A k \in 1..Cardinality(I) : g[k] \in DOMAIN l /\ g[k] \in I
  BY <1>1, <1>3, <1>7
<1> HIDE DEF u
<1>9. DOMAIN u = 1..Cardinality(I)
  BY <1>5
<1>10. InLine(u, q, f)
  BY <1>5, <1>6, <1>7, <1>8, <1>9 DEF InLine
<1>11. Stored(u) = {l[i] : i \in I}
  BY <1>6, <1>7, <1>8, <1>9 DEF Stored
<1>12. {l[i] : i \in I} = {s \in Stored(l) : s.entry.at >= t}
  BY DEF I, Stored
<1>13. u = Since(l, t)
  BY DEF u, I, Since
<1> QED BY <1>1, <1>4, <1>5, <1>10, <1>11, <1>12, <1>13

----------------------------------------------------------------------------
(* Every step of the histories is one of Recent's. *)

\* The list of its kind once e is logged, and what is read of L once it is pruned.
Logged(l, q, e, failed) == LastN(Append(l, [seq |-> q, entry |-> e]), KindCap(failed))
ReadSince(L, t) == Picked(L, {i \in DOMAIN L : L[i].at >= t})

\* Logging e to the one list leaves two lists, read as Recent's log with e.
LogsWell(l, m, q, failed, e) ==
  /\ TwoLists(Logged(l, q, e, failed), m, q + 1, failed)
  /\ InOrder(Stored(Logged(l, q, e, failed)) \cup Stored(m))
       = AuditHistory!Latest(Append(InOrder(Stored(l) \cup Stored(m)), e))

\* An entry logged: the oldest of its kind goes when there are too many.
LEMMA LinesLog ==
  ASSUME HistoriesAssumption, NEW l, NEW m, NEW q, NEW f, TwoLists(l, m, q, f), NEW e \in AuditEntries, e.failed = f
  PROVE  LogsWell(l, m, q, f, e)
<1> DEFINE st == [seq |-> q, entry |-> e]
           w == Append(l, st)
           u == LastN(w, KindCap(f))
           A == Stored(l) \cup Stored(m)
           B == Stored(w) \cup Stored(m)
<1>1. /\ q \in Nat /\ f \in BOOLEAN /\ InLine(l, q, f) /\ InLine(m, q, ~f)
      /\ \A i \in DOMAIN l, j \in DOMAIN m : l[i].seq # m[j].seq
      /\ Len(m) <= KindCap(~f)
  BY DEF TwoLists
<1>2. InLine(w, q + 1, f) /\ Stored(w) = Stored(l) \cup {st}
  BY <1>1, AppendFacts
<1>3. /\ Len(m) \in Nat /\ DOMAIN m = 1..Len(m) /\ \A i \in DOMAIN m : m[i] \in StoredEntry /\ m[i].seq \in Nat
      /\ \A s \in Stored(m) : s.seq < q /\ s.entry.failed = ~f
  BY <1>1, LineFacts
<1>4. InLine(m, q + 1, ~f)
  <2>1. \A i \in DOMAIN m : m[i].seq < q + 1
    BY <1>1, <1>3 DEF InLine
  <2> QED BY <1>1, <2>1 DEF InLine
<1>5. KindCap(f) \in Nat \ {0} /\ KindCap(~f) \in Nat \ {0}
  BY <1>1, HistoriesAssumption DEF KindCap
<1>6. st.seq = q /\ st.entry = e
  OBVIOUS
<1> HIDE DEF st
<1>7. \A s \in Stored(w), j \in DOMAIN m : s.seq # m[j].seq
  <2> SUFFICES ASSUME NEW s \in Stored(w), NEW j \in DOMAIN m PROVE s.seq # m[j].seq
    OBVIOUS
  <2>1. m[j].seq \in Nat /\ m[j].seq < q
    BY <1>1, <1>3 DEF InLine
  <2>2. CASE s = st
    BY <1>1, <1>6, <2>1, <2>2
  <2>3. CASE s \in Stored(l)
    <3>1. PICK i \in DOMAIN l : s = l[i]
      BY <2>3 DEF Stored
    <3> QED BY <1>1, <3>1
  <2> QED BY <1>2, <2>2, <2>3
<1> HIDE DEF w
<1>8. \A i \in DOMAIN w, j \in DOMAIN m : w[i].seq # m[j].seq
  BY <1>7 DEF Stored
<1>9. /\ Numbered(B)
      /\ \A i \in DOMAIN w : Cardinality(LaterThan(B, w[i])) = Len(w) - i
  BY <1>1, <1>2, <1>4, <1>8, LinesFacts
<1>10. \A i \in DOMAIN m : Cardinality(LaterThan(B, m[i])) = Len(m) - i
  <2>1. (~f) \in BOOLEAN /\ (~(~f)) = f /\ Stored(m) \cup Stored(w) = B
    BY <1>1
  <2>2. \A i \in DOMAIN m, j \in DOMAIN w : m[i].seq # w[j].seq
    BY <1>8
  <2>3. \A i \in DOMAIN m : Cardinality(LaterThan(Stored(m) \cup Stored(w), m[i])) = Len(m) - i
    BY <1>2, <1>4, <2>1, <2>2, LinesFacts
  <2> QED BY <2>1, <2>3
<1>11. /\ InLine(u, q + 1, f) /\ Len(u) <= KindCap(f)
       /\ Stored(u) = {w[i] : i \in {j \in DOMAIN w : j > Len(w) - KindCap(f)}}
  BY <1>2, <1>5, LastNFacts
<1>12. /\ Len(w) \in Nat /\ DOMAIN w = 1..Len(w)
       /\ \A s \in Stored(w) : s.entry.failed = f
  BY <1>2, LineFacts
<1> HIDE DEF u, A, B
<1>13. Stored(u) \cup Stored(m) = Freshest(B)
  <2>1. ASSUME NEW i \in DOMAIN w
        PROVE  Cardinality(LaterThan(B, w[i])) < KindCap(w[i].entry.failed) <=> i > Len(w) - KindCap(f)
    <3>1. w[i].entry.failed = f
      BY <1>12 DEF Stored
    <3>2. i \in Nat
      BY <1>12
    <3> QED BY <1>5, <1>9, <1>12, <3>1, <3>2
  <2>2. ASSUME NEW i \in DOMAIN m
        PROVE  Cardinality(LaterThan(B, m[i])) < KindCap(m[i].entry.failed)
    <3>1. m[i].entry.failed = ~f
      BY <1>3 DEF Stored
    <3>2. i \in 1..Len(m)
      BY <1>3
    <3> QED BY <1>1, <1>3, <1>5, <1>10, <3>1, <3>2
  <2>3. ASSUME NEW s \in B PROVE (\E i \in DOMAIN w : s = w[i]) \/ (\E i \in DOMAIN m : s = m[i])
    BY DEF B, Stored
  <2>4. \A s \in Stored(u) \cup Stored(m) : s \in Freshest(B)
    <3> TAKE s \in Stored(u) \cup Stored(m)
    <3>1. CASE s \in Stored(u)
      <4>1. PICK i \in DOMAIN w : s = w[i] /\ i > Len(w) - KindCap(f)
        BY <1>11, <3>1
      <4>2. s \in B
        BY <4>1 DEF B, Stored
      <4> QED BY <2>1, <4>1, <4>2 DEF Freshest
    <3>2. CASE s \in Stored(m)
      <4>1. PICK i \in DOMAIN m : s = m[i]
        BY <3>2 DEF Stored
      <4>2. s \in B
        BY <3>2 DEF B
      <4> QED BY <2>2, <4>1, <4>2 DEF Freshest
    <3> QED BY <3>1, <3>2
  <2>5. \A s \in Freshest(B) : s \in Stored(u) \cup Stored(m)
    <3> TAKE s \in Freshest(B)
    <3>1. s \in B /\ Cardinality(LaterThan(B, s)) < KindCap(s.entry.failed)
      BY DEF Freshest
    <3>2. ASSUME NEW i \in DOMAIN w, s = w[i] PROVE s \in Stored(u)
      <4>1. i > Len(w) - KindCap(f)
        BY <2>1, <3>1, <3>2
      <4> QED BY <1>11, <3>2, <4>1
    <3>3. ASSUME NEW i \in DOMAIN m, s = m[i] PROVE s \in Stored(m)
      BY <3>3 DEF Stored
    <3> QED BY <2>3, <3>1, <3>2, <3>3
  <2> QED BY <2>4, <2>5
<1>14. InOrder(B) = Append(InOrder(A), e)
  <2>1. Numbered(A) /\ \A s \in A : s.seq < q
    BY <1>1, LinesFacts DEF A
  <2>2. B = A \cup {[seq |-> q, entry |-> e]}
    BY <1>2 DEF A, B, st
  <2>3. InOrder(A \cup {[seq |-> q, entry |-> e]}) = Append(InOrder(A), e)
    BY <1>1, <2>1, InOrderAppended
  <2> QED BY <2>2, <2>3
<1>15. InOrder(Stored(u) \cup Stored(m)) = AuditHistory!Latest(Append(InOrder(A), e))
  BY <1>9, <1>13, <1>14, LatestAreFreshest
<1>16. \A i \in DOMAIN u, j \in DOMAIN m : u[i].seq # m[j].seq
  <2> SUFFICES ASSUME NEW i \in DOMAIN u, NEW j \in DOMAIN m PROVE u[i].seq # m[j].seq
    OBVIOUS
  <2>1. u[i] \in Stored(u)
    BY DEF Stored
  <2>2. u[i] \in Stored(w)
    BY <1>11, <2>1 DEF Stored
  <2> QED BY <1>7, <2>2
<1>17. TwoLists(u, m, q + 1, f)
  BY <1>1, <1>4, <1>11, <1>16 DEF TwoLists
<1>18. u = Logged(l, q, e, f)
  BY DEF u, w, st, Logged
<1> QED BY <1>15, <1>17, <1>18 DEF A, LogsWell

\* What is pruned of the lists is what is pruned of what is read.
LEMMA LinesPrune ==
  ASSUME HistoriesAssumption, NEW l, NEW m, NEW q, NEW f, TwoLists(l, m, q, f), NEW t
  PROVE  /\ TwoLists(Since(l, t), Since(m, t), q, f)
         /\ InOrder(Stored(Since(l, t)) \cup Stored(Since(m, t))) = ReadSince(InOrder(Stored(l) \cup Stored(m)), t)
<1> DEFINE A == Stored(l) \cup Stored(m)
           L == InOrder(A)
           I == {i \in DOMAIN L : L[i].at >= t}
           B == Stored(Since(l, t)) \cup Stored(Since(m, t))
<1>1. /\ q \in Nat /\ f \in BOOLEAN /\ InLine(l, q, f) /\ InLine(m, q, ~f)
      /\ \A i \in DOMAIN l, j \in DOMAIN m : l[i].seq # m[j].seq
      /\ Len(l) <= KindCap(f) /\ Len(m) <= KindCap(~f)
  BY DEF TwoLists
<1>2. /\ InLine(Since(l, t), q, f) /\ Len(Since(l, t)) <= Len(l)
      /\ Stored(Since(l, t)) = {s \in Stored(l) : s.entry.at >= t}
  BY <1>1, SinceFacts
<1>3. /\ InLine(Since(m, t), q, ~f) /\ Len(Since(m, t)) <= Len(m)
      /\ Stored(Since(m, t)) = {s \in Stored(m) : s.entry.at >= t}
  BY <1>1, SinceFacts
<1>4. \A s \in Stored(l), r \in Stored(m) : s.seq # r.seq
  BY <1>1 DEF Stored
<1>5. \A i \in DOMAIN Since(l, t), j \in DOMAIN Since(m, t) : Since(l, t)[i].seq # Since(m, t)[j].seq
  <2> TAKE i \in DOMAIN Since(l, t), j \in DOMAIN Since(m, t)
  <2>1. Since(l, t)[i] \in Stored(Since(l, t)) /\ Since(m, t)[j] \in Stored(Since(m, t))
    BY DEF Stored
  <2> QED BY <1>2, <1>3, <1>4, <2>1
<1>6. Numbered(A)
  BY <1>1, LinesFacts
<1>7. B = {s \in A : s.entry.at >= t}
  BY <1>2, <1>3
<1> HIDE DEF A, B
<1>8. \A s \in A : PlaceOf(A, s) \in DOMAIN L /\ L[PlaceOf(A, s)] = s.entry
  BY <1>6, InOrderFacts
<1>9. B \in SUBSET A /\ I \in SUBSET DOMAIN L /\ \A s \in A : s \in B <=> PlaceOf(A, s) \in I
  BY <1>7, <1>8
<1> HIDE DEF I
<1>10. Picked(L, I) = InOrder(B)
  BY <1>6, <1>9, InOrderFiltered
<1>11. TwoLists(Since(l, t), Since(m, t), q, f)
  <2>1. Len(l) \in Nat /\ Len(m) \in Nat /\ Len(Since(l, t)) \in Nat /\ Len(Since(m, t)) \in Nat
    BY <1>1, <1>2, <1>3, LineFacts
  <2>2. Len(Since(l, t)) <= KindCap(f) /\ Len(Since(m, t)) <= KindCap(~f)
    <3>1. KindCap(f) \in Nat /\ KindCap(~f) \in Nat
      BY HistoriesAssumption DEF KindCap
    <3> QED BY <1>1, <1>2, <1>3, <2>1, <3>1
  <2> QED BY <1>1, <1>2, <1>3, <1>5, <2>2 DEF TwoLists
<1> QED BY <1>10, <1>11 DEF A, B, I, ReadSince

AuditInv == TwoLists(entries, failedLogins, auditSeq, FALSE)
RingsInv == RingFits(logRing, LogCapacity) /\ RingFits(samples, SampleCapacity)
HistoriesInv == AuditInv /\ RingsInv

LEMMA NoLines == ASSUME HistoriesAssumption, NEW q \in Nat PROVE TwoLists(<< >>, << >>, q, FALSE)
<1>1. \A f \in BOOLEAN : InLine(<< >>, q, f)
  BY DEF InLine
<1>2. \A f \in BOOLEAN : Len(<< >>) <= KindCap(f)
  BY HistoriesAssumption DEF KindCap
<1>3. FALSE \in BOOLEAN /\ (~FALSE) \in BOOLEAN
  OBVIOUS
<1>4. \A i \in DOMAIN << >>, j \in DOMAIN << >> : << >>[i].seq # << >>[j].seq
  OBVIOUS
<1> QED BY <1>1, <1>2, <1>3, <1>4 DEF TwoLists

LEMMA HistoriesStart == ASSUME HistoriesAssumption, HistoriesInit PROVE HistoriesInv
<1>2. TwoLists(<< >>, << >>, 0, FALSE)
  BY NoLines
<1>3. AuditInv
  BY <1>2 DEF AuditInv, HistoriesInit
<1>4. RingsInv
  BY EmptyFits, HistoriesAssumption DEF RingsInv, HistoriesInit
<1> QED BY <1>3, <1>4 DEF HistoriesInv

\* What a step of the rings does to them.
LEMMA RingsStep ==
  ASSUME HistoriesAssumption, RingsInv, [HistoriesNext]_historyVars
  PROVE  /\ RingsInv'
         /\ \/ logRing' = logRing \/ logRing' = Empty(LogCapacity)
            \/ \E x \in Lines : logRing' = Pushed(logRing, x)
         /\ \/ samples' = samples
            \/ \E x \in Lines : samples' = Pushed(samples, x) \/ samples' = Pushed(Empty(SampleCapacity), x)
<1>1. \/ logRing' = logRing \/ logRing' = Empty(LogCapacity)
      \/ \E x \in Lines : logRing' = Pushed(logRing, x)
  BY DEF HistoriesNext, historyVars, rings, Build, LogLine, SampleTick, Dispose, AuditLog, AuditPrune, AuditClear
<1>2. \/ samples' = samples
      \/ \E x \in Lines : samples' = Pushed(samples, x) \/ samples' = Pushed(Empty(SampleCapacity), x)
  BY DEF HistoriesNext, historyVars, rings, Build, LogLine, SampleTick, Dispose, AuditLog, AuditPrune, AuditClear
<1>0. RingFits(Empty(LogCapacity), LogCapacity) /\ RingFits(Empty(SampleCapacity), SampleCapacity)
  BY EmptyFits, HistoriesAssumption
<1>3. RingFits(logRing', LogCapacity)
  BY <1>0, <1>1, PushedHistory DEF RingsInv
<1>4. RingFits(samples', SampleCapacity)
  BY <1>0, <1>2, PushedHistory DEF RingsInv
<1> QED BY <1>1, <1>2, <1>3, <1>4 DEF RingsInv

\* The last n, as Recent picks them of one kind.
LatestOf(s, n) == Picked(s, {i \in DOMAIN s : Cardinality({j \in DOMAIN s : j > i}) < n})

LEMMA RingRecords ==
  ASSUME NEW ring, NEW n, RingFits(ring, n), NEW x
  PROVE  History(Pushed(ring, x)) = LatestOf(Append(History(ring), x), n)
<1> DEFINE S == {ring.slots[i] : i \in 0..(n - 1)} \cup {x}
           u == History(ring)
<1>1. n \in Nat \ {0} /\ ring.count \in 0..n
  BY DEF RingFits
<1>2. u \in Seq(S)
  <2>1. u = [i \in 1..ring.count |-> ring.slots[SlotOf(ring, n, i)]] /\ \A i \in 1..ring.count : SlotOf(ring, n, i) \in 0..(n - 1)
    BY HistoryPlaces
  <2>2. u \in [1..ring.count -> S]
    BY <2>1
  <2> QED BY <1>1, <2>2
<1>3. x \in S
  OBVIOUS
<1> HIDE DEF S, u
<1>4. Append(u, x) \in Seq(S)
  BY <1>2, <1>3
<1>5. LastN(Append(u, x), n)
        = LatestOf(Append(u, x), n)
  BY <1>1, <1>4, LatestIsLast DEF LatestOf
<1> QED BY <1>5, PushedHistory DEF u

LEMMA LogRecords ==
  ASSUME NEW x, RingFits(logRing, LogCapacity), logRing' = Pushed(logRing, x)
  PROVE  LogHistory!Record(x)
<1> DEFINE s == Append(History(logRing), x)
<1>1. GetAll(logRing) = History(logRing)
  BY GetAllIsHistory
<1>2. GetAll(logRing') = History(logRing')
  BY PushedHistory, GetAllIsHistory
<1>3. History(logRing') = LatestOf(s, LogCapacity)
  BY RingRecords
<1> HIDE DEF s
<1>4. \A S : LogHistory!Cardinality(S) = Cardinality(S)
  BY DEF LogHistory!Cardinality, Cardinality
<1>5. \A i : LogHistory!Fresh(s, i) <=> Cardinality({j \in DOMAIN s : j > i}) < LogCapacity
  BY <1>4 DEF LogHistory!Fresh, OneKind
<1>6. LogHistory!Latest(s) = LogHistory!Picked(s, {i \in DOMAIN s : Cardinality({j \in DOMAIN s : j > i}) < LogCapacity})
  BY <1>5 DEF LogHistory!Latest
<1>7. \A I : LogHistory!Picked(s, I) = Picked(s, I)
  BY DEF LogHistory!Picked, Picked, LogHistory!Cardinality, Cardinality
<1> QED BY <1>1, <1>2, <1>3, <1>6, <1>7 DEF LogHistory!Record, s, LatestOf

LEMMA SampleRecords ==
  ASSUME NEW x, RingFits(samples, SampleCapacity), samples' = Pushed(samples, x)
  PROVE  SampleHistory!Record(x)
<1> DEFINE s == Append(History(samples), x)
<1>3. History(samples') = LatestOf(s, SampleCapacity)
  BY RingRecords
<1> HIDE DEF s
<1>4. \A S : SampleHistory!Cardinality(S) = Cardinality(S)
  BY DEF SampleHistory!Cardinality, Cardinality
<1>5. \A i : SampleHistory!Fresh(s, i) <=> Cardinality({j \in DOMAIN s : j > i}) < SampleCapacity
  BY <1>4 DEF SampleHistory!Fresh, OneKind
<1>6. SampleHistory!Latest(s) = SampleHistory!Picked(s, {i \in DOMAIN s : Cardinality({j \in DOMAIN s : j > i}) < SampleCapacity})
  BY <1>5 DEF SampleHistory!Latest
<1>7. \A I : SampleHistory!Picked(s, I) = Picked(s, I)
  BY DEF SampleHistory!Picked, Picked, SampleHistory!Cardinality, Cardinality
<1> QED BY <1>3, <1>6, <1>7 DEF SampleHistory!Record, s, LatestOf

\* The log of a new build is empty, and its samples are the first.
LEMMA LogClears ==
  ASSUME HistoriesAssumption, logRing' = Empty(LogCapacity)
  PROVE  LogHistory!Clear
BY EmptyFits, GetAllIsHistory DEF HistoriesAssumption, LogHistory!Clear

LEMMA SamplesAnew ==
  ASSUME HistoriesAssumption, NEW x, samples' = Pushed(Empty(SampleCapacity), x)
  PROVE  SampleHistory!Anew(x)
<1>1. PICK n \in Nat \ {0} : n = SampleCapacity
  BY DEF HistoriesAssumption
<1>2. RingFits(Empty(n), n) /\ History(Empty(n)) = << >>
  BY EmptyFits
<1>3. History(Pushed(Empty(n), x)) = LastN(Append(<< >>, x), n)
  BY <1>2, PushedHistory
<1>4. LastN(Append(<< >>, x), n) = <<x>>
  <2>1. Append(<< >>, x) = <<x>> /\ Len(<<x>>) = 1
    OBVIOUS
  <2> QED BY <2>1 DEF LastN
<1> QED BY <1>1, <1>3, <1>4 DEF SampleHistory!Anew

\* An entry logged is one recorded, and nothing else is forgotten.
LEMMA AuditLogs ==
  ASSUME HistoriesAssumption, AuditInv, NEW e \in AuditEntries, AuditLog(e)
  PROVE  AuditInv' /\ AuditHistory!Record(e)
<1>1. auditSeq' = auditSeq + 1 /\ TwoLists(entries, failedLogins, auditSeq, FALSE)
  BY DEF AuditLog, AuditInv
<1>2. e.failed \in BOOLEAN
  BY DEF AuditEntries
<1>3. CASE e.failed
  <2>1. failedLogins' = Logged(failedLogins, auditSeq, e, TRUE) /\ entries' = entries
    BY <1>3 DEF AuditLog, Logged, KindCap
  <2>2. TwoLists(failedLogins, entries, auditSeq, TRUE) /\ e.failed = TRUE
    BY <1>1, <1>2, <1>3, LinesTurn
  <2>3. /\ TwoLists(failedLogins', entries, auditSeq + 1, TRUE)
        /\ InOrder(Stored(failedLogins') \cup Stored(entries))
             = AuditHistory!Latest(Append(InOrder(Stored(failedLogins) \cup Stored(entries)), e))
    <3>1. /\ TwoLists(Logged(failedLogins, auditSeq, e, TRUE), entries, auditSeq + 1, TRUE)
          /\ InOrder(Stored(Logged(failedLogins, auditSeq, e, TRUE)) \cup Stored(entries))
               = AuditHistory!Latest(Append(InOrder(Stored(failedLogins) \cup Stored(entries)), e))
      <4>1. LogsWell(failedLogins, entries, auditSeq, TRUE, e)
        BY <2>2, LinesLog
      <4> QED BY <4>1 DEF LogsWell
    <3> QED BY <2>1, <3>1
  <2>4. TwoLists(entries, failedLogins', auditSeq + 1, FALSE)
    BY <2>3, LinesTurn
  <2>5. \A a, b : a \cup b = b \cup a
    OBVIOUS
  <2>6. AuditEntriesKept' = AuditHistory!Latest(Append(AuditEntriesKept, e))
    BY <2>1, <2>3, <2>5 DEF AuditEntriesKept
  <2> QED BY <1>1, <2>1, <2>4, <2>6 DEF AuditInv, AuditHistory!Record
<1>4. CASE ~e.failed
  <2>1. entries' = Logged(entries, auditSeq, e, FALSE) /\ failedLogins' = failedLogins
    BY <1>4 DEF AuditLog, Logged, KindCap
  <2>2. e.failed = FALSE
    BY <1>2, <1>4
  <2>3. /\ TwoLists(entries', failedLogins, auditSeq + 1, FALSE)
        /\ InOrder(Stored(entries') \cup Stored(failedLogins))
             = AuditHistory!Latest(Append(InOrder(Stored(entries) \cup Stored(failedLogins)), e))
    <3>1. /\ TwoLists(Logged(entries, auditSeq, e, FALSE), failedLogins, auditSeq + 1, FALSE)
          /\ InOrder(Stored(Logged(entries, auditSeq, e, FALSE)) \cup Stored(failedLogins))
               = AuditHistory!Latest(Append(InOrder(Stored(entries) \cup Stored(failedLogins)), e))
      <4>1. LogsWell(entries, failedLogins, auditSeq, FALSE, e)
        BY <1>1, <2>2, LinesLog
      <4> QED BY <4>1 DEF LogsWell
    <3> QED BY <2>1, <3>1
  <2>4. AuditEntriesKept' = AuditHistory!Latest(Append(AuditEntriesKept, e))
    BY <2>1, <2>3 DEF AuditEntriesKept
  <2> QED BY <1>1, <2>1, <2>3, <2>4 DEF AuditInv, AuditHistory!Record
<1> QED BY <1>3, <1>4

LEMMA AuditPrunes ==
  ASSUME HistoriesAssumption, AuditInv, NEW t, AuditPrune(t)
  PROVE  AuditInv' /\ AuditHistory!Forget(t)
<1> DEFINE L == AuditEntriesKept
           I == {i \in DOMAIN L : L[i].at >= t}
<1>1. /\ entries' = Since(entries, t) /\ failedLogins' = Since(failedLogins, t) /\ auditSeq' = auditSeq
      /\ TwoLists(entries, failedLogins, auditSeq, FALSE)
  BY DEF AuditPrune, AuditInv
<1>2. /\ TwoLists(Since(entries, t), Since(failedLogins, t), auditSeq, FALSE)
      /\ InOrder(Stored(Since(entries, t)) \cup Stored(Since(failedLogins, t))) = ReadSince(L, t)
  <2>1. PICK l, m, q, f : l = entries /\ m = failedLogins /\ q = auditSeq /\ f = FALSE
    OBVIOUS
  <2>2. TwoLists(l, m, q, f)
    BY <1>1, <2>1
  <2>3. /\ TwoLists(Since(l, t), Since(m, t), q, f)
        /\ InOrder(Stored(Since(l, t)) \cup Stored(Since(m, t))) = ReadSince(InOrder(Stored(l) \cup Stored(m)), t)
    BY <2>2, LinesPrune
  <2> QED BY <2>1, <2>3 DEF AuditEntriesKept
<1>3. AuditInv'
  BY <1>1, <1>2 DEF AuditInv
<1>4. AuditEntriesKept' = Picked(L, I)
  BY <1>1, <1>2 DEF AuditEntriesKept, ReadSince
<1> HIDE DEF L
<1>5. AuditHistory!Picked(L, I) = Picked(L, I)
  <2> HIDE DEF I
  <2> QED BY DEF AuditHistory!Picked, Picked, AuditHistory!Cardinality, Cardinality
<1>6. AuditHistory!Forget(t) <=> AuditEntriesKept' = AuditHistory!Picked(L, I)
  BY DEF AuditHistory!Forget, L
<1> QED BY <1>3, <1>4, <1>5, <1>6

LEMMA AuditClears ==
  ASSUME HistoriesAssumption, AuditInv, AuditClear
  PROVE  AuditInv' /\ AuditHistory!Clear
<1>1. entries' = << >> /\ failedLogins' = << >> /\ auditSeq' = auditSeq /\ auditSeq \in Nat
  BY DEF AuditClear, AuditInv, TwoLists
<1>3. TwoLists(<< >>, << >>, auditSeq, FALSE)
  BY <1>1, NoLines
<1>4. Stored(<< >>) \cup Stored(<< >>) = {}
  BY DEF Stored
<1>5. AuditEntriesKept' = << >>
  BY <1>1, <1>4, InOrderEmpty DEF AuditEntriesKept
<1> QED BY <1>1, <1>3, <1>5 DEF AuditInv, AuditHistory!Clear

LEMMA HistoriesStep ==
  ASSUME HistoriesAssumption, HistoriesInv, [HistoriesNext]_historyVars
  PROVE  /\ HistoriesInv'
         /\ [LogHistory!RecentNext]_(GetAll(logRing))
         /\ [SampleHistory!RecentNext]_(History(samples))
         /\ [AuditHistory!RecentNext]_AuditEntriesKept
<1>1. /\ RingsInv'
      /\ \/ logRing' = logRing \/ logRing' = Empty(LogCapacity)
         \/ \E x \in Lines : logRing' = Pushed(logRing, x)
      /\ \/ samples' = samples
         \/ \E x \in Lines : samples' = Pushed(samples, x) \/ samples' = Pushed(Empty(SampleCapacity), x)
  BY RingsStep DEF HistoriesInv
<1>2. LogHistory!RecentNext \/ GetAll(logRing)' = GetAll(logRing)
  <2>1. ASSUME NEW x \in Lines, logRing' = Pushed(logRing, x) PROVE LogHistory!RecentNext
    BY <2>1, LogRecords DEF HistoriesInv, RingsInv, LogHistory!RecentNext
  <2>2. logRing' = Empty(LogCapacity) => LogHistory!RecentNext
    BY LogClears DEF LogHistory!RecentNext
  <2> QED BY <1>1, <2>1, <2>2
<1>3. SampleHistory!RecentNext \/ History(samples)' = History(samples)
  <2>1. ASSUME NEW x \in Lines, samples' = Pushed(samples, x) PROVE SampleHistory!RecentNext
    BY <2>1, SampleRecords DEF HistoriesInv, RingsInv, SampleHistory!RecentNext
  <2>2. ASSUME NEW x \in Lines, samples' = Pushed(Empty(SampleCapacity), x) PROVE SampleHistory!RecentNext
    BY <2>2, SamplesAnew DEF SampleHistory!RecentNext
  <2> QED BY <1>1, <2>1, <2>2
<1>4. AuditInv' /\ (AuditHistory!RecentNext \/ AuditEntriesKept' = AuditEntriesKept)
  <2>1. AuditInv
    BY DEF HistoriesInv
  <2>2. ASSUME NEW e \in AuditEntries, AuditLog(e) PROVE AuditInv' /\ AuditHistory!RecentNext
    BY <2>1, <2>2, AuditLogs DEF AuditHistory!RecentNext
  <2>3. ASSUME NEW t \in AuditTimes, AuditPrune(t) PROVE AuditInv' /\ AuditHistory!RecentNext
    BY <2>1, <2>3, AuditPrunes DEF AuditHistory!RecentNext
  <2>4. ASSUME AuditClear PROVE AuditInv' /\ AuditHistory!RecentNext
    BY <2>1, <2>4, AuditClears DEF AuditHistory!RecentNext
  <2>5. ASSUME UNCHANGED auditStore PROVE AuditInv' /\ AuditEntriesKept' = AuditEntriesKept
    BY <2>1, <2>5 DEF auditStore, AuditInv, AuditEntriesKept
  <2>6. \/ UNCHANGED auditStore
        \/ \E e \in AuditEntries : AuditLog(e)
        \/ \E t \in AuditTimes : AuditPrune(t)
        \/ AuditClear
    BY DEF HistoriesNext, historyVars, Build, LogLine, SampleTick, Dispose
  <2> QED BY <2>2, <2>3, <2>4, <2>5, <2>6
<1> QED BY <1>1, <1>2, <1>3, <1>4 DEF HistoriesInv

LEMMA RecentStarts ==
  ASSUME HistoriesAssumption, HistoriesInit
  PROVE  GetAll(logRing) = << >> /\ History(samples) = << >> /\ AuditEntriesKept = << >>
<1>1. GetAll(logRing) = << >> /\ History(samples) = << >>
  BY EmptyFits, GetAllIsHistory, HistoriesAssumption DEF HistoriesInit
<1>2. Stored(<< >>) \cup Stored(<< >>) = {}
  BY DEF Stored
<1>3. AuditEntriesKept = << >>
  BY <1>2, InOrderEmpty DEF HistoriesInit, AuditEntriesKept
<1> QED BY <1>1, <1>3

\* Each history kept in memory implements Recent, for every capacity and every
\* number of entries, prunes and clearings.
THEOREM KeptInMemoryIsRecent == HistoriesSpec => HistoriesAreRecent
<1>1. HistoriesSpec => []HistoriesInv
  BY HistoriesStart, HistoriesStep, HistoriesAssumption, PTL DEF HistoriesSpec
<1>2. HistoriesSpec => LogHistory!RecentSpec /\ SampleHistory!RecentSpec
  BY <1>1, RecentStarts, HistoriesStep, HistoriesAssumption, PTL
     DEF HistoriesSpec, LogHistory!RecentSpec, SampleHistory!RecentSpec
<1>3. HistoriesSpec => AuditHistory!RecentSpec
  BY <1>1, RecentStarts, HistoriesStep, HistoriesAssumption, PTL DEF HistoriesSpec, AuditHistory!RecentSpec
<1> QED BY <1>2, <1>3 DEF HistoriesAreRecent, RingsAreRecent, AuditIsRecent
==============================================================================
