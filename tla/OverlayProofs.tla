---------------------------- MODULE OverlayProofs ----------------------------
(* Theorems about Overlay, for every set of paths, of rules, of links and of *)
(* mounts, and every number of releases, writes and faults.                  *)
EXTENDS Overlay, SequenceTheorems, TLAPS

Above(p) == Upto(p) \ {p}

\* The only old links on the way to an entry of the archive are those that a
\* link of the archive will replace.
LinksMet ==
  ~oldLink =>
    \A p \in Named : \A q \in Upto(p) :
      tree[q].kind = "link" => q = p /\ archive[p].kind = "link"

\* No directory that was there is missing where an entry is, or in it.
Whole(p) ==
  tree[p].kind \in {"absent", "dir"} =>
    \A n \in {p} \cup Below(p) : before[n].kind = "dir" => tree[n] # Absent

\* An entry that was laid, or that a container has changed: then what is not
\* there now was not there before either.
Installed(p) ==
  \/ archive[p].kind = "file" /\ tree[p] = File(releases, p)
  \/ archive[p].kind = "link" /\ tree[p] = archive[p]
  \/ archive[p].kind = "dir" /\ tree[p].kind = "dir"
  \/ p \in written /\ (archive[p].kind # "dir" => Whole(p))

Laid ==
  ~oldLink =>
    /\ pc = "overlay" => \A p \in Named \ todo : Installed(p)
    /\ pc \in {"mkdir", "chmod"} \/ result = "ok" => \A p \in Named : Installed(p)

\* What is below an entry that is still to be laid is still to be laid.
Work ==
  /\ pc = "overlay" =>
       todo \subseteq Named /\ \A p \in todo, q \in Named : p \in Upto(q) => q \in todo
  /\ pc \in {"mkdir", "chmod"} => todo \subseteq rules
  /\ result # "none" => pc = "idle"
  /\ rules \subseteq ruled

\* Without a container's change the rules stay as they were validated, and the
\* directories of those that were gone through are there.
RulesMade ==
  written = {} =>
    /\ pc \in {"mkdir", "chmod"} => Valid(tree, rules)
    /\ pc = "mkdir" => \A r \in rules \ todo : \A q \in Upto(r) : tree[q].kind = "dir"
    /\ pc = "chmod" => \A r \in rules : \A q \in Upto(r) : tree[q].kind = "dir"

\* What the second validation has found, as long as it lasts.
Checked ==
  pc = "chmod" => \A r \in todo :
    /\ \A q \in Upto(r) \ written : tree[q].kind # "link"
    /\ ~swapped => \A q \in Above(r) : tree[q].kind # "link"

\* The rules that were gone through have set their modes.
Applied ==
  pc = "chmod" =>
    \A r \in rules \ todo : Upto(r) \cap written = {} => tree[r] = Dir("rule")

\* What the deployment has left of the tree that was there.
Kept ==
  ~oldLink =>
    \A p \in Paths :
      /\ before[p].kind = "dir" /\ archive[p].kind = "dir" => tree[p].kind = "dir"
      /\ tree[p].kind \notin {"absent", "dir"} =>
           before[p].kind \notin {"absent", "dir"} \/ archive[p].kind \in {"file", "link"}

-----------------------------------------------------------------------------
(* Paths and their prefixes.                                               *)

LEMMA PathFacts ==
  ASSUME NEW p \in Paths
  PROVE  /\ p \in Seq(Nat \ {0}) /\ p # Root
         /\ Len(p) \in Nat /\ Len(p) >= 1
         /\ Nowhere \notin Paths /\ Root \notin Paths /\ Nowhere # Root
<1>1. p \in Seq(Nat \ {0}) /\ p # Root /\ Len(p) \in Nat
  BY PathAssumption, LenProperties
<1>2. Len(p) >= 1
  BY <1>1, EmptySeq DEF Root
<1>3. Nowhere \notin Seq(Nat \ {0})
  <2> SUFFICES ASSUME Nowhere \in Seq(Nat \ {0}) PROVE FALSE
    OBVIOUS
  <2>1. Len(Nowhere) = 1 /\ Nowhere[1] = 0
    BY DEF Nowhere
  <2> QED
    BY <2>1, ElementOfSeq
<1>4. Nowhere # Root
  BY DEF Nowhere, Root
<1> QED
  BY <1>1, <1>2, <1>3, <1>4, PathAssumption

LEMMA PrefixFacts ==
  ASSUME NEW p \in Paths, NEW n \in 1..Len(p)
  PROVE  /\ SubSeq(p, 1, n) \in Seq(Nat \ {0})
         /\ Len(SubSeq(p, 1, n)) = n
         /\ \A i \in 1..n : SubSeq(p, 1, n)[i] = p[i]
<1>1. p \in Seq(Nat \ {0}) /\ Len(p) \in Nat
  BY PathFacts
<1>2. \A i \in 1..n : p[i] \in Nat \ {0}
  BY <1>1, ElementOfSeq
<1>3. n - 1 + 1 = n /\ 1 <= n /\ \A i \in 1..n : 1 + i - 1 = i
  BY <1>1
<1> QED
  BY <1>1, <1>2, <1>3, SubSeqProperties

LEMMA UptoFacts ==
  ASSUME NEW p \in Paths
  PROVE  /\ p \in Upto(p) /\ Upto(p) \subseteq Paths
         /\ \A q \in Upto(p) :
              /\ Len(q) \in 1..Len(p) /\ q = SubSeq(p, 1, Len(q))
              /\ \A i \in 1..Len(q) : q[i] = p[i]
              /\ q # p => Len(q) < Len(p)
<1>1. p \in Seq(Nat \ {0}) /\ Len(p) \in Nat /\ Len(p) >= 1
  BY PathFacts
<1>2. SubSeq(p, 1, Len(p)) = p
  BY <1>1, SubSeqFull
<1>3. Upto(p) \subseteq Paths
  BY PathAssumption
<1>4. ASSUME NEW q \in Upto(p)
      PROVE  /\ Len(q) \in 1..Len(p) /\ q = SubSeq(p, 1, Len(q))
             /\ \A i \in 1..Len(q) : q[i] = p[i]
             /\ q # p => Len(q) < Len(p)
  <2>1. PICK n \in 1..Len(p) : q = SubSeq(p, 1, n)
    BY DEF Upto
  <2>2. Len(q) = n /\ \A i \in 1..n : q[i] = p[i]
    BY <2>1, PrefixFacts
  <2>3. n = Len(p) => q = p
    BY <1>2, <2>1
  <2>4. n <= Len(p)
    BY <1>1
  <2>5. q # p => Len(q) < Len(p)
    BY <1>1, <2>2, <2>3, <2>4
  <2>6. Len(q) \in 1..Len(p) /\ q = SubSeq(p, 1, Len(q)) /\ \A i \in 1..Len(q) : q[i] = p[i]
    BY <2>1, <2>2, Zenon
  <2> QED
    BY <2>5, <2>6
<1>5. Len(p) \in 1..Len(p)
  BY <1>1
<1>6. p \in Upto(p)
  BY <1>2, <1>5, Zenon DEF Upto
<1> QED
  BY <1>3, <1>4, <1>6

\* A path that agrees with another as far as it goes is a prefix of it.
LEMMA AgreeingIsPrefix ==
  ASSUME NEW p \in Paths, NEW q \in Paths, Len(q) <= Len(p),
         \A i \in 1..Len(q) : q[i] = p[i]
  PROVE  q \in Upto(p)
<1>1. Len(q) \in 1..Len(p) /\ q \in Seq(Nat \ {0})
  BY PathFacts
<1>2. /\ SubSeq(p, 1, Len(q)) \in Seq(Nat \ {0})
      /\ Len(SubSeq(p, 1, Len(q))) = Len(q)
      /\ \A i \in 1..Len(q) : SubSeq(p, 1, Len(q))[i] = q[i]
  BY <1>1, PrefixFacts
<1>3. q = SubSeq(p, 1, Len(q))
  BY <1>1, <1>2, SeqEqual
<1> QED
  BY <1>1, <1>3 DEF Upto

\* The prefixes of a path are in a row.
LEMMA PrefixesInARow ==
  ASSUME NEW p \in Paths, NEW q \in Upto(p), NEW r \in Upto(p), Len(q) <= Len(r)
  PROVE  q \in Upto(r)
<1>1. q \in Paths /\ r \in Paths /\ Len(q) \in Nat /\ Len(r) \in Nat
  BY UptoFacts, PathFacts
<1>2. \A i \in 1..Len(q) : q[i] = p[i] /\ r[i] = p[i]
  BY <1>1, UptoFacts
<1> QED
  BY <1>1, <1>2, AgreeingIsPrefix

LEMMA PrefixOfPrefix ==
  ASSUME NEW p \in Paths, NEW q \in Upto(p), NEW r \in Upto(q)
  PROVE  r \in Upto(p)
<1>1. /\ q \in Paths /\ r \in Paths
      /\ Len(p) \in Nat /\ Len(q) \in Nat /\ Len(r) \in Nat
  BY UptoFacts, PathFacts
<1>2. Len(r) <= Len(q) /\ Len(q) <= Len(p)
  BY <1>1, UptoFacts
<1>3. \A i \in 1..Len(r) : r[i] = q[i]
  BY <1>1, UptoFacts
<1>4. \A i \in 1..Len(r) : q[i] = p[i]
  BY <1>1, <1>2, UptoFacts
<1> QED
  BY <1>1, <1>2, <1>3, <1>4, AgreeingIsPrefix

LEMMA PrefixOnlyOneWay ==
  ASSUME NEW p \in Paths, NEW q \in Paths, p \in Upto(q), q \in Upto(p)
  PROVE  p = q
  BY UptoFacts, PathFacts

\* A path is never sorted before one of its prefixes.
LEMMA PrefixComesFirst ==
  ASSUME NEW p \in Paths, NEW q \in Above(p)
  PROVE  ~Before(p, q)
<1>1. q \in Paths /\ Len(q) \in Nat /\ Len(p) \in Nat
  BY UptoFacts, PathFacts DEF Above
<1>2. p \notin Upto(q)
  BY <1>1, PrefixOnlyOneWay DEF Above
<1>3. \A n \in 1..Len(q) : q[n] = p[n] /\ p[n] \in Nat
  BY <1>1, UptoFacts, PathFacts, ElementOfSeq DEF Above
<1> QED
  BY <1>1, <1>2, <1>3 DEF Before

LEMMA ParentFacts ==
  ASSUME NEW p \in Paths
  PROVE  /\ Parent(p) \in Paths \cup {Root}
         /\ Upto(Parent(p)) = Above(p)
         /\ Append(Parent(p), Name(p)) = p
<1>1. p \in Seq(Nat \ {0}) /\ Len(p) \in Nat /\ Len(p) >= 1
  BY PathFacts
<1>2. CASE Len(p) = 1
  <2>1. Parent(p) = <<>>
    BY <1>1, <1>2, SubSeqEmpty DEF Parent
  <2>2. Upto(Parent(p)) = {}
    BY <2>1, EmptySeq DEF Upto
  <2>3. Above(p) = {}
    BY <1>1, <1>2, UptoFacts DEF Above
  <2>4. SubSeq(p, 1, 1) = SubSeq(p, 1, 0) \o <<p[1]>> /\ SubSeq(p, 1, 1) = p
    BY <1>1, <1>2, SubSeqRecursiveSecond, SubSeqFull
  <2>5. p[1] \in Nat \ {0} /\ <<>> \in Seq(Nat \ {0})
    BY <1>1, ElementOfSeq, EmptySeq
  <2>6. Append(<<>>, p[1]) = <<>> \o <<p[1]>>
    BY <2>5, AppendIsConcat
  <2> QED
    BY <1>2, <2>1, <2>2, <2>3, <2>4, <2>6 DEF Root, Name, Parent
<1>3. CASE Len(p) > 1
  <2> DEFINE u == SubSeq(p, 1, Len(p) - 1)
  <2>1. /\ u \in Seq(Nat \ {0}) /\ Len(u) = Len(p) - 1
        /\ \A i \in 1..Len(u) : u[i] = p[i]
    BY <1>1, <1>3, PrefixFacts
  <2>a. Len(p) - 1 \in 1..Len(p)
    BY <1>1, <1>3
  <2>2. u \in Upto(p) /\ u \in Paths
    <3>1. u \in Upto(p)
      BY <2>a, Zenon DEF Upto
    <3> QED
      BY <3>1, UptoFacts
  <2>3. ASSUME NEW q \in Above(p) PROVE q \in Upto(u)
    <3>1. q \in Upto(p) /\ q # p
      BY <2>3 DEF Above
    <3>2. Len(q) \in 1..Len(p) /\ Len(q) < Len(p)
      BY <3>1, UptoFacts
    <3>3. Len(q) <= Len(u)
      BY <1>1, <2>1, <3>2
    <3> HIDE DEF u
    <3> QED
      BY <2>2, <3>1, <3>3, PrefixesInARow
  <2>4. ASSUME NEW q \in Upto(u) PROVE q \in Above(p)
    <3>1. q \in Upto(p)
      BY <2>2, <2>4, PrefixOfPrefix
    <3>2. Len(q) \in 1..Len(u)
      BY <2>2, <2>4, UptoFacts
    <3>3. q # p
      BY <1>1, <2>1, <3>2
    <3> QED
      BY <3>1, <3>3 DEF Above
  <2>5. SubSeq(p, 1, Len(p)) = u \o <<p[Len(p)]>> /\ SubSeq(p, 1, Len(p)) = p
    BY <1>1, SubSeqRecursiveSecond, SubSeqFull
  <2>6. p[Len(p)] \in Nat \ {0}
    BY <1>1, ElementOfSeq
  <2>7. Append(u, p[Len(p)]) = p
    BY <2>1, <2>5, <2>6, AppendIsConcat
  <2>8. Upto(u) = Above(p)
    BY <2>3, <2>4
  <2>9. Parent(p) = u /\ Name(p) = p[Len(p)]
    BY DEF Parent, Name
  <2> HIDE DEF u
  <2> QED
    BY <2>2, <2>7, <2>8, <2>9
<1>4. Len(p) = 1 \/ Len(p) > 1
  <2>1. \A n \in Nat : n >= 1 => n = 1 \/ n > 1
    OBVIOUS
  <2> QED
    BY <1>1, <2>1, Zenon
<1> QED
  BY <1>2, <1>3, <1>4, Zenon

\* The parent of what is in a directory is that directory.
LEMMA ChildFacts ==
  ASSUME NEW u \in Paths \cup {Root}, NEW n, Append(u, n) \in Paths
  PROVE  Upto(u) = Above(Append(u, n))
<1> DEFINE p == Append(u, n)
<1>1. u \in Seq(Nat \ {0})
  BY PathAssumption, EmptySeq DEF Root
<1>2. p \in Seq(Nat \ {0}) /\ Len(p) \in Nat /\ Len(p) >= 1
  BY PathFacts
<1>3. Parent(p) = u
  <2>1. Len(p) = Len(u) + 1 /\ Len(u) \in Nat
    BY <1>1, LenProperties
  <2>2. \A i \in 1..Len(u) : p[i] = u[i] /\ u[i] \in Nat \ {0}
    BY <1>1, <2>1, LenProperties, ElementOfSeq
  <2>3. Len(p) - 1 = Len(u) /\ \A i \in 1..Len(u) : 1 + i - 1 = i
    BY <2>1
  <2>4. /\ SubSeq(p, 1, Len(u)) \in Seq(Nat \ {0})
        /\ Len(SubSeq(p, 1, Len(u))) = Len(u)
        /\ \A i \in 1..Len(u) : SubSeq(p, 1, Len(u))[i] = u[i]
    BY <2>1, <2>2, <2>3, SubSeqProperties
  <2> QED
    BY <1>1, <2>3, <2>4, SeqEqual DEF Parent
<1> QED
  BY <1>3, ParentFacts

-----------------------------------------------------------------------------
(* Entries, and what a path leads to.                                      *)

LEMMA EntryFacts ==
  /\ Absent.kind = "absent" /\ Torn.kind = "torn"
  /\ \A m : Dir(m).kind = "dir"
  /\ \A r, p : File(r, p).kind = "file"
  /\ \A p : Link(p).kind = "link"
  BY DEF Absent, Torn, Dir, File, Link

LEMMA EntryKinds ==
  ASSUME NEW e \in Entries
  PROVE  /\ e.kind \in {"absent", "torn", "dir", "link", "file"}
         /\ e.kind = "absent" <=> e = Absent
  BY EntryFacts DEF Entries

LEMMA RootFacts == Upto(Root) = {}
  BY EmptySeq DEF Upto, Root

LEMMA RealFacts ==
  ASSUME NEW t, NEW p, Real(t, p) # Nowhere
  PROVE  /\ Real(t, p) \in Paths \cup {Root}
         /\ Links(t, Real(t, p)) = {}
         /\ \A q \in Above(Real(t, p)) : t[q].kind = "dir"
<1> DEFINE q == Resolve(t, p)
<1>1. Real(t, p) = IF /\ q \in Paths \cup {Root}
                      /\ Links(t, q) = {}
                      /\ \A r \in Upto(q) \ {q} : t[r].kind = "dir"
                     THEN q ELSE Nowhere
  BY Zenon DEF Real
<1> HIDE DEF q
<1>2. /\ Real(t, p) = q /\ q \in Paths \cup {Root} /\ Links(t, q) = {}
      /\ \A r \in Upto(q) \ {q} : t[r].kind = "dir"
  BY <1>1, Zenon
<1> QED
  BY <1>2, Zenon DEF Above

\* A path without links on it leads to itself.
LEMMA PlainResolve ==
  ASSUME NEW t, NEW p, Links(t, p) = {}
  PROVE  /\ Resolve(t, p) = p
         /\ Real(t, p) \in {p, Nowhere}
<1>1. Follow(t, p) = p
  BY Zenon DEF Follow
<1>2. Resolve(t, p) = p
  BY <1>1, Zenon DEF Resolve
<1>3. Real(t, p) = p \/ Real(t, p) = Nowhere
  BY <1>2, Zenon DEF Real
<1> QED
  BY <1>2, <1>3

LEMMA PlainReal ==
  ASSUME NEW t, NEW p \in Paths \cup {Root},
         \A q \in Upto(p) : t[q].kind # "link",
         \A q \in Above(p) : t[q].kind = "dir"
  PROVE  Real(t, p) = p
<1>1. Links(t, p) = {}
  BY DEF Links
<1>2. Resolve(t, p) = p
  BY <1>1, PlainResolve
<1> QED
  BY <1>1, <1>2, Zenon DEF Real, Above

\* An entry that is in directories, each in its place, is where its path says.
LEMMA PlainPlace ==
  ASSUME NEW t, NEW p \in Paths, \A q \in Above(p) : t[q].kind = "dir"
  PROVE  Place(t, p) = p
<1> DEFINE up == Parent(p)
<1>1. up \in Paths \cup {Root} /\ Upto(up) = Above(p) /\ Append(up, Name(p)) = p
  BY ParentFacts
<1>2. Above(up) \subseteq Above(p)
  BY <1>1, Zenon DEF Above
<1>3. /\ \A q \in Upto(up) : t[q].kind # "link"
      /\ \A q \in Above(up) : t[q].kind = "dir"
  <2>1. \A q \in Upto(up) : t[q].kind = "dir"
    BY <1>1, Zenon
  <2>2. "dir" # "link"
    OBVIOUS
  <2> QED
    BY <1>2, <2>1, <2>2, Zenon
<1>4. Real(t, up) = up
  BY <1>1, <1>3, PlainReal
<1>5. up # Nowhere
  BY <1>1, PathFacts
<1>6. At(t, up).kind = "dir"
  <2>1. CASE up = Root
    BY <2>1, EntryFacts DEF At
  <2>2. CASE up \in Paths
    <3>1. up \in Upto(up) /\ up # Root
      BY <2>2, UptoFacts, PathFacts
    <3> QED
      BY <1>1, <3>1, Zenon DEF At
  <2> QED
    BY <1>1, <2>1, <2>2
<1> QED
  BY <1>1, <1>4, <1>5, <1>6, Zenon DEF Place

\* When only links in its own place are met, it is there or nowhere.
LEMMA PlainOrNoPlace ==
  ASSUME NEW t, NEW p \in Paths, \A q \in Above(p) : t[q].kind # "link"
  PROVE  Place(t, p) \in {p, Nowhere}
<1> DEFINE up == Parent(p)
<1>1. up \in Paths \cup {Root} /\ Upto(up) = Above(p) /\ Append(up, Name(p)) = p
  BY ParentFacts
<1>2. Links(t, up) = {}
  BY <1>1 DEF Links
<1>3. Real(t, up) \in {up, Nowhere}
  BY <1>2, PlainResolve
<1>4. up # Nowhere
  BY <1>1, PathFacts
<1> QED
  BY <1>1, <1>3, <1>4, Zenon DEF Place

\* Whatever links lead there, the place of an entry is in directories.
LEMMA PlaceFacts ==
  ASSUME NEW t, NEW p, Place(t, p) # Nowhere
  PROVE  /\ Place(t, p) \in Paths
         /\ \A q \in Above(Place(t, p)) : t[q].kind = "dir"
<1> DEFINE up == Real(t, Parent(p))
           c  == Append(up, Name(p))
<1>1. Place(t, p) = IF up = Nowhere THEN Nowhere
                    ELSE IF At(t, up).kind = "dir" /\ c \in Paths THEN c ELSE Nowhere
  BY Zenon DEF Place
<1>2. up # Nowhere /\ At(t, up).kind = "dir" /\ c \in Paths /\ Place(t, p) = c
  BY <1>1, Zenon
<1>3. up \in Paths \cup {Root} /\ \A q \in Above(up) : t[q].kind = "dir"
  BY <1>2, RealFacts
<1>4. Above(c) = Upto(up)
  BY <1>2, <1>3, ChildFacts
<1>5. ASSUME NEW q \in Above(c) PROVE t[q].kind = "dir"
  <2>1. CASE q = up
    <3>1. up # Root
      BY <1>4, <1>5, <2>1, RootFacts, Zenon
    <3> QED
      BY <1>2, <2>1, <3>1, Zenon DEF At
  <2>2. CASE q # up
    BY <1>3, <1>4, <2>2, Zenon DEF Above
  <2> QED
    BY <2>1, <2>2
<1> QED
  BY <1>2, <1>5, Zenon

\* The entry a path leads to is in directories, and is no link.
LEMMA RealEntry ==
  ASSUME NEW t, NEW p, Real(t, p) \in Paths
  PROVE  /\ t[Real(t, p)].kind # "link"
         /\ \A q \in Above(Real(t, p)) : t[q].kind = "dir"
         /\ Kind(t, p) = t[Real(t, p)].kind
<1> DEFINE q == Real(t, p)
<1>1. q # Nowhere /\ q # Root /\ q \in Upto(q)
  BY PathFacts, UptoFacts
<1>2. Links(t, q) = {} /\ \A r \in Above(q) : t[r].kind = "dir"
  BY <1>1, RealFacts
<1>3. t[q].kind # "link"
  BY <1>1, <1>2, Zenon DEF Links
<1>4. Kind(t, p) = t[q].kind
  BY <1>1, Zenon DEF Kind, At
<1> QED
  BY <1>2, <1>3, <1>4, Zenon

LEMMA AboveFacts ==
  ASSUME NEW p \in Paths, NEW q \in Above(p)
  PROVE  /\ q \in Paths /\ q # p /\ p \notin Above(q)
         /\ Above(q) \subseteq Above(p)
         /\ p \in Below(q)
<1>1. q \in Upto(p) /\ q \in Paths /\ q # p
  BY UptoFacts DEF Above
<1>2. p \notin Upto(q)
  BY <1>1, PrefixOnlyOneWay
<1>3. ASSUME NEW r \in Upto(q) PROVE r \in Above(p)
  <2>1. r \in Upto(p)
    BY <1>1, <1>3, PrefixOfPrefix
  <2>2. CASE r = p
    BY <1>2, <1>3, <2>2
  <2> QED
    BY <2>1, <2>2 DEF Above
<1> QED
  BY <1>1, <1>2, <1>3, Zenon DEF Above, Below

LEMMA BelowFacts ==
  ASSUME NEW q, NEW p \in Below(q)
  PROVE  p \in Paths /\ q \in Above(p)
  BY Zenon DEF Below, Above

-----------------------------------------------------------------------------
(* What a step makes of a tree.                                            *)

Trees == {t \in [Paths -> Entries] : Rooted(t)}

LEMMA RootedFacts ==
  ASSUME NEW t, Rooted(t), NEW p \in Paths, t[p] # Absent, NEW q \in Above(p)
  PROVE  t[q].kind = "dir"
  BY Zenon DEF Rooted, Above

LEMMA ReplaceFacts ==
  ASSUME NEW t, NEW q, NEW e, NEW p \in Paths
  PROVE  /\ p = q => Replace(t, q, e)[p] = e
         /\ p \in Below(q) => Replace(t, q, e)[p] \in {e, Absent}
         /\ p \in Below(q) /\ p # q => Replace(t, q, e)[p] = Absent
         /\ p # q /\ p \notin Below(q) => Replace(t, q, e)[p] = t[p]
  BY DEF Replace

LEMMA ReplaceTree ==
  ASSUME NEW t \in Trees, NEW q \in Paths, NEW e \in Entries,
         \A r \in Above(q) : t[r].kind = "dir"
  PROVE  Replace(t, q, e) \in Trees
<1> DEFINE u == Replace(t, q, e)
<1>1. u \in [Paths -> Entries]
  BY DEF Replace, Trees, Entries
<1>2. ASSUME NEW p \in Paths, u[p] # Absent, NEW r \in Above(p)
      PROVE  u[r].kind = "dir"
  <2>1. r \in Paths
    BY AboveFacts
  <2>2. p = q \/ p \notin Below(q)
    BY <1>2, ReplaceFacts
  <2>3. t[r].kind = "dir"
    <3>1. CASE p = q
      BY <3>1
    <3>2. CASE p # q
      BY <1>2, <2>2, <3>2, ReplaceFacts, RootedFacts DEF Trees
    <3> QED
      BY <3>1, <3>2
  <2>4. r # q
    BY <2>2, AboveFacts
  <2>5. r \notin Below(q)
    <3> SUFFICES ASSUME r \in Below(q) PROVE FALSE
      OBVIOUS
    <3>1. q \in Above(r)
      BY BelowFacts
    <3>2. q \in Above(p)
      BY <2>1, <3>1, AboveFacts
    <3> QED
      BY <2>2, <3>2, AboveFacts
  <2>6. u[r] = t[r]
    BY <2>1, <2>4, <2>5, ReplaceFacts
  <2> QED
    BY <2>3, <2>6
<1>3. Rooted(u)
  BY <1>2, Zenon DEF Rooted, Above
<1> QED
  BY <1>1, <1>3, Zenon DEF Trees

LEMMA ExceptTree ==
  ASSUME NEW t \in Trees, NEW q, NEW e \in Entries,
         q \in Paths => /\ \A r \in Above(q) : t[r].kind = "dir"
                        /\ t[q].kind = "dir" => e.kind = "dir"
  PROVE  [t EXCEPT ![q] = e] \in Trees
<1> DEFINE u == [t EXCEPT ![q] = e]
<1>1. u \in [Paths -> Entries]
  BY DEF Trees
<1>2. ASSUME NEW p \in Paths PROVE u[p] = IF p = q THEN e ELSE t[p]
  BY DEF Trees
<1>3. ASSUME NEW p \in Paths, u[p] # Absent, NEW r \in Above(p)
      PROVE  u[r].kind = "dir"
  <2>1. r \in Paths
    BY AboveFacts
  <2>2. t[r].kind = "dir"
    <3>1. CASE p = q
      BY <3>1
    <3>2. CASE p # q
      BY <1>2, <1>3, <3>2, RootedFacts DEF Trees
    <3> QED
      BY <3>1, <3>2
  <2> QED
    BY <1>2, <2>1, <2>2
<1>4. Rooted(u)
  BY <1>3, Zenon DEF Rooted, Above
<1> QED
  BY <1>1, <1>4, Zenon DEF Trees

\* The missing directories that mkdir makes, and nothing else.
Grown(t, u) == \A n \in Paths : u[n] = t[n] \/ (t[n] = Absent /\ u[n] = Dir("default"))

LEMMA MadeTree ==
  ASSUME NEW t \in Trees, NEW r \in Paths \cup {Root}, Valid(t, {r})
  PROVE  /\ Made(t, r) \in Trees /\ Grown(t, Made(t, r))
         /\ \A p \in Upto(r) : Made(t, r)[p].kind = "dir"
         /\ \A p \in Paths \ Upto(r) : Made(t, r)[p] = t[p]
<1> DEFINE u == Made(t, r)
<1>0. ASSUME NEW p \in Paths
      PROVE  u[p] = IF p \in Upto(r) /\ t[p] = Absent THEN Dir("default") ELSE t[p]
  BY DEF Made
<1>1. u \in [Paths -> Entries]
  BY DEF Made, Trees, Entries, Modes
<1>r. ASSUME NEW p \in Upto(r) PROVE r \in Paths
  BY RootFacts
<1>2. ASSUME NEW p \in Upto(r) PROVE p \in Paths /\ u[p].kind = "dir"
  <2>1. p \in Paths /\ t[p] \in Entries
    BY <1>r, UptoFacts DEF Trees
  <2>2. t[p].kind \in {"absent", "dir"}
    BY DEF Valid
  <2>3. t[p].kind = "absent" => t[p] = Absent
    BY <2>1, EntryKinds
  <2> QED
    BY <1>0, <2>1, <2>2, <2>3, EntryFacts
<1>3. ASSUME NEW p \in Paths, u[p] # Absent, NEW q \in Above(p)
      PROVE  u[q].kind = "dir"
  <2>1. q \in Paths
    BY AboveFacts
  <2>2. CASE p \in Upto(r)
    <3>1. q \in Upto(r)
      BY <1>r, <2>2, PrefixOfPrefix DEF Above
    <3> QED
      BY <1>2, <3>1
  <2>3. CASE p \notin Upto(r)
    <3>1. t[q].kind = "dir"
      BY <1>0, <1>3, <2>3, RootedFacts DEF Trees
    <3>2. t[q] # Absent
      BY <3>1, EntryFacts
    <3> QED
      BY <1>0, <2>1, <3>1, <3>2
  <2> QED
    BY <2>2, <2>3
<1>4. Rooted(u)
  BY <1>3, Zenon DEF Rooted, Above
<1>5. u \in Trees
  BY <1>1, <1>4, Zenon DEF Trees
<1>6. Grown(t, u)
  BY <1>0 DEF Grown
<1>7. \A p \in Paths \ Upto(r) : u[p] = t[p]
  BY <1>0
<1> QED
  BY <1>2, <1>5, <1>6, <1>7, Zenon

LEMMA MkdirFacts ==
  ASSUME NEW t \in Trees, NEW p \in Paths \cup {Root}, NEW u \in mkdir(t, p)
  PROVE  /\ u \in Trees /\ Grown(t, u)
         /\ Links(t, p) = {} => /\ \A n \in Upto(p) : u[n].kind = "dir"
                                /\ \A n \in Paths \ Upto(p) : u[n] = t[n]
<1> DEFINE q == Resolve(t, p)
<1>1. q \in Paths \cup {Root} /\ Valid(t, {q}) /\ u = Made(t, q)
  BY DEF mkdir
<1>2. Links(t, p) = {} => q = p
  BY PlainResolve
<1> HIDE DEF q
<1>3. /\ u \in Trees /\ Grown(t, u)
      /\ \A n \in Upto(q) : u[n].kind = "dir"
      /\ \A n \in Paths \ Upto(q) : u[n] = t[n]
  BY <1>1, MadeTree
<1> QED
  BY <1>2, <1>3

\* Broken off, it has made fewer.
LEMMA MakingFacts ==
  ASSUME NEW t \in Trees, NEW p \in Paths \cup {Root}, NEW u \in Making(t, p)
  PROVE  /\ u \in Trees /\ Grown(t, u)
         /\ Links(t, p) = {} => \A n \in Paths \ Upto(p) : u[n] = t[n]
<1>1. PICK r \in Upto(p) \cup {Root} : u \in mkdir(t, r)
  BY DEF Making
<1>2. r \in Paths \cup {Root} /\ Upto(r) \subseteq Upto(p)
  <2>1. CASE r = Root
    BY <2>1, RootFacts
  <2>2. CASE r # Root
    <3>1. r \in Upto(p) /\ p \in Paths
      BY <1>1, <2>2, RootFacts
    <3> QED
      BY <3>1, UptoFacts, PrefixOfPrefix
  <2> QED
    BY <2>1, <2>2
<1>3. /\ u \in Trees /\ Grown(t, u)
      /\ Links(t, r) = {} => \A n \in Paths \ Upto(r) : u[n] = t[n]
  BY <1>1, <1>2, MkdirFacts
<1>4. Links(t, p) = {} => Links(t, r) = {}
  BY <1>2 DEF Links
<1> QED
  BY <1>2, <1>3, <1>4

\* Where a rule is valid, its directory can be made.
LEMMA MkdirPossible ==
  ASSUME NEW t \in Trees, NEW p \in Paths \cup {Root}, Valid(t, {p})
  PROVE  mkdir(t, p) = {Made(t, p)}
<1>0. "absent" # "link" /\ "dir" # "link"
  OBVIOUS
<1>1. \A q \in Upto(p) : t[q].kind # "link"
  BY <1>0 DEF Valid
<1>2. Resolve(t, p) = p
  BY <1>1, PlainResolve DEF Links
<1>3. ASSUME NEW r \in Upto(p) PROVE ~is_symlink(t, r)
  <2>1. p \in Paths
    BY RootFacts
  <2>2. r \in Paths /\ Upto(r) \subseteq Upto(p)
    BY <2>1, UptoFacts, PrefixOfPrefix
  <2>3. Place(t, r) \in {r, Nowhere}
    BY <1>1, <2>2, PlainOrNoPlace DEF Above
  <2> QED
    BY <1>1, <2>3 DEF is_symlink
<1> QED
  BY <1>2, <1>3, Zenon DEF mkdir

LEMMA WithoutTree ==
  ASSUME NEW t \in Trees, NEW S
  PROVE  Without(t, S) \in Trees
<1> DEFINE u == Without(t, S)
           Gone(r) == \E s \in S : r \in {s} \cup Below(s)
<1>0. ASSUME NEW p \in Paths PROVE u[p] = IF Gone(p) THEN Absent ELSE t[p]
  BY DEF Without
<1>1. u \in [Paths -> Entries]
  BY DEF Without, Trees, Entries
<1>2. ASSUME NEW p \in Paths, u[p] # Absent, NEW q \in Above(p)
      PROVE  u[q].kind = "dir"
  <2>1. q \in Paths /\ p \in Below(q)
    BY AboveFacts
  <2>2. ~Gone(p) /\ t[p] # Absent
    BY <1>0, <1>2, Zenon
  <2>3. ~Gone(q)
    <3>1. ASSUME NEW s \in S, q \in Below(s) PROVE p \in Below(s)
      <4>1. s \in Above(q)
        BY <3>1, BelowFacts
      <4>2. s \in Above(p)
        BY <4>1, AboveFacts
      <4> QED
        BY <4>2, AboveFacts
    <3>2. ASSUME NEW s \in S, q \in {s} \cup Below(s) PROVE p \in {s} \cup Below(s)
      BY <2>1, <3>1, <3>2
    <3> QED
      BY <2>2, <3>2, Zenon
  <2>4. t[q].kind = "dir"
    BY <2>2, RootedFacts DEF Trees
  <2> QED
    BY <1>0, <2>1, <2>3, <2>4, Zenon
<1>3. Rooted(u)
  BY <1>2, Zenon DEF Rooted, Above
<1> QED
  BY <1>1, <1>3, Zenon DEF Trees

\* Nothing is put where there is no path.
LEMMA ReplaceNoPath ==
  ASSUME NEW t \in Trees, NEW q \in {Root, Nowhere}, NEW e
  PROVE  Replace(t, q, e) = t
<1>1. ASSUME NEW p \in Paths PROVE p # q /\ p \notin Below(q)
  <2>1. q \notin Upto(p)
    BY UptoFacts, PathFacts
  <2> QED
    BY <2>1, PathFacts, Zenon DEF Below
<1>2. ASSUME NEW p \in Paths PROVE Replace(t, q, e)[p] = t[p]
  BY <1>1, ReplaceFacts
<1>3. Replace(t, q, e) = [p \in Paths |-> Replace(t, q, e)[p]]
  BY DEF Replace
<1> QED
  BY <1>2, <1>3 DEF Trees

\* Wherever links lead, something put in its place leaves a tree.
LEMMA PutTree ==
  ASSUME NEW t \in Trees, NEW p, NEW e \in Entries,
         NEW q \in {Place(t, p), Real(t, p)}
  PROVE  /\ Replace(t, q, e) \in Trees
         /\ \A n \in Paths : Replace(t, q, e)[n] \in {t[n], e, Absent}
<1>1. CASE q = Nowhere \/ q = Root
  BY <1>1, ReplaceNoPath
<1>2. CASE q # Nowhere /\ q # Root
  <2>1. q \in Paths /\ \A r \in Above(q) : t[r].kind = "dir"
    <3>1. CASE q = Place(t, p)
      BY <1>2, <3>1, PlaceFacts
    <3>2. CASE q = Real(t, p)
      <4>1. Real(t, p) # Nowhere
        BY <1>2, <3>2
      <4>2. Real(t, p) \in Paths \cup {Root} /\ \A r \in Above(Real(t, p)) : t[r].kind = "dir"
        BY <4>1, RealFacts
      <4> QED
        BY <1>2, <3>2, <4>2
    <3> QED
      BY <3>1, <3>2
  <2>2. Replace(t, q, e) \in Trees
    BY <2>1, ReplaceTree
  <2>3. ASSUME NEW n \in Paths PROVE Replace(t, q, e)[n] \in {t[n], e, Absent}
    BY ReplaceFacts
  <2> QED
    BY <2>2, <2>3
<1> QED
  BY <1>1, <1>2

LEMMA ModeFacts == \A m, n : Dir(m) = Dir(n) => m = n
<1>1. \A m : Dir(m).mode = m
  BY DEF Dir
<1> QED
  BY <1>1

LEMMA ArchiveFacts ==
  ASSUME NEW a \in Archives, NEW p \in Paths
  PROVE  /\ a[p].kind \in {"absent", "dir", "link", "file"}
         /\ a[p].kind = "absent" <=> a[p] = Absent
         /\ a[p].kind = "link" => a[p] \in Entries
         /\ a[p] # Absent => \A q \in Above(p) : a[q].kind = "dir"
<1>1. a \in [Paths -> {Absent, Dir("archive")} \cup {Link(q) : q \in LinkTargets}
                       \cup {[kind |-> "file"]}] /\ Rooted(a)
  BY DEF Archives
<1>2. a[p] \in {Absent, Dir("archive")} \cup {Link(q) : q \in LinkTargets} \cup {[kind |-> "file"]}
  BY <1>1
<1>3. /\ a[p].kind \in {"absent", "dir", "link", "file"}
      /\ a[p].kind = "absent" <=> a[p] = Absent
  BY <1>2, EntryFacts
<1>4. ASSUME a[p].kind = "link" PROVE a[p] \in Entries
  <2>1. PICK q \in LinkTargets : a[p] = Link(q)
    BY <1>2, <1>4, EntryFacts
  <2> QED
    BY <2>1, PathAssumption DEF Entries
<1> QED
  BY <1>1, <1>3, <1>4, RootedFacts

-----------------------------------------------------------------------------
(* Laying one entry.                                                       *)

\* What laying the entry p puts there.
Laying(p) ==
  IF archive[p].kind = "dir" THEN Dir("archive")
  ELSE IF archive[p].kind = "link" THEN archive[p] ELSE File(releases, p)

LEMMA LayingFacts ==
  ASSUME TypeOK, NEW p \in Named
  PROVE  /\ p \in Paths /\ archive[p].kind \in {"dir", "link", "file"}
         /\ Laying(p) \in Entries
         /\ Laying(p).kind = archive[p].kind
         /\ Laying(p) # Dir("rule")
<1>1. p \in Paths /\ archive \in Archives /\ archive[p] # Absent
  BY DEF Named, TypeOK
<1>2. archive[p].kind \in {"dir", "link", "file"}
  BY <1>1, ArchiveFacts
<1>3. Dir("archive") \in Entries
  BY DEF Entries, Modes
<1>4. File(releases, p) \in Entries
  BY <1>1 DEF Entries, TypeOK
<1>5. Laying(p) \in Entries
  BY <1>1, <1>3, <1>4, ArchiveFacts DEF Laying
<1>6. Laying(p).kind = archive[p].kind
  BY <1>2, EntryFacts DEF Laying
<1>7. Laying(p) # Dir("rule")
  BY <1>2, EntryFacts, ModeFacts DEF Laying
<1> QED
  BY <1>1, <1>2, <1>5, <1>6, <1>7

\* What is done before an entry is put in its place: clear it, make directories.
LEMMA ClearFacts ==
  ASSUME NEW t \in Trees, NEW p, NEW c \in Clear(t, p)
  PROVE  /\ c \in Trees
         /\ \A n \in Paths : c[n] \in {t[n], Absent}
         /\ c = t \/ c = Remove(t, p)
<1>1. c = t \/ c = Remove(t, p)
  BY DEF Clear
<1>2. /\ Remove(t, p) \in Trees
      /\ \A n \in Paths : Remove(t, p)[n] \in {t[n], Absent}
  <2>1. Absent \in Entries
    BY DEF Entries
  <2>2. /\ Replace(t, Place(t, p), Absent) \in Trees
        /\ \A n \in Paths : Replace(t, Place(t, p), Absent)[n] \in {t[n], Absent, Absent}
    BY <2>1, PutTree
  <2> QED
    BY <2>2 DEF Remove
<1> QED
  BY <1>1, <1>2

LEMMA MadeForFacts ==
  ASSUME NEW p \in Paths
  PROVE  MadeFor(p) \in Paths \cup {Root} /\ Upto(MadeFor(p)) \subseteq Upto(p)
  BY ParentFacts DEF MadeFor, Above

\* Where every entry comes from that such a step may leave.
NoRuleSet(t, u) == \A n \in Paths : u[n] = Dir("rule") => t[n] = Dir("rule")

LEMMA GrownRules ==
  ASSUME NEW t, NEW u, Grown(t, u)
  PROVE  NoRuleSet(t, u)
<1>1. Dir("default") # Dir("rule")
  BY ModeFacts
<1> QED
  BY <1>1 DEF Grown, NoRuleSet

LEMMA ClearRules ==
  ASSUME NEW t \in Trees, NEW p, NEW c \in Clear(t, p), NEW u, NoRuleSet(c, u)
  PROVE  NoRuleSet(t, u)
<1>1. Absent # Dir("rule")
  BY EntryFacts
<1> QED
  BY <1>1, ClearFacts DEF NoRuleSet

LEMMA PreparedFacts ==
  ASSUME NEW t \in Trees, NEW p \in Paths, NEW v \in Prepared(t, p)
  PROVE  /\ v \in Trees /\ NoRuleSet(t, v)
         /\ \E c \in Clear(t, p) : v \in mkdir(c, MadeFor(p))
<1>1. PICK c \in Clear(t, p) : v \in mkdir(c, MadeFor(p))
  BY DEF Prepared
<1>2. c \in Trees
  BY ClearFacts
<1>3. v \in Trees /\ Grown(c, v)
  BY <1>1, <1>2, MadeForFacts, MkdirFacts
<1> QED
  BY <1>1, <1>3, GrownRules, ClearRules

\* Whatever links are met, laying an entry changes nothing or puts one thing
\* somewhere in the tree that was prepared for it.
LEMMA LayShape ==
  ASSUME TypeOK, NEW p \in Named, NEW u \in Lay(tree, p)
  PROVE  \/ u = tree /\ archive[p].kind = "dir" /\ is_dir(tree, p)
         \/ \E v \in Prepared(tree, p) :
              \E q \in (IF archive[p].kind = "link" THEN {Place(v, p)} ELSE {Real(v, p)}) \ {Nowhere} :
                /\ u = Replace(v, q, Laying(p))
                /\ archive[p].kind = "dir" => ~is_dir(tree, p)
<1>1. p \in Paths /\ archive[p].kind \in {"dir", "link", "file"}
  BY LayingFacts
<1>2. CASE archive[p].kind = "dir"
  <2>1. CASE is_dir(tree, p)
    BY <1>2, <2>1 DEF Lay, LayDirectory
  <2>2. CASE ~is_dir(tree, p)
    <3>1. PICK v \in Prepared(tree, p) : u \in Put(v, Real(v, p), Dir("archive"))
      BY <1>2, <2>2 DEF Lay, LayDirectory
    <3> QED
      BY <1>2, <2>2, <3>1 DEF Put, Laying
  <2> QED
    BY <2>1, <2>2
<1>3. CASE archive[p].kind = "link"
  <2>1. PICK v \in Prepared(tree, p) : u \in Put(v, Place(v, p), archive[p])
    BY <1>3 DEF Lay, LayLink
  <2> QED
    BY <1>3, <2>1 DEF Put, Laying
<1>4. CASE archive[p].kind = "file"
  <2>1. PICK v \in Prepared(tree, p) : u \in Put(v, Real(v, p), File(releases, p))
    BY <1>4 DEF Lay, LayFile
  <2> QED
    BY <1>4, <2>1 DEF Put, Laying
<1> QED
  BY <1>1, <1>2, <1>3, <1>4

LEMMA LayTree ==
  ASSUME TypeOK, NEW p \in Named, NEW u \in Lay(tree, p)
  PROVE  u \in Trees /\ NoRuleSet(tree, u)
<1>1. tree \in Trees /\ p \in Paths /\ Laying(p) \in Entries /\ Laying(p) # Dir("rule")
  BY LayingFacts DEF TypeOK, Trees
<1>2. CASE u = tree
  BY <1>1, <1>2 DEF NoRuleSet
<1>3. CASE u # tree
  <2>1. PICK v \in Prepared(tree, p) :
          \E q \in {Place(v, p), Real(v, p)} : u = Replace(v, q, Laying(p))
    BY <1>3, LayShape
  <2>2. v \in Trees /\ NoRuleSet(tree, v)
    BY <1>1, PreparedFacts
  <2>3. u \in Trees /\ \A n \in Paths : u[n] \in {v[n], Laying(p), Absent}
    BY <1>1, <2>1, <2>2, PutTree
  <2>4. Absent # Dir("rule")
    BY EntryFacts
  <2> QED
    BY <1>1, <2>2, <2>3, <2>4 DEF NoRuleSet
<1> QED
  BY <1>2, <1>3

\* So does a step that breaks off.
LEMMA HalfLaidCases ==
  ASSUME NEW t, NEW p, NEW u \in HalfLaid(t, p)
  PROVE  \/ u = t
         \/ /\ archive[p].kind # "dir" /\ is_dir(t, p) /\ ~is_symlink(t, p)
            /\ \E S \in SUBSET Below(Real(t, p)) : u = Without(t, S)
         \/ \E c \in Clear(t, p) : u \in Making(c, MadeFor(p))
         \/ /\ archive[p].kind = "file"
            /\ \E v \in Prepared(t, p), e \in {Torn, File(releases, p)} :
                 u = Replace(v, Real(v, p), e)
<1>1. u = t \/ u \in PartRemoved(t, p) \/ u \in PartMade(t, p) \/ u \in PartCopied(t, p)
  BY DEF HalfLaid
<1>2. CASE u \in PartRemoved(t, p)
  BY <1>2 DEF PartRemoved
<1>3. CASE u \in PartMade(t, p)
  BY <1>3 DEF PartMade
<1>4. CASE u \in PartCopied(t, p)
  BY <1>4 DEF PartCopied
<1> QED
  BY <1>1, <1>2, <1>3, <1>4

LEMMA HalfLaidTree ==
  ASSUME TypeOK, NEW p \in Paths, NEW u \in HalfLaid(tree, p)
  PROVE  u \in Trees /\ NoRuleSet(tree, u)
<1>0. tree \in Trees
  BY DEF TypeOK, Trees
<1>a. Absent # Dir("rule") /\ Torn # Dir("rule") /\ File(releases, p) # Dir("rule")
  BY EntryFacts
<1>1. CASE u = tree
  BY <1>0, <1>1 DEF NoRuleSet
<1>2. ASSUME NEW S, u = Without(tree, S) PROVE u \in Trees /\ NoRuleSet(tree, u)
  <2>1. u \in Trees
    BY <1>0, <1>2, WithoutTree
  <2>2. \A n \in Paths : u[n] \in {tree[n], Absent}
    BY <1>2 DEF Without
  <2> QED
    BY <1>a, <2>1, <2>2 DEF NoRuleSet
<1>3. ASSUME NEW c \in Clear(tree, p), u \in Making(c, MadeFor(p))
      PROVE  u \in Trees /\ NoRuleSet(tree, u)
  <2>1. c \in Trees
    BY <1>0, ClearFacts
  <2>2. u \in Trees /\ Grown(c, u)
    BY <1>3, <2>1, MadeForFacts, MakingFacts
  <2> QED
    BY <1>0, <2>2, GrownRules, ClearRules
<1>4. ASSUME NEW v \in Prepared(tree, p), NEW e \in {Torn, File(releases, p)},
             u = Replace(v, Real(v, p), e)
      PROVE  u \in Trees /\ NoRuleSet(tree, u)
  <2>1. v \in Trees /\ NoRuleSet(tree, v)
    BY <1>0, PreparedFacts
  <2>2. e \in Entries
    BY DEF Entries, TypeOK
  <2>3. u \in Trees /\ \A n \in Paths : u[n] \in {v[n], e, Absent}
    BY <1>4, <2>1, <2>2, PutTree
  <2> QED
    BY <1>a, <2>1, <2>3 DEF NoRuleSet
<1> QED
  BY <1>1, <1>2, <1>3, <1>4, HalfLaidCases

-----------------------------------------------------------------------------
(* What holds whatever old links are in the way.                           *)

\* The modes that rules set are on directories that rules named.
RuleModes == ~swapped => \A p \in Paths : tree[p] = Dir("rule") => p \in ruled

Base == TypeOK /\ Work /\ RuleModes /\ RulesMade /\ Checked /\ Applied /\ RulesApplied

LEMMA NewTypes ==
  /\ Absent \in Entries /\ Dir("rule") \in Entries /\ Dir("container") \in Entries
  /\ \A p \in Paths : File(0, p) \in Entries /\ Link(p) \in Entries
  BY PathAssumption DEF Entries, Modes

LEMMA InitBase == Init => Base
<1> SUFFICES ASSUME Init PROVE Base
  OBVIOUS
<1>1. tree \in [Paths -> Entries] /\ before \in [Paths -> Entries]
  BY NewTypes DEF Init
<1>2. Rooted(tree) /\ RuleModes
  BY EntryFacts DEF Init, Rooted, RuleModes
<1>3. archive \in Archives
  <2>1. archive \in [Paths -> {Absent, Dir("archive")} \cup {Link(p) : p \in LinkTargets}
                              \cup {[kind |-> "file"]}]
    BY DEF Init
  <2>2. Rooted(archive) /\ \A p \in Paths : archive[p].kind # "link"
    BY EntryFacts DEF Init, Rooted
  <2> QED
    BY <2>1, <2>2, Zenon DEF Archives
<1>4. TypeOK
  <2>1. releases \in 0..MaxReleases /\ writes \in 0..MaxWrites /\ faults \in 0..MaxFaults
    BY PathAssumption DEF Init
  <2>2. /\ rules \subseteq RulePaths /\ ruled \subseteq RulePaths
        /\ todo \subseteq Paths /\ written \subseteq Paths
        /\ pc \in PC /\ result \in {"none", "ok", "failed"}
    BY DEF Init, PC
  <2>3. oldLink \in BOOLEAN /\ swapped \in BOOLEAN /\ faulty \in BOOLEAN
    BY DEF Init
  <2> QED
    BY <1>1, <1>2, <1>3, <2>1, <2>2, <2>3, Zenon DEF TypeOK
<1>5. Work /\ RulesMade /\ Checked /\ Applied /\ RulesApplied
  BY DEF Init, Work, RulesMade, Checked, Applied, RulesApplied
<1> QED
  BY <1>2, <1>4, <1>5 DEF Base

Chmodded(t, q) == [t EXCEPT ![q] = Dir("rule")]

LEMMA ModeTree ==
  ASSUME NEW t \in Trees, NEW q,
         q \in Paths => t[q].kind = "dir" /\ \A n \in Above(q) : t[n].kind = "dir"
  PROVE  /\ Chmodded(t, q) \in Trees
         /\ \A n \in Paths : Chmodded(t, q)[n] = IF n = q THEN Dir("rule") ELSE t[n]
<1> DEFINE u == [t EXCEPT ![q] = Dir("rule")]
<1>1. Dir("rule") \in Entries /\ Dir("rule").kind = "dir"
  BY NewTypes, EntryFacts
<1>2. u \in Trees
  BY <1>1, ExceptTree
<1>3. \A n \in Paths : u[n] = IF n = q THEN Dir("rule") ELSE t[n]
  BY DEF Trees
<1> QED
  BY <1>2, <1>3, Zenon DEF Chmodded

\* What a chmod that is not refused changes: one directory that is there.
LEMMA ChmodFacts ==
  ASSUME Base, NEW r \in Paths, is_dir(tree, r), ~is_symlink(tree, r),
         NEW u, u = [tree EXCEPT ![Real(tree, r)] = Dir("rule")]
  PROVE  /\ u \in Trees
         /\ \A n \in Paths : u[n] = tree[n] \/ (tree[n].kind = "dir" /\ u[n] = Dir("rule"))
         /\ (\A q \in Above(r) : tree[q].kind # "link") =>
              /\ u[r] = Dir("rule")
              /\ \A n \in Paths : n # r => u[n] = tree[n]
<1>0. tree \in Trees /\ tree \in [Paths -> Entries]
  BY DEF Base, TypeOK, Trees
<1> DEFINE q == Real(tree, r)
<1>1. q # Nowhere /\ q \in Paths \cup {Root}
  BY RealFacts, EntryFacts DEF is_dir, Kind
<1>2. q \in Paths => tree[q].kind = "dir" /\ \A n \in Above(q) : tree[n].kind = "dir"
  BY RealEntry DEF is_dir
<1>3. ASSUME \A n \in Above(r) : tree[n].kind # "link" PROVE q = r
  <2>1. tree[r].kind # "link"
    <3> SUFFICES ASSUME tree[r].kind = "link" PROVE FALSE
      OBVIOUS
    <3>1. tree[r] # Absent
      BY EntryFacts
    <3>2. \A n \in Above(r) : tree[n].kind = "dir"
      BY <1>0, <3>1, RootedFacts DEF Trees
    <3>3. Place(tree, r) = r /\ r # Nowhere
      BY <3>2, PlainPlace, PathFacts
    <3> QED
      BY <3>3 DEF is_symlink
  <2>2. Links(tree, r) = {}
    BY <1>3, <2>1 DEF Links, Above
  <2> QED
    BY <1>1, <2>2, PlainResolve
<1>5. u \in Trees /\ \A n \in Paths : u[n] = IF n = q THEN Dir("rule") ELSE tree[n]
  <2>1. u = Chmodded(tree, q)
    BY Zenon DEF Chmodded
  <2> HIDE DEF q
  <2>2. q \in Paths => tree[q].kind = "dir" /\ \A n \in Above(q) : tree[n].kind = "dir"
    BY <1>2
  <2>3. /\ Chmodded(tree, q) \in Trees
        /\ \A n \in Paths : Chmodded(tree, q)[n] = IF n = q THEN Dir("rule") ELSE tree[n]
    BY <1>0, <2>2, ModeTree
  <2> QED
    BY <2>1, <2>3, Zenon
<1>7. \A n \in Paths : u[n] = tree[n] \/ (tree[n].kind = "dir" /\ u[n] = Dir("rule"))
  BY <1>2, <1>5
<1> QED
  BY <1>3, <1>5, <1>7

\* What a container changes, in the tree and in the record of what was there.
LEMMA ContainerFacts ==
  ASSUME Base, NEW p \in Mounted, ContainerWrites(p)
  PROVE  /\ p \in Paths /\ tree' \in Trees /\ before' \in [Paths -> Entries]
         /\ \A n \in {p} \cup Below(p) : /\ n \in Paths /\ n \in written'
                                         /\ tree'[n] = before'[n]
         /\ \A n \in Paths \ ({p} \cup Below(p)) : tree'[n] = tree[n] /\ before'[n] = before[n]
         /\ NoRuleSet(tree, tree')
<1>1. p \in Paths /\ tree \in Trees /\ before \in [Paths -> Entries]
  BY PathAssumption DEF Base, TypeOK, Trees
<1>2. PICK e \in {Absent, File(0, p), Dir("container")} \cup {Link(q) : q \in LinkTargets} :
        tree' = Replace(tree, p, e) /\ before' = Replace(before, p, e)
  BY Zenon DEF ContainerWrites
<1>3. e \in Entries /\ e # Dir("rule")
  <2>1. \A q \in LinkTargets : Link(q) \in Entries /\ Link(q) # Dir("rule")
    BY PathAssumption, NewTypes, EntryFacts
  <2>2. Absent # Dir("rule") /\ File(0, p) # Dir("rule") /\ Dir("container") # Dir("rule")
    BY EntryFacts, ModeFacts
  <2> QED
    BY <1>1, <2>1, <2>2, NewTypes
<1>4. \A r \in Above(p) : tree[r].kind = "dir"
  BY DEF ContainerWrites, Above
<1>5. tree' \in Trees
  BY <1>1, <1>2, <1>3, <1>4, ReplaceTree
<1>6. before' \in [Paths -> Entries]
  BY <1>1, <1>2, <1>3, NewTypes DEF Replace
<1>7. \A n \in {p} \cup Below(p) : n \in Paths /\ n \in written'
  BY <1>1, BelowFacts DEF ContainerWrites
<1>8. \A n \in {p} \cup Below(p) : tree'[n] = before'[n]
  BY <1>2, <1>7 DEF Replace
<1>9. \A n \in Paths \ ({p} \cup Below(p)) : tree'[n] = tree[n] /\ before'[n] = before[n]
  BY <1>2, ReplaceFacts
<1>10. NoRuleSet(tree, tree')
  <2>1. Absent # Dir("rule")
    BY EntryFacts
  <2>2. \A n \in Paths : tree'[n] \in {tree[n], e, Absent}
    BY <1>2, ReplaceFacts
  <2> QED
    BY <1>3, <2>1, <2>2 DEF NoRuleSet
<1> QED
  BY <1>1, <1>5, <1>6, <1>7, <1>8, <1>9, <1>10

\* What a fault in a pass over the rules leaves.
LEMMA RuleFaultFacts ==
  ASSUME Base, RuleFault
  PROVE  tree' \in Trees /\ Grown(tree, tree')
<1>0. tree \in Trees /\ todo \subseteq Paths
  BY DEF Base, TypeOK, Trees
<1>1. CASE tree' = tree
  BY <1>0, <1>1 DEF Grown
<1>2. CASE tree' # tree
  <2>1. PICK r \in todo : tree' \in Making(tree, r)
    BY <1>2 DEF RuleFault, Break
  <2> QED
    BY <1>0, <2>1, MakingFacts
<1> QED
  BY <1>1, <1>2

LEMMA TreeStep == Base /\ [Next]_vars => tree' \in Trees /\ RuleModes' /\ before' \in [Paths -> Entries]
<1> SUFFICES ASSUME Base, [Next]_vars
             PROVE  tree' \in Trees /\ RuleModes' /\ before' \in [Paths -> Entries]
  OBVIOUS
<1>0. /\ tree \in Trees /\ before \in [Paths -> Entries] /\ tree \in [Paths -> Entries]
      /\ todo \subseteq Paths
  BY DEF Base, TypeOK, Trees
<1>b. RuleModes
  BY DEF Base
<1>c. ASSUME tree' \in Trees, NoRuleSet(tree, tree'), swapped => swapped', ruled \subseteq ruled',
             UNCHANGED before
      PROVE  tree' \in Trees /\ RuleModes' /\ before' \in [Paths -> Entries]
  BY <1>0, <1>b, <1>c DEF RuleModes, NoRuleSet
<1>a. ASSUME UNCHANGED <<tree, before, swapped>>, ruled \subseteq ruled'
      PROVE  tree' \in Trees /\ RuleModes' /\ before' \in [Paths -> Entries]
  BY <1>0, <1>a, <1>c DEF NoRuleSet
<1>1. CASE Upload
  BY <1>0, <1>b, <1>1 DEF Upload, RuleModes
<1>2. CASE Deploy
  BY <1>a, <1>2 DEF Deploy
<1>3. CASE Check
  BY <1>a, <1>3 DEF Check, Goto, Fail, hist
<1>4. CASE OverlayEntry
  <2>1. UNCHANGED <<before, ruled, swapped>>
    BY <1>4 DEF OverlayEntry, Goto, Fail, hist
  <2>2. CASE tree' = tree
    BY <1>a, <2>1, <2>2
  <2>3. CASE tree' # tree
    <3>1. PICK p \in todo : tree' \in Lay(tree, p)
      BY <1>4, <2>3 DEF OverlayEntry, Fail
    <3>2. p \in Named /\ TypeOK
      BY <1>4 DEF OverlayEntry, Base, Work
    <3> QED
      BY <1>c, <2>1, <3>1, <3>2, LayTree
  <2> QED
    BY <2>2, <2>3
<1>5. CASE OverlayFault
  <2>1. PICK p \in todo : tree' \in HalfLaid(tree, p)
    BY <1>5 DEF OverlayFault, Break
  <2>2. p \in Paths /\ TypeOK /\ UNCHANGED <<before, ruled, swapped>>
    BY <1>5 DEF Base, TypeOK, OverlayFault, Break
  <2> QED
    BY <1>c, <2>1, <2>2, HalfLaidTree
<1>6. CASE Recheck
  BY <1>a, <1>6 DEF Recheck, Goto, Fail, hist
<1>7. CASE MakeDirectory
  <2>1. UNCHANGED <<before, ruled, swapped>>
    BY <1>7 DEF MakeDirectory, Goto, Fail, hist
  <2>2. CASE tree' = tree
    BY <1>a, <2>1, <2>2
  <2>3. CASE tree' # tree
    <3>1. PICK r \in todo : tree' \in mkdir(tree, r)
      BY <1>7, <2>3 DEF MakeDirectory, Fail
    <3>2. tree' \in Trees /\ Grown(tree, tree')
      BY <1>0, <3>1, MkdirFacts
    <3> QED
      BY <1>c, <2>1, <3>2, GrownRules
  <2> QED
    BY <2>2, <2>3
<1>8. CASE RecheckAgain
  BY <1>a, <1>8 DEF RecheckAgain, Goto, Fail, hist
<1>9. CASE Chmod
  <2>1. UNCHANGED <<before, ruled, swapped>>
    BY <1>9 DEF Chmod, Goto, Fail, hist
  <2>2. CASE tree' = tree
    BY <1>a, <2>1, <2>2
  <2>3. CASE tree' # tree
    <3>1. PICK r \in todo : /\ is_dir(tree, r) /\ ~is_symlink(tree, r)
                            /\ tree' = [tree EXCEPT ![Real(tree, r)] = Dir("rule")]
      BY <1>9, <2>3 DEF Chmod, Fail
    <3>2. r \in Paths /\ r \in ruled /\ pc = "chmod"
      BY <1>0, <1>9 DEF Chmod, Base, Work
    <3>3. tree' \in Trees
      BY <3>1, <3>2, ChmodFacts
    <3>4. ASSUME ~swapped PROVE \A n \in Paths : n # r => tree'[n] = tree[n]
      <4>1. \A q \in Above(r) : tree[q].kind # "link"
        BY <3>2, <3>4 DEF Base, Checked
      <4> QED
        BY <3>1, <3>2, <4>1, ChmodFacts
    <3>5. RuleModes'
      BY <1>b, <2>1, <3>2, <3>4 DEF RuleModes
    <3> QED
      BY <1>0, <2>1, <3>3, <3>5
  <2> QED
    BY <2>2, <2>3
<1>10. CASE RuleFault
  <2>1. UNCHANGED <<before, ruled, swapped>>
    BY <1>10 DEF RuleFault, Break
  <2>2. tree' \in Trees /\ Grown(tree, tree')
    BY <1>10, RuleFaultFacts
  <2> QED
    BY <1>c, <2>1, <2>2, GrownRules
<1>11. CASE Finish
  BY <1>a, <1>11 DEF Finish, Break, hist
<1>12. ASSUME NEW p \in Mounted, ContainerWrites(p)
       PROVE  tree' \in Trees /\ RuleModes' /\ before' \in [Paths -> Entries]
  <2>1. tree' \in Trees /\ before' \in [Paths -> Entries] /\ NoRuleSet(tree, tree')
    BY <1>12, ContainerFacts
  <2>2. ruled' = ruled /\ (swapped => swapped')
    BY <1>12 DEF ContainerWrites
  <2>3. RuleModes'
    BY <1>b, <2>1, <2>2 DEF RuleModes, NoRuleSet
  <2> QED
    BY <2>1, <2>3
<1>13. CASE UNCHANGED vars
  BY <1>a, <1>13 DEF vars, hist
<1> QED
  BY <1>1, <1>2, <1>3, <1>4, <1>5, <1>6, <1>7, <1>8, <1>9, <1>10, <1>11, <1>12, <1>13 DEF Next

OtherTypes ==
  /\ archive \in Archives
  /\ rules \subseteq RulePaths /\ ruled \subseteq RulePaths
  /\ pc \in PC /\ todo \subseteq Paths
  /\ result \in {"none", "ok", "failed"}
  /\ releases \in 0..MaxReleases /\ writes \in 0..MaxWrites /\ faults \in 0..MaxFaults
  /\ written \subseteq Paths

LEMMA TypeStep == Base /\ [Next]_vars => TypeOK'
<1> SUFFICES ASSUME Base, [Next]_vars PROVE TypeOK'
  OBVIOUS
<1>1. tree' \in [Paths -> Entries] /\ Rooted(tree') /\ before' \in [Paths -> Entries]
  BY TreeStep DEF Trees
<1>0. oldLink' \in BOOLEAN /\ swapped' \in BOOLEAN /\ faulty' \in BOOLEAN
  BY Zenon DEF Base, TypeOK, Next, Upload, Deploy, Check, OverlayEntry, OverlayFault, Recheck,
     MakeDirectory, RecheckAgain, Chmod, RuleFault, Finish, ContainerWrites, Break, Goto, Fail,
     LinkInTheWay, hist, vars
<1> SUFFICES OtherTypes'
  BY <1>0, <1>1, Zenon DEF TypeOK, OtherTypes
<1>2. OtherTypes
  BY DEF Base, TypeOK, OtherTypes
<1>3. ASSUME pc' = "idle", todo' = {}, result' \in {"ok", "failed"},
             UNCHANGED <<archive, rules, releases, writes, ruled, written>>,
             faults' \in 0..MaxFaults
      PROVE  OtherTypes'
  BY <1>2, <1>3 DEF PC, OtherTypes
<1>4. ASSUME pc' \in PC, todo' \subseteq Paths,
             UNCHANGED <<archive, rules, result, counters, hist>>
      PROVE  OtherTypes'
  BY <1>2, <1>4 DEF counters, hist, OtherTypes
<1>5. Fail => OtherTypes'
  BY <1>2, <1>3 DEF Fail, End, counters, hist, OtherTypes
<1>6. ASSUME NEW l \in PC, NEW S \in SUBSET Paths, Goto(l, S) PROVE OtherTypes'
  BY <1>4, <1>6 DEF Goto
<1>7. CASE Upload
  BY <1>2, <1>7, PathAssumption DEF Upload, OtherTypes
<1>8. CASE Deploy
  BY <1>2, <1>8 DEF Deploy, PC, counters, OtherTypes
<1>9. CASE Check
  <2>1. "overlay" \in PC /\ Named \in SUBSET Paths
    BY DEF PC, Named
  <2> QED
    BY <1>5, <1>6, <1>9, <2>1, Zenon DEF Check
<1>10. CASE OverlayEntry
  <2>1. PICK p \in todo : Fail \/ Goto("overlay", todo \ {p})
    BY <1>10 DEF OverlayEntry
  <2>2. "overlay" \in PC /\ todo \ {p} \in SUBSET Paths
    BY <1>2 DEF PC, OtherTypes
  <2> QED
    BY <1>5, <1>6, <2>1, <2>2, Zenon
<1>b. ASSUME NEW trees, Break(trees) PROVE OtherTypes'
  BY <1>2, <1>3, <1>b, PathAssumption DEF Break, End, OtherTypes
<1>11. CASE OverlayFault
  BY <1>b, <1>11 DEF OverlayFault
<1>r. CASE RuleFault
  BY <1>b, <1>r DEF RuleFault
<1>12. CASE Recheck
  <2>1. "mkdir" \in PC /\ rules \in SUBSET Paths
    BY <1>2, PathAssumption DEF PC, OtherTypes
  <2> QED
    BY <1>5, <1>6, <1>12, <2>1, Zenon DEF Recheck
<1>13. CASE MakeDirectory
  <2>1. PICK p \in todo : Fail \/ Goto("mkdir", todo \ {p})
    BY <1>13 DEF MakeDirectory
  <2>2. "mkdir" \in PC /\ todo \ {p} \in SUBSET Paths
    BY <1>2 DEF PC, OtherTypes
  <2> QED
    BY <1>5, <1>6, <2>1, <2>2, Zenon
<1>14. CASE RecheckAgain
  <2>1. "chmod" \in PC /\ rules \in SUBSET Paths
    BY <1>2, PathAssumption DEF PC, OtherTypes
  <2> QED
    BY <1>5, <1>6, <1>14, <2>1, Zenon DEF RecheckAgain
<1>15. CASE Chmod
  <2>1. PICK p \in todo : Fail \/ Goto("chmod", todo \ {p})
    BY <1>15 DEF Chmod
  <2>2. "chmod" \in PC /\ todo \ {p} \in SUBSET Paths
    BY <1>2 DEF PC, OtherTypes
  <2> QED
    BY <1>5, <1>6, <2>1, <2>2, Zenon
<1>16. CASE Finish
  BY <1>2, <1>3, <1>b, <1>16 DEF Finish, End, counters, hist, OtherTypes
<1>17. ASSUME NEW p \in Mounted, ContainerWrites(p) PROVE OtherTypes'
  BY <1>2, <1>17, PathAssumption DEF ContainerWrites, Below, OtherTypes
<1>18. CASE UNCHANGED vars
  BY <1>2, <1>18 DEF vars, counters, hist, OtherTypes
<1> QED
  BY <1>7, <1>8, <1>9, <1>10, <1>11, <1>12, <1>13, <1>14, <1>15, <1>16, <1>17, <1>18,
     <1>r DEF Next

LEMMA WorkStep == Base /\ [Next]_vars => Work'
<1> SUFFICES ASSUME Base, [Next]_vars PROVE Work'
  OBVIOUS
<1>1. Work /\ TypeOK
  BY DEF Base
<1>2. Fail => Work'
  BY <1>1 DEF Fail, End, hist, Work
<1>3. CASE Upload
  BY <1>1, <1>3 DEF Upload, Work
<1>4. CASE Deploy
  BY <1>1, <1>4 DEF Deploy, Work
<1>5. CASE Check
  <2>1. ASSUME Goto("overlay", Named), pc = "check" PROVE Work'
    BY <1>1, <2>1 DEF Goto, hist, Work, Named
  <2> QED
    BY <1>2, <1>5, <2>1 DEF Check
<1>6. CASE OverlayEntry
  <2>1. PICK p \in todo : First(p, todo) /\ (Fail \/ Goto("overlay", todo \ {p}))
    BY <1>6 DEF OverlayEntry
  <2>2. ASSUME Goto("overlay", todo \ {p}) PROVE Work'
    <3>1. /\ todo \subseteq Named /\ pc = "overlay"
          /\ \A q \in todo, r \in Named : q \in Upto(r) => r \in todo
      BY <1>1, <1>6 DEF OverlayEntry, Work
    <3>2. ASSUME NEW q \in todo \ {p}, NEW r \in Named, q \in Upto(r)
          PROVE  r \in todo \ {p}
      <4>1. r \in todo /\ Before(p, q)
        BY <2>1, <3>1, <3>2 DEF First
      <4>2. CASE r = p
        <5>1. p \in Paths /\ q \in Above(p)
          BY <3>1, <3>2, <4>2 DEF Named, Above
        <5> QED
          BY <4>1, <5>1, PrefixComesFirst
      <4> QED
        BY <4>1, <4>2
    <3>3. /\ pc' = "overlay" /\ todo' = todo \ {p}
          /\ UNCHANGED <<archive, rules, result, ruled>>
      BY <2>2 DEF Goto, hist
    <3>4. Named' = Named
      BY <3>3 DEF Named
    <3>5. (result # "none" => pc = "idle") /\ rules \subseteq ruled
      BY <1>1, <3>1 DEF Work
    <3>6. (result # "none" => pc = "idle")' /\ (rules \subseteq ruled)'
      BY <3>1, <3>3, <3>4, <3>5
    <3>7. todo' \subseteq Named' /\ \A q \in todo', r \in Named' : q \in Upto(r) => r \in todo'
      BY <3>1, <3>2, <3>3, <3>4, Zenon
    <3> QED
      BY <3>3, <3>6, <3>7 DEF Work
  <2> QED
    BY <1>2, <2>1, <2>2
<1>b. ASSUME NEW trees, Break(trees) PROVE Work'
  BY <1>1, <1>b DEF Break, End, Work
<1>7. CASE OverlayFault
  BY <1>b, <1>7 DEF OverlayFault
<1>r. CASE RuleFault
  BY <1>b, <1>r DEF RuleFault
<1>8. CASE Recheck
  <2>1. ASSUME Goto("mkdir", rules), pc = "overlay" PROVE Work'
    BY <1>1, <2>1 DEF Goto, hist, Work
  <2> QED
    BY <1>2, <1>8, <2>1 DEF Recheck
<1>9. CASE MakeDirectory
  <2>1. ASSUME NEW p \in todo, Goto("mkdir", todo \ {p}), pc = "mkdir" PROVE Work'
    BY <1>1, <2>1 DEF Goto, hist, Work
  <2> QED
    BY <1>2, <1>9, <2>1 DEF MakeDirectory
<1>10. CASE RecheckAgain
  <2>1. ASSUME Goto("chmod", rules), pc = "mkdir" PROVE Work'
    BY <1>1, <2>1 DEF Goto, hist, Work
  <2> QED
    BY <1>2, <1>10, <2>1 DEF RecheckAgain
<1>11. CASE Chmod
  <2>1. ASSUME NEW p \in todo, Goto("chmod", todo \ {p}), pc = "chmod" PROVE Work'
    BY <1>1, <2>1 DEF Goto, hist, Work
  <2> QED
    BY <1>2, <1>11, <2>1 DEF Chmod
<1>12. CASE Finish
  BY <1>1, <1>b, <1>12 DEF Finish, End, hist, Work
<1>13. ASSUME UNCHANGED <<archive, rules, pc, todo, result, ruled>> PROVE Work'
  BY <1>1, <1>13 DEF Work, Named
<1>14. ASSUME NEW p \in Mounted, ContainerWrites(p) PROVE Work'
  BY <1>13, <1>14 DEF ContainerWrites
<1>15. CASE UNCHANGED vars
  BY <1>13, <1>15 DEF vars, hist
<1> QED
  BY <1>3, <1>4, <1>5, <1>6, <1>7, <1>8, <1>9, <1>10, <1>11, <1>12, <1>14, <1>15,
     <1>r DEF Next

LEMMA RulesMadeStep == Base /\ [Next]_vars => RulesMade'
<1> SUFFICES ASSUME Base, [Next]_vars, written' = {} PROVE RulesMade'
  BY DEF RulesMade
<1>1. RulesMade /\ tree \in Trees /\ rules \subseteq Paths /\ todo \subseteq Paths
  BY PathAssumption DEF Base, TypeOK, Trees
<1>2. ASSUME pc' \notin {"mkdir", "chmod"} PROVE RulesMade'
  BY <1>2 DEF RulesMade
<1>3. Fail => RulesMade'
  BY <1>2 DEF Fail, End
<1>b. ASSUME NEW trees, Break(trees) PROVE RulesMade'
  BY <1>2, <1>b DEF Break, End
<1>4. ASSUME Valid(tree, rules), rules' = rules,
             \A p \in Paths : tree'[p] = tree[p] \/ tree'[p].kind = "dir"
      PROVE  Valid(tree, rules)'
  BY <1>1, <1>4, UptoFacts DEF Valid
<1>5. CASE Upload
  BY <1>2, <1>5 DEF Upload
<1>6. CASE Deploy
  BY <1>2, <1>6 DEF Deploy
<1>7. CASE Check
  BY <1>2, <1>3, <1>7 DEF Check, Goto
<1>8. CASE OverlayEntry
  BY <1>2, <1>3, <1>8 DEF OverlayEntry, Goto
<1>9. CASE OverlayFault
  BY <1>b, <1>9 DEF OverlayFault
<1>10. CASE Recheck
  <2>1. ASSUME Goto("mkdir", rules), Valid(tree, rules), tree' = tree PROVE RulesMade'
    BY <1>4, <2>1 DEF Goto, RulesMade
  <2> QED
    BY <1>3, <1>10, <2>1 DEF Recheck
<1>11. CASE MakeDirectory
  <2>1. ASSUME NEW r \in todo, tree' \in mkdir(tree, r), Goto("mkdir", todo \ {r}) PROVE RulesMade'
    <3>1. r \in Paths /\ r \in rules /\ pc = "mkdir" /\ written = {}
      BY <1>1, <1>11, <2>1 DEF Base, Work, MakeDirectory, Goto, hist
    <3>2. Valid(tree, rules) /\ \A s \in rules \ todo : \A q \in Upto(s) : tree[q].kind = "dir"
      BY <1>1, <3>1 DEF RulesMade
    <3>3. Links(tree, r) = {}
      <4>1. "absent" # "link" /\ "dir" # "link"
        OBVIOUS
      <4> QED
        BY <3>1, <3>2, <4>1 DEF Links, Valid
    <3>4. Grown(tree, tree') /\ \A q \in Upto(r) : tree'[q].kind = "dir"
      BY <1>1, <2>1, <3>1, <3>3, MkdirFacts
    <3>5. \A p \in Paths : tree'[p] = tree[p] \/ tree'[p].kind = "dir"
      BY <3>4, EntryFacts DEF Grown
    <3>6. Valid(tree, rules)'
      BY <1>4, <2>1, <3>2, <3>5 DEF Goto
    <3>7. ASSUME NEW s \in rules \ todo', NEW q \in Upto(s) PROVE tree'[q].kind = "dir"
      <4>1. CASE s = r
        BY <3>4, <3>7, <4>1
      <4>2. CASE s # r
        <5>1. s \in rules \ todo /\ q \in Paths
          BY <1>1, <2>1, <3>7, <4>2, UptoFacts DEF Goto
        <5> QED
          BY <3>2, <3>5, <3>7, <5>1
      <4> QED
        BY <4>1, <4>2
    <3> QED
      BY <2>1, <3>6, <3>7 DEF RulesMade, Goto
  <2> QED
    BY <1>3, <1>11, <2>1 DEF MakeDirectory
<1>12. CASE RecheckAgain
  <2>1. ASSUME Goto("chmod", rules), todo = {}, pc = "mkdir", tree' = tree PROVE RulesMade'
    <3>1. written = {} /\ rules' = rules /\ pc' = "chmod"
      BY <2>1 DEF Goto, hist
    <3> QED
      BY <1>1, <1>4, <2>1, <3>1 DEF RulesMade
  <2> QED
    BY <1>3, <1>12, <2>1 DEF RecheckAgain
<1>13. CASE Chmod
  <2>1. ASSUME NEW r \in todo, tree' = [tree EXCEPT ![Real(tree, r)] = Dir("rule")],
               is_dir(tree, r), ~is_symlink(tree, r), Goto("chmod", todo \ {r})
        PROVE  RulesMade'
    <3>1. \A p \in Paths : tree'[p] = tree[p] \/ tree'[p].kind = "dir"
      BY <1>1, <2>1, EntryFacts, ChmodFacts
    <3>2. pc = "chmod" /\ pc' = "chmod" /\ rules' = rules /\ written = {}
      BY <1>13, <2>1 DEF Chmod, Goto, hist
    <3>3. Valid(tree, rules) /\ \A s \in rules : \A q \in Upto(s) : tree[q].kind = "dir"
      BY <1>1, <3>2 DEF RulesMade
    <3>4. Valid(tree, rules)'
      BY <1>4, <3>1, <3>2, <3>3
    <3>5. \A s \in rules : \A q \in Upto(s) : tree'[q].kind = "dir"
      BY <1>1, <3>1, <3>3, UptoFacts
    <3> QED
      BY <3>2, <3>4, <3>5 DEF RulesMade
  <2> QED
    BY <1>3, <1>13, <2>1 DEF Chmod
<1>14. CASE Finish
  BY <1>2, <1>b, <1>14 DEF Finish, End
<1>15. CASE RuleFault
  BY <1>b, <1>15 DEF RuleFault
<1>16. ASSUME NEW p \in Mounted, ContainerWrites(p) PROVE FALSE
  BY <1>16 DEF ContainerWrites
<1>17. CASE UNCHANGED vars
  <2>1. written = {} /\ UNCHANGED <<tree, rules, pc, todo>>
    BY <1>17 DEF vars, hist
  <2> QED
    BY <1>1, <2>1 DEF RulesMade, Valid
<1> QED
  BY <1>5, <1>6, <1>7, <1>8, <1>9, <1>10, <1>11, <1>12, <1>13, <1>14, <1>15, <1>16, <1>17 DEF Next

LEMMA CheckedStep == Base /\ [Next]_vars => Checked'
<1> SUFFICES ASSUME Base, [Next]_vars, pc' = "chmod" PROVE Checked'
  BY DEF Checked
<1>1. Checked /\ tree \in Trees /\ rules \subseteq Paths /\ todo \subseteq Paths
  BY PathAssumption DEF Base, TypeOK, Trees
<1>2. CASE RecheckAgain
  <2>1. Valid(tree, rules) /\ todo' = rules /\ tree' = tree
    BY <1>2 DEF RecheckAgain, Goto, Fail, End
  <2>2. "absent" # "link" /\ "dir" # "link"
    OBVIOUS
  <2>3. \A r \in todo' : \A q \in Upto(r) : tree'[q].kind # "link"
    BY <2>1, <2>2 DEF Valid
  <2> QED
    BY <2>3 DEF Checked, Above
<1>3. CASE Chmod
  <2>1. PICK r \in todo : /\ tree' = [tree EXCEPT ![Real(tree, r)] = Dir("rule")]
                          /\ is_dir(tree, r) /\ ~is_symlink(tree, r) /\ Goto("chmod", todo \ {r})
    BY <1>3 DEF Chmod, Fail, End
  <2>2. pc = "chmod" /\ todo' \subseteq todo /\ written' = written /\ swapped' = swapped
    BY <1>3, <2>1 DEF Chmod, Goto, hist
  <2>3. \A p \in Paths : tree'[p] = tree[p] \/ tree'[p] = Dir("rule")
    BY <1>1, <2>1, ChmodFacts
  <2>4. \A p \in Paths : tree'[p].kind = "link" => tree[p].kind = "link"
    BY <2>3, EntryFacts
  <2> QED
    BY <1>1, <2>2, <2>4, UptoFacts DEF Checked, Above
<1>4. ASSUME NEW p \in Mounted, ContainerWrites(p) PROVE Checked'
  <2>1. /\ \A n \in {p} \cup Below(p) : n \in Paths /\ n \in written'
        /\ \A n \in Paths \ ({p} \cup Below(p)) : tree'[n] = tree[n]
    BY <1>4, ContainerFacts
  <2>2. UNCHANGED <<pc, todo>> /\ written \subseteq written'
    BY <1>4 DEF ContainerWrites
  <2>3. ASSUME NEW r \in todo', NEW q \in Upto(r) \ written' PROVE tree'[q].kind # "link"
    <3>1. q \in Paths /\ q \in Upto(r) \ written /\ r \in todo
      BY <1>1, <2>2, <2>3, UptoFacts
    <3>2. tree'[q] = tree[q]
      BY <2>1, <2>3, <3>1
    <3> QED
      BY <1>1, <2>2, <3>1, <3>2 DEF Checked
  <2>4. ASSUME ~swapped', NEW r \in todo', NEW q \in Above(r) PROVE tree'[q].kind # "link"
    BY <1>4, <2>2, <2>4 DEF ContainerWrites, Above
  <2> QED
    BY <2>3, <2>4 DEF Checked
<1>5. CASE UNCHANGED vars
  BY <1>1, <1>5 DEF vars, hist, Checked
<1> QED
  BY <1>2, <1>3, <1>4, <1>5 DEF Next, Upload, Deploy, Check, OverlayEntry, OverlayFault, Recheck,
     MakeDirectory, RuleFault, Finish, Break, Goto, Fail, End

\* What the chmod of a rule has set stays, as long as containers leave it.
LEMMA AppliedStep == Base /\ [Next]_vars => Applied' /\ RulesApplied'
<1> SUFFICES ASSUME Base, [Next]_vars PROVE Applied' /\ RulesApplied'
  OBVIOUS
<1>1. /\ Applied /\ RulesApplied /\ Checked /\ Work
      /\ tree \in Trees /\ rules \subseteq Paths /\ todo \subseteq Paths
  BY PathAssumption DEF Base, TypeOK, Trees
<1>2. ASSUME pc' # "chmod", result' # "ok" PROVE Applied' /\ RulesApplied'
  BY <1>2 DEF Applied, RulesApplied
<1>3. CASE RecheckAgain
  <2>1. ASSUME todo' = rules', result' # "ok" PROVE Applied' /\ RulesApplied'
    BY <2>1 DEF Applied, RulesApplied
  <2> QED
    BY <1>1, <1>2, <1>3, <2>1 DEF RecheckAgain, Goto, Fail, End, Work
<1>4. CASE Chmod
  <2>1. ASSUME NEW r \in todo, tree' = [tree EXCEPT ![Real(tree, r)] = Dir("rule")],
               is_dir(tree, r), ~is_symlink(tree, r), Goto("chmod", todo \ {r})
        PROVE  Applied' /\ RulesApplied'
    <3>1. /\ pc = "chmod" /\ result' # "ok" /\ r \in Paths
          /\ todo' = todo \ {r} /\ rules' = rules /\ written' = written
      BY <1>1, <1>4, <2>1 DEF Chmod, Goto, hist, Work
    <3>2. ASSUME NEW s \in rules \ todo', Upto(s) \cap written = {} PROVE tree'[s] = Dir("rule")
      <4>1. s \in Paths
        BY <1>1, <3>1, <3>2
      <4>2. CASE s = r
        <5>1. \A q \in Above(r) : tree[q].kind # "link"
          BY <1>1, <3>1, <3>2, <4>2 DEF Checked, Above
        <5> QED
          BY <2>1, <3>1, <4>2, <5>1, ChmodFacts
      <4>3. CASE s # r
        <5>1. tree[s] = Dir("rule")
          BY <1>1, <3>1, <3>2, <4>3 DEF Applied
        <5> QED
          BY <2>1, <3>1, <4>1, <5>1, ChmodFacts
      <4> QED
        BY <4>2, <4>3
    <3> QED
      BY <3>1, <3>2 DEF Applied, RulesApplied
  <2> QED
    BY <1>2, <1>4, <2>1 DEF Chmod, Fail, End
<1>5. CASE Finish
  <2>1. ASSUME End("ok"), UNCHANGED <<tree, archive, rules, counters, hist>>
        PROVE  Applied' /\ RulesApplied'
    <3>1. /\ pc = "chmod" /\ todo = {} /\ pc' = "idle"
          /\ UNCHANGED <<tree, rules, written>>
      BY <1>5, <2>1 DEF Finish, End, hist
    <3> QED
      BY <1>1, <3>1 DEF Applied, RulesApplied
  <2>2. ASSUME NEW trees, Break(trees) PROVE Applied' /\ RulesApplied'
    BY <1>2, <2>2 DEF Break, End
  <2> QED
    BY <1>5, <2>1, <2>2 DEF Finish
<1>6. ASSUME NEW p \in Mounted, ContainerWrites(p) PROVE Applied' /\ RulesApplied'
  <2>1. /\ \A n \in {p} \cup Below(p) : n \in Paths /\ n \in written'
        /\ \A n \in Paths \ ({p} \cup Below(p)) : tree'[n] = tree[n]
    BY <1>6, ContainerFacts
  <2>2. UNCHANGED <<pc, todo, rules, result>> /\ written \subseteq written'
    BY <1>6 DEF ContainerWrites
  <2>3. ASSUME NEW s \in rules, Upto(s) \cap written' = {}
        PROVE  tree'[s] = tree[s] /\ Upto(s) \cap written = {}
    BY <1>1, <2>1, <2>2, <2>3, UptoFacts
  <2> QED
    BY <1>1, <2>2, <2>3 DEF Applied, RulesApplied
<1>7. CASE UNCHANGED vars
  BY <1>1, <1>7 DEF vars, hist, Applied, RulesApplied
<1>8. Upload \/ Deploy \/ Check \/ OverlayEntry \/ OverlayFault \/ Recheck \/ MakeDirectory \/ RuleFault
      => pc' # "chmod" /\ result' # "ok"
  BY <1>1 DEF Upload, Deploy, Check, OverlayEntry, OverlayFault, Recheck, MakeDirectory, RuleFault,
     Break, Goto, Fail, End, Work
<1> QED
  BY <1>2, <1>3, <1>4, <1>5, <1>6, <1>7, <1>8 DEF Next

\* Types, the work still to do, what the rules have made and whose modes they
\* set: kept by every step, whatever links are in the tree.
THEOREM BaseHolds == Spec => []Base
<1>1. Base /\ [Next]_vars => Base'
  BY TreeStep, TypeStep, WorkStep, RulesMadeStep, CheckedStep, AppliedStep DEF Base
<1> QED
  BY <1>1, InitBase, PTL DEF Spec

\* The tree keeps its shape in every state, also when a step fails half way
\* and when containers change it: what is there is in a directory.
THEOREM TypeCorrect == Spec => []TypeOK
<1>1. Base => TypeOK
  BY DEF Base
<1> QED
  BY <1>1, BaseHolds, PTL

-----------------------------------------------------------------------------
(* What holds when no old link is in the way.                              *)

\* A directory that was there keeps its mode unless a rule names it.
ModesKept ==
  ~oldLink =>
    \A p \in Paths :
      before[p].kind = "dir" /\ tree[p].kind = "dir" /\ tree[p] # before[p] =>
        tree[p] = Dir("rule")

\* What the tree is, compared with the one the archive met.
Compared == LinksMet /\ Kept /\ AbsentStays /\ ModesKept

\* On the way to the entry whose turn it is there are directories, or what a
\* container has put there, but no link.
LEMMA InPlace ==
  ASSUME Base, LinksMet, Laid, ~oldLink, pc = "overlay", NEW p \in todo, First(p, todo)
  PROVE  /\ p \in Named /\ p \in Paths
         /\ \A q \in Above(p) : /\ q \in Named /\ archive[q].kind = "dir"
                                /\ tree[q].kind # "link"
                                /\ tree[q].kind = "dir" \/ q \in written
         /\ archive[p].kind # "link" => tree[p].kind # "link"
<1>1. p \in Named /\ p \in Paths /\ archive \in Archives
  BY DEF Base, Work, TypeOK, Named
<1>2. ASSUME NEW q \in Above(p)
      PROVE  /\ q \in Named /\ archive[q].kind = "dir"
             /\ tree[q].kind # "link"
             /\ tree[q].kind = "dir" \/ q \in written
  <2>1. q \in Paths /\ archive[q].kind = "dir"
    BY <1>1, AboveFacts, ArchiveFacts DEF Named
  <2>2. q \in Named
    BY <2>1, EntryFacts DEF Named
  <2>3. q \notin todo
    BY <1>1, AboveFacts, PrefixComesFirst DEF First
  <2>4. Installed(q)
    BY <2>2, <2>3 DEF Laid
  <2>5. tree[q].kind # "link"
    BY <1>1, <1>2 DEF LinksMet, Above
  <2> QED
    BY <2>1, <2>2, <2>4, <2>5 DEF Installed
<1>3. archive[p].kind # "link" => tree[p].kind # "link"
  BY <1>1, UptoFacts DEF LinksMet
<1> QED
  BY <1>1, <1>2, <1>3

\* A step on the entry p changes nothing but p, what is below it when p is no
\* directory, and directories above it that are missing.
Touches(p, u) ==
  /\ \A q \in Paths \ Upto(p) : archive[p].kind = "dir" \/ q \notin Below(p) => u[q] = tree[q]
  /\ \A q \in Below(p) : u[q] \in {tree[q], Absent}
  /\ \A q \in Above(p) : u[q] = tree[q] \/ (tree[q] = Absent /\ u[q] = Dir("default"))
  /\ archive[p].kind = "dir" =>
       \/ u[p] = tree[p]
       \/ tree[p].kind # "dir" /\ u[p] \in {Absent, Dir("default"), Dir("archive")}
  /\ archive[p].kind # "dir" => u[p] = tree[p] \/ u[p].kind # "dir"
  /\ archive[p].kind # "link" => u[p] = tree[p] \/ u[p].kind # "link"

\* The hypotheses of the lemmas that follow, and what they say of p.
Turn(p) ==
  /\ tree \in Trees /\ p \in Named /\ p \in Paths
  /\ archive[p].kind \in {"dir", "link", "file"}
  /\ \A q \in Above(p) : tree[q].kind # "link"
  /\ archive[p].kind # "link" => tree[p].kind # "link"

LEMMA TurnFacts ==
  ASSUME Base, LinksMet, Laid, ~oldLink, pc = "overlay", NEW p \in todo, First(p, todo)
  PROVE  Turn(p)
<1>1. tree \in Trees /\ TypeOK
  BY DEF Base, TypeOK, Trees
<1> QED
  BY <1>1, InPlace, LayingFacts DEF Turn

\* Where there is no link on the way, is_dir is the kind of the entry.
LEMMA TurnKind ==
  ASSUME NEW p, Turn(p), tree[p].kind # "link"
  PROVE  /\ is_dir(tree, p) <=> tree[p].kind = "dir"
         /\ exists(tree, p) <=> tree[p] # Absent
         /\ ~is_symlink(tree, p)
<1>1. p \in Paths /\ tree \in Trees /\ tree[p] \in Entries /\ p # Nowhere
  BY PathFacts DEF Turn, Trees
<1>2. Links(tree, p) = {}
  BY DEF Turn, Links, Above
<1>3. CASE Real(tree, p) = p
  <2>1. Kind(tree, p) = tree[p].kind
    BY <1>1, <1>3, RealEntry
  <2> QED
    BY <1>1, <1>2, <2>1, EntryKinds, PlainOrNoPlace DEF is_dir, exists, is_symlink, Turn
<1>4. CASE Real(tree, p) = Nowhere
  <2>1. Kind(tree, p) = "absent"
    BY <1>4 DEF Kind
  <2>2. tree[p] = Absent
    <3> SUFFICES ASSUME tree[p] # Absent PROVE FALSE
      OBVIOUS
    <3>1. \A q \in Above(p) : tree[q].kind = "dir"
      BY <1>1, RootedFacts DEF Trees
    <3>2. \A q \in Upto(p) : tree[q].kind # "link"
      BY <3>1 DEF Above
    <3>3. Real(tree, p) = p
      BY <1>1, <3>1, <3>2, PlainReal
    <3> QED
      BY <1>1, <1>4, <3>3
  <2> QED
    BY <1>1, <2>1, <2>2, EntryFacts, PlainOrNoPlace DEF is_dir, exists, is_symlink, Turn
<1>5. Real(tree, p) \in {p, Nowhere}
  BY <1>2, PlainResolve
<1> QED
  BY <1>3, <1>4, <1>5

\* Clearing the way touches the entry itself and what is below it.
LEMMA ClearTouches ==
  ASSUME NEW p, Turn(p), NEW c \in Clear(tree, p)
  PROVE  /\ c \in Trees
         /\ c = tree \/ (archive[p].kind = "dir" => tree[p].kind # "dir")
         /\ \A q \in Paths \ ({p} \cup Below(p)) : c[q] = tree[q]
         /\ \A q \in {p} \cup Below(p) : c[q] \in {tree[q], Absent}
<1>1. p \in Paths /\ tree \in Trees
  BY DEF Turn
<1>2. c \in Trees /\ (c = tree \/ c = Remove(tree, p)) /\ \A n \in Paths : c[n] \in {tree[n], Absent}
  BY <1>1, ClearFacts
<1>3. c = tree \/ c = Replace(tree, p, Absent)
  <2>1. Place(tree, p) \in {p, Nowhere}
    BY <1>1, PlainOrNoPlace DEF Turn
  <2>2. Replace(tree, Nowhere, Absent) = tree
    BY <1>1, ReplaceNoPath
  <2> QED
    BY <1>2, <2>1, <2>2 DEF Remove
<1>4. \A q \in Paths \ ({p} \cup Below(p)) : c[q] = tree[q]
  BY <1>3, ReplaceFacts
<1>5. ASSUME archive[p].kind = "dir", c # tree PROVE tree[p].kind # "dir"
  <2>1. ~is_dir(tree, p)
    BY <1>5 DEF Clear
  <2>2. tree[p].kind # "link"
    BY <1>5 DEF Turn
  <2> QED
    BY <2>1, <2>2, TurnKind
<1>6. \A q \in {p} \cup Below(p) : q \in Paths
  BY <1>1, BelowFacts
<1> QED
  BY <1>2, <1>4, <1>5, <1>6

\* Then making the directories touches those above, and a directory itself.
LEMMA GrownTouches ==
  ASSUME NEW p, Turn(p), NEW c \in Clear(tree, p), NEW v \in Trees, Grown(c, v),
         Links(c, MadeFor(p)) = {} => \A n \in Paths \ Upto(MadeFor(p)) : v[n] = c[n],
         archive[p].kind = "dir" => tree[p].kind # "dir" \/ v = tree
  PROVE  Touches(p, v) /\ (archive[p].kind # "dir" => v[p] = c[p])
<1>1. /\ p \in Paths /\ tree \in Trees /\ p \notin Above(p)
      /\ archive[p].kind \in {"dir", "link", "file"}
  BY DEF Turn, Above
<1>2. /\ c \in Trees
      /\ \A q \in Paths \ ({p} \cup Below(p)) : c[q] = tree[q]
      /\ \A q \in {p} \cup Below(p) : c[q] \in {tree[q], Absent}
  BY ClearTouches
<1>3. \A q \in Above(p) : q \in Paths /\ q # p /\ q \notin Below(p)
  <2>1. ASSUME NEW q \in Above(p), q \in Below(p) PROVE FALSE
    BY <1>1, <2>1, AboveFacts, BelowFacts
  <2> QED
    BY <1>1, <2>1, AboveFacts
<1>4. \A q \in Below(p) : q \in Paths /\ q # p /\ q \notin Upto(p)
  <2>1. ASSUME NEW q \in Below(p) PROVE q \in Paths /\ q # p
    BY BelowFacts, AboveFacts
  <2>2. ASSUME NEW q \in Below(p), q \in Upto(p) PROVE FALSE
    BY <1>3, <2>1, <2>2 DEF Above
  <2> QED
    BY <2>1, <2>2
<1>5. Upto(MadeFor(p)) = IF archive[p].kind = "dir" THEN Upto(p) ELSE Above(p)
  BY <1>1, ParentFacts DEF MadeFor
<1>6. Links(c, MadeFor(p)) = {}
  <2>1. ASSUME NEW q \in Upto(MadeFor(p)), q \in Paths PROVE c[q].kind # "link"
    <3>1. CASE q \in Above(p)
      BY <1>2, <1>3, <3>1 DEF Turn
    <3>2. CASE q = p /\ archive[p].kind = "dir"
      BY <1>2, <3>2, EntryFacts DEF Turn
    <3> QED
      BY <1>5, <2>1, <3>1, <3>2 DEF Above
  <2> QED
    BY <2>1 DEF Links
<1>7. \A n \in Paths \ Upto(MadeFor(p)) : v[n] = c[n]
  BY <1>6
<1>8. ASSUME NEW q \in Paths \ Upto(p), archive[p].kind = "dir" \/ q \notin Below(p)
      PROVE  v[q] = tree[q]
  <2>1. v[q] = c[q]
    BY <1>5, <1>7, <1>8 DEF Above
  <2>2. CASE q \notin Below(p)
    <3>1. q # p
      BY <1>1, <1>8, UptoFacts
    <3> QED
      BY <1>2, <2>1, <2>2, <3>1
  <2>3. CASE q \in Below(p) /\ archive[p].kind = "dir" /\ tree[p].kind # "dir"
    <3>1. tree[q] = Absent
      BY <1>1, <2>3, BelowFacts, RootedFacts DEF Trees
    <3> QED
      BY <1>2, <2>1, <2>3, <3>1
  <2> QED
    BY <1>8, <2>2, <2>3
<1>9. ASSUME NEW q \in Below(p) PROVE v[q] \in {tree[q], Absent}
  <2>1. v[q] = c[q]
    BY <1>4, <1>5, <1>7, <1>9 DEF Above
  <2> QED
    BY <1>2, <1>9, <2>1
<1>10. ASSUME NEW q \in Above(p)
       PROVE  v[q] = tree[q] \/ (tree[q] = Absent /\ v[q] = Dir("default"))
  BY <1>2, <1>3, <1>10 DEF Grown
<1>11. archive[p].kind # "dir" => v[p] = c[p]
  BY <1>1, <1>5, <1>7
<1>12. c[p] = tree[p] \/ c[p] = Absent
  BY <1>2
<1>13. v[p] = c[p] \/ (c[p] = Absent /\ v[p] = Dir("default"))
  BY <1>1 DEF Grown
<1>14. Absent.kind = "absent" /\ Dir("default").kind = "dir"
  BY EntryFacts
<1>15. archive[p].kind = "dir" =>
         \/ v[p] = tree[p]
         \/ tree[p].kind # "dir" /\ v[p] \in {Absent, Dir("default"), Dir("archive")}
  BY <1>12, <1>13
<1>16. archive[p].kind # "dir" => v[p] = tree[p] \/ v[p].kind # "dir"
  BY <1>11, <1>12, <1>14
<1>17. archive[p].kind # "link" => v[p] = tree[p] \/ v[p].kind # "link"
  BY <1>12, <1>13, <1>14
<1> QED
  BY <1>8, <1>9, <1>10, <1>11, <1>15, <1>16, <1>17 DEF Touches

LEMMA PreparedTouches ==
  ASSUME NEW p, Turn(p), NEW v \in Prepared(tree, p),
         archive[p].kind = "dir" => tree[p].kind # "dir"
  PROVE  /\ v \in Trees /\ Touches(p, v)
         /\ Place(v, p) \in {p, Nowhere}
         /\ archive[p].kind # "link" => Real(v, p) \in {p, Nowhere}
<1>1. p \in Paths /\ tree \in Trees
  BY DEF Turn
<1>2. PICK c \in Clear(tree, p) : v \in mkdir(c, MadeFor(p))
  BY DEF Prepared
<1>3. c \in Trees
  BY ClearTouches
<1>4. /\ v \in Trees /\ Grown(c, v)
      /\ Links(c, MadeFor(p)) = {} => \A n \in Paths \ Upto(MadeFor(p)) : v[n] = c[n]
  BY <1>1, <1>2, <1>3, MadeForFacts, MkdirFacts
<1>5. Touches(p, v)
  BY <1>4, GrownTouches
<1>6. \A q \in Above(p) : v[q].kind # "link"
  <2>1. Dir("default").kind # "link"
    BY EntryFacts
  <2> QED
    BY <1>5, <2>1 DEF Touches, Turn
<1>7. Place(v, p) \in {p, Nowhere}
  BY <1>1, <1>6, PlainOrNoPlace
<1>8. ASSUME archive[p].kind # "link" PROVE Real(v, p) \in {p, Nowhere}
  <2>1. v[p].kind # "link"
    BY <1>5, <1>8 DEF Touches, Turn
  <2>2. Links(v, p) = {}
    BY <1>6, <2>1 DEF Links, Above
  <2> QED
    BY <2>2, PlainResolve
<1> QED
  BY <1>4, <1>5, <1>7, <1>8

\* So does putting something there afterwards.
LEMMA PutTouches ==
  ASSUME NEW p, Turn(p), NEW v, Touches(p, v), NEW e,
         archive[p].kind = "dir" => tree[p].kind # "dir" /\ e = Dir("archive"),
         archive[p].kind # "dir" => e.kind # "dir",
         archive[p].kind # "link" => e.kind # "link"
  PROVE  Touches(p, Replace(v, p, e)) /\ Replace(v, p, e)[p] = e
<1> DEFINE u == Replace(v, p, e)
<1>1. p \in Paths /\ tree \in Trees
  BY DEF Turn
<1>2. u[p] = e
  BY <1>1, ReplaceFacts
<1>3. ASSUME NEW q \in Below(p) PROVE q \in Paths /\ q # p /\ u[q] = Absent
  BY <1>3, BelowFacts, AboveFacts, ReplaceFacts
<1>4. ASSUME NEW q \in Paths, q # p, q \notin Below(p) PROVE u[q] = v[q]
  BY <1>4, ReplaceFacts
<1>5. ASSUME NEW q \in Paths \ Upto(p), archive[p].kind = "dir" \/ q \notin Below(p)
      PROVE  u[q] = tree[q]
  <2>1. CASE q \in Below(p)
    <3>1. archive[p].kind = "dir" /\ tree[p].kind # "dir" /\ p \in Above(q)
      BY <1>5, <2>1, BelowFacts
    <3>2. tree[q] = Absent
      BY <1>1, <3>1, RootedFacts DEF Trees
    <3> QED
      BY <1>3, <2>1, <3>2
  <2>2. CASE q \notin Below(p)
    <3>1. q # p
      BY <1>1, <1>5, UptoFacts
    <3> QED
      BY <1>4, <1>5, <2>2, <3>1 DEF Touches
  <2> QED
    BY <2>1, <2>2
<1>6. ASSUME NEW q \in Above(p)
      PROVE  u[q] = tree[q] \/ (tree[q] = Absent /\ u[q] = Dir("default"))
  <2>1. q \in Paths /\ q # p /\ q \notin Below(p)
    BY <1>1, AboveFacts, BelowFacts
  <2> QED
    BY <1>4, <2>1 DEF Touches
<1>7. u[p].kind = e.kind
  BY <1>2
<1> HIDE DEF u
<1>8. Touches(p, u)
  BY <1>2, <1>3, <1>5, <1>6, <1>7 DEF Touches
<1> QED
  BY <1>2, <1>8 DEF u

LEMMA LayTouches ==
  ASSUME Base, LinksMet, Laid, ~oldLink, pc = "overlay", NEW p \in todo, First(p, todo),
         NEW u \in Lay(tree, p)
  PROVE  /\ Touches(p, u)
         /\ archive[p].kind = "dir" => u[p].kind = "dir"
         /\ archive[p].kind # "dir" => u[p] = Laying(p)
<1>1. Turn(p) /\ p \in Named /\ p \in Paths /\ p # Nowhere /\ TypeOK
  BY TurnFacts, PathFacts DEF Turn, Base
<1>2. /\ archive[p].kind \in {"dir", "link", "file"} /\ Laying(p).kind = archive[p].kind
      /\ archive[p].kind = "dir" => Laying(p) = Dir("archive")
  BY <1>1, LayingFacts DEF Laying
<1>3. archive[p].kind = "dir" => (is_dir(tree, p) <=> tree[p].kind = "dir")
  BY <1>1, TurnKind DEF Turn
<1>4. CASE u = tree /\ archive[p].kind = "dir" /\ is_dir(tree, p)
  BY <1>3, <1>4 DEF Touches
<1>5. ASSUME NEW v \in Prepared(tree, p),
             NEW q \in (IF archive[p].kind = "link" THEN {Place(v, p)} ELSE {Real(v, p)}) \ {Nowhere},
             u = Replace(v, q, Laying(p)),
             archive[p].kind = "dir" => ~is_dir(tree, p)
      PROVE  /\ Touches(p, u)
             /\ archive[p].kind = "dir" => u[p].kind = "dir"
             /\ archive[p].kind # "dir" => u[p] = Laying(p)
  <2>1. /\ Touches(p, v) /\ Place(v, p) \in {p, Nowhere}
        /\ archive[p].kind # "link" => Real(v, p) \in {p, Nowhere}
    BY <1>1, <1>3, <1>5, PreparedTouches
  <2>2. q = p
    BY <1>5, <2>1
  <2>3. u = Replace(v, p, Laying(p))
    BY <1>5, <2>2
  <2>4. /\ archive[p].kind = "dir" => tree[p].kind # "dir" /\ Laying(p) = Dir("archive")
        /\ archive[p].kind # "dir" => Laying(p).kind # "dir"
        /\ archive[p].kind # "link" => Laying(p).kind # "link"
    BY <1>2, <1>3, <1>5
  <2>5. Touches(p, u) /\ u[p] = Laying(p)
    BY <1>1, <2>1, <2>3, <2>4, PutTouches
  <2> QED
    BY <1>2, <2>5
<1> QED
  BY <1>1, <1>4, <1>5, LayShape

LEMMA FaultTouches ==
  ASSUME Base, LinksMet, Laid, ~oldLink, OverlayFault
  PROVE  \E p \in Named : Touches(p, tree')
<1>1. PICK p \in todo : First(p, todo) /\ tree' \in HalfLaid(tree, p)
  BY DEF OverlayFault, Break
<1>2. Turn(p) /\ p \in Named /\ p \in Paths /\ p # Nowhere /\ tree \in Trees
  BY <1>1, TurnFacts, PathFacts DEF Turn, OverlayFault
<1>3. CASE tree' = tree
  <2>1. Touches(p, tree)
    BY DEF Touches
  <2> QED
    BY <1>2, <1>3, <2>1
<1>4. ASSUME archive[p].kind # "dir", is_dir(tree, p), ~is_symlink(tree, p),
             NEW S \in SUBSET Below(Real(tree, p)), tree' = Without(tree, S)
      PROVE  Touches(p, tree')
  <2>1. tree[p].kind # "link"
    <3> SUFFICES ASSUME tree[p].kind = "link" PROVE FALSE
      OBVIOUS
    <3>1. tree[p] # Absent
      BY EntryFacts
    <3>2. \A q \in Above(p) : tree[q].kind = "dir"
      BY <1>2, <3>1, RootedFacts DEF Trees
    <3>3. Place(tree, p) = p
      BY <1>2, <3>2, PlainPlace
    <3> QED
      BY <1>2, <1>4, <3>3 DEF is_symlink
  <2>2. Real(tree, p) = p
    <3>1. Links(tree, p) = {}
      BY <1>2, <2>1 DEF Links, Above, Turn
    <3>2. Real(tree, p) \in {p, Nowhere}
      BY <3>1, PlainResolve
    <3>3. Real(tree, p) # Nowhere
      BY <1>4 DEF is_dir, Kind
    <3> QED
      BY <3>2, <3>3
  <2>3. S \subseteq Below(p)
    BY <1>4, <2>2
  <2>4. ASSUME NEW q \in Paths, q \notin Below(p) PROVE tree'[q] = tree[q]
    <3>1. ASSUME NEW r \in S, q \in Below(r) PROVE FALSE
      <4>1. q \in Paths /\ r \in Above(q) /\ r \in Paths /\ p \in Above(r)
        BY <2>3, <3>1, BelowFacts
      <4>2. p \in Above(q)
        BY <4>1, AboveFacts
      <4> QED
        BY <2>4, <4>2, AboveFacts
    <3> QED
      BY <1>4, <2>3, <2>4, <3>1 DEF Without
  <2>5. ASSUME NEW q \in Below(p) PROVE tree'[q] \in {tree[q], Absent}
    BY <1>4, BelowFacts DEF Without
  <2>6. p \notin Below(p)
    BY BelowFacts, AboveFacts
  <2>7. \A q \in Above(p) : q \in Paths /\ q \notin Below(p)
    BY <1>2, AboveFacts, BelowFacts
  <2> QED
    BY <1>2, <1>4, <2>4, <2>5, <2>6, <2>7 DEF Touches
<1>5. ASSUME NEW c \in Clear(tree, p), tree' \in Making(c, MadeFor(p))
      PROVE  Touches(p, tree')
  <2>1. c \in Trees /\ (c = tree \/ (archive[p].kind = "dir" => tree[p].kind # "dir"))
    BY <1>2, ClearTouches
  <2>2. /\ tree' \in Trees /\ Grown(c, tree')
        /\ Links(c, MadeFor(p)) = {} => \A n \in Paths \ Upto(MadeFor(p)) : tree'[n] = c[n]
    BY <1>2, <1>5, <2>1, MadeForFacts, MakingFacts
  <2>3. ASSUME archive[p].kind = "dir", tree[p].kind = "dir" PROVE tree' = tree
    <3>1. c = tree /\ MadeFor(p) = p
      BY <2>1, <2>3 DEF MadeFor
    <3>2. \A q \in Above(p) : tree[q].kind = "dir"
      BY <1>2, <2>3, EntryFacts, RootedFacts DEF Trees
    <3>3. \A q \in Upto(p) : tree[q].kind = "dir" /\ tree[q] # Absent
      BY <2>3, <3>2, EntryFacts DEF Above
    <3>4. Links(tree, p) = {}
      BY <3>3 DEF Links
    <3>5. \A n \in Paths : tree'[n] = tree[n]
      BY <2>2, <3>1, <3>3, <3>4 DEF Grown
    <3> QED
      BY <1>2, <2>2, <3>5 DEF Trees
  <2> QED
    BY <1>2, <1>5, <2>2, <2>3, GrownTouches
<1>6. ASSUME archive[p].kind = "file", NEW v \in Prepared(tree, p),
             NEW e \in {Torn, File(releases, p)}, tree' = Replace(v, Real(v, p), e)
      PROVE  Touches(p, tree')
  <2>1. v \in Trees /\ Touches(p, v) /\ Real(v, p) \in {p, Nowhere}
    BY <1>2, <1>6, PreparedTouches
  <2>2. CASE Real(v, p) = Nowhere
    BY <1>6, <2>1, <2>2, ReplaceNoPath
  <2>3. CASE Real(v, p) = p
    <3>1. e.kind # "dir" /\ e.kind # "link"
      BY EntryFacts
    <3>2. Touches(p, Replace(v, p, e))
      BY <1>2, <1>6, <2>1, <3>1, PutTouches
    <3> QED
      BY <1>6, <2>3, <3>2
  <2> QED
    BY <2>1, <2>2, <2>3
<1> QED
  BY <1>1, <1>2, <1>3, <1>4, <1>5, <1>6, HalfLaidCases

\* A step that touches one entry of the archive keeps the comparison.
LEMMA TouchCompared ==
  ASSUME Base, Compared, ~oldLink, NEW p \in Named, Touches(p, tree'),
         UNCHANGED <<archive, before, oldLink>>
  PROVE  Compared'
<1>1. /\ p \in Paths /\ archive \in Archives /\ archive[p].kind \in {"dir", "link", "file"}
      /\ tree \in Trees /\ before \in [Paths -> Entries]
  BY LayingFacts DEF Base, TypeOK, Trees
<1>2. Named' = Named
  BY DEF Named
<1>a. \A n \in Above(p) : n \in Named /\ archive[n].kind = "dir"
  BY <1>1, AboveFacts, ArchiveFacts, EntryFacts DEF Named
<1>3. ASSUME NEW n \in Paths
      PROVE  \/ n = p
             \/ tree'[n] = tree[n]
             \/ n \in Above(p) /\ tree[n] = Absent /\ tree'[n] = Dir("default")
             \/ n \in Below(p) /\ archive[p].kind # "dir" /\ tree'[n] = Absent
  BY <1>1 DEF Touches, Above
<1>4. \A n \in Below(p) : n \in Paths /\ p \in Above(n) /\ n # p
  BY BelowFacts, AboveFacts
<1>5. archive[p].kind # "dir" => \A n \in Below(p) : archive[n] = Absent
  BY <1>1, <1>4, ArchiveFacts
<1>6. /\ archive[p].kind = "dir" =>
           \/ tree'[p] = tree[p]
           \/ tree[p].kind # "dir" /\ tree'[p] \in {Absent, Dir("default"), Dir("archive")}
      /\ archive[p].kind # "dir" => tree'[p] = tree[p] \/ tree'[p].kind # "dir"
      /\ archive[p].kind # "link" => tree'[p] = tree[p] \/ tree'[p].kind # "link"
  BY DEF Touches
<1>b. \A m : Dir(m).kind = "dir"
  BY EntryFacts
<1>7. LinksMet'
  <2> SUFFICES ASSUME NEW n \in Named, NEW q \in Upto(n), tree'[q].kind = "link"
               PROVE  q = n /\ archive[n].kind = "link"
    BY <1>2 DEF LinksMet
  <2>1. n \in Paths /\ q \in Paths
    BY UptoFacts DEF Named
  <2>2. CASE tree'[q] = tree[q]
    BY <2>1, <2>2 DEF Compared, LinksMet
  <2>3. CASE tree'[q] # tree[q] /\ q = p
    <3>1. archive[p].kind = "link"
      BY <1>6, <2>3
    <3>2. q # n => q \in Above(n) /\ archive[q].kind = "dir"
      BY <1>1, <2>1, ArchiveFacts DEF Above, Named
    <3> QED
      BY <2>3, <3>1, <3>2
  <2>4. CASE tree'[q] = Absent \/ tree'[q] = Dir("default")
    BY <2>4, EntryFacts
  <2> QED
    BY <1>3, <2>1, <2>2, <2>3, <2>4
<1>8. Kept'
  <2> SUFFICES ASSUME NEW n \in Paths
               PROVE  /\ before[n].kind = "dir" /\ archive[n].kind = "dir" => tree'[n].kind = "dir"
                      /\ tree'[n].kind \notin {"absent", "dir"} =>
                           \/ before[n].kind \notin {"absent", "dir"}
                           \/ archive[n].kind \in {"file", "link"}
    BY DEF Kept
  <2>1. /\ before[n].kind = "dir" /\ archive[n].kind = "dir" => tree[n].kind = "dir"
        /\ tree[n].kind \notin {"absent", "dir"} =>
             \/ before[n].kind \notin {"absent", "dir"}
             \/ archive[n].kind \in {"file", "link"}
    BY DEF Compared, Kept
  <2>2. CASE n = p
    BY <1>1, <1>6, <2>1, <2>2, EntryFacts
  <2>3. CASE tree'[n] = tree[n]
    BY <2>1, <2>3
  <2>4. CASE n \in Below(p) /\ archive[p].kind # "dir" /\ tree'[n] = Absent
    BY <1>5, <2>4, EntryFacts
  <2>5. CASE tree'[n] = Dir("default")
    BY <2>5, EntryFacts
  <2> QED
    BY <1>3, <2>2, <2>3, <2>4, <2>5
<1>9. AbsentStays'
  <2>1. (\A n \in Paths : Buried(n)' = Buried(n))
    BY DEF Buried
  <2> SUFFICES ASSUME NEW n \in Paths \ Named, before[n] # Absent, ~Buried(n)
               PROVE  \/ tree'[n] = before[n]
                      \/ before[n].kind = "dir" /\ tree'[n] = Dir("rule")
    BY <1>2, <2>1, Zenon DEF AbsentStays
  <2>2. n # p
    OBVIOUS
  <2>3. ~(n \in Below(p) /\ archive[p].kind # "dir")
    BY <1>1, <1>4 DEF Buried, Above
  <2>4. tree'[n] = tree[n]
    BY <1>3, <1>a, <2>2, <2>3
  <2> QED
    BY <2>4 DEF Compared, AbsentStays
<1>10. ModesKept'
  <2> SUFFICES ASSUME NEW n \in Paths, before[n].kind = "dir", tree'[n].kind = "dir",
                      tree'[n] # before[n]
               PROVE  tree'[n] = Dir("rule")
    BY DEF ModesKept
  <2>1. CASE tree'[n] = tree[n]
    BY <2>1 DEF Compared, ModesKept
  <2>2. CASE n = p /\ tree'[n] # tree[n]
    <3>1. archive[p].kind = "dir" => tree[p].kind = "dir"
      BY <1>1, <2>2 DEF Compared, Kept
    <3> QED
      BY <1>6, <2>2, <3>1
  <2>3. CASE tree'[n] = Absent
    BY <2>3, EntryFacts
  <2>4. CASE n \in Above(p) /\ tree[n] = Absent
    <3>1. tree[n].kind = "dir"
      BY <1>a, <2>4 DEF Compared, Kept
    <3> QED
      BY <2>4, <3>1, EntryFacts
  <2> QED
    BY <1>3, <2>1, <2>2, <2>3, <2>4
<1> QED
  BY <1>7, <1>8, <1>9, <1>10 DEF Compared

LEMMA StillCompared ==
  ASSUME Compared, UNCHANGED <<tree, archive, before, oldLink>>
  PROVE  Compared'
<1>1. Named' = Named /\ \A n \in Paths : Buried(n)' = Buried(n)
  BY DEF Named, Buried
<1>2. LinksMet' /\ Kept' /\ ModesKept'
  BY <1>1 DEF Compared, LinksMet, Kept, ModesKept
<1>3. AbsentStays'
  BY <1>1 DEF Compared, AbsentStays
<1> QED
  BY <1>2, <1>3 DEF Compared

LEMMA OldLinkCompared == oldLink' => Compared'
  BY DEF Compared, LinksMet, Kept, AbsentStays, ModesKept

LEMMA UploadCompared ==
  ASSUME Upload PROVE Compared'
<1> SUFFICES ASSUME ~oldLink' PROVE Compared'
  BY OldLinkCompared
<1>1. before' = tree' /\ ~LinkInTheWay(tree', archive')
  BY DEF Upload, LinkInTheWay
<1>2. LinksMet'
  BY <1>1 DEF LinksMet, LinkInTheWay, Named
<1>3. Kept' /\ ModesKept'
  BY <1>1 DEF Kept, ModesKept
<1>4. AbsentStays'
  BY <1>1 DEF AbsentStays
<1> QED
  BY <1>2, <1>3, <1>4 DEF Compared

\* A directory that mkdir makes, all or half of it, was not there before the
\* deployment either: what is laid, and what is kept, stands in its way.
LEMMA MadeCompared ==
  ASSUME Base, Compared, Laid, ~oldLink, pc = "mkdir",
         tree' \in Trees, Grown(tree, tree'), UNCHANGED <<archive, before, oldLink>>
  PROVE  Compared'
<1>1. archive \in Archives /\ tree \in Trees
  BY DEF Base, TypeOK, Trees
<1>2. ASSUME NEW n \in Paths
      PROVE  tree'[n] = tree[n] \/ (tree[n] = Absent /\ tree'[n] = Dir("default"))
  BY DEF Grown
<1>3. Named' = Named /\ \A n \in Paths : Buried(n)' = Buried(n)
  BY DEF Named, Buried
<1>4. Dir("default").kind = "dir" /\ Absent.kind = "absent" /\ Absent # Dir("rule")
  BY EntryFacts
<1>5. LinksMet'
  BY <1>2, <1>3, <1>4, UptoFacts DEF Compared, LinksMet, Named
<1>6. Kept'
  BY <1>2, <1>4 DEF Compared, Kept
<1>7. ASSUME NEW n \in Paths, n \notin Named, before[n] # Absent, ~Buried(n)
      PROVE  /\ tree'[n] = tree[n]
             /\ tree[n] = before[n] \/ (before[n].kind = "dir" /\ tree[n] = Dir("rule"))
  <2>1. tree[n] = before[n] \/ (before[n].kind = "dir" /\ tree[n] = Dir("rule"))
    BY <1>7 DEF Compared, AbsentStays
  <2>2. tree[n] # Absent
    BY <1>4, <1>7, <2>1
  <2> QED
    BY <1>2, <2>1, <2>2
<1>8. AbsentStays'
  BY <1>3, <1>7 DEF AbsentStays
<1>9. ModesKept'
  <2> SUFFICES ASSUME NEW n \in Paths, before[n].kind = "dir", tree'[n].kind = "dir",
                      tree'[n] # tree[n]
               PROVE  FALSE
    BY DEF ModesKept, Compared
  <2>1. tree[n] = Absent /\ tree'[n] # Absent /\ before[n] # Absent
    BY <1>2, <1>4
  <2>2. n \notin Named \/ archive[n].kind \in {"file", "link"}
    <3>1. archive[n].kind # "dir"
      BY <1>4, <2>1 DEF Compared, Kept
    <3> QED
      BY <1>1, <3>1, LayingFacts DEF Base
  \* Where the archive has a file or a link, at n or above it.
  <2>3. ASSUME NEW q \in Upto(n), archive[q].kind \in {"file", "link"} PROVE FALSE
    <3>1. q \in Paths /\ q \in Named
      BY <2>3, UptoFacts, EntryFacts DEF Named
    <3>2. tree'[q].kind = "dir"
      BY <2>1, RootedFacts DEF Trees, Above
    <3>3. tree[q].kind \in {"absent", "dir"}
      BY <1>2, <1>4, <3>1, <3>2
    <3>4. Installed(q)
      BY <3>1 DEF Laid
    <3>5. Whole(q)
      BY <2>3, <3>3, <3>4, EntryFacts DEF Installed
    <3>6. n \in {q} \cup Below(q)
      BY <2>3 DEF Below
    <3> QED
      BY <2>1, <3>3, <3>5, <3>6 DEF Whole
  <2>4. CASE n \in Named
    BY <2>2, <2>3, <2>4, UptoFacts
  <2>5. CASE n \notin Named
    <3>1. ~Buried(n)
      BY <2>3 DEF Buried
    <3> QED
      BY <1>7, <2>1, <2>5, <3>1
  <2> QED
    BY <2>4, <2>5
<1> QED
  BY <1>5, <1>6, <1>8, <1>9 DEF Compared

LEMMA ChmodCompared ==
  ASSUME Compared, ~oldLink,
         \A n \in Paths : tree'[n] = tree[n] \/ (tree[n].kind = "dir" /\ tree'[n] = Dir("rule")),
         UNCHANGED <<archive, before, oldLink>>
  PROVE  Compared'
<1>1. Dir("rule").kind = "dir"
  BY EntryFacts
<1>2. Named' = Named /\ \A n \in Paths : Buried(n)' = Buried(n)
  BY DEF Named, Buried
<1>3. LinksMet'
  BY <1>1, <1>2, UptoFacts DEF Compared, LinksMet, Named
<1>4. Kept' /\ ModesKept'
  BY <1>1 DEF Compared, Kept, ModesKept
<1>5. AbsentStays'
  BY <1>1, <1>2 DEF Compared, AbsentStays
<1> QED
  BY <1>3, <1>4, <1>5 DEF Compared

\* What a container changes counts as what was there.
LEMMA ContainerCompared ==
  ASSUME Base, Compared, ~oldLink', NEW p \in Mounted, ContainerWrites(p)
  PROVE  Compared'
<1>1. UNCHANGED archive /\ ~oldLink /\ ~LinkInTheWay(tree', archive)
  BY DEF ContainerWrites
<1>2. Named' = Named /\ \A n \in Paths : Buried(n)' = Buried(n)
  BY <1>1 DEF Named, Buried
<1>3. ASSUME NEW n \in Paths
      PROVE  tree'[n] = before'[n] \/ (tree'[n] = tree[n] /\ before'[n] = before[n])
  BY ContainerFacts
<1>4. LinksMet'
  BY <1>1, <1>2 DEF LinksMet, LinkInTheWay, Named
<1>5. Kept' /\ ModesKept'
  BY <1>1, <1>3 DEF Compared, Kept, ModesKept
<1>6. AbsentStays'
  BY <1>1, <1>2, <1>3 DEF Compared, AbsentStays
<1> QED
  BY <1>4, <1>5, <1>6 DEF Compared

LEMMA ComparedStep == Base /\ Compared /\ Laid /\ [Next]_vars => Compared'
<1> SUFFICES ASSUME Base, Compared, Laid, [Next]_vars PROVE Compared'
  OBVIOUS
<1>0. LinksMet /\ Work /\ tree \in Trees /\ todo \subseteq Paths
  BY DEF Compared, Base, TypeOK, Trees
<1>1. ASSUME UNCHANGED <<tree, archive, before, oldLink>> PROVE Compared'
  BY <1>1, StillCompared
<1>2. CASE Upload
  BY <1>2, UploadCompared
<1>3. CASE Deploy
  BY <1>1, <1>3 DEF Deploy
<1>4. CASE Check
  BY <1>1, <1>4 DEF Check, Goto, Fail, hist
<1>5. CASE OverlayEntry
  <2>1. UNCHANGED <<archive, before, oldLink>>
    BY <1>5 DEF OverlayEntry, Goto, Fail, hist
  <2> SUFFICES ASSUME ~oldLink, tree' # tree PROVE Compared'
    BY <1>1, <2>1, OldLinkCompared
  <2>2. PICK p \in todo : First(p, todo) /\ tree' \in Lay(tree, p)
    BY <1>5 DEF OverlayEntry, Fail
  <2>3. Touches(p, tree') /\ p \in Named
    BY <1>0, <1>5, <2>2, LayTouches, InPlace DEF OverlayEntry
  <2> QED
    BY <2>1, <2>3, TouchCompared
<1>6. CASE OverlayFault
  <2>1. UNCHANGED <<archive, before, oldLink>>
    BY <1>6 DEF OverlayFault, Break
  <2> SUFFICES ASSUME ~oldLink PROVE Compared'
    BY <2>1, OldLinkCompared
  <2>2. PICK p \in Named : Touches(p, tree')
    BY <1>0, <1>6, FaultTouches
  <2> QED
    BY <2>1, <2>2, TouchCompared
<1>7. CASE Recheck
  BY <1>1, <1>7 DEF Recheck, Goto, Fail, hist
<1>8. CASE MakeDirectory
  <2>1. UNCHANGED <<archive, before, oldLink>> /\ pc = "mkdir"
    BY <1>8 DEF MakeDirectory, Goto, Fail, hist
  <2> SUFFICES ASSUME ~oldLink, tree' # tree PROVE Compared'
    BY <1>1, <2>1, OldLinkCompared
  <2>2. PICK r \in todo : tree' \in mkdir(tree, r)
    BY <1>8 DEF MakeDirectory, Fail
  <2>3. tree' \in Trees /\ Grown(tree, tree')
    BY <1>0, <2>2, MkdirFacts
  <2> QED
    BY <2>1, <2>3, MadeCompared
<1>9. CASE RecheckAgain
  BY <1>1, <1>9 DEF RecheckAgain, Goto, Fail, hist
<1>10. CASE Chmod
  <2>1. UNCHANGED <<archive, before, oldLink>>
    BY <1>10 DEF Chmod, Goto, Fail, hist
  <2> SUFFICES ASSUME ~oldLink, tree' # tree PROVE Compared'
    BY <1>1, <2>1, OldLinkCompared
  <2>2. PICK r \in todo : /\ is_dir(tree, r) /\ ~is_symlink(tree, r)
                          /\ tree' = [tree EXCEPT ![Real(tree, r)] = Dir("rule")]
    BY <1>10 DEF Chmod, Fail
  <2>3. \A n \in Paths : tree'[n] = tree[n] \/ (tree[n].kind = "dir" /\ tree'[n] = Dir("rule"))
    BY <1>0, <2>2, ChmodFacts
  <2> QED
    BY <2>1, <2>3, ChmodCompared
<1>11. CASE RuleFault
  <2>1. UNCHANGED <<archive, before, oldLink>> /\ (tree' # tree => pc = "mkdir")
    BY <1>11 DEF RuleFault, Break
  <2> SUFFICES ASSUME ~oldLink, tree' # tree PROVE Compared'
    BY <1>1, <2>1, OldLinkCompared
  <2>2. tree' \in Trees /\ Grown(tree, tree')
    BY <1>11, RuleFaultFacts
  <2> QED
    BY <2>1, <2>2, MadeCompared
<1>12. CASE Finish
  BY <1>1, <1>12 DEF Finish, Break, hist
<1>13. ASSUME NEW p \in Mounted, ContainerWrites(p) PROVE Compared'
  BY <1>13, ContainerCompared, OldLinkCompared
<1>14. CASE UNCHANGED vars
  BY <1>1, <1>14 DEF vars, hist
<1> QED
  BY <1>2, <1>3, <1>4, <1>5, <1>6, <1>7, <1>8, <1>9, <1>10, <1>11, <1>12, <1>13, <1>14 DEF Next

-----------------------------------------------------------------------------
(* What has been laid stays.                                               *)

\* Directories that are made or chmodded take the place of nothing else.
LEMMA LaidKept ==
  ASSUME Base, NEW n \in Named, Installed(n), UNCHANGED <<archive, releases, before>>,
         written \subseteq written',
         \A m \in Paths : \/ tree'[m] = tree[m]
                          \/ tree[m].kind \in {"absent", "dir"} /\ tree'[m].kind = "dir"
  PROVE  Installed(n)'
<1>1. n \in Paths /\ archive[n].kind \in {"dir", "link", "file"}
  BY LayingFacts DEF Base
<1>2. \/ tree'[n] = tree[n]
      \/ tree[n].kind \in {"absent", "dir"} /\ tree'[n].kind = "dir"
  BY <1>1
<1>3. CASE archive[n].kind = "file" /\ tree[n] = File(releases, n)
  BY <1>2, <1>3, EntryFacts DEF Installed
<1>4. CASE archive[n].kind = "link" /\ tree[n] = archive[n]
  BY <1>2, <1>4 DEF Installed
<1>5. CASE archive[n].kind = "dir" /\ tree[n].kind = "dir"
  BY <1>2, <1>5 DEF Installed
<1>6. CASE n \in written /\ (archive[n].kind # "dir" => Whole(n))
  <2>1. ASSUME Whole(n) PROVE Whole(n)'
    <3> SUFFICES ASSUME tree'[n].kind \in {"absent", "dir"},
                        NEW m \in {n} \cup Below(n), before[m].kind = "dir"
                 PROVE  tree'[m] # Absent
      BY DEF Whole
    <3>1. m \in Paths
      BY <1>1, BelowFacts
    <3>2. tree[n].kind \in {"absent", "dir"}
      BY <1>2
    <3>3. tree[m] # Absent
      BY <2>1, <3>2 DEF Whole
    <3> QED
      BY <3>1, <3>3, EntryFacts
  <2> QED
    BY <1>6, <2>1 DEF Installed
<1> QED
  BY <1>3, <1>4, <1>5, <1>6 DEF Installed

\* Laying one entry leaves those laid before it.
LEMMA LaidBefore ==
  ASSUME Base, NEW p \in Named, Touches(p, tree'), NEW n \in Named, n \notin {p} \cup Below(p),
         Installed(n), UNCHANGED <<archive, releases, before, written>>
  PROVE  Installed(n)'
<1>1. /\ p \in Paths /\ n \in Paths /\ archive \in Archives
      /\ archive[n].kind \in {"dir", "link", "file"}
  BY LayingFacts DEF Base, TypeOK
<1>2. CASE n \in Upto(p)
  <2>1. n \in Above(p) /\ archive[n].kind = "dir"
    BY <1>1, <1>2, ArchiveFacts DEF Above, Named
  <2>2. tree'[n] = tree[n] \/ (tree[n] = Absent /\ tree'[n] = Dir("default"))
    BY <2>1 DEF Touches
  <2> QED
    BY <2>1, <2>2, EntryFacts DEF Installed
<1>3. CASE n \notin Upto(p)
  <2>1. ASSUME NEW m \in {n} \cup Below(n) PROVE tree'[m] = tree[m]
    <3>1. m \in Paths /\ n \in Upto(m)
      BY <1>1, UptoFacts, BelowFacts DEF Above
    <3>2. m \notin Upto(p)
      BY <1>1, <1>3, <3>1, PrefixOfPrefix
    <3>3. m \notin Below(p)
      <4> SUFFICES ASSUME m \in Below(p) PROVE FALSE
        OBVIOUS
      <4>1. p \in Upto(m)
        BY BelowFacts DEF Above
      <4>2. Len(p) \in Nat /\ Len(n) \in Nat
        BY <1>1, PathFacts
      <4>3. p \in Upto(n) \/ n \in Upto(p)
        BY <3>1, <4>1, <4>2, PrefixesInARow
      <4>4. n \in {p} \cup Below(p)
        BY <1>1, <1>3, <4>3 DEF Below
      <4> QED
        BY <4>4
    <3> QED
      BY <3>1, <3>2, <3>3 DEF Touches
  <2>2. Whole(n) => Whole(n)'
    BY <2>1 DEF Whole
  <2> QED
    BY <2>1, <2>2 DEF Installed
<1> QED
  BY <1>2, <1>3

\* What a container changes is not an entry to be laid again.
LEMMA LaidAndWritten ==
  ASSUME Base, NEW p \in Mounted, ContainerWrites(p), NEW n \in Named, Installed(n)
  PROVE  Installed(n)'
<1>1. n \in Paths /\ UNCHANGED <<archive, releases>> /\ written \subseteq written'
  BY DEF ContainerWrites, Named
<1>2. ASSUME NEW m \in Paths
      PROVE  tree'[m] = before'[m] \/ (tree'[m] = tree[m] /\ before'[m] = before[m])
  BY ContainerFacts
<1>3. CASE n \in {p} \cup Below(p)
  <2>1. ASSUME NEW m \in {n} \cup Below(n) PROVE tree'[m] = before'[m]
    <3>1. m \in {p} \cup Below(p)
      <4>1. CASE m = n
        BY <1>3, <4>1
      <4>2. CASE n = p
        BY <2>1, <4>2
      <4>3. CASE m \in Below(n) /\ n \in Below(p)
        <5>1. m \in Paths /\ n \in Above(m) /\ p \in Above(n)
          BY <4>3, BelowFacts
        <5>2. p \in Above(m)
          BY <5>1, AboveFacts
        <5> QED
          BY <5>1, <5>2, AboveFacts
      <4> QED
        BY <1>3, <2>1, <4>1, <4>2, <4>3
    <3> QED
      BY <3>1, ContainerFacts
  <2>2. Whole(n)'
    BY <2>1, EntryFacts DEF Whole
  <2>3. n \in written'
    BY <1>3, ContainerFacts
  <2> QED
    BY <2>2, <2>3 DEF Installed
<1>4. CASE n \notin {p} \cup Below(p)
  <2>1. tree'[n] = tree[n]
    BY <1>1, <1>4, ContainerFacts
  <2>2. ASSUME Whole(n) PROVE Whole(n)'
    <3> SUFFICES ASSUME tree'[n].kind \in {"absent", "dir"},
                        NEW m \in {n} \cup Below(n), before'[m].kind = "dir"
                 PROVE  tree'[m] # Absent
      BY DEF Whole
    <3>1. m \in Paths
      BY <1>1, BelowFacts
    <3> QED
      BY <1>2, <2>1, <2>2, <3>1, EntryFacts DEF Whole
  <2> QED
    BY <1>1, <2>1, <2>2 DEF Installed
<1> QED
  BY <1>3, <1>4

LEMMA LaidStep == Base /\ Compared /\ Laid /\ [Next]_vars => Laid'
<1> SUFFICES ASSUME Base, Compared, Laid, [Next]_vars, ~oldLink' PROVE Laid'
  BY DEF Laid
<1>0. /\ LinksMet /\ Work /\ tree \in Trees /\ todo \subseteq Paths
      /\ Absent.kind = "absent" /\ Dir("default").kind = "dir" /\ Dir("rule").kind = "dir"
  BY EntryFacts DEF Compared, Base, TypeOK, Trees
<1>1. ASSUME pc' \notin {"overlay", "mkdir", "chmod"}, result' # "ok" PROVE Laid'
  BY <1>1 DEF Laid
<1>2. Fail => Laid'
  BY <1>1 DEF Fail, End
\* A step that leaves all that was laid, when all was laid.
<1>3. ASSUME \A n \in Named : Installed(n) => Installed(n)', UNCHANGED <<archive, oldLink>>,
             pc' \in {"mkdir", "chmod"} \/ result' = "ok",
             \/ pc \in {"mkdir", "chmod"} \/ result = "ok"
             \/ pc = "overlay" /\ todo = {},
             pc' = "overlay" => pc = "overlay"
      PROVE  Laid'
  <2>1. Named' = Named
    BY <1>3 DEF Named
  <2>2. \A n \in Named : Installed(n)
    BY <1>3 DEF Laid
  <2>3. \A n \in Named' : Installed(n)'
    BY <1>3, <2>1, <2>2
  <2> QED
    BY <2>3 DEF Laid
<1>4. ASSUME UNCHANGED <<tree, archive, releases, before, written>>, NEW n \in Named, Installed(n)
      PROVE  Installed(n)'
  BY <1>4, LaidKept
<1>5. CASE Upload
  BY <1>0, <1>1, <1>5 DEF Upload
<1>6. CASE Deploy
  BY <1>1, <1>6 DEF Deploy
<1>7. CASE Check
  <2>1. ASSUME Goto("overlay", Named), pc = "check" PROVE Laid'
    BY <1>0, <2>1 DEF Goto, Laid, Named, Work
  <2> QED
    BY <1>2, <1>7, <2>1 DEF Check
<1>8. CASE OverlayEntry
  <2>1. ~oldLink /\ pc = "overlay" /\ result = "none"
    BY <1>0, <1>8 DEF OverlayEntry, Goto, Fail, hist, Work
  <2>2. PICK p \in todo : /\ First(p, todo)
                          /\ \/ Fail
                             \/ tree' \in Lay(tree, p) /\ Goto("overlay", todo \ {p})
    BY <1>8 DEF OverlayEntry
  <2>3. ASSUME tree' \in Lay(tree, p), Goto("overlay", todo \ {p}) PROVE Laid'
    <3>1. /\ UNCHANGED <<archive, releases, before, written, result>> /\ pc' = "overlay"
          /\ todo' = todo \ {p}
      BY <2>3 DEF Goto, counters, hist
    <3>2. /\ Touches(p, tree') /\ p \in Named
          /\ archive[p].kind = "dir" => tree'[p].kind = "dir"
          /\ archive[p].kind # "dir" => tree'[p] = Laying(p)
      BY <1>0, <2>1, <2>2, <2>3, LayTouches, InPlace
    <3>3. Installed(p)'
      <4>1. archive[p].kind \in {"dir", "link", "file"}
        BY <3>2, LayingFacts DEF Base
      <4> QED
        BY <3>1, <3>2, <4>1 DEF Installed, Laying
    <3>4. ASSUME NEW n \in Named, n \notin todo PROVE Installed(n)'
      <4>1. n \notin {p} \cup Below(p)
        BY <1>0, <2>1, <3>4 DEF Work, Below
      <4>2. Installed(n)
        BY <2>1, <3>4 DEF Laid
      <4> QED
        BY <3>1, <3>2, <4>1, <4>2, LaidBefore
    <3>5. Named' = Named
      BY <3>1 DEF Named
    <3> QED
      BY <2>1, <3>1, <3>3, <3>4, <3>5 DEF Laid
  <2> QED
    BY <1>2, <2>2, <2>3
<1>9. CASE OverlayFault
  BY <1>1, <1>9 DEF OverlayFault, Break, End
<1>10. CASE Recheck
  <2>1. ASSUME Goto("mkdir", rules), tree' = tree PROVE Laid'
    <3>1. /\ UNCHANGED <<tree, archive, releases, before, written, oldLink>> /\ pc' = "mkdir"
          /\ pc = "overlay" /\ todo = {}
      BY <1>10, <2>1 DEF Goto, counters, hist, Recheck
    <3> QED
      BY <1>3, <1>4, <3>1
  <2> QED
    BY <1>2, <1>10, <2>1 DEF Recheck
<1>11. CASE MakeDirectory
  <2>1. ASSUME NEW r \in todo, tree' \in mkdir(tree, r), Goto("mkdir", todo \ {r})
        PROVE  Laid'
    <3>1. /\ UNCHANGED <<archive, releases, before, written, oldLink>>
          /\ pc = "mkdir" /\ pc' = "mkdir"
      BY <1>11, <2>1 DEF Goto, counters, hist, MakeDirectory
    <3>2. Grown(tree, tree')
      BY <1>0, <2>1, MkdirFacts
    <3>3. \A n \in Named : Installed(n) => Installed(n)'
      BY <1>0, <3>1, <3>2, LaidKept DEF Grown
    <3> QED
      BY <1>3, <3>1, <3>3
  <2> QED
    BY <1>2, <1>11, <2>1 DEF MakeDirectory
<1>12. CASE RecheckAgain
  <2>1. ASSUME Goto("chmod", rules), tree' = tree PROVE Laid'
    <3>1. /\ UNCHANGED <<tree, archive, releases, before, written, oldLink>>
          /\ pc = "mkdir" /\ pc' = "chmod"
      BY <1>12, <2>1 DEF Goto, counters, hist, RecheckAgain
    <3> QED
      BY <1>3, <1>4, <3>1
  <2> QED
    BY <1>2, <1>12, <2>1 DEF RecheckAgain
<1>13. CASE Chmod
  <2>1. ASSUME NEW r \in todo, is_dir(tree, r), ~is_symlink(tree, r),
               tree' = [tree EXCEPT ![Real(tree, r)] = Dir("rule")], Goto("chmod", todo \ {r})
        PROVE  Laid'
    <3>1. /\ UNCHANGED <<archive, releases, before, written, oldLink>>
          /\ pc = "chmod" /\ pc' = "chmod"
      BY <1>13, <2>1 DEF Goto, counters, hist, Chmod
    <3>2. \A n \in Paths : tree'[n] = tree[n] \/ (tree[n].kind = "dir" /\ tree'[n] = Dir("rule"))
      BY <1>0, <2>1, ChmodFacts
    <3>3. \A n \in Named : Installed(n) => Installed(n)'
      BY <1>0, <3>1, <3>2, LaidKept
    <3> QED
      BY <1>3, <3>1, <3>3
  <2> QED
    BY <1>2, <1>13, <2>1 DEF Chmod
<1>14. CASE RuleFault
  BY <1>1, <1>14 DEF RuleFault, Break, End
<1>15. CASE Finish
  <2>1. ASSUME End("ok"), UNCHANGED <<tree, archive, rules, counters, hist>> PROVE Laid'
    <3>1. /\ UNCHANGED <<tree, archive, releases, before, written, oldLink>>
          /\ pc = "chmod" /\ pc' = "idle" /\ result' = "ok"
      BY <1>15, <2>1 DEF End, counters, hist, Finish
    <3> QED
      BY <1>3, <1>4, <3>1
  <2> QED
    BY <1>1, <1>15, <2>1 DEF Finish, Break, End
<1>16. ASSUME NEW p \in Mounted, ContainerWrites(p) PROVE Laid'
  <2>1. UNCHANGED <<archive, result, pc, todo>> /\ ~oldLink
    BY <1>16 DEF ContainerWrites
  <2>2. Named' = Named
    BY <2>1 DEF Named
  <2>3. \A n \in Named : Installed(n) => Installed(n)'
    BY <1>16, LaidAndWritten
  <2> QED
    BY <2>1, <2>2, <2>3 DEF Laid
<1>17. CASE UNCHANGED vars
  <2>1. UNCHANGED <<tree, archive, releases, before, written, oldLink, pc, todo, result>>
    BY <1>17 DEF vars, hist, counters
  <2>2. Named' = Named
    BY <2>1 DEF Named
  <2>3. \A n \in Named : Installed(n) => Installed(n)'
    BY <1>4, <2>1
  <2> QED
    BY <2>1, <2>2, <2>3 DEF Laid
<1> QED
  BY <1>5, <1>6, <1>7, <1>8, <1>9, <1>10, <1>11, <1>12, <1>13, <1>14, <1>15, <1>16, <1>17
  DEF Next

-----------------------------------------------------------------------------
(* Why a deployment fails.                                                 *)

\* Rules that were valid in the tree the archive met, and in the archive, are
\* valid in what the deployment has made of the two.
LEMMA ValidStays ==
  ASSUME Kept, ~oldLink, Valid(before, rules), Valid(archive, rules), rules \subseteq Paths
  PROVE  Valid(tree, rules)
<1> SUFFICES ASSUME NEW r \in rules, NEW p \in Upto(r)
             PROVE  tree[p].kind \in {"absent", "dir"}
  BY DEF Valid
<1>1. p \in Paths
  BY UptoFacts
<1>2. before[p].kind \in {"absent", "dir"} /\ archive[p].kind \in {"absent", "dir"}
  BY DEF Valid
<1> QED
  BY <1>1, <1>2 DEF Kept

\* No file, directory or link in the place of another stops the overlay.
LEMMA LayPossible ==
  ASSUME Base, LinksMet, Laid, ~oldLink, pc = "overlay", NEW p \in todo, First(p, todo),
         written = {}
  PROVE  Lay(tree, p) # {}
<1>1. /\ Turn(p) /\ p \in Paths /\ p # Nowhere /\ tree \in Trees /\ p \notin Above(p)
      /\ archive[p].kind \in {"dir", "link", "file"}
  BY TurnFacts, PathFacts DEF Turn, Above
<1>2. \A q \in Above(p) : tree[q].kind = "dir"
  BY InPlace
<1>3. archive[p].kind # "link" =>
        /\ tree[p].kind # "link" /\ ~is_symlink(tree, p)
        /\ is_dir(tree, p) <=> tree[p].kind = "dir"
        /\ exists(tree, p) <=> tree[p] # Absent
  BY <1>1, TurnKind DEF Turn
<1>4. CASE archive[p].kind = "dir" /\ is_dir(tree, p)
  BY <1>4 DEF Lay, LayDirectory
<1>5. CASE archive[p].kind # "dir" \/ ~is_dir(tree, p)
  <2>1. PICK c \in Clear(tree, p) : TRUE
    <3>1. Clear(tree, p) # {}
      BY <1>1, <1>3 DEF Clear
    <3> QED
      BY <3>1
  <2>2. /\ c \in Trees
        /\ \A q \in Above(p) : c[q] = tree[q]
        /\ c[p] \in {tree[p], Absent}
    <3>1. \A q \in Above(p) : q \in Paths /\ q \notin {p} \cup Below(p)
      BY <1>1, AboveFacts, BelowFacts
    <3> QED
      BY <1>1, <3>1, ClearTouches
  <2>3. archive[p].kind = "dir" => c[p] = Absent
    <3> SUFFICES ASSUME archive[p].kind = "dir", tree[p] # Absent PROVE c[p] = Absent
      BY <2>2
    <3>1. ~is_dir(tree, p) /\ exists(tree, p)
      BY <1>3, <1>5
    <3>2. c = Remove(tree, p)
      BY <2>1, <3>1 DEF Clear
    <3>3. Place(tree, p) = p
      BY <1>1, <1>2, PlainPlace
    <3> QED
      BY <1>1, <3>2, <3>3, ReplaceFacts DEF Remove
  <2> DEFINE m == MadeFor(p)
             v == Made(c, m)
  <2>4. /\ m \in Paths \cup {Root}
        /\ Upto(m) = IF archive[p].kind = "dir" THEN Upto(p) ELSE Above(p)
    BY <1>1, MadeForFacts, ParentFacts DEF MadeFor
  <2>5. Valid(c, {m})
    <3>1. ASSUME NEW q \in Upto(m) PROVE c[q].kind \in {"absent", "dir"}
      <4>1. CASE q \in Above(p)
        BY <1>2, <2>2, <4>1
      <4>2. CASE q = p /\ archive[p].kind = "dir"
        BY <2>3, <4>2, EntryFacts
      <4> QED
        BY <2>4, <3>1, <4>1, <4>2 DEF Above
    <3> QED
      BY <3>1 DEF Valid
  <2> HIDE DEF m
  <2>6. v \in mkdir(c, m)
    BY <2>2, <2>4, <2>5, MkdirPossible
  <2>7. /\ \A q \in Upto(m) : v[q].kind = "dir"
        /\ \A q \in Paths \ Upto(m) : v[q] = c[q]
    BY <2>2, <2>4, <2>5, MadeTree
  <2> HIDE DEF v
  <2>8. v \in Prepared(tree, p)
    BY <2>6 DEF Prepared, m
  <2>9. \A q \in Above(p) : v[q].kind = "dir"
    BY <2>4, <2>7 DEF Above
  <2>10. Place(v, p) = p
    BY <1>1, <2>9, PlainPlace
  <2>11. ASSUME archive[p].kind # "link" PROVE Real(v, p) = p
    <3>1. v[p].kind # "link"
      <4>1. CASE archive[p].kind = "dir"
        <5>1. p \in Upto(m)
          BY <1>1, <2>4, <4>1, UptoFacts
        <5> QED
          BY <2>7, <5>1
      <4>2. CASE archive[p].kind # "dir"
        <5>1. v[p] = c[p]
          BY <1>1, <2>4, <2>7, <4>2
        <5> QED
          BY <1>3, <2>2, <2>11, <5>1, EntryFacts
      <4> QED
        BY <4>1, <4>2
    <3>2. \A q \in Upto(p) : v[q].kind # "link"
      BY <2>9, <3>1 DEF Above
    <3> QED
      BY <1>1, <2>9, <3>2, PlainReal
  <2>12. CASE archive[p].kind = "link"
    <3>1. Replace(v, p, archive[p]) \in Put(v, Place(v, p), archive[p])
      BY <1>1, <2>10 DEF Put
    <3> QED
      BY <2>8, <2>12, <3>1 DEF Lay, LayLink
  <2>13. CASE archive[p].kind = "file"
    <3>1. Replace(v, p, File(releases, p)) \in Put(v, Real(v, p), File(releases, p))
      BY <1>1, <2>11, <2>13 DEF Put
    <3> QED
      BY <2>8, <2>13, <3>1 DEF Lay, LayFile
  <2>14. CASE archive[p].kind = "dir"
    <3>1. Replace(v, p, Dir("archive")) \in Put(v, Real(v, p), Dir("archive"))
      BY <1>1, <2>11, <2>14 DEF Put
    <3> QED
      BY <1>5, <2>8, <2>14, <3>1 DEF Lay, LayDirectory
  <2> QED
    BY <1>1, <2>12, <2>13, <2>14
<1> QED
  BY <1>4, <1>5

LEMMA FailStep == Base /\ Compared /\ Laid /\ FailsForAReason /\ [Next]_vars => FailsForAReason'
<1> SUFFICES ASSUME Base, Compared, Laid, FailsForAReason, [Next]_vars,
                    result' = "failed", written' = {}, ~faulty', ~oldLink',
                    Valid(before', rules'), Valid(archive', rules')
             PROVE  FALSE
  BY DEF FailsForAReason
<1>0. /\ LinksMet /\ Kept /\ Work /\ RulesMade
      /\ RulePaths \subseteq Paths /\ rules \subseteq Paths /\ tree \in Trees
  BY PathAssumption DEF Compared, Base, TypeOK, Trees
<1>1. ASSUME UNCHANGED <<archive, before, rules, result, written, faulty, oldLink>> PROVE FALSE
  BY <1>1 DEF FailsForAReason
<1>2. ASSUME NEW l, NEW work, Goto(l, work) PROVE FALSE
  BY <1>1, <1>2 DEF Goto, hist
\* In a step that goes on or gives up, the rules are valid wherever they are checked.
<1>3. ASSUME UNCHANGED <<archive, before, rules, oldLink>>
      PROVE  /\ ~oldLink /\ Valid(archive, rules) /\ Valid(tree, rules)
             /\ \A r \in rules : Valid(tree, {r})
  <2>1. ~oldLink /\ Valid(archive, rules) /\ Valid(before, rules)
    BY <1>3
  <2>2. Valid(tree, rules)
    BY <1>0, <2>1, ValidStays
  <2> QED
    BY <2>1, <2>2 DEF Valid
<1>4. CASE Upload \/ Deploy
  BY <1>4 DEF Upload, Deploy
<1>5. CASE Check
  <2>1. UNCHANGED <<archive, before, rules, oldLink>>
    BY <1>5 DEF Check, Goto, Fail, hist
  <2>2. Goto("overlay", Named)
    BY <1>3, <1>5, <2>1 DEF Check
  <2> QED
    BY <1>2, <2>2
<1>6. CASE OverlayEntry
  <2>1. UNCHANGED <<archive, before, rules, oldLink, written>> /\ pc = "overlay"
    BY <1>6 DEF OverlayEntry, Goto, Fail, hist
  <2>2. PICK p \in todo :
          First(p, todo) /\ (Lay(tree, p) # {} => Goto("overlay", todo \ {p}))
    BY <1>6 DEF OverlayEntry
  <2>3. Lay(tree, p) # {}
    BY <1>0, <1>3, <2>1, <2>2, LayPossible
  <2> QED
    BY <1>2, <2>2, <2>3
<1>7. CASE OverlayFault
  BY <1>7 DEF OverlayFault, Break
<1>8. CASE Recheck
  <2>1. UNCHANGED <<archive, before, rules, oldLink>>
    BY <1>8 DEF Recheck, Goto, Fail, hist
  <2>2. Goto("mkdir", rules)
    BY <1>3, <1>8, <2>1 DEF Recheck
  <2> QED
    BY <1>2, <2>2
<1>9. CASE MakeDirectory
  <2>1. UNCHANGED <<archive, before, rules, oldLink>> /\ pc = "mkdir"
    BY <1>9 DEF MakeDirectory, Goto, Fail, hist
  <2>2. PICK r \in todo : mkdir(tree, r) # {} => Goto("mkdir", todo \ {r})
    BY <1>9 DEF MakeDirectory
  <2>3. r \in rules /\ r \in Paths /\ Valid(tree, {r})
    BY <1>0, <1>3, <2>1 DEF Work
  <2>4. mkdir(tree, r) # {}
    BY <1>0, <2>3, MkdirPossible
  <2> QED
    BY <1>2, <2>2, <2>4
<1>10. CASE RecheckAgain
  <2>1. UNCHANGED <<archive, before, rules, oldLink>>
    BY <1>10 DEF RecheckAgain, Goto, Fail, hist
  <2>2. Goto("chmod", rules)
    BY <1>3, <1>10, <2>1 DEF RecheckAgain
  <2> QED
    BY <1>2, <2>2
<1>11. CASE Chmod
  <2>1. written = {} /\ pc = "chmod"
    BY <1>11 DEF Chmod, Goto, Fail, hist
  <2>2. PICK r \in todo :
          is_dir(tree, r) /\ ~is_symlink(tree, r) => Goto("chmod", todo \ {r})
    BY <1>11 DEF Chmod
  <2>3. /\ r \in Paths /\ r \in Upto(r)
        /\ \A q \in Upto(r) : tree[q].kind = "dir"
    BY <1>0, <2>1, UptoFacts DEF RulesMade, Work
  <2>4. Real(tree, r) = r /\ Place(tree, r) = r
    BY <2>3, PlainReal, PlainPlace DEF Above
  <2>5. Kind(tree, r) = tree[r].kind
    BY <2>3, <2>4, RealEntry
  <2>6. is_dir(tree, r) /\ ~is_symlink(tree, r)
    BY <2>3, <2>4, <2>5 DEF is_dir, is_symlink
  <2> QED
    BY <1>2, <2>2, <2>6
<1>12. CASE RuleFault
  BY <1>12 DEF RuleFault, Break
<1>13. CASE Finish
  BY <1>13 DEF Finish, Break, End
<1>14. ASSUME NEW p \in Mounted, ContainerWrites(p) PROVE FALSE
  BY <1>14 DEF ContainerWrites
<1>15. CASE UNCHANGED vars
  BY <1>1, <1>15 DEF vars, hist
<1> QED
  BY <1>4, <1>5, <1>6, <1>7, <1>8, <1>9, <1>10, <1>11, <1>12, <1>13, <1>14, <1>15 DEF Next

-----------------------------------------------------------------------------
(* The theorems.                                                           *)

LEMMA InitCompared == Init => Compared /\ Laid /\ FailsForAReason
<1> SUFFICES ASSUME Init PROVE Compared /\ Laid /\ FailsForAReason
  OBVIOUS
<1>1. tree = before /\ archive = tree /\ \A p \in Paths : tree[p] = Absent
  BY DEF Init
<1>2. Named = {}
  BY <1>1 DEF Named
<1>3. LinksMet /\ Kept /\ AbsentStays /\ ModesKept
  BY <1>1, <1>2, EntryFacts DEF LinksMet, Kept, AbsentStays, ModesKept
<1>4. Laid /\ FailsForAReason
  BY <1>2 DEF Init, Laid, FailsForAReason
<1> QED
  BY <1>3, <1>4 DEF Compared

\* In every state, as long as no link is in the way: what the tree is,
\* compared with the one the archive met, what has been laid, and why an
\* attempt failed.  One invariant, since laying an entry in its place relies
\* on the comparison and the comparison on where entries are laid.
THEOREM ComparedHolds == Spec => [](Compared /\ Laid /\ FailsForAReason)
<1>1. Base /\ Compared /\ Laid /\ FailsForAReason /\ [Next]_vars
      => (Compared /\ Laid /\ FailsForAReason)'
  BY ComparedStep, LaidStep, FailStep
<1> QED
  BY <1>1, InitCompared, BaseHolds, PTL DEF Spec

\* What the archive does not name stays as it was, after any number of
\* releases, attempts, faults half way and changes by containers
\* (overlay_directory and apply_directory_rules), for every tree of paths.
THEOREM AbsentStaysHolds == Spec => []AbsentStays
<1>1. Compared => AbsentStays
  BY DEF Compared
<1> QED
  BY <1>1, ComparedHolds, PTL

\* Once overlay_directory is through, the tree has what the archive has,
\* whatever earlier attempts left half done, except what containers changed.
THEOREM ArchiveInstalledHolds == Spec => []ArchiveInstalled
<1>1. Laid => ArchiveInstalled
  BY DEF Laid, ArchiveInstalled, Installed
<1> QED
  BY <1>1, ComparedHolds, PTL

\* apply_directory_rules sets the mode of no directory that no rule names,
\* whatever containers replace by links before its second validation, and
\* after it unless they put a link above a directory still to chmod; and
\* nothing else changes the mode of a directory that was there.
THEOREM ModesOnlyByRulesHolds == Spec => []ModesOnlyByRules
<1>1. Base /\ Compared => ModesOnlyByRules
  BY DEF Base, RuleModes, Compared, ModesKept, ModesOnlyByRules
<1> QED
  BY <1>1, BaseHolds, ComparedHolds, PTL

\* A deployment that is not reported failed has set the mode of every
\* directory its rules name, unless a container changed it or one above it.
THEOREM RulesAppliedHolds == Spec => []RulesApplied
<1>1. Base => RulesApplied
  BY DEF Base
<1> QED
  BY <1>1, BaseHolds, PTL

\* deploy() never fails over files, directories and links in one another's
\* place: every entry of the archive can be laid, and rules that were valid in
\* the archive and in the tree stay valid, and can be made, to the end.
THEOREM FailsForAReasonHolds == Spec => []FailsForAReason
  BY ComparedHolds, PTL
=============================================================================
