------------------------------- MODULE Overlay -------------------------------
(***************************************************************************)
(* The stable directory of an application: what deploy() does to its tree  *)
(* (artifacts.py, deployment_config.py).  The extracted archive is laid    *)
(* over it entry by entry, in sorted order, then the directory rules are   *)
(* validated, the missing directories made and the named ones chmodded.    *)
(* The containers of the last release go on writing into it meanwhile, and *)
(* may remove or replace what they have mounted, also by a link.           *)
(*                                                                         *)
(* A path is a sequence of names, a name a number in sort order.  A file   *)
(* is known by the release and the path it came from, the mode of a        *)
(* directory by who set it.  One entry, or one rule, is one step; a step   *)
(* may fail half way.  The application lock allows one deployment at a     *)
(* time.                                                                   *)
(***************************************************************************)
EXTENDS Naturals, Sequences

CONSTANTS
  Paths,        \* paths below the root, with the parent of each
  RulePaths,    \* those a directory rule may name
  LinkTargets,  \* those a symbolic link of an archive or a container may name
  Mounted,      \* those that containers may make, replace and remove
  MaxReleases,  \* bound: archives deployed one after the other
  MaxWrites,    \* bound: writes by containers
  MaxFaults     \* bound: steps that fail half way

Root      == <<>>
Parent(p) == SubSeq(p, 1, Len(p) - 1)
Upto(p)   == {SubSeq(p, 1, n) : n \in 1..Len(p)}
Below(p)  == {q \in Paths : p \in Upto(q) \ {q}}
Name(p)   == p[Len(p)]

ASSUME PathAssumption ==
  /\ Paths \subseteq Seq(Nat \ {0})
  /\ \A p \in Paths : p # Root /\ Upto(p) \subseteq Paths
  /\ RulePaths \subseteq Paths
  /\ LinkTargets \subseteq Paths
  /\ Mounted \subseteq Paths
  /\ MaxReleases \in Nat /\ MaxWrites \in Nat /\ MaxFaults \in Nat

VARIABLES
  tree,      \* the stable directory
  archive,   \* the extracted directory of the task
  rules,     \* effective_directory_rules of the task: the directories named
  pc,        \* next step of deploy()
  todo,      \* entries or rules the step has still to go through
  result,    \* of the last attempt
  releases, writes, faults,
  before,    \* history: the tree when the archive came, and what containers wrote since
  oldLink,   \* history: whether there was an old link in the way of the archive then
  ruled,     \* history: every directory any rule has named
  written,   \* history: paths containers changed since the archive came
  swapped,   \* history: whether a container put a link above a directory still to chmod
  faulty     \* history: whether a step failed half way since then

counters == <<releases, writes, faults>>
hist     == <<before, oldLink, ruled, written, swapped, faulty>>
vars == <<tree, archive, rules, pc, todo, result, counters, hist>>

Absent       == [kind |-> "absent"]
Dir(m)       == [kind |-> "dir", mode |-> m]
File(r, p)   == [kind |-> "file", release |-> r, path |-> p]
Torn         == [kind |-> "torn"]
Link(p)      == [kind |-> "link", to |-> p]
Modes        == {"archive", "default", "rule", "container"}
Entries      == {Absent, Torn} \cup {Dir(m) : m \in Modes} \cup {Link(p) : p \in Paths}
                  \cup {File(r, p) : r \in 0..MaxReleases, p \in Paths}
PC           == {"idle", "check", "overlay", "recheck", "mkdir", "chmod"}

-----------------------------------------------------------------------------
(* Path names and symbolic links.                                          *)

Nowhere == <<0>>

At(t, p) == IF p = Root THEN Dir("default") ELSE t[p]

\* A path with the first symbolic link on it replaced by what that names.
Links(t, p) == {q \in Upto(p) \cap Paths : t[q].kind = "link"}

Follow(t, p) ==
  IF Links(t, p) = {} THEN p
  ELSE LET q == CHOOSE q \in Links(t, p) : \A r \in Links(t, p) : Len(q) <= Len(r)
       IN  t[q].to \o SubSeq(p, Len(q) + 1, Len(p))

\* Two links lead no further, which ends those that go in a circle.
Resolve(t, p) == Follow(t, Follow(t, p))

\* The entry a path leads to, links in its parents and in itself followed;
\* Nowhere when a parent is missing or is no directory.
Real(t, p) ==
  LET q == Resolve(t, p)
  IN  IF /\ q \in Paths \cup {Root}
         /\ Links(t, q) = {}
         /\ \A r \in Upto(q) \ {q} : t[r].kind = "dir"
        THEN q ELSE Nowhere

\* The entry itself: only links in the parents are followed.
Place(t, p) ==
  LET up == Real(t, Parent(p))
  IN  IF up = Nowhere THEN Nowhere
      ELSE IF At(t, up).kind = "dir" /\ Append(up, Name(p)) \in Paths
             THEN Append(up, Name(p)) ELSE Nowhere

\* Path.exists, is_dir and is_symlink.
Kind(t, p)       == IF Real(t, p) = Nowhere THEN "absent" ELSE At(t, Real(t, p)).kind
exists(t, p)     == Kind(t, p) # "absent"
is_dir(t, p)     == Kind(t, p) = "dir"
is_symlink(t, p) == Place(t, p) # Nowhere /\ t[Place(t, p)].kind = "link"

\* unlink or shutil.rmtree, then something new in its place.
Replace(t, q, e) ==
  [r \in Paths |-> IF r = q THEN e ELSE IF r \in Below(q) THEN Absent ELSE t[r]]

\* rmtree of a directory, or unlink of anything else, links included.
Remove(t, p) == Replace(t, Place(t, p), Absent)

Put(t, q, e) == IF q = Nowhere THEN {} ELSE {Replace(t, q, e)}

-----------------------------------------------------------------------------
(* Directory rules, and making directories.  A call that may raise is the  *)
(* set of the trees it may leave: none when it raises.                     *)

\* validate_directory_targets.
Valid(t, rs) == \A r \in rs : \A p \in Upto(r) : t[p].kind \in {"absent", "dir"}

Made(t, q) ==
  [p \in Paths |-> IF p \in Upto(q) /\ t[p] = Absent THEN Dir("default") ELSE t[p]]

\* Path.mkdir(parents=True): links to directories are followed, a file or a
\* link that leads nowhere makes it raise.
mkdir(t, p) ==
  LET q == Resolve(t, p)
  IN  IF /\ q \in Paths \cup {Root} /\ Valid(t, {q})
         /\ \A r \in Upto(p) : is_symlink(t, r) => is_dir(t, r)
        THEN {Made(t, q)} ELSE {}

\* The same, broken off: as if only some directory above had been asked for.
Making(t, p) == UNION {mkdir(t, r) : r \in Upto(p) \cup {Root}}

-----------------------------------------------------------------------------
(* overlay_directory.                                                      *)

\* What is in the way of an entry is removed: anything when a link is to be
\* laid, a directory for a file (rmtree refuses a link to one), the opposite
\* for a directory.
Clear(t, p) ==
  IF archive[p].kind = "file" /\ is_dir(t, p) /\ is_symlink(t, p) THEN {}
  ELSE IF \/ archive[p].kind = "link"
          \/ exists(t, p) /\ (is_dir(t, p) <=> archive[p].kind = "file")
    THEN {Remove(t, p)} ELSE {t}

\* Then mkdir: of a directory itself, of the parent of a file or link.
MadeFor(p)     == IF archive[p].kind = "dir" THEN p ELSE Parent(p)
Prepared(t, p) == UNION {mkdir(c, MadeFor(p)) : c \in Clear(t, p)}

\* Mutant: the directory of the archive takes the place of the one there.
Mut_FreshDirectory(t, p) ==
  UNION {Put(v, Real(v, p), Dir("archive")) : v \in mkdir(Remove(t, p), p)}

\* Mutant: a file in the place of a directory is not unlinked.
Mut_NoUnlink(t, p) ==
  IF is_dir(t, p) THEN {t}
  ELSE UNION {Put(v, Real(v, p), Dir("archive")) : v \in mkdir(t, p)}

LayDirectory(t, p) ==
  IF is_dir(t, p) THEN {t}
  ELSE UNION {Put(v, Real(v, p), Dir("archive")) : v \in Prepared(t, p)}

LayLink(t, p) == UNION {Put(v, Place(v, p), archive[p]) : v \in Prepared(t, p)}

\* Mutant: a file that is there already is kept.
Mut_KeepExisting(t, p) ==
  IF Kind(t, p) = "file" THEN {t}
  ELSE UNION {Put(v, Real(v, p), File(releases, p)) : v \in Prepared(t, p)}

\* copy2 writes through a link.
LayFile(t, p) == UNION {Put(v, Real(v, p), File(releases, p)) : v \in Prepared(t, p)}

Lay(t, p) ==
  IF archive[p].kind = "dir" THEN LayDirectory(t, p)
  ELSE IF archive[p].kind = "link" THEN LayLink(t, p)
  ELSE LayFile(t, p)

\* The disk is full, a call is refused.  rmtree has removed some of what is
\* below a directory; the directories are made, some or all, the last without
\* its mode; a file is copied in part, or without its times.
Without(t, S) == [r \in Paths |-> IF \E s \in S : r \in {s} \cup Below(s) THEN Absent ELSE t[r]]

PartRemoved(t, p) ==
  IF archive[p].kind # "dir" /\ is_dir(t, p) /\ ~is_symlink(t, p)
    THEN {Without(t, S) : S \in SUBSET Below(Real(t, p))} ELSE {}

PartMade(t, p) == UNION {Making(c, MadeFor(p)) : c \in Clear(t, p)}

PartCopied(t, p) ==
  IF archive[p].kind = "file"
    THEN {Replace(v, Real(v, p), e) : v \in Prepared(t, p), e \in {Torn, File(releases, p)}}
    ELSE {}

HalfLaid(t, p) == {t} \cup PartRemoved(t, p) \cup PartMade(t, p) \cup PartCopied(t, p)

\* sorted(source.rglob("*")): a directory before what is in it.
Before(p, q) ==
  p # q /\ (p \in Upto(q)
            \/ \E n \in 1..Len(p) \cap 1..Len(q) :
                 p[n] < q[n] /\ \A m \in 1..(n - 1) : p[m] = q[m])

First(p, S) == \A q \in S \ {p} : Before(p, q)
Named       == {p \in Paths : archive[p] # Absent}

-----------------------------------------------------------------------------
\* What is there is in a directory.
Rooted(t) == \A p \in Paths : t[p] # Absent => \A q \in Upto(p) \ {p} : t[q].kind = "dir"

\* The trees an archive can hold once it is extracted and reviewed.
Archives ==
  {a \in [Paths -> {Absent, Dir("archive")} \cup {Link(p) : p \in LinkTargets}
                     \cup {[kind |-> "file"]}] :
     /\ Rooted(a)
     /\ \A p \in Paths : a[p].kind = "link" => a[p].to \notin {p} \cup Below(p)}

\* The archive names, or goes through, a symbolic link of the stable directory,
\* other than to put a link of its own there.
LinkInTheWay(t, a) ==
  \E p \in Paths : \E q \in Upto(p) :
    a[p] # Absent /\ t[q].kind = "link" /\ ~(q = p /\ a[p].kind = "link")

Init ==
  /\ tree = [p \in Paths |-> Absent]
  /\ archive = [p \in Paths |-> Absent]
  /\ rules = {}
  /\ pc = "idle"
  /\ todo = {}
  /\ result = "none"
  /\ releases = 0 /\ writes = 0 /\ faults = 0
  /\ before = tree /\ oldLink = FALSE
  /\ ruled = {}
  /\ written = {}
  /\ swapped = FALSE
  /\ faulty = FALSE

\* A new archive is uploaded and reviewed.
Upload ==
  /\ pc = "idle"
  /\ releases < MaxReleases
  /\ releases' = releases + 1
  /\ archive' \in Archives
  /\ before' = tree /\ oldLink' = LinkInTheWay(tree, archive')
  /\ result' = "none"
  /\ written' = {}
  /\ faulty' = FALSE
  /\ UNCHANGED <<tree, rules, pc, todo, writes, faults, ruled, swapped>>

\* deploy() begins, also for a retry; the rules may have been edited before.
Deploy ==
  /\ pc = "idle"
  /\ releases > 0
  /\ result # "ok"
  /\ rules' \in SUBSET RulePaths
  /\ ruled' = ruled \cup rules'
  /\ pc' = "check"
  /\ result' = "none"
  /\ UNCHANGED <<tree, archive, todo, counters, before, oldLink, written, swapped, faulty>>

End(r) ==
  /\ pc' = "idle"
  /\ todo' = {}
  /\ result' = r

\* The attempt is over and the task failed; what was done stays done.
Fail == End("failed") /\ UNCHANGED <<tree, archive, rules, counters, hist>>

Goto(l, work) ==
  /\ pc' = l
  /\ todo' = work
  /\ UNCHANGED <<archive, rules, result, counters, hist>>

\* validate_directory_targets of the archive and of the stable directory.
Check ==
  /\ pc = "check"
  /\ IF Valid(archive, rules) /\ Valid(tree, rules)
       THEN Goto("overlay", Named) /\ UNCHANGED tree
       ELSE Fail

OverlayEntry ==
  /\ pc = "overlay"
  /\ \E p \in todo :
       /\ First(p, todo)
       /\ IF Lay(tree, p) = {} THEN Fail
          ELSE tree' \in Lay(tree, p) /\ Goto("overlay", todo \ {p})

\* An operation fails: the attempt is over, with something half done.
Break(trees) ==
  /\ faults < MaxFaults
  /\ faults' = faults + 1
  /\ tree' \in trees
  /\ End("failed")
  /\ faulty' = TRUE
  /\ UNCHANGED <<archive, rules, releases, writes, before, oldLink, ruled, written, swapped>>

OverlayFault ==
  /\ pc = "overlay"
  /\ \E p \in todo : First(p, todo) /\ Break(HalfLaid(tree, p))

\* apply_directory_rules validates before and after it makes directories.
Recheck ==
  /\ pc = "overlay" /\ todo = {}
  /\ IF Valid(tree, rules) THEN Goto("mkdir", rules) /\ UNCHANGED tree ELSE Fail

MakeDirectory ==
  /\ pc = "mkdir"
  /\ \E r \in todo :
       IF mkdir(tree, r) = {} THEN Fail
       ELSE tree' \in mkdir(tree, r) /\ Goto("mkdir", todo \ {r})

\* Mutant: what containers did while directories were made is not looked at.
Mut_RecheckAgain ==
  /\ pc = "mkdir" /\ todo = {}
  /\ Goto("chmod", rules) /\ UNCHANGED tree

RecheckAgain ==
  /\ pc = "mkdir" /\ todo = {}
  /\ IF Valid(tree, rules) THEN Goto("chmod", rules) /\ UNCHANGED tree ELSE Fail

\* Mutant: only the directories that mkdir made are chmodded.
Mut_Chmod ==
  /\ pc = "chmod"
  /\ \E r \in todo :
       /\ \A s \in todo : Len(s) <= Len(r)
       /\ IF is_dir(tree, r) /\ ~is_symlink(tree, r)
            THEN /\ tree' = IF tree[r] = Dir("default")
                              THEN [tree EXCEPT ![Real(tree, r)] = Dir("rule")] ELSE tree
                 /\ Goto("chmod", todo \ {r})
            ELSE Fail

\* Deepest first; the target is opened without following a link that it may
\* be itself.  One above it is followed.
Chmod ==
  /\ pc = "chmod"
  /\ \E r \in todo :
       /\ \A s \in todo : Len(s) <= Len(r)
       /\ IF is_dir(tree, r) /\ ~is_symlink(tree, r)
            THEN /\ tree' = [tree EXCEPT ![Real(tree, r)] = Dir("rule")]
                 /\ Goto("chmod", todo \ {r})
            ELSE Fail

\* Looking at, making or opening a directory of a rule is refused.
RuleFault ==
  \/ pc \in {"check", "chmod"} /\ Break({tree})
  \/ pc = "overlay" /\ todo = {} /\ Break({tree})
  \/ pc = "mkdir" /\ Break({tree} \cup UNION {Making(tree, r) : r \in todo})

\* docker load and docker compose up follow; they may fail as well.
Finish ==
  /\ pc = "chmod" /\ todo = {}
  /\ \/ /\ End("ok")
        /\ UNCHANGED <<tree, archive, rules, counters, hist>>
     \/ Break({tree})

\* A container changes an entry where it has one mounted: a file, a directory
\* or a link takes the place of what was there, or nothing does.
ContainerWrites(p) ==
  /\ writes < MaxWrites
  /\ writes' = writes + 1
  /\ \A q \in Upto(p) \ {p} : tree[q].kind = "dir"
  /\ \E e \in {Absent, File(0, p), Dir("container")} \cup {Link(q) : q \in LinkTargets} :
       /\ e # tree[p]
       /\ tree' = Replace(tree, p, e)
       /\ before' = Replace(before, p, e)
  /\ written' = written \cup {p} \cup Below(p)
  /\ oldLink' = (oldLink \/ LinkInTheWay(tree', archive))
  /\ swapped' = \/ swapped
                \/ pc = "chmod" /\ \E r \in todo : \E q \in Upto(r) \ {r} : tree'[q].kind = "link"
  /\ UNCHANGED <<archive, rules, pc, todo, result, releases, faults, ruled, faulty>>

Next ==
  \/ Upload \/ Deploy \/ Check \/ OverlayEntry \/ OverlayFault \/ Recheck
  \/ MakeDirectory \/ RecheckAgain \/ Chmod \/ RuleFault \/ Finish
  \/ \E p \in Mounted : ContainerWrites(p)

Spec == Init /\ [][Next]_vars

-----------------------------------------------------------------------------
(* Properties *)

TypeOK ==
  /\ tree \in [Paths -> Entries] /\ before \in [Paths -> Entries]
  /\ Rooted(tree)
  /\ archive \in Archives
  /\ rules \subseteq RulePaths /\ ruled \subseteq RulePaths
  /\ pc \in PC
  /\ todo \subseteq Paths
  /\ result \in {"none", "ok", "failed"}
  /\ releases \in 0..MaxReleases /\ writes \in 0..MaxWrites /\ faults \in 0..MaxFaults
  /\ written \subseteq Paths
  /\ oldLink \in BOOLEAN /\ swapped \in BOOLEAN /\ faulty \in BOOLEAN

\* A file or link of the archive stands where a directory above p was.
Buried(p) == \E q \in Upto(p) \ {p} : archive[q].kind \in {"file", "link"}

\* Whatever the archive does not name stays as it was (a directory may get the
\* mode of a rule), during the deployment, after it and after a failure half
\* way: unless the archive has a file or a link in the place of a directory
\* above it, or a link of the tree is in the way of the archive.
AbsentStays ==
  ~oldLink =>
    \A p \in Paths \ Named :
      before[p] # Absent /\ ~Buried(p) =>
        \/ tree[p] = before[p]
        \/ before[p].kind = "dir" /\ tree[p] = Dir("rule")

\* Once the overlay is through, what the archive names is what the archive
\* has, also when earlier attempts broke off: unless an old link was in the
\* way, or a container has changed it since.
ArchiveInstalled ==
  (pc \in {"mkdir", "chmod"} \/ result = "ok") /\ ~oldLink =>
    \A p \in Named \ written :
      \/ archive[p].kind = "file" /\ tree[p] = File(releases, p)
      \/ archive[p].kind = "link" /\ tree[p] = archive[p]
      \/ archive[p].kind = "dir" /\ tree[p].kind = "dir"

\* A rule changes no directory that it does not name, whatever links there
\* are and whatever containers replace up to the second validation; after it,
\* unless a container puts a link above a directory still to chmod.  And a
\* directory that was there keeps its mode unless a rule names it (or an old
\* link in the way has led a file there first).
ModesOnlyByRules ==
  \A p \in Paths :
    /\ tree[p] = Dir("rule") /\ ~swapped => p \in ruled
    /\ before[p].kind = "dir" /\ tree[p].kind = "dir" /\ tree[p] # before[p] =>
         tree[p] = Dir("rule") \/ oldLink

\* A deployment that is not reported failed has set the mode of every rule, on
\* what the archive, an earlier attempt or mkdir left there: unless a
\* container has changed the directory, or one above it, since.
RulesApplied ==
  result = "ok" =>
    \A r \in rules : Upto(r) \cap written = {} => tree[r] = Dir("rule")

\* Files, directories and links in one another's place do not make a
\* deployment fail: without a fault or a container's change it fails only
\* over a rule, or over an old link that the archive names or goes through.
FailsForAReason ==
  result = "failed" /\ written = {} /\ ~faulty =>
    \/ ~Valid(before, rules) \/ ~Valid(archive, rules)
    \/ oldLink
=============================================================================
