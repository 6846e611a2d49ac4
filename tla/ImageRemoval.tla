---------------------------- MODULE ImageRemoval ----------------------------
(***************************************************************************)
(* ImageInventoryService (image_inventory.py): the removal of whole images *)
(* in a batch and the removal of the unused tags of one image, as request  *)
(* threads that share the Docker daemon with each other and with the       *)
(* deployments of the same process (docker load, docker compose up).       *)
(*                                                                         *)
(* Every Docker call is a step of its own: what a request has read may be  *)
(* stale when it acts.  The service locks by image id; deployments and     *)
(* other Docker clients take no such lock.  Docker may refuse or fail any  *)
(* call; the call then has no effect.                                      *)
(***************************************************************************)
EXTENDS Naturals, FiniteSets

CONSTANTS
  Images, Tags, Workers,
  NoImage, NoTag, Free,
  PageSize,        \* PAGE_SIZE, 20 in the code
  MaxPage,         \* bound: pages a client asks for
  MaxLoads,        \* bound: docker loads by deployments
  MaxContainers    \* bound: containers at a time

ASSUME NullAssumption ==
  /\ IsFiniteSet(Images)
  /\ Images \cap Tags = {}
  /\ NoImage \notin Images \cup Tags
  /\ NoTag \notin Tags
  /\ Free \notin Workers

ASSUME BoundAssumption ==
  /\ PageSize \in Nat \ {0}
  /\ MaxPage \in Nat \ {0}
  /\ MaxLoads \in Nat
  /\ MaxContainers \in Nat

VARIABLES
  exists,      \* Docker: the images present
  tagOf,       \* Docker: the image a tag names
  containers,  \* Docker: containers, running or not: image id and the reference used
  lock,        \* _locks: the worker inside the lock of an image, or Free
  pc,          \* per worker: next step
  target,      \* the image under the lock (or about to be)
  item,        \* the tag being removed
  asked,       \* the image ids of a batch
  todo,        \* image ids or tags the loop has still to visit
  report,      \* the result lists
  page,        \* the page the answer suggests
  seen,        \* how many images the listing behind the suggestion showed
  loads,       \* docker loads so far
  known,       \* history: containers a tag removal listed, created from a tag of its
               \* image, and still there
  loaded       \* history: images and tags a deployment loaded

docker == <<exists, tagOf, containers>>
hist   == <<loads, known, loaded>>
locals == <<target, item, asked, todo, report, page, seen>>
vars == <<docker, lock, pc, locals, hist>>

Refs    == Images \cup Tags
Bucket  == {"deleted", "in_use", "missing", "failed", "skipped", "retained"}
Empty   == [b \in Bucket |-> {}]
BatchPC == {"b_preview", "b_next", "b_lock", "b_inspect", "b_refs", "b_remove"}
TagsPC  == {"t_lock", "t_inspect", "t_refs", "t_loop", "t_remove"}
HoldPC  == {"b_inspect", "b_refs", "b_remove", "t_inspect", "t_refs", "t_loop", "t_remove"}
PC      == {"idle", "done"} \cup BatchPC \cup TagsPC

-----------------------------------------------------------------------------
(* The Docker calls (docker_runtime.py).                                   *)

\* images.get: by id or by tag.
Resolve(ref) ==
  IF ref \in Images THEN (IF ref \in exists THEN ref ELSE NoImage) ELSE tagOf[ref]

TagsOf(i) == {t \in Tags : tagOf[t] = i}
InUse(i)  == \E c \in containers : c.image = i

\* Mutant: containers are matched by image id.
Mut_UsedById == {c.image : c \in containers}

\* _used_tag_references: by the reference a container was created from.
UsedTags == {c.ref : c \in containers}

\* images.remove takes the tag, or the image id with all its tags; without
\* its last tag the image goes too.
TagsTaken(ref)  == IF ref \in Images THEN TagsOf(ref) ELSE {ref}
ImageTaken(ref) ==
  IF TagsOf(Resolve(ref)) \subseteq TagsTaken(ref) THEN {Resolve(ref)} ELSE {}

\* Mutant: force=True.
Mut_Forced(ref) == FALSE

\* force=False: Docker refuses to take an image that a container has.
Refused(ref) == \E i \in ImageTaken(ref) : InUse(i)

remove_image(ref) ==
  /\ Resolve(ref) # NoImage
  /\ ~Refused(ref)
  /\ tagOf' = [t \in Tags |-> IF t \in TagsTaken(ref) THEN NoImage ELSE tagOf[t]]
  /\ exists' = exists \ ImageTaken(ref)
  /\ UNCHANGED containers

-----------------------------------------------------------------------------
Init ==
  /\ exists \in SUBSET Images
  /\ tagOf \in [Tags -> exists \cup {NoImage}]
  /\ containers = {}
  /\ lock = [i \in Images |-> Free]
  /\ pc = [w \in Workers |-> "idle"]
  /\ target = [w \in Workers |-> NoImage]
  /\ item = [w \in Workers |-> NoTag]
  /\ asked = [w \in Workers |-> {}]
  /\ todo = [w \in Workers |-> {}]
  /\ report = [w \in Workers |-> Empty]
  /\ page = [w \in Workers |-> 1]
  /\ seen = [w \in Workers |-> 0]
  /\ loads = 0
  /\ known = [w \in Workers |-> {}]
  /\ loaded = {}

Goto(w, l) == pc' = [pc EXCEPT ![w] = l]

\* Mutant: the lock of the image is not waited for.
Mut_NoLock(w, l) ==
  /\ lock' = [lock EXCEPT ![target[w]] = w]
  /\ Goto(w, l)
  /\ UNCHANGED <<docker, locals, hist>>

\* `with self._lock_for(image_id)`.
Acquire(w, l) ==
  /\ lock[target[w]] = Free
  /\ lock' = [lock EXCEPT ![target[w]] = w]
  /\ Goto(w, l)
  /\ UNCHANGED <<docker, locals, hist>>

Release(w) == lock' = [lock EXCEPT ![target[w]] = Free]

\* The response is sent, or the handler raised (404, 409 or 503).
Finish(w) ==
  /\ Goto(w, "idle")
  /\ target' = [target EXCEPT ![w] = NoImage]
  /\ item' = [item EXCEPT ![w] = NoTag]
  /\ asked' = [asked EXCEPT ![w] = {}]
  /\ todo' = [todo EXCEPT ![w] = {}]
  /\ report' = [report EXCEPT ![w] = Empty]
  /\ page' = [page EXCEPT ![w] = 1]
  /\ seen' = [seen EXCEPT ![w] = 0]
  /\ known' = [known EXCEPT ![w] = {}]
  /\ UNCHANGED <<loads, loaded>>

Put(w, b, x) == report' = [report EXCEPT ![w][b] = @ \cup {x}]

Return(w) ==
  /\ pc[w] = "done"
  /\ Finish(w)
  /\ UNCHANGED <<docker, lock>>

-----------------------------------------------------------------------------
(* remove_unused_images: any ids, in any order, none twice.                *)

Batch_Start(w) ==
  /\ pc[w] = "idle"
  /\ \E ids \in (SUBSET Images) \ {{}} :
       /\ asked' = [asked EXCEPT ![w] = ids]
       /\ todo' = [todo EXCEPT ![w] = ids]
  /\ Goto(w, "b_preview")
  /\ UNCHANGED <<docker, lock, target, item, report, page, seen, hist>>

\* The result of the first preview is not used; when it raises nothing is
\* removed at all.
Batch_Preview(w) ==
  /\ pc[w] = "b_preview"
  /\ \/ Goto(w, "b_next") /\ UNCHANGED <<locals, hist>>
     \/ Finish(w)
  /\ UNCHANGED <<docker, lock>>

Batch_Next(w) ==
  /\ pc[w] = "b_next"
  /\ \E i \in todo[w] :
       /\ target' = [target EXCEPT ![w] = i]
       /\ todo' = [todo EXCEPT ![w] = @ \ {i}]
  /\ Goto(w, "b_lock")
  /\ UNCHANGED <<docker, lock, item, asked, report, page, seen, hist>>

Batch_Lock(w) == pc[w] = "b_lock" /\ Acquire(w, "b_inspect")

\* An image ends in one of the result lists and its lock is left.
Settle(w, b) ==
  /\ Put(w, b, target[w])
  /\ Release(w)
  /\ Goto(w, "b_next")
  /\ UNCHANGED <<target, item, asked, todo, page, seen>>

Batch_Inspect(w) ==
  /\ pc[w] = "b_inspect"
  /\ \/ target[w] \in exists /\ Goto(w, "b_refs") /\ UNCHANGED <<lock, locals>>
     \/ target[w] \notin exists /\ Settle(w, "missing")
     \/ Settle(w, "failed")
  /\ UNCHANGED <<docker, hist>>

\* Mutant: no `continue` after an image in use.
Mut_NoContinue(w) ==
  /\ pc[w] = "b_refs"
  /\ \/ /\ IF InUse(target[w]) THEN Put(w, "in_use", target[w]) ELSE UNCHANGED report
        /\ Goto(w, "b_remove")
        /\ UNCHANGED <<lock, target, item, asked, todo, page, seen>>
     \/ Settle(w, "failed")
  /\ UNCHANGED <<docker, hist>>

Batch_References(w) ==
  /\ pc[w] = "b_refs"
  /\ \/ InUse(target[w]) /\ Settle(w, "in_use")
     \/ ~InUse(target[w]) /\ Goto(w, "b_remove") /\ UNCHANGED <<lock, locals>>
     \/ Settle(w, "failed")
  /\ UNCHANGED <<docker, hist>>

Batch_Remove(w) ==
  /\ pc[w] = "b_remove"
  /\ \/ remove_image(target[w]) /\ Settle(w, "deleted")
     \/ target[w] \notin exists /\ Settle(w, "missing") /\ UNCHANGED docker
     \/ Settle(w, "failed") /\ UNCHANGED docker
  /\ UNCHANGED hist

Smaller(a, b) == IF a < b THEN a ELSE b
Larger(a, b)  == IF a < b THEN b ELSE a

\* Mutant: a full last page counts as two.
Mut_OffByOne(requested, total) ==
  Smaller(requested, Larger((total + PageSize) \div PageSize, 1))

SuggestedPage(requested, total) ==
  Smaller(requested, Larger((total + PageSize - 1) \div PageSize, 1))

\* _suggested_page lists again; when that raises the page p of the request,
\* which nothing has read so far, is kept.
Batch_Suggest(w) ==
  /\ pc[w] = "b_next"
  /\ todo[w] = {}
  /\ \E p \in 1..MaxPage :
       \/ /\ page' = [page EXCEPT ![w] = SuggestedPage(p, Cardinality(exists))]
          /\ seen' = [seen EXCEPT ![w] = Cardinality(exists)]
       \/ /\ page' = [page EXCEPT ![w] = p]
          /\ seen' = [seen EXCEPT ![w] = p * PageSize]
  /\ Goto(w, "done")
  /\ UNCHANGED <<docker, lock, target, item, asked, todo, report, hist>>

-----------------------------------------------------------------------------
(* remove_available_tags: by id or by tag.                                 *)

\* The first images.get fixes the id; when it raises the request is over.
Tags_Start(w) ==
  /\ pc[w] = "idle"
  /\ \E ref \in Refs :
       /\ Resolve(ref) # NoImage
       /\ target' = [target EXCEPT ![w] = Resolve(ref)]
  /\ Goto(w, "t_lock")
  /\ UNCHANGED <<docker, lock, item, asked, todo, report, page, seen, hist>>

Tags_Lock(w) == pc[w] = "t_lock" /\ Acquire(w, "t_inspect")

\* preview_tag_removal reads the image, then the containers.
Tags_Inspect(w) ==
  /\ pc[w] = "t_inspect"
  /\ target[w] \in exists
  /\ todo' = [todo EXCEPT ![w] = TagsOf(target[w])]
  /\ Goto(w, "t_refs")
  /\ UNCHANGED <<docker, lock, target, item, asked, report, page, seen, hist>>

Tags_References(w) ==
  /\ pc[w] = "t_refs"
  /\ todo[w] \ UsedTags # {}
  /\ todo' = [todo EXCEPT ![w] = @ \ UsedTags]
  /\ report' = [report EXCEPT ![w]["retained"] = todo[w] \cap UsedTags]
  /\ known' = [known EXCEPT ![w] =
       {c \in containers : c.ref \in Tags /\ tagOf[c.ref] = target[w]}]
  /\ Goto(w, "t_loop")
  /\ UNCHANGED <<docker, lock, target, item, asked, page, seen, loads, loaded>>

\* Each candidate is resolved again; one that is gone or names another image
\* is skipped.
Tags_Resolve(w) ==
  /\ pc[w] = "t_loop"
  /\ \E t \in todo[w] :
       /\ todo' = [todo EXCEPT ![w] = @ \ {t}]
       /\ IF tagOf[t] = target[w]
            THEN /\ item' = [item EXCEPT ![w] = t]
                 /\ Goto(w, "t_remove")
                 /\ UNCHANGED report
            ELSE Put(w, "skipped", t) /\ UNCHANGED <<item, pc>>
  /\ UNCHANGED <<docker, lock, target, asked, page, seen, hist>>

Tags_Remove(w) ==
  /\ pc[w] = "t_remove"
  /\ \/ remove_image(item[w]) /\ Put(w, "deleted", item[w])
     \/ tagOf[item[w]] = NoImage /\ Put(w, "skipped", item[w]) /\ UNCHANGED docker
  /\ item' = [item EXCEPT ![w] = NoTag]
  /\ Goto(w, "t_loop")
  /\ UNCHANGED <<lock, target, asked, todo, page, seen, hist>>

\* The image is looked for once more and the lock is left.
Tags_Done(w) ==
  /\ pc[w] = "t_loop"
  /\ todo[w] = {}
  /\ Release(w)
  /\ Goto(w, "done")
  /\ UNCHANGED <<docker, locals, hist>>

\* The image or every unused tag is gone (404, 409), or Docker raises (503):
\* what was removed before stays removed.
Tags_Raise(w) ==
  /\ pc[w] \in TagsPC \ {"t_lock"}
  /\ Release(w)
  /\ Finish(w)
  /\ UNCHANGED docker

-----------------------------------------------------------------------------
(* Deployments of this process and other Docker clients.                   *)

\* docker load -i images.tar: a tag it names moves to the loaded image.
LoadImage(i, t) ==
  /\ loads < MaxLoads
  /\ loads' = loads + 1
  /\ exists' = exists \cup {i}
  /\ tagOf' = [tagOf EXCEPT ![t] = i]
  /\ loaded' = loaded \cup {i, t}
  /\ UNCHANGED <<containers, lock, pc, locals, known>>

\* docker compose up creates a container from a tag; others also from an id.
CreateContainer(ref) ==
  /\ Cardinality(containers) < MaxContainers
  /\ Resolve(ref) # NoImage
  /\ containers' = containers \cup
       {[image |-> Resolve(ref), ref |-> IF ref \in Tags THEN ref ELSE NoTag]}
  /\ UNCHANGED <<exists, tagOf, lock, pc, locals, hist>>

RemoveContainer(c) ==
  /\ containers' = containers \ {c}
  /\ known' = [w \in Workers |-> known[w] \ {c}]
  /\ UNCHANGED <<exists, tagOf, lock, pc, locals, loads, loaded>>

-----------------------------------------------------------------------------
Arrive == \E w \in Workers : Batch_Start(w) \/ Tags_Start(w)

Work(w) ==
  \/ Batch_Preview(w) \/ Batch_Next(w) \/ Batch_Lock(w) \/ Batch_Inspect(w)
  \/ Batch_References(w) \/ Batch_Remove(w) \/ Batch_Suggest(w)
  \/ Tags_Lock(w) \/ Tags_Inspect(w) \/ Tags_References(w) \/ Tags_Resolve(w)
  \/ Tags_Remove(w) \/ Tags_Done(w) \/ Tags_Raise(w) \/ Return(w)

Others ==
  \/ \E i \in Images, t \in Tags : LoadImage(i, t)
  \/ \E ref \in Refs : CreateContainer(ref)
  \/ \E c \in containers : RemoveContainer(c)

Next == Arrive \/ (\E w \in Workers : Work(w)) \/ Others

Spec == Init /\ [][Next]_vars

-----------------------------------------------------------------------------
(* Properties *)

TypeOK ==
  /\ exists \subseteq Images
  /\ tagOf \in [Tags -> Images \cup {NoImage}]
  /\ containers \subseteq [image : Images, ref : Tags \cup {NoTag}]
  /\ lock \in [Images -> Workers \cup {Free}]
  /\ pc \in [Workers -> PC]
  /\ target \in [Workers -> Images \cup {NoImage}]
  /\ item \in [Workers -> Tags \cup {NoTag}]
  /\ asked \in [Workers -> SUBSET Images]
  /\ todo \in [Workers -> SUBSET Refs]
  /\ report \in [Workers -> [Bucket -> SUBSET Refs]]
  /\ page \in [Workers -> Nat \ {0}]
  /\ seen \in [Workers -> Nat]
  /\ loads \in 0..MaxLoads
  /\ known \in [Workers -> SUBSET [image : Images, ref : Tags \cup {NoTag}]]
  /\ loaded \subseteq Refs

\* No request takes an image away from a container, however late the
\* container was created: between the check of the references and the removal
\* only force=False stands in the way.
ContainersKeepTheirImage == \A c \in containers : c.image \in exists

\* Every image of a batch is in one list, once the loop has come to it.
EveryImageReportedOnce ==
  \A w \in Workers :
    asked[w] # {} /\ pc[w] \in {"b_next", "done"} =>
      LET lists == {"deleted", "in_use", "missing", "failed"} IN
        /\ UNION {report[w][b] : b \in lists} = asked[w] \ todo[w]
        /\ \A b, c \in lists : b # c => report[w][b] \cap report[w][c] = {}

\* What is reported as gone is gone.
ReportedGoneIsGone ==
  \A w \in Workers :
    \A r \in report[w]["deleted"] \cup report[w]["missing"] :
      Resolve(r) = NoImage \/ r \in loaded

\* Answers are true: the four lists of a batch are disjoint and together hold
\* every id asked for, whatever failed, disappeared or came into use on the
\* way; and what a request reports as deleted or missing is gone from Docker,
\* and stays so until a deployment loads it again.
AnswersAreTrue == EveryImageReportedOnce /\ ReportedGoneIsGone

\* What a request has read under the lock of an image still holds when it
\* acts, unless a deployment has loaded something meanwhile: requests do not
\* take an image or a tag away from one another.
ReadUnderLockHolds ==
  \A w \in Workers :
    /\ pc[w] \in {"b_refs", "b_remove"} => target[w] \in exists \/ loads > 0
    /\ pc[w] \in {"t_refs", "t_loop"} =>
         \A t \in todo[w] : tagOf[t] = target[w] \/ loads > 0
    /\ pc[w] = "t_remove" => tagOf[item[w]] = target[w] \/ loads > 0

\* A tag that a container was created from when the request listed the
\* containers is still there while the request runs and when it answers,
\* unless the container went or a deployment moved the tag.
TagsInUseAreKept ==
  \A w \in Workers :
    \A c \in known[w] : tagOf[c.ref] = target[w] \/ loads > 0

\* The suggested page is one of the listing it was computed from: not past
\* its last page, and the first when nothing is left.
SuggestedPageIsShown ==
  \A w \in Workers :
    pc[w] = "done" /\ asked[w] # {} =>
      page[w] = 1 \/ (page[w] >= 1 /\ (page[w] - 1) * PageSize < seen[w])
=============================================================================
