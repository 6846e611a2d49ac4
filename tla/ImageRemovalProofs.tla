-------------------------- MODULE ImageRemovalProofs --------------------------
(* Theorems about ImageRemoval, for every number of images, tags, threads,   *)
(* containers, loads and sizes of a page.                                    *)
EXTENDS ImageRemoval, FiniteSetTheorems, TLAPS

Waits    == {"b_lock", "t_lock"}
Batching == {"b_lock", "b_inspect", "b_refs", "b_remove"}
Looping  == {"t_refs", "t_loop", "t_remove"}

\* What the next step of a worker says of what it holds.
ControlOf(w) ==
  /\ pc[w] \in HoldPC \cup Waits => target[w] \in Images
  /\ pc[w] \in HoldPC => lock[target[w]] = w
  /\ pc[w] \in BatchPC => todo[w] \subseteq Images
  /\ pc[w] \in Looping => todo[w] \subseteq Tags
  /\ pc[w] = "t_remove" => item[w] \in Tags \ todo[w]

Control == \A w \in Workers : ControlOf(w)
Typed   == TypeOK /\ Control

\* A tag names an image that exists.
Named == \A t \in Tags : tagOf[t] # NoImage => tagOf[t] \in exists

Takes(w) == Batch_Start(w) \/ Tags_Start(w) \/ Work(w)

Outside ==
  \/ \E i \in Images, t \in Tags : LoadImage(i, t)
  \/ \E ref \in Refs : CreateContainer(ref)
  \/ \E c \in containers : RemoveContainer(c)

-----------------------------------------------------------------------------
(* Lemmas about what a step does to Docker and to the other workers.         *)

LEMMA NextCases == Next => (\E w \in Workers : Takes(w)) \/ Outside
  BY DEF Next, Arrive, Others, Takes, Outside

LEMMA ResolveTyped ==
  ASSUME TypeOK, NEW ref \in Refs
  PROVE  /\ Resolve(ref) \in Images \cup {NoImage}
         /\ ref \in Images => Resolve(ref) = IF ref \in exists THEN ref ELSE NoImage
         /\ ref \in Tags => Resolve(ref) = tagOf[ref]
  BY NullAssumption DEF TypeOK, Resolve, Refs

LEMMA PutTyped ==
  ASSUME TypeOK, NEW w \in Workers, NEW b \in Bucket, NEW x \in Refs, Put(w, b, x)
  PROVE  /\ report' \in [Workers -> [Bucket -> SUBSET Refs]]
         /\ \A v \in Workers \ {w} : report'[v] = report[v]
         /\ \A c \in Bucket : report'[w][c] = IF c = b THEN report[w][b] \cup {x} ELSE report[w][c]
<1>1. report[w] \in [Bucket -> SUBSET Refs]
  BY DEF TypeOK
<1>2. PICK r : r = [report[w] EXCEPT ![b] = @ \cup {x}]
  OBVIOUS
<1>3. /\ r \in [Bucket -> SUBSET Refs]
      /\ \A c \in Bucket : r[c] = IF c = b THEN report[w][b] \cup {x} ELSE report[w][c]
  BY <1>1, <1>2
<1>4. report' = [report EXCEPT ![w] = r]
  BY <1>2 DEF Put
<1> QED
  BY <1>3, <1>4 DEF TypeOK

LEMMA PutInto ==
  ASSUME TypeOK, NEW w \in Workers, NEW b \in Bucket, NEW x \in Refs, Put(w, b, x),
         NEW c \in Bucket
  PROVE  report'[w][c] = IF c = b THEN report[w][b] \cup {x} ELSE report[w][c]
  BY PutTyped

LEMMA EmptyTyped == Empty \in [Bucket -> SUBSET Refs] /\ \A b \in Bucket : Empty[b] = {}
  BY DEF Empty

\* images.remove takes the tag, or the image with all its tags, and never an
\* image that a container has.
LEMMA RemoveEffect ==
  ASSUME TypeOK, NEW ref \in Refs, remove_image(ref)
  PROVE  /\ containers' = containers
         /\ tagOf' \in [Tags -> Images \cup {NoImage}]
         /\ \A t \in Tags : tagOf'[t] = IF t \in TagsTaken(ref) THEN NoImage ELSE tagOf[t]
         /\ exists' \subseteq exists
         /\ \A i \in exists \ exists' : i = Resolve(ref) /\ ~InUse(i) /\ TagsOf(i) \subseteq TagsTaken(ref)
         /\ ref \in Images => exists' = exists \ {ref} /\ TagsTaken(ref) = TagsOf(ref) /\ ~InUse(ref)
         /\ ref \in Tags => TagsTaken(ref) = {ref}
<1>1. ref \in Tags => ref \notin Images
  BY NullAssumption
<1>2. ref \in Images => Resolve(ref) = ref
  BY ResolveTyped DEF remove_image
<1>3. ref \in Images => ImageTaken(ref) = {ref}
  BY <1>2 DEF ImageTaken, TagsTaken
<1>4. ImageTaken(ref) \subseteq {Resolve(ref)}
  BY DEF ImageTaken
<1>5. \A i \in ImageTaken(ref) : ~InUse(i) /\ TagsOf(i) \subseteq TagsTaken(ref)
  BY DEF remove_image, Refused, ImageTaken
<1>6. /\ containers' = containers /\ exists' = exists \ ImageTaken(ref)
      /\ tagOf' = [t \in Tags |-> IF t \in TagsTaken(ref) THEN NoImage ELSE tagOf[t]]
  BY DEF remove_image
<1>7. ref \in Images => TagsTaken(ref) = TagsOf(ref)
  BY DEF TagsTaken
<1>8. ref \in Tags => TagsTaken(ref) = {ref}
  BY <1>1 DEF TagsTaken
<1>9. tagOf' \in [Tags -> Images \cup {NoImage}]
  BY <1>6 DEF TypeOK
<1> QED
  BY <1>3, <1>4, <1>5, <1>6, <1>7, <1>8, <1>9

\* What a step of another worker leaves of a worker.
Same(v) ==
  UNCHANGED <<pc[v], target[v], item[v], asked[v], todo[v], report[v], page[v], seen[v], known[v]>>

\* The steps that leave Docker alone, and the two that do not.
Quiet(w) ==
  \/ Batch_Start(w) \/ Tags_Start(w) \/ Batch_Preview(w) \/ Batch_Next(w) \/ Batch_Lock(w)
  \/ Batch_Inspect(w) \/ Batch_References(w) \/ Batch_Suggest(w) \/ Tags_Lock(w)
  \/ Tags_Inspect(w) \/ Tags_References(w) \/ Tags_Resolve(w) \/ Tags_Done(w)
  \/ Tags_Raise(w) \/ Return(w)

LEMMA TakesCases ==
  ASSUME NEW w \in Workers, Takes(w) PROVE Quiet(w) \/ Batch_Remove(w) \/ Tags_Remove(w)
  BY DEF Takes, Work, Quiet

LEMMA QuietForOthers ==
  ASSUME TypeOK, NEW w \in Workers, Quiet(w)
  PROVE  UNCHANGED <<exists, tagOf, containers, loads, loaded>>
  BY DEF Quiet, Batch_Start, Tags_Start, Batch_Preview, Batch_Next, Batch_Lock, Batch_Inspect,
         Batch_References, Batch_Suggest, Tags_Lock, Tags_Inspect, Tags_References, Tags_Resolve,
         Tags_Done, Tags_Raise, Return, Acquire, Finish, docker, hist

LEMMA OneAtATime ==
  ASSUME TypeOK, NEW w \in Workers, Takes(w), NEW v \in Workers \ {w}
  PROVE  Same(v)
<1>1. CASE Batch_Start(w) \/ Tags_Start(w) \/ Batch_Preview(w) \/ Batch_Next(w) \/ Batch_Lock(w)
  BY <1>1 DEF Batch_Start, Tags_Start, Batch_Preview, Batch_Next, Batch_Lock, Acquire, Finish,
              Goto, TypeOK, Same, hist, locals
<1>2. CASE Batch_Inspect(w) \/ Batch_References(w) \/ Batch_Remove(w)
  BY <1>2 DEF Batch_Inspect, Batch_References, Batch_Remove, Settle, Put, Goto, TypeOK, Same,
              hist, locals
<1>3. CASE Batch_Suggest(w) \/ Tags_Lock(w) \/ Tags_Inspect(w) \/ Tags_References(w)
  BY <1>3 DEF Batch_Suggest, Tags_Lock, Tags_Inspect, Tags_References, Acquire, Goto, TypeOK,
              Same, hist, locals
<1>4. CASE Tags_Resolve(w) \/ Tags_Remove(w)
  BY <1>4 DEF Tags_Resolve, Tags_Remove, Put, Goto, TypeOK, Same, hist, locals
<1>5. CASE Tags_Done(w) \/ Tags_Raise(w) \/ Return(w)
  BY <1>5 DEF Tags_Done, Tags_Raise, Return, Finish, Goto, TypeOK, Same, hist, locals
<1> QED
  BY <1>1, <1>2, <1>3, <1>4, <1>5 DEF Takes, Work

\* Nobody takes the lock of an image from the worker inside it.
LEMMA LocksStay ==
  ASSUME Typed, NEW w \in Workers, Takes(w), NEW v \in Workers \ {w}, pc[v] \in HoldPC
  PROVE  lock'[target[v]] = v
<1>1. lock[target[v]] = v /\ target[v] \in Images /\ v # Free
  BY NullAssumption DEF Typed, Control, ControlOf
<1>2. lock \in [Images -> Workers \cup {Free}]
  BY DEF Typed, TypeOK
<1>3. CASE UNCHANGED lock
  BY <1>1, <1>3
<1>4. CASE lock[target[w]] = Free /\ lock' = [lock EXCEPT ![target[w]] = w]
  BY <1>1, <1>2, <1>4
<1>5. CASE pc[w] \in HoldPC /\ Release(w)
  BY <1>1, <1>2, <1>5 DEF Typed, Control, ControlOf, Release
<1> QED
  BY <1>3, <1>4, <1>5 DEF Takes, Work, Batch_Start, Tags_Start, Batch_Preview, Batch_Next,
     Batch_Lock, Batch_Inspect, Batch_References, Batch_Remove, Batch_Suggest, Tags_Lock,
     Tags_Inspect, Tags_References, Tags_Resolve, Tags_Remove, Tags_Done, Tags_Raise, Return,
     Acquire, Settle, HoldPC, TagsPC

-----------------------------------------------------------------------------
(* Types and control.                                                        *)

LEMMA OwnControl == ASSUME Typed, NEW w \in Workers, Takes(w) PROVE ControlOf(w)'
<1> USE DEF Typed, Control, ControlOf, HoldPC, Waits, BatchPC, Looping, Goto
<1>1. CASE Batch_Start(w) \/ Batch_Preview(w) \/ Batch_Next(w)
  BY <1>1 DEF TypeOK, Batch_Start, Batch_Preview, Batch_Next, Finish, locals
<1>2. CASE Tags_Start(w)
  BY <1>2, ResolveTyped DEF TypeOK, Tags_Start
<1>3. CASE Batch_Lock(w) \/ Tags_Lock(w)
  BY <1>3 DEF TypeOK, Batch_Lock, Tags_Lock, Acquire, locals
<1>4. CASE Batch_Inspect(w) \/ Batch_References(w) \/ Batch_Remove(w)
  BY <1>4 DEF TypeOK, Batch_Inspect, Batch_References, Batch_Remove, Settle, locals
<1>5. CASE Batch_Suggest(w) \/ Tags_Inspect(w) \/ Tags_References(w)
  BY <1>5 DEF TypeOK, Batch_Suggest, Tags_Inspect, Tags_References, TagsOf
<1>6. CASE Tags_Resolve(w) \/ Tags_Remove(w)
  BY <1>6 DEF TypeOK, Tags_Resolve, Tags_Remove
<1>7. CASE Tags_Done(w) \/ Tags_Raise(w) \/ Return(w)
  BY <1>7 DEF TypeOK, Tags_Done, Tags_Raise, Return, Finish
<1> QED
  BY <1>1, <1>2, <1>3, <1>4, <1>5, <1>6, <1>7 DEF Takes, Work

LEMMA ControlKept == ASSUME Typed, [Next]_vars PROVE Control'
<1>1. CASE UNCHANGED vars
  BY <1>1 DEF Typed, Control, ControlOf, vars, locals
<1>2. ASSUME NEW w \in Workers, Takes(w), NEW v \in Workers PROVE ControlOf(v)'
  <2>1. CASE v = w
    BY <1>2, <2>1, OwnControl
  <2>2. CASE v # w
    <3>1. Same(v)
      BY <1>2, <2>2, OneAtATime DEF Typed
    <3>2. pc[v] \in HoldPC => lock'[target[v]] = v
      BY <1>2, <2>2, LocksStay
    <3> QED
      BY <3>1, <3>2 DEF Typed, Control, ControlOf, Same
  <2> QED
    BY <2>1, <2>2
<1>3. CASE Outside
  BY <1>3 DEF Outside, LoadImage, CreateContainer, RemoveContainer, Typed, Control, ControlOf, locals
<1> QED
  BY <1>1, <1>2, <1>3, NextCases DEF Control

LEMMA DivideUp ==
  ASSUME NEW n \in Nat, NEW d \in Nat \ {0}
  PROVE  /\ (n + d - 1) \div d \in Nat
         /\ ((n + d - 1) \div d) * d <= n + d - 1
  OBVIOUS

\* The page of an answer is a page of the listing.
LEMMA PageInListing ==
  ASSUME NEW p \in Nat \ {0}, NEW n \in Nat
  PROVE  /\ SuggestedPage(p, n) \in Nat \ {0}
         /\ SuggestedPage(p, n) = 1 \/ (SuggestedPage(p, n) - 1) * PageSize < n
<1> DEFINE last == (n + PageSize - 1) \div PageSize
           s == SuggestedPage(p, n)
<1>1. PageSize \in Nat \ {0}
  BY BoundAssumption
<1>2. last \in Nat /\ last * PageSize <= n + PageSize - 1
  BY <1>1, DivideUp
<1>3. s \in Nat \ {0} /\ (s = 1 \/ s <= last)
  BY <1>2 DEF SuggestedPage, Smaller, Larger
<1>4. ASSUME s <= last PROVE (s - 1) * PageSize < n
  <2>1. s * PageSize <= last * PageSize
    BY <1>1, <1>2, <1>3, <1>4
  <2>2. (s - 1) * PageSize = s * PageSize - PageSize
    BY <1>1, <1>3
  <2>3. s * PageSize \in Nat /\ last * PageSize \in Nat
    BY <1>1, <1>2, <1>3
  <2> HIDE DEF s, last
  <2> QED
    BY <1>1, <1>2, <2>1, <2>2, <2>3
<1> QED
  BY <1>3, <1>4

LEMMA ImagesCounted == ASSUME TypeOK PROVE Cardinality(exists) \in Nat
  BY NullAssumption, FS_Subset, FS_CardinalityType DEF TypeOK

DockerOK ==
  /\ exists \subseteq Images
  /\ tagOf \in [Tags -> Images \cup {NoImage}]
  /\ containers \subseteq [image : Images, ref : Tags \cup {NoTag}]
  /\ loads \in 0..MaxLoads
  /\ loaded \subseteq Refs

LocalsOK ==
  /\ lock \in [Images -> Workers \cup {Free}]
  /\ pc \in [Workers -> PC]
  /\ target \in [Workers -> Images \cup {NoImage}]
  /\ item \in [Workers -> Tags \cup {NoTag}]
  /\ asked \in [Workers -> SUBSET Images]
  /\ todo \in [Workers -> SUBSET Refs]
  /\ page \in [Workers -> Nat \ {0}]
  /\ seen \in [Workers -> Nat]
  /\ known \in [Workers -> SUBSET [image : Images, ref : Tags \cup {NoTag}]]

LEMMA TypeParts ==
  TypeOK <=> DockerOK /\ LocalsOK /\ report \in [Workers -> [Bucket -> SUBSET Refs]]
  BY DEF TypeOK, DockerOK, LocalsOK

\* A container is created from what its reference names.
LEMMA Created ==
  ASSUME TypeOK, NEW ref \in Refs, CreateContainer(ref)
  PROVE  \E c \in [image : Images, ref : Tags \cup {NoTag}] :
           /\ containers' = containers \cup {c}
           /\ c.image = Resolve(ref) /\ c.image \in Images
           /\ c.ref \in Tags => c.ref = ref
<1> DEFINE r == IF ref \in Tags THEN ref ELSE NoTag
           c == [image |-> Resolve(ref), ref |-> r]
<1>1. Resolve(ref) \in Images
  BY ResolveTyped DEF CreateContainer
<1>2. c \in [image : Images, ref : Tags \cup {NoTag}] /\ c.image = Resolve(ref) /\ c.ref = r
  BY <1>1
<1>3. r \in Tags => r = ref
  BY NullAssumption
<1>4. containers' = containers \cup {c}
  BY DEF CreateContainer
<1> QED
  BY <1>1, <1>2, <1>3, <1>4

LEMMA DockerTyped == ASSUME Typed, [Next]_vars PROVE DockerOK'
<1> USE DEF Typed, DockerOK
<1>0. DockerOK
  BY TypeParts
<1>1. CASE UNCHANGED <<exists, tagOf, containers, loads, loaded>>
  BY <1>0, <1>1
<1>2. ASSUME NEW w \in Workers, Batch_Remove(w) \/ Tags_Remove(w) PROVE DockerOK'
  <2>1. PICK ref \in Refs : remove_image(ref) \/ UNCHANGED docker
    BY <1>2 DEF Batch_Remove, Tags_Remove, Control, ControlOf, HoldPC, Refs
  <2> QED
    BY <1>0, <1>2, <2>1, RemoveEffect DEF Batch_Remove, Tags_Remove, docker, hist
<1>3. ASSUME NEW i \in Images, NEW t \in Tags, LoadImage(i, t) PROVE DockerOK'
  BY <1>0, <1>3, BoundAssumption DEF LoadImage, Refs
<1>4. ASSUME NEW ref \in Refs, CreateContainer(ref) PROVE DockerOK'
  BY <1>0, <1>4, Created DEF CreateContainer, hist
<1>5. ASSUME NEW c \in containers, RemoveContainer(c) PROVE DockerOK'
  BY <1>0, <1>5 DEF RemoveContainer
<1> QED
  BY <1>1, <1>2, <1>3, <1>4, <1>5, NextCases, TakesCases, QuietForOthers
     DEF Outside, vars, docker, hist

LEMMA LocalsTyped == ASSUME Typed, [Next]_vars PROVE LocalsOK'
<1>0. LocalsOK /\ \A v \in Workers : ControlOf(v)
  BY TypeParts DEF Typed, Control
<1> USE DEF LocalsOK, Goto, PC, BatchPC, TagsPC
<1>1. CASE UNCHANGED vars
  BY <1>0, <1>1 DEF vars, locals, hist
<1>2. ASSUME NEW w \in Workers, Batch_Start(w) \/ Batch_Preview(w) \/ Batch_Next(w) PROVE LocalsOK'
  <2>1. CASE Batch_Start(w)
    <3>1. PICK ids \in SUBSET Images :
            asked' = [asked EXCEPT ![w] = ids] /\ todo' = [todo EXCEPT ![w] = ids]
      BY <2>1 DEF Batch_Start
    <3> QED
      BY <1>0, <2>1, <3>1, SMTT(30) DEF Batch_Start, hist, Refs
  <2>2. CASE Batch_Preview(w)
    BY <1>0, <2>2, SMTT(30) DEF Batch_Preview, Finish, locals, hist
  <2>3. CASE Batch_Next(w)
    <3>1. todo[w] \subseteq Images
      BY <1>0, <2>3 DEF Batch_Next, ControlOf
    <3> QED
      BY <1>0, <2>3, <3>1, SMTT(30) DEF Batch_Next, hist, Refs
  <2> QED
    BY <1>2, <2>1, <2>2, <2>3
<1>3. ASSUME NEW w \in Workers, Tags_Start(w) PROVE LocalsOK'
  BY <1>0, <1>3, ResolveTyped DEF Tags_Start, Typed, hist
<1>4. ASSUME NEW w \in Workers, Batch_Lock(w) \/ Tags_Lock(w) PROVE LocalsOK'
  BY <1>0, <1>4 DEF Batch_Lock, Tags_Lock, Acquire, locals, hist
<1>5. ASSUME NEW w \in Workers, Batch_Inspect(w) \/ Batch_References(w) \/ Batch_Remove(w)
      PROVE LocalsOK'
  BY <1>0, <1>5 DEF Batch_Inspect, Batch_References, Batch_Remove, Settle, Release, locals, hist
<1>6. ASSUME NEW w \in Workers, Batch_Suggest(w) PROVE LocalsOK'
  <2>1. PICK p \in 1..MaxPage, q \in Nat \ {0}, n \in Nat :
          page' = [page EXCEPT ![w] = q] /\ seen' = [seen EXCEPT ![w] = n]
    <3>1. \A p \in 1..MaxPage : p \in Nat \ {0}
      BY BoundAssumption
    <3>2. \A p \in 1..MaxPage : SuggestedPage(p, Cardinality(exists)) \in Nat \ {0}
      BY <3>1, PageInListing, ImagesCounted DEF Typed
    <3>3. \A p \in 1..MaxPage : p * PageSize \in Nat
      BY <3>1, BoundAssumption
    <3> QED
      BY <1>6, <3>1, <3>2, <3>3, ImagesCounted DEF Batch_Suggest, Typed
  <2> QED
    BY <1>0, <1>6, <2>1 DEF Batch_Suggest, hist
<1>7. ASSUME NEW w \in Workers, Tags_Inspect(w) \/ Tags_References(w) PROVE LocalsOK'
  <2>1. CASE Tags_Inspect(w)
    <3>1. TagsOf(target[w]) \in SUBSET Refs
      BY DEF TagsOf, Refs
    <3> QED
      BY <1>0, <2>1, <3>1 DEF Tags_Inspect, hist
  <2>2. CASE Tags_References(w)
    <3>1. \A k : {c \in containers : c.ref \in Tags /\ tagOf[c.ref] = k}
                   \in SUBSET [image : Images, ref : Tags \cup {NoTag}]
      BY DEF Typed, TypeOK
    <3>2. todo[w] \ UsedTags \in SUBSET Refs
      BY <1>0
    <3> QED
      BY <1>0, <2>2, <3>1, <3>2 DEF Tags_References
  <2> QED
    BY <1>7, <2>1, <2>2
<1>8. ASSUME NEW w \in Workers, Tags_Resolve(w) \/ Tags_Remove(w) PROVE LocalsOK'
  BY <1>0, <1>8 DEF Tags_Resolve, Tags_Remove, ControlOf, Looping, hist
<1>9. ASSUME NEW w \in Workers, Tags_Done(w) \/ Tags_Raise(w) \/ Return(w) PROVE LocalsOK'
  BY <1>0, <1>9, SMTT(60) DEF Tags_Done, Tags_Raise, Return, Finish, Release, locals, hist
<1>10. CASE Outside
  BY <1>0, <1>10 DEF Outside, LoadImage, CreateContainer, RemoveContainer, locals, hist
<1> QED
  BY <1>1, <1>2, <1>3, <1>4, <1>5, <1>6, <1>7, <1>8, <1>9, <1>10, NextCases DEF Takes, Work

LEMMA ReportTyped ==
  ASSUME Typed, [Next]_vars PROVE report' \in [Workers -> [Bucket -> SUBSET Refs]]
<1> DEFINE Reports == [Workers -> [Bucket -> SUBSET Refs]]
<1>0. report \in Reports
  BY DEF Typed, TypeOK
<1>1. CASE UNCHANGED report
  BY <1>0, <1>1
<1>2. ASSUME NEW w \in Workers, report' = [report EXCEPT ![w] = Empty] PROVE report' \in Reports
  BY <1>0, <1>2, EmptyTyped
<1>3. ASSUME NEW w \in Workers, NEW b \in Bucket, NEW x \in Refs, Put(w, b, x)
      PROVE  report' \in Reports
  BY <1>3, PutTyped DEF Typed
<1>4. ASSUME NEW w \in Workers, Tags_References(w) PROVE report' \in Reports
  <2>1. todo[w] \cap UsedTags \in SUBSET Refs
    BY DEF Typed, TypeOK
  <2> QED
    BY <1>0, <1>4, <2>1 DEF Tags_References, Bucket
<1>5. ASSUME NEW w \in Workers, Takes(w)
      PROVE  \/ UNCHANGED report \/ report' = [report EXCEPT ![w] = Empty]
             \/ Tags_References(w)
             \/ \E b \in Bucket, x \in Refs : Put(w, b, x)
  <2>1. \/ UNCHANGED report \/ report' = [report EXCEPT ![w] = Empty]
        \/ Tags_References(w)
        \/ pc[w] \in HoldPC /\ \E b \in Bucket : Put(w, b, target[w])
        \/ pc[w] = "t_loop" /\ \E t \in todo[w] : Put(w, "skipped", t)
        \/ pc[w] = "t_remove" /\ \E b \in Bucket : Put(w, b, item[w])
    BY <1>5 DEF Takes, Work, Batch_Start, Tags_Start, Batch_Preview, Batch_Next, Batch_Lock,
       Batch_Inspect, Batch_References, Batch_Remove, Batch_Suggest, Tags_Lock, Tags_Inspect,
       Tags_Resolve, Tags_Remove, Tags_Done, Tags_Raise, Return, Acquire, Finish, Settle,
       locals, HoldPC, Bucket
  <2> QED
    BY <2>1 DEF Typed, TypeOK, Control, ControlOf, Refs, Bucket
<1> QED
  BY <1>1, <1>2, <1>3, <1>4, <1>5, NextCases
     DEF Outside, LoadImage, CreateContainer, RemoveContainer, vars, locals

\* Every variable keeps its type, and what a worker holds fits its next step.
LEMMA TypedKept == ASSUME Typed, [Next]_vars PROVE Typed'
  BY DockerTyped, LocalsTyped, ReportTyped, ControlKept, TypeParts DEF Typed, TypeOK, DockerOK, LocalsOK

-----------------------------------------------------------------------------
(* What Docker is left with.                                                 *)

Removes(w, ref) ==
  /\ remove_image(ref)
  /\ UNCHANGED <<loads, loaded>>
  /\ \/ pc[w] = "b_remove" /\ ref = target[w]
     \/ pc[w] = "t_remove" /\ ref = item[w]

LEMMA DockerCases ==
  ASSUME Typed, [Next]_vars
  PROVE  \/ UNCHANGED <<exists, tagOf, containers, loads, loaded>>
         \/ \E w \in Workers : Takes(w) /\ \E ref \in Refs : Removes(w, ref)
         \/ Outside
<1>1. ASSUME NEW w \in Workers, Takes(w), Batch_Remove(w) \/ Tags_Remove(w)
      PROVE  \/ UNCHANGED <<exists, tagOf, containers, loads, loaded>>
             \/ \E ref \in Refs : Removes(w, ref)
  BY <1>1 DEF Typed, Control, ControlOf, HoldPC, Refs, Batch_Remove, Tags_Remove, Removes, docker, hist
<1> QED
  BY <1>1, NextCases, TakesCases, QuietForOthers DEF Typed, vars, docker, hist

LEMMA NamedKept == ASSUME Typed, Named, [Next]_vars PROVE Named'
<1> USE DEF Named
<1>1. ASSUME NEW w \in Workers, NEW ref \in Refs, Removes(w, ref) PROVE Named'
  BY <1>1, RemoveEffect DEF Removes, Typed, TypeOK, TagsOf
<1>2. CASE Outside
  BY <1>2 DEF Outside, LoadImage, CreateContainer, RemoveContainer, Typed, TypeOK
<1> QED
  BY <1>1, <1>2, DockerCases

\* A removal stops short of an image that a container has, and a container is
\* created from an image that exists.
LEMMA ImagesStay ==
  ASSUME Typed, Named, ContainersKeepTheirImage, [Next]_vars
  PROVE  ContainersKeepTheirImage'
<1> USE DEF ContainersKeepTheirImage
<1>1. ASSUME NEW w \in Workers, NEW ref \in Refs, Removes(w, ref)
      PROVE  ContainersKeepTheirImage'
  BY <1>1, RemoveEffect DEF Removes, Typed, InUse
<1>2. ASSUME NEW ref \in Refs, CreateContainer(ref) PROVE ContainersKeepTheirImage'
  <2>1. Resolve(ref) # NoImage => Resolve(ref) \in exists
    BY ResolveTyped DEF Typed, TypeOK, Named, Refs
  <2> QED
    BY <1>2, <2>1, Created DEF CreateContainer, Typed
<1>3. ASSUME NEW i \in Images, NEW t \in Tags, LoadImage(i, t) PROVE ContainersKeepTheirImage'
  BY <1>3 DEF LoadImage
<1>4. ASSUME NEW c \in containers, RemoveContainer(c) PROVE ContainersKeepTheirImage'
  BY <1>4 DEF RemoveContainer
<1> QED
  BY <1>1, <1>2, <1>3, <1>4, DockerCases DEF Outside

-----------------------------------------------------------------------------
(* What a worker has read under the lock of an image.                        *)

FreshOf(w) ==
  loads = 0 =>
    /\ pc[w] \in {"b_refs", "b_remove"} => target[w] \in exists
    /\ pc[w] \in Looping => \A t \in todo[w] : tagOf[t] = target[w]
    /\ pc[w] = "t_remove" => tagOf[item[w]] = target[w]

Fresh == \A w \in Workers : FreshOf(w)

LEMMA LoadsGrow == ASSUME Typed, [Next]_vars PROVE loads' = 0 => loads = 0 /\ UNCHANGED loads
<1>1. loads \in Nat
  BY BoundAssumption DEF Typed, TypeOK
<1>2. ASSUME NEW i \in Images, NEW t \in Tags, LoadImage(i, t) PROVE loads' # 0
  BY <1>1, <1>2 DEF LoadImage
<1> QED
  BY <1>2, DockerCases DEF Removes, Outside, CreateContainer, RemoveContainer, hist

\* A removal takes nothing of an image that another worker has locked.
LEMMA ForeignImage ==
  ASSUME Typed, Fresh, loads = 0, NEW w \in Workers, Takes(w),
         NEW v \in Workers \ {w}, pc[v] \in HoldPC
  PROVE  /\ target[v] \in exists => target[v] \in exists'
         /\ \A t \in Tags : tagOf[t] = target[v] => tagOf'[t] = target[v]
<1>1. target[v] \in Images /\ lock[target[v]] = v
  BY DEF Typed, Control, ControlOf
<1>2. CASE pc[w] \notin {"b_remove", "t_remove"}
  BY <1>2, TakesCases, QuietForOthers DEF Batch_Remove, Tags_Remove, Typed
<1>3. CASE pc[w] \in {"b_remove", "t_remove"}
  <2>1. target[w] \in Images /\ target[w] # target[v]
    BY <1>1, <1>3 DEF Typed, Control, ControlOf, HoldPC
  <2>2. CASE UNCHANGED docker
    BY <2>2 DEF docker
  <2>3. CASE pc[w] = "b_remove" /\ remove_image(target[w])
    <3>1. /\ exists' = exists \ {target[w]}
          /\ \A t \in Tags : tagOf'[t] = IF tagOf[t] = target[w] THEN NoImage ELSE tagOf[t]
      BY <2>1, <2>3, RemoveEffect DEF Typed, Refs, TagsOf
    <3> QED
      BY <2>1, <3>1
  <2>4. CASE pc[w] = "t_remove" /\ remove_image(item[w])
    <3>1. item[w] \in Tags /\ tagOf[item[w]] = target[w]
      BY <2>4 DEF Typed, Control, ControlOf, Fresh, FreshOf
    <3>2. Resolve(item[w]) = target[w]
      BY <3>1, ResolveTyped DEF Typed, Refs
    <3> QED
      BY <2>1, <2>4, <3>1, <3>2, RemoveEffect DEF Typed, Refs
  <2>5. UNCHANGED docker \/ (pc[w] = "b_remove" /\ remove_image(target[w]))
        \/ (pc[w] = "t_remove" /\ remove_image(item[w]))
    BY <1>3, TakesCases, QuietForOthers DEF Batch_Remove, Tags_Remove, Typed, docker
  <2> QED
    BY <2>2, <2>3, <2>4, <2>5
<1> QED
  BY <1>2, <1>3

LEMMA OwnFresh ==
  ASSUME Typed, Fresh, NEW w \in Workers, Takes(w), loads = 0 PROVE FreshOf(w)'
<1> USE DEF Fresh, FreshOf, Looping, Goto
<1>1. CASE Batch_Start(w) \/ Tags_Start(w) \/ Batch_Preview(w) \/ Batch_Next(w) \/ Batch_Suggest(w)
  BY <1>1 DEF Typed, TypeOK, Batch_Start, Tags_Start, Batch_Preview, Batch_Next, Batch_Suggest, Finish
<1>2. CASE Batch_Lock(w) \/ Tags_Lock(w)
  BY <1>2 DEF Typed, TypeOK, Batch_Lock, Tags_Lock, Acquire
<1>3. CASE Batch_Inspect(w) \/ Batch_References(w) \/ Batch_Remove(w)
  BY <1>3 DEF Typed, TypeOK, Batch_Inspect, Batch_References, Batch_Remove, Settle, docker, locals
<1>4. CASE Tags_Inspect(w) \/ Tags_References(w)
  BY <1>4 DEF Typed, TypeOK, Tags_Inspect, Tags_References, TagsOf, docker
<1>5. CASE Tags_Resolve(w)
  BY <1>5 DEF Typed, TypeOK, Tags_Resolve, docker
<1>6. CASE Tags_Remove(w)
  <2>1. pc[w] = "t_remove" /\ item[w] \in Tags \ todo[w] /\ todo[w] \subseteq Tags
    BY <1>6 DEF Tags_Remove, Typed, Control, ControlOf
  <2>2. \A t \in todo[w] : tagOf'[t] = tagOf[t]
    BY <1>6, <2>1, RemoveEffect DEF Tags_Remove, Typed, Refs, docker
  <2>3. pc'[w] = "t_loop" /\ todo'[w] = todo[w] /\ target'[w] = target[w]
    BY <1>6 DEF Tags_Remove, Typed, TypeOK
  <2> QED
    BY <2>1, <2>2, <2>3
<1>7. CASE Tags_Done(w) \/ Tags_Raise(w) \/ Return(w)
  BY <1>7 DEF Typed, TypeOK, Tags_Done, Tags_Raise, Return, Finish
<1> QED
  BY <1>1, <1>2, <1>3, <1>4, <1>5, <1>6, <1>7 DEF Takes, Work

LEMMA FreshKept == ASSUME Typed, Fresh, [Next]_vars PROVE Fresh'
<1> SUFFICES ASSUME loads = 0, loads' = 0, NEW v \in Workers PROVE FreshOf(v)'
  BY LoadsGrow DEF Fresh, FreshOf
<1>1. ASSUME NEW w \in Workers, Takes(w) PROVE FreshOf(v)'
  <2>1. CASE v = w
    BY <1>1, <2>1, OwnFresh
  <2>2. CASE v # w
    <3>1. Same(v)
      BY <1>1, <2>2, OneAtATime DEF Typed
    <3>2. CASE pc[v] \notin HoldPC
      BY <3>1, <3>2 DEF Same, FreshOf, HoldPC, Looping
    <3>3. CASE pc[v] \in HoldPC
      <4>1. pc[v] \in Looping => todo[v] \subseteq Tags
        BY DEF Typed, Control, ControlOf
      <4>2. pc[v] = "t_remove" => item[v] \in Tags
        BY DEF Typed, Control, ControlOf
      <4> QED
        BY <1>1, <2>2, <3>1, <3>3, <4>1, <4>2, ForeignImage DEF Same, Fresh, FreshOf, Looping
    <3> QED
      BY <3>2, <3>3
  <2> QED
    BY <2>1, <2>2
<1>2. CASE Outside
  <2>1. UNCHANGED <<exists, tagOf, locals, pc>>
    BY <1>2, LoadsGrow DEF Outside, LoadImage, CreateContainer, RemoveContainer, Typed, TypeOK
  <2> QED
    BY <2>1 DEF Fresh, FreshOf, locals
<1>3. CASE UNCHANGED vars
  BY <1>3 DEF Fresh, FreshOf, vars, docker, locals
<1> QED
  BY <1>1, <1>2, <1>3, NextCases

-----------------------------------------------------------------------------
(* The answers.                                                              *)

Lists == {"deleted", "in_use", "missing", "failed"}

\* The images of a batch that are in no list yet.
Pending(w) == todo[w] \cup {i \in {target[w]} : pc[w] \in Batching}

ReportOf(w) ==
  /\ pc[w] = "idle" => asked[w] = {} /\ \A b \in Lists : report[w][b] = {}
  /\ pc[w] = "b_preview" => todo[w] = asked[w]
  /\ pc[w] \in BatchPC => asked[w] # {}
  /\ asked[w] # {} =>
       /\ pc[w] \in BatchPC \cup {"done"}
       /\ todo[w] \subseteq asked[w]
       /\ pc[w] \in Batching => target[w] \in asked[w] \ todo[w]
       /\ \A x : (\E b \in Lists : x \in report[w][b]) <=> x \in asked[w] \ Pending(w)
       /\ \A b, c \in Lists : b # c => report[w][b] \cap report[w][c] = {}

Reports == \A w \in Workers : ReportOf(w)

LEMMA SettleReports ==
  ASSUME Typed, NEW w \in Workers, ReportOf(w), NEW b \in Lists, Settle(w, b),
         pc[w] \in Batching
  PROVE  ReportOf(w)'
<1>1. pc'[w] = "b_next" /\ UNCHANGED <<todo[w], asked[w], target[w]>>
  BY DEF Settle, Goto, Typed, TypeOK
<1>2. target[w] \in Images /\ asked[w] # {} /\ target[w] \in asked[w] \ todo[w]
  BY DEF Typed, Control, ControlOf, ReportOf, BatchPC, Batching, HoldPC, Waits
<1>3. \A c \in Lists : report'[w][c] = IF c = b THEN report[w][c] \cup {target[w]} ELSE report[w][c]
  <2>1. target[w] \in Refs /\ Lists \subseteq Bucket /\ b \in Bucket /\ Put(w, b, target[w])
    BY <1>2 DEF Settle, Refs, Lists, Bucket
  <2>2. PICK x \in Refs : x = target[w] /\ Put(w, b, x)
    BY <2>1
  <2>3. \A c \in Bucket : report'[w][c] = IF c = b THEN report[w][b] \cup {x} ELSE report[w][c]
    BY <2>1, <2>2, PutTyped DEF Typed
  <2> QED
    BY <2>1, <2>2, <2>3
<1>4. \A x : (\E c \in Lists : x \in report[w][c]) <=> x \in asked[w] \ (todo[w] \cup {target[w]})
  BY <1>2 DEF ReportOf, Pending
<1>5. \A x : (\E c \in Lists : x \in report'[w][c]) <=> x \in asked[w] \ todo[w]
  BY <1>2, <1>3, <1>4
<1>6. \A c, d \in Lists : c # d => report'[w][c] \cap report'[w][d] = {}
  <2>1. \A c, d \in Lists : c # d => report[w][c] \cap report[w][d] = {}
    BY <1>2 DEF ReportOf
  <2>2. \A c \in Lists : target[w] \notin report[w][c]
    BY <1>4
  <2> QED
    BY <1>3, <2>1, <2>2, ZenonT(60)
<1>7. Pending(w)' = todo[w]
  BY <1>1 DEF Pending, Batching
<1> QED
  BY <1>1, <1>2, <1>5, <1>6, <1>7 DEF ReportOf, BatchPC, Batching

LEMMA FinishReports ==
  ASSUME Typed, NEW w \in Workers, Finish(w) PROVE ReportOf(w)'
<1>1. pc'[w] = "idle" /\ asked'[w] = {} /\ report'[w] = Empty
  BY DEF Finish, Goto, Typed, TypeOK
<1>2. \A b \in Lists : report'[w][b] = {}
  BY <1>1, EmptyTyped DEF Lists, Bucket
<1> QED
  BY <1>1, <1>2 DEF ReportOf, BatchPC

LEMMA OwnReports == ASSUME Typed, NEW w \in Workers, ReportOf(w), Takes(w) PROVE ReportOf(w)'
<1> USE DEF Typed, TypeOK, Goto
<1>1. CASE Batch_Start(w)
  <2>1. PICK ids \in (SUBSET Images) \ {{}} : asked'[w] = ids /\ todo'[w] = ids
    BY <1>1 DEF Batch_Start
  <2>2. pc'[w] = "b_preview" /\ report'[w] = report[w] /\ \A b \in Lists : report[w][b] = {}
    BY <1>1 DEF Batch_Start, ReportOf
  <2>3. Pending(w)' = ids
    BY <2>1, <2>2 DEF Pending, Batching
  <2>4. \A b \in Lists : report'[w][b] = {}
    BY <2>2
  <2>5. /\ \A x : (\E b \in Lists : x \in report'[w][b]) <=> x \in ids \ ids
        /\ \A b, c \in Lists : b # c => report'[w][b] \cap report'[w][c] = {}
    BY <2>4
  <2> QED
    BY <2>1, <2>2, <2>3, <2>5 DEF ReportOf, BatchPC, Batching
<1>2. CASE Tags_Start(w)
  BY <1>2 DEF Tags_Start, ReportOf, BatchPC
<1>3. CASE Batch_Preview(w)
  <2>1. CASE Finish(w)
    BY <2>1, FinishReports
  <2>2. CASE Goto(w, "b_next") /\ UNCHANGED locals
    <3>1. Pending(w)' = Pending(w)
      BY <1>3, <2>2 DEF Batch_Preview, Pending, Batching, locals
    <3> QED
      BY <1>3, <2>2, <3>1 DEF Batch_Preview, ReportOf, BatchPC, Batching, locals
  <2> QED
    BY <1>3, <2>1, <2>2 DEF Batch_Preview
<1>4. CASE Batch_Next(w)
  <2>1. PICK i \in todo[w] : target'[w] = i /\ todo'[w] = todo[w] \ {i}
    BY <1>4 DEF Batch_Next
  <2>2. pc[w] = "b_next" /\ pc'[w] = "b_lock" /\ asked'[w] = asked[w] /\ report'[w] = report[w]
    BY <1>4 DEF Batch_Next
  <2>3. Pending(w)' = Pending(w)
    BY <2>1, <2>2 DEF Pending, Batching
  <2> QED
    BY <2>1, <2>2, <2>3 DEF ReportOf, BatchPC, Batching
<1>5. CASE Batch_Lock(w) \/ Tags_Lock(w)
  <2>1. UNCHANGED locals /\ pc'[w] \in {"b_inspect", "t_inspect"}
        /\ (pc'[w] = "b_inspect" <=> pc[w] = "b_lock") /\ pc[w] \in {"b_lock", "t_lock"}
    BY <1>5 DEF Batch_Lock, Tags_Lock, Acquire
  <2>2. Pending(w)' = Pending(w)
    BY <2>1 DEF Pending, Batching, locals
  <2> QED
    BY <2>1, <2>2 DEF ReportOf, BatchPC, Batching, locals
<1>6. CASE Batch_Inspect(w) \/ Batch_References(w) \/ Batch_Remove(w)
  <2>1. pc[w] \in Batching
    BY <1>6 DEF Batch_Inspect, Batch_References, Batch_Remove, Batching
  <2>2. CASE \E b \in Lists : Settle(w, b)
    BY <2>1, <2>2, SettleReports
  <2>3. CASE UNCHANGED locals /\ pc'[w] \in Batching
    <3>1. Pending(w)' = Pending(w)
      BY <2>1, <2>3 DEF Pending, locals
    <3> QED
      BY <2>1, <2>3, <3>1 DEF ReportOf, BatchPC, Batching, locals
  <2>4. (\E b \in Lists : Settle(w, b)) \/ (UNCHANGED locals /\ pc'[w] \in Batching)
    BY <1>6 DEF Batch_Inspect, Batch_References, Batch_Remove, Lists, Batching
  <2> QED
    BY <2>2, <2>3, <2>4
<1>7. CASE Batch_Suggest(w)
  <2>1. pc[w] = "b_next" /\ pc'[w] = "done" /\ UNCHANGED <<target, todo, asked, report>>
    BY <1>7 DEF Batch_Suggest
  <2>2. Pending(w)' = Pending(w)
    BY <2>1 DEF Pending, Batching
  <2> QED
    BY <2>1, <2>2 DEF ReportOf, BatchPC, Batching
<1>8. CASE pc[w] \in TagsPC /\ pc'[w] \in TagsPC \cup {"done"} /\ asked'[w] = asked[w]
  BY <1>8 DEF ReportOf, BatchPC, TagsPC
<1>9. CASE Finish(w)
  BY <1>9, FinishReports
<1>10. ASSUME Tags_Inspect(w) \/ Tags_References(w) \/ Tags_Resolve(w) \/ Tags_Remove(w) \/ Tags_Done(w)
       PROVE  pc[w] \in TagsPC /\ pc'[w] \in TagsPC \cup {"done"} /\ asked'[w] = asked[w]
  BY <1>10 DEF Tags_Inspect, Tags_References, Tags_Resolve, Tags_Remove, Tags_Done, TagsPC, locals
<1> QED
  BY <1>1, <1>2, <1>3, <1>4, <1>5, <1>6, <1>7, <1>8, <1>9, <1>10
     DEF Takes, Work, Tags_Raise, Return

LEMMA ReportsKept == ASSUME Typed, Reports, [Next]_vars PROVE Reports'
<1> SUFFICES ASSUME NEW v \in Workers PROVE ReportOf(v)'
  BY DEF Reports
<1>1. ReportOf(v)
  BY DEF Reports
<1>2. CASE UNCHANGED <<pc[v], asked[v], todo[v], target[v], report[v]>>
  <2>1. Pending(v)' = Pending(v)
    BY <1>2 DEF Pending
  <2> QED
    BY <1>1, <1>2, <2>1 DEF ReportOf
<1>3. ASSUME NEW w \in Workers, Takes(w), w # v PROVE ReportOf(v)'
  BY <1>2, <1>3, OneAtATime DEF Typed, Same
<1>4. Takes(v) => ReportOf(v)'
  BY <1>1, OwnReports
<1>5. ~(\E w \in Workers : Takes(w)) => UNCHANGED <<pc[v], asked[v], todo[v], target[v], report[v]>>
  BY NextCases DEF Outside, LoadImage, CreateContainer, RemoveContainer, vars, locals
<1> QED
  BY <1>2, <1>3, <1>4, <1>5

LEMMA ReportedOnce == Reports => EveryImageReportedOnce
<1> SUFFICES ASSUME Reports, NEW w \in Workers, asked[w] # {}, pc[w] \in {"b_next", "done"}
             PROVE  /\ UNION {report[w][b] : b \in Lists} = asked[w] \ todo[w]
                    /\ \A b, c \in Lists : b # c => report[w][b] \cap report[w][c] = {}
  BY DEF EveryImageReportedOnce, Lists
<1>1. Pending(w) = todo[w]
  BY DEF Pending, Batching
<1>2. \A x : (\E b \in Lists : x \in report[w][b]) <=> x \in asked[w] \ todo[w]
  BY <1>1 DEF Reports, ReportOf
<1> QED
  BY <1>2 DEF Reports, ReportOf

\* What is gone stays gone until a deployment loads it.
LEMMA GoneStays ==
  ASSUME Typed, [Next]_vars, NEW r \in Refs, Resolve(r) = NoImage \/ r \in loaded
  PROVE  Resolve(r)' = NoImage \/ r \in loaded'
<1>1. CASE UNCHANGED <<exists, tagOf, containers, loads, loaded>>
  BY <1>1 DEF Resolve
<1>2. ASSUME NEW w \in Workers, NEW ref \in Refs, Removes(w, ref)
      PROVE  Resolve(r)' = NoImage \/ r \in loaded'
  BY <1>2, RemoveEffect, NullAssumption DEF Removes, Resolve, Typed, Refs
<1>3. ASSUME NEW i \in Images, NEW t \in Tags, LoadImage(i, t)
      PROVE  Resolve(r)' = NoImage \/ r \in loaded'
  BY <1>3, NullAssumption DEF LoadImage, Resolve, Typed, TypeOK, Refs
<1>4. CASE \E ref \in Refs : CreateContainer(ref)
  BY <1>4 DEF CreateContainer, Resolve, hist
<1>5. CASE \E c \in containers : RemoveContainer(c)
  BY <1>5 DEF RemoveContainer, Resolve
<1> QED
  BY <1>1, <1>2, <1>3, <1>4, <1>5, DockerCases DEF Outside

LEMMA ResolveLater ==
  ASSUME TypeOK
  PROVE  /\ \A i \in Images : Resolve(i)' = NoImage <=> i \notin exists'
         /\ \A t \in Tags : Resolve(t)' = tagOf'[t]
  BY NullAssumption DEF Resolve

LEMMA OwnGone ==
  ASSUME Typed, NEW w \in Workers, Takes(w),
         NEW r \in report'[w]["deleted"] \cup report'[w]["missing"]
  PROVE  \/ r \in report[w]["deleted"] \cup report[w]["missing"]
         \/ Resolve(r)' = NoImage
<1> DEFINE Goal == r \in report[w]["deleted"] \cup report[w]["missing"] \/ Resolve(r)' = NoImage
<1>0. TypeOK
  BY DEF Typed
<1>1. CASE UNCHANGED report
  BY <1>1
<1>2. CASE report'[w] = Empty
  BY <1>2, EmptyTyped DEF Bucket
<1>3. ASSUME NEW b \in Bucket, NEW x \in Refs, Put(w, b, x)
      PROVE  r \in report[w]["deleted"] \cup report[w]["missing"]
             \/ (r = x /\ b \in {"deleted", "missing"})
  <2>1. \A c \in Bucket : report'[w][c] = IF c = b THEN report[w][b] \cup {x} ELSE report[w][c]
    BY <1>0, <1>3, PutInto, SMTT(60)
  <2> QED
    BY <2>1 DEF Bucket
<1>4. CASE Tags_References(w)
  <2>1. report[w] \in [Bucket -> SUBSET Refs]
    BY DEF Typed, TypeOK
  <2>2. report'[w] = [report[w] EXCEPT !["retained"] = todo[w] \cap UsedTags]
    BY <1>4 DEF Tags_References, Typed, TypeOK
  <2> QED
    BY <2>1, <2>2 DEF Bucket
<1>5. CASE Batch_Inspect(w) \/ Batch_References(w) \/ Batch_Remove(w)
  <2>1. PICK i \in Images : i = target[w]
    BY <1>5 DEF Typed, Control, ControlOf, HoldPC, Batch_Inspect, Batch_References, Batch_Remove
  <2>2. CASE UNCHANGED report
    BY <1>1, <2>2
  <2>3. ASSUME NEW b \in Lists, Settle(w, b), b \in {"deleted", "missing"} => i \notin exists'
        PROVE  Goal
    <3>1. Put(w, b, i) /\ b \in Bucket /\ i \in Refs
      BY <2>1, <2>3 DEF Settle, Lists, Bucket, Refs
    <3> QED
      BY <1>0, <1>3, <2>3, <3>1, ResolveLater
  <2>4. \/ UNCHANGED report
        \/ \E b \in Lists : Settle(w, b) /\ (b \in {"deleted", "missing"} => i \notin exists')
    <3>1. remove_image(i) => i \notin exists'
      BY <1>0, RemoveEffect DEF Refs
    <3> QED
      BY <1>5, <2>1, <3>1 DEF Batch_Inspect, Batch_References, Batch_Remove, Lists, docker, locals
  <2> QED
    BY <2>2, <2>3, <2>4
<1>6. CASE Tags_Resolve(w)
  <2>1. UNCHANGED report \/ \E t \in todo[w] : Put(w, "skipped", t)
    BY <1>6 DEF Tags_Resolve
  <2>2. todo[w] \subseteq Refs /\ "skipped" \in Bucket
    BY <1>0 DEF TypeOK, Bucket
  <2> QED
    BY <1>1, <1>3, <2>1, <2>2
<1>7. CASE Tags_Remove(w)
  <2>1. PICK t \in Tags : t = item[w]
    BY <1>7 DEF Tags_Remove, Typed, Control, ControlOf
  <2>2. \/ remove_image(t) /\ Put(w, "deleted", t)
        \/ Put(w, "skipped", t)
    BY <1>7, <2>1 DEF Tags_Remove
  <2>3. remove_image(t) => tagOf'[t] = NoImage
    BY <1>0, RemoveEffect DEF Refs
  <2>4. t \in Refs /\ {"deleted", "skipped"} \subseteq Bucket
    BY DEF Refs, Bucket
  <2> QED
    BY <1>0, <1>3, <2>2, <2>3, <2>4, ResolveLater
<1>8. \/ UNCHANGED report \/ report'[w] = Empty \/ Tags_References(w)
      \/ Batch_Inspect(w) \/ Batch_References(w) \/ Batch_Remove(w)
      \/ Tags_Resolve(w) \/ Tags_Remove(w)
  BY <1>0 DEF Takes, Work, Batch_Start, Tags_Start, Batch_Preview, Batch_Next, Batch_Lock,
     Batch_Suggest, Tags_Lock, Tags_Inspect, Tags_Done, Tags_Raise, Return, Acquire, Finish,
     locals, TypeOK
<1> QED
  BY <1>1, <1>2, <1>4, <1>5, <1>6, <1>7, <1>8

LEMMA GoneKept == ASSUME Typed, ReportedGoneIsGone, [Next]_vars PROVE ReportedGoneIsGone'
<1> SUFFICES ASSUME NEW v \in Workers, NEW r \in report'[v]["deleted"] \cup report'[v]["missing"]
             PROVE  Resolve(r)' = NoImage \/ r \in loaded'
  BY DEF ReportedGoneIsGone
<1>1. \/ r \in report[v]["deleted"] \cup report[v]["missing"]
      \/ Resolve(r)' = NoImage
  <2>1. CASE UNCHANGED report[v]
    BY <2>1
  <2>2. CASE Takes(v)
    BY <2>2, OwnGone
  <2>3. ASSUME NEW w \in Workers, Takes(w), w # v PROVE UNCHANGED report[v]
    BY <2>3, OneAtATime DEF Typed, Same
  <2> QED
    BY <2>1, <2>2, <2>3, NextCases
       DEF Outside, LoadImage, CreateContainer, RemoveContainer, vars, locals
<1>2. ASSUME r \in report[v]["deleted"] \cup report[v]["missing"]
      PROVE  r \in Refs /\ (Resolve(r) = NoImage \/ r \in loaded)
  BY <1>2 DEF ReportedGoneIsGone, Typed, TypeOK, Bucket
<1> QED
  BY <1>1, <1>2, GoneStays

-----------------------------------------------------------------------------
(* The tags that a request has found in use.                                 *)

Removing == {"t_loop", "t_remove"}

\* A removal loop spares the tag of a container.
Spares(u, c) ==
  /\ pc[u] \in Removing => c.ref \notin todo[u]
  /\ pc[u] = "t_remove" => c.ref # item[u]

KnownOf(w) ==
  /\ known[w] \subseteq {c \in containers : c.ref \in Tags}
  /\ known[w] # {} => pc[w] \in Removing \cup {"done"} /\ target[w] \in Images

\* Without loads, a tag is never moved to another image.
TagsOfContainers ==
  loads = 0 => \A c \in containers : c.ref \in Tags => tagOf[c.ref] \in {c.image, NoImage}

Known  == \A w \in Workers : KnownOf(w)
Spared == loads = 0 => \A w, u \in Workers : \A c \in known[w] : target[u] = target[w] => Spares(u, c)

Listed == Known /\ TagsOfContainers /\ TagsInUseAreKept /\ Spared

LEMMA KnownStep ==
  ASSUME Typed, Known, NEW w \in Workers, Takes(w)
  PROVE  \/ known'[w] = {}
         \/ known'[w] = known[w] /\ target'[w] = target[w] /\ pc'[w] \in Removing \cup {"done"}
         \/ Tags_References(w)
<1>1. pc[w] \notin Removing \cup {"done"} => known[w] = {}
  BY DEF Known, KnownOf
<1>2. CASE Tags_Start(w) \/ Tags_Lock(w) \/ Tags_Inspect(w) \/ Batch_Start(w) \/ Batch_Next(w)
           \/ Batch_Lock(w) \/ Batch_Inspect(w) \/ Batch_References(w) \/ Batch_Remove(w) \/ Batch_Suggest(w)
  BY <1>1, <1>2 DEF Removing, Tags_Start, Tags_Lock, Tags_Inspect, Batch_Start, Batch_Next,
     Batch_Lock, Batch_Inspect, Batch_References, Batch_Remove, Batch_Suggest, Acquire, hist
<1>3. CASE Batch_Preview(w) \/ Tags_Raise(w) \/ Return(w)
  BY <1>1, <1>3 DEF Removing, Batch_Preview, Tags_Raise, Return, Finish, hist, Typed, TypeOK
<1>4. CASE Tags_Resolve(w) \/ Tags_Remove(w) \/ Tags_Done(w)
  BY <1>4 DEF Removing, Tags_Resolve, Tags_Remove, Tags_Done, Goto, hist, locals, Typed, TypeOK
<1> QED
  BY <1>2, <1>3, <1>4 DEF Takes, Work

LEMMA LoopStep ==
  ASSUME Typed, NEW u \in Workers, Takes(u), pc'[u] \in Removing
  PROVE  \/ Tags_References(u)
         \/ /\ pc[u] \in Removing /\ target'[u] = target[u] /\ todo'[u] \subseteq todo[u]
            /\ pc'[u] = "t_remove" => item'[u] \in todo[u]
<1>1. CASE Tags_Resolve(u) \/ Tags_Remove(u)
  BY <1>1 DEF Removing, Tags_Resolve, Tags_Remove, Goto, Typed, TypeOK
<1>2. ~(Tags_Resolve(u) \/ Tags_Remove(u) \/ Tags_References(u)) => pc'[u] \notin Removing
  BY DEF Takes, Work, Batch_Start, Tags_Start, Batch_Preview, Batch_Next, Batch_Lock,
     Batch_Inspect, Batch_References, Batch_Remove, Batch_Suggest, Tags_Lock, Tags_Inspect,
     Tags_Done, Tags_Raise, Return, Acquire, Finish, Settle, Goto, Removing, Typed, TypeOK
<1> QED
  BY <1>1, <1>2

LEMMA ReferencesStep ==
  ASSUME Typed, NEW w \in Workers, Tags_References(w)
  PROVE  /\ pc[w] = "t_refs" /\ pc'[w] = "t_loop"
         /\ target[w] \in Images /\ lock[target[w]] = w /\ target'[w] = target[w]
         /\ known'[w] = {c \in containers : c.ref \in Tags /\ tagOf[c.ref] = target[w]}
         /\ \A c \in containers : c.ref \notin todo'[w]
         /\ UNCHANGED docker
  BY DEF Typed, TypeOK, Control, ControlOf, HoldPC, Tags_References, UsedTags, Goto

LEMMA KnownKept == ASSUME Typed, Known, [Next]_vars PROVE Known'
<1> SUFFICES ASSUME NEW v \in Workers PROVE KnownOf(v)'
  BY DEF Known
<1>1. KnownOf(v)
  BY DEF Known
<1>2. CASE Outside
  <2>1. UNCHANGED <<pc, target>>
    BY <1>2 DEF Outside, LoadImage, CreateContainer, RemoveContainer, locals
  <2>2. known'[v] \subseteq known[v] /\ known'[v] \subseteq {c \in containers' : c.ref \in Tags}
    BY <1>1, <1>2 DEF KnownOf, Outside, LoadImage, CreateContainer, RemoveContainer, hist
  <2> QED
    BY <1>1, <2>1, <2>2 DEF KnownOf
<1>3. ASSUME NEW w \in Workers, Takes(w) PROVE KnownOf(v)'
  <2>1. containers' = containers
    BY <1>3, TakesCases, QuietForOthers, RemoveEffect
       DEF Typed, Batch_Remove, Tags_Remove, docker, remove_image
  <2>2. CASE v # w
    BY <1>1, <1>3, <2>1, <2>2, OneAtATime DEF Typed, Same, KnownOf
  <2>3. CASE v = w
    BY <1>1, <1>3, <2>1, <2>3, KnownStep, ReferencesStep DEF KnownOf, Removing
  <2> QED
    BY <2>2, <2>3
<1>4. CASE UNCHANGED vars
  BY <1>1, <1>4 DEF vars, docker, hist, locals, KnownOf
<1> QED
  BY <1>2, <1>3, <1>4, NextCases

LEMMA TagsOfContainersKept ==
  ASSUME Typed, TagsOfContainers, [Next]_vars PROVE TagsOfContainers'
<1> SUFFICES ASSUME loads = 0, loads' = 0, NEW c \in containers', c.ref \in Tags
             PROVE  tagOf'[c.ref] \in {c.image, NoImage}
  BY LoadsGrow DEF TagsOfContainers
<1>1. CASE UNCHANGED <<exists, tagOf, containers, loads, loaded>>
  BY <1>1 DEF TagsOfContainers
<1>2. ASSUME NEW w \in Workers, NEW ref \in Refs, Removes(w, ref) PROVE tagOf'[c.ref] \in {c.image, NoImage}
  BY <1>2, RemoveEffect DEF Removes, Typed, TagsOfContainers
<1>3. ASSUME NEW ref \in Refs, CreateContainer(ref) PROVE tagOf'[c.ref] \in {c.image, NoImage}
  BY <1>3, Created, ResolveTyped DEF CreateContainer, Typed, TagsOfContainers
<1>4. ASSUME NEW d \in containers, RemoveContainer(d) PROVE tagOf'[c.ref] \in {c.image, NoImage}
  BY <1>4 DEF RemoveContainer, TagsOfContainers
<1>5. ASSUME NEW i \in Images, NEW t \in Tags, LoadImage(i, t) PROVE FALSE
  BY <1>5, LoadsGrow DEF LoadImage
<1> QED
  BY <1>1, <1>2, <1>3, <1>4, <1>5, DockerCases DEF Outside

\* A request that lists the containers locks its image against every loop
\* that might take one of the tags it has found in use.
LEMMA SparedKept == ASSUME Typed, Known, Spared, [Next]_vars PROVE Spared'
<1> SUFFICES ASSUME loads = 0, loads' = 0, NEW w \in Workers, NEW u \in Workers,
                    NEW c \in known'[w], target'[u] = target'[w]
             PROVE  Spares(u, c)'
  BY LoadsGrow DEF Spared
<1>1. ASSUME c \in known[w], target[u] = target[w] PROVE Spares(u, c)
  BY <1>1 DEF Spared
<1>2. CASE UNCHANGED <<pc, target, item, todo>> /\ known'[w] \subseteq known[w]
  BY <1>1, <1>2 DEF Spares
<1>3. ASSUME NEW v \in Workers, Takes(v) PROVE Spares(u, c)'
  <2>1. c \in containers
    <3>1. KnownOf(w)
      BY DEF Known
    <3> QED
      BY <1>3, <3>1, KnownStep, ReferencesStep, OneAtATime DEF KnownOf, Typed, Same
  <2>2. CASE v = u
    <3>1. CASE pc'[u] \notin Removing
      BY <3>1 DEF Spares, Removing
    <3>2. CASE Tags_References(u)
      BY <2>1, <3>2, ReferencesStep DEF Spares
    <3>3. CASE /\ pc[u] \in Removing /\ target'[u] = target[u] /\ todo'[u] \subseteq todo[u]
               /\ pc'[u] = "t_remove" => item'[u] \in todo[u]
               /\ ~Tags_References(u)
      <4>1. c \in known[w] /\ target[u] = target[w]
        <5>1. CASE w = u
          BY <1>3, <2>2, <3>3, <5>1, KnownStep
        <5>2. CASE w # u
          BY <1>3, <2>2, <3>3, <5>2, OneAtATime DEF Typed, Same
        <5> QED
          BY <5>1, <5>2
      <4> QED
        BY <1>1, <3>3, <4>1 DEF Spares
    <3> QED
      BY <1>3, <2>2, <3>1, <3>2, <3>3, LoopStep
  <2>3. CASE v # u
    <3>1. Same(u)
      BY <1>3, <2>3, OneAtATime DEF Typed
    <3>2. CASE v = w /\ Tags_References(w)
      <4>1. pc[u] \in Removing => target[u] \in Images /\ lock[target[u]] = u
        BY DEF Typed, Control, ControlOf, HoldPC, Removing
      <4>2. pc[u] \notin Removing
        <5>1. lock[target[w]] = w /\ target'[w] = target[w]
          BY <3>2, ReferencesStep
        <5>2. target[u] = target[w] /\ u # w
          BY <2>3, <3>1, <3>2, <5>1 DEF Same
        <5> QED
          BY <4>1, <5>1, <5>2
      <4> QED
        BY <3>1, <4>2 DEF Same, Spares, Removing
    <3>3. CASE ~(v = w /\ Tags_References(w))
      <4>1. c \in known[w] /\ target'[w] = target[w]
        <5>1. CASE v = w
          BY <1>3, <3>3, <5>1, KnownStep
        <5>2. CASE v # w
          BY <1>3, <5>2, OneAtATime DEF Typed, Same
        <5> QED
          BY <5>1, <5>2
      <4> QED
        BY <1>1, <3>1, <4>1 DEF Same, Spares
    <3> QED
      BY <3>2, <3>3
  <2> QED
    BY <2>2, <2>3
<1>4. Outside => UNCHANGED <<pc, target, item, todo>> /\ known'[w] \subseteq known[w]
  BY DEF Outside, LoadImage, CreateContainer, RemoveContainer, locals, hist
<1>5. UNCHANGED vars => UNCHANGED <<pc, target, item, todo>> /\ known'[w] \subseteq known[w]
  BY DEF vars, locals, hist
<1> QED
  BY <1>2, <1>3, <1>4, <1>5, NextCases

LEMMA TagsInUseKept ==
  ASSUME Typed, Fresh, Listed, [Next]_vars PROVE TagsInUseAreKept'
<1> SUFFICES ASSUME loads = 0, loads' = 0, NEW w \in Workers, NEW c \in known'[w]
             PROVE  tagOf'[c.ref] = target'[w]
  <2>1. loads' \in Nat
    BY TypedKept, BoundAssumption DEF Typed, TypeOK
  <2> QED
    BY <2>1, LoadsGrow DEF TagsInUseAreKept
<1>0. KnownOf(w)
  BY DEF Listed, Known
<1>1. ASSUME c \in known[w]
      PROVE  /\ c \in containers /\ c.ref \in Tags /\ tagOf[c.ref] = target[w]
             /\ target[w] \in Images /\ c.image = target[w]
  <2>1. c \in containers /\ c.ref \in Tags /\ tagOf[c.ref] = target[w] /\ target[w] \in Images
    BY <1>0, <1>1 DEF KnownOf, Listed, TagsInUseAreKept
  <2> QED
    BY <2>1, NullAssumption DEF Listed, TagsOfContainers
<1>2. CASE Outside \/ UNCHANGED vars
  <2>1. UNCHANGED <<tagOf, target>> /\ c \in known[w]
    BY <1>2, LoadsGrow DEF Outside, LoadImage, CreateContainer, RemoveContainer, locals, hist,
       vars, docker, Typed, TypeOK
  <2> QED
    BY <1>1, <2>1
<1>3. ASSUME NEW v \in Workers, Takes(v) PROVE tagOf'[c.ref] = target'[w]
  <2>1. CASE v = w /\ Tags_References(w)
    BY <2>1, ReferencesStep DEF docker
  <2>2. CASE ~(v = w /\ Tags_References(w))
    <3>1. c \in known[w] /\ target'[w] = target[w]
      <4>1. CASE v = w
        BY <1>3, <2>2, <4>1, KnownStep DEF Listed
      <4>2. CASE v # w
        BY <1>3, <4>2, OneAtATime DEF Typed, Same
      <4> QED
        BY <4>1, <4>2
    <3>2. CASE UNCHANGED tagOf
      BY <1>1, <3>1, <3>2
    <3>3. CASE Batch_Remove(v) /\ remove_image(target[v])
      <4>1. target[v] \in Images
        BY <3>3 DEF Batch_Remove, Typed, Control, ControlOf, HoldPC
      <4>2. ~InUse(target[v]) /\ TagsTaken(target[v]) = TagsOf(target[v])
            /\ \A t \in Tags : tagOf'[t] = IF t \in TagsTaken(target[v]) THEN NoImage ELSE tagOf[t]
        BY <3>3, <4>1, RemoveEffect DEF Typed, Refs
      <4>3. target[v] # target[w]
        BY <1>1, <3>1, <4>2 DEF InUse
      <4> QED
        BY <1>1, <3>1, <4>2, <4>3 DEF TagsOf
    <3>4. CASE Tags_Remove(v) /\ remove_image(item[v])
      <4>1. item[v] \in Tags /\ pc[v] = "t_remove" /\ tagOf[item[v]] = target[v]
        BY <3>4 DEF Tags_Remove, Typed, Control, ControlOf, Fresh, FreshOf
      <4>2. item[v] # c.ref
        BY <1>1, <3>1, <4>1 DEF Listed, Spared, Spares
      <4> QED
        BY <1>1, <3>1, <3>4, <4>1, <4>2, RemoveEffect DEF Typed, Refs
    <3> QED
      BY <1>3, <3>2, <3>3, <3>4, TakesCases, QuietForOthers
         DEF Batch_Remove, Tags_Remove, Typed, docker
  <2> QED
    BY <2>1, <2>2
<1> QED
  BY <1>2, <1>3, NextCases

-----------------------------------------------------------------------------
(* The page of the answer.                                                   *)

LEMMA PageKept ==
  ASSUME Typed, Reports, SuggestedPageIsShown, [Next]_vars PROVE SuggestedPageIsShown'
<1> SUFFICES ASSUME NEW v \in Workers, pc'[v] = "done", asked'[v] # {}
             PROVE  page'[v] = 1 \/ (page'[v] >= 1 /\ (page'[v] - 1) * PageSize < seen'[v])
  BY DEF SuggestedPageIsShown
<1>1. CASE UNCHANGED <<pc[v], asked[v], page[v], seen[v]>>
  BY <1>1 DEF SuggestedPageIsShown
<1>2. CASE Batch_Suggest(v)
  <2>1. PICK p \in 1..MaxPage :
          \/ /\ page' = [page EXCEPT ![v] = SuggestedPage(p, Cardinality(exists))]
             /\ seen' = [seen EXCEPT ![v] = Cardinality(exists)]
          \/ /\ page' = [page EXCEPT ![v] = p]
             /\ seen' = [seen EXCEPT ![v] = p * PageSize]
    BY <1>2 DEF Batch_Suggest
  <2>2. p \in Nat \ {0} /\ PageSize \in Nat \ {0}
    BY BoundAssumption
  <2>3. CASE /\ page' = [page EXCEPT ![v] = SuggestedPage(p, Cardinality(exists))]
             /\ seen' = [seen EXCEPT ![v] = Cardinality(exists)]
    <3>1. page'[v] = SuggestedPage(p, Cardinality(exists)) /\ seen'[v] = Cardinality(exists)
      BY <2>3 DEF Typed, TypeOK
    <3> QED
      BY <2>2, <3>1, PageInListing, ImagesCounted, SMTT(60) DEF Typed
  <2>4. CASE page' = [page EXCEPT ![v] = p] /\ seen' = [seen EXCEPT ![v] = p * PageSize]
    <3>1. page'[v] = p /\ seen'[v] = p * PageSize
      BY <2>4 DEF Typed, TypeOK
    <3>2. (p - 1) * PageSize = p * PageSize - PageSize /\ p * PageSize \in Nat
      BY <2>2
    <3> QED
      BY <2>2, <3>1, <3>2
  <2> QED
    BY <2>1, <2>3, <2>4
<1>3. ASSUME Takes(v), ~Batch_Suggest(v) PROVE FALSE
  <2>1. Tags_Done(v)
    BY <1>3 DEF Takes, Work, Batch_Start, Tags_Start, Batch_Preview, Batch_Next, Batch_Lock,
     Batch_Inspect, Batch_References, Batch_Remove, Tags_Lock, Tags_Inspect, Tags_References,
     Tags_Resolve, Tags_Remove, Tags_Raise, Return, Acquire, Finish, Settle, Goto, Typed, TypeOK
  <2> QED
    BY <2>1 DEF Tags_Done, Reports, ReportOf, BatchPC, locals
<1>4. ASSUME NEW w \in Workers, Takes(w), w # v PROVE UNCHANGED <<pc[v], asked[v], page[v], seen[v]>>
  BY <1>4, OneAtATime DEF Typed, Same
<1>5. Outside \/ UNCHANGED vars => UNCHANGED <<pc[v], asked[v], page[v], seen[v]>>
  BY DEF Outside, LoadImage, CreateContainer, RemoveContainer, vars, locals
<1> QED
  BY <1>1, <1>2, <1>3, <1>4, <1>5, NextCases

-----------------------------------------------------------------------------
(* Theorems *)

IInv ==
  /\ Typed /\ Named /\ ContainersKeepTheirImage
  /\ Fresh /\ Reports /\ ReportedGoneIsGone /\ Listed /\ SuggestedPageIsShown

LEMMA Start == Init => IInv
<1> SUFFICES ASSUME Init PROVE IInv
  OBVIOUS
<1> USE DEF Init
<1>1. TypeOK
  <2>1. [w \in Workers |-> Empty] \in [Workers -> [Bucket -> SUBSET Refs]]
    BY EmptyTyped
  <2> QED
    BY <2>1, BoundAssumption DEF TypeOK, PC
<1>2. Control
  BY DEF Control, ControlOf, HoldPC, Waits, BatchPC, Looping
<1>3. Named /\ ContainersKeepTheirImage
  BY DEF Named, ContainersKeepTheirImage
<1>4. Fresh
  BY DEF Fresh, FreshOf, Looping
<1>5. \A w \in Workers : \A b \in Bucket : report[w][b] = {}
  BY EmptyTyped
<1>6. Reports
  BY <1>5 DEF Reports, ReportOf, Lists, Bucket, BatchPC
<1>7. ReportedGoneIsGone
  BY <1>5 DEF ReportedGoneIsGone, Bucket
<1>8. Listed
  BY DEF Listed, Known, KnownOf, TagsOfContainers, TagsInUseAreKept, Spared
<1>9. SuggestedPageIsShown
  BY DEF SuggestedPageIsShown
<1> QED
  BY <1>1, <1>2, <1>3, <1>4, <1>6, <1>7, <1>8, <1>9 DEF IInv, Typed

LEMMA StepKept == IInv /\ [Next]_vars => IInv'
  BY TypedKept, NamedKept, ImagesStay, FreshKept, ReportsKept, GoneKept, KnownKept,
     TagsOfContainersKept, TagsInUseKept, SparedKept, PageKept DEF IInv, Listed

\* The invariant behind the theorems: an image is worked on by the worker
\* inside its lock, and what it has read there holds until it acts.
THEOREM InductiveInvariant == Spec => []IInv
  BY Start, StepKept, PTL DEF Spec

\* Every variable keeps its type.
THEOREM TypeCorrect == Spec => []TypeOK
<1>1. IInv => TypeOK
  BY DEF IInv, Typed
<1> QED
  BY <1>1, InductiveInvariant, PTL

\* No request takes an image away from a container, whenever it was created.
THEOREM ContainersKeepTheirImageHolds == Spec => []ContainersKeepTheirImage
<1>1. IInv => ContainersKeepTheirImage
  BY DEF IInv
<1> QED
  BY <1>1, InductiveInvariant, PTL

\* Every id of a batch is in exactly one list of the answer, and what is
\* called deleted or missing is gone.
THEOREM AnswersAreTrueHolds == Spec => []AnswersAreTrue
<1>1. IInv => AnswersAreTrue
  BY ReportedOnce DEF IInv, AnswersAreTrue
<1> QED
  BY <1>1, InductiveInvariant, PTL

\* Requests do not take an image or a tag away from one another: what one has
\* read under the lock of an image holds when it acts, as long as no
\* deployment loads an image.
THEOREM ReadUnderLockStays == Spec => []ReadUnderLockHolds
<1>1. ASSUME IInv PROVE ReadUnderLockHolds
  <2>1. loads = 0 \/ loads > 0
    BY <1>1, BoundAssumption DEF IInv, Typed, TypeOK
  <2> QED
    BY <1>1, <2>1 DEF IInv, Fresh, FreshOf, Looping, ReadUnderLockHolds
<1> QED
  BY <1>1, InductiveInvariant, PTL

\* A tag that was found in use stays while the request runs.
THEOREM TagsInUseAreKeptHolds == Spec => []TagsInUseAreKept
<1>1. IInv => TagsInUseAreKept
  BY DEF IInv, Listed
<1> QED
  BY <1>1, InductiveInvariant, PTL

\* The page that an answer suggests is a page of the listing it was computed
\* from, for every size of a page.
THEOREM SuggestedPageIsShownHolds == Spec => []SuggestedPageIsShown
<1>1. IInv => SuggestedPageIsShown
  BY DEF IInv
<1> QED
  BY <1>1, InductiveInvariant, PTL
=============================================================================
