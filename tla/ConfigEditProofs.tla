--------------------------- MODULE ConfigEditProofs ---------------------------
(* Theorems about ConfigEdit, for every number of edits, failures and        *)
(* crashes: what holds with one failure holds after any number of edits      *)
(* before and after it.                                                      *)
EXTENDS ConfigEdit, TLAPS

Names == {"env", "compose", "sums"}

All3 == <<"env", "compose", "sums">>
All2 == <<"compose", "sums">>
All1 == <<"sums">>

\* The files still to restore.
Names1 == {"sums"}
Names2 == {"compose", "sums"}
Pending ==
  IF todo = All3 THEN Names ELSE IF todo = All2 THEN Names2 ELSE IF todo = All1 THEN Names1 ELSE {}

Restoration == {"restore_write", "restore_replace"}

\* The steps up to the first replacement.
Untouched == {"cand_env", "cand_compose", "config", "repl_env"}

TodoOK ==
  /\ step \in Restoration => todo \in {All3, All2, All1}
  /\ step \notin Restoration => todo = <<>>

\* What the edit under way has written, and that a saved one is whole.
Written ==
  /\ step \in Untouched => file = snap
  /\ step = "repl_compose" => file.env = edit
  /\ step \in {"sum_write", "sum_replace", "save"} => file.env = edit /\ file.compose = edit
  /\ step = "sum_replace" => digest.env = edit /\ digest.compose = edit
  /\ step = "save" => file.sums.env = edit /\ file.sums.compose = edit
  /\ step \in {"clean", "idle"} /\ outcome = "saved" => Whole

\* What a restoration has put back, as long as it does not fail itself.
Restored ==
  /\ step \in Restoration => outcome = "failed"
  /\ step = "clean" => outcome \in {"saved", "failed"}
  /\ step \in Restoration /\ faults = 0 => file = snap
  /\ step \in Restoration => \A n \in Names \ Pending : file[n] = snap[n]
  /\ step \in {"clean", "idle"} /\ outcome = "failed" /\ faults <= 1 => file = snap

WholeOf(f) ==
  /\ f.env = f.compose /\ rules = f.env
  /\ f.sums.env = f.env /\ f.sums.compose = f.compose

\* With one failure, an edit starts from a whole configuration, and between
\* edits there is one.
StartsWhole ==
  OneFailure =>
    /\ step = "idle" => WholeOf(file)
    /\ step \in InTry \cup Restoration => WholeOf(snap)
    /\ step = "clean" => WholeOf(IF outcome = "saved" THEN file ELSE snap)

\* With one failure, the only file the checksums could list and the finally
\* clause remove, the partial checksums, is not there when they are written.
Leftovers ==
  OneFailure =>
    /\ step \in Untouched \cup {"idle", "repl_compose", "sum_write"} => "partial" \notin left
    /\ step \in Restoration \cup {"clean"} /\ faults = 0 => "partial" \notin left
    /\ step \in {"repl_compose", "sum_write", "sum_replace", "save"} => "cand_env" \notin left
    /\ step \in {"sum_write", "sum_replace", "save"} => "cand_compose" \notin left
    /\ step = "sum_replace" => digest.extra = left \ {"partial"}
    /\ step = "save" => "partial" \notin left /\ file.sums.extra = left
    /\ step = "clean" /\ outcome = "saved" =>
         left \cap {"cand_env", "cand_compose", "partial"} = {} /\ file.sums = SumsOf(file, left)
    /\ step = "idle" /\ outcome = "saved" => file.sums = SumsOf(file, left)

IInv ==
  /\ TypeOK /\ TodoOK /\ Written /\ Restored /\ StartsWhole /\ Leftovers
  /\ DeployUsesOneEdit

-----------------------------------------------------------------------------
LEMMA RecordsTyped ==
  ASSUME NEW f \in Files, NEW v \in Version, NEW s \in Sums, NEW x \in SUBSET Temp
  PROVE  /\ [f EXCEPT !.env = v] \in Files
         /\ [f EXCEPT !.compose = v] \in Files
         /\ [f EXCEPT !.sums = s] \in Files
         /\ SumsOf(f, x) \in Sums
  BY DEF Files, Sums, SumsOf

LEMMA FilesEqual ==
  ASSUME NEW f \in Files, NEW g \in Files, \A n \in Names : f[n] = g[n]
  PROVE  f = g
  BY DEF Files, Names

LEMMA SumsEqual ==
  ASSUME NEW s \in Sums, NEW f \in Files, NEW x,
         s.env = f.env, s.compose = f.compose, s.extra = x
  PROVE  s = SumsOf(f, x)
  BY DEF Sums, SumsOf

LEMMA Suffixes ==
  /\ Head(All3) = "env" /\ Tail(All3) = All2
  /\ Head(All2) = "compose" /\ Tail(All2) = All1
  /\ Head(All1) = "sums" /\ Tail(All1) = <<>>
  /\ All3 # All2 /\ All3 # All1 /\ All2 # All1
  /\ All3 # <<>> /\ All2 # <<>> /\ All1 # <<>>
  BY DEF All3, All2, All1

\* Restoring the first of the pending files.
LEMMA RestoreOne ==
  ASSUME TypeOK, TodoOK, step = "restore_replace", todo' = Tail(todo)
  PROVE  /\ [file EXCEPT ![Head(todo)] = snap[Head(todo)]] \in Files
         /\ \A n \in Names : [file EXCEPT ![Head(todo)] = snap[Head(todo)]][n] =
                               IF n = Head(todo) THEN snap[n] ELSE file[n]
         /\ todo' \in {All2, All1, <<>>}
         /\ Pending' = Pending \ {Head(todo)}
<1>1. todo \in {All3, All2, All1}
  BY DEF TodoOK, Restoration
<1>2. Head(todo) \in Names /\ todo' \in {All2, All1, <<>>}
  BY <1>1, Suffixes DEF Names
<1>3. [file EXCEPT ![Head(todo)] = snap[Head(todo)]] \in Files
  BY <1>2 DEF TypeOK, Files, Names
<1>4. \A n \in Names : [file EXCEPT ![Head(todo)] = snap[Head(todo)]][n] =
                          IF n = Head(todo) THEN snap[n] ELSE file[n]
  BY <1>2 DEF TypeOK, Files, Names
<1>5. Pending' = Pending \ {Head(todo)}
  BY <1>1, Suffixes DEF Pending, Names, Names1, Names2
<1> QED
  BY <1>2, <1>3, <1>4, <1>5

LEMMA WritingOK ==
  ASSUME TodoOK
  PROVE  /\ Writing \subseteq Temp
         /\ step = "restore_write" => Writing \subseteq {"restore_env", "restore_compose", "restore_sums"}
<1>1. step = "restore_write" => Head(todo) \in Names
  BY Suffixes DEF TodoOK, Restoration, Names
<1>2. \A n \in Names : Restoring[n] \in {"restore_env", "restore_compose", "restore_sums"}
  BY DEF Names, Restoring
<1>3. Writing \subseteq Temp
  BY DEF Writing
<1>4. ASSUME step = "restore_write", NEW t \in Writing
      PROVE  t \in {"restore_env", "restore_compose", "restore_sums"}
  BY <1>1, <1>2, <1>4 DEF Writing
<1> QED
  BY <1>3, <1>4

-----------------------------------------------------------------------------
LEMMA InitOK == Init => IInv
<1> SUFFICES ASSUME Init PROVE IInv
  OBVIOUS
<1>1. 0 \in Version /\ 0 \in 0..MaxFaults /\ 0 \in 0..MaxCrashes
  BY BoundAssumption DEF Version
<1>2. Archive \in Files /\ Archive.sums \in Sums /\ WholeOf(Archive)
  BY <1>1 DEF Archive, Files, Sums, WholeOf, Init
<1>3. TypeOK
  BY <1>1, <1>2, SMTT(60) DEF Init, TypeOK, Step
<1> QED
  BY <1>2, <1>3 DEF Init, IInv, TodoOK, Written, Restored, StartsWhole, Leftovers,
     DeployUsesOneEdit, Restoration, Untouched, InTry, Pending

LEMMA NextOK == IInv /\ [Next]_vars => IInv'
<1> SUFFICES ASSUME IInv, [Next]_vars PROVE IInv'
  OBVIOUS
<1>a. Writing \subseteq Temp
  BY WritingOK DEF IInv
<1>b. faults \in Nat /\ crashes \in Nat
  BY BoundAssumption DEF IInv, TypeOK
<1> USE DEF IInv, TypeOK, TodoOK, Written, Restored, StartsWhole, Leftovers, Whole, WholeOf,
        DeployUsesOneEdit, OneFailure, Restoration, Untouched, InTry, Step, counters
<1>1. CASE Begin
  <2>1. edit' \in Version /\ edits' \in Version
    BY <1>1, BoundAssumption DEF Begin, Version
  <2> QED
    BY <1>1, <2>1 DEF Begin
<1>2. CASE CandidateEnv \/ CandidateCompose
  BY <1>2 DEF CandidateEnv, CandidateCompose, WriteCandidate, Temp
<1>3. CASE ComposeConfig
  BY <1>3 DEF ComposeConfig
<1>4. CASE ReplaceEnv
  <2>1. file' \in Files /\ file'.env = edit /\ file'.compose = file.compose /\ file'.sums = file.sums
    BY <1>4, RecordsTyped DEF ReplaceEnv, Files
  <2> QED
    BY <1>4, <2>1 DEF ReplaceEnv
<1>5. CASE ReplaceCompose
  <2>1. file' \in Files /\ file'.env = file.env /\ file'.compose = edit /\ file'.sums = file.sums
    BY <1>5, RecordsTyped DEF ReplaceCompose, Files
  <2> QED
    BY <1>5, <2>1 DEF ReplaceCompose
<1>6. CASE WriteSums
  <2>1. digest' \in Sums /\ digest'.env = edit /\ digest'.compose = edit /\ digest'.extra = left
    BY <1>6, RecordsTyped DEF WriteSums, SumsOf
  <2> QED
    BY <1>6, <2>1 DEF WriteSums, Temp
<1>7. CASE ReplaceSums
  <2>1. file' \in Files /\ file'.env = edit /\ file'.compose = edit /\ file'.sums = digest
    BY <1>7, RecordsTyped DEF ReplaceSums, Files
  <2> QED
    BY <1>7, <2>1 DEF ReplaceSums
<1>8. CASE SaveRecord
  <2>1. step = "save" /\ OneFailure => file.sums = SumsOf(file, left)
    BY SumsEqual DEF Files
  <2> QED
    BY <1>8, <2>1 DEF SaveRecord
<1>9. CASE Raise
  <2>1. /\ \/ step = "config" /\ faults' = faults /\ left' = left
           \/ faults' = faults + 1 /\ faults' \in 0..MaxFaults
        /\ left' \subseteq Temp
    BY <1>9, <1>a, <1>b, BoundAssumption DEF Raise, Fault
  <2>2. /\ step \in InTry /\ step' = "restore_write" /\ todo' = All3 /\ outcome' = "failed"
        /\ UNCHANGED <<file, digest, rules, edit, snap, deployed, edits, crashes>>
    BY <1>9 DEF Raise, All3
  <2>3. Pending' = Names
    BY <2>2 DEF Pending
  <2>4. TypeOK' /\ TodoOK' /\ Written'
    BY <2>1, <2>2
  <2>5. Restored'
    BY <1>b, <2>1, <2>2, <2>3
  <2>6. StartsWhole' /\ Leftovers' /\ DeployUsesOneEdit'
    BY <1>b, <2>1, <2>2
  <2> QED
    BY <2>4, <2>5, <2>6
<1>10. CASE RestoreWrite
  BY <1>10, <1>a, WritingOK DEF RestoreWrite, Pending
<1>11. CASE RestoreReplace
  <2>1. /\ step = "restore_replace" /\ todo' = Tail(todo)
        /\ file' = [file EXCEPT ![Head(todo)] = snap[Head(todo)]]
        /\ step' = IF todo' = <<>> THEN "clean" ELSE "restore_write"
        /\ left' \subseteq left
        /\ UNCHANGED <<digest, rules, edit, snap, outcome, deployed, edits, faults, crashes>>
    BY <1>11 DEF RestoreReplace
  <2>2. /\ file' \in Files
        /\ \A n \in Names : file'[n] = IF n = Head(todo) THEN snap[n] ELSE file[n]
        /\ todo' \in {All2, All1, <<>>}
        /\ Pending' = Pending \ {Head(todo)}
    BY <2>1, RestoreOne
  <2>3. \A n \in Names \ Pending' : file'[n] = snap[n]
    BY <2>1, <2>2
  <2>4. ASSUME faults = 0 PROVE file' = snap
    <3>1. file = snap
      BY <2>1, <2>4
    <3>2. \A n \in Names : file'[n] = snap[n]
      BY <2>2, <3>1
    <3> QED
      BY <2>2, <3>2, FilesEqual
  <2>5. todo' = <<>> => Pending' = {}
    BY Suffixes DEF Pending
  <2>6. todo' = <<>> => file' = snap
    BY <2>2, <2>3, <2>5, FilesEqual
  <2>7. TypeOK' /\ TodoOK' /\ Written'
    BY <2>1, <2>2, Suffixes
  <2>8. Restored'
    BY <2>1, <2>3, <2>4, <2>6
  <2>9. StartsWhole' /\ Leftovers' /\ DeployUsesOneEdit'
    BY <2>1
  <2> QED
    BY <2>7, <2>8, <2>9
<1>12. CASE RestoreFails
  <2>1. /\ step \in Restoration /\ step' = "clean" /\ todo' = <<>>
        /\ faults' = faults + 1 /\ faults' \in 0..MaxFaults
        /\ left' \subseteq Temp
        /\ UNCHANGED <<file, digest, rules, edit, snap, outcome, deployed, edits, crashes>>
    BY <1>12, <1>a, <1>b, BoundAssumption DEF RestoreFails, Fault
  <2>2. TypeOK' /\ TodoOK' /\ Written'
    BY <2>1
  <2>3. Restored'
    BY <1>b, <2>1
  <2>4. StartsWhole' /\ Leftovers' /\ DeployUsesOneEdit'
    BY <1>b, <2>1
  <2> QED
    BY <2>2, <2>3, <2>4
<1>13. CASE Clean
  BY <1>13 DEF Clean
<1>14. CASE CleanFails
  <2>1. /\ step = "clean" /\ step' = "idle"
        /\ faults' = faults + 1 /\ faults' \in 0..MaxFaults
        /\ left' \subseteq left /\ left \cap {"cand_env", "cand_compose", "partial"} # {}
        /\ UNCHANGED <<file, digest, rules, todo, edit, snap, outcome, deployed, edits, crashes>>
    BY <1>14, <1>b, BoundAssumption DEF CleanFails, Fault
  <2>2. TypeOK' /\ TodoOK' /\ Written'
    BY <2>1
  <2>3. Restored'
    BY <1>b, <2>1
  <2>4. StartsWhole' /\ Leftovers' /\ DeployUsesOneEdit'
    BY <1>b, <2>1
  <2> QED
    BY <2>2, <2>3, <2>4
<1>15. CASE Crash
  <2>1. /\ step' = "idle" /\ todo' = <<>> /\ outcome' = "crashed"
        /\ crashes' = crashes + 1 /\ crashes' \in 0..MaxCrashes /\ crashes' # 0
        /\ left' \subseteq Temp
        /\ UNCHANGED <<file, digest, rules, edit, snap, deployed, edits, faults>>
    BY <1>15, <1>a, <1>b, BoundAssumption DEF Crash
  <2> QED
    BY <2>1
<1>16. CASE Deploy
  BY <1>16 DEF Deploy, Files
<1>17. CASE UNCHANGED vars
  BY <1>17 DEF vars, Pending
<1> QED
  BY <1>1, <1>2, <1>3, <1>4, <1>5, <1>6, <1>7, <1>8, <1>9, <1>10, <1>11, <1>12, <1>13,
     <1>14, <1>15, <1>16, <1>17 DEF Next

\* What the edits of a task keep at every step, whatever fails or crashes.
THEOREM InductiveInvariant == Spec => []IInv
  BY InitOK, NextOK, PTL DEF Spec

-----------------------------------------------------------------------------
\* Every variable keeps its type; above all the digests name only versions of
\* the task's own edits.
THEOREM TypeCorrect == Spec => []TypeOK
<1>1. IInv => TypeOK
  BY DEF IInv
<1> QED
  BY <1>1, InductiveInvariant, PTL

\* One failing operation, whichever it is and in whichever of any number of
\* edits, leaves no half configuration.
THEOREM OneFailureLeavesItWholeHolds == Spec => []OneFailureLeavesItWhole
<1>1. IInv => OneFailureLeavesItWhole
  BY DEF IInv, StartsWhole, WholeOf, OneFailureLeavesItWhole, Whole
<1> QED
  BY <1>1, InductiveInvariant, PTL

\* An edit that raised leaves the files it found, however many crashes came
\* before it.
THEOREM FailedEditChangesNothingHolds == Spec => []FailedEditChangesNothing
<1>1. IInv => FailedEditChangesNothing
  BY DEF IInv, Restored, FailedEditChangesNothing
<1> QED
  BY <1>1, InductiveInvariant, PTL

\* A saved edit is whole after any number of failures and crashes, and with one
\* failure its checksums list exactly the files that are there.
THEOREM SavedEditIsWholeHolds == Spec => []SavedEditIsWhole
<1>1. IInv => SavedEditIsWhole
  BY DEF IInv, Written, Leftovers, SavedEditIsWhole
<1> QED
  BY <1>1, InductiveInvariant, PTL

\* With one failure, no deployment mixes the files or the rules of two edits.
THEOREM DeployUsesOneEditHolds == Spec => []DeployUsesOneEdit
<1>1. IInv => DeployUsesOneEdit
  BY DEF IInv
<1> QED
  BY <1>1, InductiveInvariant, PTL

-----------------------------------------------------------------------------
\* Edits are numbered in their order: no part of the configuration is of a
\* later edit than the last, and all an edit found is older than itself.
UpTo(f, n) == f.env <= n /\ f.compose <= n /\ f.sums.env <= n /\ f.sums.compose <= n

Numbered ==
  /\ UpTo(file, edits) /\ rules <= edits
  /\ step # "idle" => edit = edits /\ edit > 0
  /\ step \in InTry \cup Restoration => UpTo(snap, edit - 1) /\ rules < edit

\* Until it ends, each file is as the edit found it or as the edit has it.
OldOrNew ==
  step \in InTry \cup Restoration =>
    /\ file.env \in {snap.env, edit} /\ file.compose \in {snap.compose, edit}
    /\ \/ file.sums = snap.sums
       \/ file.sums.env = edit /\ file.sums.compose = edit

Numbering == Numbered /\ OldOrNew

LEMMA NumberingInit == Init => Numbering
  BY DEF Init, Archive, Numbering, Numbered, OldOrNew, UpTo, InTry, Restoration

LEMMA NumberingNext == IInv /\ Numbering /\ [Next]_vars => Numbering'
<1> SUFFICES ASSUME IInv, Numbering, [Next]_vars PROVE Numbering'
  OBVIOUS
<1>a. /\ edits \in Nat /\ edit \in Nat /\ rules \in Nat /\ file \in Files /\ snap \in Files
      /\ digest \in Sums
  BY BoundAssumption DEF IInv, TypeOK, Version
<1>b. \A f \in Files : /\ f.env \in Nat /\ f.compose \in Nat
                       /\ f.sums.env \in Nat /\ f.sums.compose \in Nat
  BY BoundAssumption DEF Files, Sums, Version
<1> USE DEF Numbering, Numbered, OldOrNew, UpTo, InTry, Restoration, counters
<1>1. CASE Begin
  BY <1>1, <1>a, <1>b DEF Begin
<1>2. CASE CandidateEnv \/ CandidateCompose \/ ComposeConfig \/ RestoreWrite
  BY <1>2 DEF CandidateEnv, CandidateCompose, WriteCandidate, ComposeConfig, RestoreWrite
<1>3. CASE ReplaceEnv
  <2>1. file'.env = edit /\ file'.compose = file.compose /\ file'.sums = file.sums
    BY <1>3, <1>a DEF ReplaceEnv, Files
  <2> QED
    BY <1>3, <1>a, <2>1 DEF ReplaceEnv
<1>4. CASE ReplaceCompose
  <2>1. file'.env = file.env /\ file'.compose = edit /\ file'.sums = file.sums
    BY <1>4, <1>a DEF ReplaceCompose, Files
  <2> QED
    BY <1>4, <1>a, <2>1 DEF ReplaceCompose
<1>5. CASE WriteSums
  BY <1>5 DEF WriteSums
<1>6. CASE ReplaceSums
  <2>1. file'.env = file.env /\ file'.compose = file.compose /\ file'.sums = digest
    BY <1>6, <1>a DEF ReplaceSums, Files
  <2>2. digest.env = edit /\ digest.compose = edit
    BY <1>6 DEF ReplaceSums, IInv, Written
  <2> QED
    BY <1>6, <1>a, <2>1, <2>2 DEF ReplaceSums
<1>7. CASE SaveRecord
  BY <1>7, <1>a DEF SaveRecord
<1>8. CASE Raise
  BY <1>8 DEF Raise
<1>9. CASE RestoreReplace
  <2>1. /\ step = "restore_replace" /\ todo' = Tail(todo)
        /\ step' \in {"clean", "restore_write"}
        /\ file' = [file EXCEPT ![Head(todo)] = snap[Head(todo)]]
        /\ UNCHANGED <<rules, edit, snap, edits>>
    BY <1>9 DEF RestoreReplace
  <2>2. \A n \in Names : file'[n] = snap[n] \/ file'[n] = file[n]
    BY <2>1, RestoreOne DEF IInv
  <2>3. /\ file'.env \in {file.env, snap.env} /\ file'.compose \in {file.compose, snap.compose}
        /\ file'.sums \in {file.sums, snap.sums}
    BY <2>2 DEF Names
  <2> QED
    BY <1>a, <1>b, <2>1, <2>3
<1>10. CASE RestoreFails \/ Clean \/ CleanFails \/ Crash \/ Deploy
  BY <1>10 DEF RestoreFails, Clean, CleanFails, Crash, Deploy
<1>11. CASE UNCHANGED vars
  BY <1>11 DEF vars
<1> QED
  BY <1>1, <1>2, <1>3, <1>4, <1>5, <1>6, <1>7, <1>8, <1>9, <1>10, <1>11 DEF Next

LEMMA NumberingHolds == Spec => []Numbering
  BY NumberingInit, NumberingNext, InductiveInvariant, PTL DEF Spec

-----------------------------------------------------------------------------
\* The configuration of a whole edit.
LEMMA SavedConfig ==
  ASSUME IInv, SaveRecord
  PROVE  SeenConfig' = Atomic!All(edit)
  BY DEF IInv, Written, SaveRecord, Seen, SeenConfig, Atomic!All

\* Every step maps to a step of the abstract specification, or to none.
LEMMA StepMaps == IInv /\ Numbering /\ [Next]_vars => [Atomic!Next]_(Atomic!vars)
<1> SUFFICES ASSUME IInv, Numbering, [Next]_vars PROVE [Atomic!Next]_(Atomic!vars)
  OBVIOUS
<1>a. /\ edits \in Nat /\ edit \in Version /\ rules \in Nat /\ file \in Files /\ snap \in Files
      /\ faults \in Nat /\ crashes \in Nat
  BY BoundAssumption DEF IInv, TypeOK, Version
<1>b. \A f \in Files : /\ f.env \in Nat /\ f.compose \in Nat
                       /\ f.sums.env \in Nat /\ f.sums.compose \in Nat
  BY BoundAssumption DEF Files, Sums, Version
\* A step that keeps the files seen and the rules changes the failures alone.
<1>s. ASSUME Seen' = Seen, rules' = rules
      PROVE  SeenConfig' = SeenConfig
  BY <1>s DEF SeenConfig
<1>n. ASSUME step \in InTry \cup Restoration
      PROVE  Atomic!Newer(edit) /\ edit \in 1..MaxEdits /\ Seen = snap
  <2>1. Seen = snap
    BY <1>n DEF InTry, Restoration, Seen
  <2>2. UpTo(snap, edit - 1) /\ rules < edit /\ edit > 0
    BY <1>n DEF Numbering, Numbered, InTry, Restoration
  <2>3. Atomic!Newer(edit)
    BY <1>a, <1>b, <2>1, <2>2 DEF Atomic!Newer, SeenConfig, UpTo, Version
  <2> QED
    BY <1>a, <2>1, <2>2, <2>3 DEF Version
\* What an edit leaves that stops half way.
<1>t. ASSUME step \in InTry \cup Restoration, Seen' = file, rules' = rules
      PROVE  \E env \in {SeenConfig.env, edit}, compose \in {SeenConfig.compose, edit},
                sums \in {SeenConfig.sums, [env |-> edit, compose |-> edit]} :
               SeenConfig' = [env |-> env, compose |-> compose, sums |-> sums,
                              rules |-> SeenConfig.rules]
  <2>1. Seen = snap
    BY <1>t, <1>n
  <2>2. file.env \in {SeenConfig.env, edit} /\ file.compose \in {SeenConfig.compose, edit}
    BY <1>t, <2>1 DEF Numbering, OldOrNew, SeenConfig
  <2>3. [env |-> file.sums.env, compose |-> file.sums.compose]
          \in {SeenConfig.sums, [env |-> edit, compose |-> edit]}
    BY <1>t, <2>1 DEF Numbering, OldOrNew, SeenConfig
  <2>4. SeenConfig' = [env |-> file.env, compose |-> file.compose,
                       sums |-> [env |-> file.sums.env, compose |-> file.sums.compose],
                       rules |-> SeenConfig.rules]
    BY <1>t DEF SeenConfig
  <2> QED
    BY <2>2, <2>3, <2>4
<1> USE DEF Atomic!vars
<1>1. CASE Begin \/ CandidateEnv \/ CandidateCompose \/ ComposeConfig \/ ReplaceEnv
           \/ ReplaceCompose \/ WriteSums \/ ReplaceSums \/ RestoreWrite \/ Clean
  <2>1. Seen' = Seen /\ UNCHANGED <<rules, deployed, faults, crashes>>
    BY <1>1 DEF Begin, CandidateEnv, CandidateCompose, WriteCandidate, ComposeConfig, ReplaceEnv,
       ReplaceCompose, WriteSums, ReplaceSums, RestoreWrite, Clean, Seen, counters
  <2> QED
    BY <1>s, <2>1
<1>2. CASE SaveRecord
  <2>1. SeenConfig' = Atomic!All(edit) /\ UNCHANGED <<deployed, faults, crashes>>
    BY <1>2, SavedConfig DEF SaveRecord, counters
  <2>2. Atomic!Newer(edit) /\ edit \in 1..MaxEdits
    BY <1>2, <1>n DEF SaveRecord, InTry
  <2> QED
    BY <2>1, <2>2 DEF Atomic!Save, Atomic!Next
<1>3. CASE Raise
  <2>1. Seen' = Seen /\ UNCHANGED <<rules, deployed, crashes>>
    BY <1>3 DEF Raise, Seen, InTry
  <2>2. faults' = faults \/ faults' = faults + 1
    BY <1>3 DEF Raise, Fault
  <2> QED
    BY <1>s, <2>1, <2>2 DEF Atomic!Absorb, Atomic!Fails, Atomic!Next
<1>4. CASE RestoreReplace
  <2>1. /\ step = "restore_replace" /\ todo' = Tail(todo)
        /\ file' = [file EXCEPT ![Head(todo)] = snap[Head(todo)]]
        /\ step' = IF todo' = <<>> THEN "clean" ELSE "restore_write"
        /\ UNCHANGED <<rules, snap, deployed, faults, crashes>>
    BY <1>4 DEF RestoreReplace, counters
  <2>2. /\ file' \in Files
        /\ \A n \in Names : file'[n] = IF n = Head(todo) THEN snap[n] ELSE file[n]
        /\ Pending' = Pending \ {Head(todo)}
    BY <2>1, RestoreOne DEF IInv
  <2>3. \A n \in Names \ Pending' : file'[n] = snap[n]
    BY <2>1, <2>2 DEF IInv, Restored, Restoration
  <2>4. todo' = <<>> => file' = snap
    <3>1. todo' = <<>> => Pending' = {}
      BY Suffixes DEF Pending
    <3> QED
      BY <1>a, <2>2, <2>3, <3>1, FilesEqual
  <2>5. Seen' = Seen
    BY <2>1, <2>4 DEF Seen
  <2> QED
    BY <1>s, <2>1, <2>5
<1>5. CASE RestoreFails
  <2>1. /\ step \in Restoration /\ step' = "clean" /\ faults' = faults + 1
        /\ UNCHANGED <<file, rules, snap, edit, deployed, crashes>>
    BY <1>5 DEF RestoreFails, Fault, Restoration
  <2>2. Seen = snap /\ Seen' = file
    BY <2>1, <1>n DEF Seen
  <2>3. CASE faults = 0
    <3>1. file = snap
      BY <2>1, <2>3 DEF IInv, Restored
    <3> QED
      BY <1>s, <2>1, <2>2, <3>1 DEF Atomic!Absorb, Atomic!Fails, Atomic!Next
  <2>4. CASE faults > 0
    BY <1>n, <1>t, <2>1, <2>2, <2>4 DEF Atomic!Tear, Atomic!Fails, Atomic!Next
  <2> QED
    BY <1>a, <2>3, <2>4
<1>6. CASE CleanFails
  <2>1. /\ step = "clean" /\ step' = "idle" /\ faults' = faults + 1
        /\ UNCHANGED <<file, rules, snap, deployed, crashes>>
    BY <1>6 DEF CleanFails, Fault
  <2> QED
    BY <1>s, <2>1 DEF Seen, Atomic!Absorb, Atomic!Fails, Atomic!Next
<1>7. CASE Crash
  <2>1. /\ step # "idle" /\ step' = "idle" /\ crashes' = crashes + 1
        /\ UNCHANGED <<file, rules, snap, edit, deployed, faults>>
    BY <1>7 DEF Crash
  <2>2. Seen' = file
    BY <2>1 DEF Seen
  <2>3. CASE step = "clean"
    BY <1>s, <2>1, <2>3 DEF Seen, Atomic!Absorb, Atomic!Crashes, Atomic!Next
  <2>4. CASE step # "clean"
    <3>1. step \in InTry \cup Restoration
      BY <2>1, <2>4 DEF IInv, TypeOK, Step, InTry, Restoration
    <3> QED
      BY <1>n, <1>t, <2>1, <2>2, <3>1 DEF Atomic!Tear, Atomic!Crashes, Atomic!Next
  <2> QED
    BY <2>3, <2>4
<1>8. CASE Deploy
  <2>1. /\ step = "idle"
        /\ deployed' = [env |-> Seen.env, compose |-> Seen.compose, rules |-> rules]
        /\ Seen' = Seen /\ UNCHANGED <<rules, faults, crashes>>
    BY <1>8 DEF Deploy, Seen, counters
  <2>2. deployed' = [env |-> SeenConfig.env, compose |-> SeenConfig.compose,
                     rules |-> SeenConfig.rules]
    BY <2>1 DEF SeenConfig
  <2> QED
    BY <1>s, <2>1, <2>2 DEF Atomic!Deploy, Atomic!Next
<1>9. CASE UNCHANGED vars
  BY <1>9 DEF vars, SeenConfig, Seen
<1> QED
  BY <1>1, <1>2, <1>3, <1>4, <1>5, <1>6, <1>7, <1>8, <1>9 DEF Next

\* edit_configuration is one step: for every number of edits, failures and
\* crashes, what its file operations do from outside the task lock is what
\* AtomicEdit does, and only a crash, or a failure after an earlier one, tears
\* an edit.
THEOREM ImplementsAtomicEditHolds == Spec => ImplementsAtomicEdit
<1>1. Init => Atomic!Init
  BY DEF Init, Archive, Atomic!Init, Atomic!All, SeenConfig, Seen
<1> QED
  BY <1>1, StepMaps, InductiveInvariant, NumberingHolds, PTL
     DEF Spec, ImplementsAtomicEdit, Atomic!Spec
=============================================================================
