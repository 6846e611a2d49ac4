----------------------------- MODULE ConfigEdit -----------------------------
(***************************************************************************)
(* edit_configuration (deployment.py) file by file: the snapshot, the      *)
(* candidate files, docker compose config, the two replacements, the new   *)
(* checksums, the save of the record, and the except and finally clauses   *)
(* that put the snapshot back and remove what is left over.                *)
(*                                                                         *)
(* One task, whose lock makes edits and deployments follow one another;    *)
(* what can go wrong between two steps is a failing file operation or a    *)
(* crash.  The content of a file is the number of the edit it comes from,  *)
(* 0 for the archive.  A path.replace is atomic, a failing one has done    *)
(* nothing; a failing write may leave the temporary file it was writing.   *)
(***************************************************************************)
EXTENDS Naturals, Sequences

CONSTANTS MaxEdits, MaxFaults, MaxCrashes   \* bounds

ASSUME BoundAssumption == MaxEdits \in Nat /\ MaxFaults \in Nat /\ MaxCrashes \in Nat

VARIABLES
  file,      \* .env, compose.yaml and checksums.sha256 in the extracted directory
  left,      \* temporary files present there
  digest,    \* what .checksums.sha256.partial lists
  rules,     \* the edit whose directory_rules the record holds
  step, todo, edit, snap,     \* the edit under way: next step, files to restore,
                              \* its number, the snapshots it took
  outcome, deployed,          \* history: how the last edit ended, what was last deployed
  edits, faults, crashes

vars == <<file, left, digest, rules, step, todo, edit, snap, outcome, deployed,
          edits, faults, crashes>>
counters == <<edits, faults, crashes>>

Version == 0..MaxEdits
Temp    == {"cand_env", "cand_compose", "partial", "restore_env", "restore_compose",
            "restore_sums"}
Sums    == [env : Version, compose : Version, extra : SUBSET Temp]
Files   == [env : Version, compose : Version, sums : Sums]
Step    == {"idle", "cand_env", "cand_compose", "config", "repl_env", "repl_compose",
            "sum_write", "sum_replace", "save", "restore_write", "restore_replace", "clean"}

Restoring == [env |-> "restore_env", compose |-> "restore_compose", sums |-> "restore_sums"]

SumsOf(f, names) == [env |-> f.env, compose |-> f.compose, extra |-> names]
Archive == [env |-> 0, compose |-> 0, sums |-> [env |-> 0, compose |-> 0, extra |-> {}]]

Init ==
  /\ file = Archive
  /\ left = {}
  /\ digest = Archive.sums
  /\ rules = 0
  /\ step = "idle" /\ todo = <<>> /\ edit = 0 /\ snap = Archive
  /\ outcome = "none"
  /\ deployed = [env |-> 0, compose |-> 0, rules |-> 0]
  /\ edits = 0 /\ faults = 0 /\ crashes = 0

-----------------------------------------------------------------------------
\* The task lock is taken, the guards hold, and the three files are read.
Begin ==
  /\ step = "idle"
  /\ edits < MaxEdits
  /\ edits' = edits + 1
  /\ edit' = edits + 1
  /\ snap' = file
  /\ step' = "cand_env"
  /\ UNCHANGED <<file, left, digest, rules, todo, outcome, deployed, faults, crashes>>

WriteCandidate(name, from, to) ==
  /\ step = from
  /\ left' = left \cup {name}
  /\ step' = to
  /\ UNCHANGED <<file, digest, rules, todo, edit, snap, outcome, deployed, counters>>

CandidateEnv     == WriteCandidate("cand_env", "cand_env", "cand_compose")
CandidateCompose == WriteCandidate("cand_compose", "cand_compose", "config")

ComposeConfig ==
  /\ step = "config"
  /\ step' = "repl_env"
  /\ UNCHANGED <<file, left, digest, rules, todo, edit, snap, outcome, deployed, counters>>

ReplaceEnv ==
  /\ step = "repl_env"
  /\ file' = [file EXCEPT !.env = edit]
  /\ left' = left \ {"cand_env"}
  /\ step' = "repl_compose"
  /\ UNCHANGED <<digest, rules, todo, edit, snap, outcome, deployed, counters>>

ReplaceCompose ==
  /\ step = "repl_compose"
  /\ file' = [file EXCEPT !.compose = edit]
  /\ left' = left \ {"cand_compose"}
  /\ step' = "sum_write"
  /\ UNCHANGED <<digest, rules, todo, edit, snap, outcome, deployed, counters>>

\* Mutant: the checksums are computed before compose.yaml is replaced.
Mut_SumsTooEarly ==
  /\ step = "sum_write"
  /\ digest' = SumsOf([file EXCEPT !.compose = snap.compose], left)
  /\ left' = left \cup {"partial"}
  /\ step' = "sum_replace"
  /\ UNCHANGED <<file, rules, todo, edit, snap, outcome, deployed, counters>>

\* write_checksums lists the regular files that are there before it creates
\* .checksums.sha256.partial.
WriteSums ==
  /\ step = "sum_write"
  /\ digest' = SumsOf(file, left)
  /\ left' = left \cup {"partial"}
  /\ step' = "sum_replace"
  /\ UNCHANGED <<file, rules, todo, edit, snap, outcome, deployed, counters>>

ReplaceSums ==
  /\ step = "sum_replace"
  /\ file' = [file EXCEPT !.sums = digest]
  /\ left' = left \ {"partial"}
  /\ step' = "save"
  /\ UNCHANGED <<digest, rules, todo, edit, snap, outcome, deployed, counters>>

\* store.save, then the finally clause.
SaveRecord ==
  /\ step = "save"
  /\ rules' = edit
  /\ outcome' = "saved"
  /\ step' = "clean"
  /\ UNCHANGED <<file, left, digest, todo, edit, snap, deployed, counters>>

-----------------------------------------------------------------------------
InTry == {"cand_env", "cand_compose", "config", "repl_env", "repl_compose",
          "sum_write", "sum_replace", "save"}

\* The temporary file the step was writing.
Writing ==
  {t \in Temp : \/ step \in {"cand_env", "cand_compose"} /\ t = step
                \/ step = "sum_write" /\ t = "partial"
                \/ step = "restore_write" /\ t = Restoring[Head(todo)]}

Fault == faults < MaxFaults /\ faults' = faults + 1

\* Mutant: an exception of the save alone skips the restoration.
Mut_SaveNotProtected ==
  /\ step \in InTry
  /\ \/ step = "config" /\ UNCHANGED <<faults, left>>
     \/ Fault /\ \E w \in SUBSET Writing : left' = left \cup w
  /\ step' = IF step = "save" THEN "clean" ELSE "restore_write"
  /\ todo' = IF step = "save" THEN <<>> ELSE <<"env", "compose", "sums">>
  /\ outcome' = "failed"
  /\ UNCHANGED <<file, digest, rules, edit, snap, deployed, edits, crashes>>

\* docker compose config refuses the candidates, or an operation fails.
Raise ==
  /\ step \in InTry
  /\ \/ step = "config" /\ UNCHANGED <<faults, left>>
     \/ Fault /\ \E w \in SUBSET Writing : left' = left \cup w
  /\ step' = "restore_write"
  /\ todo' = <<"env", "compose", "sums">>
  /\ outcome' = "failed"
  /\ UNCHANGED <<file, digest, rules, edit, snap, deployed, edits, crashes>>

RestoreWrite ==
  /\ step = "restore_write"
  /\ left' = left \cup Writing
  /\ step' = "restore_replace"
  /\ UNCHANGED <<file, digest, rules, todo, edit, snap, outcome, deployed, counters>>

\* Mutant: compose.yaml is not among the files restored.
Mut_RestoreWithoutCompose ==
  /\ step = "restore_replace"
  /\ file' = IF Head(todo) = "compose" THEN file
             ELSE [file EXCEPT ![Head(todo)] = snap[Head(todo)]]
  /\ left' = left \ {Restoring[Head(todo)]}
  /\ todo' = Tail(todo)
  /\ step' = IF todo' = <<>> THEN "clean" ELSE "restore_write"
  /\ UNCHANGED <<digest, rules, edit, snap, outcome, deployed, counters>>

RestoreReplace ==
  /\ step = "restore_replace"
  /\ file' = [file EXCEPT ![Head(todo)] = snap[Head(todo)]]
  /\ left' = left \ {Restoring[Head(todo)]}
  /\ todo' = Tail(todo)
  /\ step' = IF todo' = <<>> THEN "clean" ELSE "restore_write"
  /\ UNCHANGED <<digest, rules, edit, snap, outcome, deployed, counters>>

\* A failing restoration gives up on the files after it.
RestoreFails ==
  /\ step \in {"restore_write", "restore_replace"}
  /\ Fault
  /\ \E w \in SUBSET Writing : left' = left \cup w
  /\ todo' = <<>>
  /\ step' = "clean"
  /\ UNCHANGED <<file, digest, rules, edit, snap, outcome, deployed, edits, crashes>>

\* finally: the candidates and the partial checksums; the lock is released.
Clean ==
  /\ step = "clean"
  /\ left' = left \ {"cand_env", "cand_compose", "partial"}
  /\ step' = "idle"
  /\ UNCHANGED <<file, digest, rules, todo, edit, snap, outcome, deployed, counters>>

\* An unlink fails: those before it are done, those after it are not.
CleanFails ==
  /\ step = "clean"
  /\ Fault
  /\ \E kept \in {{"cand_env", "cand_compose", "partial"}, {"cand_compose", "partial"},
                  {"partial"}} :
       /\ kept \cap left # {}
       /\ left' = left \ ({"cand_env", "cand_compose", "partial"} \ kept)
  /\ step' = "idle"
  /\ UNCHANGED <<file, digest, rules, todo, edit, snap, outcome, deployed, edits, crashes>>

Crash ==
  /\ step # "idle"
  /\ crashes < MaxCrashes
  /\ crashes' = crashes + 1
  /\ \E w \in SUBSET Writing : left' = left \cup w
  /\ step' = "idle"
  /\ todo' = <<>>
  /\ outcome' = "crashed"
  /\ UNCHANGED <<file, digest, rules, edit, snap, deployed, edits, faults>>

\* Mutant: deploy does not take the task lock.
Mut_DeployUnlocked ==
  /\ deployed' = [env |-> file.env, compose |-> file.compose, rules |-> rules]
  /\ UNCHANGED <<file, left, digest, rules, step, todo, edit, snap, outcome, counters>>

\* deploy() inside the task lock: what it overlays and the rules it applies.
Deploy ==
  /\ step = "idle"
  /\ deployed' = [env |-> file.env, compose |-> file.compose, rules |-> rules]
  /\ UNCHANGED <<file, left, digest, rules, step, todo, edit, snap, outcome, counters>>

Next ==
  \/ Begin \/ CandidateEnv \/ CandidateCompose \/ ComposeConfig \/ ReplaceEnv
  \/ ReplaceCompose \/ WriteSums \/ ReplaceSums \/ SaveRecord
  \/ Raise \/ RestoreWrite \/ RestoreReplace \/ RestoreFails \/ Clean \/ CleanFails
  \/ Crash \/ Deploy

Spec == Init /\ [][Next]_vars

-----------------------------------------------------------------------------
TypeOK ==
  /\ file \in Files /\ snap \in Files
  /\ left \subseteq Temp
  /\ digest \in Sums
  /\ rules \in Version /\ edit \in Version /\ edits \in Version
  /\ step \in Step
  /\ outcome \in {"none", "saved", "failed", "crashed"}
  /\ deployed \in [env : Version, compose : Version, rules : Version]
  /\ faults \in 0..MaxFaults /\ crashes \in 0..MaxCrashes

\* .env, compose.yaml, the digests of both and the rules in the record come
\* from one and the same edit.
Whole ==
  /\ file.env = file.compose /\ rules = file.env
  /\ file.sums.env = file.env /\ file.sums.compose = file.compose

\* At most one operation fails and the process does not die.  The
\* restoration and the cleanup are themselves not protected, so a second
\* failure, or a crash, is beyond what an edit promises.
OneFailure == faults <= 1 /\ crashes = 0

\* One failing operation, at any step of any edit, never leaves half a
\* configuration.
OneFailureLeavesItWhole == step = "idle" /\ OneFailure => Whole

\* An edit that raised leaves the three files it found, half or whole (a
\* crash before it, or a failed cleanup, may have left a mixture).
FailedEditChangesNothing ==
  step = "idle" /\ outcome = "failed" /\ faults <= 1 => file = snap

\* A saved edit is whole whatever an earlier crash or failure left behind, and
\* its checksums list exactly the other regular files of the directory,
\* temporary files that a failed cleanup left included, none that the finally
\* clause then removed.
SavedEditIsWhole ==
  step = "idle" /\ outcome = "saved" =>
    Whole /\ (OneFailure => file.sums = SumsOf(file, left))

\* A deployment overlays the files of one edit and applies that edit's rules.
DeployUsesOneEdit ==
  OneFailure => deployed.env = deployed.compose /\ deployed.compose = deployed.rules

-----------------------------------------------------------------------------
\* The files an edit leaves, or would leave were it undone: until its record is
\* saved, the ones it found.
Seen == IF step \in {"idle", "clean"} THEN file ELSE snap

SeenConfig ==
  [env |-> Seen.env, compose |-> Seen.compose,
   sums |-> [env |-> Seen.sums.env, compose |-> Seen.sums.compose], rules |-> rules]

Atomic == INSTANCE AtomicEdit WITH config <- SeenConfig, failures <- faults

\* The file operations of an edit, its undoing included, add up to one step
\* from one configuration to the next, or to none; nothing but a crash or a
\* failing restoration tears it.
ImplementsAtomicEdit == Atomic!Spec
=============================================================================
