--------------------------- MODULE TaskLifecycle ---------------------------
(***************************************************************************)
(* The deployment task of docker_manage_server from upload to removal:     *)
(* DeploymentService (deployment.py) over TaskStore (storage.py), called   *)
(* by the upload, deploy, edit, delete and discard handlers of api.py and  *)
(* web.py.  Handlers and background deploys run as threads of one process  *)
(* (Workers); a record is a JSON file that survives a crash, the locks,    *)
(* the queue of background deploys and what a thread holds in memory do    *)
(* not.                                                                    *)
(*                                                                         *)
(* A thread's `with lock:` and the store.get that follows it are one step: *)
(* the only writer that takes no lock, upload, commutes with the           *)
(* acquisition.  Every later file operation, save or external command is   *)
(* a step of its own, so that the threads interleave between them.         *)
(***************************************************************************)
EXTENDS Naturals, FiniteSets

CONSTANTS
  Tasks,          \* task ids; uuid4 never gives the same one twice
  Apps,           \* app_name values found in manifests
  Workers,        \* threads of the pool that runs sync handlers
  NoTask, NoApp, Free,
  Discarding,     \* whether clients use POST /deployments/{id}/discard
  DirectDeploy,   \* whether deploy() is called without begin_deploy()
  QueueBound,     \* bound: background deploys of a task queued or asked for
  MaxCrashes,     \* bound: crashes of the process
  MaxFaults       \* bound: failing file operations

ASSUME NullAssumption ==
  /\ NoTask \notin Tasks
  /\ NoApp \notin Apps
  /\ Free \notin Workers

ASSUME BoundAssumption ==
  /\ Discarding \in BOOLEAN
  /\ DirectDeploy \in BOOLEAN
  /\ QueueBound \in Nat \ {0}
  /\ MaxCrashes \in Nat
  /\ MaxFaults \in Nat

VARIABLES
  record,       \* tasks/<id>.json, Absent when there is no such file
  pkg,          \* packages/<id>/: "dir" and what lies in it
  stable,       \* deployments/<app>/: the task each part was copied from
  taskLock,     \* _task_locks: the worker inside, or Free
  appLock,      \* _app_locks
  queue,        \* background deploys added and not yet started
  pc, cur, mem, \* per worker: next step, task, the record it loaded
  crashes, faults,
  removedFrom,  \* history: status a task had when its removal returned
  stranded,     \* history: active tasks whose thread a crash or a failed save took away
  cut           \* history: tasks a removal left half removed, or raced with their upload

diskVars  == <<record, pkg, stable>>
lockVars  == <<taskLock, appLock>>
localVars == <<pc, cur, mem>>
histVars  == <<crashes, faults, removedFrom, stranded, cut>>
vars == <<diskVars, lockVars, queue, localVars, histVars>>

Status   == {"absent", "uploaded", "extracting", "pending_review",
             "deploying", "deployed", "failed"}
Phase    == {"none", "upload", "deploy"}
Record   == [status : Status, phase : Phase, app : Apps \cup {NoApp}]
Absent   == [status |-> "absent", phase |-> "none", app |-> NoApp]

\* What the extracted directory holds: .env, compose.yaml and the checksums
\* ("config"), and every other archived file ("payload").
Content  == {"config", "payload"}
Entries  == {"dir", "archive"} \cup Content

UploadPC == {"up_store", "up_mark", "up_prepare", "up_open", "up_config",
             "up_payload", "up_review", "up_save", "up_fail"}
RunPC    == {"dep_config", "dep_payload", "dep_up", "dep_save"}  \* inside both locks
DeployPC == {"dep_wait", "dep_begin", "dep_app"} \cup RunPC
RemovePC == {"rm_tree", "rm_unlink"}
WaitPC   == {"begin_wait", "edit_wait", "delete_wait", "discard_wait", "dep_wait"}
\* Steps taken while the worker is inside `with self._task_lock(task_id)`.
LockedPC == {"begin_save", "edit_save", "dep_begin", "dep_app"} \cup RunPC \cup RemovePC
PC       == {"idle"} \cup UploadPC \cup WaitPC \cup LockedPC

-----------------------------------------------------------------------------
Goto(w, l) == pc' = [pc EXCEPT ![w] = l] /\ UNCHANGED <<cur, mem>>

\* A handler returns or raises: its thread goes back to the pool.
Finish(w) ==
  /\ pc'  = [pc  EXCEPT ![w] = "idle"]
  /\ cur' = [cur EXCEPT ![w] = NoTask]
  /\ mem' = [mem EXCEPT ![w] = Absent]

\* TaskStore.save: the record file is replaced in one step.
Save(t, r) == record' = [record EXCEPT ![t] = r]

ReleaseTask(w) == taskLock' = [taskLock EXCEPT ![cur[w]] = Free]

Fault == faults < MaxFaults /\ faults' = faults + 1

\* A worker enters the task lock and keeps the record it read there.
EnterWith(w, l) ==
  /\ taskLock' = [taskLock EXCEPT ![cur[w]] = w]
  /\ mem' = [mem EXCEPT ![w] = record[cur[w]]]
  /\ pc' = [pc EXCEPT ![w] = l]
  /\ UNCHANGED cur

-----------------------------------------------------------------------------
\* Mutant: failure_phase is not looked at.
Mut_AnyFailureRecoverable(t) ==
  record[t].status = "failed" /\ record[t].app # NoApp /\ "config" \in pkg[t]

is_recoverable_failure(t) ==
  /\ record[t].status = "failed"
  /\ record[t].phase # "upload"
  /\ record[t].app # NoApp
  /\ "config" \in pkg[t]

can_edit_task(t)  == record[t].status = "pending_review" \/ is_recoverable_failure(t)

\* Mutant: a second deploy request is accepted while the first one runs.
Mut_RetryDeploying(t) ==
  record[t].status \in {"pending_review", "deploying"} \/ is_recoverable_failure(t)

can_retry_task(t) == record[t].status = "pending_review" \/ is_recoverable_failure(t)

\* Mutant: a task can be deleted while its archive is unpacked.
Mut_DeleteExtracting(t) ==
  record[t].status \in {"extracting", "pending_review", "failed", "deployed"}

can_delete_task(t) == record[t].status \in {"pending_review", "failed", "deployed"}

\* Mutant: discard does not exclude "extracting".
Mut_DiscardExtracting(t) ==
  record[t].status \notin {"absent", "deploying", "deployed"}

can_discard_task(t) ==
  record[t].status \notin {"absent", "extracting", "deploying", "deployed"}

-----------------------------------------------------------------------------
Init ==
  /\ record = [t \in Tasks |-> Absent]
  /\ pkg = [t \in Tasks |-> {}]
  /\ stable = [a \in Apps |-> [p \in Content |-> NoTask]]
  /\ taskLock = [t \in Tasks |-> Free]
  /\ appLock = [a \in Apps |-> Free]
  /\ queue = [t \in Tasks |-> 0]
  /\ pc = [w \in Workers |-> "idle"]
  /\ cur = [w \in Workers |-> NoTask]
  /\ mem = [w \in Workers |-> Absent]
  /\ crashes = 0
  /\ faults = 0
  /\ removedFrom = [t \in Tasks |-> "absent"]
  /\ stranded = {}
  /\ cut = {}

-----------------------------------------------------------------------------
(* upload(): no task lock is taken; each save is visible to the others.    *)

Fresh(t) ==
  /\ record[t] = Absent
  /\ pkg[t] = {}
  /\ removedFrom[t] = "absent"
  /\ \A w \in Workers : cur[w] # t

UploadRecord(s, p, a) == [status |-> s, phase |-> p, app |-> a]

\* store.create: a new package directory, then the "uploaded" record.
Upload_Create(w, t) ==
  /\ pc[w] = "idle"
  /\ Fresh(t)
  /\ pkg' = [pkg EXCEPT ![t] = {"dir"}]
  /\ Save(t, UploadRecord("uploaded", "none", NoApp))
  /\ pc' = [pc EXCEPT ![w] = "up_store"]
  /\ cur' = [cur EXCEPT ![w] = t]
  /\ mem' = [mem EXCEPT ![w] = UploadRecord("uploaded", "none", NoApp)]
  /\ UNCHANGED <<stable, lockVars, queue, histVars>>

\* The record cannot be written: create is outside upload's try, so the new
\* directory stays behind without a record.
Upload_CreateRaises(w, t) ==
  /\ pc[w] = "idle"
  /\ Fresh(t)
  /\ Fault
  /\ pkg' = [pkg EXCEPT ![t] = {"dir"}]
  /\ UNCHANGED <<record, stable, lockVars, queue, localVars, crashes,
                 removedFrom, stranded, cut>>

Upload_StoreArchive(w) ==
  /\ pc[w] = "up_store"
  /\ "dir" \in pkg[cur[w]]
  /\ pkg' = [pkg EXCEPT ![cur[w]] = @ \cup {"archive"}]
  /\ Goto(w, "up_mark")
  /\ UNCHANGED <<record, stable, lockVars, queue, histVars>>

Upload_MarkExtracting(w) ==
  /\ pc[w] = "up_mark"
  /\ Save(cur[w], UploadRecord("extracting", "none", NoApp))
  /\ pc' = [pc EXCEPT ![w] = "up_prepare"]
  /\ mem' = [mem EXCEPT ![w] = UploadRecord("extracting", "none", NoApp)]
  /\ UNCHANGED <<pkg, stable, lockVars, queue, cur, histVars>>

\* extract_and_review: the archive must be there; mkdir(parents=True).
Upload_PrepareTree(w) ==
  /\ pc[w] = "up_prepare"
  /\ "archive" \in pkg[cur[w]]
  /\ pkg' = [pkg EXCEPT ![cur[w]] = {"dir", "archive"}]
  /\ Goto(w, "up_open")
  /\ UNCHANGED <<record, stable, lockVars, queue, histVars>>

\* tarfile.open: from here on the archive's directory entry is not needed.
Upload_OpenArchive(w) ==
  /\ pc[w] = "up_open"
  /\ "archive" \in pkg[cur[w]]
  /\ Goto(w, "up_config")
  /\ UNCHANGED <<diskVars, lockVars, queue, histVars>>

\* archive.extract makes missing parent directories again.
Upload_Extract(w, part, from, to) ==
  /\ pc[w] = from
  /\ pkg' = [pkg EXCEPT ![cur[w]] = @ \cup {"dir", part}]
  /\ Goto(w, to)
  /\ UNCHANGED <<record, stable, lockVars, queue, histVars>>

Upload_ExtractConfig(w)  == Upload_Extract(w, "config", "up_config", "up_payload")
Upload_ExtractPayload(w) == Upload_Extract(w, "payload", "up_payload", "up_review")

\* Required files, checksums and manifest; the manifest names the app.
Upload_Review(w) ==
  /\ pc[w] = "up_review"
  /\ Content \subseteq pkg[cur[w]]
  /\ \E a \in Apps :
       mem' = [mem EXCEPT ![w] = UploadRecord("pending_review", "none", a)]
  /\ pc' = [pc EXCEPT ![w] = "up_save"]
  /\ UNCHANGED <<diskVars, lockVars, queue, cur, histVars>>

Upload_SavePending(w) ==
  /\ pc[w] = "up_save"
  /\ Save(cur[w], mem[w])
  /\ Finish(w)
  /\ UNCHANGED <<pkg, stable, lockVars, queue, histVars>>

\* What makes a step of upload's try raise: a bad archive, a directory or
\* archive that is gone, or a failing file operation.
UploadStuck(w) ==
  \/ pc[w] \in {"up_open", "up_config", "up_payload", "up_review"}
  \/ pc[w] = "up_store" /\ "dir" \notin pkg[cur[w]]
  \/ pc[w] = "up_prepare" /\ "archive" \notin pkg[cur[w]]

Upload_Raises(w) ==
  /\ pc[w] \in UploadPC \ {"up_fail"}
  /\ \/ UploadStuck(w) /\ UNCHANGED faults
     \/ Fault
  /\ mem' = [mem EXCEPT ![w] = UploadRecord("failed", "upload", @.app)]
  /\ pc' = [pc EXCEPT ![w] = "up_fail"]
  /\ UNCHANGED <<diskVars, lockVars, queue, cur, crashes, removedFrom, stranded, cut>>

Upload_SaveFailed(w) ==
  /\ pc[w] = "up_fail"
  /\ Save(cur[w], mem[w])
  /\ Finish(w)
  /\ UNCHANGED <<pkg, stable, lockVars, queue, histVars>>

-----------------------------------------------------------------------------
(* Requests.  Any client may name any task it has seen.                    *)

Requests ==
  {"begin_wait", "edit_wait", "delete_wait"}
    \cup (IF Discarding THEN {"discard_wait"} ELSE {})
    \cup (IF DirectDeploy THEN {"dep_wait"} ELSE {})

\* Bounds the queue: deploys queued and about to be.
RoomToQueue(t) ==
  queue[t] + Cardinality({w \in Workers : cur[w] = t /\ pc[w] \in {"begin_wait", "begin_save"}})
    < QueueBound

Request(w, t) ==
  /\ pc[w] = "idle"
  /\ record[t].status # "absent"
  /\ \E l \in Requests :
       /\ l = "begin_wait" => RoomToQueue(t)
       /\ pc' = [pc EXCEPT ![w] = l]
  /\ cur' = [cur EXCEPT ![w] = t]
  /\ UNCHANGED <<diskVars, lockVars, queue, mem, histVars>>

\* `with self._task_lock`: store.get, then the guard of the operation.  When
\* it fails (KeyError, DeploymentStateError) the lock is left at once.
EnterIf(w, from, guard, l) ==
  /\ pc[w] = from
  /\ taskLock[cur[w]] = Free
  /\ IF guard THEN EnterWith(w, l) ELSE Finish(w) /\ UNCHANGED taskLock
  /\ UNCHANGED <<diskVars, appLock, queue, histVars>>

BeginDeploy_Load(w) ==
  EnterIf(w, "begin_wait",
          can_retry_task(cur[w]) /\ record[cur[w]].app # NoApp, "begin_save")

Edit_Load(w) ==
  EnterIf(w, "edit_wait",
          can_edit_task(cur[w]) /\ record[cur[w]].app # NoApp, "edit_save")

Delete_Load(w)  == EnterIf(w, "delete_wait", can_delete_task(cur[w]), "rm_tree")
Discard_Load(w) == EnterIf(w, "discard_wait", can_discard_task(cur[w]), "rm_tree")

-----------------------------------------------------------------------------
(* begin_deploy(), then background_tasks.add_task(deployment.deploy).      *)

DeployingRecord(r) == [r EXCEPT !.status = "deploying", !.phase = "none"]

\* Mutant: the handler forgets background_tasks.add_task.
Mut_NoBackgroundTask(w) ==
  /\ pc[w] = "begin_save"
  /\ Save(cur[w], DeployingRecord(mem[w]))
  /\ ReleaseTask(w)
  /\ Finish(w)
  /\ UNCHANGED <<pkg, stable, queue, appLock, histVars>>

BeginDeploy_Save(w) ==
  /\ pc[w] = "begin_save"
  /\ Save(cur[w], DeployingRecord(mem[w]))
  /\ queue' = [queue EXCEPT ![cur[w]] = @ + 1]
  /\ ReleaseTask(w)
  /\ Finish(w)
  /\ UNCHANGED <<pkg, stable, appLock, histVars>>

(* deploy(), as a background task.                                         *)

Deploy_Start(w, t) ==
  /\ pc[w] = "idle"
  /\ queue[t] > 0
  /\ queue' = [queue EXCEPT ![t] = @ - 1]
  /\ pc' = [pc EXCEPT ![w] = "dep_wait"]
  /\ cur' = [cur EXCEPT ![w] = t]
  /\ UNCHANGED <<diskVars, lockVars, mem, histVars>>

\* Mutant: deploy() accepts only a task that begin_deploy would accept.
Mut_RejectDeploying(w) ==
  EnterIf(w, "dep_wait", can_retry_task(cur[w]) /\ record[cur[w]].app # NoApp, "dep_begin")

Deploy_Load(w) ==
  EnterIf(w, "dep_wait",
          /\ can_retry_task(cur[w]) \/ record[cur[w]].status = "deploying"
          /\ record[cur[w]].app # NoApp,
          IF can_retry_task(cur[w]) THEN "dep_begin" ELSE "dep_app")

Deploy_SaveDeploying(w) ==
  /\ pc[w] = "dep_begin"
  /\ Save(cur[w], DeployingRecord(mem[w]))
  /\ mem' = [mem EXCEPT ![w] = DeployingRecord(@)]
  /\ pc' = [pc EXCEPT ![w] = "dep_app"]
  /\ UNCHANGED <<pkg, stable, lockVars, queue, cur, histVars>>

\* Mutant: no application lock.
Mut_NoAppLock(w) ==
  /\ pc[w] = "dep_app"
  /\ appLock' = [appLock EXCEPT ![mem[w].app] = w]
  /\ Goto(w, "dep_config")
  /\ UNCHANGED <<diskVars, taskLock, queue, histVars>>

Deploy_LockApp(w) ==
  /\ pc[w] = "dep_app"
  /\ appLock[mem[w].app] = Free
  /\ appLock' = [appLock EXCEPT ![mem[w].app] = w]
  /\ Goto(w, "dep_config")
  /\ UNCHANGED <<diskVars, taskLock, queue, histVars>>

\* overlay_directory copies what the extracted directory holds.
Deploy_Overlay(w, part, from, to) ==
  /\ pc[w] = from
  /\ stable' = IF part \in pkg[cur[w]]
                 THEN [stable EXCEPT ![mem[w].app][part] = cur[w]]
                 ELSE stable
  /\ Goto(w, to)
  /\ UNCHANGED <<record, pkg, lockVars, queue, histVars>>

Deploy_OverlayConfig(w)  == Deploy_Overlay(w, "config", "dep_config", "dep_payload")
Deploy_OverlayPayload(w) == Deploy_Overlay(w, "payload", "dep_payload", "dep_up")

\* docker load and docker compose up succeed on the stable directory.
Deploy_ComposeUp(w) ==
  /\ pc[w] = "dep_up"
  /\ mem' = [mem EXCEPT ![w].status = "deployed", ![w].phase = "none"]
  /\ pc' = [pc EXCEPT ![w] = "dep_save"]
  /\ UNCHANGED <<diskVars, lockVars, queue, cur, histVars>>

\* A bad directory rule, a failing copy, docker load or docker compose.
Deploy_Raises(w) ==
  /\ pc[w] \in RunPC \ {"dep_save"}
  /\ mem' = [mem EXCEPT ![w].status = "failed", ![w].phase = "deploy"]
  /\ pc' = [pc EXCEPT ![w] = "dep_save"]
  /\ UNCHANGED <<diskVars, lockVars, queue, cur, histVars>>

ReleaseApp(w) == appLock' = [appLock EXCEPT ![mem[w].app] = Free]

\* Mutant: the application lock is not released.
Mut_KeepAppLock(w) ==
  /\ pc[w] = "dep_save"
  /\ Save(cur[w], mem[w])
  /\ ReleaseTask(w)
  /\ Finish(w)
  /\ UNCHANGED <<pkg, stable, appLock, queue, histVars>>

Deploy_Save(w) ==
  /\ pc[w] = "dep_save"
  /\ Save(cur[w], mem[w])
  /\ ReleaseTask(w)
  /\ ReleaseApp(w)
  /\ Finish(w)
  /\ UNCHANGED <<pkg, stable, queue, histVars>>

-----------------------------------------------------------------------------
(* edit_configuration(): the files it replaces stay "config".              *)

Edit_Save(w) ==
  /\ pc[w] = "edit_save"
  /\ "config" \in pkg[cur[w]]
  /\ Save(cur[w], [mem[w] EXCEPT !.status = "pending_review", !.phase = "none"])
  /\ ReleaseTask(w)
  /\ Finish(w)
  /\ UNCHANGED <<pkg, stable, appLock, queue, histVars>>

\* Mutant: the task lock is not released when an edit is rejected.
Mut_KeepTaskLock(w) ==
  /\ pc[w] = "edit_save"
  /\ Finish(w)
  /\ UNCHANGED <<diskVars, lockVars, queue, histVars>>

\* Mutant: a rejected edit does not restore the files it replaced.
Mut_NoRestore(w) ==
  /\ pc[w] = "edit_save"
  /\ pkg' = [pkg EXCEPT ![cur[w]] = @ \ {"config"}]
  /\ ReleaseTask(w)
  /\ Finish(w)
  /\ UNCHANGED <<record, stable, appLock, queue, histVars>>

\* Bad text, rules or compose file, or a missing file: everything restored.
Edit_Raises(w) ==
  /\ pc[w] = "edit_save"
  /\ ReleaseTask(w)
  /\ Finish(w)
  /\ UNCHANGED <<diskVars, appLock, queue, histVars>>

-----------------------------------------------------------------------------
(* delete_task() and discard(): TaskStore.delete removes the package tree  *)
(* entry by entry, then the record.                                        *)

Remove_Entry(w) ==
  /\ pc[w] = "rm_tree"
  /\ \E e \in pkg[cur[w]] :
       /\ e = "dir" => pkg[cur[w]] = {"dir"}
       /\ pkg' = [pkg EXCEPT ![cur[w]] = @ \ {e}]
  /\ UNCHANGED <<record, stable, lockVars, queue, localVars, histVars>>

Remove_TreeGone(w) ==
  /\ pc[w] = "rm_tree"
  /\ pkg[cur[w]] = {}
  /\ Goto(w, "rm_unlink")
  /\ UNCHANGED <<diskVars, lockVars, queue, histVars>>

\* rmtree raises on a failing operation, or when an upload that still runs
\* adds to the directory or empties it underneath.
Remove_Raises(w) ==
  /\ pc[w] \in RemovePC
  /\ \/ Fault
     \/ /\ pc[w] = "rm_tree"
        /\ \E u \in Workers : cur[u] = cur[w] /\ pc[u] \in UploadPC
        /\ UNCHANGED faults
  /\ cut' = cut \cup {cur[w]}
  /\ ReleaseTask(w)
  /\ Finish(w)
  /\ UNCHANGED <<diskVars, appLock, queue, crashes, removedFrom, stranded>>

\* Mutant: discard keeps a record with the status "discarded".
Mut_KeepDiscardedRecord(w) ==
  /\ pc[w] = "rm_unlink"
  /\ Save(cur[w], [mem[w] EXCEPT !.status = "discarded"])
  /\ removedFrom' = [removedFrom EXCEPT ![cur[w]] = mem[w].status]
  /\ ReleaseTask(w)
  /\ Finish(w)
  /\ UNCHANGED <<pkg, stable, appLock, queue, crashes, faults, stranded, cut>>

Remove_Unlink(w) ==
  /\ pc[w] = "rm_unlink"
  /\ Save(cur[w], Absent)
  /\ removedFrom' = [removedFrom EXCEPT ![cur[w]] = mem[w].status]
  /\ cut' = IF mem[w].status = "uploaded" THEN cut \cup {cur[w]} ELSE cut
  /\ ReleaseTask(w)
  /\ Finish(w)
  /\ UNCHANGED <<pkg, stable, appLock, queue, crashes, faults, stranded>>

-----------------------------------------------------------------------------
\* TaskStore.save raises outside upload's first try: the record keeps its
\* old content and the exception ends the thread's work.  (An edit restores
\* its files; the last save of a deploy and of a failed upload is not
\* protected by anything.)
SaveRaises(w) ==
  /\ pc[w] \in {"up_fail", "begin_save", "dep_begin", "dep_save", "edit_save"}
  /\ Fault
  /\ stranded' = IF pc[w] \in {"up_fail", "dep_save"}
                   THEN stranded \cup {cur[w]} ELSE stranded
  /\ IF pc[w] = "up_fail" THEN UNCHANGED taskLock ELSE ReleaseTask(w)
  /\ IF pc[w] = "dep_save" THEN ReleaseApp(w) ELSE UNCHANGED appLock
  /\ Finish(w)
  /\ UNCHANGED <<diskVars, queue, crashes, removedFrom, cut>>

\* The process dies and compose's `restart: unless-stopped` starts it again:
\* create_app reads nothing back but the files.
Active(t) == record[t].status \in {"uploaded", "extracting", "deploying"}

Crash ==
  /\ crashes < MaxCrashes
  /\ crashes' = crashes + 1
  /\ stranded' = stranded \cup {t \in Tasks : Active(t)}
  /\ cut' = cut \cup {t \in Tasks : \E w \in Workers : cur[w] = t /\ pc[w] \in RemovePC}
  /\ pc' = [w \in Workers |-> "idle"]
  /\ cur' = [w \in Workers |-> NoTask]
  /\ mem' = [w \in Workers |-> Absent]
  /\ taskLock' = [t \in Tasks |-> Free]
  /\ appLock' = [a \in Apps |-> Free]
  /\ queue' = [t \in Tasks |-> 0]
  /\ UNCHANGED <<diskVars, faults, removedFrom>>

-----------------------------------------------------------------------------
\* The steps a running thread takes while the file system works.
Upload_Step(w) ==
  \/ Upload_StoreArchive(w) \/ Upload_MarkExtracting(w) \/ Upload_PrepareTree(w)
  \/ Upload_OpenArchive(w) \/ Upload_ExtractConfig(w) \/ Upload_ExtractPayload(w)
  \/ Upload_Review(w) \/ Upload_SavePending(w) \/ Upload_Raises(w)
  \/ Upload_SaveFailed(w)

Deploy_Step(w) ==
  \/ BeginDeploy_Load(w) \/ BeginDeploy_Save(w)
  \/ Deploy_Load(w) \/ Deploy_SaveDeploying(w) \/ Deploy_LockApp(w)
  \/ Deploy_OverlayConfig(w) \/ Deploy_OverlayPayload(w)
  \/ Deploy_ComposeUp(w) \/ Deploy_Raises(w) \/ Deploy_Save(w)

Change_Step(w) ==
  \/ Edit_Load(w) \/ Edit_Save(w) \/ Edit_Raises(w)
  \/ Delete_Load(w) \/ Discard_Load(w)
  \/ Remove_Entry(w) \/ Remove_TreeGone(w) \/ Remove_Raises(w) \/ Remove_Unlink(w)

Work(w) == Upload_Step(w) \/ Deploy_Step(w) \/ Change_Step(w)

Arrive == \E w \in Workers, t \in Tasks : Upload_Create(w, t) \/ Request(w, t)

Start(t) == \E w \in Workers : Deploy_Start(w, t)

Next ==
  \/ Arrive
  \/ \E w \in Workers, t \in Tasks : Upload_CreateRaises(w, t)
  \/ \E t \in Tasks : Start(t)
  \/ \E w \in Workers : Work(w) \/ SaveRaises(w)
  \/ Crash

Spec == Init /\ [][Next]_vars

\* Threads run, external commands end (they have timeouts), and the pool
\* gives a queued task a thread when one is free.
Fairness ==
  /\ \A w \in Workers : WF_vars(Work(w))
  /\ \A t \in Tasks : WF_vars(Start(t))

FairSpec == Spec /\ Fairness

-----------------------------------------------------------------------------
(* Properties *)

TypeOK ==
  /\ record \in [Tasks -> Record]
  /\ pkg \in [Tasks -> SUBSET Entries]
  /\ stable \in [Apps -> [Content -> Tasks \cup {NoTask}]]
  /\ taskLock \in [Tasks -> Workers \cup {Free}]
  /\ appLock \in [Apps -> Workers \cup {Free}]
  /\ queue \in [Tasks -> Nat]
  /\ pc \in [Workers -> PC]
  /\ cur \in [Workers -> Tasks \cup {NoTask}]
  /\ mem \in [Workers -> Record]
  /\ crashes \in Nat
  /\ faults \in Nat
  /\ removedFrom \in [Tasks -> Status]
  /\ stranded \subseteq Tasks
  /\ cut \subseteq Tasks

Uploading(w, t) == cur[w] = t /\ pc[w] \in UploadPC
Deploying(w, t) == cur[w] = t /\ pc[w] \in DeployPC

\* The record file still holds what the worker loaded under the task lock.
LoadedIsCurrent(w) ==
  /\ pc[w] \in LockedPC \ (RemovePC \cup {"dep_save"}) => record[cur[w]] = mem[w]
  /\ pc[w] = "dep_save" =>
       record[cur[w]].status = "deploying" /\ record[cur[w]].app = mem[w].app
  /\ pc[w] \in RemovePC /\ mem[w].status # "uploaded" => record[cur[w]] = mem[w]

\* What a worker loaded under the task lock is still what the record file
\* holds when it saves: no other thread's save is overwritten.  Upload takes
\* no lock, so this is about every guard that keeps the others out of its
\* way; discard lets itself in while the upload is still "uploaded".
NoLostUpdate == \A w \in Workers : LoadedIsCurrent(w)

\* A task whose status says that something is being done to it has a thread
\* or a queued background deploy that does it, unless a crash or a failing
\* last save took that away.
ActiveHasOwner ==
  \A t \in Tasks \ stranded :
    /\ record[t].status \in {"uploaded", "extracting"} => \E w \in Workers : Uploading(w, t)
    /\ record[t].status = "deploying" =>
         queue[t] > 0 \/ \E w \in Workers : Deploying(w, t)

\* Every accepted deploy request is carried out exactly once: a "deploying"
\* task has one background deploy, queued or running, and no other task has
\* any (two requests, or a request and a retry, never deploy a task twice).
OneDeployPerRequest ==
  \A t \in Tasks :
    queue[t] + Cardinality({w \in Workers : Deploying(w, t)})
      = IF record[t].status = "deploying" /\ t \notin stranded THEN 1 ELSE 0

\* docker compose up runs on the files of the task being deployed, even when
\* tasks of the same application are deployed at the same time.
ComposeSeesOwnFiles ==
  \A w \in Workers :
    pc[w] = "dep_up" =>
      \A part \in pkg[cur[w]] \cap Content : stable[mem[w].app][part] = cur[w]

\* A task is composed from its whole package, unless a removal of that task
\* was cut short by a failure or a crash: nothing else touches the package
\* between the review and the deployment.
ComposeSeesWholePackage ==
  \A w \in Workers :
    pc[w] = "dep_up" => Content \subseteq pkg[cur[w]] \/ cur[w] \in cut

\* A removal that returned is final: no thread brings the record or the
\* package of a task removed from a settled status back.
RemovedStaysGone ==
  \A t \in Tasks :
    removedFrom[t] \notin {"absent", "uploaded"} =>
      record[t] = Absent /\ pkg[t] = {}

\* The same for every task whose removal returned, an upload discarded while
\* it is "uploaded" included (the design's "discarded" status: the user gave
\* the deployment up and the task directory is physically deleted).
DiscardedStaysGone ==
  \A t \in Tasks : removedFrom[t] # "absent" => record[t] = Absent

\* No set of threads waits for one another: while a handler or a background
\* deploy is under way, some thread can take its next step, although threads
\* block on a task lock and an application lock inside a bounded pool.
SomeThreadRuns ==
  (\E w \in Workers : pc[w] # "idle") => \E w \in Workers : ENABLED Work(w)

\* The inductive invariant behind the safety properties above, part by part.

\* A worker has a task exactly while it is not in the pool.
Occupied == \A w \in Workers : pc[w] = "idle" <=> cur[w] = NoTask

\* A worker is inside the locks its program counter says it is inside.
LocksHeld ==
  \A w \in Workers :
    /\ pc[w] \in LockedPC => taskLock[cur[w]] = w
    /\ pc[w] \in RunPC => appLock[mem[w].app] = w

\* What a worker can have in memory at each step.
MemoryOK ==
  \A w \in Workers :
    /\ pc[w] \in {"begin_save", "edit_save", "dep_begin"} =>
         mem[w].status \in {"pending_review", "failed"} /\ mem[w].app \in Apps
    /\ pc[w] \in {"dep_app", "dep_config", "dep_payload", "dep_up"} =>
         mem[w].status = "deploying" /\ mem[w].app \in Apps
    /\ pc[w] = "dep_save" => mem[w].status \in {"deployed", "failed"} /\ mem[w].app \in Apps
    /\ pc[w] \in RemovePC =>
         mem[w].status \in {"uploaded", "pending_review", "failed", "deployed"}
    /\ pc[w] = "up_save" => mem[w].status = "pending_review" /\ mem[w].app \in Apps
    /\ pc[w] = "up_fail" => mem[w].status = "failed"

\* A reviewed task has a target.
RecordOK ==
  \A t \in Tasks :
    record[t].status \in {"pending_review", "deploying", "deployed"} => record[t].app \in Apps

\* A task has at most one upload, and until that returns its record is not
\* one that another operation than discard accepts.
UploadAlone ==
  \A w \in Workers :
    pc[w] \in UploadPC =>
      /\ record[cur[w]].status \in {"absent", "uploaded", "extracting"}
      /\ \A u \in Workers : pc[u] \in UploadPC /\ cur[u] = cur[w] => u = w

IInv == Occupied /\ LocksHeld /\ MemoryOK /\ RecordOK /\ UploadAlone /\ NoLostUpdate

\* The status a client sees, for the abstract specification.
ClientStatus(t) ==
  IF record[t].status = "failed"
    THEN IF record[t].phase = "upload" THEN "upload_failed" ELSE "deploy_failed"
  ELSE IF record[t].status = "absent"
    THEN IF removedFrom[t] = "absent" THEN "none"
         ELSE IF removedFrom[t] = "uploaded" THEN "discarded" ELSE "removed"
  ELSE record[t].status

Abstract == INSTANCE TaskStatus WITH status <- [t \in Tasks |-> ClientStatus(t)]

\* The records go only through the statuses of TaskStatus: an accepted task
\* never goes back to extraction, a failed upload is never deployed, a
\* "deploying" task is never edited or removed, a removed one is never back,
\* and of those discarded only one that was given up during its upload.
ImplementsTaskStatus == Abstract!Spec

QuietClients == <>[][~Arrive]_vars

\* Once clients stop sending requests, every upload and every deployment
\* reaches a status at which the user can act again.
ActiveEnds ==
  QuietClients => \A t \in Tasks : Active(t) ~> ~Active(t)

\* The design's diagram takes "deploying" to "deployed" or "failed" only, and
\* has the records survive a restart: a deployment comes to its end.
DeployingEnds ==
  QuietClients =>
    \A t \in Tasks : record[t].status = "deploying" ~> record[t].status # "deploying"

\* Once clients stop sending requests, every handler returns.
HandlersReturn ==
  QuietClients => \A w \in Workers : pc[w] # "idle" ~> pc[w] = "idle"
=============================================================================
