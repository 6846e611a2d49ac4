# A verification of docker_manage_server

docker_manage_server is a FastAPI application that a team runs beside Docker on
one host. A user uploads a deployment archive, reviews and edits it, deploys it
with `docker compose up`, and then manages containers, Compose projects and
images from the browser. This directory holds TLA+ models of its stateful parts,
the TLC configurations that check them on small instances, and TLAPS proofs of
all of the checked safety properties but one for every instance. Source paths
below are under `src/docker_manage_server/` of the repository.

## 1. The system

### Components

| component | state | operations | why it is hard |
|---|---|---|---|
| **Deployment tasks** `deployment.py`, `storage.py`, `deployment_config.py`, `models.py` | `tasks/<id>.json` (survives a restart), `packages/<id>/`, `deployments/<app>/`, one lock per task and per application (in memory) | `upload`, `begin_deploy`, `deploy`, `edit_configuration`, `delete_task`, `discard` | handlers and background deploys are threads; `upload` takes no lock; a background deploy lives only in memory; every file operation can fail |
| **Configuration editing** `deployment.py:139-219`, `artifacts.py:125-136` | `.env`, `compose.yaml`, `checksums.sha256`, temporary files, the record's `directory_rules` | candidates, `docker compose config`, two replacements, checksums, save; restore and clean up | four files change one after the other; restoring writes more files, unprotected |
| **Archive review and stable directory** `artifacts.py` | the extracted directory, the stable directory | extract, verify, review, overlay | file against directory, links, partial copies, containers that write and replace meanwhile |
| **Directory rules** `deployment_config.py:15-107` | owner and mode of directories | normalise, validate, apply | three passes over a tree with links; a loop that may stop half way |
| **Image management** `image_inventory.py`, `docker_runtime.py:90-105` | the images, tags and containers of the Docker daemon; one lock per image id | list, preview, remove a batch, preview and remove unused tags | check, then act, on state that others change; a batch partly succeeds |
| **Runtime lifecycle** `runtime_lifecycle.py`, `docker_runtime.py:76-81, 107-169, 212-242` | containers and Compose projects (Docker) | start, stop, restart, remove; `docker compose up` of deployments | state read, then action; no lock shared with deployments |
| **Runtime inventory and ports** `runtime_inventory.py` | none | group containers, search, port ranges, pages | boundaries of intervals and pages |
| **Docker client** `docker_runtime.py` | a lazily made client | wrappers with timeouts around the SDK and the CLI | each can fail or time out |
| **Terminal relay** `api.py:457-691`, `docker_runtime.py:244-274` | a web socket, an exec socket, two relay tasks, threads | relay both ways, resize, tear down | the first relay to end cancels the other; a thread cannot be cancelled |
| **HTTP API and pages** `api.py`, `web.py`, `web_views.py` | none | handlers that map exceptions to statuses | they decide which thread runs what |
| **Browser scripts** `static/js/` | dialog and poller state | poll statuses, confirm removals, terminal | answers late, out of order or never; dialogs closed meanwhile |
| **Settings and origin check** `config.py`, `security.py`, `main.py` | none | read once, compare | |

### How they interact

A synchronous handler runs in a thread of the server's pool. `POST /deployments`
runs `upload` to its end. `POST /deployments/{id}/deploy` runs `begin_deploy`
(which saves `deploying`) and adds `deploy` as a background task of the response,
which is one more thread of the same pool. `edit_configuration`, `delete_task`
and `discard` run in the handler. All of them read and write the task's JSON
file; all but `upload` do it inside the task's lock. `deploy` also takes the
lock of the application, inside the task's lock, copies the extracted directory
onto `deployments/<app>/`, runs `docker load` and `docker compose up`, and saves
the outcome. `docker load` and `docker compose up` change the images, tags and
containers that image management reads and removes, and the runtime lifecycle
stops and removes containers that a deployment is starting; neither takes the
lock of the application. Pages are rendered from the same record files without
any lock; the page of a task that is being deployed polls its status every two
seconds, and the image list removes batches through a dialog that first asks for
a preview. A terminal session is one coroutine of the event loop and two relay
tasks.

### What makes each component correct

* *Tasks*: no save overwrites another thread's; an accepted deploy request is
  carried out once; a deployment composes its own, whole files; a removed task
  stays removed; an active status has a thread behind it and ends; threads never
  wait for one another in a circle; statuses follow the documented life cycle.
* *Editing*: what is saved is one edit's files, digests and rules; an edit that
  fails changes nothing; a deployment uses one edit.
* *Stable directory*: what an archive does not name stays, what it names is
  installed, whatever stood there before and however an earlier attempt broke
  off; a deployment that succeeds has set the mode of every directory that a rule
  names, and changed no other.
* *Image management*: an image that a container has is never taken away; every
  id of a batch is reported once and truthfully; a used tag stays; requests do
  not pull images from under one another.
* *Runtime lifecycle*: an action hits only the container that was checked, never
  one of a project, never removes one that runs; a project is judged running only
  if some container of it ran while it was read, and not running only if none ran
  all the while; success means that everything was done, for a deployment that
  every service was started.
* *Terminal*: both sockets and both relay tasks end, whichever side goes first;
  a relay that comes to the end of its side has passed on everything from there,
  and what the other one loses then has a cause; after the close only a call that
  was already under way may still reach the process.
* *Browser*: a list is complete; the end of a deployment is shown; what is
  removed is what the dialog listed, once, and the page goes on without it.

`PROJECT.json` lists every hazard at its line, with the properties that are
about it.

## 2. Modules

| module | kind | what it models |
|---|---|---|
| `TaskStatus` | abstract | the statuses a client may see a task go through |
| `TaskLifecycle` | detailed | deployment tasks: threads, locks, files, failures, restarts |
| `AtomicEdit` | abstract | a configuration that edits change in one step and deployments read |
| `ConfigEdit` | detailed | one edit, file operation by file operation |
| `Overlay` | detailed | the tree of the stable directory: overlay and directory rules |
| `ImageRemoval` | detailed | batch and tag removal against a Docker daemon others use |
| `RuntimeLifecycle` | detailed | container and project actions and `compose up` against the same daemon |
| `TerminalRelay` | detailed | one terminal session, await by await |
| `TaskPages` | composition | the pages of a browser tab over tasks that change as `TaskStatus` says |
| `BatchDialog` | detailed | the dialog of batch removal and its requests |
| `*Proofs` | proofs | theorems about the module of that name (section 5) |
| `MC*` | instances | symmetry sets and small structures for TLC |

### TaskLifecycle

`Workers` are the threads of the pool; each has a program counter `pc`, the task
`cur` of its request and the record `mem` it loaded. `record[t]` is
`tasks/<id>.json` reduced to status, failure phase and application; `pkg[t]` is
what exists below `packages/<id>/`: the directory, the archive, and two parts of
the extracted tree, "config" (`.env`, `compose.yaml`, the checksums) and
"payload" (everything else). `stable[a]` names the task each part of
`deployments/<app>/` was copied from. `queue[t]` counts background deploys that
have no thread yet.

A `with lock:` and the `store.get` that follows are one step, because upload,
the only writer without the lock, cannot tell them apart; after that, each save,
each file operation that others can see, and each external command is its own
step:

| code | actions |
|---|---|
| `TaskStore.create`, `upload`, `extract_and_review` | `Upload_Create`, `Upload_CreateRaises`, `Upload_StoreArchive`, `Upload_MarkExtracting`, `Upload_PrepareTree`, `Upload_OpenArchive`, `Upload_ExtractConfig`, `Upload_ExtractPayload`, `Upload_Review`, `Upload_SavePending`, `Upload_Raises`, `Upload_SaveFailed` |
| `begin_deploy`, `add_task` | `BeginDeploy_Load`, `BeginDeploy_Save`, `Deploy_Start` |
| `deploy` | `Deploy_Load`, `Deploy_SaveDeploying`, `Deploy_LockApp`, `Deploy_OverlayConfig`, `Deploy_OverlayPayload`, `Deploy_ComposeUp`, `Deploy_Raises`, `Deploy_Save` |
| `edit_configuration` | `Edit_Load`, `Edit_Save`, `Edit_Raises` (opened up in `ConfigEdit`) |
| `delete_task`, `discard`, `TaskStore.delete` | `Delete_Load`, `Discard_Load`, `Remove_Entry`, `Remove_TreeGone`, `Remove_Raises`, `Remove_Unlink` |
| `TaskStore.save` raising | `SaveRaises` |
| the process dies and is started again | `Crash` |

A removal takes the package apart entry by entry, as `shutil.rmtree` does, so an
upload that is still copying meets it at every point. `Fault` is an `OSError`.
`removedFrom`, `stranded` and `cut` are history variables that only properties
read.

`DirectDeploy` lets clients call `deploy` without `begin_deploy`, which the
method supports and its tests use, and which makes `Deploy_SaveDeploying`
reachable. `Discarding` switches `POST /deployments/{id}/discard` on: what discard
does to a running upload is a finding of its own (section 4), and the runs say for
which system they speak. The theorems hold with it and without.

### TaskStatus

One variable, the status of each task as a client sees it, with `failed` split
by `failure_phase` and with "none" and "removed" for a task before and after its
life. "discarded" is told apart from "removed": `Discard` may take a task from
anywhere an upload gets to, since the upload goes on between the guard of
`discard` and its answer, and `Return` is the save of an upload that was not told.
`ImplementsTaskStatus` instantiates it with a refinement mapping (`ClientStatus`).

### ConfigEdit

One task and the sequence of its edits; the task's lock makes edits and
deployments follow one another. The content of a file is the number of the edit
that wrote it. `Begin` is everything up to the snapshot, then each write and
each replacement is a step; `Raise` is the `except` clause's entry,
`RestoreWrite`/`RestoreReplace` its loop, `Clean` the `finally` clause. Any step
may fail (`Raise`, `RestoreFails`, `CleanFails`), a failing write may leave its
temporary file, and the process may die anywhere. Checks of the request (text,
sizes, rules) come before the first write and change nothing, so they are part
of `Begin`'s guard being taken or not.

`ImplementsAtomicEdit` says what all these steps amount to. Under the mapping
`SeenConfig` the configuration is the snapshot until the record is saved or the
restoration is through, and the files as they are after that. `SaveRecord` is then the one
step at which an edit happens (`Save`), a failure or a restoration is none
(`Absorb`), and a deployment reads the configuration there is (`Deploy`). An edit
is torn (`Tear`) only by a crash or by a failure after an earlier one, and then
into a mixture of the old and the new files under the old rules. This is what
makes it right for `TaskLifecycle` to hold an edit as one step, `Edit_Save` or
`Edit_Raises`.

### Overlay

`tree` is the stable directory of one application, a function from paths to
entries: absent, a directory with the mode somebody gave it, a file of a release,
a symbolic link, or a file copied in part. `archive` is the extracted directory
of the task under deployment, any tree that passes the review. `Real` and
`Place` follow links as the calls of `pathlib` do, a link that leads to another
included. They follow two on the way of one path, and take a third, or a circle,
for a path that leads nowhere: the links of the run lead to one directory, where
two is the longest way, and no theorem depends on where an old link leads.
`First` is the order of `sorted(source.rglob("*"))`. `LayDirectory`, `LayLink`
and `LayFile` are the three branches of `overlay_directory` with what
`mkdir`, `unlink`, `rmtree`, `copy2` and `symlink_to` leave behind. `Check`,
`Recheck`, `MakeDirectory`, `RecheckAgain` and `Chmod` are
`validate_directory_targets` and `apply_directory_rules`. A failed deployment is
retried, or followed by another archive.

Any step may fail half way. `OverlayFault` leaves what the calls before the failing
one have done (`HalfLaid`): part of a directory removed, or all of what was in the
way, the directories made in part or without their mode, a file copied in part or
without its times. `RuleFault` is a call that fails in the passes over the rules,
which may have made the upper part of a path.

Between any two steps a container of the last release may create, replace or remove
an entry where it has one mounted, and put a symbolic link there
(`ContainerWrites`). One entry, or one rule, is one step: what a container does
within one can lead to states that the model has not, but each of them has a path in
`written` or a new link in the way, which the properties except. A link that a
container puts on the way of the archive counts as an old one (`oldLink`). One that
it puts above a directory of a rule before the second validation is found there;
one that it puts there afterwards is not, because `O_NOFOLLOW` speaks of the last
name of the path only. `swapped` records that, and `ModesOnlyByRules` excepts it
(section 4).

`TaskLifecycle` holds the same passes as single steps: there the question is whose
files they are, here what they do to the tree. `before`, `oldLink`, `ruled`,
`written`, `swapped` and `faulty` are history variables: `oldLink` says whether one
of the symbolic links of the tree lies on the way to something the archive names
(`LinkInTheWay`), since such a link leads the overlay elsewhere or makes it fail.

### ImageRemoval

`exists`, `tagOf` and `containers` are the Docker daemon; each Docker call of a
request is a step, so what it read may be stale. `Batch_*` are the steps of
`remove_unused_images`, `Tags_*` those of `remove_available_tags`. `LoadImage`,
`CreateContainer` and `RemoveContainer` are the deployments of the application
and other Docker clients. A Docker call may fail at any time (404, 409, 503).
`known` (the containers a request has listed that are still there), `loaded` and
`seen` are history variables.

### RuntimeLifecycle

`cont[i]` is the container with id `i`, with a name, a project and whether it
runs; ids are used once, names can be taken over. `Container_*` are the steps of
`_container_action` and `remove_container` (check by name or id, act on the id,
read again), `Project_*` those of `_compose_action` and
`remove_compose_project`: `load` asks for the ids of the containers (`Project_List`),
reads them one after the other (`Project_Inspect`), as `containers.list` of the Docker
SDK does, and then runs `docker compose ls` (`Project_Ls`); the command goes through
the containers one by one (`Project_Step`) and may stop anywhere
(`Project_CommandFails`).
`Deploy_*` is `docker compose up` of a deployment: containers of its services are
made anew or kept, missing ones created, then all are started, one at a time,
under the lock of the application that none of the others takes. `Create` and
`Alter` are other Docker clients. `ran`, `steady`, `goal`, `disturbed` and `wronged`
are history variables.

`VerdictHasAWitness` is as strong as the code allows. The containers are read at
different moments, so a verdict on the project need not have been true at any: if
one container stops and another starts while the project is read, each may be seen
when it is down, and a project that ran all the while is judged not running and may
be started. What the code does ensure is about single containers. One that ran from
the beginning of the reading to its end (`steady`) is seen, so the project is judged
running; and if it is judged running, a container of it ran at some moment (`ran`).
`SuccessIsReal` and `DeployedIsRunning` except containers that another client
has changed since: no lock would keep those out either, but a removal by the
application itself is among them, which is what the lock of the application
does not cover.

### TerminalRelay

One session. `client` and `inbox` are the browser's side, `ws` the server's side
of the web socket, `pc` the handler (`terminal` or `compose_terminal`, then
`_serve_terminal`), `reader` and `writer` the relay tasks, `socket` and `exec`
the Docker exec. A step goes from one `await` to the next. `raw` tells whether
the exec gave a plain socket; where it did not, reads and writes are calls in
threads (`threads`) that survive the cancellation of their relay and end by a
timeout (`Thread_Return`). What such a thread reads is dropped, but the message it
is sending may still reach the process, after the socket was closed.
`QuietAfterClose` allows this one message and nothing else. `held` is what the
exec's side holds unread, up to `Room`. The client may leave, the process end, the
server shut down and a call fail at any point; an error that is none of Docker's
ends the handler where it is not caught (`Handler_Require`, `Handler_Create`,
`Handler_Refuse`). `Server_Shutdown` is the cancellation of a handler that waits for
its relays; at its other awaits a cancellation does what an uncaught error does. A
reading that fails (`reset`) is told apart from the end of the output.

A session loses data when one relay ends and takes the other with it: if the client
leaves while output is under way, the reader's send may raise first, and what the
client had typed and the writer had not yet read is lost; if a write or a resize
raises, so is the output the reader had not yet sent. No document promises
otherwise. `RelayIsWhole` says what is promised by the code: a relay that comes to
the end of its own side has passed on everything from there, and a loss has one of
the causes that `LossHasACause` names.

### TaskPages

A browser tab on the task list and on the page of a task. The tasks are an
instance of `TaskStatus` over the same variable `status`, so the pages are checked
against every life of a task that the abstract specification allows, and
`TaskLifecycle` is proved to allow no other. The run leaves discard out: with it the
liveness check does not fit into minutes; the theorems hold with it. `List_Open` is the
`glob` of `TaskStore.list`, `List_Read` one `get`, which raises when the record is
gone, `List_Fails` any other failure (a record that cannot be read or is no task, or
the request itself), `Task_Open`/`Task_Show` the
page of a task, `Poll_*` the poller of `app.js`: a request is sent every two
seconds whether or not the last one was answered, and answers come in any order.
`stayed` and `existed` are history variables.

### BatchDialog

The selection of the image list, the dialog, and the requests of
`image_batch_delete.mjs`, as records that say separately how far the server and
the page have come with each, so that an answer may be late, lost, or overtaken
by another. A handler is split at its `await`. The server's side
(`Preview_Handle`, `Delete_Handle`) is what `ImageRemoval` opens up. `hasty` is a
history variable: the user asked for a preview while another was under way, or
closed the dialog during a removal.

## 3. Runs

| run | instance | states | what it shows |
|---|---|---|---|
| `lifecycle_interleavings` | 2 tasks of 1 application, 2 threads, discard on, no faults | 945 000 (with symmetry) | `TypeOK`, `NoLostUpdate`, `OneDeployPerRequest`, `ComposeSeesOwnFiles`, `RemovedStaysGone`, `SomeThreadRuns` |
| `lifecycle_faults` | 1 task, 3 threads, 1 crash, 1 fault, direct deploys, discard on | 353 000 (with symmetry) | `IInv` (the inductive invariant), `ActiveHasOwner`, `ComposeSeesWholePackage`, and `TaskLifecycle` implements `TaskStatus` (`ImplementsTaskStatus`) |
| `lifecycle_liveness` | 1 task, 3 threads, discard on, fair | 58 000 | `ActiveEnds`, `HandlersReturn` |
| `lifecycle_discard` | finding | | `DiscardedStaysGone` is violated |
| `lifecycle_restart` | finding | | `DeployingEnds` is violated |
| `config_edit` | 3 edits, 2 faults, 1 crash | 45 700 | `OneFailureLeavesItWhole`, `SavedEditIsWhole`, `FailedEditChangesNothing`, and `ConfigEdit` implements `AtomicEdit` (`ImplementsAtomicEdit`) |
| `overlay` | 4 paths (two directories with one entry each), 1 of them for a rule, links to one of them, 2 releases, 1 change by a container, 1 fault | 2 095 000 | `AbsentStays`, `ArchiveInstalled`, `ModesOnlyByRules`, `RulesApplied`, `FailsForAReason` |
| `image_removal` | 2 images, 2 tags, 2 threads, 1 load, 1 container, pages of 1 | 649 000 (with symmetry) | `ContainersKeepTheirImage`, `AnswersAreTrue`, `ReadUnderLockHolds`, `SuggestedPageIsShown`, `TagsInUseAreKept` |
| `runtime_lifecycle` | 3 container ids, 2 names, 1 project, 2 services, 2 threads, 2 changes by others | 2 263 000 (with symmetry) | `OnlyCheckedContainersChange`, `VerdictHasAWitness`, `SuccessIsReal`, `DeployedIsRunning` |
| `terminal_relay` | 3 messages, 2 chunks of output, room for 1, fair | 801 000 | `RelayIsWhole`, `NothingLeftOpen`, `QuietAfterClose`, `SessionEnds` |
| `task_pages` | 2 tasks, 2 polls under way, 1 failing request, no discard, fair | 151 000 | `ListIsComplete`, `EndIsShown` |
| `batch_dialog` | 2 images, 2 previews, 2 removals, 1 change by others | 521 000 (with symmetry) | `ConfirmedWasListed`, `OneRemovalAtATime`, `NoStaleRows` |

Every property of a passing run has a mutant in its module (`Mut_...`): a
definition changed the way a plausible bug would change it, under which TLC finds
the property violated.

### Bounds, and why they are enough

* *Tasks and applications.* Tasks meet only through an application's lock and
  stable directory; two tasks of one application show it. With different
  applications they share nothing.
* *Threads.* Two threads give every pair of operations, three add one that waits
  while two others proceed (two waiting for a lock; a removal during an upload
  while a third request arrives).
* `QueueBound = 2`: a task could have two background deploys if the guards let
  it; that it never does is `OneDeployPerRequest`.
* `MaxCrashes`, `MaxFaults`: one of each reaches every point at which one can
  happen, and their combination; for edits two faults, because the first one
  starts the restoration that the second one breaks.
* `MaxEdits = 3`: one edit that leaves something behind, one that meets it, and
  one that meets what the second left.
* *Overlay*: two directories with one entry each are the smallest trees in which
  a directory can be replaced with something below it, a link can lead from one
  to the other, and a sibling can show that it was left alone; TLC tries every
  archive twice, so every archive meets what every other one left. One change by a
  container and one fault fall between any two steps; the rule names the lower of
  two paths, so that a link can be put above it.
* *Images*: `PageSize = 1` makes every removal empty a page, one container and
  one load are what a single check can miss.
* *Containers*: two names and three ids let a name pass from one container to
  another, and a project have two containers of different states; two changes by
  others, and a second request, fall before, between and after the readings.
* *Terminal*: with `Room = 1` and three messages one is being read, one waits at
  the exec's side and one at the server; two chunks of output let one be under
  way while the next is still to come.
* *Pages*: two polls are what it takes for one answer to overtake another, two
  tasks for one to be removed while the other is read.
* *Dialog*: two previews and two removals are what it takes for one to overlap
  the other; two images let a preview list one and not the other.
* The pool is the set `Workers`, so requests that arrive while all are busy
  wait, as in the server.

`CHECK_DEADLOCK FALSE` stands where the bounded system really stops: in the task
runs and `task_pages` when every task was removed (ids are never reused), in
`overlay` and `batch_dialog` when the bounded number of archives or requests is
used up, in `terminal_relay` when the session is over. The deadlock that matters
among tasks, a request under way while no thread can move, is `SomeThreadRuns`,
over all threads and locks; that of a terminal session is `SessionEnds`. The
other modules are checked for deadlock.

### Fairness

`lifecycle_liveness` and `lifecycle_restart` assume weak fairness of each
thread's next step (`Work(w)`) and of giving a queued background deploy a thread
(`Start(t)`). Threads of one process are scheduled by the operating system,
external commands end because `docker_runtime.py` runs them with timeouts, and
the pool is first come, first served. Nothing is assumed of clients; the
properties hold once clients stop sending requests (`QuietClients`), because a
`threading.Lock` is not fair and a client that keeps asking could starve
another. No fairness is assumed of `Crash`, of faults, or of a step's outcome.

`TerminalRelay` assumes weak fairness of the handler, of each relay task (the
event loop resumes whatever can go on) and of a thread whose relay is gone (its
read or write times out). Nothing is assumed of the client or of the process:
`SessionEnds` begins when one of them has ended.

`TaskPages` assumes weak fairness of loading a page and of each poll (the timer
fires, the server answers or the request fails). Nothing is assumed of the user
or of the tasks: `EndIsShown` is about a user who stays on the page and a
deployment that ends.

## 4. Disagreements between the code and its documents

Two have a run that shows them:

1. **A discarded upload comes back** (`lifecycle_discard`). `discard` accepts a
   task that is still `uploaded` while its `upload` is running without the task's
   lock; upload then saves the record again, as `extracting`, `pending_review`
   or `failed`, of a package that was removed. The design says of the result
   that the task directory is physically deleted, and the README that an upload
   under way cannot be deleted. That it goes no further is a theorem: nothing but
   such an upload makes a removed task appear again (`OnlyItsUploadRevivesHolds`).
2. **A restart strands a deployment** (`lifecycle_restart`). The record says
   `deploying`, the background task is gone, nothing is read back at start, and
   retry, edit, delete and discard all refuse that status. The run shows one
   history in which the status stays; the theorem `StrandedForGoodHolds` says that
   no later step of any history changes it, of an upload that a restart caught
   `extracting` as well.

The others were met while modelling. The properties that hold are stated around
them, and each is visible as the exception a property makes:

3. *Half a configuration* (`OneFailureLeavesItWhole` holds for one failure).
   When the operation that interrupts an edit is followed by a failure of the
   restoration (a full disk is both), `.env` and `compose.yaml` are of different
   edits; `2026-08-07-deployment-configuration-editing-design.md:124` promises
   that half a configuration never appears.
4. *A tag of another image is removed* (`TagsInUseAreKept`, `ReadUnderLockHolds`
   hold while nothing is loaded). The lock by image id is to keep the
   application from interfering with itself
   (`2026-08-12-image-management-design.md:266`), but its own deployments'
   `docker load` does not take it.
5. *A file in the place of a directory* (`Buried` in `AbsentStays`). When the
   archive has a file or a link where the stable directory has a directory, the
   overlay removes the directory with all that is in it, although the README
   (line 79) says that what the archive does not have is not removed.
6. *A terminal that does not end* (`Stuck` in `SessionEnds`). When the process
   reads no input and the socket is full, the writer waits in `sock_sendall` and
   no longer sees the client leave;
   `2026-08-06-docker-manage-server-design.md:210` has the socket closed when the
   web socket is disconnected.
7. *A poller that goes on* (the premise of `EndIsShown`). When the task is edited
   or removed in another tab, the page polls for good, since it stops only at
   `deployed` and `failed`
   (`2026-08-07-server-rendered-admin-ui-design.md:95`).
8. *A removal submitted twice* (`hasty` in `OneRemovalAtATime`). Previews that
   overlap, or a dialog closed during a removal and opened again, enable the
   button while a removal is under way;
   `2026-08-12-image-batch-delete-design.md:43` has it disabled during the
   request.
9. *The mode of a directory that no rule names* (`swapped` in `ModesOnlyByRules`).
   When a container puts a link above a directory of a rule after the second
   validation, `os.open` follows it and the mode of a rule is set where it leads;
   `2026-08-07-deployment-configuration-editing-design.md:146` has no symbolic link
   followed, and line 154 links refused that appear during the deployment.

## 5. Proofs

The theorems hold for any sets of tasks, applications, threads, images, tags,
containers and so on, and any bounds. They assume only the named assumptions of
the modules (that the null values are no members of the sets they stand beside,
that bounds are natural numbers, in `ImageRemoval` that there are finitely many
images, in `Overlay` that the parents of a path are among the paths), which TLC evaluates on the instances of the runs.

| module | theorems |
|---|---|
| `TaskLifecycleProofs` | `TypeCorrect`, `InductiveInvariant` (`IInv`), `NoLostUpdateHolds`, `RemovedStaysGoneHolds`, `ComposeSeesOwnFilesHolds`, `ActiveHasOwnerHolds`, `OneDeployPerRequestHolds` (deploys come from `begin_deploy`), `ComposeSeesWholePackageHolds`, `ImplementsTaskStatusHolds`, `OnlyItsUploadRevivesHolds`, `StrandedForGoodHolds` (deploys come from `begin_deploy`), `EveryStepAdvancesHolds`, `LocksAreLeftHolds`, `NoCircleOfWaiting` |
| `ConfigEditProofs` | `OneFailureLeavesItWholeHolds`, `SavedEditIsWholeHolds`, `FailedEditChangesNothingHolds`, `DeployUsesOneEditHolds`, `ImplementsAtomicEditHolds` |
| `ImageRemovalProofs` | `TypeCorrect`, `InductiveInvariant`, `ContainersKeepTheirImageHolds`, `AnswersAreTrueHolds`, `ReadUnderLockStays`, `TagsInUseAreKeptHolds`, `SuggestedPageIsShownHolds` |
| `RuntimeLifecycleProofs` | `TypeCorrect`, `OnlyCheckedContainersChangeHolds`, `VerdictHasAWitnessHolds`, `SuccessIsRealHolds`, `DeployedIsRunningHolds` |
| `OverlayProofs` | `TypeCorrect`, `ComparedHolds`, `AbsentStaysHolds`, `ArchiveInstalledHolds`, `ModesOnlyByRulesHolds`, `RulesAppliedHolds`, `FailsForAReasonHolds` |
| `TerminalRelayProofs` | `NothingLeftOpenHolds`, `QuietAfterCloseHolds`, `Accounting`, `RelayIsWholeHolds` |
| `TaskPagesProofs` | `ListIsCompleteHolds` |
| `BatchDialogProofs` | `ConfirmedWasListedHolds`, `OneRemovalAtATimeHolds`, `NoStaleRowsHolds`, `SubmitFollowsSelectionHolds` |

### TaskLifecycle

The argument is built in layers, each inductive relative to those before it:

1. `Typed`: types, and a worker has a task exactly while it is not idle.
2. `MemoryOK`: the status a worker holds in memory fits its step (a deploy holds
   `deploying`, a removal one of the removable statuses).
3. `LocksHeld`: a worker at a step inside `with` holds that lock, so two workers
   inside the same lock are the same worker. `RecordOK`: a reviewed task has an
   application.
4. `Exclusion`: *UploadAlone* and *NoLostUpdate* together. Neither is inductive
   alone. A locked worker's record is stable because other lockers are excluded
   by the lock and uploads by their status: an upload's record is absent,
   `uploaded` or `extracting`, no guard but discard's accepts those, and discard
   keeps what it loaded as `uploaded`. Conversely the upload's record stays one
   of those three because no locked worker that saves can have loaded it. This
   is the part a reader of the code would doubt, since `upload` takes no lock.
5. `RemovedStaysGone` adds that whoever still names a removed task waits for its
   lock and will be refused; `ComposeSeesOwnFiles` adds what each deployment has
   copied so far; `ActiveHasOwner` follows step by step from layers 1 to 4.
6. `Served` says the same as `OneDeployPerRequest` without cardinalities: a
   deploying task has one queued deploy or one thread, and what a crash or a
   failed save left behind (`StrandedOf`) is out of everybody's reach. `Package`
   says that a reviewed task has a whole package until a removal begins; whoever
   composes holds the lock that a removal needs.
7. `Fates`: the record of an upload is where its steps have brought it, unless a
   discard has taken it away; what a deployment or an edit has loaded is not a
   failed upload; a removal that loaded `uploaded` is a discard, and its record is
   where an upload can have got to (`GivenUp`). With layers 4 and 5 this says which
   move of `TaskStatus` each of the nine saves is (`EachStepMoves`), an upload's
   after its discard being `Return` (`UploadReturns`); every other step leaves the
   record and the end of removals alone, and stutters.
8. `WhoWrites` says who can change a record: its creation, a thread at one of
   seven saves, or the end of a removal. Layer 5 leaves only an upload for a task that
   was removed (`OnlyItsUploadRevives`), and layer 6 nobody at all for one that a
   crash left active (`NobodyHasIt`, `StrandedForGood`).
9. `EveryStepAdvances` gives each place in a handler a number (`Stage`) that every
   step lowers, unless it removes one more entry of a package. What
   `HandlersReturn` adds to it, that the step is taken at last, is fairness.
10. `LocksAreLeft` is the converse of `LocksHeld`: a lock that is taken has a
   thread inside. With two kinds of locks, one always taken inside the other, a
   thread that does not wait follows for any number of threads
   (`NoCircleOfWaiting`); that such a thread has a step to take is `ENABLED`, and
   checked by `SomeThreadRuns`.

### ConfigEdit

`Written` says what the edit under way has replaced at each step, `Restored` what
its restoration has put back, as long as it did not fail itself. `StartsWhole`
says that with one failure each edit starts from a whole configuration and leaves
one, and `Leftovers` that the checksums then list no temporary file. The
properties of one failure follow from these, for any number of edits.

The refinement holds for any number of failures and crashes, and rests on two
more facts. `Numbered`: nothing is newer than the edit under way, and what it found
is older, so each save leads to a newer configuration. `OldOrNew`: until an edit
ends, each file is as it found it or as it has it, so whatever ends it leaves a
mixture of the two at worst. `SavedConfig` is the lemma of the one step that
saves; `StepMaps` maps every step to `Save`, `Deploy`, `Absorb`, `Tear` or a
stutter. That `Tear` needs an earlier failure comes from the restoration: only a
second failure can stop it half way.

### ImageRemoval

Each layer says what a request may rely on, and is kept by its own steps and by
the steps of the others (`Same`, `LocksStay`: a request's variables and the lock
it holds change by its own steps only).

1. `Typed`, with `Control`: a request is inside the lock of the image it works
   on; `Named`: a tag names an image that exists. `ImagesStay` follows: an image
   that a container has does not go, whatever a request has read before.
2. `Fresh`: what was read under the lock still holds, as long as nothing is
   loaded, since two requests for one image exclude one another.
3. `Reports` and `ReportedGoneIsGone`: the lists of a batch and what is still to
   do divide the ids of the request; what was reported gone stays gone.
4. `Known`, `TagsOfContainers`, `Spared`: a tag that a container was listed with
   is never among those a request still removes, nor among those the next holder
   of the lock will.
5. The page: `PageInListing` is arithmetic about the page of a listing of any
   size.

### RuntimeLifecycle

`Typed` contains `Control`, what a request has in its variables at each step.
`DockerStep` is what any step does to Docker (nothing, or one container, whose
name and project stay), and `Observes(v)` what a step of others does to the
request `v` (its history follows the containers). Each property has an invariant
per request (`Checked`, `VerdictOf`, `SuccessOf`, `DeployedOf`) with two lemmas:
it survives every observed step, and the request's own steps establish it. For
`VerdictOf`, `Observes` says how the history of a reading follows the containers
(`Follows`), and the invariant that a container which ran all the while (`steady`)
is still to be inspected or has been seen to run.

### Overlay

Two invariants, the second resting on the first.

1. `Base` holds whatever links are in the tree and whatever containers change: the
   types, with the shape of the tree (`Rooted`: what is there is in a directory),
   what is still to do (`Work`), that only rules' directories have a rule's mode
   unless a link was put above one (`RuleModes`), which directories the rules have
   made while no container interfered (`RulesMade`), what the second validation has
   found, as long as it lasts (`Checked`), and which modes were set (`Applied`,
   `RulesApplied`). It needs no knowledge of where a link leads, only that `Real` and
   `Place` end at an entry whose parents are directories (`LayShape`): so a step
   replaces one entry, or removes some, and the tree stays a tree (`ReplaceTree`,
   `WithoutTree`, `MadeTree`).
2. `Compared` and `Laid` are about an archive that no old link is in the way of.
   `LinksMet`: the only links on the way to its entries are those that a link of
   its own will replace. `Laid`: what was gone through is what the archive has, or
   what a container made of it; then what is not there now was not there before
   either (`Whole`, `Installed`). The two need each other. An entry lies where the
   archive says (`InPlace`) because its parents come before it in the order
   (`PrefixComesFirst`) and so were laid; what is laid stays laid because no later
   entry is above it; and a fault or a container touches one entry, what is below
   it, or directories above it that are missing (`Touches`). `Kept`, `AbsentStays`
   and `ModesKept` compare the tree with the one the archive met. A directory that
   `mkdir` makes anew was not there before (`MadeCompared`): it would have been kept,
   unless what was laid in its place, which is no directory, stands in the way. That
   is why `ModesKept` holds across `MakeDirectory`.

`FailsForAReason` follows step by step while no container has changed anything: an
entry in its place can be laid (`LayPossible`), rules that were valid in the archive
and in the tree are valid in what the overlay makes of both (`ValidStays`), and
`Chmod` finds the directories that the rules have made.

### TerminalRelay, TaskPages, BatchDialog

`Stages` says what each step of the handler may count on: before the exec is made
there is nothing to close, after the `finally` clause nothing is left to end.
`OutputAccounted` and `InputAccounted` say where everything is that an end of the
session sent: what the process wrote has been shown but for what the reader is
sending, and of the bytes messages that were typed each was given to the process,
is in the writer's hand, or waits. `Waiting` counts those in the inbox as the
cardinality of a set of positions, so that the lemmas about `Append` and `Tail`
need no recursion. `Causes` says why a relay that ended or raised did so, from which
`LossHasACause` follows when the handler is done.
`Reading` says that a record that has stayed is among those read or still to be
read. `OneAtATime` says of a user who is not hasty that previews follow one
another, that a removal under way keeps the dialog open and the button disabled,
and that one that was answered leaves no way but the list anew.

### Only model-checked

Liveness (`ActiveEnds`, `HandlersReturn`, `SessionEnds`, `EndIsShown`) and
`SomeThreadRuns`, because fairness and `ENABLED` are beyond the prover. Every
other property of a passing run is a theorem. Of liveness `EveryStepAdvancesHolds`
proves the part that is no matter of fairness.

## 6. Not modelled

Rendering, JSON shapes, error texts and logging; what an archive member, a line
of the checksums or a path looks like (the review accepts or refuses); the
contents of `compose.yaml`; owners of directories (the mode stands for both).
The pages of containers, ports, images and search, and the API that feeds them,
read once and sort: they have no state of their own, and what they read is stale
as soon as it is shown. Logs, the log viewer, the upload form and the other
dialogs of `app.js` keep no state that another request can disturb. Settings are
constants. That Docker calls of an `async` handler hold the event loop up is in
`TerminalRelay` (such a call is one step), but what that does to other requests
is not.

External systems are modelled by how the code uses them: the file system (atomic
`replace`, operations that fail), Docker (removal without force, tags,
containers, execs), the thread pool, the event loop, the browser.

## 7. Plan

Done: the modules of section 2 and the proofs of section 5. What is left, in this
order:

1. Port ranges, search and pages as operators against reference definitions
   (`runtime_inventory.py`, `image_inventory.py`), without recursion so that
   lemmas about them can be proved.
2. The review of an archive: which member paths, links and checksums it accepts
   (`artifacts.py:27-70, 138-225`).
