------------------------------- MODULE TaskPages -------------------------------
(***************************************************************************)
(* One browser tab on the pages of deployment tasks (storage.py, web.py,   *)
(* web_views.py, app.js): the list, read record by record without a lock,  *)
(* and the page of a task that is being deployed, which polls.             *)
(*                                                                         *)
(* The tasks themselves change as TaskStatus says, by whomever.  A poll is *)
(* sent every two seconds whether or not the last one was answered, so     *)
(* several are under way and their answers come in any order.              *)
(***************************************************************************)
EXTENDS Naturals

CONSTANTS
  Tasks,
  Discarding, \* whether clients give uploads up
  MaxPolls,   \* bound: polls under way
  MaxErrors   \* bound: requests that fail though the task is there

ASSUME BoundAssumption == MaxPolls \in Nat /\ MaxErrors \in Nat

VARIABLES
  status,     \* of each task, as its record says
  page,       \* what the tab shows: "none", "list", "task" or "error"
  loading,    \* what it loads: "none", "list" or "task"
  unread,     \* list: records found, not yet read
  rows,       \* list: records read
  task,       \* the task of the page that is shown or loaded
  shown,      \* data-task-status of the page
  timer,      \* whether the page polls
  polls,      \* requests under way, and their answers
  errors,
  stayed, existed   \* history: tasks stored all the time, at some time, since the list was asked for

list == <<unread, rows, stayed, existed>>
poll == <<shown, timer, polls>>
vars == <<status, page, loading, task, list, poll, errors>>

Server == INSTANCE TaskStatus

Gone == {"removed", "discarded"}

Stored(t) == status[t] \notin {"none"} \cup Gone
Records   == {t \in Tasks : Stored(t)}
Ended     == {"deployed", "upload_failed", "deploy_failed"}
Idle      == [i \in 1..MaxPolls |-> "free"]

\* Nothing of the list is kept on another page.
Clear ==
  /\ unread' = {} /\ rows' = {}
  /\ stayed' = {} /\ existed' = {}

Init ==
  /\ Server!Init
  /\ page = "none" /\ loading = "none"
  /\ unread = {} /\ rows = {} /\ stayed = {} /\ existed = {}
  /\ task \in Tasks
  /\ shown = "none" /\ timer = FALSE /\ polls = Idle
  /\ errors = 0

\* Some record is saved or removed.
Server_Step ==
  /\ Server!Next
  /\ stayed' = IF loading = "list" THEN {t \in stayed : Stored(t)'} ELSE stayed
  /\ existed' = IF loading = "list" THEN existed \cup Records' ELSE existed
  /\ UNCHANGED <<page, loading, unread, rows, task, poll, errors>>

-----------------------------------------------------------------------------
(* The list.                                                               *)

\* tasks_dir.glob("*.json").
List_Open ==
  /\ loading = "none"
  /\ loading' = "list"
  /\ unread' = Records
  /\ rows' = {}
  /\ stayed' = Records /\ existed' = Records
  /\ UNCHANGED <<status, page, task, poll, errors>>

\* The page is replaced by what was loaded; a poll of the old one is dropped.
Show(p) ==
  /\ page' = p
  /\ loading' = "none"
  /\ polls' = Idle

\* Mutant: a record that is gone ends the reading.
Mut_ReadMissing == Show("list") /\ unread' = {} /\ UNCHANGED <<rows, stayed, existed>>

\* store.get raises KeyError, and nothing catches it.
ReadMissing == Show("error") /\ Clear

List_Read(t) ==
  /\ loading = "list"
  /\ t \in unread
  /\ \/ /\ Stored(t)
        /\ rows' = rows \cup {t}
        /\ unread' = unread \ {t}
        /\ UNCHANGED <<page, loading, polls, shown, timer, stayed, existed>>
     \/ /\ ~Stored(t)
        /\ ReadMissing
        /\ shown' = "none" /\ timer' = FALSE
  /\ UNCHANGED <<status, task, errors>>

\* A record cannot be read or is no task, or the request itself fails.
List_Fails ==
  /\ loading = "list"
  /\ errors < MaxErrors /\ errors' = errors + 1
  /\ Show("error") /\ Clear
  /\ shown' = "none" /\ timer' = FALSE
  /\ UNCHANGED <<status, task>>

List_Show ==
  /\ loading = "list" /\ unread = {}
  /\ Show("list")
  /\ shown' = "none" /\ timer' = FALSE
  /\ UNCHANGED <<status, task, list, errors>>

-----------------------------------------------------------------------------
(* The page of a task.                                                     *)

\* From a row of the list, or by the redirect after a deploy.
Task_Open(t) ==
  /\ loading = "none"
  /\ \/ page = "list" /\ t \in rows
     \/ page = "task" /\ t = task
  /\ loading' = "task"
  /\ task' = t
  /\ Clear
  /\ UNCHANGED <<status, page, poll, errors>>

Task_Show ==
  /\ loading = "task"
  /\ \/ /\ Stored(task)
        /\ Show("task")
        /\ shown' = status[task]
        /\ timer' = (status[task] = "deploying")
        /\ UNCHANGED errors
     \/ /\ \/ ~Stored(task) /\ UNCHANGED errors
           \/ errors < MaxErrors /\ errors' = errors + 1
        /\ Show("error")
        /\ shown' = "none" /\ timer' = FALSE
  /\ UNCHANGED <<status, task, list>>

Poll_Send(i) ==
  /\ timer
  /\ polls[i] = "free" /\ \A j \in 1..(i - 1) : polls[j] # "free"
  /\ polls' = [polls EXCEPT ![i] = "sent"]
  /\ UNCHANGED <<status, page, loading, task, list, shown, timer, errors>>

Poll_Serve(i) ==
  /\ polls[i] = "sent"
  /\ \/ Stored(task) /\ polls' = [polls EXCEPT ![i] = status[task]] /\ UNCHANGED errors
     \/ /\ polls' = [polls EXCEPT ![i] = "error"]
        /\ \/ ~Stored(task) /\ UNCHANGED errors
           \/ errors < MaxErrors /\ errors' = errors + 1
  /\ UNCHANGED <<status, page, loading, task, list, shown, timer>>

\* Mutant: the page is not loaded anew.
Mut_Reload == UNCHANGED loading

Reload == loading' = IF loading = "none" THEN "task" ELSE loading

\* An answer; the old page goes on taking them until the new one is there.
Poll_Answer(i) ==
  /\ polls[i] \notin {"free", "sent"}
  /\ polls' = [polls EXCEPT ![i] = "free"]
  /\ \/ polls[i] = "error" /\ UNCHANGED <<shown, timer, loading>>
     \/ /\ polls[i] # "error" /\ polls[i] \notin Ended
        /\ shown' = polls[i]
        /\ UNCHANGED <<timer, loading>>
     \/ /\ polls[i] \in Ended
        /\ shown' = polls[i]
        /\ timer' = FALSE
        /\ Reload
  /\ UNCHANGED <<status, page, task, list, errors>>

Poll(i) == Poll_Send(i) \/ Poll_Serve(i) \/ Poll_Answer(i)

Load == List_Show \/ Task_Show \/ \E t \in Tasks : List_Read(t)

Tab ==
  \/ Load \/ List_Open \/ List_Fails \/ \E t \in Tasks : Task_Open(t)
  \/ \E i \in 1..MaxPolls : Poll(i)

Next == Server_Step \/ Tab

\* The server answers, and the timer fires.  Nothing is assumed of users, or
\* of the tasks.
Spec ==
  /\ Init /\ [][Next]_vars
  /\ WF_vars(Load)
  /\ \A i \in 1..MaxPolls : WF_vars(Poll(i))

-----------------------------------------------------------------------------
(* Properties *)

TypeOK ==
  /\ status \in [Tasks -> Server!States]
  /\ page \in {"none", "list", "task", "error"}
  /\ loading \in {"none", "list", "task"}
  /\ unread \subseteq existed /\ rows \subseteq Tasks
  /\ task \in Tasks /\ shown \in Server!States
  /\ timer \in BOOLEAN /\ (timer => page = "task")
  /\ polls \in [1..MaxPolls -> {"free", "sent", "error"} \cup Server!States]
  /\ errors \in 0..MaxErrors
  /\ stayed \subseteq existed /\ existed \subseteq Tasks

\* A list that is shown has every task that was stored while it was read, and
\* no other than tasks that were stored at some time meanwhile.
ListIsComplete ==
  page = "list" /\ loading # "list" => stayed \subseteq rows /\ rows \subseteq existed

\* Who stays on a page that polls until the deployment has ended sees that
\* end, and the page no longer polls, whatever late answers arrive.
EndIsShown ==
  \A s \in {"deployed", "deploy_failed"} :
    [](/\ timer
       /\ [](page = "task" /\ status[task] \in {"deploying", s})
       /\ <>[](status[task] = s)
       => <>[](shown = s /\ ~timer))
=============================================================================
