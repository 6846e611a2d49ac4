-------------------------- MODULE RuntimeLifecycle --------------------------
(***************************************************************************)
(* RuntimeLifecycleService (runtime_lifecycle.py): start, stop, restart    *)
(* and removal of standalone containers and of Compose projects, as        *)
(* request threads that share the Docker daemon with each other, with      *)
(* deployments and with other Docker clients, and take no lock.            *)
(*                                                                         *)
(* A container action checks the container, then acts on its id.  A        *)
(* project action lists the containers and inspects one after the other,   *)
(* then reads `docker compose ls`, then runs a compose command, which goes *)
(* through the containers one by one and may fail half way.  A deployment  *)
(* runs `docker compose up` under the lock of its application, which the   *)
(* actions do not take.                                                    *)
(***************************************************************************)
EXTENDS Naturals, FiniteSets

CONSTANTS
  Ids,         \* container ids; Docker never gives the same one twice
  Names, Projects, Workers,
  Services,    \* names of the containers that the compose file of a project declares
  NoId, NoProject,
  MaxChanges   \* bound: changes by other Docker clients

ASSUME NullAssumption ==
  /\ Ids \cap Names = {}
  /\ NoId \notin Ids \cup Names \cup Workers
  /\ NoProject \notin Projects
  /\ Services \subseteq Names

ASSUME BoundAssumption == MaxChanges \in Nat

VARIABLES
  cont,       \* Docker: the container with each id, None before it is made or after it is gone
  used,       \* Docker: ids given so far
  pc,         \* per worker: next step
  act,        \* start, stop, restart, remove or up
  ref,        \* the name or id of a container, or the project, in the request
  item,       \* the id the check returned
  listed,     \* what list_containers has said of the project so far
  todo,       \* containers that list_containers has still to inspect, or the compose
              \* command to visit, and names it has to create
  answer,     \* how the request ended
  changes,
  ran,        \* history: containers of the project that ran at some moment of the reading
  steady,     \* history: those that ran all the while
  goal,       \* history: containers the compose command set out to change
  disturbed,  \* history: those of them that somebody else has changed since
  wronged     \* history: project containers, or running ones removed, by a container action

readVars  == <<ran, steady>>
histVars  == <<readVars, goal, disturbed, wronged>>
localVars == <<pc, act, ref, item, listed, todo, answer>>
vars == <<cont, used, localVars, changes, histVars>>

Container == [name : Names, project : Projects \cup {NoProject}, running : BOOLEAN]
None      == [name |-> "none"]
Action    == {"start", "stop", "restart", "remove"}
Answer    == {"none", "ok", "conflict"}   \* of a deployment, "ok" is the status DEPLOYED
Reading   == [present : BOOLEAN, running : BOOLEAN]
Unread    == [present |-> FALSE, running |-> FALSE]
PC        == {"idle", "c_check", "c_act", "c_reread", "p_list", "p_read", "p_command",
              "p_run", "p_reread", "u_create", "u_start", "answered"}

-----------------------------------------------------------------------------
(* What Docker holds.                                                      *)

Existing(c)  == {i \in Ids : c[i] # None}
Members(c, p) == {i \in Existing(c) : c[i].project = p}
Up(c, p)     == {i \in Members(c, p) : c[i].running}

\* containers.get, by id or by name.
Find(r) ==
  IF r \in Ids THEN {r} \cap Existing(cont) ELSE {i \in Existing(cont) : cont[i].name = r}

\* start and restart leave a container running, stop does not, and remove
\* makes it go.
After(i, a) ==
  IF a = "remove" THEN None ELSE [cont[i] EXCEPT !.running = (a # "stop")]

\* Docker's state changes from cont to c by the hand of `by` (a worker, or
\* NoId for others).
Change(c, by) ==
  /\ cont' = c
  /\ ran' = [w \in Workers |->
       IF pc[w] = "p_read" THEN ran[w] \cup Up(c, ref[w]) ELSE ran[w]]
  /\ steady' = [w \in Workers |->
       IF pc[w] = "p_read" THEN steady[w] \cap Up(c, ref[w]) ELSE steady[w]]
  /\ disturbed' = [w \in Workers |->
       IF w = by THEN disturbed[w]
       ELSE disturbed[w] \cup {i \in goal[w] : c[i] # cont[i]}]

-----------------------------------------------------------------------------
UniqueNames(c) ==
  \A i, j \in Existing(c) : c[i].name = c[j].name => i = j

Init ==
  /\ cont \in [Ids -> Container \cup {None}]
  /\ UniqueNames(cont)
  /\ used = Existing(cont)
  /\ pc = [w \in Workers |-> "idle"]
  /\ act = [w \in Workers |-> "start"]
  /\ ref = [w \in Workers |-> NoId]
  /\ item = [w \in Workers |-> NoId]
  /\ listed = [w \in Workers |-> Unread]
  /\ todo = [w \in Workers |-> {}]
  /\ answer = [w \in Workers |-> "none"]
  /\ changes = 0
  /\ ran = [w \in Workers |-> {}]
  /\ steady = [w \in Workers |-> {}]
  /\ goal = [w \in Workers |-> {}]
  /\ disturbed = [w \in Workers |-> {}]
  /\ wronged = {}

Goto(w, l) == pc' = [pc EXCEPT ![w] = l]

\* The handler returns, with the resource or with a 404, 409 or 503.
Finish(w) ==
  /\ Goto(w, "idle")
  /\ act' = [act EXCEPT ![w] = "start"]
  /\ ref' = [ref EXCEPT ![w] = NoId]
  /\ item' = [item EXCEPT ![w] = NoId]
  /\ listed' = [listed EXCEPT ![w] = Unread]
  /\ todo' = [todo EXCEPT ![w] = {}]
  /\ answer' = [answer EXCEPT ![w] = "none"]
  /\ ran' = [ran EXCEPT ![w] = {}]
  /\ steady' = [steady EXCEPT ![w] = {}]
  /\ goal' = [goal EXCEPT ![w] = {}]
  /\ disturbed' = [disturbed EXCEPT ![w] = {}]

\* An answer that properties speak of is a state of its own.
Respond(w, a) ==
  /\ answer' = [answer EXCEPT ![w] = a]
  /\ Goto(w, "answered")

Return(w) ==
  /\ pc[w] = "answered"
  /\ Finish(w)
  /\ UNCHANGED <<cont, used, changes, wronged>>

Request(w, targets, l) ==
  /\ pc[w] = "idle"
  /\ \E a \in Action, r \in targets :
       /\ act' = [act EXCEPT ![w] = a]
       /\ ref' = [ref EXCEPT ![w] = r]
  /\ Goto(w, l)
  /\ UNCHANGED <<cont, used, item, listed, todo, answer, changes, histVars>>

Request_Container(w) == Request(w, Ids \cup Names, "c_check")
Request_Project(w)   == Request(w, Projects, "p_list")

\* Docker or docker compose ls raises DockerRuntimeError (503).
Fails(w) ==
  /\ pc[w] \in {"c_check", "c_act", "c_reread", "p_list", "p_read", "p_reread"}
  /\ Finish(w)
  /\ UNCHANGED <<cont, used, changes, wronged>>

-----------------------------------------------------------------------------
(* _container_action and remove_container.                                 *)

\* require_standalone_container.
Standalone(r) == {i \in Find(r) : cont[i].project = NoProject}

\* Whether the state a resource is read to have allows an action.
Allowed(a, running) ==
  IF a \in {"stop", "restart"} THEN running ELSE ~running

\* require_standalone_container and the check of the running state.
Container_Check(w) ==
  /\ pc[w] = "c_check"
  /\ \E i \in Standalone(ref[w]) :
       /\ Allowed(act[w], cont[i].running)
       /\ item' = [item EXCEPT ![w] = i]
  /\ Goto(w, "c_act")
  /\ UNCHANGED <<cont, used, act, ref, listed, todo, answer, changes, histVars>>

\* No such standalone container (404), or its state is not the one (409).
Container_Rejected(w) ==
  /\ pc[w] = "c_check"
  /\ \A i \in Standalone(ref[w]) : ~Allowed(act[w], cont[i].running)
  /\ Finish(w)
  /\ UNCHANGED <<cont, used, changes, wronged>>

\* Mutant: the action goes to the name of the request.
Mut_ByName(w) == Find(ref[w])

\* The action goes to the id that the check returned.
Acted(w) == Find(item[w])

\* force=False: Docker does not remove a container that runs.
Refused(i, a) == a = "remove" /\ cont[i].running

Container_Act(w) ==
  /\ pc[w] = "c_act"
  /\ \E i \in Acted(w) :
       /\ ~Refused(i, act[w])
       /\ Change([cont EXCEPT ![i] = After(i, act[w])], w)
       /\ wronged' = IF \/ cont[i].project # NoProject
                        \/ act[w] = "remove" /\ cont[i].running
                     THEN wronged \cup {i} ELSE wronged
  /\ Goto(w, "c_reread")
  /\ UNCHANGED <<used, act, ref, item, listed, todo, answer, changes, goal>>

\* A removal returns what it removed; the other actions read the container
\* again, and find it or not.
Container_Done(w) ==
  /\ \/ pc[w] = "c_act" /\ Find(item[w]) = {}
     \/ pc[w] = "c_reread"
  /\ Finish(w)
  /\ UNCHANGED <<cont, used, changes, wronged>>

-----------------------------------------------------------------------------
(* _compose_action and remove_compose_project.                             *)

\* RuntimeInventoryService.load, first reading: client.containers.list asks for
\* all ids, then inspects one container after the other.
Project_List(w) ==
  /\ pc[w] = "p_list"
  /\ todo' = [todo EXCEPT ![w] = Members(cont, ref[w])]
  /\ listed' = [listed EXCEPT ![w].present = (Members(cont, ref[w]) # {})]
  /\ ran' = [ran EXCEPT ![w] = Up(cont, ref[w])]
  /\ steady' = [steady EXCEPT ![w] = Up(cont, ref[w])]
  /\ Goto(w, "p_read")
  /\ UNCHANGED <<cont, used, act, ref, item, answer, changes, goal, disturbed, wronged>>

\* A container that is gone by now makes the listing fail (Fails).
Project_Inspect(w) ==
  /\ pc[w] = "p_read"
  /\ \E i \in todo[w] \cap Existing(cont) :
       /\ listed' = [listed EXCEPT ![w].running = @ \/ cont[i].running]
       /\ todo' = [todo EXCEPT ![w] = @ \ {i}]
  /\ UNCHANGED <<cont, used, pc, act, ref, item, answer, changes, histVars>>

\* docker compose ls sums up the states in alphabetical order, so that
\* "running" comes first only when every container runs.
StatusRunning(p) == Members(cont, p) # {} /\ Members(cont, p) = Up(cont, p)

\* Mutant: only the status of docker compose ls counts.
Mut_StatusOnly(w) == StatusRunning(ref[w])

\* ComposeProject.running, from inspections and a status of different moments.
ProjectRunning(w) == listed[w].running \/ StatusRunning(ref[w])

Present(w) == listed[w].present \/ Members(cont, ref[w]) # {}

\* Second reading, and the check; a removal only needs the project.
Project_Accepted(w) ==
  Present(w) /\ (act[w] = "remove" \/ Allowed(act[w], ProjectRunning(w)))

Project_Ls(w) ==
  /\ pc[w] = "p_read" /\ todo[w] = {}
  /\ Present(w)
  /\ IF Project_Accepted(w) THEN Goto(w, "p_command") /\ UNCHANGED answer
     ELSE Respond(w, "conflict")
  /\ UNCHANGED <<cont, used, act, ref, item, listed, todo, changes, histVars>>

Project_Missing(w) ==
  /\ \/ pc[w] = "p_read" /\ todo[w] = {} /\ ~Present(w)
     \/ pc[w] = "p_reread" /\ Members(cont, ref[w]) = {}
  /\ Finish(w)
  /\ UNCHANGED <<cont, used, changes, wronged>>

\* docker compose --project-name lists the project's containers.
Project_Command(w) ==
  /\ pc[w] = "p_command"
  /\ todo' = [todo EXCEPT ![w] = Members(cont, ref[w])]
  /\ goal' = [goal EXCEPT ![w] = Members(cont, ref[w])]
  /\ listed' = [listed EXCEPT ![w] = Unread]
  /\ ran' = [ran EXCEPT ![w] = {}]
  /\ steady' = [steady EXCEPT ![w] = {}]
  /\ Goto(w, "p_run")
  /\ UNCHANGED <<cont, used, act, ref, item, answer, changes, disturbed, wronged>>

\* One container; down stops it before it removes it.
Project_Step(w) ==
  /\ pc[w] = "p_run"
  /\ \E i \in todo[w] :
       LET stopFirst == act[w] = "remove" /\ cont[i] # None /\ cont[i].running
       IN  /\ IF cont[i] = None THEN UNCHANGED <<cont, readVars, disturbed>>
              ELSE Change([cont EXCEPT ![i] =
                             After(i, IF stopFirst THEN "stop" ELSE act[w])], w)
           /\ todo' = [todo EXCEPT ![w] = IF stopFirst THEN @ ELSE @ \ {i}]
  /\ UNCHANGED <<used, pc, act, ref, item, listed, answer, changes, goal, wronged>>

\* Mutant: the exit status is not looked at.
Mut_ExitIgnored(w) ==
  /\ pc[w] \in {"p_command", "p_run"}
  /\ IF act[w] = "remove" THEN Respond(w, "ok") ELSE Goto(w, "p_reread") /\ UNCHANGED answer
  /\ UNCHANGED <<cont, used, act, ref, item, listed, todo, changes, histVars>>

\* The command exits with an error or times out; what it did stays done.
Project_CommandFails(w) ==
  /\ pc[w] \in {"p_command", "p_run"}
  /\ Finish(w)
  /\ UNCHANGED <<cont, used, changes, wronged>>

Project_Done(w) ==
  /\ pc[w] = "p_run"
  /\ todo[w] = {}
  /\ IF act[w] = "remove" THEN Respond(w, "ok") ELSE Goto(w, "p_reread") /\ UNCHANGED answer
  /\ UNCHANGED <<cont, used, act, ref, item, listed, todo, changes, histVars>>

\* _require_project again, for the answer.
Project_Reread(w) ==
  /\ pc[w] = "p_reread"
  /\ Members(cont, ref[w]) # {}
  /\ Respond(w, "ok")
  /\ UNCHANGED <<cont, used, act, ref, item, listed, todo, changes, histVars>>

-----------------------------------------------------------------------------
(* A deployment from docker compose up on.                                 *)

\* The application lock keeps deployments of one project apart.  compose lists
\* the project's containers; those of its services are kept, the services
\* without one get a new container.
Deploy_Up(w, p) ==
  /\ pc[w] = "idle"
  /\ \A v \in Workers : ~(act[v] = "up" /\ ref[v] = p)
  /\ act' = [act EXCEPT ![w] = "up"]
  /\ ref' = [ref EXCEPT ![w] = p]
  /\ LET kept == {i \in Members(cont, p) : cont[i].name \in Services}
     IN  todo' = [todo EXCEPT ![w] = kept \cup (Services \ {cont[i].name : i \in kept})]
  /\ Goto(w, "u_create")
  /\ UNCHANGED <<cont, used, item, listed, answer, changes, histVars>>

\* A container of another configuration is removed, to be made again.
Deploy_Recreate(w, i) ==
  /\ pc[w] = "u_create"
  /\ i \in todo[w] /\ cont[i] # None
  /\ todo' = [todo EXCEPT ![w] = (@ \ {i}) \cup {cont[i].name}]
  /\ Change([cont EXCEPT ![i] = None], w)
  /\ UNCHANGED <<used, pc, act, ref, item, listed, answer, changes, goal, wronged>>

Deploy_Create(w, i) ==
  /\ pc[w] = "u_create"
  /\ i \notin used
  /\ used' = used \cup {i}
  /\ \E n \in todo[w] \cap Services :
       /\ \A j \in Existing(cont) : cont[j].name # n
       /\ Change([cont EXCEPT ![i] = [name |-> n, project |-> ref[w], running |-> FALSE]], w)
       /\ todo' = [todo EXCEPT ![w] = (@ \ {n}) \cup {i}]
  /\ UNCHANGED <<pc, act, ref, item, listed, answer, changes, goal, wronged>>

Deploy_AllCreated(w) ==
  /\ pc[w] = "u_create"
  /\ todo[w] \cap Services = {}
  /\ goal' = [goal EXCEPT ![w] = todo[w]]
  /\ Goto(w, "u_start")
  /\ UNCHANGED <<cont, used, act, ref, item, listed, todo, answer, changes, readVars, disturbed, wronged>>

\* A container that is gone by now cannot be started.
Deploy_Start(w, i) ==
  /\ pc[w] = "u_start"
  /\ i \in todo[w] /\ cont[i] # None
  /\ Change([cont EXCEPT ![i] = After(i, "start")], w)
  /\ todo' = [todo EXCEPT ![w] = @ \ {i}]
  /\ UNCHANGED <<used, pc, act, ref, item, listed, answer, changes, goal, wronged>>

\* Mutant: the exit status of compose is not looked at.
Mut_FailureIsSuccess(w) ==
  /\ pc[w] \in {"u_create", "u_start"}
  /\ Respond(w, "ok")
  /\ UNCHANGED <<cont, used, act, ref, item, listed, todo, changes, histVars>>

\* The command fails or times out, and the task is FAILED.
Deploy_Fails(w) ==
  /\ pc[w] \in {"u_create", "u_start"}
  /\ Finish(w)
  /\ UNCHANGED <<cont, used, changes, wronged>>

Deploy_Done(w) ==
  /\ pc[w] = "u_start"
  /\ todo[w] = {}
  /\ Respond(w, "ok")
  /\ UNCHANGED <<cont, used, act, ref, item, listed, todo, changes, histVars>>

-----------------------------------------------------------------------------
(* Other Docker clients.                                                   *)

Others(c) ==
  /\ changes < MaxChanges
  /\ changes' = changes + 1
  /\ Change(c, NoId)
  /\ UNCHANGED <<localVars, goal, wronged>>

\* A new container may take the name of one that is gone.
Create(i, new) ==
  /\ i \notin used
  /\ used' = used \cup {i}
  /\ \A j \in Existing(cont) : cont[j].name # new.name
  /\ Others([cont EXCEPT ![i] = new])

Alter(i, a) ==
  /\ cont[i] # None
  /\ Others([cont EXCEPT ![i] = After(i, a)])
  /\ UNCHANGED used

-----------------------------------------------------------------------------
Work(w) ==
  \/ Fails(w) \/ Return(w)
  \/ Container_Check(w) \/ Container_Rejected(w) \/ Container_Act(w) \/ Container_Done(w)
  \/ Project_List(w) \/ Project_Inspect(w) \/ Project_Ls(w) \/ Project_Missing(w)
  \/ Project_Command(w)
  \/ Project_Step(w) \/ Project_CommandFails(w) \/ Project_Done(w) \/ Project_Reread(w)
  \/ \E i \in Ids : Deploy_Recreate(w, i) \/ Deploy_Create(w, i) \/ Deploy_Start(w, i)
  \/ Deploy_AllCreated(w) \/ Deploy_Fails(w) \/ Deploy_Done(w)

Next ==
  \/ \E w \in Workers, p \in Projects : Deploy_Up(w, p)
  \/ \E w \in Workers : Request_Container(w) \/ Request_Project(w) \/ Work(w)
  \/ \E i \in Ids, new \in Container : Create(i, new)
  \/ \E i \in Ids, a \in {"start", "stop", "remove"} : Alter(i, a)

Spec == Init /\ [][Next]_vars

-----------------------------------------------------------------------------
(* Properties *)

TypeOK ==
  /\ cont \in [Ids -> Container \cup {None}]
  /\ used \subseteq Ids /\ Existing(cont) \subseteq used
  /\ pc \in [Workers -> PC]
  /\ act \in [Workers -> Action \cup {"up"}]
  /\ ref \in [Workers -> Ids \cup Names \cup Projects \cup {NoId}]
  /\ item \in [Workers -> Ids \cup {NoId}]
  /\ listed \in [Workers -> Reading]
  /\ todo \in [Workers -> SUBSET (Ids \cup Services)]
  /\ answer \in [Workers -> Answer]
  /\ changes \in 0..MaxChanges
  /\ ran \in [Workers -> SUBSET Ids] /\ steady \in [Workers -> SUBSET Ids]
  /\ goal \in [Workers -> SUBSET Ids]
  /\ disturbed \in [Workers -> SUBSET Ids]
  /\ wronged \subseteq Ids

\* An action on a standalone container never changes a container of a
\* project and never removes one that runs, although the container is checked
\* first and changed later, and its name may meanwhile belong to another.
OnlyCheckedContainersChange == wronged = {}

\* A project is judged running or not from one inspection per container and the
\* status of docker compose ls, all of different moments.  It is judged running
\* only if some container of it ran at some moment of the reading, and not running
\* only if none has run from the beginning of the reading to its end.
VerdictHasAWitness ==
  \A w \in Workers :
    /\ pc[w] = "p_command" /\ act[w] = "start" => steady[w] = {}
    /\ pc[w] = "p_command" /\ act[w] \in {"stop", "restart"} => ran[w] # {}
    /\ answer[w] = "conflict" /\ ref[w] \in Projects =>
         IF act[w] = "start" THEN ran[w] # {} ELSE steady[w] = {}

\* A project action that answers with success has done what was asked to every
\* container the command found, one after the other: any of them that is in
\* another state was changed by somebody else since.
SuccessIsReal ==
  \A w \in Workers :
    answer[w] = "ok" /\ act[w] # "up" =>
      \A i \in goal[w] \ disturbed[w] :
        IF act[w] = "remove" THEN cont[i] = None
        ELSE cont[i] # None /\ cont[i].running = (act[w] # "stop")

\* A deployment that reports DEPLOYED has a running container of its project
\* for every service: a project action, which does not take the lock of the
\* application, may stop or remove one only after compose had begun to start
\* them, and compose fails when one it has to start is gone.
DeployedIsRunning ==
  \A w \in Workers :
    answer[w] = "ok" /\ act[w] = "up" =>
      /\ goal[w] \ disturbed[w] \subseteq Up(cont, ref[w])
      /\ disturbed[w] = {} => Services \subseteq {cont[i].name : i \in Up(cont, ref[w])}
=============================================================================
