------------------------ MODULE RuntimeLifecycleProofs ------------------------
(* Theorems about RuntimeLifecycle, for every number of containers, names,   *)
(* projects, services, threads and changes by others.                        *)
EXTENDS RuntimeLifecycle, TLAPS

ContainerPC == {"c_check", "c_act", "c_reread"}
ProjectPC   == {"p_list", "p_read", "p_command", "p_run", "p_reread"}
DeployPC    == {"u_create", "u_start"}

\* What the next step of a worker says of its request.
ControlOf(w) ==
  /\ answer[w] # "none" => pc[w] = "answered"
  /\ pc[w] \in ContainerPC \cup ProjectPC => act[w] \in Action
  /\ pc[w] \in DeployPC => act[w] = "up"
  /\ pc[w] \in ProjectPC \cup DeployPC => ref[w] \in Projects
  /\ pc[w] \notin {"p_run", "p_reread", "u_start", "answered"} =>
       goal[w] = {} /\ disturbed[w] = {}
  /\ pc[w] = "p_list" => listed[w] = Unread
  /\ pc[w] = "idle" => listed[w] = Unread

\* The containers a deployment has still to see to are those of its services,
\* or gone.
TodoOf(w) ==
  pc[w] \in DeployPC =>
    \A i \in todo[w] \cap Ids :
      i \in used /\ (cont[i] # None => cont[i].name \in Services /\ cont[i].project = ref[w])

Control    == \A w \in Workers : ControlOf(w)
DeployTodo == \A w \in Workers : TodoOf(w)

LocalsTyped ==
  /\ pc \in [Workers -> PC]
  /\ act \in [Workers -> Action \cup {"up"}]
  /\ ref \in [Workers -> Ids \cup Names \cup Projects \cup {NoId}]
  /\ item \in [Workers -> Ids \cup {NoId}]
  /\ listed \in [Workers -> Reading]
  /\ todo \in [Workers -> SUBSET (Ids \cup Services)]
  /\ answer \in [Workers -> Answer]
  /\ changes \in 0..MaxChanges
  /\ ran \in [Workers -> SUBSET Ids] /\ steady \in [Workers -> SUBSET Ids]
  /\ goal \in [Workers -> SUBSET Ids]
  /\ disturbed \in [Workers -> SUBSET Ids]
  /\ wronged \subseteq Ids

Typed == TypeOK /\ Control /\ DeployTodo

\* The handler returns and Docker is left alone.
Ends(w) == Finish(w) /\ UNCHANGED <<cont, used, changes, wronged>>

\* A worker takes a step of its request, a new one included.
Takes(w) ==
  Request_Container(w) \/ Request_Project(w) \/ Work(w) \/ \E p \in Projects : Deploy_Up(w, p)

Outside ==
  \/ \E i \in Ids, new \in Container : Create(i, new)
  \/ \E i \in Ids, a \in {"start", "stop", "remove"} : Alter(i, a)

-----------------------------------------------------------------------------
(* Lemmas about what a step does to Docker and to the other workers.         *)

LEMMA NextCases == Next => (\E w \in Workers : Takes(w)) \/ Outside
  BY DEF Next, Takes, Outside

LEMMA NoneIsNoContainer == None \notin Container
  BY DEF None, Container

LEMMA AfterTyped ==
  ASSUME TypeOK, NEW i \in Ids, cont[i] # None, NEW a \in Action \cup {"up"}
  PROVE  /\ After(i, a) \in Container \cup {None}
         /\ After(i, a) # None =>
              After(i, a).name = cont[i].name /\ After(i, a).project = cont[i].project
         /\ a # "remove" => After(i, a) # None /\ After(i, a).running = (a # "stop")
<1>1. cont[i] \in Container
  BY DEF TypeOK
<1>2. [cont[i] EXCEPT !.running = (a # "stop")] \in Container
  BY <1>1 DEF Container
<1> QED
  BY <1>1, <1>2, NoneIsNoContainer DEF After, Container

\* Docker never gives an id twice, and a container keeps its name and project.
SameContainer(i) ==
  i \in used =>
    /\ i \in used'
    /\ cont'[i] # None =>
         /\ cont[i] # None
         /\ cont'[i].name = cont[i].name /\ cont'[i].project = cont[i].project

\* Docker's part of a step: nothing, or one container.
DockerStep ==
  \/ UNCHANGED <<cont, used>>
  \/ \E i \in Ids, c \in Container \cup {None} :
       /\ cont' = [cont EXCEPT ![i] = c]
       /\ \/ /\ i \in used /\ used' = used
             /\ c # None => cont[i] # None /\ c.name = cont[i].name /\ c.project = cont[i].project
          \/ i \notin used /\ used' = used \cup {i}

LEMMA DockerStepKeeps ==
  ASSUME TypeOK, DockerStep
  PROVE  /\ cont' \in [Ids -> Container \cup {None}]
         /\ used' \subseteq Ids /\ Existing(cont') \subseteq used'
         /\ \A i \in Ids : SameContainer(i)
  BY DEF TypeOK, DockerStep, SameContainer, Existing

LEMMA AfterIsDockerStep ==
  ASSUME TypeOK, NEW i \in Ids, cont[i] # None, NEW a \in Action,
         cont' = [cont EXCEPT ![i] = After(i, a)], used' = used
  PROVE  DockerStep
<1>1. i \in used
  BY DEF TypeOK, Existing
<1>2. PICK c \in Container \cup {None} : c = After(i, a)
  BY AfterTyped
<1>3. c # None => c.name = cont[i].name /\ c.project = cont[i].project
  BY <1>2, AfterTyped
<1> QED
  BY <1>1, <1>2, <1>3 DEF DockerStep

\* While v reads a project, its history follows the containers of the project.
Follows(v) ==
  \/ /\ pc[v] = "p_read"
     /\ ran'[v] = ran[v] \cup Up(cont', ref[v])
     /\ steady'[v] = steady[v] \cap Up(cont', ref[v])
  \/ /\ pc[v] # "p_read" \/ cont' = cont
     /\ ran'[v] = ran[v] /\ steady'[v] = steady[v]

\* What a step of another does to the worker v: nothing, but that v's history
\* follows the containers.
Observes(v) ==
  /\ UNCHANGED <<pc[v], act[v], ref[v], item[v], listed[v], todo[v], answer[v], goal[v]>>
  /\ Follows(v)
  /\ disturbed'[v] = disturbed[v] \cup {i \in goal[v] : cont'[i] # cont[i]}

LEMMA ChangeObserved ==
  ASSUME TypeOK, NEW c, NEW by, Change(c, by), NEW v \in Workers, v # by
  PROVE  /\ Follows(v)
         /\ disturbed'[v] = disturbed[v] \cup {i \in goal[v] : cont'[i] # cont[i]}
  BY DEF TypeOK, Change, Follows

LEMMA ChangeTyped ==
  ASSUME TypeOK, NEW c, NEW by, Change(c, by)
  PROVE  /\ ran' \in [Workers -> SUBSET Ids] /\ steady' \in [Workers -> SUBSET Ids]
         /\ disturbed' \in [Workers -> SUBSET Ids]
<1>1. \A p : Up(c, p) \subseteq Ids
  BY DEF Up, Members, Existing
<1> QED
  BY <1>1 DEF Change, TypeOK

\* The actions that leave Docker alone.
Quiet(w) ==
  \/ Ends(w) \/ Request_Container(w) \/ Request_Project(w) \/ \E p \in Projects : Deploy_Up(w, p)
  \/ Container_Check(w) \/ Project_List(w) \/ Project_Inspect(w) \/ Project_Ls(w)
  \/ Project_Command(w)
  \/ Project_Done(w) \/ Project_Reread(w) \/ Deploy_AllCreated(w) \/ Deploy_Done(w)

Acts(w) ==
  \/ Container_Act(w) \/ Project_Step(w)
  \/ \E i \in Ids : Deploy_Recreate(w, i) \/ Deploy_Create(w, i) \/ Deploy_Start(w, i)

LEMMA TakesCases == ASSUME NEW w \in Workers, Takes(w) PROVE Quiet(w) \/ Acts(w)
  BY DEF Takes, Work, Quiet, Acts, Ends, Fails, Return, Container_Rejected, Container_Done,
         Project_Missing, Project_CommandFails, Deploy_Fails

LEMMA QuietObserved ==
  ASSUME TypeOK, NEW w \in Workers, Quiet(w)
  PROVE  /\ DockerStep
         /\ \A v \in Workers \ {w} : Observes(v)
<1>1. UNCHANGED <<cont, used>>
  BY DEF Quiet, Ends, Request_Container, Request_Project, Request, Deploy_Up, Container_Check,
         Project_List, Project_Inspect, Project_Ls, Project_Command, Project_Done, Project_Reread,
         Deploy_AllCreated, Deploy_Done
<1>2. ASSUME NEW v \in Workers \ {w}
      PROVE  /\ UNCHANGED <<pc[v], act[v], ref[v], item[v], listed[v], todo[v], answer[v]>>
             /\ UNCHANGED <<ran[v], steady[v], goal[v], disturbed[v]>>
  BY DEF TypeOK, Quiet, Ends, Finish, Goto, Respond, Request_Container, Request_Project, Request,
         Deploy_Up, Container_Check, Project_List, Project_Inspect, Project_Ls, Project_Command, Project_Done,
         Project_Reread, Deploy_AllCreated, Deploy_Done, histVars, readVars
<1> QED
  BY <1>1, <1>2 DEF DockerStep, Observes, Follows

LEMMA ActsOnDocker == ASSUME Typed, NEW w \in Workers, Acts(w) PROVE DockerStep
<1>1. \A i \in Ids : cont[i] # None => i \in used
  BY DEF Typed, TypeOK, Existing
<1>2. CASE Container_Act(w)
  <2>1. PICK i \in Acted(w) : cont' = [cont EXCEPT ![i] = After(i, act[w])]
    BY <1>2 DEF Container_Act, Change
  <2>2. i \in Ids /\ cont[i] # None
    BY <2>1 DEF Acted, Find, Existing
  <2>3. act[w] \in Action
    BY <1>2 DEF Typed, Control, ControlOf, Container_Act, ContainerPC
  <2> QED
    BY <1>2, <2>1, <2>2, <2>3, AfterIsDockerStep DEF Typed, Container_Act
<1>3. CASE Project_Step(w)
  <2>1. act[w] \in Action /\ todo[w] \subseteq Ids \cup Services
    BY <1>3 DEF Typed, TypeOK, Control, ControlOf, Project_Step, ProjectPC
  <2>2. PICK i \in todo[w] : \/ UNCHANGED cont
                            \/ /\ cont[i] # None
                               /\ \E a \in Action : cont' = [cont EXCEPT ![i] = After(i, a)]
    BY <1>3, <2>1 DEF Project_Step, Change, Action
  <2>3. used' = used
    BY <1>3 DEF Project_Step
  <2>4. CASE i \in Ids
    BY <2>2, <2>3, <2>4, AfterIsDockerStep DEF Typed, DockerStep
  <2>5. CASE i \notin Ids
    BY <2>2, <2>3, <2>5 DEF Typed, TypeOK, DockerStep
  <2> QED
    BY <2>4, <2>5
<1>4. ASSUME NEW i \in Ids, Deploy_Recreate(w, i) PROVE DockerStep
  BY <1>1, <1>4 DEF Deploy_Recreate, Change, DockerStep
<1>5. ASSUME NEW i \in Ids, Deploy_Create(w, i) PROVE DockerStep
  <2>1. ref[w] \in Projects
    BY <1>5 DEF Typed, Control, ControlOf, Deploy_Create, DeployPC
  <2>2. PICK n \in Services : cont' = [cont EXCEPT ![i] = [name |-> n, project |-> ref[w], running |-> FALSE]]
    BY <1>5 DEF Deploy_Create, Change
  <2>3. [name |-> n, project |-> ref[w], running |-> FALSE] \in Container
    BY <2>1, NullAssumption DEF Container
  <2> QED
    BY <1>5, <2>2, <2>3 DEF Deploy_Create, DockerStep
<1>6. ASSUME NEW i \in Ids, Deploy_Start(w, i) PROVE DockerStep
  BY <1>6, AfterIsDockerStep DEF Typed, Deploy_Start, Change, Action
<1> QED
  BY <1>2, <1>3, <1>4, <1>5, <1>6 DEF Acts

LEMMA ActsObserved ==
  ASSUME TypeOK, NEW w \in Workers, Acts(w), NEW v \in Workers \ {w}
  PROVE  Observes(v)
<1>1. UNCHANGED <<pc[v], act[v], ref[v], item[v], listed[v], todo[v], answer[v], goal[v]>>
  BY DEF TypeOK, Acts, Container_Act, Project_Step, Deploy_Recreate, Deploy_Create, Deploy_Start, Goto
<1>2. CASE \E c : Change(c, w)
  BY <1>1, <1>2, ChangeObserved DEF Observes
<1>3. CASE UNCHANGED <<cont, readVars, disturbed>>
  BY <1>1, <1>3 DEF Observes, Follows, readVars
<1>4. (\E c : Change(c, w)) \/ UNCHANGED <<cont, readVars, disturbed>>
  BY DEF Acts, Container_Act, Project_Step, Deploy_Recreate, Deploy_Create, Deploy_Start
<1> QED
  BY <1>2, <1>3, <1>4

LEMMA OutsideObserved ==
  ASSUME Typed, Outside
  PROVE  /\ DockerStep
         /\ \A v \in Workers : Observes(v)
         /\ wronged' = wronged /\ changes' \in 0..MaxChanges
<1>1. \A i \in Ids : cont[i] # None => i \in used
  BY DEF Typed, TypeOK, Existing
<1>2. PICK c : Others(c)
  BY DEF Outside, Create, Alter
<1>3. DockerStep
  <2>1. ASSUME NEW i \in Ids, NEW new \in Container, Create(i, new) PROVE DockerStep
    BY <2>1 DEF Create, Others, Change, DockerStep
  <2>2. ASSUME NEW i \in Ids, NEW a \in {"start", "stop", "remove"}, Alter(i, a) PROVE DockerStep
    BY <2>2, AfterIsDockerStep DEF Typed, Alter, Others, Change, Action
  <2> QED
    BY <2>1, <2>2 DEF Outside
<1>4. ASSUME NEW v \in Workers PROVE Observes(v)
  <2>1. v # NoId
    BY NullAssumption
  <2>2. /\ Follows(v)
        /\ disturbed'[v] = disturbed[v] \cup {i \in goal[v] : cont'[i] # cont[i]}
    BY <1>2, <2>1, ChangeObserved DEF Others, Typed
  <2> QED
    BY <1>2, <2>2 DEF Others, localVars, Observes
<1> QED
  BY <1>2, <1>3, <1>4, BoundAssumption DEF Others, Typed, TypeOK

-----------------------------------------------------------------------------
(* Types and control.                                                        *)

LEMMA ReadingChanged ==
  ASSUME listed \in [Workers -> Reading], NEW w \in Workers, NEW b \in BOOLEAN
  PROVE  /\ [listed EXCEPT ![w].present = b] \in [Workers -> Reading]
         /\ [listed EXCEPT ![w].running = b] \in [Workers -> Reading]
<1>1. listed[w] \in Reading
  OBVIOUS
<1>2. [listed[w] EXCEPT !.present = b] \in Reading /\ [listed[w] EXCEPT !.running = b] \in Reading
  BY <1>1 DEF Reading
<1> QED
  BY <1>2

LEMMA OwnTyped ==
  ASSUME Typed, NEW w \in Workers, Takes(w), \A i \in Ids : SameContainer(i)
  PROVE  LocalsTyped' /\ ControlOf(w)' /\ TodoOf(w)'
<1> USE DEF LocalsTyped, ControlOf, TodoOf, ContainerPC, ProjectPC, DeployPC, PC, Answer
<1>a. LocalsTyped /\ ControlOf(w) /\ TodoOf(w)
  BY DEF Typed, TypeOK, Control, DeployTodo
<1>b. TypeOK
  BY DEF Typed
<1>c. ASSUME \E c : Change(c, w)
      PROVE  /\ ran' \in [Workers -> SUBSET Ids] /\ steady' \in [Workers -> SUBSET Ids] /\ disturbed' \in [Workers -> SUBSET Ids]
             /\ disturbed'[w] = disturbed[w]
  <2>1. PICK c : Change(c, w)
    BY <1>c
  <2>2. ran' \in [Workers -> SUBSET Ids] /\ steady' \in [Workers -> SUBSET Ids] /\ disturbed' \in [Workers -> SUBSET Ids]
    BY <1>b, <2>1, ChangeTyped
  <2>3. disturbed'[w] = disturbed[w]
    BY <2>1 DEF Change
  <2> QED
    BY <2>2, <2>3
<1>d. Unread \in Reading
  BY DEF Unread, Reading
<1>1. CASE Ends(w)
  BY <1>1, <1>a, <1>d DEF Ends, Finish, Goto, Action
<1>2. CASE Request_Container(w)
  BY <1>2, <1>a DEF Request_Container, Request, Goto, histVars, readVars
<1>3. CASE Request_Project(w)
  BY <1>3, <1>a DEF Request_Project, Request, Goto, histVars, readVars
<1>4. ASSUME NEW p \in Projects, Deploy_Up(w, p) PROVE LocalsTyped' /\ ControlOf(w)' /\ TodoOf(w)'
  <2>1. \A i \in Members(cont, p) : i \in Ids /\ i \in used /\ cont[i].project = p
    BY <1>b DEF TypeOK, Members, Existing
  <2> DEFINE kept == {i \in Members(cont, p) : cont[i].name \in Services}
  <2>2. todo' = [todo EXCEPT ![w] = kept \cup (Services \ {cont[i].name : i \in kept})]
    BY <1>4 DEF Deploy_Up
  <2>3. UNCHANGED <<cont, used, item, listed, answer, changes, ran, steady, goal, disturbed, wronged>>
    BY <1>4 DEF Deploy_Up, histVars, readVars
  <2>4. LocalsTyped'
    BY <1>4, <1>a, <2>1, <2>2, <2>3 DEF Deploy_Up, Goto
  <2>5. ControlOf(w)'
    BY <1>4, <1>a, <2>3 DEF Deploy_Up, Goto
  <2>6. \A i \in todo'[w] \cap Ids : i \in kept
    BY <1>a, <2>2, NullAssumption
  <2>7. TodoOf(w)'
    BY <1>4, <1>a, <2>1, <2>3, <2>6 DEF Deploy_Up
  <2> QED
    BY <2>4, <2>5, <2>7
<1>5. CASE Container_Check(w)
  BY <1>5, <1>a DEF Container_Check, Standalone, Find, Existing, Goto, histVars, readVars
<1>6. CASE Container_Act(w)
  <2>1. UNCHANGED <<used, act, ref, item, listed, todo, answer, changes, goal>> /\ pc' = [pc EXCEPT ![w] = "c_reread"]
    BY <1>6 DEF Container_Act, Goto
  <2>2. \E c : Change(c, w)
    BY <1>6 DEF Container_Act
  <2>3. wronged' \subseteq Ids
    BY <1>6, <1>a DEF Container_Act, Acted, Find, Existing
  <2>4. pc[w] = "c_act"
    BY <1>6 DEF Container_Act
  <2> QED
    BY <1>a, <1>c, <2>1, <2>2, <2>3, <2>4
<1>7. CASE Project_List(w)
  <2>1. Members(cont, ref[w]) \subseteq Ids /\ Up(cont, ref[w]) \subseteq Ids
    BY DEF Up, Members, Existing
  <2>2. PICK b \in BOOLEAN : listed' = [listed EXCEPT ![w].present = b]
    BY <1>7 DEF Project_List
  <2>3. listed' \in [Workers -> Reading]
    BY <1>a, <2>2, ReadingChanged
  <2>4. /\ pc[w] = "p_list" /\ pc' = [pc EXCEPT ![w] = "p_read"]
        /\ todo' = [todo EXCEPT ![w] = Members(cont, ref[w])]
        /\ ran' = [ran EXCEPT ![w] = Up(cont, ref[w])]
        /\ steady' = [steady EXCEPT ![w] = Up(cont, ref[w])]
        /\ UNCHANGED <<act, ref, item, answer, changes, goal, disturbed, wronged>>
    BY <1>7 DEF Project_List, Goto
  <2> QED
    BY <1>a, <2>1, <2>3, <2>4
<1>7a. CASE Project_Inspect(w)
  <2>1. PICK i \in todo[w] \cap Existing(cont) :
          /\ listed' = [listed EXCEPT ![w].running = @ \/ cont[i].running]
          /\ todo' = [todo EXCEPT ![w] = @ \ {i}]
    BY <1>7a DEF Project_Inspect
  <2>2. PICK b \in BOOLEAN : listed' = [listed EXCEPT ![w].running = b]
    BY <2>1
  <2>3. listed' \in [Workers -> Reading]
    BY <1>a, <2>2, ReadingChanged
  <2>4. /\ pc[w] = "p_read"
        /\ UNCHANGED <<pc, act, ref, item, answer, changes, ran, steady, goal, disturbed, wronged>>
    BY <1>7a DEF Project_Inspect, histVars, readVars
  <2> QED
    BY <1>a, <2>1, <2>3, <2>4
<1>8. CASE Project_Ls(w)
  BY <1>8, <1>a DEF Project_Ls, Goto, Respond, histVars, readVars
<1>9. CASE Project_Command(w)
  BY <1>9, <1>a, <1>d DEF Project_Command, Goto, Members, Existing
<1>10. CASE Project_Step(w)
  <2>1. UNCHANGED <<used, pc, act, ref, item, listed, answer, changes, goal, wronged>> /\ pc[w] = "p_run"
    BY <1>10 DEF Project_Step
  <2>2. (\E c : Change(c, w)) \/ UNCHANGED <<cont, readVars, disturbed>>
    BY <1>10 DEF Project_Step
  <2>3. todo' \in [Workers -> SUBSET (Ids \cup Services)]
    BY <1>10, <1>a DEF Project_Step
  <2>4. /\ ran' \in [Workers -> SUBSET Ids] /\ steady' \in [Workers -> SUBSET Ids] /\ disturbed' \in [Workers -> SUBSET Ids]
        /\ disturbed'[w] = disturbed[w]
    BY <1>a, <1>c, <2>2 DEF readVars
  <2> QED
    BY <1>a, <2>1, <2>3, <2>4
<1>11. CASE Project_Done(w)
  BY <1>11, <1>a DEF Project_Done, Goto, Respond, histVars, readVars
<1>12. CASE Project_Reread(w)
  BY <1>12, <1>a DEF Project_Reread, Goto, Respond, histVars, readVars
<1>13. ASSUME NEW i \in Ids, Deploy_Recreate(w, i) PROVE LocalsTyped' /\ ControlOf(w)' /\ TodoOf(w)'
  <2>1. UNCHANGED <<used, pc, act, ref, item, listed, answer, changes, goal, wronged>> /\ pc[w] = "u_create"
    BY <1>13 DEF Deploy_Recreate
  <2>2. \E c : Change(c, w)
    BY <1>13 DEF Deploy_Recreate
  <2>3. cont[i].name \in Services
    BY <1>13, <1>a DEF Deploy_Recreate
  <2>4. todo' = [todo EXCEPT ![w] = (@ \ {i}) \cup {cont[i].name}]
    BY <1>13 DEF Deploy_Recreate
  <2>5. cont[i].name \notin Ids
    BY <2>3, NullAssumption
  <2>6. TodoOf(w)'
    BY <1>a, <2>1, <2>4, <2>5 DEF SameContainer
  <2> QED
    BY <1>a, <1>c, <2>1, <2>2, <2>3, <2>4, <2>6
<1>14. ASSUME NEW i \in Ids, Deploy_Create(w, i) PROVE LocalsTyped' /\ ControlOf(w)' /\ TodoOf(w)'
  <2>1. UNCHANGED <<pc, act, ref, item, listed, answer, changes, goal, wronged>> /\ pc[w] = "u_create"
    BY <1>14 DEF Deploy_Create
  <2>2. PICK n \in todo[w] \cap Services :
          /\ Change([cont EXCEPT ![i] = [name |-> n, project |-> ref[w], running |-> FALSE]], w)
          /\ todo' = [todo EXCEPT ![w] = (@ \ {n}) \cup {i}]
    BY <1>14 DEF Deploy_Create
  <2>3. i \in used' /\ cont'[i].name = n /\ cont'[i].project = ref[w]
    BY <1>14, <1>b, <2>2 DEF Deploy_Create, Change, TypeOK
  <2>4. TodoOf(w)'
    BY <1>a, <2>1, <2>2, <2>3 DEF SameContainer
  <2> QED
    BY <1>a, <1>c, <2>1, <2>2, <2>4
<1>15. CASE Deploy_AllCreated(w)
  BY <1>15, <1>a DEF Deploy_AllCreated, Goto, readVars
<1>16. ASSUME NEW i \in Ids, Deploy_Start(w, i) PROVE LocalsTyped' /\ ControlOf(w)' /\ TodoOf(w)'
  <2>1. UNCHANGED <<used, pc, act, ref, item, listed, answer, changes, goal, wronged>> /\ pc[w] = "u_start"
    BY <1>16 DEF Deploy_Start
  <2>2. \E c : Change(c, w)
    BY <1>16 DEF Deploy_Start
  <2>3. todo' = [todo EXCEPT ![w] = @ \ {i}]
    BY <1>16 DEF Deploy_Start
  <2>4. TodoOf(w)'
    BY <1>a, <2>1, <2>3 DEF SameContainer
  <2> QED
    BY <1>a, <1>c, <2>1, <2>2, <2>3, <2>4
<1>17. CASE Deploy_Done(w)
  BY <1>17, <1>a DEF Deploy_Done, Goto, Respond, histVars, readVars
<1> QED
  BY <1>1, <1>2, <1>3, <1>4, <1>5, <1>6, <1>7, <1>7a, <1>8, <1>9, <1>10, <1>11, <1>12, <1>13, <1>14,
     <1>15, <1>16, <1>17, TakesCases DEF Quiet, Acts

\* What others do keeps what a worker's next step says of it.
LEMMA ObservedTyped ==
  ASSUME Typed, NEW v \in Workers, Observes(v), \A i \in Ids : SameContainer(i)
  PROVE  ControlOf(v)' /\ TodoOf(v)'
<1>1. ControlOf(v) /\ TodoOf(v)
  BY DEF Typed, Control, DeployTodo
<1>2. ControlOf(v)'
  BY <1>1 DEF ControlOf, Observes
<1>3. TodoOf(v)'
  BY <1>1 DEF TodoOf, Observes, SameContainer
<1> QED
  BY <1>2, <1>3

\* A step of the system, seen from each worker.
LEMMA StepCases ==
  ASSUME Typed, Next
  PROVE  /\ DockerStep
         /\ \A i \in Ids : SameContainer(i)
         /\ \/ Outside /\ wronged' = wronged /\ \A v \in Workers : Observes(v)
            \/ \E w \in Workers : Takes(w) /\ \A v \in Workers \ {w} : Observes(v)
<1>1. CASE Outside
  BY <1>1, OutsideObserved, DockerStepKeeps DEF Typed
<1>2. ASSUME NEW w \in Workers, Takes(w)
      PROVE  DockerStep /\ \A v \in Workers \ {w} : Observes(v)
  BY <1>2, TakesCases, QuietObserved, ActsOnDocker, ActsObserved DEF Typed
<1> QED
  BY <1>1, <1>2, NextCases, DockerStepKeeps DEF Typed

\* Every variable keeps its type, and every step finds what it counts on.
LEMMA TypedInvariant == Spec => []Typed
<1>1. Init => Typed
  <2> SUFFICES ASSUME Init PROVE Typed
    OBVIOUS
  <2>1. Unread \in Reading /\ 0 \in 0..MaxChanges
    BY BoundAssumption DEF Unread, Reading
  <2>2. TypeOK
    BY <2>1 DEF Init, TypeOK, PC, Action, Answer, Existing
  <2>3. Control /\ DeployTodo
    BY DEF Init, Control, ControlOf, DeployTodo, TodoOf, ContainerPC, ProjectPC, DeployPC
  <2> QED
    BY <2>2, <2>3 DEF Typed
<1>2. Typed /\ [Next]_vars => Typed'
  <2> SUFFICES ASSUME Typed, [Next]_vars PROVE Typed'
    OBVIOUS
  <2>1. CASE UNCHANGED vars
    BY <2>1 DEF vars, localVars, histVars, readVars, Typed, TypeOK, Control, ControlOf, DeployTodo, TodoOf, Existing
  <2>2. CASE Next
    <3>1. /\ cont' \in [Ids -> Container \cup {None}]
          /\ used' \subseteq Ids /\ Existing(cont') \subseteq used'
      BY <2>2, StepCases, DockerStepKeeps DEF Typed
    <3>2. LocalsTyped'
      <4>1. ASSUME Outside PROVE LocalsTyped'
        <5>1. PICK c : Others(c)
          BY <4>1 DEF Outside, Create, Alter
        <5> QED
          BY <5>1, <4>1, OutsideObserved, ChangeTyped DEF Others, localVars, Typed, TypeOK, LocalsTyped
      <4>2. ASSUME NEW w \in Workers, Takes(w) PROVE LocalsTyped'
        BY <2>2, <4>2, StepCases, OwnTyped
      <4> QED
        BY <2>2, <4>1, <4>2, NextCases
    <3>3. \A v \in Workers : ControlOf(v)' /\ TodoOf(v)'
      BY <2>2, StepCases, OwnTyped, ObservedTyped
    <3> QED
      BY <3>1, <3>2, <3>3 DEF Typed, TypeOK, LocalsTyped, Control, DeployTodo
  <2> QED
    BY <2>1, <2>2
<1> QED
  BY <1>1, <1>2, PTL DEF Spec

\* Every variable keeps its type; above all Docker holds only containers whose
\* id it has given, and no deployment counts names that are no services.
THEOREM TypeCorrect == Spec => []TypeOK
<1>1. Typed => TypeOK
  BY DEF Typed
<1> QED
  BY <1>1, TypedInvariant, PTL

-----------------------------------------------------------------------------
(* OnlyCheckedContainersChange.                                              *)

\* Only the checks lead to where their outcome is used.
LEMMA OtherTargets ==
  ASSUME Typed, NEW w \in Workers, Takes(w),
         ~Container_Check(w), ~Project_List(w), ~Project_Inspect(w), ~Project_Ls(w)
  PROVE  /\ pc'[w] \notin {"c_act", "p_read", "p_command"}
         /\ answer'[w] # "conflict"
         /\ ~Container_Act(w) => wronged' = wronged
<1>0. TypeOK /\ ControlOf(w)
  BY DEF Typed, Control
<1> USE <1>0 DEF TypeOK, ControlOf, Goto, Respond, histVars, readVars
<1> DEFINE Goal == /\ pc'[w] \notin {"c_act", "p_read", "p_command"}
                   /\ answer'[w] # "conflict"
                   /\ ~Container_Act(w) => wronged' = wronged
<1>1. CASE Ends(w)
  BY <1>1 DEF Ends, Finish
<1>2. CASE Request_Container(w) \/ Request_Project(w)
  BY <1>2 DEF Request_Container, Request_Project, Request
<1>3. ASSUME NEW p \in Projects, Deploy_Up(w, p) PROVE Goal
  BY <1>3 DEF Deploy_Up
<1>4. CASE Project_Command(w) \/ Project_Done(w) \/ Project_Reread(w)
  BY <1>4 DEF Project_Command, Project_Done, Project_Reread
<1>5. CASE Deploy_AllCreated(w) \/ Deploy_Done(w)
  BY <1>5 DEF Deploy_AllCreated, Deploy_Done
<1>6. CASE Container_Act(w)
  BY <1>6 DEF Container_Act
<1>7. CASE Project_Step(w)
  BY <1>7 DEF Project_Step
<1>8. ASSUME NEW i \in Ids, Deploy_Recreate(w, i) \/ Deploy_Create(w, i) \/ Deploy_Start(w, i) PROVE Goal
  BY <1>8 DEF Deploy_Recreate, Deploy_Create, Deploy_Start
<1> QED
  BY <1>1, <1>2, <1>3, <1>4, <1>5, <1>6, <1>7, <1>8, TakesCases DEF Quiet, Acts

\* The container a worker is about to change is the one it checked, or gone:
\* ids are not given twice and a container stays in its project.
Checked(w) ==
  pc[w] = "c_act" => item[w] \in used /\ (cont[item[w]] # None => cont[item[w]].project = NoProject)

CheckedInv == OnlyCheckedContainersChange /\ \A w \in Workers : Checked(w)

LEMMA CheckedStep ==
  ASSUME Typed, CheckedInv, [Next]_vars
  PROVE  CheckedInv'
<1>1. CASE UNCHANGED vars
  BY <1>1 DEF vars, localVars, histVars, readVars, CheckedInv, Checked, OnlyCheckedContainersChange
<1>2. CASE Next
  <2>1. ASSUME NEW v \in Workers, Observes(v) PROVE Checked(v)'
    <3>1. pc[v] = "c_act" => item[v] \in Ids
      BY DEF Typed, TypeOK, CheckedInv, Checked
    <3> QED
      BY <1>2, <2>1, <3>1, StepCases, ZenonT(60) DEF Observes, CheckedInv, Checked, SameContainer
  <2>2. ASSUME NEW w \in Workers, Takes(w) PROVE Checked(w)' /\ wronged' = wronged
    <3>1. CASE Container_Check(w)
      <4>1. PICK i \in Standalone(ref[w]) : item' = [item EXCEPT ![w] = i]
        BY <3>1 DEF Container_Check
      <4>2. i \in Ids /\ cont[i] # None /\ cont[i].project = NoProject
        BY <4>1 DEF Standalone, Find, Existing
      <4>3. i \in used
        BY <4>2 DEF Typed, TypeOK, Existing
      <4>4. UNCHANGED <<cont, used, wronged>> /\ item'[w] = i
        BY <3>1, <4>1 DEF Container_Check, histVars, readVars, Typed, TypeOK
      <4> QED
        BY <4>2, <4>3, <4>4 DEF Checked
    <3>2. CASE Container_Act(w)
      <4>1. PICK i \in Acted(w) : /\ ~Refused(i, act[w])
                                  /\ wronged' = IF \/ cont[i].project # NoProject
                                                   \/ act[w] = "remove" /\ cont[i].running
                                                THEN wronged \cup {i} ELSE wronged
        BY <3>2 DEF Container_Act
      <4>2. pc[w] = "c_act" /\ pc'[w] = "c_reread"
        BY <3>2 DEF Container_Act, Goto, Typed, TypeOK
      <4>3. item[w] \in Ids
        BY <4>2 DEF CheckedInv, Checked, Typed, TypeOK
      <4>4. i = item[w] /\ cont[i] # None
        BY <4>1, <4>3 DEF Acted, Find, Existing
      <4>5. cont[i].project = NoProject /\ ~(act[w] = "remove" /\ cont[i].running)
        BY <4>1, <4>2, <4>4 DEF CheckedInv, Checked, Refused
      <4> QED
        BY <4>1, <4>2, <4>5 DEF Checked
    <3>3. CASE ~Container_Check(w) /\ ~Container_Act(w)
      <4>1. pc'[w] # "c_act" /\ wronged' = wronged
        BY <2>2, <3>3, OtherTargets DEF Project_List, Project_Inspect, Project_Ls, Goto, Respond, histVars, readVars, Typed, TypeOK
      <4> QED
        BY <4>1 DEF Checked
    <3> QED
      BY <3>1, <3>2, <3>3
  <2>3. wronged' = wronged /\ \A v \in Workers : Checked(v)'
    BY <1>2, <2>1, <2>2, StepCases
  <2> QED
    BY <2>3 DEF CheckedInv, OnlyCheckedContainersChange
<1> QED
  BY <1>1, <1>2

\* An action on a standalone container hits the container that was checked and
\* no other, never one of a project, and never removes one that runs.
THEOREM OnlyCheckedContainersChangeHolds == Spec => []OnlyCheckedContainersChange
<1>1. Init => CheckedInv
  BY DEF Init, CheckedInv, Checked, OnlyCheckedContainersChange
<1>2. Typed /\ CheckedInv /\ [Next]_vars => CheckedInv'
  BY CheckedStep
<1>3. CheckedInv => OnlyCheckedContainersChange
  BY DEF CheckedInv
<1> QED
  BY <1>1, <1>2, <1>3, TypedInvariant, PTL DEF Spec

-----------------------------------------------------------------------------
(* VerdictHasAWitness.                                                       *)

\* A worker that reads a project has listed containers of it and has met every
\* one that ran all the while, or has still to inspect it.
VerdictOf(w) ==
  /\ pc[w] = "p_read" =>
       /\ \A i \in todo[w] : i \in used /\ (cont[i] # None => cont[i].project = ref[w])
       /\ Up(cont, ref[w]) \subseteq ran[w]
       /\ steady[w] \subseteq Up(cont, ref[w])
       /\ listed[w].running => ran[w] # {}
       /\ ~listed[w].running => steady[w] \subseteq todo[w]
  /\ pc[w] = "p_command" /\ act[w] = "start" => steady[w] = {}
  /\ pc[w] = "p_command" /\ act[w] \in {"stop", "restart"} => ran[w] # {}
  /\ answer[w] = "conflict" => IF act[w] = "start" THEN ran[w] # {} ELSE steady[w] = {}

VerdictInv == \A w \in Workers : VerdictOf(w)

LEMMA VerdictObserved ==
  ASSUME Typed, NEW v \in Workers, VerdictOf(v), Observes(v), \A i \in Ids : SameContainer(i)
  PROVE  VerdictOf(v)'
<1>1. /\ pc'[v] = pc[v] /\ act'[v] = act[v] /\ ref'[v] = ref[v] /\ todo'[v] = todo[v]
      /\ listed'[v] = listed[v] /\ answer'[v] = answer[v] /\ Follows(v)
  BY DEF Observes
<1>2. CASE pc[v] = "p_read"
  <2>1. answer[v] # "conflict"
    BY <1>2 DEF Typed, Control, ControlOf
  <2>2. \A i \in todo[v] : i \in used' /\ (cont'[i] # None => cont'[i].project = ref[v])
    <3>1. \A i \in todo[v] : i \in Ids
      BY <1>2 DEF VerdictOf, Typed, TypeOK
    <3> QED
      BY <1>2, <3>1 DEF VerdictOf, SameContainer
  <2>3. /\ Up(cont', ref[v]) \subseteq ran'[v]
        /\ steady'[v] \subseteq Up(cont', ref[v])
        /\ ran[v] \subseteq ran'[v] /\ steady'[v] \subseteq steady[v]
    BY <1>1, <1>2 DEF Follows, VerdictOf
  <2>4. /\ listed[v].running => ran'[v] # {}
        /\ ~listed[v].running => steady'[v] \subseteq todo[v]
    BY <1>2, <2>3 DEF VerdictOf
  <2>5. Up(cont, ref[v])' = Up(cont', ref[v])
    BY <1>1 DEF Up, Members, Existing
  <2> QED
    BY <1>1, <1>2, <2>1, <2>2, <2>3, <2>4, <2>5 DEF VerdictOf
<1>3. CASE pc[v] # "p_read"
  BY <1>1, <1>3 DEF Follows, VerdictOf
<1> QED
  BY <1>2, <1>3

LEMMA VerdictTaken ==
  ASSUME Typed, NEW w \in Workers, VerdictOf(w), Takes(w)
  PROVE  VerdictOf(w)'
<1>0. TypeOK /\ ControlOf(w)
  BY DEF Typed, Control
<1>1. CASE Project_List(w)
  <2>1. /\ pc[w] = "p_list" /\ pc'[w] = "p_read"
        /\ answer'[w] = "none"
        /\ UNCHANGED <<cont, used, ref>>
        /\ listed'[w].running = listed[w].running
        /\ todo'[w] = Members(cont, ref[w])
        /\ ran'[w] = Up(cont, ref[w]) /\ steady'[w] = Up(cont, ref[w])
    BY <1>0, <1>1 DEF Project_List, Goto, TypeOK, ControlOf, Reading
  <2>2. ~listed[w].running
    BY <1>0, <2>1 DEF ControlOf, Unread
  <2>3. \A i \in Members(cont, ref[w]) : i \in used /\ cont[i].project = ref[w]
    BY <1>0 DEF Members, Existing, TypeOK
  <2>4. Up(cont, ref[w]) \subseteq Members(cont, ref[w])
    BY DEF Up
  <2>5. Up(cont, ref[w])' = Up(cont, ref[w])
    BY <2>1 DEF Members, Up, Existing
  <2> QED
    BY <2>1, <2>2, <2>3, <2>4, <2>5 DEF VerdictOf
<1>2. CASE Project_Inspect(w)
  <2>1. PICK i \in todo[w] \cap Existing(cont) :
          /\ listed' = [listed EXCEPT ![w].running = @ \/ cont[i].running]
          /\ todo' = [todo EXCEPT ![w] = @ \ {i}]
    BY <1>2 DEF Project_Inspect
  <2>2. /\ UNCHANGED <<cont, used, pc, ref, ran, steady, answer>> /\ pc[w] = "p_read"
        /\ answer[w] # "conflict"
    BY <1>0, <1>2 DEF Project_Inspect, histVars, readVars, ControlOf
  <2>3. todo'[w] = todo[w] \ {i} /\ (listed'[w].running <=> listed[w].running \/ cont[i].running)
    <3>1. todo'[w] = todo[w] \ {i}
      BY <1>0, <2>1 DEF TypeOK
    <3>2. listed[w] \in Reading
      BY <1>0 DEF TypeOK
    <3>3. listed'[w] = [listed[w] EXCEPT !.running = @ \/ cont[i].running]
      BY <1>0, <2>1 DEF TypeOK
    <3>4. listed'[w].running = (listed[w].running \/ cont[i].running)
      BY <3>2, <3>3 DEF Reading
    <3> QED
      BY <3>1, <3>4
  <2>4. cont[i].running <=> i \in Up(cont, ref[w])
    BY <2>1, <2>2 DEF VerdictOf, Up, Members, Existing
  <2>5. listed'[w].running => ran[w] # {}
    BY <2>2, <2>3, <2>4 DEF VerdictOf
  <2>6. ~listed'[w].running => steady[w] \subseteq todo'[w]
    BY <2>2, <2>3, <2>4 DEF VerdictOf
  <2>7. Up(cont, ref[w])' = Up(cont, ref[w])
    BY <2>2 DEF Members, Up, Existing
  <2> QED
    BY <2>2, <2>3, <2>5, <2>6, <2>7 DEF VerdictOf
<1>3. CASE Project_Ls(w)
  <2>1. /\ UNCHANGED <<act, ran, steady>> /\ pc[w] = "p_read" /\ todo[w] = {} /\ answer[w] = "none"
        /\ \/ Project_Accepted(w) /\ pc'[w] = "p_command" /\ answer'[w] = "none"
           \/ ~Project_Accepted(w) /\ Present(w) /\ pc'[w] = "answered" /\ answer'[w] = "conflict"
    BY <1>0, <1>3 DEF Project_Ls, Goto, Respond, histVars, readVars, TypeOK, ControlOf
  <2>2. act[w] \in Action
    BY <1>0, <2>1 DEF ControlOf, ProjectPC
  <2>3. StatusRunning(ref[w]) => ran[w] # {}
    BY <2>1 DEF StatusRunning, VerdictOf
  <2>4. ProjectRunning(w) => ran[w] # {}
    BY <2>1, <2>3 DEF ProjectRunning, VerdictOf
  <2>5. ~ProjectRunning(w) => steady[w] = {}
    BY <2>1 DEF ProjectRunning, VerdictOf
  <2> QED
    BY <2>1, <2>2, <2>4, <2>5 DEF VerdictOf, Project_Accepted, Allowed, Action
<1>4. CASE Container_Check(w)
  <2>1. pc'[w] = "c_act" /\ answer'[w] = "none"
    BY <1>0, <1>4 DEF Container_Check, Goto, TypeOK, ControlOf
  <2> QED
    BY <2>1 DEF VerdictOf
<1> QED
  BY <1>1, <1>2, <1>3, <1>4, OtherTargets DEF VerdictOf

\* A project is judged running only if a container of it ran at some moment of
\* the reading, and not running only if none ran all the while, for any number of
\* containers, of readers and of clients who change them between two inspections.
THEOREM VerdictHasAWitnessHolds == Spec => []VerdictHasAWitness
<1>1. Init => VerdictInv
  BY DEF Init, VerdictInv, VerdictOf
<1>2. Typed /\ VerdictInv /\ [Next]_vars => VerdictInv'
  <2>1. CASE UNCHANGED vars
    BY <2>1 DEF vars, localVars, histVars, readVars, VerdictInv, VerdictOf, Members, Up, Existing
  <2>2. CASE Next
    BY <2>2, StepCases, VerdictObserved, VerdictTaken DEF VerdictInv
  <2> QED
    BY <2>1, <2>2
<1>3. VerdictInv => VerdictHasAWitness
  BY DEF VerdictInv, VerdictOf, VerdictHasAWitness
<1> QED
  BY <1>1, <1>2, <1>3, TypedInvariant, PTL DEF Spec

-----------------------------------------------------------------------------
(* SuccessIsReal.                                                            *)

\* The container i is as the project action of w asks for.
Done(w, i) ==
  IF act[w] = "remove" THEN cont[i] = None
  ELSE cont[i] # None /\ cont[i].running = (act[w] # "stop")

\* While a compose command runs, what nobody else has touched is done or is
\* still to come, and then it is there.
SuccessOf(w) ==
  /\ pc[w] = "p_run" =>
       \A i \in goal[w] \ disturbed[w] : (i \in todo[w] /\ cont[i] # None) \/ Done(w, i)
  /\ pc[w] = "p_reread" \/ (answer[w] = "ok" /\ act[w] # "up") =>
       \A i \in goal[w] \ disturbed[w] : Done(w, i)

SuccessInv == \A w \in Workers : SuccessOf(w)

LEMMA SuccessObserved ==
  ASSUME Typed, NEW v \in Workers, SuccessOf(v), Observes(v)
  PROVE  SuccessOf(v)'
<1>1. \A i \in goal'[v] \ disturbed'[v] : i \in goal[v] \ disturbed[v] /\ cont'[i] = cont[i]
  BY DEF Observes
<1> QED
  BY <1>1 DEF Observes, SuccessOf, Done

LEMMA SuccessTaken ==
  ASSUME Typed, NEW w \in Workers, SuccessOf(w), Takes(w)
  PROVE  SuccessOf(w)'
<1>0. TypeOK /\ ControlOf(w)
  BY DEF Typed, Control
<1> USE <1>0 DEF TypeOK, ControlOf, ContainerPC, ProjectPC, DeployPC, Goto, Respond, histVars, readVars
<1>1. CASE Ends(w)
  BY <1>1 DEF Ends, Finish, SuccessOf
<1>2. CASE Request_Container(w) \/ Request_Project(w)
  BY <1>2 DEF Request_Container, Request_Project, Request, SuccessOf
<1>3. ASSUME NEW p \in Projects, Deploy_Up(w, p) PROVE SuccessOf(w)'
  BY <1>3 DEF Deploy_Up, SuccessOf
<1>4. CASE Container_Check(w) \/ Project_List(w) \/ Project_Inspect(w) \/ Project_Ls(w)
  BY <1>4 DEF Container_Check, Project_List, Project_Inspect, Project_Ls, SuccessOf
<1>5. CASE Project_Command(w)
  <2>1. todo'[w] = Members(cont, ref[w]) /\ goal'[w] = Members(cont, ref[w])
    BY <1>5 DEF Project_Command
  <2>2. \A i \in Members(cont, ref[w]) : cont[i] # None
    BY DEF Members, Existing
  <2>3. pc'[w] = "p_run" /\ answer'[w] = "none" /\ cont' = cont
    BY <1>5 DEF Project_Command
  <2> QED
    BY <2>1, <2>2, <2>3 DEF SuccessOf
<1>6. CASE Project_Step(w)
  <2>1. PICK j \in todo[w] :
          LET stopFirst == act[w] = "remove" /\ cont[j] # None /\ cont[j].running
          IN  /\ IF cont[j] = None THEN UNCHANGED <<cont, readVars, disturbed>>
                 ELSE Change([cont EXCEPT ![j] =
                                After(j, IF stopFirst THEN "stop" ELSE act[w])], w)
              /\ todo' = [todo EXCEPT ![w] = IF stopFirst THEN @ ELSE @ \ {j}]
    BY <1>6 DEF Project_Step
  <2> DEFINE stopFirst == act[w] = "remove" /\ cont[j] # None /\ cont[j].running
             a == IF stopFirst THEN "stop" ELSE act[w]
  <2>2. /\ pc[w] = "p_run" /\ pc'[w] = "p_run" /\ answer'[w] = "none"
        /\ act' = act /\ goal' = goal /\ act[w] \in Action
    BY <1>6 DEF Project_Step
  <2>3. disturbed'[w] = disturbed[w]
    BY <2>1 DEF Change
  <2>4. todo'[w] = IF stopFirst THEN todo[w] ELSE todo[w] \ {j}
    BY <2>1
  <2>5. \A i \in Ids : i # j => cont'[i] = cont[i]
    BY <2>1 DEF Change
  <2>6. ASSUME j \in Ids, j \in goal[w] \ disturbed[w]
        PROVE  (j \in todo'[w] /\ cont'[j] # None) \/ Done(w, j)'
    <3>1. CASE cont[j] = None
      <4>1. cont' = cont /\ ~stopFirst
        BY <2>1, <3>1
      <4>2. Done(w, j)
        BY <2>2, <2>6, <3>1 DEF SuccessOf
      <4> QED
        BY <2>2, <4>1, <4>2 DEF Done
    <3>2. CASE cont[j] # None
      <4>1. cont'[j] = After(j, a) /\ a \in Action
        BY <2>1, <2>2, <2>6, <3>2 DEF Change, Action
      <4>2. a # "remove" => After(j, a) # None /\ After(j, a).running = (a # "stop")
        BY <2>6, <3>2, <4>1, AfterTyped
      <4>3. CASE stopFirst
        BY <2>4, <4>1, <4>2, <4>3
      <4>4. CASE ~stopFirst
        BY <2>2, <4>1, <4>2, <4>4 DEF Done, After
      <4> QED
        BY <4>3, <4>4
    <3> QED
      BY <3>1, <3>2
  <2>7. ASSUME NEW i \in goal[w] \ disturbed[w], i # j
        PROVE  (i \in todo'[w] /\ cont'[i] # None) \/ Done(w, i)'
    BY <2>2, <2>4, <2>5, <2>7 DEF SuccessOf, Done
  <2> QED
    BY <2>2, <2>3, <2>6, <2>7 DEF SuccessOf
<1>7. CASE Project_Done(w)
  <2>1. \A i \in goal[w] \ disturbed[w] : Done(w, i)
    BY <1>7 DEF Project_Done, SuccessOf
  <2>2. UNCHANGED <<cont, act, goal, disturbed>> /\ pc'[w] # "p_run"
    BY <1>7 DEF Project_Done
  <2> QED
    BY <2>1, <2>2 DEF SuccessOf, Done
<1>8. CASE Project_Reread(w)
  <2>1. \A i \in goal[w] \ disturbed[w] : Done(w, i)
    BY <1>8 DEF Project_Reread, SuccessOf
  <2>2. UNCHANGED <<cont, act, goal, disturbed>> /\ pc'[w] # "p_run"
    BY <1>8 DEF Project_Reread
  <2> QED
    BY <2>1, <2>2 DEF SuccessOf, Done
<1>9. CASE Deploy_AllCreated(w) \/ Deploy_Done(w)
  BY <1>9 DEF Deploy_AllCreated, Deploy_Done, SuccessOf
<1>10. CASE Container_Act(w)
  BY <1>10 DEF Container_Act, SuccessOf
<1>11. ASSUME NEW i \in Ids, Deploy_Recreate(w, i) \/ Deploy_Create(w, i) \/ Deploy_Start(w, i)
      PROVE  SuccessOf(w)'
  BY <1>11 DEF Deploy_Recreate, Deploy_Create, Deploy_Start, SuccessOf
<1> QED
  BY <1>1, <1>2, <1>3, <1>4, <1>5, <1>6, <1>7, <1>8, <1>9, <1>10, <1>11, TakesCases DEF Quiet, Acts

\* A project action that answers with success has done what was asked to every
\* container the command found, except what somebody else has changed since.
THEOREM SuccessIsRealHolds == Spec => []SuccessIsReal
<1>1. Init => SuccessInv
  BY DEF Init, SuccessInv, SuccessOf
<1>2. Typed /\ SuccessInv /\ [Next]_vars => SuccessInv'
  <2>1. CASE UNCHANGED vars
    BY <2>1 DEF vars, localVars, histVars, readVars, SuccessInv, SuccessOf, Done
  <2>2. CASE Next
    BY <2>2, StepCases, SuccessObserved, SuccessTaken DEF SuccessInv
  <2> QED
    BY <2>1, <2>2
<1>3. SuccessInv => SuccessIsReal
  BY DEF SuccessInv, SuccessOf, SuccessIsReal, Done
<1> QED
  BY <1>1, <1>2, <1>3, TypedInvariant, PTL DEF Spec

-----------------------------------------------------------------------------
(* DeployedIsRunning.                                                        *)

\* The container i was made for the service n of w's project, and may be gone.
For(w, n, i) ==
  i \in used /\ (cont[i] # None => cont[i].name = n /\ cont[i].project = ref[w])

\* compose has a name to create or a container for every service; then it goes
\* through the containers, and those nobody else has touched are up or to come.
DeployedOf(w) ==
  /\ pc[w] = "u_create" =>
       \A n \in Services : n \in todo[w] \/ \E i \in todo[w] \cap Ids : For(w, n, i)
  /\ pc[w] = "u_start" \/ (answer[w] = "ok" /\ act[w] = "up") =>
       /\ \A n \in Services : \E i \in goal[w] : For(w, n, i)
       /\ \A i \in goal[w] : i \in used /\ (cont[i] # None => cont[i].project = ref[w])
       /\ \A i \in goal[w] \ disturbed[w] :
            (pc[w] = "u_start" /\ i \in todo[w]) \/ (cont[i] # None /\ cont[i].running)

DeployedInv == \A w \in Workers : DeployedOf(w)

\* A container stays one of its service, whoever takes the step.
LEMMA ForStays ==
  ASSUME NEW w \in Workers, NEW n, NEW i, For(w, n, i), SameContainer(i), ref'[w] = ref[w]
  PROVE  For(w, n, i)'
  BY DEF For, SameContainer

LEMMA DeployedObserved ==
  ASSUME Typed, NEW v \in Workers, DeployedOf(v), Observes(v), \A i \in Ids : SameContainer(i)
  PROVE  DeployedOf(v)'
<1>1. \A n, i : i \in Ids /\ For(v, n, i) => For(v, n, i)'
  BY ForStays DEF Observes
<1>2. \A i \in goal'[v] \ disturbed'[v] : i \in goal[v] \ disturbed[v] /\ cont'[i] = cont[i]
  BY DEF Observes
<1>3. goal[v] \subseteq Ids
  BY DEF Typed, TypeOK
<1>4. /\ pc'[v] = pc[v] /\ act'[v] = act[v] /\ ref'[v] = ref[v] /\ todo'[v] = todo[v]
      /\ answer'[v] = answer[v] /\ goal'[v] = goal[v]
  BY DEF Observes
<1>5. ASSUME pc[v] = "u_start" \/ (answer[v] = "ok" /\ act[v] = "up")
      PROVE  /\ \A n \in Services : \E i \in goal'[v] : For(v, n, i)'
             /\ \A i \in goal'[v] : i \in used' /\ (cont'[i] # None => cont'[i].project = ref'[v])
             /\ \A i \in goal'[v] \ disturbed'[v] :
                  (pc'[v] = "u_start" /\ i \in todo'[v]) \/ (cont'[i] # None /\ cont'[i].running)
  <2>1. \A n \in Services : \E i \in goal'[v] : For(v, n, i)'
    BY <1>1, <1>3, <1>4, <1>5 DEF DeployedOf
  <2>2. \A i \in goal'[v] : i \in used' /\ (cont'[i] # None => cont'[i].project = ref'[v])
    BY <1>3, <1>4, <1>5 DEF DeployedOf, SameContainer
  <2>3. \A i \in goal'[v] \ disturbed'[v] :
          (pc'[v] = "u_start" /\ i \in todo'[v]) \/ (cont'[i] # None /\ cont'[i].running)
    BY <1>2, <1>4, <1>5 DEF DeployedOf
  <2> QED
    BY <2>1, <2>2, <2>3
<1>6. ASSUME pc[v] = "u_create"
      PROVE  \A n \in Services : n \in todo'[v] \/ \E i \in todo'[v] \cap Ids : For(v, n, i)'
  BY <1>1, <1>4, <1>6 DEF DeployedOf
<1> QED
  BY <1>4, <1>5, <1>6 DEF DeployedOf

LEMMA DeployedTaken ==
  ASSUME Typed, NEW w \in Workers, DeployedOf(w), Takes(w), \A i \in Ids : SameContainer(i)
  PROVE  DeployedOf(w)'
<1>0. TypeOK /\ ControlOf(w) /\ TodoOf(w)
  BY DEF Typed, Control, DeployTodo
<1> USE <1>0 DEF TypeOK, ControlOf, ContainerPC, ProjectPC, DeployPC, Goto, Respond, histVars, readVars
<1>a. ASSUME ref'[w] = ref[w]
      PROVE  \A n, i : i \in Ids /\ For(w, n, i) => For(w, n, i)'
  BY <1>a, ForStays
<1>1. CASE Ends(w)
  BY <1>1 DEF Ends, Finish, DeployedOf
<1>2. CASE Request_Container(w) \/ Request_Project(w)
  BY <1>2 DEF Request_Container, Request_Project, Request, DeployedOf
<1>3. ASSUME NEW p \in Projects, Deploy_Up(w, p) PROVE DeployedOf(w)'
  <2> DEFINE kept == {i \in Members(cont, p) : cont[i].name \in Services}
  <2>1. todo'[w] = kept \cup (Services \ {cont[i].name : i \in kept}) /\ ref'[w] = p
    BY <1>3 DEF Deploy_Up
  <2>2. UNCHANGED <<cont, used, answer>> /\ pc[w] = "idle" /\ pc'[w] = "u_create"
    BY <1>3 DEF Deploy_Up
  <2>3. \A i \in kept : i \in Ids /\ i \in used /\ cont[i].project = p
    BY DEF Members, Existing
  <2>4. ASSUME NEW n \in Services, n \notin todo'[w]
        PROVE  \E i \in todo'[w] \cap Ids : For(w, n, i)'
    <3>1. PICK i \in kept : cont[i].name = n
      BY <2>1, <2>4
    <3> QED
      BY <2>1, <2>2, <2>3, <3>1 DEF For
  <2> QED
    BY <2>2, <2>4 DEF DeployedOf
<1>4. CASE Container_Check(w) \/ Project_List(w) \/ Project_Inspect(w) \/ Project_Ls(w)
  BY <1>4 DEF Container_Check, Project_List, Project_Inspect, Project_Ls, DeployedOf
<1>5. CASE Project_Command(w)
  BY <1>5 DEF Project_Command, DeployedOf
<1>6. CASE Project_Step(w)
  BY <1>6 DEF Project_Step, DeployedOf
<1>7. CASE Project_Done(w) \/ Project_Reread(w)
  BY <1>7 DEF Project_Done, Project_Reread, DeployedOf, Action
<1>8. CASE Container_Act(w)
  BY <1>8 DEF Container_Act, DeployedOf
<1>9. ASSUME NEW i \in Ids, Deploy_Recreate(w, i) PROVE DeployedOf(w)'
  <2>1. /\ pc[w] = "u_create" /\ pc'[w] = "u_create" /\ answer'[w] = "none" /\ ref' = ref
        /\ todo'[w] = (todo[w] \ {i}) \cup {cont[i].name}
        /\ cont[i] # None
    BY <1>9 DEF Deploy_Recreate
  <2>2. ASSUME NEW n \in Services, n \notin todo'[w]
        PROVE  \E j \in todo'[w] \cap Ids : For(w, n, j)'
    <3>1. n \notin todo[w]
      BY <2>1, <2>2, NullAssumption
    <3>2. PICK j \in todo[w] \cap Ids : For(w, n, j)
      BY <2>1, <3>1 DEF DeployedOf
    <3>3. j # i
      BY <2>1, <2>2, <3>2 DEF For
    <3> QED
      BY <1>a, <2>1, <3>2, <3>3
  <2> QED
    BY <2>1, <2>2 DEF DeployedOf
<1>10. ASSUME NEW i \in Ids, Deploy_Create(w, i) PROVE DeployedOf(w)'
  <2>1. PICK m \in todo[w] \cap Services :
          /\ cont' = [cont EXCEPT ![i] = [name |-> m, project |-> ref[w], running |-> FALSE]]
          /\ todo' = [todo EXCEPT ![w] = (@ \ {m}) \cup {i}]
    BY <1>10 DEF Deploy_Create, Change
  <2>2. /\ pc[w] = "u_create" /\ pc'[w] = "u_create" /\ answer'[w] = "none" /\ ref' = ref
        /\ used' = used \cup {i}
    BY <1>10 DEF Deploy_Create
  <2>3. todo'[w] = (todo[w] \ {m}) \cup {i}
    BY <2>1
  <2>4. For(w, m, i)'
    BY <2>1, <2>2 DEF For
  <2>5. ASSUME NEW n \in Services, n \notin todo'[w]
        PROVE  \E j \in todo'[w] \cap Ids : For(w, n, j)'
    <3>1. CASE n = m
      BY <2>3, <2>4, <3>1
    <3>2. CASE n # m
      <4>1. PICK j \in todo[w] \cap Ids : For(w, n, j)
        BY <2>2, <2>3, <2>5, <3>2 DEF DeployedOf
      <4>2. j # m
        BY <2>1, NullAssumption
      <4> QED
        BY <1>a, <2>2, <2>3, <4>1, <4>2
    <3> QED
      BY <3>1, <3>2
  <2> QED
    BY <2>2, <2>5 DEF DeployedOf
<1>11. CASE Deploy_AllCreated(w)
  <2>1. /\ pc[w] = "u_create" /\ pc'[w] = "u_start" /\ answer'[w] = "none"
        /\ UNCHANGED <<cont, used, ref, todo, disturbed>>
        /\ goal'[w] = todo[w] /\ todo[w] \cap Services = {}
    BY <1>11 DEF Deploy_AllCreated
  <2>2. todo[w] \subseteq Ids
    BY <2>1
  <2>3. \A n \in Services : \E i \in goal'[w] : For(w, n, i)'
    BY <1>a, <2>1, <2>2 DEF DeployedOf
  <2>4. \A i \in goal'[w] : i \in used' /\ (cont'[i] # None => cont'[i].project = ref'[w])
    BY <2>1, <2>2 DEF TodoOf
  <2>5. \A i \in goal'[w] : i \in todo'[w]
    BY <2>1
  <2> QED
    BY <2>1, <2>3, <2>4, <2>5 DEF DeployedOf
<1>12. ASSUME NEW i \in Ids, Deploy_Start(w, i) PROVE DeployedOf(w)'
  <2>1. /\ pc[w] = "u_start" /\ pc'[w] = "u_start" /\ answer'[w] = "none"
        /\ UNCHANGED <<used, ref, goal>> /\ todo'[w] = todo[w] \ {i}
        /\ cont[i] # None
        /\ cont' = [cont EXCEPT ![i] = After(i, "start")]
    BY <1>12 DEF Deploy_Start, Change
  <2>2. disturbed'[w] = disturbed[w]
    BY <1>12 DEF Deploy_Start, Change
  <2>3. cont'[i] # None /\ cont'[i].running
    <3>0. cont[i] \in Container
      BY <2>1
    <3>1. After(i, "start") # None /\ After(i, "start").running
      BY <2>1, <3>0, NoneIsNoContainer DEF After, Container
    <3> QED
      BY <2>1, <3>1
  <2>4. \A j \in Ids : j # i => cont'[j] = cont[j]
    BY <2>1
  <2>5. \A n \in Services : \E j \in goal'[w] : For(w, n, j)'
    BY <1>a, <2>1 DEF DeployedOf
  <2>6. \A j \in goal'[w] : j \in used' /\ (cont'[j] # None => cont'[j].project = ref'[w])
    BY <2>1 DEF DeployedOf, SameContainer
  <2>7. \A j \in goal'[w] \ disturbed'[w] :
          (pc'[w] = "u_start" /\ j \in todo'[w]) \/ (cont'[j] # None /\ cont'[j].running)
    BY <2>1, <2>2, <2>3, <2>4 DEF DeployedOf
  <2> QED
    BY <2>1, <2>5, <2>6, <2>7 DEF DeployedOf
<1>13. CASE Deploy_Done(w)
  <2>1. /\ pc[w] = "u_start" /\ pc'[w] = "answered" /\ todo[w] = {}
        /\ UNCHANGED <<cont, used, ref, goal, disturbed>>
    BY <1>13 DEF Deploy_Done
  <2> QED
    BY <2>1 DEF DeployedOf, For
<1> QED
  BY <1>1, <1>2, <1>3, <1>4, <1>5, <1>6, <1>7, <1>8, <1>9, <1>10, <1>11, <1>12, <1>13, TakesCases
  DEF Quiet, Acts

\* A deployment that reports DEPLOYED has a running container of its project for
\* every service, unless somebody has changed one since compose began to start
\* them: whatever happened before that makes compose fail.
THEOREM DeployedIsRunningHolds == Spec => []DeployedIsRunning
<1>1. Init => DeployedInv
  BY DEF Init, DeployedInv, DeployedOf
<1>2. Typed /\ DeployedInv /\ [Next]_vars => DeployedInv'
  <2>1. CASE UNCHANGED vars
    BY <2>1 DEF vars, localVars, histVars, readVars, DeployedInv, DeployedOf, For
  <2>2. CASE Next
    BY <2>2, StepCases, DeployedObserved, DeployedTaken DEF DeployedInv
  <2> QED
    BY <2>1, <2>2
<1>3. Typed /\ DeployedInv => DeployedIsRunning
  <2> SUFFICES ASSUME Typed, DeployedInv, NEW w \in Workers, answer[w] = "ok", act[w] = "up"
               PROVE  /\ goal[w] \ disturbed[w] \subseteq Up(cont, ref[w])
                      /\ disturbed[w] = {} => Services \subseteq {cont[i].name : i \in Up(cont, ref[w])}
    BY DEF DeployedIsRunning
  <2>1. pc[w] = "answered" /\ goal[w] \subseteq Ids
    BY DEF Typed, TypeOK, Control, ControlOf
  <2>2. \A i \in goal[w] \ disturbed[w] : cont[i] # None /\ cont[i].running /\ cont[i].project = ref[w]
    BY <2>1 DEF DeployedInv, DeployedOf
  <2>3. goal[w] \ disturbed[w] \subseteq Up(cont, ref[w])
    BY <2>1, <2>2 DEF Up, Members, Existing
  <2>4. \A n \in Services : \E i \in goal[w] : For(w, n, i)
    BY DEF DeployedInv, DeployedOf
  <2>5. ASSUME disturbed[w] = {}, NEW n \in Services
        PROVE  \E i \in Up(cont, ref[w]) : cont[i].name = n
    BY <2>2, <2>3, <2>4, <2>5 DEF For
  <2> QED
    BY <2>3, <2>5
<1> QED
  BY <1>1, <1>2, <1>3, TypedInvariant, PTL DEF Spec
=============================================================================
