---------------------------- MODULE TaskPagesProofs ----------------------------
(* Theorems about TaskPages, for every number of tasks, polls and failing     *)
(* requests.                                                                  *)
EXTENDS TaskPages, TLAPS

\* While the list is read, a task that has stayed is read or still to be read,
\* and nothing is read that was not there at some time.
Reading ==
  /\ rows \cup unread \subseteq existed
  /\ loading = "list" =>
       /\ stayed \subseteq rows \cup unread
       /\ \A t \in stayed : Stored(t)
  /\ loading # "list" => stayed \subseteq rows \/ page # "list"

IInv == TypeOK /\ Reading

-----------------------------------------------------------------------------
LEMMA ServerStep ==
  ASSUME status \in [Tasks -> Server!States], Server!Next
  PROVE  status' \in [Tasks -> Server!States]
  BY DEF Server!Next, Server!Upload, Server!Extract, Server!Accept, Server!Reject,
         Server!BeginDeploy, Server!Deployed, Server!DeployFails, Server!Edit, Server!Remove,
         Server!Discard, Server!Return, Server!Uploads,
         Server!States, Server!Deployable, Server!Settled, Server!Move

LEMMA InitOK == Init => IInv
<1> SUFFICES ASSUME Init PROVE IInv
  OBVIOUS
<1>1. errors \in 0..MaxErrors
  BY BoundAssumption DEF Init
<1>2. status \in [Tasks -> Server!States] /\ shown \in Server!States
  BY DEF Init, Server!Init, Server!States
<1>3. polls \in [1..MaxPolls -> {"free", "sent", "error"} \cup Server!States]
  BY DEF Init, Idle
<1>4. /\ page = "none" /\ loading = "none" /\ task \in Tasks /\ timer = FALSE
      /\ unread = {} /\ rows = {} /\ stayed = {} /\ existed = {}
  BY DEF Init
<1> QED
  BY <1>1, <1>2, <1>3, <1>4, Zenon DEF IInv, TypeOK, Reading

LEMMA NextOK == IInv /\ [Next]_vars => IInv'
<1> SUFFICES ASSUME IInv, [Next]_vars PROVE IInv'
  OBVIOUS
<1>a. Idle \in [1..MaxPolls -> {"free", "sent", "error"} \cup Server!States]
  BY DEF Idle
<1>b. \A t \in Tasks : status[t] \in Server!States
  BY DEF IInv, TypeOK
<1> USE DEF IInv, TypeOK, Reading, Records, list, poll
<1>1. CASE Server_Step
  <2>1. status' \in [Tasks -> Server!States]
    BY <1>1, ServerStep DEF Server_Step
  <2>2. UNCHANGED <<page, loading, unread, rows, task, shown, timer, polls, errors>>
    BY <1>1 DEF Server_Step
  <2>3. CASE loading = "list"
    <3>1. stayed' = {t \in stayed : Stored(t)'} /\ existed' = existed \cup Records'
      BY <1>1, <2>3 DEF Server_Step
    <3>2. Records' \subseteq Tasks
      OBVIOUS
    <3>3. TypeOK'
      BY <2>1, <2>2, <3>1, <3>2
    <3> QED
      BY <2>2, <2>3, <3>1, <3>3
  <2>4. CASE loading # "list"
    <3>1. UNCHANGED <<stayed, existed>>
      BY <1>1, <2>4 DEF Server_Step
    <3> QED
      BY <2>1, <2>2, <2>4, <3>1
  <2> QED
    BY <2>3, <2>4
<1>2. CASE List_Open
  BY <1>2 DEF List_Open, Stored
<1>3. ASSUME NEW t \in Tasks, List_Read(t) PROVE IInv'
  <2>1. CASE Stored(t)
    BY <1>3, <2>1 DEF List_Read, Stored
  <2>2. CASE ~Stored(t)
    BY <1>3, <1>a, <2>2 DEF List_Read, ReadMissing, Show, Clear, Server!States
  <2> QED
    BY <2>1, <2>2
<1>3a. CASE List_Fails
  <2>1. errors' \in 0..MaxErrors
    BY <1>3a, BoundAssumption DEF List_Fails
  <2>2. /\ page' = "error" /\ loading' = "none" /\ polls' = Idle
        /\ shown' = "none" /\ timer' = FALSE
        /\ unread' = {} /\ rows' = {} /\ stayed' = {} /\ existed' = {}
        /\ UNCHANGED <<status, task>>
    BY <1>3a DEF List_Fails, Show, Clear
  <2>3. shown' \in Server!States
    BY <2>2 DEF Server!States
  <2> QED
    BY <1>a, <2>1, <2>2, <2>3
<1>4. CASE List_Show
  BY <1>4, <1>a DEF List_Show, Show, Server!States
<1>5. ASSUME NEW t \in Tasks, Task_Open(t) PROVE IInv'
  BY <1>5 DEF Task_Open, Clear
<1>6. CASE Task_Show
  <2>1. /\ loading = "task" /\ loading' = "none" /\ polls' = Idle
        /\ UNCHANGED <<status, task, unread, rows, stayed, existed>>
    BY <1>6 DEF Task_Show, Show
  <2>2. errors' \in 0..MaxErrors
    BY <1>6, BoundAssumption DEF Task_Show
  <2>3. shown' \in Server!States
    BY <1>6, <1>b DEF Task_Show, Server!States
  <2>4. page' \in {"task", "error"} /\ timer' \in BOOLEAN /\ (timer' => page' = "task")
    BY <1>6, Zenon DEF Task_Show, Show
  <2> QED
    BY <1>a, <2>1, <2>2, <2>3, <2>4
<1>7. ASSUME NEW i \in 1..MaxPolls, Poll_Send(i) PROVE IInv'
  <2>1. polls' \in [1..MaxPolls -> {"free", "sent", "error"} \cup Server!States]
    BY <1>7 DEF Poll_Send
  <2> QED
    BY <1>7, <2>1, Zenon DEF Poll_Send, Stored
<1>8. ASSUME NEW i \in 1..MaxPolls, Poll_Serve(i) PROVE IInv'
  <2>1. polls' \in [1..MaxPolls -> {"free", "sent", "error"} \cup Server!States]
    BY <1>8, <1>b DEF Poll_Serve
  <2>2. errors' \in 0..MaxErrors
    BY <1>8, BoundAssumption DEF Poll_Serve
  <2>3. UNCHANGED <<status, page, loading, task, unread, rows, stayed, existed, shown, timer>>
    BY <1>8 DEF Poll_Serve
  <2> QED
    BY <2>1, <2>2, <2>3, Zenon DEF Stored
<1>9. ASSUME NEW i \in 1..MaxPolls, Poll_Answer(i) PROVE IInv'
  <2>1. polls' \in [1..MaxPolls -> {"free", "sent", "error"} \cup Server!States]
    BY <1>9 DEF Poll_Answer
  <2>2. polls[i] \in {"free", "sent", "error"} \cup Server!States
    OBVIOUS
  <2>3. shown' \in Server!States
    BY <1>9, <2>2 DEF Poll_Answer, Ended
  <2>4. loading' \in {"task", loading} /\ (loading = "list" => loading' = "list")
    BY <1>9 DEF Poll_Answer, Reload
  <2>5. UNCHANGED <<status, page, task, unread, rows, stayed, existed, errors>>
    BY <1>9 DEF Poll_Answer
  <2>6. timer' = timer \/ timer' = FALSE
    BY <1>9, Zenon DEF Poll_Answer
  <2>7. timer' \in BOOLEAN /\ (timer' => page' = "task")
    <3>1. timer \in BOOLEAN /\ (timer => page = "task") /\ page' = page
      BY <2>5
    <3>2. CASE timer' = timer
      BY <3>1, <3>2
    <3>3. CASE timer' = FALSE
      BY <3>3
    <3> QED
      BY <2>6, <3>2, <3>3
  <2>8. loading # "list" => loading' # "list"
    BY <1>9 DEF Poll_Answer, Reload
  <2>9. TypeOK'
    BY <2>1, <2>3, <2>4, <2>5, <2>7
  <2>10. Reading'
    BY <2>4, <2>5, <2>8 DEF Stored
  <2> QED
    BY <2>9, <2>10
<1>10. CASE UNCHANGED vars
  BY <1>10 DEF vars, Stored
<1> QED
  BY <1>1, <1>2, <1>3, <1>3a, <1>4, <1>5, <1>6, <1>7, <1>8, <1>9, <1>10 DEF Next, Tab, Load, Poll

\* What the list and the page keep at every step of the tasks and of the tab.
THEOREM InductiveInvariant == Spec => []IInv
  BY InitOK, NextOK, PTL DEF Spec

-----------------------------------------------------------------------------
\* Every variable keeps its type; above all only the page of a task polls.
THEOREM TypeCorrect == Spec => []TypeOK
<1>1. IInv => TypeOK
  BY DEF IInv
<1> QED
  BY <1>1, InductiveInvariant, PTL

\* However tasks come and go while it is read, a list that is shown has every
\* task that stayed, and none that was never there.
THEOREM ListIsCompleteHolds == Spec => []ListIsComplete
<1>1. IInv => ListIsComplete
  BY DEF IInv, TypeOK, Reading, ListIsComplete
<1> QED
  BY <1>1, InductiveInvariant, PTL
=============================================================================
