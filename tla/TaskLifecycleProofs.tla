------------------------ MODULE TaskLifecycleProofs ------------------------
(* Theorems about TaskLifecycle, for every number of tasks, applications,  *)
(* threads, crashes and failing file operations.                           *)
EXTENDS TaskLifecycle, FiniteSetTheorems, TLAPS

Typed == TypeOK /\ Occupied

-----------------------------------------------------------------------------
(* Lemmas about the helpers the actions are built from. *)

LEMMA RecordUpdate ==
  ASSUME NEW r \in Record, NEW s \in Status, NEW p \in Phase
  PROVE  [r EXCEPT !.status = s, !.phase = p] \in Record
  BY DEF Record

LEMMA LocalsTyped ==
  ASSUME Typed, NEW w \in Workers,
         Finish(w)
  PROVE  /\ pc' \in [Workers -> PC]
         /\ cur' \in [Workers -> Tasks \cup {NoTask}]
         /\ mem' \in [Workers -> Record]
         /\ Occupied'
  BY NullAssumption DEF Typed, TypeOK, Occupied, Finish, Absent, Record, Status, Phase, PC

\* Entering a task lock, or leaving it at once.
Enters(w) ==
  /\ pc[w] \in WaitPC
  /\ \/ \E l \in LockedPC \ {"dep_save"} : EnterWith(w, l)
     \/ Finish(w) /\ UNCHANGED taskLock
  /\ UNCHANGED <<diskVars, appLock, queue, histVars>>

LEMMA LoadEnters ==
  ASSUME NEW w \in Workers,
         \/ BeginDeploy_Load(w) \/ Deploy_Load(w) \/ Edit_Load(w)
         \/ Delete_Load(w) \/ Discard_Load(w)
  PROVE  Enters(w)
  BY DEF Enters, EnterIf, BeginDeploy_Load, Deploy_Load, Edit_Load, Delete_Load,
         Discard_Load, LockedPC, RemovePC, WaitPC

LEMMA EntersTyped ==
  ASSUME Typed, NEW w \in Workers, Enters(w)
  PROVE  Typed'
<1>1. CASE Finish(w) /\ UNCHANGED taskLock
  BY <1>1, LocalsTyped DEF Enters, Typed, TypeOK, diskVars, histVars
<1>2. ASSUME NEW l \in LockedPC \ {"dep_save"}, EnterWith(w, l)
      PROVE  Typed'
  <2>1. cur[w] \in Tasks /\ record[cur[w]] \in Record
    BY DEF Typed, TypeOK, Occupied, Enters, WaitPC
  <2> QED
    BY <1>2, <2>1 DEF Enters, EnterWith, Typed, TypeOK, Occupied, diskVars, histVars,
                      PC, WaitPC, LockedPC, RunPC, RemovePC
<1> QED
  BY <1>1, <1>2 DEF Enters

-----------------------------------------------------------------------------
\* Every variable keeps its type, and a busy thread has a task.
LEMMA TypedInvariant == Spec => []Typed
<1>1. Init => Typed
  BY NullAssumption DEF Init, Typed, TypeOK, Occupied, Record, Status, Phase, Absent, PC, Entries
<1>2. Typed /\ [Next]_vars => Typed'
  <2> SUFFICES ASSUME Typed, [Next]_vars PROVE Typed'
    OBVIOUS
  <2>a. \A w \in Workers :
          /\ DeployingRecord(mem[w]) \in Record
          /\ [mem[w] EXCEPT !.status = "deployed", !.phase = "none"] \in Record
          /\ [mem[w] EXCEPT !.status = "failed", !.phase = "deploy"] \in Record
          /\ [mem[w] EXCEPT !.status = "pending_review", !.phase = "none"] \in Record
    BY RecordUpdate, ZenonT(60) DEF Typed, TypeOK, DeployingRecord, Status, Phase
  <2> USE NullAssumption DEF Typed, TypeOK, Occupied, Record, Status, Phase, Absent, Content, Entries, PC, UploadPC, WaitPC,
              LockedPC, RunPC, RemovePC, vars, diskVars, lockVars, localVars, histVars
  <2>1. ASSUME NEW w \in Workers, NEW t \in Tasks, Upload_Create(w, t)
       PROVE  Typed'
    BY <2>1 DEF Upload_Create, Save, UploadRecord
  <2>2. ASSUME NEW w \in Workers, NEW t \in Tasks, Request(w, t)
       PROVE  Typed'
    BY <2>2 DEF Request, Requests
  <2>3. ASSUME NEW w \in Workers, NEW t \in Tasks, Upload_CreateRaises(w, t)
       PROVE  Typed'
    BY <2>3 DEF Upload_CreateRaises, Fault
  <2>4. ASSUME NEW w \in Workers, NEW t \in Tasks, Deploy_Start(w, t)
       PROVE  Typed'
    BY <2>4 DEF Deploy_Start
  <2>5. ASSUME NEW w \in Workers, Upload_StoreArchive(w)
       PROVE  Typed'
    BY <2>5 DEF Upload_StoreArchive, Goto
  <2>6. ASSUME NEW w \in Workers, Upload_MarkExtracting(w)
       PROVE  Typed'
    BY <2>6 DEF Upload_MarkExtracting, Save, UploadRecord
  <2>7. ASSUME NEW w \in Workers, Upload_PrepareTree(w)
       PROVE  Typed'
    BY <2>7 DEF Upload_PrepareTree, Goto
  <2>8. ASSUME NEW w \in Workers, Upload_OpenArchive(w)
       PROVE  Typed'
    BY <2>8 DEF Upload_OpenArchive, Goto
  <2>9. ASSUME NEW w \in Workers, Upload_ExtractConfig(w)
       PROVE  Typed'
    BY <2>9 DEF Upload_ExtractConfig, Upload_Extract, Goto
  <2>10. ASSUME NEW w \in Workers, Upload_ExtractPayload(w)
       PROVE  Typed'
    BY <2>10 DEF Upload_ExtractPayload, Upload_Extract, Goto
  <2>11. ASSUME NEW w \in Workers, Upload_Review(w)
       PROVE  Typed'
    BY <2>11 DEF Upload_Review, UploadRecord
  <2>12. ASSUME NEW w \in Workers, Upload_SavePending(w)
       PROVE  Typed'
    BY <2>12 DEF Upload_SavePending, Save, Finish
  <2>13. ASSUME NEW w \in Workers, Upload_Raises(w)
       PROVE  Typed'
    BY <2>13 DEF Upload_Raises, Fault, UploadRecord
  <2>14. ASSUME NEW w \in Workers, Upload_SaveFailed(w)
       PROVE  Typed'
    BY <2>14 DEF Upload_SaveFailed, Save, Finish
  <2>15. ASSUME NEW w \in Workers, BeginDeploy_Load(w)
       PROVE  Typed'
    BY <2>15, LoadEnters, EntersTyped
  <2>16. ASSUME NEW w \in Workers, BeginDeploy_Save(w)
       PROVE  Typed'
    <3>1. DeployingRecord(mem[w]) \in Record
      BY <2>a
    <3> QED
      BY <2>16, <3>1, LocalsTyped DEF BeginDeploy_Save, Save, ReleaseTask
  <2>17. ASSUME NEW w \in Workers, Deploy_Load(w)
       PROVE  Typed'
    BY <2>17, LoadEnters, EntersTyped
  <2>18. ASSUME NEW w \in Workers, Deploy_SaveDeploying(w)
       PROVE  Typed'
    <3>1. DeployingRecord(mem[w]) \in Record
      BY <2>a
    <3> QED
      BY <2>18, <3>1 DEF Deploy_SaveDeploying, Save
  <2>19. ASSUME NEW w \in Workers, Deploy_LockApp(w)
       PROVE  Typed'
    BY <2>19 DEF Deploy_LockApp, Goto
  <2>20. ASSUME NEW w \in Workers, Deploy_OverlayConfig(w)
       PROVE  Typed'
    BY <2>20 DEF Deploy_OverlayConfig, Deploy_Overlay, Goto
  <2>21. ASSUME NEW w \in Workers, Deploy_OverlayPayload(w)
       PROVE  Typed'
    BY <2>21 DEF Deploy_OverlayPayload, Deploy_Overlay, Goto
  <2>22. ASSUME NEW w \in Workers, Deploy_ComposeUp(w)
       PROVE  Typed'
    <3>1. [mem[w] EXCEPT !.status = "deployed", !.phase = "none"] \in Record
      BY <2>a
    <3>2. mem' \in [Workers -> Record]
      BY <2>22, <3>1 DEF Deploy_ComposeUp
    <3> QED
      BY <2>22, <3>2 DEF Deploy_ComposeUp
  <2>23. ASSUME NEW w \in Workers, Deploy_Raises(w)
       PROVE  Typed'
    <3>1. [mem[w] EXCEPT !.status = "failed", !.phase = "deploy"] \in Record
      BY <2>a
    <3>2. mem' \in [Workers -> Record]
      BY <2>23, <3>1 DEF Deploy_Raises
    <3> QED
      BY <2>23, <3>2 DEF Deploy_Raises
  <2>24. ASSUME NEW w \in Workers, Deploy_Save(w)
       PROVE  Typed'
    BY <2>24 DEF Deploy_Save, Save, ReleaseTask, ReleaseApp, Finish
  <2>25. ASSUME NEW w \in Workers, Edit_Load(w)
       PROVE  Typed'
    BY <2>25, LoadEnters, EntersTyped
  <2>26. ASSUME NEW w \in Workers, Edit_Save(w)
       PROVE  Typed'
    <3>1. [mem[w] EXCEPT !.status = "pending_review", !.phase = "none"] \in Record
      BY <2>a
    <3> QED
      BY <2>26, <3>1, LocalsTyped DEF Edit_Save, Save, ReleaseTask
  <2>27. ASSUME NEW w \in Workers, Edit_Raises(w)
       PROVE  Typed'
    BY <2>27 DEF Edit_Raises, ReleaseTask, Finish
  <2>28. ASSUME NEW w \in Workers, Delete_Load(w)
       PROVE  Typed'
    BY <2>28, LoadEnters, EntersTyped
  <2>29. ASSUME NEW w \in Workers, Discard_Load(w)
       PROVE  Typed'
    BY <2>29, LoadEnters, EntersTyped
  <2>30. ASSUME NEW w \in Workers, Remove_Entry(w)
       PROVE  Typed'
    BY <2>30 DEF Remove_Entry
  <2>31. ASSUME NEW w \in Workers, Remove_TreeGone(w)
       PROVE  Typed'
    BY <2>31 DEF Remove_TreeGone, Goto
  <2>32. ASSUME NEW w \in Workers, Remove_Raises(w)
       PROVE  Typed'
    BY <2>32 DEF Remove_Raises, Fault, ReleaseTask, Finish
  <2>33. ASSUME NEW w \in Workers, Remove_Unlink(w)
       PROVE  Typed'
    BY <2>33 DEF Remove_Unlink, Save, ReleaseTask, Finish
  <2>34. ASSUME NEW w \in Workers, SaveRaises(w)
       PROVE  Typed'
    <3>1. cur[w] \in Tasks
      BY <2>34 DEF SaveRaises
    <3>2. taskLock' \in [Tasks -> Workers \cup {Free}] /\ appLock' \in [Apps -> Workers \cup {Free}]
      BY <2>34, <3>1 DEF SaveRaises, ReleaseTask, ReleaseApp
    <3>3. stranded' \subseteq Tasks /\ faults' \in Nat
      BY <2>34, <3>1 DEF SaveRaises, Fault
    <3> QED
      BY <2>34, <3>2, <3>3, LocalsTyped DEF SaveRaises
  <2>35. CASE Crash
    BY <2>35 DEF Crash
  <2>36. CASE UNCHANGED vars
    BY <2>36
  <2> HIDE DEF Typed, TypeOK, Occupied, Record, Status, Phase, Absent, Content, Entries, PC, UploadPC, WaitPC,
              LockedPC, RunPC, RemovePC, vars, diskVars, lockVars, localVars, histVars
  <2>37. QED
    BY <2>1, <2>2, <2>3, <2>4, <2>5, <2>6, <2>7, <2>8, <2>9, <2>10, <2>11, 
       <2>12, <2>13, <2>14, <2>15, <2>16, <2>17, <2>18, <2>19, <2>20, <2>21, 
       <2>22, <2>23, <2>24, <2>25, <2>26, <2>27, <2>28, <2>29, <2>30, <2>31, 
       <2>32, <2>33, <2>34, <2>35, <2>36
    DEF Next, Arrive, Start, Work, Upload_Step, Deploy_Step, Change_Step
<1>3. QED
  BY <1>1, <1>2, PTL DEF Spec

\* Every variable keeps its type.
THEOREM TypeCorrect == Spec => []TypeOK
<1>1. Typed => TypeOK
  BY DEF Typed
<1> QED
  BY <1>1, TypedInvariant, PTL
-----------------------------------------------------------------------------
\* What a worker has in memory follows from the guards it loaded it under.
LEMMA MemoryInvariant == Spec => []MemoryOK
<1>1. Init => MemoryOK
  BY DEF Init, MemoryOK, UploadPC, RemovePC
<1>2. Typed /\ MemoryOK /\ [Next]_vars => MemoryOK'
  <2> SUFFICES ASSUME Typed, MemoryOK, [Next]_vars PROVE MemoryOK'
    OBVIOUS
  <2>a. /\ mem \in [Workers -> Record] /\ pc \in [Workers -> PC] /\ record \in [Tasks -> Record]
        /\ cur \in [Workers -> Tasks \cup {NoTask}]
        /\ \A w \in Workers : pc[w] # "idle" => cur[w] \in Tasks
    BY DEF Typed, TypeOK, Occupied
  <2> USE <2>a, NullAssumption DEF MemoryOK, Record, UploadPC, WaitPC, LockedPC, RunPC, RemovePC, vars, diskVars, lockVars,
              localVars, histVars
  <2>1. ASSUME NEW w \in Workers, NEW t \in Tasks, Upload_Create(w, t)
       PROVE  MemoryOK'
    BY <2>1 DEF Upload_Create, Save, UploadRecord
  <2>2. ASSUME NEW w \in Workers, NEW t \in Tasks, Request(w, t)
       PROVE  MemoryOK'
    BY <2>2 DEF Request, Requests
  <2>3. ASSUME NEW w \in Workers, NEW t \in Tasks, Upload_CreateRaises(w, t)
       PROVE  MemoryOK'
    BY <2>3 DEF Upload_CreateRaises, Fault
  <2>4. ASSUME NEW w \in Workers, NEW t \in Tasks, Deploy_Start(w, t)
       PROVE  MemoryOK'
    BY <2>4 DEF Deploy_Start
  <2>5. ASSUME NEW w \in Workers, Upload_StoreArchive(w)
       PROVE  MemoryOK'
    BY <2>5 DEF Upload_StoreArchive, Goto
  <2>6. ASSUME NEW w \in Workers, Upload_MarkExtracting(w)
       PROVE  MemoryOK'
    BY <2>6 DEF Upload_MarkExtracting, Save, UploadRecord
  <2>7. ASSUME NEW w \in Workers, Upload_PrepareTree(w)
       PROVE  MemoryOK'
    BY <2>7 DEF Upload_PrepareTree, Goto
  <2>8. ASSUME NEW w \in Workers, Upload_OpenArchive(w)
       PROVE  MemoryOK'
    BY <2>8 DEF Upload_OpenArchive, Goto
  <2>9. ASSUME NEW w \in Workers, Upload_ExtractConfig(w)
       PROVE  MemoryOK'
    BY <2>9 DEF Upload_ExtractConfig, Upload_Extract, Goto
  <2>10. ASSUME NEW w \in Workers, Upload_ExtractPayload(w)
       PROVE  MemoryOK'
    BY <2>10 DEF Upload_ExtractPayload, Upload_Extract, Goto
  <2>11. ASSUME NEW w \in Workers, Upload_Review(w)
       PROVE  MemoryOK'
    BY <2>11 DEF Upload_Review, UploadRecord
  <2>12. ASSUME NEW w \in Workers, Upload_SavePending(w)
       PROVE  MemoryOK'
    BY <2>12 DEF Upload_SavePending, Save, Finish
  <2>13. ASSUME NEW w \in Workers, Upload_Raises(w)
       PROVE  MemoryOK'
    BY <2>13 DEF Upload_Raises, Fault, UploadRecord
  <2>14. ASSUME NEW w \in Workers, Upload_SaveFailed(w)
       PROVE  MemoryOK'
    BY <2>14 DEF Upload_SaveFailed, Save, Finish
  <2>15. ASSUME NEW w \in Workers, BeginDeploy_Load(w)
       PROVE  MemoryOK'
    BY <2>15 DEF BeginDeploy_Load, EnterIf, EnterWith, Finish, can_retry_task, is_recoverable_failure
  <2>16. ASSUME NEW w \in Workers, BeginDeploy_Save(w)
       PROVE  MemoryOK'
    BY <2>16 DEF BeginDeploy_Save, Save, DeployingRecord, ReleaseTask, Finish
  <2>17. ASSUME NEW w \in Workers, Deploy_Load(w)
       PROVE  MemoryOK'
    BY <2>17 DEF Deploy_Load, EnterIf, EnterWith, Finish, can_retry_task, is_recoverable_failure
  <2>18. ASSUME NEW w \in Workers, Deploy_SaveDeploying(w)
       PROVE  MemoryOK'
    BY <2>18 DEF Deploy_SaveDeploying, Save, DeployingRecord
  <2>19. ASSUME NEW w \in Workers, Deploy_LockApp(w)
       PROVE  MemoryOK'
    BY <2>19 DEF Deploy_LockApp, Goto
  <2>20. ASSUME NEW w \in Workers, Deploy_OverlayConfig(w)
       PROVE  MemoryOK'
    BY <2>20 DEF Deploy_OverlayConfig, Deploy_Overlay, Goto
  <2>21. ASSUME NEW w \in Workers, Deploy_OverlayPayload(w)
       PROVE  MemoryOK'
    BY <2>21 DEF Deploy_OverlayPayload, Deploy_Overlay, Goto
  <2>22. ASSUME NEW w \in Workers, Deploy_ComposeUp(w)
       PROVE  MemoryOK'
    BY <2>22 DEF Deploy_ComposeUp
  <2>23. ASSUME NEW w \in Workers, Deploy_Raises(w)
       PROVE  MemoryOK'
    BY <2>23 DEF Deploy_Raises
  <2>24. ASSUME NEW w \in Workers, Deploy_Save(w)
       PROVE  MemoryOK'
    BY <2>24 DEF Deploy_Save, Save, ReleaseTask, ReleaseApp, Finish
  <2>25. ASSUME NEW w \in Workers, Edit_Load(w)
       PROVE  MemoryOK'
    BY <2>25 DEF Edit_Load, EnterIf, EnterWith, Finish, can_edit_task, is_recoverable_failure
  <2>26. ASSUME NEW w \in Workers, Edit_Save(w)
       PROVE  MemoryOK'
    BY <2>26 DEF Edit_Save, Save, ReleaseTask, Finish
  <2>27. ASSUME NEW w \in Workers, Edit_Raises(w)
       PROVE  MemoryOK'
    BY <2>27 DEF Edit_Raises, ReleaseTask, Finish
  <2>28. ASSUME NEW w \in Workers, Delete_Load(w)
       PROVE  MemoryOK'
    BY <2>28 DEF Delete_Load, EnterIf, EnterWith, Finish, can_delete_task
  <2>29. ASSUME NEW w \in Workers, Discard_Load(w)
       PROVE  MemoryOK'
    BY <2>29 DEF Discard_Load, EnterIf, EnterWith, Finish, can_discard_task, Status
  <2>30. ASSUME NEW w \in Workers, Remove_Entry(w)
       PROVE  MemoryOK'
    BY <2>30 DEF Remove_Entry
  <2>31. ASSUME NEW w \in Workers, Remove_TreeGone(w)
       PROVE  MemoryOK'
    BY <2>31 DEF Remove_TreeGone, Goto
  <2>32. ASSUME NEW w \in Workers, Remove_Raises(w)
       PROVE  MemoryOK'
    BY <2>32 DEF Remove_Raises, Fault, ReleaseTask, Finish
  <2>33. ASSUME NEW w \in Workers, Remove_Unlink(w)
       PROVE  MemoryOK'
    BY <2>33 DEF Remove_Unlink, Save, ReleaseTask, Finish
  <2>34. ASSUME NEW w \in Workers, SaveRaises(w)
       PROVE  MemoryOK'
    BY <2>34 DEF SaveRaises, Fault, ReleaseTask, ReleaseApp, Finish
  <2>35. CASE Crash
    BY <2>35 DEF Crash
  <2>36. CASE UNCHANGED vars
    BY <2>36
  <2> HIDE DEF MemoryOK, Record, UploadPC, WaitPC, LockedPC, RunPC, RemovePC, vars, diskVars, lockVars,
              localVars, histVars
  <2>37. QED
    BY <2>1, <2>2, <2>3, <2>4, <2>5, <2>6, <2>7, <2>8, <2>9, <2>10, <2>11, 
       <2>12, <2>13, <2>14, <2>15, <2>16, <2>17, <2>18, <2>19, <2>20, <2>21, 
       <2>22, <2>23, <2>24, <2>25, <2>26, <2>27, <2>28, <2>29, <2>30, <2>31, 
       <2>32, <2>33, <2>34, <2>35, <2>36
    DEF Next, Arrive, Start, Work, Upload_Step, Deploy_Step, Change_Step
<1> QED
  BY <1>1, <1>2, TypedInvariant, PTL DEF Spec

-----------------------------------------------------------------------------
\* A worker is inside the locks its program counter says it is inside, hence
\* no two workers are inside the same one.
LEMMA LockInvariant == Spec => []LocksHeld
<1>1. Init => LocksHeld
  BY DEF Init, LocksHeld, LockedPC, RunPC, RemovePC
<1>2. Typed /\ MemoryOK /\ LocksHeld /\ [Next]_vars => LocksHeld'
  <2> SUFFICES ASSUME Typed, MemoryOK, LocksHeld, [Next]_vars PROVE LocksHeld'
    OBVIOUS
  <2>a. /\ mem \in [Workers -> Record] /\ pc \in [Workers -> PC]
        /\ cur \in [Workers -> Tasks \cup {NoTask}]
        /\ taskLock \in [Tasks -> Workers \cup {Free}]
        /\ appLock \in [Apps -> Workers \cup {Free}]
        /\ \A w \in Workers : pc[w] # "idle" => cur[w] \in Tasks
        /\ \A w \in Workers : pc[w] \in RunPC => mem[w].app \in Apps
        /\ \A w \in Workers : pc[w] = "dep_app" => mem[w].app \in Apps
    BY DEF Typed, TypeOK, Occupied, MemoryOK, RunPC
  <2> USE <2>a, NullAssumption DEF LocksHeld, UploadPC, WaitPC, LockedPC, RunPC, RemovePC, vars, diskVars, lockVars,
              localVars, histVars
  <2>1. ASSUME NEW w \in Workers, NEW t \in Tasks, Upload_Create(w, t)
       PROVE  LocksHeld'
    BY <2>1 DEF Upload_Create, Save, UploadRecord
  <2>2. ASSUME NEW w \in Workers, NEW t \in Tasks, Request(w, t)
       PROVE  LocksHeld'
    BY <2>2 DEF Request, Requests
  <2>3. ASSUME NEW w \in Workers, NEW t \in Tasks, Upload_CreateRaises(w, t)
       PROVE  LocksHeld'
    BY <2>3 DEF Upload_CreateRaises, Fault
  <2>4. ASSUME NEW w \in Workers, NEW t \in Tasks, Deploy_Start(w, t)
       PROVE  LocksHeld'
    BY <2>4 DEF Deploy_Start
  <2>5. ASSUME NEW w \in Workers, Upload_StoreArchive(w)
       PROVE  LocksHeld'
    BY <2>5 DEF Upload_StoreArchive, Goto
  <2>6. ASSUME NEW w \in Workers, Upload_MarkExtracting(w)
       PROVE  LocksHeld'
    BY <2>6 DEF Upload_MarkExtracting, Save, UploadRecord
  <2>7. ASSUME NEW w \in Workers, Upload_PrepareTree(w)
       PROVE  LocksHeld'
    BY <2>7 DEF Upload_PrepareTree, Goto
  <2>8. ASSUME NEW w \in Workers, Upload_OpenArchive(w)
       PROVE  LocksHeld'
    BY <2>8 DEF Upload_OpenArchive, Goto
  <2>9. ASSUME NEW w \in Workers, Upload_ExtractConfig(w)
       PROVE  LocksHeld'
    BY <2>9 DEF Upload_ExtractConfig, Upload_Extract, Goto
  <2>10. ASSUME NEW w \in Workers, Upload_ExtractPayload(w)
       PROVE  LocksHeld'
    BY <2>10 DEF Upload_ExtractPayload, Upload_Extract, Goto
  <2>11. ASSUME NEW w \in Workers, Upload_Review(w)
       PROVE  LocksHeld'
    BY <2>11 DEF Upload_Review, UploadRecord
  <2>12. ASSUME NEW w \in Workers, Upload_SavePending(w)
       PROVE  LocksHeld'
    BY <2>12 DEF Upload_SavePending, Save, Finish
  <2>13. ASSUME NEW w \in Workers, Upload_Raises(w)
       PROVE  LocksHeld'
    BY <2>13 DEF Upload_Raises, Fault, UploadRecord
  <2>14. ASSUME NEW w \in Workers, Upload_SaveFailed(w)
       PROVE  LocksHeld'
    BY <2>14 DEF Upload_SaveFailed, Save, Finish
  <2>15. ASSUME NEW w \in Workers, BeginDeploy_Load(w)
       PROVE  LocksHeld'
    BY <2>15 DEF BeginDeploy_Load, EnterIf, EnterWith, Finish
  <2>16. ASSUME NEW w \in Workers, BeginDeploy_Save(w)
       PROVE  LocksHeld'
    BY <2>16 DEF BeginDeploy_Save, Save, DeployingRecord, ReleaseTask, Finish
  <2>17. ASSUME NEW w \in Workers, Deploy_Load(w)
       PROVE  LocksHeld'
    BY <2>17 DEF Deploy_Load, EnterIf, EnterWith, Finish
  <2>18. ASSUME NEW w \in Workers, Deploy_SaveDeploying(w)
       PROVE  LocksHeld'
    BY <2>18 DEF Deploy_SaveDeploying, Save, DeployingRecord
  <2>19. ASSUME NEW w \in Workers, Deploy_LockApp(w)
       PROVE  LocksHeld'
    BY <2>19 DEF Deploy_LockApp, Goto
  <2>20. ASSUME NEW w \in Workers, Deploy_OverlayConfig(w)
       PROVE  LocksHeld'
    BY <2>20 DEF Deploy_OverlayConfig, Deploy_Overlay, Goto
  <2>21. ASSUME NEW w \in Workers, Deploy_OverlayPayload(w)
       PROVE  LocksHeld'
    BY <2>21 DEF Deploy_OverlayPayload, Deploy_Overlay, Goto
  <2>22. ASSUME NEW w \in Workers, Deploy_ComposeUp(w)
       PROVE  LocksHeld'
    BY <2>22 DEF Deploy_ComposeUp
  <2>23. ASSUME NEW w \in Workers, Deploy_Raises(w)
       PROVE  LocksHeld'
    BY <2>23 DEF Deploy_Raises
  <2>24. ASSUME NEW w \in Workers, Deploy_Save(w)
       PROVE  LocksHeld'
    BY <2>24 DEF Deploy_Save, Save, ReleaseTask, ReleaseApp, Finish
  <2>25. ASSUME NEW w \in Workers, Edit_Load(w)
       PROVE  LocksHeld'
    BY <2>25 DEF Edit_Load, EnterIf, EnterWith, Finish
  <2>26. ASSUME NEW w \in Workers, Edit_Save(w)
       PROVE  LocksHeld'
    BY <2>26 DEF Edit_Save, Save, ReleaseTask, Finish
  <2>27. ASSUME NEW w \in Workers, Edit_Raises(w)
       PROVE  LocksHeld'
    BY <2>27 DEF Edit_Raises, ReleaseTask, Finish
  <2>28. ASSUME NEW w \in Workers, Delete_Load(w)
       PROVE  LocksHeld'
    BY <2>28 DEF Delete_Load, EnterIf, EnterWith, Finish
  <2>29. ASSUME NEW w \in Workers, Discard_Load(w)
       PROVE  LocksHeld'
    BY <2>29 DEF Discard_Load, EnterIf, EnterWith, Finish
  <2>30. ASSUME NEW w \in Workers, Remove_Entry(w)
       PROVE  LocksHeld'
    BY <2>30 DEF Remove_Entry
  <2>31. ASSUME NEW w \in Workers, Remove_TreeGone(w)
       PROVE  LocksHeld'
    BY <2>31 DEF Remove_TreeGone, Goto
  <2>32. ASSUME NEW w \in Workers, Remove_Raises(w)
       PROVE  LocksHeld'
    BY <2>32 DEF Remove_Raises, Fault, ReleaseTask, Finish
  <2>33. ASSUME NEW w \in Workers, Remove_Unlink(w)
       PROVE  LocksHeld'
    BY <2>33 DEF Remove_Unlink, Save, ReleaseTask, Finish
  <2>34. ASSUME NEW w \in Workers, SaveRaises(w)
       PROVE  LocksHeld'
    BY <2>34 DEF SaveRaises, Fault, ReleaseTask, ReleaseApp, Finish
  <2>35. CASE Crash
    BY <2>35 DEF Crash
  <2>36. CASE UNCHANGED vars
    BY <2>36
  <2> HIDE DEF LocksHeld, UploadPC, WaitPC, LockedPC, RunPC, RemovePC, vars, diskVars, lockVars,
              localVars, histVars
  <2>37. QED
    BY <2>1, <2>2, <2>3, <2>4, <2>5, <2>6, <2>7, <2>8, <2>9, <2>10, <2>11, 
       <2>12, <2>13, <2>14, <2>15, <2>16, <2>17, <2>18, <2>19, <2>20, <2>21, 
       <2>22, <2>23, <2>24, <2>25, <2>26, <2>27, <2>28, <2>29, <2>30, <2>31, 
       <2>32, <2>33, <2>34, <2>35, <2>36
    DEF Next, Arrive, Start, Work, Upload_Step, Deploy_Step, Change_Step
<1> QED
  BY <1>1, <1>2, TypedInvariant, MemoryInvariant, PTL DEF Spec

-----------------------------------------------------------------------------
\* A reviewed task has a target.
LEMMA RecordInvariant == Spec => []RecordOK
<1>1. Init => RecordOK
  BY DEF Init, RecordOK, Absent
<1>2. Typed /\ MemoryOK /\ RecordOK /\ [Next]_vars => RecordOK'
  <2> SUFFICES ASSUME Typed, MemoryOK, RecordOK, [Next]_vars PROVE RecordOK'
    OBVIOUS
  <2>a. /\ mem \in [Workers -> Record] /\ record \in [Tasks -> Record]
        /\ cur \in [Workers -> Tasks \cup {NoTask}]
    BY DEF Typed, TypeOK
  <2> USE <2>a DEF RecordOK, MemoryOK, Record, Absent, vars, diskVars
  <2>1. ASSUME NEW w \in Workers, NEW t \in Tasks, Upload_Create(w, t)
       PROVE  RecordOK'
    BY <2>1 DEF Upload_Create, Save, UploadRecord
  <2>2. ASSUME NEW w \in Workers, NEW t \in Tasks, Request(w, t)
       PROVE  RecordOK'
    BY <2>2 DEF Request, Requests
  <2>3. ASSUME NEW w \in Workers, NEW t \in Tasks, Upload_CreateRaises(w, t)
       PROVE  RecordOK'
    BY <2>3 DEF Upload_CreateRaises, Fault
  <2>4. ASSUME NEW w \in Workers, NEW t \in Tasks, Deploy_Start(w, t)
       PROVE  RecordOK'
    BY <2>4 DEF Deploy_Start
  <2>5. ASSUME NEW w \in Workers, Upload_StoreArchive(w)
       PROVE  RecordOK'
    BY <2>5 DEF Upload_StoreArchive, Goto
  <2>6. ASSUME NEW w \in Workers, Upload_MarkExtracting(w)
       PROVE  RecordOK'
    BY <2>6 DEF Upload_MarkExtracting, Save, UploadRecord
  <2>7. ASSUME NEW w \in Workers, Upload_PrepareTree(w)
       PROVE  RecordOK'
    BY <2>7 DEF Upload_PrepareTree, Goto
  <2>8. ASSUME NEW w \in Workers, Upload_OpenArchive(w)
       PROVE  RecordOK'
    BY <2>8 DEF Upload_OpenArchive, Goto
  <2>9. ASSUME NEW w \in Workers, Upload_ExtractConfig(w)
       PROVE  RecordOK'
    BY <2>9 DEF Upload_ExtractConfig, Upload_Extract, Goto
  <2>10. ASSUME NEW w \in Workers, Upload_ExtractPayload(w)
       PROVE  RecordOK'
    BY <2>10 DEF Upload_ExtractPayload, Upload_Extract, Goto
  <2>11. ASSUME NEW w \in Workers, Upload_Review(w)
       PROVE  RecordOK'
    BY <2>11 DEF Upload_Review, UploadRecord
  <2>12. ASSUME NEW w \in Workers, Upload_SavePending(w)
       PROVE  RecordOK'
    BY <2>12 DEF Upload_SavePending, Save, Finish
  <2>13. ASSUME NEW w \in Workers, Upload_Raises(w)
       PROVE  RecordOK'
    BY <2>13 DEF Upload_Raises, Fault, UploadRecord
  <2>14. ASSUME NEW w \in Workers, Upload_SaveFailed(w)
       PROVE  RecordOK'
    BY <2>14 DEF Upload_SaveFailed, Save, Finish
  <2>15. ASSUME NEW w \in Workers, BeginDeploy_Load(w)
       PROVE  RecordOK'
    BY <2>15 DEF BeginDeploy_Load, EnterIf, EnterWith, Finish
  <2>16. ASSUME NEW w \in Workers, BeginDeploy_Save(w)
       PROVE  RecordOK'
    BY <2>16 DEF BeginDeploy_Save, Save, DeployingRecord, ReleaseTask, Finish
  <2>17. ASSUME NEW w \in Workers, Deploy_Load(w)
       PROVE  RecordOK'
    BY <2>17 DEF Deploy_Load, EnterIf, EnterWith, Finish
  <2>18. ASSUME NEW w \in Workers, Deploy_SaveDeploying(w)
       PROVE  RecordOK'
    BY <2>18 DEF Deploy_SaveDeploying, Save, DeployingRecord
  <2>19. ASSUME NEW w \in Workers, Deploy_LockApp(w)
       PROVE  RecordOK'
    BY <2>19 DEF Deploy_LockApp, Goto
  <2>20. ASSUME NEW w \in Workers, Deploy_OverlayConfig(w)
       PROVE  RecordOK'
    BY <2>20 DEF Deploy_OverlayConfig, Deploy_Overlay, Goto
  <2>21. ASSUME NEW w \in Workers, Deploy_OverlayPayload(w)
       PROVE  RecordOK'
    BY <2>21 DEF Deploy_OverlayPayload, Deploy_Overlay, Goto
  <2>22. ASSUME NEW w \in Workers, Deploy_ComposeUp(w)
       PROVE  RecordOK'
    BY <2>22 DEF Deploy_ComposeUp
  <2>23. ASSUME NEW w \in Workers, Deploy_Raises(w)
       PROVE  RecordOK'
    BY <2>23 DEF Deploy_Raises
  <2>24. ASSUME NEW w \in Workers, Deploy_Save(w)
       PROVE  RecordOK'
    BY <2>24 DEF Deploy_Save, Save, ReleaseTask, ReleaseApp, Finish
  <2>25. ASSUME NEW w \in Workers, Edit_Load(w)
       PROVE  RecordOK'
    BY <2>25 DEF Edit_Load, EnterIf, EnterWith, Finish
  <2>26. ASSUME NEW w \in Workers, Edit_Save(w)
       PROVE  RecordOK'
    BY <2>26 DEF Edit_Save, Save, ReleaseTask, Finish
  <2>27. ASSUME NEW w \in Workers, Edit_Raises(w)
       PROVE  RecordOK'
    BY <2>27 DEF Edit_Raises, ReleaseTask, Finish
  <2>28. ASSUME NEW w \in Workers, Delete_Load(w)
       PROVE  RecordOK'
    BY <2>28 DEF Delete_Load, EnterIf, EnterWith, Finish
  <2>29. ASSUME NEW w \in Workers, Discard_Load(w)
       PROVE  RecordOK'
    BY <2>29 DEF Discard_Load, EnterIf, EnterWith, Finish
  <2>30. ASSUME NEW w \in Workers, Remove_Entry(w)
       PROVE  RecordOK'
    BY <2>30 DEF Remove_Entry
  <2>31. ASSUME NEW w \in Workers, Remove_TreeGone(w)
       PROVE  RecordOK'
    BY <2>31 DEF Remove_TreeGone, Goto
  <2>32. ASSUME NEW w \in Workers, Remove_Raises(w)
       PROVE  RecordOK'
    BY <2>32 DEF Remove_Raises, Fault, ReleaseTask, Finish
  <2>33. ASSUME NEW w \in Workers, Remove_Unlink(w)
       PROVE  RecordOK'
    BY <2>33 DEF Remove_Unlink, Save, ReleaseTask, Finish
  <2>34. ASSUME NEW w \in Workers, SaveRaises(w)
       PROVE  RecordOK'
    BY <2>34 DEF SaveRaises, Fault, ReleaseTask, ReleaseApp, Finish
  <2>35. CASE Crash
    BY <2>35 DEF Crash
  <2>36. CASE UNCHANGED vars
    BY <2>36
  <2> HIDE DEF RecordOK, MemoryOK, Record, Absent, vars, diskVars
  <2>37. QED
    BY <2>1, <2>2, <2>3, <2>4, <2>5, <2>6, <2>7, <2>8, <2>9, <2>10, <2>11, 
       <2>12, <2>13, <2>14, <2>15, <2>16, <2>17, <2>18, <2>19, <2>20, <2>21, 
       <2>22, <2>23, <2>24, <2>25, <2>26, <2>27, <2>28, <2>29, <2>30, <2>31, 
       <2>32, <2>33, <2>34, <2>35, <2>36
    DEF Next, Arrive, Start, Work, Upload_Step, Deploy_Step, Change_Step
<1> QED
  BY <1>1, <1>2, TypedInvariant, MemoryInvariant, PTL DEF Spec

-----------------------------------------------------------------------------
(* An upload, which takes no lock, and the operations inside a task lock   *)
(* stay out of each other's way.                                           *)

Exclusion == UploadAlone /\ NoLostUpdate
Context == Typed /\ MemoryOK /\ LocksHeld /\ Exclusion

\* Two workers inside the lock of the same task are one worker, and only a
\* discard of an "uploaded" task is inside it while that task is uploaded.
LEMMA Separation ==
  ASSUME Context, NEW v \in Workers, NEW w \in Workers, cur[v] = cur[w],
         pc[v] \in LockedPC
  PROVE  /\ pc[w] \in LockedPC => v = w
         /\ pc[w] \in UploadPC => pc[v] \in RemovePC /\ mem[v].status = "uploaded"
<1>1. pc[w] \in LockedPC => v = w
  BY DEF Context, LocksHeld
<1>2. ASSUME pc[w] \in UploadPC
      PROVE  pc[v] \in RemovePC /\ mem[v].status = "uploaded"
  <2>1. record[cur[v]].status \in {"absent", "uploaded", "extracting"}
    BY <1>2 DEF Context, Exclusion, UploadAlone
  <2>2. LoadedIsCurrent(v)
    BY DEF Context, Exclusion, NoLostUpdate
  <2>3. CASE pc[v] = "dep_save"
    BY <2>1, <2>2, <2>3 DEF LoadedIsCurrent
  <2>4. CASE pc[v] \in LockedPC \ (RemovePC \cup {"dep_save"})
    <3>1. mem[v].status \in {"pending_review", "failed", "deploying"}
      BY <2>4 DEF Context, MemoryOK, LockedPC, RunPC
    <3> QED
      BY <2>1, <2>2, <2>4, <3>1 DEF LoadedIsCurrent
  <2>5. CASE pc[v] \in RemovePC
    BY <2>1, <2>2, <2>5 DEF LoadedIsCurrent, Context, MemoryOK
  <2> QED
    BY <2>3, <2>4, <2>5
<1> QED
  BY <1>1, <1>2

\* The other workers neither move nor see anything else than one record change.
OthersStay(w) ==
  \A v \in Workers \ {w} : pc'[v] = pc[v] /\ cur'[v] = cur[v] /\ mem'[v] = mem[v]

\* A save by an uploading worker or inside the task lock leaves what the
\* other workers loaded current.
LEMMA SaveKeepsOthers ==
  ASSUME Context, NEW w \in Workers, NEW r, OthersStay(w),
         pc[w] \in UploadPC \/ pc[w] \in LockedPC, Save(cur[w], r)
  PROVE  \A v \in Workers \ {w} : LoadedIsCurrent(v)'
<1> SUFFICES ASSUME NEW v \in Workers \ {w} PROVE LoadedIsCurrent(v)'
  OBVIOUS
<1>1. LoadedIsCurrent(v)
  BY DEF Context, Exclusion, NoLostUpdate
<1>2. pc'[v] = pc[v] /\ cur'[v] = cur[v] /\ mem'[v] = mem[v]
  BY DEF OthersStay
<1>3. CASE cur[v] = cur[w] /\ pc[v] \in LockedPC
  <2>1. pc[v] \in RemovePC /\ mem[v].status = "uploaded"
    BY <1>3, Separation
  <2> QED
    BY <1>2, <2>1 DEF LoadedIsCurrent, RemovePC
<1>4. CASE cur[v] # cur[w] \/ pc[v] \notin LockedPC
  <2>1. pc[v] \in LockedPC => cur[v] \in Tasks /\ record'[cur[v]] = record[cur[v]]
    BY <1>4 DEF Save, Context, Typed, TypeOK, Occupied, LockedPC, RunPC, RemovePC
  <2> QED
    BY <1>1, <1>2, <2>1 DEF LoadedIsCurrent, LockedPC, RunPC
<1> QED
  BY <1>3, <1>4

\* Nothing but one worker's own position changes and no record does.
LEMMA NoSaveKeepsOthers ==
  ASSUME Context, NEW w \in Workers, OthersStay(w), UNCHANGED record
  PROVE  \A v \in Workers \ {w} : LoadedIsCurrent(v)'
BY DEF Context, Exclusion, NoLostUpdate, OthersStay, LoadedIsCurrent

\* The uploads of the other workers are not disturbed by a save of one that
\* uploads another task or is inside a task lock.
UploadOK(w) ==
  pc[w] \in UploadPC =>
    /\ record[cur[w]].status \in {"absent", "uploaded", "extracting"}
    /\ \A u \in Workers : pc[u] \in UploadPC /\ cur[u] = cur[w] => u = w

LEMMA SaveKeepsUploads ==
  ASSUME Context, NEW w \in Workers, NEW r, OthersStay(w),
         pc[w] \in UploadPC \/ pc[w] \in LockedPC, pc[w] \in RemovePC => r = Absent,
         Save(cur[w], r),
         pc'[w] \in UploadPC => pc[w] \in UploadPC /\ cur'[w] = cur[w]
  PROVE  \A v \in Workers \ {w} : UploadOK(v)'
<1> SUFFICES ASSUME NEW v \in Workers \ {w}, pc[v] \in UploadPC PROVE UploadOK(v)'
  BY DEF OthersStay, UploadOK
<1>1. UploadOK(v)
  BY DEF Context, Exclusion, UploadAlone, UploadOK
<1>2. cur[v] \in Tasks /\ record \in [Tasks -> Record]
  BY DEF Context, Typed, TypeOK, Occupied, UploadPC
<1>3. cur[v] # cur[w] \/ r = Absent
  <2>1. ASSUME cur[v] = cur[w] PROVE r = Absent
    BY <1>1, <2>1, Separation DEF UploadOK
  <2> QED
    BY <2>1
<1>4. record'[cur[v]].status \in {"absent", "uploaded", "extracting"}
  BY <1>1, <1>2, <1>3 DEF Save, UploadOK, Absent
<1>5. \A u \in Workers : pc'[u] \in UploadPC /\ cur'[u] = cur[v] => u = v
  BY <1>1 DEF OthersStay, UploadOK
<1> QED
  BY <1>4, <1>5 DEF UploadOK, OthersStay

LEMMA NoSaveKeepsUploads ==
  ASSUME Context, NEW w \in Workers, OthersStay(w), UNCHANGED record,
         pc'[w] \in UploadPC => pc[w] \in UploadPC /\ cur'[w] = cur[w]
  PROVE  \A v \in Workers : UploadOK(v)'
BY DEF Context, Exclusion, UploadAlone, UploadOK, OthersStay

LEMMA ExclusionParts ==
  ASSUME NEW w \in Workers,
         \A v \in Workers \ {w} : LoadedIsCurrent(v)' /\ UploadOK(v)',
         LoadedIsCurrent(w)', UploadOK(w)'
  PROVE  Exclusion'
BY DEF Exclusion, UploadAlone, NoLostUpdate, UploadOK

LEMMA FinishLeaves ==
  ASSUME Context, NEW w \in Workers, Finish(w)
  PROVE  /\ OthersStay(w) /\ pc'[w] = "idle"
         /\ LoadedIsCurrent(w)' /\ UploadOK(w)'
<1>1. OthersStay(w) /\ pc'[w] = "idle"
  BY DEF Context, Typed, TypeOK, Finish, OthersStay
<1> QED
  BY <1>1 DEF LoadedIsCurrent, UploadOK, UploadPC, LockedPC, RunPC, RemovePC

\* An operation ends with a save, or without one.
LEMMA SaveAndFinish ==
  ASSUME Context, NEW w \in Workers, NEW r, Finish(w), Save(cur[w], r),
         pc[w] \in UploadPC \/ pc[w] \in LockedPC, pc[w] \in RemovePC => r = Absent
  PROVE  Exclusion'
<1>1. OthersStay(w) /\ LoadedIsCurrent(w)' /\ UploadOK(w)' /\ pc'[w] \notin UploadPC
  BY FinishLeaves DEF UploadPC
<1>2. \A v \in Workers \ {w} : LoadedIsCurrent(v)'
  BY <1>1, SaveKeepsOthers DEF LockedPC
<1>3. \A v \in Workers \ {w} : UploadOK(v)'
  BY <1>1, SaveKeepsUploads
<1> QED
  BY <1>1, <1>2, <1>3, ExclusionParts

LEMMA FinishWithoutSave ==
  ASSUME Context, NEW w \in Workers, Finish(w), UNCHANGED record
  PROVE  Exclusion'
<1>1. OthersStay(w) /\ LoadedIsCurrent(w)' /\ UploadOK(w)' /\ pc'[w] \notin UploadPC
  BY FinishLeaves DEF UploadPC
<1> QED
  BY <1>1, NoSaveKeepsOthers, NoSaveKeepsUploads, ExclusionParts

LEMMA EntersKeepsExclusion ==
  ASSUME Context, NEW w \in Workers, Enters(w)
  PROVE  Exclusion'
<1>1. CASE Finish(w)
  BY <1>1, FinishWithoutSave DEF Enters, diskVars
<1>2. ASSUME NEW l \in LockedPC \ {"dep_save"}, EnterWith(w, l)
      PROVE  Exclusion'
  <2>1. /\ OthersStay(w) /\ UNCHANGED <<record, cur>>
        /\ pc'[w] = l /\ mem'[w] = record[cur[w]]
    BY <1>2 DEF Enters, EnterWith, diskVars, Context, Typed, TypeOK, OthersStay
  <2>2. LoadedIsCurrent(w)'
    BY <2>1 DEF LoadedIsCurrent, RemovePC
  <2>3. UploadOK(w)' /\ pc'[w] \notin UploadPC
    BY <2>1 DEF UploadOK, UploadPC, LockedPC, RunPC, RemovePC
  <2> QED
    BY <2>1, <2>2, <2>3, NoSaveKeepsOthers, NoSaveKeepsUploads, ExclusionParts
<1> QED
  BY <1>1, <1>2 DEF Enters

\* A step inside an operation that saves nothing and stays in its kind of
\* program points.
LEMMA StepKeepsExclusion ==
  ASSUME Context, NEW w \in Workers, UNCHANGED <<record, cur>>, OthersStay(w),
         \/ pc[w] \in UploadPC /\ pc'[w] \in UploadPC
         \/ pc[w] \in RemovePC /\ pc'[w] \in RemovePC /\ mem'[w] = mem[w]
  PROVE  Exclusion'
<1>1. LoadedIsCurrent(w) /\ UploadOK(w)
  BY DEF Context, Exclusion, NoLostUpdate, UploadAlone, UploadOK
<1>2. LoadedIsCurrent(w)'
  BY <1>1 DEF LoadedIsCurrent, UploadPC, LockedPC, RunPC, RemovePC
<1> QED
  BY <1>2, NoSaveKeepsOthers, NoSaveKeepsUploads, ExclusionParts DEF UploadPC, RemovePC

THEOREM ExclusionInvariant == Spec => []Exclusion
<1>1. Init => Exclusion
  BY DEF Init, Exclusion, UploadAlone, NoLostUpdate, LoadedIsCurrent, UploadPC, LockedPC, RunPC,
         RemovePC
<1>2. Context /\ [Next]_vars => Exclusion'
  <2> SUFFICES ASSUME Context, [Next]_vars PROVE Exclusion'
    OBVIOUS
  <2>a. /\ mem \in [Workers -> Record] /\ record \in [Tasks -> Record]
        /\ pc \in [Workers -> PC]
        /\ cur \in [Workers -> Tasks \cup {NoTask}]
        /\ \A w \in Workers : LoadedIsCurrent(w) /\ UploadOK(w)
        /\ \A w \in Workers : pc[w] # "idle" => cur[w] \in Tasks
    BY DEF Context, Typed, TypeOK, Occupied, Exclusion, NoLostUpdate, UploadAlone, UploadOK
  <2> USE <2>a DEF UploadPC, LockedPC, RunPC, RemovePC
  <2>1. ASSUME NEW w \in Workers, NEW t \in Tasks, Upload_Create(w, t)
       PROVE  Exclusion'
    <3>1. /\ OthersStay(w) /\ cur'[w] = t /\ pc'[w] = "up_store"
          /\ \A v \in Workers : cur[v] # t
          /\ record' = [record EXCEPT ![t] = UploadRecord("uploaded", "none", NoApp)]
      BY <2>1 DEF Upload_Create, OthersStay, Fresh, Save
    <3>2. ASSUME NEW v \in Workers \ {w}
          PROVE  LoadedIsCurrent(v)' /\ UploadOK(v)'
      <4>1. pc[v] # "idle" => record'[cur[v]] = record[cur[v]]
        BY <3>1
      <4>2. pc'[v] = pc[v] /\ cur'[v] = cur[v] /\ mem'[v] = mem[v]
        BY <3>1 DEF OthersStay
      <4>3. LoadedIsCurrent(v)'
        BY <4>1, <4>2 DEF LoadedIsCurrent
      <4>4. UploadOK(v)'
        BY <3>1, <4>1, <4>2 DEF UploadOK, OthersStay
      <4> QED
        BY <4>3, <4>4
    <3>3. LoadedIsCurrent(w)' /\ UploadOK(w)'
      BY <3>1 DEF LoadedIsCurrent, UploadOK, UploadRecord, OthersStay
    <3> QED
      BY <3>2, <3>3, ExclusionParts
  <2>2. ASSUME NEW w \in Workers, NEW t \in Tasks, Request(w, t)
       PROVE  Exclusion'
    <3>1. /\ OthersStay(w) /\ UNCHANGED record
          /\ pc'[w] \notin UploadPC /\ LoadedIsCurrent(w)' /\ UploadOK(w)'
      BY <2>2 DEF Request, Requests, OthersStay, diskVars, LoadedIsCurrent, UploadOK
    <3> QED
      BY <3>1, NoSaveKeepsOthers, NoSaveKeepsUploads, ExclusionParts
  <2>3. ASSUME NEW w \in Workers, NEW t \in Tasks, Upload_CreateRaises(w, t)
       PROVE  Exclusion'
    BY <2>3 DEF Upload_CreateRaises, localVars, Context, Exclusion, UploadAlone, NoLostUpdate,
            LoadedIsCurrent
  <2>4. ASSUME NEW w \in Workers, NEW t \in Tasks, Deploy_Start(w, t)
       PROVE  Exclusion'
    <3>1. /\ OthersStay(w) /\ UNCHANGED record
          /\ pc'[w] \notin UploadPC /\ LoadedIsCurrent(w)' /\ UploadOK(w)'
      BY <2>4 DEF Deploy_Start, OthersStay, diskVars, LoadedIsCurrent, UploadOK
    <3> QED
      BY <3>1, NoSaveKeepsOthers, NoSaveKeepsUploads, ExclusionParts
  <2>5. ASSUME NEW w \in Workers, Upload_StoreArchive(w)
       PROVE  Exclusion'
    BY <2>5, StepKeepsExclusion DEF Upload_StoreArchive, Goto, OthersStay, diskVars
  <2>6. ASSUME NEW w \in Workers, Upload_MarkExtracting(w)
       PROVE  Exclusion'
    <3>1. /\ OthersStay(w) /\ UNCHANGED cur /\ pc'[w] = "up_prepare"
          /\ Save(cur[w], UploadRecord("extracting", "none", NoApp))
      BY <2>6 DEF Upload_MarkExtracting, OthersStay
    <3>2. \A v \in Workers \ {w} : LoadedIsCurrent(v)' /\ UploadOK(v)'
      BY <2>6, <3>1, SaveKeepsOthers, SaveKeepsUploads DEF Upload_MarkExtracting
    <3>3. LoadedIsCurrent(w)'
      BY <3>1 DEF LoadedIsCurrent
    <3>4. UploadOK(w)'
      BY <2>6, <3>1 DEF Upload_MarkExtracting, UploadOK, Save, UploadRecord, OthersStay
    <3> QED
      BY <3>2, <3>3, <3>4, ExclusionParts
  <2>7. ASSUME NEW w \in Workers, Upload_PrepareTree(w)
       PROVE  Exclusion'
    BY <2>7, StepKeepsExclusion DEF Upload_PrepareTree, Goto, OthersStay, diskVars
  <2>8. ASSUME NEW w \in Workers, Upload_OpenArchive(w)
       PROVE  Exclusion'
    BY <2>8, StepKeepsExclusion DEF Upload_OpenArchive, Goto, OthersStay, diskVars
  <2>9. ASSUME NEW w \in Workers, Upload_ExtractConfig(w)
       PROVE  Exclusion'
    BY <2>9, StepKeepsExclusion DEF Upload_ExtractConfig, Upload_Extract, Goto, OthersStay, diskVars
  <2>10. ASSUME NEW w \in Workers, Upload_ExtractPayload(w)
       PROVE  Exclusion'
    BY <2>10, StepKeepsExclusion DEF Upload_ExtractPayload, Upload_Extract, Goto, OthersStay, diskVars
  <2>11. ASSUME NEW w \in Workers, Upload_Review(w)
       PROVE  Exclusion'
    BY <2>11, StepKeepsExclusion DEF Upload_Review, OthersStay, diskVars
  <2>12. ASSUME NEW w \in Workers, Upload_SavePending(w)
       PROVE  Exclusion'
    BY <2>12, SaveAndFinish DEF Upload_SavePending
  <2>13. ASSUME NEW w \in Workers, Upload_Raises(w)
       PROVE  Exclusion'
    BY <2>13, StepKeepsExclusion DEF Upload_Raises, OthersStay, diskVars
  <2>14. ASSUME NEW w \in Workers, Upload_SaveFailed(w)
       PROVE  Exclusion'
    BY <2>14, SaveAndFinish DEF Upload_SaveFailed
  <2>15. ASSUME NEW w \in Workers, BeginDeploy_Load(w)
       PROVE  Exclusion'
    BY <2>15, LoadEnters, EntersKeepsExclusion
  <2>16. ASSUME NEW w \in Workers, BeginDeploy_Save(w)
       PROVE  Exclusion'
    BY <2>16, SaveAndFinish DEF BeginDeploy_Save
  <2>17. ASSUME NEW w \in Workers, Deploy_Load(w)
       PROVE  Exclusion'
    BY <2>17, LoadEnters, EntersKeepsExclusion
  <2>18. ASSUME NEW w \in Workers, Deploy_SaveDeploying(w)
       PROVE  Exclusion'
    <3>1. /\ OthersStay(w) /\ UNCHANGED cur /\ pc'[w] = "dep_app"
          /\ Save(cur[w], DeployingRecord(mem[w]))
      BY <2>18 DEF Deploy_SaveDeploying, OthersStay
    <3>2. \A v \in Workers \ {w} : LoadedIsCurrent(v)' /\ UploadOK(v)'
      BY <2>18, <3>1, SaveKeepsOthers, SaveKeepsUploads DEF Deploy_SaveDeploying
    <3>3. LoadedIsCurrent(w)' /\ UploadOK(w)'
      BY <2>18, <3>1 DEF Deploy_SaveDeploying, LoadedIsCurrent, UploadOK, Save
    <3> QED
      BY <3>2, <3>3, ExclusionParts
  <2>19. ASSUME NEW w \in Workers, Deploy_LockApp(w)
       PROVE  Exclusion'
    <3>1. /\ OthersStay(w) /\ UNCHANGED <<record, cur>>
          /\ pc'[w] \notin UploadPC /\ LoadedIsCurrent(w)' /\ UploadOK(w)'
      BY <2>19 DEF Deploy_LockApp, Goto, OthersStay, diskVars, LoadedIsCurrent, UploadOK
    <3> QED
      BY <3>1, NoSaveKeepsOthers, NoSaveKeepsUploads, ExclusionParts
  <2>20. ASSUME NEW w \in Workers, Deploy_OverlayConfig(w)
       PROVE  Exclusion'
    <3>1. /\ OthersStay(w) /\ UNCHANGED <<record, cur>>
          /\ pc'[w] \notin UploadPC /\ LoadedIsCurrent(w)' /\ UploadOK(w)'
      BY <2>20 DEF Deploy_OverlayConfig, Deploy_Overlay, Goto, OthersStay, diskVars, LoadedIsCurrent, UploadOK
    <3> QED
      BY <3>1, NoSaveKeepsOthers, NoSaveKeepsUploads, ExclusionParts
  <2>21. ASSUME NEW w \in Workers, Deploy_OverlayPayload(w)
       PROVE  Exclusion'
    <3>1. /\ OthersStay(w) /\ UNCHANGED <<record, cur>>
          /\ pc'[w] \notin UploadPC /\ LoadedIsCurrent(w)' /\ UploadOK(w)'
      BY <2>21 DEF Deploy_OverlayPayload, Deploy_Overlay, Goto, OthersStay, diskVars, LoadedIsCurrent, UploadOK
    <3> QED
      BY <3>1, NoSaveKeepsOthers, NoSaveKeepsUploads, ExclusionParts
  <2>22. ASSUME NEW w \in Workers, Deploy_ComposeUp(w)
       PROVE  Exclusion'
    <3>1. /\ OthersStay(w) /\ UNCHANGED <<record, cur>>
          /\ pc'[w] \notin UploadPC /\ LoadedIsCurrent(w)' /\ UploadOK(w)'
      BY <2>22 DEF Context, MemoryOK, Deploy_ComposeUp, OthersStay, diskVars, LoadedIsCurrent, UploadOK
    <3> QED
      BY <3>1, NoSaveKeepsOthers, NoSaveKeepsUploads, ExclusionParts
  <2>23. ASSUME NEW w \in Workers, Deploy_Raises(w)
       PROVE  Exclusion'
    <3>1. /\ OthersStay(w) /\ UNCHANGED <<record, cur>>
          /\ pc'[w] \notin UploadPC /\ LoadedIsCurrent(w)' /\ UploadOK(w)'
      BY <2>23 DEF Context, MemoryOK, Deploy_Raises, OthersStay, diskVars, LoadedIsCurrent, UploadOK
    <3> QED
      BY <3>1, NoSaveKeepsOthers, NoSaveKeepsUploads, ExclusionParts
  <2>24. ASSUME NEW w \in Workers, Deploy_Save(w)
       PROVE  Exclusion'
    BY <2>24, SaveAndFinish DEF Deploy_Save
  <2>25. ASSUME NEW w \in Workers, Edit_Load(w)
       PROVE  Exclusion'
    BY <2>25, LoadEnters, EntersKeepsExclusion
  <2>26. ASSUME NEW w \in Workers, Edit_Save(w)
       PROVE  Exclusion'
    BY <2>26, SaveAndFinish DEF Edit_Save
  <2>27. ASSUME NEW w \in Workers, Edit_Raises(w)
       PROVE  Exclusion'
    BY <2>27, FinishWithoutSave DEF Edit_Raises, diskVars
  <2>28. ASSUME NEW w \in Workers, Delete_Load(w)
       PROVE  Exclusion'
    BY <2>28, LoadEnters, EntersKeepsExclusion
  <2>29. ASSUME NEW w \in Workers, Discard_Load(w)
       PROVE  Exclusion'
    BY <2>29, LoadEnters, EntersKeepsExclusion
  <2>30. ASSUME NEW w \in Workers, Remove_Entry(w)
       PROVE  Exclusion'
    BY <2>30, StepKeepsExclusion DEF Remove_Entry, OthersStay, localVars
  <2>31. ASSUME NEW w \in Workers, Remove_TreeGone(w)
       PROVE  Exclusion'
    BY <2>31, StepKeepsExclusion DEF Remove_TreeGone, Goto, OthersStay, diskVars
  <2>32. ASSUME NEW w \in Workers, Remove_Raises(w)
       PROVE  Exclusion'
    BY <2>32, FinishWithoutSave DEF Remove_Raises, diskVars
  <2>33. ASSUME NEW w \in Workers, Remove_Unlink(w)
       PROVE  Exclusion'
    BY <2>33, SaveAndFinish DEF Remove_Unlink
  <2>34. ASSUME NEW w \in Workers, SaveRaises(w)
       PROVE  Exclusion'
    BY <2>34, FinishWithoutSave DEF SaveRaises, diskVars
  <2>35. CASE Crash
    BY <2>35 DEF Crash, Exclusion, UploadAlone, NoLostUpdate, LoadedIsCurrent
  <2>36. CASE UNCHANGED vars
    BY <2>36 DEF vars, diskVars, localVars, Exclusion, UploadAlone, NoLostUpdate, LoadedIsCurrent, UploadOK
  <2> HIDE DEF UploadPC, LockedPC, RunPC, RemovePC
  <2>37. QED
    BY <2>1, <2>2, <2>3, <2>4, <2>5, <2>6, <2>7, <2>8, <2>9, <2>10, <2>11, 
       <2>12, <2>13, <2>14, <2>15, <2>16, <2>17, <2>18, <2>19, <2>20, <2>21, 
       <2>22, <2>23, <2>24, <2>25, <2>26, <2>27, <2>28, <2>29, <2>30, <2>31, 
       <2>32, <2>33, <2>34, <2>35, <2>36
    DEF Next, Arrive, Start, Work, Upload_Step, Deploy_Step, Change_Step
<1>3. QED
  BY <1>1, <1>2, TypedInvariant, MemoryInvariant, LockInvariant, PTL DEF Spec, Context

\* IInv, the inductive invariant the runs check: a worker is inside the locks
\* its program counter says, what it holds in memory fits its step and is still
\* what the record file holds, and an upload, which takes no lock, is alone
\* with its record.
THEOREM InductiveInvariant == Spec => []IInv
<1>1. Typed /\ MemoryOK /\ LocksHeld /\ RecordOK /\ Exclusion => IInv
  BY DEF Typed, Exclusion, IInv
<1> QED
  BY <1>1, TypedInvariant, MemoryInvariant, LockInvariant, RecordInvariant,
     ExclusionInvariant, PTL

\* No save of one thread overwrites what another has saved since it loaded
\* the record: deploy, begin_deploy, edit_configuration and delete_task work
\* on the current record, with no lock in upload.
THEOREM NoLostUpdateHolds == Spec => []NoLostUpdate
<1>1. Exclusion => NoLostUpdate
  BY DEF Exclusion
<1> QED
  BY <1>1, ExclusionInvariant, PTL

-----------------------------------------------------------------------------
(* A removal that returned is final. *)

Gone(t) == removedFrom[t] \notin {"absent", "uploaded"}

\* Threads that named the task before are still waiting for its lock, and the
\* last step of a removal comes after the whole tree is gone.
GoneInv ==
  /\ \A t \in Tasks : Gone(t) =>
       /\ record[t] = Absent /\ pkg[t] = {}
       /\ \A w \in Workers : cur[w] = t => pc[w] \in WaitPC
  /\ \A w \in Workers :
       pc[w] = "rm_unlink" /\ mem[w].status # "uploaded" => pkg[cur[w]] = {}

LEMMA GoneInvariant == Spec => []GoneInv
<1>1. Init => GoneInv
  BY DEF Init, GoneInv, Gone
<1>2. Context /\ GoneInv /\ [Next]_vars => GoneInv'
  <2> SUFFICES ASSUME Context, GoneInv, [Next]_vars PROVE GoneInv'
    OBVIOUS
  <2>a. /\ mem \in [Workers -> Record] /\ record \in [Tasks -> Record]
        /\ pc \in [Workers -> PC] /\ pkg \in [Tasks -> SUBSET Entries]
        /\ cur \in [Workers -> Tasks \cup {NoTask}]
        /\ removedFrom \in [Tasks -> Status]
        /\ \A w \in Workers : pc[w] = "idle" <=> cur[w] = NoTask
    BY DEF Context, Typed, TypeOK, Occupied
  <2>b. \A w \in Workers : pc[w] \in LockedPC \cup UploadPC => ~Gone(cur[w]) /\ cur[w] \in Tasks
    BY <2>a DEF GoneInv, LockedPC, RunPC, RemovePC, UploadPC, WaitPC
  <2>c. \A v \in Workers, w \in Workers :
          cur[v] = cur[w] /\ pc[v] \in LockedPC =>
            /\ pc[w] \in LockedPC => v = w
            /\ pc[w] \in UploadPC => mem[v].status = "uploaded"
    BY Separation
  <2>d. \A w \in Workers : pc[w] \in RemovePC => record[cur[w]].status # "absent" \/ mem[w].status = "uploaded"
    BY DEF Context, MemoryOK, Exclusion, NoLostUpdate, LoadedIsCurrent
  <2> USE <2>a, <2>b, <2>c, NullAssumption
      DEF GoneInv, Gone, UploadPC, WaitPC, LockedPC, RunPC, RemovePC, vars, diskVars, lockVars,
          localVars, histVars
  <2>1. ASSUME NEW w \in Workers, NEW t \in Tasks, Upload_Create(w, t)
       PROVE  GoneInv'
    BY <2>1 DEF Upload_Create, Save, UploadRecord, Fresh
  <2>2. ASSUME NEW w \in Workers, NEW t \in Tasks, Request(w, t)
       PROVE  GoneInv'
    BY <2>2 DEF Request, Requests
  <2>3. ASSUME NEW w \in Workers, NEW t \in Tasks, Upload_CreateRaises(w, t)
       PROVE  GoneInv'
    BY <2>3 DEF Upload_CreateRaises, Fault, Fresh
  <2>4. ASSUME NEW w \in Workers, NEW t \in Tasks, Deploy_Start(w, t)
       PROVE  GoneInv'
    BY <2>4 DEF Deploy_Start
  <2>5. ASSUME NEW w \in Workers, Upload_StoreArchive(w)
       PROVE  GoneInv'
    BY <2>5 DEF Upload_StoreArchive, Goto
  <2>6. ASSUME NEW w \in Workers, Upload_MarkExtracting(w)
       PROVE  GoneInv'
    BY <2>6 DEF Upload_MarkExtracting, Save, UploadRecord
  <2>7. ASSUME NEW w \in Workers, Upload_PrepareTree(w)
       PROVE  GoneInv'
    BY <2>7 DEF Upload_PrepareTree, Goto
  <2>8. ASSUME NEW w \in Workers, Upload_OpenArchive(w)
       PROVE  GoneInv'
    BY <2>8 DEF Upload_OpenArchive, Goto
  <2>9. ASSUME NEW w \in Workers, Upload_ExtractConfig(w)
       PROVE  GoneInv'
    BY <2>9 DEF Upload_ExtractConfig, Upload_Extract, Goto
  <2>10. ASSUME NEW w \in Workers, Upload_ExtractPayload(w)
       PROVE  GoneInv'
    BY <2>10 DEF Upload_ExtractPayload, Upload_Extract, Goto
  <2>11. ASSUME NEW w \in Workers, Upload_Review(w)
       PROVE  GoneInv'
    BY <2>11 DEF Upload_Review, UploadRecord
  <2>12. ASSUME NEW w \in Workers, Upload_SavePending(w)
       PROVE  GoneInv'
    BY <2>12 DEF Upload_SavePending, Save, Finish
  <2>13. ASSUME NEW w \in Workers, Upload_Raises(w)
       PROVE  GoneInv'
    BY <2>13 DEF Upload_Raises, Fault, UploadRecord
  <2>14. ASSUME NEW w \in Workers, Upload_SaveFailed(w)
       PROVE  GoneInv'
    BY <2>14 DEF Upload_SaveFailed, Save, Finish
  <2>15. ASSUME NEW w \in Workers, BeginDeploy_Load(w)
       PROVE  GoneInv'
    BY <2>15 DEF BeginDeploy_Load, EnterIf, EnterWith, Finish, can_retry_task, is_recoverable_failure, Absent
  <2>16. ASSUME NEW w \in Workers, BeginDeploy_Save(w)
       PROVE  GoneInv'
    BY <2>16 DEF BeginDeploy_Save, Save, DeployingRecord, ReleaseTask, Finish
  <2>17. ASSUME NEW w \in Workers, Deploy_Load(w)
       PROVE  GoneInv'
    BY <2>17 DEF Deploy_Load, EnterIf, EnterWith, Finish, can_retry_task, is_recoverable_failure, Absent
  <2>18. ASSUME NEW w \in Workers, Deploy_SaveDeploying(w)
       PROVE  GoneInv'
    BY <2>18 DEF Deploy_SaveDeploying, Save, DeployingRecord
  <2>19. ASSUME NEW w \in Workers, Deploy_LockApp(w)
       PROVE  GoneInv'
    BY <2>19 DEF Deploy_LockApp, Goto
  <2>20. ASSUME NEW w \in Workers, Deploy_OverlayConfig(w)
       PROVE  GoneInv'
    BY <2>20 DEF Deploy_OverlayConfig, Deploy_Overlay, Goto
  <2>21. ASSUME NEW w \in Workers, Deploy_OverlayPayload(w)
       PROVE  GoneInv'
    BY <2>21 DEF Deploy_OverlayPayload, Deploy_Overlay, Goto
  <2>22. ASSUME NEW w \in Workers, Deploy_ComposeUp(w)
       PROVE  GoneInv'
    BY <2>22 DEF Deploy_ComposeUp
  <2>23. ASSUME NEW w \in Workers, Deploy_Raises(w)
       PROVE  GoneInv'
    BY <2>23 DEF Deploy_Raises
  <2>24. ASSUME NEW w \in Workers, Deploy_Save(w)
       PROVE  GoneInv'
    BY <2>24 DEF Deploy_Save, Save, ReleaseTask, ReleaseApp, Finish
  <2>25. ASSUME NEW w \in Workers, Edit_Load(w)
       PROVE  GoneInv'
    BY <2>25 DEF Edit_Load, EnterIf, EnterWith, Finish, can_edit_task, is_recoverable_failure, Absent
  <2>26. ASSUME NEW w \in Workers, Edit_Save(w)
       PROVE  GoneInv'
    BY <2>26 DEF Edit_Save, Save, ReleaseTask, Finish
  <2>27. ASSUME NEW w \in Workers, Edit_Raises(w)
       PROVE  GoneInv'
    BY <2>27 DEF Edit_Raises, ReleaseTask, Finish
  <2>28. ASSUME NEW w \in Workers, Delete_Load(w)
       PROVE  GoneInv'
    BY <2>28 DEF Delete_Load, EnterIf, EnterWith, Finish, can_delete_task, Absent
  <2>29. ASSUME NEW w \in Workers, Discard_Load(w)
       PROVE  GoneInv'
    BY <2>29 DEF Discard_Load, EnterIf, EnterWith, Finish, can_discard_task, Absent
  <2>30. ASSUME NEW w \in Workers, Remove_Entry(w)
       PROVE  GoneInv'
    BY <2>30 DEF Remove_Entry
  <2>31. ASSUME NEW w \in Workers, Remove_TreeGone(w)
       PROVE  GoneInv'
    BY <2>31 DEF Remove_TreeGone, Goto
  <2>32. ASSUME NEW w \in Workers, Remove_Raises(w)
       PROVE  GoneInv'
    BY <2>32 DEF Remove_Raises, Fault, ReleaseTask, Finish
  <2>33. ASSUME NEW w \in Workers, Remove_Unlink(w)
       PROVE  GoneInv'
    <3>1. /\ cur[w] \in Tasks /\ pc[w] = "rm_unlink" /\ pkg' = pkg
          /\ record' = [record EXCEPT ![cur[w]] = Absent]
          /\ removedFrom' = [removedFrom EXCEPT ![cur[w]] = mem[w].status]
      BY <2>33 DEF Remove_Unlink, Save
    <3>2. \A v \in Workers \ {w} : pc'[v] = pc[v] /\ cur'[v] = cur[v] /\ mem'[v] = mem[v]
      BY <2>33 DEF Remove_Unlink, Finish
    <3>3. pc'[w] = "idle" /\ cur'[w] = NoTask
      BY <2>33 DEF Remove_Unlink, Finish
    <3>4. \A v \in Workers \ {w} :
            cur[v] = cur[w] /\ mem[w].status # "uploaded" => pc[v] \in WaitPC
      <4> SUFFICES ASSUME NEW v \in Workers \ {w}, cur[v] = cur[w], mem[w].status # "uploaded"
                   PROVE  pc[v] \in WaitPC
        OBVIOUS
      <4>1. pc[v] \notin LockedPC /\ pc[v] \notin UploadPC
        BY <3>1
      <4>2. pc[v] # "idle" /\ pc[v] \in PC
        BY <3>1
      <4> QED
        BY <4>1, <4>2 DEF PC
    <3>5. ASSUME NEW t \in Tasks, Gone(t)'
          PROVE  record'[t] = Absent /\ pkg'[t] = {} /\ \A v \in Workers : cur'[v] = t => pc'[v] \in WaitPC
      <4>1. CASE t = cur[w]
        <5>1. mem[w].status # "uploaded"
          BY <3>1, <3>5, <4>1
        <5> QED
          BY <3>1, <3>2, <3>3, <3>4, <4>1, <5>1
      <4>2. CASE t # cur[w]
        <5>1. Gone(t)
          BY <3>1, <3>5, <4>2
        <5> QED
          BY <3>1, <3>2, <3>3, <4>2, <5>1
      <4> QED
        BY <4>1, <4>2
    <3>6. \A v \in Workers : pc'[v] = "rm_unlink" /\ mem'[v].status # "uploaded" => pkg'[cur'[v]] = {}
      BY <3>1, <3>2, <3>3
    <3> QED
      BY <3>5, <3>6
  <2>34. ASSUME NEW w \in Workers, SaveRaises(w)
       PROVE  GoneInv'
    BY <2>34 DEF SaveRaises, Fault, ReleaseTask, ReleaseApp, Finish
  <2>35. CASE Crash
    BY <2>35 DEF Crash
  <2>36. CASE UNCHANGED vars
    BY <2>36
  <2> HIDE DEF GoneInv, vars
  <2>37. QED
    BY <2>1, <2>2, <2>3, <2>4, <2>5, <2>6, <2>7, <2>8, <2>9, <2>10, <2>11, 
       <2>12, <2>13, <2>14, <2>15, <2>16, <2>17, <2>18, <2>19, <2>20, <2>21, 
       <2>22, <2>23, <2>24, <2>25, <2>26, <2>27, <2>28, <2>29, <2>30, <2>31, 
       <2>32, <2>33, <2>34, <2>35, <2>36
    DEF Next, Arrive, Start, Work, Upload_Step, Deploy_Step, Change_Step
<1>3. QED
  BY <1>1, <1>2, TypedInvariant, MemoryInvariant, LockInvariant, ExclusionInvariant, PTL
     DEF Spec, Context

\* No thread brings back the record or the package of a task that was removed
\* after its upload ended.
THEOREM RemovedStaysGoneHolds == Spec => []RemovedStaysGone
<1>1. GoneInv => RemovedStaysGone
  BY DEF GoneInv, Gone, RemovedStaysGone
<1> QED
  BY <1>1, GoneInvariant, PTL

-----------------------------------------------------------------------------
(* docker compose runs on the files of the task being deployed. *)

\* What has been copied so far is still there: the application lock keeps
\* other deployments off the stable directory, the task lock keeps removals
\* off the package.
Copied(w, part) == part \in pkg[cur[w]] => stable[mem[w].app][part] = cur[w]

OverlayInv ==
  \A w \in Workers :
    /\ pc[w] \in {"dep_payload", "dep_up"} => Copied(w, "config")
    /\ pc[w] = "dep_up" => Copied(w, "payload")

LEMMA OverlayInvariant == Spec => []OverlayInv
<1>1. Init => OverlayInv
  BY DEF Init, OverlayInv
<1>2. Context /\ OverlayInv /\ [Next]_vars => OverlayInv'
  <2> SUFFICES ASSUME Context, OverlayInv, [Next]_vars PROVE OverlayInv'
    OBVIOUS
  <2>a. /\ mem \in [Workers -> Record] /\ record \in [Tasks -> Record]
        /\ pc \in [Workers -> PC] /\ pkg \in [Tasks -> SUBSET Entries]
        /\ cur \in [Workers -> Tasks \cup {NoTask}]
        /\ stable \in [Apps -> [Content -> Tasks \cup {NoTask}]]
        /\ \A w \in Workers : pc[w] # "idle" => cur[w] \in Tasks
    BY DEF Context, Typed, TypeOK, Occupied
  <2>b. \A v \in Workers, w \in Workers :
          pc[v] \in RunPC /\ pc[w] \in RunPC /\ mem[v].app = mem[w].app => v = w
    BY DEF Context, LocksHeld
  <2>c. \A v \in Workers, w \in Workers :
          cur[v] = cur[w] /\ pc[v] \in RunPC /\ v # w =>
            pc[w] \notin RemovePC /\ pc[w] \notin UploadPC
    BY Separation DEF RunPC, RemovePC, LockedPC
  <2>d. \A w \in Workers : pc[w] \in RunPC => mem[w].app \in Apps
    BY DEF Context, MemoryOK, RunPC
  <2> USE <2>a, <2>b, <2>c, <2>d, NullAssumption
      DEF OverlayInv, Copied, Content, UploadPC, WaitPC, LockedPC, RunPC, RemovePC, vars, diskVars,
          lockVars, localVars, histVars
  <2>1. ASSUME NEW w \in Workers, NEW t \in Tasks, Upload_Create(w, t)
       PROVE  OverlayInv'
    BY <2>1 DEF Upload_Create, Save, UploadRecord, Fresh
  <2>2. ASSUME NEW w \in Workers, NEW t \in Tasks, Request(w, t)
       PROVE  OverlayInv'
    BY <2>2 DEF Request, Requests
  <2>3. ASSUME NEW w \in Workers, NEW t \in Tasks, Upload_CreateRaises(w, t)
       PROVE  OverlayInv'
    BY <2>3 DEF Upload_CreateRaises, Fault, Fresh
  <2>4. ASSUME NEW w \in Workers, NEW t \in Tasks, Deploy_Start(w, t)
       PROVE  OverlayInv'
    BY <2>4 DEF Deploy_Start
  <2>5. ASSUME NEW w \in Workers, Upload_StoreArchive(w)
       PROVE  OverlayInv'
    BY <2>5 DEF Upload_StoreArchive, Goto
  <2>6. ASSUME NEW w \in Workers, Upload_MarkExtracting(w)
       PROVE  OverlayInv'
    BY <2>6 DEF Upload_MarkExtracting, Save, UploadRecord
  <2>7. ASSUME NEW w \in Workers, Upload_PrepareTree(w)
       PROVE  OverlayInv'
    BY <2>7 DEF Upload_PrepareTree, Goto
  <2>8. ASSUME NEW w \in Workers, Upload_OpenArchive(w)
       PROVE  OverlayInv'
    BY <2>8 DEF Upload_OpenArchive, Goto
  <2>9. ASSUME NEW w \in Workers, Upload_ExtractConfig(w)
       PROVE  OverlayInv'
    BY <2>9 DEF Upload_ExtractConfig, Upload_Extract, Goto
  <2>10. ASSUME NEW w \in Workers, Upload_ExtractPayload(w)
       PROVE  OverlayInv'
    BY <2>10 DEF Upload_ExtractPayload, Upload_Extract, Goto
  <2>11. ASSUME NEW w \in Workers, Upload_Review(w)
       PROVE  OverlayInv'
    BY <2>11 DEF Upload_Review, UploadRecord
  <2>12. ASSUME NEW w \in Workers, Upload_SavePending(w)
       PROVE  OverlayInv'
    BY <2>12 DEF Upload_SavePending, Save, Finish
  <2>13. ASSUME NEW w \in Workers, Upload_Raises(w)
       PROVE  OverlayInv'
    BY <2>13 DEF Upload_Raises, Fault, UploadRecord
  <2>14. ASSUME NEW w \in Workers, Upload_SaveFailed(w)
       PROVE  OverlayInv'
    BY <2>14 DEF Upload_SaveFailed, Save, Finish
  <2>15. ASSUME NEW w \in Workers, BeginDeploy_Load(w)
       PROVE  OverlayInv'
    BY <2>15 DEF BeginDeploy_Load, EnterIf, EnterWith, Finish
  <2>16. ASSUME NEW w \in Workers, BeginDeploy_Save(w)
       PROVE  OverlayInv'
    BY <2>16 DEF BeginDeploy_Save, Save, DeployingRecord, ReleaseTask, Finish
  <2>17. ASSUME NEW w \in Workers, Deploy_Load(w)
       PROVE  OverlayInv'
    BY <2>17 DEF Deploy_Load, EnterIf, EnterWith, Finish
  <2>18. ASSUME NEW w \in Workers, Deploy_SaveDeploying(w)
       PROVE  OverlayInv'
    BY <2>18 DEF Deploy_SaveDeploying, Save, DeployingRecord
  <2>19. ASSUME NEW w \in Workers, Deploy_LockApp(w)
       PROVE  OverlayInv'
    BY <2>19 DEF Deploy_LockApp, Goto
  <2>20. ASSUME NEW w \in Workers, Deploy_OverlayConfig(w)
       PROVE  OverlayInv'
    BY <2>20 DEF Deploy_OverlayConfig, Deploy_Overlay, Goto
  <2>21. ASSUME NEW w \in Workers, Deploy_OverlayPayload(w)
       PROVE  OverlayInv'
    BY <2>21 DEF Deploy_OverlayPayload, Deploy_Overlay, Goto
  <2>22. ASSUME NEW w \in Workers, Deploy_ComposeUp(w)
       PROVE  OverlayInv'
    BY <2>22 DEF Deploy_ComposeUp
  <2>23. ASSUME NEW w \in Workers, Deploy_Raises(w)
       PROVE  OverlayInv'
    BY <2>23 DEF Deploy_Raises
  <2>24. ASSUME NEW w \in Workers, Deploy_Save(w)
       PROVE  OverlayInv'
    BY <2>24 DEF Deploy_Save, Save, ReleaseTask, ReleaseApp, Finish
  <2>25. ASSUME NEW w \in Workers, Edit_Load(w)
       PROVE  OverlayInv'
    BY <2>25 DEF Edit_Load, EnterIf, EnterWith, Finish
  <2>26. ASSUME NEW w \in Workers, Edit_Save(w)
       PROVE  OverlayInv'
    BY <2>26 DEF Edit_Save, Save, ReleaseTask, Finish
  <2>27. ASSUME NEW w \in Workers, Edit_Raises(w)
       PROVE  OverlayInv'
    BY <2>27 DEF Edit_Raises, ReleaseTask, Finish
  <2>28. ASSUME NEW w \in Workers, Delete_Load(w)
       PROVE  OverlayInv'
    BY <2>28 DEF Delete_Load, EnterIf, EnterWith, Finish
  <2>29. ASSUME NEW w \in Workers, Discard_Load(w)
       PROVE  OverlayInv'
    BY <2>29 DEF Discard_Load, EnterIf, EnterWith, Finish
  <2>30. ASSUME NEW w \in Workers, Remove_Entry(w)
       PROVE  OverlayInv'
    BY <2>30 DEF Remove_Entry
  <2>31. ASSUME NEW w \in Workers, Remove_TreeGone(w)
       PROVE  OverlayInv'
    BY <2>31 DEF Remove_TreeGone, Goto
  <2>32. ASSUME NEW w \in Workers, Remove_Raises(w)
       PROVE  OverlayInv'
    BY <2>32 DEF Remove_Raises, Fault, ReleaseTask, Finish
  <2>33. ASSUME NEW w \in Workers, Remove_Unlink(w)
       PROVE  OverlayInv'
    BY <2>33 DEF Remove_Unlink, Save, ReleaseTask, Finish
  <2>34. ASSUME NEW w \in Workers, SaveRaises(w)
       PROVE  OverlayInv'
    BY <2>34 DEF SaveRaises, Fault, ReleaseTask, ReleaseApp, Finish
  <2>35. CASE Crash
    BY <2>35 DEF Crash
  <2>36. CASE UNCHANGED vars
    BY <2>36
  <2> HIDE DEF OverlayInv, vars
  <2>37. QED
    BY <2>1, <2>2, <2>3, <2>4, <2>5, <2>6, <2>7, <2>8, <2>9, <2>10, <2>11, 
       <2>12, <2>13, <2>14, <2>15, <2>16, <2>17, <2>18, <2>19, <2>20, <2>21, 
       <2>22, <2>23, <2>24, <2>25, <2>26, <2>27, <2>28, <2>29, <2>30, <2>31, 
       <2>32, <2>33, <2>34, <2>35, <2>36
    DEF Next, Arrive, Start, Work, Upload_Step, Deploy_Step, Change_Step
<1>3. QED
  BY <1>1, <1>2, TypedInvariant, MemoryInvariant, LockInvariant, ExclusionInvariant, PTL
     DEF Spec, Context

\* docker compose up never runs on a stable directory that mixes the files of
\* two tasks, however deployments of one application overlap.
THEOREM ComposeSeesOwnFilesHolds == Spec => []ComposeSeesOwnFiles
<1>1. OverlayInv => ComposeSeesOwnFiles
  BY DEF OverlayInv, Copied, ComposeSeesOwnFiles, Content
<1> QED
  BY <1>1, OverlayInvariant, PTL

-----------------------------------------------------------------------------
\* A task that is being uploaded or deployed has a thread or a queued
\* background deploy, except where a crash or a failing last save took it.
THEOREM ActiveHasOwnerHolds == Spec => []ActiveHasOwner
<1>1. Init => ActiveHasOwner
  BY DEF Init, ActiveHasOwner, Absent
<1>2. Context /\ RecordOK /\ ActiveHasOwner /\ [Next]_vars => ActiveHasOwner'
  <2> SUFFICES ASSUME Context, RecordOK, ActiveHasOwner, [Next]_vars PROVE ActiveHasOwner'
    OBVIOUS
  <2>a. /\ mem \in [Workers -> Record] /\ record \in [Tasks -> Record]
        /\ pc \in [Workers -> PC] /\ queue \in [Tasks -> Nat]
        /\ cur \in [Workers -> Tasks \cup {NoTask}]
        /\ \A w \in Workers : pc[w] # "idle" => cur[w] \in Tasks
        /\ \A w \in Workers : LoadedIsCurrent(w)
    BY DEF Context, Typed, TypeOK, Occupied, Exclusion, NoLostUpdate
  <2> USE <2>a, NullAssumption
      DEF ActiveHasOwner, Uploading, Deploying, RecordOK, UploadPC, DeployPC, RunPC, vars, diskVars,
          localVars, histVars
  <2>1. ASSUME NEW w \in Workers, NEW t \in Tasks, Upload_Create(w, t)
       PROVE  ActiveHasOwner'
    BY <2>1 DEF Upload_Create, Save, UploadRecord, Fresh
  <2>2. ASSUME NEW w \in Workers, NEW t \in Tasks, Request(w, t)
       PROVE  ActiveHasOwner'
    BY <2>2 DEF Request, Requests
  <2>3. ASSUME NEW w \in Workers, NEW t \in Tasks, Upload_CreateRaises(w, t)
       PROVE  ActiveHasOwner'
    BY <2>3 DEF Upload_CreateRaises, Fault, Fresh
  <2>4. ASSUME NEW w \in Workers, NEW t \in Tasks, Deploy_Start(w, t)
       PROVE  ActiveHasOwner'
    BY <2>4 DEF Deploy_Start
  <2>5. ASSUME NEW w \in Workers, Upload_StoreArchive(w)
       PROVE  ActiveHasOwner'
    BY <2>5 DEF Upload_StoreArchive, Goto
  <2>6. ASSUME NEW w \in Workers, Upload_MarkExtracting(w)
       PROVE  ActiveHasOwner'
    BY <2>6 DEF Upload_MarkExtracting, Save, UploadRecord
  <2>7. ASSUME NEW w \in Workers, Upload_PrepareTree(w)
       PROVE  ActiveHasOwner'
    BY <2>7 DEF Upload_PrepareTree, Goto
  <2>8. ASSUME NEW w \in Workers, Upload_OpenArchive(w)
       PROVE  ActiveHasOwner'
    BY <2>8 DEF Upload_OpenArchive, Goto
  <2>9. ASSUME NEW w \in Workers, Upload_ExtractConfig(w)
       PROVE  ActiveHasOwner'
    BY <2>9 DEF Upload_ExtractConfig, Upload_Extract, Goto
  <2>10. ASSUME NEW w \in Workers, Upload_ExtractPayload(w)
       PROVE  ActiveHasOwner'
    BY <2>10 DEF Upload_ExtractPayload, Upload_Extract, Goto
  <2>11. ASSUME NEW w \in Workers, Upload_Review(w)
       PROVE  ActiveHasOwner'
    BY <2>11 DEF Upload_Review, UploadRecord, Context, MemoryOK, Absent, LoadedIsCurrent, LockedPC, RemovePC
  <2>12. ASSUME NEW w \in Workers, Upload_SavePending(w)
       PROVE  ActiveHasOwner'
    BY <2>12 DEF Upload_SavePending, Save, Finish, Context, MemoryOK, Absent, LoadedIsCurrent, LockedPC, RemovePC
  <2>13. ASSUME NEW w \in Workers, Upload_Raises(w)
       PROVE  ActiveHasOwner'
    BY <2>13 DEF Upload_Raises, Fault, UploadRecord, Context, MemoryOK, Absent, LoadedIsCurrent, LockedPC, RemovePC
  <2>14. ASSUME NEW w \in Workers, Upload_SaveFailed(w)
       PROVE  ActiveHasOwner'
    BY <2>14 DEF Upload_SaveFailed, Save, Finish, Context, MemoryOK, Absent, LoadedIsCurrent, LockedPC, RemovePC
  <2>15. ASSUME NEW w \in Workers, BeginDeploy_Load(w)
       PROVE  ActiveHasOwner'
    BY <2>15 DEF BeginDeploy_Load, EnterIf, EnterWith, Finish, can_retry_task, is_recoverable_failure
  <2>16. ASSUME NEW w \in Workers, BeginDeploy_Save(w)
       PROVE  ActiveHasOwner'
    BY <2>16 DEF BeginDeploy_Save, Save, DeployingRecord, ReleaseTask, Finish
  <2>17. ASSUME NEW w \in Workers, Deploy_Load(w)
       PROVE  ActiveHasOwner'
    BY <2>17 DEF Deploy_Load, EnterIf, EnterWith, Finish, can_retry_task, is_recoverable_failure
  <2>18. ASSUME NEW w \in Workers, Deploy_SaveDeploying(w)
       PROVE  ActiveHasOwner'
    BY <2>18 DEF Deploy_SaveDeploying, Save, DeployingRecord
  <2>19. ASSUME NEW w \in Workers, Deploy_LockApp(w)
       PROVE  ActiveHasOwner'
    BY <2>19 DEF Deploy_LockApp, Goto
  <2>20. ASSUME NEW w \in Workers, Deploy_OverlayConfig(w)
       PROVE  ActiveHasOwner'
    BY <2>20 DEF Deploy_OverlayConfig, Deploy_Overlay, Goto
  <2>21. ASSUME NEW w \in Workers, Deploy_OverlayPayload(w)
       PROVE  ActiveHasOwner'
    BY <2>21 DEF Deploy_OverlayPayload, Deploy_Overlay, Goto
  <2>22. ASSUME NEW w \in Workers, Deploy_ComposeUp(w)
       PROVE  ActiveHasOwner'
    BY <2>22 DEF Deploy_ComposeUp
  <2>23. ASSUME NEW w \in Workers, Deploy_Raises(w)
       PROVE  ActiveHasOwner'
    BY <2>23 DEF Deploy_Raises
  <2>24. ASSUME NEW w \in Workers, Deploy_Save(w)
       PROVE  ActiveHasOwner'
    BY <2>24 DEF Deploy_Save, Save, ReleaseTask, ReleaseApp, Finish, Context, MemoryOK, Absent, LoadedIsCurrent, LockedPC, RemovePC
  <2>25. ASSUME NEW w \in Workers, Edit_Load(w)
       PROVE  ActiveHasOwner'
    BY <2>25 DEF Edit_Load, EnterIf, EnterWith, Finish
  <2>26. ASSUME NEW w \in Workers, Edit_Save(w)
       PROVE  ActiveHasOwner'
    BY <2>26 DEF Edit_Save, Save, ReleaseTask, Finish, Context, MemoryOK, Absent, LoadedIsCurrent, LockedPC, RemovePC
  <2>27. ASSUME NEW w \in Workers, Edit_Raises(w)
       PROVE  ActiveHasOwner'
    BY <2>27 DEF Edit_Raises, ReleaseTask, Finish, RemovePC
  <2>28. ASSUME NEW w \in Workers, Delete_Load(w)
       PROVE  ActiveHasOwner'
    BY <2>28 DEF Delete_Load, EnterIf, EnterWith, Finish
  <2>29. ASSUME NEW w \in Workers, Discard_Load(w)
       PROVE  ActiveHasOwner'
    BY <2>29 DEF Discard_Load, EnterIf, EnterWith, Finish
  <2>30. ASSUME NEW w \in Workers, Remove_Entry(w)
       PROVE  ActiveHasOwner'
    BY <2>30 DEF Remove_Entry, RemovePC
  <2>31. ASSUME NEW w \in Workers, Remove_TreeGone(w)
       PROVE  ActiveHasOwner'
    BY <2>31 DEF Remove_TreeGone, Goto, RemovePC
  <2>32. ASSUME NEW w \in Workers, Remove_Raises(w)
       PROVE  ActiveHasOwner'
    BY <2>32 DEF Remove_Raises, Fault, ReleaseTask, Finish, RemovePC
  <2>33. ASSUME NEW w \in Workers, Remove_Unlink(w)
       PROVE  ActiveHasOwner'
    BY <2>33 DEF Remove_Unlink, Save, ReleaseTask, Finish, Context, MemoryOK, Absent, LoadedIsCurrent, LockedPC, RemovePC
  <2>34. ASSUME NEW w \in Workers, SaveRaises(w)
       PROVE  ActiveHasOwner'
    BY <2>34 DEF SaveRaises, Fault, ReleaseTask, ReleaseApp, Finish, Context, MemoryOK, Absent, LoadedIsCurrent, LockedPC, RemovePC
  <2>35. CASE Crash
    BY <2>35 DEF Crash, Active
  <2>36. CASE UNCHANGED vars
    BY <2>36
  <2> HIDE DEF ActiveHasOwner, vars
  <2>37. QED
    BY <2>1, <2>2, <2>3, <2>4, <2>5, <2>6, <2>7, <2>8, <2>9, <2>10, <2>11, 
       <2>12, <2>13, <2>14, <2>15, <2>16, <2>17, <2>18, <2>19, <2>20, <2>21, 
       <2>22, <2>23, <2>24, <2>25, <2>26, <2>27, <2>28, <2>29, <2>30, <2>31, 
       <2>32, <2>33, <2>34, <2>35, <2>36
    DEF Next, Arrive, Start, Work, Upload_Step, Deploy_Step, Change_Step
<1>3. QED
  BY <1>1, <1>2, TypedInvariant, MemoryInvariant, LockInvariant, RecordInvariant,
     ExclusionInvariant, PTL DEF Spec, Context

-----------------------------------------------------------------------------
(* Every accepted deploy request is carried out once. *)

\* A deploying task has one background deploy, queued or running, unless that
\* was taken away; no other task has any.
ServedOf(t) ==
  IF record[t].status = "deploying" /\ t \notin stranded
    THEN \/ queue[t] = 1 /\ \A w \in Workers : ~Deploying(w, t)
         \/ queue[t] = 0 /\ \E v \in Workers : \A w \in Workers : Deploying(w, t) <=> w = v
    ELSE queue[t] = 0 /\ \A w \in Workers : ~Deploying(w, t)

\* What a crash or a failed save has left behind stays behind: no thread has
\* it, and no request but discard accepts it.
StrandedOf(t) ==
  t \in stranded =>
    /\ record[t].status \in {"absent", "uploaded", "extracting", "deploying"}
    /\ record[t].status = "absent" => removedFrom[t] # "absent"
    /\ \A w \in Workers : ~Uploading(w, t)

\* A deploy finds its task deploying, a removal does not, and the record of an
\* upload goes only by a removal.
Finds ==
  \A w \in Workers :
    /\ pc[w] # "dep_begin"
    /\ pc[w] \in RemovePC => record[cur[w]].status # "deploying"
    /\ pc[w] \in UploadPC /\ record[cur[w]].status = "absent" => removedFrom[cur[w]] # "absent"

Served == (\A t \in Tasks : ServedOf(t) /\ StrandedOf(t)) /\ Finds

\* A task that a step leaves alone.
LEMMA ServedKept ==
  ASSUME NEW t \in Tasks, ServedOf(t), StrandedOf(t),
         UNCHANGED <<record[t], queue[t], removedFrom[t]>>,
         t \in stranded' <=> t \in stranded,
         \A v \in Workers : (Deploying(v, t)' <=> Deploying(v, t)) /\ (Uploading(v, t)' => Uploading(v, t))
  PROVE  ServedOf(t)' /\ StrandedOf(t)'
  BY DEF ServedOf, StrandedOf

LEMMA ServedInvariant == ASSUME DirectDeploy = FALSE PROVE Spec => []Served
<1>1. Init => Served
  BY DEF Init, Served, Finds, ServedOf, StrandedOf, Deploying, DeployPC, RunPC, RemovePC, UploadPC, Absent
<1>2. Context /\ RecordOK /\ Served /\ [Next]_vars => Served'
  <2> SUFFICES ASSUME Context, RecordOK, Served, [Next]_vars PROVE Served'
    OBVIOUS
  <2>a. /\ mem \in [Workers -> Record] /\ record \in [Tasks -> Record]
        /\ pc \in [Workers -> PC] /\ pkg \in [Tasks -> SUBSET Entries]
        /\ queue \in [Tasks -> Nat] /\ stranded \subseteq Tasks /\ cut \subseteq Tasks
        /\ cur \in [Workers -> Tasks \cup {NoTask}]
        /\ removedFrom \in [Tasks -> Status]
        /\ \A w \in Workers : pc[w] = "idle" <=> cur[w] = NoTask
    BY DEF Context, Typed, TypeOK, Occupied
  <2>b. \A w \in Workers : pc[w] \in LockedPC \cup UploadPC => cur[w] \in Tasks
    BY <2>a DEF LockedPC, RunPC, RemovePC, UploadPC
  <2>c. \A v \in Workers, w \in Workers :
          cur[v] = cur[w] /\ pc[v] \in LockedPC =>
            /\ pc[w] \in LockedPC => v = w
            /\ pc[w] \in UploadPC => pc[v] \in RemovePC /\ mem[v].status = "uploaded"
    BY Separation
  <2>d. \A w \in Workers :
          /\ pc[w] \in {"begin_save", "edit_save"} =>
               record[cur[w]].status \in {"pending_review", "failed"}
          /\ pc[w] = "dep_save" => record[cur[w]].status = "deploying"
          /\ pc[w] = "dep_save" => mem[w].status \in {"deployed", "failed"}
          /\ pc[w] \in UploadPC => record[cur[w]].status \in {"absent", "uploaded", "extracting"}
          /\ pc[w] = "rm_unlink" => mem[w].status # "absent"
          /\ pc[w] = "up_save" => mem[w].status = "pending_review"
          /\ pc[w] = "up_fail" => mem[w].status = "failed"
    BY DEF Context, MemoryOK, Exclusion, NoLostUpdate, LoadedIsCurrent, UploadAlone, LockedPC,
           RemovePC
  <2>e. \A t \in Tasks : record[t].status = "deploying" => record[t].app # NoApp
    BY NullAssumption DEF RecordOK
  <2>f. \A v \in Workers, w \in Workers :
          pc[v] \in UploadPC /\ pc[w] \in UploadPC /\ v # w => cur[v] # cur[w]
    BY DEF Context, Exclusion, UploadAlone
  <2> USE <2>a, <2>b, <2>c, <2>d, <2>e, <2>f, NullAssumption
      DEF Served, Finds, ServedOf, StrandedOf, Deploying, Uploading, UploadPC, DeployPC, WaitPC, LockedPC,
          RunPC, RemovePC, vars, diskVars, lockVars, localVars, histVars
  <2>1. ASSUME NEW w \in Workers, NEW t \in Tasks, Upload_Create(w, t)
       PROVE  Served'
    <3>1. \A u \in Tasks \ {t} :
            /\ UNCHANGED <<record[u], queue[u], removedFrom[u]>>
            /\ u \in stranded' <=> u \in stranded
            /\ \A v \in Workers :
                 (Deploying(v, u)' <=> Deploying(v, u)) /\ (Uploading(v, u)' => Uploading(v, u))
      BY <2>1 DEF Upload_Create, Save, UploadRecord, Fresh, Absent
    <3>2. ServedOf(t)'
      BY <2>1 DEF Upload_Create, Save, UploadRecord, Fresh, Absent
    <3>3. StrandedOf(t)'
      BY <2>1 DEF Upload_Create, Save, UploadRecord, Fresh, Absent
    <3>4. Finds'
      BY <2>1 DEF Upload_Create, Save, UploadRecord, Fresh, Absent
    <3> HIDE DEF Deploying, Uploading, ServedOf, StrandedOf, Finds
    <3> QED
      BY <3>1, <3>2, <3>3, <3>4, ServedKept
  <2>2. ASSUME NEW w \in Workers, NEW t \in Tasks, Request(w, t)
       PROVE  Served'
    BY <2>2 DEF Request, Requests
  <2>3. ASSUME NEW w \in Workers, NEW t \in Tasks, Upload_CreateRaises(w, t)
       PROVE  Served'
    BY <2>3 DEF Upload_CreateRaises, Fault, Fresh
  <2>4. ASSUME NEW w \in Workers, NEW t \in Tasks, Deploy_Start(w, t)
       PROVE  Served'
    BY <2>4 DEF Deploy_Start
  <2>5. ASSUME NEW w \in Workers, Upload_StoreArchive(w)
       PROVE  Served'
    BY <2>5 DEF Upload_StoreArchive, Goto
  <2>6. ASSUME NEW w \in Workers, Upload_MarkExtracting(w)
       PROVE  Served'
    <3>t. PICK t \in Tasks : t = cur[w]
      BY <2>6 DEF Upload_MarkExtracting
    <3>1. \A u \in Tasks \ {t} :
            /\ UNCHANGED <<record[u], queue[u], removedFrom[u]>>
            /\ u \in stranded' <=> u \in stranded
            /\ \A v \in Workers :
                 (Deploying(v, u)' <=> Deploying(v, u)) /\ (Uploading(v, u)' => Uploading(v, u))
      BY <2>6, <3>t DEF Upload_MarkExtracting, Save, UploadRecord
    <3>2. ServedOf(t)'
      BY <2>6, <3>t DEF Upload_MarkExtracting, Save, UploadRecord
    <3>3. StrandedOf(t)'
      BY <2>6, <3>t DEF Upload_MarkExtracting, Save, UploadRecord
    <3>4. Finds'
      BY <2>6, <3>t DEF Upload_MarkExtracting, Save, UploadRecord
    <3> HIDE DEF Deploying, Uploading, ServedOf, StrandedOf, Finds
    <3> QED
      BY <3>1, <3>2, <3>3, <3>4, ServedKept
  <2>7. ASSUME NEW w \in Workers, Upload_PrepareTree(w)
       PROVE  Served'
    BY <2>7 DEF Upload_PrepareTree, Goto
  <2>8. ASSUME NEW w \in Workers, Upload_OpenArchive(w)
       PROVE  Served'
    BY <2>8 DEF Upload_OpenArchive, Goto
  <2>9. ASSUME NEW w \in Workers, Upload_ExtractConfig(w)
       PROVE  Served'
    BY <2>9 DEF Upload_ExtractConfig, Upload_Extract, Goto
  <2>10. ASSUME NEW w \in Workers, Upload_ExtractPayload(w)
       PROVE  Served'
    BY <2>10 DEF Upload_ExtractPayload, Upload_Extract, Goto
  <2>11. ASSUME NEW w \in Workers, Upload_Review(w)
       PROVE  Served'
    BY <2>11 DEF Upload_Review, UploadRecord
  <2>12. ASSUME NEW w \in Workers, Upload_SavePending(w)
       PROVE  Served'
    <3>t. PICK t \in Tasks : t = cur[w]
      BY <2>12 DEF Upload_SavePending
    <3>1. \A u \in Tasks \ {t} :
            /\ UNCHANGED <<record[u], queue[u], removedFrom[u]>>
            /\ u \in stranded' <=> u \in stranded
            /\ \A v \in Workers :
                 (Deploying(v, u)' <=> Deploying(v, u)) /\ (Uploading(v, u)' => Uploading(v, u))
      BY <2>12, <3>t DEF Upload_SavePending, Save, Finish
    <3>2. ServedOf(t)'
      BY <2>12, <3>t DEF Upload_SavePending, Save, Finish
    <3>3. StrandedOf(t)'
      BY <2>12, <3>t DEF Upload_SavePending, Save, Finish
    <3>4. Finds'
      BY <2>12, <3>t DEF Upload_SavePending, Save, Finish
    <3> HIDE DEF Deploying, Uploading, ServedOf, StrandedOf, Finds
    <3> QED
      BY <3>1, <3>2, <3>3, <3>4, ServedKept
  <2>13. ASSUME NEW w \in Workers, Upload_Raises(w)
       PROVE  Served'
    BY <2>13 DEF Upload_Raises, Fault, UploadRecord
  <2>14. ASSUME NEW w \in Workers, Upload_SaveFailed(w)
       PROVE  Served'
    <3>t. PICK t \in Tasks : t = cur[w]
      BY <2>14 DEF Upload_SaveFailed
    <3>1. \A u \in Tasks \ {t} :
            /\ UNCHANGED <<record[u], queue[u], removedFrom[u]>>
            /\ u \in stranded' <=> u \in stranded
            /\ \A v \in Workers :
                 (Deploying(v, u)' <=> Deploying(v, u)) /\ (Uploading(v, u)' => Uploading(v, u))
      BY <2>14, <3>t DEF Upload_SaveFailed, Save, Finish
    <3>2. ServedOf(t)'
      BY <2>14, <3>t DEF Upload_SaveFailed, Save, Finish
    <3>3. StrandedOf(t)'
      BY <2>14, <3>t DEF Upload_SaveFailed, Save, Finish
    <3>4. Finds'
      BY <2>14, <3>t DEF Upload_SaveFailed, Save, Finish
    <3> HIDE DEF Deploying, Uploading, ServedOf, StrandedOf, Finds
    <3> QED
      BY <3>1, <3>2, <3>3, <3>4, ServedKept
  <2>15. ASSUME NEW w \in Workers, BeginDeploy_Load(w)
       PROVE  Served'
    <3>1. /\ UNCHANGED <<record, queue, removedFrom, stranded>>
          /\ Finds'
      BY <2>15 DEF BeginDeploy_Load, EnterIf, EnterWith, Finish, can_retry_task, is_recoverable_failure, Absent
    <3>2. \A t \in Tasks, v \in Workers :
            (Deploying(v, t)' <=> Deploying(v, t)) /\ (Uploading(v, t)' => Uploading(v, t))
      BY <2>15 DEF BeginDeploy_Load, EnterIf, EnterWith, Finish, can_retry_task, is_recoverable_failure, Absent
    <3> HIDE DEF Deploying, Uploading, ServedOf, StrandedOf, Finds
    <3> QED
      BY <3>1, <3>2, ServedKept
  <2>16. ASSUME NEW w \in Workers, BeginDeploy_Save(w)
       PROVE  Served'
    <3>t. PICK t \in Tasks : t = cur[w]
      BY <2>16 DEF BeginDeploy_Save
    <3>1. \A u \in Tasks \ {t} :
            /\ UNCHANGED <<record[u], queue[u], removedFrom[u]>>
            /\ u \in stranded' <=> u \in stranded
            /\ \A v \in Workers :
                 (Deploying(v, u)' <=> Deploying(v, u)) /\ (Uploading(v, u)' => Uploading(v, u))
      BY <2>16, <3>t DEF BeginDeploy_Save, Save, DeployingRecord, ReleaseTask, Finish
    <3>2. ServedOf(t)'
      BY <2>16, <3>t DEF BeginDeploy_Save, Save, DeployingRecord, ReleaseTask, Finish
    <3>3. StrandedOf(t)'
      BY <2>16, <3>t DEF BeginDeploy_Save, Save, DeployingRecord, ReleaseTask, Finish
    <3>4. Finds'
      BY <2>16, <3>t DEF BeginDeploy_Save, Save, DeployingRecord, ReleaseTask, Finish
    <3> HIDE DEF Deploying, Uploading, ServedOf, StrandedOf, Finds
    <3> QED
      BY <3>1, <3>2, <3>3, <3>4, ServedKept
  <2>17. ASSUME NEW w \in Workers, Deploy_Load(w)
       PROVE  Served'
    <3>1. /\ UNCHANGED <<record, queue, removedFrom, stranded>>
          /\ Finds'
      BY <2>17 DEF Deploy_Load, EnterIf, EnterWith, Finish, can_retry_task, is_recoverable_failure, Absent
    <3>2. \A t \in Tasks, v \in Workers :
            (Deploying(v, t)' <=> Deploying(v, t)) /\ (Uploading(v, t)' => Uploading(v, t))
      BY <2>17 DEF Deploy_Load, EnterIf, EnterWith, Finish, can_retry_task, is_recoverable_failure, Absent
    <3> HIDE DEF Deploying, Uploading, ServedOf, StrandedOf, Finds
    <3> QED
      BY <3>1, <3>2, ServedKept
  <2>18. ASSUME NEW w \in Workers, Deploy_SaveDeploying(w)
       PROVE  Served'
    BY <2>18 DEF Deploy_SaveDeploying, Save, DeployingRecord
  <2>19. ASSUME NEW w \in Workers, Deploy_LockApp(w)
       PROVE  Served'
    <3>1. /\ UNCHANGED <<record, queue, removedFrom, stranded>>
          /\ Finds'
      BY <2>19 DEF Deploy_LockApp, Goto
    <3>2. \A t \in Tasks, v \in Workers :
            (Deploying(v, t)' <=> Deploying(v, t)) /\ (Uploading(v, t)' => Uploading(v, t))
      BY <2>19 DEF Deploy_LockApp, Goto
    <3> HIDE DEF Deploying, Uploading, ServedOf, StrandedOf, Finds
    <3> QED
      BY <3>1, <3>2, ServedKept
  <2>20. ASSUME NEW w \in Workers, Deploy_OverlayConfig(w)
       PROVE  Served'
    BY <2>20 DEF Deploy_OverlayConfig, Deploy_Overlay, Goto
  <2>21. ASSUME NEW w \in Workers, Deploy_OverlayPayload(w)
       PROVE  Served'
    BY <2>21 DEF Deploy_OverlayPayload, Deploy_Overlay, Goto
  <2>22. ASSUME NEW w \in Workers, Deploy_ComposeUp(w)
       PROVE  Served'
    <3>1. /\ UNCHANGED <<record, queue, removedFrom, stranded>>
          /\ Finds'
      BY <2>22 DEF Deploy_ComposeUp
    <3>2. \A t \in Tasks, v \in Workers :
            (Deploying(v, t)' <=> Deploying(v, t)) /\ (Uploading(v, t)' => Uploading(v, t))
      BY <2>22 DEF Deploy_ComposeUp
    <3> HIDE DEF Deploying, Uploading, ServedOf, StrandedOf, Finds
    <3> QED
      BY <3>1, <3>2, ServedKept
  <2>23. ASSUME NEW w \in Workers, Deploy_Raises(w)
       PROVE  Served'
    <3>1. /\ UNCHANGED <<record, queue, removedFrom, stranded>>
          /\ Finds'
      BY <2>23 DEF Deploy_Raises
    <3>2. \A t \in Tasks, v \in Workers :
            (Deploying(v, t)' <=> Deploying(v, t)) /\ (Uploading(v, t)' => Uploading(v, t))
      BY <2>23 DEF Deploy_Raises
    <3> HIDE DEF Deploying, Uploading, ServedOf, StrandedOf, Finds
    <3> QED
      BY <3>1, <3>2, ServedKept
  <2>24. ASSUME NEW w \in Workers, Deploy_Save(w)
       PROVE  Served'
    <3>t. PICK t \in Tasks : t = cur[w]
      BY <2>24 DEF Deploy_Save
    <3>1. \A u \in Tasks \ {t} :
            /\ UNCHANGED <<record[u], queue[u], removedFrom[u]>>
            /\ u \in stranded' <=> u \in stranded
            /\ \A v \in Workers :
                 (Deploying(v, u)' <=> Deploying(v, u)) /\ (Uploading(v, u)' => Uploading(v, u))
      BY <2>24, <3>t DEF Deploy_Save, Save, ReleaseTask, ReleaseApp, Finish
    <3>2. ServedOf(t)'
      BY <2>24, <3>t DEF Deploy_Save, Save, ReleaseTask, ReleaseApp, Finish
    <3>3. StrandedOf(t)'
      BY <2>24, <3>t DEF Deploy_Save, Save, ReleaseTask, ReleaseApp, Finish
    <3>4. Finds'
      BY <2>24, <3>t DEF Deploy_Save, Save, ReleaseTask, ReleaseApp, Finish
    <3> HIDE DEF Deploying, Uploading, ServedOf, StrandedOf, Finds
    <3> QED
      BY <3>1, <3>2, <3>3, <3>4, ServedKept
  <2>25. ASSUME NEW w \in Workers, Edit_Load(w)
       PROVE  Served'
    <3>1. /\ UNCHANGED <<record, queue, removedFrom, stranded>>
          /\ Finds'
      BY <2>25 DEF Edit_Load, EnterIf, EnterWith, Finish, can_edit_task, is_recoverable_failure, Absent
    <3>2. \A t \in Tasks, v \in Workers :
            (Deploying(v, t)' <=> Deploying(v, t)) /\ (Uploading(v, t)' => Uploading(v, t))
      BY <2>25 DEF Edit_Load, EnterIf, EnterWith, Finish, can_edit_task, is_recoverable_failure, Absent
    <3> HIDE DEF Deploying, Uploading, ServedOf, StrandedOf, Finds
    <3> QED
      BY <3>1, <3>2, ServedKept
  <2>26. ASSUME NEW w \in Workers, Edit_Save(w)
       PROVE  Served'
    <3>t. PICK t \in Tasks : t = cur[w]
      BY <2>26 DEF Edit_Save
    <3>1. \A u \in Tasks \ {t} :
            /\ UNCHANGED <<record[u], queue[u], removedFrom[u]>>
            /\ u \in stranded' <=> u \in stranded
            /\ \A v \in Workers :
                 (Deploying(v, u)' <=> Deploying(v, u)) /\ (Uploading(v, u)' => Uploading(v, u))
      BY <2>26, <3>t DEF Edit_Save, Save, ReleaseTask, Finish
    <3>2. ServedOf(t)'
      BY <2>26, <3>t DEF Edit_Save, Save, ReleaseTask, Finish
    <3>3. StrandedOf(t)'
      BY <2>26, <3>t DEF Edit_Save, Save, ReleaseTask, Finish
    <3>4. Finds'
      BY <2>26, <3>t DEF Edit_Save, Save, ReleaseTask, Finish
    <3> HIDE DEF Deploying, Uploading, ServedOf, StrandedOf, Finds
    <3> QED
      BY <3>1, <3>2, <3>3, <3>4, ServedKept
  <2>27. ASSUME NEW w \in Workers, Edit_Raises(w)
       PROVE  Served'
    BY <2>27 DEF Edit_Raises, ReleaseTask, Finish
  <2>28. ASSUME NEW w \in Workers, Delete_Load(w)
       PROVE  Served'
    <3>1. /\ UNCHANGED <<record, queue, removedFrom, stranded>>
          /\ Finds'
      BY <2>28 DEF Delete_Load, EnterIf, EnterWith, Finish, can_delete_task, Absent
    <3>2. \A t \in Tasks, v \in Workers :
            (Deploying(v, t)' <=> Deploying(v, t)) /\ (Uploading(v, t)' => Uploading(v, t))
      BY <2>28 DEF Delete_Load, EnterIf, EnterWith, Finish, can_delete_task, Absent
    <3> HIDE DEF Deploying, Uploading, ServedOf, StrandedOf, Finds
    <3> QED
      BY <3>1, <3>2, ServedKept
  <2>29. ASSUME NEW w \in Workers, Discard_Load(w)
       PROVE  Served'
    <3>1. /\ UNCHANGED <<record, queue, removedFrom, stranded>>
          /\ Finds'
      BY <2>29 DEF Discard_Load, EnterIf, EnterWith, Finish, can_discard_task, Absent
    <3>2. \A t \in Tasks, v \in Workers :
            (Deploying(v, t)' <=> Deploying(v, t)) /\ (Uploading(v, t)' => Uploading(v, t))
      BY <2>29 DEF Discard_Load, EnterIf, EnterWith, Finish, can_discard_task, Absent
    <3> HIDE DEF Deploying, Uploading, ServedOf, StrandedOf, Finds
    <3> QED
      BY <3>1, <3>2, ServedKept
  <2>30. ASSUME NEW w \in Workers, Remove_Entry(w)
       PROVE  Served'
    BY <2>30 DEF Remove_Entry
  <2>31. ASSUME NEW w \in Workers, Remove_TreeGone(w)
       PROVE  Served'
    BY <2>31 DEF Remove_TreeGone, Goto
  <2>32. ASSUME NEW w \in Workers, Remove_Raises(w)
       PROVE  Served'
    BY <2>32 DEF Remove_Raises, Fault, ReleaseTask, Finish
  <2>33. ASSUME NEW w \in Workers, Remove_Unlink(w)
       PROVE  Served'
    <3>t. PICK t \in Tasks : t = cur[w]
      BY <2>33 DEF Remove_Unlink
    <3>1. \A u \in Tasks \ {t} :
            /\ UNCHANGED <<record[u], queue[u], removedFrom[u]>>
            /\ u \in stranded' <=> u \in stranded
            /\ \A v \in Workers :
                 (Deploying(v, u)' <=> Deploying(v, u)) /\ (Uploading(v, u)' => Uploading(v, u))
      BY <2>33, <3>t DEF Remove_Unlink, Save, Absent, ReleaseTask, Finish
    <3>2. ServedOf(t)'
      BY <2>33, <3>t DEF Remove_Unlink, Save, Absent, ReleaseTask, Finish
    <3>3. StrandedOf(t)'
      BY <2>33, <3>t DEF Remove_Unlink, Save, Absent, ReleaseTask, Finish
    <3>4. Finds'
      BY <2>33, <3>t DEF Remove_Unlink, Save, Absent, ReleaseTask, Finish
    <3> HIDE DEF Deploying, Uploading, ServedOf, StrandedOf, Finds
    <3> QED
      BY <3>1, <3>2, <3>3, <3>4, ServedKept
  <2>34. ASSUME NEW w \in Workers, SaveRaises(w)
       PROVE  Served'
    <3>t. PICK t \in Tasks : t = cur[w]
      BY <2>34 DEF SaveRaises
    <3>1. \A u \in Tasks \ {t} :
            /\ UNCHANGED <<record[u], queue[u], removedFrom[u]>>
            /\ u \in stranded' <=> u \in stranded
            /\ \A v \in Workers :
                 (Deploying(v, u)' <=> Deploying(v, u)) /\ (Uploading(v, u)' => Uploading(v, u))
      BY <2>34, <3>t DEF SaveRaises, Fault, ReleaseTask, ReleaseApp, Finish
    <3>2. ServedOf(t)'
      BY <2>34, <3>t DEF SaveRaises, Fault, ReleaseTask, ReleaseApp, Finish
    <3>3. StrandedOf(t)'
      BY <2>34, <3>t DEF SaveRaises, Fault, ReleaseTask, ReleaseApp, Finish
    <3>4. Finds'
      BY <2>34, <3>t DEF SaveRaises, Fault, ReleaseTask, ReleaseApp, Finish
    <3> HIDE DEF Deploying, Uploading, ServedOf, StrandedOf, Finds
    <3> QED
      BY <3>1, <3>2, <3>3, <3>4, ServedKept
  <2>35. CASE Crash
    <3>1. \A w \in Workers : pc'[w] = "idle" /\ cur'[w] = NoTask
      BY <2>35 DEF Crash
    <3>2. \A t \in Tasks :
            /\ queue'[t] = 0 /\ record'[t] = record[t] /\ removedFrom'[t] = removedFrom[t]
            /\ t \in stranded' <=> t \in stranded \/ Active(t)
      BY <2>35 DEF Crash
    <3>3. \A t \in Tasks, w \in Workers : ~Deploying(w, t)' /\ ~Uploading(w, t)'
      BY <3>1
    <3>4. Finds'
      BY <3>1
    <3> HIDE DEF Deploying, Uploading, Finds
    <3> QED
      BY <3>2, <3>3, <3>4 DEF Active
  <2>36. CASE UNCHANGED vars
    BY <2>36
  <2> HIDE DEF Served, vars
  <2>37. QED
    BY <2>1, <2>2, <2>3, <2>4, <2>5, <2>6, <2>7, <2>8, <2>9, <2>10, <2>11, 
       <2>12, <2>13, <2>14, <2>15, <2>16, <2>17, <2>18, <2>19, <2>20, <2>21, 
       <2>22, <2>23, <2>24, <2>25, <2>26, <2>27, <2>28, <2>29, <2>30, <2>31, 
       <2>32, <2>33, <2>34, <2>35, <2>36
    DEF Next, Arrive, Start, Work, Upload_Step, Deploy_Step, Change_Step
<1>3. QED
  BY <1>1, <1>2, TypedInvariant, MemoryInvariant, LockInvariant, RecordInvariant,
     ExclusionInvariant, PTL DEF Spec, Context

\* No accepted request for a deployment is lost or carried out twice, however
\* requests, retries, failures and crashes follow one another: when deploys
\* come from begin_deploy, each "deploying" task has exactly one.
THEOREM OneDeployPerRequestHolds ==
  ASSUME DirectDeploy = FALSE
  PROVE  Spec => []OneDeployPerRequest
<1>1. Served => OneDeployPerRequest
  <2> SUFFICES ASSUME Served, NEW t \in Tasks
               PROVE  queue[t] + Cardinality({w \in Workers : Deploying(w, t)})
                        = IF record[t].status = "deploying" /\ t \notin stranded THEN 1 ELSE 0
    BY DEF OneDeployPerRequest
  <2>1. ServedOf(t)
    BY DEF Served
  <2>2. CASE \A w \in Workers : ~Deploying(w, t)
    <3>1. {w \in Workers : Deploying(w, t)} = {}
      BY <2>2
    <3>2. Cardinality({w \in Workers : Deploying(w, t)}) = 0
      BY <3>1, FS_EmptySet
    <3> QED
      BY <2>1, <2>2, <3>2 DEF ServedOf
  <2>3. CASE \E v \in Workers : \A w \in Workers : Deploying(w, t) <=> w = v
    <3>1. PICK v \in Workers : \A w \in Workers : Deploying(w, t) <=> w = v
      BY <2>3
    <3>2. {w \in Workers : Deploying(w, t)} = {v}
      BY <3>1
    <3>3. Cardinality({w \in Workers : Deploying(w, t)}) = 1
      BY <3>2, FS_Singleton
    <3>4. Deploying(v, t)
      BY <3>1
    <3> QED
      BY <2>1, <3>3, <3>4 DEF ServedOf
  <2> QED
    BY <2>1, <2>2, <2>3 DEF ServedOf
<1> QED
  BY <1>1, ServedInvariant, PTL

-----------------------------------------------------------------------------
(* A task is composed from its whole package. *)

WholeOf(t) ==
  \/ Content \subseteq pkg[t]
  \/ t \in cut
  \/ \E v \in Workers : cur[v] = t /\ pc[v] \in RemovePC

\* From the review on, a package is whole until a removal of the task begins;
\* that is not so of the package of a failed upload.
Package ==
  /\ \A t \in Tasks :
       \/ record[t].status \in {"pending_review", "deploying", "deployed"}
       \/ record[t].status = "failed" /\ record[t].phase # "upload"
       => WholeOf(t)
  /\ \A w \in Workers :
       /\ pc[w] = "up_save" => WholeOf(cur[w])
       /\ pc[w] = "up_fail" => mem[w].phase = "upload"
       /\ pc[w] \in {"begin_save", "edit_save", "dep_begin"} /\ mem[w].status = "failed" =>
            mem[w].phase # "upload"

LEMMA PackageInvariant == Spec => []Package
<1>1. Init => Package
  BY DEF Init, Package, Absent
<1>2. Context /\ Package /\ [Next]_vars => Package'
  <2> SUFFICES ASSUME Context, Package, [Next]_vars PROVE Package'
    OBVIOUS
  <2>a. /\ mem \in [Workers -> Record] /\ record \in [Tasks -> Record]
        /\ pc \in [Workers -> PC] /\ pkg \in [Tasks -> SUBSET Entries]
        /\ queue \in [Tasks -> Nat] /\ stranded \subseteq Tasks /\ cut \subseteq Tasks
        /\ cur \in [Workers -> Tasks \cup {NoTask}]
        /\ removedFrom \in [Tasks -> Status]
        /\ \A w \in Workers : pc[w] = "idle" <=> cur[w] = NoTask
    BY DEF Context, Typed, TypeOK, Occupied
  <2>b. \A w \in Workers : pc[w] \in LockedPC \cup UploadPC => cur[w] \in Tasks
    BY <2>a DEF LockedPC, RunPC, RemovePC, UploadPC
  <2>c. \A v \in Workers, w \in Workers :
          cur[v] = cur[w] /\ pc[v] \in LockedPC =>
            /\ pc[w] \in LockedPC => v = w
            /\ pc[w] \in UploadPC => pc[v] \in RemovePC /\ mem[v].status = "uploaded"
    BY Separation
  <2>d. \A w \in Workers :
          /\ pc[w] \in {"begin_save", "edit_save", "dep_begin"} =>
               record[cur[w]] = mem[w] /\ mem[w].status \in {"pending_review", "failed"}
          /\ pc[w] = "dep_save" => record[cur[w]].status = "deploying"
          /\ pc[w] \in UploadPC => record[cur[w]].status \in {"absent", "uploaded", "extracting"}
          /\ pc[w] = "up_fail" => mem[w].status = "failed"
          /\ pc[w] \in RemovePC /\ mem[w].status # "uploaded" =>
               record[cur[w]].status \notin {"absent", "uploaded", "extracting"}
    BY DEF Context, MemoryOK, Exclusion, NoLostUpdate, LoadedIsCurrent, UploadAlone, LockedPC,
           RemovePC
  <2>e. \A v \in Workers, w \in Workers :
          pc[v] \in UploadPC /\ pc[w] \in UploadPC /\ v # w => cur[v] # cur[w]
    BY DEF Context, Exclusion, UploadAlone
  <2> USE <2>a, <2>b, <2>c, <2>d, <2>e, NullAssumption
      DEF Package, WholeOf, UploadPC, WaitPC, LockedPC, RunPC, RemovePC, Content, vars, diskVars,
          lockVars, localVars, histVars
  <2>1. ASSUME NEW w \in Workers, NEW t \in Tasks, Upload_Create(w, t)
       PROVE  Package'
    BY <2>1 DEF Upload_Create, Save, UploadRecord, Fresh
  <2>2. ASSUME NEW w \in Workers, NEW t \in Tasks, Request(w, t)
       PROVE  Package'
    BY <2>2 DEF Request, Requests
  <2>3. ASSUME NEW w \in Workers, NEW t \in Tasks, Upload_CreateRaises(w, t)
       PROVE  Package'
    BY <2>3 DEF Upload_CreateRaises, Fault, Fresh
  <2>4. ASSUME NEW w \in Workers, NEW t \in Tasks, Deploy_Start(w, t)
       PROVE  Package'
    BY <2>4 DEF Deploy_Start
  <2>5. ASSUME NEW w \in Workers, Upload_StoreArchive(w)
       PROVE  Package'
    BY <2>5 DEF Upload_StoreArchive, Goto
  <2>6. ASSUME NEW w \in Workers, Upload_MarkExtracting(w)
       PROVE  Package'
    BY <2>6 DEF Upload_MarkExtracting, Save, UploadRecord
  <2>7. ASSUME NEW w \in Workers, Upload_PrepareTree(w)
       PROVE  Package'
    BY <2>7 DEF Upload_PrepareTree, Goto
  <2>8. ASSUME NEW w \in Workers, Upload_OpenArchive(w)
       PROVE  Package'
    BY <2>8 DEF Upload_OpenArchive, Goto
  <2>9. ASSUME NEW w \in Workers, Upload_ExtractConfig(w)
       PROVE  Package'
    BY <2>9 DEF Upload_ExtractConfig, Upload_Extract, Goto
  <2>10. ASSUME NEW w \in Workers, Upload_ExtractPayload(w)
       PROVE  Package'
    BY <2>10 DEF Upload_ExtractPayload, Upload_Extract, Goto
  <2>11. ASSUME NEW w \in Workers, Upload_Review(w)
       PROVE  Package'
    BY <2>11 DEF Upload_Review, UploadRecord
  <2>12. ASSUME NEW w \in Workers, Upload_SavePending(w)
       PROVE  Package'
    BY <2>12 DEF Upload_SavePending, Save, Finish
  <2>13. ASSUME NEW w \in Workers, Upload_Raises(w)
       PROVE  Package'
    BY <2>13 DEF Upload_Raises, Fault, UploadRecord
  <2>14. ASSUME NEW w \in Workers, Upload_SaveFailed(w)
       PROVE  Package'
    BY <2>14 DEF Upload_SaveFailed, Save, Finish
  <2>15. ASSUME NEW w \in Workers, BeginDeploy_Load(w)
       PROVE  Package'
    BY <2>15 DEF BeginDeploy_Load, EnterIf, EnterWith, Finish, can_retry_task, is_recoverable_failure, Absent
  <2>16. ASSUME NEW w \in Workers, BeginDeploy_Save(w)
       PROVE  Package'
    BY <2>16 DEF BeginDeploy_Save, Save, DeployingRecord, ReleaseTask, Finish
  <2>17. ASSUME NEW w \in Workers, Deploy_Load(w)
       PROVE  Package'
    BY <2>17 DEF Deploy_Load, EnterIf, EnterWith, Finish, can_retry_task, is_recoverable_failure, Absent
  <2>18. ASSUME NEW w \in Workers, Deploy_SaveDeploying(w)
       PROVE  Package'
    BY <2>18 DEF Deploy_SaveDeploying, Save, DeployingRecord
  <2>19. ASSUME NEW w \in Workers, Deploy_LockApp(w)
       PROVE  Package'
    BY <2>19 DEF Deploy_LockApp, Goto
  <2>20. ASSUME NEW w \in Workers, Deploy_OverlayConfig(w)
       PROVE  Package'
    BY <2>20 DEF Deploy_OverlayConfig, Deploy_Overlay, Goto
  <2>21. ASSUME NEW w \in Workers, Deploy_OverlayPayload(w)
       PROVE  Package'
    BY <2>21 DEF Deploy_OverlayPayload, Deploy_Overlay, Goto
  <2>22. ASSUME NEW w \in Workers, Deploy_ComposeUp(w)
       PROVE  Package'
    BY <2>22 DEF Deploy_ComposeUp
  <2>23. ASSUME NEW w \in Workers, Deploy_Raises(w)
       PROVE  Package'
    BY <2>23 DEF Deploy_Raises
  <2>24. ASSUME NEW w \in Workers, Deploy_Save(w)
       PROVE  Package'
    BY <2>24 DEF Deploy_Save, Save, ReleaseTask, ReleaseApp, Finish
  <2>25. ASSUME NEW w \in Workers, Edit_Load(w)
       PROVE  Package'
    BY <2>25 DEF Edit_Load, EnterIf, EnterWith, Finish, can_edit_task, is_recoverable_failure, Absent
  <2>26. ASSUME NEW w \in Workers, Edit_Save(w)
       PROVE  Package'
    BY <2>26 DEF Edit_Save, Save, ReleaseTask, Finish
  <2>27. ASSUME NEW w \in Workers, Edit_Raises(w)
       PROVE  Package'
    BY <2>27 DEF Edit_Raises, ReleaseTask, Finish
  <2>28. ASSUME NEW w \in Workers, Delete_Load(w)
       PROVE  Package'
    BY <2>28 DEF Delete_Load, EnterIf, EnterWith, Finish, can_delete_task, Absent
  <2>29. ASSUME NEW w \in Workers, Discard_Load(w)
       PROVE  Package'
    BY <2>29 DEF Discard_Load, EnterIf, EnterWith, Finish, can_discard_task, Absent
  <2>30. ASSUME NEW w \in Workers, Remove_Entry(w)
       PROVE  Package'
    BY <2>30 DEF Remove_Entry
  <2>31. ASSUME NEW w \in Workers, Remove_TreeGone(w)
       PROVE  Package'
    BY <2>31 DEF Remove_TreeGone, Goto
  <2>32. ASSUME NEW w \in Workers, Remove_Raises(w)
       PROVE  Package'
    BY <2>32 DEF Remove_Raises, Fault, ReleaseTask, Finish
  <2>33. ASSUME NEW w \in Workers, Remove_Unlink(w)
       PROVE  Package'
    <3>t. PICK t \in Tasks : t = cur[w]
      BY <2>33 DEF Remove_Unlink
    <3>1. /\ record' = [record EXCEPT ![t] = Absent]
          /\ UNCHANGED pkg /\ cut \subseteq cut'
          /\ mem[w].status = "uploaded" => t \in cut'
          /\ pc[w] = "rm_unlink" /\ pc' = [pc EXCEPT ![w] = "idle"]
          /\ cur' = [cur EXCEPT ![w] = NoTask]
          /\ \A v \in Workers \ {w} : mem'[v] = mem[v]
      BY <2>33, <3>t DEF Remove_Unlink, Save, Finish
    <3>2. \A u \in Tasks \ {t} : WholeOf(u) => WholeOf(u)'
      BY <3>t, <3>1
    <3>3. \A v \in Workers : pc[v] = "up_save" /\ cur[v] = t => t \in cut'
      BY <3>t, <3>1
    <3>4. \A v \in Workers : pc'[v] = "up_save" => WholeOf(cur[v])' /\ cur'[v] = cur[v]
      BY <3>1, <3>2, <3>3
    <3> QED
      BY <3>1, <3>2, <3>3, <3>4 DEF Absent
  <2>34. ASSUME NEW w \in Workers, SaveRaises(w)
       PROVE  Package'
    BY <2>34 DEF SaveRaises, Fault, ReleaseTask, ReleaseApp, Finish
  <2>35. CASE Crash
    BY <2>35 DEF Crash
  <2>36. CASE UNCHANGED vars
    BY <2>36
  <2> HIDE DEF Package, vars
  <2>37. QED
    BY <2>1, <2>2, <2>3, <2>4, <2>5, <2>6, <2>7, <2>8, <2>9, <2>10, <2>11, 
       <2>12, <2>13, <2>14, <2>15, <2>16, <2>17, <2>18, <2>19, <2>20, <2>21, 
       <2>22, <2>23, <2>24, <2>25, <2>26, <2>27, <2>28, <2>29, <2>30, <2>31, 
       <2>32, <2>33, <2>34, <2>35, <2>36
    DEF Next, Arrive, Start, Work, Upload_Step, Deploy_Step, Change_Step
<1>3. QED
  BY <1>1, <1>2, TypedInvariant, MemoryInvariant, LockInvariant, ExclusionInvariant, PTL
  DEF Spec, Context

\* docker compose up never runs on half a package, unless a removal of the
\* task was cut short: nothing else touches the package of a reviewed task.
THEOREM ComposeSeesWholePackageHolds == Spec => []ComposeSeesWholePackage
<1>1. Context /\ Package => ComposeSeesWholePackage
  <2> SUFFICES ASSUME Context, Package, NEW w \in Workers, pc[w] = "dep_up"
               PROVE  Content \subseteq pkg[cur[w]] \/ cur[w] \in cut
    BY DEF ComposeSeesWholePackage
  <2>1. /\ cur[w] \in Tasks /\ pc[w] \in LockedPC /\ pc[w] \notin RemovePC
        /\ record[cur[w]].status = "deploying"
    BY DEF Context, Typed, TypeOK, Occupied, MemoryOK, Exclusion, NoLostUpdate, LoadedIsCurrent,
           LockedPC, RunPC, RemovePC
  <2>2. WholeOf(cur[w])
    BY <2>1 DEF Package
  <2>3. \A v \in Workers : cur[v] = cur[w] => pc[v] \notin RemovePC
    BY <2>1, Separation DEF LockedPC
  <2> QED
    BY <2>2, <2>3 DEF WholeOf
<1> QED
  BY <1>1, TypedInvariant, MemoryInvariant, LockInvariant, ExclusionInvariant, PackageInvariant, PTL
  DEF Context

-----------------------------------------------------------------------------
(* TaskLifecycle implements TaskStatus. *)

\* The discard of the task has returned, and its upload not yet come back.
Discarded(t) == record[t] = Absent /\ removedFrom[t] = "uploaded"

\* A task that is being discarded, wherever its upload has got to meanwhile.
GivenUp(t) ==
  \/ record[t].status \in {"uploaded", "extracting", "pending_review"}
  \/ record[t].status = "failed" /\ record[t].phase = "upload"

\* What a worker is about to save follows from the status a client sees, and
\* the record of an upload is where its steps have brought it, unless a discard
\* has taken it away.
FateOf(w) ==
  /\ pc[w] \in {"begin_save", "edit_save", "dep_begin"} /\ mem[w].status = "failed" =>
       mem[w].phase # "upload"
  /\ pc[w] = "dep_save" /\ mem[w].status = "failed" => mem[w].phase = "deploy"
  /\ pc[w] = "up_fail" => mem[w].phase = "upload"
  /\ pc[w] \in {"up_store", "up_mark"} =>
       record[cur[w]].status = "uploaded" \/ Discarded(cur[w])
  /\ pc[w] \in {"up_prepare", "up_open", "up_config", "up_payload", "up_review", "up_save"} =>
       record[cur[w]].status = "extracting" \/ Discarded(cur[w])
  /\ pc[w] = "up_fail" =>
       record[cur[w]].status \in {"uploaded", "extracting"} \/ Discarded(cur[w])
  /\ pc[w] = "discard_wait" => Discarding
  /\ pc[w] \in RemovePC /\ mem[w].status = "uploaded" => Discarding /\ GivenUp(cur[w])

Fates ==
  /\ \A w \in Workers : FateOf(w)
  /\ \A t \in Tasks : removedFrom[t] = "uploaded" => Discarding

LEMMA FatesInvariant == Spec => []Fates
<1>1. Init => Fates
  BY DEF Init, Fates, FateOf, RemovePC
<1>2. Context /\ Fates /\ [Next]_vars => Fates'
  <2> SUFFICES ASSUME Context, Fates, [Next]_vars PROVE Fates'
    OBVIOUS
  <2>a. /\ mem \in [Workers -> Record] /\ record \in [Tasks -> Record]
        /\ pc \in [Workers -> PC]
        /\ cur \in [Workers -> Tasks \cup {NoTask}]
        /\ removedFrom \in [Tasks -> Status]
        /\ \A w \in Workers : pc[w] = "idle" <=> cur[w] = NoTask
    BY DEF Context, Typed, TypeOK, Occupied
  <2>b. \A w \in Workers : pc[w] \in LockedPC \cup UploadPC => cur[w] \in Tasks
    BY <2>a DEF LockedPC, RunPC, RemovePC, UploadPC
  <2>c. /\ \A v \in Workers, w \in Workers :
             pc[v] \in LockedPC /\ pc[w] \in UploadPC /\ cur[v] = cur[w] =>
               pc[v] \in RemovePC /\ mem[v].status = "uploaded"
        /\ \A v \in Workers, w \in Workers :
             pc[v] \in LockedPC /\ pc[w] \in LockedPC /\ v # w => cur[v] # cur[w]
        /\ \A v \in Workers, w \in Workers :
             pc[v] \in UploadPC /\ pc[w] \in UploadPC /\ v # w => cur[v] # cur[w]
    BY Separation DEF Context, Exclusion, UploadAlone
  <2> USE <2>a, <2>b, <2>c, NullAssumption
      DEF Fates, FateOf, Discarded, GivenUp, UploadPC, WaitPC, LockedPC, RunPC, RemovePC, vars, diskVars, lockVars,
          localVars, histVars
  <2>1. ASSUME NEW w \in Workers, NEW t \in Tasks, Upload_Create(w, t)
       PROVE  Fates'
    BY <2>1 DEF Upload_Create, Save, UploadRecord, Fresh
  <2>2. ASSUME NEW w \in Workers, NEW t \in Tasks, Request(w, t)
       PROVE  Fates'
    BY <2>2 DEF Request, Requests
  <2>3. ASSUME NEW w \in Workers, NEW t \in Tasks, Upload_CreateRaises(w, t)
       PROVE  Fates'
    BY <2>3 DEF Upload_CreateRaises, Fault, Fresh
  <2>4. ASSUME NEW w \in Workers, NEW t \in Tasks, Deploy_Start(w, t)
       PROVE  Fates'
    BY <2>4 DEF Deploy_Start
  <2>5. ASSUME NEW w \in Workers, Upload_StoreArchive(w)
       PROVE  Fates'
    BY <2>5 DEF Upload_StoreArchive, Goto
  <2>6. ASSUME NEW w \in Workers, Upload_MarkExtracting(w)
       PROVE  Fates'
    BY <2>6 DEF Upload_MarkExtracting, Save, UploadRecord
  <2>7. ASSUME NEW w \in Workers, Upload_PrepareTree(w)
       PROVE  Fates'
    BY <2>7 DEF Upload_PrepareTree, Goto
  <2>8. ASSUME NEW w \in Workers, Upload_OpenArchive(w)
       PROVE  Fates'
    BY <2>8 DEF Upload_OpenArchive, Goto
  <2>9. ASSUME NEW w \in Workers, Upload_ExtractConfig(w)
       PROVE  Fates'
    BY <2>9 DEF Upload_ExtractConfig, Upload_Extract, Goto
  <2>10. ASSUME NEW w \in Workers, Upload_ExtractPayload(w)
       PROVE  Fates'
    BY <2>10 DEF Upload_ExtractPayload, Upload_Extract, Goto
  <2>11. ASSUME NEW w \in Workers, Upload_Review(w)
       PROVE  Fates'
    BY <2>11 DEF Upload_Review, UploadRecord
  <2>12. ASSUME NEW w \in Workers, Upload_SavePending(w)
       PROVE  Fates'
    <3>1. PICK t \in Tasks : t = cur[w] /\ pc[w] \in UploadPC
      BY <2>12 DEF Upload_SavePending
    <3>2. /\ \A u \in Tasks : record'[u] = IF u = t THEN mem[w] ELSE record[u]
          /\ pc' = [pc EXCEPT ![w] = "idle"] /\ UNCHANGED removedFrom
          /\ \A v \in Workers \ {w} : cur'[v] = cur[v] /\ mem'[v] = mem[v]
      BY <2>12, <3>1 DEF Upload_SavePending, Save, Finish
    <3>3. mem[w].status = "pending_review"
      BY <2>12 DEF Upload_SavePending, Context, MemoryOK
    <3>4. ASSUME NEW v \in Workers \ {w} PROVE FateOf(v)'
      <4>1. pc[v] \in UploadPC => cur[v] # t
        BY <3>1
      <4>2. pc[v] \in LockedPC /\ cur[v] = t => pc[v] \in RemovePC /\ mem[v].status = "uploaded"
        BY <3>1
      <4>3. pc'[v] = pc[v] /\ cur'[v] = cur[v] /\ mem'[v] = mem[v]
        BY <3>2
      <4> QED
        BY <3>2, <3>3, <4>1, <4>2, <4>3
    <3>5. FateOf(w)'
      BY <3>2
    <3> QED
      BY <3>2, <3>4, <3>5
  <2>13. ASSUME NEW w \in Workers, Upload_Raises(w)
       PROVE  Fates'
    BY <2>13 DEF Upload_Raises, Fault, UploadRecord
  <2>14. ASSUME NEW w \in Workers, Upload_SaveFailed(w)
       PROVE  Fates'
    <3>1. PICK t \in Tasks : t = cur[w] /\ pc[w] \in UploadPC
      BY <2>14 DEF Upload_SaveFailed
    <3>2. /\ \A u \in Tasks : record'[u] = IF u = t THEN mem[w] ELSE record[u]
          /\ pc' = [pc EXCEPT ![w] = "idle"] /\ UNCHANGED removedFrom
          /\ \A v \in Workers \ {w} : cur'[v] = cur[v] /\ mem'[v] = mem[v]
      BY <2>14, <3>1 DEF Upload_SaveFailed, Save, Finish
    <3>3. mem[w].status = "failed" /\ mem[w].phase = "upload"
      BY <2>14 DEF Upload_SaveFailed, Context, MemoryOK
    <3>4. ASSUME NEW v \in Workers \ {w} PROVE FateOf(v)'
      <4>1. pc[v] \in UploadPC => cur[v] # t
        BY <3>1
      <4>2. pc[v] \in LockedPC /\ cur[v] = t => pc[v] \in RemovePC /\ mem[v].status = "uploaded"
        BY <3>1
      <4>3. pc'[v] = pc[v] /\ cur'[v] = cur[v] /\ mem'[v] = mem[v]
        BY <3>2
      <4> QED
        BY <3>2, <3>3, <4>1, <4>2, <4>3
    <3>5. FateOf(w)'
      BY <3>2
    <3> QED
      BY <3>2, <3>4, <3>5
  <2>15. ASSUME NEW w \in Workers, BeginDeploy_Load(w)
       PROVE  Fates'
    BY <2>15 DEF BeginDeploy_Load, EnterIf, EnterWith, Finish, can_retry_task, is_recoverable_failure, Absent
  <2>16. ASSUME NEW w \in Workers, BeginDeploy_Save(w)
       PROVE  Fates'
    BY <2>16 DEF BeginDeploy_Save, Save, DeployingRecord, ReleaseTask, Finish
  <2>17. ASSUME NEW w \in Workers, Deploy_Load(w)
       PROVE  Fates'
    BY <2>17 DEF Deploy_Load, EnterIf, EnterWith, Finish, can_retry_task, is_recoverable_failure, Absent
  <2>18. ASSUME NEW w \in Workers, Deploy_SaveDeploying(w)
       PROVE  Fates'
    BY <2>18 DEF Deploy_SaveDeploying, Save, DeployingRecord
  <2>19. ASSUME NEW w \in Workers, Deploy_LockApp(w)
       PROVE  Fates'
    BY <2>19 DEF Deploy_LockApp, Goto
  <2>20. ASSUME NEW w \in Workers, Deploy_OverlayConfig(w)
       PROVE  Fates'
    BY <2>20 DEF Deploy_OverlayConfig, Deploy_Overlay, Goto
  <2>21. ASSUME NEW w \in Workers, Deploy_OverlayPayload(w)
       PROVE  Fates'
    BY <2>21 DEF Deploy_OverlayPayload, Deploy_Overlay, Goto
  <2>22. ASSUME NEW w \in Workers, Deploy_ComposeUp(w)
       PROVE  Fates'
    BY <2>22 DEF Deploy_ComposeUp
  <2>23. ASSUME NEW w \in Workers, Deploy_Raises(w)
       PROVE  Fates'
    BY <2>23 DEF Deploy_Raises
  <2>24. ASSUME NEW w \in Workers, Deploy_Save(w)
       PROVE  Fates'
    BY <2>24 DEF Deploy_Save, Save, ReleaseTask, ReleaseApp, Finish
  <2>25. ASSUME NEW w \in Workers, Edit_Load(w)
       PROVE  Fates'
    BY <2>25 DEF Edit_Load, EnterIf, EnterWith, Finish, can_edit_task, is_recoverable_failure, Absent
  <2>26. ASSUME NEW w \in Workers, Edit_Save(w)
       PROVE  Fates'
    BY <2>26 DEF Edit_Save, Save, ReleaseTask, Finish
  <2>27. ASSUME NEW w \in Workers, Edit_Raises(w)
       PROVE  Fates'
    BY <2>27 DEF Edit_Raises, ReleaseTask, Finish
  <2>28. ASSUME NEW w \in Workers, Delete_Load(w)
       PROVE  Fates'
    BY <2>28 DEF Delete_Load, EnterIf, EnterWith, Finish, can_delete_task, Absent
  <2>29. ASSUME NEW w \in Workers, Discard_Load(w)
       PROVE  Fates'
    BY <2>29 DEF Discard_Load, EnterIf, EnterWith, Finish, can_discard_task, Absent
  <2>30. ASSUME NEW w \in Workers, Remove_Entry(w)
       PROVE  Fates'
    BY <2>30 DEF Remove_Entry
  <2>31. ASSUME NEW w \in Workers, Remove_TreeGone(w)
       PROVE  Fates'
    BY <2>31 DEF Remove_TreeGone, Goto
  <2>32. ASSUME NEW w \in Workers, Remove_Raises(w)
       PROVE  Fates'
    BY <2>32 DEF Remove_Raises, Fault, ReleaseTask, Finish
  <2>33. ASSUME NEW w \in Workers, Remove_Unlink(w)
       PROVE  Fates'
    BY <2>33 DEF Remove_Unlink, Save, ReleaseTask, Finish
  <2>34. ASSUME NEW w \in Workers, SaveRaises(w)
       PROVE  Fates'
    BY <2>34 DEF SaveRaises, Fault, ReleaseTask, ReleaseApp, Finish
  <2>35. CASE Crash
    BY <2>35 DEF Crash
  <2>36. CASE UNCHANGED vars
    BY <2>36
  <2> HIDE DEF Fates, vars
  <2>37. QED
    BY <2>1, <2>2, <2>3, <2>4, <2>5, <2>6, <2>7, <2>8, <2>9, <2>10, <2>11, 
       <2>12, <2>13, <2>14, <2>15, <2>16, <2>17, <2>18, <2>19, <2>20, <2>21, 
       <2>22, <2>23, <2>24, <2>25, <2>26, <2>27, <2>28, <2>29, <2>30, <2>31, 
       <2>32, <2>33, <2>34, <2>35, <2>36
    DEF Next, Arrive, Start, Work, Upload_Step, Deploy_Step, Change_Step
<1>3. QED
  BY <1>1, <1>2, TypedInvariant, MemoryInvariant, LockInvariant, ExclusionInvariant, PTL
     DEF Spec, Context

\* Saving the record of one task is a move of that task alone.
LEMMA SaveMoves ==
  ASSUME Typed, NEW t \in Tasks, NEW r, Save(t, r),
         \A u \in Tasks \ {t} : removedFrom'[u] = removedFrom[u],
         NEW from, ClientStatus(t) \in from,
         NEW to, ClientStatus(t)' = to
  PROVE  Abstract!Move(t, from, to)
<1>1. \A u \in Tasks \ {t} : record'[u] = record[u]
  BY DEF Save, Typed, TypeOK
<1>2. \A u \in Tasks \ {t} : ClientStatus(u)' = ClientStatus(u)
  BY <1>1 DEF ClientStatus
<1>3. [u \in Tasks |-> ClientStatus(u)][t] \in from
  OBVIOUS
<1>4. [u \in Tasks |-> ClientStatus(u)]'
        = [[u \in Tasks |-> ClientStatus(u)] EXCEPT ![t] = to]
  BY <1>2
<1> QED
  BY <1>3, <1>4 DEF Abstract!Move

\* A step that writes no record and ends no removal is not seen by clients.
LEMMA QuietStutters ==
  ASSUME UNCHANGED <<record, removedFrom>>
  PROVE  [u \in Tasks |-> ClientStatus(u)]' = [u \in Tasks |-> ClientStatus(u)]
  BY DEF ClientStatus

Moves == \E t \in Tasks :
    \/ Abstract!Upload(t) \/ Abstract!Extract(t) \/ Abstract!Accept(t) \/ Abstract!Reject(t)
    \/ Abstract!BeginDeploy(t) \/ Abstract!Deployed(t) \/ Abstract!DeployFails(t)
    \/ Abstract!Edit(t) \/ Abstract!Remove(t) \/ Abstract!Discard(t) \/ Abstract!Return(t)

\* An upload that saves its record anew after a discard of it.
LEMMA UploadReturns ==
  ASSUME Context, Fates, NEW t \in Tasks, NEW r, Save(t, r), UNCHANGED removedFrom, Discarded(t),
         NEW to \in Abstract!Uploads \ {"uploaded"}, ClientStatus(t)' = to
  PROVE  Moves
<1>1. ClientStatus(t) \in {"discarded"} /\ Discarding
  BY DEF Discarded, ClientStatus, Absent, Fates
<1>2. Abstract!Move(t, {"discarded"}, to)
  BY <1>1, SaveMoves DEF Context
<1> QED
  BY <1>1, <1>2 DEF Moves, Abstract!Return

LEMMA EachStepMoves ==
  ASSUME Context, Fates, [Next]_vars
  PROVE  Moves \/ UNCHANGED <<record, removedFrom>>
<1>a. /\ mem \in [Workers -> Record] /\ record \in [Tasks -> Record]
      /\ pc \in [Workers -> PC]
      /\ cur \in [Workers -> Tasks \cup {NoTask}]
      /\ removedFrom \in [Tasks -> Status]
      /\ \A w \in Workers : pc[w] = "idle" <=> cur[w] = NoTask
  BY DEF Context, Typed, TypeOK, Occupied
<1>b. \A w \in Workers : pc[w] \in LockedPC \cup UploadPC => cur[w] \in Tasks
  BY <1>a DEF LockedPC, RunPC, RemovePC, UploadPC
<1>d. Typed
  BY DEF Context
<1>1. ASSUME NEW w \in Workers, NEW t \in Tasks, Upload_Create(w, t)
      PROVE  Moves
  <2>1. /\ Save(t, UploadRecord("uploaded", "none", NoApp))
        /\ UNCHANGED removedFrom
        /\ record[t] = Absent /\ removedFrom[t] = "absent"
    BY <1>1 DEF Upload_Create, Fresh, histVars
  <2>2. ClientStatus(t) \in {"none"} /\ ClientStatus(t)' = "uploaded"
    BY <1>a, <2>1 DEF ClientStatus, Absent, UploadRecord, Save
  <2>3. Abstract!Move(t, {"none"}, "uploaded")
    BY <1>d, <2>1, <2>2, SaveMoves
  <2> QED
    BY <2>3 DEF Moves, Abstract!Upload
<1>2. ASSUME NEW w \in Workers, Upload_MarkExtracting(w)
      PROVE  Moves
  <2>0. PICK t \in Tasks : t = cur[w]
    BY <1>2, <1>b DEF Upload_MarkExtracting, UploadPC
  <2>1. /\ Save(t, UploadRecord("extracting", "none", NoApp))
        /\ UNCHANGED removedFrom
        /\ pc[w] = "up_mark"
    BY <1>2, <2>0 DEF Upload_MarkExtracting, histVars
  <2>2. record[t].status = "uploaded" \/ Discarded(t)
    BY <1>b, <2>0, <2>1 DEF UploadPC, Fates, FateOf
  <2>r. ClientStatus(t)' = "extracting"
    BY <1>a, <2>1 DEF ClientStatus, UploadRecord, Save
  <2>3. CASE Discarded(t)
    <3>1. "extracting" \in Abstract!Uploads \ {"uploaded"}
      BY DEF Abstract!Uploads
    <3> QED
      BY <2>1, <2>r, <2>3, <3>1, UploadReturns
  <2>4. CASE ~Discarded(t)
    <3>1. ClientStatus(t) \in {"uploaded"}
      BY <2>2, <2>4 DEF ClientStatus
    <3>2. Abstract!Move(t, {"uploaded"}, "extracting")
      BY <1>d, <2>1, <2>r, <3>1, SaveMoves
    <3> QED
      BY <3>2 DEF Moves, Abstract!Extract
  <2> QED
    BY <2>3, <2>4
<1>3. ASSUME NEW w \in Workers, Upload_SavePending(w)
      PROVE  Moves
  <2>0. PICK t \in Tasks : t = cur[w]
    BY <1>3, <1>b DEF Upload_SavePending, UploadPC
  <2>1. /\ Save(t, mem[w])
        /\ UNCHANGED removedFrom
        /\ pc[w] = "up_save"
    BY <1>3, <2>0 DEF Upload_SavePending, histVars
  <2>2. /\ record[t].status = "extracting" \/ Discarded(t)
        /\ mem[w].status = "pending_review"
    BY <1>b, <2>0, <2>1 DEF UploadPC, Fates, FateOf, Context, MemoryOK
  <2>r. ClientStatus(t)' = "pending_review"
    BY <1>a, <2>1, <2>2 DEF ClientStatus, Save
  <2>3. CASE Discarded(t)
    <3>1. "pending_review" \in Abstract!Uploads \ {"uploaded"}
      BY DEF Abstract!Uploads
    <3> QED
      BY <2>1, <2>r, <2>3, <3>1, UploadReturns
  <2>4. CASE ~Discarded(t)
    <3>1. ClientStatus(t) \in {"extracting"}
      BY <2>2, <2>4 DEF ClientStatus
    <3>2. Abstract!Move(t, {"extracting"}, "pending_review")
      BY <1>d, <2>1, <2>r, <3>1, SaveMoves
    <3> QED
      BY <3>2 DEF Moves, Abstract!Accept
  <2> QED
    BY <2>3, <2>4
<1>4. ASSUME NEW w \in Workers, Upload_SaveFailed(w)
      PROVE  Moves
  <2>0. PICK t \in Tasks : t = cur[w]
    BY <1>4, <1>b DEF Upload_SaveFailed, UploadPC
  <2>1. /\ Save(t, mem[w])
        /\ UNCHANGED removedFrom
        /\ pc[w] = "up_fail"
    BY <1>4, <2>0 DEF Upload_SaveFailed, histVars
  <2>2. /\ record[t].status \in {"uploaded", "extracting"} \/ Discarded(t)
        /\ mem[w].status = "failed" /\ mem[w].phase = "upload"
    BY <1>b, <2>0, <2>1 DEF UploadPC, Fates, FateOf, Context, MemoryOK
  <2>r. ClientStatus(t)' = "upload_failed"
    BY <1>a, <2>1, <2>2 DEF ClientStatus, Save
  <2>3. CASE Discarded(t)
    <3>1. "upload_failed" \in Abstract!Uploads \ {"uploaded"}
      BY DEF Abstract!Uploads
    <3> QED
      BY <2>1, <2>r, <2>3, <3>1, UploadReturns
  <2>4. CASE ~Discarded(t)
    <3>1. ClientStatus(t) \in {"uploaded", "extracting"}
      BY <2>2, <2>4 DEF ClientStatus
    <3>2. Abstract!Move(t, {"uploaded", "extracting"}, "upload_failed")
      BY <1>d, <2>1, <2>r, <3>1, SaveMoves
    <3> QED
      BY <3>2 DEF Moves, Abstract!Reject
  <2> QED
    BY <2>3, <2>4
<1>5. ASSUME NEW w \in Workers, BeginDeploy_Save(w) \/ Deploy_SaveDeploying(w)
      PROVE  Moves
  <2>0. PICK t \in Tasks : t = cur[w]
    BY <1>5, <1>b DEF BeginDeploy_Save, Deploy_SaveDeploying, LockedPC, RunPC, RemovePC
  <2>1. /\ Save(t, DeployingRecord(mem[w]))
        /\ UNCHANGED removedFrom
        /\ pc[w] \in {"begin_save", "dep_begin"}
    BY <1>5, <2>0 DEF BeginDeploy_Save, Deploy_SaveDeploying, histVars
  <2>2. /\ record[t] = mem[w] /\ mem[w] \in Record
        /\ \/ mem[w].status = "pending_review"
           \/ mem[w].status = "failed" /\ mem[w].phase # "upload"
    BY <1>a, <1>b, <2>0, <2>1
    DEF LockedPC, RemovePC, Fates, FateOf, Context, MemoryOK, Exclusion, NoLostUpdate,
        LoadedIsCurrent
  <2>3. ClientStatus(t) \in Abstract!Deployable /\ ClientStatus(t)' = "deploying"
    BY <1>a, <2>1, <2>2 DEF ClientStatus, Save, DeployingRecord, Record, Abstract!Deployable
  <2>4. Abstract!Move(t, Abstract!Deployable, "deploying")
    BY <1>d, <2>1, <2>2, <2>3, SaveMoves
  <2> QED
    BY <2>4 DEF Moves, Abstract!BeginDeploy
<1>6. ASSUME NEW w \in Workers, Deploy_Save(w)
      PROVE  Moves
  <2>0. PICK t \in Tasks : t = cur[w]
    BY <1>6, <1>b DEF Deploy_Save, LockedPC, RunPC, RemovePC
  <2>1. /\ Save(t, mem[w])
        /\ UNCHANGED removedFrom
        /\ pc[w] = "dep_save"
    BY <1>6, <2>0 DEF Deploy_Save, histVars
  <2>2. /\ record[t].status = "deploying"
        /\ \/ mem[w].status = "deployed"
           \/ mem[w].status = "failed" /\ mem[w].phase = "deploy"
    BY <1>b, <2>0, <2>1
    DEF LockedPC, RunPC, Fates, FateOf, Context, MemoryOK, Exclusion, NoLostUpdate,
        LoadedIsCurrent
  <2>3. /\ ClientStatus(t) \in {"deploying"}
        /\ \/ ClientStatus(t)' = "deployed"
           \/ ClientStatus(t)' = "deploy_failed"
    BY <1>a, <2>1, <2>2 DEF ClientStatus, Save
  <2>4. Abstract!Move(t, {"deploying"}, "deployed") \/ Abstract!Move(t, {"deploying"}, "deploy_failed")
    BY <1>d, <2>1, <2>2, <2>3, SaveMoves
  <2> QED
    BY <2>4 DEF Moves, Abstract!Deployed, Abstract!DeployFails
<1>7. ASSUME NEW w \in Workers, Edit_Save(w)
      PROVE  Moves
  <2>0. PICK t \in Tasks : t = cur[w]
    BY <1>7, <1>b DEF Edit_Save, LockedPC, RunPC, RemovePC
  <2>r. PICK r : r = [mem[w] EXCEPT !.status = "pending_review", !.phase = "none"]
    OBVIOUS
  <2>1. /\ Save(t, r)
        /\ UNCHANGED removedFrom
        /\ pc[w] = "edit_save"
    BY <1>7, <2>0, <2>r DEF Edit_Save, histVars
  <2>2. /\ record[t] = mem[w] /\ mem[w] \in Record
        /\ \/ mem[w].status = "pending_review"
           \/ mem[w].status = "failed" /\ mem[w].phase # "upload"
    BY <1>a, <1>b, <2>0, <2>1
    DEF LockedPC, RemovePC, Fates, FateOf, Context, MemoryOK, Exclusion, NoLostUpdate,
        LoadedIsCurrent
  <2>3. ClientStatus(t) \in Abstract!Deployable /\ ClientStatus(t)' = "pending_review"
    BY <1>a, <2>r, <2>1, <2>2 DEF ClientStatus, Save, Record, Abstract!Deployable
  <2>4. Abstract!Move(t, Abstract!Deployable, "pending_review")
    BY <1>d, <2>1, <2>2, <2>3, SaveMoves
  <2> QED
    BY <2>4 DEF Moves, Abstract!Edit
<1>8. ASSUME NEW w \in Workers, Remove_Unlink(w)
      PROVE  Moves
  <2>0. PICK t \in Tasks : t = cur[w]
    BY <1>8, <1>b DEF Remove_Unlink, LockedPC, RunPC, RemovePC
  <2>1. /\ Save(t, Absent)
        /\ removedFrom' = [removedFrom EXCEPT ![t] = mem[w].status]
        /\ pc[w] = "rm_unlink"
    BY <1>8, <2>0 DEF Remove_Unlink
  <2>2. \A u \in Tasks \ {t} : removedFrom'[u] = removedFrom[u]
    BY <1>a, <2>1
  <2>3. CASE mem[w].status = "uploaded"
    <3>1. Discarding /\ GivenUp(t)
      BY <2>0, <2>1, <2>3 DEF RemovePC, Fates, FateOf
    <3>2. ClientStatus(t) \in Abstract!Uploads /\ ClientStatus(t)' = "discarded"
      BY <1>a, <2>1, <2>3, <3>1 DEF GivenUp, ClientStatus, Save, Absent, Abstract!Uploads
    <3>3. Abstract!Move(t, Abstract!Uploads, "discarded")
      BY <1>d, <2>1, <2>2, <3>2, SaveMoves
    <3> QED
      BY <3>1, <3>3 DEF Moves, Abstract!Discard
  <2>4. CASE mem[w].status # "uploaded"
    <3>1. /\ record[t] = mem[w]
          /\ mem[w].status \in {"pending_review", "failed", "deployed"}
      BY <1>b, <2>0, <2>1, <2>4
      DEF LockedPC, RemovePC, Context, MemoryOK, Exclusion, NoLostUpdate, LoadedIsCurrent
    <3>2. ClientStatus(t) \in Abstract!Settled /\ ClientStatus(t)' = "removed"
      BY <1>a, <2>1, <3>1
      DEF ClientStatus, Save, Absent, Abstract!Settled, Abstract!Deployable
    <3>3. Abstract!Move(t, Abstract!Settled, "removed")
      BY <1>d, <2>1, <2>2, <3>2, SaveMoves
    <3> QED
      BY <3>3 DEF Moves, Abstract!Remove
  <2> QED
    BY <2>3, <2>4
<1>9. ASSUME NEW w \in Workers,
             \/ \E t \in Tasks : \/ Request(w, t) \/ Upload_CreateRaises(w, t) \/ Deploy_Start(w, t)
             \/ Upload_StoreArchive(w) \/ Upload_PrepareTree(w) \/ Upload_OpenArchive(w)
             \/ Upload_ExtractConfig(w) \/ Upload_ExtractPayload(w) \/ Upload_Review(w)
             \/ Upload_Raises(w)
      PROVE  UNCHANGED <<record, removedFrom>>
  BY <1>9
  DEF Request, Upload_CreateRaises, Deploy_Start, Upload_StoreArchive, Upload_PrepareTree,
      Upload_OpenArchive, Upload_ExtractConfig, Upload_ExtractPayload, Upload_Extract,
      Upload_Review, Upload_Raises, diskVars, histVars
<1>10. ASSUME NEW w \in Workers,
              \/ BeginDeploy_Load(w) \/ Deploy_Load(w) \/ Deploy_LockApp(w)
              \/ Deploy_OverlayConfig(w) \/ Deploy_OverlayPayload(w) \/ Deploy_ComposeUp(w)
              \/ Deploy_Raises(w) \/ Edit_Load(w) \/ Edit_Raises(w) \/ Delete_Load(w)
              \/ Discard_Load(w) \/ Remove_Entry(w) \/ Remove_TreeGone(w)
              \/ Remove_Raises(w) \/ SaveRaises(w)
      PROVE  UNCHANGED <<record, removedFrom>>
  BY <1>10
  DEF BeginDeploy_Load, Deploy_Load, EnterIf, Deploy_LockApp, Deploy_OverlayConfig,
      Deploy_OverlayPayload, Deploy_Overlay, Deploy_ComposeUp, Deploy_Raises, Edit_Load,
      Edit_Raises, Delete_Load, Discard_Load, Remove_Entry, Remove_TreeGone, Remove_Raises,
      SaveRaises, diskVars, histVars
<1>11. CASE Crash
  BY <1>11 DEF Crash, diskVars
<1>12. CASE UNCHANGED vars
  BY <1>12 DEF vars, diskVars, histVars
<1> QED
  BY <1>1, <1>2, <1>3, <1>4, <1>5, <1>6, <1>7, <1>8, <1>9, <1>10, <1>11, <1>12
  DEF Next, Arrive, Start, Work, Upload_Step, Deploy_Step, Change_Step

\* The records a client reads go through the statuses of models.py and no
\* others, whatever the threads, failures and crashes: deployment.py implements
\* TaskStatus.  Of the tasks that clients removed, only one that was given up
\* while its upload ran can come back, and as that upload has it.
THEOREM ImplementsTaskStatusHolds == Spec => ImplementsTaskStatus
<1>1. Init => Abstract!Init
  BY DEF Init, Abstract!Init, ClientStatus, Absent
<1>2. Context /\ Fates /\ [Next]_vars
        => [Abstract!Next]_([t \in Tasks |-> ClientStatus(t)])
  <2> SUFFICES ASSUME Context, Fates, [Next]_vars
               PROVE  [Abstract!Next]_([t \in Tasks |-> ClientStatus(t)])
    OBVIOUS
  <2>1. Moves => Abstract!Next
    BY DEF Moves, Abstract!Next
  <2> QED
    BY <2>1, EachStepMoves, QuietStutters
<1> QED
  BY <1>1, <1>2, TypedInvariant, MemoryInvariant, LockInvariant, ExclusionInvariant,
     FatesInvariant, PTL
  DEF Spec, Context, ImplementsTaskStatus, Abstract!Spec

-----------------------------------------------------------------------------
(* The two disagreements of the code with its design, from within.         *)

\* The steps at which a thread saves the record of its task.
SavePC == {"up_mark", "up_save", "up_fail", "begin_save", "edit_save", "dep_begin", "dep_save"}

\* A record changes by the creation of the task, by a thread that saves it, or
\* at the end of a removal.
LEMMA WhoWrites ==
  ASSUME Typed, [Next]_vars, NEW t \in Tasks
  PROVE  \/ record'[t] = record[t]
         \/ record[t] = Absent /\ removedFrom[t] = "absent"
         \/ \E w \in Workers : cur[w] = t /\ pc[w] \in SavePC
         \/ \E w \in Workers : cur[w] = t /\ pc[w] = "rm_unlink" /\ record'[t] = Absent
<1> SUFFICES ASSUME \A w \in Workers : pc[w] \in SavePC => cur[w] # t,
                    \A w \in Workers : pc[w] = "rm_unlink" /\ cur[w] = t => record'[t] # Absent,
                    ~(record[t] = Absent /\ removedFrom[t] = "absent")
             PROVE  record'[t] = record[t]
  OBVIOUS
<1>a. record \in [Tasks -> Record]
  BY DEF Typed, TypeOK
<1> USE <1>a DEF SavePC
<1>1. ASSUME NEW w \in Workers, NEW u \in Tasks, Upload_Create(w, u)
      PROVE  record'[t] = record[t]
  BY <1>1 DEF Upload_Create, Save, Fresh
<1>2. ASSUME NEW w \in Workers,
             \/ Upload_MarkExtracting(w) \/ Upload_SavePending(w) \/ Upload_SaveFailed(w)
             \/ BeginDeploy_Save(w) \/ Deploy_SaveDeploying(w) \/ Deploy_Save(w)
             \/ Edit_Save(w) \/ Remove_Unlink(w)
      PROVE  record'[t] = record[t]
  BY <1>2 DEF Upload_MarkExtracting, Upload_SavePending, Upload_SaveFailed, BeginDeploy_Save,
     Deploy_SaveDeploying, Deploy_Save, Edit_Save, Remove_Unlink, Save
<1>3. ASSUME NEW w \in Workers,
             \/ \E u \in Tasks : \/ Request(w, u) \/ Upload_CreateRaises(w, u) \/ Deploy_Start(w, u)
             \/ Upload_StoreArchive(w) \/ Upload_PrepareTree(w) \/ Upload_OpenArchive(w)
             \/ Upload_ExtractConfig(w) \/ Upload_ExtractPayload(w) \/ Upload_Review(w)
             \/ Upload_Raises(w)
      PROVE  record' = record
  BY <1>3
  DEF Request, Upload_CreateRaises, Deploy_Start, Upload_StoreArchive, Upload_PrepareTree,
      Upload_OpenArchive, Upload_ExtractConfig, Upload_ExtractPayload, Upload_Extract,
      Upload_Review, Upload_Raises, diskVars
<1>4. ASSUME NEW w \in Workers,
             \/ BeginDeploy_Load(w) \/ Deploy_Load(w) \/ Deploy_LockApp(w)
             \/ Deploy_OverlayConfig(w) \/ Deploy_OverlayPayload(w) \/ Deploy_ComposeUp(w)
             \/ Deploy_Raises(w) \/ Edit_Load(w) \/ Edit_Raises(w) \/ Delete_Load(w)
             \/ Discard_Load(w) \/ Remove_Entry(w) \/ Remove_TreeGone(w)
             \/ Remove_Raises(w) \/ SaveRaises(w)
      PROVE  record' = record
  BY <1>4
  DEF BeginDeploy_Load, Deploy_Load, EnterIf, Deploy_LockApp, Deploy_OverlayConfig,
      Deploy_OverlayPayload, Deploy_Overlay, Deploy_ComposeUp, Deploy_Raises, Edit_Load,
      Edit_Raises, Delete_Load, Discard_Load, Remove_Entry, Remove_TreeGone, Remove_Raises,
      SaveRaises, diskVars
<1>5. CASE Crash
  BY <1>5 DEF Crash, diskVars
<1>6. CASE UNCHANGED vars
  BY <1>6 DEF vars, diskVars
<1> QED
  BY <1>1, <1>2, <1>3, <1>4, <1>5, <1>6
  DEF Next, Arrive, Start, Work, Upload_Step, Deploy_Step, Change_Step

\* A task whose removal returned comes back by nothing but an upload of it
\* that was still at work, which only a discard lets happen.
OnlyItsUploadRevives ==
  [][\A t \in Tasks :
       removedFrom[t] # "absent" /\ record[t] = Absent /\ record'[t] # Absent =>
         removedFrom[t] = "uploaded" /\ \E w \in Workers : Uploading(w, t)]_vars

\* The cause of the first disagreement: without uploads that a discard
\* overtakes, no removed task is seen again (discard and upload of
\* deployment.py).
THEOREM OnlyItsUploadRevivesHolds == Spec => OnlyItsUploadRevives
<1> DEFINE Revives(t) ==
      removedFrom[t] # "absent" /\ record[t] = Absent /\ record'[t] # Absent =>
        removedFrom[t] = "uploaded" /\ \E w \in Workers : Uploading(w, t)
<1>1. Context /\ GoneInv /\ [Next]_vars => \A t \in Tasks : Revives(t)
  <2> SUFFICES ASSUME Context, GoneInv, [Next]_vars, NEW t \in Tasks,
                      removedFrom[t] # "absent", record[t] = Absent, record'[t] # Absent
               PROVE  removedFrom[t] = "uploaded" /\ \E w \in Workers : Uploading(w, t)
    OBVIOUS
  <2>1. PICK w \in Workers : cur[w] = t /\ pc[w] \in SavePC
    BY WhoWrites DEF Context
  <2>2. removedFrom[t] = "uploaded"
    BY <2>1 DEF GoneInv, Gone, SavePC, WaitPC
  <2>3. CASE pc[w] \in UploadPC
    BY <2>1, <2>2, <2>3 DEF Uploading
  <2>4. CASE pc[w] \notin UploadPC
    <3>1. record[t].status # "absent"
      BY <2>1, <2>4 DEF Context, MemoryOK, Exclusion, NoLostUpdate, LoadedIsCurrent, SavePC,
         UploadPC, LockedPC, RunPC, RemovePC
    <3> QED
      BY <3>1 DEF Absent
  <2> QED
    BY <2>1, <2>3, <2>4
<1> QED
  BY <1>1, TypedInvariant, MemoryInvariant, LockInvariant, ExclusionInvariant, GoneInvariant, PTL
  DEF Spec, Context, OnlyItsUploadRevives

\* A deployment, or an upload, that a crash or a failing last save has cut off.
LeftBehind(t) ==
  /\ t \in stranded
  /\ \/ record[t].status = "deploying"
     \/ /\ record[t].status = "extracting"
        /\ \A w \in Workers : cur[w] = t => pc[w] \notin RemovePC

StrandedForGood ==
  [][\A t \in Tasks : LeftBehind(t) => LeftBehind(t)' /\ record'[t] = record[t]]_vars

LEMMA NobodyHasIt ==
  ASSUME Context, Served, NEW t \in Tasks, LeftBehind(t), NEW w \in Workers, cur[w] = t
  PROVE  pc[w] \in WaitPC
<1>1. pc[w] \in PC /\ pc[w] # "idle"
  BY NullAssumption DEF Context, Typed, TypeOK, Occupied
<1>2. pc[w] \notin DeployPC /\ pc[w] \notin UploadPC
  BY DEF Served, ServedOf, StrandedOf, LeftBehind, Deploying, Uploading
<1>3. pc[w] \notin RemovePC
  BY DEF Served, Finds, LeftBehind
<1>4. pc[w] \notin {"begin_save", "edit_save"}
  BY DEF Context, MemoryOK, Exclusion, NoLostUpdate, LoadedIsCurrent, LockedPC, RemovePC,
     LeftBehind
<1> QED
  BY <1>1, <1>2, <1>3, <1>4 DEF PC, LockedPC, DeployPC

\* A removal begins from a status that can be removed.
LEMMA WhoRemoves ==
  ASSUME Typed, [Next]_vars, NEW t \in Tasks, record[t].status \in {"extracting", "deploying"},
         \A w \in Workers : cur[w] = t => pc[w] \in WaitPC
  PROVE  \A w \in Workers : cur'[w] = t => pc'[w] \notin RemovePC
<1>a. /\ pc \in [Workers -> PC] /\ cur \in [Workers -> Tasks \cup {NoTask}]
  BY DEF Typed, TypeOK
<1> USE <1>a, NullAssumption DEF WaitPC, RemovePC
<1>1. ASSUME NEW v \in Workers, NEW u \in Tasks,
             Upload_Create(v, u) \/ Upload_CreateRaises(v, u) \/ Request(v, u) \/ Deploy_Start(v, u)
      PROVE  \A w \in Workers : cur'[w] = t => pc'[w] \notin RemovePC
  BY <1>1 DEF Upload_Create, Upload_CreateRaises, Request, Requests, Deploy_Start, localVars
<1>2. ASSUME NEW v \in Workers, Upload_Step(v)
      PROVE  \A w \in Workers : cur'[w] = t => pc'[w] \notin RemovePC
  BY <1>2 DEF Upload_Step, Upload_StoreArchive, Upload_MarkExtracting, Upload_PrepareTree,
     Upload_OpenArchive, Upload_ExtractConfig, Upload_ExtractPayload, Upload_Extract,
     Upload_Review, Upload_SavePending, Upload_Raises, Upload_SaveFailed, Goto, Finish
<1>3. ASSUME NEW v \in Workers, BeginDeploy_Load(v) \/ Deploy_Load(v) \/ Edit_Load(v)
      PROVE  \A w \in Workers : cur'[w] = t => pc'[w] \notin RemovePC
  BY <1>3 DEF BeginDeploy_Load, Deploy_Load, Edit_Load, EnterIf, EnterWith, Finish
<1>4. ASSUME NEW v \in Workers, Delete_Load(v) \/ Discard_Load(v)
      PROVE  \A w \in Workers : cur'[w] = t => pc'[w] \notin RemovePC
  BY <1>4 DEF Delete_Load, Discard_Load, EnterIf, EnterWith, Finish, can_delete_task,
     can_discard_task
<1>5. ASSUME NEW v \in Workers,
             \/ BeginDeploy_Save(v) \/ Deploy_SaveDeploying(v) \/ Deploy_LockApp(v)
             \/ Deploy_OverlayConfig(v) \/ Deploy_OverlayPayload(v) \/ Deploy_ComposeUp(v)
             \/ Deploy_Raises(v) \/ Deploy_Save(v) \/ Edit_Save(v) \/ Edit_Raises(v)
      PROVE  \A w \in Workers : cur'[w] = t => pc'[w] \notin RemovePC
  BY <1>5 DEF BeginDeploy_Save, Deploy_SaveDeploying, Deploy_LockApp, Deploy_OverlayConfig,
     Deploy_OverlayPayload, Deploy_Overlay, Deploy_ComposeUp, Deploy_Raises, Deploy_Save,
     Edit_Save, Edit_Raises, Goto, Finish
<1>6. ASSUME NEW v \in Workers,
             \/ Remove_Entry(v) \/ Remove_TreeGone(v) \/ Remove_Raises(v) \/ Remove_Unlink(v)
             \/ SaveRaises(v)
      PROVE  \A w \in Workers : cur'[w] = t => pc'[w] \notin RemovePC
  BY <1>6 DEF Remove_Entry, Remove_TreeGone, Remove_Raises, Remove_Unlink, SaveRaises, Goto,
     Finish, localVars
<1>7. CASE Crash
  BY <1>7 DEF Crash
<1>8. CASE UNCHANGED vars
  BY <1>8 DEF vars, localVars
<1> QED
  BY <1>1, <1>2, <1>3, <1>4, <1>5, <1>6, <1>7, <1>8
  DEF Next, Arrive, Start, Work, Deploy_Step, Change_Step

\* What was once cut off is not given up.
LEMMA StrandedGrows == ASSUME [Next]_vars PROVE stranded \subseteq stranded'
  BY DEF Next, Arrive, Start, Work, Upload_Step, Deploy_Step, Change_Step, vars, histVars,
     Request, Upload_Create, Upload_CreateRaises, Deploy_Start, Upload_StoreArchive,
     Upload_MarkExtracting, Upload_PrepareTree, Upload_OpenArchive, Upload_ExtractConfig,
     Upload_ExtractPayload, Upload_Extract, Upload_Review, Upload_SavePending, Upload_Raises,
     Upload_SaveFailed, BeginDeploy_Load, BeginDeploy_Save, Deploy_Load, EnterIf,
     Deploy_SaveDeploying, Deploy_LockApp, Deploy_OverlayConfig, Deploy_OverlayPayload,
     Deploy_Overlay, Deploy_ComposeUp, Deploy_Raises, Deploy_Save, Edit_Load, Edit_Save,
     Edit_Raises, Delete_Load, Discard_Load, Remove_Entry, Remove_TreeGone, Remove_Raises,
     Remove_Unlink, SaveRaises, Crash

\* The second disagreement lasts: a deployment that a crash or a failing last
\* save has cut off is "deploying" for good, and an upload "extracting"; no
\* request, thread or restart of deployment.py changes its record again.
THEOREM StrandedForGoodHolds ==
  ASSUME DirectDeploy = FALSE
  PROVE  Spec => StrandedForGood
<1> DEFINE Lasts(t) == LeftBehind(t) => LeftBehind(t)' /\ record'[t] = record[t]
<1>1. Context /\ Served /\ [Next]_vars => \A t \in Tasks : Lasts(t)
  <2> SUFFICES ASSUME Context, Served, [Next]_vars, NEW t \in Tasks, LeftBehind(t)
               PROVE  LeftBehind(t)' /\ record'[t] = record[t]
    OBVIOUS
  <2>1. \A w \in Workers : cur[w] = t => pc[w] \in WaitPC
    BY NobodyHasIt
  <2>2. record'[t] = record[t]
    <3>1. record[t] # Absent
      BY DEF LeftBehind, Absent
    <3>2. \A w \in Workers : cur[w] = t => pc[w] \notin SavePC /\ pc[w] # "rm_unlink"
      BY <2>1 DEF WaitPC, SavePC
    <3> QED
      BY <3>1, <3>2, WhoWrites DEF Context
  <2>3. \A w \in Workers : cur'[w] = t => pc'[w] \notin RemovePC
    BY <2>1, WhoRemoves DEF Context, LeftBehind
  <2>4. t \in stranded'
    BY StrandedGrows DEF LeftBehind
  <2> QED
    BY <2>2, <2>3, <2>4 DEF LeftBehind
<1> QED
  BY <1>1, TypedInvariant, MemoryInvariant, LockInvariant, ExclusionInvariant, ServedInvariant, PTL
  DEF Spec, Context, StrandedForGood

-----------------------------------------------------------------------------
(* No thread works forever.                                                *)

\* How many steps a thread has at most from where it is to its end, each
\* entry that rmtree has yet to remove left out.
Stage ==
  [idle |-> 0,
   up_fail |-> 1, up_save |-> 2, up_review |-> 3, up_payload |-> 4, up_config |-> 5,
   up_open |-> 6, up_prepare |-> 7, up_mark |-> 8, up_store |-> 9,
   begin_save |-> 1, begin_wait |-> 2, edit_save |-> 1, edit_wait |-> 2,
   dep_save |-> 1, dep_up |-> 2, dep_payload |-> 3, dep_config |-> 4, dep_app |-> 5,
   dep_begin |-> 6, dep_wait |-> 7,
   rm_unlink |-> 1, rm_tree |-> 2, delete_wait |-> 3, discard_wait |-> 3]

Advances(w) ==
  \/ Stage[pc'[w]] < Stage[pc[w]]
  \/ /\ pc[w] = "rm_tree" /\ pc'[w] = "rm_tree"
     /\ pkg'[cur[w]] \subseteq pkg[cur[w]] /\ pkg'[cur[w]] # pkg[cur[w]]

\* Every step of a thread brings it nearer to its end: no handler loops,
\* however threads are interleaved and whatever raises.
EveryStepAdvances == [][\A w \in Workers : Work(w) \/ SaveRaises(w) => Advances(w)]_vars

LEMMA UploadAdvances ==
  ASSUME Typed, NEW w \in Workers, Upload_Step(w)
  PROVE  Stage[pc'[w]] < Stage[pc[w]]
<1>a. pc \in [Workers -> PC]
  BY DEF Typed, TypeOK
<1>1. CASE \/ Upload_StoreArchive(w) \/ Upload_MarkExtracting(w) \/ Upload_PrepareTree(w)
           \/ Upload_OpenArchive(w)
  BY <1>a, <1>1 DEF Upload_StoreArchive, Upload_MarkExtracting, Upload_PrepareTree,
     Upload_OpenArchive, Goto, Stage
<1>2. CASE \/ Upload_ExtractConfig(w) \/ Upload_ExtractPayload(w) \/ Upload_Review(w)
  BY <1>a, <1>2 DEF Upload_ExtractConfig, Upload_ExtractPayload, Upload_Extract,
     Upload_Review, Goto, Stage
<1>3. CASE Upload_SavePending(w) \/ Upload_SaveFailed(w)
  BY <1>a, <1>3 DEF Upload_SavePending, Upload_SaveFailed, Finish, Stage
<1>4. CASE Upload_Raises(w)
  <2>1. pc[w] \in UploadPC \ {"up_fail"} /\ pc'[w] = "up_fail"
    BY <1>a, <1>4 DEF Upload_Raises
  <2> QED
    BY <2>1 DEF UploadPC, Stage
<1> QED
  BY <1>1, <1>2, <1>3, <1>4 DEF Upload_Step

LEMMA DeployAdvances ==
  ASSUME Typed, NEW w \in Workers, Deploy_Step(w)
  PROVE  Stage[pc'[w]] < Stage[pc[w]]
<1>a. pc \in [Workers -> PC]
  BY DEF Typed, TypeOK
<1>1. CASE BeginDeploy_Load(w)
  BY <1>a, <1>1 DEF BeginDeploy_Load, EnterIf, EnterWith, Finish, Stage
<1>2. CASE Deploy_Load(w)
  <2>1. pc[w] = "dep_wait" /\ pc'[w] \in {"idle", "dep_begin", "dep_app"}
    BY <1>a, <1>2 DEF Deploy_Load, EnterIf, EnterWith, Finish
  <2> QED
    BY <2>1 DEF Stage
<1>3. CASE BeginDeploy_Save(w) \/ Deploy_SaveDeploying(w) \/ Deploy_Save(w)
  BY <1>a, <1>3 DEF BeginDeploy_Save, Deploy_SaveDeploying, Deploy_Save, Finish, Stage
<1>4. CASE \/ Deploy_LockApp(w) \/ Deploy_OverlayConfig(w) \/ Deploy_OverlayPayload(w)
           \/ Deploy_ComposeUp(w)
  BY <1>a, <1>4 DEF Deploy_LockApp, Deploy_OverlayConfig, Deploy_OverlayPayload,
     Deploy_Overlay, Deploy_ComposeUp, Goto, Stage
<1>5. CASE Deploy_Raises(w)
  <2>1. pc[w] \in RunPC \ {"dep_save"} /\ pc'[w] = "dep_save"
    BY <1>a, <1>5 DEF Deploy_Raises
  <2> QED
    BY <2>1 DEF RunPC, Stage
<1> QED
  BY <1>1, <1>2, <1>3, <1>4, <1>5 DEF Deploy_Step

LEMMA ChangeAdvances ==
  ASSUME Typed, NEW w \in Workers, Change_Step(w)
  PROVE  Advances(w)
<1>a. pc \in [Workers -> PC] /\ pkg \in [Tasks -> SUBSET Entries]
  BY DEF Typed, TypeOK
<1>1. CASE Edit_Load(w) \/ Delete_Load(w) \/ Discard_Load(w)
  BY <1>a, <1>1 DEF Edit_Load, Delete_Load, Discard_Load, EnterIf, EnterWith, Finish, Stage,
     Advances
<1>2. CASE Edit_Save(w) \/ Edit_Raises(w) \/ Remove_Unlink(w)
  BY <1>a, <1>2 DEF Edit_Save, Edit_Raises, Remove_Unlink, Finish, Stage, Advances
<1>3. CASE Remove_TreeGone(w)
  BY <1>a, <1>3 DEF Remove_TreeGone, Goto, Stage, Advances
<1>4. CASE Remove_Raises(w)
  <2>1. pc[w] \in RemovePC /\ pc'[w] = "idle"
    BY <1>a, <1>4 DEF Remove_Raises, Finish
  <2> QED
    BY <2>1 DEF RemovePC, Stage, Advances
<1>5. CASE Remove_Entry(w)
  <2>1. PICK e \in pkg[cur[w]] : pkg' = [pkg EXCEPT ![cur[w]] = @ \ {e}]
    BY <1>5 DEF Remove_Entry
  <2>2. pc[w] = "rm_tree" /\ pc'[w] = "rm_tree"
    BY <1>5 DEF Remove_Entry, localVars
  <2>3. cur[w] \in Tasks
    BY <2>2 DEF Typed, Occupied, TypeOK
  <2>4. pkg'[cur[w]] = pkg[cur[w]] \ {e}
    BY <1>a, <2>1, <2>3
  <2> QED
    BY <2>1, <2>2, <2>4 DEF Advances
<1> QED
  BY <1>1, <1>2, <1>3, <1>4, <1>5 DEF Change_Step

\* What is left of HandlersReturn when a scheduler runs the thread and its
\* locks are free: the handlers of deployment.py end, in at most nine steps
\* and one for each file that rmtree has to remove.
THEOREM EveryStepAdvancesHolds == Spec => EveryStepAdvances
<1>1. ASSUME Typed, NEW w \in Workers, SaveRaises(w)
      PROVE  Advances(w)
  <2>1. /\ pc[w] \in {"up_fail", "begin_save", "dep_begin", "dep_save", "edit_save"}
        /\ pc'[w] = "idle"
    BY <1>1 DEF SaveRaises, Finish, Typed, TypeOK
  <2> QED
    BY <2>1 DEF Stage, Advances
<1>2. ASSUME Typed, NEW w \in Workers, Work(w)
      PROVE  Advances(w)
  BY <1>2, UploadAdvances, DeployAdvances, ChangeAdvances DEF Work, Advances
<1>3. Typed => \A w \in Workers : Work(w) \/ SaveRaises(w) => Advances(w)
  BY <1>1, <1>2
<1> QED
  BY <1>3, TypedInvariant, PTL DEF Spec, EveryStepAdvances

-----------------------------------------------------------------------------
(* Threads that wait for locks.                                            *)

\* A lock that is taken is taken by a thread that is inside it: whatever way
\* a handler or a deployment ends, it leaves its locks.
LocksAreLeft ==
  /\ \A t \in Tasks :
       taskLock[t] # Free => cur[taskLock[t]] = t /\ pc[taskLock[t]] \in LockedPC
  /\ \A a \in Apps :
       appLock[a] # Free => mem[appLock[a]].app = a /\ pc[appLock[a]] \in RunPC

\* The thread waits for a lock that another one has.
Waits(w) ==
  \/ pc[w] \in WaitPC /\ taskLock[cur[w]] # Free
  \/ pc[w] = "dep_app" /\ appLock[mem[w].app] # Free

\* No handler, deployment, failure or crash leaves a task lock or an application
\* lock taken (the with statements of deployment.py).
THEOREM LocksAreLeftHolds == Spec => []LocksAreLeft
<1>1. Init => LocksAreLeft
  BY DEF Init, LocksAreLeft
<1>2. Typed /\ MemoryOK /\ LocksAreLeft /\ [Next]_vars => LocksAreLeft'
  <2> SUFFICES ASSUME Typed, MemoryOK, LocksAreLeft, [Next]_vars PROVE LocksAreLeft'
    OBVIOUS
  <2>a. /\ mem \in [Workers -> Record] /\ pc \in [Workers -> PC]
        /\ cur \in [Workers -> Tasks \cup {NoTask}]
        /\ taskLock \in [Tasks -> Workers \cup {Free}]
        /\ appLock \in [Apps -> Workers \cup {Free}]
        /\ \A w \in Workers : pc[w] # "idle" => cur[w] \in Tasks
    BY DEF Typed, TypeOK, Occupied
  <2> USE <2>a, NullAssumption DEF LocksAreLeft, UploadPC, WaitPC, LockedPC, RunPC, RemovePC,
              lockVars, localVars
  <2>1. ASSUME NEW w \in Workers, NEW t \in Tasks,
               Upload_Create(w, t) \/ Upload_CreateRaises(w, t) \/ Request(w, t) \/ Deploy_Start(w, t)
        PROVE  LocksAreLeft'
    BY <2>1 DEF Upload_Create, Upload_CreateRaises, Request, Requests, Deploy_Start
  <2>2. ASSUME NEW w \in Workers, Upload_Step(w) PROVE LocksAreLeft'
    BY <2>2 DEF Upload_Step, Upload_StoreArchive, Upload_MarkExtracting, Upload_PrepareTree,
       Upload_OpenArchive, Upload_ExtractConfig, Upload_ExtractPayload, Upload_Extract,
       Upload_Review, Upload_SavePending, Upload_Raises, Upload_SaveFailed, Goto, Finish
  <2>3. ASSUME NEW w \in Workers,
               \/ BeginDeploy_Load(w) \/ Deploy_Load(w) \/ Edit_Load(w)
               \/ Delete_Load(w) \/ Discard_Load(w)
        PROVE  LocksAreLeft'
    BY <2>3 DEF BeginDeploy_Load, Deploy_Load, Edit_Load, Delete_Load, Discard_Load,
       EnterIf, EnterWith, Finish
  <2>4. ASSUME NEW w \in Workers,
               \/ Deploy_SaveDeploying(w) \/ Deploy_LockApp(w)
               \/ Deploy_OverlayConfig(w) \/ Deploy_OverlayPayload(w)
               \/ Remove_Entry(w) \/ Remove_TreeGone(w)
        PROVE  LocksAreLeft'
    BY <2>4 DEF Deploy_SaveDeploying, DeployingRecord, Deploy_LockApp, Deploy_OverlayConfig,
       Deploy_OverlayPayload, Deploy_Overlay, Remove_Entry, Remove_TreeGone, Goto
  <2>5. ASSUME NEW w \in Workers, Deploy_ComposeUp(w) \/ Deploy_Raises(w) PROVE LocksAreLeft'
    BY <2>5 DEF Deploy_ComposeUp, Deploy_Raises, Record
  <2>6. ASSUME NEW w \in Workers,
               \/ BeginDeploy_Save(w) \/ Edit_Save(w) \/ Edit_Raises(w)
               \/ Remove_Raises(w) \/ Remove_Unlink(w)
        PROVE  LocksAreLeft'
    BY <2>6 DEF BeginDeploy_Save, Edit_Save, Edit_Raises, Remove_Raises, Remove_Unlink,
       ReleaseTask, Finish
  <2>7. ASSUME NEW w \in Workers, Deploy_Save(w) \/ SaveRaises(w) PROVE LocksAreLeft'
    BY <2>7 DEF Deploy_Save, SaveRaises, ReleaseTask, ReleaseApp, Finish
  <2>8. CASE Crash
    BY <2>8 DEF Crash
  <2>9. CASE UNCHANGED vars
    BY <2>9 DEF vars
  <2> HIDE DEF LocksAreLeft, UploadPC, WaitPC, LockedPC, RunPC, RemovePC, lockVars, localVars
  <2> QED
    BY <2>1, <2>2, <2>3, <2>4, <2>5, <2>6, <2>7, <2>8, <2>9
    DEF Next, Arrive, Start, Work, Deploy_Step, Change_Step
<1> QED
  BY <1>1, <1>2, TypedInvariant, MemoryInvariant, PTL DEF Spec

\* Threads never wait for one another in a circle: a thread that waits for a
\* task lock waits for one that holds it, which may wait for the lock of an
\* application, whose holder waits for nobody.  So while anything is under
\* way, some thread does not wait.
THEOREM NoCircleOfWaiting ==
  Spec => []((\E w \in Workers : pc[w] # "idle")
               => \E w \in Workers : pc[w] # "idle" /\ ~Waits(w))
<1>1. Typed /\ MemoryOK /\ LocksAreLeft
        => ((\E w \in Workers : pc[w] # "idle")
              => \E w \in Workers : pc[w] # "idle" /\ ~Waits(w))
  <2> SUFFICES ASSUME Typed, MemoryOK, LocksAreLeft, NEW w \in Workers, pc[w] # "idle",
                      \A v \in Workers : pc[v] # "idle" => Waits(v)
               PROVE  FALSE
    OBVIOUS
  \* Whoever holds the lock of an application waits for nobody.
  <2>1. ASSUME NEW v \in Workers PROVE pc[v] # "dep_app"
    <3> SUFFICES ASSUME pc[v] = "dep_app" PROVE FALSE
      OBVIOUS
    <3> DEFINE u == appLock[mem[v].app]
    <3>1. mem[v].app \in Apps /\ u # Free
      BY DEF MemoryOK, Waits, WaitPC
    <3>2. u \in Workers /\ pc[u] \in RunPC
      BY <3>1 DEF Typed, TypeOK, LocksAreLeft
    <3> QED
      BY <3>2 DEF Waits, WaitPC, RunPC
  <2>2. pc[w] \in WaitPC /\ taskLock[cur[w]] # Free /\ cur[w] \in Tasks
    BY <2>1 DEF Waits, Typed, TypeOK, Occupied
  <2> DEFINE v == taskLock[cur[w]]
  <2>3. v \in Workers /\ pc[v] \in LockedPC
    BY <2>2 DEF Typed, TypeOK, LocksAreLeft
  <2> QED
    BY <2>1, <2>3 DEF Waits, WaitPC, LockedPC, RunPC, RemovePC
<1> QED
  BY <1>1, TypedInvariant, MemoryInvariant, LocksAreLeftHolds, PTL
=============================================================================
