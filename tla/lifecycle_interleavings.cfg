SPECIFICATION Spec
CONSTANTS
  Tasks = {t1, t2}
  Apps = {a1}
  Workers = {w1, w2}
  NoTask = NoTask
  NoApp = NoApp
  Free = Free
  Discarding = TRUE
  DirectDeploy = FALSE
  QueueBound = 2
  MaxCrashes = 0
  MaxFaults = 0
CHECK_DEADLOCK FALSE
SYMMETRY Symmetry
INVARIANTS
  TypeOK
  NoLostUpdate
  OneDeployPerRequest
  ComposeSeesOwnFiles
  RemovedStaysGone
  SomeThreadRuns
