SPECIFICATION Spec
CONSTANTS
  Tasks = {t1}
  Apps = {a1}
  Workers = {w1, w2, w3}
  NoTask = NoTask
  NoApp = NoApp
  Free = Free
  Discarding = TRUE
  DirectDeploy = TRUE
  QueueBound = 2
  MaxCrashes = 1
  MaxFaults = 1
CHECK_DEADLOCK FALSE
SYMMETRY Symmetry
INVARIANTS
  IInv
  ActiveHasOwner
  ComposeSeesWholePackage
PROPERTY ImplementsTaskStatus
