SPECIFICATION FairSpec
CONSTANTS
  Tasks = {t1}
  Apps = {a1}
  Workers = {w1, w2, w3}
  NoTask = NoTask
  NoApp = NoApp
  Free = Free
  Discarding = TRUE
  DirectDeploy = FALSE
  QueueBound = 2
  MaxCrashes = 0
  MaxFaults = 0
CHECK_DEADLOCK FALSE
PROPERTIES
  ActiveEnds
  HandlersReturn
