SPECIFICATION Spec
CONSTANTS
  t1 = t1
  t2 = t2
  Tasks <- MCTasks
  Discarding = FALSE
  MaxPolls = 2
  MaxErrors = 1
INVARIANTS
  ListIsComplete
PROPERTIES
  EndIsShown
CHECK_DEADLOCK FALSE
