SPECIFICATION Spec
CONSTANTS
  MaxEdits = 3
  MaxFaults = 2
  MaxCrashes = 1
INVARIANTS
  OneFailureLeavesItWhole
  SavedEditIsWhole
  FailedEditChangesNothing
PROPERTIES
  ImplementsAtomicEdit

