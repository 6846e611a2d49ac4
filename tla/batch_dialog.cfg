SPECIFICATION Spec
CONSTANTS
  Images = {i1, i2}
  MaxPreviews = 2
  MaxDeletes = 2
  MaxChanges = 1
SYMMETRY Symmetry
INVARIANTS
  ConfirmedWasListed
  OneRemovalAtATime
  NoStaleRows
CHECK_DEADLOCK FALSE
