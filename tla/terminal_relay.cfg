SPECIFICATION Spec
CONSTANTS
  MaxInput = 3
  MaxOutput = 2
  Room = 1
INVARIANTS
  RelayIsWhole
  NothingLeftOpen
PROPERTIES
  QuietAfterClose
  SessionEnds
CHECK_DEADLOCK FALSE
