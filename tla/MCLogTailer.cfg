SPECIFICATION Spec
CONSTANTS
  MaxLines = 3
  MaxFiles = 2
  MaxPending = 2
CHECK_DEADLOCK FALSE
INVARIANTS
  TypeOK
  NothingHeldBack
PROPERTIES
  ImplementsFeed
  EveryLineArrives
