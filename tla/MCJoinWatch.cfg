SPECIFICATION Spec
CONSTANTS
  Player = {p1, p2}
  Condemned = {p1}
  MaxSessions = 2
INVARIANTS
  TypeOK
  EveryoneIsChecked
  NoCondemnedStays
PROPERTIES
  JoinsAreNoticed
CHECK_DEADLOCK FALSE
