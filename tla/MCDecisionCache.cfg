SPECIFICATION Spec
CONSTANTS
  Server = {s1}
  Player = {p1}
  Node = {n1}
  Key = {self, n1}
  Reason = {r1}
  AssignedLevel = {"trusted"}
  BasePolicy <- MCBasePolicy
  Override <- MCOverride
  MaxWrites = 2
  MaxTime = 2
CHECK_DEADLOCK FALSE
INVARIANTS
  TypeOK
  HitSurvivesEdits
  OwnBansAreHeeded
  NoMissedBan
  KickStands
