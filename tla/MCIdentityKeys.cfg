SPECIFICATION Spec
CONSTANTS
  Key = {k1, k2, k3}
  Typed = {p1, p2}
  Random = {q1}
  NoPass = NoPass
  Torn = Torn
  Request = {r1, r2, r3}
SYMMETRY Symmetry
INVARIANTS TypeOK RestartOpensKey SigningWorks RecordIsCurrent RandomPassphraseKept
CHECK_DEADLOCK FALSE
