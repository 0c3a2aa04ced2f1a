SPECIFICATION PolicySpec
CONSTANTS
  Player = {p1, p2}
  Text = {t1, t2}
  Limits = {l1, l2}
SYMMETRY MCSymmetry
INVARIANTS
  RunningPolicyDecides
  HashVouchesForCache
