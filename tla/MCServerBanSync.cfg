SPECIFICATION Spec
CONSTANTS
  Server = {s1, s2}
  Uuid = {u1}
  k1 = k1
  k2 = k2
  Key = {k1, k2}
  NextKeys <- MCNextKeys
  Admin = admin
  MaxRows = 2
  NamesOf <- MCNames
  Copy <- MCCopy
SYMMETRY MCSymmetry
INVARIANTS
  TypeOK
  OneRowPerServer
  PardonsAreNoticed
  KnownBansAreListed
CHECK_DEADLOCK FALSE
