SPECIFICATION Spec
CONSTANTS
  Server = {s1}
  Uuid = {u1}
  k1 = k1
  k2 = k2
  Key = {k1, k2}
  NextKeys <- MCNextKeys
  Admin = admin
  MaxRows = 2
  NamesOf <- MCTwoNames
  Copy <- MCCopy
INVARIANT SynchronizedBansStay
CHECK_DEADLOCK FALSE
