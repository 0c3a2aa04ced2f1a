SPECIFICATION Spec
CONSTANTS
  i1 = i1
  i2 = i2
  Instance = {i1, i2}
  Request = {r1, r2}
  Form <- MCForm
INVARIANTS TypeOK OneMonitorPerInstance StatusesAreCurrent NoMonitorAfterRun SettledAgree
PROPERTIES ApplyReturns ShutdownEnds
CHECK_DEADLOCK FALSE
