SPECIFICATION Spec
CONSTANTS
  MaxInt = 3
  MaxCommands = 4
INVARIANTS
  TypeOK
  AnswersAreOwn
  OldFaultsAreBridged
PROPERTY CommandReturns
CHECK_DEADLOCK FALSE
