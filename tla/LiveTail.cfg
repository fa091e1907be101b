SPECIFICATION Spec
CONSTANTS
  Limit = 2
  MaxRows = 4
  MaxBreaks = 2
INVARIANTS ShownOnceInOrder NothingSkipped
PROPERTIES EveryRowShown TailSpec
CHECK_DEADLOCK FALSE
