SPECIFICATION Spec
CONSTANTS
  RingCap = 3
  Web = TRUE
  MaxConns = 1
INVARIANTS TypeOK NoLostWakeup
PROPERTIES EveryRecordTaken StopsWhenAsked
CHECK_DEADLOCK FALSE
