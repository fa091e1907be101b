SPECIFICATION Spec
CONSTANTS
  Legacy <- AnyVersion
  MaxCrashes = 0
  MaxOpens = 1
INVARIANT OpenSucceeds
CHECK_DEADLOCK FALSE
