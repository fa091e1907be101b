SPECIFICATION Spec
CONSTANTS
  init = init
  p = p
  q = q
  Pids <- ThreePids
  Ttys <- OneTerminal
  Comms = {"sh"}
  AncestorCap = 2
  MaxSessions = 3
  InitPid = init
  FilterPty = FALSE
  FilterAncestors <- NoFilter
  Codes <- OneCode
  NoCode = NoCode
  Fds = {1}
  Faults <- AllFaults
  MaxEvents = 3
SYMMETRY AnyProcess
INVARIANTS EndedStaysEmpty CodesComeFromExits
CHECK_DEADLOCK FALSE
