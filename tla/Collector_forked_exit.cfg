SPECIFICATION Spec
CONSTANTS
  init = init
  p = p
  q = q
  Pids <- ThreePids
  Ttys <- NoTerminal
  Comms = {"sh"}
  AncestorCap = 2
  MaxSessions = 4
  InitPid = init
  FilterPty = FALSE
  FilterAncestors <- NoFilter
  Codes <- OneCode
  NoCode = NoCode
  Fds = {1}
  Faults <- NoFaults
  MaxEvents = 4
SYMMETRY AnyProcess
INVARIANT NoRowRejected
CHECK_DEADLOCK FALSE
