SPECIFICATION DetailsSpec
CONSTANTS
  init = init
  p = p
  q = q
  Pids <- ThreePids
  Ttys <- NoTerminal
  Comms = {"sh"}
  AncestorCap = 2
  MaxSessions = 5
  InitPid = init
  FilterPty = FALSE
  FilterAncestors <- NoFilter
  Codes <- OneCode
  NoCode = NoCode
  Fds <- OutputAndOther
  Faults <- Losses
  MaxEvents = 4
SYMMETRY AnyProcess
INVARIANTS ExitsReachCommands EmptyMeansEnded ExitedMeansComplete NoForeignIo
CHECK_DEADLOCK FALSE
