SPECIFICATION CorrSpec
CONSTANTS
  p1 = p1
  p2 = p2
  p3 = p3
  Pids <- ThreePids
  Ttys <- TwoTtys
  Comms = {"sh"}
  AncestorCap = 3
  MaxSessions = 3
SYMMETRY AnyProcess
INVARIANTS TtySessionsDistinct CompletedStaysEmpty
PROPERTIES SessionIsStable
CHECK_DEADLOCK FALSE
