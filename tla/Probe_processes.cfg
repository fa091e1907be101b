SPECIFICATION Spec
CONSTANTS
  self = self
  p1 = p1
  p2 = p2
  t1 = t1
  t2 = t2
  Tgids <- TwoProcesses
  Tids <- OneThread
  Leader = t1
  Self = self
  Fds <- StdFds
  PtyFds <- NoFds
  RingCap = 2
  PendingCap = 2
  ExecPidsCap = 1
  BootFrom <- FromScratch
  MaxClock = 2
SYMMETRY NoOther
INVARIANTS SelfIsSilent NothingAfterExit
CHECK_DEADLOCK FALSE
