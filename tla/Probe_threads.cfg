SPECIFICATION Spec
CONSTANTS
  self = self
  p1 = p1
  p2 = p2
  t1 = t1
  t2 = t2
  Tgids <- OneProcess
  Tids <- TwoThreads
  Leader = t1
  Self = self
  Fds <- StdFds
  PtyFds <- NoFds
  RingCap = 1
  PendingCap = 2
  ExecPidsCap = 1
  BootFrom <- Booted
  MaxClock = 2
INVARIANTS TypeOK PendingHeld PendingExecInCall IdsAreRecorded RecordedImageIsCurrent
PROPERTIES IoNamesItsImage IoNamesItsCall
CHECK_DEADLOCK FALSE
