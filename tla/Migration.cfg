SPECIFICATION RecorderSpec
CONSTANTS
  Legacy <- AnyVersion
  MaxCrashes = 2
  MaxOpens = 3
  Tasks <- McTasks
  ExecCalls <- McExecCalls
  IoCalls <- McIoCalls
  ExitCodes <- McExitCodes
  Unreadable = Unreadable
  MaxFilename = 3
  MaxArgs = 2
  MaxArg = 2
  MaxData = 2
  MaxCalls = 2
  Artifacts <- McArtifacts
  Kernels <- McKernels
INVARIANTS RowsSurvive ReopenSucceeds HistoryIsMigrated IndexesAfterReopen EventsTellTheCalls RefusesOnlyTheUnknown
CHECK_DEADLOCK FALSE
