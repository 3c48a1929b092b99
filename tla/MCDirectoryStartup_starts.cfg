SPECIFICATION FairSpec
CONSTANTS
  None = None
  Size = 64
  Lengths <- AllLengths
  Starts = 3
INVARIANTS TypeOK ReadyToServe EchoComesBack EnterNeverLogsIn
PROPERTY ServesIfReady
CHECK_DEADLOCK FALSE
