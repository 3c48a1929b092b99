SPECIFICATION FairSpec
CONSTANTS
  None = None
  Snos = {0, 1}
  Lengths = {460}
  MaxDigits = 1
  Acceptors = {"cli_server"}
  SndReturns = {0}
  RcvReturns = {"buffer"}
  Faults = FALSE
  ShortReads = FALSE
  MaxReplies = 2
PROPERTY ConnectsToPeer
CHECK_DEADLOCK FALSE
