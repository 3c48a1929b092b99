SPECIFICATION FairSpec
CONSTANTS
  None = None
  Snos = {0, 1}
  Lengths <- AllLengths
  MaxDigits = 7
  Acceptors = {"peer_server", "cli_server"}
  SndReturns = {0, 1}
  RcvReturns = {"buffer", "count"}
  Faults = TRUE
  ShortReads = TRUE
  MaxReplies = 2
INVARIANTS TypeOK NeverChooses AnswersInStep AnswerOutstanding
PROPERTY EndsUnlessLeft
CHECK_DEADLOCK FALSE
