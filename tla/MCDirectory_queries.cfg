SPECIFICATION FairSpec
CONSTANTS
  c1 = c1  c2 = c2  c3 = c3
  r1 = r1  r2 = r2  r3 = r3
  None = None
  Slots = 1
  ArrSize = 1
  RandIds = {r1}
  Conns = {c1, c2}
  Peers = {c1}
  Ports = {"clients"}
  Fds = {0, 1}
  MaxReqs = 1
  Lives = 1
  ShortReads = {}
  QueryErrors = TRUE
  SndReturns = {0, 1}
  RcvReturns = {"buffer"}
INVARIANTS AllocatorHasRoom HoldersNeverWait
PROPERTIES LostForGood QueryServed SessionsEnd BacklogServed
CHECK_DEADLOCK FALSE
