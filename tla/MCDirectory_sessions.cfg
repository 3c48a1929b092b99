SPECIFICATION FairSpec
CONSTANTS
  c1 = c1  c2 = c2  c3 = c3
  r1 = r1  r2 = r2  r3 = r3
  None = None
  Slots = 2
  ArrSize = 2
  RandIds = {r1, r2}
  Conns = {c1, c2}
  Peers = {c1}
  Ports = {"clients"}
  Fds = {0, 1}
  MaxReqs = 0
  Lives = 2
  ShortReads = {}
  QueryErrors = FALSE
  SndReturns = {0}
  RcvReturns = {"count"}
PROPERTY NumbersDelivered
CHECK_DEADLOCK FALSE
