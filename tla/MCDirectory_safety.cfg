SPECIFICATION Spec
CONSTANTS
  c1 = c1  c2 = c2  c3 = c3
  r1 = r1  r2 = r2  r3 = r3
  None = None
  Slots = 2
  ArrSize = 2
  RandIds = {r1, r2, r3}
  Conns = {c1, c2}
  Peers = {c1, c2}
  Ports = {"clients"}
  Fds = {0, 1}
  MaxReqs = 1
  Lives = 1
  ShortReads = {"text"}
  QueryErrors = FALSE
  SndReturns = {0, 1}
  RcvReturns = {"buffer", "count"}
SYMMETRY PeerSymmetry
INVARIANTS TypeOK ResultIsOwn NumbersDistinct SocketIsOwn OpenIsHeld RowsWereGranted ToldOnce JoinedAreOver
PROPERTY HandsOutAsRegistry
CHECK_DEADLOCK FALSE
