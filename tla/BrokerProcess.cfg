SPECIFICATION Spec
CONSTANTS
  s1 = s1
  s2 = s2
  None = None
  Sessions = {s1, s2}
  Requests <- ProcessRequests
  Leavers = {s2}
  PARTS = 2
  SOCK_BUF = 1
  MaxRows = 1
CHECK_DEADLOCK FALSE
INVARIANT TypeOK
INVARIANT SaveBeforeSeen
PROPERTY FramesWhole
PROPERTY RequestsComplete
PROPERTY ShutdownCompletes
