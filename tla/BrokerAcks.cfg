SPECIFICATION Spec
CONSTANTS
  alpha = alpha
  hash = hash
  empty_segment = empty_segment
  c1 = c1
  s1 = s1
  s2 = s2
  Nul = Nul
  Header = Header
  Text = Text
  None = None
  Radix = 10
  Names <- MCNames
  Wildcard <- Hash
  NoId <- EmptyId
  SizeModulus = 16
  Sessions = {s1, s2}
  RespSessions = {}
  Topics <- OneTopic
  ClientIds <- NestedClients
  AckSeqs = {1, 2}
  MAX = 1
  MAX_STORED_MESSAGES = 1
  COMPACT_EVERY = 1
  MAX_CONNECTIONS = 2
  MaxPublishes = 0
  MaxSent = 4
  MaxFailures = 1
  MaxCrashes = 0
SYMMETRY SessionSymmetry
INVARIANT AckCacheCoherent
INVARIANT AckIsolation
PROPERTY LastAckNeverFalls
