SPECIFICATION Spec
CONSTANTS
  alpha = alpha
  hash = hash
  empty_segment = empty_segment
  c1 = c1
  s1 = s1
  s2 = s2
  s3 = s3
  Nul = Nul
  Header = Header
  Text = Text
  None = None
  Radix = 10
  Names <- MCNames
  Wildcard <- Hash
  NoId <- EmptyId
  SizeModulus = 16
  Sessions = {s1, s2, s3}
  RespSessions = {s1, s2, s3}
  Topics <- TopicAndWildcard
  ClientIds <- NoClients
  AckSeqs = {}
  MAX = 2
  MAX_STORED_MESSAGES = 2
  COMPACT_EVERY = 2
  MAX_CONNECTIONS = 2
  MaxPublishes = 2
  MaxSent = 3
  MaxFailures = 0
  MaxCrashes = 0
SYMMETRY SessionSymmetry
INVARIANT LiveOrder
INVARIANT NoLiveMessageLost
INVARIANT NoDanglingSubscriber
INVARIANT ConnectionsAccounted
