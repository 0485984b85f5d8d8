SPECIFICATION Spec
CONSTANTS
  alpha = alpha
  hash = hash
  empty_segment = empty_segment
  c1 = c1
  s1 = s1
  s2 = s2
  Nul = Nul
  Header = Header
  Text = Text
  None = None
  Radix = 10
  Names <- MCNames
  Wildcard <- Hash
  NoId <- EmptyId
  SizeModulus = 16
  Sessions = {s1, s2}
  RespSessions = {}
  Topics <- TopicAndPrefix
  ClientIds <- OneClient
  AckSeqs = {1}
  MAX = 1
  MAX_STORED_MESSAGES = 1
  COMPACT_EVERY = 1
  MAX_CONNECTIONS = 2
  MaxPublishes = 1
  MaxSent = 0
  MaxFailures = 0
  MaxCrashes = 0
SYMMETRY SessionSymmetry
PROPERTY ClientReplaySkipsAcked
