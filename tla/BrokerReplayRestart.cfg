SPECIFICATION Spec
CONSTANTS
  alpha = alpha
  hash = hash
  empty_segment = empty_segment
  c1 = c1
  s1 = s1
  Nul = Nul
  Header = Header
  Text = Text
  None = None
  Radix = 10
  Names <- MCNames
  Wildcard <- Hash
  NoId <- EmptyId
  SizeModulus = 16
  Sessions = {s1}
  RespSessions = {}
  Topics <- TopicAndPrefix
  ClientIds <- OneClient
  AckSeqs = {1, 2}
  MAX = 2
  MAX_STORED_MESSAGES = 2
  COMPACT_EVERY = 1
  MAX_CONNECTIONS = 1
  MaxPublishes = 3
  MaxSent = 0
  MaxFailures = 0
  MaxCrashes = 1
INVARIANT TypeOK
PROPERTY ClientReplaySkipsAcked
INVARIANT AcksSurviveRestart
