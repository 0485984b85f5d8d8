SPECIFICATION Spec
CONSTANTS
  alpha = alpha
  hash = hash
  empty_segment = empty_segment
  c1 = c1
  s1 = s1
  Nul = Nul
  Header = Header
  Text = Text
  None = None
  Radix = 10
  Names <- MCNames
  Wildcard <- Hash
  NoId <- EmptyId
  SizeModulus = 16
  Sessions = {s1}
  RespSessions = {}
  Topics <- OneTopic
  ClientIds <- NoClients
  AckSeqs = {}
  MAX = 1
  MAX_STORED_MESSAGES = 2
  COMPACT_EVERY = 2
  MAX_CONNECTIONS = 1
  MaxPublishes = 1
  MaxSent = 4
  MaxFailures = 0
  MaxCrashes = 0
INVARIANT HistoryReplayed
