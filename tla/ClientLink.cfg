SPECIFICATION Spec
CONSTANTS
  pub = pub
  sub = sub
  other = other
  Conns = {pub, sub}
  Programs <- LinkPrograms
  Pieces = {4}
  Nul = 0
  Radix = 10
  MAX_STORED_MESSAGES = 5
  SeqWidth = 2
  TopicWidth = 1
  PayloadWidth = 1
  KeyIdWidth = 1
  SIGNATURE_SIZE = 1
  MAX_TOPIC_LEN = 3
  MAX_PAYLOAD_LEN = 4
  MAX_BULK_LEN = 12
  MAX_ARRAY_COUNT = 3
  RECV_SIZE = 14
  REPLY_SIZE = 8
  MAX_RECV_BUFFER = 44
  IDLE_TICKS = 2
CHECK_DEADLOCK FALSE
INVARIANT TypeOK
INVARIANT CapSparesRequests
INVARIANT ReturnMeansHandled
INVARIANT CallbacksInOrder
INVARIANT AckFollowsCallback
PROPERTY ImplementsRequestChannel
PROPERTY CallsReturn
PROPERTY AllCalledBack
