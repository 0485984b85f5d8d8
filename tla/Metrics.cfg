SPECIFICATION Spec
CONSTANTS
  s1 = s1
  s2 = s2
  t1 = t1
  t2 = t2
  Sessions = {s1, s2}
  Topics = {t1, t2}
  BOUNDS <- MCBounds
  Latencies <- MCLatencies
  MaxCalls = 5
  MaxPublishes = 2
SYMMETRY Symmetry
INVARIANTS
  TypeOK
  GaugesMatchBroker
  ConnectionsBalance
  HistogramExact
  PageCoherent
  TopicGaugeExact
CHECK_DEADLOCK FALSE
