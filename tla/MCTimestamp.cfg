\* Four clocks, some 3600 instants, each reported in the four units.
CONSTANTS
  K = 20
  G = 2
  W <- EightMillion
  Clocks <- MCClocks
  Instants <- MCInstants
SPECIFICATION MetricSpec
INVARIANTS TimeIsRead
CHECK_DEADLOCK FALSE
