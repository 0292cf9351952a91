CONSTANTS
  NumCPU = 2
  FrameLen = 2
  CounterMod = 64
  FrameBound = 2
SPECIFICATION Spec
INVARIANTS TypeOK StatsInv ReportedIsReal BytesKeepUp
PROPERTIES CancelEndsShowStats
CHECK_DEADLOCK FALSE
