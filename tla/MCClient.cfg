CONSTANTS
  NumCPU = 3
  MaxPacketEntry = 1
  MaxTemplateSize = 3
  EthHlen = 2
  SampleLen = 3
  FrameBound = 8
  EntryLists <- MCEntryLists
  MaxCount = 4
  MaxParallelism = 3
  OnlineCPUs <- MCOnlineCPUs
  RepeatModulus = 16
  Responses <- MCResponses
  SignalBound = 2
  InterruptBound = 1
SPECIFICATION ClientSpec
INVARIANTS ClientTypeOK ClientInv ShutdownInv OneRunPerCPU OkRunHasSent SharesAreSent CleanReturn EverythingCleaned
PROPERTIES SignalEndsTheClient Spec
