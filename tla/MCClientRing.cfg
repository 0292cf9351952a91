CONSTANTS
  NumCPU = 3
  MaxPacketEntry = 2
  MaxTemplateSize = 3
  EthHlen = 2
  SampleLen = 3
  FrameBound = 3
  EntryLists <- MCEntryLists
  MaxCount = 3
  MaxParallelism = 2
  OnlineCPUs <- MCOnlineCPUs
  RepeatModulus = 16
  Responses <- MCResponses
  SignalBound = 2
  InterruptBound = 0
SPECIFICATION ClientSpec
INVARIANTS EvenCountIsSent
